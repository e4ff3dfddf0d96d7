------------------------------ MODULE InverterClock ------------------------------
(***************************************************************************)
(* The inverter's clock and its correction (main.py sync_device_clock,     *)
(* devices/base.py sync_clock, devices/yaml_profile.py).  The time is kept *)
(* in three registers, two digits in each: year and month, day and hour,   *)
(* minute and second.  A sync encodes the time once and writes the         *)
(* registers one by one, the highest first, while the clock runs.          *)
(*                                                                         *)
(* A time is a number of ticks; its registers are its digits to the base   *)
(* Base.  The inverter adds a tick to what its registers hold.             *)
(***************************************************************************)
EXTENDS Integers, Sequences, FiniteSets

CONSTANTS
  Clients,
  Base,        \* ticks that one register counts
  Times,       \* initial times of the system
  Skews,       \* initial differences of the inverter's clock
  Writable,    \* the profile's clock section says so
  MaxTicks, MaxSyncs, MaxFaults,   \* bounds
  None

VARIABLES
  now,       \* the system's clock
  rtc,       \* the inverter's clock
  job,       \* [client -> what its request is about to do]
  answer,    \* [client -> its last answer]
  ticks, syncs, faults

clockVars == <<now, rtc, job, answer, ticks, syncs, faults>>

Registers == 1..3
Weight(r) == IF r = 1 THEN Base * Base ELSE IF r = 2 THEN Base ELSE 1
Limit     == Base * Base * Base
Digit(t, r) == (t \div Weight(r)) % Base

\* A request: the time it sets, the register it writes next, whether it was disturbed, and whether the
\* inverter ignored a write (both history).
Job == [time : 0..Limit - 1, next : 1..4, spoilt : BOOLEAN, ignored : BOOLEAN]

ClockAssumption ==
  /\ Base \in Nat \ {0, 1} /\ Writable \in BOOLEAN
  /\ {MaxTicks, MaxSyncs, MaxFaults} \subseteq Nat /\ Times \subseteq Nat /\ Skews \subseteq Int
  /\ None \notin Job /\ None # "ok"
  /\ \A t \in Times, s \in Skews : t \in 0..Limit - 1 - MaxTicks /\ t + s \in 0..Limit - 1 - MaxTicks

Unanswered == [status |-> None]
Refused(status) == [status |-> status]

TypeOK ==
  /\ now \in 0..Limit - 1 /\ rtc \in 0..Limit - 1
  /\ job \in [Clients -> Job \union {None}]
  /\ \A c \in Clients : answer[c].status \in {None, "400", "502", "500", "ok"}
  /\ ticks \in 0..MaxTicks /\ syncs \in 0..MaxSyncs /\ faults \in 0..MaxFaults

Init ==
  /\ now \in Times /\ \E s \in Skews : rtc = now + s
  /\ job = [c \in Clients |-> None] /\ answer = [c \in Clients |-> Unanswered]
  /\ ticks = 0 /\ syncs = 0 /\ faults = 0

Busy == {c \in Clients : job[c] # None}

\* A carry out of a register that has yet to be written reaches one that has been: history.
Carried(c) ==
  job[c].spoilt \/ \E r \in 1..(job[c].next - 1) :
    /\ job[c].next <= 3
    /\ Digit(rtc + 1, r) # Digit(rtc, r)

Tick ==
  /\ ticks < MaxTicks /\ ticks' = ticks + 1
  /\ now' = now + 1 /\ rtc' = (rtc + 1) % Limit
  /\ job' = [c \in Clients |-> IF job[c] = None THEN None
                               ELSE [job[c] EXCEPT !.spoilt = Carried(c)]]
  /\ UNCHANGED <<answer, syncs, faults>>

\* The request reads the system's clock, once; encode_clock.  Two requests at once disturb each
\* other: history.
Sync(c) ==
  /\ job[c] = None /\ syncs < MaxSyncs /\ syncs' = syncs + 1
  /\ IF ~Writable
     THEN answer' = [answer EXCEPT ![c] = Refused("400")] /\ UNCHANGED job
     ELSE /\ answer' = [answer EXCEPT ![c] = Unanswered]
          /\ job' = [d \in Clients |->
               IF d = c THEN [time |-> now, next |-> 1, spoilt |-> Busy # {}, ignored |-> FALSE]
               ELSE IF job[d] = None THEN None ELSE [job[d] EXCEPT !.spoilt = TRUE]]
  /\ UNCHANGED <<now, rtc, ticks, faults>>

\* Register r holds its digit of the time; the others go on from what they hold.
WithDigit(t, r, from) == t + (Digit(from, r) - Digit(t, r)) * Weight(r)

\* The write is acknowledged; the inverter may ignore it all the same.
WriteRegister(c) ==
  /\ job[c] # None /\ job[c].next \in Registers
  /\ LET asked == WithDigit(rtc, job[c].next, job[c].time)
     IN  /\ rtc' \in {rtc, asked}
         /\ job' = [job EXCEPT ![c].next = @ + 1, ![c].ignored = @ \/ rtc' # asked]
  /\ UNCHANGED <<now, answer, ticks, syncs, faults>>

\* Mutant: a register that cannot be written is passed over.
WriteFailsUnseen(c) ==
  /\ job[c] # None /\ job[c].next \in Registers /\ faults < MaxFaults
  /\ faults' = faults + 1
  /\ job' = [job EXCEPT ![c].next = @ + 1]
  /\ UNCHANGED <<now, rtc, answer, ticks, syncs>>

\* The transport gives up, though the register may have been written; those before it are.
WriteFails(c) ==
  /\ job[c] # None /\ job[c].next \in Registers /\ faults < MaxFaults
  /\ faults' = faults + 1
  /\ rtc' \in {rtc, WithDigit(rtc, job[c].next, job[c].time)}
  /\ answer' = [answer EXCEPT ![c] = Refused("502")]
  /\ job' = [d \in Clients |-> IF d = c \/ job[d] = None THEN None ELSE [job[d] EXCEPT !.spoilt = TRUE]]
  /\ UNCHANGED <<now, ticks, syncs>>

\* read_clock, in one transaction, and the answer with the drift that is left.  Whatever the drift
\* is, the answer is ok.  (Registers that are no date are read as no time, and the drift is then
\* left out.)
Answer(c) ==
  /\ job[c] # None /\ job[c].next = 4
  /\ answer' = [answer EXCEPT ![c] = [status |-> "ok", drift |-> rtc - now,
                                      took |-> now - job[c].time, spoilt |-> job[c].spoilt,
                                      ignored |-> job[c].ignored]]
  /\ job' = [job EXCEPT ![c] = None]
  /\ UNCHANGED <<now, rtc, ticks, syncs, faults>>

\* The read-back fails; nothing catches that.
ReadBackFails(c) ==
  /\ job[c] # None /\ job[c].next = 4 /\ faults < MaxFaults
  /\ faults' = faults + 1
  /\ answer' = [answer EXCEPT ![c] = Refused("500")]
  /\ job' = [job EXCEPT ![c] = None]
  /\ UNCHANGED <<now, rtc, ticks, syncs>>

Next ==
  \/ Tick
  \/ \E c \in Clients : Sync(c) \/ WriteRegister(c) \/ WriteFails(c) \/ Answer(c) \/ ReadBackFails(c)

Spec == Init /\ [][Next]_clockVars
----------------------------------------------------------------------------
\* A sync that is answered with success leaves the clock late by no more than the request took,
\* however far off it was and whichever digits change meanwhile: later registers cannot undo the
\* earlier ones.  Three things may spoil it without the answer being any other: the inverter
\* acknowledges a write and ignores it, its own clock carries into a register that was already
\* written, or another sync runs at the same time.  The drift read back is passed on and not looked
\* at (main.py:876-878).
SyncSetsClock ==
  \A c \in Clients :
    answer[c].status = "ok" /\ ~answer[c].spoilt /\ ~answer[c].ignored =>
      -answer[c].drift \in 0..answer[c].took
=================================================================================
