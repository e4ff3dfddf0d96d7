------------------------------- MODULE BusSniffer -------------------------------
(***************************************************************************)
(* The passive mode of the scanner: it listens to the traffic of another   *)
(* master on the bus.  A response does not carry an address; the listener  *)
(* places its words where the last request to the same slave asked for.    *)
(* A frame that is garbled, or that runs into the next one, fails its CRC  *)
(* and is dropped.                                                         *)
(*                                                                         *)
(* The value of a word is the register it was read from, so that a word    *)
(* placed at the wrong address can be told.                                *)
(***************************************************************************)
EXTENDS Naturals, FiniteSets

CONSTANTS
  Slaves, Tables,     \* the function code names the table
  Polls,              \* the runs [start, count] that the master reads
  MaxPolls,           \* bound on requests
  None

\* What the constants must satisfy; instances assume it.
SnifferAssumption ==
  /\ Polls \subseteq [start : Nat, count : Nat] /\ MaxPolls \in Nat
  /\ None \notin [slave : Slaves, table : Tables, run : Polls]

VARIABLES
  asked,      \* the request on the bus that awaits its answer, or None
  pending,    \* [slave -> the last request heard from it, or None]
  mapped,     \* [<<table, address>> -> the register the word there comes from]
  polls,      \* history: requests sent
  unheard,    \* history: requests the listener did not hear
  unanswered  \* history: requests whose answer it did not hear, or that got none

snifferVars == <<asked, pending, mapped, polls, unheard, unanswered>>

Requests  == [slave : Slaves, table : Tables, run : Polls]
Words(r)  == r.run.start..(r.run.start + r.run.count - 1)
Source(r, a) == [slave |-> r.slave, table |-> r.table, address |-> a]

TypeOK ==
  /\ asked \in Requests \union {None}
  /\ pending \in [Slaves -> Requests \union {None}]
  /\ DOMAIN mapped \subseteq Tables \X Nat
  /\ polls \in 0..MaxPolls /\ unheard \in 0..polls /\ unanswered \in 0..polls

Init ==
  /\ asked = None
  /\ pending = [s \in Slaves |-> None]
  /\ mapped = << >>
  /\ polls = 0 /\ unheard = 0 /\ unanswered = 0

\* A request frame replaces what was pending for its slave.
Request(r) ==
  /\ asked = None /\ polls < MaxPolls
  /\ asked' = r /\ polls' = polls + 1
  /\ \/ pending' = [pending EXCEPT ![r.slave] = r] /\ UNCHANGED unheard
     \/ unheard' = unheard + 1 /\ UNCHANGED pending
  /\ UNCHANGED <<mapped, unanswered>>

\* Mutant: the request is kept for later responses.
ResponseKeepsPending ==
  LET r    == asked
      req  == pending[r.slave]
      offset(a) == a - req.run.start
      got  == {a \in Words(req) : offset(a) < r.run.count}
  IN
  /\ asked # None /\ asked' = None
  /\ IF req = None \/ req.table # r.table THEN UNCHANGED mapped
     ELSE mapped' = [x \in DOMAIN mapped \union ({r.table} \X got) |->
                      IF x \in {r.table} \X got
                      THEN Source(r, r.run.start + offset(x[2])) ELSE mapped[x]]
  /\ UNCHANGED <<pending, polls, unheard, unanswered>>

\* A response takes the pending request; it is placed if the function codes agree, as many words
\* of it as were asked for.
Response ==
  LET r    == asked
      req  == pending[r.slave]
      offset(a) == a - req.run.start
      got  == {a \in Words(req) : offset(a) < r.run.count}
  IN
  /\ asked # None /\ asked' = None
  /\ pending' = [pending EXCEPT ![r.slave] = None]
  /\ IF req = None \/ req.table # r.table THEN UNCHANGED mapped
     ELSE mapped' = [x \in DOMAIN mapped \union ({r.table} \X got) |->
                      IF x \in {r.table} \X got
                      THEN Source(r, r.run.start + offset(x[2])) ELSE mapped[x]]
  /\ UNCHANGED <<polls, unheard, unanswered>>

\* The answer is garbled, an exception, or does not come: nothing is taken from pending.
NoResponse ==
  /\ asked # None /\ asked' = None
  /\ unanswered' = unanswered + 1
  /\ UNCHANGED <<pending, mapped, polls, unheard>>

Next == (\E r \in Requests : Request(r)) \/ Response \/ NoResponse

Spec == Init /\ [][Next]_snifferVars
----------------------------------------------------------------------------
\* A word is placed at the address of the register it was read from.  It takes two mishaps to be
\* wrong: a request whose answer was not heard, which stays pending, and a later request that was
\* not heard itself, so that its answer is taken for that of the first.
PlacedRight ==
  unheard = 0 \/ unanswered = 0 =>
    \A x \in DOMAIN mapped : mapped[x].table = x[1] /\ mapped[x].address = x[2]
================================================================================
