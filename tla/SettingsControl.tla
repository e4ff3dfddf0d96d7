---------------------------- MODULE SettingsControl ----------------------------
(***************************************************************************)
(* The settings write path (backend/app/control.py, apply_settings) run by *)
(* several writers at once: requests of PUT /api/devices/{id}/settings and *)
(* the automation engine.  Nothing serialises them: each is an asyncio     *)
(* task that may be overtaken at every await, and every register read or   *)
(* write is one.                                                           *)
(*                                                                         *)
(* A settings field is a LANE: a bit-field of a holding register, or the   *)
(* whole register when no other field shares its address.  Fields that     *)
(* share an address (regs 280, 326 and 274..279 of profiles/deye-base.yaml)*)
(* are several lanes of one address.  Only whole registers travel on the   *)
(* wire, so a write of one lane rewrites its neighbours from the copy the  *)
(* writer read earlier.                                                    *)
(***************************************************************************)
EXTENDS Integers, FiniteSetsExt

CONSTANTS
  Writers,       \* the tasks that run apply_settings
  AutoWriters,   \* those of them that are the automation engine
  Lanes,         \* bit-fields of the settings registers
  AddrOf,        \* lane -> holding-register address
  BlockOf,       \* lane -> number of the read transaction that covers it
  Writable,      \* lanes of fields the profile declares writable
  Shown,         \* lanes some settings field decodes; the others are stray bits
  PanelLanes,    \* lanes the inverter itself may change (front panel, BMS)
  Vals,          \* values a lane can hold
  Factory,       \* lane -> the value it holds initially
  Requests,      \* lane -> wanted value, the bodies a writer may submit
  MaxRequests,   \* bound: writer -> number of requests it submits
  Retries,       \* attempts per Modbus transaction (modbus_rtu.py, `retries`)
  BadValue,      \* a value the schema rejects
  WideValue,     \* a value the schema accepts and the register cannot hold
  Unasked,       \* the request does not name the lane
  Unread,        \* the lane's block has not been read in this gather
  NoEtag         \* the request carries no If-Match

ASSUME ConstantsAssumption ==
  /\ AutoWriters \subseteq Writers
  /\ Writable \subseteq Shown /\ Shown \subseteq Lanes /\ PanelLanes \subseteq Lanes
  /\ AddrOf \in [Lanes -> Int] /\ BlockOf \in [Lanes -> Int]
  /\ Factory \in [Lanes -> Vals]
  /\ Unasked \notin Vals /\ BadValue \notin Vals /\ WideValue \notin Vals
  /\ Unasked # BadValue /\ Unasked # WideValue /\ BadValue # WideValue
  /\ Unread \notin Vals
  /\ NoEtag \notin [Shown -> Vals \union {Unread}]
  /\ Requests \subseteq [Lanes -> Vals \union {BadValue, WideValue, Unasked}]
  /\ Retries \in Nat \ {0} /\ MaxRequests \in [Writers -> Nat]

VARIABLES
  regs,      \* the inverter's settings registers, by lane
  pc,        \* where each writer's task stands
  left,      \* requests the writer may still submit
  want,      \* the body the writer submitted
  etag,      \* the If-Match it will send, or sent
  buf,       \* the raw map the current gather has filled so far
  todo,      \* addresses still to be written
  attempt,   \* failed attempts of the current write transaction
  outcome,   \* how the request ended
  audit,     \* the audit row of the request
  touched,   \* history: addresses this request has changed on the device
  held,      \* history: asked lanes seen holding the asked value since the write phase began
  dirty      \* history: lanes another actor changed since this gather read them

vars == <<regs, pc, left, want, etag, buf, todo, attempt, outcome, audit, touched, held, dirty>>

Gathering == {"get", "before", "raw", "after"}
PCs       == Gathering \union {"idle", "ready", "write", "audit", "done"}
Outcomes  == {"none", "invalid", "stale", "notwritable", "error", "ok", "mismatch"}
Results   == {"none", "lost", "error", "ok", "mismatch"}
Refused   == {"invalid", "stale", "notwritable"}

NoWant    == [l \in Lanes |-> Unasked]
Blank     == [l \in Lanes |-> Unread]
NoEntry   == [result |-> "none", changes |-> {}]

Asked(w)     == {l \in Lanes : want[w][l] # Unasked}
AddrsOf(L)   == {AddrOf[l] : l \in L}
Decoded(b)   == [l \in Shown |-> b[l]]      \* settings_etag, with no collisions
Complete(w)  == \A l \in Lanes : buf[w][l] # Unread

\* validate_settings: at least one field, every field known, writable and in bounds.
Valid(q) == LET fields == {l \in Lanes : q[l] # Unasked}
            IN  /\ fields # {}
                /\ fields \subseteq Writable
                /\ \A l \in fields : q[l] # BadValue

\* Mutant: the fields are encoded against a zero register instead of the raw map.
EncodedFromZero(w) == [l \in Lanes |-> IF want[w][l] # Unasked THEN want[w][l] ELSE 0]

\* encode_settings: the register values, read-modify-write against the raw map.
Encoded(w) == [l \in Lanes |-> IF want[w][l] # Unasked THEN want[w][l] ELSE buf[w][l]]

\* writable_addresses: the write allow-list.
AllowList == AddrsOf(Writable)

\* contiguous_runs: the first run of consecutive addresses of a set.
FirstRun(S) == {a \in S : Min(S)..a \subseteq S}

\* Mutant: read-back verification compares nothing.
MismatchesNone(w) == {}

\* verify_settings: the asked lanes whose read-back value is not the asked one.
Mismatches(w) == {l \in Asked(w) : buf[w][l] # want[w][l]}

Init ==
  /\ regs    = Factory
  /\ pc      = [w \in Writers |-> "idle"]
  /\ left    = [w \in Writers |-> MaxRequests[w]]
  /\ want    = [w \in Writers |-> NoWant]
  /\ etag    = [w \in Writers |-> NoEtag]
  /\ buf     = [w \in Writers |-> Blank]
  /\ todo    = [w \in Writers |-> {}]
  /\ attempt = [w \in Writers |-> 0]
  /\ outcome = [w \in Writers |-> "none"]
  /\ audit   = [w \in Writers |-> NoEntry]
  /\ touched = [w \in Writers |-> {}]
  /\ held    = [w \in Writers |-> {}]
  /\ dirty   = [w \in Writers |-> {}]

Goto(w, s) == pc' = [pc EXCEPT ![w] = s]
End(w, o)  == outcome' = [outcome EXCEPT ![w] = o]

\* Start a gather (Device._gather begins with an empty raw map).
Fresh(w)   == /\ buf'   = [buf EXCEPT ![w] = Blank]
              /\ dirty' = [dirty EXCEPT ![w] = {}]

--------------------------------------------------------------------------------
(* The task's steps, in the order of the code.                             *)

\* GET /settings: a client reads the settings it will edit.
Browse(w) ==
  /\ w \notin AutoWriters
  /\ pc[w] = "idle"
  /\ Goto(w, "get") /\ Fresh(w)
  /\ UNCHANGED <<left, regs, want, etag, todo, attempt, outcome, audit, touched, held>>

\* One read transaction of a gather, blocks in address order.
ReadBlock(w) ==
  /\ pc[w] \in Gathering
  /\ ~Complete(w)
  /\ LET next  == Min({BlockOf[l] : l \in {m \in Lanes : buf[w][m] = Unread}})
         block == {l \in Lanes : BlockOf[l] = next}
     IN  /\ buf'   = [buf EXCEPT ![w] = [l \in Lanes |-> IF l \in block THEN regs[l] ELSE @[l]]]
         /\ dirty' = [dirty EXCEPT ![w] = @ \ block]
  /\ UNCHANGED <<left, regs, pc, want, etag, todo, attempt, outcome, audit, touched, held>>

\* A read that fails after its retries: a 500 for the GET, a TransportError in apply_settings.
ReadFails(w) ==
  /\ pc[w] \in Gathering
  /\ ~Complete(w)
  /\ IF pc[w] = "get"
     THEN Goto(w, "idle") /\ UNCHANGED outcome
     ELSE Goto(w, "audit") /\ End(w, "error")
  /\ Fresh(w)
  /\ UNCHANGED <<left, regs, want, etag, todo, attempt, audit, touched, held>>

FinishGet(w) ==
  /\ pc[w] = "get"
  /\ Complete(w)
  /\ etag' = [etag EXCEPT ![w] = Decoded(buf[w])]
  /\ Goto(w, "ready") /\ Fresh(w)
  /\ UNCHANGED <<left, regs, want, todo, attempt, outcome, audit, touched, held>>

\* A new request: PUT with or without If-Match, or an automation apply (never with one).
Submit(w, q, conditional) ==
  /\ pc[w] \in {"idle", "ready"}
  /\ left[w] > 0
  /\ left'    = [left EXCEPT ![w] = @ - 1]
  /\ conditional => etag[w] # NoEtag /\ w \notin AutoWriters
  /\ want'    = [want EXCEPT ![w] = q]
  /\ etag'    = [etag EXCEPT ![w] = IF conditional THEN @ ELSE NoEtag]
  /\ IF Valid(q)
     THEN Goto(w, "before") /\ End(w, "none")
     ELSE Goto(w, IF w \in AutoWriters THEN "audit" ELSE "done") /\ End(w, "invalid")
  /\ audit'   = [audit EXCEPT ![w] = NoEntry]
  /\ touched' = [touched EXCEPT ![w] = {}]
  /\ Fresh(w)
  /\ UNCHANGED <<regs, todo, attempt, held>>

\* The If-Match guard over the settings just read; a 412 carries the current etag.
CheckEtag(w) ==
  /\ pc[w] = "before"
  /\ Complete(w)
  /\ IF etag[w] # NoEtag /\ etag[w] # Decoded(buf[w])
     THEN /\ Goto(w, "done") /\ End(w, "stale")
          /\ etag' = [etag EXCEPT ![w] = Decoded(buf[w])]
     ELSE /\ Goto(w, "raw")
          /\ UNCHANGED <<outcome, etag>>
  /\ Fresh(w)
  /\ UNCHANGED <<left, regs, want, todo, attempt, audit, touched, held>>

\* Values that fit their registers, at addresses of the allow-list.
Fits(w)   == \A l \in Asked(w) : want[w][l] # WideValue
Listed(w) == AddrsOf(Asked(w)) \subseteq AllowList

\* encode_settings against the second read rejects the request, or the allow-list does.
RejectEncoded(w) ==
  /\ pc[w] = "raw"
  /\ Complete(w)
  /\ ~(Fits(w) /\ Listed(w))
  /\ End(w, IF Fits(w) THEN "notwritable" ELSE "invalid")
  /\ Goto(w, IF w \in AutoWriters THEN "audit" ELSE "done")
  /\ Fresh(w)
  /\ UNCHANGED <<left, regs, want, etag, todo, attempt, audit, touched, held>>

\* Encoded: the asked registers are to be written, run by run.
Encode(w) ==
  /\ pc[w] = "raw"
  /\ Complete(w)
  /\ Fits(w) /\ Listed(w)
  /\ Goto(w, "write")
  /\ todo' = [todo EXCEPT ![w] = AddrsOf(Asked(w))]
  /\ held' = [held EXCEPT ![w] = {l \in Asked(w) : regs[l] = want[w][l]}]
  /\ UNCHANGED <<left, regs, want, etag, buf, attempt, outcome, audit, touched, dirty>>

\* What the others see of a step of w that may have changed the registers.
Observed(w) ==
  LET changed == {l \in Lanes : regs'[l] # regs[l]}
  IN /\ held' = [v \in Writers |-> IF pc[v] \in {"write", "after"}
                                   THEN held[v] \union {l \in Asked(v) : regs'[l] = want[v][l]}
                                   ELSE held[v]]
     /\ dirty' = [v \in Writers |-> IF v # w /\ pc[v] \in {"raw", "write"}
                                    THEN dirty[v] \union changed
                                    ELSE dirty[v]]

\* One attempt of write_registers for the next run reaches the device, which may or may
\* not take the values (an inverter ignores a write its state does not allow).
SendRun(w) ==
  LET run == FirstRun(todo[w])
  IN \/ /\ regs'    = [l \in Lanes |-> IF AddrOf[l] \in run THEN Encoded(w)[l] ELSE regs[l]]
        /\ touched' = [touched EXCEPT ![w] = @ \union run]
     \/ UNCHANGED <<regs, touched>>

WriteAcked(w) ==
  /\ pc[w] = "write"
  /\ SendRun(w) /\ Observed(w)
  /\ todo'    = [todo EXCEPT ![w] = @ \ FirstRun(@)]
  /\ attempt' = [attempt EXCEPT ![w] = 0]
  /\ IF todo'[w] = {}
     THEN Goto(w, "after") /\ buf' = [buf EXCEPT ![w] = Blank]
     ELSE UNCHANGED <<pc, buf>>
  /\ UNCHANGED <<left, want, etag, outcome, audit>>

\* Mutant: a retry is not counted.
WriteRetriedUncounted(w) ==
  /\ pc[w] = "write"
  /\ attempt[w] + 1 < Retries
  /\ SendRun(w) /\ Observed(w)
  /\ UNCHANGED <<left, pc, want, etag, buf, todo, attempt, outcome, audit>>

\* No usable reply (timeout, exception response): _with_retries sends it again.
WriteRetried(w) ==
  /\ pc[w] = "write"
  /\ attempt[w] + 1 < Retries
  /\ SendRun(w) /\ Observed(w)
  /\ attempt' = [attempt EXCEPT ![w] = @ + 1]
  /\ UNCHANGED <<left, pc, want, etag, buf, todo, outcome, audit>>

\* Mutant: the error is raised before the audit row is written.
WriteFailedUnaudited(w) ==
  /\ pc[w] = "write"
  /\ attempt[w] + 1 = Retries
  /\ SendRun(w) /\ Observed(w)
  /\ attempt' = [attempt EXCEPT ![w] = 0]
  /\ todo'    = [todo EXCEPT ![w] = {}]
  /\ buf'     = [buf EXCEPT ![w] = Blank]
  /\ Goto(w, "done") /\ End(w, "error")
  /\ UNCHANGED <<left, want, etag, audit>>

\* The last attempt fails too: TransportError, the remaining runs are never sent.
WriteFailed(w) ==
  /\ pc[w] = "write"
  /\ attempt[w] + 1 = Retries
  /\ SendRun(w) /\ Observed(w)
  /\ attempt' = [attempt EXCEPT ![w] = 0]
  /\ todo'    = [todo EXCEPT ![w] = {}]
  /\ buf'     = [buf EXCEPT ![w] = Blank]
  /\ Goto(w, "audit") /\ End(w, "error")
  /\ UNCHANGED <<left, want, etag, audit>>

\* Mutant: a failed verification is answered like a refusal.
VerifyRefuses(w) ==
  /\ pc[w] = "after"
  /\ Complete(w)
  /\ Goto(w, "audit")
  /\ End(w, IF Mismatches(w) = {} THEN "ok" ELSE "invalid")
  /\ etag' = [etag EXCEPT ![w] = Decoded(buf[w])]
  /\ Fresh(w)
  /\ UNCHANGED <<left, regs, want, todo, attempt, audit, touched, held>>

\* Read-back verification; the response carries the etag of the after-state.
Verify(w) ==
  /\ pc[w] = "after"
  /\ Complete(w)
  /\ Goto(w, "audit")
  /\ End(w, IF Mismatches(w) = {} THEN "ok" ELSE "mismatch")
  /\ etag' = [etag EXCEPT ![w] = Decoded(buf[w])]
  /\ Fresh(w)
  /\ UNCHANGED <<left, regs, want, todo, attempt, audit, touched, held>>

\* The audit row: an error row lists no change, and a failing insert is only logged.
Audit(w) ==
  /\ pc[w] = "audit"
  /\ \/ audit' = [audit EXCEPT ![w] =
           IF outcome[w] \in {"ok", "mismatch"}
           THEN [result |-> outcome[w], changes |-> Asked(w)]
           ELSE [result |-> "error", changes |-> {}]]
     \/ audit' = [audit EXCEPT ![w] = [result |-> "lost", changes |-> {}]]
  /\ Goto(w, "done")
  /\ UNCHANGED <<left, regs, want, etag, buf, todo, attempt, outcome, touched, held, dirty>>

\* The client goes on editing with the etag of the response, or the task starts afresh.
Reply(w) ==
  /\ pc[w] = "done"
  /\ LET keeps == outcome[w] \in {"ok", "mismatch", "stale"} /\ w \notin AutoWriters
     IN  /\ Goto(w, IF keeps THEN "ready" ELSE "idle")
         /\ etag' = [etag EXCEPT ![w] = IF keeps THEN @ ELSE NoEtag]
  /\ want'    = [want EXCEPT ![w] = NoWant]
  /\ audit'   = [audit EXCEPT ![w] = NoEntry]
  /\ touched' = [touched EXCEPT ![w] = {}]
  /\ held'    = [held EXCEPT ![w] = {}]
  /\ End(w, "none")
  /\ UNCHANGED <<left, regs, buf, todo, attempt, dirty>>

\* The inverter changes a setting of its own accord.
Panel(l, v) ==
  /\ l \in PanelLanes
  /\ regs[l] # v
  /\ regs' = [regs EXCEPT ![l] = v]
  /\ held' = [w \in Writers |-> IF pc[w] \in {"write", "after"} /\ want[w][l] = v
                                THEN held[w] \union {l} ELSE held[w]]
  /\ dirty' = [w \in Writers |-> IF pc[w] \in {"raw", "write"}
                                 THEN dirty[w] \union {l} ELSE dirty[w]]
  /\ UNCHANGED <<left, pc, want, etag, buf, todo, attempt, outcome, audit, touched>>

--------------------------------------------------------------------------------
\* The steps a task takes once its request is submitted.
Step(w) ==
  \/ ReadBlock(w) \/ ReadFails(w) \/ FinishGet(w) \/ CheckEtag(w)
  \/ RejectEncoded(w) \/ Encode(w)
  \/ WriteAcked(w) \/ WriteRetried(w) \/ WriteFailed(w) \/ Verify(w) \/ Audit(w)

Next ==
  \/ \E w \in Writers : Browse(w) \/ Step(w) \/ Reply(w)
  \/ \E w \in Writers, q \in Requests, conditional \in BOOLEAN : Submit(w, q, conditional)
  \/ \E l \in Lanes, v \in Vals : Panel(l, v)

Spec == Init /\ [][Next]_vars

\* Every await of the task returns: reads and writes time out, retries are bounded.
Fairness == \A w \in Writers : WF_vars(Step(w))
FairSpec == Spec /\ Fairness

--------------------------------------------------------------------------------
(* Properties.                                                             *)

\* Type invariant of the write path.
TypeOK ==
  /\ regs \in [Lanes -> Vals]
  /\ pc \in [Writers -> PCs]
  /\ left \in [Writers -> Nat]
  /\ want \in [Writers -> [Lanes -> Vals \union {BadValue, WideValue, Unasked}]]
  /\ etag \in [Writers -> [Shown -> Vals \union {Unread}] \union {NoEtag}]
  /\ buf \in [Writers -> [Lanes -> Vals \union {Unread}]]
  /\ todo \in [Writers -> SUBSET AddrsOf(Lanes)]
  /\ attempt \in [Writers -> 0..(Retries - 1)]
  /\ outcome \in [Writers -> Outcomes]
  /\ audit \in [Writers -> [result : Results, changes : SUBSET Lanes]]
  /\ touched \in [Writers -> SUBSET AddrsOf(Lanes)]
  /\ held \in [Writers -> SUBSET Lanes]
  /\ dirty \in [Writers -> SUBSET Lanes]

\* plan.md 12 rules 1, 2, 5 and control.py:36 "no register touched": a request that ends in
\* 422, 412 or 400 has changed nothing on the inverter.
RefusedTouchesNothing ==
  \A w \in Writers : outcome[w] \in Refused => touched[w] = {}

\* Lanes that no field may write and the inverter does not change keep their value, however
\* whole-register read-modify-writes of the lanes next to them interleave, tear or retry.
ReadOnlyLanesKept ==
  \A l \in Lanes \ (Writable \union PanelLanes) : regs[l] = Factory[l]

\* Read-back verification (12 rule 4): "ok" is answered only if every asked lane really held
\* the asked value on the inverter at some moment since the write phase began.
OkMeansTaken ==
  \A w \in Writers : outcome[w] = "ok" => Asked(w) \subseteq held[w]

\* 12 rule 6: a finished request that changed a register has an audit row with its result, and
\* unless that is an error the row names a field of every register that was changed.  An error row
\* names none, and a row whose insert fails is lost, which is only logged.
TouchedIsAudited ==
  \A w \in Writers : pc[w] = "done" /\ touched[w] # {} =>
    \/ audit[w].result = "lost"
    \/ /\ audit[w].result = outcome[w]
       /\ outcome[w] # "error" => touched[w] \subseteq AddrsOf(audit[w].changes)

\* yaml_profile.py:262 encode_settings: a write changes a lane it was not asked to change
\* only if someone else changed that lane after the raw read it was encoded against.
CollateralOnlyIfRaced ==
  [][\A w \in Writers :
       WriteAcked(w) \/ WriteRetried(w) \/ WriteFailed(w)
         => \A l \in Lanes \ (Asked(w) \union dirty[w]) : regs'[l] = regs[l]]_vars

\* Every submitted request is answered: no retry or read-back loop runs for ever.
EveryRequestAnswered ==
  \A w \in Writers : pc[w] \in {"before", "raw", "write", "after", "audit"} ~> pc[w] = "done"

\* The path implements the abstract store when one writer runs at a time and no lane the
\* inverter changes itself shares a register with another writable lane: nothing but what valid
\* requests ask for, and what the inverter does, ever changes a setting.
Store == INSTANCE SettingsStore
           WITH ValidRequests <- {q \in Requests : Valid(q) /\ \A l \in Lanes : q[l] # WideValue}
StoreImplemented == Store!Spec

\* plan.md 12 rule 5: "use the settings etag/If-Match so a stale edit can't clobber a change
\* made elsewhere": a conditional request overwrites only the settings its client saw.
StaleEditNeverClobbers ==
  [][\A w \in Writers :
       /\ etag[w] # NoEtag /\ pc[w] = "write" /\ touched[w] = {} /\ touched'[w] # {}
       => Decoded(regs) = etag[w]]_vars
================================================================================
