----------------------------- MODULE AutomationService ---------------------------
(***************************************************************************)
(* The automation service (backend/app/automation/service.py): a scheduler *)
(* and the "Apply now" request evaluate the stored rules, notify, raise    *)
(* alerts and write settings, while API requests edit the rules and the    *)
(* poller publishes readings.  All are asyncio tasks; a step ends where    *)
(* the code awaits.                                                        *)
(***************************************************************************)
EXTENDS AutomationRules

CONSTANTS
  Devices,        \* sequence: the registry's devices
  ApplyTo,        \* devices "Apply now" may name, None for none
  Editors,        \* API requests that edit rules
  InitialRules,   \* the rules stored at first
  RuleBodies,     \* rules an editor may put
  Socs,           \* state-of-charge values a reading may have
  Offline,        \* seconds since the last reading, when there is none
  Now,            \* the rest of the context: hour, weekday, day, rates
  ControlEnabled, \* SOLARVOLT_ENABLE_CONTROL
  MaxTime,        \* bound: the clock stops here
  MaxRuns,        \* bound: task -> runs it makes
  MaxEdits,       \* bound: rule edits
  MaxPolls,       \* bound: published readings
  None

Rules == ToSet(InitialRules) \union RuleBodies

ASSUME AutomationAssumption ==
  /\ InitialRules \in Seq(Rules)
  /\ \A r \in Rules : r.priority \in Int /\ r.acts \in Seq(ToSet(r.acts))

Tasks     == {"scheduler", "manual"}
DeviceSet == ToSet(Devices)

VARIABLES
  stored,     \* app_config: the rules
  snapshot,   \* Poller._latest: device -> state of charge and time of its latest reading
  eldest,     \* the first device in the snapshot: the first one that was ever read
  clock,
  debounce,   \* key of an action -> when it last fired
  inbox,      \* table alerts
  pc, queue, rules, ctx,   \* of a task: step, devices left, rules and context read
  firings,    \* notify and alert actions still to dispatch
  slots,      \* slots still to write
  result,     \* the write whose audit row comes next
  edit,       \* of an editor: the request and the rules it read
  runs, edits, polls,      \* counters of the bounds
  fired,      \* history: key -> when the action last fired
  recorded    \* history: slots of this application written and recorded

vars == <<stored, snapshot, eldest, clock, debounce, inbox, pc, queue, rules, ctx, firings, slots, result,
          edit, runs, edits, polls, fired, recorded>>

tasks    == <<pc, queue, rules, ctx, firings, slots, result, runs, recorded>>
services == <<debounce, inbox, fired>>
world    == <<snapshot, eldest, clock, polls>>
store    == <<stored, edit, edits>>

\* _debounce_key: the device is not part of it.  (The channels of a notification are; they are
\* left out with everything else of the message.)
KeyOf(p) == <<p.rule, p.action.type, p.action.message>>

Init ==
  /\ stored = InitialRules
  /\ snapshot = [d \in DeviceSet |-> None] /\ eldest = None
  /\ clock = 0
  /\ debounce = [k \in {} |-> 0] /\ fired = debounce /\ inbox = {}
  /\ pc = [t \in Tasks |-> "idle"] /\ queue = [t \in Tasks |-> <<>>]
  /\ rules = [t \in Tasks |-> <<>>] /\ ctx = [t \in Tasks |-> None]
  /\ firings = [t \in Tasks |-> <<>>] /\ slots = [t \in Tasks |-> {}]
  /\ result = [t \in Tasks |-> None]
  /\ edit = [e \in Editors |-> None]
  /\ runs = [t \in Tasks |-> 0] /\ edits = 0 /\ polls = 0
  /\ recorded = [t \in Tasks |-> {}]

--------------------------------------------------------------------------------
(* The world: time passes and the poller publishes.                        *)

Tick ==
  /\ clock < MaxTime /\ clock' = clock + 1
  /\ UNCHANGED <<snapshot, eldest, polls, tasks, services, store>>

Publish(d, soc) ==
  /\ polls < MaxPolls /\ polls' = polls + 1
  /\ snapshot' = [snapshot EXCEPT ![d] = [soc |-> soc, at |-> clock]]
  /\ eldest' = IF eldest = None THEN d ELSE eldest
  /\ UNCHANGED <<clock, tasks, services, store>>

--------------------------------------------------------------------------------
(* Editing rules: each request reads the whole list and writes it back.    *)

Without(list, id) ==
  LET kept[n \in 0 .. Len(list)] ==
        IF n = 0 THEN <<>>
        ELSE IF list[n].id = id THEN kept[n - 1] ELSE Append(kept[n - 1], list[n])
  IN kept[Len(list)]

StartPut(e, r) ==
  /\ edit[e] = None /\ edits < MaxEdits
  /\ edits' = edits + 1
  /\ edit' = [edit EXCEPT ![e] = [op |-> "put", rule |-> r, list |-> stored]]
  /\ UNCHANGED <<stored, world, tasks, services>>

\* A request to delete a rule that is not there is answered at once.
StartDelete(e, r) ==
  /\ edit[e] = None /\ edits < MaxEdits
  /\ edits' = edits + 1
  /\ \E i \in DOMAIN stored : stored[i].id = r.id
  /\ edit' = [edit EXCEPT ![e] = [op |-> "delete", rule |-> r, list |-> stored]]
  /\ UNCHANGED <<stored, world, tasks, services>>

FinishEdit(e) ==
  /\ edit[e] # None
  /\ LET kept == Without(edit[e].list, edit[e].rule.id)
     IN stored' = IF edit[e].op = "put" THEN Append(kept, edit[e].rule) ELSE kept
  /\ edit' = [edit EXCEPT ![e] = None]
  /\ UNCHANGED <<edits, world, tasks, services>>

--------------------------------------------------------------------------------
(* A task: the scheduler runs over all devices, "Apply now" over one.  The *)
(* one it writes to is the first, if none is named.                        *)

StartRun(t, devs) ==
  /\ pc[t] = "idle"
  /\ IF t = "scheduler" THEN devs = Devices ELSE ControlEnabled /\ \E d \in ApplyTo : devs = <<d>>
  /\ runs[t] < MaxRuns[t]
  /\ runs' = [runs EXCEPT ![t] = @ + 1]
  /\ queue' = [queue EXCEPT ![t] = devs]
  /\ pc' = [pc EXCEPT ![t] = "list"]
  /\ UNCHANGED <<rules, ctx, firings, slots, result, recorded, services, world, store>>

ReadRules(t) ==
  /\ pc[t] = "list"
  /\ rules' = [rules EXCEPT ![t] = stored]
  /\ pc' = [pc EXCEPT ![t] = "context"]
  /\ UNCHANGED <<queue, ctx, firings, slots, result, runs, recorded, services, world, store>>

\* The metrics the rules see for a device: those of its latest reading, or, if it has none or
\* no device is named, of the eldest device of the snapshot.
MetricsOf(d) ==
  LET from == IF d \in DeviceSet /\ snapshot[d] # None THEN d ELSE eldest
  IN IF from = None THEN [m \in {"stale_s"} |-> Offline]
     ELSE [m \in {"soc", "stale_s"} |->
             IF m = "soc" THEN snapshot[from].soc ELSE clock - snapshot[from].at]

Winners(t) == Settle(Proposals(rules[t], ctx[t]))

\* _context
ContextFor(d) == [metrics |-> MetricsOf(d), at |-> clock] @@ Now

\* The context is read and the rules are evaluated; the decision stands until the end of this
\* application.  (The code awaits the tariff between the two, which is fixed here.)
Decide(t) ==
  /\ pc[t] = "context" /\ pc' = [pc EXCEPT ![t] = "dispatch"]
  /\ \E c \in {ContextFor(Head(queue[t]))} :
       /\ \A i \in DOMAIN rules[t] : ~Raises(rules[t][i], c)
       /\ ctx' = [ctx EXCEPT ![t] = c]
       /\ \E props \in {Proposals(rules[t], c)} :
            /\ firings' = [firings EXCEPT ![t] = Armed(props, "notify") \o Armed(props, "alert")]
            /\ LET wins == ToApply(Settle(props))
               IN slots' = [slots EXCEPT ![t] = IF ControlEnabled THEN {k[1] : k \in wins} ELSE {}]
  /\ UNCHANGED <<queue, rules, result, runs, recorded, services, world, store>>

\* A stored rule is malformed, and its evaluation comes to that.
Undecidable(t) ==
  \E c \in {ContextFor(Head(queue[t]))} : \E i \in DOMAIN rules[t] : Raises(rules[t][i], c)

\* Mutant: an evaluation that raises takes the task down with it.
DecideDies(t) ==
  /\ pc[t] = "context" /\ Undecidable(t)
  /\ pc' = [pc EXCEPT ![t] = "dead"]
  /\ UNCHANGED <<queue, rules, ctx, firings, slots, result, runs, recorded, services, world, store>>

\* Evaluating a malformed rule raises: the request fails, or the whole tick is given up.
DecideRaises(t) ==
  /\ pc[t] = "context" /\ Undecidable(t)
  /\ pc' = [pc EXCEPT ![t] = "idle"]
  /\ queue' = [queue EXCEPT ![t] = <<>>] /\ rules' = [rules EXCEPT ![t] = <<>>]
  /\ UNCHANGED <<ctx, firings, slots, result, runs, recorded, services, world, store>>

\* Whether the action has fired too recently, by the time of the decision.
Debounced(t, p) ==
  KeyOf(p) \in DOMAIN debounce /\ ctx[t].at - debounce[KeyOf(p)] < p.action.debounce

Skip(t) ==
  /\ pc[t] = "dispatch" /\ firings[t] # <<>>
  /\ Debounced(t, Head(firings[t]))
  /\ firings' = [firings EXCEPT ![t] = Tail(@)]
  /\ UNCHANGED <<pc, queue, rules, ctx, slots, result, runs, recorded, services, world, store>>

\* The row an alert action inserts has no metric, which the table does not accept.
AlertRow(p) == [rule |-> p.rule, metric |-> None]
Inserted(row) == IF row.metric = None THEN inbox ELSE inbox \union {row}

\* Mutant: the time of the last firing is not kept.
FireUnmarked(t) ==
  /\ pc[t] = "dispatch" /\ firings[t] # <<>>
  /\ LET p == Head(firings[t])
         k == KeyOf(p)
     IN /\ ~Debounced(t, p)
        /\ fired' = (k :> ctx[t].at) @@ fired
        /\ inbox' = IF p.action.type = "alert" THEN Inserted(AlertRow(p)) ELSE inbox
  /\ firings' = [firings EXCEPT ![t] = Tail(@)]
  /\ UNCHANGED <<debounce, pc, queue, rules, ctx, slots, result, runs, recorded, world, store>>

\* The time is kept before the message is sent; whatever becomes of it, it is not sent again.
Fire(t) ==
  /\ pc[t] = "dispatch" /\ firings[t] # <<>>
  /\ LET p == Head(firings[t])
         k == KeyOf(p)
     IN /\ ~Debounced(t, p)
        /\ debounce' = (k :> ctx[t].at) @@ debounce
        /\ fired' = (k :> ctx[t].at) @@ fired
        /\ inbox' = IF p.action.type = "alert" THEN Inserted(AlertRow(p)) ELSE inbox
  /\ firings' = [firings EXCEPT ![t] = Tail(@)]
  /\ UNCHANGED <<pc, queue, rules, ctx, slots, result, runs, recorded, world, store>>

EndDispatch(t) ==
  /\ pc[t] = "dispatch" /\ firings[t] = <<>>
  /\ pc' = [pc EXCEPT ![t] = "write"]
  /\ UNCHANGED <<queue, rules, ctx, firings, slots, result, runs, recorded, services, world, store>>

\* Mutant: a failed write gives the other slots up.
WriteSlotAborts(t, s, outcome) ==
  /\ pc[t] = "write" /\ s \in slots[t]
  /\ slots' = [slots EXCEPT ![t] = IF outcome = "error" THEN {} ELSE @ \ {s}]
  /\ result' = [result EXCEPT ![t] = [slot |-> s, outcome |-> outcome]]
  /\ pc' = [pc EXCEPT ![t] = "record"]
  /\ UNCHANGED <<queue, rules, ctx, firings, runs, recorded, services, world, store>>

\* One slot goes through the settings write path, with all its fields.
WriteSlot(t, s, outcome) ==
  /\ pc[t] = "write" /\ s \in slots[t]
  /\ slots' = [slots EXCEPT ![t] = @ \ {s}]
  /\ result' = [result EXCEPT ![t] = [slot |-> s, outcome |-> outcome]]
  /\ pc' = [pc EXCEPT ![t] = "record"]
  /\ UNCHANGED <<queue, rules, ctx, firings, runs, recorded, services, world, store>>

\* Its audit row; a failing insert is only logged.
RecordWrite(t) ==
  /\ pc[t] = "record"
  /\ recorded' = [recorded EXCEPT ![t] = @ \union {result[t].slot}]
  /\ result' = [result EXCEPT ![t] = None]
  /\ pc' = [pc EXCEPT ![t] = "write"]
  /\ UNCHANGED <<queue, rules, ctx, firings, slots, runs, services, world, store>>

\* On to the next device, or the end of the run.
NextDevice(t) ==
  /\ pc[t] = "write" /\ slots[t] = {}
  /\ queue' = [queue EXCEPT ![t] = Tail(@)]
  /\ pc' = [pc EXCEPT ![t] = IF Len(queue[t]) > 1 THEN "list" ELSE "idle"]
  /\ rules' = [rules EXCEPT ![t] = <<>>] /\ ctx' = [ctx EXCEPT ![t] = None]
  /\ recorded' = [recorded EXCEPT ![t] = {}]
  /\ UNCHANGED <<firings, slots, result, runs, services, world, store>>

\* The write is made, verified or not, or it raises an error.
Outcomes == {"done", "error"}
AllSlots == {k[1] : k \in Safe \union AtRisk}

Step(t) ==
  \/ ReadRules(t) \/ Decide(t) \/ DecideRaises(t)
  \/ Skip(t) \/ Fire(t) \/ EndDispatch(t)
  \/ \E s \in AllSlots, o \in Outcomes : WriteSlot(t, s, o)
  \/ RecordWrite(t) \/ NextDevice(t)

Next ==
  \/ Tick
  \/ \E d \in DeviceSet, soc \in Socs : Publish(d, soc)
  \/ \E e \in Editors, r \in RuleBodies : StartPut(e, r) \/ StartDelete(e, r)
  \/ \E e \in Editors : FinishEdit(e)
  \/ \E t \in Tasks : \/ \E devs \in {Devices} \union {<<d>> : d \in ApplyTo} : StartRun(t, devs)
                     \/ Step(t)

Spec == Init /\ [][Next]_vars

\* Every await of a task returns.
FairSpec == Spec /\ \A t \in Tasks : WF_vars(Step(t))

--------------------------------------------------------------------------------
TaskStates == {"idle", "list", "context", "dispatch", "write", "record"}

\* Type invariant of the service.
TypeOK ==
  /\ \A i, j \in DOMAIN stored : i # j => stored[i].id # stored[j].id
  /\ snapshot \in [DeviceSet -> [soc : Socs, at : 0..MaxTime] \union {None}]
  /\ eldest = None <=> \A d \in DeviceSet : snapshot[d] = None
  /\ clock \in 0..MaxTime
  /\ \A k \in DOMAIN debounce : debounce[k] \in 0..MaxTime
  /\ pc \in [Tasks -> TaskStates]
  /\ \A t \in Tasks : Len(queue[t]) <= Len(Devices) /\ (pc[t] = "idle" <=> queue[t] = <<>>)
  /\ slots \in [Tasks -> SUBSET AllSlots]
  /\ \A t \in Tasks : (result[t] # None) <=> (pc[t] = "record")

\* The reference definition of a conflict's winner: the highest priority, and among equals
\* the proposal declared first.
TopOf(props, k) ==
  LET rivals == {i \in DOMAIN props : SetsTarget(props[i]) /\ props[i].action.target = k}
  IN CHOOSE i \in rivals :
       \A j \in rivals :
         props[j].priority < props[i].priority \/ (props[j].priority = props[i].priority /\ i <= j)

\* rules.py:11 and test_equal_priority_keeps_first_declared: whatever rules are stored, every
\* target goes to its top proposal.
WinnersAreTop ==
  [][\A t \in Tasks : Decide(t) =>
       \A props \in {Proposals(rules[t], ctx'[t])} :
         Settle(props) = [k \in Targets(props) |-> props[TopOf(props, k)]]]_vars

\* plan.md 18 "prevents re-firing within the window": however the scheduler and "Apply now"
\* interleave, an action that fires has not fired within its debounce time.
FiringsSpaced ==
  [][\A t \in Tasks : Fire(t) =>
       LET p == Head(firings[t])
       IN ~(KeyOf(p) \in DOMAIN fired /\ ctx[t].at - fired[KeyOf(p)] < p.action.debounce)]_vars

\* service.py:262 "a failed write is recorded and reported but never aborts the others": when
\* a device is done, every slot of the decision has been written and recorded.
EverySlotWritten ==
  [][\A t \in Tasks : NextDevice(t) /\ ControlEnabled =>
       recorded[t] = {k[1] : k \in ToApply(Winners(t))}]_vars

\* service.py:333 "a bad tick must not kill the scheduler": every run ends, so that the next
\* one can start, even with a malformed rule in the store.
RunsEnd == \A t \in Tasks : []<>(pc[t] = "idle")

\* service.py:88 "store one rule, replacing any with the same id": an edit leaves the other
\* rules as they are.
EditsKeepOthers ==
  [][\A e \in Editors : FinishEdit(e) =>
       \A i \in DOMAIN stored : stored[i].id # edit[e].rule.id =>
         \E j \in DOMAIN stored' : stored'[j] = stored[i]]_vars

\* service.py:12 "alert actions (in-app inbox) fire whenever their rule/action is armed":
\* an alert that fires is in the inbox.
AlertsReachInbox ==
  [][\A t \in Tasks : Fire(t) /\ Head(firings[t]).action.type = "alert" =>
       \E row \in inbox' : row.rule = Head(firings[t]).rule]_vars
================================================================================
