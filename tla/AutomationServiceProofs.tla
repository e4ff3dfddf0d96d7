------------------------- MODULE AutomationServiceProofs -------------------------
(***************************************************************************)
(* Proofs about AutomationService, for any rules, devices and bounds.      *)
(***************************************************************************)
EXTENDS AutomationService, Induction

--------------------------------------------------------------------------------
(* The slots of an application.                                            *)

\* The slots the decision of a task's application is to write.  It is made of what the task has
\* read, so that no edit of the stored rules and no reading changes it under way.
Decided(t) == {k[1] : k \in ToApply(Winners(t))}

\* Every slot decided on is still to write, on its way to the audit row, or recorded.
WorkOf(t) ==
  /\ pc[t] \in {"idle", "list", "context"} => recorded[t] = {}
  /\ pc[t] \in {"dispatch", "write"} => slots[t] \union recorded[t] = Decided(t)
  /\ pc[t] = "record" => slots[t] \union {result[t].slot} \union recorded[t] = Decided(t)

TaskMaps ==
  /\ DOMAIN pc = Tasks /\ DOMAIN rules = Tasks /\ DOMAIN ctx = Tasks
  /\ DOMAIN slots = Tasks /\ DOMAIN result = Tasks /\ DOMAIN recorded = Tasks

WorkInv == TaskMaps /\ \A t \in Tasks : pc[t] \in TaskStates /\ WorkOf(t)

\* What a task works on.
Work(t) == <<pc[t], rules[t], ctx[t], slots[t], result[t], recorded[t]>>

LEMMA SameWork ==
  ASSUME NEW t \in Tasks, pc[t] \in TaskStates, WorkOf(t), UNCHANGED Work(t)
  PROVE  pc'[t] \in TaskStates /\ WorkOf(t)'
<1>1. UNCHANGED <<pc[t], rules[t], ctx[t], slots[t], result[t], recorded[t]>>  BY DEF Work
<1>2. Decided(t)' = Decided(t)  BY <1>1 DEF Decided, Winners
<1>3. QED BY <1>1, <1>2 DEF WorkOf

\* A step of one task leaves the work of the others alone.
LEMMA OthersWork ==
  ASSUME WorkInv, NEW t \in Tasks, NEW u \in Tasks, t # u,
         Step(t) \/ \E devs : StartRun(t, devs)
  PROVE  UNCHANGED Work(u)
<1> USE DEF WorkInv, TaskMaps, Work
<1>1. CASE \E devs : StartRun(t, devs)  BY <1>1 DEF StartRun
<1>2. CASE ReadRules(t)  BY <1>2 DEF ReadRules
<1>3. CASE Decide(t)  BY <1>3 DEF Decide
<1>4. CASE DecideRaises(t)  BY <1>4 DEF DecideRaises
<1>5. CASE Skip(t) \/ Fire(t)  BY <1>5 DEF Skip, Fire
<1>6. CASE EndDispatch(t)  BY <1>6 DEF EndDispatch
<1>7. CASE \E s \in AllSlots, o \in Outcomes : WriteSlot(t, s, o)  BY <1>7 DEF WriteSlot
<1>8. CASE RecordWrite(t)  BY <1>8 DEF RecordWrite
<1>9. CASE NextDevice(t)  BY <1>9, SMTT(30) DEF NextDevice
<1>10. QED BY <1>1, <1>2, <1>3, <1>4, <1>5, <1>6, <1>7, <1>8, <1>9 DEF Step

LEMMA MapsKept == TaskMaps /\ [Next]_vars => TaskMaps'
BY DEF TaskMaps, Next, vars, Tick, Publish, StartPut, StartDelete, FinishEdit, StartRun, Step, ReadRules,
       Decide, DecideRaises, Skip, Fire, EndDispatch, WriteSlot, RecordWrite, NextDevice, tasks

LEMMA OwnWork ==
  ASSUME ControlEnabled, WorkInv, NEW t \in Tasks, Step(t) \/ \E devs : StartRun(t, devs)
  PROVE  pc'[t] \in TaskStates /\ WorkOf(t)'
<1> USE DEF WorkInv, TaskMaps, TaskStates
<1>1. CASE \E devs : StartRun(t, devs)  BY <1>1 DEF StartRun, WorkOf
<1>2. CASE ReadRules(t)  BY <1>2 DEF ReadRules, WorkOf
<1>3. CASE Decide(t)
  <2>1. /\ pc[t] = "context" /\ pc'[t] = "dispatch" /\ UNCHANGED <<rules, recorded>>
        /\ recorded[t] = {}
    BY <1>3 DEF Decide, WorkOf
  <2>2. slots'[t] = {k[1] : k \in ToApply(Settle(Proposals(rules[t], ctx'[t])))}
    BY <1>3 DEF Decide
  <2>3. slots'[t] = Decided(t)'  BY <2>1, <2>2 DEF Decided, Winners
  <2>4. QED BY <2>1, <2>3 DEF WorkOf
<1>4. CASE DecideRaises(t)  BY <1>4 DEF DecideRaises, WorkOf
<1>5. ASSUME UNCHANGED <<rules, ctx>> PROVE Decided(t)' = Decided(t)  BY <1>5 DEF Decided, Winners
<1>6. CASE Skip(t) \/ Fire(t)  BY <1>5, <1>6 DEF Skip, Fire, WorkOf
<1>7. CASE EndDispatch(t)  BY <1>5, <1>7 DEF EndDispatch, WorkOf
<1>8. ASSUME NEW s \in AllSlots, NEW o \in Outcomes, WriteSlot(t, s, o)
      PROVE  pc'[t] \in TaskStates /\ WorkOf(t)'
  <2>1. /\ pc[t] = "write" /\ pc'[t] = "record" /\ s \in slots[t] /\ slots'[t] = slots[t] \ {s}
        /\ result'[t].slot = s /\ UNCHANGED <<rules, ctx, recorded>>
    BY <1>8 DEF WriteSlot
  <2>2. QED BY <1>5, <2>1 DEF WorkOf
<1>9. CASE RecordWrite(t)
  <2>1. /\ pc[t] = "record" /\ pc'[t] = "write" /\ recorded'[t] = recorded[t] \union {result[t].slot}
        /\ UNCHANGED <<rules, ctx, slots>>
    BY <1>9 DEF RecordWrite
  <2>2. QED BY <1>5, <2>1 DEF WorkOf
<1>10. CASE NextDevice(t)  BY <1>10 DEF NextDevice, WorkOf
<1>11. QED BY <1>1, <1>2, <1>3, <1>4, <1>6, <1>7, <1>8, <1>9, <1>10 DEF Step

LEMMA WorkStep == ControlEnabled /\ WorkInv /\ [Next]_vars => WorkInv'
<1> SUFFICES ASSUME ControlEnabled, WorkInv, [Next]_vars PROVE WorkInv'  OBVIOUS
<1>1. TaskMaps'  BY MapsKept DEF WorkInv
<1>2. ASSUME NEW u \in Tasks PROVE pc'[u] \in TaskStates /\ WorkOf(u)'
  <2>1. ASSUME UNCHANGED tasks PROVE UNCHANGED Work(u)  BY <2>1 DEF tasks, Work
  <2>2. CASE UNCHANGED Work(u)  BY <2>2, SameWork DEF WorkInv
  <2>3. ASSUME NEW t \in Tasks, Step(t) \/ \E devs : StartRun(t, devs)
        PROVE  pc'[u] \in TaskStates /\ WorkOf(u)'
    BY <2>2, <2>3, OwnWork, OthersWork
  <2>4. CASE Tick \/ \E d \in DeviceSet, soc \in Socs : Publish(d, soc)
    BY <2>1, <2>2, <2>4 DEF Tick, Publish
  <2>5. CASE \E e \in Editors, r \in RuleBodies : StartPut(e, r) \/ StartDelete(e, r)
    BY <2>1, <2>2, <2>5 DEF StartPut, StartDelete
  <2>6. CASE \E e \in Editors : FinishEdit(e)  BY <2>1, <2>2, <2>6 DEF FinishEdit
  <2>7. CASE UNCHANGED vars  BY <2>1, <2>2, <2>7 DEF vars, tasks
  <2>8. QED BY <2>3, <2>4, <2>5, <2>6, <2>7 DEF Next
<1>3. QED BY <1>1, <1>2 DEF WorkInv

LEMMA WorkInitial == Init => WorkInv
BY DEF Init, WorkInv, TaskMaps, WorkOf, TaskStates

\* service.py:262: when a task leaves a device, every slot of the decision it made there has been
\* written and recorded, though writes failed and rules and readings changed meanwhile.
THEOREM SlotsAllWritten == Spec => EverySlotWritten
<1> DEFINE Done == \A t \in Tasks : NextDevice(t) /\ ControlEnabled => recorded[t] = Decided(t)
<1>1. CASE ControlEnabled
  <2>1. Init => WorkInv  BY WorkInitial
  <2>2. WorkInv /\ [Next]_vars => WorkInv'  BY <1>1, WorkStep
  <2>3. WorkInv => Done  BY ZenonT(40) DEF WorkInv, WorkOf, NextDevice
  <2>4. WorkInv => [\A t \in Tasks : NextDevice(t) /\ ControlEnabled =>
                      recorded[t] = {k[1] : k \in ToApply(Winners(t))}]_vars
    BY <2>3 DEF Decided
  <2> HIDE DEF Done
  <2>5. QED BY <2>1, <2>2, <2>4, PTL DEF Spec, EverySlotWritten
<1>2. CASE ~ControlEnabled
  <2>1. [\A t \in Tasks : NextDevice(t) /\ ControlEnabled =>
           recorded[t] = {k[1] : k \in ToApply(Winners(t))}]_vars
    BY <1>2
  <2>2. QED BY <2>1, PTL DEF EverySlotWritten
<1>3. QED BY <1>1, <1>2

--------------------------------------------------------------------------------
(* The time between two firings of an action.                              *)

\* The service knows of every firing.
LEMMA DebounceIsKept == Spec => [](debounce = fired)
<1>1. Init => debounce = fired  BY DEF Init
<1>2. debounce = fired /\ [Next]_vars => (debounce = fired)'
  BY DEF Next, vars, Tick, Publish, StartPut, StartDelete, FinishEdit, StartRun, Step, ReadRules, Decide,
         DecideRaises, Skip, Fire, EndDispatch, WriteSlot, RecordWrite, NextDevice, services
<1>3. QED BY <1>1, <1>2, PTL DEF Spec

\* plan.md 18: whichever task decided on it, an action that fires has not fired within its
\* debounce time.
THEOREM FiringsAreSpaced == Spec => FiringsSpaced
<1>1. debounce = fired =>
        [\A t \in Tasks : Fire(t) =>
           LET p == Head(firings[t])
           IN ~(KeyOf(p) \in DOMAIN fired /\ ctx[t].at - fired[KeyOf(p)] < p.action.debounce)]_vars
  BY DEF Fire, Debounced
<1>2. QED BY <1>1, DebounceIsKept, PTL DEF FiringsSpaced

--------------------------------------------------------------------------------
(* What the recursive functions of the model compute.                      *)

\* Flattening a sequence of sequences gives a sequence.
LEMMA FlattenType ==
  ASSUME NEW W, NEW seqs \in Seq(Seq(W))
  PROVE  FlattenSeq(seqs) \in Seq(W)
<1>1. CASE Len(seqs) = 0  BY <1>1 DEF FlattenSeq
<1>2. CASE Len(seqs) # 0
  <2> DEFINE m    == Len(seqs)
             Is(f) == f = [i \in 1..m |-> IF i = 1 THEN seqs[i] ELSE f[i - 1] \o seqs[i]]
  <2>1. m \in Nat \ {0} /\ \A i \in 1..m : seqs[i] \in Seq(W)  BY <1>2
  <2>2. \E f : Is(f)
    <3> DEFINE G == [k \in 1..(m - 1) |-> [x \in Seq(W) |-> x \o seqs[k + 1]]]
    <3>1. G \in [1..(m - 1) -> [Seq(W) -> Seq(W)]]  BY <2>1
    <3>2. PICK g : Recursive(g, m - 1, Seq(W), seqs[1], G)
      <4>1. m - 1 \in Nat /\ seqs[1] \in Seq(W)  BY <2>1
      <4> HIDE DEF G
      <4>2. QED BY <3>1, <4>1, Recursion
    <3> DEFINE f == [i \in 1..m |-> g[i - 1]]
    <3>3. ASSUME NEW i \in 1..m PROVE f[i] = IF i = 1 THEN seqs[i] ELSE f[i - 1] \o seqs[i]
      <4>1. CASE i = 1  BY <2>1, <3>2, <4>1 DEF Recursive
      <4>2. CASE i # 1
        <5>1. i - 1 \in 1..(m - 1) /\ (i - 1) + 1 = i /\ (i - 1) - 1 \in 0..(m - 1)  BY <2>1, <4>2
        <5>2. g[i - 1] = G[i - 1][g[(i - 1) - 1]]  BY <3>2, <5>1 DEF Recursive
        <5>3. g[(i - 1) - 1] \in Seq(W)  BY <3>2, <5>1 DEF Recursive
        <5>4. g[i - 1] = g[(i - 1) - 1] \o seqs[i]  BY <5>1, <5>2, <5>3
        <5>5. f[i - 1] = g[(i - 1) - 1]  BY <5>1, <2>1
        <5>6. QED BY <4>2, <5>4, <5>5
      <4>3. QED BY <4>1, <4>2
    <3>4. Is(f)  BY <3>3, SMTT(30)
    <3> HIDE DEF f, Is
    <3>5. QED BY <3>4
  <2> DEFINE flatten == CHOOSE f : Is(f)
  <2>3. Is(flatten)  BY <2>2
  <2>4. FlattenSeq(seqs) = flatten[m]  BY <1>2 DEF FlattenSeq
  <2> HIDE DEF flatten
  <2>5. \A k \in 1..m : flatten[k] = IF k = 1 THEN seqs[k] ELSE flatten[k - 1] \o seqs[k]  BY <2>3
  <2> HIDE DEF Is
  <2> DEFINE S == {k \in 0..m : k = 0 \/ flatten[k] \in Seq(W)}
  <2>6. 0 \in S  BY <2>1
  <2>7. ASSUME NEW k \in 1..m, k - 1 \in S PROVE k \in S
    <3>1. CASE k = 1  BY <2>1, <2>5, <3>1
    <3>2. CASE k # 1
      <4>1. flatten[k - 1] \in Seq(W) /\ seqs[k] \in Seq(W)  BY <2>1, <2>7, <3>2
      <4>2. flatten[k] = flatten[k - 1] \o seqs[k]  BY <2>5, <3>2
      <4>3. flatten[k] \in Seq(W)  BY <4>1, <4>2
      <4>4. QED BY <4>3
    <3>3. QED BY <3>1, <3>2
  <2>8. m \in S
    <3> HIDE DEF S
    <3>1. \A k \in 1..m : k - 1 \in S => k \in S  BY <2>7
    <3>2. \A k \in 0..m : k \in S  BY <2>1, <2>6, <3>1, UpTo
    <3>3. QED BY <2>1, <3>2
  <2>9. QED BY <2>1, <2>4, <2>8
<1>3. QED BY <1>1, <1>2

\* The list without the rules of an id.
LEMMA WithoutType ==
  ASSUME NEW W, NEW list \in Seq(W), NEW id
  PROVE  Without(list, id) \in Seq(W)
<1> DEFINE m == Len(list)
           Is(f) == f = [n \in 0..m |-> IF n = 0 THEN <<>>
                                        ELSE IF list[n].id = id THEN f[n - 1] ELSE Append(f[n - 1], list[n])]
           G == [k \in 1..m |-> [x \in Seq(W) |-> IF list[k].id = id THEN x ELSE Append(x, list[k])]]
<1>1. m \in Nat /\ \A i \in 1..m : list[i] \in W  OBVIOUS
<1>2. G \in [1..m -> [Seq(W) -> Seq(W)]]  BY <1>1
<1>3. PICK g : Recursive(g, m, Seq(W), <<>>, G)
  <2>1. <<>> \in Seq(W)  OBVIOUS
  <2> HIDE DEF G
  <2>2. QED BY <1>1, <1>2, <2>1, Recursion
<1>4. Is(g)
  <2>1. ASSUME NEW k \in 1..m
        PROVE  g[k] = IF list[k].id = id THEN g[k - 1] ELSE Append(g[k - 1], list[k])
    <3>1. k - 1 \in 0..m  BY <1>1
    <3>2. g[k] = G[k][g[k - 1]] /\ g[k - 1] \in Seq(W)  BY <1>3, <3>1 DEF Recursive
    <3>3. QED BY <3>2
  <2>2. g = [n \in 0..m |-> g[n]] /\ g[0] = <<>>  BY <1>1, <1>3 DEF Recursive
  <2>3. \A n \in 0..m : n # 0 => n \in 1..m  BY <1>1
  <2>4. \A n \in 0..m : g[n] = IF n = 0 THEN <<>>
                                ELSE IF list[n].id = id THEN g[n - 1] ELSE Append(g[n - 1], list[n])
    BY <2>1, <2>2, <2>3, SMTT(30)
  <2> HIDE DEF G, m
  <2>5. QED BY <2>2, <2>4
<1> DEFINE kept == CHOOSE f : Is(f)
<1>5. Is(kept)  BY <1>4
<1>6. Without(list, id) = kept[m]  BY DEF Without
<1> HIDE DEF kept
<1> DEFINE S == {k \in 0..m : kept[k] \in Seq(W)}
<1>7. 0 \in S  BY <1>1, <1>5
<1>8. ASSUME NEW k \in 1..m, k - 1 \in S PROVE k \in S
  <2>1. kept[k - 1] \in Seq(W) /\ list[k] \in W  BY <1>1, <1>8
  <2>2. kept[k] = IF list[k].id = id THEN kept[k - 1] ELSE Append(kept[k - 1], list[k])
    <3>1. k \in 0..m /\ k # 0  BY <1>1
    <3> HIDE DEF m
    <3>2. QED BY <1>5, <3>1
  <2>3. kept[k] \in Seq(W)  BY <2>1, <2>2
  <2>4. QED BY <2>3
<1>9. m \in S
  <2> HIDE DEF S
  <2>1. \A k \in 1..m : k - 1 \in S => k \in S  BY <1>8
  <2>2. \A k \in 0..m : k \in S  BY <1>1, <1>7, <2>1, UpTo
  <2>3. QED BY <1>1, <2>2
<1>10. QED BY <1>6, <1>9

--------------------------------------------------------------------------------
(* Conflicts.                                                              *)

\* The proposals among the first n that set a target.
Rivals(props, n, k) == {i \in 1..n : SetsTarget(props[i]) /\ props[i].action.target = k}

\* One of them has the highest priority, and is the first that has it.
Leads(props, n, k, i) ==
  /\ i \in Rivals(props, n, k)
  /\ \A j \in Rivals(props, n, k) :
       props[j].priority < props[i].priority \/ (props[j].priority = props[i].priority /\ i <= j)

\* The winners among the first n proposals.
Won(props, n, w) ==
  /\ \A k : k \in DOMAIN w <=> Rivals(props, n, k) # {}
  /\ \A k \in DOMAIN w : \E i : Leads(props, n, k, i) /\ w[k] = props[i]

\* What winners may be: some targets with a proposal each.
Standings(T, P) == UNION {[D -> P] : D \in SUBSET T}

LEMMA ContendType ==
  ASSUME NEW T, NEW P, NEW w \in Standings(T, P), NEW p \in P, p.action.target \in T
  PROVE  Contend(w, p) \in Standings(T, P)
<1>1. PICK D \in SUBSET T : w \in [D -> P]  BY DEF Standings
<1> DEFINE key == p.action.target
           v   == [k \in D \union {key} |-> IF k = key THEN p ELSE w[k]]
<1>2. v \in [D \union {key} -> P] /\ D \union {key} \in SUBSET T  BY <1>1
<1>3. v \in Standings(T, P)  BY <1>2 DEF Standings
<1>4. Contend(w, p) = w \/ Contend(w, p) = v  BY <1>1 DEF Contend
<1>5. QED BY <1>3, <1>4

\* A further proposal keeps the winners right.
LEMMA ContendWins ==
  ASSUME NEW props, NEW n \in Nat \ {0}, \A i \in 1..n : props[i].priority \in Int,
         NEW w, Won(props, n - 1, w), SetsTarget(props[n])
  PROVE  Won(props, n, Contend(w, props[n]))
<1> DEFINE key == props[n].action.target
           v   == Contend(w, props[n])
<1>1. ASSUME NEW k, k # key PROVE Rivals(props, n, k) = Rivals(props, n - 1, k)
  BY <1>1 DEF Rivals
<1>2. Rivals(props, n, key) = Rivals(props, n - 1, key) \union {n}  BY DEF Rivals
<1>3. CASE key \in DOMAIN w /\ props[n].priority <= w[key].priority
  <2>1. v = w  BY <1>3 DEF Contend
  <2>2. PICK i : Leads(props, n - 1, key, i) /\ w[key] = props[i]  BY <1>3 DEF Won
  <2>3. i \in 1..(n - 1) /\ i \in Rivals(props, n, key)  BY <1>2, <2>2 DEF Leads, Rivals
  <2>4. props[n].priority < props[i].priority \/ (props[n].priority = props[i].priority /\ i <= n)
    <3>1. props[n].priority \in Int /\ props[i].priority \in Int  BY <2>3
    <3>2. QED BY <1>3, <2>2, <2>3, <3>1
  <2>5. Leads(props, n, key, i)  BY <1>2, <2>2, <2>3, <2>4 DEF Leads
  <2>6. ASSUME NEW k \in DOMAIN w PROVE \E j : Leads(props, n, k, j) /\ w[k] = props[j]
    <3>1. CASE k = key  BY <2>2, <2>5, <3>1
    <3>2. CASE k # key  BY <1>1, <3>2 DEF Won, Leads
    <3>3. QED BY <3>1, <3>2
  <2>7. ASSUME NEW k PROVE k \in DOMAIN w <=> Rivals(props, n, k) # {}
    <3>1. CASE k = key  BY <1>2, <1>3, <3>1
    <3>2. CASE k # key  BY <1>1, <3>2 DEF Won
    <3>3. QED BY <3>1, <3>2
  <2>8. QED BY <2>1, <2>6, <2>7 DEF Won
<1>4. CASE ~(key \in DOMAIN w /\ props[n].priority <= w[key].priority)
  <2>1. v = [k \in DOMAIN w \union {key} |-> IF k = key THEN props[n] ELSE w[k]]  BY <1>4 DEF Contend
  <2>2. ASSUME NEW j \in Rivals(props, n, key)
        PROVE  props[j].priority < props[n].priority \/ (props[j].priority = props[n].priority /\ n <= j)
    <3>1. CASE j = n  BY <3>1
    <3>2. CASE j # n
      <4>1. j \in Rivals(props, n - 1, key) /\ j \in 1..(n - 1)  BY <1>2, <2>2, <3>2 DEF Rivals
      <4>2. key \in DOMAIN w  BY <4>1 DEF Won
      <4>3. PICK i : Leads(props, n - 1, key, i) /\ w[key] = props[i]  BY <4>2 DEF Won
      <4>4. i \in 1..(n - 1)  BY <4>3 DEF Leads, Rivals
      <4>5. props[j].priority <= props[i].priority
        <5>1. props[j].priority \in Int /\ props[i].priority \in Int  BY <4>1, <4>4
        <5>2. QED BY <4>1, <4>3, <5>1 DEF Leads
      <4>6. props[n].priority \in Int /\ props[j].priority \in Int /\ props[i].priority \in Int
        BY <4>1, <4>4
      <4>7. QED BY <1>4, <4>2, <4>3, <4>5, <4>6
    <3>3. QED BY <3>1, <3>2
  <2>3. Leads(props, n, key, n)  BY <1>2, <2>2 DEF Leads
  <2>4. ASSUME NEW k \in DOMAIN v PROVE \E j : Leads(props, n, k, j) /\ v[k] = props[j]
    <3>1. CASE k = key  BY <2>1, <2>3, <3>1
    <3>2. CASE k # key
      <4>1. k \in DOMAIN w /\ v[k] = w[k]  BY <2>1, <2>4, <3>2
      <4>2. QED BY <1>1, <3>2, <4>1 DEF Won, Leads
    <3>3. QED BY <3>1, <3>2
  <2>5. ASSUME NEW k PROVE k \in DOMAIN v <=> Rivals(props, n, k) # {}
    <3>1. CASE k = key  BY <1>2, <2>1, <3>1
    <3>2. CASE k # key
      <4>1. k \in DOMAIN v <=> k \in DOMAIN w  BY <2>1, <3>2
      <4>2. QED BY <1>1, <3>2, <4>1 DEF Won
    <3>3. QED BY <3>1, <3>2
  <2>6. QED BY <2>4, <2>5 DEF Won
<1>5. QED BY <1>3, <1>4

\* The loop over all proposals gives each target to its top proposal.
LEMMA SettleIsTop ==
  ASSUME NEW props, Len(props) \in Nat, DOMAIN props = 1..Len(props),
         \A i \in DOMAIN props : props[i].priority \in Int
  PROVE  Settle(props) = [k \in Targets(props) |-> props[TopOf(props, k)]]
<1> DEFINE m == Len(props)
           P == {props[i] : i \in 1..m}
           T == {p.action.target : p \in P}
           W == Standings(T, P)
           G == [k \in 1..m |-> [w \in W |-> IF SetsTarget(props[k]) THEN Contend(w, props[k]) ELSE w]]
           Is(f) == f = [n \in 0..m |-> IF n = 0 THEN <<>>
                                        ELSE IF SetsTarget(props[n]) THEN Contend(f[n - 1], props[n]) ELSE f[n - 1]]
           winners == CHOOSE f : Is(f)
<1>1. <<>> \in W
  <2>1. <<>> \in [{} -> P]  OBVIOUS
  <2>2. QED BY <2>1 DEF Standings
<1>2. G \in [1..m -> [W -> W]]
  <2>1. ASSUME NEW k \in 1..m, NEW w \in W
        PROVE  (IF SetsTarget(props[k]) THEN Contend(w, props[k]) ELSE w) \in W
    <3>1. props[k] \in P /\ props[k].action.target \in T  OBVIOUS
    <3> HIDE DEF T, P
    <3>2. Contend(w, props[k]) \in W  BY <3>1, ContendType
    <3>3. QED BY <3>2
  <2> HIDE DEF W
  <2>2. QED BY <2>1
<1> HIDE DEF P, T, W
<1>3. PICK g : Recursive(g, m, W, <<>>, G)
  <2> HIDE DEF G
  <2>1. QED BY <1>1, <1>2, Recursion
<1>4. Is(g)
  <2>1. ASSUME NEW k \in 1..m
        PROVE  g[k] = IF SetsTarget(props[k]) THEN Contend(g[k - 1], props[k]) ELSE g[k - 1]
    <3>1. k - 1 \in 0..m  OBVIOUS
    <3>2. g[k] = G[k][g[k - 1]] /\ g[k - 1] \in W  BY <1>3, <3>1 DEF Recursive
    <3>3. QED BY <3>2
  <2>2. g = [n \in 0..m |-> g[n]] /\ g[0] = <<>>  BY <1>3 DEF Recursive
  <2>3. \A n \in 0..m : n # 0 => n \in 1..m  OBVIOUS
  <2>4. \A n \in 0..m : g[n] = IF n = 0 THEN <<>>
                                ELSE IF SetsTarget(props[n]) THEN Contend(g[n - 1], props[n]) ELSE g[n - 1]
    BY <2>1, <2>2, <2>3
  <2> HIDE DEF G, m
  <2>5. QED BY <2>2, <2>4
<1>5. Is(winners)  BY <1>4
<1>6. Settle(props) = winners[m]  BY DEF Settle
<1> HIDE DEF winners
<1>7. winners[0] = <<>>
  <2>1. 0 \in 0..m  OBVIOUS
  <2> HIDE DEF m
  <2>2. QED BY <1>5, <2>1
<1>8. ASSUME NEW k \in 1..m
      PROVE  winners[k] = IF SetsTarget(props[k]) THEN Contend(winners[k - 1], props[k]) ELSE winners[k - 1]
  <2>1. k \in 0..m /\ k # 0  OBVIOUS
  <2> HIDE DEF m
  <2>2. QED BY <1>5, <2>1
<1> HIDE DEF Is
<1> DEFINE S == {n \in 0..m : Won(props, n, winners[n]) /\ winners[n] = [k \in DOMAIN winners[n] |-> winners[n][k]]}
<1>9. 0 \in S
  <2>1. \A k : Rivals(props, 0, k) = {}  BY DEF Rivals
  <2>2. DOMAIN winners[0] = {}  BY <1>7
  <2>3. Won(props, 0, winners[0])  BY <2>1, <2>2 DEF Won
  <2>4. winners[0] = [k \in DOMAIN winners[0] |-> winners[0][k]]  BY <1>7
  <2>5. QED BY <2>3, <2>4
<1>10. ASSUME NEW n \in 1..m, n - 1 \in S PROVE n \in S
  <2>1. CASE SetsTarget(props[n])
    <3>1. winners[n] = Contend(winners[n - 1], props[n])  BY <1>8, <2>1
    <3>2. Won(props, n, winners[n])
      <4>1. \A i \in 1..n : props[i].priority \in Int  OBVIOUS
      <4>2. Won(props, n - 1, winners[n - 1])  BY <1>10
      <4>3. n \in Nat \ {0}  OBVIOUS
      <4>4. QED BY <2>1, <3>1, <4>1, <4>2, <4>3, ContendWins, SMTT(30)
    <3>3. winners[n] = [k \in DOMAIN winners[n] |-> winners[n][k]]  BY <1>10, <3>1 DEF Contend
    <3>4. QED BY <3>2, <3>3
  <2>2. CASE ~SetsTarget(props[n])
    <3>1. winners[n] = winners[n - 1]  BY <1>8, <2>2
    <3>2. ASSUME NEW k PROVE Rivals(props, n, k) = Rivals(props, n - 1, k)
      BY <2>2 DEF Rivals
    <3>3. Won(props, n - 1, winners[n])  BY <1>10, <3>1
    <3>4. Won(props, n, winners[n])  BY <3>2, <3>3 DEF Won, Leads
    <3>5. QED BY <1>10, <3>1, <3>4
  <2>3. QED BY <2>1, <2>2
<1>11. Won(props, m, winners[m]) /\ winners[m] = [k \in DOMAIN winners[m] |-> winners[m][k]]
  <2> HIDE DEF S, m
  <2>1. \A n \in 1..m : n - 1 \in S => n \in S  BY <1>10
  <2>2. \A n \in 0..m : n \in S  BY <1>9, <2>1, UpTo DEF m
  <2>3. m \in S  BY <2>2 DEF m
  <2>4. QED BY <2>3 DEF S
<1>12. DOMAIN winners[m] = Targets(props)
  <2>1. ASSUME NEW k PROVE k \in Targets(props) <=> Rivals(props, m, k) # {}
    BY DEF Targets, Rivals
  <2>2. QED BY <1>11, <2>1 DEF Won
<1>13. ASSUME NEW k \in Targets(props) PROVE winners[m][k] = props[TopOf(props, k)]
  <2>1. PICK i : Leads(props, m, k, i) /\ winners[m][k] = props[i]  BY <1>11, <1>12 DEF Won
  <2> DEFINE rivals == Rivals(props, m, k)
             Top(x) == \A j \in rivals : props[j].priority < props[x].priority
                                        \/ (props[j].priority = props[x].priority /\ x <= j)
  <2>2. rivals = {j \in DOMAIN props : SetsTarget(props[j]) /\ props[j].action.target = k}  BY DEF Rivals
  <2>3. TopOf(props, k) = CHOOSE x \in rivals : Top(x)  BY <2>2 DEF TopOf
  <2>4. i \in rivals /\ Top(i)  BY <2>1 DEF Leads
  <2>5. rivals \subseteq 1..m  BY DEF Rivals
  <2> HIDE DEF rivals
  <2>6. ASSUME NEW x \in rivals, Top(x) PROVE x = i
    <3>1. props[x].priority \in Int /\ props[i].priority \in Int /\ x \in Int /\ i \in Int  BY <2>4, <2>5
    <3>2. QED BY <2>4, <2>6, <3>1
  <2>7. TopOf(props, k) = i  BY <2>3, <2>4, <2>6
  <2>8. QED BY <2>1, <2>7
<1>14. QED BY <1>6, <1>11, <1>12, <1>13

--------------------------------------------------------------------------------
(* The rules a task reads.                                                 *)

\* Stored, read or under edit, rules are the first ones or an editor's.
RulesInv ==
  /\ stored \in Seq(Rules)
  /\ rules \in [Tasks -> Seq(Rules)]
  /\ \A e \in Editors : edit[e] # None => edit[e].list \in Seq(Rules) /\ edit[e].rule \in Rules
  /\ DOMAIN edit = Editors

LEMMA RulesKept == RulesInv /\ [Next]_vars => RulesInv'
<1> SUFFICES ASSUME RulesInv, [Next]_vars PROVE RulesInv'  OBVIOUS
<1> USE DEF RulesInv
<1>1. CASE Tick \/ \E d \in DeviceSet, soc \in Socs : Publish(d, soc)
  BY <1>1 DEF Tick, Publish, store, tasks
<1>2. ASSUME NEW e \in Editors, NEW r \in RuleBodies, StartPut(e, r) \/ StartDelete(e, r) PROVE RulesInv'
  <2>1. PICK op : edit' = [edit EXCEPT ![e] = [op |-> op, rule |-> r, list |-> stored]]
    BY <1>2 DEF StartPut, StartDelete
  <2>2. UNCHANGED <<stored, rules>>  BY <1>2 DEF StartPut, StartDelete, tasks
  <2>3. r \in Rules  BY DEF Rules
  <2>4. QED BY <2>1, <2>2, <2>3
<1>3. ASSUME NEW e \in Editors, FinishEdit(e) PROVE RulesInv'
  <2> DEFINE kept == Without(edit[e].list, edit[e].rule.id)
  <2>1. edit[e].list \in Seq(Rules) /\ edit[e].rule \in Rules  BY <1>3 DEF FinishEdit
  <2>2. kept \in Seq(Rules)  BY <2>1, WithoutType
  <2>3. stored' = (IF edit[e].op = "put" THEN Append(kept, edit[e].rule) ELSE kept)
        /\ edit' = [edit EXCEPT ![e] = None] /\ UNCHANGED rules
    BY <1>3 DEF FinishEdit, tasks
  <2> HIDE DEF kept
  <2>4. stored' \in Seq(Rules)  BY <2>1, <2>2, <2>3
  <2>5. QED BY <2>3, <2>4
<1>4. ASSUME NEW t \in Tasks, Step(t) \/ \E devs : StartRun(t, devs) PROVE RulesInv'
  <2>1. UNCHANGED <<stored, edit>>
    BY <1>4 DEF StartRun, Step, ReadRules, Decide, DecideRaises, Skip, Fire, EndDispatch, WriteSlot,
                RecordWrite, NextDevice, store
  <2>2. rules' = rules \/ rules' = [rules EXCEPT ![t] = stored] \/ rules' = [rules EXCEPT ![t] = <<>>]
    BY <1>4 DEF StartRun, Step, ReadRules, Decide, DecideRaises, Skip, Fire, EndDispatch, WriteSlot,
                RecordWrite, NextDevice
  <2>3. <<>> \in Seq(Rules)  OBVIOUS
  <2>4. QED BY <2>1, <2>2, <2>3
<1>5. CASE UNCHANGED vars  BY <1>5 DEF vars
<1>6. QED BY <1>1, <1>2, <1>3, <1>4, <1>5 DEF Next

LEMMA ProposalsType ==
  ASSUME NEW rs \in Seq(Rules), NEW c
  PROVE  LET props == Proposals(rs, c)
         IN Len(props) \in Nat /\ DOMAIN props = 1..Len(props) /\ \A i \in DOMAIN props : props[i].priority \in Int
<1> DEFINE Of(rule) == IF Matches(rule, c)
                       THEN [j \in DOMAIN rule.acts |->
                              [rule |-> rule.id, priority |-> rule.priority, action |-> rule.acts[j],
                               active |-> rule.enabled /\ rule.acts[j].enabled]]
                       ELSE <<>>
           All  == UNION {{Of(r)[j] : j \in DOMAIN Of(r)} : r \in Rules}
           seqs == [i \in DOMAIN rs |-> Of(rs[i])]
<1>1. ASSUME NEW r \in Rules PROVE Of(r) \in Seq(All) /\ \A j \in DOMAIN Of(r) : Of(r)[j].priority \in Int
  <2>1. r.priority \in Int /\ r.acts \in Seq(ToSet(r.acts))  BY AutomationAssumption
  <2>2. \E n \in Nat : DOMAIN Of(r) = 1..n
    <3>1. DOMAIN <<>> = 1..0  OBVIOUS
    <3>2. DOMAIN r.acts = 1..Len(r.acts) /\ Len(r.acts) \in Nat  BY <2>1
    <3>3. QED BY <3>1, <3>2
  <2>3. Of(r) = [j \in DOMAIN Of(r) |-> Of(r)[j]]
    <3>1. CASE Matches(r, c)
      <4> DEFINE Made(j) == [rule |-> r.id, priority |-> r.priority, action |-> r.acts[j],
                             active |-> r.enabled /\ r.acts[j].enabled]
      <4>1. Of(r) = [j \in DOMAIN r.acts |-> Made(j)]  BY <3>1
      <4> HIDE DEF Made, Of
      <4>2. QED BY <4>1
    <3>2. CASE ~Matches(r, c)
      <4>1. Of(r) = <<>>  BY <3>2
      <4> HIDE DEF Of
      <4>2. QED BY <4>1
    <3>3. QED BY <3>1, <3>2
  <2>4. \A j \in DOMAIN Of(r) : Of(r)[j].priority \in Int
    <3>1. CASE Matches(r, c)  BY <2>1, <3>1
    <3>2. CASE ~Matches(r, c)
      <4>1. DOMAIN Of(r) = {}  BY <3>2
      <4>2. QED BY <4>1
    <3>3. QED BY <3>1, <3>2
  <2>5. \A j \in DOMAIN Of(r) : Of(r)[j] \in All  OBVIOUS
  <2> HIDE DEF Of, All
  <2>6. QED BY <2>2, <2>3, <2>4, <2>5
<1>2. seqs \in Seq(Seq(All))
  <2> DEFINE V == Seq(All)
  <2>1. \A r \in Rules : Of(r) \in V  BY <1>1
  <2> HIDE DEF Of, All, V
  <2>2. Len(rs) \in Nat /\ DOMAIN rs = 1..Len(rs) /\ \A i \in 1..Len(rs) : rs[i] \in Rules  OBVIOUS
  <2>3. seqs \in [1..Len(rs) -> V]  BY <2>1, <2>2
  <2> HIDE DEF seqs
  <2>4. seqs \in Seq(V)  BY <2>2, <2>3
  <2>5. QED BY <2>4 DEF V
<1>3. Proposals(rs, c) = FlattenSeq(seqs)  BY DEF Proposals
<1>4. \A p \in All : p.priority \in Int
  <2> HIDE DEF Of
  <2>1. QED BY <1>1
<1> HIDE DEF All, seqs
<1>5. Proposals(rs, c) \in Seq(All)  BY <1>2, <1>3, FlattenType
<1>6. QED BY <1>4, <1>5

\* rules.py:11: whatever rules are stored and whenever they are edited, every target goes to its
\* proposal of the highest priority, and among equals to the one declared first.
THEOREM WinnersAreTheTop == Spec => WinnersAreTop
<1>1. Init => RulesInv
  BY AutomationAssumption DEF Init, RulesInv
<1>2. RulesInv /\ [Next]_vars => RulesInv'  BY RulesKept
<1>3. RulesInv =>
        [\A t \in Tasks : Decide(t) =>
           \A props \in {Proposals(rules[t], ctx'[t])} :
             Settle(props) = [k \in Targets(props) |-> props[TopOf(props, k)]]]_vars
  <2> SUFFICES ASSUME RulesInv, NEW t \in Tasks
               PROVE  LET props == Proposals(rules[t], ctx'[t])
                      IN Settle(props) = [k \in Targets(props) |-> props[TopOf(props, k)]]
    OBVIOUS
  <2>1. rules[t] \in Seq(Rules)  BY DEF RulesInv
  <2> DEFINE props == Proposals(rules[t], ctx'[t])
  <2>2. Len(props) \in Nat /\ DOMAIN props = 1..Len(props) /\ \A i \in DOMAIN props : props[i].priority \in Int
    BY <2>1, ProposalsType
  <2> HIDE DEF props
  <2>3. Settle(props) = [k \in Targets(props) |-> props[TopOf(props, k)]]  BY <2>2, SettleIsTop
  <2>4. QED BY <2>3 DEF props
<1>4. QED BY <1>1, <1>2, <1>3, PTL DEF Spec, WinnersAreTop
================================================================================
