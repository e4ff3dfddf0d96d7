------------------------------- MODULE TasksProofs -------------------------------
(***************************************************************************)
(* Proofs about the tasks that go on whatever fails, each on its own and   *)
(* as a part of MCTasks.  History: a row that has left the raw table is in *)
(* every rollup table, for any devices, resolutions and retention.         *)
(* MqttPublisher: what is taken as announced was, for any sensors,         *)
(* brokers, configurations, overlapping requests and failures.             *)
(***************************************************************************)
EXTENDS MCTasks, WellFoundedInduction, TLAPS

\* A step of the tasks is a step of each, or leaves it alone.
LEMMA OnlyTasksMove == [TasksNext]_taskVars => [Mqtt!Next]_mqttVars /\ [Next]_vars
BY DEF TasksNext, taskVars, mqttVars, vars

--------------------------------------------------------------------------------
(* Arithmetic of buckets.                                                  *)

LEMMA ProductMonotone ==
  ASSUME NEW w \in Nat, NEW p \in Int, NEW q \in Int, p <= q
  PROVE  w * p <= w * q
BY SMT

LEMMA Division ==
  ASSUME NEW t \in Nat, NEW w \in Nat \ {0}
  PROVE  t \div w \in Nat /\ t % w \in 0..(w - 1) /\ t = w * (t \div w) + (t % w)
BY SMT

\* A bucket starts at a multiple of its width, less than a width before what is in it.
LEMMA BucketBounds ==
  ASSUME NEW w \in Nat \ {0}, NEW t \in Nat
  PROVE  /\ BucketStart(t, w) = w * (t \div w) /\ BucketStart(t, w) \in Nat
         /\ BucketStart(t, w) <= t /\ t < BucketStart(t, w) + w
BY Division DEF BucketStart

\* Multiples of a width that is not above t are not above the start of t's bucket.
LEMMA BucketAfterMultiple ==
  ASSUME NEW w \in Nat \ {0}, NEW t \in Nat, NEW k \in Int, w * k <= t
  PROVE  w * k <= BucketStart(t, w)
<1>1. PICK q \in Nat : BucketStart(t, w) = w * q /\ t < w * q + w  BY BucketBounds, Division
<1>2. k <= q
  <2>1. SUFFICES ASSUME q + 1 <= k PROVE FALSE  OBVIOUS
  <2>2. w * (q + 1) <= w * k  BY <2>1, ProductMonotone
  <2>3. w * (q + 1) = w * q + w  BY SMT
  <2>4. w * k \in Int /\ w * q \in Int  BY SMT
  <2>5. QED BY <1>1, <2>2, <2>3, <2>4
<1>3. QED BY <1>1, <1>2, ProductMonotone

LEMMA BucketMonotone ==
  ASSUME NEW w \in Nat \ {0}, NEW t \in Nat, NEW u \in Nat, t <= u
  PROVE  BucketStart(t, w) <= BucketStart(u, w)
<1>1. w * (t \div w) <= u  BY BucketBounds
<1>2. t \div w \in Int  BY Division
<1>3. w * (t \div w) <= BucketStart(u, w)  BY <1>1, <1>2, BucketAfterMultiple
<1>4. QED BY <1>3, BucketBounds

\* A day begins where a bucket of every resolution does.
LEMMA DaysAreBuckets ==
  ASSUME NEW r \in Resolutions, NEW t \in Nat, NEW u \in Nat, BucketStart(u, Day) <= t
  PROVE  BucketStart(u, Day) <= BucketStart(t, Width[r])
<1> DEFINE w == Width[r]
<1>1. Day \in Nat \ {0} /\ w \in Nat \ {0} /\ Day % w = 0  BY HistoryAssumption DEF HistoryAssumption
<1> HIDE DEF w
<1>2. Day = w * (Day \div w) /\ Day \div w \in Nat  BY <1>1, Division
<1>3. BucketStart(u, Day) = Day * (u \div Day) /\ u \div Day \in Nat
  BY <1>1, BucketBounds, Division
<1>4. (w * (Day \div w)) * (u \div Day) = w * ((Day \div w) * (u \div Day))
  BY <1>1, <1>2, <1>3, SMTT(30)
<1>5. (Day \div w) * (u \div Day) \in Int  BY <1>2, <1>3, SMT
<1>6. BucketStart(u, Day) = w * ((Day \div w) * (u \div Day))  BY <1>2, <1>3, <1>4
<1>7. QED BY <1>1, <1>5, <1>6, BucketAfterMultiple DEF w

\* A bounded set of numbers has a greatest one.
LEMMA MaxExists ==
  ASSUME NEW S, NEW n \in Nat, S \subseteq 0..n, S # {}
  PROVE  Max(S) \in S /\ \A y \in S : Max(S) >= y
<1> DEFINE R == OpToRel(<, Nat)
           T == {n - s : s \in S}
<1>1. \A a, b \in Nat : <<a, b>> \in R <=> a < b  BY DEF OpToRel
<1>2. IsWellFoundedOn(R, Nat)  BY NatLessThanWellFounded
<1> HIDE DEF R
<1>3. \A s \in S : n - s \in Nat  OBVIOUS
<1>4. T \subseteq Nat /\ T # {}  BY <1>3
<1>5. \E x \in T : \A y \in T : ~ (<<y, x>> \in R)  BY <1>2, <1>4, WFMin
<1>6. PICK s \in S : \A y \in S : ~ (n - y < n - s)  BY <1>1, <1>3, <1>5
<1>7. \A y \in S : s >= y  BY <1>6
<1>8. QED BY <1>7 DEF Max

--------------------------------------------------------------------------------
(* Types.                                                                  *)

LEMMA InitTypes == Init => TypeOK
<1> SUFFICES ASSUME Init PROVE TypeOK  OBVIOUS
<1>1. /\ 1 \in Times /\ 0 \in 0..(MaintainEvery - 1) /\ 0 \in 0..MaxTime /\ 0 \in 0..MaxFaults
  BY HistoryAssumption DEF HistoryAssumption, Times
<1>2. /\ latest \in [Devices -> Times \union {Never}]
      /\ persisted \in [Devices -> Times \union {Never}]
      /\ rollup \in [Resolutions -> SUBSET Row]
  BY DEF Init
<1>3. QED BY <1>1, <1>2 DEF Init, TypeOK

\* Aggregation moves the watermark forward, within the time there is.
LEMMA WatermarkMoves ==
  ASSUME TypeOK, Aggregate
  PROVE  /\ watermark' \in 0..MaxTime /\ watermark <= watermark'
         /\ \A s \in samples : s.ts >= RecomputeFrom => s.ts <= watermark'
<1> DEFINE rows == {s \in samples : s.ts >= RecomputeFrom}
           T    == {watermark} \union {s.ts : s \in rows}
<1>1. watermark' = Max(T)  BY DEF Aggregate
<1>2. T \subseteq 0..MaxTime  BY HistoryAssumption DEF HistoryAssumption, TypeOK, Row, Times
<1>3. MaxTime \in Nat  BY HistoryAssumption DEF HistoryAssumption
<1>4. watermark \in T  OBVIOUS
<1>5. \A s \in rows : s.ts \in T  OBVIOUS
<1> HIDE DEF T
<1>6. Max(T) \in T /\ \A y \in T : Max(T) >= y  BY <1>2, <1>3, <1>4, MaxExists
<1>7. QED BY <1>1, <1>2, <1>4, <1>5, <1>6

LEMMA NextTypes == TypeOK /\ [Next]_vars => TypeOK'
<1> SUFFICES ASSUME TypeOK, [Next]_vars PROVE TypeOK'  OBVIOUS
<1> USE HistoryAssumption DEF HistoryAssumption, TypeOK, Times, loop, tables, history
<1>1. CASE UNCHANGED vars  BY <1>1 DEF vars
<1>2. CASE Tick  BY <1>2 DEF Tick
<1>3. ASSUME NEW s \in Row, Publish(s) PROVE TypeOK'
  BY <1>3 DEF Publish, Row
<1>4. ASSUME NEW s \in Row, WriteFails(s) \/ Skip(s) PROVE TypeOK'
  BY <1>4 DEF WriteFails, Skip
<1>5. CASE StartPass  BY <1>5 DEF StartPass, Latest
<1>6. ASSUME NEW s \in Row, Write(s) PROVE TypeOK'
  BY <1>6 DEF Write, Row
<1>7. CASE EndPass  BY <1>7 DEF EndPass
<1>8. CASE Aggregate
  <2>1. watermark' \in 0..MaxTime  BY <1>8, WatermarkMoves
  <2>2. rollup' \in [Resolutions -> SUBSET Row]  BY <1>8 DEF Aggregate, Upsert
  <2>3. QED BY <1>8, <2>1, <2>2 DEF Aggregate
<1>9. CASE Prune  BY <1>9 DEF Prune
<1>10. CASE MaintainFails  BY <1>10 DEF MaintainFails
<1>11. CASE Restart  BY <1>11 DEF Restart
<1>12. QED BY <1>1, <1>2, <1>3, <1>4, <1>5, <1>6, <1>7, <1>8, <1>9, <1>10, <1>11 DEF Next, Loop

\* Every variable of the history path keeps its type.
THEOREM HistoryTypes == Spec => []TypeOK
BY InitTypes, NextTypes, PTL DEF Spec

--------------------------------------------------------------------------------
(* Rows that have been pruned.                                             *)

\* What has come too late for the watermark never enters a rollup again.
LateInv == \A s \in late : s.ts < RecomputeFrom

\* The tables hold nothing that was not stored.
OriginInv ==
  /\ samples \subseteq stored
  /\ \A r \in Resolutions : rollup[r] \subseteq stored

\* A row is rolled up when the day of the watermark is past it; until then it is in the raw
\* table, where the next aggregation, which may begin at the start of that day, finds it.
Placed(s) ==
  IF s.ts < RecomputeFrom THEN \A r \in Resolutions : s \in rollup[r] ELSE s \in samples

PlacedInv ==
  ~silent =>
    /\ \A s \in stored \ late : Placed(s)
    /\ \A q, r \in Resolutions : rollup[q] = rollup[r]

KeptInv == LateInv /\ OriginInv /\ PlacedInv

LEMMA InitKept == Init => KeptInv
BY DEF Init, KeptInv, LateInv, OriginInv, PlacedInv

\* The start of the watermark's day moves forward only.
LEMMA DayMoves ==
  ASSUME TypeOK, Aggregate
  PROVE  RecomputeFrom' >= RecomputeFrom /\ RecomputeFrom \in Nat /\ RecomputeFrom' \in Nat
<1>1. watermark \in Nat /\ watermark' \in Nat /\ watermark <= watermark' /\ Day \in Nat \ {0}
  BY WatermarkMoves, HistoryAssumption DEF HistoryAssumption, TypeOK
<1>2. BucketStart(watermark, Day) <= BucketStart(watermark', Day)  BY <1>1, BucketMonotone
<1>3. BucketStart(watermark, Day) \in Nat /\ BucketStart(watermark', Day) \in Nat
  BY <1>1, BucketBounds
<1>4. QED BY <1>2, <1>3 DEF RecomputeFrom

\* What an upsert leaves of a table, when it begins at the start of a day: all that is before.
LEMMA UpsertKeepsEarlier ==
  ASSUME TypeOK, NEW r \in Resolutions, NEW s \in rollup[r], s.ts < RecomputeFrom
  PROVE  s \in Upsert(rollup[r], {x \in samples : x.ts >= RecomputeFrom}, Width[r])
<1> DEFINE rows == {x \in samples : x.ts >= RecomputeFrom}
<1>1. Width[r] \in Nat \ {0} /\ Day \in Nat \ {0}  BY HistoryAssumption DEF HistoryAssumption
<1>2. s.ts \in Nat /\ watermark \in Nat /\ \A x \in rows : x.ts \in Nat
  BY HistoryAssumption DEF HistoryAssumption, TypeOK, Row, Times
<1>3. \A x \in rows : RecomputeFrom <= BucketStart(x.ts, Width[r])
  BY <1>2, DaysAreBuckets DEF RecomputeFrom
<1>4. BucketStart(s.ts, Width[r]) <= s.ts  BY <1>1, <1>2, BucketBounds
<1>5. RecomputeFrom \in Nat /\ BucketStart(s.ts, Width[r]) \in Nat
  BY <1>1, <1>2, BucketBounds DEF RecomputeFrom
<1>6. \A x \in rows : BucketStart(x.ts, Width[r]) \in Nat  BY <1>1, <1>2, BucketBounds
<1>7. BucketStart(s.ts, Width[r]) \notin {BucketStart(x.ts, Width[r]) : x \in rows}
  BY <1>2, <1>3, <1>4, <1>5, <1>6
<1>8. QED BY <1>7 DEF Upsert

\* Unless the devices were silent, aggregation drops no row from a rollup table.
LEMMA UpsertKeeps ==
  ASSUME TypeOK, KeptInv, ~silent, Aggregate, NEW r \in Resolutions
  PROVE  /\ rollup[r] \subseteq rollup'[r]
         /\ rollup'[r] = rollup[r] \union {x \in samples : x.ts >= RecomputeFrom}
<1> DEFINE rows == {x \in samples : x.ts >= RecomputeFrom}
<1>1. rollup'[r] = Upsert(rollup[r], rows, Width[r])  BY DEF Aggregate
<1>2. rows \subseteq rollup'[r] /\ rollup'[r] \subseteq rollup[r] \union rows  BY <1>1 DEF Upsert
<1>3. ASSUME NEW s \in rollup[r] PROVE s \in rollup'[r]
  <2>1. s.ts \in Nat /\ RecomputeFrom \in Nat
    BY DayMoves, HistoryAssumption DEF HistoryAssumption, TypeOK, Row, Times
  <2>2. CASE s.ts < RecomputeFrom  BY <1>1, <2>2, UpsertKeepsEarlier
  <2>3. CASE s.ts >= RecomputeFrom
    <3>1. s \in stored \ late  BY <2>1, <2>3 DEF KeptInv, OriginInv, LateInv
    <3>2. s \in samples  BY <2>1, <2>3, <3>1 DEF KeptInv, PlacedInv, Placed
    <3>3. QED BY <1>2, <2>3, <3>2
  <2>4. QED BY <2>1, <2>2, <2>3
<1>4. QED BY <1>2, <1>3

LEMMA AggregateKept ==
  ASSUME TypeOK, KeptInv, Aggregate
  PROVE  KeptInv'
<1>0. samples' = samples /\ stored' = stored /\ late' = late /\ silent' = silent
  BY DEF Aggregate, history
<1>1. RecomputeFrom' >= RecomputeFrom /\ RecomputeFrom \in Nat /\ RecomputeFrom' \in Nat
  BY DayMoves
<1>2. \A s \in stored : s.ts \in Nat
  BY HistoryAssumption DEF HistoryAssumption, TypeOK, Row, Times
<1>3. LateInv'
  BY <1>0, <1>1, <1>2 DEF KeptInv, LateInv, TypeOK, Row, Times
<1>4. OriginInv'  BY <1>0 DEF KeptInv, OriginInv, Aggregate, Upsert, TypeOK
<1>5. ASSUME ~silent PROVE PlacedInv'
  <2> DEFINE rows == {x \in samples : x.ts >= RecomputeFrom}
  <2>1. \A r \in Resolutions : rollup'[r] = rollup[r] \union rows  BY <1>5, UpsertKeeps
  <2>2. \A q, r \in Resolutions : rollup'[q] = rollup'[r]
    BY <1>5, <2>1 DEF KeptInv, PlacedInv
  <2>3. ASSUME NEW s \in stored \ late PROVE Placed(s)'
    <3>1. Placed(s)  BY <1>5 DEF KeptInv, PlacedInv
    <3>2. CASE s.ts < RecomputeFrom
      BY <1>1, <1>2, <2>1, <3>1, <3>2 DEF Placed
    <3>3. CASE s.ts >= RecomputeFrom
      <4>1. s \in samples /\ s \in rows  BY <1>1, <1>2, <3>1, <3>3 DEF Placed
      <4>2. QED BY <1>0, <2>1, <4>1 DEF Placed
    <3>4. QED BY <1>1, <1>2, <3>2, <3>3
  <2>4. QED BY <1>0, <2>2, <2>3 DEF PlacedInv
<1>6. QED BY <1>0, <1>3, <1>4, <1>5 DEF KeptInv, PlacedInv

\* A prune that does not follow a silence deletes only rows before the day of the watermark.
LEMMA PruneKept ==
  ASSUME TypeOK, KeptInv, Prune
  PROVE  KeptInv'
<1>0. /\ rollup' = rollup /\ watermark' = watermark /\ stored' = stored /\ late' = late
      /\ RecomputeFrom' = RecomputeFrom
  BY DEF Prune, RecomputeFrom
<1>1. LateInv' /\ OriginInv'  BY <1>0 DEF KeptInv, LateInv, OriginInv, Prune
<1>2. ASSUME ~silent' PROVE PlacedInv'
  <2>1. ~silent /\ ~(now - watermark > Retention - Day)  BY <1>2 DEF Prune, TypeOK
  <2>2. /\ now \in Nat /\ watermark \in Nat /\ Retention \in Nat /\ Day \in Nat \ {0}
        /\ \A s \in stored : s.ts \in Nat
    BY HistoryAssumption DEF HistoryAssumption, TypeOK, Row, Times
  <2>3. RecomputeFrom \in Nat /\ watermark < RecomputeFrom + Day
    BY <2>2, BucketBounds DEF RecomputeFrom
  <2>4. now - Retention < RecomputeFrom  BY <2>1, <2>2, <2>3
  <2>5. ASSUME NEW s \in stored \ late PROVE Placed(s)'
    <3>1. Placed(s)  BY <2>1 DEF KeptInv, PlacedInv
    <3>2. CASE s.ts < RecomputeFrom  BY <1>0, <3>1, <3>2 DEF Placed
    <3>3. CASE ~(s.ts < RecomputeFrom)
      <4>1. s \in samples /\ s.ts >= now - Retention  BY <2>2, <2>3, <2>4, <3>1, <3>3 DEF Placed
      <4>2. s \in samples'  BY <4>1 DEF Prune
      <4>3. QED BY <1>0, <3>3, <4>2 DEF Placed
    <3>4. QED BY <3>2, <3>3
  <2>6. QED BY <1>0, <2>1, <2>5 DEF KeptInv, PlacedInv
<1>3. QED BY <1>1, <1>2 DEF KeptInv, PlacedInv

LEMMA WriteKept ==
  ASSUME TypeOK, KeptInv, NEW s \in Row, Write(s)
  PROVE  KeptInv'
<1>0. /\ samples' = samples \union {s} /\ stored' = stored \union {s}
      /\ late' = IF s.ts < RecomputeFrom THEN late \union {s} ELSE late
      /\ rollup' = rollup /\ watermark' = watermark /\ silent' = silent
      /\ RecomputeFrom' = RecomputeFrom
  BY DEF Write, RecomputeFrom
<1>1. LateInv'  BY <1>0 DEF KeptInv, LateInv
<1>2. OriginInv'  BY <1>0 DEF KeptInv, OriginInv
<1>3. ASSUME ~silent, NEW x \in stored' \ late' PROVE Placed(x)'
  <2>1. CASE x = s  BY <1>0, <1>3, <2>1 DEF Placed
  <2>2. CASE x # s
    <3>1. x \in stored \ late  BY <1>0, <1>3, <2>2
    <3>2. Placed(x)  BY <1>3, <3>1 DEF KeptInv, PlacedInv
    <3>3. QED BY <1>0, <3>2 DEF Placed
  <2>3. QED BY <2>1, <2>2
<1>4. PlacedInv'  BY <1>0, <1>3 DEF KeptInv, PlacedInv
<1>5. QED BY <1>1, <1>2, <1>4 DEF KeptInv

LEMMA NextKept == TypeOK /\ KeptInv /\ [Next]_vars => KeptInv'
<1> SUFFICES ASSUME TypeOK, KeptInv, [Next]_vars PROVE KeptInv'  OBVIOUS
<1>1. ASSUME UNCHANGED <<tables, history>> PROVE KeptInv'
  BY <1>1 DEF tables, history, KeptInv, LateInv, OriginInv, PlacedInv, Placed, RecomputeFrom
<1>2. ASSUME NEW s \in Row, Publish(s) \/ WriteFails(s) \/ Skip(s) PROVE KeptInv'
  BY <1>1, <1>2 DEF Publish, WriteFails, Skip
<1>3. CASE UNCHANGED vars \/ Tick \/ StartPass \/ EndPass \/ MaintainFails \/ Restart
  BY <1>1, <1>3 DEF vars, tables, history, Tick, StartPass, EndPass, MaintainFails, Restart
<1>4. QED BY <1>2, <1>3, WriteKept, AggregateKept, PruneKept DEF Next, Loop

\* A row that has left the raw table is in every rollup table, and the rollup tables agree,
\* whatever failed and whenever the process restarted, unless the devices were silent too long.
THEOREM NothingLost ==
  /\ Spec => []RawOrRolledUp
  /\ TasksSpec => []RawOrRolledUp
<1>1. KeptInv => RawOrRolledUp  BY DEF KeptInv, PlacedInv, Placed, RawOrRolledUp
<1>2. Spec => []RawOrRolledUp  BY <1>1, InitTypes, NextTypes, InitKept, NextKept, PTL DEF Spec
<1>3. TasksInit => Init  BY DEF TasksInit
<1>4. TasksSpec => []RawOrRolledUp
  BY <1>1, <1>3, OnlyTasksMove, InitTypes, NextTypes, InitKept, NextKept, PTL DEF TasksSpec
<1>5. QED BY <1>2, <1>4

\* repository.py:404 "rollups are kept" holds as long as no silence preceded a prune: the
\* steps that break RollupsAreKept are aggregations after one.
THEOREM LossNeedsSilence ==
  Spec => [][~silent => \A r \in Resolutions : rollup[r] \subseteq rollup'[r]]_vars
<1>1. ASSUME TypeOK, KeptInv, [Next]_vars, ~silent, NEW r \in Resolutions
      PROVE  rollup[r] \subseteq rollup'[r]
  <2>1. CASE Aggregate  BY <1>1, <2>1, UpsertKeeps
  <2>2. CASE ~Aggregate
    <3>1. rollup' = rollup
      BY <1>1, <2>2 DEF Next, Loop, vars, tables, Tick, Publish, WriteFails, Skip, Write, StartPass,
                        EndPass, Prune, MaintainFails, Restart
    <3>2. QED BY <3>1
  <2>3. QED BY <2>1, <2>2
<1>2. TypeOK /\ KeptInv /\ [Next]_vars
        => (~silent => \A r \in Resolutions : rollup[r] \subseteq rollup'[r])
  BY <1>1
<1>3. QED BY <1>2, InitTypes, NextTypes, InitKept, NextKept, PTL DEF Spec

--------------------------------------------------------------------------------
(* MqttPublisher: what is announced.                                       *)

MqttInv == Mqtt!TypeOK /\ Mqtt!AnnouncedOrLost

--------------------------------------------------------------------------------
(* Publications.                                                           *)

\* What is on its way to a broker is what each publication under way takes there.
LEMMA OnTheWayMember ==
  ASSUME NEW t, NEW s
  PROVE  s \in Mqtt!OnTheWay(t) <=>
           \E p \in Publishers : sending[p] # None /\ sending[p].target = t /\ s \in sending[p].sensors
BY DEF Mqtt!OnTheWay

\* A publication has its type, and what the signature stands for afterwards is announced.
LEMMA PublishStep ==
  ASSUME Mqtt!MqttAssumption, MqttInv, NEW p \in Publishers, NEW before, config.target # None, sending[p] = None,
         before = None \/ before = signature, Mqtt!Publish(p, before)
  PROVE  MqttInv'
<1> DEFINE due == config.discovery /\ metrics # before
           s   == [target  |-> config.target,
                   sensors |-> IF due THEN metrics ELSE {},
                   all     |-> IF p # "loop" /\ config.discovery THEN metrics ELSE {}]
<1> USE DEF MqttInv
<1>1. UNCHANGED <<metrics, config, saving, retained, lost, failures>>  BY DEF Mqtt!Publish
<1>2. config.target \in Targets /\ metrics \in SUBSET Sensors
  BY DEF Mqtt!MqttAssumption, Mqtt!TypeOK
<1>3. s \in Mqtt!Sending  BY <1>2 DEF Mqtt!Sending
<1>4. sending' = IF metrics = {} THEN sending ELSE [sending EXCEPT ![p] = s]  BY DEF Mqtt!Publish
<1>5. signature' = IF config.discovery THEN metrics ELSE before  BY DEF Mqtt!Publish
<1>6. Mqtt!TypeOK'  BY <1>1, <1>2, <1>3, <1>4, <1>5 DEF Mqtt!TypeOK
<1>7. Mqtt!AnnouncedOrLost'
  <2> SUFFICES ASSUME signature' # None, config.discovery, saving = {}, NEW x \in signature'
               PROVE  x \in retained[config.target] \union lost[config.target] \union Mqtt!OnTheWay(config.target)'
    BY <1>1 DEF Mqtt!AnnouncedOrLost
  <2>1. signature' = metrics /\ sending' = [sending EXCEPT ![p] = s]  BY <1>4, <1>5
  <2> DEFINE t == config.target
  <2>2. \A q \in Publishers \ {p} : sending'[q] = sending[q]  BY <2>1 DEF Mqtt!TypeOK
  <2>3. sending'[p] = s /\ s # None  BY <1>3, <2>1 DEF Mqtt!TypeOK, Mqtt!MqttAssumption
  <2>4. CASE due
    <3>1. x \in sending'[p].sensors /\ sending'[p].target = t  BY <2>1, <2>3, <2>4
    <3>2. x \in Mqtt!OnTheWay(t)'  BY <1>1, <2>3, <3>1 DEF Mqtt!OnTheWay
    <3>3. QED BY <3>2
  <2>5. CASE ~due
    <3>1. before = metrics /\ before # None  BY <1>2, <2>5 DEF Mqtt!MqttAssumption
    <3>2. x \in retained[t] \union lost[t] \union Mqtt!OnTheWay(t)
      BY <2>1, <3>1 DEF Mqtt!AnnouncedOrLost
    <3>3. x \in Mqtt!OnTheWay(t) => x \in Mqtt!OnTheWay(t)'  BY <1>1, <2>2 DEF Mqtt!OnTheWay
    <3>4. QED BY <3>2, <3>3
  <2>6. QED BY <2>4, <2>5
<1>8. QED BY <1>6, <1>7

\* A publication that ends has announced its sensors, or lost them.
LEMMA DeliverStep ==
  ASSUME Mqtt!MqttAssumption, MqttInv, NEW p \in Publishers, sending[p] # None,
         NEW sensors \in SUBSET sending[p].sensors, Mqtt!Deliver(p, sensors), failures' \in 0..MaxFaults
  PROVE  MqttInv'
<1> DEFINE s == sending[p]
<1> USE DEF MqttInv
<1>1. /\ UNCHANGED <<metrics, config, signature, saving>>
      /\ sending' = [sending EXCEPT ![p] = None]
      /\ retained' = [retained EXCEPT ![s.target] = @ \union sensors]
      /\ lost' = [lost EXCEPT ![s.target] = (@ \union s.sensors) \ sensors]
  BY DEF Mqtt!Deliver
<1>2. s \in Mqtt!Sending /\ s.target \in Targets /\ s.sensors \in SUBSET Sensors /\ sensors \in SUBSET Sensors
  BY DEF Mqtt!TypeOK, Mqtt!Sending
<1>3. Mqtt!TypeOK'  BY <1>1, <1>2 DEF Mqtt!TypeOK
<1>4. ASSUME NEW t \in Targets, NEW x \in retained[t] \union lost[t] \union Mqtt!OnTheWay(t)
      PROVE  x \in retained'[t] \union lost'[t] \union Mqtt!OnTheWay(t)'
  <2>1. CASE x \in s.sensors /\ s.target = t  BY <1>1, <2>1 DEF Mqtt!TypeOK
  <2>2. CASE x \in retained[t] \union lost[t]  BY <1>1, <2>2 DEF Mqtt!TypeOK
  <2>3. CASE x \in Mqtt!OnTheWay(t) /\ ~(x \in s.sensors /\ s.target = t)
    <3>1. PICK q \in Publishers : sending[q] # None /\ sending[q].target = t /\ x \in sending[q].sensors
      BY <2>3, OnTheWayMember
    <3>2. q # p  BY <2>3, <3>1
    <3>3. sending'[q] = sending[q]  BY <1>1, <3>2 DEF Mqtt!TypeOK
    <3>4. QED BY <3>1, <3>3 DEF Mqtt!OnTheWay
  <2>4. QED BY <1>4, <2>1, <2>2, <2>3
<1>5. Mqtt!AnnouncedOrLost'
  <2>1. config.target # None => config.target \in Targets  BY DEF Mqtt!TypeOK, Mqtt!MqttAssumption
  <2>2. QED BY <1>1, <1>4, <2>1 DEF Mqtt!AnnouncedOrLost
<1>6. QED BY <1>3, <1>5

--------------------------------------------------------------------------------
LEMMA MqttInitial == Mqtt!MqttAssumption /\ Mqtt!Init => MqttInv
BY DEF Mqtt!MqttAssumption, Mqtt!Init, MqttInv, Mqtt!TypeOK, Mqtt!AnnouncedOrLost

LEMMA MqttStep ==
  ASSUME Mqtt!MqttAssumption, MqttInv, [Mqtt!Next]_mqttVars
  PROVE  MqttInv'
<1> USE DEF MqttInv
<1>1. CASE Mqtt!Reading
  <2>1. Mqtt!TypeOK'  BY <1>1 DEF Mqtt!Reading, Mqtt!TypeOK, Mqtt!MqttAssumption
  <2>2. Mqtt!AnnouncedOrLost'  BY <1>1 DEF Mqtt!Reading, Mqtt!AnnouncedOrLost, Mqtt!OnTheWay
  <2>3. QED BY <2>1, <2>2
<1>2. CASE Mqtt!Tick  BY <1>2, PublishStep DEF Mqtt!Tick, Mqtt!MqttAssumption
<1>3. CASE Mqtt!Restart
  BY <1>3 DEF Mqtt!Restart, Mqtt!TypeOK, Mqtt!AnnouncedOrLost, Mqtt!MqttAssumption
<1>4. ASSUME NEW p \in Publishers, Mqtt!Test(p) PROVE MqttInv'  BY <1>4, PublishStep DEF Mqtt!Test
<1>5. ASSUME NEW p \in Publishers, Mqtt!Published(p) PROVE MqttInv'
  <2>1. failures' \in 0..MaxFaults  BY <1>5 DEF Mqtt!Published, Mqtt!TypeOK
  <2>2. QED BY <1>5, <2>1, DeliverStep DEF Mqtt!Published
<1>6. ASSUME NEW p \in Publishers, Mqtt!PublishFails(p) PROVE MqttInv'
  <2>1. failures' \in 0..MaxFaults  BY <1>6 DEF Mqtt!PublishFails, Mqtt!TypeOK, Mqtt!MqttAssumption
  <2>2. QED BY <1>6, <2>1, DeliverStep DEF Mqtt!PublishFails
\* A configuration that is stored and not yet gone on with says nothing of the signature ...
<1>7. ASSUME NEW c \in Clients, Mqtt!Save(c) PROVE MqttInv'
  BY <1>7 DEF Mqtt!Save, Mqtt!TypeOK, Mqtt!AnnouncedOrLost
\* ... and the last request to go on resets it.
<1>8. ASSUME NEW c \in Clients, Mqtt!Saved(c) PROVE MqttInv'
  BY <1>8 DEF Mqtt!Saved, Mqtt!TypeOK, Mqtt!AnnouncedOrLost
<1>9. CASE UNCHANGED mqttVars
  BY <1>9 DEF mqttVars, Mqtt!TypeOK, Mqtt!AnnouncedOrLost, Mqtt!OnTheWay
<1>10. QED BY <1>1, <1>2, <1>3, <1>4, <1>5, <1>6, <1>7, <1>8, <1>9 DEF Mqtt!Next

\* mqtt.py: what the signature says was announced to the broker of the present configuration has
\* been, or is on its way, or was lost in a publication that failed, however saves, tests and the
\* loop overlap: the signature spares the publisher no announcement it has still to make.
THEOREM Announced ==
  /\ Mqtt!Spec => []Mqtt!AnnouncedOrLost
  /\ TasksSpec => []AnnouncedOrLost
<1>1. Mqtt!Init => MqttInv  BY MqttInitial, TasksAssumption DEF TasksAssumption
<1>2. MqttInv /\ [Mqtt!Next]_mqttVars => MqttInv'  BY MqttStep, TasksAssumption DEF TasksAssumption
<1>3. MqttInv => Mqtt!AnnouncedOrLost /\ AnnouncedOrLost  BY DEF MqttInv, AnnouncedOrLost
<1>4. TasksInit => MqttInv  BY <1>1 DEF TasksInit
<1>5. MqttInv /\ [TasksNext]_taskVars => MqttInv'  BY <1>2, OnlyTasksMove
<1>6. TasksSpec => []AnnouncedOrLost  BY <1>3, <1>4, <1>5, PTL DEF TasksSpec
<1>7. MqttInv /\ [Mqtt!Next]_(Mqtt!vars) => MqttInv'  BY <1>2 DEF mqttVars, Mqtt!vars
<1>8. Mqtt!Spec => []Mqtt!AnnouncedOrLost  BY <1>1, <1>3, <1>7, PTL DEF Mqtt!Spec
<1>9. QED BY <1>6, <1>8
==================================================================================
