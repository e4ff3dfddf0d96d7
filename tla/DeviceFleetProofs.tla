---------------------------- MODULE DeviceFleetProofs ----------------------------
(***************************************************************************)
(* Proofs about DeviceFleet, for any devices, clients, polls and bounds.   *)
(***************************************************************************)
EXTENDS DeviceFleet, FiniteSetTheorems, FunctionTheorems, SequenceTheorems, TLAPS

Members  == ToSet(registry)
OneOfId(s) == \A i, j \in DOMAIN s : s[i].id = s[j].id => i = j

--------------------------------------------------------------------------------
(* The registry.                                                           *)

LEMMA RegisteredMember ==
  ASSUME NEW id
  PROVE  Registered(id) <=> \E dev \in Members : dev.id = id
BY DEF Registered, Members, ToSet

\* The entry of an id is the only device of that id.
LEMMA EntryOfId ==
  ASSUME TypeOK, NEW id, Registered(id)
  PROVE  /\ Position(id) \in DOMAIN registry /\ registry[Position(id)].id = id
         /\ Entry(id) \in Members /\ Entry(id) \in Device /\ Entry(id).id = id
         /\ \A dev \in Members : dev.id = id => dev = Entry(id)
<1>1. Position(id) \in DOMAIN registry /\ registry[Position(id)].id = id
  BY DEF Registered, Position
<1>2. \A i \in DOMAIN registry : registry[i].id = id => i = Position(id)  BY <1>1 DEF TypeOK
<1>3. registry \in Seq(Device)  BY DEF TypeOK
<1>4. registry[Position(id)] \in Device  BY <1>1, <1>3, LenProperties, ElementOfSeq
<1>5. QED BY <1>1, <1>2, <1>4 DEF Entry, Members, ToSet

\* A sequence without one of its positions.
LEMMA RemoveAtProperties ==
  ASSUME NEW S, NEW s \in Seq(S), NEW k \in DOMAIN s
  PROVE  /\ RemoveAt(s, k) \in Seq(S)
         /\ DOMAIN RemoveAt(s, k) = 1..(Len(s) - 1)
         /\ \A i \in 1..(Len(s) - 1) : RemoveAt(s, k)[i] = s[IF i < k THEN i ELSE i + 1]
<1> DEFINE a == SubSeq(s, 1, k - 1)
           b == SubSeq(s, k + 1, Len(s))
<1>1. Len(s) \in Nat /\ DOMAIN s = 1..Len(s) /\ k \in 1..Len(s) /\ \A i \in 1..Len(s) : s[i] \in S
  BY LenProperties, ElementOfSeq
<1>2. /\ a \in Seq(S) /\ Len(a) = k - 1
      /\ \A i \in 1..(k - 1) : a[i] = s[i]
  <2>1. \A i \in 1..(k - 1) : s[i] \in S  BY <1>1
  <2>2. /\ a \in Seq(S) /\ Len(a) = IF 1 <= k - 1 THEN k - 1 - 1 + 1 ELSE 0
        /\ \A i \in 1..(k - 1 - 1 + 1) : a[i] = s[1 + i - 1]
    BY <1>1, <2>1, SubSeqProperties
  <2>3. QED BY <1>1, <2>2
<1>3. /\ b \in Seq(S) /\ Len(b) = Len(s) - k
      /\ \A i \in 1..(Len(s) - k) : b[i] = s[k + i]
  <2>1. \A i \in (k + 1)..Len(s) : s[i] \in S  BY <1>1
  <2>2. /\ b \in Seq(S) /\ Len(b) = IF k + 1 <= Len(s) THEN Len(s) - (k + 1) + 1 ELSE 0
        /\ \A i \in 1..(Len(s) - (k + 1) + 1) : b[i] = s[k + 1 + i - 1]
    BY <1>1, <2>1, SubSeqProperties
  <2>3. Len(b) = Len(s) - k  BY <1>1, <2>2
  <2>4. ASSUME NEW i \in 1..(Len(s) - k) PROVE b[i] = s[k + i]
    <3>1. i \in 1..(Len(s) - (k + 1) + 1) /\ k + 1 + i - 1 = k + i  BY <1>1
    <3>2. b[i] = s[k + 1 + i - 1]  BY <2>2, <3>1
    <3>3. QED BY <3>1, <3>2
  <2>5. QED BY <2>2, <2>3, <2>4
<1> HIDE DEF a, b
<1>4. /\ a \o b \in Seq(S) /\ Len(a \o b) = Len(a) + Len(b)
      /\ \A i \in 1..(Len(a) + Len(b)) : (a \o b)[i] = IF i <= Len(a) THEN a[i] ELSE b[i - Len(a)]
  BY <1>2, <1>3, ConcatProperties
<1>5. DOMAIN (a \o b) = 1..(Len(s) - 1)
  <2>1. DOMAIN (a \o b) = 1..Len(a \o b)  BY <1>4, LenProperties
  <2>2. Len(a \o b) = Len(s) - 1  BY <1>1, <1>2, <1>3, <1>4
  <2>3. QED BY <2>1, <2>2
<1>6. ASSUME NEW i \in 1..(Len(s) - 1) PROVE (a \o b)[i] = s[IF i < k THEN i ELSE i + 1]
  <2>1. i \in 1..(Len(a) + Len(b))  BY <1>1, <1>2, <1>3
  <2>2. (a \o b)[i] = IF i <= Len(a) THEN a[i] ELSE b[i - Len(a)]  BY <1>4, <2>1
  <2>3. CASE i < k
    <3>1. i <= Len(a) /\ i \in 1..(k - 1)  BY <1>1, <1>2, <2>3
    <3>2. QED BY <1>2, <2>2, <2>3, <3>1
  <2>4. CASE ~(i < k)
    <3>1. ~(i <= Len(a)) /\ i - Len(a) \in 1..(Len(s) - k) /\ k + (i - Len(a)) = i + 1
      BY <1>1, <1>2, <2>4
    <3>2. b[i - Len(a)] = s[k + (i - Len(a))]  BY <1>3, <3>1
    <3>3. QED BY <2>2, <2>4, <3>1, <3>2
  <2>5. QED BY <2>3, <2>4
<1>7. RemoveAt(s, k) = a \o b  BY DEF RemoveAt, a, b
<1>8. QED BY <1>4, <1>5, <1>6, <1>7

\* registry.remove takes the device of the id out, and nothing else.
LEMMA WithoutIdProperties ==
  ASSUME TypeOK, NEW id
  PROVE  /\ WithoutId(id) \in Seq(Device) /\ OneOfId(WithoutId(id))
         /\ ToSet(WithoutId(id)) = {dev \in Members : dev.id # id}
<1>1. CASE ~Registered(id)
  BY <1>1, RegisteredMember DEF WithoutId, TypeOK, OneOfId, Members
<1>2. CASE Registered(id)
  <2> DEFINE k == Position(id)
             s == WithoutId(id)
  <2>1. k \in DOMAIN registry /\ registry[k].id = id  BY <1>2, EntryOfId
  <2>2. registry \in Seq(Device)  BY DEF TypeOK
  <2>3. Len(registry) \in Nat /\ DOMAIN registry = 1..Len(registry)  BY <2>2, LenProperties
  <2>4. s = RemoveAt(registry, k)  BY <1>2 DEF WithoutId
  <2> HIDE DEF k, s
  <2>5. /\ s \in Seq(Device) /\ DOMAIN s = 1..(Len(registry) - 1)
        /\ \A i \in 1..(Len(registry) - 1) : s[i] = registry[IF i < k THEN i ELSE i + 1]
    BY <2>1, <2>2, <2>4, RemoveAtProperties
  <2>6. \A i, j \in DOMAIN registry : registry[i].id = registry[j].id => i = j  BY DEF TypeOK
  <2>7. OneOfId(s)
    <3> SUFFICES ASSUME NEW i \in DOMAIN s, NEW j \in DOMAIN s, s[i].id = s[j].id PROVE i = j
      BY DEF OneOfId
    <3> DEFINE At1(m) == IF m < k THEN m ELSE m + 1
    <3>1. i \in 1..(Len(registry) - 1) /\ j \in 1..(Len(registry) - 1)  BY <2>5
    <3>2. At1(i) \in DOMAIN registry /\ At1(j) \in DOMAIN registry  BY <2>1, <2>3, <3>1
    <3>3. s[i] = registry[At1(i)] /\ s[j] = registry[At1(j)]  BY <2>5, <3>1
    <3>4. At1(i) = At1(j)  BY <2>6, <3>2, <3>3
    <3>5. QED BY <2>1, <2>3, <3>1, <3>4
  <2>8. ToSet(s) \subseteq {dev \in Members : dev.id # id}
    BY <2>1, <2>3, <2>5, <2>6 DEF ToSet, Members
  <2>9. ASSUME NEW dev \in Members, dev.id # id PROVE dev \in ToSet(s)
    <3>1. PICK i \in DOMAIN registry : registry[i] = dev  BY DEF Members, ToSet
    <3>2. i # k  BY <2>1, <2>9, <3>1
    <3>3. CASE i < k  BY <2>1, <2>3, <2>5, <3>1, <3>3 DEF ToSet
    <3>4. CASE i > k
      <4>1. i - 1 \in DOMAIN s /\ s[i - 1] = registry[i]  BY <2>1, <2>3, <2>5, <3>4
      <4>2. QED BY <3>1, <4>1 DEF ToSet
    <3>5. QED BY <2>1, <2>3, <3>2, <3>3, <3>4
  <2>10. QED BY <2>5, <2>7, <2>8, <2>9 DEF s
<1>3. QED BY <1>1, <1>2

\* registry.add puts the device in, in the place of one of its id.
LEMMA WithDeviceProperties ==
  ASSUME TypeOK, NEW dev \in Device
  PROVE  /\ WithDevice(dev) \in Seq(Device) /\ OneOfId(WithDevice(dev))
         /\ ToSet(WithDevice(dev)) = {d \in Members : d.id # dev.id} \union {dev}
<1> DEFINE s == WithDevice(dev)
<1>0. /\ registry \in Seq(Device) /\ Len(registry) \in Nat /\ DOMAIN registry = 1..Len(registry)
      /\ \A i \in DOMAIN registry : registry[i] \in Device
      /\ \A i, j \in DOMAIN registry : registry[i].id = registry[j].id => i = j
  BY LenProperties, ElementOfSeq DEF TypeOK
<1>1. CASE Registered(dev.id)
  <2>1. s = [i \in DOMAIN registry |-> IF registry[i].id = dev.id THEN dev ELSE registry[i]]
    BY <1>1 DEF WithDevice
  <2>2. DOMAIN s = DOMAIN registry /\ \A i \in DOMAIN s : s[i].id = registry[i].id  BY <2>1
  <2>3. s \in Seq(Device)  BY <1>0, <2>1
  <2>4. OneOfId(s)  BY <1>0, <2>2 DEF OneOfId
  <2>5. \E i \in DOMAIN registry : s[i] = dev  BY <1>1, <2>1 DEF Registered
  <2>6. ToSet(s) = {d \in Members : d.id # dev.id} \union {dev}
    BY <2>1, <2>5 DEF ToSet, Members
  <2>7. QED BY <2>3, <2>4, <2>6
<1>2. CASE ~Registered(dev.id)
  <2>1. s = Append(registry, dev)  BY <1>2 DEF WithDevice
  <2>2. /\ s \in Seq(Device) /\ DOMAIN s = 1..(Len(registry) + 1) /\ s[Len(registry) + 1] = dev
        /\ \A i \in 1..Len(registry) : s[i] = registry[i]
    BY <1>0, <2>1
  <2>3. \A i \in DOMAIN registry : registry[i].id # dev.id  BY <1>2 DEF Registered
  <2>4. OneOfId(s)  BY <1>0, <2>2, <2>3 DEF OneOfId
  <2>5. ToSet(s) = {d \in Members : d.id # dev.id} \union {dev}
    BY <1>0, <2>2, <2>3 DEF ToSet, Members
  <2>6. QED BY <2>2, <2>4, <2>5
<1>3. QED BY <1>1, <1>2

\* A startup registers one device for each of the ids it builds devices of.
LEMMA StartedProperties ==
  ASSUME TypeOK, NEW ids \in SUBSET Ids, NEW order \in SetToSeqs(ids), NEW s,
         s = [i \in DOMAIN order |-> [id |-> order[i], n |-> made + i]]
  PROVE  /\ s \in Seq(Device) /\ OneOfId(s) /\ Len(order) \in Nat
         /\ \A i \in DOMAIN s : s[i].n <= made + Len(order)
         /\ {s[i].id : i \in DOMAIN s} = ids
<1>1. IsFiniteSet(ids) /\ Cardinality(ids) \in Nat
  BY FleetAssumption, FS_Subset, FS_CardinalityType DEF FleetAssumption
<1> DEFINE n == Cardinality(ids)
<1>2. order \in [1..n -> ids] /\ \A i, j \in 1..n : i # j => order[i] # order[j]
  BY DEF SetToSeqs
<1> HIDE DEF n
<1>3. n \in Nat  BY <1>1 DEF n
<1>4. order \in Injection(1..n, ids)  BY <1>2, Fun_IsInj
<1>5. IsFiniteSet(1..n) /\ Cardinality(1..n) = n  BY <1>3, FS_Interval
<1>6. order \in Surjection(1..n, ids)  BY <1>1, <1>4, <1>5, FS_Injection DEF n
<1>7. \A id \in ids : \E i \in 1..n : order[i] = id  BY <1>6 DEF Surjection
<1>8. DOMAIN order = 1..n /\ Len(order) = n  BY <1>2, <1>3
<1>9. made \in Nat  BY DEF TypeOK
<1>10. DOMAIN s = 1..n /\ \A i \in 1..n : s[i] = [id |-> order[i], n |-> made + i]  BY <1>8
<1>11. s \in Seq(Device)  BY <1>2, <1>3, <1>8, <1>9 DEF Device
<1>12. OneOfId(s)
  <2>1. \A i \in 1..n : s[i].id = order[i]  BY <1>10
  <2>2. QED BY <1>2, <1>10, <2>1 DEF OneOfId
<1>13. \A i \in DOMAIN s : s[i].n <= made + Len(order)
  BY <1>3, <1>8, <1>9, <1>10
<1>14. {s[i].id : i \in DOMAIN s} = ids
  <2>1. \A i \in 1..n : s[i].id = order[i] /\ order[i] \in ids  BY <1>2, <1>10
  <2>2. QED BY <1>7, <1>10, <2>1
<1>15. QED BY <1>3, <1>8, <1>11, <1>12, <1>13, <1>14

--------------------------------------------------------------------------------
(* Type correctness.                                                       *)

RequestTypes ==
  /\ request \in [Clients -> Job \union {None}]
  /\ \A c \in Clients : request[c] # None /\ request[c].step \in {"close", "probed"} => request[c].dev \in Device

LEMMA JobType ==
  ASSUME TypeOK, NEW c \in Clients, request[c] # None
  PROVE  /\ request[c] \in Job /\ request[c].id \in Ids /\ request[c].state \in States
         /\ request[c].dev \in Device \union {None}
BY DEF TypeOK, Job

\* The ids that are adrift.
LEMMA LeftTypes ==
  ASSUME TypeOK, NEW c \in Clients, request[c] # None, Settled(c) \/ adrift' = adrift \union {request[c].id}
  PROVE  adrift' \subseteq Ids
BY JobType DEF Settled, TypeOK

LEMMA RowType ==
  ASSUME TypeOK, NEW id \in Ids
  PROVE  rows[id] \in States \union {None}
BY DEF TypeOK

\* A request that goes on or is answered stays one.
LEMMA GoOnTypes ==
  ASSUME TypeOK, NEW c \in Clients, request[c] # None, NEW step \in Steps \ {"close", "probed"}, GoOn(c, step)
  PROVE  RequestTypes'
<1>1. request[c] \in Job  BY JobType
<1>2. request' = [request EXCEPT ![c] = [request[c] EXCEPT !.step = step]]  BY DEF GoOn
<1>3. [request[c] EXCEPT !.step = step] \in Job /\ [request[c] EXCEPT !.step = step].step = step
  BY <1>1 DEF Job
<1>4. QED BY <1>2, <1>3 DEF TypeOK, RequestTypes

LEMMA ReplyTypes ==
  ASSUME TypeOK, NEW c \in Clients, Reply(c)
  PROVE  RequestTypes'
BY DEF TypeOK, RequestTypes, Reply

LEMMA AfterRemovalTypes ==
  ASSUME TypeOK, NEW c \in Clients, request[c] # None, AfterRemoval(c)
  PROVE  RequestTypes'
BY GoOnTypes, ReplyTypes DEF AfterRemoval, Steps

\* A request that takes hold of a device.
LEMMA HoldTypes ==
  ASSUME TypeOK, NEW c \in Clients, request[c] # None, NEW step \in Steps, NEW dev \in Device,
         request' = [request EXCEPT ![c].step = step, ![c].dev = dev]
  PROVE  RequestTypes'
<1>1. request[c] \in Job  BY JobType
<1> DEFINE r == [request[c] EXCEPT !.step = step, !.dev = dev]
<1>2. r \in Job /\ r.dev = dev  BY <1>1 DEF Job
<1>3. request' = [request EXCEPT ![c] = r]  BY <1>1 DEF TypeOK
<1>4. QED BY <1>2, <1>3 DEF TypeOK, RequestTypes

LEMMA SeededType ==
  ASSUME TypeOK
  PROVE  Seeded \in [Ids -> States \union {None}]
BY FleetAssumption DEF TypeOK, Seeded, FleetAssumption, States

\* The numbers of the registered devices.
LEMMA NumberTypes ==
  ASSUME TypeOK
  PROVE  /\ made \in Nat
         /\ \A i \in DOMAIN registry : registry[i] \in Device /\ registry[i].n \in Nat /\ registry[i].n <= made
         /\ \A dev \in Members : dev \in Device /\ dev.n \in Nat /\ dev.n <= made
<1>1. registry \in Seq(Device) /\ \A i \in DOMAIN registry : registry[i].n <= made  BY DEF TypeOK
<1>2. \A i \in DOMAIN registry : registry[i] \in Device  BY <1>1, LenProperties, ElementOfSeq
<1>3. \A dev \in Device : dev.n \in Nat  BY DEF Device
<1>4. QED BY <1>1, <1>2, <1>3 DEF Members, ToSet, TypeOK

\* The state of a process that is down.
LEMMA DownTypes ==
  /\ Idle \in [Clients -> Job \union {None}] /\ \A c \in Clients : Idle[c] = None
  /\ NoPoll \in [Pollers -> Scan \union {None}] /\ \A p \in Pollers : NoPoll[p] = None
  /\ NoReading \in [Ids -> Device \union {None}]
  /\ <<>> \in Seq(Device) /\ DOMAIN <<>> = {}
BY EmptySeq, LenProperties DEF Idle, NoPoll, NoReading

LEMMA InitTypes == Init => TypeOK
<1> SUFFICES ASSUME Init PROVE TypeOK  OBVIOUS
<1>1. rows \in [Ids -> States \union {None}]  BY DEF Init
<1>2. requests \in 0..MaxRequests /\ starts \in 0..MaxStarts /\ made \in Nat
  BY FleetAssumption DEF Init, FleetAssumption
<1>3. QED BY <1>1, <1>2, DownTypes DEF Init, TypeOK

LEMMA StartTypes ==
  ASSUME TypeOK, Start
  PROVE  TypeOK'
<1> DEFINE ids == {id \in Ids : Seeded[id] = "enabled"}
<1>1. PICK order \in SetToSeqs(ids) :
        /\ registry' = [i \in DOMAIN order |-> [id |-> order[i], n |-> made + i]]
        /\ made' = made + Len(order) /\ connected' = ToSet(registry')
  BY DEF Start
<1>2. ids \in SUBSET Ids  OBVIOUS
<1>3. /\ registry' \in Seq(Device) /\ OneOfId(registry') /\ Len(order) \in Nat
      /\ \A i \in DOMAIN registry' : registry'[i].n <= made + Len(order)
  <2> HIDE DEF ids
  <2>1. QED BY <1>1, <1>2, StartedProperties
<1>4. connected' \subseteq Device  BY <1>1, <1>3, LenProperties, ElementOfSeq DEF ToSet
<1>5. rows' \in [Ids -> States \union {None}]  BY SeededType DEF Start
<1>6. starts' \in 0..MaxStarts  BY FleetAssumption DEF Start, TypeOK, FleetAssumption
<1>7. QED BY <1>1, <1>3, <1>4, <1>5, <1>6 DEF Start, TypeOK, OneOfId

LEMMA ServeTypes ==
  ASSUME TypeOK, NEW c \in Clients, Serve(c)
  PROVE  TypeOK'
<1> USE JobType
<1>1. CASE Look(c)
  <2>1. RequestTypes'  BY <1>1, GoOnTypes, ReplyTypes DEF Look, At, Steps
  <2>2. QED BY <1>1, <2>1 DEF Look, TypeOK, RequestTypes
<1>2. CASE Insert(c)
  <2>1. RequestTypes'  BY <1>2, AfterRemovalTypes, ReplyTypes DEF Insert, At
  <2>2. rows' \in [Ids -> States \union {None}]  BY <1>2 DEF Insert, At, TypeOK
  <2>3. QED BY <1>2, <2>1, <2>2 DEF Insert, TypeOK, RequestTypes
<1>3. CASE Store(c)
  <2>1. RequestTypes'  BY <1>3, GoOnTypes DEF Store, At, Steps
  <2>2. rows' \in [Ids -> States \union {None}]  BY <1>3 DEF Store, At, TypeOK
  <2>3. QED BY <1>3, <2>1, <2>2 DEF Store, TypeOK, RequestTypes
<1>4. CASE Erase(c)
  <2>1. RequestTypes'  BY <1>4, GoOnTypes, ReplyTypes DEF Erase, At, Steps
  <2>2. rows' \in [Ids -> States \union {None}]  BY <1>4 DEF Erase, At, TypeOK
  <2>3. QED BY <1>4, <2>1, <2>2 DEF Erase, TypeOK, RequestTypes
<1>5. CASE TakeOut(c)
  <2>1. CASE Registered(request[c].id)
    <3>1. Entry(request[c].id) \in Device  BY <2>1, EntryOfId
    <3>2. RequestTypes'  BY <1>5, <2>1, <3>1, HoldTypes DEF TakeOut, At, Steps
    <3>3. UNCHANGED <<rows, running, registry, connected, reachable, poll, latest, requests, starts, made,
                      adrift, unclosed>>
      BY <1>5, <2>1 DEF TakeOut
    <3>4. QED BY <3>2, <3>3 DEF TypeOK, RequestTypes
  <2>2. CASE ~Registered(request[c].id)
    <3>1. RequestTypes'  BY <1>5, <2>2, AfterRemovalTypes DEF TakeOut, At
    <3>2. adrift' \subseteq Ids  BY <1>5, <2>2, LeftTypes DEF TakeOut, At
    <3>3. QED BY <1>5, <3>1, <3>2 DEF TakeOut, TypeOK, RequestTypes
  <2>3. QED BY <2>1, <2>2
<1>6. CASE Close(c)
  <2>1. RequestTypes'  BY <1>6, AfterRemovalTypes DEF Close, At
  <2>2. registry' = WithoutId(request[c].id)  BY <1>6 DEF Close
  <2>3. /\ registry' \in Seq(Device) /\ OneOfId(registry')
        /\ ToSet(registry') \subseteq Members
    BY <2>2, WithoutIdProperties
  <2>4. \A i \in DOMAIN registry' : registry'[i].n <= made  BY <2>3, NumberTypes DEF ToSet
  <2>5. connected' \subseteq Device  BY <1>6 DEF Close, TypeOK
  <2>6. adrift' \subseteq Ids  BY <1>6, LeftTypes DEF Close, At
  <2>7. QED BY <1>6, <2>1, <2>3, <2>4, <2>5, <2>6 DEF Close, TypeOK, RequestTypes, OneOfId
<1>7. CASE Add(c)
  <2> DEFINE dev == [id |-> request[c].id, n |-> made + 1]
  <2>0. made \in Nat  BY DEF TypeOK
  <2>1. dev \in Device  BY <1>7, <2>0 DEF Add, At, Device
  <2>2. RequestTypes'  BY <1>7, ReplyTypes DEF Add
  <2>3. registry' = WithDevice(dev)  BY <1>7 DEF Add
  <2>4. connected' \subseteq Device  BY <1>7, <2>1 DEF Add, TypeOK
  <2>5. dev.n = made + 1  OBVIOUS
  <2> HIDE DEF dev
  <2>6. /\ registry' \in Seq(Device) /\ OneOfId(registry')
        /\ ToSet(registry') \subseteq Members \union {dev}
    BY <2>1, <2>3, WithDeviceProperties
  <2>7. \A i \in DOMAIN registry' : registry'[i].n <= made + 1
    <3>1. \A d \in Members : d.n \in Nat /\ d.n <= made  BY NumberTypes
    <3>2. \A d \in Members \union {dev} : d.n <= made + 1  BY <2>0, <2>5, <3>1
    <3>3. QED BY <2>6, <3>2 DEF ToSet
  <2>8. made' = made + 1 /\ made' \in Nat  BY <1>7, <2>0 DEF Add
  <2>9. adrift' \subseteq Ids  BY <1>7, LeftTypes DEF Add, At
  <2>10. QED BY <1>7, <2>2, <2>4, <2>6, <2>7, <2>8, <2>9 DEF Add, TypeOK, RequestTypes, OneOfId
<1>8. CASE Probe(c)
  <2> DEFINE dev == [id |-> request[c].id, n |-> made + 1]
  <2>0. made \in Nat /\ made' = made + 1  BY <1>8 DEF TypeOK, Probe
  <2>1. dev \in Device  BY <1>8, <2>0 DEF Probe, At, Device
  <2>2. RequestTypes'
    <3>1. CASE request[c].state = "unbuildable" \/ dev.id = Dummy \/ dev.id \notin reachable
      BY <1>8, <3>1, ReplyTypes DEF Probe
    <3>2. CASE ~(request[c].state = "unbuildable" \/ dev.id = Dummy \/ dev.id \notin reachable)
      <4>1. request' = [request EXCEPT ![c].step = "probed", ![c].dev = dev]  BY <1>8, <3>2 DEF Probe
      <4>2. QED BY <1>8, <2>1, <4>1, HoldTypes DEF Probe, At, Steps
    <3>3. QED BY <3>1, <3>2
  <2>3. connected' \subseteq Device  BY <1>8, <2>1 DEF Probe, TypeOK
  <2>4. \A i \in DOMAIN registry : registry[i].n <= made + 1  BY <2>0, NumberTypes
  <2>5. QED BY <1>8, <2>0, <2>2, <2>3, <2>4 DEF Probe, TypeOK, RequestTypes
<1>9. CASE EndProbe(c)
  <2>1. RequestTypes'  BY <1>9, ReplyTypes DEF EndProbe
  <2>2. request[c].dev \in Device  BY <1>9 DEF EndProbe, At, TypeOK
  <2>3. connected' \subseteq Device /\ unclosed' \subseteq Device  BY <1>9, <2>2 DEF EndProbe, TypeOK
  <2>4. QED BY <1>9, <2>1, <2>3 DEF EndProbe, TypeOK, RequestTypes
<1>10. CASE CloseFails(c)
  <2>1. RequestTypes'  BY <1>10, ReplyTypes DEF CloseFails, Aborted
  <2>2. adrift' \subseteq Ids  BY <1>10, LeftTypes DEF CloseFails, Aborted, At
  <2>3. connected' \subseteq Device /\ unclosed' \subseteq Device  BY <1>10 DEF CloseFails, TypeOK
  <2>4. QED BY <1>10, <2>1, <2>2, <2>3 DEF CloseFails, TypeOK, RequestTypes
<1>11. CASE AddFails(c)
  <2>1. RequestTypes'  BY <1>11, ReplyTypes DEF AddFails, Aborted
  <2>2. adrift' \subseteq Ids  BY <1>11, LeftTypes DEF AddFails, Aborted, At
  <2>3. QED BY <1>11, <2>1, <2>2 DEF AddFails, TypeOK, RequestTypes
<1>12. QED BY <1>1, <1>2, <1>3, <1>4, <1>5, <1>6, <1>7, <1>8, <1>9, <1>10, <1>11 DEF Serve

LEMMA PollTypes ==
  ASSUME TypeOK, NEW p \in Pollers, Poll(p)
  PROVE  TypeOK'
<1>1. CASE StartPoll(p)
  <2> DEFINE s == [devs |-> registry, read |-> {}, failed |-> {}]
  <2>1. s \in Scan /\ s.read \intersect s.failed = {}  BY DEF TypeOK, Scan
  <2>2. poll' = [poll EXCEPT ![p] = s]  BY <1>1 DEF StartPoll
  <2> HIDE DEF s
  <2>3. QED BY <1>1, <2>1, <2>2 DEF StartPoll, TypeOK
<1>2. CASE FinishPoll(p)
  <2>1. poll[p] \in Scan  BY <1>2 DEF FinishPoll, TypeOK
  <2>2. poll[p].devs \in Seq(Device)  BY <2>1 DEF Scan
  <2>3. Results(p) \subseteq Device  BY <2>2, LenProperties, ElementOfSeq DEF Results
  <2>4. latest' \in [Ids -> Device \union {None}]
    <3>1. ASSUME NEW id \in Ids PROVE latest'[id] \in Device \union {None}
      <4>1. CASE \E dev \in Results(p) : dev.id = id
        <5>1. (CHOOSE dev \in Results(p) : dev.id = id) \in Results(p)  BY <4>1
        <5>2. latest'[id] = CHOOSE dev \in Results(p) : dev.id = id  BY <1>2, <4>1 DEF FinishPoll
        <5>3. QED BY <2>3, <5>1, <5>2
      <4>2. CASE ~\E dev \in Results(p) : dev.id = id
        BY <1>2, <4>2 DEF FinishPoll, TypeOK
      <4>3. QED BY <4>1, <4>2
    <3>2. latest' = [id \in Ids |-> latest'[id]]  BY <1>2 DEF FinishPoll
    <3>3. QED BY <3>1, <3>2
  <2>5. QED BY <1>2, <2>4 DEF FinishPoll, TypeOK
<1>3. ASSUME poll[p] # None, NEW dev \in ToSet(poll[p].devs), Read(p, dev) PROVE TypeOK'
  <2>1. poll[p] \in Scan  BY <1>3 DEF TypeOK
  <2>2. dev \in Device  BY <1>3, <2>1, LenProperties, ElementOfSeq DEF Scan, ToSet
  <2> DEFINE s == [poll[p] EXCEPT !.read = @ \union {dev}]
  <2>3. s \in Scan /\ s.read = poll[p].read \union {dev} /\ s.failed = poll[p].failed
    BY <2>1, <2>2 DEF Scan
  <2>4. poll' = [poll EXCEPT ![p] = s]  BY <1>3 DEF Read
  <2> HIDE DEF s
  <2>5. s.read \intersect s.failed = {}  BY <1>3, <2>3 DEF TypeOK, Read, Pending
  <2>6. QED BY <1>3, <2>3, <2>4, <2>5, ZenonT(40) DEF Read, TypeOK
<1>4. ASSUME poll[p] # None, NEW dev \in ToSet(poll[p].devs), ReadFails(p, dev) PROVE TypeOK'
  <2>1. poll[p] \in Scan  BY <1>4 DEF TypeOK
  <2>2. dev \in Device  BY <1>4, <2>1, LenProperties, ElementOfSeq DEF Scan, ToSet
  <2> DEFINE s == [poll[p] EXCEPT !.failed = @ \union {dev}]
  <2>3. s \in Scan /\ s.failed = poll[p].failed \union {dev} /\ s.read = poll[p].read
    BY <2>1, <2>2 DEF Scan
  <2>4. poll' = [poll EXCEPT ![p] = s]  BY <1>4 DEF ReadFails
  <2> HIDE DEF s
  <2>5. s.read \intersect s.failed = {}  BY <1>4, <2>3 DEF TypeOK, ReadFails, Pending
  <2>6. QED BY <1>4, <2>3, <2>4, <2>5, ZenonT(40) DEF ReadFails, TypeOK
<1>5. QED BY <1>1, <1>2, <1>3, <1>4 DEF Poll

LEMMA NextTypes == TypeOK /\ [Next]_vars => TypeOK'
<1> SUFFICES ASSUME TypeOK, [Next]_vars PROVE TypeOK'  OBVIOUS
<1>1. ASSUME NEW id \in Ids, LinkChanges(id) PROVE TypeOK'  BY <1>1 DEF LinkChanges, TypeOK
<1>2. CASE Start  BY <1>2, StartTypes
<1>3. CASE Stop  BY <1>3, DownTypes DEF Stop, TypeOK
<1>4. ASSUME NEW c \in Clients, NEW op \in {"create", "update", "delete", "test"}, NEW id \in Ids,
             NEW state \in States, Request(c, op, id, state)
      PROVE  TypeOK'
  <2> DEFINE r == [op |-> op, id |-> id, state |-> state, dev |-> None,
                   step |-> CASE op = "delete" -> "erase" [] op = "test" -> "probe" [] OTHER -> "look"]
  <2>1. r.step \in {"erase", "probe", "look"}  OBVIOUS
  <2>2. r \in Job  BY <2>1 DEF Job, Steps
  <2>3. request' = [request EXCEPT ![c] = r]  BY <1>4 DEF Request
  <2> HIDE DEF r
  <2>4. RequestTypes'  BY <2>1, <2>2, <2>3 DEF RequestTypes, TypeOK
  <2>5. requests' \in 0..MaxRequests
    BY <1>4, FleetAssumption DEF Request, TypeOK, FleetAssumption
  <2>6. QED BY <1>4, <2>4, <2>5 DEF Request, TypeOK, RequestTypes
<1>5. ASSUME NEW c \in Clients, Serve(c) PROVE TypeOK'  BY <1>5, ServeTypes
<1>6. ASSUME NEW p \in Pollers, Poll(p) PROVE TypeOK'  BY <1>6, PollTypes
<1>7. CASE UNCHANGED vars  BY <1>7 DEF vars, TypeOK
<1>8. QED BY <1>1, <1>2, <1>3, <1>4, <1>5, <1>6, <1>7 DEF Next

\* The fleet's variables keep their types, and the registry holds one device of an id, whatever
\* requests, polls and stops of the process come in between (DeviceRegistry keeps a dict by id).
THEOREM FleetTypes == Spec => []TypeOK
BY InitTypes, NextTypes, PTL DEF Spec

--------------------------------------------------------------------------------
(* Polls: the snapshot a poll works on keeps one device of an id, though   *)
(* the registry changes under it.                                          *)

PollInv == \A p \in Pollers :
  poll[p] # None => OneOfId(poll[p].devs) /\ poll[p].read \subseteq ToSet(poll[p].devs)

LEMMA PollStep == TypeOK /\ PollInv /\ [Next]_vars => PollInv'
<1> SUFFICES ASSUME TypeOK, PollInv, [Next]_vars PROVE PollInv'  OBVIOUS
<1>1. ASSUME UNCHANGED poll PROVE PollInv'  BY <1>1 DEF PollInv
<1>2. CASE Start  BY <1>1, <1>2 DEF Start
<1>3. CASE Stop  BY <1>3, DownTypes DEF Stop, PollInv
<1>4. CASE \E id \in Ids : LinkChanges(id)  BY <1>1, <1>4 DEF LinkChanges
<1>5. ASSUME NEW c \in Clients, NEW op, NEW id, NEW state, Request(c, op, id, state) PROVE PollInv'
  BY <1>1, <1>5 DEF Request
<1>6. CASE \E c \in Clients : Serve(c)
  BY <1>1, <1>6
     DEF Serve, Look, Insert, Store, Erase, TakeOut, Close, CloseFails, Add, AddFails, Probe, EndProbe
<1>7. ASSUME NEW p \in Pollers, StartPoll(p) PROVE PollInv'
  <2> DEFINE s == [devs |-> registry, read |-> {}, failed |-> {}]
  <2>1. OneOfId(s.devs) /\ s.read \subseteq ToSet(s.devs)  BY DEF TypeOK, OneOfId
  <2>2. poll' = [poll EXCEPT ![p] = s]  BY <1>7 DEF StartPoll
  <2> HIDE DEF s
  <2>3. QED BY <2>1, <2>2 DEF PollInv, TypeOK
<1>8. ASSUME NEW p \in Pollers, FinishPoll(p) PROVE PollInv'
  BY <1>8 DEF FinishPoll, PollInv, TypeOK
<1>9. ASSUME NEW p \in Pollers, poll[p] # None, NEW dev \in ToSet(poll[p].devs),
             Read(p, dev) \/ ReadFails(p, dev)
      PROVE  PollInv'
  <2>1. poll[p] \in Scan  BY <1>9 DEF TypeOK
  <2>2. PICK s : /\ poll' = [poll EXCEPT ![p] = s] /\ s.devs = poll[p].devs
                 /\ s.read \subseteq poll[p].read \union {dev}
    <3>1. CASE Read(p, dev)
      <4> DEFINE s == [poll[p] EXCEPT !.read = @ \union {dev}]
      <4>1. poll' = [poll EXCEPT ![p] = s]  BY <3>1 DEF Read
      <4>2. s.devs = poll[p].devs /\ s.read = poll[p].read \union {dev}  BY <2>1 DEF Scan
      <4> HIDE DEF s
      <4>3. QED BY <4>1, <4>2
    <3>2. CASE ReadFails(p, dev)
      <4> DEFINE s == [poll[p] EXCEPT !.failed = @ \union {dev}]
      <4>1. poll' = [poll EXCEPT ![p] = s]  BY <3>2 DEF ReadFails
      <4>2. s.devs = poll[p].devs /\ s.read = poll[p].read  BY <2>1 DEF Scan
      <4> HIDE DEF s
      <4>3. QED BY <4>1, <4>2
    <3>3. QED BY <1>9, <3>1, <3>2
  <2>3. OneOfId(s.devs) /\ s.read \subseteq ToSet(s.devs)  BY <1>9, <2>2 DEF PollInv
  <2>4. QED BY <2>2, <2>3 DEF PollInv, TypeOK
<1>10. CASE UNCHANGED vars  BY <1>1, <1>10 DEF vars
<1>11. QED BY <1>2, <1>3, <1>4, <1>5, <1>6, <1>7, <1>8, <1>9, <1>10 DEF Next, Poll

LEMMA FinishedPollPublishes ==
  ASSUME TypeOK, PollInv, NEW p \in Pollers, FinishPoll(p), Len(registry) >= Len(poll[p].devs),
         NEW dev \in poll[p].read
  PROVE  latest'[dev.id] = dev
<1> DEFINE devs == poll[p].devs
<1>1. poll[p] \in Scan  BY DEF FinishPoll, TypeOK
<1>2. devs \in Seq(Device) /\ dev \in Device  BY <1>1 DEF Scan
<1>3. OneOfId(devs) /\ dev \in ToSet(devs)  BY DEF FinishPoll, PollInv
<1>4. Len(devs) \in Nat /\ Len(registry) \in Nat /\ DOMAIN devs = 1..Len(devs)
  BY <1>2, LenProperties DEF TypeOK
<1>5. PICK i \in DOMAIN devs : devs[i] = dev  BY <1>3 DEF ToSet
<1>6. dev \in Results(p)
  <2>1. i <= Len(registry)  BY <1>4, <1>5
  <2>2. QED BY <1>5, <2>1 DEF Results
<1>7. \A d \in Results(p) : d.id = dev.id => d = dev  BY <1>3, <1>5 DEF Results, OneOfId
<1>8. dev.id \in Ids  BY <1>2 DEF Device
<1>9. latest'[dev.id] = CHOOSE d \in Results(p) : d.id = dev.id  BY <1>6, <1>8 DEF FinishPoll
<1>10. QED BY <1>6, <1>7, <1>9

\* registry.py:42: a poll publishes every reading it has got, whatever devices failed and however
\* the requests changed the registry while it ran, unless the registry is now shorter.
THEOREM ReadingsArePublished == Spec => LossNeedsRemoval
<1> DEFINE Inv == TypeOK /\ PollInv
<1>1. Init => Inv
  <2>1. Init => PollInv  BY DownTypes DEF Init, PollInv
  <2>2. QED BY <2>1, InitTypes
<1>2. Inv /\ [Next]_vars => Inv'  BY NextTypes, PollStep
<1>3. Inv => [\A p \in Pollers : FinishPoll(p) /\ Len(registry) >= Len(poll[p].devs) =>
                \A dev \in poll[p].read : latest'[dev.id] = dev]_vars
  BY FinishedPollPublishes
<1> HIDE DEF Inv
<1>4. QED BY <1>1, <1>2, <1>3, PTL DEF Spec, LossNeedsRemoval

--------------------------------------------------------------------------------
(* With one request at a time, every step of a request knows how the row   *)
(* and the registry stand to one another.                                  *)

Lone == \A c, d \in Clients : c = d

\* A request is between its change of the row of id and its change of the registry.
Busy(id) == \E c \in Clients :
  request[c] # None /\ request[c].step \in {"remove", "close", "connect"} /\ request[c].id = id

\* The row of an id and the registry agree; or the id is adrift, and if there is a device of it, it is
\* one that could not be closed.
InStep(id) ==
  IF id \in adrift THEN Registered(id) => Entry(id) \in unclosed
  ELSE Registered(id) <=> EnabledRow(id)

\* Only then may the row of id and the registry be out of step.
RowsInv == running => \A id \in Ids : ~Busy(id) => InStep(id)

\* What a request has found and done when it is at a step.
JobOf(r) ==
  /\ running
  /\ r.step = "look"   => r.op \in {"create", "update"}
  /\ r.step = "insert" => r.op = "create"
  /\ r.step = "store"  => r.op = "update" /\ rows[r.id] # None
  /\ r.step = "erase"  => r.op = "delete"
  /\ r.step \in {"remove", "close"} =>
       /\ r.op \in {"update", "delete"}
       /\ rows[r.id] = IF r.op = "delete" THEN None ELSE r.state
  /\ r.step = "close"   => Registered(r.id) /\ r.dev = Entry(r.id)
  /\ r.step = "connect" =>
       /\ rows[r.id] = r.state /\ r.state # "disabled"
       /\ Registered(r.id) => Entry(r.id) \in unclosed

JobInv == \A c \in Clients : request[c] # None => JobOf(request[c])

\* Open connections are those of the registry, those that could not be closed, and the one of a test
\* under way.
ConnInv == \A dev \in connected \ unclosed :
  dev \in Members \/ \E c \in Clients : request[c] # None /\ request[c].step = "probed" /\ request[c].dev = dev

DownInv == ~running => request = Idle /\ registry = <<>> /\ connected = {}

FleetInv == TypeOK /\ RowsInv /\ JobInv /\ ConnInv /\ DownInv

LEMMA KeptParts ==
  ASSUME RowsInv, JobInv, ConnInv, DownInv,
         UNCHANGED <<rows, running, registry, connected, request, adrift, unclosed>>
  PROVE  RowsInv' /\ JobInv' /\ ConnInv' /\ DownInv'
BY DEF RowsInv, JobInv, JobOf, ConnInv, DownInv, Busy, InStep, Registered, EnabledRow, Entry, Position, Members

LEMMA KeptStep ==
  ASSUME NEW id, UNCHANGED <<registry, adrift, unclosed>>, EnabledRow(id)' <=> EnabledRow(id), InStep(id)
  PROVE  InStep(id)'
BY DEF InStep, Registered, Entry, Position

\* A request that is the only one and between no two changes of row and registry.
LEMMA AloneNotBusy ==
  ASSUME Lone, RowsInv, NEW c \in Clients, running,
         request[c] = None \/ request[c].step \notin {"remove", "close", "connect"}
  PROVE  \A id \in Ids : InStep(id)
BY DEF Lone, RowsInv, Busy

LEMMA AloneBusy ==
  ASSUME Lone, RowsInv, NEW c \in Clients, running, request[c] # None
  PROVE  \A id \in Ids : id # request[c].id => InStep(id)
BY DEF Lone, RowsInv, Busy

\* What of the invariant is left to show of a step of the only request, once it is known that row
\* and registry are in step, and where the request goes on to.
LEMMA AloneRows ==
  ASSUME Lone, NEW c \in Clients, DownInv, running, UNCHANGED running,
         \A id \in Ids : \/ InStep(id)'
                         \/ /\ request'[c] # None /\ request'[c].id = id
                            /\ request'[c].step \in {"remove", "close", "connect"}
  PROVE  RowsInv' /\ DownInv'
<1>1. DownInv'  BY DEF DownInv
<1>2. RowsInv'  BY DEF RowsInv, Busy
<1>3. QED BY <1>1, <1>2

LEMMA AloneSame ==
  ASSUME Lone, NEW c \in Clients, DownInv, running, UNCHANGED running, \A id \in Ids : InStep(id)'
  PROVE  RowsInv' /\ DownInv'
BY DEF RowsInv, DownInv

LEMMA GoOnResult ==
  ASSUME TypeOK, NEW c \in Clients, request[c] # None, NEW step \in Steps, GoOn(c, step)
  PROVE  /\ request'[c] # None /\ request'[c].step = step /\ request'[c].op = request[c].op
         /\ request'[c].id = request[c].id /\ request'[c].state = request[c].state
<1>1. request[c] \in Job  BY JobType
<1> DEFINE r == [request[c] EXCEPT !.step = step]
<1>2. r \in Job /\ r.step = step /\ r.op = request[c].op /\ r.id = request[c].id /\ r.state = request[c].state
  BY <1>1 DEF Job
<1>3. request' = [request EXCEPT ![c] = r]  BY DEF GoOn
<1> HIDE DEF r
<1>4. request'[c] = r  BY <1>3 DEF TypeOK
<1>5. QED BY <1>2, <1>4, FleetAssumption DEF FleetAssumption

LEMMA ReplyResult ==
  ASSUME TypeOK, NEW c \in Clients, Reply(c)
  PROVE  request'[c] = None
BY DEF TypeOK, Reply

LEMMA AfterRemovalResult ==
  ASSUME TypeOK, NEW c \in Clients, request[c] # None, AfterRemoval(c)
  PROVE  IF request[c].op # "delete" /\ request[c].state # "disabled"
         THEN /\ request'[c] # None /\ request'[c].step = "connect" /\ request'[c].op = request[c].op
              /\ request'[c].id = request[c].id /\ request'[c].state = request[c].state
         ELSE request'[c] = None
BY GoOnResult, ReplyResult DEF AfterRemoval, Steps

LEMMA ServeInv ==
  ASSUME Lone, FleetInv, NEW c \in Clients, Serve(c)
  PROVE  RowsInv' /\ JobInv' /\ ConnInv' /\ DownInv'
<1> DEFINE r  == request[c]
           r1 == request'[c]
<1> USE DEF FleetInv
<1>1. r # None /\ UNCHANGED running
  BY DEF Serve, Look, Insert, Store, Erase, TakeOut, Close, CloseFails, Add, AddFails, Probe, EndProbe, At
<1>2. JobOf(r) /\ running  BY <1>1 DEF JobInv, JobOf
<1>3. \A d \in Clients : d = c  BY DEF Lone
<1>4. r \in Job /\ r.id \in Ids /\ r.state \in States /\ rows[r.id] \in States \union {None}
      /\ None \notin States
  BY <1>1, JobType, RowType, FleetAssumption DEF FleetAssumption
<1>5. \A id \in Ids : id # r.id => InStep(id)  BY <1>1, <1>2, AloneBusy
<1> DEFINE Same(id) == InStep(id)'
           Doing    == r1 # None /\ r1.id = r.id /\ r1.step \in {"remove", "close", "connect"}
\* What is left to show of a step: that the row and the registry are out of step on r.id at most, and
\* that the request knows; what it knows; and that no connection is left over.
<1>6. ASSUME \A id \in Ids : Same(id) \/ (id = r.id /\ Doing) PROVE RowsInv' /\ DownInv'
  BY <1>1, <1>2, <1>6, AloneRows
<1>7. ASSUME \A id \in Ids : Same(id) PROVE RowsInv' /\ DownInv'
  BY <1>1, <1>2, <1>7, AloneSame
<1>8. ASSUME r1 # None => JobOf(request[c])' PROVE JobInv'  BY <1>3, <1>8 DEF JobInv
<1>9. r.step # "probed" => connected \ unclosed \subseteq Members  BY <1>3 DEF ConnInv
<1>10. ASSUME UNCHANGED registry PROVE \A id : (Registered(id)' <=> Registered(id)) /\ Entry(id)' = Entry(id)
  BY <1>10 DEF Registered, Entry, Position
<1>11. ASSUME UNCHANGED <<registry, connected, unclosed>>, r.step # "probed" PROVE ConnInv'
  BY <1>9, <1>11 DEF ConnInv, Members
\* A step that changes the row of r.id at most: the others stay in step.
<1>12. ASSUME UNCHANGED <<registry, adrift, unclosed>>, NEW id \in Ids, rows'[id] = rows[id], InStep(id)
       PROVE  Same(id)
  BY <1>12, KeptStep DEF EnabledRow
<1> HIDE DEF FleetInv
<1>13. TypeOK  BY DEF FleetInv
<1>14. CASE Look(c)
  <2>1. r.step = "look" /\ r.op \in {"create", "update"}  BY <1>2, <1>14 DEF Look, At, JobOf
  <2>2. UNCHANGED <<rows, registry, connected, adrift, unclosed>>  BY <1>14 DEF Look
  <2>3. \A id \in Ids : Same(id)  BY <1>2, <1>12, <2>1, <2>2, AloneNotBusy DEF FleetInv
  <2>4. r1 # None => JobOf(request[c])'
    <3>1. CASE (rows[r.id] # None) = (r.op = "create")
      BY <1>14, <1>13, <3>1, ReplyResult DEF Look
    <3>2. CASE (rows[r.id] # None) # (r.op = "create") /\ rows[r.id] # None
      <4>1. GoOn(c, "store")  BY <1>14, <3>2 DEF Look
      <4>2. r1.step = "store" /\ r1.op = "update" /\ r1.id = r.id
        BY <1>1, <1>13, <2>1, <3>2, <4>1, GoOnResult DEF Steps
      <4>3. QED BY <1>1, <1>2, <2>2, <3>2, <4>2 DEF JobOf
    <3>3. CASE (rows[r.id] # None) # (r.op = "create") /\ rows[r.id] = None
      <4>1. GoOn(c, "insert")  BY <1>14, <3>3 DEF Look
      <4>2. r1.step = "insert" /\ r1.op = "create"
        BY <1>1, <1>13, <2>1, <3>3, <4>1, GoOnResult DEF Steps
      <4>3. QED BY <1>1, <1>2, <4>2 DEF JobOf
    <3>4. QED BY <3>1, <3>2, <3>3
  <2>5. ConnInv'  BY <1>11, <2>1, <2>2
  <2>6. RowsInv' /\ DownInv'  BY <1>7, <2>3
  <2>7. QED BY <1>8, <2>4, <2>5, <2>6
<1>15. CASE Insert(c)
  <2>1. r.step = "insert" /\ r.op = "create"  BY <1>2, <1>15 DEF Insert, At, JobOf
  <2>2. UNCHANGED <<registry, connected, adrift, unclosed>>  BY <1>15 DEF Insert
  <2>3. \A id \in Ids : InStep(id)  BY <1>2, <2>1, AloneNotBusy DEF FleetInv
  <2>4. CASE rows[r.id] = None
    <3>1. rows' = [rows EXCEPT ![r.id] = r.state] /\ AfterRemoval(c)  BY <1>15, <2>4 DEF Insert
    <3>2. /\ rows'[r.id] = r.state /\ \A id \in Ids : id # r.id => rows'[id] = rows[id]
      BY <1>4, <1>13, <3>1 DEF TypeOK
    <3>3. ~EnabledRow(r.id)  BY <1>4, <2>4 DEF States, EnabledRow
    <3>4. Registered(r.id) => r.id \in adrift /\ Entry(r.id) \in unclosed  BY <1>4, <2>3, <3>3 DEF InStep
    <3>5. \A id \in Ids : id # r.id => Same(id)  BY <1>12, <2>2, <2>3, <3>2
    <3>6. CASE r.state # "disabled"
      <4>1. r1 # None /\ r1.step = "connect" /\ r1.id = r.id /\ r1.state = r.state
        BY <1>1, <1>13, <2>1, <3>1, <3>6, AfterRemovalResult
      <4>2. \A id : id = r1.id => (Registered(id)' => Entry(id)' \in unclosed')  BY <1>10, <2>2, <3>4, <4>1
      <4>3. JobOf(request[c])'  BY <1>1, <1>2, <3>2, <3>6, <4>1, <4>2 DEF JobOf
      <4>4. RowsInv' /\ DownInv'  BY <1>6, <3>5, <4>1
      <4>5. QED BY <1>8, <1>11, <2>1, <2>2, <4>3, <4>4
    <3>7. CASE r.state = "disabled"
      <4>1. r1 = None  BY <1>1, <1>13, <2>1, <3>1, <3>7, AfterRemovalResult
      <4>2. \A id : id = r.id => ~EnabledRow(id)'  BY <3>2, <3>7 DEF EnabledRow
      <4>3. \A id : id = r.id => Same(id)  BY <1>4, <2>2, <2>3, <3>3, <4>2, KeptStep
      <4>4. RowsInv' /\ DownInv'  BY <1>7, <3>5, <4>3
      <4>5. QED BY <1>8, <1>11, <2>1, <2>2, <4>1, <4>4
    <3>8. QED BY <3>6, <3>7
  <2>5. CASE rows[r.id] # None
    <3>1. UNCHANGED rows /\ Reply(c)  BY <1>15, <2>5 DEF Insert
    <3>2. r1 = None  BY <1>13, <3>1, ReplyResult
    <3>3. RowsInv' /\ DownInv'  BY <1>7, <1>12, <2>2, <2>3, <3>1
    <3>4. QED BY <1>8, <1>11, <2>1, <2>2, <3>2, <3>3
  <2>6. QED BY <2>4, <2>5
<1>16. CASE Store(c)
  <2>1. r.step = "store" /\ r.op = "update" /\ rows[r.id] # None  BY <1>2, <1>16 DEF Store, At, JobOf
  <2>2. UNCHANGED <<registry, connected, adrift, unclosed>>  BY <1>16 DEF Store
  <2>3. r1 # None /\ r1.step = "remove" /\ r1.id = r.id /\ r1.op = "update" /\ r1.state = r.state
    <3>1. GoOn(c, "remove")  BY <1>16 DEF Store
    <3>2. QED BY <1>1, <1>13, <2>1, <3>1, GoOnResult DEF Steps
  <2>4. /\ rows'[r.id] = r.state /\ \A id \in Ids : id # r.id => rows'[id] = rows[id]
    BY <1>4, <1>16, <1>13, <2>1 DEF Store, TypeOK
  <2>5. JobOf(request[c])'  BY <1>1, <1>2, <2>3, <2>4 DEF JobOf
  <2>6. RowsInv' /\ DownInv'  BY <1>5, <1>6, <1>12, <2>2, <2>3, <2>4
  <2>7. QED BY <1>8, <1>11, <2>1, <2>2, <2>5, <2>6
<1>17. CASE Erase(c)
  <2>1. r.step = "erase" /\ r.op = "delete"  BY <1>2, <1>17 DEF Erase, At, JobOf
  <2>2. UNCHANGED <<registry, connected, adrift, unclosed>>  BY <1>17 DEF Erase
  <2>3. \A id \in Ids : InStep(id)  BY <1>2, <2>1, AloneNotBusy DEF FleetInv
  <2>4. /\ rows'[r.id] = None /\ \A id \in Ids : id # r.id => rows'[id] = rows[id]
    BY <1>4, <1>17, <1>13 DEF Erase, TypeOK
  <2>5. CASE rows[r.id] = None
    <3>1. r1 = None  BY <1>17, <1>13, <2>5, ReplyResult DEF Erase
    <3>2. RowsInv' /\ DownInv'  BY <1>7, <1>12, <2>2, <2>3, <2>4, <2>5
    <3>3. QED BY <1>8, <1>11, <2>1, <2>2, <3>1, <3>2
  <2>6. CASE rows[r.id] # None
    <3>1. GoOn(c, "remove")  BY <1>17, <2>6 DEF Erase
    <3>2. r1 # None /\ r1.step = "remove" /\ r1.id = r.id /\ r1.op = "delete"
      BY <1>1, <1>13, <2>1, <3>1, GoOnResult DEF Steps
    <3>3. JobOf(request[c])'  BY <1>1, <1>2, <2>4, <3>2 DEF JobOf
    <3>4. RowsInv' /\ DownInv'  BY <1>6, <1>12, <2>2, <2>3, <2>4, <3>2
    <3>5. QED BY <1>8, <1>11, <2>1, <2>2, <3>3, <3>4
  <2>7. QED BY <2>5, <2>6
\* What follows the removal of the device: the row of r.id is enabled just if a device is to be made.
<1>18. ASSUME UNCHANGED <<rows, unclosed>>, AfterRemoval(c), Settled(c), r.step \in {"remove", "close"},
              \A id : Registered(id)' <=> Registered(id) /\ id # r.id,
              \A id : id # r.id /\ Registered(id) => Entry(id)' = Entry(id)
       PROVE  RowsInv' /\ JobInv' /\ DownInv'
  <2>1. r.op \in {"update", "delete"} /\ rows[r.id] = IF r.op = "delete" THEN None ELSE r.state
    BY <1>2, <1>18 DEF JobOf
  <2>2. adrift' = adrift \ {r.id}  BY <1>18 DEF Settled
  <2>3. ASSUME NEW id \in Ids, id # r.id PROVE Same(id)
    BY <1>5, <1>18, <2>2, <2>3 DEF InStep, EnabledRow
  <2>4. CASE r.op # "delete" /\ r.state # "disabled"
    <3>1. r1 # None /\ r1.step = "connect" /\ r1.id = r.id /\ r1.state = r.state
      BY <1>1, <1>18, <1>13, <2>4, AfterRemovalResult
    <3>2. \A id : id = r1.id => ~Registered(id)'  BY <1>18, <3>1
    <3>3. JobOf(request[c])'  BY <1>1, <1>2, <1>18, <2>1, <2>4, <3>1, <3>2 DEF JobOf
    <3>4. RowsInv' /\ DownInv'  BY <1>6, <2>3, <3>1
    <3>5. QED BY <1>8, <3>3, <3>4
  <2>5. CASE ~(r.op # "delete" /\ r.state # "disabled")
    <3>1. r1 = None  BY <1>1, <1>18, <1>13, <2>5, AfterRemovalResult
    <3>2. \A id : id = r.id => ~EnabledRow(id)'  BY <1>4, <1>18, <2>1, <2>5 DEF States, EnabledRow
    <3>3. \A id : id = r.id => Same(id)  BY <1>18, <2>2, <3>2 DEF InStep
    <3>4. RowsInv' /\ DownInv'  BY <1>7, <2>3, <3>3
    <3>5. QED BY <1>8, <3>1, <3>4
  <2>6. QED BY <2>4, <2>5
<1>19. CASE TakeOut(c)
  <2>1. r.step = "remove" /\ UNCHANGED <<rows, registry, connected, unclosed>>  BY <1>19 DEF TakeOut, At
  <2>2. CASE Registered(r.id)
    <3> DEFINE q == [r EXCEPT !.step = "close", !.dev = Entry(r.id)]
    <3>1. request' = [request EXCEPT ![c] = q] /\ UNCHANGED adrift
      BY <1>1, <1>4, <1>19, <1>13, <2>2 DEF TakeOut, TypeOK
    <3>2. Entry(r.id) \in Device  BY <1>13, <2>2, EntryOfId
    <3>3. /\ q \in Job /\ q.step = "close" /\ q.dev = Entry(r.id)
          /\ q.op = r.op /\ q.id = r.id /\ q.state = r.state
      BY <1>4, <3>2 DEF Job, Steps
    <3> HIDE DEF q
    <3>4. r1 = q /\ q # None  BY <1>13, <3>1, <3>3, FleetAssumption DEF TypeOK, FleetAssumption
    <3>5. JobOf(request[c])'
      <4>1. Registered(request[c].id)' /\ request'[c].dev = Entry(request[c].id)'
        BY <2>1, <2>2, <3>3, <3>4 DEF Registered, Entry, Position
      <4>2. QED BY <1>1, <1>2, <2>1, <3>3, <3>4, <4>1 DEF JobOf
    <3>6. RowsInv' /\ DownInv'  BY <1>5, <1>6, <1>12, <2>1, <3>1, <3>3, <3>4
    <3>7. QED BY <1>8, <1>11, <2>1, <3>5, <3>6
  <2>3. CASE ~Registered(r.id)
    <3>1. AfterRemoval(c) /\ Settled(c)  BY <1>19, <2>3 DEF TakeOut
    <3>2. /\ \A id : Registered(id)' <=> Registered(id) /\ id # r.id
          /\ \A id : Entry(id)' = Entry(id)
      BY <1>10, <2>1, <2>3
    <3>3. QED BY <1>11, <1>18, <2>1, <3>1, <3>2
  <2>4. QED BY <2>2, <2>3
<1>20. CASE Close(c)
  <2>1. r.step = "close" /\ UNCHANGED <<rows, unclosed>> /\ AfterRemoval(c) /\ Settled(c)
    BY <1>20 DEF Close, At
  <2>2. Registered(r.id) /\ r.dev = Entry(r.id)  BY <1>2, <2>1 DEF JobOf
  <2>3. Members' = {dev \in Members : dev.id # r.id}
    <3>1. registry' = WithoutId(r.id)  BY <1>20 DEF Close
    <3>2. ToSet(WithoutId(r.id)) = {dev \in Members : dev.id # r.id}  BY <1>13, WithoutIdProperties
    <3>3. QED BY <3>1, <3>2 DEF Members
  <2>4. ASSUME NEW id PROVE Registered(id)' <=> Registered(id) /\ id # r.id
    <3>1. Registered(id)' <=> \E dev \in Members' : dev.id = id  BY DEF Registered, Members, ToSet
    <3>2. QED BY <2>3, <3>1, RegisteredMember
  <2>5. ASSUME NEW id, id # r.id, Registered(id) PROVE Entry(id)' = Entry(id)
    <3>1. Registered(id)'  BY <2>4, <2>5
    <3>2. Entry(id)' \in Members' /\ Entry(id)'.id = id
      BY <3>1 DEF Registered, Entry, Position, Members, ToSet
    <3>3. QED BY <1>13, <2>3, <2>5, <3>2, EntryOfId
  <2>6. ConnInv'
    <3>1. \A dev \in Members : dev.id = r.id => dev = r.dev  BY <1>13, <2>2, EntryOfId
    <3>2. connected' = connected \ {r.dev}  BY <1>20 DEF Close
    <3>3. connected' \ unclosed' \subseteq Members'  BY <1>9, <2>1, <2>3, <3>1, <3>2
    <3>4. QED BY <3>3 DEF ConnInv
  <2>7. QED BY <1>18, <2>1, <2>4, <2>5, <2>6
\* A request that an exception ends leaves its id adrift, and a device of it, if there is one, is one
\* that could not be closed.
<1>21. ASSUME UNCHANGED <<rows, registry>>, Aborted(c), unclosed \subseteq unclosed',
              Registered(r.id) => Entry(r.id) \in unclosed'
       PROVE  RowsInv' /\ JobInv' /\ DownInv'
  <2>1. adrift' = adrift \union {r.id} /\ r1 = None  BY <1>13, <1>21, ReplyResult DEF Aborted
  <2>2. \A id : (Registered(id)' <=> Registered(id)) /\ Entry(id)' = Entry(id)  BY <1>10, <1>21
  <2>3. \A id : id = r.id => Same(id)  BY <1>21, <2>1, <2>2 DEF InStep
  <2>4. ASSUME NEW id \in Ids, id # r.id PROVE Same(id)
    <3>1. id \in adrift' <=> id \in adrift  BY <2>1, <2>4
    <3>2. EnabledRow(id)' <=> EnabledRow(id)  BY <1>21 DEF EnabledRow
    <3>3. InStep(id)  BY <1>5, <2>4
    <3>4. QED BY <1>21, <2>2, <3>1, <3>2, <3>3 DEF InStep
  <2>5. RowsInv' /\ DownInv'  BY <1>7, <2>3, <2>4
  <2>6. QED BY <1>8, <2>1, <2>5
<1>22. CASE CloseFails(c)
  <2>1. /\ r.step = "close" /\ UNCHANGED <<rows, registry>> /\ Aborted(c)
        /\ unclosed' = unclosed \union {r.dev} /\ connected' \subseteq connected
    BY <1>22 DEF CloseFails, At
  <2>2. Registered(r.id) /\ r.dev = Entry(r.id)  BY <1>2, <2>1 DEF JobOf
  <2>3. ConnInv'
    <3>1. Members' = Members  BY <2>1 DEF Members
    <3>2. connected' \ unclosed' \subseteq Members'  BY <1>9, <2>1, <3>1
    <3>3. QED BY <3>2 DEF ConnInv
  <2>4. QED BY <1>21, <2>1, <2>2, <2>3
<1>23. CASE AddFails(c)
  <2>1. r.step = "connect" /\ UNCHANGED <<rows, registry, connected, unclosed>> /\ Aborted(c)
    BY <1>23 DEF AddFails, At
  <2>2. Registered(r.id) => Entry(r.id) \in unclosed  BY <1>2, <2>1 DEF JobOf
  <2>3. QED BY <1>11, <1>21, <2>1, <2>2
<1>24. CASE Add(c)
  <2> DEFINE dev == [id |-> r.id, n |-> made + 1]
  <2>1. /\ r.step = "connect" /\ rows[r.id] = "enabled" /\ UNCHANGED <<rows, unclosed>>
        /\ adrift' = adrift \ {r.id}
        /\ Registered(r.id) => Entry(r.id) \in unclosed
    BY <1>2, <1>24 DEF Add, At, JobOf, Settled
  <2>2. r1 = None  BY <1>24, <1>13, ReplyResult DEF Add
  <2>3. dev \in Device  BY <1>4, <1>13 DEF TypeOK, Device
  <2>4. registry' = WithDevice(dev) /\ connected' \subseteq connected \union {dev}  BY <1>24 DEF Add
  <2>5. dev.id = r.id  OBVIOUS
  <2> HIDE DEF dev
  <2>6. Members' = {d \in Members : d.id # r.id} \union {dev}
    <3>1. ToSet(WithDevice(dev)) = {d \in Members : d.id # dev.id} \union {dev}
      BY <1>13, <2>3, WithDeviceProperties
    <3>2. QED BY <2>4, <2>5, <3>1 DEF Members
  <2>7. ASSUME NEW id PROVE Registered(id)' <=> Registered(id) \/ id = r.id
    <3>1. Registered(id)' <=> \E d \in Members' : d.id = id  BY DEF Registered, Members, ToSet
    <3>2. QED BY <2>5, <2>6, <3>1, RegisteredMember
  <2>8. \A id : id = r.id => Same(id)  BY <2>1, <2>7 DEF InStep, EnabledRow
  <2>9. ASSUME NEW id \in Ids, id # r.id PROVE Same(id)
    <3>1. InStep(id) /\ (Registered(id)' <=> Registered(id))  BY <1>5, <2>7, <2>9
    <3>2. Registered(id) => Entry(id)' = Entry(id)
      <4> SUFFICES ASSUME Registered(id) PROVE Entry(id)' = Entry(id)  OBVIOUS
      <4>1. Entry(id)' \in Members' /\ Entry(id)'.id = id
        BY <3>1 DEF Registered, Entry, Position, Members, ToSet
      <4>2. QED BY <1>13, <2>5, <2>6, <2>9, <4>1, EntryOfId
    <3>3. QED BY <2>1, <2>9, <3>1, <3>2 DEF InStep, EnabledRow
  <2>10. RowsInv' /\ DownInv'  BY <1>7, <2>8, <2>9
  <2>11. ConnInv'
    <3>1. \A d \in Members : d.id = r.id => d \in unclosed  BY <1>13, <2>1, EntryOfId, RegisteredMember
    <3>2. connected' \ unclosed' \subseteq Members'  BY <1>9, <2>1, <2>4, <2>6, <3>1
    <3>3. QED BY <3>2 DEF ConnInv
  <2>12. QED BY <1>8, <2>2, <2>10, <2>11
<1>25. CASE Probe(c) \/ EndProbe(c)
  <2>1. /\ r.step \in {"probe", "probed"} /\ UNCHANGED <<rows, registry, adrift>>
        /\ unclosed \subseteq unclosed'
    BY <1>25 DEF Probe, EndProbe, At
  <2>2. \A id \in Ids : InStep(id)  BY <1>2, <2>1, AloneNotBusy DEF FleetInv
  <2>3. RowsInv' /\ DownInv'
    <3>1. \A id : (Registered(id)' <=> Registered(id)) /\ Entry(id)' = Entry(id)  BY <1>10, <2>1
    <3>2. \A id \in Ids : Same(id)  BY <2>1, <2>2, <3>1 DEF InStep, EnabledRow
    <3>3. QED BY <1>7, <3>2
  <2>4. CASE Probe(c) /\ Reply(c) /\ UNCHANGED connected
    <3>1. r1 = None  BY <1>13, <2>4, ReplyResult
    <3>2. r.step # "probed" /\ UNCHANGED unclosed  BY <2>4 DEF Probe, At
    <3>3. QED BY <1>8, <1>11, <2>1, <2>3, <2>4, <3>1, <3>2
  <2>5. CASE Probe(c) /\ ~(Reply(c) /\ UNCHANGED connected)
    <3> DEFINE dev == [id |-> r.id, n |-> made + 1]
               q   == [r EXCEPT !.step = "probed", !.dev = dev]
    <3>1. /\ connected' = connected \union {dev} /\ r.step = "probe" /\ UNCHANGED unclosed
          /\ request' = [request EXCEPT ![c] = q]
      BY <1>1, <1>4, <1>13, <2>5 DEF Probe, TypeOK, At
    <3>2. dev \in Device  BY <1>4, <1>13 DEF TypeOK, Device
    <3>3. q \in Job /\ q.step = "probed" /\ q.dev = dev  BY <1>4, <3>2 DEF Job, Steps
    <3> HIDE DEF dev, q
    <3>4. r1 = q /\ q # None  BY <1>13, <3>1, <3>3, FleetAssumption DEF TypeOK, FleetAssumption
    <3>5. JobOf(request[c])'  BY <1>1, <1>2, <3>3, <3>4 DEF JobOf
    <3>6. ConnInv'
      <4>1. Members' = Members  BY <2>1 DEF Members
      <4>2. connected \ unclosed \subseteq Members  BY <1>9, <3>1
      <4>3. QED BY <3>1, <3>3, <3>4, <4>1, <4>2 DEF ConnInv
    <3>7. QED BY <1>8, <2>3, <3>5, <3>6
  <2>6. CASE EndProbe(c)
    <3>1. r1 = None  BY <1>13, <2>6, ReplyResult DEF EndProbe
    <3>2. PICK left \in SUBSET {r.dev} :
            connected' = connected \ ({r.dev} \ left) /\ unclosed' = unclosed \union left
      BY <2>6 DEF EndProbe
    <3>3. connected' \ unclosed' \subseteq (connected \ unclosed) \ {r.dev}  BY <3>2
    <3>4. connected \ unclosed \subseteq Members \union {r.dev}  BY <1>3, <1>13 DEF FleetInv, ConnInv
    <3>5. Members' = Members  BY <2>1 DEF Members
    <3>6. ConnInv'  BY <3>3, <3>4, <3>5 DEF ConnInv
    <3>7. QED BY <1>8, <2>3, <3>1, <3>6
  <2>7. QED BY <1>25, <2>4, <2>5, <2>6
<1>26. QED BY <1>14, <1>15, <1>16, <1>17, <1>19, <1>20, <1>24, <1>25, <1>22, <1>23 DEF Serve

LEMMA StartInv ==
  ASSUME FleetInv, Start
  PROVE  RowsInv' /\ JobInv' /\ ConnInv' /\ DownInv'
<1> DEFINE ids == {id \in Ids : Seeded[id] = "enabled"}
<1>1. PICK order \in SetToSeqs(ids) :
        /\ registry' = [i \in DOMAIN order |-> [id |-> order[i], n |-> made + i]]
        /\ connected' = ToSet(registry')
  BY DEF Start
<1>2. \A id \in Ids : (\E i \in DOMAIN registry' : registry'[i].id = id) <=> id \in ids
  <2>1. ids \in SUBSET Ids /\ TypeOK  BY DEF FleetInv
  <2> HIDE DEF ids
  <2>2. {registry'[i].id : i \in DOMAIN registry'} = ids  BY <1>1, <2>1, StartedProperties
  <2>3. QED BY <2>2
<1>3. \A id \in Ids : Registered(id)' <=> EnabledRow(id)'  BY <1>2 DEF Registered, EnabledRow, Start
<1>4. RowsInv'  BY <1>3 DEF RowsInv, InStep, Start
<1>5. request' = Idle  BY DEF Start, FleetInv, DownInv
<1>6. JobInv'  BY <1>5 DEF JobInv, Idle
<1>7. ConnInv'  BY <1>1 DEF ConnInv, Members
<1>8. DownInv'  BY DEF Start, DownInv
<1>9. QED BY <1>4, <1>6, <1>7, <1>8

LEMMA NewRequestInv ==
  ASSUME Lone, FleetInv, NEW c \in Clients, NEW op \in {"create", "update", "delete", "test"},
         NEW id \in Ids, NEW state \in States, Request(c, op, id, state)
  PROVE  RowsInv' /\ JobInv' /\ ConnInv' /\ DownInv'
<1> DEFINE r == [op |-> op, id |-> id, state |-> state, dev |-> None,
                 step |-> CASE op = "delete" -> "erase" [] op = "test" -> "probe" [] OTHER -> "look"]
<1>1. /\ r.op = op
      /\ r.step \in {"erase", "probe", "look"}
      /\ r.step = "look" => op \in {"create", "update"}
      /\ r.step = "erase" => op = "delete"
  OBVIOUS
<1>2. request' = [request EXCEPT ![c] = r]  BY DEF Request
<1> HIDE DEF r
<1>3. TypeOK /\ request'[c] = r  BY <1>2 DEF FleetInv, TypeOK
<1>4. /\ running /\ running' /\ request[c] = None
      /\ UNCHANGED <<rows, running, registry, connected, adrift, unclosed>>
  BY DEF Request
<1>5. \A d \in Clients : d = c  BY DEF Lone
<1>6. JobInv'  BY <1>1, <1>3, <1>4, <1>5 DEF JobInv, JobOf
<1>7. ConnInv'  BY <1>4, <1>5 DEF FleetInv, ConnInv, Members
<1>8. \A i \in Ids : InStep(i)  BY <1>4, AloneNotBusy DEF FleetInv
<1>9. \A i \in Ids : InStep(i)'  BY <1>4, <1>8, KeptStep DEF EnabledRow
<1>10. RowsInv' /\ DownInv'  BY <1>4, <1>9, AloneSame DEF FleetInv
<1>11. QED BY <1>6, <1>7, <1>10

LEMMA FleetStep == Lone /\ FleetInv /\ [Next]_vars => FleetInv'
<1> SUFFICES ASSUME Lone, FleetInv, [Next]_vars PROVE FleetInv'  OBVIOUS
<1>1. TypeOK'  BY NextTypes DEF FleetInv
<1>2. RowsInv' /\ JobInv' /\ ConnInv' /\ DownInv'
  <2>1. ASSUME UNCHANGED <<rows, running, registry, connected, request, adrift, unclosed>>
        PROVE  RowsInv' /\ JobInv' /\ ConnInv' /\ DownInv'
    BY <2>1, KeptParts DEF FleetInv
  <2>2. CASE \E id \in Ids : LinkChanges(id)  BY <2>1, <2>2 DEF LinkChanges
  <2>3. CASE Start  BY <2>3, StartInv
  <2>4. CASE Stop
    <3>1. request' = Idle /\ ~running' /\ registry' = <<>> /\ connected' = {}  BY <2>4 DEF Stop
    <3>2. QED BY <3>1 DEF RowsInv, JobInv, ConnInv, DownInv, Idle
  <2>5. ASSUME NEW c \in Clients, NEW op \in {"create", "update", "delete", "test"}, NEW id \in Ids,
               NEW state \in States, Request(c, op, id, state)
        PROVE  RowsInv' /\ JobInv' /\ ConnInv' /\ DownInv'
    BY <2>5, NewRequestInv
  <2>6. ASSUME NEW c \in Clients, Serve(c) PROVE RowsInv' /\ JobInv' /\ ConnInv' /\ DownInv'
    BY <2>6, ServeInv
  <2>7. CASE \E p \in Pollers : Poll(p)
    BY <2>1, <2>7 DEF Poll, StartPoll, FinishPoll, Read, ReadFails
  <2>8. CASE UNCHANGED vars  BY <2>1, <2>8 DEF vars
  <2>9. QED BY <2>2, <2>3, <2>4, <2>5, <2>6, <2>7, <2>8 DEF Next
<1>3. QED BY <1>1, <1>2 DEF FleetInv

LEMMA FleetInitial == Init => FleetInv
<1> SUFFICES ASSUME Init PROVE FleetInv  OBVIOUS
<1>1. TypeOK  BY InitTypes
<1>2. RowsInv /\ JobInv /\ ConnInv /\ DownInv
  BY DEF Init, RowsInv, JobInv, ConnInv, DownInv, Idle
<1>3. QED BY <1>1, <1>2 DEF FleetInv

LEMMA AloneFleetInv ==
  ASSUME Lone
  PROVE  Spec => []FleetInv
<1>1. Init => FleetInv  BY FleetInitial
<1>2. FleetInv /\ [Next]_vars => FleetInv'  BY FleetStep
<1>3. QED BY <1>1, <1>2, PTL DEF Spec

\* TASKS.md:199: as long as requests come one at a time, the registry holds the enabled rows
\* whenever none is being served, however often the process stops between two steps, but for ids of
\* which the last request to change the row was ended by an exception before the registry followed.
THEOREM RegistryFollows ==
  ASSUME Lone
  PROVE  Spec => []RegistryFollowsRows
<1>1. FleetInv => RegistryFollowsRows
  BY DEF FleetInv, RowsInv, InStep, RegistryFollowsRows, Quiet, Busy, Idle
<1>2. QED BY <1>1, AloneFleetInv, PTL

\* _remove_from_registry: as long as requests come one at a time, no connection is left open of a
\* device that was replaced, removed or only tested, unless its close raised.
THEOREM ConnectionsAreOwned ==
  ASSUME Lone
  PROVE  Spec => []NoStrayConnection
<1>1. FleetInv => NoStrayConnection
  BY DEF FleetInv, ConnInv, NoStrayConnection, Quiet, Idle, Members
<1>2. QED BY <1>1, AloneFleetInv, PTL
================================================================================
