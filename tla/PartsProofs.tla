------------------------------ MODULE PartsProofs ------------------------------
(***************************************************************************)
(* Proofs about what leaves the process - the live view (LiveFeed), outages *)
(* (GridEvents), alerts (NotificationChannels) and webhooks                *)
(* (ReadingsWebhooks) - and about the host: the database file (Storage), the *)
(* dashboards (Dashboards) and the inverter's time (InverterClock).  Each is *)
(* proved on its own and as a part of MCParts, for any constants.          *)
(***************************************************************************)
EXTENDS MCParts, Induction, FiniteSetTheorems, SequenceTheorems, TLAPS

--------------------------------------------------------------------------------
(* The parts side by side.                                                 *)

\* Whatever part moves, it takes its own steps, and no other part moves in its place.
LEMMA OnePartMoves ==
  ASSUME [PartsNext]_vars
  PROVE  /\ part' = part
         /\ part = "webhooks" => [Webhooks!Next]_webhookVars
         /\ part = "feed" => [Feed!Next]_feedVars
         /\ part = "grid" => [Grid!Next]_gridVars
         /\ part = "notify" => [Notify!Next]_notifyVars
         /\ part = "dashboards" => [Boards!Next]_boardVars
         /\ part = "clock" => [Clock!Next]_clockVars
         /\ part = "day" => [Day!Next]_dayVars
         /\ part = "transport" => [Line!Next]_lineVars
         /\ part = "projection" => [Project!Next]_projectVars
         /\ part = "codec" => [Codec!Next]_codecVars
         /\ part = "scan" => [Scan!Next]_scanVars
         /\ part = "sniff" => [Sniff!Next]_sniffVars
         /\ [Planner!Next]_plannerVars
         /\ [Next]_storageVars
<1>1. CASE UNCHANGED vars
  BY <1>1 DEF vars, outVars, hostVars, energyVars, registerVars
<1>2. CASE PartsNext
  <2>1. CASE UNCHANGED part /\ MoveHost /\ UNCHANGED <<outVars, energyVars, registerVars>>
    BY <2>1 DEF MoveHost, energyVars
  <2>2. CASE UNCHANGED part /\ UNCHANGED hostVars
    <3>1. [Next]_storageVars  BY <2>2 DEF hostVars
    <3>2. [Planner!Next]_plannerVars  BY <1>2 DEF PartsNext, MoveEnergy, energyVars
    <3>3. QED BY <1>2, <2>2, <3>1, <3>2 DEF PartsNext, MoveOut, MoveHost, MoveEnergy, MoveRegisters
  <2>3. QED BY <1>2, <2>1, <2>2 DEF PartsNext
<1>3. QED BY <1>1, <1>2

--------------------------------------------------------------------------------
(* The live view.                                                          *)

\* What is still to come to the client ends with the latest snapshot, unless that one was dropped.
FeedInv ==
  /\ polls \in Nat /\ frame \in Nat
  /\ queue # Closed =>
       /\ queue \in Seq(Nat) /\ polls > 0
       /\ \/ dropped
          \/ queue # <<>> /\ queue[Len(queue)] = polls
          \/ queue = <<>> /\ frame > 0 /\ frame = polls
          \/ queue = <<>> /\ frame = 0 /\ seen = polls

LEMMA FeedInitial == Feed!Init => FeedInv
BY DEF Feed!Init, FeedInv

LEMMA FeedStep ==
  ASSUME Feed!FeedAssumption, FeedInv, [Feed!Next]_feedVars
  PROVE  FeedInv'
<1> USE DEF FeedInv
<1>1. CASE Feed!Connect  BY <1>1, EmptySeq DEF Feed!Connect
<1>2. CASE Feed!Sent  BY <1>2 DEF Feed!Sent
<1>3. CASE Feed!Disconnect  BY <1>3 DEF Feed!Disconnect
<1>4. CASE Feed!Poll
  <2>1. CASE queue = Closed  BY <1>4, <2>1 DEF Feed!Poll
  <2>2. CASE queue # Closed /\ ~(Len(queue) < QueueSize)
    <3>1. dropped' = (queue # Closed) /\ queue' = queue /\ frame' = frame  BY <1>4, <2>2 DEF Feed!Poll
    <3>2. dropped'  BY <2>2, <3>1
    <3>3. polls' \in Nat /\ polls' > 0  BY <1>4 DEF Feed!Poll
    <3>4. queue' # Closed /\ queue' \in Seq(Nat) /\ frame' \in Nat  BY <2>2, <3>1
    <3>5. QED BY <3>2, <3>3, <3>4
  <2>3. CASE queue # Closed /\ Len(queue) < QueueSize
    <3>1. queue' = Append(queue, polls') /\ polls' \in Nat /\ polls' > 0 /\ frame' = frame
      BY <1>4, <2>3 DEF Feed!Poll
    <3>2. queue' \in Seq(Nat) /\ Len(queue') = Len(queue) + 1 /\ queue'[Len(queue')] = polls'
      BY <2>3, <3>1, AppendProperties, LenProperties
    <3>3. queue' # <<>>  BY <2>3, <3>2, LenProperties, EmptySeq
    <3>4. QED BY <3>1, <3>2, <3>3
  <2>4. QED BY <2>1, <2>2, <2>3
<1>5. CASE Feed!Take
  <2>1. queue \in Seq(Nat) /\ queue # <<>> /\ queue # Closed /\ frame' = Head(queue)
        /\ queue' = Tail(queue) /\ polls' = polls /\ dropped' = dropped /\ frame = 0
    BY <1>5 DEF Feed!Take
  <2>2. /\ Len(queue) \in Nat /\ Len(queue) # 0 /\ queue[1] \in Nat /\ Head(queue) = queue[1]
        /\ queue' \in Seq(Nat) /\ Len(queue') = Len(queue) - 1
        /\ \A i \in 1..(Len(queue) - 1) : queue'[i] = queue[i + 1]
    BY <2>1, HeadTailProperties, LenProperties, EmptySeq, ElementOfSeq
  <2>3. dropped \/ queue[Len(queue)] = polls  BY <2>1
  <2>4. CASE Len(queue) = 1
    <3>1. queue' = <<>>  BY <2>2, <2>4, EmptySeq
    <3>2. frame' \in Nat /\ (dropped \/ frame' = polls)  BY <2>1, <2>2, <2>3, <2>4
    <3>3. QED BY <2>1, <3>1, <3>2
  <2>5. CASE Len(queue) # 1
    <3>1. queue' # <<>>  BY <2>2, <2>5, EmptySeq
    <3>2. queue'[Len(queue')] = queue[Len(queue)]
      <4>1. Len(queue') \in 1..(Len(queue) - 1) /\ Len(queue') + 1 = Len(queue)  BY <2>2, <2>5
      <4>2. QED BY <2>2, <4>1
    <3>3. QED BY <2>1, <2>2, <2>3, <3>1, <3>2
  <2>6. QED BY <2>4, <2>5
<1>6. CASE UNCHANGED feedVars  BY <1>6 DEF feedVars
<1>7. QED BY <1>1, <1>2, <1>3, <1>4, <1>5, <1>6 DEF Feed!Next

LEMMA FeedShown == FeedInv => Feed!ShowsLatest
<1>1. Closed \notin Seq(Nat)  BY PartsAssumption DEF PartsAssumption, Feed!FeedAssumption
<1>2. Closed # <<>>  BY <1>1, EmptySeq
<1>3. QED BY <1>2 DEF FeedInv, Feed!ShowsLatest

\* /ws/live: what a client that keeps up sees is the latest snapshot, unless its queue was full, for any
\* length of the queue.
THEOREM LatestShown ==
  /\ Feed!Spec => []Feed!ShowsLatest
  /\ PartsSpec => []ShowsLatest
<1> DEFINE Inv == part = "feed" => FeedInv
<1>1. Feed!Init => FeedInv  BY FeedInitial
<1>2. FeedInv /\ [Feed!Next]_feedVars => FeedInv'  BY FeedStep, PartsAssumption DEF PartsAssumption
<1>3. FeedInv => Feed!ShowsLatest  BY FeedShown
<1>4. PartsInit => Inv  BY <1>1 DEF PartsInit
<1>5. Inv /\ [PartsNext]_vars => Inv'  BY <1>2, OnePartMoves
<1>6. Inv => ShowsLatest  BY <1>3 DEF ShowsLatest
<1> HIDE DEF Inv
<1>7. PartsSpec => []ShowsLatest  BY <1>4, <1>5, <1>6, PTL DEF PartsSpec
<1>8. FeedInv /\ [Feed!Next]_(Feed!vars) => FeedInv'  BY <1>2 DEF feedVars, Feed!vars
<1>9. Feed!Spec => []Feed!ShowsLatest  BY <1>1, <1>3, <1>8, PTL DEF Feed!Spec
<1>10. QED BY <1>7, <1>9

--------------------------------------------------------------------------------
(* Outages.                                                                *)

\* The detector has seen what the metrics said; an event is what the detector knows; a device it knows
\* nothing of has no event.
GridInv ==
  /\ known = verdict /\ known \in [Homes -> BOOLEAN \union {None}]
  /\ logged \in [Homes -> BOOLEAN \union {None}]
  /\ DOMAIN todo \subseteq Homes /\ DOMAIN grid = Homes
  /\ event # None => event \in [device : Homes, up : BOOLEAN] /\ event.up = known[event.device]
  /\ \A d \in Homes : known[d] = None => logged[d] = None
  /\ Grid!LogFollowsGrid

LEMMA GridInitial ==
  ASSUME Grid!GridAssumption, Grid!Init
  PROVE  GridInv
BY DEF Grid!Init, GridInv, Grid!Nothing, Grid!LogFollowsGrid, Grid!GridAssumption

LEMMA GridStep ==
  ASSUME Grid!GridAssumption, GridInv, [Grid!Next]_gridVars
  PROVE  GridInv'
<1> USE DEF GridInv, Grid!GridAssumption
<1>1. CASE \E d \in Homes : Grid!Changes(d)
  BY <1>1 DEF Grid!Changes, Grid!LogFollowsGrid
<1>2. CASE Grid!Evaluate
  BY <1>2 DEF Grid!Evaluate, Grid!LogFollowsGrid
<1>3. ASSUME NEW d \in Homes, Grid!Step(d) PROVE GridInv'
  <2> DEFINE up == Grid!GridUp(todo[d])
  <2>1. /\ DOMAIN todo' \subseteq DOMAIN todo /\ \A x \in DOMAIN todo' : todo'[x] = todo[x]
        /\ d \in DOMAIN todo /\ event = None /\ UNCHANGED <<grid, logged, missed>>
    BY <1>3 DEF Grid!Step, Grid!Restrict
  <2>2. up \in BOOLEAN \union {None}
    BY DEF Grid!GridUp
  <2>3. /\ known' = IF up = None THEN known ELSE [known EXCEPT ![d] = up]
        /\ verdict' = known'
        /\ event' = IF up = None \/ known[d] \in {None, up} THEN None ELSE [device |-> d, up |-> up]
    BY <1>3 DEF Grid!Step
  <2> HIDE DEF up
  <2>4. \A x \in Homes : known'[x] = (IF x = d /\ up # None THEN up ELSE known[x])
    BY <2>2, <2>3
  <2>5. known' \in [Homes -> BOOLEAN \union {None}]  BY <2>2, <2>3
  <2>6. event' # None => event' = [device |-> d, up |-> up] /\ up # None /\ up \in BOOLEAN
    BY <2>2, <2>3
  <2>7. event' # None => event' \in [device : Homes, up : BOOLEAN] /\ event'.up = known'[event'.device]
    BY <2>4, <2>6
  <2>8. Grid!LogFollowsGrid'
    BY <2>1, <2>2, <2>3, <2>4, <2>6 DEF Grid!LogFollowsGrid
  <2>9. \A x \in Homes : known'[x] = None => logged'[x] = None
    BY <2>1, <2>4
  <2>10. QED BY <2>1, <2>3, <2>5, <2>7, <2>8, <2>9
<1>4. CASE Grid!Inserted
  BY <1>4 DEF Grid!Inserted, Grid!LogFollowsGrid
<1>5. CASE Grid!InsertFails
  BY <1>5 DEF Grid!InsertFails, Grid!LogFollowsGrid
<1>6. CASE Grid!Restart
  BY <1>6 DEF Grid!Restart, Grid!Nothing, Grid!LogFollowsGrid
<1>7. CASE UNCHANGED gridVars
  BY <1>7 DEF gridVars, Grid!LogFollowsGrid
<1>8. QED BY <1>1, <1>2, <1>3, <1>4, <1>5, <1>6, <1>7 DEF Grid!Next

\* grid_events.py: the last event logged of a device is what its metrics last said of the grid, however
\* evaluations, inserts that fail and restarts interleave, unless that very insert failed.
THEOREM LogFollows ==
  /\ Grid!Spec => []Grid!LogFollowsGrid
  /\ PartsSpec => []LogFollowsGrid
<1> DEFINE Inv == part = "grid" => GridInv
<1>1. Grid!Init => GridInv  BY GridInitial, PartsAssumption DEF PartsAssumption
<1>2. GridInv /\ [Grid!Next]_gridVars => GridInv'  BY GridStep, PartsAssumption DEF PartsAssumption
<1>3. GridInv => Grid!LogFollowsGrid  BY DEF GridInv
<1>4. PartsInit => Inv  BY <1>1 DEF PartsInit
<1>5. Inv /\ [PartsNext]_vars => Inv'  BY <1>2, OnePartMoves
<1>6. Inv => LogFollowsGrid  BY <1>3 DEF LogFollowsGrid
<1> HIDE DEF Inv
<1>7. PartsSpec => []LogFollowsGrid  BY <1>4, <1>5, <1>6, PTL DEF PartsSpec
<1>8. GridInv /\ [Grid!Next]_(Grid!vars) => GridInv'  BY <1>2 DEF gridVars, Grid!vars
<1>9. Grid!Spec => []Grid!LogFollowsGrid  BY <1>1, <1>3, <1>8, PTL DEF Grid!Spec
<1>10. QED BY <1>7, <1>9

--------------------------------------------------------------------------------
(* Alerts.                                                                 *)

\* The latest result is the configuration stored; and when the last job is done and its result is
\* seen, the service has built its channels of it.
QueueInv ==
  /\ stored \in ChannelConfigs /\ jobs \in Seq(Notify!Job) /\ results \in Seq(Notify!Result) /\ restores \in Nat
  /\ restores = 0 /\ results # <<>> => results[Len(results)].config = stored
  /\ restores = 0 /\ results = <<>> /\ jobs = <<>> => channels = Notify!Build(stored)

\* Of the channels an alert is for, each has been sent it, has failed, or is still to come.
Accounted(d) ==
  /\ {"left", "sent", "failed"} \subseteq DOMAIN d
  /\ d.left \in Seq(Channels)
  /\ Notify!Range(d.names) \intersect DOMAIN d.using
       = DOMAIN d.sent \union d.failed \union (Notify!Range(d.left) \intersect DOMAIN d.using)

DeliveryInv == DOMAIN delivery = Deliverers /\ \A r \in Deliverers : delivery[r] # None => Accounted(delivery[r])

--------------------------------------------------------------------------------
(* The queues.                                                             *)

LEMMA TailKeepsLast ==
  ASSUME NEW S, NEW s \in Seq(S), s # <<>>
  PROVE  /\ Tail(s) \in Seq(S) /\ Head(s) \in S
         /\ Tail(s) # <<>> => Tail(s)[Len(Tail(s))] = s[Len(s)]
         /\ Tail(s) = <<>> => s[Len(s)] = Head(s)
<1>1. /\ Len(s) \in Nat \ {0} /\ Tail(s) \in Seq(S) /\ Head(s) \in S /\ Head(s) = s[1]
      /\ Len(Tail(s)) = Len(s) - 1 /\ \A i \in 1..Len(Tail(s)) : Tail(s)[i] = s[i + 1]
  BY HeadTailProperties, EmptySeq, LenProperties
<1>2. Tail(s) = <<>> <=> Len(Tail(s)) = 0  BY <1>1, EmptySeq
<1>3. QED BY <1>1, <1>2

LEMMA AppendHasLast ==
  ASSUME NEW S, NEW s \in Seq(S), NEW e \in S
  PROVE  /\ Append(s, e) \in Seq(S) /\ Append(s, e) # <<>>
         /\ Append(s, e)[Len(Append(s, e))] = e
BY AppendProperties

LEMMA QueueStep == QueueInv /\ [Notify!Next]_notifyVars => QueueInv'
<1> SUFFICES ASSUME QueueInv, [Notify!Next]_notifyVars PROVE QueueInv'  OBVIOUS
<1> USE DEF QueueInv
<1>1. ASSUME NEW c \in Requesters, Notify!Put(c) PROVE QueueInv'
  <2>1. PICK config \in ChannelConfigs : jobs' = Append(jobs, [client |-> c, op |-> "set", config |-> config])
    BY <1>1 DEF Notify!Put
  <2>2. [client |-> c, op |-> "set", config |-> config] \in Notify!Job  BY DEF Notify!Job
  <2>3. jobs' \in Seq(Notify!Job) /\ jobs' # <<>>  BY <2>1, <2>2, AppendHasLast
  <2>4. QED BY <1>1, <2>3 DEF Notify!Put
<1>2. CASE Notify!RunJob
  <2> DEFINE first == Head(jobs)
             res   == [client |-> first.client, op |-> first.op, config |-> stored']
  <2>1. first \in Notify!Job /\ jobs' \in Seq(Notify!Job)  BY <1>2, TailKeepsLast DEF Notify!RunJob
  <2>2. stored' \in ChannelConfigs  BY <1>2, <2>1 DEF Notify!RunJob, Notify!Job
  <2>3. res \in Notify!Result  BY <2>1, <2>2 DEF Notify!Job, Notify!Result
  <2>4. results' = Append(results, res)  BY <1>2 DEF Notify!RunJob
  <2>5. res.config = stored'  OBVIOUS
  <2> HIDE DEF res
  <2>6. results' \in Seq(Notify!Result) /\ results' # <<>> /\ results'[Len(results')].config = stored'
    BY <2>3, <2>4, <2>5, AppendHasLast
  <2>7. QED BY <1>2, <2>1, <2>2, <2>6 DEF Notify!RunJob
<1>3. CASE Notify!Resume
  <2> DEFINE res == Head(results)
  <2>1. /\ results # <<>> /\ results' = Tail(results) /\ UNCHANGED <<stored, restores>>
    BY <1>3 DEF Notify!Resume
  <2>2. /\ results' \in Seq(Notify!Result) /\ res \in Notify!Result
        /\ results' # <<>> => results'[Len(results')] = results[Len(results)]
        /\ results' = <<>> => results[Len(results)] = res
    BY <2>1, TailKeepsLast
  <2>3. CASE res.op = "set"
    <3>1. jobs' = Append(jobs, [client |-> res.client, op |-> "get"])  BY <1>3, <2>3 DEF Notify!Resume
    <3>2. [client |-> res.client, op |-> "get"] \in Notify!Job  BY <2>2 DEF Notify!Job, Notify!Result
    <3>3. jobs' \in Seq(Notify!Job) /\ jobs' # <<>>  BY <3>1, <3>2, AppendHasLast
    <3>4. QED BY <2>1, <2>2, <3>3
  <2>4. CASE res.op # "set"
    <3>1. channels' = Notify!Build(res.config) /\ UNCHANGED jobs  BY <1>3, <2>4 DEF Notify!Resume
    <3>2. restores = 0 /\ results' = <<>> => channels' = Notify!Build(stored)  BY <2>1, <2>2, <3>1
    <3>3. QED BY <2>1, <2>2, <3>1, <3>2
  <2>5. QED BY <2>3, <2>4
<1>4. CASE Notify!Restore  BY <1>4 DEF Notify!Restore
<1>5. CASE Notify!Restart  BY <1>5, EmptySeq DEF Notify!Restart
<1>6. ASSUME NEW r \in Deliverers, Notify!StartDelivery(r) \/ Notify!PassOver(r) \/ Notify!Send(r) \/ Notify!SendFails(r) PROVE QueueInv'
  BY <1>6 DEF Notify!StartDelivery, Notify!PassOver, Notify!Send, Notify!SendFails
<1>7. CASE UNCHANGED notifyVars  BY <1>7 DEF notifyVars
<1>8. QED BY <1>1, <1>2, <1>3, <1>4, <1>5, <1>6, <1>7 DEF Notify!Next

--------------------------------------------------------------------------------
(* The deliveries.                                                         *)

LEMMA HeadAndTail ==
  ASSUME NEW S, NEW s \in Seq(S), s # <<>>
  PROVE  Tail(s) \in Seq(S) /\ Notify!Range(s) = {Head(s)} \union Notify!Range(Tail(s))
<1>1. /\ Len(s) \in Nat \ {0} /\ Tail(s) \in Seq(S) /\ Head(s) = s[1]
      /\ Len(Tail(s)) = Len(s) - 1 /\ \A i \in 1..Len(Tail(s)) : Tail(s)[i] = s[i + 1]
      /\ DOMAIN s = 1..Len(s) /\ DOMAIN Tail(s) = 1..Len(Tail(s))
  BY HeadTailProperties, EmptySeq, LenProperties
<1>2. Notify!Range(s) \subseteq {Head(s)} \union Notify!Range(Tail(s))
  <2> SUFFICES ASSUME NEW i \in 1..Len(s), i # 1 PROVE s[i] \in Notify!Range(Tail(s))
    BY <1>1 DEF Notify!Range
  <2>1. i - 1 \in DOMAIN Tail(s) /\ Tail(s)[i - 1] = s[i]  BY <1>1
  <2>2. QED BY <2>1 DEF Notify!Range
<1>3. {Head(s)} \union Notify!Range(Tail(s)) \subseteq Notify!Range(s)
  <2>1. ASSUME NEW i \in DOMAIN Tail(s) PROVE Tail(s)[i] \in Notify!Range(s)
    <3>1. i + 1 \in DOMAIN s /\ s[i + 1] = Tail(s)[i]  BY <1>1
    <3>2. QED BY <3>1 DEF Notify!Range
  <2>2. Head(s) \in Notify!Range(s)  BY <1>1 DEF Notify!Range
  <2>3. QED BY <2>1, <2>2 DEF Notify!Range
<1>4. QED BY <1>1, <1>2, <1>3

\* The next channel of a delivery is dealt with: it is passed over, sent to or fails.
LEMMA NextChannel ==
  ASSUME NEW d, Accounted(d), d.left # <<>>, NEW e, DOMAIN e = DOMAIN d,
         e.names = d.names, e.using = d.using, e.left = Tail(d.left),
         LET name == Head(d.left) IN
         \/ name \notin DOMAIN d.using /\ DOMAIN e.sent = DOMAIN d.sent /\ e.failed = d.failed
         \/ name \in DOMAIN d.using /\ DOMAIN e.sent = DOMAIN d.sent \union {name} /\ e.failed = d.failed
         \/ name \in DOMAIN d.using /\ DOMAIN e.sent = DOMAIN d.sent /\ e.failed = d.failed \union {name}
  PROVE  Accounted(e)
<1>1. Tail(d.left) \in Seq(Channels) /\ Notify!Range(d.left) = {Head(d.left)} \union Notify!Range(Tail(d.left))
  BY HeadAndTail DEF Accounted
<1>2. Notify!Range(e.names) \intersect DOMAIN e.using
        = DOMAIN e.sent \union e.failed \union (Notify!Range(e.left) \intersect DOMAIN e.using)
  BY <1>1 DEF Accounted
<1>3. QED BY <1>1, <1>2 DEF Accounted

LEMMA DeliveryStep ==
  ASSUME Selections \subseteq Seq(Channels)
  PROVE  DeliveryInv /\ [Notify!Next]_notifyVars => DeliveryInv'
<1> SUFFICES ASSUME DeliveryInv, [Notify!Next]_notifyVars PROVE DeliveryInv'  OBVIOUS
<1> USE DEF DeliveryInv
<1>1. ASSUME NEW r \in Deliverers, Notify!StartDelivery(r) PROVE DeliveryInv'
  <2>1. PICK names \in Selections :
          delivery' = [delivery EXCEPT ![r] =
            [names |-> names, left |-> names, using |-> channels, sent |-> << >>, failed |-> {}]]
    BY <1>1 DEF Notify!StartDelivery
  <2> DEFINE d == [names |-> names, left |-> names, using |-> channels, sent |-> << >>, failed |-> {}]
  <2>2. DOMAIN << >> = {}  OBVIOUS
  <2>3. Accounted(d)  BY <2>2 DEF Accounted
  <2>4. QED BY <2>1, <2>3
<1>2. ASSUME NEW r \in Deliverers, NEW e, Accounted(e), delivery' = [delivery EXCEPT ![r] = e]
      PROVE  DeliveryInv'
  BY <1>2
<1>3. ASSUME NEW r \in Deliverers, Notify!PassOver(r) PROVE DeliveryInv'
  <2> DEFINE d == delivery[r]
             e == [d EXCEPT !.left = Tail(d.left)]
  <2>1. d.left # <<>> /\ Accounted(d)  BY <1>3 DEF Notify!PassOver, Notify!Delivers
  <2>2. /\ DOMAIN e = DOMAIN d /\ e.names = d.names /\ e.using = d.using
        /\ e.left = Tail(d.left) /\ e.sent = d.sent /\ e.failed = d.failed
    BY <2>1 DEF Accounted
  <2>3. Head(d.left) \notin DOMAIN d.using /\ delivery' = [delivery EXCEPT ![r] = e]
    BY <1>3 DEF Notify!PassOver
  <2> HIDE DEF d, e
  <2>4. Accounted(e)  BY <2>1, <2>2, <2>3, NextChannel
  <2>5. QED BY <1>2, <2>3, <2>4
<1>4. ASSUME NEW r \in Deliverers, Notify!Send(r) PROVE DeliveryInv'
  <2> DEFINE d    == delivery[r]
             sent == [n \in DOMAIN d.sent \union {Head(d.left)} |-> d.using[n]]
             e    == [d EXCEPT !.left = Tail(d.left), !.sent = sent]
  <2>1. d.left # <<>> /\ Accounted(d)  BY <1>4 DEF Notify!Send, Notify!Delivers
  <2>2. /\ DOMAIN e = DOMAIN d /\ e.names = d.names /\ e.using = d.using
        /\ e.left = Tail(d.left) /\ e.sent = sent /\ e.failed = d.failed
    BY <2>1 DEF Accounted
  <2>3. DOMAIN sent = DOMAIN d.sent \union {Head(d.left)}  OBVIOUS
  <2>4. Head(d.left) \in DOMAIN d.using /\ delivery' = [delivery EXCEPT ![r] = e]
    BY <1>4, <2>1 DEF Notify!Send, Accounted
  <2> HIDE DEF d, sent, e
  <2>5. Accounted(e)  BY <2>1, <2>2, <2>3, <2>4, NextChannel
  <2>6. QED BY <1>2, <2>4, <2>5
<1>5. ASSUME NEW r \in Deliverers, Notify!SendFails(r) PROVE DeliveryInv'
  <2> DEFINE d == delivery[r]
             e == [d EXCEPT !.left = Tail(d.left), !.failed = d.failed \union {Head(d.left)}]
  <2>1. d.left # <<>> /\ Accounted(d)  BY <1>5 DEF Notify!SendFails, Notify!Delivers
  <2>2. /\ DOMAIN e = DOMAIN d /\ e.names = d.names /\ e.using = d.using
        /\ e.left = Tail(d.left) /\ e.sent = d.sent /\ e.failed = d.failed \union {Head(d.left)}
    BY <2>1 DEF Accounted
  <2>3. Head(d.left) \in DOMAIN d.using /\ delivery' = [delivery EXCEPT ![r] = e]
    BY <1>5, <2>1 DEF Notify!SendFails, Accounted
  <2> HIDE DEF d, e
  <2>4. Accounted(e)  BY <2>1, <2>2, <2>3, NextChannel
  <2>5. QED BY <1>2, <2>3, <2>4
<1>6. CASE Notify!Restart  BY <1>6 DEF Notify!Restart
<1>7. CASE UNCHANGED delivery  BY <1>7
<1>8. CASE Notify!RunJob \/ Notify!Resume \/ Notify!Restore \/ \E c \in Requesters : Notify!Put(c)
  BY <1>7, <1>8 DEF Notify!RunJob, Notify!Resume, Notify!Restore, Notify!Put
<1>9. CASE UNCHANGED notifyVars  BY <1>7, <1>9 DEF notifyVars
<1>10. QED BY <1>1, <1>3, <1>4, <1>5, <1>6, <1>8, <1>9 DEF Notify!Next

LEMMA AlertsInitial == Notify!Init => QueueInv /\ DeliveryInv
BY EmptySeq DEF Notify!Init, QueueInv, DeliveryInv

LEMMA AlertsAccounted == QueueInv /\ DeliveryInv => Notify!AlertsReachChannels
<1> SUFFICES ASSUME QueueInv, DeliveryInv PROVE Notify!AlertsReachChannels  OBVIOUS
<1>1. jobs = <<>> /\ results = <<>> => channels = Notify!Build(stored) \/ restores > 0  BY DEF QueueInv
<1>2. Notify!Range(<<>>) = {}  BY DEF Notify!Range
<1>3. \A r \in Deliverers : delivery[r] # None /\ delivery[r].left = <<>> =>
        Notify!Range(delivery[r].names) \intersect DOMAIN delivery[r].using
          = DOMAIN delivery[r].sent \union delivery[r].failed
  BY <1>2 DEF DeliveryInv, Accounted
<1>4. QED BY <1>1, <1>3 DEF Notify!AlertsReachChannels

AlertsInv == QueueInv /\ DeliveryInv

\* put_alert_channels and dispatch: however requests overlap, the service ends with the channels of
\* the configuration stored last, and no channel that an alert is for is passed over because another
\* one failed or the configuration changed while the alert was delivered.
THEOREM AlertsArrive ==
  /\ Notify!Spec => []Notify!AlertsReachChannels
  /\ PartsSpec => []AlertsReachChannels
<1> DEFINE Inv == part = "notify" => AlertsInv
<1>1. Notify!Init => AlertsInv  BY AlertsInitial DEF AlertsInv
<1>2. AlertsInv /\ [Notify!Next]_notifyVars => AlertsInv'  BY QueueStep, DeliveryStep, PartsAssumption DEF AlertsInv, PartsAssumption, Notify!ChannelAssumption
<1>3. AlertsInv => Notify!AlertsReachChannels  BY AlertsAccounted DEF AlertsInv
<1>4. PartsInit => Inv  BY <1>1 DEF PartsInit
<1>5. Inv /\ [PartsNext]_vars => Inv'  BY <1>2, OnePartMoves
<1>6. Inv => AlertsReachChannels  BY <1>3 DEF AlertsReachChannels
<1> HIDE DEF Inv
<1>7. PartsSpec => []AlertsReachChannels  BY <1>4, <1>5, <1>6, PTL DEF PartsSpec
<1>8. AlertsInv /\ [Notify!Next]_(Notify!channelVars) => AlertsInv'  BY <1>2 DEF notifyVars, Notify!channelVars
<1>9. Notify!Spec => []Notify!AlertsReachChannels  BY <1>1, <1>3, <1>8, PTL DEF Notify!Spec
<1>10. QED BY <1>7, <1>9

--------------------------------------------------------------------------------
(* The webhooks.                                                           *)

\* Products grow with their factors.
LEMMA ProductMonotone ==
  ASSUME NEW w \in Nat, NEW p \in Int, NEW q \in Int, p <= q
  PROVE  w * p <= w * q
BY SMT

\* The pass may still come to an endpoint.
Ahead(e) == e \in pass.listed /\ \E j \in pass.at..Len(Endpoints) : Endpoints[j] = e

\* What PostedInTime allows without the time that posts take.
Limit(e) == IF e \in fresh THEN Webhooks!Max({Webhooks!Every(e), Default}) ELSE Webhooks!Every(e)

PassTypes ==
  [at : 1..(Len(Endpoints) + 1), listed : SUBSET Webhooks!Ids, begun : Nat, soonest : 0..Default]

WebhookTypes ==
  /\ wanted \subseteq Webhooks!Ids
  /\ age \in [Webhooks!Ids -> Nat] /\ waited \in [Webhooks!Ids -> Nat]
  /\ pass \in PassTypes \union {None} /\ sleep \in (0..Default) \union {None}
  /\ posting \in (0..MaxPost) \union {None} /\ held \in Nat
  /\ (pass = None) # (sleep = None)
  /\ posting # None => pass # None /\ pass.at <= Len(Endpoints)

\* An age is no less than the wait, and the posts before the one at hand have taken no more than
\* the longest post each.
PassInv ==
  /\ \A e \in Webhooks!Ids : age[e] = AgeCap \/ waited[e] <= age[e]
  /\ pass # None => pass.begun <= MaxPost * (pass.at - 1) + (IF posting = None THEN 0 ELSE posting)
  /\ posting # None => waited[Endpoints[pass.at]] <= pass.begun

\* How long an endpoint may have waited: while the task sleeps; when the pass is still to come to it;
\* when the pass has been there, or had begun before it was enabled.
WaitInv ==
  \A e \in wanted :
    /\ pass = None => waited[e] + sleep <= Limit(e) + held
    /\ pass # None /\ Ahead(e) => waited[e] <= Limit(e) + held + pass.begun
    /\ pass # None /\ ~Ahead(e) => waited[e] + pass.soonest <= Limit(e) + pass.begun

WebhookInv == WebhookTypes /\ PassInv /\ WaitInv

LEMMA MaxMin ==
  ASSUME NEW a \in Nat, NEW b \in Nat
  PROVE  /\ Webhooks!Max({a, b}) \in {a, b} /\ Webhooks!Max({a, b}) >= a /\ Webhooks!Max({a, b}) >= b
         /\ Webhooks!Min({a, b}) \in {a, b} /\ Webhooks!Min({a, b}) <= a /\ Webhooks!Min({a, b}) <= b
<1>1. \E x \in {a, b} : \A y \in {a, b} : x >= y  BY a >= b \/ b >= a
<1>2. \E x \in {a, b} : \A y \in {a, b} : x <= y  BY a >= b \/ b >= a
<1>3. QED BY <1>1, <1>2 DEF Webhooks!Max, Webhooks!Min

\* The endpoints and their intervals, and what is allowed of a wait.
LEMMA Intervals ==
  ASSUME Webhooks!WebhookAssumption
  PROVE  /\ Len(Endpoints) \in Nat /\ MaxPost \in Nat /\ Default \in Nat \ {0} /\ AgeCap \in Nat /\ None \notin Nat
         /\ \A j \in 1..Len(Endpoints) : Endpoints[j] \in Webhooks!Ids
         /\ \A e \in Webhooks!Ids :
              /\ \E j \in 1..Len(Endpoints) : Endpoints[j] = e
              /\ Webhooks!Every(e) \in Nat \ {0}
              /\ AgeCap > Webhooks!Every(e) + MaxPost * Len(Endpoints)
<1> USE DEF Webhooks!WebhookAssumption
<1>1. DOMAIN Endpoints = 1..Len(Endpoints) /\ Len(Endpoints) \in Nat  BY LenProperties
<1>2. ASSUME NEW e \in Webhooks!Ids PROVE Webhooks!Every(e) \in Nat \ {0}
  <2> DEFINE own == IF Configured[e] = 0 THEN Default ELSE Configured[e]
  <2>1. own \in Nat \ {0} /\ MinInterval \in Nat \ {0}  OBVIOUS
  <2> HIDE DEF own
  <2>2. own \in Nat /\ MinInterval \in Nat  BY <2>1
  <2>3. Webhooks!Max({own, MinInterval}) \in {own, MinInterval}  BY <2>2, MaxMin, Zenon
  <2>4. QED BY <2>1, <2>3 DEF Webhooks!Every, own
<1>3. Len(Endpoints) * MaxPost = MaxPost * Len(Endpoints)  BY <1>1
<1>4. QED BY <1>1, <1>2, <1>3 DEF Webhooks!Ids

LEMMA Limits ==
  ASSUME Webhooks!WebhookAssumption, NEW e \in Webhooks!Ids
  PROVE  /\ Limit(e) \in Nat /\ Webhooks!Every(e) \in Nat /\ Webhooks!Every(e) <= Limit(e)
         /\ e \in fresh => Default <= Limit(e)
<1>1. Webhooks!Every(e) \in Nat /\ Default \in Nat  BY Intervals
<1>2. /\ Webhooks!Max({Webhooks!Every(e), Default}) \in {Webhooks!Every(e), Default}
      /\ Webhooks!Max({Webhooks!Every(e), Default}) >= Webhooks!Every(e)
      /\ Webhooks!Max({Webhooks!Every(e), Default}) >= Default
  BY <1>1, MaxMin, Zenon
<1>3. QED BY <1>1, <1>2 DEF Limit

LEMMA WebhookInitial == Webhooks!WebhookAssumption /\ Webhooks!Init => WebhookInv
<1> SUFFICES ASSUME Webhooks!WebhookAssumption, Webhooks!Init PROVE WebhookInv  OBVIOUS
<1>1. WebhookTypes  BY Intervals DEF Webhooks!Init, WebhookTypes
<1>2. PassInv  BY <1>1 DEF Webhooks!Init, PassInv, WebhookTypes
<1>3. WaitInv
  <2>1. held = 0  BY DEF Webhooks!Init
  <2>2. QED BY <1>1, <2>1, Limits DEF Webhooks!Init, WaitInv, WebhookTypes
<1>4. QED BY <1>1, <1>2, <1>3 DEF WebhookInv

LEMMA WebhookPuts == ASSUME Webhooks!WebhookAssumption, WebhookInv, Webhooks!Put PROVE WebhookInv'
<1> USE DEF WebhookInv
<1>1. WebhookTypes'  BY Intervals DEF Webhooks!Put, WebhookTypes
<1>2. PassInv'
  <2>1. \A e \in Webhooks!Ids : waited'[e] <= waited[e] /\ waited'[e] \in Nat  BY DEF Webhooks!Put, WebhookTypes
  <2>2. posting # None => Endpoints[pass.at] \in Webhooks!Ids
    BY Intervals DEF WebhookTypes, PassTypes
  <2>3. posting # None => waited'[Endpoints[pass.at]] <= pass.begun
    BY <2>1, <2>2 DEF PassInv, WebhookTypes, PassTypes
  <2>4. \A e \in Webhooks!Ids : age[e] = AgeCap \/ waited'[e] <= age[e]
    BY <2>1 DEF PassInv, WebhookTypes
  <2>5. QED BY <2>3, <2>4 DEF Webhooks!Put, PassInv
<1>3. WaitInv'
  <2> SUFFICES ASSUME NEW e \in wanted'
               PROVE  /\ pass = None => waited'[e] + sleep <= Limit(e)' + held
                      /\ pass # None /\ Ahead(e) => waited'[e] <= Limit(e)' + held + pass.begun
                      /\ pass # None /\ ~Ahead(e) => waited'[e] + pass.soonest <= Limit(e)' + pass.begun
    BY DEF Webhooks!Put, WaitInv, Ahead
  <2>1. CASE e \in wanted
    <3>1. waited'[e] = waited[e] /\ (e \in fresh' <=> e \in fresh)  BY <2>1 DEF Webhooks!Put, WebhookTypes
    <3>2. Limit(e)' = Limit(e)  BY <3>1 DEF Limit
    <3>3. QED BY <2>1, <3>1, <3>2 DEF WaitInv
  <2>2. CASE e \notin wanted
    <3>1. e \in Webhooks!Ids /\ waited'[e] = 0 /\ e \in fresh'  BY <2>2 DEF Webhooks!Put
    <3>2. Limit(e)' = Webhooks!Max({Webhooks!Every(e), Default})  BY <3>1 DEF Limit
    <3>3. Limit(e)' \in Nat /\ Default <= Limit(e)'
      <4>1. Webhooks!Every(e) \in Nat /\ Default \in Nat  BY <3>1, Intervals
      <4>2. /\ Webhooks!Max({Webhooks!Every(e), Default}) \in {Webhooks!Every(e), Default}
            /\ Webhooks!Max({Webhooks!Every(e), Default}) >= Default
        BY <4>1, MaxMin, Zenon
      <4>3. QED BY <3>2, <4>1, <4>2
    <3>4. held \in Nat  BY DEF WebhookTypes
    <3>5. sleep # None => sleep \in Nat /\ sleep <= Default  BY Intervals DEF WebhookTypes
    <3>6. pass # None => pass.begun \in Nat /\ pass.soonest \in Nat /\ pass.soonest <= Default
      BY Intervals DEF WebhookTypes, PassTypes
    <3>7. pass = None => sleep # None  BY DEF WebhookTypes
    <3> DEFINE limit == Limit(e)'
    <3>8. limit \in Nat /\ Default <= limit /\ held \in Nat /\ Default \in Nat  BY <3>3, <3>4, Intervals
    <3>9. waited'[e] = 0  BY <3>1
    <3> HIDE DEF limit
    <3>10. /\ pass = None => waited'[e] + sleep <= limit + held
           /\ pass # None => waited'[e] <= limit + held + pass.begun
           /\ pass # None => waited'[e] + pass.soonest <= limit + pass.begun
      BY <3>5, <3>6, <3>7, <3>8, <3>9
    <3>11. QED BY <3>10 DEF limit
  <2>3. QED BY <2>1, <2>2
<1>4. QED BY <1>1, <1>2, <1>3

LEMMA WebhookBegins == ASSUME Webhooks!WebhookAssumption, WebhookInv, Webhooks!Begin PROVE WebhookInv'
<1> USE DEF WebhookInv
<1> DEFINE p == [at |-> 1, listed |-> wanted, begun |-> 0, soonest |-> Default]
<1>1. /\ pass = None /\ posting = None /\ sleep = 0 /\ pass' = p /\ sleep' = None
      /\ UNCHANGED <<wanted, age, posting, waited, fresh, held>>
  BY Intervals DEF Webhooks!Begin, WebhookTypes
<1>2. p \in PassTypes  BY Intervals DEF PassTypes, WebhookTypes
<1>3. p # None  <2>1. p \in [at : Nat, listed : SUBSET Webhooks!Ids, begun : Nat, soonest : Nat]
    BY Intervals DEF WebhookTypes
  <2>2. QED BY <2>1 DEF Webhooks!WebhookAssumption
<1>4. WebhookTypes'  BY <1>1, <1>2, <1>3 DEF WebhookTypes
<1>5. PassInv'
  <2>1. MaxPost * (p.at - 1) = 0 /\ p.begun = 0  BY Intervals
  <2>2. QED BY <1>1, <2>1 DEF PassInv
<1>6. WaitInv'
  <2> SUFFICES ASSUME NEW e \in wanted
               PROVE  Ahead(e)' /\ waited[e] <= Limit(e) + held + p.begun
    BY <1>1, <1>3 DEF WaitInv, Limit
  <2>1. e \in Webhooks!Ids  BY DEF WebhookTypes
  <2>2. Ahead(e)'  BY <1>1, <2>1, Intervals DEF Ahead
  <2>3. waited[e] + 0 <= Limit(e) + held  BY <1>1 DEF WaitInv
  <2>4. waited[e] \in Nat /\ Limit(e) \in Nat /\ held \in Nat
    BY <2>1, Limits, Intervals DEF WebhookTypes
  <2>5. QED BY <2>2, <2>3, <2>4
<1>7. QED BY <1>4, <1>5, <1>6

\* No pass is taken for none.
LEMMA PassIsThere ==
  ASSUME Webhooks!WebhookAssumption, NEW p \in PassTypes PROVE p # None
<1>1. p \in [at : Nat, listed : SUBSET Webhooks!Ids, begun : Nat, soonest : Nat]
  BY Intervals DEF PassTypes
<1>2. QED BY <1>1 DEF Webhooks!WebhookAssumption

\* The pass goes on to the next endpoint, and sleeps no longer than was due until then.
LEMMA GoesOn ==
  ASSUME Webhooks!WebhookAssumption, WebhookInv, pass # None, pass.at <= Len(Endpoints),
         UNCHANGED <<wanted, age, sleep, waited, fresh, held>>, posting' = None,
         pass' \in PassTypes, pass'.at = pass.at + 1, pass'.listed = pass.listed, pass'.begun = pass.begun,
         pass'.soonest <= pass.soonest,
         \A e \in wanted : e \in pass.listed /\ e = Endpoints[pass.at] =>
           waited[e] + pass'.soonest <= Limit(e) + pass.begun
  PROVE  WebhookInv'
<1> USE DEF WebhookInv
<1>1. /\ pass \in PassTypes /\ pass.at \in Nat /\ pass.begun \in Nat /\ pass.soonest \in Nat /\ pass'.soonest \in Nat
      /\ MaxPost \in Nat /\ Len(Endpoints) \in Nat
  <2>1. MaxPost \in Nat /\ Len(Endpoints) \in Nat /\ Default \in Nat  BY Intervals
  <2>2. pass \in PassTypes  BY DEF WebhookTypes
  <2>3. pass.at \in Nat /\ pass.begun \in Nat /\ pass.soonest \in Nat  BY <2>1, <2>2 DEF PassTypes
  <2>4. pass'.soonest \in 0..Default  BY DEF PassTypes
  <2>5. QED BY <2>1, <2>2, <2>3, <2>4
<1>2. pass' # None  BY PassIsThere
<1>3. WebhookTypes'  BY <1>2 DEF WebhookTypes
<1>4. PassInv'
  <2>1. pass.begun <= MaxPost * (pass.at - 1) + MaxPost
    BY SMTT(30), <1>1 DEF PassInv, WebhookTypes
  <2>2. MaxPost * (pass.at - 1) + MaxPost = MaxPost * pass.at  BY <1>1
  <2>3. pass'.at - 1 = pass.at  BY <1>1
  <2>4. pass'.begun <= MaxPost * (pass'.at - 1)  BY <2>1, <2>2, <2>3
  <2>5. MaxPost * (pass'.at - 1) + 0 = MaxPost * (pass'.at - 1)  BY <1>1, <2>3
  <2>6. QED BY <2>4, <2>5 DEF PassInv
<1>5. WaitInv'
  <2> SUFFICES ASSUME NEW e \in wanted
               PROVE  /\ Ahead(e)' => waited[e] <= Limit(e) + held + pass.begun
                      /\ ~Ahead(e)' => waited[e] + pass'.soonest <= Limit(e) + pass.begun
    BY <1>2 DEF WaitInv, Limit
  <2>1. e \in Webhooks!Ids /\ waited[e] \in Nat /\ Limit(e) \in Nat  BY Limits DEF WebhookTypes
  <2>2. Ahead(e)' => Ahead(e)  BY <1>1 DEF Ahead
  <2>3. ~Ahead(e)' /\ Ahead(e) => e \in pass.listed /\ e = Endpoints[pass.at]  BY <1>1 DEF Ahead
  <2>4. Ahead(e)' => waited[e] <= Limit(e) + held + pass.begun
    BY <2>2 DEF WaitInv
  <2>5. ~Ahead(e) => waited[e] + pass.soonest <= Limit(e) + pass.begun  BY DEF WaitInv
  <2>6. ~Ahead(e) => waited[e] + pass'.soonest <= Limit(e) + pass.begun  BY <1>1, <2>1, <2>5
  <2>7. QED BY <2>3, <2>4, <2>6
<1>6. QED BY <1>3, <1>4, <1>5

\* What NextDueIn makes of a pass.
LEMMA DueIn ==
  ASSUME Webhooks!WebhookAssumption, pass \in PassTypes, pass.at <= Len(Endpoints), NEW d \in Nat
  PROVE  /\ Webhooks!NextDueIn(d) \in PassTypes
         /\ Webhooks!NextDueIn(d).at = pass.at + 1 /\ Webhooks!NextDueIn(d).listed = pass.listed
         /\ Webhooks!NextDueIn(d).begun = pass.begun
         /\ Webhooks!NextDueIn(d).soonest <= pass.soonest /\ Webhooks!NextDueIn(d).soonest <= d
<1>1. /\ pass.soonest \in Nat /\ pass.soonest <= Default /\ pass.at \in 1..(Len(Endpoints) + 1)
      /\ Len(Endpoints) \in Nat /\ Default \in Nat
  BY Intervals DEF PassTypes
<1> DEFINE m == Webhooks!Min({pass.soonest, d})
<1>2. m \in {pass.soonest, d} /\ m <= pass.soonest /\ m <= d  BY <1>1, MaxMin, Zenon
<1>3. m \in 0..Default /\ pass.at + 1 \in 1..(Len(Endpoints) + 1)  BY <1>1, <1>2
<1>4. Webhooks!NextDueIn(d) = [pass EXCEPT !.at = pass.at + 1, !.soonest = m]
  BY DEF Webhooks!NextDueIn, PassTypes
<1> HIDE DEF m
<1>5. QED BY <1>2, <1>3, <1>4 DEF PassTypes

LEMMA WebhookSkips == ASSUME Webhooks!WebhookAssumption, WebhookInv, Webhooks!Skip PROVE WebhookInv'
<1>1. /\ pass \in PassTypes /\ pass # None /\ pass.at \in Nat /\ pass.at <= Len(Endpoints) /\ Len(Endpoints) \in Nat
      /\ pass.soonest \in Nat
  BY Intervals DEF WebhookInv, WebhookTypes, PassTypes, Webhooks!Skip, Webhooks!Looking
<1>2. pass' = [pass EXCEPT !.at = pass.at + 1]  BY DEF Webhooks!Skip
<1>3. /\ pass' \in PassTypes /\ pass'.at = pass.at + 1 /\ pass'.listed = pass.listed /\ pass'.begun = pass.begun
      /\ pass'.soonest = pass.soonest
  BY <1>1, <1>2 DEF PassTypes
<1>4. pass'.soonest <= pass.soonest  BY <1>1, <1>3
<1>5. /\ UNCHANGED <<wanted, age, sleep, waited, fresh, held>> /\ posting' = None
      /\ Endpoints[pass.at] \notin pass.listed
  BY DEF Webhooks!Skip, Webhooks!Looking, Webhooks!AtHand
<1>6. QED BY <1>1, <1>3, <1>4, <1>5, GoesOn

LEMMA WebhookWaits == ASSUME Webhooks!WebhookAssumption, WebhookInv, Webhooks!NotDue PROVE WebhookInv'
<1> DEFINE h == Endpoints[pass.at]
           d == Webhooks!Every(h) + pass.begun - age[h]
<1>1. /\ pass \in PassTypes /\ pass # None /\ pass.at \in 1..Len(Endpoints) /\ pass.begun \in Nat
      /\ Len(Endpoints) \in Nat /\ posting = None
  BY Intervals, SMTT(30) DEF WebhookInv, WebhookTypes, PassTypes, Webhooks!NotDue, Webhooks!Looking
<1>2. /\ age[h] - pass.begun < Webhooks!Every(h) /\ pass' = Webhooks!NextDueIn(d)
      /\ UNCHANGED <<wanted, age, sleep, waited, fresh, held>> /\ posting' = None
  BY DEF Webhooks!NotDue, Webhooks!Looking, Webhooks!AtHand
<1>3. h \in Webhooks!Ids /\ Webhooks!Every(h) \in Nat /\ age[h] \in Nat /\ waited[h] \in Nat
  BY <1>1, Intervals DEF WebhookInv, WebhookTypes
<1>4. waited[h] <= age[h]
  <2>1. pass.begun <= MaxPost * Len(Endpoints)
    <3>1. pass.begun <= MaxPost * (pass.at - 1) + 0  BY <1>1 DEF WebhookInv, PassInv
    <3>2. MaxPost * (pass.at - 1) <= MaxPost * Len(Endpoints)  BY <1>1, Intervals, ProductMonotone
    <3>3. MaxPost * (pass.at - 1) \in Int /\ MaxPost * Len(Endpoints) \in Int  BY <1>1, Intervals
    <3>4. QED BY <1>1, <3>1, <3>2, <3>3
  <2>2. AgeCap > Webhooks!Every(h) + MaxPost * Len(Endpoints) /\ AgeCap \in Nat /\ MaxPost * Len(Endpoints) \in Int
    BY <1>1, <1>3, Intervals
  <2>3. age[h] # AgeCap  BY <1>1, <1>2, <1>3, <2>1, <2>2
  <2>4. QED BY <1>3, <2>3 DEF WebhookInv, PassInv
<1>5. d \in Nat /\ waited[h] + d <= Webhooks!Every(h) + pass.begun  BY <1>1, <1>2, <1>3, <1>4
<1>6. /\ pass' \in PassTypes /\ pass'.at = pass.at + 1 /\ pass'.listed = pass.listed /\ pass'.begun = pass.begun
      /\ pass'.soonest <= pass.soonest /\ pass'.soonest <= d
  BY <1>1, <1>2, <1>5, DueIn
<1>7. waited[h] + pass'.soonest <= Limit(h) + pass.begun
  <2>1. pass'.soonest \in Nat  BY <1>6, Intervals DEF PassTypes
  <2>2. Webhooks!Every(h) <= Limit(h) /\ Limit(h) \in Nat  BY <1>3, Limits
  <2>3. d \in Nat /\ waited[h] + d <= Webhooks!Every(h) + pass.begun /\ pass'.soonest <= d  BY <1>5, <1>6
  <2> HIDE DEF d, h
  <2>4. QED BY <1>1, <1>3, <2>1, <2>2, <2>3, SMTT(30)
<1> HIDE DEF d
<1>8. QED BY <1>1, <1>2, <1>6, <1>7, GoesOn

LEMMA WebhookPosted == ASSUME Webhooks!WebhookAssumption, WebhookInv, Webhooks!PostEnds PROVE WebhookInv'
<1> DEFINE h == Endpoints[pass.at]
<1>1. /\ pass \in PassTypes /\ pass # None /\ pass.at \in 1..Len(Endpoints) /\ pass.begun \in Nat
      /\ Len(Endpoints) \in Nat /\ posting # None
  BY Intervals DEF WebhookInv, WebhookTypes, PassTypes, Webhooks!PostEnds
<1>2. /\ pass' = Webhooks!NextDueIn(Webhooks!Every(h))
      /\ UNCHANGED <<wanted, age, sleep, waited, fresh, held>> /\ posting' = None
  BY DEF Webhooks!PostEnds, Webhooks!AtHand
<1>3. h \in Webhooks!Ids /\ Webhooks!Every(h) \in Nat /\ waited[h] \in Nat
  BY <1>1, Intervals DEF WebhookInv, WebhookTypes
<1>4. waited[h] <= pass.begun  BY <1>1 DEF WebhookInv, PassInv
<1>5. /\ pass' \in PassTypes /\ pass'.at = pass.at + 1 /\ pass'.listed = pass.listed /\ pass'.begun = pass.begun
      /\ pass'.soonest <= pass.soonest /\ pass'.soonest <= Webhooks!Every(h)
  BY <1>1, <1>2, <1>3, DueIn
<1>6. waited[h] + pass'.soonest <= Limit(h) + pass.begun
  <2>1. pass'.soonest \in Nat  BY <1>5, Intervals DEF PassTypes
  <2>2. Webhooks!Every(h) <= Limit(h) /\ Limit(h) \in Nat  BY <1>3, Limits
  <2>3. QED BY <1>1, <1>3, <1>4, <1>5, <2>1, <2>2
<1>7. QED BY <1>1, <1>2, <1>5, <1>6, GoesOn

LEMMA WebhookPosts == ASSUME Webhooks!WebhookAssumption, WebhookInv, Webhooks!Post PROVE WebhookInv'
<1> DEFINE h == Endpoints[pass.at]
<1>1. /\ pass \in PassTypes /\ pass # None /\ pass.at \in 1..Len(Endpoints) /\ pass.begun \in Nat
      /\ Len(Endpoints) \in Nat /\ posting = None /\ h \in pass.listed /\ h \in Webhooks!Ids
  BY Intervals, SMTT(30) DEF WebhookInv, WebhookTypes, PassTypes, Webhooks!Post, Webhooks!Looking, Webhooks!AtHand
<1>2. /\ age' = [age EXCEPT ![h] = pass.begun] /\ waited' = [waited EXCEPT ![h] = 0] /\ fresh' = fresh \ {h}
      /\ posting' = 0 /\ UNCHANGED <<wanted, pass, sleep, held>>
  BY DEF Webhooks!Post, Webhooks!AtHand
<1>3. MaxPost \in Nat /\ None \notin Nat  BY Intervals
<1>4. WebhookTypes'  BY <1>1, <1>2, <1>3 DEF WebhookInv, WebhookTypes
<1>5. PassInv'
  <2>1. \A e \in Webhooks!Ids : age'[e] = AgeCap \/ waited'[e] <= age'[e]
    BY <1>1, <1>2 DEF WebhookInv, WebhookTypes, PassInv
  <2>2. pass.begun <= MaxPost * (pass.at - 1) + 0  BY <1>1 DEF WebhookInv, PassInv
    <2>4. waited'[h] <= pass.begun  BY <1>1, <1>2 DEF WebhookInv, WebhookTypes
  <2>5. posting' # None  BY <1>2, <1>3
  <2>6. QED BY <1>2, <2>1, <2>2, <2>4, <2>5 DEF PassInv
<1>6. WaitInv'
  <2> SUFFICES ASSUME NEW e \in wanted
               PROVE  /\ Ahead(e) => waited'[e] <= Limit(e)' + held + pass.begun
                      /\ ~Ahead(e) => waited'[e] + pass.soonest <= Limit(e)' + pass.begun
    BY <1>1, <1>2 DEF WaitInv, Ahead
  <2>1. CASE e = h
    <3>1. Ahead(e)  BY <1>1, <2>1 DEF Ahead
    <3>2. waited'[e] = 0 /\ Limit(e)' = Webhooks!Every(e)
      BY <1>1, <1>2, <2>1 DEF Limit, WebhookInv, WebhookTypes
    <3>3. Webhooks!Every(e) \in Nat /\ held \in Nat
      BY <1>1, <2>1, Intervals DEF WebhookInv, WebhookTypes
    <3>4. QED BY <1>1, <3>1, <3>2, <3>3
  <2>2. CASE e # h
    <3>1. waited'[e] = waited[e] /\ Limit(e)' = Limit(e)
      BY <1>2, <2>2 DEF Limit, WebhookInv, WebhookTypes
    <3>2. QED BY <1>1, <3>1 DEF WebhookInv, WaitInv
  <2>3. QED BY <2>1, <2>2
<1>7. QED BY <1>4, <1>5, <1>6 DEF WebhookInv

LEMMA WebhookEnds == ASSUME Webhooks!WebhookAssumption, WebhookInv, Webhooks!End PROVE WebhookInv'
<1>1. /\ pass \in PassTypes /\ pass # None /\ pass.at = Len(Endpoints) + 1 /\ pass.begun \in Nat
      /\ pass.soonest \in 0..Default /\ Len(Endpoints) \in Nat /\ posting = None
  BY Intervals DEF WebhookInv, WebhookTypes, PassTypes, Webhooks!End
<1>2. pass' = None /\ sleep' = pass.soonest /\ held' = pass.begun /\ UNCHANGED <<wanted, age, posting, waited, fresh>>
  BY DEF Webhooks!End
<1>3. WebhookTypes'  BY <1>1, <1>2, Intervals DEF WebhookInv, WebhookTypes
<1>4. PassInv'  BY <1>1, <1>2 DEF WebhookInv, PassInv
<1>5. WaitInv'
  <2> SUFFICES ASSUME NEW e \in wanted PROVE waited[e] + pass.soonest <= Limit(e) + pass.begun
    BY <1>2 DEF WaitInv, Limit
  <2>1. ~Ahead(e)  BY <1>1 DEF Ahead
  <2>2. QED BY <1>1, <2>1 DEF WebhookInv, WaitInv
<1>6. QED BY <1>3, <1>4, <1>5 DEF WebhookInv

LEMMA WebhookElapses == ASSUME Webhooks!WebhookAssumption, WebhookInv, Webhooks!Elapse PROVE WebhookInv'
<1> USE DEF WebhookInv
<1>1. /\ MaxPost \in Nat /\ Len(Endpoints) \in Nat /\ AgeCap \in Nat /\ Default \in Nat /\ None \notin Nat
      /\ held \in Nat
  BY Intervals DEF WebhookTypes
<1>2. ASSUME NEW e \in Webhooks!Ids
      PROVE  /\ waited'[e] = (IF e \in wanted THEN waited[e] + 1 ELSE 0) /\ waited[e] \in Nat
             /\ age'[e] \in Nat /\ age[e] \in Nat /\ (age'[e] = AgeCap \/ age'[e] = age[e] + 1)
  <2>1. age[e] \in Nat /\ waited[e] \in Nat  BY DEF WebhookTypes
  <2>2. age[e] + 1 \in Nat  BY <2>1
  <2>3. age'[e] = Webhooks!Min({age[e] + 1, AgeCap})  BY DEF Webhooks!Elapse, Webhooks!Older
  <2>4. Webhooks!Min({age[e] + 1, AgeCap}) \in {age[e] + 1, AgeCap}  BY <1>1, <2>2, MaxMin, Zenon
  <2>5. waited'[e] = (IF e \in wanted THEN waited[e] + 1 ELSE 0)  BY DEF Webhooks!Elapse
  <2>6. QED BY <1>1, <2>1, <2>2, <2>3, <2>4, <2>5
<1>3. age' \in [Webhooks!Ids -> Nat] /\ waited' \in [Webhooks!Ids -> Nat]
  BY <1>2 DEF Webhooks!Elapse
<1>4. \A e \in Webhooks!Ids : age'[e] = AgeCap \/ waited'[e] <= age'[e]
  <2> SUFFICES ASSUME NEW e \in Webhooks!Ids, age'[e] # AgeCap PROVE waited'[e] <= age'[e]  OBVIOUS
  <2>1. age'[e] = age[e] + 1 /\ waited[e] \in Nat /\ age[e] \in Nat  BY <1>2
  <2>2. CASE age[e] = AgeCap
    <3>1. age'[e] = Webhooks!Min({age[e] + 1, AgeCap}) /\ age[e] + 1 \in Nat  BY <2>1 DEF Webhooks!Elapse, Webhooks!Older
    <3>2. Webhooks!Min({age[e] + 1, AgeCap}) <= AgeCap  BY <1>1, <3>1, MaxMin, Zenon
    <3>3. QED BY <1>1, <2>1, <2>2, <3>1, <3>2
  <2>3. CASE age[e] # AgeCap
    <3>1. waited[e] <= age[e]  BY <2>3 DEF PassInv
    <3>2. QED BY <1>2, <2>1, <3>1
  <2>4. QED BY <2>2, <2>3
<1>5. ASSUME NEW e \in wanted
      PROVE  /\ e \in Webhooks!Ids /\ waited'[e] = waited[e] + 1 /\ waited[e] \in Nat /\ Limit(e)' = Limit(e)
             /\ Limit(e) \in Nat
  BY <1>2, Limits DEF WebhookTypes, Webhooks!Elapse, Limit
<1>6. wanted' = wanted /\ fresh' = fresh /\ held' = held  BY DEF Webhooks!Elapse
<1>7. CASE sleep \notin {None, 0} /\ sleep' = sleep - 1 /\ UNCHANGED <<posting, pass>>
  <2>1. sleep \in Nat /\ sleep > 0 /\ sleep - 1 \in 0..Default  BY <1>1, <1>7 DEF WebhookTypes
  <2>2. pass = None /\ posting = None  BY <1>7 DEF WebhookTypes
  <2>3. WebhookTypes'  BY <1>1, <1>3, <1>6, <1>7, <2>1, <2>2 DEF WebhookTypes
  <2>4. PassInv'  BY <1>4, <1>7, <2>2 DEF PassInv
  <2>5. WaitInv'
    <3> SUFFICES ASSUME NEW e \in wanted
                 PROVE  waited'[e] + (sleep - 1) <= Limit(e)' + held
      BY <1>6, <1>7, <2>2 DEF WaitInv
    <3>1. waited[e] + sleep <= Limit(e) + held  BY <2>2 DEF WaitInv
    <3>2. QED BY <1>5, <2>1, <3>1
  <2>6. QED BY <2>3, <2>4, <2>5
<1>8. CASE /\ posting # None /\ posting < MaxPost /\ posting' = posting + 1
           /\ pass' = [pass EXCEPT !.begun = @ + 1] /\ UNCHANGED sleep
  <2>1. posting \in Nat /\ posting' \in 0..MaxPost /\ posting' # None
    BY <1>1, <1>8 DEF WebhookTypes
  <2>2. /\ pass \in PassTypes /\ pass # None /\ pass.at \in 1..Len(Endpoints) /\ pass.begun \in Nat /\ pass.soonest \in Nat
    BY <1>1, <1>8 DEF WebhookTypes, PassTypes
  <2>3. /\ pass' \in PassTypes /\ pass'.at = pass.at /\ pass'.listed = pass.listed /\ pass'.begun = pass.begun + 1
        /\ pass'.soonest = pass.soonest
    BY <1>8, <2>2 DEF PassTypes
  <2>4. pass' # None  BY <2>3, PassIsThere
  <2>5. WebhookTypes'  BY <1>3, <1>6, <1>8, <2>1, <2>2, <2>3, <2>4 DEF WebhookTypes
  <2>6. PassInv'
    <3>1. pass.begun <= MaxPost * (pass.at - 1) + posting  BY <2>1, <2>2, <1>8 DEF PassInv
    <3>2. MaxPost * (pass.at - 1) \in Int  BY <1>1, <2>2
    <3>3. pass'.begun <= MaxPost * (pass'.at - 1) + posting'
      <4> DEFINE x == MaxPost * (pass.at - 1)
      <4>1. x \in Int /\ pass.begun <= x + posting  BY <3>1, <3>2
      <4>2. posting' = posting + 1 /\ pass'.begun = pass.begun + 1 /\ MaxPost * (pass'.at - 1) = x
        BY <1>8, <2>3
      <4> HIDE DEF x
      <4>3. pass'.begun <= x + posting'  BY <1>1, <2>1, <2>2, <4>1, <4>2
      <4>4. QED BY <4>2, <4>3
    <3>4. waited[Endpoints[pass.at]] <= pass.begun /\ Endpoints[pass.at] \in Webhooks!Ids
      BY <1>8, <2>2, Intervals DEF PassInv
    <3>5. waited'[Endpoints[pass'.at]] <= pass'.begun  BY <1>2, <2>2, <2>3, <3>4
    <3>6. QED BY <1>4, <2>1, <3>3, <3>5 DEF PassInv
  <2>7. WaitInv'
    <3> SUFFICES ASSUME NEW e \in wanted
                 PROVE  /\ Ahead(e)' => waited'[e] <= Limit(e)' + held + pass'.begun
                        /\ ~Ahead(e)' => waited'[e] + pass'.soonest <= Limit(e)' + pass'.begun
      BY <1>6, <2>4 DEF WaitInv
    <3>1. Ahead(e)' <=> Ahead(e)  BY <2>3 DEF Ahead
    <3>2. /\ Ahead(e) => waited[e] <= Limit(e) + held + pass.begun
          /\ ~Ahead(e) => waited[e] + pass.soonest <= Limit(e) + pass.begun
      BY <2>2 DEF WaitInv
    <3>4. waited[e] <= Limit(e) + held + pass.begun => waited[e] + 1 <= Limit(e) + held + (pass.begun + 1)
      BY <1>1, <1>5, <2>2
    <3>5. waited[e] + pass.soonest <= Limit(e) + pass.begun => waited[e] + 1 + pass.soonest <= Limit(e) + (pass.begun + 1)
      BY <1>5, <2>2
    <3>6. QED BY <1>5, <2>3, <3>1, <3>2, <3>4, <3>5
  <2>8. QED BY <2>5, <2>6, <2>7
<1>9. QED BY <1>7, <1>8 DEF Webhooks!Elapse

LEMMA WebhookStep ==
  ASSUME Webhooks!WebhookAssumption, WebhookInv, [Webhooks!Next]_webhookVars
  PROVE  WebhookInv'
<1>1. CASE UNCHANGED webhookVars
  BY <1>1 DEF webhookVars, WebhookInv, WebhookTypes, PassInv, WaitInv, Ahead, Limit
<1>2. CASE Webhooks!Next
  BY <1>2, WebhookPuts, WebhookBegins, WebhookSkips, WebhookWaits, WebhookPosts, WebhookPosted, WebhookEnds,
     WebhookElapses DEF Webhooks!Next
<1>3. QED BY <1>1, <1>2

LEMMA WebhookInTime ==
  ASSUME Webhooks!WebhookAssumption, WebhookInv PROVE Webhooks!PostedInTime
<1> USE DEF WebhookInv
<1> SUFFICES ASSUME NEW e \in wanted
             PROVE  waited[e] <= Limit(e) + held + (IF pass = None THEN 0 ELSE pass.begun)
  BY DEF Webhooks!PostedInTime, Limit
<1>1. e \in Webhooks!Ids /\ waited[e] \in Nat /\ Limit(e) \in Nat /\ held \in Nat
  BY Limits DEF WebhookTypes
<1>2. CASE pass = None
  <2>1. waited[e] + sleep <= Limit(e) + held /\ sleep \in Nat  BY <1>2, Intervals DEF WaitInv, WebhookTypes
  <2>2. QED BY <1>1, <1>2, <2>1
<1>3. CASE pass # None
  <2>1. pass.begun \in Nat /\ pass.soonest \in Nat
    BY <1>3, Intervals, SMTT(30) DEF WebhookTypes, PassTypes
  <2>2. CASE Ahead(e)  BY <1>3, <2>2 DEF WaitInv
  <2>3. CASE ~Ahead(e)
    <3>1. waited[e] + pass.soonest <= Limit(e) + pass.begun  BY <1>3, <2>3 DEF WaitInv
    <3>2. QED BY <1>1, <1>3, <2>1, <3>1
  <2>4. QED BY <2>2, <2>3
<1>4. QED BY <1>2, <1>3

\* ReadingsWebhookService._tick: an endpoint is posted to after its interval, later only by what the
\* posts of the pass before and those of the pass at hand took, for any list of endpoints, intervals
\* and lengths of the posts, however often the list changes.
THEOREM PostsAreInTime ==
  /\ Webhooks!Spec => []Webhooks!PostedInTime
  /\ PartsSpec => []PostedInTime
<1> DEFINE Inv == part = "webhooks" => WebhookInv
<1>1. Webhooks!Init => WebhookInv  BY WebhookInitial, PartsAssumption DEF PartsAssumption
<1>2. WebhookInv /\ [Webhooks!Next]_webhookVars => WebhookInv'  BY WebhookStep, PartsAssumption DEF PartsAssumption
<1>3. WebhookInv => Webhooks!PostedInTime  BY WebhookInTime, PartsAssumption DEF PartsAssumption
<1>4. PartsInit => Inv  BY <1>1 DEF PartsInit
<1>5. Inv /\ [PartsNext]_vars => Inv'  BY <1>2, OnePartMoves
<1>6. Inv => PostedInTime  BY <1>3 DEF PostedInTime
<1> HIDE DEF Inv
<1>7. PartsSpec => []PostedInTime  BY <1>4, <1>5, <1>6, PTL DEF PartsSpec
<1>8. WebhookInv /\ [Webhooks!Next]_(Webhooks!vars) => WebhookInv'  BY <1>2 DEF webhookVars, Webhooks!vars
<1>9. Webhooks!Spec => []Webhooks!PostedInTime  BY <1>1, <1>3, <1>8, PTL DEF Webhooks!Spec
<1>10. QED BY <1>7, <1>9

--------------------------------------------------------------------------------
(* The database file.                                                      *)

\* The statements of the scripts of versions up to v, and the first d of the next one.
StepsTo(v, d) == {s \in Steps : s[1] <= v \/ (s[1] = v + 1 /\ s[2] <= d)}

\* A content in which no migration has begun and not been finished.
Whole(content) == content.made = StepsTo(content.version, 0)

\* While the program runs there is a database, and while it restores, one to put in its place.
Held ==
  /\ phase \notin {"down", "failed", "dead"} => file # Torn
  /\ phase \in {"closed", "truncated"} => restoring # None

\* What is true of the file until a crash or a failing write hits it halfway.
Sound ==
  /\ file # Torn /\ phase \notin {"failed", "dead"}
  /\ backup # None => Whole(backup)
  /\ restoring # None => Whole(restoring)
  /\ phase # "truncated" => file.rows = expected
  /\ phase \in {"serving", "swapped"} => file.version >= release
  /\ phase # "migrating" => Whole(file) /\ done = 0
  /\ phase = "migrating" =>
       /\ file.made = StepsTo(version, done) /\ file.version <= version
       /\ version >= release => done = 0

TypeInv  == TypeOK /\ Held
SoundInv == TypeInv /\ (hit \/ Sound)

----------------------------------------------------------------------------
(* Statements.                                                             *)

LEMMA ReleasesNat ==
  ASSUME StorageAssumption
  PROVE  \A v \in Releases : v \in Nat /\ v >= 1 /\ Scripts[v] \in Nat /\ Scripts[v] >= 1
BY DEF StorageAssumption, Releases

\* A statement is a version and its number in that version's script.
LEMMA StepsPairs ==
  \A s : s \in Steps <=> \E v \in Releases : \E i \in 1..Scripts[v] : s = <<v, i>>
BY DEF Steps

LEMMA StepsNat == \A s \in Steps : s[1] \in Releases /\ s[2] \in 1..Scripts[s[1]] /\ s = <<s[1], s[2]>>
BY StepsPairs

\* One statement more.
LEMMA NextStep ==
  ASSUME StorageAssumption, NEW v \in Nat, NEW d \in Nat, v + 1 \in Releases, d < Scripts[v + 1]
  PROVE  /\ <<v + 1, d + 1>> \in Steps /\ <<v + 1, d + 1>> \notin StepsTo(v, d)
         /\ StepsTo(v, d + 1) = StepsTo(v, d) \union {<<v + 1, d + 1>>}
<1>1. <<v + 1, d + 1>> \in Steps
  <2>1. d + 1 \in 1..Scripts[v + 1] BY ReleasesNat
  <2>2. QED BY <2>1, StepsPairs
<1>2. <<v + 1, d + 1>> \notin StepsTo(v, d) BY DEF StepsTo
<1>3. ASSUME NEW s \in Steps
      PROVE  s \in StepsTo(v, d + 1) <=> s \in StepsTo(v, d) \/ s = <<v + 1, d + 1>>
  BY <1>1, StepsNat, ReleasesNat DEF StepsTo
<1>4. QED BY <1>1, <1>2, <1>3 DEF StepsTo

\* The last statement of a script completes its version.
LEMMA LastStep ==
  ASSUME StorageAssumption, NEW v \in Nat, v + 1 \in Releases
  PROVE  StepsTo(v, Scripts[v + 1]) = StepsTo(v + 1, 0)
<1>1. ASSUME NEW s \in Steps
      PROVE  s \in StepsTo(v, Scripts[v + 1]) <=> s \in StepsTo(v + 1, 0)
  BY StepsNat, ReleasesNat DEF StepsTo
<1>2. QED BY <1>1 DEF StepsTo

\* If no statement is of a version above u, then nothing was done beyond u.
LEMMA NotHalfway ==
  ASSUME StorageAssumption, NEW u \in {0} \union Releases, NEW v \in {0} \union Releases,
         NEW d \in Nat, u <= v,
         v + 1 \in Releases \/ d = 0,
         \A s \in StepsTo(v, d) : s[1] <= u
  PROVE  StepsTo(v, d) = StepsTo(u, 0)
<1>1. u = v
  <2>1. CASE v = 0 BY <2>1, ReleasesNat
  <2>2. CASE v \in Releases
    <3>1. <<v, 1>> \in Steps BY <2>2, ReleasesNat, StepsPairs
    <3>2. <<v, 1>> \in StepsTo(v, d) BY <2>2, <3>1, ReleasesNat DEF StepsTo
    <3>3. QED BY <3>2, <2>2, ReleasesNat
  <2>3. QED BY <2>1, <2>2
<1>2. ASSUME NEW s \in Steps PROVE s \in StepsTo(v, d) <=> s \in StepsTo(u, 0)
  BY <1>1, StepsNat, ReleasesNat DEF StepsTo
<1>3. QED BY <1>2 DEF StepsTo

----------------------------------------------------------------------------
(* The invariant.                                                          *)

LEMMA InitSound == ASSUME StorageAssumption, Init PROVE SoundInv
<1>1. StepsTo(0, 0) = {} BY ReleasesNat, StepsNat DEF StepsTo
<1>2. Fresh \in Contents /\ Whole(Fresh) BY <1>1 DEF Fresh, Contents, Whole
<1>3. file # Torn BY <1>2 DEF Init, StorageAssumption
<1>4. TypeInv
  <2>1. crashes \in 0..MaxCrashes BY DEF Init, StorageAssumption
  <2>2. TypeOK BY <1>2, <2>1 DEF Init, TypeOK
  <2>3. Held BY <1>3 DEF Init, Held
  <2>4. QED BY <2>2, <2>3 DEF TypeInv
<1>5. Sound BY <1>2, <1>3 DEF Init, Sound, StorageAssumption, Fresh
<1>6. QED BY <1>4, <1>5 DEF SoundInv

LEMMA TypeStep == ASSUME StorageAssumption, TypeInv, [Next]_storageVars PROVE TypeInv'
<1> USE DEF TypeInv, TypeOK, Held
<1>0. Fresh \in Contents /\ Fresh # Torn BY DEF Fresh, Contents, StorageAssumption
<1>1. CASE Boot
  <2>1. file # Torn => file.version \in {0} \union Releases BY DEF Contents
  <2>2. QED BY <1>1, <2>1 DEF Boot
<1>2. CASE Statement
  <2>1. file \in Contents /\ file # Torn BY <1>2 DEF Statement, Unapplied
  <2>2. Current \in Steps
    <3>1. version + 1 \in Releases /\ done + 1 \in 1..Scripts[version + 1]
      BY SMTT(30), <1>2, ReleasesNat DEF Statement, Unapplied, Releases, StorageAssumption
    <3>2. QED BY <3>1, StepsPairs DEF Current
  <2>3. /\ [file EXCEPT !.version = version] \in Contents
        /\ [file EXCEPT !.version = version, !.made = @ \union {Current}] \in Contents
    BY <2>1, <2>2 DEF Contents
  <2>4. file' \in Contents /\ file' # Torn BY <1>2, <2>3 DEF Statement, StorageAssumption
  <2>5. phase' \in {"migrating", "failed", "dead"} /\ done' \in Nat
    BY <1>2 DEF Statement, Abort, Unapplied
  <2>6. QED BY <1>2, <2>4, <2>5 DEF Statement
<1>3. CASE ScriptDone
  <2>1. version + 1 \in Releases
    BY <1>3, ReleasesNat DEF ScriptDone, Unapplied, Releases, StorageAssumption
  <2>2. QED BY <1>3, <2>1 DEF ScriptDone, Unapplied
<1>4. CASE Commit
  <2>1. file \in Contents BY <1>4 DEF Commit
  <2>2. file' \in Contents /\ file' # Torn BY <1>4, <2>1 DEF Commit, Contents, StorageAssumption
  <2>3. phase' \in {"serving", "swapped"} BY <1>4 DEF Commit, Migrated
  <2>4. QED BY <1>4, <2>2, <2>3 DEF Commit
<1>5. CASE Write
  <2>1. file \in Contents BY <1>5 DEF Write
  <2>2. file' \in Contents /\ file' # Torn /\ expected' \subseteq Rows
    BY <1>5, <2>1 DEF Write, Contents, StorageAssumption
  <2>3. QED BY <1>5, <2>2 DEF Write
<1>6. CASE Backup BY <1>6 DEF Backup
<1>7. CASE StartRestore BY <1>7 DEF StartRestore
<1>8. CASE Truncate BY <1>0, <1>8 DEF Truncate
<1>9. CASE Replace
  <2>1. restoring \in Contents BY <1>9 DEF Replace
  <2>2. restoring # Torn /\ restoring.rows \subseteq Rows /\ restoring.version \in {0} \union Releases
    BY <2>1 DEF Contents, StorageAssumption
  <2>3. QED BY <1>9, <2>1, <2>2 DEF Replace
<1>10. CASE ReplaceFails BY <1>0, <1>10 DEF ReplaceFails
<1>11. CASE Assign BY <1>11 DEF Assign
<1>12. CASE Crash
  <2>1. file' \in Contents \union {Torn} BY <1>0, <1>12 DEF Crash
  <2>2. crashes' \in 0..MaxCrashes BY <1>12 DEF Crash, StorageAssumption
  <2>3. hit' \in BOOLEAN BY <1>12 DEF Crash
  <2>4. QED BY <1>12, <2>1, <2>2, <2>3 DEF Crash
<1>13. CASE UNCHANGED storageVars BY <1>13 DEF storageVars
<1>14. QED BY <1>1, <1>2, <1>3, <1>4, <1>5, <1>6, <1>7, <1>8, <1>9, <1>10, <1>11, <1>12, <1>13 DEF Next

LEMMA SoundStep == ASSUME StorageAssumption, SoundInv, [Next]_storageVars PROVE SoundInv'
<1>1. TypeInv' BY TypeStep DEF SoundInv
<1>2. CASE hit
  <2>1. hit' BY <1>2 DEF Next, storageVars, Boot, Statement, ScriptDone, Commit, Write, Backup,
                      StartRestore, Truncate, Replace, ReplaceFails, Assign, Crash
  <2>2. QED BY <1>1, <2>1 DEF SoundInv
<1>3. CASE ~hit
  <2> SUFFICES hit' \/ Sound' BY <1>1 DEF SoundInv
  <2> USE <1>3 DEF Sound
  <2>0. Sound /\ TypeInv BY DEF SoundInv
  <2>a. file \in Contents /\ file # Torn BY <2>0 DEF TypeInv, TypeOK
  <2>b. version \in {0} \union Releases /\ done \in Nat /\ release \in Releases
    BY <2>0 DEF TypeInv, TypeOK
  <2>1. CASE Boot
    <3>1. file.made = StepsTo(file.version, 0) /\ done = 0 BY <2>0, <2>1 DEF Boot, Whole
    <3>2. file.version \in Nat BY <2>a, ReleasesNat DEF Contents
    <3>3. QED BY <2>0, <2>a, <2>1, <3>1, <3>2 DEF Boot, Whole
  <2>2. CASE Statement
    <3>1. /\ version \in Nat /\ version + 1 \in Releases /\ version < release
          /\ done < Scripts[version + 1]
      BY <2>2, <2>b, ReleasesNat DEF Statement, Unapplied, Releases, StorageAssumption
    <3>2. file.made = StepsTo(version, done) /\ phase = "migrating"
      BY <2>0, <2>2 DEF Statement, Unapplied
    <3>3. Current \notin file.made BY <2>b, <3>1, <3>2, NextStep DEF Current
    <3>4. file' = [file EXCEPT !.version = version, !.made = @ \union {Current}] /\ done' = done + 1
      BY <2>2, <3>3 DEF Statement
    <3>5. file'.version = version /\ file'.made = file.made \union {Current} /\ file'.rows = file.rows
      BY <2>a, <3>4 DEF Contents
    <3>6. file'.made = StepsTo(version, done + 1) BY <2>b, <3>1, <3>2, <3>5, NextStep DEF Current
    <3>7. file' # Torn BY <1>1, <2>2, <3>2, <3>3 DEF Statement, TypeInv, Held
    <3>8. phase' = "migrating" /\ UNCHANGED <<release, version, restoring, backup, expected, hit>>
      BY <2>2, <3>2, <3>3 DEF Statement
    <3>9. QED BY <2>0, <2>b, <3>1, <3>2, <3>4, <3>5, <3>6, <3>7, <3>8, ReleasesNat DEF Whole
  <2>3. CASE ScriptDone
    <3>1. version \in Nat /\ version + 1 \in Releases /\ done = Scripts[version + 1]
      BY <2>3, <2>b, ReleasesNat DEF ScriptDone, Unapplied, Releases, StorageAssumption
    <3>2. file.made = StepsTo(version + 1, 0) BY <2>0, <2>3, <3>1, LastStep DEF ScriptDone, Unapplied
    <3>3. file.version \in Nat BY <2>a, ReleasesNat DEF Contents
    <3>4. QED BY <2>0, <2>3, <3>1, <3>2, <3>3 DEF ScriptDone, Unapplied, Whole
  <2>4. CASE Commit
    <3>1. file'.version = version /\ file'.made = file.made /\ file'.rows = file.rows
      BY <2>4, <2>a DEF Commit, Contents
    <3>2. done = 0 /\ file'.made = StepsTo(version, 0) BY <2>0, <2>4, <3>1 DEF Commit
    <3>3. phase' \in {"serving", "swapped"} BY <2>4 DEF Commit, Migrated
    <3>4. file' # Torn BY <1>1, <3>3 DEF TypeInv, Held
    <3>5. QED BY <2>0, <2>4, <3>1, <3>2, <3>3, <3>4 DEF Commit, Whole
  <2>5. CASE Write
    <3>1. PICK r \in Rows \ expected :
            file' = [file EXCEPT !.rows = @ \union {r}] /\ expected' = expected \union {r}
      BY <2>5 DEF Write
    <3>2. file'.version = file.version /\ file'.made = file.made /\ file'.rows = file.rows \union {r}
      BY <3>1, <2>a DEF Contents
    <3>3. file' # Torn BY <1>1, <2>5 DEF Write, TypeInv, Held
    <3>4. QED BY <2>0, <2>5, <3>1, <3>2, <3>3 DEF Write, Whole
  <2>6. CASE Backup BY <2>0, <2>6 DEF Backup, Whole
  <2>7. CASE StartRestore BY <2>0, <2>7 DEF StartRestore, Whole
  <2>8. CASE Truncate
    <3>1. StepsTo(0, 0) = {} BY ReleasesNat, StepsNat DEF StepsTo
    <3>2. file' # Torn BY <1>1, <2>8 DEF Truncate, TypeInv, Held
    <3>3. QED BY <2>0, <2>8, <3>1, <3>2 DEF Truncate, Whole, Fresh
  <2>9. CASE Replace
    <3>1. restoring \in Contents /\ Whole(restoring) /\ done = 0
      BY <2>0, <2>9 DEF Replace, TypeInv, TypeOK, Held
    <3>2. restoring.version \in Nat BY <3>1, ReleasesNat DEF Contents
    <3>3. file' # Torn BY <1>1, <2>9 DEF Replace, TypeInv, Held
    <3>4. QED BY <2>0, <2>9, <3>1, <3>2, <3>3 DEF Replace, Whole
  <2>10. CASE ReplaceFails BY <2>10 DEF ReplaceFails
  <2>11. CASE Assign BY <2>0, <2>11 DEF Assign, Whole
  <2>12. CASE Crash
    <3> SUFFICES ASSUME ~hit' PROVE Sound' OBVIOUS
    <3>1. ~Halfway /\ file' = file /\ phase \notin {"down", "failed", "truncated"}
      BY <2>12, <2>a DEF Crash, Halfway
    <3>2. Whole(file)
      <4>1. CASE phase # "migrating" BY <4>1, <2>0
      <4>2. CASE phase = "migrating"
        <5>1. file.made = StepsTo(version, done) /\ file.version <= version BY <2>0, <4>2
        <5>2. file.version \in {0} \union Releases BY <2>a DEF Contents
        <5>3. \A s \in StepsTo(version, done) : s[1] <= file.version
          BY <3>1, <5>1, <5>2, StepsNat, ReleasesNat DEF Halfway, StepsTo
        <5>4. version + 1 \in Releases \/ done = 0
          BY <2>0, <2>b, <4>2, ReleasesNat DEF Releases, StorageAssumption
        <5>5. QED BY <2>b, <5>1, <5>2, <5>3, <5>4, NotHalfway DEF Whole
      <4>3. QED BY <4>1, <4>2
    <3>3. QED BY <2>0, <2>12, <3>1, <3>2 DEF Crash, Whole
  <2>13. CASE UNCHANGED storageVars BY <2>0, <2>13 DEF storageVars, Whole
  <2>14. QED BY <2>1, <2>2, <2>3, <2>4, <2>5, <2>6, <2>7, <2>8, <2>9, <2>10, <2>11, <2>12, <2>13 DEF Next
<1>4. QED BY <1>2, <1>3

\* db.py and migrations.py: the program starts again after it has ended anywhere outside the two
\* windows, with all rows that were acknowledged or restored, whatever releases follow each other.
THEOREM AlwaysSurvives ==
  /\ Spec => []SurvivesRestart
  /\ PartsSpec => []SurvivesRestart
<1>1. Init => SoundInv  BY InitSound, PartsAssumption DEF PartsAssumption
<1>2. SoundInv /\ [Next]_storageVars => SoundInv'  BY SoundStep, PartsAssumption DEF PartsAssumption
<1>3. SoundInv => SurvivesRestart  BY DEF SoundInv, Sound, SurvivesRestart
<1>4. PartsInit => SoundInv  BY <1>1 DEF PartsInit
<1>5. SoundInv /\ [PartsNext]_vars => SoundInv'  BY <1>2, OnePartMoves
<1>6. Spec => []SurvivesRestart  BY <1>1, <1>2, <1>3, PTL DEF Spec
<1>7. PartsSpec => []SurvivesRestart  BY <1>3, <1>4, <1>5, PTL DEF PartsSpec
<1>8. QED BY <1>6, <1>7

--------------------------------------------------------------------------------
(* The dashboards.                                                         *)

\* A table keeps what was edited, and beside that holds seeds of builtins only.
Kept(table, made) ==
  \A id \in Pages :
    IF made[id] # None THEN table[id] # None /\ table[id].layout = made[id]
    ELSE table[id] = None \/ (table[id] \in Boards!Seeds /\ Boards!IsBuiltin(id))

\* A start only seeds builtins.
SeedsBuiltins == \A i \in DOMAIN unseeded : Boards!IsBuiltin(unseeded[i])

\* Not only the table but the backup is in order.
KeptInv ==
  /\ Boards!TypeOK
  /\ SeedsBuiltins
  /\ Kept(shown, edited)
  /\ saved # None => Kept(saved.rows, saved.edited)

----------------------------------------------------------------------------
\* The empty sequence.
LEMMA EmptySequence == ASSUME NEW S PROVE <<>> \in Seq(S) /\ DOMAIN <<>> = {}
OBVIOUS

\* To mark a builtin's layout as one changes nothing.
LEMMA MarkedAgain ==
  ASSUME NEW layout
  PROVE  Boards!AsBuiltin([layout |-> layout, builtin |-> TRUE]) = [layout |-> layout, builtin |-> TRUE]
<1> DEFINE row == [layout |-> layout, builtin |-> TRUE]
<1>1. Boards!AsBuiltin(row) \in [layout : {layout}, builtin : {TRUE}] BY DEF Boards!AsBuiltin
<1>2. ASSUME NEW other \in [layout : {layout}, builtin : {TRUE}] PROVE other = row
  BY Zenon
<1>3. QED BY <1>1, <1>2

\* The builtins of a release are ids.
LEMMA BuiltinsTyped ==
  ASSUME Boards!DashboardAssumption
  PROVE  /\ 1 \in Boards!Releases /\ Boards!Releases \subseteq Nat
         /\ \A r \in Boards!Releases : Builtins[r] \in Seq(Pages) /\ Boards!SeedOf(r) \in Boards!Seeds /\ Boards!SeedOf(r) # None
BY DEF Boards!DashboardAssumption, Boards!Releases, Boards!Seeds

LEMMA InitKept == ASSUME Boards!DashboardAssumption, Boards!Init PROVE KeptInv
<1>1. Boards!TypeOK
  <2>1. 0 \in 0..MaxEdits /\ 0 \in 0..MaxStarts BY DEF Boards!DashboardAssumption
  <2>2. shown \in Boards!Contents /\ edited \in Boards!Edits BY DEF Boards!Init, Boards!Contents, Boards!Edits
  <2>3. QED BY <2>1, <2>2, BuiltinsTyped, EmptySequence DEF Boards!Init, Boards!TypeOK
<1>2. SeedsBuiltins BY DEF Boards!Init, SeedsBuiltins
<1>3. Kept(shown, edited) BY DEF Boards!Init, Kept
<1>4. QED BY <1>1, <1>2, <1>3 DEF Boards!Init, KeptInv

\* What was a builtin stays one.
LEMMA StartKept == ASSUME Boards!DashboardAssumption, KeptInv, Boards!Start PROVE KeptInv'
<1> USE DEF KeptInv, Boards!TypeOK
<1>1. program' \in Boards!Releases /\ program <= program' BY BuiltinsTyped DEF Boards!Start
<1>2. \A id : Boards!IsBuiltin(id) => Boards!IsBuiltin(id)' BY <1>1 DEF Boards!IsBuiltin, Boards!DashboardAssumption
<1>3. unseeded' \in Seq(Pages) /\ SeedsBuiltins'
  BY <1>1, BuiltinsTyped DEF Boards!Start, SeedsBuiltins, Boards!IsBuiltin, Boards!ToSet
<1>4. Boards!TypeOK' BY <1>1, <1>3 DEF Boards!Start, Boards!DashboardAssumption
<1>5. Kept(shown, edited)' BY <1>2 DEF Boards!Start, Kept
<1>6. saved' # None => Kept(saved.rows, saved.edited)' BY <1>2 DEF Boards!Start, Kept
<1>7. QED BY <1>3, <1>4, <1>5, <1>6

\* A seed is only put where there is nothing.
LEMMA SeedKept == ASSUME Boards!DashboardAssumption, KeptInv, Boards!SeedBuiltin PROVE KeptInv'
<1> USE DEF KeptInv, Boards!TypeOK
<1>1. Head(unseeded) \in Pages /\ Boards!IsBuiltin(Head(unseeded)) BY DEF Boards!SeedBuiltin, SeedsBuiltins
<1>2. unseeded' \in Seq(Pages) /\ SeedsBuiltins' BY DEF Boards!SeedBuiltin, SeedsBuiltins, Boards!IsBuiltin
<1>3. shown' \in Boards!Contents BY <1>1, BuiltinsTyped DEF Boards!SeedBuiltin, Boards!Contents
<1>4. Boards!TypeOK' BY <1>2, <1>3 DEF Boards!SeedBuiltin
<1>5. Kept(shown, edited)' BY <1>1, BuiltinsTyped DEF Boards!SeedBuiltin, Kept, Boards!Contents, Boards!IsBuiltin
<1>6. saved' # None => Kept(saved.rows, saved.edited)' BY DEF Boards!SeedBuiltin, Kept, Boards!IsBuiltin
<1>7. QED BY <1>2, <1>4, <1>5, <1>6

LEMMA PutKept ==
  ASSUME Boards!DashboardAssumption, KeptInv, NEW id \in Pages, NEW layout \in Layouts, Boards!Put(id, layout)
  PROVE  KeptInv'
<1> USE DEF KeptInv, Boards!TypeOK
<1>1. [layout |-> layout, builtin |-> Boards!IsBuiltin(id)] \in Boards!Made BY DEF Boards!Made, Boards!IsBuiltin
<1>2. Boards!TypeOK'
  <2>1. shown' \in Boards!Contents BY <1>1 DEF Boards!Put, Boards!Contents
  <2>2. edited' \in Boards!Edits BY DEF Boards!Put, Boards!Edits
  <2>3. edits' \in 0..MaxEdits BY DEF Boards!Put, Boards!Edit, Boards!DashboardAssumption
  <2>4. QED BY <2>1, <2>2, <2>3 DEF Boards!Put
<1>3. Kept(shown, edited)' BY <1>1 DEF Boards!Put, Kept, Boards!Contents, Boards!Edits, Boards!IsBuiltin, Boards!DashboardAssumption
<1>4. saved' # None => Kept(saved.rows, saved.edited)' BY DEF Boards!Put, Kept, Boards!IsBuiltin
<1>5. QED BY <1>2, <1>3, <1>4 DEF Boards!Put, SeedsBuiltins, Boards!IsBuiltin

LEMMA DeleteKept == ASSUME Boards!DashboardAssumption, KeptInv, NEW id \in Pages, Boards!Delete(id) PROVE KeptInv'
<1> USE DEF KeptInv, Boards!TypeOK
<1>1. Boards!TypeOK'
  <2>1. shown' \in Boards!Contents BY BuiltinsTyped DEF Boards!Delete, Boards!Contents
  <2>2. edited' \in Boards!Edits BY DEF Boards!Delete, Boards!Edits
  <2>3. edits' \in 0..MaxEdits BY DEF Boards!Delete, Boards!Edit, Boards!DashboardAssumption
  <2>4. QED BY <2>1, <2>2, <2>3 DEF Boards!Delete
<1>2. Kept(shown, edited)' BY BuiltinsTyped DEF Boards!Delete, Kept, Boards!Contents, Boards!Edits, Boards!IsBuiltin
<1>3. saved' # None => Kept(saved.rows, saved.edited)' BY DEF Boards!Delete, Kept, Boards!IsBuiltin
<1>4. QED BY <1>1, <1>2, <1>3 DEF Boards!Delete, SeedsBuiltins, Boards!IsBuiltin

LEMMA StepKept == ASSUME Boards!DashboardAssumption, KeptInv, [Boards!Next]_boardVars PROVE KeptInv'
<1> USE DEF KeptInv, Boards!TypeOK
<1>1. CASE Boards!Start       BY <1>1, StartKept
<1>2. CASE Boards!SeedBuiltin BY <1>2, SeedKept
<1>3. CASE Boards!Stop
  <2>1. unseeded' \in Seq(Pages) /\ SeedsBuiltins' BY <1>3, EmptySequence DEF Boards!Stop, SeedsBuiltins
  <2>2. Boards!TypeOK' BY <1>3, <2>1 DEF Boards!Stop
  <2>3. QED BY <1>3, <2>1, <2>2 DEF Boards!Stop, Kept, Boards!IsBuiltin
<1>4. CASE Boards!Backup      BY <1>4 DEF Boards!Backup, Kept, SeedsBuiltins, Boards!IsBuiltin
<1>5. CASE Boards!Restore     BY <1>5 DEF Boards!Restore, Boards!Edit, Kept, SeedsBuiltins, Boards!IsBuiltin, Boards!DashboardAssumption
<1>6. ASSUME NEW id \in Pages, Boards!Delete(id) PROVE KeptInv'
  BY <1>6, DeleteKept
<1>7. ASSUME NEW id \in Pages, NEW layout \in Layouts, Boards!Put(id, layout) PROVE KeptInv'
  BY <1>7, PutKept
<1>8. CASE UNCHANGED boardVars BY <1>8 DEF boardVars, Kept, SeedsBuiltins, Boards!IsBuiltin
<1>9. QED BY <1>1, <1>2, <1>3, <1>4, <1>5, <1>6, <1>7, <1>8 DEF Boards!Next

LEMMA KeptShown == ASSUME Boards!DashboardAssumption, KeptInv PROVE Boards!EditsKeptAndBuiltinsShown
<1> USE DEF KeptInv, Boards!TypeOK
<1>0. ASSUME NEW row \in Boards!Seeds PROVE row.builtin /\ Boards!AsBuiltin(row) = row /\ row # None
  <2>1. PICK r \in Boards!Releases : row = Boards!SeedOf(r) BY DEF Boards!Seeds
  <2>2. row = [layout |-> <<"seed", r>>, builtin |-> TRUE] BY <2>1 DEF Boards!SeedOf
  <2>3. Boards!AsBuiltin(row) = row BY <2>2, MarkedAgain
  <2>4. QED BY <2>2, <2>3 DEF Boards!DashboardAssumption
<1>a. ASSUME NEW row \in Boards!Made
      PROVE  /\ Boards!AsBuiltin(row).builtin /\ Boards!AsBuiltin(row).layout = row.layout
             /\ Boards!AsBuiltin(row) # None
  BY DEF Boards!AsBuiltin, Boards!Made, Boards!DashboardAssumption
<1>1. ASSUME NEW i \in DOMAIN Boards!ListedBuiltins
      PROVE  Boards!ListedBuiltins[i] = Boards!Shown(Builtins[program][i]) /\ Boards!ListedBuiltins[i].builtin
  <2> DEFINE id == Builtins[program][i]
  <2>1. i \in DOMAIN Builtins[program] BY DEF Boards!ListedBuiltins
  <2>2. id \in Pages /\ Boards!IsBuiltin(id) BY <2>1, BuiltinsTyped DEF Boards!IsBuiltin, Boards!ToSet
  <2>3. Boards!ListedBuiltins[i] = IF shown[id] = None THEN Boards!SeedOf(program) ELSE Boards!AsBuiltin(shown[id])
    BY <2>1 DEF Boards!ListedBuiltins
  <2>4. Boards!ListedBuiltins[i] = Boards!Shown(id) BY <2>2, <2>3 DEF Boards!Shown
  <2>5. shown[id] \in Boards!Made \union Boards!Seeds \union {None} BY <2>2 DEF Boards!Contents
  <2>6. QED BY <1>0, <1>a, <2>3, <2>4, <2>5, BuiltinsTyped
<1>2. ASSUME NEW id \in Pages, ~Boards!IsBuiltin(id) PROVE Boards!Shown(id) = shown[id]
  BY <1>2 DEF Boards!Shown
<1>3. Boards!ListedUsers = {id \in Pages : ~Boards!IsBuiltin(id) /\ Boards!Shown(id) # None}
  BY <1>2 DEF Boards!ListedUsers
<1>4. ASSUME NEW id \in Pages
      PROVE  IF edited[id] # None THEN Boards!Shown(id) # None /\ Boards!Shown(id).layout = edited[id]
             ELSE IF Boards!IsBuiltin(id) THEN Boards!Shown(id) \in Boards!Seeds ELSE Boards!Shown(id) = None
  <2>1. CASE ~Boards!IsBuiltin(id) BY <1>2, <2>1 DEF Kept
  <2>2. CASE Boards!IsBuiltin(id) /\ shown[id] = None
    BY <2>2, BuiltinsTyped DEF Kept, Boards!Shown
  <2>3. CASE Boards!IsBuiltin(id) /\ shown[id] # None
    <3>1. Boards!Shown(id) = Boards!AsBuiltin(shown[id]) BY <2>3 DEF Boards!Shown
    <3>2. CASE edited[id] = None BY <1>0, <2>3, <3>1, <3>2 DEF Kept
    <3>3. CASE edited[id] # None
      <4>1. shown[id].layout = edited[id] BY <3>3 DEF Kept
      <4>2. shown[id] \in Boards!Made \union Boards!Seeds BY <2>3 DEF Boards!Contents
      <4>3. Boards!Shown(id).layout = edited[id] BY <1>0, <1>a, <3>1, <4>1, <4>2
      <4>4. Boards!Shown(id) # None BY <1>0, <1>a, <3>1, <4>2
      <4>5. QED BY <3>3, <4>3, <4>4
    <3>4. QED BY <3>2, <3>3
  <2>4. QED BY <2>1, <2>2, <2>3
<1>5. QED BY <1>1, <1>3, <1>4 DEF Boards!EditsKeptAndBuiltinsShown

\* dashboards.py: whatever was upgraded, restored, reset or cut off, every builtin is shown, the list
\* agrees with the single dashboards, and a user's edit is shown until it is undone.
THEOREM DashboardsKept ==
  /\ Boards!Spec => []Boards!EditsKeptAndBuiltinsShown
  /\ PartsSpec => []EditsKeptAndBuiltinsShown
<1> DEFINE Inv == part = "dashboards" => KeptInv
<1>1. Boards!Init => KeptInv  BY InitKept, PartsAssumption DEF PartsAssumption
<1>2. KeptInv /\ [Boards!Next]_boardVars => KeptInv'  BY StepKept, PartsAssumption DEF PartsAssumption
<1>3. KeptInv => Boards!EditsKeptAndBuiltinsShown  BY KeptShown, PartsAssumption DEF PartsAssumption
<1>4. PartsInit => Inv  BY <1>1 DEF PartsInit
<1>5. Inv /\ [PartsNext]_vars => Inv'  BY <1>2, OnePartMoves
<1>6. Inv => EditsKeptAndBuiltinsShown  BY <1>3 DEF EditsKeptAndBuiltinsShown
<1> HIDE DEF Inv
<1>7. PartsSpec => []EditsKeptAndBuiltinsShown  BY <1>4, <1>5, <1>6, PTL DEF PartsSpec
<1>8. KeptInv /\ [Boards!Next]_(Boards!dashboardVars) => KeptInv'  BY <1>2 DEF boardVars, Boards!dashboardVars
<1>9. Boards!Spec => []Boards!EditsKeptAndBuiltinsShown  BY <1>1, <1>3, <1>8, PTL DEF Boards!Spec
<1>10. QED BY <1>7, <1>9

--------------------------------------------------------------------------------
(* The inverter's time.                                                    *)

LEMMA DivMod ==
  ASSUME NEW w \in Nat \ {0}, NEW q \in Int, NEW r \in 0..(w - 1)
  PROVE  (w * q + r) \div w = q /\ (w * q + r) % w = r
BY SMT

Number(a, b, c) == a * (DigitBase * DigitBase) + b * DigitBase + c

LEMMA NumberDigits ==
  ASSUME Clock!ClockAssumption, NEW a \in 0..(DigitBase - 1), NEW b \in 0..(DigitBase - 1), NEW c \in 0..(DigitBase - 1)
  PROVE  /\ Number(a, b, c) \in 0..(Clock!Limit - 1)
         /\ Clock!Digit(Number(a, b, c), 1) = a
         /\ Clock!Digit(Number(a, b, c), 2) = b
         /\ Clock!Digit(Number(a, b, c), 3) = c
<1> DEFINE B == DigitBase
           n == Number(a, b, c)
<1>0. B \in Nat \ {0} /\ B > 1  BY DEF Clock!ClockAssumption
<1>1. B * B \in Nat \ {0} /\ Clock!Limit = (B * B) * B /\ Clock!Limit \in Nat  BY <1>0 DEF Clock!Limit
<1>2. a * B + b \in Int /\ n = B * (a * B + b) + c /\ n \in Int  BY <1>0 DEF Number
<1>3. n \div B = a * B + b /\ n % B = c  BY <1>0, <1>2, DivMod
<1>4. b * B + c \in 0..(B * B - 1)
  <2>1. B * b <= B * (B - 1) /\ B * (B - 1) = B * B - B /\ B * b = b * B /\ b * B \in Nat
    BY <1>0, ProductMonotone
  <2>2. QED BY <1>0, <1>1, <2>1
<1>5. n = (B * B) * a + (b * B + c)  BY <1>0 DEF Number
<1>6. n \div (B * B) = a  BY <1>1, <1>4, <1>5, DivMod
<1>7. (a * B + b) % B = b  
  <2>1. a * B + b = B * a + b BY <1>0
  <2>2. QED BY <1>0, <2>1, DivMod
<1>8. a % B = a
  <2>1. a = B * 0 + a  BY <1>0
  <2>2. QED BY <1>0, <2>1, DivMod
<1>9. n \div 1 = n  
  <2>1. n = 1 * n + 0 BY <1>2
  <2>2. QED BY <1>2, <2>1, DivMod
<1>10. n \in 0..(Clock!Limit - 1)
  <2>1. (B * B) * a <= (B * B) * (B - 1) /\ (B * B) * (B - 1) = (B * B) * B - B * B
    BY <1>0, <1>1, ProductMonotone
  <2>2. (B * B) * a \in Nat /\ B * B \in Nat /\ (B * B) * B \in Nat  BY <1>0
  <2>3. QED BY <1>1, <1>4, <1>5, <2>1, <2>2
<1>11. QED BY <1>3, <1>6, <1>7, <1>8, <1>9, <1>10 DEF Clock!Digit, Clock!Weight

LEMMA EveryNumber ==
  ASSUME Clock!ClockAssumption, NEW t \in 0..(Clock!Limit - 1)
  PROVE  \E a, b, c \in 0..(DigitBase - 1) : t = Number(a, b, c)
<1> DEFINE B == DigitBase
           q == t \div B
<1>0. B \in Nat \ {0} /\ B > 1 /\ t \in Nat /\ t < (B * B) * B
  BY DEF Clock!ClockAssumption, Clock!Limit
<1>1. q \in Nat /\ t % B \in 0..(B - 1) /\ t = B * q + (t % B)  BY <1>0, Quotient
<1>2. q \div B \in Nat /\ q % B \in 0..(B - 1) /\ q = B * (q \div B) + (q % B)
  BY <1>0, <1>1, Quotient
<1> DEFINE a == q \div B
           b == q % B
           c == t % B
<1> HIDE DEF a, b, c, q
<1>3. a \in Nat /\ b \in 0..(B - 1) /\ c \in 0..(B - 1) /\ t = B * q + c /\ q = B * a + b
  BY <1>1, <1>2 DEF a, b, c, q
<1>4. t = B * (B * a + b) + c  BY <1>3
<1>5. B * (B * a + b) = (B * B) * a + b * B  BY <1>0, <1>3
<1>6. a <= B - 1
  <2>1. SUFFICES ASSUME a >= B PROVE FALSE  BY <1>0, <1>3
  <2>2. (B * B) * B <= (B * B) * a  BY <1>0, <1>3, <2>1, ProductMonotone
  <2>3. b * B \in Nat /\ (B * B) * B \in Nat /\ (B * B) * a \in Nat  BY <1>0, <1>3
  <2>4. QED BY <1>0, <1>3, <1>4, <1>5, <2>2, <2>3
<1>7. (B * B) * a = a * (B * B)  BY <1>0, <1>3
<1>8. t = Number(a, b, c)  BY <1>4, <1>5, <1>7 DEF Number
<1>9. QED BY <1>0, <1>3, <1>6, <1>8

\* A register takes its digit, and the others keep theirs.
LEMMA WithDigitDigits ==
  ASSUME Clock!ClockAssumption, NEW t \in 0..(Clock!Limit - 1), NEW from \in 0..(Clock!Limit - 1),
         NEW r \in Clock!Registers
  PROVE  /\ Clock!WithDigit(t, r, from) \in 0..(Clock!Limit - 1)
         /\ Clock!Digit(Clock!WithDigit(t, r, from), r) = Clock!Digit(from, r)
         /\ \A s \in Clock!Registers \ {r} :
              Clock!Digit(Clock!WithDigit(t, r, from), s) = Clock!Digit(t, s)
<1> DEFINE B == DigitBase
           D == 0..(DigitBase - 1)
<1>0. B \in Nat  BY DEF Clock!ClockAssumption
<1>1. PICK a \in D, b \in D, c \in D : t = Number(a, b, c)  BY EveryNumber
<1>2. PICK x \in D, y \in D, z \in D : from = Number(x, y, z)  BY EveryNumber
<1>3. /\ Clock!Digit(t, 1) = a /\ Clock!Digit(t, 2) = b /\ Clock!Digit(t, 3) = c
      /\ Clock!Digit(from, 1) = x /\ Clock!Digit(from, 2) = y /\ Clock!Digit(from, 3) = z
  BY <1>1, <1>2, NumberDigits
<1>4. CASE r = 1
  <2>1. Clock!WithDigit(t, r, from) = Number(a, b, c) + (x - a) * (B * B)
    BY <1>1, <1>3, <1>4 DEF Clock!WithDigit, Clock!Weight
  <2>2. (x - a) * (B * B) = x * (B * B) - a * (B * B)  BY <1>0
  <2>3. x * (B * B) \in Int /\ a * (B * B) \in Int /\ b * B \in Int  BY <1>0
  <2>4. Clock!WithDigit(t, r, from) = Number(x, b, c)  BY <2>1, <2>2, <2>3 DEF Number
  <2>5. QED BY <1>3, <1>4, <2>4, NumberDigits DEF Clock!Registers
<1>5. CASE r = 2
  <2>1. Clock!WithDigit(t, r, from) = Number(a, b, c) + (y - b) * B
    BY <1>1, <1>3, <1>5 DEF Clock!WithDigit, Clock!Weight
  <2>2. (y - b) * B = y * B - b * B  BY <1>0
  <2>3. y * B \in Int /\ a * (B * B) \in Int /\ b * B \in Int  BY <1>0
  <2>4. Clock!WithDigit(t, r, from) = Number(a, y, c)  BY <2>1, <2>2, <2>3 DEF Number
  <2>5. QED BY <1>3, <1>5, <2>4, NumberDigits DEF Clock!Registers
<1>6. CASE r = 3
  <2>1. Clock!WithDigit(t, r, from) = Number(a, b, c) + (z - c) * 1
    BY <1>1, <1>3, <1>6 DEF Clock!WithDigit, Clock!Weight
  <2>3. a * (B * B) \in Int /\ b * B \in Int  BY <1>0
  <2>4. Clock!WithDigit(t, r, from) = Number(a, b, z)  BY <2>1, <2>3 DEF Number
  <2>5. QED BY <1>3, <1>6, <2>4, NumberDigits DEF Clock!Registers
<1>7. QED BY <1>4, <1>5, <1>6 DEF Clock!Registers

LEMMA SameDigits ==
  ASSUME Clock!ClockAssumption, NEW t \in 0..(Clock!Limit - 1), NEW u \in 0..(Clock!Limit - 1),
         \A r \in Clock!Registers : Clock!Digit(t, r) = Clock!Digit(u, r)
  PROVE  t = u
<1> DEFINE D == 0..(DigitBase - 1)
<1>1. PICK a \in D, b \in D, c \in D : t = Number(a, b, c)  BY EveryNumber
<1>2. PICK x \in D, y \in D, z \in D : u = Number(x, y, z)  BY EveryNumber
<1>3. a = x /\ b = y /\ c = z  BY <1>1, <1>2, NumberDigits DEF Clock!Registers
<1>4. QED BY <1>1, <1>2, <1>3

\* The inverter's tick: where no digit changes, the largest time has not wrapped.
LEMMA TickedDigit ==
  ASSUME Clock!ClockAssumption, NEW t \in 0..(Clock!Limit - 1)
  PROVE  /\ (t + 1) % Clock!Limit \in 0..(Clock!Limit - 1)
         /\ t + 1 < Clock!Limit => (t + 1) % Clock!Limit = t + 1
         /\ \A r \in Clock!Registers : Clock!Digit((t + 1) % Clock!Limit, r) = Clock!Digit(t + 1, r)
<1> DEFINE B == DigitBase
           L == Clock!Limit
<1>0. B \in Nat \ {0} /\ B * B \in Nat \ {0} /\ L = (B * B) * B /\ L \in Nat \ {0}
  BY DEF Clock!ClockAssumption, Clock!Limit
<1>1. ASSUME t + 1 < L PROVE (t + 1) % L = t + 1
  <2>1. t + 1 = L * 0 + (t + 1) /\ t + 1 \in 0..(L - 1)  BY <1>0, <1>1
  <2> HIDE DEF L
  <2>2. QED BY <1>0, <2>1, DivMod, SMTT(30)
<1>2. CASE t + 1 < L  BY <1>1, <1>2, <1>0
<1>3. CASE ~(t + 1 < L)
  <2>1. t + 1 = L  BY <1>0, <1>3
  <2>2. L % L = 0
    <3>1. L = L * 1 + 0 BY <1>0
    <3> HIDE DEF L
    <3>2. QED BY <1>0, <3>1, DivMod
  <2>3. L \div (B * B) = B /\ L \div B = B * B /\ L \div 1 = L
    <3>1. L = (B * B) * B + 0 /\ L = B * (B * B) + 0 /\ L = 1 * L + 0  BY <1>0
    <3> HIDE DEF L
    <3>2. QED BY <1>0, <3>1, DivMod
  <2>4. B % B = 0 /\ (B * B) % B = 0 /\ L % B = 0
    <3>1. B = B * 1 + 0 /\ B * B = B * B + 0 /\ L = B * (B * B) + 0  BY <1>0
    <3> HIDE DEF L
    <3>2. QED BY <1>0, <3>1, DivMod
  <2>5. \A r \in Clock!Registers : Clock!Digit(L, r) = 0
    BY <2>3, <2>4 DEF Clock!Registers, Clock!Digit, Clock!Weight
  <2>6. 0 \in 0..(B - 1) /\ Number(0, 0, 0) = 0  BY <1>0 DEF Number
  <2>7. \A r \in Clock!Registers : Clock!Digit(0, r) = 0
    BY <2>6, NumberDigits DEF Clock!Registers
  <2>8. QED BY <1>0, <2>1, <2>2, <2>5, <2>7
<1>4. QED BY <1>2, <1>3

\* A request finds what it has written: the registers up to the next one have the digits of its
\* time, and when all are written the clock has gone on from there.
AsWritten(c) ==
  /\ job[c].next <= 3 =>
       \A r \in Clock!Registers : r < job[c].next => Clock!Digit(rtc, r) = Clock!Digit(job[c].time, r)
  /\ job[c].next = 4 => job[c].time <= rtc /\ rtc <= now

\* A request that nothing has disturbed is the only one, and if none of its writes was ignored it
\* finds what it has written.
Undisturbed(c) ==
  /\ \A d \in Requesters : d # c => job[d] = None
  /\ ~job[c].ignored => AsWritten(c)

ClockInv ==
  /\ now \in Nat /\ ticks \in 0..MaxTicks /\ now + (MaxTicks - ticks) <= Clock!Limit - 1
  /\ rtc \in 0..(Clock!Limit - 1)
  /\ job \in [Requesters -> Clock!Job \union {None}]
  /\ DOMAIN answer = Requesters
  /\ \A c \in Requesters : job[c] # None =>
       job[c].time <= now /\ (~job[c].spoilt => Undisturbed(c))
  /\ Clock!SyncSetsClock

LEMMA ClockInitial ==
  ASSUME Clock!ClockAssumption, Clock!Init
  PROVE  ClockInv
<1>1. PICK s \in Skews : rtc = now + s  BY DEF Clock!Init
<1>2. now \in Times /\ ticks = 0 /\ job = [c \in Requesters |-> None]
      /\ answer = [c \in Requesters |-> Clock!Unanswered]
  BY DEF Clock!Init
<1>3. now \in Nat /\ MaxTicks \in Nat /\ now \in 0..(Clock!Limit - 1 - MaxTicks)
      /\ rtc \in 0..(Clock!Limit - 1 - MaxTicks) /\ Clock!Limit \in Nat /\ None # "ok"
  BY <1>1, <1>2 DEF Clock!ClockAssumption, Clock!Limit
<1>4. Clock!SyncSetsClock  BY <1>2, <1>3 DEF Clock!SyncSetsClock, Clock!Unanswered
<1>5. now + (MaxTicks - ticks) <= Clock!Limit - 1 /\ ticks \in 0..MaxTicks
      /\ rtc \in 0..(Clock!Limit - 1)
  BY <1>2, <1>3
<1>6. QED BY <1>2, <1>3, <1>4, <1>5 DEF ClockInv

LEMMA ClockTicks ==
  ASSUME Clock!ClockAssumption, ClockInv, Clock!Tick
  PROVE  ClockInv'
<1> USE DEF ClockInv
<1>1. /\ ticks < MaxTicks /\ ticks' = ticks + 1 /\ now' = now + 1
      /\ rtc' = (rtc + 1) % Clock!Limit /\ answer' = answer
      /\ job' = [c \in Requesters |-> IF job[c] = None THEN None
                                      ELSE [job[c] EXCEPT !.spoilt = Clock!Carried(c)]]
  BY DEF Clock!Tick
<1>2. MaxTicks \in Nat /\ Clock!Limit \in Nat /\ None \notin Clock!Job
  BY DEF Clock!ClockAssumption, Clock!Limit
<1>3. now' \in Nat /\ ticks' \in 0..MaxTicks /\ now' + (MaxTicks - ticks') <= Clock!Limit - 1
  BY <1>1, <1>2
<1>4. rtc' \in 0..(Clock!Limit - 1)  BY <1>1, TickedDigit
<1>5. \A c \in Requesters : job[c] # None =>
        /\ job[c] \in Clock!Job /\ job'[c] = [job[c] EXCEPT !.spoilt = Clock!Carried(c)]
        /\ job'[c] \in Clock!Job /\ job'[c].time = job[c].time /\ job'[c].next = job[c].next
        /\ job'[c].spoilt = Clock!Carried(c) /\ job'[c].ignored = job[c].ignored
  <2>1. \A c \in Requesters : Clock!Carried(c) \in BOOLEAN  BY DEF Clock!Carried
  <2>2. QED BY <1>1, <2>1 DEF Clock!Job
<1>6. \A c \in Requesters : job[c] = None => job'[c] = None  BY <1>1
<1>7. job' \in [Requesters -> Clock!Job \union {None}]  BY <1>1, <1>5, <1>6
<1>8. ASSUME NEW c \in Requesters, job'[c] # None
      PROVE  job'[c].time <= now' /\ (~job'[c].spoilt => Undisturbed(c)')
  <2>1. job[c] # None /\ job[c] \in Clock!Job /\ job[c].time <= now  BY <1>5, <1>6, <1>8
  <2>2. /\ job'[c].time = job[c].time /\ job'[c].next = job[c].next /\ job'[c].spoilt = Clock!Carried(c)
        /\ job'[c].ignored = job[c].ignored
    BY <1>5, <2>1
  <2>3. job'[c].time <= now'
    <3>1. job[c].time \in Int  BY <2>1 DEF Clock!Job
    <3>2. QED BY <1>1, <2>1, <2>2, <3>1
  <2>4. ASSUME ~Clock!Carried(c) PROVE Undisturbed(c)'
    <3>1. ~job[c].spoilt /\ Undisturbed(c)  BY <2>1, <2>4 DEF Clock!Carried
    <3>2. \A d \in Requesters : d # c => job'[d] = None  BY <1>6, <3>1 DEF Undisturbed
    <3>3. ASSUME ~job[c].ignored, job[c].next <= 3, NEW r \in Clock!Registers, r < job[c].next
          PROVE  Clock!Digit(rtc', r) = Clock!Digit(job[c].time, r)
      <4>1. r \in 1..(job[c].next - 1)  BY <2>1, <3>3 DEF Clock!Registers, Clock!Job
      <4>2. Clock!Digit(rtc + 1, r) = Clock!Digit(rtc, r)  BY <2>4, <3>3, <4>1 DEF Clock!Carried
      <4>3. Clock!Digit(rtc', r) = Clock!Digit(rtc + 1, r)  BY <1>1, TickedDigit
      <4>4. Clock!Digit(rtc, r) = Clock!Digit(job[c].time, r)  BY <3>1, <3>3 DEF Undisturbed, AsWritten
      <4>5. QED BY <4>2, <4>3, <4>4
    <3>4. ASSUME ~job[c].ignored, job[c].next = 4 PROVE job[c].time <= rtc' /\ rtc' <= now'
      <4>1. job[c].time <= rtc /\ rtc <= now  BY <3>1, <3>4 DEF Undisturbed, AsWritten
      <4>2. rtc + 1 < Clock!Limit  BY <1>1, <1>2, <4>1
      <4>3. rtc' = rtc + 1  BY <1>1, <4>2, TickedDigit
      <4>4. job[c].time \in Int  BY <2>1 DEF Clock!Job
      <4>5. QED BY <1>1, <4>1, <4>3, <4>4
    <3>5. QED BY <2>2, <3>2, <3>3, <3>4 DEF Undisturbed, AsWritten, Clock!Digit, Clock!Registers, Clock!Weight
  <2>5. QED BY <2>2, <2>3, <2>4
<1>9. Clock!SyncSetsClock'  BY <1>1 DEF Clock!SyncSetsClock
<1>10. QED BY <1>1, <1>3, <1>4, <1>7, <1>8, <1>9

LEMMA ClockSyncs ==
  ASSUME Clock!ClockAssumption, ClockInv, NEW c \in Requesters, Clock!Sync(c)
  PROVE  ClockInv'
<1> USE DEF ClockInv
<1>1. /\ job[c] = None /\ UNCHANGED <<now, rtc, ticks, faults>>
      /\ answer' = [answer EXCEPT ![c] = Clock!Unanswered]
      /\ job' = [d \in Requesters |->
               IF d = c THEN [time |-> now, next |-> 1, spoilt |-> Clock!Busy # {}, ignored |-> FALSE]
               ELSE IF job[d] = None THEN None ELSE [job[d] EXCEPT !.spoilt = TRUE]]
  BY DEF Clock!Sync
<1>2. now \in 0..(Clock!Limit - 1) /\ None # "ok" /\ None \notin Clock!Job
  BY DEF Clock!ClockAssumption, Clock!Limit
<1>3. job'[c] = [time |-> now, next |-> 1, spoilt |-> Clock!Busy # {}, ignored |-> FALSE] /\ job'[c] \in Clock!Job
  BY <1>1, <1>2 DEF Clock!Job
<1>4. \A d \in Requesters : d # c =>
        \/ job[d] = None /\ job'[d] = None
        \/ job[d] \in Clock!Job /\ job'[d] \in Clock!Job /\ job'[d].time = job[d].time /\ job'[d].spoilt
  BY <1>1 DEF Clock!Job
<1>5. job' \in [Requesters -> Clock!Job \union {None}]  BY <1>1, <1>3, <1>4
<1>6. ASSUME NEW d \in Requesters, job'[d] # None
      PROVE  job'[d].time <= now' /\ (~job'[d].spoilt => Undisturbed(d)')
  <2>1. CASE d # c  BY <1>1, <1>2, <1>4, <1>6, <2>1
  <2>2. CASE d = c
    <3>1. job'[d].time = now /\ job'[d].next = 1 /\ job'[d].spoilt = (Clock!Busy # {})  BY <1>3, <2>2
    <3>2. ASSUME Clock!Busy = {} PROVE Undisturbed(d)'
      <4>1. \A e \in Requesters : e # c => job'[e] = None  BY <1>4, <1>2, <3>2 DEF Clock!Busy
      <4>2. \A r \in Clock!Registers : ~(r < 1)  BY DEF Clock!Registers
      <4>3. QED BY <2>2, <3>1, <4>1, <4>2 DEF Undisturbed, AsWritten, Clock!Registers
    <3>3. ~job'[d].spoilt => Clock!Busy = {}  BY <3>1
    <3>4. now \in Int /\ job'[d].time <= now'  BY <1>1, <1>2, <3>1
    <3>5. QED BY <3>2, <3>3, <3>4
  <2>3. QED BY <2>1, <2>2
<1>7. Clock!SyncSetsClock'
  BY <1>1, <1>2 DEF Clock!SyncSetsClock, Clock!Unanswered
<1>8. QED BY <1>1, <1>5, <1>6, <1>7

LEMMA ClockWrites ==
  ASSUME Clock!ClockAssumption, ClockInv, NEW c \in Requesters, Clock!WriteRegister(c)
  PROVE  ClockInv'
<1> USE DEF ClockInv
<1> DEFINE j == job[c]
<1>1. /\ j # None /\ j.next \in Clock!Registers /\ UNCHANGED <<now, answer, ticks>>
      /\ rtc' = rtc \/ rtc' = Clock!WithDigit(rtc, j.next, j.time)
      /\ job' = [job EXCEPT ![c].next = @ + 1,
                           ![c].ignored = @ \/ rtc' # Clock!WithDigit(rtc, j.next, j.time)]
  BY DEF Clock!WriteRegister
<1>2. j \in Clock!Job /\ None \notin Clock!Job  BY <1>1 DEF Clock!ClockAssumption
<1>3. /\ job'[c] \in Clock!Job /\ job'[c].time = j.time /\ job'[c].next = j.next + 1
      /\ job'[c].spoilt = j.spoilt /\ \A d \in Requesters : d # c => job'[d] = job[d]
      /\ ~job'[c].ignored => ~j.ignored /\ rtc' = Clock!WithDigit(rtc, j.next, j.time)
  <2>1. job' = [job EXCEPT ![c] = [job[c] EXCEPT !.next = job[c].next + 1,
                  !.ignored = job[c].ignored \/ rtc' # Clock!WithDigit(rtc, j.next, j.time)]]
    BY <1>1
  <2>2. QED BY <1>1, <1>2, <2>1 DEF Clock!Job, Clock!Registers
<1>4. job' \in [Requesters -> Clock!Job \union {None}]  BY <1>1, <1>3
<1>5. /\ rtc' \in 0..(Clock!Limit - 1)
      /\ rtc' = Clock!WithDigit(rtc, j.next, j.time) =>
           /\ Clock!Digit(rtc', j.next) = Clock!Digit(j.time, j.next)
           /\ \A s \in Clock!Registers \ {j.next} : Clock!Digit(rtc', s) = Clock!Digit(rtc, s)
  <2>1. j.time \in 0..(Clock!Limit - 1) /\ rtc \in 0..(Clock!Limit - 1)  BY <1>2 DEF Clock!Job
  <2>2. QED BY <1>1, <2>1, WithDigitDigits
<1>6. ASSUME NEW d \in Requesters, job'[d] # None
      PROVE  job'[d].time <= now' /\ (~job'[d].spoilt => Undisturbed(d)')
  <2>1. CASE d # c
    <3>1. job'[d] = job[d] /\ job[d] # None  BY <1>3, <1>6, <2>1
    <3>2. job[d].spoilt  BY <1>1, <2>1, <3>1 DEF Undisturbed
    <3>3. QED BY <1>1, <3>1, <3>2
  <2>2. CASE d = c
    <3>1. ASSUME ~j.spoilt PROVE Undisturbed(c)'
      <4>1. Undisturbed(c)  BY <1>1, <3>1
      <4>2. \A e \in Requesters : e # c => job'[e] = None  BY <1>3, <4>1 DEF Undisturbed
      <4>3. ASSUME ~job'[c].ignored PROVE AsWritten(c)'
        <5>1. \A r \in Clock!Registers : r < j.next + 1 => Clock!Digit(rtc', r) = Clock!Digit(j.time, r)
          BY <1>1, <1>2, <1>3, <1>5, <4>1, <4>3 DEF Undisturbed, AsWritten, Clock!Registers
        <5>2. ASSUME j.next + 1 = 4 PROVE rtc' = j.time
          <6>1. \A r \in Clock!Registers : r < 4  BY DEF Clock!Registers
          <6>2. QED BY <1>2, <1>5, <5>1, <5>2, <6>1, SameDigits DEF Clock!Job
        <5>3. j.next + 1 = 4 => j.time <= rtc' /\ rtc' <= now'  BY <1>1, <1>2, <5>2 DEF Clock!Job
        <5> HIDE DEF j
        <5>4. QED BY <1>3, <5>1, <5>3 DEF AsWritten, Clock!Digit, Clock!Registers, Clock!Weight
      <4>4. QED BY <4>2, <4>3 DEF Undisturbed
    <3>2. QED BY <1>1, <1>3, <2>2, <3>1
  <2>3. QED BY <2>1, <2>2
<1>7. Clock!SyncSetsClock'  BY <1>1 DEF Clock!SyncSetsClock
<1>8. QED BY <1>1, <1>4, <1>5, <1>6, <1>7

\* A request that ends: c has an answer, which is true if it is a success, and no job; those of the
\* others are as they were, or are disturbed.
LEMMA ClockAnswers ==
  ASSUME Clock!ClockAssumption, ClockInv, NEW c \in Requesters, job[c] # None,
         UNCHANGED <<now, ticks>>, rtc' \in 0..(Clock!Limit - 1), NEW a, answer' = [answer EXCEPT ![c] = a],
         a.status = "ok" /\ ~a.spoilt /\ ~a.ignored => -a.drift \in 0..a.took,
         \/ rtc' = rtc /\ job' = [job EXCEPT ![c] = None]
         \/ job' = [d \in Requesters |-> IF d = c \/ job[d] = None THEN None ELSE [job[d] EXCEPT !.spoilt = TRUE]]
  PROVE  ClockInv'
<1> USE DEF ClockInv
<1>1. Clock!SyncSetsClock'  BY DEF Clock!SyncSetsClock
<1>2. job'[c] = None  OBVIOUS
<1>3. \A d \in Requesters : d # c /\ job[d] # None => job[d].spoilt /\ job[d] \in Clock!Job
  BY DEF Undisturbed
<1>4. \A d \in Requesters : d # c /\ job[d] # None =>
         job'[d].spoilt /\ job'[d] \in Clock!Job /\ job'[d].time = job[d].time
  <2>1. SUFFICES ASSUME NEW d \in Requesters, d # c, job[d] # None
                 PROVE  job'[d].spoilt /\ job'[d] \in Clock!Job /\ job'[d].time = job[d].time
    OBVIOUS
  <2>2. job[d] \in Clock!Job /\ job[d].spoilt  BY <1>3, <2>1
  <2>3. job'[d] = job[d] \/ job'[d] = [job[d] EXCEPT !.spoilt = TRUE]  BY <2>1
  <2>4. QED BY <2>2, <2>3 DEF Clock!Job
<1>5. \A d \in Requesters : job[d] = None => job'[d] = None  OBVIOUS
<1>6. job' \in [Requesters -> Clock!Job \union {None}]  BY <1>2, <1>4, <1>5
<1>7. QED BY <1>1, <1>2, <1>4, <1>5, <1>6

LEMMA ClockStep ==
  ASSUME Clock!ClockAssumption, ClockInv, [Clock!Next]_clockVars
  PROVE  ClockInv'
<1>1. ASSUME NEW c \in Requesters, Clock!WriteFails(c) PROVE ClockInv'
  <2>1. job[c] # None /\ job[c].next \in Clock!Registers  BY <1>1 DEF Clock!WriteFails
  <2>2. job[c].time \in 0..(Clock!Limit - 1)  BY <2>1 DEF ClockInv, Clock!Job
  <2>3. rtc' \in 0..(Clock!Limit - 1)
    BY <1>1, <2>1, <2>2, WithDigitDigits DEF Clock!WriteFails, ClockInv
  <2>4. Clock!Refused("502").status = "502"  BY DEF Clock!Refused
  <2>5. QED BY <1>1, <2>1, <2>3, <2>4, ClockAnswers DEF Clock!WriteFails
<1>2. ASSUME NEW c \in Requesters, Clock!ReadBackFails(c) PROVE ClockInv'
  <2>1. Clock!Refused("500").status = "500"  BY DEF Clock!Refused
  <2>2. QED BY <1>2, <2>1, ClockAnswers DEF Clock!ReadBackFails, ClockInv
<1>3. ASSUME NEW c \in Requesters, Clock!Answer(c) PROVE ClockInv'
  <2> DEFINE a == [status |-> "ok", drift |-> rtc - now, took |-> now - job[c].time,
                   spoilt |-> job[c].spoilt, ignored |-> job[c].ignored]
  <2>1. job[c] # None /\ job[c].next = 4  BY <1>3 DEF Clock!Answer
  <2>2. job[c].time \in Int /\ rtc \in Int /\ now \in Int  BY <2>1 DEF ClockInv, Clock!Job
  <2>3. ~job[c].spoilt /\ ~job[c].ignored => job[c].time <= rtc /\ rtc <= now
    BY <2>1 DEF ClockInv, Undisturbed, AsWritten
  <2>4. a.status = "ok" /\ ~a.spoilt /\ ~a.ignored => -a.drift \in 0..a.took  BY <2>2, <2>3
  <2>5. answer' = [answer EXCEPT ![c] = a] /\ job' = [job EXCEPT ![c] = None]
        /\ UNCHANGED <<now, rtc, ticks>>
    BY <1>3 DEF Clock!Answer
  <2> HIDE DEF a
  <2>6. QED BY <2>1, <2>4, <2>5, ClockAnswers DEF ClockInv
<1>4. CASE UNCHANGED clockVars
  BY <1>4 DEF clockVars, ClockInv, Undisturbed, AsWritten, Clock!SyncSetsClock
<1>5. QED BY <1>1, <1>2, <1>3, <1>4, ClockTicks, ClockSyncs, ClockWrites DEF Clock!Next

\* sync_clock and write_encoded: a sync that succeeds leaves the clock late by no more than it took,
\* whichever digits change and for any base, unless the clock was disturbed or the inverter ignored
\* a write that it acknowledged, of which the code takes no notice.
THEOREM SyncsSetTheClock ==
  /\ Clock!Spec => []Clock!SyncSetsClock
  /\ PartsSpec => []SyncSetsClock
<1> DEFINE Inv == part = "clock" => ClockInv
<1>1. Clock!Init => ClockInv  BY ClockInitial, PartsAssumption DEF PartsAssumption
<1>2. ClockInv /\ [Clock!Next]_clockVars => ClockInv'  BY ClockStep, PartsAssumption DEF PartsAssumption
<1>3. ClockInv => Clock!SyncSetsClock  BY DEF ClockInv
<1>4. PartsInit => Inv  BY <1>1 DEF PartsInit
<1>5. Inv /\ [PartsNext]_vars => Inv'  BY <1>2, OnePartMoves
<1>6. Inv => SyncSetsClock  BY <1>3 DEF SyncSetsClock
<1> HIDE DEF Inv
<1>7. PartsSpec => []SyncSetsClock  BY <1>4, <1>5, <1>6, PTL DEF PartsSpec
<1>8. ClockInv /\ [Clock!Next]_(Clock!clockVars) => ClockInv'  BY <1>2 DEF clockVars, Clock!clockVars
<1>9. Clock!Spec => []Clock!SyncSetsClock  BY <1>1, <1>3, <1>8, PTL DEF Clock!Spec
<1>10. QED BY <1>7, <1>9

--------------------------------------------------------------------------------
(* The types of the webhooks.                                              *)

WebhookBounds ==
  /\ \A e \in Webhooks!Ids : age[e] <= AgeCap
  /\ pass # None => pass.soonest >= 1
  /\ fresh \subseteq Webhooks!Ids

LEMMA WebhookBoundsInitial == Webhooks!WebhookAssumption /\ Webhooks!Init => WebhookBounds
BY DEF Webhooks!Init, WebhookBounds, Webhooks!WebhookAssumption

\* An endpoint is done, and due again in d.
LEMMA DueLater ==
  ASSUME Webhooks!WebhookAssumption, WebhookInv, WebhookBounds, pass # None, NEW d \in Nat \ {0},
         pass' = Webhooks!NextDueIn(d)
  PROVE  pass'.soonest >= 1
<1>1. pass \in PassTypes /\ Default \in Nat  BY Intervals DEF WebhookInv, WebhookTypes
<1>2. pass.soonest \in Nat /\ pass.soonest >= 1 /\ d \in Nat  BY <1>1 DEF PassTypes, WebhookBounds
<1>3. Webhooks!Min({pass.soonest, d}) \in {pass.soonest, d}  BY <1>2, MaxMin, Zenon
<1>4. pass'.soonest = Webhooks!Min({pass.soonest, d})  BY <1>1 DEF Webhooks!NextDueIn, PassTypes
<1>5. QED BY <1>2, <1>3, <1>4

LEMMA WebhookBoundsStep ==
  ASSUME Webhooks!WebhookAssumption, WebhookInv, WebhookBounds, [Webhooks!Next]_webhookVars
  PROVE  WebhookBounds'
<1>0. /\ age \in [Webhooks!Ids -> Nat] /\ wanted \subseteq Webhooks!Ids /\ AgeCap \in Nat
      /\ pass \in PassTypes \union {None} /\ Default \in Nat \ {0}
  BY Intervals DEF WebhookInv, WebhookTypes
<1>1. CASE Webhooks!Put \/ UNCHANGED webhookVars
  BY <1>0, <1>1 DEF Webhooks!Put, webhookVars, WebhookBounds
<1>2. CASE Webhooks!Begin
  BY <1>0, <1>2 DEF Webhooks!Begin, WebhookBounds
<1>3. CASE Webhooks!Skip
  <2>1. pass \in PassTypes /\ pass'.soonest = pass.soonest /\ pass # None
    BY <1>0, <1>3 DEF Webhooks!Skip, Webhooks!Looking, PassTypes
  <2>2. QED BY <1>3, <2>1 DEF Webhooks!Skip, WebhookBounds
<1>4. CASE Webhooks!NotDue
  <2> DEFINE e == Webhooks!AtHand
             d == Webhooks!Every(e) + pass.begun - age[e]
  <2>1. /\ pass # None /\ pass \in PassTypes /\ e \in pass.listed /\ age[e] - pass.begun < Webhooks!Every(e)
        /\ pass' = Webhooks!NextDueIn(d) /\ UNCHANGED <<age, fresh>>
    BY <1>0, <1>4 DEF Webhooks!NotDue, Webhooks!Looking
  <2>2. e \in Webhooks!Ids /\ pass.begun \in Nat  BY <2>1 DEF PassTypes
  <2>3. Webhooks!Every(e) \in Nat /\ age[e] \in Nat  BY <1>0, <2>2, Intervals
  <2>4. d \in Nat \ {0}  BY <2>1, <2>2, <2>3
  <2> HIDE DEF d, e
  <2>5. pass'.soonest >= 1  BY <2>1, <2>4, DueLater
  <2>6. QED BY <2>1, <2>5 DEF WebhookBounds
<1>5. CASE Webhooks!Post
  <2> DEFINE e == Webhooks!AtHand
  <2>1. /\ pass # None /\ pass \in PassTypes /\ posting = None /\ e \in Webhooks!Ids
        /\ age' = [age EXCEPT ![e] = pass.begun] /\ fresh' = fresh \ {e} /\ pass' = pass
    BY <1>0, <1>5 DEF Webhooks!Post, Webhooks!Looking, PassTypes
  <2>2. pass.begun <= AgeCap
    <3>1. pass.begun \in Nat /\ pass.at \in 1..(Len(Endpoints) + 1)  BY <2>1 DEF PassTypes
    <3>2. pass.begun <= MaxPost * (pass.at - 1) + 0  BY <2>1 DEF WebhookInv, PassInv
    <3>3. /\ MaxPost \in Nat /\ Len(Endpoints) \in Nat /\ Webhooks!Every(e) \in Nat
          /\ AgeCap > Webhooks!Every(e) + MaxPost * Len(Endpoints)
      BY <2>1, Intervals
    <3>4. MaxPost * (pass.at - 1) <= MaxPost * Len(Endpoints)  BY <3>1, <3>3, ProductMonotone
    <3>5. MaxPost * (pass.at - 1) \in Int /\ MaxPost * Len(Endpoints) \in Int  BY <3>1, <3>3
    <3>6. QED BY <1>0, <3>1, <3>2, <3>3, <3>4, <3>5
  <2>3. QED BY <1>0, <2>1, <2>2 DEF WebhookBounds
<1>6. CASE Webhooks!PostEnds
  <2>1. /\ posting # None /\ pass' = Webhooks!NextDueIn(Webhooks!Every(Webhooks!AtHand))
        /\ UNCHANGED <<age, fresh>>
    BY <1>6 DEF Webhooks!PostEnds
  <2>2. pass # None /\ pass \in PassTypes /\ pass.at <= Len(Endpoints)
    BY <2>1 DEF WebhookInv, WebhookTypes
  <2>3. pass.at \in 1..Len(Endpoints)  BY <2>2, Intervals DEF PassTypes
  <2>4. Webhooks!AtHand \in Webhooks!Ids  BY <2>3, Intervals DEF Webhooks!AtHand
  <2>5. Webhooks!Every(Webhooks!AtHand) \in Nat \ {0}  BY <2>4, Intervals
  <2>6. QED BY <2>1, <2>2, <2>5, DueLater DEF WebhookBounds
<1>7. CASE Webhooks!End
  BY <1>7 DEF Webhooks!End, WebhookBounds
<1>8. CASE Webhooks!Elapse
  <2>1. \A e \in Webhooks!Ids : age'[e] <= AgeCap
    <3> SUFFICES ASSUME NEW e \in Webhooks!Ids PROVE age'[e] <= AgeCap  OBVIOUS
    <3>1. age'[e] = Webhooks!Min({age[e] + 1, AgeCap})  BY <1>8 DEF Webhooks!Elapse, Webhooks!Older
    <3>2. age[e] + 1 \in Nat  BY <1>0
    <3>3. Webhooks!Min({age[e] + 1, AgeCap}) <= AgeCap  BY <1>0, <3>2, MaxMin, Zenon
    <3>4. QED BY <3>1, <3>3
  <2>2. pass' # None => pass # None /\ pass'.soonest = pass.soonest
    <3>1. pass' = pass \/ (posting # None /\ pass' = [pass EXCEPT !.begun = @ + 1])
      BY <1>8 DEF Webhooks!Elapse
    <3>2. posting # None => pass # None /\ pass \in PassTypes  BY DEF WebhookInv, WebhookTypes
    <3>3. QED BY <3>1, <3>2 DEF PassTypes
  <2>3. fresh' = fresh  BY <1>8 DEF Webhooks!Elapse
  <2>4. QED BY <2>1, <2>2, <2>3 DEF WebhookBounds
<1>9. QED BY <1>1, <1>2, <1>3, <1>4, <1>5, <1>6, <1>7, <1>8 DEF Webhooks!Next

LEMMA WebhooksTyped ==
  ASSUME Webhooks!WebhookAssumption, WebhookInv, WebhookBounds
  PROVE  Webhooks!TypeOK
<1>1. /\ AgeCap \in Nat /\ Default \in Nat /\ WebhookTypes
  BY Intervals DEF WebhookInv
<1>2. pass # None => pass.at \in 1..(Len(Endpoints) + 1) /\ pass.begun \in Nat /\ pass.soonest \in 1..Default
  BY <1>1 DEF WebhookTypes, PassTypes, WebhookBounds
<1>3. age \in [Webhooks!Ids -> 0..AgeCap]  BY <1>1 DEF WebhookTypes, WebhookBounds
<1>4. QED BY <1>1, <1>2, <1>3 DEF WebhookTypes, WebhookBounds, Webhooks!TypeOK

--------------------------------------------------------------------------------
(* The types of the detector of outages.                                   *)

GridTypes ==
  /\ grid \in [Homes -> Grid!Metrics]
  /\ \A d \in DOMAIN todo : todo[d] \in Grid!Metrics
  /\ missed \subseteq Homes

LEMMA GridTypesStep ==
  ASSUME Grid!GridAssumption, GridInv, GridTypes, [Grid!Next]_gridVars
  PROVE  GridTypes'
<1> USE DEF GridTypes
<1>1. CASE \E d \in Homes : Grid!Changes(d)
  BY <1>1 DEF Grid!Changes, Grid!GridAssumption
<1>2. CASE Grid!Evaluate  BY <1>2 DEF Grid!Evaluate
<1>3. CASE \E d \in Homes : Grid!Step(d)
  BY <1>3 DEF Grid!Step, Grid!Restrict
<1>4. CASE Grid!Inserted \/ Grid!InsertFails
  <2>1. event \in [device : Homes, up : BOOLEAN]  BY <1>4 DEF GridInv, Grid!Inserted, Grid!InsertFails
  <2>2. event.device \in Homes  BY <2>1
  <2>3. DOMAIN << >> = {}  OBVIOUS
  <2>4. QED BY <1>4, <2>2, <2>3 DEF Grid!Inserted, Grid!InsertFails
<1>5. CASE Grid!Restart \/ UNCHANGED gridVars
  BY <1>5 DEF Grid!Restart, gridVars
<1>6. QED BY <1>1, <1>2, <1>3, <1>4, <1>5 DEF Grid!Next

LEMMA GridTypesInitial == Grid!GridAssumption /\ Grid!Init => GridTypes
BY DEF Grid!GridAssumption, Grid!Init, GridTypes

LEMMA GridTyped == GridInv /\ GridTypes => Grid!TypeOK
BY DEF GridInv, GridTypes, Grid!TypeOK, Grid!Range

--------------------------------------------------------------------------------
(* The types of the live view.                                             *)

FeedTypes ==
  /\ polls \in 0..MaxPolls
  /\ queue = Closed \/ (queue \in Seq(1..polls) /\ Len(queue) <= QueueSize)
  /\ frame \in 0..polls /\ seen \in 0..polls

\* Snapshots up to one are snapshots up to a later one.
LEMMA SnapshotsSoFar ==
  ASSUME NEW m \in Nat, NEW n \in Nat, m <= n, NEW s \in Seq(1..m)
  PROVE  s \in Seq(1..n)
<1>1. 1..m \subseteq 1..n  OBVIOUS
<1>2. QED BY <1>1, SeqDef

LEMMA FeedTypesInitial == Feed!FeedAssumption /\ Feed!Init => FeedTypes /\ dropped \in BOOLEAN
<1> SUFFICES ASSUME Feed!FeedAssumption, Feed!Init PROVE FeedTypes /\ dropped \in BOOLEAN  OBVIOUS
<1>1. polls = 0 /\ queue = Closed /\ frame = 0 /\ seen = 0 /\ MaxPolls \in Nat
  BY DEF Feed!FeedAssumption, Feed!Init
<1>2. dropped \in BOOLEAN  BY DEF Feed!Init
<1>3. QED BY <1>1, <1>2 DEF FeedTypes

LEMMA DroppedStep == dropped \in BOOLEAN /\ [Feed!Next]_feedVars => dropped' \in BOOLEAN
BY Zenon DEF feedVars, Feed!Next, Feed!Poll, Feed!Connect, Feed!Sent, Feed!Take, Feed!Disconnect

LEMMA FeedTypesStep ==
  ASSUME Feed!FeedAssumption, FeedTypes, [Feed!Next]_feedVars
  PROVE  FeedTypes'
<1> USE DEF FeedTypes, Feed!FeedAssumption
<1>1. CASE Feed!Poll
  <2>1. polls \in Nat /\ polls' = polls + 1 /\ polls' \in 0..MaxPolls /\ UNCHANGED <<frame, seen>>
    BY <1>1 DEF Feed!Poll
  <2>2. queue # Closed => queue \in Seq(1..polls')  BY <2>1, SnapshotsSoFar
  <2>3. queue # Closed => Append(queue, polls') \in Seq(1..polls') /\ Len(Append(queue, polls')) = Len(queue) + 1
    <3>1. polls' \in 1..polls'  BY <2>1
    <3>2. QED BY <2>2, <3>1, AppendProperties
  <2>4. queue # Closed => Len(queue) \in Nat  BY LenProperties
  <2>5. queue' = queue \/ (queue # Closed /\ Len(queue) < QueueSize /\ queue' = Append(queue, polls'))
    BY <1>1 DEF Feed!Poll
  <2>6. queue' = Closed \/ (queue' \in Seq(1..polls') /\ Len(queue') <= QueueSize)
    <3>1. QueueSize \in Nat  OBVIOUS
    <3>2. CASE queue' = queue
      <4>1. queue = Closed \/ Len(queue) <= QueueSize  OBVIOUS
      <4>2. QED BY <2>2, <3>2, <4>1
    <3>3. CASE queue # Closed /\ Len(queue) < QueueSize /\ queue' = Append(queue, polls')
      BY <2>3, <2>4, <3>1, <3>3
    <3>4. QED BY <2>5, <3>2, <3>3
  <2>7. QED BY <2>1, <2>6
<1>2. CASE Feed!Connect  
  <2>1. <<>> \in Seq(1..polls) /\ Len(<<>>) = 0  BY EmptySeq
  <2>2. QED BY <1>2, <2>1 DEF Feed!Connect
<1>3. CASE Feed!Take
  <2>1. /\ queue \in Seq(1..polls) /\ queue # <<>> /\ frame' = Head(queue) /\ queue' = Tail(queue)
        /\ UNCHANGED <<polls, seen>>
    BY <1>3 DEF Feed!Take
  <2>2. Head(queue) \in 1..polls /\ Tail(queue) \in Seq(1..polls) /\ Len(Tail(queue)) = Len(queue) - 1
    BY <2>1, HeadTailProperties
  <2>3. Len(queue) \in Nat /\ polls \in Nat  BY <2>1, LenProperties
  <2>4. Len(queue) <= QueueSize
    BY <1>3 DEF Feed!Take
  <2>5. QED BY <2>1, <2>2, <2>3, <2>4
<1>4. CASE Feed!Sent \/ Feed!Disconnect \/ UNCHANGED feedVars
  <2>1. \/ queue' = queue /\ polls' = polls /\ frame' \in 0..polls /\ seen' \in 0..polls
        \/ queue' = Closed /\ polls' = polls /\ frame' = 0 /\ seen' = 0
    BY <1>4 DEF Feed!Sent, Feed!Disconnect, feedVars
  <2>2. QED BY <2>1
<1>5. QED BY <1>1, <1>2, <1>3, <1>4 DEF Feed!Next

LEMMA FeedTyped == Feed!FeedAssumption /\ FeedTypes /\ dropped \in BOOLEAN => Feed!TypeOK
<1> SUFFICES ASSUME Feed!FeedAssumption, FeedTypes, dropped \in BOOLEAN PROVE Feed!TypeOK  OBVIOUS
<1>1. polls \in Nat /\ MaxPolls \in Nat /\ polls <= MaxPolls  BY DEF FeedTypes, Feed!FeedAssumption
<1>2. queue # Closed => queue \in Seq(1..MaxPolls)  BY <1>1, SnapshotsSoFar DEF FeedTypes
<1>3. QED BY <1>2 DEF FeedTypes, Feed!TypeOK

--------------------------------------------------------------------------------
(* The types of the alerts.                                                *)

NotifyTypes ==
  /\ channels \in Notify!Built
  /\ \A r \in Deliverers : delivery[r] # None =>
       "using" \in DOMAIN delivery[r] /\ delivery[r].using \in Notify!Built
  /\ puts \in 0..MaxPuts /\ alerts \in 0..MaxAlerts /\ restores \in 0..MaxRestores

LEMMA NotifyTypesInitial == Notify!ChannelAssumption /\ Notify!Init => NotifyTypes
BY DEF Notify!ChannelAssumption, Notify!Init, Notify!Built, NotifyTypes

\* One delivery goes on, with the channels it began with.
LEMMA DeliveryGoesOn ==
  ASSUME NotifyTypes, DeliveryInv, NEW r \in Deliverers,
         Notify!PassOver(r) \/ Notify!Send(r) \/ Notify!SendFails(r)
  PROVE  NotifyTypes'
<1>1. delivery[r] # None /\ DOMAIN delivery = Deliverers
  BY DEF Notify!PassOver, Notify!Send, Notify!SendFails, Notify!Delivers, DeliveryInv
<1>2. /\ DOMAIN delivery'[r] = DOMAIN delivery[r]
      /\ "using" \in DOMAIN delivery[r] => delivery'[r].using = delivery[r].using
  BY <1>1 DEF Notify!PassOver, Notify!Send, Notify!SendFails
<1>3. \A s \in Deliverers : s # r => delivery'[s] = delivery[s]
  BY <1>1 DEF Notify!PassOver, Notify!Send, Notify!SendFails
<1>4. UNCHANGED <<channels, puts, alerts, restores>>
  BY DEF Notify!PassOver, Notify!Send, Notify!SendFails
<1>5. \A s \in Deliverers : delivery'[s] # None =>
        "using" \in DOMAIN delivery'[s] /\ delivery'[s].using \in Notify!Built
  <2>1. "using" \in DOMAIN delivery'[r] /\ delivery'[r].using \in Notify!Built
    BY <1>1, <1>2 DEF NotifyTypes
  <2>2. QED BY <1>3, <2>1 DEF NotifyTypes
<1>6. Notify!Built' = Notify!Built  BY DEF Notify!Built
<1>7. QED BY <1>4, <1>5, <1>6 DEF NotifyTypes

LEMMA NotifyTypesStep ==
  ASSUME Notify!ChannelAssumption, QueueInv, DeliveryInv, NotifyTypes, [Notify!Next]_notifyVars
  PROVE  NotifyTypes'
<1> USE DEF NotifyTypes
<1>0. MaxPuts \in Nat /\ MaxAlerts \in Nat /\ MaxRestores \in Nat  BY DEF Notify!ChannelAssumption
<1>1. CASE \E c \in Requesters : Notify!Put(c)
  BY <1>0, <1>1 DEF Notify!Put
<1>2. CASE Notify!RunJob \/ UNCHANGED notifyVars
  BY <1>2 DEF Notify!RunJob, notifyVars
<1>3. CASE Notify!Resume
  <2>1. results # <<>> /\ results \in Seq(Notify!Result)  BY <1>3 DEF Notify!Resume, QueueInv
  <2>2. Head(results) \in Notify!Result  BY <2>1, HeadTailProperties
  <2>3. Head(results).config \in ChannelConfigs  BY <2>2 DEF Notify!Result
  <2>4. channels' \in {channels, Notify!Build(Head(results).config)} /\ UNCHANGED <<delivery, puts, alerts, restores>>
    BY <1>3 DEF Notify!Resume
  <2>5. QED BY <2>3, <2>4 DEF Notify!Built
<1>4. CASE Notify!Restore
  BY <1>0, <1>4 DEF Notify!Restore
<1>5. CASE Notify!Restart
  BY <1>0, <1>5 DEF Notify!Restart, Notify!Built, QueueInv
<1>6. ASSUME NEW r \in Deliverers, Notify!StartDelivery(r) PROVE NotifyTypes'
  <2>1. PICK names \in Selections :
          delivery' = [delivery EXCEPT ![r] =
            [names |-> names, left |-> names, using |-> channels, sent |-> << >>, failed |-> {}]]
    BY <1>6 DEF Notify!StartDelivery
  <2>2. DOMAIN delivery = Deliverers  BY DEF DeliveryInv
  <2>3. /\ "using" \in DOMAIN delivery'[r] /\ delivery'[r].using = channels
        /\ \A s \in Deliverers : s # r => delivery'[s] = delivery[s]
    BY <2>1, <2>2
  <2>4. UNCHANGED <<channels, puts, restores>> /\ alerts' = alerts + 1 /\ alerts < MaxAlerts
    BY <1>6 DEF Notify!StartDelivery
  <2>5. QED BY <1>0, <2>3, <2>4
<1>7. QED BY <1>1, <1>2, <1>3, <1>4, <1>5, <1>6, DeliveryGoesOn DEF Notify!Next

LEMMA NotifyTyped ==
  ASSUME QueueInv, DeliveryInv, NotifyTypes
  PROVE  Notify!TypeOK
BY DEF QueueInv, DeliveryInv, Accounted, NotifyTypes, Notify!TypeOK

--------------------------------------------------------------------------------
(* The types of the inverter's time.                                       *)

Statuses == {None, "400", "502", "500", "ok"}

ClockTypes ==
  /\ \A c \in Requesters : answer[c].status \in Statuses
  /\ syncs \in 0..MaxSyncs /\ faults \in 0..MaxFaults

LEMMA ClockTypesInitial == Clock!ClockAssumption /\ Clock!Init => ClockTypes
BY DEF Clock!ClockAssumption, Clock!Init, Clock!Unanswered, ClockTypes, Statuses

LEMMA ClockTypesStep ==
  ASSUME Clock!ClockAssumption, ClockInv, ClockTypes, [Clock!Next]_clockVars
  PROVE  ClockTypes'
<1>0. MaxSyncs \in Nat /\ MaxFaults \in Nat /\ DOMAIN answer = Requesters
  BY DEF Clock!ClockAssumption, ClockInv
<1>1. ASSUME answer' = answer \/ \E c \in Requesters : \E a : answer' = [answer EXCEPT ![c] = a] /\ a.status \in Statuses
      PROVE  \A c \in Requesters : answer'[c].status \in Statuses
  BY <1>0, <1>1 DEF ClockTypes
<1>2. \A status \in Statuses : Clock!Refused(status).status \in Statuses  BY DEF Clock!Refused
<1>3. CASE Clock!Tick \/ UNCHANGED clockVars
  BY <1>3 DEF Clock!Tick, clockVars, ClockTypes
<1>4. ASSUME NEW c \in Requesters, Clock!Sync(c) PROVE ClockTypes'
  <2>1. answer' = [answer EXCEPT ![c] = Clock!Unanswered]  BY <1>4 DEF Clock!Sync
  <2>2. Clock!Unanswered.status \in Statuses  BY DEF Clock!Unanswered, Statuses
  <2>3. syncs' \in 0..MaxSyncs /\ faults' = faults  BY <1>0, <1>4 DEF Clock!Sync, ClockTypes
  <2>4. QED BY <1>0, <2>1, <2>2, <2>3 DEF ClockTypes
<1>5. ASSUME NEW c \in Requesters, Clock!WriteRegister(c) PROVE ClockTypes'
  BY <1>5 DEF Clock!WriteRegister, ClockTypes
<1>6. ASSUME NEW c \in Requesters, Clock!WriteFails(c) \/ Clock!ReadBackFails(c) PROVE ClockTypes'
  <2>1. PICK status \in Statuses : answer' = [answer EXCEPT ![c] = Clock!Refused(status)]
    BY <1>6 DEF Clock!WriteFails, Clock!ReadBackFails, Statuses
  <2>2. faults' \in 0..MaxFaults /\ syncs' = syncs
    BY <1>0, <1>6 DEF Clock!WriteFails, Clock!ReadBackFails, ClockTypes
  <2>3. QED BY <1>0, <1>2, <2>1, <2>2 DEF ClockTypes
<1>7. ASSUME NEW c \in Requesters, Clock!Answer(c) PROVE ClockTypes'
  <2> DEFINE a == [status |-> "ok", drift |-> rtc - now, took |-> now - job[c].time, spoilt |-> job[c].spoilt,
                   ignored |-> job[c].ignored]
  <2>1. answer' = [answer EXCEPT ![c] = a] /\ a.status = "ok"
    BY <1>7 DEF Clock!Answer
  <2> HIDE DEF a
  <2>2. UNCHANGED <<syncs, faults>>  BY <1>7 DEF Clock!Answer
  <2>3. QED BY <1>0, <2>1, <2>2 DEF ClockTypes, Statuses
<1>8. QED BY <1>3, <1>4, <1>5, <1>6, <1>7 DEF Clock!Next

LEMMA ClockTyped ==
  ASSUME Clock!ClockAssumption, ClockInv, ClockTypes
  PROVE  Clock!TypeOK
<1>1. Clock!Limit \in Nat  BY DEF Clock!Limit, Clock!ClockAssumption
<1>2. now \in 0..(Clock!Limit - 1)  BY <1>1 DEF ClockInv, Clock!ClockAssumption
<1>3. QED BY <1>2 DEF ClockInv, ClockTypes, Statuses, Clock!TypeOK

--------------------------------------------------------------------------------
(* The types of these parts together.                                      *)

OutTyped ==
  /\ part = "webhooks" => WebhookInv /\ WebhookBounds
  /\ part = "grid" => GridInv /\ GridTypes
  /\ part = "feed" => FeedTypes /\ dropped \in BOOLEAN
  /\ part = "notify" => AlertsInv /\ NotifyTypes

LEMMA OutTypedStays ==
  /\ PartsInit => OutTyped
  /\ OutTyped /\ [PartsNext]_vars => OutTyped'
<1> USE PartsAssumption DEF PartsAssumption
<1>1. PartsInit => WebhookInv /\ WebhookBounds  BY WebhookInitial, WebhookBoundsInitial DEF PartsInit
<1>2. PartsInit => GridInv /\ GridTypes  BY GridInitial, GridTypesInitial DEF PartsInit
<1>3. PartsInit => FeedTypes /\ dropped \in BOOLEAN  BY FeedTypesInitial DEF PartsInit
<1>4. PartsInit => AlertsInv /\ NotifyTypes  BY AlertsInitial, NotifyTypesInitial DEF PartsInit, AlertsInv
<1>5. WebhookInv /\ WebhookBounds /\ [Webhooks!Next]_webhookVars => WebhookInv' /\ WebhookBounds'
  BY WebhookStep, WebhookBoundsStep
<1>6. GridInv /\ GridTypes /\ [Grid!Next]_gridVars => GridInv' /\ GridTypes'  BY GridStep, GridTypesStep
<1>7. FeedTypes /\ dropped \in BOOLEAN /\ [Feed!Next]_feedVars => FeedTypes' /\ dropped' \in BOOLEAN
  BY FeedTypesStep, DroppedStep
<1>8. AlertsInv /\ NotifyTypes /\ [Notify!Next]_notifyVars => AlertsInv' /\ NotifyTypes'
  BY QueueStep, DeliveryStep, NotifyTypesStep DEF AlertsInv, Notify!ChannelAssumption
<1>9. OutTyped /\ [PartsNext]_vars => OutTyped'
  BY <1>5, <1>6, <1>7, <1>8, OnePartMoves, Zenon DEF OutTyped
<1>10. QED BY <1>1, <1>2, <1>3, <1>4, <1>9 DEF OutTyped

HostTyped ==
  /\ SoundInv
  /\ part = "dashboards" => KeptInv
  /\ part = "clock" => ClockInv /\ ClockTypes

LEMMA HostTypedStays ==
  /\ PartsInit => HostTyped
  /\ HostTyped /\ [PartsNext]_vars => HostTyped'
<1> USE PartsAssumption DEF PartsAssumption
<1>1. PartsInit => SoundInv  BY InitSound DEF PartsInit
<1>2. PartsInit => KeptInv  BY InitKept DEF PartsInit
<1>3. PartsInit => ClockInv /\ ClockTypes  BY ClockInitial, ClockTypesInitial DEF PartsInit
<1>4. SoundInv /\ [Next]_storageVars => SoundInv'  BY SoundStep
<1>5. KeptInv /\ [Boards!Next]_boardVars => KeptInv'  BY StepKept
<1>6. ClockInv /\ ClockTypes /\ [Clock!Next]_clockVars => ClockInv' /\ ClockTypes'
  BY ClockStep, ClockTypesStep
<1>7. HostTyped /\ [PartsNext]_vars => HostTyped'
  BY <1>4, <1>5, <1>6, OnePartMoves, Zenon DEF HostTyped
<1>8. QED BY <1>1, <1>2, <1>3, <1>7 DEF HostTyped
================================================================================
