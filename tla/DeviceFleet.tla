------------------------------- MODULE DeviceFleet -------------------------------
(***************************************************************************)
(* The devices a process talks to: the rows of table devices, the registry *)
(* of connected devices that is built from them at startup and follows     *)
(* them afterwards (backend/app/main.py, devices/registry.py), and the     *)
(* poller that reads the registry and keeps the latest readings            *)
(* (poller.py).                                                            *)
(*                                                                         *)
(* API requests and polls are asyncio tasks that interleave where they     *)
(* await; equipment goes out of reach and comes back; the process may stop *)
(* at any time, and is started again.                                      *)
(***************************************************************************)
EXTENDS Integers, Sequences, SequencesExt

CONSTANTS
  Ids,           \* device ids
  Dummy,         \* the simulator: needs no equipment, seeds an empty table
  Clients,       \* API requests
  Pollers,       \* "loop" polls forever, others are requests that need a first snapshot
  MaxRequests,   \* bound: requests on the devices
  MaxStarts,     \* bound: starts of the process
  None

VARIABLES
  rows,       \* table devices: id -> a state, or None
  running,    \* the process is up
  registry,   \* DeviceRegistry._devices: devices, in the order of their insertion
  connected,  \* devices with an open connection
  reachable,  \* ids whose equipment answers
  request,    \* of a client: the request it makes
  poll,       \* of a poller: devices it reads and those that have answered, failed
  latest,     \* Poller._latest: id -> the device its latest reading is from
  requests, starts, made,  \* counters: the bounds, and device objects made
  adrift,     \* history: ids of which a request has changed the row and then ended in an
              \* exception, and no later request has got through to the registry
  unclosed    \* history: devices whose close has raised

vars == <<rows, running, registry, connected, reachable, request, poll, latest, requests, starts, made,
          adrift, unclosed>>

\* A row's field enabled.  An enabled row may be one that no device can be built from: its profile
\* does not exist, or a parameter is not the number that it should be.  A body is not checked for that.
States == {"enabled", "disabled", "unbuildable"}

\* A device object: the id of its row, and a number of its own.
Device == [id : Ids, n : Nat]

Steps == {"look", "insert", "store", "erase", "remove", "close", "connect", "probe", "probed"}

\* A request being served, the step it is at, and a device it works on; a poll that is under way.
Job  == [op : {"create", "update", "delete", "test"}, id : Ids, state : States, step : Steps,
         dev : Device \union {None}]
Scan == [devs : Seq(Device), read : SUBSET Device, failed : SUBSET Device]

ASSUME FleetAssumption ==
  /\ Dummy \in Ids /\ IsFiniteSet(Ids) /\ "loop" \in Pollers
  /\ None \notin States \union Device /\ None \notin Job /\ None \notin Scan
  /\ MaxRequests \in Nat /\ MaxStarts \in Nat

EnabledRow(id) == rows[id] \in {"enabled", "unbuildable"}
Registered(id) == \E i \in DOMAIN registry : registry[i].id = id
Position(id)   == CHOOSE i \in DOMAIN registry : registry[i].id = id
Entry(id)      == registry[Position(id)]

\* registry.add: a device of the same id is replaced in its place.
WithDevice(dev) ==
  IF Registered(dev.id)
  THEN [i \in DOMAIN registry |-> IF registry[i].id = dev.id THEN dev ELSE registry[i]]
  ELSE Append(registry, dev)

\* registry.remove
WithoutId(id) == IF Registered(id) THEN RemoveAt(registry, Position(id)) ELSE registry

Idle == [c \in Clients |-> None]
NoPoll == [p \in Pollers |-> None]
NoReading == [id \in Ids |-> None]

Init ==
  /\ rows = [id \in Ids |-> None]
  /\ running = FALSE /\ registry = <<>> /\ connected = {} /\ reachable = Ids
  /\ request = Idle /\ poll = NoPoll /\ latest = NoReading
  /\ requests = 0 /\ starts = 0 /\ made = 0
  /\ adrift = {} /\ unclosed = {}

--------------------------------------------------------------------------------
(* Equipment and process.                                                  *)

LinkChanges(id) ==
  /\ id # Dummy
  /\ reachable' = IF id \in reachable THEN reachable \ {id} ELSE reachable \union {id}
  /\ UNCHANGED <<rows, running, registry, connected, request, poll, latest, requests, starts, made, adrift, unclosed>>

\* default_device_configs
Seeded == IF \A id \in Ids : rows[id] = None THEN [rows EXCEPT ![Dummy] = "enabled"] ELSE rows

\* Mutant: a disabled device is built as well.
StartAll ==
  /\ ~running /\ starts < MaxStarts
  /\ starts' = starts + 1
  /\ rows' = Seeded /\ \A id \in Ids : Seeded[id] # "unbuildable"
  /\ LET ids == {id \in Ids : Seeded[id] # None}
     IN \E order \in SetToSeqs(ids) :
          /\ registry' = [i \in DOMAIN order |-> [id |-> order[i], n |-> made + i]]
          /\ made' = made + Len(order)
          /\ connected' = ToSet(registry')
          /\ ids \subseteq reachable
  /\ running' = TRUE /\ adrift' = {} /\ unclosed' = {}
  /\ UNCHANGED <<reachable, request, poll, latest, requests>>

\* lifespan: the registry is built from the enabled rows, in the order of their ids (any order
\* here), and every device is connected.  A row that no device can be built from, or a device that
\* does not connect, ends the startup, and the process.
Start ==
  /\ ~running /\ starts < MaxStarts
  /\ starts' = starts + 1
  /\ rows' = Seeded /\ \A id \in Ids : Seeded[id] # "unbuildable"
  /\ LET ids == {id \in Ids : Seeded[id] = "enabled"}
     IN \E order \in SetToSeqs(ids) :
          /\ registry' = [i \in DOMAIN order |-> [id |-> order[i], n |-> made + i]]
          /\ made' = made + Len(order)
          /\ connected' = ToSet(registry')
          /\ ids \subseteq reachable
  /\ running' = TRUE /\ adrift' = {} /\ unclosed' = {}
  /\ UNCHANGED <<reachable, request, poll, latest, requests>>

\* The process stops, in order or not.
Stop ==
  /\ running /\ running' = FALSE
  /\ registry' = <<>> /\ connected' = {}
  /\ request' = Idle /\ poll' = NoPoll /\ latest' = NoReading
  /\ adrift' = {} /\ unclosed' = {}
  /\ UNCHANGED <<rows, reachable, requests, starts, made>>

--------------------------------------------------------------------------------
(* Requests on the devices: the row first, then the registry.              *)

Request(c, op, id, state) ==
  /\ running /\ request[c] = None /\ requests < MaxRequests
  /\ requests' = requests + 1
  /\ request' = [request EXCEPT ![c] =
       [op |-> op, id |-> id, state |-> state, dev |-> None,
        step |-> CASE op = "delete" -> "erase" [] op = "test" -> "probe" [] OTHER -> "look"]]
  /\ UNCHANGED <<rows, running, registry, connected, reachable, poll, latest, starts, made, adrift, unclosed>>

At(c, step) == request[c] # None /\ request[c].step = step
GoOn(c, step) == request' = [request EXCEPT ![c].step = step]
Reply(c)      == request' = [request EXCEPT ![c] = None]

\* create_device: is there a row of this id already?  repo.update: is there one?
Look(c) ==
  /\ At(c, "look")
  /\ LET exists == rows[request[c].id] # None
     IN IF exists = (request[c].op = "create") THEN Reply(c)
        ELSE GoOn(c, IF exists THEN "store" ELSE "insert")
  /\ UNCHANGED <<rows, running, registry, connected, reachable, poll, latest, requests, starts, made, adrift, unclosed>>

\* What follows the change of the row: a new device is to be made if the row is enabled.
AfterRemoval(c) ==
  IF request[c].op # "delete" /\ request[c].state # "disabled" THEN GoOn(c, "connect") ELSE Reply(c)

\* The id is the primary key.
Insert(c) ==
  /\ At(c, "insert")
  /\ IF rows[request[c].id] = None
     THEN rows' = [rows EXCEPT ![request[c].id] = request[c].state] /\ AfterRemoval(c)
     ELSE UNCHANGED rows /\ Reply(c)
  /\ UNCHANGED <<running, registry, connected, reachable, poll, latest, requests, starts, made, adrift, unclosed>>

\* repo.update, after its look: updating a row that has gone meanwhile changes nothing, and is
\* not noticed.
Store(c) ==
  /\ At(c, "store")
  /\ rows' = [rows EXCEPT ![request[c].id] = IF @ = None THEN None ELSE request[c].state]
  /\ GoOn(c, "remove")
  /\ UNCHANGED <<running, registry, connected, reachable, poll, latest, requests, starts, made, adrift, unclosed>>

Erase(c) ==
  /\ At(c, "erase")
  /\ rows' = [rows EXCEPT ![request[c].id] = None]
  /\ IF rows[request[c].id] = None THEN Reply(c) ELSE GoOn(c, "remove")
  /\ UNCHANGED <<running, registry, connected, reachable, poll, latest, requests, starts, made, adrift, unclosed>>

\* The row and the registry of the request's id are in step, as far as the registry goes; or an
\* exception has ended the request before they were.
Settled(c) == adrift' = adrift \ {request[c].id}
Aborted(c) == adrift' = adrift \union {request[c].id} /\ Reply(c)

\* _remove_from_registry: look the device up, ...
TakeOut(c) ==
  /\ At(c, "remove")
  /\ IF Registered(request[c].id)
     THEN request' = [request EXCEPT ![c].step = "close", ![c].dev = Entry(request[c].id)] /\ UNCHANGED adrift
     ELSE AfterRemoval(c) /\ Settled(c)
  /\ UNCHANGED <<rows, running, registry, connected, reachable, poll, latest, requests, starts, made, unclosed>>

\* Mutant: the connection is not closed.
CloseLeaks(c) ==
  /\ At(c, "close")
  /\ registry' = WithoutId(request[c].id)
  /\ AfterRemoval(c) /\ Settled(c)
  /\ UNCHANGED <<connected, rows, running, reachable, poll, latest, requests, starts, made, unclosed>>

\* ... close it, and remove what is then there under its id.
Close(c) ==
  /\ At(c, "close")
  /\ connected' = connected \ {request[c].dev}
  /\ registry' = WithoutId(request[c].id)
  /\ AfterRemoval(c) /\ Settled(c)
  /\ UNCHANGED <<rows, running, reachable, poll, latest, requests, starts, made, unclosed>>

\* A close that raises ends the request: the row has been changed or deleted, and the device stays
\* registered.  It may have been disconnected or not.
CloseFails(c) ==
  /\ At(c, "close") /\ request[c].id # Dummy /\ request[c].dev \in connected
  /\ \E shut \in SUBSET {request[c].dev} : connected' = connected \ shut
  /\ unclosed' = unclosed \union {request[c].dev}
  /\ Aborted(c)
  /\ UNCHANGED <<rows, running, registry, reachable, poll, latest, requests, starts, made>>

\* _add_to_registry: a device whose connect raises a TransportError is registered all the same.
Add(c) ==
  /\ At(c, "connect") /\ request[c].state = "enabled"
  /\ LET dev == [id |-> request[c].id, n |-> made + 1]
     IN /\ registry' = WithDevice(dev)
        /\ connected' = IF dev.id \in reachable THEN connected \union {dev} ELSE connected
  /\ made' = made + 1
  /\ Settled(c) /\ Reply(c)
  /\ UNCHANGED <<rows, running, reachable, poll, latest, requests, starts, unclosed>>

\* No device can be built from the row, or connect raises something else, as it may of a port that
\* cannot be opened: the request ends, the row stays, and nothing is registered.
AddFails(c) ==
  /\ At(c, "connect")
  /\ \/ request[c].state = "unbuildable"
     \/ request[c].id \notin reachable \union {Dummy}
  /\ Aborted(c)
  /\ UNCHANGED <<rows, running, registry, connected, reachable, poll, latest, requests, starts, made, unclosed>>

\* test_device: a device that is not to be kept is made, connected, and read, ...
Probe(c) ==
  /\ At(c, "probe")
  /\ LET dev == [id |-> request[c].id, n |-> made + 1]
     IN IF request[c].state = "unbuildable" \/ dev.id = Dummy \/ dev.id \notin reachable
        THEN Reply(c) /\ UNCHANGED connected
        ELSE /\ connected' = connected \union {dev}
             /\ request' = [request EXCEPT ![c].step = "probed", ![c].dev = dev]
  /\ made' = made + 1
  /\ UNCHANGED <<rows, running, registry, reachable, poll, latest, requests, starts, adrift, unclosed>>

\* ... and closed, whatever the read has led to.  A close that raises is passed over, and may leave
\* the connection open.
EndProbe(c) ==
  /\ At(c, "probed")
  /\ \E left \in SUBSET {request[c].dev} :
       connected' = connected \ ({request[c].dev} \ left) /\ unclosed' = unclosed \union left
  /\ Reply(c)
  /\ UNCHANGED <<rows, running, registry, reachable, poll, latest, requests, starts, made, adrift>>

Serve(c) ==
  \/ Look(c) \/ Insert(c) \/ Store(c) \/ Erase(c)
  \/ TakeOut(c) \/ Close(c) \/ CloseFails(c) \/ Add(c) \/ AddFails(c)
  \/ Probe(c) \/ EndProbe(c)

--------------------------------------------------------------------------------
(* Polls: all devices of the registry are read at once.                    *)

\* ensure_polled polls only as long as there is no reading at all.
StartPoll(p) ==
  /\ running /\ poll[p] = None
  /\ p # "loop" => latest = NoReading
  /\ poll' = [poll EXCEPT ![p] = [devs |-> registry, read |-> {}, failed |-> {}]]
  /\ UNCHANGED <<rows, running, registry, connected, reachable, request, latest, requests, starts, made, adrift, unclosed>>

Pending(p, dev) ==
  /\ poll[p] # None
  /\ dev \in ToSet(poll[p].devs) \ (poll[p].read \union poll[p].failed)

Answers(dev) == dev \in connected /\ dev.id \in reachable

Read(p, dev) ==
  /\ Pending(p, dev) /\ Answers(dev)
  /\ poll' = [poll EXCEPT ![p].read = @ \union {dev}]
  /\ UNCHANGED <<rows, running, registry, connected, reachable, request, latest, requests, starts, made, adrift, unclosed>>

\* A read that fails is retried, and given up.
ReadFails(p, dev) ==
  /\ Pending(p, dev) /\ ~Answers(dev)
  /\ poll' = [poll EXCEPT ![p].failed = @ \union {dev}]
  /\ UNCHANGED <<rows, running, registry, connected, reachable, request, latest, requests, starts, made, adrift, unclosed>>

\* Mutant: one device that fails spoils the snapshot.
ResultsOrNone(p) == IF poll[p].failed = {} THEN poll[p].read ELSE {}

\* read_all pairs the results with the registry as it is now: results beyond its length are
\* dropped.
Results(p) ==
  {poll[p].devs[i] : i \in {i \in DOMAIN poll[p].devs : i <= Len(registry) /\ poll[p].devs[i] \in poll[p].read}}

FinishPoll(p) ==
  /\ poll[p] # None /\ \A dev \in ToSet(poll[p].devs) : ~Pending(p, dev)
  /\ latest' = [id \in Ids |->
       IF \E dev \in Results(p) : dev.id = id THEN CHOOSE dev \in Results(p) : dev.id = id ELSE latest[id]]
  /\ poll' = [poll EXCEPT ![p] = None]
  /\ UNCHANGED <<rows, running, registry, connected, reachable, request, requests, starts, made, adrift, unclosed>>

Poll(p) ==
  \/ StartPoll(p) \/ FinishPoll(p)
  \/ poll[p] # None /\ \E dev \in ToSet(poll[p].devs) : Read(p, dev) \/ ReadFails(p, dev)

--------------------------------------------------------------------------------
Next ==
  \/ \E id \in Ids : LinkChanges(id)
  \/ Start \/ Stop
  \/ \E c \in Clients :
       \/ \E op \in {"create", "update", "delete", "test"}, id \in Ids, state \in States :
            /\ op = "delete" => state = "disabled"
            /\ op = "test" => state # "disabled"
            /\ state = "unbuildable" => id # Dummy
            /\ Request(c, op, id, state)
       \/ Serve(c)
  \/ \E p \in Pollers : Poll(p)

Spec == Init /\ [][Next]_vars

\* The poll loop never ends, every read returns, and every request is served.
FairSpec ==
  /\ Spec
  /\ WF_vars(Poll("loop"))
  /\ \A c \in Clients : WF_vars(Serve(c))

--------------------------------------------------------------------------------
\* Type invariant of the fleet; a registry holds one device of an id.
TypeOK ==
  /\ rows \in [Ids -> States \union {None}]
  /\ running \in BOOLEAN
  /\ registry \in Seq(Device)
  /\ \A i, j \in DOMAIN registry : registry[i].id = registry[j].id => i = j
  /\ \A i \in DOMAIN registry : registry[i].n <= made
  /\ connected \subseteq Device
  /\ reachable \subseteq Ids
  /\ request \in [Clients -> Job \union {None}]
  /\ \A c \in Clients : request[c] # None /\ request[c].step \in {"close", "probed"} => request[c].dev \in Device
  /\ poll \in [Pollers -> Scan \union {None}]
  /\ \A p \in Pollers : poll[p] # None => poll[p].read \intersect poll[p].failed = {}
  /\ latest \in [Ids -> Device \union {None}]
  /\ requests \in 0..MaxRequests /\ starts \in 0..MaxStarts /\ made \in Nat
  /\ adrift \subseteq Ids /\ unclosed \subseteq Device

Quiet == running /\ request = Idle

\* TASKS.md:199 "registry is built from the config DB on boot ... POST/PUT/DELETE live-update
\* the registry": whenever no request is being served, the registry holds the enabled rows.  Left
\* out are the ids adrift: of those a request was ended by an exception between its change of the
\* row, which stays, and its change of the registry (main.py:1071, 1075, 1084), and the next request
\* on the id that gets through, or the next start, puts them right.
RegistryFollowsRows ==
  Quiet => \A id \in Ids \ adrift : Registered(id) <=> EnabledRow(id)

\* _remove_from_registry: whenever no request is being served, every open connection belongs
\* to a device of the registry, but for devices whose close raised.
NoStrayConnection == Quiet => connected \ unclosed \subseteq ToSet(registry)

\* registry.py:42 "a device that errors is skipped ... rather than failing the whole snapshot":
\* every reading of a poll is published, unless the registry shrank meanwhile.
LossNeedsRemoval ==
  [][\A p \in Pollers : FinishPoll(p) /\ Len(registry) >= Len(poll[p].devs) =>
       \A dev \in poll[p].read : latest'[dev.id] = dev]_vars

Live(id) == running /\ request = Idle /\ Registered(id) /\ Answers(Entry(id))

\* A device that stays connected and reachable is eventually the source of its latest reading,
\* whatever happens to the other devices: the poll loop neither stops nor starves it.
EventuallyRead ==
  \A id \in Ids : <>[]Live(id) => <>[](Registered(id) /\ latest[id] = Entry(id))
================================================================================
