--------------------------- MODULE SolarAssistantSource ---------------------------
(***************************************************************************)
(* The device that has no registers: the metrics that a Solar Assistant    *)
(* broker publishes over MQTT (backend/app/devices/sa_mqtt.py).  Messages  *)
(* arrive on a thread of the MQTT library, which also connects again by    *)
(* itself; a poll takes the metrics as they are.                           *)
(*                                                                         *)
(* A topic is <base>/<device>/<measurement>/state; the other topics that   *)
(* the subscription to the base delivers have state FALSE.                 *)
(***************************************************************************)
EXTENDS Naturals, Sequences, Functions, SequencesExt

CONSTANTS
  Topics,            \* records [device, measurement, state]
  MeasurementMap,    \* SA_MEASUREMENT_MAP, [measurement -> metric]
  Inverters,         \* the devices whose name begins with "inverter"
  Values, Text,      \* payloads that are numbers, and one that is none
  IncludeAll,        \* of the configuration
  WireSize, MaxChanges, MaxDrops,  \* bounds
  None

VARIABLES
  published,   \* the broker: what every topic was last published with
  network,     \* "up" or "down"
  client,      \* "new", "connected" (not subscribed yet), "subscribed", "offline", "closed"
  wire,        \* messages on their way, in order
  metrics,     \* what latest() returns, [metric -> number]
  changes, drops

sourceVars == <<published, network, client, wire, metrics, changes, drops>>

SourceAssumption == Text \notin Values /\ {WireSize, MaxChanges, MaxDrops} \subseteq Nat

TypeOK ==
  /\ published \in [Topics -> Values \union {Text}]
  /\ network \in {"up", "down"}
  /\ client \in {"new", "connected", "subscribed", "offline", "closed"}
  /\ wire \in BoundedSeq([topic : Topics, payload : Values \union {Text}], WireSize)
  /\ Range(metrics) \subseteq Values
  /\ changes \in 0..MaxChanges /\ drops \in 0..MaxDrops

Init ==
  /\ published \in [Topics -> {Text} \union {CHOOSE v \in Values : TRUE}]
  /\ network = "up" /\ client = "new" /\ wire = <<>> /\ metrics = << >>
  /\ changes = 0 /\ drops = 0

----------------------------------------------------------------------------
(* From a topic to a metric, a sequence of the parts of its name.          *)

\* map_measurement: a bare temperature is only accepted from an inverter.
MapMeasurement(t) ==
  IF ~t.state THEN None
  ELSE IF t.measurement \in DOMAIN MeasurementMap THEN <<MeasurementMap[t.measurement]>>
  ELSE IF t.measurement = "temperature" /\ t.device \in Inverters THEN <<"inverter_temp_c">>
  ELSE None

\* passthrough_key: a name of its own for any other state topic.
PassthroughKey(t) == IF t.state THEN <<"sa", t.device, t.measurement>> ELSE None

KeyOf(t) ==
  IF MapMeasurement(t) = None /\ IncludeAll THEN PassthroughKey(t) ELSE MapMeasurement(t)

----------------------------------------------------------------------------
(* The broker and the network.                                             *)

Publish(t) ==
  /\ client = "subscribed" /\ Len(wire) < WireSize
  /\ wire' = Append(wire, [topic |-> t, payload |-> published[t]])
  /\ UNCHANGED <<published, network, client, metrics, changes, drops>>

Change ==
  /\ changes < MaxChanges /\ changes' = changes + 1
  /\ \E t \in Topics, v \in Values \union {Text} : published' = [published EXCEPT ![t] = v]
  /\ UNCHANGED <<network, client, wire, metrics, drops>>

\* What is on its way is lost; the library goes on trying to connect.
Drop ==
  /\ network = "up" /\ drops < MaxDrops /\ drops' = drops + 1
  /\ network' = "down" /\ wire' = <<>>
  /\ client' = IF client \in {"new", "closed"} THEN client ELSE "offline"
  /\ UNCHANGED <<published, metrics, changes>>

NetworkReturns ==
  /\ network = "down" /\ network' = "up"
  /\ UNCHANGED <<published, client, wire, metrics, changes, drops>>

----------------------------------------------------------------------------
(* The source.                                                             *)

\* connect(): without a network it fails and leaves no client behind.
Connect ==
  /\ client = "new" /\ network = "up"
  /\ client' = "connected"
  /\ UNCHANGED <<published, network, wire, metrics, changes, drops>>

\* The library connects again by itself.
Reconnect ==
  /\ client = "offline" /\ network = "up"
  /\ client' = "connected"
  /\ UNCHANGED <<published, network, wire, metrics, changes, drops>>

\* Mutant: only the first connection subscribes.
OnConnectOnce ==
  /\ client = "connected" /\ network = "up" /\ drops = 0
  /\ client' = "subscribed"
  /\ UNCHANGED <<published, network, wire, metrics, changes, drops>>

\* _on_connect, at every connection: the broker has forgotten the subscription.
OnConnect ==
  /\ client = "connected" /\ network = "up"
  /\ client' = "subscribed"
  /\ UNCHANGED <<published, network, wire, metrics, changes, drops>>

\* _on_message: other topics and payloads that are no number are passed over.
OnMessage ==
  /\ wire # <<>> /\ client = "subscribed"
  /\ wire' = Tail(wire)
  /\ LET key == KeyOf(Head(wire).topic) IN
     metrics' = IF key = None \/ Head(wire).payload = Text THEN metrics
                ELSE [k \in DOMAIN metrics \union {key} |->
                       IF k = key THEN Head(wire).payload ELSE metrics[k]]
  /\ UNCHANGED <<published, network, client, changes, drops>>

\* close(): the metrics stay, and latest() would still return them.
Close ==
  /\ client \notin {"new", "closed"}
  /\ client' = "closed" /\ wire' = <<>>
  /\ UNCHANGED <<published, network, metrics, changes, drops>>

Next ==
  \/ \E t \in Topics : Publish(t)
  \/ Change \/ Drop \/ NetworkReturns
  \/ Connect \/ Reconnect \/ OnConnect \/ OnMessage \/ Close

\* Solar Assistant publishes every topic again and again; the library's thread runs and connects
\* again, and the network returns.
Fairness ==
  /\ \A t \in Topics : SF_sourceVars(Publish(t))
  /\ WF_sourceVars(NetworkReturns) /\ WF_sourceVars(Reconnect)
  /\ WF_sourceVars(OnConnect) /\ WF_sourceVars(OnMessage)

Spec == Init /\ [][Next]_sourceVars /\ Fairness
----------------------------------------------------------------------------
Numeric(key) == {t \in Topics : KeyOf(t) = key /\ published[t] # Text}

\* Whatever connections were lost, a metric is in the end one of the values that the topics of
\* its name are published with, and none that has a number is missing: a reconnection subscribes
\* anew.  It need not be of one topic in particular, for two inverters share the metric's name.
ShowsBroker ==
  <>[](client \notin {"new", "closed"} =>
         \A key \in {KeyOf(t) : t \in Topics} \ {None} :
           Numeric(key) # {} => key \in DOMAIN metrics /\ \E t \in Numeric(key) : metrics[key] = published[t])
==================================================================================
