-------------------------------- MODULE MCTasks --------------------------------
(***************************************************************************)
(* The tasks that have to go on whatever fails: the MQTT publisher, the    *)
(* persistence task, and the device that is the client of a broker itself. *)
(* They share no state but the snapshot, which they only read or write as  *)
(* a whole; an instance therefore explores each on its own, the one that   *)
(* part names.  History is extended, the others are instantiated.          *)
(***************************************************************************)
EXTENDS History, Sequences

CONSTANTS Sensors, Snapshots, Targets, Configs, Publishers, Clients,
          Inverters, Values, Text, WireSize, MaxChanges, MaxDrops, None

VARIABLES part,
  metrics, config, signature, sending, saving, retained, lost, failures,
  published, network, client, wire, shown, changes, drops

MCConfigs ==
  [enabled : {TRUE}, discovery : {TRUE}, target : Targets]
    \union [enabled : {TRUE}, discovery : {FALSE}, target : {CHOOSE t \in Targets : TRUE}]
    \union {[enabled |-> FALSE, discovery |-> TRUE, target |-> None]}

\* Two inverters that share a metric, a topic of the pass-through, and one that is no state.
Topic(d, m, s) == [device |-> d, measurement |-> m, state |-> s]
MCTopics ==
  {Topic("inverter_1", "pv_power", TRUE), Topic("inverter_2", "pv_power", TRUE),
   Topic("battery_1", "temperature", TRUE), Topic("total", "cost", FALSE)}
MCMeasurementMap == [pv_power |-> "pv_power_w"]

\* A day, and buckets of half a day.
MCWidth == [r \in Resolutions |-> IF r = "1d" THEN Day ELSE Day \div 2]

Mqtt   == INSTANCE MqttPublisher WITH faults <- failures
Source == INSTANCE SolarAssistantSource
            WITH Topics <- MCTopics, MeasurementMap <- MCMeasurementMap, IncludeAll <- TRUE,
                 metrics <- shown

ASSUME TasksAssumption == Mqtt!MqttAssumption /\ Source!SourceAssumption

mqttVars   == <<metrics, config, signature, sending, saving, retained, lost, failures>>
sourceVars == <<published, network, client, wire, shown, changes, drops>>
taskVars   == <<part, mqttVars, sourceVars, vars>>

TasksInit ==
  /\ part \in {"mqtt", "source", "history"}
  /\ Mqtt!Init /\ Source!Init /\ Init
  /\ part # "mqtt" => config = CHOOSE c \in Configs : TRUE
  /\ part # "source" => published = [t \in MCTopics |-> Text]

TasksNext ==
  /\ UNCHANGED part
  /\ \/ part = "mqtt"    /\ Mqtt!Next   /\ UNCHANGED <<sourceVars, vars>>
     \/ part = "source"  /\ Source!Next /\ UNCHANGED <<mqttVars, vars>>
     \/ part = "history" /\ Next        /\ UNCHANGED <<mqttVars, sourceVars>>

\* The publisher's loop goes on, publications and saves come to an end; the persistence task
\* sleeps a bounded time and its jobs return; the source is as fair as its module says.
TasksFairness ==
  LET others == <<part, sourceVars, vars>> IN
  /\ WF_taskVars(part = "mqtt" /\ Mqtt!Tick /\ UNCHANGED others)
  /\ \A p \in Publishers : WF_taskVars(part = "mqtt" /\ Mqtt!Published(p) /\ UNCHANGED others)
  /\ \A c \in Clients :
       WF_taskVars(part = "mqtt" /\ Mqtt!Saved(c) /\ UNCHANGED others)
  /\ WF_taskVars(part = "history" /\ Loop /\ UNCHANGED <<part, mqttVars, sourceVars>>)
  /\ Source!Fairness

TasksSpec == TasksInit /\ [][TasksNext]_taskVars /\ TasksFairness

\* Every part has its types.
TasksTypeOK == Mqtt!TypeOK /\ Source!TypeOK /\ TypeOK

\* The properties of the other parts, as their modules state them.
AnnouncedOrLost == Mqtt!AnnouncedOrLost
Cures           == Mqtt!Cures
ShowsBroker     == Source!ShowsBroker
================================================================================
