----------------------------- MODULE MqttPublisher -----------------------------
(***************************************************************************)
(* The MQTT publisher with Home Assistant discovery                        *)
(* (backend/app/integrations/mqtt.py) and the endpoints that configure and *)
(* test it (main.py).  The discovery of a sensor is a retained message, so *)
(* that the broker keeps it; the publisher remembers what it announced in  *)
(* a signature, which it updates before it publishes.                      *)
(*                                                                         *)
(* Reading the configuration and building the messages is one step: the    *)
(* jobs of the database run in order on one thread, so that whoever has    *)
(* read the old configuration goes on before whoever has replaced it.      *)
(***************************************************************************)
EXTENDS Naturals

CONSTANTS
  Sensors,      \* scalar metrics of all devices
  Snapshots,    \* sets of sensors the poller may have
  Targets,      \* broker with base topic and discovery prefix
  Configs,      \* what can be saved: records enabled, discovery, target
  Publishers,   \* "loop" is the background task, others are requests to test
  Clients,      \* requests that save a configuration
  MaxFaults,    \* bound: failed publications and restarts
  None

\* A publication that is under way.
Sending == [target : Targets, sensors : SUBSET Sensors, all : SUBSET Sensors]

\* What the constants must satisfy; instances assume it.
MqttAssumption ==
  /\ "loop" \in Publishers
  /\ None \notin Targets \union Sending /\ \A s \in SUBSET Sensors : s # None
  /\ MaxFaults \in Nat
  /\ Snapshots \subseteq SUBSET Sensors
  /\ Configs \subseteq [enabled : BOOLEAN, discovery : BOOLEAN, target : Targets \union {None}]

VARIABLES
  metrics,     \* sensors in the poller's snapshot
  config,      \* row mqtt of table app_config
  signature,   \* MqttService._discovery_sig: the sensors it was made of, or None
  sending,     \* of a publisher: target, sensors announced and, of a test, all sensors it is about
  saving,      \* clients that have stored their configuration and not yet gone on
  retained,    \* of a target: sensors whose discovery the broker keeps
  lost,        \* history: of a target, sensors whose announcement failed and was not made since
  faults

vars == <<metrics, config, signature, sending, saving, retained, lost, faults>>

Init ==
  /\ metrics = {} /\ config \in Configs /\ signature = None
  /\ sending = [p \in Publishers |-> None] /\ saving = {}
  /\ retained = [t \in Targets |-> {}] /\ lost = [t \in Targets |-> {}]
  /\ faults = 0

\* A poll: the sensors of the snapshot may change with every reading.
Reading ==
  /\ metrics' \in Snapshots
  /\ UNCHANGED <<config, signature, sending, saving, retained, lost, faults>>

\* Mutant: discovery is due only when there is a signature to differ from.
PublishOnlyChanges(p, before) ==
  LET due == config.discovery /\ before \notin {None, metrics}
  IN  /\ signature' = IF config.discovery THEN metrics ELSE before
      /\ sending' = IF metrics = {} THEN sending
                    ELSE [sending EXCEPT ![p] =
                           [target  |-> config.target,
                            sensors |-> IF due THEN metrics ELSE {},
                            all     |-> IF p # "loop" /\ config.discovery THEN metrics ELSE {}]]
      /\ UNCHANGED <<metrics, config, saving, retained, lost, faults>>

\* _build_messages and the start of publish_once, given what the signature is before.
Publish(p, before) ==
  LET due == config.discovery /\ metrics # before
  IN  /\ signature' = IF config.discovery THEN metrics ELSE before
      /\ sending' = IF metrics = {} THEN sending
                    ELSE [sending EXCEPT ![p] =
                           [target  |-> config.target,
                            sensors |-> IF due THEN metrics ELSE {},
                            all     |-> IF p # "loop" /\ config.discovery THEN metrics ELSE {}]]
      /\ UNCHANGED <<metrics, config, saving, retained, lost, faults>>

\* _tick
Tick ==
  /\ sending["loop"] = None
  /\ config.enabled /\ config.target # None
  /\ Publish("loop", signature)

\* test_mqtt: force_discovery, then publish.
Test(p) ==
  /\ p # "loop" /\ sending[p] = None
  /\ config.target # None
  /\ Publish(p, None)

\* The publication succeeds, or fails after some of its messages.
Deliver(p, sensors) ==
  LET s == sending[p]
  IN  /\ s # None
      /\ sending' = [sending EXCEPT ![p] = None]
      /\ retained' = [retained EXCEPT ![s.target] = @ \union sensors]
      /\ lost' = [lost EXCEPT ![s.target] = (@ \union s.sensors) \ sensors]
      /\ UNCHANGED <<metrics, config, signature, saving>>

Published(p) == sending[p] # None /\ Deliver(p, sending[p].sensors) /\ UNCHANGED faults

PublishFails(p) ==
  /\ faults < MaxFaults /\ faults' = faults + 1
  /\ sending[p] # None
  /\ \E sensors \in SUBSET sending[p].sensors : Deliver(p, sensors)

\* put_mqtt stores the configuration, and forces discovery when the row is written.
Save(c) ==
  /\ c \notin saving /\ saving' = saving \union {c}
  /\ config' \in Configs
  /\ UNCHANGED <<metrics, signature, sending, retained, lost, faults>>

\* Mutant: saving keeps the signature.
SavedUnforced(c) ==
  /\ c \in saving /\ saving' = saving \ {c}
  /\ UNCHANGED <<metrics, config, signature, sending, retained, lost, faults>>

Saved(c) ==
  /\ c \in saving /\ saving' = saving \ {c}
  /\ signature' = None
  /\ UNCHANGED <<metrics, config, sending, retained, lost, faults>>

\* The process is started again; publications under way are cut off.
Restart ==
  /\ faults < MaxFaults /\ faults' = faults + 1
  /\ metrics' = {} /\ signature' = None /\ saving' = {}
  /\ sending' = [p \in Publishers |-> None]
  /\ UNCHANGED <<config, retained, lost>>

Next ==
  \/ Reading \/ Tick \/ Restart
  \/ \E p \in Publishers : Test(p) \/ Published(p) \/ PublishFails(p)
  \/ \E c \in Clients : Save(c) \/ Saved(c)

Spec == Init /\ [][Next]_vars

--------------------------------------------------------------------------------
TypeOK ==
  /\ metrics \subseteq Sensors /\ config \in Configs
  /\ signature \in (SUBSET Sensors) \union {None}
  /\ sending \in [Publishers -> Sending \union {None}]
  /\ saving \subseteq Clients
  /\ retained \in [Targets -> SUBSET Sensors] /\ lost \in [Targets -> SUBSET Sensors]
  /\ faults \in 0 .. MaxFaults

OnTheWay(t) == UNION {sending[p].sensors : p \in {q \in Publishers : sending[q] # None /\ sending[q].target = t}}

\* What the signature stands for has been announced to the broker of the present configuration,
\* or is on its way, or was lost in a publication that failed.  (The signature spares the
\* publisher the announcements, also after the user changed the broker, the prefix or the topic.)
AnnouncedOrLost ==
  LET t == config.target
  IN  (signature # None /\ config.discovery /\ t # None /\ saving = {})
        => signature \subseteq retained[t] \union lost[t] \union OnTheWay(t)

Publishing == config.enabled /\ config.discovery /\ config.target # None

\* Once no publication fails any more, a sensor of the snapshot is announced after a save or a
\* restart, unless it or the publishing goes away.
Cures ==
  \A s \in Sensors :
    (faults = MaxFaults /\ signature = None /\ Publishing /\ s \in metrics)
      ~> (~Publishing \/ s \notin metrics \/ s \in retained[config.target])
================================================================================
