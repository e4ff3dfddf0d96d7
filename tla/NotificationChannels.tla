--------------------------- MODULE NotificationChannels ---------------------------
(***************************************************************************)
(* The channels that notifications go out by (backend/app/alerts/          *)
(* channels.py) and their configuration (main.py put_alert_channels,       *)
(* automation/service.py reload_channels).  The service keeps the channels *)
(* it has built from the stored configuration; a request stores a new one  *)
(* and lets the service build again, while alerts are being delivered.     *)
(*                                                                         *)
(* The thread of the database takes one job after the other, and its       *)
(* results come back to the event loop in the same order.                  *)
(***************************************************************************)
EXTENDS Naturals, Sequences, Functions

CONSTANTS
  Clients,
  Runs,        \* what may deliver an alert: the scheduler, "Apply now"
  Names,       \* of channels
  Configs,     \* [name -> what is configured for it]: None, Half, Off or a complete version
  Half,        \* a required field is missing
  Off,         \* a webhook that is switched off
  Selections,  \* the channels that rules name, in order
  MaxPuts, MaxAlerts, MaxRestores,  \* bounds
  None

VARIABLES
  stored,      \* the configuration in the database
  jobs,        \* of the database's thread
  results,     \* that the event loop has not seen yet
  channels,    \* the service's _channels: [name -> the version it was built from]
  delivery,    \* [run -> the alert that it delivers]
  puts, alerts, restores

channelVars == <<stored, jobs, results, channels, delivery, puts, alerts, restores>>

ChannelAssumption ==
  /\ \A c \in Configs : DOMAIN c = Names
  /\ Selections \subseteq Seq(Names)
  /\ {MaxPuts, MaxAlerts, MaxRestores} \subseteq Nat

\* build_channels: what is complete, and not switched off.
Build(config) == Restrict(config, {n \in Names : config[n] \notin {None, Half, Off}})

Built == {Build(c) : c \in Configs}

\* A job of the database for a request, and its result: the configuration that is then stored.
Job    == [client : Clients, op : {"set"}, config : Configs] \union [client : Clients, op : {"get"}]
Result == [client : Clients, op : {"set", "get"}, config : Configs]

TypeOK ==
  /\ stored \in Configs /\ channels \in Built
  /\ jobs \in Seq(Job) /\ results \in Seq(Result)
  /\ \A r \in Runs : delivery[r] # None => delivery[r].left \in Seq(Names) /\ delivery[r].using \in Built
  /\ puts \in 0..MaxPuts /\ alerts \in 0..MaxAlerts /\ restores \in 0..MaxRestores

Init ==
  /\ stored \in Configs /\ channels = Build(stored)
  /\ jobs = <<>> /\ results = <<>>
  /\ delivery = [r \in Runs |-> None]
  /\ puts = 0 /\ alerts = 0 /\ restores = 0

Waits(c) == \E i \in DOMAIN jobs : jobs[i].client = c
Woken(c) == \E i \in DOMAIN results : results[i].client = c

----------------------------------------------------------------------------
(* The configuration.                                                      *)

\* put_alert_channels stores what it was given.
Put(c) ==
  /\ ~Waits(c) /\ ~Woken(c) /\ puts < MaxPuts /\ puts' = puts + 1
  /\ \E config \in Configs : jobs' = Append(jobs, [client |-> c, op |-> "set", config |-> config])
  /\ UNCHANGED <<stored, results, channels, delivery, alerts, restores>>

\* The database's thread.
RunJob ==
  /\ jobs # <<>>
  /\ LET job == Head(jobs) IN
     /\ jobs' = Tail(jobs)
     /\ stored' = IF job.op = "set" THEN job.config ELSE stored
     /\ results' = Append(results, [client |-> job.client, op |-> job.op, config |-> stored'])
  /\ UNCHANGED <<channels, delivery, puts, alerts, restores>>

\* Back in the request: reload_channels reads the configuration again, and builds.
Resume ==
  /\ results # <<>> /\ results' = Tail(results)
  /\ LET result == Head(results) IN
     IF result.op = "set"
     THEN /\ jobs' = Append(jobs, [client |-> result.client, op |-> "get"])
          /\ UNCHANGED channels
     ELSE channels' = Build(result.config) /\ UNCHANGED jobs
  /\ UNCHANGED <<stored, delivery, puts, alerts, restores>>

\* A backup is restored, between two jobs: nothing tells the service.
Restore ==
  /\ restores < MaxRestores /\ restores' = restores + 1
  /\ stored' \in Configs
  /\ UNCHANGED <<jobs, results, channels, delivery, puts, alerts>>

\* The process ends and starts again: start() builds before anything is served.
Restart ==
  /\ jobs' = <<>> /\ results' = <<>>
  /\ channels' = Build(stored) /\ delivery' = [r \in Runs |-> None] /\ restores' = 0
  /\ UNCHANGED <<stored, puts, alerts>>

----------------------------------------------------------------------------
(* dispatch: one channel after the other, of those there were at the start. *)

Delivers(r) == delivery[r] # None /\ delivery[r].left # <<>>

StartDelivery(r) ==
  /\ ~Delivers(r)
  /\ alerts < MaxAlerts /\ alerts' = alerts + 1
  /\ \E names \in Selections :
       delivery' = [delivery EXCEPT ![r] =
                     [names |-> names, left |-> names, using |-> channels, sent |-> << >>, failed |-> {}]]
  /\ UNCHANGED <<stored, jobs, results, channels, puts, restores>>

\* A name that no channel has is passed over.
PassOver(r) ==
  /\ Delivers(r) /\ Head(delivery[r].left) \notin DOMAIN delivery[r].using
  /\ delivery' = [delivery EXCEPT ![r].left = Tail(@)]
  /\ UNCHANGED <<stored, jobs, results, channels, puts, alerts, restores>>

Send(r) ==
  /\ Delivers(r)
  /\ LET name == Head(delivery[r].left) IN
     /\ name \in DOMAIN delivery[r].using
     /\ delivery' = [delivery EXCEPT ![r].left = Tail(@),
                       ![r].sent = [n \in DOMAIN @ \union {name} |-> delivery[r].using[n]]]
  /\ UNCHANGED <<stored, jobs, results, channels, puts, alerts, restores>>

\* Mutant: the failure ends the delivery.
SendFailsForAll(r) ==
  /\ Delivers(r)
  /\ LET name == Head(delivery[r].left) IN
     /\ name \in DOMAIN delivery[r].using
     /\ delivery' = [delivery EXCEPT ![r].left = <<>>, ![r].failed = @ \union {name}]
  /\ UNCHANGED <<stored, jobs, results, channels, puts, alerts, restores>>

\* The host is dead, refuses, or a field cannot be used.
SendFails(r) ==
  /\ Delivers(r)
  /\ LET name == Head(delivery[r].left) IN
     /\ name \in DOMAIN delivery[r].using
     /\ delivery' = [delivery EXCEPT ![r].left = Tail(@), ![r].failed = @ \union {name}]
  /\ UNCHANGED <<stored, jobs, results, channels, puts, alerts, restores>>

Next ==
  \/ \E c \in Clients : Put(c)
  \/ RunJob \/ Resume \/ Restore \/ Restart
  \/ \E r \in Runs : StartDelivery(r) \/ PassOver(r) \/ Send(r) \/ SendFails(r)

Spec == Init /\ [][Next]_channelVars
----------------------------------------------------------------------------
\* When no request is being served, the service's channels are those of the stored configuration,
\* however requests overlapped, unless a backup was restored since the start.  And an alert that
\* has been delivered was sent to each channel of its rule that there was when it began, or that
\* channel itself failed: neither another channel's failure nor a new configuration takes it away.
AlertsReachChannels ==
  /\ jobs = <<>> /\ results = <<>> => channels = Build(stored) \/ restores > 0
  /\ \A r \in Runs : delivery[r] # None /\ delivery[r].left = <<>> =>
       Range(delivery[r].names) \intersect DOMAIN delivery[r].using
         = DOMAIN delivery[r].sent \union delivery[r].failed
===================================================================================
