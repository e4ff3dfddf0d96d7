# SolarVolt: a verification project in TLA+

SolarVolt (this repository, a Python backend with a web frontend) reads inverters, batteries and
meters, keeps their history, shows it, and writes settings back to the inverter, by hand or by
automation rules. These modules model the parts of the backend where several tasks, equipment
that fails, a database file and a process that restarts meet, the arithmetic that is easy to get
wrong at its edges, and the tool that scans inverters for registers. TLC checks them on small
instances, and TLAPS proves most of the safety properties for every size of system.

## The system

The backend is one process with one asyncio loop. Tasks interleave only where they `await`. All
SQL runs on one worker thread (`storage/db.py`), one statement or transaction per job, so that a
job is atomic, and two jobs of one request are not.

| Component | State it keeps | Operations | Talks to |
|---|---|---|---|
| settings write path (`control.py`, `devices/yaml_profile.py`) | none of its own: the inverter's holding registers | read, validate, compare etag, encode, write runs, read back, audit | transports, audit table; called by the API and by automation |
| profiles (`devices/yaml_profile.py`) | none: definitions of metrics and fields | decode a reading, decode and encode settings | transports, settings write path, scanner |
| transports (`modbus_rtu.py`, `modbus_tcp.py`, `solarman_v5.py`) | a client, statistics | connect, read block, write run, retry, close | equipment |
| Solar Assistant source (`sa_mqtt.py`) | an MQTT client, the latest metrics | connect, subscribe, take messages, give the latest | a broker |
| registry and poller (`devices/registry.py`, `poller.py`) | connected devices; the latest reading of each; subscriber queues | add, remove, read all, publish, `ensure_polled` | device CRUD and connection tests (`main.py`), persistence, automation, integrations |
| inverter clock (`devices/base.py`, `main.py`) | the inverter's RTC registers | encode, write register by register, read back | transports; called by the API |
| persistence (`persistence.py`, `aggregator.py`, `storage/repository.py`) | times already stored; tables `samples`, `rollup_*`, `meta` | persist, aggregate, prune | poller, database |
| automation (`automation/rules.py`, `automation/service.py`) | rules in `app_config`, debounce times | edit rules, evaluate, notify, alert, write slots | poller, registry, settings write path, channels, alert and audit tables |
| alert channels (`alerts/channels.py`) | the channels built from the stored settings | store, reload, deliver to each | third-party services |
| integrations (`integrations/*.py`), grid events (`grid_events.py`) | last signature, last post, last grid state | publish, post, insert event | poller, brokers, endpoints, database |
| storage (`storage/db.py`, `storage/migrations.py`) | the SQLite file | open, migrate, back up, restore | all repositories |
| dashboards (`dashboards.py`) | rows of `app_config` | seed, put, reset, delete, list | API |
| planner, tariff, energy, stats, battery projection | none | pure computation | history, tariff, weather |
| register scanner (`tools/regscan.py`) | what a session has read or heard | scan, isolate, verify against a profile, sniff, dump | equipment |
| derived metrics, estimates of the forecast, economics, app configuration, firmware check, diagnostics, frontend, packaging, e2e tests | caches at most | | API |

What is hard in it:

* **interleaving**: two writers of settings are not serialised, and a register holds several
  fields; rule edits and device edits are read-modify-writes across awaits; polls overlap with the
  removal of devices;
* **failure and retry**: every register transaction can be lost before or after it took effect and
  is retried; slots are written in several runs, of which one may fail;
* **order**: aggregation before retention, with failures and restarts between; late readings;
* **decisions that age**: an etag, a rule decision, a device object are used after an await;
* **things that must keep happening**: polls, rollups, scheduler ticks, whatever one device, one
  row or one rule does;
* **state ahead of its effect**: the discovery signature, the time of the last post and the grid
  detector are updated before the message, the post or the insert, which may fail;
* **arithmetic at the edges**: counters that reset or jitter, windows that wrap midnight, seasons
  that wrap the year, targets that are clamped and rounded, fields that share a register;
* **a file replaced under a running program**: a restore writes over the database in place, and
  migrations commit statement by statement.

What makes the main components correct: a refused request has touched nothing, and an accepted one
only what it asked; `ok` means the inverter took the value; no row is lost between raw and rolled-up
history; conflicts between rules go to the highest priority, actions respect their debounce, and
one failure does not stop the rest; the registry and the connections follow the table of devices
unless an exception ends a request on it; what an integration remembers as told has been told, and a
slow endpoint delays the others once and not again with every pass; each channel of an alert gets it whatever the others do; no energy is made up, and
each hour is priced at its own rate; the database opens again after a crash with what was
acknowledged; a user's dashboards survive upgrades and restores; decoding, encoding and scanning
neither mix nor invent registers.

## The modules

| Module | What it is |
|---|---|
| `SettingsControl` | `apply_settings`, run by any number of writers against one inverter |
| `SettingsStore` | what the write path promises, abstractly |
| `SettingsControlProofs`, `DeviceFleetProofs` | theorems about the module that each is named after |
| `AutomationServiceProofs` | theorems about `AutomationRules` and `AutomationService` |
| `TasksProofs` | theorems about `History` and `MqttPublisher`, as parts of `MCTasks` too |
| `PartsProofs` | theorems about what leaves the process and what is stored, `LiveFeed`, `GridEvents`, `NotificationChannels`, `ReadingsWebhooks`, `Storage`, `Dashboards` and `InverterClock`, as parts of `MCParts` too |
| `EnergyProofs` | the same for `BatteryProjection`, `DayStats` and `TimerPlanner` with the algorithms of `Tariff` |
| `RegisterProofs` | the same for `Transport`, `RegisterBlocks`, `RegisterScan`, `BusSniffer` and `ProfileCodec` |
| `Induction` | lemmas about numbers: division, the least of a set, induction, recursion, powers of two, bits |
| `History` | readings on their way into raw samples and rollups |
| `AutomationRules` | the rule engine, as operators |
| `AutomationService` | scheduler, "Apply now" and rule edits; extends `AutomationRules` |
| `DeviceFleet` | devices: rows, registry, connections, connection tests, polls |
| `LiveFeed` | a WebSocket client and its bounded queue with the poller |
| `MqttPublisher` | MQTT with discovery: background task, saves and tests |
| `ReadingsWebhooks` | timed posts to several endpoints by one task |
| `NotificationChannels` | the channels of alerts: stored, built, delivered to |
| `GridEvents` | outage detection, one insert per event |
| `SolarAssistantSource` | the device that is an MQTT client: connections, subscription, messages |
| `Storage` | the database file: migrations, backup, restore, crashes |
| `Dashboards` | dashboards: seeds, edits, upgrades, restores |
| `InverterClock` | the inverter's clock, set register by register while it runs |
| `Transport` | one connection used by several tasks without a lock: retries, pauses, close |
| `ProfileCodec` | profiles inherited, registers decoded, fields encoded; uses `RegisterBlocks` |
| `RegisterBlocks` | addresses clustered into blocks, as operators |
| `RegisterScan` | the scanner's sweep, isolation and verification; extends `RegisterBlocks` |
| `BusSniffer` | the scanner's passive mode |
| `Sums` | Python's `sum`, as a recursive function |
| `Tariff` | rates by time of use and season and counter differences, as operators |
| `DayStats` | the energy of a day as rollups keep it and statistics price and total it; extends `Tariff` |
| `TimerPlanner` | the arbitrage planner; extends `Tariff` |
| `BatteryProjection` | the forecast of the battery's charge and its daily report |
| `MCSettingsControl`, `MCAutomation`, `MCDeviceFleet`, `MCHistory` | instances for TLC of one component each |
| `MCTasks` | instances of what has to go on: extends `History`, instantiates `MqttPublisher` and `SolarAssistantSource` |
| `MCParts` | instances of the other small modules: extends `Storage`, instantiates the others |

The small modules share no state with each other; several only read the poller's snapshot.
`MCTasks` and `MCParts` therefore put them side by side and explore each alone: the variable `part`
names the one that moves, and the others keep one initial state. One run answers for all of them,
without the product of their states.

### SettingsControl

A settings field is a *lane*: a bit-field of a register, or the whole register when it is alone on
its address. Registers 280, 326 and 274 to 279 of `profiles/deye-base.yaml` hold several fields.
Bits that no field maps are lanes outside `Shown`. The wire carries whole registers, so that
`Encoded` takes the lanes a request does not ask for from the raw map the writer has read.

A task goes through `get` (a client reads the settings and their etag: `Browse`, `FinishGet`),
`Submit` (schema validation, 422), `before` (gather, compare the etag: `CheckEtag`, 412), `raw`
(second gather, then `RejectEncoded`, 422 or 400, or `Encode`), `write` (one run of adjacent registers after the
other), `after` (gather, `Verify`), `audit` and `done`. `ReadBlock` is one read transaction, and a
gather may see a different moment for every block. A write attempt has one of three ends:
`WriteAcked` (it took effect), `WriteRetried` (an error was seen, whether or not it took effect),
`WriteFailed` (the same, at the last attempt, which ends the request in an error). The Modbus RTU,
Modbus TCP and Solarman transports have the same retry loop; `WriteRetried` is mapped to the first,
`WriteFailed` to the second and `ReadFails` to the third. `Panel` is the inverter changing a setting
of its own accord.

`touched`, `held` and `dirty` are history variables: what the request changed, which asked values
were on the inverter since the write phase began, and what others changed since the raw read.

Abstracted: numeric scaling (a value either fits its register or is `WideValue`), hash collisions
of the etag, the in-memory branch of the simulator, and the tolerance of the read-back comparison.

### History

One row stands for all the metrics of a reading; a bucket is the set of rows it was computed from.
`StartPass`, `Skip`, `Write`, `WriteFails`, `EndPass` are `persist_once`; `Aggregate`, `Prune`,
`MaintainFails` are `maintain_once`; `Restart` may come at any time. `Publish` lets a reading
arrive up to `MaxGather` after its time, also after a newer one (`ensure_polled` beside the loop).
The clock does not run backwards, and the database is not replaced by a restore.

`RawOrRolledUp` has two conditions, which are those of the code: a row stored after the watermark
had left its day is never aggregated (`late`), and a silence of all devices longer than the retention less a day
lets retention reach into the watermark's day (`silent`). The run `history_kept` shows what happens then.

### AutomationRules and AutomationService

Conditions, actions, priorities and targets are data. `Settle` goes through all proposals in
order, as `evaluate_rules` does while it collects them, and `Contend` decides between one and the
winner so far; `TopOf` is the independent definition it is compared with. `Raises` tells when the lazy evaluation of a rule reaches a stored condition
that lacks its parameters, which `from_dict` does not reject.

A task runs device by device: `ReadRules`, `Decide` (context and decision) or `DecideRaises`, then
`Skip` or `Fire` for each notify and alert action, then `WriteSlot` and `RecordWrite` for each slot,
`NextDevice`. The decision stands through all of it while rules, readings and debounce times
change. A slot write is a whole run of `SettingsControl`, of which only the outcome counts here;
its own correctness is checked there, where the automation engine is one of the two writers.
Message texts are left out, and the notification channels are a module of their own
(`NotificationChannels`): whatever happens in them is caught and changes nothing here.

### DeviceFleet

A device object has the id of its row and a number, so that a device and its replacement differ.
`Look`, `Insert`, `Store`, `Erase` are the database jobs of a request, `TakeOut`, `Close`, `Add` its
registry steps, each ending at an await. A poll remembers the devices it started with; `Results`
pairs answers with the registry at the end, as `zip` does. `Start` requires that every row can be
built and every device connects, as `connect_all` does; `Stop` comes at any time and keeps the rows
only. A row is disabled, enabled, or enabled and `unbuildable`: no profile of that name, or a
parameter that is no number, which no request checks before it commits the row. `AddFails` is the
request that ends there, or with a connect that raises something else than a `TransportError`;
`CloseFails` is one whose `close` raises, which leaves the old device registered. After either the row
and the registry differ: `adrift` (history) holds the ids for which that is so until a request on the id
gets through or the process starts again, and `unclosed` the devices whose close raised. `Probe` and
`EndProbe` are the connection test, which opens a second device for a row and closes it whatever
came of it; a close that fails there is swallowed.

### The tasks that tell others: MqttPublisher, ReadingsWebhooks, GridEvents, LiveFeed

Small modules, each a task that takes the poller's snapshot and carries it on.

* `MqttPublisher`: `Publish` is `_build_messages` with the start of `publish_once`, for the
  background task (`Tick`) and for a test request (`Test`); `Published` and `PublishFails` are its
  two ends, the latter after any part of the discovery messages. `Save` and `Saved` are the two
  halves of `put_mqtt`, since the row is written before discovery is forced. Reading the
  configuration and building the messages is one step because database jobs are served in order
  by one thread. A publication that raises nothing is taken as delivered, although messages are
  sent with QoS 0.
* `ReadingsWebhooks`: one pass over the endpoints with the time it began, posts, and the sleep until
  the next endpoint is due. A post has no longest time, since the client's timeout is one of every connect,
  write and read; `MaxPost` is only a bound of the run, and `held` (history) is what the posts of the last
  pass took. `Skip` passes over an endpoint that is disabled or has no url. Times are kept as ages, capped by `AgeCap`, beyond which everything is due;
  the age of an endpoint that was never posted to is the uptime of the host, since the code compares
  the monotonic clock with 0.
* `GridEvents`: the detector steps one device after the other, in any order, by the metrics found when
  the pass began, and the insert of an event may fail, which ends the pass. The table of events is represented by the last event of each device.
* `LiveFeed`: the queue of eight snapshots is one of two here; a full one drops the newest.

* `NotificationChannels`: `Put` stores a configuration as one job of the database thread and reads
  it back as another (`RunJob`, `Resume`); a delivery keeps the channels it began with, because a
  reload makes a new dictionary. A channel is complete, half configured or switched off.

### Equipment: Transport, SolarAssistantSource, InverterClock, ProfileCodec

* `Transport`: every `await` of `_with_retries` is a place where another caller, or `close`, may
  come in. The history variable `wire` counts what really happened, for the statistics to be compared with.
* `SolarAssistantSource`: messages arrive on the MQTT library's thread; the library reconnects, and
  `OnConnect` is the callback that subscribes again. The broker publishes what it last had, again
  and again; `Drop` loses what is on its way.
* `InverterClock`: time is a number of three digits, one to a register; the inverter counts on
  between two writes. An acknowledged write may be ignored by the inverter, as in `SettingsControl`;
  the answer is `ok` then too. `spoilt` and `ignored` are history: a carry into a register that was
  already written, another request, or a failure; and a write that was ignored. In the code the writes are one transaction each, highest register first.
* `ProfileCodec` has two kinds of steps: the device changes its registers, and a request is written.
  `MetricsOf` resolves a chain of files. The decoder of metrics (`DecodeOne`, `Decoded`), that of
  settings (`DecodeSetting`) and the scanner's two (`DumpDecoded`, `MapDecoded`) are translations of four
  pieces of code that are compared with each other, and `EncodeSettings` is compared with what its fields
  mean. Words are of four bits instead of sixteen in the run, of any number in the proofs.

### The scanner: RegisterBlocks, RegisterScan, BusSniffer

`RegisterScan` is a sweep over an interval or over what the candidate map's variants need: a block that fails is
split into single registers, each retried; `Verify` tallies variants and picks the likely one.
`refused` and `noise` are the device's permanent gaps and the line's passing failures. `BusSniffer`
hears any part of a conversation; `unheard` and `unanswered` count what it missed.

### Storage and Dashboards

`Storage` has a file of committed statements and rows, the version the connection sees, and the
restore in its steps (`StartRestore`, `Truncate`, `Replace`, the migrations, `Assign`). `Crash` comes
anywhere, and another release may start afterwards. `hit` is history: the process ended in one of
the two windows named in the observations below. `Dashboards` has the rows, the seeds of a release and the
start that looks at them one after the other; a restored table may be older than both.

### The statistics: Tariff, DayStats, TimerPlanner, BatteryProjection

`Tariff` has the pure algorithms. `DayStats` drives `hourly_deltas` and `cost_of_deltas` with the
counter of an inverter: `Use`, `Reset` (its midnight, or a restart) and `SampleLow` (jitter) are the
equipment, `Sample` is what an hourly rollup keeps. Its history variables `used` and `after` are the
truth that the computed values are compared with; the tariff has seasons, of which one wraps the
year. The query's range includes the first hour of the next day, as the code's does. `TimerPlanner` applies
`plan_timer` to tariffs, outlooks and timer slots that change; in this code base the function is
exported and tested, and nothing calls it at run time. Hours are counted in half-hours, because the planner samples rates at
the half-hour; energy is in percent of the battery, so that conversion by capacity is left out;
estimated savings and reasons are left out. `BatteryProjection` adds one hour at a time, in whole
watt-hours, and makes the report of each day from points rounded to `Grain`, as `as_dict` does, which
are compared with the limit that is not rounded.

## Runs

| Run | Shows | States |
|---|---|---|
| `settings` | API and automation write two shared registers at once: refusals touch nothing, read-only bits survive, `ok` is true, changes are audited by name and result, and a field that was not asked for changes only if somebody else raced for it | 94,000 |
| `settings_serial` | with one writer and an active panel the path implements `SettingsStore`; every request ends | 5,700 |
| `settings_stale` | *violated*: a stale edit gets past the etag | |
| `history_kept` | *violated*: a rollup bucket is overwritten from a half-pruned day | |
| `automation` | winners are the top proposals, firings keep their distance, every slot is written and recorded, runs end | 142,000 |
| `automation_edits` | *violated*: overlapping edits of two rules, one is lost | |
| `automation_alerts` | *violated*: an alert action never reaches the inbox | |
| `fleet` | registry follows the rows unless an exception ended a request on them, no connection leaks unless its close raised, readings are lost only by a removal, connected devices keep being read | 212,000 |
| `fleet_races` | *violated*: creating and deleting a device at once leaves it registered without a row | |
| `tasks` | `mqtt`: what the signature stands for is announced or was lost with a failure, and is announced again in the end; `history`: no stored row is lost, all resolutions hold the same rows, rollups catch up; `source`: after the last lost connection the metrics are those the broker publishes | 208,000 |
| `parts` | `webhooks`: posts are late only by what the posts of two passes took; `grid`: the log follows the grid; `feed`: a live client shows the latest snapshot; `notify`: every channel gets the alert; `storage`: the database opens again with what was acknowledged; `dashboards`: edits survive; `clock`: a sync that says ok has set the clock, unless it was disturbed or a write ignored; `day`: energy is priced in its own hour and none is made up; `planner`: windows are the longest, a plan carried out is not proposed again; `projection`: energy balances, the report agrees as far as a limit rounded up allows; `transport`: statistics are what happened, nothing is sent after a close; `codec`: writes are local, decoders agree; `scan`: verdicts are true, words of one value are read together; `sniff`: words are placed where they were asked for | 1,034,000 |
| `day_totals` | *violated*: the total of a past day is the next day's | |

The violated properties quote a document or a comment; `findings` in `PROJECT.json` gives the
line and what the code does instead.

Bounds, and why they are enough:

* **settings**: two writers are the API and the automation engine; two registers that are not
  adjacent give two runs, so that one can fail after the other, and two blocks, so that a gather
  can be torn; four lanes give a shared register with two writable lanes and one with a writable and a
  read-only lane; two attempts per transaction give one retry and one failure. The requests cover both
  registers at once, one lane, and each refusal. `settings_serial` makes two requests in a row.
* **automation**: two devices, two tasks, one tick of the clock, one edit and one reading suffice
  for a decision to be overtaken; two slots let one fail while the other waits; the rules give a conflict, a tie, a
  blocked target, a debounced action and a malformed condition.
* **fleet**: two devices (the simulator, which always connects, and one that does not always), one
  client with two requests, a poll loop and a poll made by a request, two starts; a row that cannot be
  built, a connect and a close that raise each need one request only. With two clients
  `RegistryFollowsRows` and `NoStrayConnection` do not hold (`fleet_races`).
* **tasks**: for `history`, a day of four ticks in hours of two keeps the ratio that matters (the
  widest bucket is a multiple of the others); a retention of five exceeds a day, as 14 days do; three
  readings and eight ticks let a row be stored, rolled up, pruned and followed by another, with one
  fault. For `mqtt`, two sensors and two brokers let an announcement be partial and a publisher change
  its target; one fault. For `source`, two inverters that share a metric, a topic that is passed
  through and one that is none; one message on its way, two changes and one lost connection.
* **parts**: `webhooks` two endpoints, one faster than the smallest interval, and posts that take as
  long as it, so that the endpoint after a slow one is overdue within the pass; `grid` two devices, so that a failed insert cuts one off; `feed` a queue of two that
  six polls overflow; `notify` two requests that overlap, two deliveries, and a configuration with
  a complete, a half and a switched-off channel; `storage` three migrations, the first and last of
  two statements, so that a crash can fall inside, between and after, and three crashes; `dashboards`
  two releases, of which the second takes an id that users could use, four starts and four edits;
  `clock` a base of three, so that four ticks carry through two registers, and two syncs at once;
  `day` three hours, which are a first, an inner and a last one, one reset and one low reading;
  `planner` five hours with up to two windows of eighteen, which give wrapping, overlapping, empty and
  half-hour windows; `projection` three batteries, limited by power, by size and by both, whose limits the grain of three rounds
  up, keeps and rounds down, and five hours over more than one day; `transport` two callers, three attempts, so that a pause is followed by another,
  and three transactions; `codec` a base profile and a child that adds, disables and moves metrics,
  three registers of three values each; `scan` eight registers in blocks of three, two variants and
  five devices, more noise than retries; `sniff` two slaves, two tables, runs that differ in start and length, four requests.

Fairness. `settings_serial` assumes that the steps of a submitted request are taken: every await
returns, since reads and writes time out and retries are counted.
`automation` assumes that a task's awaits return. `fleet` assumes that the poll loop goes on and
that requests are served. `tasks` assumes that the persistence loop goes on (it sleeps a bounded
time, and its database jobs return or raise), that the publisher's loop ticks, that publications
end (the MQTT client gives up a broker that does not answer within its keepalive), that a save goes
on after its row is written, and of the Solar Assistant source that the network comes back in the
end, the library's thread runs and reconnects, and the broker publishes every topic again and again
(strong fairness, since a topic can only be published to a client that is connected). Nothing is
assumed of clients, of equipment, of failures or of restarts. `parts` has no liveness.
Runs of a bounded world end, so deadlock is checked only in `fleet`, where polls never end.

## Proofs

Every theorem is about the specification of a component, for every value of its constants that
satisfies the component's assumption. The assumptions give the types of constants and say that
markers (`None`, `Closed`, ...) are no values; a run evaluates each of them. Four theorems need
more, and say so. Three need one writer, or one client, and runs that expect a violation show why; the
fourth needs that the scanner's clusters bridge a gap of at least one, since with `--cluster-gap 0` no two
addresses share a block.

| Theorem | Shows | Beyond the component's assumption |
|---|---|---|
| `SettingsControlProofs!TypeCorrect` | `TypeOK` | |
| `RefusalSafe` | `RefusedTouchesNothing` | |
| `ReadOnlySafe` | `ReadOnlyLanesKept` | |
| `OkIsTrue` | `OkMeansTaken` | |
| `CollateralNeedsRace` | `CollateralOnlyIfRaced` | |
| `ChangesAudited` | `TouchedIsAudited` | |
| `ImplementsStore` | `StoreImplemented`: the write path implements `SettingsStore` | `Serial`, `PanelAlone` |
| `TasksProofs!HistoryTypes` | `TypeOK` | |
| `NothingLost` | `RawOrRolledUp` | |
| `LossNeedsSilence` | an aggregation drops rollup rows only after a silence | |
| `DeviceFleetProofs!FleetTypes` | `TypeOK`, one device of an id in the registry among it | |
| `ReadingsArePublished` | `LossNeedsRemoval` | |
| `RegistryFollows` | `RegistryFollowsRows` | `Lone` |
| `ConnectionsAreOwned` | `NoStrayConnection` | `Lone` |
| `AutomationServiceProofs!SlotsAllWritten` | `EverySlotWritten` | |
| `FiringsAreSpaced` | `FiringsSpaced` | |
| `WinnersAreTheTop` | `WinnersAreTop` | |
| `TasksProofs!Announced` | `TypeOK`, `AnnouncedOrLost` | |
| `PartsProofs!LatestShown` | `ShowsLatest` | |
| `LogFollows` | `LogFollowsGrid` | |
| `AlertsArrive` | `AlertsReachChannels` | |
| `PostsAreInTime` | `PostedInTime` | |
| `AlwaysSurvives` | `SurvivesRestart` | |
| `DashboardsKept` | `EditsKeptAndBuiltinsShown` | |
| `SyncsSetTheClock` | `SyncSetsClock` | |
| `EnergyProofs!EnergyIsKept` | `EnergyBalances` | |
| `ReportIsTrue` | `ReportAgrees` | |
| `NoEnergyInvented` | `NoInventedEnergy` | |
| `EnergyIsPriced` | `PricedAtOwnHour` | |
| `WindowsLongest` | `WindowsAreLongest` | |
| `PlansSettle` | `PlanSettles` | |
| `RegisterProofs!StatsMatch` | `StatsMatchWire` | |
| `ScansAreTrue` | `VerdictsAreTrue` | |
| `WordsAreTogether` | `WordsTogether` | `ClusterGap # 0` |
| `WordsPlacedRight` | `PlacedRight` | |
| `WritesAreLocal` | `WriteIsLocal` | |
| `DecodersShowTheSame` | `DecodersAgree` | |
| `PartsTyped` | `PartsTypeOK`: the types of all parts | |

The theorems of `TasksProofs`, `PartsProofs`, `EnergyProofs` and `RegisterProofs` speak twice of a property: under the
component's own specification, and under that of the run that explores it beside the others, of
which each step is one of the component or leaves it alone (`OnlyTasksMove`, `OnePartMoves`).

Few of the properties are inductive. The arguments:

**SettingsControl**

* `TypeInv` adds to the types what a phase guarantees (`Phase`): a request that is carried out is
  valid, a task that writes holds a complete raw map, and asks for no value too wide. Without it
  `Encoded` may be no register value.
* `RefusedTouchesNothing` follows because the phases in which a request may be refused come before
  its first write, which `Phase` says of `touched`.
* `FixedInv`: not only the registers but every copy a writer holds has the factory value in the
  lanes that nobody may write. The copy is what the next whole-register write sends back.
* `NotedInv`: during read-back, an asked lane that has been read with the asked value is among the
  values that were held.
* `AgreeInv`: from the raw read to the last write, a writer's copy agrees with the registers in every
  lane it was not asked to change, unless somebody else changed it. `NoCollateral` follows, and from it the action
  property.
* `AuditInv` gives `TouchedIsAudited`: a request touches and writes only registers it asks for, every
  way out of the write phase leads through `audit`, and the row carries the outcome and, unless that is an
  error, a field of every register that was changed. No other writer disturbs that (`OthersAudited`).
* The refinement shows each write of a run to be the step of the store that gives the asked lanes of
  the run their asked values (`WriteApplies`), and all else but the panel to be a stutter
  (`StepImplements`). It needs that a writer's copy agrees with the registers without exception, which
  holds when there is one writer (`Serial`) and no writable lane shares its register with a lane that
  the inverter changes itself (`PanelAlone`; `AloneInv` says that only such lanes are `dirty`). Otherwise a
  whole-register write may put back what another has changed meanwhile, and `CollateralOnlyIfRaced` is
  what holds.

**History.** `RawOrRolledUp` compares several tables and is far from inductive. `KeptInv` adds the watermark:
unless the devices were silent too long, a row before the start of the watermark's day is in every
rollup table, and a later one is still raw (`PlacedInv`), except what came after its day had been
passed (`LateInv`); and the tables hold nothing that was not stored (`OriginInv`). Aggregation drops and
recomputes whole buckets from the start of that day, so that it has to be shown that the start of a
day is the start of a bucket of every resolution (`DaysAreBuckets`, from widths that divide the day),
and of pruning that its limit lies before the day of the watermark (`PruneKept`). `LossNeedsSilence` is
the positive side of the run `history_kept`: rollup rows disappear only after such a silence.

**DeviceFleet.** The types say what the code relies on: no two devices of an id are registered,
whatever overlaps. `PollInv` says that the devices a poll began with have different ids and that it has
read some of them; when the registry has not shrunk, each that was read is published as itself. For the other two
theorems the inductive invariant is `FleetInv`: between requests, the registry holds exactly the
enabled rows (`RowsInv`), during a request they differ in its own id at most, and `JobInv` says how,
phase by phase; only registered devices, and the one of a connection test under way, have
a connection (`ConnInv`); nothing is connected after a stop (`DownInv`). All of it leaves out the ids
`adrift` and the devices `unclosed`: a request that is ended by an exception adds its id or its device in the same step,
and one that gets through brings row and registry together before it takes the id out again. TLC has checked `FleetInv`
on an instance with one client, three requests and the loop. For two clients it is false, as run `fleet_races` shows, hence `Lone`.

**AutomationService.** `WorkInv`: every slot that was decided on is still to write, on its way to its
audit row, or recorded; the decision is made of what the task has read, so that edits and readings
change nothing under way. `FiringsSpaced` follows from `DebounceIsKept`: the engine's debounce times
are the times of the firings, whatever order they come in.

`WinnersAreTop` is a fact about the rule engine: `Settle` is a recursive function, and by induction over
the proposals the winner of each target leads all rivals so far (`Won`, `ContendWins`, `SettleIsTop`). The
prover has no induction over an operator, but the library's `WFMin` is about sets: `Induction!UpTo` says
that a set which holds 0, and each number with its predecessor, holds all numbers up to a bound, and
`Induction!Recursion` that a function may be defined by steps, without which a recursive definition
is a `CHOOSE` of which nothing is known. `RulesInv` adds that whatever is stored, read or under edit
is made of the first rules and the editors'.

**MqttPublisher.** `AnnouncedOrLost` is inductive together with the types: an announcement is
retained, lost with a failure, or on its way (`OnTheWay`), also while publications of the background task
and of tests overlap.

**NotificationChannels.** `QueueInv`: the last result the event loop has to see is the configuration
that is stored, so that the service has built its channels of it when it has seen all.
`DeliveryInv`: each channel of an alert is sent, failed, or still to come.

**LiveFeed.** `FeedInv`: what is still to come to a client, the frame on its way and its queue, ends with
the latest snapshot, unless one was dropped; so that a client that has been sent everything shows it.

**GridEvents.** `GridInv`: what the detector holds of a device is what its metrics last said, and the
event on its way to the table agrees with it; the last event that was not lost is therefore right.

**ReadingsWebhooks.** The bound of `PostedInTime` has three parts, one for each moment of the loop:
`WaitInv` says how long an endpoint can have waited while the task sleeps, while the pass has it still
before it, and after the pass has passed it. `PassInv` ties that to what the code knows: an age is never less
than the wait. Delays are counted, not bounded: `held` is what the last pass took and `begun` what the pass at
hand has taken, and what older passes took is in neither. `MaxPost` only keeps `AgeCap` out of the way.

**InverterClock.** Time is a number and the registers hold its digits (`Quotient`, `NumberDigits`).
`ClockInv`: of an undisturbed sync, the registers written so far hold the digits that were encoded,
and the clock has gone on by no more than the time the sync has taken, because it has not carried (`AsWritten`).
Undisturbed (`Undisturbed`) is a sync that is neither `spoilt` nor `ignored`; of any other nothing is claimed.

**Transport.** `LineInv` counts: what was sent is what was answered, failed or is open, with the open and
the waiting callers as cardinalities; a caller that waits has attempts left.

**BatteryProjection.** Every part of an hour (`Share`) fits between the limits of the battery and of its power
(`ShareFits`), so that the parts add up; the report's minimum is that of the points (`WFMin`), and rounding
is monotone (`RoundsDown`, `RoundsInOrder`). Where the limit is rounded up, the points, which are not below it, are
rounded to more than it, so that no day is called depleted; `ReportTrue` has that case and the other.

**Tariff and DayStats.** What is computed along a list (`Total`, `Buckets`, `CounterToWh`) is a recursive function; that
it exists, and so is what its steps say, is `Induction!Recursion` again (`AddsExists`, `TotalAdds`, `SumsAgree`, `BucketsGather`).
The sum of the increments is not bounded by an invariant of its own, because one reading may
replace another: `DayInv` says of *every* list of points that the hours give (`Within`) what the increments up to its last point
and what may have been used since then (`SinceRead`) come to, at most `after + dips`. Each action keeps that
(`CounterMoves`, `CounterIsRead`), a reset because an increment after it is at most the counter, jitter because a reading that is
one too low is made up for by one dip. For `PricedAtOwnHour` the hours read are all hours so far (`BucketsFull`), increments are
the energy used (`UsedAdds`), and the test for a season that the code makes is the list of its months (`SeasonMonths`,
for months 1 to 12, as the code's docstring has them and `DayAssumption` says).

**TimerPlanner.** A stretch of hours on the circle lies within one run of the doubled day (`RunHolds`); runs have a longest
(`LongestRun`), and an arc has as many hours as it is long (`ArcSize`, `ModDiffers`), so that no stretch is longer than the
window (`WindowIsLongest`). A run longer than a day is one at one rate all day, which `WindowsAreLongest` excepts. `PlansSettle` needs of
`PlanInv` only that a plan under way is that of its tariff, its outlook and the slots: once its changes are made,
none are left to propose (`PlanApplied`).

**RegisterScan.** `Tiles` says of the planned blocks, by induction over the addresses (`ClustersTile`) or by division
(`SweepTiles`), that they ascend, cover the addresses, and part two adjacent ones only where a block is full.
`ScanInv` then needs one number, the blocks that are done: the blocks left are those after it, what was
reached of the blocks before and of the current one (`Reached`) is read or listed and nothing else is, all words of
a block that did not fail have one moment, and a transaction has failed no more often than the line or the device
made it. The verdict is true because `Better` compares shares, which are ordered totally (`NoLessTotal`,
`NoLessTransitive`), so that one variant is best (`BestIsBest`), and a share without a refusal is as
large as any (`VerdictTrue`).

**BusSniffer.** `SniffInv`: the request the sniffer takes an answer for is the one that is being answered, unless
it missed an answer; and the one that is asked is pending, unless it was not heard.

**ProfileCodec.** Nothing of the library says what `2 ^ n` is, except that a set of `n` elements has that many
subsets; `PowerStep` takes `2 ^ (n + 1) = 2 * 2 ^ n` from there. Then a number below `2 ^ n` is its bits (`SameBits`,
`BitsBelow`), `Word` of a set of bits has those bits (`WordHasBits`), and a field shows the bits of its mask only
(`DecodeByBits`). `EncodeLocal` is `WriteIsLocal` for one field: it reads back, and the other bits stay. For a request the
induction is over its fields: what was set so far stays set, because the fields of a register share no
bit (`SetSoFar`, `KeptOn`, `WritesKept`). `FieldAssumption` says that, and that the values that validation lets through fit their
masks: both are so in `profiles/deye-base.yaml`, except for the field named in the observations.
`DecodersAgree`, first part: the blocks hold all words asked for (`BlocksHold`, from the scanner's `ClustersTile`,
since both cluster alike), so that every metric that is not disabled is decoded (`DecodedIfRead`). Second part: a metric
that no file overrides is the same for the driver and the dump (`SameSpecs`, by induction over the files), and of several
words the two combine the same bits, one by addition and one by union (`JoinedBits`). `ProfileAssumption` asks that metrics are
spelt with as many addresses as their type has words, that addresses are words, and that no file defines
the derived total.

**Storage.** `SoundInv`: while the process migrates, the file holds exactly the statements of the versions up
to `version` and the first `done` of the next script (`StepsTo`), whatever version is committed;
in every other phase, and in every backup, it is `Whole`. Therefore no statement is run twice,
unless a crash came while the file held statements beyond its committed version, which is one of
the two windows of `hit`. `TypeInv` adds that the program never works on a torn file.

**Dashboards.** `KeptInv`: not only the table but the backup holds each edit, and beside the edits only seeds of
builtins; since the builtins of a release are those of the next too, an old backup still does.

Only model-checked are: liveness (`EveryRequestAnswered`, `CatchesUp`, `RunsEnd`, `EventuallyRead`,
`Cures`, `ShowsBroker`), which is out of the prover's reach. Every other property of a run that passes is proved; what
the runs that expect a violation check is false. Algorithms over lists are written as recursive
functions instead of folds, which take an operator as a parameter that the prover cannot expand.

Every module with variables states a `TypeOK`. Those of `SettingsControl`, `History`, `DeviceFleet` and `MqttPublisher` are
proved, and so is `PartsTypeOK`, those of all parts of the run `parts`. They say more than the properties
need, and so each takes facts of its own: the loop never finds an endpoint due in less than a second
(`OutTyped`); what the planner wants is two slots, with a rounded charge and times of
the windows (`WantedTyped`, `PlanTyped`); retries are at most `Attempts - 1` for each transaction, counting those that
may still come (`ToRetry`, `LineTyped`); a block begins and ends with an address asked for, so that every address of a block is one of the
scan's range, for any list of blocks that is split and split again (`TilesInRange`, `ScanTyped`). Those of
`AutomationService` and `SolarAssistantSource` document the variables, and no run's verdict depends on them.

## Not modelled, and what is next

Next: the client side of the live view (`live.service.ts`), a socket, a fallback that polls over HTTP,
and reconnection, whose answers may overtake each other; it extends `LiveFeed`.

Not modelled: the wire protocols (third-party libraries); formatting of messages and metrics; the
estimates of generation and load and their calibration, derived metrics and economics
(floating-point arithmetic on one input, with caches that the observations describe); the
simulator's curves; reading profiles and environment from files; host diagnostics and the firmware
check, which only read; the scanner's diffs, labels and command line, which only print; the web
frontend (it appears as the client of the API); the manual tests of webhooks and of channels, which
change no state.

Known limits of the models, besides those named above: an insert that fails in the middle of a
reading (a NaN value) leaves rows in the open transaction, which `History` cannot tell; devices created
while their equipment is off are never connected again, so that `EventuallyRead` speaks of connected devices;
which device's metrics a rule sees when the device has no reading is modelled as it is (`MetricsOf`) and no
property is stated about it; the audit row of a failed write names no changes; a restore is part of
`Storage`, `Dashboards` and `NotificationChannels`, but `History` and `DeviceFleet` know none.

## Observations without a run

Places where the code does something a reader may not expect, met while modelling. The properties
above are stated so that they hold with them.

* `integrations/mqtt.py:227`: the signature is set before the messages are published. After a
  publication that fails, sensors stay unannounced until the shape of the readings changes, the
  configuration is saved, a test is made or the process restarts. The comment at line 168 calls it
  the signature of the *last-published* discovery set. Hence `lost` in `AnnouncedOrLost`.
* `integrations/readings_webhook.py:35,107`: an endpoint is marked as served at the time the pass
  began. With three endpoints, the first of them slow, two posts to the last can be closer than
  `MIN_INTERVAL_S`. `PostedInTime` bounds lateness only.
  The client's timeout of ten seconds (line 43) is one of each connect, write and read, and the posts of a pass follow
  each other: an endpoint that dribbles its answer holds up all others for as long as it likes. Hence `held`
  and `begun` in `PostedInTime`, instead of a time.
* `main.py:1070-1085`, `devices/factory.py:84-133`: a device request commits the row and then builds and connects the
  device. If the profile does not exist or a parameter is no number, the request ends in a 500, the row stays, and the
  next start of the process fails on it; so may a connect that raises something else than a
  `TransportError` leave a row without a device. A `close` that raises leaves a deleted or disabled device
  registered and polled. Hence `adrift` and `unclosed` in the properties of `DeviceFleet`.
* `stats.py:81`: increments are taken between the last values of hours, so that what was used
  before the end of the first hour with a reading is not in the day's cost. Hence `PricedAtOwnHour`
  leaves out the first hour.
* `automation/planner.py:137-138`: the target is clamped to the battery's band, then rounded; with a
  step of 5 and a maximum of 98 it may be 100.
* `repository.py:371-375` with `stats.py:86-90`: not only the totals (run `day_totals`) but the peak of
  `peak_pv_w` and the prices of a past day take the first bucket of the next day too. Hence
  `PricedAtOwnHour` speaks of a day that lasts.
* `storage/db.py:93`: a crash, or a full disk, between truncation and the end of the write loses both
  the old database and the upload; after a failed write the process stays without a connection.
  `storage/migrations.py:159`: each statement of a script commits by itself and the version after it,
  so that a crash in between makes every later start fail on `CREATE TABLE`, although line 17 calls
  the scripts idempotent-friendly. Hence `hit` in `SurvivesRestart`.
* After a restore the alert channels, the registry and the dashboards' seeds are those of before until
  the next start; `AlertsReachChannels` excepts it. A builtin dashboard that nobody edited keeps the seed of the release that first wrote it.
* `devices/base.py:188`: a clock that carries while it is set may be left wrong by a whole digit; after a
  failure the registers that were written stay. A read-back that fails after the writes is caught by
  nobody, so that the request ends in a 500 although the clock is set. An inverter that acknowledges the writes and
  ignores them is answered for with `ok` as well, since the drift that is read back is passed on and not looked at
  (`main.py:876-878`). Hence `spoilt` and `ignored` in `SyncSetsClock`.
* The transports have no lock. A close during a pause between attempts makes the remaining attempts
  fail; an answer with too few registers is neither retried nor counted as a failure.
* `devices/sa_mqtt.py`: the metrics of two inverters have one key, and the last message wins; metrics
  stay when the broker is gone, without an age; a payload `nan` is a number to `float`.
* `tools/regscan.py:1466`: the dump says it uses the profile's own scale, offset and type, but it ignores
  `overrides:` and metrics disabled with `addr: -1`, reads a 32-bit value with a single address as one
  word, and the masks of `bits` and `high_first` not at all; `DecodersAgree` compares what they have in common.
  The sniffer puts the registers of all slaves into one map; verification from a snapshot counts
  unreadable addresses of any table.
* `forecast/battery.py`: the projection begins at midnight with the charge of now; `service.py:161`
  compares rounded charges with a limit that is not rounded. A day may be called depleted that is not, when its lowest
  charge is rounded down to the limit; and when the limit itself is rounded up, no day is ever called
  depleted, although the projection says when the battery is. `ReportAgrees` states both; the expected energy of a day leaves out the hour before midnight.
* `derived_stats.py:8` says the derived metrics are in lock-step with the daily statistics; they are
  those of the last refresh, also shortly after midnight. `forecast/openmeteo.py:80-88`: a refresh
  that fails returns what the cache held before the request, although another request may have
  filled it meanwhile.
* `devices/yaml_profile.py:248`: a `u16` setting is decoded without its mask. `meter_phases`
  (`profiles/deye-base.yaml:443`, mask `0x000C` of register 326) therefore shows the bits of other fields of the register
  too, so that it is not always one of the 0 and 12 that its comment lists. `FieldAssumption` gives a `u16` field its whole
  register.
* `devices/yaml_profile.py`: profiles that extend each other in a circle are not refused, and end in a RecursionError.
