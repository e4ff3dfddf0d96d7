-------------------------------- MODULE MCParts --------------------------------
(***************************************************************************)
(* Instances of the parts of the system that share no state with each      *)
(* other.  Each is explored on its own: part names the one that moves,     *)
(* while the others stay in their initial state.  Storage is extended, the *)
(* others are instantiated.                                                *)
(*                                                                         *)
(*   webhooks, grid, feed, notify   what leaves the process                *)
(*   storage, dashboards, clock     the database file, rows of it; the     *)
(*                                  inverter's time                        *)
(*   day, planner, projection       energy, tariffs, forecast              *)
(*   transport, codec, scan, sniff  a device's connection, its registers,  *)
(*                                  and the tools that find them           *)
(***************************************************************************)
EXTENDS Storage, Integers

CONSTANTS
  Endpoints, Configured, MinInterval, Default, MaxPost, AgeCap, Homes, Reports, QueueSize, MaxPolls,
  Requesters, Deliverers, Channels, ChannelConfigs, Selections, Half, Off, MaxPuts, MaxAlerts, MaxRestores,
  Pages, Builtins, Layouts, MaxEdits, MaxStarts,
  DigitBase, Times, Skews, MaxTicks, MaxSyncs, MaxFaults,
  DayHours, Tariffs, Months, DayStarts, MaxUse, MaxOdd,
  Hours, Windows, MaxWindows, Flat, Outlooks, Battery, Strategy, Batteries, Charges, Hourly, MaxPoints, Grain,
  Callers, Attempts, MaxCalls,
  WordBits, HourUnit, Gap, MaxBlock, Trackers, PvTotal, RegisterSpace, DeviceWords, Profiles, Fields, Values, MaxAsked,
  BlockSize, ClusterGap, Retries, MinAttempts, MaxNoise,
  FirstAddress, LastAddress, Variants, Map, Devices,
  Slaves, Tables, Reads, MaxRequests,
  Closed

VARIABLES part,
  wanted, age, pass, posting, sleep, waited, fresh, held,
  grid, known, todo, event, logged, verdict, missed,
  polls, queue, frame, seen, dropped,
  stored, jobs, results, channels, delivery, puts, alerts, restores,
  shown, serving, unseeded, program, saved, edited, edits, starts,
  now, rtc, job, answer, ticks, syncs, faults,
  prices, month, hour, start, counter, last, used, after, resets, dips,
  tariff, outlook, slots, plan,
  battery, soc, points,
  link, call, outcome, stats, wire,
  chain, raw,
  refused, needed, blocks, single, attempt, values, unreadable, moment, noise, cut, likely,
  asked, pending, mapped, requests, unheard, unanswered

----------------------------------------------------------------------------
(* Values of constants.                                                    *)

MCEndpoints  == <<"nodered", "slack">>
MCConfigured == [nodered |-> 1, slack |-> 4]

MCReports ==
  {[run_state |-> "on_grid", voltage |-> None], [run_state |-> "off_grid", voltage |-> "up"],
   [run_state |-> None, voltage |-> "down"], [run_state |-> None, voltage |-> None]}

\* Channels that are complete, switched off or half configured, in two versions.
MCChannelConfigs ==
  {[hook |-> 1, telegram |-> 1], [hook |-> Off, telegram |-> 2], [hook |-> 2, telegram |-> Half]}
MCSelections == {<<"hook", "telegram">>}

\* The second release has a builtin of an id that users may have taken.
MCBuiltins == <<<<"now">>, <<"now", "history">>>>

MCScripts == <<2, 1, 2>>
MCSkews   == {-4, 2, 7}

Window(a, b, r) == [start |-> a, end |-> b, rate |-> r]

\* A night rate that wraps; a winter that does, with overlapping windows and a gap; a summer.
MCTariffs ==
  {[import  |-> [flat |-> 3, windows |-> <<Window(2 * DayHours - 2, 2, 1)>>], export |-> << >>,
    seasons |->
      <<[start |-> 11, end |-> 2, export |-> [number |-> 1],
         import |-> [flat |-> 2, windows |-> <<Window(2, 2 * DayHours - 2, 1), Window(0, 4, 5)>>]],
        [start |-> 1, end |-> 7, export |-> << >>, import |-> [number |-> 4]]>>]}

\* Windows that begin and end on full and half hours.
MCWindows  == {Window(a, b, r) : a \in {0, 3, 8}, b \in {1, 4, 10}, r \in {1, 3}}
MCOutlooks == {[pv |-> 40, load |-> 10], [pv |-> 0, load |-> 33], [pv |-> 10, load |-> 95]}
MCBattery  == [min_soc |-> 10, max_soc |-> 98, max_charge |-> 5, max_discharge |-> 6]
MCStrategy == [ceiling |-> 100, reserve |-> 20, min_spread |-> 2, step |-> 5]

\* A battery that is limited by its power, and one by its size.
\* Limits that are rounded up, kept and rounded down by the grain of three.
MCBatteries ==
  {[min |-> 2, max |-> 10, charge |-> 3, discharge |-> 4],
   [min |-> 3, max |-> 9, charge |-> 8, discharge |-> 8],
   [min |-> 4, max |-> 10, charge |-> 5, discharge |-> 3]}
MCHourly == {[pv |-> h[1], load |-> h[2]] : h \in {<<0, 5>>, <<7, 0>>, <<4, 2>>, <<1, 2>>, <<0, 0>>}}

\* Metrics of every type, in a base file and a child that adds, disables and moves some.
Metric(addrs, type, scale, offset) ==
  [addrs |-> addrs, type |-> type, scale |-> scale, offset |-> offset, names |-> <<"on", "off">>]
MCBaseProfile ==
  [metrics |-> [pv1    |-> Metric(<<0>>, "u16", 2, 1),
                temp   |-> Metric(<<0>>, "s16", -1, 0),
                energy |-> Metric(<<1, 0>>, "u32", 1, 0),
                faults |-> Metric(<<0, 1>>, "bits", 1, 0),
                state  |-> Metric(<<1>>, "enum", 1, 0)],
   overrides |-> << >>]
MCChildProfile ==
  [metrics |-> [pv2   |-> Metric(<<1>>, "u16", 2, 1),
                power |-> Metric(<<1>>, "s32", 1, 0)],
   overrides |-> [temp |-> [addrs |-> <<-1>>], state |-> [addrs |-> <<0>>]]]
MCProfiles == {<<MCBaseProfile>>, <<MCBaseProfile, MCChildProfile>>}

Field(addr, type, mask, scale, offset) ==
  [addr |-> addr, type |-> type, mask |-> mask, scale |-> scale, offset |-> offset]
MCFields ==
  {Field(0, "bool", 1, 1, 0), Field(0, "bool", 8, 1, 0), Field(0, "bits", 6, 1, 0),
   Field(1, "s16", 15, 2, 1), Field(2, "time", 15, 1, 0)}
MCValues ==
  [f \in MCFields |->
    CASE f.type = "bool" -> BOOLEAN
      [] f.type = "bits" -> 0..3
      [] f.type = "s16"  -> {-20, -3, 0, 1, 2, 8}
      [] f.type = "time" -> {<<0, 3>>, <<2, 1>>}]

\* Two variants of an inverter, and devices that have neither, one or both.
MCVariants == <<"one", "three">>
MCMap      == [one |-> <<{0}, {1, 2}, {3}>>, three |-> <<{0}, {4, 5}, {7}, {1}>>]
MCDevices  == {{}, {2}, {4, 5}, {0, 7}, {1, 2, 3}}

MCReads == {[start |-> 0, count |-> 1], [start |-> 1, count |-> 2]}

----------------------------------------------------------------------------
(* The parts.                                                              *)

Webhooks == INSTANCE ReadingsWebhooks WITH Idle <- None
Grid     == INSTANCE GridEvents
Feed     == INSTANCE LiveFeed
Notify   == INSTANCE NotificationChannels
              WITH Clients <- Requesters, Runs <- Deliverers, Names <- Channels,
                   Configs <- ChannelConfigs
Boards   == INSTANCE Dashboards
              WITH Ids <- Pages, rows <- shown, running <- serving,
                   release <- program
Clock    == INSTANCE InverterClock
              WITH Clients <- Requesters, Base <- DigitBase, Writable <- TRUE
Day      == INSTANCE DayStats
              WITH Hours <- DayHours, Starts <- DayStarts, NoReading <- None, tariff <- prices
Planner  == INSTANCE TimerPlanner
              WITH NoPlan <- None
Project  == INSTANCE BatteryProjection
              WITH Starts <- Charges, FirstHour <- 0
Line     == INSTANCE Transport
Codec    == INSTANCE ProfileCodec
              WITH Hour <- HourUnit, PvPowers <- Trackers, Registers <- RegisterSpace, Words <- DeviceWords
Scan     == INSTANCE RegisterScan
              WITH Floor <- MinAttempts, todo <- blocks
Sniff    == INSTANCE BusSniffer
              WITH Polls <- Reads, MaxPolls <- MaxRequests, polls <- requests

ASSUME PartsAssumption ==
  /\ Webhooks!WebhookAssumption /\ Grid!GridAssumption /\ Feed!FeedAssumption /\ Notify!ChannelAssumption
  /\ StorageAssumption /\ Boards!DashboardAssumption /\ Clock!ClockAssumption
  /\ Day!DayAssumption /\ Planner!PlannerAssumption /\ Project!ProjectionAssumption
  /\ Line!TransportAssumption /\ Codec!CodecAssumption /\ Scan!ScanAssumption /\ Sniff!SnifferAssumption

webhookVars == <<wanted, age, pass, posting, sleep, waited, fresh, held>>
gridVars    == <<grid, known, todo, event, logged, verdict, missed>>
feedVars    == <<polls, queue, frame, seen, dropped>>
notifyVars  == <<stored, jobs, results, channels, delivery, puts, alerts, restores>>
boardVars   == <<shown, serving, unseeded, program, saved, edited, edits, starts>>
clockVars   == <<now, rtc, job, answer, ticks, syncs, faults>>
dayVars     == <<prices, month, hour, start, counter, last, used, after, resets, dips>>
plannerVars == <<tariff, outlook, slots, plan>>
projectVars == <<battery, soc, points>>
lineVars    == <<link, call, outcome, stats, wire>>
codecVars   == <<chain, raw>>
scanVars    == <<refused, needed, blocks, single, attempt, values, unreadable, moment, noise, cut, likely>>
sniffVars   == <<asked, pending, mapped, requests, unheard, unanswered>>

outVars      == <<webhookVars, gridVars, feedVars, notifyVars>>
hostVars     == <<storageVars, boardVars, clockVars>>
energyVars   == <<dayVars, plannerVars, projectVars>>
registerVars == <<lineVars, codecVars, scanVars, sniffVars>>
vars == <<part, outVars, hostVars, energyVars, registerVars>>

\* A part that does not move has one initial state.
PartsInit ==
  /\ part \in {"webhooks", "grid", "feed", "notify", "storage", "dashboards", "clock",
               "day", "planner", "projection", "transport", "codec", "scan", "sniff"}
  /\ Webhooks!Init /\ (part # "webhooks" => wanted = {} /\ \A e \in DOMAIN age : age[e] = AgeCap)
  /\ Grid!Init     /\ (part # "grid" => grid = [d \in Homes |-> CHOOSE m \in Reports : TRUE])
  /\ Feed!Init
  /\ Notify!Init   /\ (part # "notify" => stored = CHOOSE c \in ChannelConfigs : TRUE)
  /\ Init          /\ (part # "storage" => release = 1)
  /\ Boards!Init
  /\ Clock!Init    /\ (part # "clock" => now = 4 /\ rtc = 6)
  /\ Day!Init      /\ (part # "day" => month = 9)
  /\ Planner!Init  /\ (part # "planner" => outlook.load = 10)
  /\ Project!Init  /\ (part # "projection" => battery.min = 2 /\ soc = 3)
  /\ Line!Init
  /\ Codec!Init    /\ (part # "codec" => chain = CHOOSE c \in Profiles : TRUE)
  /\ Scan!Init     /\ (part # "scan" => refused = {})
  /\ Sniff!Init

MoveOut ==
  \/ part = "webhooks" /\ Webhooks!Next /\ UNCHANGED <<gridVars, feedVars, notifyVars>>
  \/ part = "grid"     /\ Grid!Next     /\ UNCHANGED <<webhookVars, feedVars, notifyVars>>
  \/ part = "feed"     /\ Feed!Next     /\ UNCHANGED <<webhookVars, gridVars, notifyVars>>
  \/ part = "notify"   /\ Notify!Next   /\ UNCHANGED <<webhookVars, gridVars, feedVars>>

MoveHost ==
  \/ part = "storage"    /\ Next        /\ UNCHANGED <<boardVars, clockVars>>
  \/ part = "dashboards" /\ Boards!Next /\ UNCHANGED <<storageVars, clockVars>>
  \/ part = "clock"      /\ Clock!Next  /\ UNCHANGED <<storageVars, boardVars>>

MoveEnergy ==
  \/ part = "day"        /\ Day!Next     /\ UNCHANGED <<plannerVars, projectVars>>
  \/ part = "planner"    /\ Planner!Next /\ UNCHANGED <<dayVars, projectVars>>
  \/ part = "projection" /\ Project!Next /\ UNCHANGED <<dayVars, plannerVars>>

MoveRegisters ==
  \/ part = "transport" /\ Line!Next /\ UNCHANGED <<codecVars, scanVars, sniffVars>>
  \/ part = "codec" /\ Codec!Next /\ UNCHANGED <<lineVars, scanVars, sniffVars>>
  \/ part = "scan"  /\ Scan!Next  /\ UNCHANGED <<lineVars, codecVars, sniffVars>>
  \/ part = "sniff" /\ Sniff!Next /\ UNCHANGED <<lineVars, codecVars, scanVars>>

PartsNext ==
  /\ UNCHANGED part
  /\ \/ MoveOut       /\ UNCHANGED <<hostVars, energyVars, registerVars>>
     \/ MoveHost      /\ UNCHANGED <<outVars, energyVars, registerVars>>
     \/ MoveEnergy    /\ UNCHANGED <<outVars, hostVars, registerVars>>
     \/ MoveRegisters /\ UNCHANGED <<outVars, hostVars, energyVars>>

PartsSpec == PartsInit /\ [][PartsNext]_vars

----------------------------------------------------------------------------
\* Every part has its types.
PartsTypeOK ==
  CASE part = "webhooks"   -> Webhooks!TypeOK
    [] part = "grid"       -> Grid!TypeOK
    [] part = "feed"       -> Feed!TypeOK
    [] part = "notify"     -> Notify!TypeOK
    [] part = "storage"    -> TypeOK
    [] part = "dashboards" -> Boards!TypeOK
    [] part = "clock"      -> Clock!TypeOK
    [] part = "day"        -> Day!TypeOK
    [] part = "planner"    -> Planner!TypeOK
    [] part = "projection" -> Project!TypeOK
    [] part = "transport"  -> Line!TypeOK
    [] part = "codec"      -> Codec!TypeOK
    [] part = "scan"       -> Scan!TypeOK
    [] part = "sniff"      -> Sniff!TypeOK

\* The properties of the other parts, as their modules state them.
PostedInTime        == part = "webhooks" => Webhooks!PostedInTime
LogFollowsGrid      == part = "grid" => Grid!LogFollowsGrid
ShowsLatest         == part = "feed" => Feed!ShowsLatest
AlertsReachChannels == part = "notify" => Notify!AlertsReachChannels
EditsKeptAndBuiltinsShown == part = "dashboards" => Boards!EditsKeptAndBuiltinsShown
SyncSetsClock       == part = "clock" => Clock!SyncSetsClock
PricedAtOwnHour     == part = "day" => Day!PricedAtOwnHour
NoInventedEnergy    == part = "day" => Day!NoInventedEnergy
TotalsBelongToDay   == part = "day" => Day!TotalsBelongToDay
WindowsAreLongest   == part = "planner" => Planner!WindowsAreLongest
PlanSettles         == Planner!PlanSettles
EnergyBalances      == part = "projection" => Project!EnergyBalances
ReportAgrees        == part = "projection" => Project!ReportAgrees
StatsMatchWire      == part = "transport" => Line!StatsMatchWire
WriteIsLocal        == part = "codec" => Codec!WriteIsLocal
DecodersAgree       == part = "codec" => Codec!DecodersAgree
VerdictsAreTrue     == part = "scan" => Scan!VerdictsAreTrue
WordsTogether       == part = "scan" => Scan!WordsTogether
PlacedRight         == part = "sniff" => Sniff!PlacedRight
================================================================================
