CONSTANTS
  Endpoints <- MCEndpoints
  Configured <- MCConfigured
  MinInterval = 2
  Default = 5
  MaxPost = 2
  AgeCap = 9
  Homes = {"a", "b"}
  Reports <- MCReports
  QueueSize = 2
  MaxPolls = 6
  Requesters = {"ui", "script"}
  Deliverers = {"tick", "now"}
  Channels = {"hook", "telegram"}
  ChannelConfigs <- MCChannelConfigs
  Selections <- MCSelections
  Half = half
  Off = off
  MaxPuts = 2
  MaxAlerts = 2
  MaxRestores = 1
  Scripts <- MCScripts
  Rows = {"r1", "r2"}
  MaxCrashes = 3
  Pages = {"now", "history", "mine"}
  Builtins <- MCBuiltins
  Layouts = {one, two}
  MaxEdits = 4
  MaxStarts = 4
  DigitBase = 3
  Times = {4, 7, 11}
  Skews <- MCSkews
  MaxTicks = 4
  MaxSyncs = 2
  MaxFaults = 1
  DayHours = 3
  Tariffs <- MCTariffs
  Months = {2, 7, 9}
  DayStarts = {3}
  MaxUse = 1
  MaxOdd = 1
  Hours = 5
  Windows <- MCWindows
  MaxWindows = 2
  Outlooks <- MCOutlooks
  Battery <- MCBattery
  Strategy <- MCStrategy
  Flat = 2
  Batteries <- MCBatteries
  Charges = {0, 3, 6, 12}
  Hourly <- MCHourly
  MaxPoints = 5
  Grain = 3
  Callers = {"poll", "write"}
  Attempts = 3
  MaxCalls = 3
  WordBits = 4
  HourUnit = 4
  Trackers = {"pv1", "pv2"}
  PvTotal = "pv"
  RegisterSpace = {0, 1, 2}
  DeviceWords = {0, 9, 15}
  Profiles <- MCProfiles
  Fields <- MCFields
  Values <- MCValues
  MaxAsked = 2
  Gap = 1
  MaxBlock = 2
  BlockSize = 3
  ClusterGap = 1
  Retries = 1
  MinAttempts = 2
  FirstAddress = 0
  LastAddress = 7
  Variants <- MCVariants
  Map <- MCMap
  Devices <- MCDevices
  MaxNoise = 2
  Slaves = {1, 2}
  Tables = {"holding", "input"}
  Reads <- MCReads
  MaxRequests = 4
  Torn = torn
  Closed = closed
  None = none

SPECIFICATION PartsSpec

INVARIANTS
  PartsTypeOK PostedInTime LogFollowsGrid ShowsLatest AlertsReachChannels SurvivesRestart EditsKeptAndBuiltinsShown SyncSetsClock
  PricedAtOwnHour NoInventedEnergy WindowsAreLongest EnergyBalances ReportAgrees
  StatsMatchWire WriteIsLocal DecodersAgree VerdictsAreTrue WordsTogether PlacedRight
PROPERTIES PlanSettles
CHECK_DEADLOCK FALSE
