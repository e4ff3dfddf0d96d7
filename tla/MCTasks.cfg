CONSTANTS
  Sensors = {"pv", "soc"}
  Snapshots = {{"pv"}, {"pv", "soc"}}
  Targets = {"home", "other"}
  Configs <- MCConfigs
  Publishers = {"loop", "test"}
  Clients = {"ui"}
  MaxFaults = 1
  Inverters = {"inverter_1", "inverter_2"}
  Values = {1, 2}
  Text = text
  WireSize = 1
  MaxChanges = 2
  MaxDrops = 1
  Devices = {"inverter"}
  Resolutions = {"1h", "1d"}
  Width <- MCWidth
  Day = 4
  Retention = 5
  MaintainEvery = 2
  MaxGather = 1
  MaxTime = 8
  MaxReadings = 3
  Never = never
  None = none

SPECIFICATION TasksSpec

INVARIANTS AnnouncedOrLost RawOrRolledUp
PROPERTIES Cures ShowsBroker CatchesUp
CHECK_DEADLOCK FALSE
