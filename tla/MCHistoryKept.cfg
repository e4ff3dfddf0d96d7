CONSTANTS
  Devices = {"inverter"}
  Resolutions = {"1h", "1d"}
  Width <- MCWidth
  Day = 4
  Retention = 6
  MaintainEvery = 2
  MaxGather = 2
  MaxTime = 10
  MaxReadings = 3
  MaxFaults = 1
  Never = never

SPECIFICATION Spec


PROPERTIES RollupsAreKept
CHECK_DEADLOCK FALSE
