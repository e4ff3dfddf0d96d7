CONSTANTS
  none = none
  None = none
  NoTarget = none
  Safe <- MCSafe
  AtRisk <- MCAtRisk
  Devices <- MCDevices
  ApplyTo = {none}
  Editors = {"tab1", "tab2"}
  InitialRules <- MCInitial
  RuleBodies <- TwoBodies
  Socs = {0}
  Offline = 9
  Now <- MCNow
  ControlEnabled = TRUE
  MaxTime = 1
  MaxRuns <- NoRuns
  MaxEdits = 2
  MaxPolls = 1

SPECIFICATION Spec

PROPERTIES EditsKeepOthers
CHECK_DEADLOCK FALSE
