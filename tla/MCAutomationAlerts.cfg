CONSTANTS
  none = none
  None = none
  NoTarget = none
  Safe <- MCSafe
  AtRisk <- MCAtRisk
  Devices <- OneDevice
  ApplyTo = {none}
  Editors = {"tab1"}
  InitialRules <- MCInitial
  RuleBodies <- MCBodies
  Socs = {0}
  Offline = 9
  Now <- MCNow
  ControlEnabled = TRUE
  MaxTime = 1
  MaxRuns <- OneRun
  MaxEdits = 0
  MaxPolls = 1

SPECIFICATION Spec

PROPERTIES AlertsReachInbox
CHECK_DEADLOCK FALSE
