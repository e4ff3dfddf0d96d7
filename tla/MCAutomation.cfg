CONSTANTS
  none = none
  None = none
  NoTarget = none
  Safe <- MCSafe
  AtRisk <- MCAtRisk
  Devices <- MCDevices
  ApplyTo = {none}
  Editors = {"tab1"}
  InitialRules <- MCInitial
  RuleBodies <- MCBodies
  Socs = {0}
  Offline = 9
  Now <- MCNow
  ControlEnabled = TRUE
  MaxTime = 1
  MaxRuns <- MCRuns
  MaxEdits = 1
  MaxPolls = 1

SPECIFICATION FairSpec

PROPERTIES WinnersAreTop FiringsSpaced EverySlotWritten RunsEnd
CHECK_DEADLOCK FALSE
