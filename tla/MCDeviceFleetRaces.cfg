CONSTANTS
  Ids = {"dummy", "inverter"}
  Dummy = "dummy"
  Clients = {"tab1", "tab2"}
  Pollers = {"loop"}
  MaxRequests = 3
  MaxStarts = 2
  None = none

SPECIFICATION Spec

INVARIANTS RegistryFollowsRows
