CONSTANTS
  Ids = {"dummy", "inverter"}
  Dummy = "dummy"
  Clients = {"ui"}
  Pollers = {"loop", "handler"}
  MaxRequests = 2
  MaxStarts = 2
  None = none

SPECIFICATION FairSpec

INVARIANTS RegistryFollowsRows NoStrayConnection
PROPERTIES LossNeedsRemoval EventuallyRead
