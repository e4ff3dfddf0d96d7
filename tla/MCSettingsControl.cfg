CONSTANTS
  api = api
  auto = auto
  bad = bad
  wide = wide
  unasked = unasked
  unread = unread
  noetag = noetag
  Writers <- MCWriters
  AutoWriters <- MCAutoWriters
  Lanes <- MCLanes
  AddrOf <- MCAddrOf
  BlockOf <- MCAddrOf
  Writable <- MCWritable
  Shown <- MCLanes
  PanelLanes = {}
  Vals = {0, 1}
  Factory <- MCFactory
  Requests <- MCRequests
  Retries = 2
  MaxRequests <- MCMaxRequests
  BadValue = bad
  WideValue = wide
  Unasked = unasked
  Unread = unread
  NoEtag = noetag

SPECIFICATION Spec

INVARIANTS RefusedTouchesNothing ReadOnlyLanesKept OkMeansTaken TouchedIsAudited
PROPERTIES CollateralOnlyIfRaced
CHECK_DEADLOCK FALSE
