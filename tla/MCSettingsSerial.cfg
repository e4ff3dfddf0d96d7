CONSTANTS
  api = api
  auto = auto
  bad = bad
  wide = wide
  unasked = unasked
  unread = unread
  noetag = noetag
  Writers = {api}
  AutoWriters = {}
  Lanes <- MCLanes
  AddrOf <- MCAddrOf
  BlockOf <- MCAddrOf
  Writable <- MCWritable
  Shown <- MCLanes
  PanelLanes = {"f"}
  Vals = {0, 1}
  Factory <- MCFactory
  Requests <- MCRequests
  Retries = 2
  MaxRequests <- SerialRequests
  BadValue = bad
  WideValue = wide
  Unasked = unasked
  Unread = unread
  NoEtag = noetag

SPECIFICATION FairSpec

PROPERTIES StoreImplemented EveryRequestAnswered
CHECK_DEADLOCK FALSE
