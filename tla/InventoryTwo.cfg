SPECIFICATION FairSpec
CONSTANTS
  r1 = r1
  r2 = r2
  c1 = c1
  d1 = d1
  d2 = d2
  h1 = h1
  h2 = h2
  h3 = h3
  n1 = n1
  n2 = n2
  root = root
  dmz = dmz
  unknown = unknown
  Requests = {r1, r2}
  Ops <- Operations
  Clients0 = {c1}
  Devices0 = {d1, d2}
  ClientNames = {n1, n2}
  Hosts = {h1, h2, h3}
  Serials = {unknown}
  Names = {root, dmz}
  Root = root
  HostOf <- MCHostOf
  NameOf <- MCNameOf
  NoClient = NoClient
  NoSerial = NoSerial
CHECK_DEADLOCK FALSE
INVARIANTS
  TypeOK
  Consistent
  AllOrNothing
  EventsTellTheTruth
  LinkedOnlyOnceActive
  SyncComplete
  SyncLeavesOnlyReported
PROPERTIES
  BornWithRoot
  OnlyAskedChanges
  RequestsAnswered
