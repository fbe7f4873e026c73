SPECIFICATION Spec
CONSTANTS
  p1 = p1
  p2 = p2
  a1 = a1
  a2 = a2
  d1 = d1
  d2 = d2
  b1 = b1
  b2 = b2
  n1 = n1
  PubKey = {p1, p2}
  Domain = {d1, d2}
  Body = {b1, b2}
  BadBody = {b2}
  RecordKey = {a1, a2}
  AddressOf <- MCAddressOf
  MaxSeq = 1
  Malformed = Malformed
  Absent = Absent
  Request = {r1, r2}
  Input <- BatchOnly
  Inbound <- NoInbound
  Remote <- NoRemote
  Capacity = 2
  MaxRecords = 2
  MaxCalls = 2
  MaxCardsPerDomain = 2
PROPERTIES
  CooldownEnforced
CHECK_DEADLOCK FALSE
