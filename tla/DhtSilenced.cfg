SPECIFICATION FairSpec
CONSTANTS
  n1 = n1
  n2 = n2
  n3 = n3
  p1 = p1
  p2 = p2
  a1 = a1
  a2 = a2
  d1 = d1
  b1 = b1
  b2 = b2
  PubKey = {p1, p2}
  Domain = {d1}
  Body = {b1, b2}
  RecordKey = {a1, a2}
  AddressOf <- MCAddressOf
  MaxSeq = 2
  Malformed = Malformed
  Node = {n1, n2}
  Gateway = n1
  NoPeer = NoPeer
  Absent = Absent
  Signed <- MCSigned
  Foreign = {}
  MaxCrashes = 0
PROPERTIES
  RevocationPropagates
