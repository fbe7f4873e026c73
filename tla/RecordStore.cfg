SPECIFICATION Spec
CONSTANTS
  p1 = p1
  p2 = p2
  a1 = a1
  a2 = a2
  d1 = d1
  b1 = b1
  b2 = b2
  PubKey = {p1, p2}
  Domain = {d1}
  Body = {b1, b2}
  RecordKey = {a1, a2}
  AddressOf <- MCAddressOf
  MaxSeq = 1
  Malformed = Malformed
  Weight = {1}
  Incoming <- MCIncoming
  MaxRecords = 1
  Absent = Absent
  NoSeq = NoSeq
  NoWeight = NoWeight
INVARIANTS
  TypeOK
  CacheMatchesRecords
  StoredCardsBelong
  CapacityRespected
  DiskMirrorsMemory
PROPERTIES
  OkMeansHeld
  ImplementsRegistry
