SPECIFICATION Spec
CONSTANTS
  a1 = a1
  a2 = a2
  Address = {a1, a2}
  Request = {r1, r2, r3, r4}
  Input <- MCInput
  One = 2
  Damaged = {a2}
  NoWeight = NoWeight
  NoAppeal = NoAppeal
  Nothing = Nothing
SYMMETRY AnyOrder
INVARIANTS
  TypeOK
  WeightsMirrored
  DecisionIsWhole
  ResolvedOnce
