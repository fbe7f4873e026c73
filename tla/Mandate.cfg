SPECIFICATION Spec
CONSTANTS
  v1 = v1
  v2 = v2
  v3 = v3
  k1 = k1
  k2 = k2
  Validator = {v1, v2, v3}
  Trusted = {v1, v2}
  NodeKey = {k1, k2}
  Operator = k1
  BadSig = BadSig
  Ttl = 6
  Skew = 1
  Period = 3
  MaxTime = 10
INVARIANTS
  NeverOutlives
  Continuity
