SPECIFICATION Spec
CONSTANTS
  p1 = p1
  p2 = p2
  a1 = a1
  a2 = a2
  d1 = d1
  n1 = n1
  https1 = https1
  http1 = http1
  m1 = m1
  m2 = m2
  junk = junk
  h1 = h1
  h2 = h2
  h3 = h3
  good = good
  bad = bad
  tools1 = tools1
  tools2 = tools2
  verifier = verifier
  consumer = consumer
  PubKey = {p1, p2}
  Domain = {d1}
  Body <- MCBody
  RecordKey = {a1, a2}
  AddressOf <- MCAddressOf
  MaxSeq = 0
  Malformed = Malformed
  Job = {verifier, consumer}
  Input <- MCInput
  Nonce = {n1}
  Endpoint = {https1, http1}
  Https = {https1}
  Content = {m1, m2, junk}
  HashOf <- MCHashOf
  Parsed <- MCParsed
  NoManifest = NoManifest
  Label = {good, bad}
  Harden <- MCHarden
  BadLabel = BadLabel
  NoLabel = NoLabel
  Possible <- MCPossible
  Reply <- MCReply
  Unusable = Unusable
  One = 2
  Rejected = Rejected
  Nothing = Nothing
INVARIANTS
  TypeOK
  PassedIsDeserved
  RejectedIsNotDeserved
  ManifestAgreed
  AgentHasNoSay
