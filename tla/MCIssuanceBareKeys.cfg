CONSTANTS
  i1 = i1
  i2 = i2
  v1 = v1
  v2 = v2
  v3 = v3
  m1 = m1
  s1 = s1
  s2 = s2
  q1 = q1
  r1 = r1
  Unversioned = Unversioned
  Issuers = {i1, i2}
  KeyVersions <- MCKeyVersions
  Materials = {m1}
  Signers = {s1, s2}
  KeyOf <- MCKeyOf
  SidecarKey <- MCSidecarKey
  BareSigners = {s1, s2}
  Requests = {q1}
  Kinds = {"paper", "pdf"}
  Descriptors = {"sealable", "foreign", "oversized"}
  Reports = {r1}
SPECIFICATION IssuanceSpec
INVARIANT EndedKeysDoNotSign
CHECK_DEADLOCK FALSE
