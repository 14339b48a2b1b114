SPECIFICATION LookupSpec
CONSTANTS
  Documents = {d1}
  Requests = {q1, q2}
  Lookups = {g1, g2}
  Replicas = {r1}
  Persistence = "memory"
  Requested = {"ACTIVE", "REVOKED"}
  MaxAge = 1
  MaxTime = 1
  MaxFaults = 2
  Serialized = FALSE
  ServiceUrl = "none"
  StatusUrls = {"none", "usable"}
INVARIANTS
  ReportedWasHeld
SYMMETRY LookupSymmetry
CHECK_DEADLOCK FALSE
