SPECIFICATION Spec
CONSTANTS
  Documents = {d1}
  Requests = {q1, q2, q3}
  Lookups = {}
  Replicas = {r1}
  Persistence = "postgres"
  Requested = {"ACTIVE", "REVOKED"}
  MaxAge = 1
  MaxTime = 2
  MaxFaults = 0
  Serialized = FALSE
INVARIANTS
  ClosureIsFinal
CHECK_DEADLOCK FALSE
