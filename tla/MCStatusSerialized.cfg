SPECIFICATION FairSpec
CONSTANTS
  Documents = {d1}
  Requests = {q1, q2, q3}
  Lookups = {g1}
  Replicas = {r1}
  Persistence = "postgres"
  Requested = {"ACTIVE", "REVOKED"}
  MaxAge = 0
  MaxTime = 2
  MaxFaults = 1
  Serialized = TRUE
INVARIANTS
  ClosureIsVisible
PROPERTIES
  KeepsPromise
  RequestsEnd
  ShutdownEnds
CHECK_DEADLOCK FALSE
