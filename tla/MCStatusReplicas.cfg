SPECIFICATION Spec
CONSTANTS
  Documents = {d1}
  Requests = {q1, q2}
  Lookups = {g1}
  Replicas = {r1, r2}
  Persistence = "postgres"
  Requested = {"ACTIVE", "REVOKED"}
  MaxAge = 0
  MaxTime = 1
  MaxFaults = 2
  Serialized = FALSE
INVARIANTS
  TypeOK
  IssuedFirst
  AcknowledgedIsStored
  AcknowledgedIsVisible
SYMMETRY Symmetry
CHECK_DEADLOCK FALSE
