SPECIFICATION FairServerSpec
CONSTANTS
  Clients = {c1, c2}
  Limit = 2
  Window = 2
  MaxBuckets = 1
  MaxTime = 3
  MaxRequests = 4
  Verifications = {2}
  MaxBody = 1
INVARIANTS AnsweredOnce BurstsAreBounded RefusalsAreDeserved
PROPERTIES RequestsAreAnswered ShutdownCompletes
CHECK_DEADLOCK FALSE
