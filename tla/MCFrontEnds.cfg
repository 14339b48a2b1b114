SPECIFICATION FrontEndsSpec
CONSTANTS
  Operations = {o1, o2}
  AdminDocuments = {"doc"}
  AdminStates = {"ACTIVE", "REVOKED"}
  ProviderKeys = {"k1", "k2"}
  Asks <- MCAsks
  Tolerance = 1
  CacheMaxAge = 2
  Cooldown = 1
  FetchTimeout = 1
  AdminEnd = 5
  AdminMaxFaults = 2
  DemoCalls = {c1, c2, c3, c4}
  NoSession = NoSession
  DemoMaxFaults = 1
  Preparations = {p1, p2, p3}
  Targets = {"page", "box"}
  Inside <- MCInside
  NoSeal = NoSeal
  Starts = {s1, s2, s3}
  Attempts = {a1, a2}
  Nothing = Nothing
  Detects = TRUE
INVARIANTS ChangesAreAuthorised ChangesAreAudited DemoVerdictsHold PrintedPageCarriesItsSeal StoppedCameraIsOff
CHECK_DEADLOCK FALSE
