SPECIFICATION DssFairSpec
CONSTANTS
  Calls = {1, 2, 3}
  PoolSize = 2
  Identities = {"acme", "globex"}
  Asks <- MCAsks
  Configs <- MCConfigs
  Stamping = TRUE
  MaxStarts = 1
INVARIANTS
  ToldTheTruth
  ValidMeansEverySignature
PROPERTY HealthIsAnswered
CHECK_DEADLOCK FALSE
