SPECIFICATION DecisionSpec
CONSTANTS
  MaxBinary = 4
  Inline = 4
  MaxSafe = 100000000
  MaxDepth = 2
  MaxItems = 2
  MaxBytes = 10
  Width = 4
  MaxSize = 12
  Binaries <- MCBinaries
  Texts <- MCTexts
  Values <- MCValues
  Inputs <- MCInputs
  Raws <- MCRaws
  Ders <- MCDers
  Seals <- MCSeals
  Payloads <- MCPayloads
  Envelopes <- MCEnvelopes
  PointSize = 1
  Coordinate = 1
  MaxDocument = 3
  MaxFiles = 2
  MaxFileBytes = 3
  MaxBundleBytes = 5
  PdfMax = 3
  ImageMax = 2
  TextMax = 1
  SmallMax = 1
  LogDepth = 4
  LogKeys = {"authorization", "documentBytes", "pin", "route", "correlationId"}
  Addresses <- MCAddresses
  KeyBytes <- MCKeyBytes
  Resolutions <- MCResolutions
  Bundles <- MCBundles
  Requests <- MCRequests
  CommandLines <- MCCommandLines
  Files <- MCFiles
  LogFields <- MCLogFields
INVARIANTS
  Base45IsABijection
  CborIsDeterministic
  SignatureFormsAgree
  ProfileIsFaithful
  SignatureCoversTheSeal
  TrustMaterialIsAsPublished
  RoutesAgree
  LogsCarryNoSecrets
CHECK_DEADLOCK FALSE
