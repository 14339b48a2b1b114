SPECIFICATION Spec
CONSTANTS
  v1 = v1
  v2 = v2
  k1 = k1
  k2 = k2
  k3 = k3
  m1 = m1
  m2 = m2
  p1 = p1
  p2 = p2
  P2 = P2
  none = none
  Checks <- MCChecks
  Keys <- MCKeys
  Issuer <- MCIssuer
  Materials = {m1, m2}
  Prints <- MCPrints
  NoPrint = none
  Normal <- MCNormal
  Configured <- MCConfigured
  Anchors <- MCAnchors
  HasResolver = TRUE
  Artifacts <- DidWebArtifacts
  Offers <- DidWebOffers
  MaxChanges = 2
INVARIANT GenuineSealsAreNotInvalid
CHECK_DEADLOCK FALSE
