\* Two peers, two crashes.
CONSTANTS
  p1 = p1
  p2 = p2
  Peer = {p1, p2}
  MaxCrashes = 2
SPECIFICATION StoreSpec
INVARIANTS
  IdentityIsOne
  TrustSurvives
  StoreInv
PROPERTIES
  IdentityIsStable
