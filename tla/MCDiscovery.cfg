\* Two peers; the network loses at most two datagrams of a peer in a row.
CONSTANTS
  d1 = d1
  d2 = d2
  Device = {d1, d2}
  MaxLosses = 2
SYMMETRY Symmetry
SPECIFICATION DSpec
INVARIANTS
  GoneIsDropped
  ShownIsListed
  DInv
PROPERTIES
  PresentIsKept
