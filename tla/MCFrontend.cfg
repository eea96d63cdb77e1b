\* Two devices, three reports (found, lost and found again), one reload.
CONSTANTS
  d1 = d1
  d2 = d2
  Device = {d1, d2}
  MaxNews = 3
  MaxReloads = 1
SPECIFICATION FrontendFairSpec
INVARIANTS
  FrontendTypeOK
  StatusIsShown
  NoGhostDevices
PROPERTIES
  BackendLossIsShown
  ConnectionIsShown
