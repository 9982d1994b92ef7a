SPECIFICATION FairSpec
CONSTANTS
  Device = {d1, d2}
  Pod = {p1, p2}
  NoDevice = NoDevice
  NoPod = NoPod
  Grace = {0, 1}
  CacheTime = 2
  MaxTokens = 6
  MaxNow = 3
  MaxFaults = 2
INVARIANTS
  IInv
  OnlyOwnerHolds
  StaleAtMostCacheTime
PROPERTIES
  EventuallyAuthorized
CHECK_DEADLOCK FALSE
