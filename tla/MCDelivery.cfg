SPECIFICATION Spec
CONSTANTS
  Event = {e1, e2}
  Pod = {p1, p2}
  NoEvent = NoEvent
  NoPod = NoPod
  MaxQueue = 2
  MaxFaults = 3
SYMMETRY Symmetric
INVARIANTS
  IInv
  AppliedAtMostOnce
  NoEventLost
  SingleReplayer
PROPERTIES
  ProcessedIsFinal
  LogSpec
