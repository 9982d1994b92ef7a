SPECIFICATION Spec
CONSTANTS
  Item = {i1}
  Value = {v1, v2}
  Absent = Absent
  Skew = 1
  Ahead = {0, 9}
  Faults = {"spool", "crash", "cache"}
  MaxEvents = 3
  MaxNow = 3
SYMMETRY Symmetric
INVARIANTS
  LatestUpsertWins
  RemovedByNewest
  NoFutureRows
CHECK_DEADLOCK FALSE
