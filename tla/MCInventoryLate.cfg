SPECIFICATION Spec
CONSTANTS
  Item = {i1, i2}
  Value = {v1, v2}
  Absent = Absent
  Skew = 1
  Ahead = {0}
  Faults = {"spool"}
  MaxEvents = 2
  MaxNow = 3
INVARIANTS
  LateEventNeverReverts
CHECK_DEADLOCK FALSE
