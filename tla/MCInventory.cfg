SPECIFICATION Spec
CONSTANTS
  Item = {i1, i2}
  Value = {v1, v2}
  Absent = Absent
  Skew = 1
  Ahead = {0}
  Faults = {"failure"}
  MaxEvents = 3
  MaxNow = 3
SYMMETRY Symmetric
INVARIANTS
  TypeOK
  Convergent
CHECK_DEADLOCK FALSE
