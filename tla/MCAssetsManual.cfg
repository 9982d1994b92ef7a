SPECIFICATION Spec
CONSTANTS
  Part = {"classes"}
  Asset = {a1, a2, a3}
  Source = {s1, s2}
  Event = {e1, e2}
  Request = {q1}
  Fresh = a3
  MaxOrder = 3
  MaxActs = 1
  Value = {other, prod}
  Default = other
  Unset = Unset
  Pass = {p1, p2}
  Editor = {e1}
  MaxEdits = 1
  Reader = {r1, r2}
  Replayer = {r2}
  Ttl = 1
  MaxRules = 3
  MaxAge = 2
  Inference = {i1, i2}
  MaxDecided = 2
  Agent = {g1, g2}
  Evidence = {process, package}
  Work = {w1, w2}
  Version = {1, 2}
  MaxWork = 4
  MaxMerges = 1
  Package = {p1, p2}
  Migration = {m1, m2}
  MaxCarried = 4
  Enrollment = {n1, n2}
  HostEvent = {v1, v2}
  SystemId = {y1, y2}
  HostAsset = {h1, h2, h3, h4}
INVARIANT ManualStays
CHECK_DEADLOCK FALSE
