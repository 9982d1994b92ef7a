SPECIFICATION Spec
SYMMETRY Symmetry
CONSTANTS
  Part = {"store", "policies", "recorder", "schema", "mailer", "settings",
          "start", "log", "staging"}
  Absent = Absent
  Release = {r1, r2}
  Caller = {c1, c2}
  Rollout = {0, 100}
  MaxBuilds = 2
  Writer = {w1, w2}
  Host = {h1}
  Attempts = 2
  MaxVersions = 3
  Origin = {o1, o2, o3}
  MaxViolations = 2
  MaxClock = 5
  Pod = {p1, p2, p3}
  Older = {p1}
  MaxKills = 2
  Delivery = {d1}
  Saver = {s1, s2}
  Secret = {x1}
  Nothing = Nothing
  MaxSaves = 2
  Setting = {k1, k2}
  MailSetting = {k1}
  Requester = {q1, q2}
  Content = {v1, v2}
  Blank = Blank
  MaxChanges = 2
  Dsn = {e1, e2}
  Nowhere = Nowhere
  Change = {a1, a2}
  MaxKeys = 2
  Logger = {l1, l2}
  Retained = 2
  Period = 5
  PruneEvery = 2
  MaxPruned = 2
  MaxEvents = 7
  Appender = {s1, s2}
  Cleaner = {c1, c2}
INVARIANTS
  TypeOK
  StoreSafe
  DocumentsSafe
  MailSafe
  SchemaSafe
  LogsSafe
  StagingSafe
PROPERTIES
  StartSafe
CHECK_DEADLOCK FALSE
