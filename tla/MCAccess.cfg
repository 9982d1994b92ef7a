SPECIFICATION Spec
CONSTANTS
  Part = {"first", "factor", "local", "users", "keys", "sso", "sealed", "limits"}
  SetupPod = {p1, p2}
  MaxMinted = 3
  MaxStops = 2
  MfaCall = {c1, c2}
  CodeIndex = {1, 2}
  MaxSecrets = 2
  MaxLogins = 2
  Client = {c1, c2}
  Threshold = 2
  LockTime = 1
  IpThreshold = 2
  IpWindow = 1
  Idle = 2
  Maximum = 2
  MaxClock = 2
  MaxSessions = 2
  MaxEndings = 1
  User = {u1, u2}
  Founder = {u1}
  Change = {c1, c2}
  SuperAdmin = SuperAdmin
  Viewer = Viewer
  KeyCall = {k1, k2}
  Scope = {s1, s2}
  Held = {s1}
  Attempts = 2
  GraceTime = 1
  MaxKeys = 3
  MaxKeyNow = 1
  Flow = {f1, f2}
  Callback = {b1, b2}
  Issuer = {i1, i2}
  Username = {n1, n2}
  Nothing = Nothing
  SecretPod = {p1, p2}
  Secrets = {1, 2}
  Empty = 2
  Key = {m1, m2}
  Limit = 2
  Window = 3
  MaxInstant = 7
INVARIANTS
  TypeOK
  SetupSafe
  FactorSafe
  AccountsSafe
  KeycloakSafe
  LimitSafe
PROPERTIES
  KeysSafe
CHECK_DEADLOCK FALSE
