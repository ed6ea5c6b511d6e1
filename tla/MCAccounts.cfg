CONSTANTS
  None = None
  Users = {u1}
  Passwords = {p1, p2}
  Tokens = {t1, t2, t3}
  Sessions = {s1, s2}
  JwtLife = 2
  TokenLife = 1
  Retention = 2
  MaxClock = 3
  Members = {m1}
  Superadmin = superadmin
  Roles = {superadmin, r1}
  Codes = {c1}
  RolePermissions <- SeedTable
  Processes = {server1}
  Requests = {q1, q2}
  NoRequest = NoRequest
  AccessTtl = 1
  CacheTtl = 1
  MaxTime = 5
  MaxRoleChanges = 1
SPECIFICATION Spec
INVARIANT OneHeirPerFamily
INVARIANT ReuseEndsFamily
INVARIANT OldPasswordEndsSessions
INVARIANT NoTokenForDeletedUser
INVARIANT VerdictHadGrounds
CHECK_DEADLOCK FALSE
SYMMETRY Symmetry
