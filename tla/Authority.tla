----------------------------- MODULE Authority -----------------------------
(***************************************************************************)
(* What a request may do: the role in the access token, the permission     *)
(* cache of each process, and the seed script that rewrites the grants.    *)
(*                                                                         *)
(*   signAccess, authenticate     config/jwt.js, middleware/auth           *)
(*   hasPermission                middleware/rbac.middleware.js            *)
(*   seedPermissions              prisma/seed.js, a process of its own     *)
(***************************************************************************)
EXTENDS Naturals, Sequences

CONSTANTS
  Members,          \* users
  Roles, Superadmin,
  Codes,            \* permission codes
  RolePermissions,  \* the table of the seed script
  Processes,        \* servers, each with its roleCache
  Requests,         \* requests that wait for the database
  NoRequest,
  AccessTtl,        \* JWT_ACCESS_EXPIRES_IN
  CacheTtl,         \* CACHE_TTL_MS
  MaxTime,          \* bounds: the clock,
  MaxRoleChanges    \*   updateUser with a role

ASSUME AuthorityAssumption ==
  /\ Superadmin \in Roles
  /\ RolePermissions \in [Roles -> SUBSET Codes]
  /\ AccessTtl \in Nat \ {0} /\ CacheTtl \in Nat \ {0}
  /\ MaxTime \in Nat /\ MaxRoleChanges \in Nat

VARIABLES
  roleOf,     \* users.role
  changes,    \* how often a role was changed
  access,     \* the access token each user holds
  grants,     \* the role_permissions table
  roleCache,
  load,       \* the cache miss each waiting request is serving
  seed,       \* the roles seedPermissions still has to do, and "clear" or "assign"
  time,
  verdict,    \* the last answer of hasPermission
  hadRole,    \* history: when each user last had each role,
  granted,    \*   each role last had each code,
  refused     \*   and last did not

authorityVars == <<roleOf, changes, access, grants, roleCache, load, seed, time,
                   verdict, hadRole, granted, refused>>
history == <<hadRole, granted, refused>>

-----------------------------------------------------------------------------

NoToken == [role |-> Superadmin, exp |-> 0]

\* The claims are those of the user row that login or refresh has just read.
SignAccess(u) ==
  /\ access' = [access EXCEPT ![u] = [role |-> roleOf[u], exp |-> time + AccessTtl]]
  /\ UNCHANGED <<roleOf, changes, grants, roleCache, load, seed, time, verdict, history>>

\* updateUser with a role.
SetRole(u, r) ==
  /\ changes < MaxRoleChanges /\ r # roleOf[u]
  /\ changes' = changes + 1
  /\ roleOf' = [roleOf EXCEPT ![u] = r]
  /\ hadRole' = [hadRole EXCEPT ![u][r] = time]
  /\ UNCHANGED <<access, grants, roleCache, load, seed, time, verdict, granted, refused>>

\* The middleware accepts the access token, whatever has become of its user.
Authenticate(u) == time < access[u].exp

Answer(u, c, role, codes, asked) ==
  verdict' = [user |-> u, code |-> c, role |-> role, at |-> asked,
              ok |-> role = Superadmin \/ c \in codes]

\* The superadmin passes, and so does
\* everybody whose codes are in the cache of this process.
HasPermissionHit(p, u, c) ==
  LET r == access[u].role IN
  /\ Authenticate(u)
  /\ r = Superadmin \/ roleCache[p][r].until > time
  /\ Answer(u, c, r, roleCache[p][r].codes, time)
  /\ UNCHANGED <<roleOf, changes, access, grants, roleCache, load, seed, time, history>>

\* A miss takes the time and goes to the database.
HasPermissionMiss(q, p, u, c) ==
  LET r == access[u].role IN
  /\ Authenticate(u)
  /\ r # Superadmin /\ roleCache[p][r].until <= time
  /\ load[q] = NoRequest
  /\ load' = [load EXCEPT ![q] = [proc |-> p, user |-> u, code |-> c, role |-> r,
                                   now |-> time, read |-> FALSE, codes |-> {}]]
  /\ UNCHANGED <<roleOf, changes, access, grants, roleCache, seed, time, verdict, history>>

\* Mutant: the query does not filter by role.
FindIgnoresRole(q) ==
  /\ load[q] # NoRequest /\ ~load[q].read
  /\ load' = [load EXCEPT ![q] = [@ EXCEPT !.read = TRUE, !.codes = UNION {grants[r] : r \in Roles}]]
  /\ UNCHANGED <<roleOf, changes, access, grants, roleCache, seed, time, verdict, history>>

\* findPermissionsByRole.
FindPermissionsByRole(q) ==
  /\ load[q] # NoRequest /\ ~load[q].read
  /\ load' = [load EXCEPT ![q] = [@ EXCEPT !.read = TRUE, !.codes = grants[load[q].role]]]
  /\ UNCHANGED <<roleOf, changes, access, grants, roleCache, seed, time, verdict, history>>

\* The entry lives from the time the request asked; the request goes on.
FillCache(q) ==
  /\ load[q] # NoRequest /\ load[q].read
  /\ roleCache' = [roleCache EXCEPT ![load[q].proc][load[q].role] =
                     [codes |-> load[q].codes, until |-> load[q].now + CacheTtl]]
  /\ Answer(load[q].user, load[q].code, load[q].role, load[q].codes, load[q].now)
  /\ load' = [load EXCEPT ![q] = NoRequest]
  /\ UNCHANGED <<roleOf, changes, access, grants, seed, time, history>>

-----------------------------------------------------------------------------
(* seedPermissions: for each role a deleteMany and a createMany *)

SeedClear(r) ==
  /\ r \in seed.todo /\ ~seed.cleared
  /\ grants' = [grants EXCEPT ![r] = {}]
  /\ refused' = [refused EXCEPT ![r] = [c \in Codes |-> time]]
  /\ seed' = [seed EXCEPT !.cleared = TRUE, !.role = r]
  /\ UNCHANGED <<roleOf, changes, access, roleCache, load, time, verdict, hadRole, granted>>

SeedAssign ==
  LET r == seed.role IN
  /\ seed.cleared
  /\ grants' = [grants EXCEPT ![r] = RolePermissions[r]]
  /\ granted' = [granted EXCEPT ![r] = [c \in Codes |->
       IF c \in RolePermissions[r] THEN time ELSE granted[r][c]]]
  /\ seed' = [seed EXCEPT !.todo = @ \ {r}, !.cleared = FALSE]
  /\ UNCHANGED <<roleOf, changes, access, roleCache, load, time, verdict, hadRole, refused>>

-----------------------------------------------------------------------------

\* What holds now is still true at the next instant.
PassTime ==
  /\ time < MaxTime
  /\ time' = time + 1
  /\ hadRole' = [u \in Members |-> [hadRole[u] EXCEPT ![roleOf[u]] = time']]
  /\ granted' = [r \in Roles |-> [c \in Codes |->
       IF c \in grants[r] THEN time' ELSE granted[r][c]]]
  /\ refused' = [r \in Roles |-> [c \in Codes |->
       IF c \in grants[r] THEN refused[r][c] ELSE time']]
  /\ UNCHANGED <<roleOf, changes, access, grants, roleCache, load, seed, verdict>>

\* The clock starts late enough for "a time to live ago" to be a time; the
\* table may hold the grants of an earlier release.
Start == AccessTtl + CacheTtl + 1

AuthorityInit ==
  /\ time = Start /\ changes = 0
  /\ roleOf \in [Members -> Roles]
  /\ grants \in [Roles -> SUBSET Codes]
  /\ access = [u \in Members |-> NoToken]
  /\ roleCache = [p \in Processes |-> [r \in Roles |-> [codes |-> {}, until |-> 0]]]
  /\ load = [q \in Requests |-> NoRequest]
  /\ seed = [todo |-> Roles, cleared |-> FALSE, role |-> Superadmin]
  /\ \E u \in Members, c \in Codes :
       verdict = [user |-> u, code |-> c, role |-> Superadmin, at |-> 0, ok |-> FALSE]
  /\ hadRole = [u \in Members |-> [r \in Roles |-> IF r = roleOf[u] THEN time ELSE 0]]
  /\ granted = [r \in Roles |-> [c \in Codes |-> IF c \in grants[r] THEN time ELSE 0]]
  /\ refused = [r \in Roles |-> [c \in Codes |-> IF c \in grants[r] THEN 0 ELSE time]]

AuthorityNext ==
  \/ \E u \in Members :
       \/ SignAccess(u)
       \/ \E r \in Roles : SetRole(u, r)
       \/ \E p \in Processes, c \in Codes :
            HasPermissionHit(p, u, c) \/ \E q \in Requests : HasPermissionMiss(q, p, u, c)
  \/ \E q \in Requests : FindPermissionsByRole(q) \/ FillCache(q)
  \/ \E r \in Roles : SeedClear(r)
  \/ SeedAssign
  \/ PassTime

AuthoritySpec == AuthorityInit /\ [][AuthorityNext]_authorityVars
=============================================================================
