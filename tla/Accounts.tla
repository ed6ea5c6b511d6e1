------------------------------ MODULE Accounts ------------------------------
(***************************************************************************)
(* The users table and the refresh tokens.                                 *)
(*                                                                         *)
(*   login, refresh, logout, changePassword       auth/auth.service.js     *)
(*   create, update, delete, reactivate users     admin/users/             *)
(*   accounts of new students, credentials mail   enrollments/, emailLogs/ *)
(*   the nightly refresh token cleanup            jobs/                    *)
(*                                                                         *)
(* A session is one running request; one action is one SQL statement (two  *)
(* where nothing can come between them that matters).  A token's family is *)
(* the token its login created.  Requests that fail change nothing and are *)
(* left out.  Passwords stand for their hashes.                            *)
(***************************************************************************)
EXTENDS Naturals

CONSTANTS
  Users,       \* e-mail addresses; users.email is unique, deleted rows included
  Passwords,
  Tokens,      \* refresh tokens that can be issued: a bound
  Sessions,    \* requests that run at once
  None,
  JwtLife,     \* JWT_REFRESH_EXPIRES_IN, 7d by default
  TokenLife,   \* refreshExpiresAt, 7 days
  Retention,   \* REFRESH_TOKEN_CLEANUP_RETENTION_DAYS, 30 by default
  MaxClock     \* bound

ASSUME AccountsAssumption ==
  /\ None \notin Users \cup Passwords \cup Tokens
  /\ JwtLife \in Nat \ {0} /\ TokenLife \in Nat \ {0} /\ MaxClock \in Nat
  /\ Retention \in Nat /\ Retention >= JwtLife

VARIABLES
  users,   \* the users table
  tokens,  \* the refresh_tokens table
  req,     \* the local variables of each request
  day,     \* the clock
  forked,  \* history: families in which two refreshes of one token overlapped
  burned,  \* history: families in which a reuse was detected
  late     \* history: burned families with a refresh under way at the time

accountsVars == <<users, tokens, req, day, forked, burned, late>>

-----------------------------------------------------------------------------

\* The role only decides whether resendOnboarding serves a deleted user.
User == [st : {"none", "active", "deleted"}, pw : Passwords \cup {None}]

\* cred and alive are history: the password the session began with (None when
\* the code does not end the session as that password changes), and whether
\* the user was active at some time during the request.
Token == [st : {"unused", "live", "revoked", "deleted"},
          user : Users \cup {None}, fam : Tokens \cup {None}, born : Nat,
          cred : Passwords \cup {None}, alive : BOOLEAN]

RefreshPCs == {"rotate", "find", "issue"}
PCs == RefreshPCs \cup {"idle", "reuse", "revoke_all", "del_soft"}

Request == [pc : PCs, user : Users \cup {None}, tok : Tokens \cup {None},
            cred : Passwords \cup {None}, alive : BOOLEAN]
Idle == [pc |-> "idle", user |-> None, tok |-> None, cred |-> None, alive |-> FALSE]

Live(t) == tokens[t].st = "live"
InFamily(r, f) == r.tok # None /\ tokens[r.tok].fam = f

Begin(s, pc, u, t, cred) ==
  /\ req[s].pc = "idle"
  /\ req' = [req EXCEPT ![s] = [pc |-> pc, user |-> u, tok |-> t, cred |-> cred,
                              alive |-> u # None /\ users[u].st = "active"]]
At(s, pc) == req[s].pc = pc
Goto(s, pc) == req' = [req EXCEPT ![s].pc = pc]
End(s) == req' = [req EXCEPT ![s] = Idle]
\* The history of a token ends when it is revoked.
Revoked(t) == [tokens[t] EXCEPT !.st = "revoked", !.cred = None]
RevokeWhere(T) ==
  tokens' = [t \in Tokens |-> IF Live(t) /\ t \in T THEN Revoked(t) ELSE tokens[t]]

-----------------------------------------------------------------------------
(* login *)

\* findUserByEmail sees active users only; the password is compared with the
\* hash just read, and the token is stored by a later statement.
Login(s, u) ==
  /\ users[u].st = "active"
  /\ Begin(s, "issue", u, None, users[u].pw)
  /\ UNCHANGED <<users, tokens, day, forked, burned, late>>

\* createRefreshToken, at the end of login and of refresh.
Issue(s) ==
  /\ At(s, "issue")
  /\ \E t \in Tokens :
       /\ tokens[t].st = "unused"
       /\ tokens' = [tokens EXCEPT ![t] =
            [st |-> "live", user |-> req[s].user, born |-> day,
             fam |-> IF req[s].tok = None THEN t ELSE tokens[req[s].tok].fam,
             cred |-> req[s].cred, alive |-> req[s].alive]]
  /\ End(s)
  /\ UNCHANGED <<users, day, forked, burned, late>>

-----------------------------------------------------------------------------
(* refresh *)

\* The part of refresh after findRefreshToken, for a token not yet expired.
Present(s, t) ==
  /\ day < tokens[t].born + JwtLife
  /\ Live(t) => day < tokens[t].born + TokenLife
  /\ Begin(s, IF Live(t) THEN "rotate" ELSE "reuse", tokens[t].user, t, tokens[t].cred)
  /\ forked' = IF Live(t) /\ \E o \in Sessions : At(o, "rotate") /\ req[o].tok = t
               THEN forked \cup {tokens[t].fam} ELSE forked
  /\ UNCHANGED <<users, tokens, day, burned, late>>

\* verifyRefresh accepts the token for JwtLife; then the row decides.
RefreshRead(s, t) == tokens[t].st \in {"live", "revoked"} /\ Present(s, t)

\* A live token past its expires_at is revoked and refused.
RefreshExpired(t) ==
  /\ Live(t)
  /\ tokens[t].born + TokenLife <= day /\ day < tokens[t].born + JwtLife
  /\ tokens' = [tokens EXCEPT ![t] = Revoked(t)]
  /\ UNCHANGED <<users, req, day, forked, burned, late>>

\* Mutant: only the token presented is revoked.
ReuseRevokesOneToken(s) ==
  /\ At(s, "reuse")
  /\ RevokeWhere({req[s].tok})
  /\ burned' = burned \cup {tokens[req[s].tok].fam}
  /\ End(s)
  /\ UNCHANGED <<users, day, forked, late>>

\* A revoked token was presented: revokeFamilyTokens, then 401.
RefreshReuse(s) ==
  LET f == tokens[req[s].tok].fam IN
  /\ At(s, "reuse")
  /\ RevokeWhere({t \in Tokens : tokens[t].fam = f})
  /\ burned' = burned \cup {f}
  /\ late' = IF \E o \in Sessions : req[o].pc \in RefreshPCs /\ InFamily(req[o], f)
             THEN late \cup {f} ELSE late
  /\ End(s)
  /\ UNCHANGED <<users, day, forked>>

\* Mutant: the old token stays valid.
RotateKeepsToken(s) ==
  /\ At(s, "rotate")
  /\ Goto(s, "find")
  /\ UNCHANGED <<users, tokens, day, forked, burned, late>>

\* revokeRefreshToken of the token presented, whatever has become of its row.
RefreshRotate(s) ==
  /\ At(s, "rotate")
  /\ tokens' = [tokens EXCEPT ![req[s].tok] = Revoked(req[s].tok)]
  /\ Goto(s, "find")
  /\ UNCHANGED <<users, day, forked, burned, late>>

\* Mutant: the owner is not looked up again.
FindIgnoresUser(s) ==
  /\ At(s, "find")
  /\ Goto(s, "issue")
  /\ UNCHANGED <<users, tokens, day, forked, burned, late>>

\* findUserById sees active users only; a deleted user's token is used up.
RefreshFindUser(s) ==
  /\ At(s, "find")
  /\ IF users[req[s].user].st = "active" THEN Goto(s, "issue") ELSE End(s)
  /\ UNCHANGED <<users, tokens, day, forked, burned, late>>

-----------------------------------------------------------------------------
(* The operations that end sessions *)

\* revokeAllTokensForUser; a request of the user that is about to store a
\* token is not reached.
RevokeAll(u, r) ==
  /\ RevokeWhere({t \in Tokens : tokens[t].user = u})
  /\ req' = [s \in Sessions |->
       IF r[s].user = u /\ r[s].pc \in RefreshPCs
       THEN [r[s] EXCEPT !.cred = None] ELSE r[s]]
  /\ UNCHANGED <<users, day, forked, burned, late>>

\* The access token outlives the refresh token and the account.
Logout(u) == users[u].st # "none" /\ RevokeAll(u, req)

\* A password is written; the tokens are revoked by a later statement.
PasswordWrite(s, u, pw) ==
  /\ pw # users[u].pw
  /\ users' = [users EXCEPT ![u].pw = pw]
  /\ Begin(s, "revoke_all", u, None, None)
  /\ UNCHANGED <<tokens, day, forked, burned, late>>

\* The current password matches and the new one differs; findUserWithHashById
\* sees active users only.
ChangePassword(s, u, pw) == users[u].st = "active" /\ PasswordWrite(s, u, pw)

\* The student exists, deleted or not; the e-mail itself may fail.
ResendOnboarding(s, u, pw) == users[u].st # "none" /\ PasswordWrite(s, u, pw)

\* Mutant: the change forgets the sessions of other devices.
PasswordForgetsRevoke(s) ==
  /\ At(s, "revoke_all")
  /\ End(s)
  /\ UNCHANGED <<users, tokens, day, forked, burned, late>>

PasswordRevoke(s) ==
  /\ At(s, "revoke_all")
  /\ RevokeAll(req[s].user, [req EXCEPT ![s] = Idle])

-----------------------------------------------------------------------------
(* Accounts *)

\* All of these look for the e-mail among all rows, deleted ones included, and
\* insert; when another request was faster, the unique index makes the insert
\* fail and nothing changes.
InsertUser(u, pw) ==
  /\ users[u].st = "none"
  /\ users' = [users EXCEPT ![u] = [st |-> "active", pw |-> pw]]
  /\ UNCHANGED <<tokens, req, day, forked, burned, late>>

\* Staff, by an admin.
CreateUser(u, pw) == InsertUser(u, pw)

\* A student, when the enrollment is new and by the button for one that has
\* no account yet.
OnboardNewEnrollment(u, pw) == InsertUser(u, pw)

\* updateUser with a password, of a deleted user too; no token is revoked.
UpdateUser(u, pw) ==
  /\ users[u].st # "none" /\ pw # users[u].pw
  /\ users' = [users EXCEPT ![u].pw = pw]
  /\ tokens' = [t \in Tokens |->
       IF Live(t) /\ tokens[t].user = u
       THEN [tokens[t] EXCEPT !.cred = None] ELSE tokens[t]]
  /\ req' = [s \in Sessions |->
       IF req[s].user = u
       THEN [req[s] EXCEPT !.cred = None] ELSE req[s]]
  /\ UNCHANGED <<day, forked, burned, late>>

\* deleteUser revokes the tokens first and marks the row afterwards.
DeleteRevoke(s, u) ==
  /\ users[u].st # "none" /\ At(s, "idle")
  /\ RevokeAll(u, [req EXCEPT ![s] = [Idle EXCEPT !.pc = "del_soft", !.user = u]])

DeleteSoft(s) ==
  /\ At(s, "del_soft")
  /\ users' = [users EXCEPT ![req[s].user].st = "deleted"]
  /\ End(s)
  /\ UNCHANGED <<tokens, day, forked, burned, late>>

\* reactivateUser: no change for an active user.
ReactivateUser(u) ==
  /\ users[u].st = "deleted"
  /\ users' = [users EXCEPT ![u].st = "active"]
  /\ req' = [s \in Sessions |->
       IF req[s].user = u THEN [req[s] EXCEPT !.alive = TRUE] ELSE req[s]]
  /\ UNCHANGED <<tokens, day, forked, burned, late>>

-----------------------------------------------------------------------------
(* The clock and the cleanup job *)

\* A request does not last for days.
NextDay ==
  /\ day < MaxClock
  /\ \A s \in Sessions : At(s, "idle")
  /\ day' = day + 1
  /\ UNCHANGED <<users, tokens, req, forked, burned, late>>

Spent(t) == tokens[t].st = "revoked" \/ (Live(t) /\ tokens[t].born + TokenLife < day)

\* refreshTokenCleanup: one deleteMany.
Cleanup ==
  LET Old(t) == Spent(t) /\ tokens[t].born + Retention < day IN
  /\ \E t \in Tokens : Old(t)
  /\ tokens' = [t \in Tokens |->
       IF Old(t) THEN [Revoked(t) EXCEPT !.st = "deleted"] ELSE tokens[t]]
  /\ UNCHANGED <<users, req, day, forked, burned, late>>

-----------------------------------------------------------------------------

AccountsInit ==
  /\ users = [u \in Users |-> [st |-> "none", pw |-> None]]
  /\ tokens = [t \in Tokens |->
       [st |-> "unused", user |-> None, fam |-> None, born |-> 0,
        cred |-> None, alive |-> FALSE]]
  /\ req = [s \in Sessions |-> Idle]
  /\ day = 0
  /\ forked = {} /\ burned = {} /\ late = {}

AccountsNext ==
  \/ \E s \in Sessions :
       \/ Issue(s) \/ RefreshReuse(s) \/ RefreshRotate(s) \/ RefreshFindUser(s)
       \/ PasswordRevoke(s) \/ DeleteSoft(s)
       \/ \E t \in Tokens : RefreshRead(s, t)
       \/ \E u \in Users : Login(s, u) \/ DeleteRevoke(s, u)
       \/ \E u \in Users, pw \in Passwords :
            ChangePassword(s, u, pw) \/ ResendOnboarding(s, u, pw)
  \/ \E t \in Tokens : RefreshExpired(t)
  \/ \E u \in Users :
       \/ Logout(u) \/ ReactivateUser(u)
       \/ \E pw \in Passwords :
            CreateUser(u, pw) \/ OnboardNewEnrollment(u, pw) \/ UpdateUser(u, pw)
  \/ NextDay \/ Cleanup

AccountsSpec == AccountsInit /\ [][AccountsNext]_accountsVars
=============================================================================
