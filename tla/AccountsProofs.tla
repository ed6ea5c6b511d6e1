--------------------------- MODULE AccountsProofs ---------------------------
(***************************************************************************)
(* Proofs about the refresh tokens, for any number of users, passwords,    *)
(* tokens and concurrent requests and for any lifetimes; and about access  *)
(* tokens, cached permissions and the seed, for any number of users,       *)
(* roles, codes, servers and waiting requests and for any lifetimes.       *)
(***************************************************************************)
EXTENDS AccountsProperties, AuthorityProperties, FiniteSetTheorems, TLAPS

-----------------------------------------------------------------------------
(* The inductive invariant *)

Used(t) == tokens[t].st # "unused"
Refreshing(s, f) == req[s].pc \in RefreshPCs /\ InFamily(req[s], f)

\* Every token that was issued has an owner with an account and a family.
TokenInv ==
  /\ \A t \in Tokens : Used(t) =>
       /\ tokens[t].user \in Users /\ users[tokens[t].user].st # "none"
       /\ tokens[t].fam \in Tokens /\ Used(tokens[t].fam)
       /\ tokens[t].alive
  /\ \A f \in forked \cup burned : Used(f)

\* What a request knows between its statements.
RequestInv(s) ==
  /\ req[s].pc = "idle" => req[s].tok = None
  /\ req[s].pc # "idle" => req[s].user \in Users /\ users[req[s].user].st # "none"
  /\ req[s].tok # None => Used(req[s].tok) /\ tokens[req[s].tok].user = req[s].user
  /\ req[s].pc \in {"rotate", "find", "reuse"} => req[s].tok # None
  /\ req[s].pc \in RefreshPCs /\ users[req[s].user].st = "active" => req[s].alive
  /\ req[s].pc = "issue" => req[s].alive

\* One refresh at a time works on a family, and beside it only the token it is
\* about to revoke is live.
Lineage(f) ==
  /\ \A t, u \in Tokens :
       Live(t) /\ Live(u) /\ tokens[t].fam = f /\ tokens[u].fam = f => t = u
  /\ \A s, r \in Sessions : Refreshing(s, f) /\ Refreshing(r, f) => s = r
  /\ \A s \in Sessions, t \in Tokens :
       Refreshing(s, f) /\ Live(t) /\ tokens[t].fam = f => At(s, "rotate") /\ req[s].tok = t

\* Nothing is left of a family whose reuse was detected in time.
Dead(f) ==
  /\ \A t \in Tokens : Live(t) => tokens[t].fam # f
  /\ \A s \in Sessions : ~Refreshing(s, f)

\* A password change that has yet to revoke the tokens of the user.
Revoking(u) == \E s \in Sessions : At(s, "revoke_all") /\ req[s].user = u

CredInv ==
  /\ OldPasswordEndsSessions
  /\ \A s \in Sessions :
       req[s].pc \in RefreshPCs /\ req[s].cred \notin {None, users[req[s].user].pw} =>
         Revoking(req[s].user)

IInv ==
  /\ AccountsTypeOK
  /\ TokenInv
  /\ \A s \in Sessions : RequestInv(s)
  /\ \A f \in Tokens \ forked : Lineage(f)
  /\ \A f \in burned \ late : Dead(f)
  /\ CredInv

-----------------------------------------------------------------------------
(* What most steps leave alone *)

\* No token is issued; live ones may be revoked.
OnlyRevokes ==
  \A t \in Tokens :
    /\ tokens'[t].user = tokens[t].user /\ tokens'[t].fam = tokens[t].fam
    /\ tokens'[t].alive = tokens[t].alive
    /\ Used(t)' <=> Used(t)
    /\ Live(t)' => Live(t) /\ tokens'[t].cred \in {None, tokens[t].cred}

\* No refresh begins or goes on.
NoRefreshMoves ==
  \A s \in Sessions :
    req'[s].pc \in RefreshPCs /\ req'[s].tok # None =>
      req[s].pc = req'[s].pc /\ req[s].tok = req'[s].tok

LEMMA LiveKept ==
  ASSUME OnlyRevokes, NEW t \in Tokens, Live(t)'
  PROVE  Live(t) /\ tokens'[t].fam = tokens[t].fam
BY DEF OnlyRevokes

\* A request that refreshes was refreshing the same token before.
LEMMA RefreshKept ==
  ASSUME AccountsTypeOK, AccountsTypeOK', OnlyRevokes, NoRefreshMoves,
         NEW s \in Sessions, NEW f, Refreshing(s, f)'
  PROVE  /\ Refreshing(s, f)
         /\ req'[s].pc = req[s].pc /\ req'[s].tok = req[s].tok /\ req[s].tok \in Tokens
<1>1. /\ req'[s].pc \in RefreshPCs /\ req'[s].tok # None
      /\ tokens'[req'[s].tok].fam = f
  BY DEF Refreshing, InFamily
<1>2. req'[s].pc = req[s].pc /\ req'[s].tok = req[s].tok
  BY <1>1 DEF NoRefreshMoves
<1>3. req[s].tok \in Tokens
  BY <1>1, <1>2 DEF AccountsTypeOK, Request
<1>4. tokens'[req[s].tok].fam = tokens[req[s].tok].fam
  BY <1>3 DEF OnlyRevokes
<1> QED
  BY <1>1, <1>2, <1>3, <1>4 DEF Refreshing, InFamily

\* A step that only revokes keeps every family's line.
LEMMA LineageKept ==
  ASSUME AccountsTypeOK, AccountsTypeOK', OnlyRevokes, NoRefreshMoves,
         NEW f \in Tokens, Lineage(f)
  PROVE  Lineage(f)'
<1>1. ASSUME NEW t \in Tokens, NEW u \in Tokens, Live(t)', Live(u)',
             tokens'[t].fam = f, tokens'[u].fam = f
      PROVE  t = u
  BY <1>1, LiveKept DEF Lineage
<1>2. ASSUME NEW s \in Sessions, NEW r \in Sessions, Refreshing(s, f)', Refreshing(r, f)'
      PROVE  s = r
  BY <1>2, RefreshKept DEF Lineage
<1>3. ASSUME NEW s \in Sessions, NEW t \in Tokens,
             Refreshing(s, f)', Live(t)', tokens'[t].fam = f
      PROVE  At(s, "rotate")' /\ req'[s].tok = t
  BY <1>3, RefreshKept, LiveKept DEF Lineage, At
<1> QED
  BY <1>1, <1>2, <1>3 DEF Lineage

\* A step that only revokes keeps a dead family dead.
LEMMA DeadKept ==
  ASSUME AccountsTypeOK, AccountsTypeOK', OnlyRevokes, NoRefreshMoves,
         NEW f \in Tokens, Dead(f)
  PROVE  Dead(f)'
<1>1. ASSUME NEW t \in Tokens, Live(t)' PROVE tokens'[t].fam # f
  BY <1>1, LiveKept DEF Dead
<1>2. ASSUME NEW s \in Sessions, Refreshing(s, f)' PROVE FALSE
  BY <1>2, RefreshKept DEF Dead
<1> QED
  BY <1>1, <1>2 DEF Dead

\* The facts of both lemmas for all families.
LEMMA FamiliesKept ==
  ASSUME IInv, AccountsTypeOK', OnlyRevokes, NoRefreshMoves,
         forked' = forked, burned' = burned, late' = late
  PROVE  /\ \A f \in Tokens \ forked' : Lineage(f)'
         /\ \A f \in burned' \ late' : Dead(f)'
<1>1. ASSUME NEW f \in Tokens \ forked' PROVE Lineage(f)'
  BY LineageKept DEF IInv
<1>2. ASSUME NEW f \in burned' \ late' PROVE Dead(f)'
  <2>1. f \in Tokens /\ f \in burned \ late
    BY DEF IInv, AccountsTypeOK
  <2> QED
    BY <2>1, DeadKept DEF IInv
<1> QED
  BY <1>1, <1>2

\* Tokens keep their owners, and owners their accounts.
LEMMA TokenInvKept ==
  ASSUME IInv, OnlyRevokes, forked' = forked, burned' \subseteq Tokens,
         \A f \in burned' : Used(f),
         \A u \in Users : users'[u].st = "none" => users[u].st = "none"
  PROVE  TokenInv'
<1>1. ASSUME NEW t \in Tokens, Used(t)'
      PROVE  /\ tokens'[t].user \in Users /\ users'[tokens'[t].user].st # "none"
             /\ tokens'[t].fam \in Tokens /\ Used(tokens[t].fam)'
             /\ tokens'[t].alive
  <2>1. Used(t)
    BY <1>1 DEF OnlyRevokes
  <2>2. /\ tokens[t].user \in Users /\ users[tokens[t].user].st # "none"
        /\ tokens[t].fam \in Tokens /\ Used(tokens[t].fam) /\ tokens[t].alive
    BY <2>1 DEF IInv, TokenInv
  <2>3. /\ tokens'[t].user = tokens[t].user /\ tokens'[t].fam = tokens[t].fam
        /\ tokens'[t].alive = tokens[t].alive
    BY <2>2 DEF OnlyRevokes
  <2>4. tokens'[tokens[t].fam].st # "unused"
    BY <2>2 DEF OnlyRevokes, Used
  <2> QED
    BY <2>2, <2>3, <2>4 DEF Used
<1>2. ASSUME NEW f \in forked' \cup burned' PROVE Used(f)'
  <2>1. f \in Tokens /\ Used(f)
    <3>1. CASE f \in burned'
      BY <3>1
    <3>2. CASE f \in forked'
      BY <3>2 DEF IInv, AccountsTypeOK, TokenInv
    <3> QED
      BY <3>1, <3>2
  <2> QED
    BY <2>1 DEF OnlyRevokes
<1> QED
  BY <1>1, <1>2 DEF TokenInv

\* A request that a step leaves alone knows what it knew.
LEMMA RequestKept ==
  ASSUME IInv, NEW s \in Sessions,
         \A t \in Tokens : Used(t) => Used(t)' /\ tokens'[t].user = tokens[t].user,
         \A u \in Users : users'[u].st = "none" => users[u].st = "none",
         req'[s].pc = req[s].pc, req'[s].user = req[s].user, req'[s].tok = req[s].tok,
         req[s].alive => req'[s].alive,
         users'[req[s].user].st = "active" => users[req[s].user].st = "active" \/ req'[s].alive
  PROVE  RequestInv(s)'
<1>1. RequestInv(s) /\ req[s].tok \in Tokens \cup {None}
  BY DEF IInv, AccountsTypeOK, Request
<1>2. req[s].pc # "idle" => req[s].user \in Users /\ users'[req[s].user].st # "none"
  BY <1>1 DEF RequestInv
<1>3. req[s].tok # None => Used(req[s].tok)' /\ tokens'[req[s].tok].user = req[s].user
  BY <1>1 DEF RequestInv
<1> QED
  BY <1>1, <1>2, <1>3 DEF RequestInv, Used

\* Passwords stay, and requests keep or forget the one they began with.
LEMMA CredKept ==
  ASSUME IInv, AccountsTypeOK', OnlyRevokes,
         \A u \in Users \cup {None} : users'[u].pw = users[u].pw,
         \A s \in Sessions : At(s, "revoke_all") => req'[s] = req[s],
         \A s \in Sessions : req'[s].pc \in RefreshPCs =>
           /\ req[s].pc \in RefreshPCs /\ req'[s].user = req[s].user
           /\ req'[s].cred \in {None, req[s].cred}
  PROVE  CredInv'
<1>1. ASSUME NEW u, Revoking(u)
      PROVE  \E s \in Sessions : req'[s].pc = "revoke_all" /\ req'[s].user = u
  BY <1>1 DEF Revoking, At
<1>2. ASSUME NEW t \in Tokens, Live(t)',
             tokens'[t].cred \notin {None, users'[tokens'[t].user].pw}
      PROVE  \E s \in Sessions : req'[s].pc = "revoke_all" /\ req'[s].user = tokens'[t].user
  <2>1. /\ Live(t) /\ tokens'[t].user = tokens[t].user
        /\ tokens'[t].cred \in {None, tokens[t].cred}
    BY <1>2 DEF OnlyRevokes
  <2>2. tokens[t].user \in Users \cup {None}
    BY DEF IInv, AccountsTypeOK, Token
  <2>3. Revoking(tokens[t].user)
    BY <1>2, <2>1, <2>2 DEF IInv, CredInv, OldPasswordEndsSessions, Revoking
  <2> QED
    BY <1>1, <2>1, <2>3
<1>3. ASSUME NEW s \in Sessions, req'[s].pc \in RefreshPCs,
             req'[s].cred \notin {None, users'[req'[s].user].pw}
      PROVE  \E r \in Sessions : req'[r].pc = "revoke_all" /\ req'[r].user = req'[s].user
  <2>1. /\ req[s].pc \in RefreshPCs /\ req'[s].user = req[s].user
        /\ req'[s].cred \in {None, req[s].cred}
    BY <1>3
  <2>2. req[s].user \in Users \cup {None}
    BY DEF IInv, AccountsTypeOK, Request
  <2>3. Revoking(req[s].user)
    BY <1>3, <2>1, <2>2 DEF IInv, CredInv
  <2> QED
    BY <1>1, <2>1, <2>3
<1> QED
  BY <1>2, <1>3 DEF CredInv, OldPasswordEndsSessions, Revoking, At

-----------------------------------------------------------------------------
(* Types *)

\* What a family is: every issued token has one.
LEMMA FamilyType ==
  ASSUME IInv, NEW s \in Sessions, req[s].tok # None
  PROVE  /\ req[s].tok \in Tokens /\ Used(req[s].tok)
         /\ tokens[req[s].tok].fam \in Tokens /\ Used(tokens[req[s].tok].fam)
         /\ tokens[req[s].tok].user = req[s].user /\ req[s].user \in Users
BY DEF IInv, AccountsTypeOK, Request, RequestInv, TokenInv

LEMMA RevokeWhereType ==
  ASSUME AccountsTypeOK, NEW T, RevokeWhere(T)
  PROVE  /\ tokens' \in [Tokens -> Token]
         /\ OnlyRevokes
         /\ \A t \in T : t \in Tokens => ~Live(t)'
<1>1. ASSUME NEW t \in Tokens
      PROVE  /\ Revoked(t) \in Token
             /\ Revoked(t).user = tokens[t].user /\ Revoked(t).fam = tokens[t].fam
             /\ Revoked(t).alive = tokens[t].alive /\ Revoked(t).st = "revoked"
  <2> DEFINE r == [tokens[t] EXCEPT !.st = "revoked"]
  <2>1. tokens[t] \in Token
    BY DEF AccountsTypeOK
  <2>2. /\ r \in Token /\ r.st = "revoked"
        /\ r.user = tokens[t].user /\ r.fam = tokens[t].fam /\ r.alive = tokens[t].alive
    BY <2>1 DEF Token
  <2>3. Revoked(t) = [r EXCEPT !.cred = None]
    BY DEF Revoked
  <2> HIDE DEF r
  <2> QED
    BY <2>2, <2>3 DEF Token
<1> QED
  BY <1>1 DEF AccountsTypeOK, RevokeWhere, OnlyRevokes, Live, Used

\* A step that changes one request.
LEMMA OneRequest ==
  ASSUME AccountsTypeOK, NEW s \in Sessions, NEW r \in Request, req' = [req EXCEPT ![s] = r]
  PROVE  /\ req' \in [Sessions -> Request] /\ req'[s] = r
         /\ \A o \in Sessions : o # s => req'[o] = req[o]
BY DEF AccountsTypeOK

LEMMA IdleType == Idle \in Request /\ Idle.pc = "idle" /\ Idle.tok = None
BY DEF Idle, Request, PCs

LEMMA GotoType ==
  ASSUME AccountsTypeOK, NEW s \in Sessions, NEW c \in PCs, Goto(s, c)
  PROVE  /\ req' \in [Sessions -> Request] /\ req'[s].pc = c
         /\ req'[s].user = req[s].user /\ req'[s].tok = req[s].tok
         /\ req'[s].cred = req[s].cred /\ req'[s].alive = req[s].alive
         /\ \A o \in Sessions : o # s => req'[o] = req[o]
BY DEF AccountsTypeOK, Goto, Request

-----------------------------------------------------------------------------
(* The steps that only revoke *)

\* The families and the tokens follow from what such a step leaves alone.
LEMMA QuietStep ==
  ASSUME IInv, AccountsTypeOK', OnlyRevokes, NoRefreshMoves,
         forked' = forked, burned' = burned, late' = late,
         \A u \in Users : users'[u].st = "none" => users[u].st = "none",
         \A s \in Sessions : RequestInv(s)',
         CredInv'
  PROVE  IInv'
<1>1. TokenInv'
  <2>1. burned' \subseteq Tokens /\ \A f \in burned' : Used(f)
    BY DEF IInv, AccountsTypeOK, TokenInv
  <2> QED
    BY <2>1, TokenInvKept
<1> QED
  BY <1>1, FamiliesKept DEF IInv

\* Tokens that do not change are not revoked either.
LEMMA TokensStay ==
  ASSUME AccountsTypeOK, tokens' = tokens
  PROVE  OnlyRevokes
BY DEF OnlyRevokes, Used, Live

LEMMA ExpiredStep ==
  ASSUME IInv, NEW t \in Tokens, RefreshExpired(t)
  PROVE  IInv'
<1>1. RevokeWhere({t})
  BY DEF RefreshExpired, RevokeWhere, IInv, AccountsTypeOK
<1>2. AccountsTypeOK' /\ OnlyRevokes
  BY <1>1, RevokeWhereType DEF RefreshExpired, IInv, AccountsTypeOK
<1>3. UNCHANGED <<users, req, forked, burned, late>>
  BY DEF RefreshExpired
<1>4. NoRefreshMoves
  BY <1>3 DEF NoRefreshMoves
<1>5. \A s \in Sessions : RequestInv(s)'
  <2> SUFFICES ASSUME NEW s \in Sessions PROVE RequestInv(s)'
    OBVIOUS
  <2> QED
    BY <1>2, <1>3, RequestKept DEF OnlyRevokes
<1>6. CredInv'
  BY <1>2, <1>3, CredKept
<1> QED
  BY <1>2, <1>3, <1>4, <1>5, <1>6, QuietStep

\* revokeAllTokensForUser, with at most requests that do not refresh ending or
\* beginning in the same step.
LEMMA RevokeAllStep ==
  ASSUME IInv, NEW u \in Users, NEW r \in [Sessions -> Request], RevokeAll(u, r),
         \A s \in Sessions :
           \/ r[s] = req[s]
           \/ /\ r[s].pc \notin {"rotate", "find", "issue", "reuse", "revoke_all"}
              /\ r[s].tok = None
              /\ At(s, "revoke_all") => req[s].user = u
              /\ r[s].pc # "idle" => r[s].user \in Users /\ users[r[s].user].st # "none"
  PROVE  IInv'
<1> DEFINE T == {t \in Tokens : tokens[t].user = u}
<1>1. /\ RevokeWhere(T)
      /\ UNCHANGED <<users, day, forked, burned, late>>
  BY DEF RevokeAll
<1>2. /\ tokens' \in [Tokens -> Token] /\ OnlyRevokes
      /\ \A t \in Tokens : tokens[t].user = u => ~Live(t)'
  <2> HIDE DEF T
  <2>1. tokens' \in [Tokens -> Token] /\ OnlyRevokes
        /\ \A t \in T : t \in Tokens => ~Live(t)'
    BY <1>1, RevokeWhereType DEF IInv
  <2> QED
    BY <2>1 DEF T
<1>3. ASSUME NEW s \in Sessions
      PROVE  /\ req'[s] \in Request
             /\ req'[s].pc = r[s].pc /\ req'[s].user = r[s].user
             /\ req'[s].tok = r[s].tok /\ req'[s].alive = r[s].alive
             /\ req'[s].cred \in {None, r[s].cred}
             /\ r[s].user = u /\ r[s].pc \in RefreshPCs => req'[s].cred = None
  <2>1. req'[s] = IF r[s].user = u /\ r[s].pc \in RefreshPCs
                  THEN [r[s] EXCEPT !.cred = None] ELSE r[s]
    BY DEF RevokeAll
  <2>2. r[s] \in Request
    OBVIOUS
  <2> QED
    BY <2>1, <2>2 DEF Request
<1>4. AccountsTypeOK'
  <2>1. req' \in [Sessions -> Request]
    <3>1. req' = [s \in Sessions |-> req'[s]]
      BY DEF RevokeAll
    <3> QED
      BY <1>3, <3>1
  <2> QED
    BY <1>1, <1>2, <2>1 DEF IInv, AccountsTypeOK
<1>5. NoRefreshMoves
  BY <1>3 DEF NoRefreshMoves, RefreshPCs
<1>6. ASSUME NEW s \in Sessions PROVE RequestInv(s)'
  <2>1. CASE r[s] = req[s]
    BY <1>1, <1>2, <1>3, <2>1, RequestKept DEF OnlyRevokes
  <2>2. CASE r[s] # req[s]
    BY <1>1, <1>3, <2>2 DEF RequestInv, RefreshPCs
  <2> QED
    BY <2>1, <2>2
<1>7. CredInv'
  <2>1. ASSUME NEW v, v # u, Revoking(v)
        PROVE  \E s \in Sessions : req'[s].pc = "revoke_all" /\ req'[s].user = v
    <3>1. PICK s \in Sessions : req[s].pc = "revoke_all" /\ req[s].user = v
      BY <2>1 DEF Revoking, At
    <3>2. r[s] = req[s]
      BY <2>1, <3>1 DEF At
    <3> QED
      BY <1>3, <3>1, <3>2
  <2>2. ASSUME NEW t \in Tokens, Live(t)',
               tokens'[t].cred \notin {None, users'[tokens'[t].user].pw}
        PROVE  \E s \in Sessions : req'[s].pc = "revoke_all" /\ req'[s].user = tokens'[t].user
    <3>1. /\ Live(t) /\ tokens'[t].user = tokens[t].user
          /\ tokens'[t].cred \in {None, tokens[t].cred} /\ tokens[t].user # u
      BY <1>2, <2>2 DEF OnlyRevokes
    <3>2. Revoking(tokens[t].user)
      BY <1>1, <2>2, <3>1 DEF IInv, CredInv, OldPasswordEndsSessions, Revoking
    <3> QED
      BY <2>1, <3>1, <3>2
  <2>3. ASSUME NEW s \in Sessions, req'[s].pc \in RefreshPCs,
               req'[s].cred \notin {None, users'[req'[s].user].pw}
        PROVE  \E o \in Sessions : req'[o].pc = "revoke_all" /\ req'[o].user = req'[s].user
    <3>1. r[s] = req[s] /\ req'[s].user = req[s].user /\ req[s].user # u
          /\ req'[s].cred \in {None, req[s].cred} /\ req[s].pc \in RefreshPCs
      BY <1>3, <2>3 DEF RefreshPCs
    <3>2. Revoking(req[s].user)
      BY <1>1, <2>3, <3>1 DEF IInv, CredInv
    <3> QED
      BY <2>1, <3>1, <3>2
  <2> QED
    BY <2>2, <2>3 DEF CredInv, OldPasswordEndsSessions, Revoking, At
<1> QED
  BY <1>1, <1>2, <1>4, <1>5, <1>6, <1>7, QuietStep

LEMMA LogoutStep ==
  ASSUME IInv, NEW u \in Users, Logout(u)
  PROVE  IInv'
<1>1. RevokeAll(u, req) /\ req \in [Sessions -> Request]
  BY DEF Logout, IInv, AccountsTypeOK
<1> QED
  BY <1>1, RevokeAllStep

LEMMA PasswordRevokeStep ==
  ASSUME IInv, NEW s \in Sessions, PasswordRevoke(s)
  PROVE  IInv'
<1> DEFINE r == [req EXCEPT ![s] = Idle]
<1>1. /\ RevokeAll(req[s].user, r) /\ req[s].pc = "revoke_all"
      /\ req[s].user \in Users
  BY DEF PasswordRevoke, At, IInv, RequestInv
<1>2. r \in [Sessions -> Request] /\ r[s] = Idle
      /\ \A o \in Sessions : o # s => r[o] = req[o]
  BY IdleType DEF IInv, AccountsTypeOK
<1> HIDE DEF r
<1> QED
  BY <1>1, <1>2, IdleType, RevokeAllStep

LEMMA DeleteRevokeStep ==
  ASSUME IInv, NEW s \in Sessions, NEW u \in Users, DeleteRevoke(s, u)
  PROVE  IInv'
<1> DEFINE i == [Idle EXCEPT !.pc = "del_soft", !.user = u]
           r == [req EXCEPT ![s] = i]
<1>1. i \in Request /\ i.pc = "del_soft" /\ i.user = u /\ i.tok = None
  BY DEF Idle, Request, PCs
<1>2. RevokeAll(u, r) /\ req[s].pc = "idle" /\ users[u].st # "none"
  BY DEF DeleteRevoke, At
<1> HIDE DEF i
<1>3. r \in [Sessions -> Request] /\ r[s] = i
      /\ \A o \in Sessions : o # s => r[o] = req[o]
  BY <1>1 DEF IInv, AccountsTypeOK
<1> HIDE DEF r
<1>4. \A o \in Sessions :
        \/ r[o] = req[o]
        \/ /\ r[o].pc \notin {"rotate", "find", "issue", "reuse", "revoke_all"}
           /\ r[o].tok = None
           /\ At(o, "revoke_all") => req[o].user = u
           /\ r[o].pc # "idle" => r[o].user \in Users /\ users[r[o].user].st # "none"
  BY <1>1, <1>2, <1>3 DEF At
<1> QED
  BY <1>2, <1>3, <1>4, RevokeAllStep

-----------------------------------------------------------------------------
(* The other steps of accounts *)

LEMMA InsertUserStep ==
  ASSUME IInv, NEW u \in Users, NEW pw \in Passwords, InsertUser(u, pw)
  PROVE  IInv'
<1>1. /\ users[u].st = "none" /\ users' = [users EXCEPT ![u] = [st |-> "active", pw |-> pw]]
      /\ UNCHANGED <<tokens, req, day, forked, burned, late>>
  BY DEF InsertUser
<1>2. AccountsTypeOK'
  BY <1>1 DEF IInv, AccountsTypeOK, User
<1>3. /\ users'[u].st = "active"
      /\ \A v : v # u => users'[v] = users[v]
  BY <1>1 DEF IInv, AccountsTypeOK
<1>4. OnlyRevokes /\ NoRefreshMoves
  BY <1>1, TokensStay DEF IInv, NoRefreshMoves
<1>5. \A s \in Sessions : req[s].pc # "idle" => req[s].user # u
  BY <1>1 DEF IInv, RequestInv
<1>6. ASSUME NEW s \in Sessions PROVE RequestInv(s)'
  BY <1>1, <1>3, <1>5 DEF IInv, RequestInv, RefreshPCs, Used
<1>7. CredInv'
  <2>1. \A t \in Tokens : Live(t) => tokens[t].user # u
    BY <1>1 DEF IInv, TokenInv, Live, Used
  <2> QED
    BY <1>1, <1>3, <1>5, <2>1
       DEF IInv, CredInv, OldPasswordEndsSessions, Revoking, Live, At, RefreshPCs
<1> QED
  BY <1>1, <1>2, <1>3, <1>4, <1>6, <1>7, QuietStep

LEMMA UpdateUserStep ==
  ASSUME IInv, NEW u \in Users, NEW pw \in Passwords, UpdateUser(u, pw)
  PROVE  IInv'
<1>1. /\ users' = [users EXCEPT ![u].pw = pw]
      /\ UNCHANGED <<day, forked, burned, late>>
      /\ tokens' = [t \in Tokens |->
           IF Live(t) /\ tokens[t].user = u THEN [tokens[t] EXCEPT !.cred = None] ELSE tokens[t]]
      /\ req' = [s \in Sessions |->
           IF req[s].user = u THEN [req[s] EXCEPT !.cred = None] ELSE req[s]]
  BY DEF UpdateUser
<1>2. /\ users' \in [Users -> User]
      /\ \A v \in Users : users'[v].st = users[v].st
      /\ \A v : v # u => users'[v] = users[v]
  BY <1>1 DEF IInv, AccountsTypeOK, User
<1>3. ASSUME NEW t \in Tokens
      PROVE  /\ tokens'[t] \in Token /\ tokens'[t].st = tokens[t].st
             /\ tokens'[t].user = tokens[t].user /\ tokens'[t].fam = tokens[t].fam
             /\ tokens'[t].alive = tokens[t].alive
             /\ tokens'[t].cred \in {None, tokens[t].cred}
             /\ Live(t) /\ tokens[t].user = u => tokens'[t].cred = None
  <2>1. tokens[t] \in Token
    BY DEF IInv, AccountsTypeOK
  <2>2. tokens'[t] = IF Live(t) /\ tokens[t].user = u
                     THEN [tokens[t] EXCEPT !.cred = None] ELSE tokens[t]
    BY <1>1
  <2> QED
    BY <2>1, <2>2 DEF Token
<1>4. ASSUME NEW s \in Sessions
      PROVE  /\ req'[s] \in Request /\ req'[s].pc = req[s].pc
             /\ req'[s].user = req[s].user /\ req'[s].tok = req[s].tok
             /\ req'[s].alive = req[s].alive
             /\ req'[s].cred \in {None, req[s].cred}
             /\ req[s].user = u => req'[s].cred = None
  <2>1. req[s] \in Request
    BY DEF IInv, AccountsTypeOK
  <2>2. req'[s] = IF req[s].user = u THEN [req[s] EXCEPT !.cred = None] ELSE req[s]
    BY <1>1
  <2> QED
    BY <2>1, <2>2 DEF Request
<1>5. AccountsTypeOK'
  <2>1. tokens' \in [Tokens -> Token]
    <3>1. tokens' = [t \in Tokens |-> tokens'[t]]
      BY <1>1
    <3> QED
      BY <1>3, <3>1
  <2>2. req' \in [Sessions -> Request]
    <3>1. req' = [s \in Sessions |-> req'[s]]
      BY <1>1
    <3> QED
      BY <1>4, <3>1
  <2> QED
    BY <1>1, <1>2, <2>1, <2>2 DEF IInv, AccountsTypeOK
<1>6. OnlyRevokes
  BY <1>3 DEF OnlyRevokes, Live, Used
<1>7. NoRefreshMoves
  BY <1>4 DEF NoRefreshMoves
<1>8. ASSUME NEW s \in Sessions PROVE RequestInv(s)'
  <2>1. req[s].user \in Users => users'[req[s].user].st = users[req[s].user].st
    BY <1>2
  <2>2. RequestInv(s) /\ req[s].tok \in Tokens \cup {None}
    BY DEF IInv, AccountsTypeOK, Request
  <2>3. req[s].tok # None => tokens'[req[s].tok].st # "unused"
                             /\ tokens'[req[s].tok].user = req[s].user
    BY <1>3, <2>2 DEF RequestInv, Used
  <2> QED
    BY <1>4, <2>1, <2>2, <2>3 DEF RequestInv, RefreshPCs, Used
<1>9. CredInv'
  <2>1. ASSUME NEW v, Revoking(v)
        PROVE  \E s \in Sessions : req'[s].pc = "revoke_all" /\ req'[s].user = v
    BY <1>4, <2>1 DEF Revoking, At
  <2>2. ASSUME NEW t \in Tokens, Live(t)',
               tokens'[t].cred \notin {None, users'[tokens'[t].user].pw}
        PROVE  \E s \in Sessions : req'[s].pc = "revoke_all" /\ req'[s].user = tokens'[t].user
    <3>1. Live(t) /\ tokens[t].user # u /\ tokens'[t].cred = tokens[t].cred
      BY <1>3, <2>2 DEF Live
    <3>2. Revoking(tokens[t].user)
      BY <1>2, <1>3, <2>2, <3>1 DEF IInv, CredInv, OldPasswordEndsSessions, Revoking
    <3> QED
      BY <1>3, <2>1, <3>2
  <2>3. ASSUME NEW s \in Sessions, req'[s].pc \in RefreshPCs,
               req'[s].cred \notin {None, users'[req'[s].user].pw}
        PROVE  \E o \in Sessions : req'[o].pc = "revoke_all" /\ req'[o].user = req'[s].user
    <3>1. req[s].user # u /\ req'[s].cred = req[s].cred /\ req[s].pc \in RefreshPCs
      BY <1>4, <2>3
    <3>2. Revoking(req[s].user)
      BY <1>2, <1>4, <2>3, <3>1 DEF IInv, CredInv
    <3> QED
      BY <1>4, <2>1, <3>2
  <2> QED
    BY <2>2, <2>3 DEF CredInv, OldPasswordEndsSessions, Revoking, At
<1> QED
  BY <1>1, <1>2, <1>5, <1>6, <1>7, <1>8, <1>9, QuietStep

LEMMA DeleteSoftStep ==
  ASSUME IInv, NEW s \in Sessions, DeleteSoft(s)
  PROVE  IInv'
<1> DEFINE u == req[s].user
<1>1. /\ req[s].pc = "del_soft" /\ users' = [users EXCEPT ![u].st = "deleted"]
      /\ End(s) /\ UNCHANGED <<tokens, day, forked, burned, late>> /\ u \in Users
  BY DEF DeleteSoft, At, IInv, RequestInv
<1> HIDE DEF u
<1>2. /\ users' \in [Users -> User] /\ users'[u].st = "deleted"
      /\ \A v : users'[v].pw = users[v].pw
      /\ \A v : v # u => users'[v] = users[v]
  BY <1>1 DEF IInv, AccountsTypeOK, User
<1>3. /\ req' \in [Sessions -> Request] /\ req'[s] = Idle
      /\ \A o \in Sessions : o # s => req'[o] = req[o]
  BY <1>1, IdleType, OneRequest DEF End, IInv
<1>4. AccountsTypeOK' /\ OnlyRevokes /\ NoRefreshMoves
  <2>1. OnlyRevokes
    BY <1>1, TokensStay DEF IInv
  <2>2. AccountsTypeOK' /\ NoRefreshMoves
    BY <1>1, <1>2, <1>3, IdleType DEF IInv, AccountsTypeOK, NoRefreshMoves
  <2> QED
    BY <2>1, <2>2
<1>5. ASSUME NEW o \in Sessions PROVE RequestInv(o)'
  <2>1. CASE o = s
    BY <1>3, <2>1, IdleType DEF RequestInv, RefreshPCs
  <2>2. CASE o # s
    <3>1. req'[o] = req[o] /\ RequestInv(o)
      BY <1>3, <2>2 DEF IInv
    <3> QED
      BY <1>1, <1>2, <3>1 DEF RequestInv, RefreshPCs, Used
  <2> QED
    BY <2>1, <2>2
<1>6. CredInv'
  <2>1. \A o \in Sessions : At(o, "revoke_all") => req'[o] = req[o]
    BY <1>1, <1>3 DEF At
  <2>2. \A o \in Sessions : req'[o].pc \in RefreshPCs => req'[o] = req[o]
    BY <1>3, IdleType DEF RefreshPCs
  <2> QED
    BY <1>2, <1>4, <2>1, <2>2, CredKept
<1> QED
  BY <1>1, <1>2, <1>4, <1>5, <1>6, QuietStep

LEMMA ReactivateUserStep ==
  ASSUME IInv, NEW u \in Users, ReactivateUser(u)
  PROVE  IInv'
<1>1. /\ users[u].st = "deleted" /\ users' = [users EXCEPT ![u].st = "active"]
      /\ req' = [s \in Sessions |->
           IF req[s].user = u THEN [req[s] EXCEPT !.alive = TRUE] ELSE req[s]]
      /\ UNCHANGED <<tokens, day, forked, burned, late>>
  BY DEF ReactivateUser
<1>2. /\ users' \in [Users -> User] /\ users'[u].st = "active"
      /\ \A v : users'[v].pw = users[v].pw
      /\ \A v : v # u => users'[v] = users[v]
  BY <1>1 DEF IInv, AccountsTypeOK, User
<1>3. ASSUME NEW s \in Sessions
      PROVE  /\ req'[s] \in Request /\ req'[s].pc = req[s].pc
             /\ req'[s].user = req[s].user /\ req'[s].tok = req[s].tok
             /\ req'[s].cred = req[s].cred
             /\ req[s].alive => req'[s].alive
             /\ req[s].user = u => req'[s].alive
  <2>1. req[s] \in Request
    BY DEF IInv, AccountsTypeOK
  <2>2. req'[s] = IF req[s].user = u THEN [req[s] EXCEPT !.alive = TRUE] ELSE req[s]
    BY <1>1
  <2> QED
    BY <2>1, <2>2 DEF Request
<1>4. AccountsTypeOK' /\ OnlyRevokes /\ NoRefreshMoves
  <2>1. OnlyRevokes
    BY <1>1, TokensStay DEF IInv
  <2>2. req' \in [Sessions -> Request]
    <3>1. req' = [s \in Sessions |-> req'[s]]
      BY <1>1
    <3> QED
      BY <1>3, <3>1
  <2>3. AccountsTypeOK'
    BY <1>1, <1>2, <2>2 DEF IInv, AccountsTypeOK
  <2>4. NoRefreshMoves
    BY <1>3 DEF NoRefreshMoves
  <2> QED
    BY <2>1, <2>3, <2>4
<1>5. ASSUME NEW s \in Sessions PROVE RequestInv(s)'
  <2>1. RequestInv(s) /\ (req[s].alive \in BOOLEAN)
    BY DEF IInv, AccountsTypeOK, Request
  <2> QED
    BY <1>1, <1>2, <1>3, <2>1 DEF RequestInv, RefreshPCs, Used
<1>6. CredInv'
  <2>1. ASSUME NEW v, Revoking(v)
        PROVE  \E s \in Sessions : req'[s].pc = "revoke_all" /\ req'[s].user = v
    BY <1>3, <2>1 DEF Revoking, At
  <2> QED
    BY <1>1, <1>2, <1>3, <2>1 DEF IInv, CredInv, OldPasswordEndsSessions, Revoking, At, Live
<1> QED
  BY <1>1, <1>2, <1>4, <1>5, <1>6, QuietStep

\* A password is written; the request goes on to revoke the tokens.
LEMMA PasswordWriteStep ==
  ASSUME IInv, NEW s \in Sessions, NEW u \in Users, NEW pw \in Passwords,
         users[u].st # "none", PasswordWrite(s, u, pw)
  PROVE  IInv'
<1> DEFINE r == [pc |-> "revoke_all", user |-> u, tok |-> None, cred |-> None,
                 alive |-> u # None /\ users[u].st = "active"]
<1>1. /\ users' = [users EXCEPT ![u].pw = pw] /\ req[s].pc = "idle"
      /\ req' = [req EXCEPT ![s] = r]
      /\ UNCHANGED <<tokens, day, forked, burned, late>>
  BY DEF PasswordWrite, Begin
<1>2. /\ users' \in [Users -> User] /\ \A v : users'[v].st = users[v].st
      /\ \A v : v # u => users'[v] = users[v]
  BY <1>1 DEF IInv, AccountsTypeOK, User
<1>3. r \in Request /\ r.pc = "revoke_all" /\ r.user = u /\ r.tok = None
  BY DEF Request, PCs
<1> HIDE DEF r
<1>4. /\ req' \in [Sessions -> Request] /\ req'[s] = r
      /\ \A o \in Sessions : o # s => req'[o] = req[o]
  BY <1>1, <1>3, OneRequest DEF IInv
<1>5. AccountsTypeOK' /\ OnlyRevokes /\ NoRefreshMoves
  <2>1. OnlyRevokes
    BY <1>1, TokensStay DEF IInv
  <2>2. AccountsTypeOK' /\ NoRefreshMoves
    BY <1>1, <1>2, <1>3, <1>4 DEF IInv, AccountsTypeOK, NoRefreshMoves
  <2> QED
    BY <2>1, <2>2
<1>6. ASSUME NEW o \in Sessions PROVE RequestInv(o)'
  <2>1. CASE o = s
    BY <1>2, <1>3, <1>4, <2>1 DEF RequestInv, RefreshPCs
  <2>2. CASE o # s
    <3>1. req'[o] = req[o] /\ RequestInv(o)
      BY <1>4, <2>2 DEF IInv
    <3> QED
      BY <1>1, <1>2, <3>1 DEF RequestInv, RefreshPCs, Used
  <2> QED
    BY <2>1, <2>2
<1>7. CredInv'
  <2>1. ASSUME NEW v, v = u \/ Revoking(v)
        PROVE  \E o \in Sessions : req'[o].pc = "revoke_all" /\ req'[o].user = v
    <3>1. CASE v = u
      BY <1>3, <1>4, <3>1
    <3>2. CASE Revoking(v)
      BY <1>1, <1>4, <3>2 DEF Revoking, At
    <3> QED
      BY <2>1, <3>1, <3>2
  <2>2. ASSUME NEW t \in Tokens, Live(t)',
               tokens'[t].cred \notin {None, users'[tokens'[t].user].pw}
        PROVE  \E o \in Sessions : req'[o].pc = "revoke_all" /\ req'[o].user = tokens'[t].user
    <3>1. tokens[t].user # u => Revoking(tokens[t].user)
      BY <1>1, <1>2, <2>2 DEF IInv, CredInv, OldPasswordEndsSessions, Revoking, Live
    <3> QED
      BY <1>1, <2>1, <3>1
  <2>3. ASSUME NEW o \in Sessions, req'[o].pc \in RefreshPCs,
               req'[o].cred \notin {None, users'[req'[o].user].pw}
        PROVE  \E q \in Sessions : req'[q].pc = "revoke_all" /\ req'[q].user = req'[o].user
    <3>1. req'[o] = req[o]
      BY <1>3, <1>4, <2>3 DEF RefreshPCs
    <3>2. req[o].user # u => Revoking(req[o].user)
      BY <1>2, <2>3, <3>1 DEF IInv, CredInv
    <3> QED
      BY <2>1, <3>1, <3>2
  <2> QED
    BY <2>2, <2>3 DEF CredInv, OldPasswordEndsSessions, Revoking, At
<1> QED
  BY <1>1, <1>2, <1>5, <1>6, <1>7, QuietStep

LEMMA NextDayStep ==
  ASSUME IInv, NextDay
  PROVE  IInv'
<1>1. UNCHANGED <<users, tokens, req, forked, burned, late>> /\ day' \in 0 .. MaxClock
  BY AccountsAssumption DEF NextDay, IInv, AccountsTypeOK
<1>2. AccountsTypeOK' /\ OnlyRevokes /\ NoRefreshMoves
  BY <1>1, TokensStay DEF IInv, AccountsTypeOK, NoRefreshMoves
<1>3. \A s \in Sessions : RequestInv(s)'
  BY <1>1 DEF IInv, RequestInv, Used
<1>4. CredInv'
  BY <1>1 DEF IInv, CredInv, OldPasswordEndsSessions, Revoking, Live, At
<1> QED
  BY <1>1, <1>2, <1>3, <1>4, QuietStep

LEMMA CleanupStep ==
  ASSUME IInv, Cleanup
  PROVE  IInv'
<1>1. UNCHANGED <<users, req, day, forked, burned, late>>
  BY DEF Cleanup
<1>2. ASSUME NEW t \in Tokens
      PROVE  /\ tokens'[t] \in Token
             /\ tokens'[t].user = tokens[t].user /\ tokens'[t].fam = tokens[t].fam
             /\ tokens'[t].alive = tokens[t].alive
             /\ tokens'[t] = tokens[t] \/ (Used(t) /\ tokens'[t].st = "deleted")
  <2> DEFINE r == [tokens[t] EXCEPT !.st = "revoked"]
             q == [r EXCEPT !.cred = None]
             d == [q EXCEPT !.st = "deleted"]
  <2>1. tokens[t] \in Token
    BY DEF IInv, AccountsTypeOK
  <2>2. /\ r \in Token /\ r.user = tokens[t].user /\ r.fam = tokens[t].fam
        /\ r.alive = tokens[t].alive
    BY <2>1 DEF Token
  <2>3. tokens'[t] = tokens[t] \/ (Used(t) /\ tokens'[t] = d)
    BY DEF Cleanup, Spent, Live, Revoked, Used
  <2> HIDE DEF r
  <2>4. /\ q \in Token /\ q.user = tokens[t].user /\ q.fam = tokens[t].fam
        /\ q.alive = tokens[t].alive
    BY <2>2 DEF Token
  <2> HIDE DEF q
  <2>5. /\ d \in Token /\ d.user = tokens[t].user /\ d.fam = tokens[t].fam
        /\ d.alive = tokens[t].alive /\ d.st = "deleted"
    BY <2>4 DEF Token
  <2> HIDE DEF d
  <2> QED
    BY <2>1, <2>3, <2>5
<1>3. tokens' \in [Tokens -> Token]
  <2>1. tokens' = [t \in Tokens |-> tokens'[t]]
    BY DEF Cleanup
  <2> QED
    BY <1>2, <2>1
<1>4. AccountsTypeOK'
  BY <1>1, <1>3 DEF IInv, AccountsTypeOK
<1>5. OnlyRevokes
  <2>1. ASSUME NEW t \in Tokens, tokens'[t].st = "deleted"
        PROVE  ~Live(t)' /\ Used(t)'
    BY <2>1 DEF Live, Used
  <2> QED
    BY <1>2, <2>1 DEF OnlyRevokes, Used, Live
<1>6. NoRefreshMoves
  BY <1>1 DEF NoRefreshMoves
<1>7. ASSUME NEW s \in Sessions PROVE RequestInv(s)'
  BY <1>1, <1>5, RequestKept DEF OnlyRevokes
<1>8. CredInv'
  BY <1>1, <1>4, <1>5, CredKept
<1> QED
  BY <1>1, <1>4, <1>5, <1>6, <1>7, <1>8, QuietStep

-----------------------------------------------------------------------------
(* Login and refresh *)

LEMMA LoginStep ==
  ASSUME IInv, NEW s \in Sessions, NEW u \in Users, Login(s, u)
  PROVE  IInv'
<1> DEFINE r == [pc |-> "issue", user |-> u, tok |-> None, cred |-> users[u].pw,
                 alive |-> u # None /\ users[u].st = "active"]
<1>1. /\ users[u].st = "active" /\ req[s].pc = "idle"
      /\ req' = [req EXCEPT ![s] = r]
      /\ UNCHANGED <<users, tokens, day, forked, burned, late>>
  BY DEF Login, Begin
<1>2. /\ r \in Request /\ r.pc = "issue" /\ r.user = u /\ r.tok = None
      /\ r.cred = users[u].pw /\ r.alive
  BY <1>1, AccountsAssumption DEF Request, PCs, RefreshPCs, IInv, AccountsTypeOK, User
<1> HIDE DEF r
<1>3. /\ req' \in [Sessions -> Request] /\ req'[s] = r
      /\ \A o \in Sessions : o # s => req'[o] = req[o]
  BY <1>1, <1>2, OneRequest DEF IInv
<1>4. AccountsTypeOK' /\ OnlyRevokes
  BY <1>1, <1>3, TokensStay DEF IInv, AccountsTypeOK
<1>5. NoRefreshMoves
  BY <1>2, <1>3 DEF NoRefreshMoves
<1>6. ASSUME NEW o \in Sessions PROVE RequestInv(o)'
  <2>1. CASE o = s
    BY <1>1, <1>2, <1>3, <2>1 DEF RequestInv
  <2>2. CASE o # s
    BY <1>1, <1>3, <2>2 DEF IInv, RequestInv, Used
  <2> QED
    BY <2>1, <2>2
<1>7. CredInv'
  <2>1. ASSUME NEW v, Revoking(v)
        PROVE  \E o \in Sessions : req'[o].pc = "revoke_all" /\ req'[o].user = v
    BY <1>1, <1>3, <2>1 DEF Revoking, At
  <2>2. ASSUME NEW o \in Sessions, req'[o].pc \in RefreshPCs,
               req'[o].cred \notin {None, users'[req'[o].user].pw}
        PROVE  Revoking(req'[o].user)
    BY <1>1, <1>2, <1>3, <2>2 DEF IInv, CredInv
  <2> QED
    BY <1>1, <2>1, <2>2 DEF IInv, CredInv, OldPasswordEndsSessions, Revoking, At, Live
<1> QED
  BY <1>1, <1>4, <1>5, <1>6, <1>7, QuietStep

\* A refresh goes from one statement to the next with the token it was given.
LEMMA RefreshReadStep ==
  ASSUME IInv, NEW s \in Sessions, NEW t \in Tokens, RefreshRead(s, t)
  PROVE  IInv'
<1> DEFINE c == IF Live(t) THEN "rotate" ELSE "reuse"
           r == [pc |-> c, user |-> tokens[t].user, tok |-> t, cred |-> tokens[t].cred,
                 alive |-> tokens[t].user # None /\ users[tokens[t].user].st = "active"]
           g == tokens[t].fam
<1>1. /\ Used(t) /\ req[s].pc = "idle" /\ req' = [req EXCEPT ![s] = r]
      /\ UNCHANGED <<users, tokens, day, burned, late>>
  BY DEF RefreshRead, Present, Begin, Used
<1>2. /\ forked \subseteq forked' /\ forked' \subseteq forked \cup {g}
      /\ Live(t) /\ (\E o \in Sessions : At(o, "rotate") /\ req[o].tok = t) => g \in forked'
  BY DEF RefreshRead, Present
<1>3. /\ tokens[t] \in Token /\ tokens[t].user \in Users /\ users[tokens[t].user].st # "none"
      /\ g \in Tokens /\ Used(g) /\ t # None /\ tokens[t].user # None
  BY <1>1, AccountsAssumption DEF IInv, AccountsTypeOK, TokenInv
<1>4. /\ r \in Request /\ r.pc = c /\ r.user = tokens[t].user /\ r.tok = t
      /\ r.cred = tokens[t].cred /\ (users[r.user].st = "active" => r.alive)
  BY <1>3 DEF Request, PCs, RefreshPCs, Token
<1>5. c \in {"rotate", "reuse"} /\ (c = "rotate" => Live(t))
  OBVIOUS
<1> HIDE DEF r, c, g
<1>6. /\ req' \in [Sessions -> Request] /\ req'[s] = r
      /\ \A o \in Sessions : o # s => req'[o] = req[o]
  BY <1>1, <1>4, OneRequest DEF IInv
<1>7. AccountsTypeOK'
  BY <1>1, <1>2, <1>3, <1>6 DEF IInv, AccountsTypeOK
<1>8. TokenInv'
  BY <1>1, <1>2, <1>3 DEF IInv, TokenInv, Used
<1>9. ASSUME NEW o \in Sessions PROVE RequestInv(o)'
  <2>1. CASE o = s
    BY <1>1, <1>3, <1>4, <1>5, <1>6, <2>1 DEF RequestInv, Used
  <2>2. CASE o # s
    BY <1>1, <1>6, <2>2 DEF IInv, RequestInv, Used
  <2> QED
    BY <2>1, <2>2
<1>10. ASSUME NEW o \in Sessions, NEW f, Refreshing(o, f)'
       PROVE  \/ Refreshing(o, f) /\ o # s
              \/ o = s /\ f = g /\ Live(t) /\ req'[o].pc = "rotate" /\ req'[o].tok = t
  <2>1. CASE o = s
    BY <1>1, <1>4, <1>5, <1>6, <1>10, <2>1 DEF Refreshing, InFamily, RefreshPCs, g
  <2>2. CASE o # s
    BY <1>1, <1>6, <1>10, <2>2 DEF Refreshing, InFamily
  <2> QED
    BY <2>1, <2>2
<1>11. ASSUME NEW f \in Tokens \ forked' PROVE Lineage(f)'
  <2>1. Lineage(f)
    BY <1>2 DEF IInv
  <2>2. f = g /\ Live(t) => \A o \in Sessions : ~Refreshing(o, f)
    <3>1. \A o \in Sessions : ~(Live(t) /\ f = g /\ At(o, "rotate") /\ req[o].tok = t)
      BY <1>2
    <3> QED
      BY <2>1, <3>1 DEF Lineage, g
  <2>3. \A u, v \in Tokens :
          Live(u)' /\ Live(v)' /\ tokens'[u].fam = f /\ tokens'[v].fam = f => u = v
    BY <1>1, <2>1 DEF Lineage, Live
  <2>4. ASSUME NEW o \in Sessions, NEW q \in Sessions, Refreshing(o, f)', Refreshing(q, f)'
        PROVE  o = q
    BY <1>10, <2>1, <2>2, <2>4 DEF Lineage
  <2>5. ASSUME NEW o \in Sessions, NEW u \in Tokens,
               Refreshing(o, f)', Live(u)', tokens'[u].fam = f
        PROVE  At(o, "rotate")' /\ req'[o].tok = u
    <3>1. Live(u) /\ tokens[u].fam = f
      BY <1>1, <2>5 DEF Live
    <3>2. CASE Refreshing(o, f) /\ o # s
      BY <1>6, <2>1, <3>1, <3>2 DEF Lineage, At
    <3>3. CASE o = s /\ f = g /\ Live(t) /\ req'[o].pc = "rotate" /\ req'[o].tok = t
      BY <2>1, <3>1, <3>3 DEF Lineage, At, g
    <3> QED
      BY <1>10, <2>5, <3>2, <3>3
  <2> QED
    BY <2>3, <2>4, <2>5 DEF Lineage
<1>12. ASSUME NEW f \in burned' \ late' PROVE Dead(f)'
  <2>1. Dead(f)
    BY <1>1 DEF IInv
  <2>2. \A u \in Tokens : Live(u)' => tokens'[u].fam # f
    BY <1>1, <2>1 DEF Dead, Live
  <2>3. \A o \in Sessions : ~Refreshing(o, f)'
    BY <1>10, <2>1 DEF Dead, g
  <2> QED
    BY <2>2, <2>3 DEF Dead
<1>13. CredInv'
  <2>1. ASSUME NEW v, Revoking(v)
        PROVE  \E o \in Sessions : req'[o].pc = "revoke_all" /\ req'[o].user = v
    BY <1>1, <1>6, <2>1 DEF Revoking, At
  <2>2. ASSUME NEW o \in Sessions, req'[o].pc \in RefreshPCs,
               req'[o].cred \notin {None, users'[req'[o].user].pw}
        PROVE  Revoking(req'[o].user)
    <3>1. CASE o = s
      BY <1>1, <1>4, <1>5, <1>6, <2>2, <3>1
         DEF IInv, CredInv, OldPasswordEndsSessions, Revoking, RefreshPCs
    <3>2. CASE o # s
      BY <1>1, <1>6, <2>2, <3>2 DEF IInv, CredInv
    <3> QED
      BY <3>1, <3>2
  <2> QED
    BY <1>1, <2>1, <2>2 DEF IInv, CredInv, OldPasswordEndsSessions, Revoking, At, Live
<1> QED
  BY <1>7, <1>8, <1>9, <1>11, <1>12, <1>13 DEF IInv

LEMMA RefreshReuseStep ==
  ASSUME IInv, NEW s \in Sessions, RefreshReuse(s)
  PROVE  IInv'
<1> DEFINE g == tokens[req[s].tok].fam
           T == {t \in Tokens : tokens[t].fam = g}
<1>1. /\ req[s].pc = "reuse" /\ RevokeWhere(T) /\ End(s)
      /\ burned' = burned \cup {g} /\ late \subseteq late' /\ late' \subseteq late \cup {g}
      /\ (\E o \in Sessions : Refreshing(o, g)) => g \in late'
      /\ UNCHANGED <<users, day, forked>>
  BY DEF RefreshReuse, At, Refreshing
<1>2. g \in Tokens /\ Used(g)
  BY <1>1, FamilyType DEF IInv, RequestInv
<1> HIDE DEF g
<1>3. /\ tokens' \in [Tokens -> Token] /\ OnlyRevokes
      /\ \A t \in Tokens : tokens[t].fam = g => ~Live(t)'
  <2> HIDE DEF T
  <2>1. /\ tokens' \in [Tokens -> Token] /\ OnlyRevokes
        /\ \A t \in T : t \in Tokens => ~Live(t)'
    BY <1>1, RevokeWhereType DEF IInv
  <2> QED
    BY <2>1 DEF T
<1>4. /\ req' \in [Sessions -> Request] /\ req'[s] = Idle
      /\ \A o \in Sessions : o # s => req'[o] = req[o]
  BY <1>1, IdleType, OneRequest DEF End, IInv
<1>5. AccountsTypeOK'
  BY <1>1, <1>2, <1>3, <1>4 DEF IInv, AccountsTypeOK
<1>6. NoRefreshMoves
  BY <1>4, IdleType DEF NoRefreshMoves
<1>7. TokenInv'
  BY <1>1, <1>2, <1>3, TokenInvKept DEF IInv, AccountsTypeOK, TokenInv
<1>8. ASSUME NEW o \in Sessions PROVE RequestInv(o)'
  <2>1. CASE o = s
    BY <1>4, <2>1, IdleType DEF RequestInv, RefreshPCs
  <2>2. CASE o # s
    BY <1>1, <1>3, <1>4, <2>2, RequestKept DEF OnlyRevokes
  <2> QED
    BY <2>1, <2>2
<1>9. ASSUME NEW f \in Tokens \ forked' PROVE Lineage(f)'
  BY <1>1, <1>3, <1>5, <1>6, LineageKept DEF IInv
<1>10. ASSUME NEW f \in burned' \ late' PROVE Dead(f)'
  <2>1. CASE f \in burned \ late
    BY <1>3, <1>5, <1>6, <2>1, DeadKept DEF IInv, AccountsTypeOK
  <2>2. CASE f = g
    <3>1. ASSUME NEW t \in Tokens, Live(t)' PROVE tokens'[t].fam # f
      BY <1>3, <2>2, <3>1, LiveKept
    <3>2. ASSUME NEW o \in Sessions, Refreshing(o, f)' PROVE FALSE
      BY <1>1, <1>3, <1>5, <1>6, <2>2, <3>2, RefreshKept DEF IInv
    <3> QED
      BY <3>1, <3>2 DEF Dead
  <2> QED
    BY <1>1, <2>1, <2>2
<1>11. CredInv'
  <2>1. \A o \in Sessions : At(o, "revoke_all") => req'[o] = req[o]
    BY <1>1, <1>4 DEF At
  <2>2. \A o \in Sessions : req'[o].pc \in RefreshPCs => req'[o] = req[o]
    BY <1>4, IdleType DEF RefreshPCs
  <2> QED
    BY <1>1, <1>3, <1>5, <2>1, <2>2, CredKept
<1> QED
  BY <1>5, <1>7, <1>8, <1>9, <1>10, <1>11 DEF IInv

\* The old token is revoked: its family keeps only the request at work.
LEMMA RefreshRotateStep ==
  ASSUME IInv, NEW s \in Sessions, RefreshRotate(s)
  PROVE  IInv'
<1> DEFINE k == req[s].tok
           g == tokens[k].fam
<1>1. /\ req[s].pc = "rotate" /\ Goto(s, "find")
      /\ tokens' = [tokens EXCEPT ![k] = Revoked(k)]
      /\ UNCHANGED <<users, day, forked, burned, late>>
  BY DEF RefreshRotate, At
<1>2. k # None /\ k \in Tokens /\ Used(k) /\ g \in Tokens
  BY <1>1, FamilyType DEF IInv, RequestInv
<1>3. Refreshing(s, g)
  BY <1>1, <1>2 DEF Refreshing, InFamily, RefreshPCs
<1> HIDE DEF k, g
<1>4. /\ req' \in [Sessions -> Request] /\ req'[s].pc = "find"
      /\ req'[s].user = req[s].user /\ req'[s].tok = k
      /\ req'[s].cred = req[s].cred /\ req'[s].alive = req[s].alive
      /\ \A o \in Sessions : o # s => req'[o] = req[o]
  <2>1. "find" \in PCs
    BY DEF PCs, RefreshPCs
  <2> QED
    BY <1>1, <2>1, GotoType DEF IInv, k
<1>5. /\ Revoked(k) \in Token /\ Revoked(k).st = "revoked"
      /\ Revoked(k).user = tokens[k].user /\ Revoked(k).fam = tokens[k].fam
      /\ Revoked(k).alive = tokens[k].alive
  <2> DEFINE r == [tokens[k] EXCEPT !.st = "revoked"]
  <2>1. tokens[k] \in Token
    BY <1>2 DEF IInv, AccountsTypeOK
  <2>2. /\ r \in Token /\ r.st = "revoked" /\ r.user = tokens[k].user
        /\ r.fam = tokens[k].fam /\ r.alive = tokens[k].alive
    BY <2>1 DEF Token
  <2>3. Revoked(k) = [r EXCEPT !.cred = None]
    BY DEF Revoked
  <2> HIDE DEF r
  <2> QED
    BY <2>2, <2>3 DEF Token
<1>6. /\ tokens' \in [Tokens -> Token] /\ tokens'[k] = Revoked(k)
      /\ \A t \in Tokens : t # k => tokens'[t] = tokens[t]
  BY <1>1, <1>2, <1>5 DEF IInv, AccountsTypeOK
<1>7. AccountsTypeOK'
  BY <1>1, <1>4, <1>6 DEF IInv, AccountsTypeOK
<1>8. OnlyRevokes
  <2>1. tokens'[k].st = "revoked"
    BY <1>5, <1>6
  <2>2. ASSUME NEW t \in Tokens
        PROVE  /\ tokens'[t].user = tokens[t].user /\ tokens'[t].fam = tokens[t].fam
               /\ tokens'[t].alive = tokens[t].alive
               /\ Used(t)' <=> Used(t)
               /\ Live(t)' => Live(t) /\ tokens'[t].cred \in {None, tokens[t].cred}
    <3>1. CASE t = k
      BY <1>2, <1>5, <1>6, <2>1, <3>1 DEF Used, Live
    <3>2. CASE t # k
      BY <1>6, <3>2 DEF Used, Live
    <3> QED
      BY <3>1, <3>2
  <2> QED
    BY <2>2 DEF OnlyRevokes
<1>9. TokenInv'
  BY <1>1, <1>8, TokenInvKept DEF IInv, AccountsTypeOK, TokenInv
<1>10. ASSUME NEW o \in Sessions PROVE RequestInv(o)'
  <2>1. RequestInv(o) /\ req[o].tok \in Tokens \cup {None}
    BY DEF IInv, AccountsTypeOK, Request
  <2>2. /\ req'[o].user = req[o].user /\ req'[o].tok = req[o].tok
        /\ req'[o].alive = req[o].alive
        /\ req'[o].pc = req[o].pc \/ (o = s /\ req'[o].pc = "find")
    BY <1>4 DEF k
  <2>3. req[o].tok # None => tokens'[req[o].tok].st # "unused"
                             /\ tokens'[req[o].tok].user = req[o].user
    BY <1>8, <2>1 DEF RequestInv, OnlyRevokes, Used
  <2> QED
    BY <1>1, <1>2, <2>1, <2>2, <2>3 DEF RequestInv, RefreshPCs, Used, k
<1>11. ASSUME NEW o \in Sessions, NEW f, Refreshing(o, f)' PROVE Refreshing(o, f)
  <2>1. /\ req[o].pc \in RefreshPCs /\ req[o].tok = req'[o].tok /\ req[o].tok # None
    BY <1>1, <1>4, <1>11 DEF Refreshing, InFamily, RefreshPCs, k
  <2>2. req[o].tok \in Tokens
    BY <2>1 DEF IInv, AccountsTypeOK, Request
  <2> QED
    BY <1>8, <1>11, <2>1, <2>2 DEF Refreshing, InFamily, OnlyRevokes
<1>12. ASSUME NEW f \in Tokens \ forked' PROVE Lineage(f)'
  <2>1. Lineage(f)
    BY <1>1 DEF IInv
  <2>2. ASSUME NEW t \in Tokens, NEW u \in Tokens, Live(t)', Live(u)',
               tokens'[t].fam = f, tokens'[u].fam = f
        PROVE  t = u
    BY <1>8, <2>1, <2>2, LiveKept DEF Lineage
  <2>3. ASSUME NEW o \in Sessions, NEW q \in Sessions, Refreshing(o, f)', Refreshing(q, f)'
        PROVE  o = q
    BY <1>11, <2>1, <2>3 DEF Lineage
  <2>4. ASSUME NEW o \in Sessions, NEW t \in Tokens,
               Refreshing(o, f)', Live(t)', tokens'[t].fam = f
        PROVE  At(o, "rotate")' /\ req'[o].tok = t
    <3>1. Refreshing(o, f) /\ Live(t) /\ tokens[t].fam = f
      BY <1>8, <1>11, <2>4, LiveKept
    <3>2. req[o].pc = "rotate" /\ req[o].tok = t
      BY <2>1, <3>1 DEF Lineage, At
    <3>3. t # k
      BY <1>5, <1>6, <2>4 DEF Live
    <3>4. o # s
      BY <3>2, <3>3 DEF k
    <3> QED
      BY <1>4, <3>2, <3>4 DEF At
  <2> QED
    BY <2>2, <2>3, <2>4 DEF Lineage
<1>13. ASSUME NEW f \in burned' \ late' PROVE Dead(f)'
  <2>1. Dead(f)
    BY <1>1 DEF IInv
  <2>2. ASSUME NEW t \in Tokens, Live(t)' PROVE tokens'[t].fam # f
    BY <1>8, <2>1, <2>2, LiveKept DEF Dead
  <2>3. ASSUME NEW o \in Sessions, Refreshing(o, f)' PROVE FALSE
    BY <1>11, <2>1, <2>3 DEF Dead
  <2> QED
    BY <2>2, <2>3 DEF Dead
<1>14. CredInv'
  <2>1. \A o \in Sessions : At(o, "revoke_all") => req'[o] = req[o]
    BY <1>1, <1>4 DEF At
  <2>2. \A o \in Sessions : req'[o].pc \in RefreshPCs =>
          /\ req[o].pc \in RefreshPCs /\ req'[o].user = req[o].user
          /\ req'[o].cred \in {None, req[o].cred}
    BY <1>1, <1>4 DEF RefreshPCs
  <2> QED
    BY <1>1, <1>7, <1>8, <2>1, <2>2, CredKept
<1> QED
  BY <1>7, <1>9, <1>10, <1>12, <1>13, <1>14 DEF IInv

LEMMA RefreshFindUserStep ==
  ASSUME IInv, NEW s \in Sessions, RefreshFindUser(s)
  PROVE  IInv'
<1>1. /\ req[s].pc = "find" /\ UNCHANGED <<users, tokens, day, forked, burned, late>>
      /\ \/ users[req[s].user].st = "active" /\ Goto(s, "issue")
         \/ End(s)
  BY DEF RefreshFindUser, At
<1>2. /\ req' \in [Sessions -> Request]
      /\ \A o \in Sessions : o # s => req'[o] = req[o]
      /\ \/ req'[s] = Idle
         \/ /\ req'[s].pc = "issue" /\ users[req[s].user].st = "active"
            /\ req'[s].user = req[s].user /\ req'[s].tok = req[s].tok
            /\ req'[s].cred = req[s].cred /\ req'[s].alive = req[s].alive
  <2>1. CASE End(s)
    BY <2>1, IdleType, OneRequest DEF End, IInv
  <2>2. CASE users[req[s].user].st = "active" /\ Goto(s, "issue")
    <3>1. "issue" \in PCs
      BY DEF PCs, RefreshPCs
    <3> QED
      BY <2>2, <3>1, GotoType DEF IInv
  <2> QED
    BY <1>1, <2>1, <2>2
<1>3. AccountsTypeOK' /\ OnlyRevokes
  BY <1>1, <1>2, TokensStay DEF IInv, AccountsTypeOK
<1>4. TokenInv'
  BY <1>1 DEF IInv, TokenInv, Used
<1>5. ASSUME NEW o \in Sessions PROVE RequestInv(o)'
  <2>1. CASE o = s
    BY <1>1, <1>2, <2>1, IdleType DEF IInv, RequestInv, RefreshPCs, Used
  <2>2. CASE o # s
    BY <1>1, <1>2, <2>2 DEF IInv, RequestInv, Used
  <2> QED
    BY <2>1, <2>2
<1>6. ASSUME NEW o \in Sessions, NEW f, Refreshing(o, f)'
      PROVE  Refreshing(o, f) /\ (At(o, "rotate") => req'[o] = req[o])
  BY <1>1, <1>2, <1>6, IdleType DEF Refreshing, InFamily, RefreshPCs, At
<1>7. ASSUME NEW f \in Tokens \ forked' PROVE Lineage(f)'
  <2>1. Lineage(f)
    BY <1>1 DEF IInv
  <2> QED
    BY <1>1, <1>6, <2>1 DEF Lineage, Live, At
<1>8. ASSUME NEW f \in burned' \ late' PROVE Dead(f)'
  <2>1. Dead(f)
    BY <1>1 DEF IInv
  <2> QED
    BY <1>1, <1>6, <2>1 DEF Dead, Live
<1>9. CredInv'
  <2>1. \A o \in Sessions : At(o, "revoke_all") => req'[o] = req[o]
    BY <1>1, <1>2 DEF At
  <2>2. \A o \in Sessions : req'[o].pc \in RefreshPCs =>
          /\ req[o].pc \in RefreshPCs /\ req'[o].user = req[o].user
          /\ req'[o].cred \in {None, req[o].cred}
    BY <1>1, <1>2, IdleType DEF RefreshPCs
  <2> QED
    BY <1>1, <1>3, <2>1, <2>2, CredKept
<1> QED
  BY <1>3, <1>4, <1>5, <1>7, <1>8, <1>9 DEF IInv

\* The new token takes the place of the request in the family.
LEMMA IssueStep ==
  ASSUME IInv, NEW s \in Sessions, Issue(s)
  PROVE  IInv'
<1>1. PICK k \in Tokens :
        /\ tokens[k].st = "unused"
        /\ tokens' = [tokens EXCEPT ![k] =
             [st |-> "live", user |-> req[s].user, born |-> day,
              fam |-> IF req[s].tok = None THEN k ELSE tokens[req[s].tok].fam,
              cred |-> req[s].cred, alive |-> req[s].alive]]
  BY DEF Issue
<1>2. /\ req[s].pc = "issue" /\ End(s)
      /\ UNCHANGED <<users, day, forked, burned, late>>
  BY DEF Issue, At
<1> DEFINE g == IF req[s].tok = None THEN k ELSE tokens[req[s].tok].fam
           n == [st |-> "live", user |-> req[s].user, born |-> day, fam |-> g,
                 cred |-> req[s].cred, alive |-> req[s].alive]
<1>3. /\ req[s] \in Request /\ req[s].user \in Users /\ req[s].alive
      /\ users[req[s].user].st # "none"
  BY <1>2 DEF IInv, AccountsTypeOK, RequestInv
<1>4. /\ g \in Tokens
      /\ req[s].tok # None => Used(g) /\ Refreshing(s, g)
      /\ req[s].tok = None => g = k
  BY <1>2, FamilyType DEF Refreshing, InFamily, RefreshPCs
<1> HIDE DEF g
<1>5. /\ n \in Token /\ n.st = "live" /\ n.user = req[s].user /\ n.fam = g
      /\ n.cred = req[s].cred /\ n.alive
  BY <1>3, <1>4 DEF Token, Request, IInv, AccountsTypeOK
<1>6. tokens' = [tokens EXCEPT ![k] = n]
  BY <1>1 DEF g
<1> HIDE DEF n
<1>7. /\ tokens' \in [Tokens -> Token] /\ tokens'[k] = n
      /\ \A t \in Tokens : t # k => tokens'[t] = tokens[t]
  BY <1>5, <1>6 DEF IInv, AccountsTypeOK
<1>8. /\ req' \in [Sessions -> Request] /\ req'[s] = Idle
      /\ \A o \in Sessions : o # s => req'[o] = req[o]
  BY <1>2, IdleType, OneRequest DEF End, IInv
<1>9. AccountsTypeOK'
  BY <1>2, <1>7, <1>8 DEF IInv, AccountsTypeOK
<1>10. /\ tokens'[k].st # "unused"
       /\ \A t \in Tokens : tokens[t].st # "unused" => t # k /\ tokens'[t] = tokens[t]
       /\ tokens'[g].st # "unused"
  <2>1. tokens'[k].st # "unused"
    BY <1>5, <1>7
  <2>2. \A t \in Tokens : tokens[t].st # "unused" => t # k /\ tokens'[t] = tokens[t]
    BY <1>1, <1>7
  <2> QED
    BY <1>4, <2>1, <2>2 DEF Used
<1>11. TokenInv'
  <2>1. ASSUME NEW t \in Tokens, tokens'[t].st # "unused"
        PROVE  /\ tokens'[t].user \in Users /\ users'[tokens'[t].user].st # "none"
               /\ tokens'[t].fam \in Tokens /\ tokens'[tokens'[t].fam].st # "unused"
               /\ tokens'[t].alive
    <3>1. CASE t = k
      BY <1>2, <1>3, <1>4, <1>5, <1>7, <1>10, <3>1
    <3>2. CASE t # k
      BY <1>2, <1>7, <1>10, <2>1, <3>2 DEF IInv, TokenInv, Used
    <3> QED
      BY <3>1, <3>2
  <2>2. \A f \in forked' \cup burned' : tokens'[f].st # "unused"
    BY <1>2, <1>10 DEF IInv, AccountsTypeOK, TokenInv, Used
  <2> QED
    BY <2>1, <2>2 DEF TokenInv, Used
<1>12. ASSUME NEW o \in Sessions PROVE RequestInv(o)'
  <2>1. CASE o = s
    BY <1>8, <2>1, IdleType DEF RequestInv, RefreshPCs
  <2>2. CASE o # s
    <3>1. req'[o] = req[o] /\ RequestInv(o) /\ req[o].tok \in Tokens \cup {None}
      BY <1>8, <2>2 DEF IInv, AccountsTypeOK, Request
    <3>2. req[o].tok # None => tokens'[req[o].tok] = tokens[req[o].tok]
      BY <1>10, <3>1 DEF RequestInv, Used
    <3> QED
      BY <1>2, <3>1, <3>2 DEF RequestInv, Used
  <2> QED
    BY <2>1, <2>2
<1>13. ASSUME NEW o \in Sessions, NEW f, Refreshing(o, f)'
       PROVE  o # s /\ req'[o] = req[o] /\ Refreshing(o, f)
  <2>1. o # s /\ req'[o] = req[o]
    BY <1>8, <1>13, IdleType DEF Refreshing, RefreshPCs
  <2>2. req[o].tok # None /\ req[o].tok \in Tokens /\ Used(req[o].tok)
    BY <1>13, <2>1, FamilyType DEF Refreshing, InFamily
  <2> QED
    BY <1>10, <1>13, <2>1, <2>2 DEF Refreshing, InFamily, Used
<1>14. ASSUME NEW f \in Tokens \ forked', f = g
       PROVE  /\ \A o \in Sessions : ~Refreshing(o, f)'
              /\ \A t \in Tokens : Live(t) => tokens[t].fam # f
  <2>1. Lineage(f)
    BY <1>2 DEF IInv
  <2>2. CASE req[s].tok # None
    <3>1. Refreshing(s, f) /\ ~At(s, "rotate")
      BY <1>2, <1>4, <1>14, <2>2 DEF At
    <3> QED
      BY <1>13, <2>1, <3>1 DEF Lineage
  <2>3. CASE req[s].tok = None
    <3>1. f = k
      BY <1>4, <1>14, <2>3
    <3>2. \A t \in Tokens : Live(t) => tokens[t].fam # f
      BY <1>1, <3>1 DEF IInv, TokenInv, Used, Live
    <3>3. \A o \in Sessions : ~Refreshing(o, f)
      BY <1>1, <3>1, FamilyType DEF Refreshing, InFamily, Used
    <3> QED
      BY <1>13, <3>2, <3>3
  <2> QED
    BY <2>2, <2>3
<1>15. ASSUME NEW f \in Tokens \ forked' PROVE Lineage(f)'
  <2>1. Lineage(f)
    BY <1>2 DEF IInv
  <2>2. ASSUME NEW t \in Tokens, Live(t)', tokens'[t].fam = f
        PROVE  (t = k /\ f = g) \/ (t # k /\ Live(t) /\ tokens[t].fam = f)
    BY <1>5, <1>7, <2>2 DEF Live
  <2>3. ASSUME NEW t \in Tokens, NEW u \in Tokens, Live(t)', Live(u)',
               tokens'[t].fam = f, tokens'[u].fam = f
        PROVE  t = u
    BY <1>14, <2>1, <2>2, <2>3 DEF Lineage
  <2>4. ASSUME NEW o \in Sessions, NEW q \in Sessions, Refreshing(o, f)', Refreshing(q, f)'
        PROVE  o = q
    BY <1>13, <2>1, <2>4 DEF Lineage
  <2>5. ASSUME NEW o \in Sessions, NEW t \in Tokens,
               Refreshing(o, f)', Live(t)', tokens'[t].fam = f
        PROVE  At(o, "rotate")' /\ req'[o].tok = t
    <3>1. t # k /\ Live(t) /\ tokens[t].fam = f
      BY <1>14, <2>2, <2>5
    <3> QED
      BY <1>13, <2>1, <2>5, <3>1 DEF Lineage, At
  <2> QED
    BY <2>3, <2>4, <2>5 DEF Lineage
<1>16. ASSUME NEW f \in burned' \ late' PROVE Dead(f)'
  <2>1. Dead(f) /\ f \in Tokens /\ Used(f)
    BY <1>2 DEF IInv, AccountsTypeOK, TokenInv
  <2>2. f # g
    BY <1>1, <1>4, <2>1 DEF Dead, Used
  <2>3. ASSUME NEW t \in Tokens, Live(t)' PROVE tokens'[t].fam # f
    BY <1>5, <1>7, <2>1, <2>2, <2>3 DEF Dead, Live
  <2>4. ASSUME NEW o \in Sessions, Refreshing(o, f)' PROVE FALSE
    BY <1>13, <2>1, <2>4 DEF Dead
  <2> QED
    BY <2>3, <2>4 DEF Dead
<1>17. CredInv'
  <2>1. ASSUME NEW v, Revoking(v)
        PROVE  \E o \in Sessions : req'[o].pc = "revoke_all" /\ req'[o].user = v
    BY <1>2, <1>8, <2>1 DEF Revoking, At
  <2>2. ASSUME NEW t \in Tokens, Live(t)',
               tokens'[t].cred \notin {None, users'[tokens'[t].user].pw}
        PROVE  Revoking(tokens'[t].user)
    <3>1. CASE t = k
      BY <1>2, <1>5, <1>7, <2>2, <3>1 DEF IInv, CredInv, RefreshPCs
    <3>2. CASE t # k
      BY <1>2, <1>7, <2>2, <3>2 DEF IInv, CredInv, OldPasswordEndsSessions, Revoking, Live
    <3> QED
      BY <3>1, <3>2
  <2>3. ASSUME NEW o \in Sessions, req'[o].pc \in RefreshPCs,
               req'[o].cred \notin {None, users'[req'[o].user].pw}
        PROVE  Revoking(req'[o].user)
    <3>1. req'[o] = req[o]
      BY <1>8, <2>3, IdleType DEF RefreshPCs
    <3> QED
      BY <1>2, <2>3, <3>1 DEF IInv, CredInv
  <2> QED
    BY <2>1, <2>2, <2>3 DEF CredInv, OldPasswordEndsSessions, Revoking, At
<1> QED
  BY <1>9, <1>11, <1>12, <1>15, <1>16, <1>17 DEF IInv

-----------------------------------------------------------------------------
(* The theorems *)

LEMMA InitInv == AccountsInit => IInv
<1> SUFFICES ASSUME AccountsInit PROVE IInv
  OBVIOUS
<1> USE DEF AccountsInit
<1>1. AccountsTypeOK
  BY IdleType, AccountsAssumption DEF AccountsTypeOK, User, Token
<1>2. TokenInv
  BY DEF TokenInv, Used
<1>3. \A s \in Sessions : req[s].pc = "idle" /\ req[s].tok = None
  BY IdleType
<1>4. \A t \in Tokens : ~Live(t)
  BY DEF Live
<1>5. \A s \in Sessions : RequestInv(s)
  BY <1>3 DEF RequestInv, RefreshPCs
<1>6. \A f \in Tokens : Lineage(f) /\ Dead(f)
  BY <1>3, <1>4 DEF Lineage, Dead, Refreshing, RefreshPCs
<1>7. CredInv
  BY <1>3, <1>4 DEF CredInv, OldPasswordEndsSessions, RefreshPCs
<1> QED
  BY <1>1, <1>2, <1>5, <1>6, <1>7 DEF IInv

\* Nothing happens in a stuttering step.
LEMMA StutterInv ==
  ASSUME IInv, UNCHANGED accountsVars
  PROVE  IInv'
<1>1. UNCHANGED <<users, tokens, req, day, forked, burned, late>>
  BY DEF accountsVars
<1>2. AccountsTypeOK' /\ OnlyRevokes /\ NoRefreshMoves
  BY <1>1, TokensStay DEF IInv, AccountsTypeOK, NoRefreshMoves
<1>3. \A s \in Sessions : RequestInv(s)'
  BY <1>1 DEF IInv, RequestInv, Used
<1>4. CredInv'
  BY <1>1 DEF IInv, CredInv, OldPasswordEndsSessions, Revoking, Live, At
<1> QED
  BY <1>1, <1>2, <1>3, <1>4, QuietStep

LEMMA NextInv ==
  ASSUME IInv, AccountsNext
  PROVE  IInv'
<1>1. ASSUME NEW s \in Sessions,
             Issue(s) \/ RefreshReuse(s) \/ RefreshRotate(s) \/ RefreshFindUser(s)
      PROVE  IInv'
  BY <1>1, IssueStep, RefreshReuseStep, RefreshRotateStep, RefreshFindUserStep
<1>2. ASSUME NEW s \in Sessions, PasswordRevoke(s) \/ DeleteSoft(s) PROVE IInv'
  BY <1>2, PasswordRevokeStep, DeleteSoftStep
<1>3. ASSUME NEW s \in Sessions, NEW t \in Tokens, RefreshRead(s, t) PROVE IInv'
  BY <1>3, RefreshReadStep
<1>4. ASSUME NEW s \in Sessions, NEW u \in Users, Login(s, u) \/ DeleteRevoke(s, u) PROVE IInv'
  BY <1>4, LoginStep, DeleteRevokeStep
<1>5. ASSUME NEW s \in Sessions, NEW u \in Users, NEW pw \in Passwords,
             ChangePassword(s, u, pw) \/ ResendOnboarding(s, u, pw)
      PROVE  IInv'
  BY <1>5, PasswordWriteStep DEF ChangePassword, ResendOnboarding
<1>6. ASSUME NEW t \in Tokens, RefreshExpired(t) PROVE IInv'
  BY <1>6, ExpiredStep
<1>7. ASSUME NEW u \in Users, Logout(u) \/ ReactivateUser(u) PROVE IInv'
  BY <1>7, LogoutStep, ReactivateUserStep
<1>8. ASSUME NEW u \in Users, NEW pw \in Passwords,
             CreateUser(u, pw) \/ OnboardNewEnrollment(u, pw) \/ UpdateUser(u, pw)
      PROVE  IInv'
  BY <1>8, InsertUserStep, UpdateUserStep DEF CreateUser, OnboardNewEnrollment
<1>9. CASE NextDay \/ Cleanup
  BY <1>9, NextDayStep, CleanupStep
<1> QED
  BY <1>1, <1>2, <1>3, <1>4, <1>5, <1>6, <1>7, <1>8, <1>9 DEF AccountsNext

\* What is known of the tokens and of the requests at work holds in every
\* reachable state of auth.service.js and of the services of the users.
THEOREM Invariant == AccountsSpec => []IInv
<1>1. AccountsInit => IInv
  BY InitInv
<1>2. IInv /\ [AccountsNext]_accountsVars => IInv'
  BY NextInv, StutterInv
<1> QED
  BY <1>1, <1>2, PTL DEF AccountsSpec

\* The users table, the refresh tokens and the requests keep their types.
THEOREM TypeCorrect == AccountsSpec => []AccountsTypeOK
BY Invariant, PTL DEF IInv

\* Whatever else the requests do, a family that no two refreshes read at once
\* has one heir: a live token, or the request that is replacing it.
LEMMA OneHeir ==
  ASSUME IInv, NEW f \in Tokens \ forked
  PROVE  Cardinality(Heirs(f)) <= 1
<1>1. Lineage(f)
  BY DEF IInv
<1>2. \A x, y \in Heirs(f) : x = y
  <2> DEFINE A == {t \in Tokens : Live(t) /\ tokens[t].fam = f}
             B == {s \in Sessions : req[s].pc \in {"find", "issue"} /\ InFamily(req[s], f)}
  <2>1. \A x, y \in A : x = y
    BY <1>1 DEF Lineage
  <2>2. \A s \in B : Refreshing(s, f) /\ ~At(s, "rotate")
    BY DEF Refreshing, RefreshPCs, At
  <2>3. \A x, y \in B : x = y
    BY <1>1, <2>2 DEF Lineage
  <2>4. \A t \in A, s \in B : FALSE
    BY <1>1, <2>2 DEF Lineage
  <2> QED
    BY <2>1, <2>3, <2>4 DEF Heirs
<1>3. CASE Heirs(f) = {}
  BY <1>3, FS_EmptySet
<1>4. CASE Heirs(f) # {}
  <2>1. PICK x \in Heirs(f) : TRUE
    BY <1>4
  <2>2. Heirs(f) = {x}
    BY <1>2, <2>1
  <2> QED
    BY <2>2, FS_Singleton
<1> QED
  BY <1>3, <1>4

\* A login is continued by one token at a time, unless two refreshes read the
\* same token before either revoked it (auth.service.js, refresh).
THEOREM OneHeirPerFamilyHolds == AccountsSpec => []OneHeirPerFamily
<1>1. IInv => OneHeirPerFamily
  BY OneHeir DEF OneHeirPerFamily
<1> QED
  BY <1>1, Invariant, PTL

\* A family whose reuse was detected stays dead, unless one of its refreshes
\* had already passed its check (auth.service.js, revokeFamilyTokens).
THEOREM ReuseEndsFamilyHolds == AccountsSpec => []ReuseEndsFamily
<1>1. IInv => ReuseEndsFamily
  BY DEF IInv, ReuseEndsFamily, Dead
<1> QED
  BY <1>1, Invariant, PTL

\* A finished password change leaves no session of an older password, except
\* those refreshed at that moment or spared by updateUser (auth.service.js,
\* revokeAllTokensForUser).
THEOREM OldPasswordEndsSessionsHolds == AccountsSpec => []OldPasswordEndsSessions
<1>1. IInv => OldPasswordEndsSessions
  BY DEF IInv, CredInv
<1> QED
  BY <1>1, Invariant, PTL

\* No token is stored for a user who was deleted during the whole request
\* (auth.service.js, login and refresh read active users only).
THEOREM NoTokenForDeletedUserHolds == AccountsSpec => []NoTokenForDeletedUser
<1>1. IInv => NoTokenForDeletedUser
  BY DEF IInv, TokenInv, NoTokenForDeletedUser, Used
<1> QED
  BY <1>1, Invariant, PTL

-----------------------------------------------------------------------------
(* Authority: the inductive invariant *)

\* A cache miss that waits for the database.
Fill == [proc : Processes, user : Members, code : Codes, role : Roles,
         now : Nat, read : BOOLEAN, codes : SUBSET Codes]

\* Every variable keeps its type.
AuthorityTypeOK ==
  /\ roleOf \in [Members -> Roles]
  /\ access \in [Members -> [role : Roles, exp : Nat]]
  /\ grants \in [Roles -> SUBSET Codes]
  /\ roleCache \in [Processes -> [Roles -> [codes : SUBSET Codes, until : Nat]]]
  /\ load \in [Requests -> Fill \cup {NoRequest}]
  /\ seed \in [todo : SUBSET Roles, cleared : BOOLEAN, role : Roles]
  /\ time \in Nat
  /\ verdict \in [user : Members, code : Codes, role : Roles, at : Nat, ok : BOOLEAN]
  /\ hadRole \in [Members -> [Roles -> Nat]]
  /\ granted \in [Roles -> [Codes -> Nat]]
  /\ refused \in [Roles -> [Codes -> Nat]]

\* The history is not of the future, and what holds now holds at this moment;
\* the seed assigns to a role whose grants it has cleared.
HistoryIsPast ==
  /\ \A u \in Members, r \in Roles : hadRole[u][r] <= time
  /\ \A r \in Roles, c \in Codes : granted[r][c] <= time /\ refused[r][c] <= time
  /\ \A u \in Members : hadRole[u][roleOf[u]] = time
  /\ \A r \in Roles, c \in Codes :
       IF c \in grants[r] THEN granted[r][c] = time ELSE refused[r][c] = time
  /\ seed.cleared => grants[seed.role] = {}

\* A token names a role its user had when it was signed.
TokensAreRecent ==
  \A u \in Members : hadRole[u][access[u].role] + AccessTtl >= access[u].exp

\* The codes of a role, as they were at a moment or later.
CodesSince(r, codes, moment) ==
  \A c \in Codes : IF c \in codes THEN granted[r][c] >= moment ELSE refused[r][c] >= moment

\* A request that waits was let in, and what it has read is not older than
\* its question.
FillsAreRecent ==
  \A q \in Requests : load[q] # NoRequest =>
    /\ load[q].role # Superadmin
    /\ hadRole[load[q].user][load[q].role] + AccessTtl > load[q].now
    /\ load[q].now <= time
    /\ load[q].read => CodesSince(load[q].role, load[q].codes, load[q].now)

\* An entry of a cache was right one lifetime before it ends.
CachesAreRecent ==
  \A p \in Processes, r \in Roles, c \in Codes :
    IF c \in roleCache[p][r].codes
    THEN granted[r][c] + CacheTtl >= roleCache[p][r].until
    ELSE refused[r][c] + CacheTtl >= roleCache[p][r].until

Grounds ==
  HistoryIsPast /\ TokensAreRecent /\ FillsAreRecent /\ CachesAreRecent /\ VerdictHadGrounds

AuthorityInv == AuthorityTypeOK /\ Grounds

-----------------------------------------------------------------------------

\* Every variable of Authority keeps its type.
THEOREM AuthorityTypeCorrect == AuthoritySpec => []AuthorityTypeOK
<1>1. AuthorityInit => AuthorityTypeOK
  <2> SUFFICES ASSUME AuthorityInit
               PROVE  AuthorityTypeOK
    OBVIOUS
  <2>1. Start \in Nat
    BY AuthorityAssumption DEF Start
  <2>2. verdict \in [user : Members, code : Codes, role : Roles, at : Nat, ok : BOOLEAN]
    BY AuthorityAssumption DEF AuthorityInit
  <2>3. access \in [Members -> [role : Roles, exp : Nat]] /\ time \in Nat
    BY <2>1, AuthorityAssumption DEF AuthorityInit, NoToken
  <2>4. hadRole \in [Members -> [Roles -> Nat]]
    BY <2>3 DEF AuthorityInit
  <2>5. granted \in [Roles -> [Codes -> Nat]] /\ refused \in [Roles -> [Codes -> Nat]]
    BY <2>3 DEF AuthorityInit
  <2>6. /\ roleCache \in [Processes -> [Roles -> [codes : SUBSET Codes, until : Nat]]]
        /\ seed \in [todo : SUBSET Roles, cleared : BOOLEAN, role : Roles]
    BY AuthorityAssumption DEF AuthorityInit
  <2> QED BY <2>2, <2>3, <2>4, <2>5, <2>6 DEF AuthorityInit, AuthorityTypeOK
<1>2. AuthorityTypeOK /\ [AuthorityNext]_authorityVars => AuthorityTypeOK'
  <2> SUFFICES ASSUME AuthorityTypeOK, [AuthorityNext]_authorityVars
               PROVE  AuthorityTypeOK'
    OBVIOUS
  <2>1. ASSUME NEW u \in Members, SignAccess(u)
        PROVE  AuthorityTypeOK'
    <3>1. [role |-> roleOf[u], exp |-> time + AccessTtl] \in [role : Roles, exp : Nat]
      BY AuthorityAssumption DEF AuthorityTypeOK
    <3> QED BY <2>1, <3>1 DEF SignAccess, history, AuthorityTypeOK
  <2>2. ASSUME NEW u \in Members, NEW r \in Roles, SetRole(u, r)
        PROVE  AuthorityTypeOK'
    <3>1. hadRole' \in [Members -> [Roles -> Nat]]
      BY <2>2 DEF SetRole, AuthorityTypeOK
    <3> QED BY <2>2, <3>1 DEF SetRole, AuthorityTypeOK
  <2>3. ASSUME NEW p \in Processes, NEW u \in Members, NEW c \in Codes, HasPermissionHit(p, u, c)
        PROVE  AuthorityTypeOK'
    <3>1. verdict' \in [user : Members, code : Codes, role : Roles, at : Nat, ok : BOOLEAN]
      BY <2>3 DEF HasPermissionHit, Answer, AuthorityTypeOK
    <3> QED BY <2>3, <3>1 DEF HasPermissionHit, history, AuthorityTypeOK
  <2>4. ASSUME NEW q \in Requests, NEW p \in Processes, NEW u \in Members, NEW c \in Codes,
               HasPermissionMiss(q, p, u, c)
        PROVE  AuthorityTypeOK'
    <3> DEFINE asked == [proc |-> p, user |-> u, code |-> c, role |-> access[u].role,
                         now |-> time, read |-> FALSE, codes |-> {}]
    <3>1. asked \in Fill
      BY DEF Fill, AuthorityTypeOK
    <3>2. load' = [load EXCEPT ![q] = asked]
      BY <2>4 DEF HasPermissionMiss
    <3> HIDE DEF asked
    <3>3. load' \in [Requests -> Fill \cup {NoRequest}]
      BY <3>1, <3>2 DEF AuthorityTypeOK
    <3> QED BY <2>4, <3>3 DEF HasPermissionMiss, history, AuthorityTypeOK
  <2>5. ASSUME NEW q \in Requests, FindPermissionsByRole(q)
        PROVE  AuthorityTypeOK'
    <3> DEFINE found == [load[q] EXCEPT !.read = TRUE, !.codes = grants[load[q].role]]
    <3>1. load[q] \in Fill
      BY <2>5 DEF FindPermissionsByRole, AuthorityTypeOK
    <3>2. found \in Fill
      BY <3>1 DEF Fill, AuthorityTypeOK
    <3>3. load' = [load EXCEPT ![q] = found]
      BY <2>5 DEF FindPermissionsByRole
    <3> HIDE DEF found
    <3>4. load' \in [Requests -> Fill \cup {NoRequest}]
      BY <3>2, <3>3 DEF AuthorityTypeOK
    <3> QED BY <2>5, <3>4 DEF FindPermissionsByRole, history, AuthorityTypeOK
  <2>6. ASSUME NEW q \in Requests, FillCache(q)
        PROVE  AuthorityTypeOK'
    <3>1. load[q] \in Fill
      BY <2>6 DEF FillCache, AuthorityTypeOK
    <3>2. verdict' \in [user : Members, code : Codes, role : Roles, at : Nat, ok : BOOLEAN]
      BY <2>6, <3>1 DEF FillCache, Answer, Fill
    <3> DEFINE entry == [codes |-> load[q].codes, until |-> load[q].now + CacheTtl]
    <3>3. entry \in [codes : SUBSET Codes, until : Nat]
      BY <3>1, AuthorityAssumption DEF Fill
    <3>4. roleCache' = [roleCache EXCEPT ![load[q].proc][load[q].role] = entry]
      BY <2>6 DEF FillCache
    <3> HIDE DEF entry
    <3>5. roleCache' \in [Processes -> [Roles -> [codes : SUBSET Codes, until : Nat]]]
      BY <3>1, <3>3, <3>4 DEF AuthorityTypeOK
    <3>6. load' \in [Requests -> Fill \cup {NoRequest}]
      BY <2>6 DEF FillCache, AuthorityTypeOK
    <3> QED BY <2>6, <3>2, <3>5, <3>6 DEF FillCache, history, AuthorityTypeOK
  <2>7. ASSUME NEW r \in Roles, SeedClear(r)
        PROVE  AuthorityTypeOK'
    <3>1. seed' \in [todo : SUBSET Roles, cleared : BOOLEAN, role : Roles]
      BY <2>7 DEF SeedClear, AuthorityTypeOK
    <3>2. grants' \in [Roles -> SUBSET Codes] /\ refused' \in [Roles -> [Codes -> Nat]]
      BY <2>7 DEF SeedClear, AuthorityTypeOK
    <3> QED BY <2>7, <3>1, <3>2 DEF SeedClear, AuthorityTypeOK
  <2>8. CASE SeedAssign
    <3>1. seed' \in [todo : SUBSET Roles, cleared : BOOLEAN, role : Roles] /\ seed.role \in Roles
      BY <2>8 DEF SeedAssign, AuthorityTypeOK
    <3>2. grants' \in [Roles -> SUBSET Codes]
      BY <2>8, AuthorityAssumption DEF SeedAssign, AuthorityTypeOK
    <3>3. granted' \in [Roles -> [Codes -> Nat]]
      BY <2>8, <3>1 DEF SeedAssign, AuthorityTypeOK
    <3> QED BY <2>8, <3>1, <3>2, <3>3 DEF SeedAssign, AuthorityTypeOK
  <2>9. CASE PassTime
    <3>1. time' \in Nat
      BY <2>9 DEF PassTime, AuthorityTypeOK
    <3>2. hadRole' \in [Members -> [Roles -> Nat]]
      BY <2>9, <3>1 DEF PassTime, AuthorityTypeOK
    <3>3. granted' \in [Roles -> [Codes -> Nat]] /\ refused' \in [Roles -> [Codes -> Nat]]
      BY <2>9, <3>1 DEF PassTime, AuthorityTypeOK
    <3> QED BY <2>9, <3>1, <3>2, <3>3 DEF PassTime, AuthorityTypeOK
  <2>10. CASE UNCHANGED authorityVars
    BY <2>10 DEF authorityVars, AuthorityTypeOK
  <2> QED BY <2>1, <2>2, <2>3, <2>4, <2>5, <2>6, <2>7, <2>8, <2>9, <2>10 DEF AuthorityNext
<1> QED BY <1>1, <1>2, PTL DEF AuthoritySpec

-----------------------------------------------------------------------------
(* The history *)

\* No step makes what was known of the past older.
HistoryGrows ==
  /\ time' >= time
  /\ \A u \in Members, r \in Roles : hadRole'[u][r] >= hadRole[u][r]
  /\ \A r \in Roles, c \in Codes : granted'[r][c] >= granted[r][c] /\ refused'[r][c] >= refused[r][c]

\* The moments of the history, one by one.
LEMMA HistoryTyped ==
  ASSUME AuthorityTypeOK, HistoryIsPast
  PROVE  /\ time \in Nat /\ seed.role \in Roles
         /\ \A u \in Members : roleOf[u] \in Roles
         /\ \A u \in Members, r \in Roles : hadRole[u][r] \in Nat /\ hadRole[u][r] <= time
         /\ \A r \in Roles, c \in Codes :
              /\ granted[r][c] \in Nat /\ granted[r][c] <= time
              /\ refused[r][c] \in Nat /\ refused[r][c] <= time
BY DEF AuthorityTypeOK, HistoryIsPast

\* Every step records the past correctly.
LEMMA HistoryStep ==
  ASSUME AuthorityTypeOK, AuthorityTypeOK', HistoryIsPast, [AuthorityNext]_authorityVars
  PROVE  HistoryGrows /\ HistoryIsPast'
<1>1. CASE UNCHANGED <<time, roleOf, grants, seed, history>>
  BY <1>1, HistoryTyped DEF history, HistoryIsPast, HistoryGrows
<1>2. ASSUME NEW u \in Members, NEW r \in Roles, SetRole(u, r)
      PROVE  HistoryGrows /\ HistoryIsPast'
  <2>1. UNCHANGED <<time, grants, seed, granted, refused>>
    BY <1>2 DEF SetRole
  <2>2. \A v \in Members, s \in Roles :
          hadRole'[v][s] = IF v = u /\ s = r THEN time ELSE hadRole[v][s]
    BY <1>2 DEF SetRole, AuthorityTypeOK
  <2>3. \A v \in Members : roleOf'[v] = IF v = u THEN r ELSE roleOf[v]
    BY <1>2 DEF SetRole, AuthorityTypeOK
  <2>4. HistoryGrows
    BY <2>1, <2>2, HistoryTyped DEF HistoryGrows
  <2>5. \A v \in Members, s \in Roles : hadRole'[v][s] <= time
    BY <2>2, HistoryTyped
  <2>6. \A v \in Members : hadRole'[v][roleOf'[v]] = time
    BY <2>2, <2>3, HistoryTyped DEF HistoryIsPast
  <2> QED BY <2>1, <2>4, <2>5, <2>6 DEF HistoryIsPast
<1>3. ASSUME NEW r \in Roles, SeedClear(r)
      PROVE  HistoryGrows /\ HistoryIsPast'
  <2>1. UNCHANGED <<time, roleOf, hadRole, granted>> /\ seed'.role = r
    BY <1>3 DEF SeedClear, AuthorityTypeOK
  <2>2. \A s \in Roles, c \in Codes : refused'[s][c] = IF s = r THEN time ELSE refused[s][c]
    BY <1>3 DEF SeedClear, AuthorityTypeOK
  <2>3. \A s \in Roles : grants'[s] = IF s = r THEN {} ELSE grants[s]
    BY <1>3 DEF SeedClear, AuthorityTypeOK
  <2>4. HistoryGrows
    BY <2>1, <2>2, HistoryTyped DEF HistoryGrows
  <2>5. \A s \in Roles, c \in Codes : granted'[s][c] <= time /\ refused'[s][c] <= time
    BY <2>1, <2>2, HistoryTyped
  <2>6. \A s \in Roles, c \in Codes :
          IF c \in grants'[s] THEN granted'[s][c] = time ELSE refused'[s][c] = time
    BY <2>1, <2>2, <2>3 DEF HistoryIsPast
  <2>7. grants'[seed'.role] = {}
    BY <2>1, <2>3
  <2> QED BY <2>1, <2>4, <2>5, <2>6, <2>7 DEF HistoryIsPast
<1>4. CASE SeedAssign
  <2> PICK r \in Roles : r = seed.role
    BY DEF AuthorityTypeOK
  <2>1. UNCHANGED <<time, roleOf, hadRole, refused>> /\ ~seed'.cleared
    BY <1>4 DEF SeedAssign, AuthorityTypeOK
  <2>2. \A s \in Roles, c \in Codes :
          granted'[s][c] = IF s = r /\ c \in RolePermissions[r] THEN time ELSE granted[s][c]
    BY <1>4 DEF SeedAssign, AuthorityTypeOK
  <2>3. \A s \in Roles : grants'[s] = IF s = r THEN RolePermissions[r] ELSE grants[s]
    BY <1>4 DEF SeedAssign, AuthorityTypeOK
  <2>4. grants[r] = {}
    BY <1>4 DEF SeedAssign, HistoryIsPast
  <2>5. HistoryGrows
    BY <2>1, <2>2, HistoryTyped DEF HistoryGrows
  <2>6. \A s \in Roles, c \in Codes : granted'[s][c] <= time /\ refused'[s][c] <= time
    BY <2>1, <2>2, HistoryTyped
  <2>7. \A s \in Roles, c \in Codes :
          IF c \in grants'[s] THEN granted'[s][c] = time ELSE refused'[s][c] = time
    BY <2>1, <2>2, <2>3, <2>4 DEF HistoryIsPast
  <2> QED BY <2>1, <2>5, <2>6, <2>7 DEF HistoryIsPast
<1>5. CASE PassTime
  <2>1. time' = time + 1 /\ UNCHANGED <<roleOf, grants, seed>>
    BY <1>5 DEF PassTime
  <2>2. \A u \in Members, r \in Roles :
          hadRole'[u][r] = IF r = roleOf[u] THEN time + 1 ELSE hadRole[u][r]
    BY <1>5 DEF PassTime, AuthorityTypeOK
  <2>3. \A r \in Roles, c \in Codes :
          /\ granted'[r][c] = IF c \in grants[r] THEN time + 1 ELSE granted[r][c]
          /\ refused'[r][c] = IF c \in grants[r] THEN refused[r][c] ELSE time + 1
    BY <1>5 DEF PassTime, AuthorityTypeOK
  <2>4. /\ \A u \in Members, r \in Roles : hadRole[u][r] \in Nat /\ hadRole[u][r] <= time
        /\ \A r \in Roles, c \in Codes :
             /\ granted[r][c] \in Nat /\ granted[r][c] <= time
             /\ refused[r][c] \in Nat /\ refused[r][c] <= time
        /\ time \in Nat
        /\ \A u \in Members : roleOf[u] \in Roles
    BY HistoryTyped
  <2>5. HistoryGrows
    BY <2>1, <2>2, <2>3, <2>4 DEF HistoryGrows
  <2>6. \A u \in Members, r \in Roles : hadRole'[u][r] <= time'
    BY <2>1, <2>2, <2>4
  <2>7. \A r \in Roles, c \in Codes : granted'[r][c] <= time' /\ refused'[r][c] <= time'
    BY <2>1, <2>3, <2>4
  <2>8. \A u \in Members : hadRole'[u][roleOf'[u]] = time'
    BY <2>1, <2>2, <2>4
  <2>9. \A r \in Roles, c \in Codes :
          IF c \in grants'[r] THEN granted'[r][c] = time' ELSE refused'[r][c] = time'
    BY <2>1, <2>3
  <2> QED BY <2>1, <2>5, <2>6, <2>7, <2>8, <2>9 DEF HistoryIsPast
<1> QED BY <1>1, <1>2, <1>3, <1>4, <1>5
        DEF AuthorityNext, SignAccess, HasPermissionHit, HasPermissionMiss, FindPermissionsByRole,
            FillCache, authorityVars, history

-----------------------------------------------------------------------------
(* Tokens, fills, caches and verdicts *)

LEMMA TokensStep ==
  ASSUME AuthorityTypeOK, AuthorityTypeOK', HistoryIsPast, HistoryGrows, TokensAreRecent,
         [AuthorityNext]_authorityVars
  PROVE  TokensAreRecent'
<1>1. SUFFICES ASSUME NEW v \in Members
               PROVE  hadRole'[v][access'[v].role] + AccessTtl >= access'[v].exp
  BY DEF TokensAreRecent
<1>2. CASE access'[v] = access[v]
  <2> DEFINE r == access[v].role
  <2>1. r \in Roles /\ access[v].exp \in Nat
    BY DEF AuthorityTypeOK
  <2>2. hadRole[v][r] + AccessTtl >= access[v].exp
    BY DEF TokensAreRecent
  <2>3. hadRole'[v][r] >= hadRole[v][r]
    BY <2>1 DEF HistoryGrows
  <2>4. hadRole[v][r] \in Nat /\ hadRole'[v][r] \in Nat
    BY <2>1 DEF AuthorityTypeOK
  <2> HIDE DEF r
  <2> QED BY <1>2, <2>1, <2>2, <2>3, <2>4, AuthorityAssumption DEF r
<1>3. CASE access'[v] # access[v]
  <2>1. SignAccess(v)
    BY <1>3 DEF AuthorityNext, SignAccess, SetRole, HasPermissionHit, HasPermissionMiss,
                FindPermissionsByRole, FillCache, SeedClear, SeedAssign, PassTime,
                authorityVars, AuthorityTypeOK
  <2>2. access'[v] = [role |-> roleOf[v], exp |-> time + AccessTtl] /\ hadRole' = hadRole
    BY <2>1 DEF SignAccess, history, AuthorityTypeOK
  <2>3. hadRole[v][roleOf[v]] = time /\ roleOf[v] \in Roles /\ time \in Nat
    BY HistoryTyped DEF HistoryIsPast
  <2> QED BY <2>2, <2>3, AuthorityAssumption
<1> QED BY <1>2, <1>3

\* Codes that were so since a moment still are, whatever is recorded later.
LEMMA CodesStay ==
  ASSUME AuthorityTypeOK, AuthorityTypeOK', HistoryGrows,
         NEW r \in Roles, NEW codes, NEW moment \in Nat, CodesSince(r, codes, moment)
  PROVE  CodesSince(r, codes, moment)'
<1>1. SUFFICES ASSUME NEW c \in Codes
               PROVE  IF c \in codes THEN granted'[r][c] >= moment ELSE refused'[r][c] >= moment
  BY DEF CodesSince
<1>2. /\ granted[r][c] \in Nat /\ granted'[r][c] \in Nat
      /\ refused[r][c] \in Nat /\ refused'[r][c] \in Nat
  BY DEF AuthorityTypeOK
<1>3. granted'[r][c] >= granted[r][c] /\ refused'[r][c] >= refused[r][c]
  BY DEF HistoryGrows
<1>4. IF c \in codes THEN granted[r][c] >= moment ELSE refused[r][c] >= moment
  BY DEF CodesSince
<1> QED BY <1>2, <1>3, <1>4

LEMMA FillsStep ==
  ASSUME AuthorityTypeOK, AuthorityTypeOK', HistoryIsPast, HistoryGrows, TokensAreRecent,
         FillsAreRecent, [AuthorityNext]_authorityVars
  PROVE  FillsAreRecent'
<1>1. SUFFICES ASSUME NEW k \in Requests, NEW b, b = load'[k], b # NoRequest
               PROVE  /\ b.role # Superadmin
                      /\ hadRole'[b.user][b.role] + AccessTtl > b.now
                      /\ b.now <= time'
                      /\ b.read => CodesSince(b.role, b.codes, b.now)'
  BY DEF FillsAreRecent
<1>2. b \in Fill
  BY <1>1 DEF AuthorityTypeOK
<1> DEFINE u == b.user
           r == b.role
           n == b.now
           codes == b.codes
<1>3. u \in Members /\ r \in Roles /\ n \in Nat
  BY <1>2 DEF Fill
<1>4. hadRole[u][r] \in Nat /\ hadRole'[u][r] \in Nat /\ hadRole'[u][r] >= hadRole[u][r]
  BY <1>3 DEF AuthorityTypeOK, HistoryGrows
<1>5. time \in Nat /\ time' \in Nat /\ time' >= time
  BY DEF AuthorityTypeOK, HistoryGrows
<1>6. \/ load[k] = b
      \/ \E p \in Processes, v \in Members, c \in Codes : HasPermissionMiss(k, p, v, c)
      \/ FindPermissionsByRole(k)
  <2>1. CASE load' = load
    BY <1>1, <2>1
  <2>2. ASSUME NEW q \in Requests, NEW p \in Processes, NEW v \in Members, NEW c \in Codes,
               HasPermissionMiss(q, p, v, c)
        PROVE  load[k] = b \/ HasPermissionMiss(k, p, v, c)
    BY <1>1, <2>2 DEF HasPermissionMiss, AuthorityTypeOK
  <2>3. ASSUME NEW q \in Requests, FindPermissionsByRole(q)
        PROVE  load[k] = b \/ FindPermissionsByRole(k)
    BY <1>1, <2>3 DEF FindPermissionsByRole, AuthorityTypeOK
  <2>4. ASSUME NEW q \in Requests, FillCache(q)
        PROVE  load[k] = b
    BY <1>1, <2>4 DEF FillCache, AuthorityTypeOK
  <2> QED BY <2>1, <2>2, <2>3, <2>4
          DEF AuthorityNext, SignAccess, SetRole, HasPermissionHit, SeedClear, SeedAssign, PassTime,
              authorityVars, history
<1>7. CASE load[k] = b
  <2>1. /\ r # Superadmin /\ hadRole[u][r] + AccessTtl > n /\ n <= time
        /\ b.read => CodesSince(r, codes, n)
    BY <1>1, <1>7 DEF FillsAreRecent
  <2> HIDE DEF u, r, n, codes
  <2>2. b.read => CodesSince(r, codes, n)'
    BY <1>3, <2>1, CodesStay
  <2>3. hadRole'[u][r] + AccessTtl > n /\ n <= time'
    BY <1>3, <1>4, <1>5, <2>1, AuthorityAssumption
  <2> QED BY <2>1, <2>2, <2>3 DEF u, r, n, codes
<1>8. ASSUME NEW p \in Processes, NEW v \in Members, NEW c \in Codes, HasPermissionMiss(k, p, v, c)
      PROVE  r # Superadmin /\ hadRole'[u][r] + AccessTtl > n /\ n <= time' /\ ~b.read
  <2>1. b = [proc |-> p, user |-> v, code |-> c, role |-> access[v].role,
             now |-> time, read |-> FALSE, codes |-> {}]
    BY <1>1, <1>8 DEF HasPermissionMiss, AuthorityTypeOK
  <2>2. r # Superadmin /\ time < access[v].exp /\ n = time /\ u = v /\ r = access[v].role
    BY <1>8, <2>1 DEF HasPermissionMiss, Authenticate
  <2>3. hadRole[u][r] + AccessTtl >= access[v].exp /\ access[v].exp \in Nat
    BY <2>2 DEF TokensAreRecent, AuthorityTypeOK
  <2> QED BY <1>4, <1>5, <2>1, <2>2, <2>3, AuthorityAssumption
<1>9. CASE FindPermissionsByRole(k)
  <2>1. load[k] # NoRequest /\ load[k] \in Fill
    BY <1>9 DEF FindPermissionsByRole, AuthorityTypeOK
  <2>2. b = [load[k] EXCEPT !.read = TRUE, !.codes = grants[load[k].role]]
    BY <1>1, <1>9 DEF FindPermissionsByRole, AuthorityTypeOK
  <2>3. r = load[k].role /\ u = load[k].user /\ n = load[k].now /\ codes = grants[r]
    BY <2>1, <2>2 DEF Fill
  <2>4. /\ r # Superadmin /\ hadRole[u][r] + AccessTtl > n /\ n <= time
    BY <2>1, <2>3 DEF FillsAreRecent
  <2>5. UNCHANGED <<granted, refused>>
    BY <1>9 DEF FindPermissionsByRole, history
  <2> HIDE DEF u, r, n, codes
  <2>6. CodesSince(r, codes, n)'
    <3>1. SUFFICES ASSUME NEW c \in Codes
                   PROVE  IF c \in codes THEN granted[r][c] >= n ELSE refused[r][c] >= n
      BY <2>5 DEF CodesSince
    <3>2. IF c \in codes THEN granted[r][c] = time ELSE refused[r][c] = time
      BY <1>3, <2>3 DEF HistoryIsPast
    <3> QED BY <1>3, <1>5, <2>4, <3>2
  <2>7. hadRole'[u][r] + AccessTtl > n /\ n <= time'
    BY <1>3, <1>4, <1>5, <2>4, AuthorityAssumption
  <2> QED BY <2>4, <2>6, <2>7 DEF u, r, n, codes
<1> QED BY <1>6, <1>7, <1>8, <1>9

LEMMA CachesStep ==
  ASSUME AuthorityTypeOK, AuthorityTypeOK', HistoryIsPast, HistoryGrows, FillsAreRecent,
         CachesAreRecent, [AuthorityNext]_authorityVars
  PROVE  CachesAreRecent'
<1>1. SUFFICES ASSUME NEW p \in Processes, NEW r \in Roles, NEW c \in Codes
               PROVE  IF c \in roleCache'[p][r].codes
                      THEN granted'[r][c] + CacheTtl >= roleCache'[p][r].until
                      ELSE refused'[r][c] + CacheTtl >= roleCache'[p][r].until
  BY DEF CachesAreRecent
<1>2. /\ granted[r][c] \in Nat /\ granted'[r][c] \in Nat /\ granted'[r][c] >= granted[r][c]
      /\ refused[r][c] \in Nat /\ refused'[r][c] \in Nat /\ refused'[r][c] >= refused[r][c]
  BY DEF AuthorityTypeOK, HistoryGrows
<1>3. CASE roleCache'[p][r] = roleCache[p][r]
  <2>1. roleCache[p][r].until \in Nat
    BY DEF AuthorityTypeOK
  <2>2. IF c \in roleCache[p][r].codes
        THEN granted[r][c] + CacheTtl >= roleCache[p][r].until
        ELSE refused[r][c] + CacheTtl >= roleCache[p][r].until
    BY DEF CachesAreRecent
  <2> QED BY <1>2, <1>3, <2>1, <2>2, AuthorityAssumption
<1>4. ASSUME NEW q \in Requests, FillCache(q), roleCache'[p][r] # roleCache[p][r]
      PROVE  IF c \in roleCache'[p][r].codes
             THEN granted'[r][c] + CacheTtl >= roleCache'[p][r].until
             ELSE refused'[r][c] + CacheTtl >= roleCache'[p][r].until
  <2>1. load[q] # NoRequest /\ load[q] \in Fill /\ load[q].read
    BY <1>4 DEF FillCache, AuthorityTypeOK
  <2> DEFINE entry == [codes |-> load[q].codes, until |-> load[q].now + CacheTtl]
  <2>2. roleCache' = [roleCache EXCEPT ![load[q].proc][load[q].role] = entry]
    BY <1>4 DEF FillCache
  <2>3. r = load[q].role /\ roleCache'[p][r] = entry
    <3> HIDE DEF entry
    <3>1. load[q].proc \in Processes /\ load[q].role \in Roles
      BY <2>1 DEF Fill
    <3> QED BY <1>4, <2>2, <3>1 DEF AuthorityTypeOK
  <2>4. CodesSince(r, load[q].codes, load[q].now) /\ load[q].now \in Nat
    BY <2>1, <2>3 DEF FillsAreRecent, Fill
  <2>5. IF c \in load[q].codes THEN granted[r][c] >= load[q].now ELSE refused[r][c] >= load[q].now
    BY <2>4 DEF CodesSince
  <2> QED BY <1>2, <2>3, <2>4, <2>5, AuthorityAssumption
<1>5. CASE UNCHANGED roleCache
  BY <1>3, <1>5
<1> QED BY <1>3, <1>4, <1>5
        DEF AuthorityNext, SignAccess, SetRole, HasPermissionHit, HasPermissionMiss,
            FindPermissionsByRole, SeedClear, SeedAssign, PassTime, authorityVars, history

LEMMA VerdictStep ==
  ASSUME AuthorityTypeOK, AuthorityTypeOK', HistoryIsPast, HistoryGrows, TokensAreRecent,
         FillsAreRecent, CachesAreRecent, VerdictHadGrounds, [AuthorityNext]_authorityVars
  PROVE  VerdictHadGrounds'
<1>1. CASE UNCHANGED verdict
  <2> DEFINE u == verdict.user
             r == verdict.role
             c == verdict.code
             n == verdict.at
  <2>1. u \in Members /\ r \in Roles /\ c \in Codes /\ n \in Nat
    BY DEF AuthorityTypeOK
  <2>2. /\ granted[r][c] \in Nat /\ granted'[r][c] \in Nat /\ granted'[r][c] >= granted[r][c]
        /\ refused[r][c] \in Nat /\ refused'[r][c] \in Nat /\ refused'[r][c] >= refused[r][c]
        /\ hadRole[u][r] \in Nat /\ hadRole'[u][r] \in Nat /\ hadRole'[u][r] >= hadRole[u][r]
    BY <2>1 DEF AuthorityTypeOK, HistoryGrows
  <2>3. IF verdict.ok
        THEN /\ hadRole[u][r] + AccessTtl > n
             /\ r # Superadmin => granted[r][c] + CacheTtl > n
        ELSE n > 0 => refused[r][c] + CacheTtl > n
    BY DEF VerdictHadGrounds
  <2> HIDE DEF u, r, c, n
  <2>4. IF verdict.ok
        THEN /\ hadRole'[u][r] + AccessTtl > n
             /\ r # Superadmin => granted'[r][c] + CacheTtl > n
        ELSE n > 0 => refused'[r][c] + CacheTtl > n
    BY <2>1, <2>2, <2>3, AuthorityAssumption
  <2> QED BY <1>1, <2>4 DEF u, r, c, n, VerdictHadGrounds
<1>2. ASSUME NEW p \in Processes, NEW u \in Members, NEW c \in Codes, HasPermissionHit(p, u, c)
      PROVE  VerdictHadGrounds'
  <2> DEFINE r == access[u].role
             codes == roleCache[p][r].codes
             until == roleCache[p][r].until
  <2>1. r \in Roles /\ access[u].exp \in Nat /\ until \in Nat
    BY DEF AuthorityTypeOK
  <2>2. /\ granted[r][c] \in Nat /\ refused[r][c] \in Nat /\ hadRole[u][r] \in Nat /\ time \in Nat
    BY <2>1 DEF AuthorityTypeOK
  <2>3. hadRole[u][r] + AccessTtl >= access[u].exp
    BY DEF TokensAreRecent
  <2>4. IF c \in codes THEN granted[r][c] + CacheTtl >= until ELSE refused[r][c] + CacheTtl >= until
    BY <2>1 DEF CachesAreRecent
  <2>5. time < access[u].exp /\ (r = Superadmin \/ until > time)
    BY <1>2 DEF HasPermissionHit, Authenticate
  <2>6. /\ verdict' = [user |-> u, code |-> c, role |-> r, at |-> time,
                       ok |-> r = Superadmin \/ c \in codes]
        /\ UNCHANGED <<hadRole, granted, refused>>
    BY <1>2 DEF HasPermissionHit, Answer, history
  <2> HIDE DEF r, codes, until
  <2>7. hadRole[u][r] + AccessTtl > time
    BY <2>1, <2>2, <2>3, <2>5, AuthorityAssumption
  <2>8. r # Superadmin => IF c \in codes THEN granted[r][c] + CacheTtl > time
                          ELSE refused[r][c] + CacheTtl > time
    BY <2>1, <2>2, <2>4, <2>5, AuthorityAssumption
  <2> QED BY <2>6, <2>7, <2>8 DEF VerdictHadGrounds
<1>3. ASSUME NEW q \in Requests, FillCache(q)
      PROVE  VerdictHadGrounds'
  <2> DEFINE u == load[q].user
             r == load[q].role
             c == load[q].code
             n == load[q].now
             codes == load[q].codes
  <2>1. load[q] # NoRequest /\ load[q] \in Fill /\ load[q].read
    BY <1>3 DEF FillCache, AuthorityTypeOK
  <2>2. u \in Members /\ r \in Roles /\ c \in Codes /\ n \in Nat
    BY <2>1 DEF Fill
  <2>3. r # Superadmin /\ hadRole[u][r] + AccessTtl > n /\ CodesSince(r, codes, n)
    BY <2>1 DEF FillsAreRecent
  <2>4. /\ verdict' = [user |-> u, code |-> c, role |-> r, at |-> n,
                       ok |-> r = Superadmin \/ c \in codes]
        /\ UNCHANGED <<hadRole, granted, refused>>
    BY <1>3 DEF FillCache, Answer, history
  <2>5. granted[r][c] \in Nat /\ refused[r][c] \in Nat
    BY <2>2 DEF AuthorityTypeOK
  <2> HIDE DEF u, r, c, n, codes
  <2>6. IF c \in codes THEN granted[r][c] >= n ELSE refused[r][c] >= n
    BY <2>2, <2>3 DEF CodesSince
  <2>7. IF c \in codes THEN granted[r][c] + CacheTtl > n ELSE refused[r][c] + CacheTtl > n
    BY <2>2, <2>5, <2>6, AuthorityAssumption
  <2> QED BY <2>3, <2>4, <2>7 DEF VerdictHadGrounds
<1> QED BY <1>1, <1>2, <1>3
        DEF AuthorityNext, SignAccess, SetRole, HasPermissionMiss, FindPermissionsByRole,
            SeedClear, SeedAssign, PassTime, authorityVars, history

\* What every answer and everything it may be made from goes back to.
THEOREM AuthorityInvariant == AuthoritySpec => []AuthorityInv
<1>1. AuthorityInit /\ AuthorityTypeOK => Grounds
  <2> SUFFICES ASSUME AuthorityInit, AuthorityTypeOK
               PROVE  Grounds
    OBVIOUS
  <2>1. time \in Nat /\ Start \in Nat /\ time = Start
    BY AuthorityAssumption DEF AuthorityInit, Start
  <2>2. /\ \A u \in Members, r \in Roles : hadRole[u][r] = IF r = roleOf[u] THEN time ELSE 0
        /\ \A r \in Roles, c \in Codes :
             /\ granted[r][c] = IF c \in grants[r] THEN time ELSE 0
             /\ refused[r][c] = IF c \in grants[r] THEN 0 ELSE time
    BY DEF AuthorityInit
  <2>3. HistoryIsPast
    BY <2>1, <2>2 DEF HistoryIsPast, AuthorityInit, AuthorityTypeOK
  <2>4. TokensAreRecent
    <3>1. SUFFICES ASSUME NEW u \in Members
                   PROVE  hadRole[u][access[u].role] + AccessTtl >= access[u].exp
      BY DEF TokensAreRecent
    <3>2. access[u] = NoToken
      BY DEF AuthorityInit
    <3>3. hadRole[u][Superadmin] \in Nat
      BY AuthorityAssumption DEF AuthorityTypeOK
    <3> QED BY <3>2, <3>3, AuthorityAssumption DEF NoToken
  <2>5. FillsAreRecent
    BY DEF FillsAreRecent, AuthorityInit
  <2>6. CachesAreRecent
    <3>1. ASSUME NEW p \in Processes, NEW r \in Roles, NEW c \in Codes
          PROVE  roleCache[p][r].until = 0 /\ granted[r][c] \in Nat /\ refused[r][c] \in Nat
      BY DEF AuthorityInit, AuthorityTypeOK
    <3> QED BY <3>1, AuthorityAssumption DEF CachesAreRecent
  <2>7. VerdictHadGrounds
    BY DEF VerdictHadGrounds, AuthorityInit
  <2> QED BY <2>3, <2>4, <2>5, <2>6, <2>7 DEF Grounds
<1>2. AuthorityTypeOK /\ AuthorityTypeOK' /\ Grounds /\ [AuthorityNext]_authorityVars => Grounds'
  BY HistoryStep, TokensStep, FillsStep, CachesStep, VerdictStep DEF Grounds
<1> QED BY <1>1, <1>2, AuthorityTypeCorrect, PTL DEF AuthoritySpec, AuthorityInv

\* Whatever the seed rewrites and however long a query takes, an answer of
\* hasPermission goes back to a role and to codes of at most one lifetime ago.
THEOREM VerdictHadGroundsHolds == AuthoritySpec => []VerdictHadGrounds
<1>1. AuthorityInv => VerdictHadGrounds
  BY DEF AuthorityInv, Grounds
<1> QED BY <1>1, AuthorityInvariant, PTL
=============================================================================
