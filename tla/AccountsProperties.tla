------------------------- MODULE AccountsProperties -------------------------
(***************************************************************************)
(* What the refresh tokens promise.                                        *)
(***************************************************************************)
EXTENDS Accounts, FiniteSets

\* Every variable keeps its type.
AccountsTypeOK ==
  /\ users \in [Users -> User]
  /\ tokens \in [Tokens -> Token]
  /\ req \in [Sessions -> Request]
  /\ day \in 0 .. MaxClock
  /\ forked \subseteq Tokens /\ burned \subseteq Tokens /\ late \subseteq burned

\* What can still become, or already is, a valid token of the family.
Heirs(f) ==
  {t \in Tokens : Live(t) /\ tokens[t].fam = f}
    \cup {s \in Sessions : req[s].pc \in {"find", "issue"} /\ InFamily(req[s], f)}

\* Rotation: a login is continued by one token at a time.  It takes two
\* refreshes that both read the same token before either revokes it to fork a
\* family (auth.service.js checks and revokes in two statements).
OneHeirPerFamily ==
  \A f \in Tokens \ forked : Cardinality(Heirs(f)) <= 1

\* Once a reuse has been detected the family stays dead: whoever holds one of
\* its tokens has to log in again.  Only a refresh that had already passed its
\* check escapes.
ReuseEndsFamily ==
  \A t \in Tokens : Live(t) /\ tokens[t].fam \in burned => tokens[t].fam \in late

\* When a password change or a credentials mail is done, every session that
\* was opened with an older password is over, except those refreshed at that
\* moment and those an admin's updateUser left alone.
OldPasswordEndsSessions ==
  \A t \in Tokens :
    LET u == tokens[t].user IN
    Live(t) /\ tokens[t].cred \notin {None, users[u].pw} =>
      \E s \in Sessions : At(s, "revoke_all") /\ req[s].user = u

\* No token is stored for a user who was deleted during the whole request.
NoTokenForDeletedUser ==
  \A t \in Tokens : tokens[t].st # "unused" => tokens[t].alive
=============================================================================
