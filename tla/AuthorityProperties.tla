------------------------ MODULE AuthorityProperties ------------------------
(***************************************************************************)
(* How old an authorisation may be.                                        *)
(***************************************************************************)
EXTENDS Authority

\* A request passes with a role its user had at most one access token life
\* ago, and, superadmin apart, a code the role had less than one cache
\* lifetime before the request asked for it: a fill that waits long for the
\* database, while grants are rewritten, does not stretch the cache's life.
\* It is refused only if its role lacked the code less than one cache lifetime
\* ago: seeding, which clears the grants of a role before it writes them
\* again, makes servers refuse, but not for longer than that.
VerdictHadGrounds ==
  IF verdict.ok
  THEN /\ hadRole[verdict.user][verdict.role] + AccessTtl > verdict.at
       /\ verdict.role # Superadmin =>
            granted[verdict.role][verdict.code] + CacheTtl > verdict.at
  ELSE verdict.at > 0 => refused[verdict.role][verdict.code] + CacheTtl > verdict.at
=============================================================================
