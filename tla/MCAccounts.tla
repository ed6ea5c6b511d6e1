----------------------------- MODULE MCAccounts -----------------------------
(***************************************************************************)
(* Model checking of accounts and of authorisation.  They share no         *)
(* variable, so one run checks them by turns: `part` says which one moves. *)
(***************************************************************************)
EXTENDS AccountsProperties, AuthorityProperties, TLC

VARIABLE part

SeedTable == [r \in Roles |-> Codes]

Symmetry ==
  Permutations(Tokens) \cup Permutations(Sessions) \cup Permutations(Passwords)

Init ==
  /\ part \in {"accounts", "authority"}
  /\ AccountsInit /\ AuthorityInit
  /\ part = "accounts" =>
       roleOf = [m \in Members |-> Superadmin] /\ grants = SeedTable

Next ==
  /\ UNCHANGED part
  /\ \/ part = "accounts" /\ AccountsNext /\ UNCHANGED authorityVars
     \/ part = "authority" /\ AuthorityNext /\ UNCHANGED accountsVars

Spec == Init /\ [][Next]_<<part, accountsVars, authorityVars>>
=============================================================================
