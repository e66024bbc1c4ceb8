----------------------------- MODULE MCSessions -----------------------------
(***************************************************************************)
(* Instances of Sessions for TLC.  Sign-ins, accounts and the names of     *)
(* sessions differ in nothing but their names.                             *)
(***************************************************************************)
EXTENDS Sessions, TLC

MCSymmetry == Permutations(Logins) \cup Permutations(Ids) \cup Permutations(Accounts)
=============================================================================
