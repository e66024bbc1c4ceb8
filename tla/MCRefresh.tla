----------------------------- MODULE MCRefresh -----------------------------
(***************************************************************************)
(* Instances of Refresh for TLC: one browser with one tab or with two,     *)
(* which differ in nothing but their names.                                *)
(***************************************************************************)
EXTENDS Refresh, TLC

MCSymmetry == Permutations(Callers)
=============================================================================
