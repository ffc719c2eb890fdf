----------------------------- MODULE MCWbCatalog -----------------------------
(* Instances of WbCatalog for TLC. *)
EXTENDS WbCatalog, TLC

CONSTANTS c1, c2, none

MCAccounts == {1}

CallerSymmetry == Permutations(Callers)
==============================================================================
