---------------------------- MODULE MCTa3Session ----------------------------
(* Two callers and two browser logins of one stored session.               *)
EXTENDS Ta3Session, TLC

CONSTANTS c1, c2, d1, d2

SessionSymmetry == Permutations(Callers) \cup Permutations(Dialogs)
=============================================================================
