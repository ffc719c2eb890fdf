----------------------------- MODULE MCIdeSwitch -----------------------------
(* Instances of IdeSwitch for TLC. *)
EXTENDS IdeSwitch, TLC

CONSTANTS s1, s2, u1, u2, none

SwitchSymmetry == Permutations(Switches) \cup Permutations(Uids)
==============================================================================
