----------------------------- MODULE MCWbLogin -----------------------------
(* Two dialogs, one per realm, and an account of each realm.               *)
EXTENDS WbLogin, TLC

CONSTANTS l1, l2, cn, global, alice, bob

TwoProfiles == l1 :> cn @@ l2 :> global
TwoFamilies == alice :> cn @@ bob :> global
=============================================================================
