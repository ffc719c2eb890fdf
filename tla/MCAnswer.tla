------------------------------ MODULE MCAnswer ------------------------------
(***************************************************************************)
(* Instance of Answer for TLC.  Three lines let reasoning, text and tools  *)
(* meet in every order, with a reason for the end; one retry of an empty   *)
(* answer is enough to meet a 401 before, between and after the retries,   *)
(* and one line of the call that goes on with a broken stream is enough to *)
(* meet each kind of item the first call may have left open or closed.     *)
(***************************************************************************)
EXTENDS Answer
=============================================================================
