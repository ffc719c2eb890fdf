------------------------------- MODULE Places -------------------------------
(***************************************************************************)
(* Where the threads of a component stand: a thread, task, caller or       *)
(* request goes through the steps of its function one by one.              *)
(***************************************************************************)
CONSTANT None   \* what a cell, a lock or a field holds that holds nothing

VARIABLE pc     \* the step each of them takes next

At(t, place)   == pc[t] = place
Goto(t, place) == pc' = [pc EXCEPT ![t] = place]

=============================================================================
