------------------------------- MODULE Rotation -------------------------------
(***************************************************************************)
(* What the account pool promises the caller of one chat request, whatever *)
(* the health rules and the user do to the pool: the request attempts      *)
(* accounts one after another and never the same one twice, it may leave   *)
(* an account only while nothing has been delivered from it, and it ends.  *)
(***************************************************************************)
CONSTANTS Request, Account

VARIABLES
    phase,      \* "idle", "searching" for an account, or "attempting" one
    attempts,   \* accounts attempted so far, the running attempt included
    delivering  \* output of the running attempt has been delivered

vars == <<phase, attempts, delivering>>

Init ==
    /\ phase = [r \in Request |-> "idle"]
    /\ attempts = [r \in Request |-> {}]
    /\ delivering = [r \in Request |-> FALSE]

Begin(r) ==
    /\ phase[r] = "idle"
    /\ phase' = [phase EXCEPT ![r] = "searching"]
    /\ UNCHANGED <<attempts, delivering>>

Attempt(r) ==
    /\ phase[r] = "searching"
    /\ phase' = [phase EXCEPT ![r] = "attempting"]
    /\ \E a \in Account \ attempts[r] :
           attempts' = [attempts EXCEPT ![r] = @ \cup {a}]
    /\ UNCHANGED delivering

Deliver(r) ==
    /\ phase[r] = "attempting"
    /\ delivering' = [delivering EXCEPT ![r] = TRUE]
    /\ UNCHANGED <<phase, attempts>>

Leave(r) ==
    /\ phase[r] = "attempting"
    /\ ~delivering[r]
    /\ phase' = [phase EXCEPT ![r] = "searching"]
    /\ UNCHANGED <<attempts, delivering>>

End(r) ==
    /\ phase[r] # "idle"
    /\ phase' = [phase EXCEPT ![r] = "idle"]
    /\ attempts' = [attempts EXCEPT ![r] = {}]
    /\ delivering' = [delivering EXCEPT ![r] = FALSE]

Next == \E r \in Request : Begin(r) \/ Attempt(r) \/ Deliver(r) \/ Leave(r) \/ End(r)

Spec == Init /\ [][Next]_vars
===============================================================================
