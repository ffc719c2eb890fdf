---------------------------- MODULE MCAccountPool ----------------------------
(* Instances of AccountPool for TLC. *)
EXTENDS AccountPool, TLC

CONSTANTS r1, r2, r3, m1

MCOneModel == [r \in Request |-> m1]

RequestSymmetry == Permutations(Request)

-----------------------------------------------------------------------------
(* What AccountPool_edit explores: either one request over two accounts    *)
(* that the user edits, or up to three requests over one account that      *)
(* nobody edits.                                                           *)

Engaged == {r \in Request : pc[r] # "idle" \/ out[r] # "none"}

(* Of the priorities only the order counts; a single request explores one  *)
(* rate limit of an account, of the length of the backoff.                 *)
OneRequest ==
    /\ \E a \in Account : prio[a] = 1
    /\ \A a \in Account : cool[a][m1].hits <= 1
                          /\ (cool[a][m1].reason = "6004" => cool[a][m1].left <= 1)

OneAccount == /\ present = {1} /\ enabled[1] /\ prio[1] = 1
              /\ \A r \in Request : total[r] <= 1 /\ cur[r] # 2 /\ tried[r] \subseteq {1}

(* These answers leave the pool as it is, and so does a client that leaves *)
(* instead: what comes after them comes after that as well.                *)
SameAsCancelled == {"no_account", "suspended", "token_error", "upstream_timeout"}

Scope == /\ \A r \in Request : out[r] \notin SameAsCancelled
         /\ IF Cardinality(Engaged) > 1 THEN OneAccount ELSE OneRequest
==============================================================================
