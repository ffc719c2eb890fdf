----------------------------- MODULE AtomicStore -----------------------------
(***************************************************************************)
(* What the account store promises its callers: every operation takes      *)
(* effect at most once, at one moment, on the row it names and there on    *)
(* the part it owns; what is refused has no effect.  An operation that     *)
(* acted on an outdated list is recorded in "stale": nothing is promised   *)
(* of that one, everything of the others.                                  *)
(***************************************************************************)
CONSTANTS
  Tasks, Uids,
  Origin,    \* wrote what the store holds at first
  None       \* no request

Parts == {"entry", "health", "cache"}
Kinds == {"upsert", "note", "update", "delete"}
Owned == [upsert |-> "entry", note |-> "health", update |-> "cache"]
Requests == [kind : Kinds, uid : Uids]
Row == [Parts -> Tasks \cup {Origin}]     \* who has written each part last
Tables == UNION {[S -> Row] : S \in SUBSET Uids}

VARIABLES
  rows,      \* the stored list, by uid
  request,   \* what each task asks for
  outcome,   \* "none", "pending", "applied", "missing" or "refused"
  stale      \* tasks whose operation acted on an outdated list

vars == <<rows, request, outcome, stale>>

Init ==
  /\ rows \in {[u \in S |-> [p \in Parts |-> Origin]] : S \in SUBSET Uids}
  /\ request = [t \in Tasks |-> None]
  /\ outcome = [t \in Tasks |-> "none"]
  /\ stale = {}

Ask(t) ==
  /\ outcome[t] = "none"
  /\ outcome' = [outcome EXCEPT ![t] = "pending"]
  /\ \E r \in Requests : request' = [request EXCEPT ![t] = r]
  /\ UNCHANGED <<rows, stale>>

Settle(t, o) ==
  /\ outcome[t] = "pending"
  /\ outcome' = [outcome EXCEPT ![t] = o]
  /\ UNCHANGED request

RowWritten(t, uid, part) ==
  /\ DOMAIN rows' = DOMAIN rows \cup {uid}
  /\ \A u \in DOMAIN rows \ {uid} : rows'[u] = rows[u]
  /\ rows'[uid][part] = t
  /\ \A p \in Parts \ {part} :
       rows'[uid][p] = IF uid \in DOMAIN rows THEN rows[uid][p] ELSE Origin

RowDeleted(uid) ==
  /\ uid \in DOMAIN rows
  /\ DOMAIN rows' = DOMAIN rows \ {uid}
  /\ \A u \in DOMAIN rows' : rows'[u] = rows[u]

Apply(t) ==
  /\ Settle(t, "applied")
  /\ LET r == request[t] IN
       IF r.kind = "delete" THEN RowDeleted(r.uid)
       ELSE /\ r.kind = "upsert" \/ r.uid \in DOMAIN rows
            /\ RowWritten(t, r.uid, Owned[r.kind])
  /\ UNCHANGED stale

Miss(t) ==
  /\ Settle(t, "missing")
  /\ request[t].kind # "upsert"
  /\ request[t].uid \notin DOMAIN rows
  /\ UNCHANGED <<rows, stale>>

ActStale(t) ==
  /\ \E o \in {"applied", "missing"} : Settle(t, o)
  /\ stale' = stale \cup {t}

Refuse(S) ==
  /\ S # {}
  /\ \A t \in S : outcome[t] = "pending"
  /\ outcome' = [t \in Tasks |-> IF t \in S THEN "refused" ELSE outcome[t]]
  /\ UNCHANGED <<rows, request, stale>>

Next ==
  \/ \E t \in Tasks : Ask(t) \/ Apply(t) \/ Miss(t) \/ ActStale(t)
  \/ \E S \in SUBSET Tasks : Refuse(S)

Spec == Init /\ [][Next]_vars
==============================================================================
