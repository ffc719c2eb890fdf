--------------------------- MODULE AccountPoolProofs ---------------------------
(* Proofs about AccountPool for every pool size, every set of requests and *)
(* models and every value of the health parameters.                        *)
EXTENDS AccountPool, FiniteSetTheorems, TLAPS

(* A set of accounts is finite and has at most N members.                  *)
LEMMA PoolCardinality ==
    ASSUME NEW S \in SUBSET Account
    PROVE  IsFiniteSet(S) /\ Cardinality(S) \in 0 .. N
<1>1. N \in Nat
    BY PoolAssumption DEF PoolAssumption
<1>2. IsFiniteSet(Account) /\ Cardinality(Account) = N
    BY <1>1, FS_Interval DEF Account
<1>3. IsFiniteSet(S) /\ Cardinality(S) <= N
    BY <1>2, FS_Subset
<1>4. Cardinality(S) \in Nat
    BY <1>3, FS_CardinalityType
<1> QED BY <1>1, <1>3, <1>4

(* Ending a request keeps its local variables typed (Finish).              *)
LEMMA FinishTyped ==
    ASSUME LocalsOK, NEW r \in Request, NEW o \in Outcome, NEW w \in Nat, Finish(r, o, w)
    PROVE  LocalsOK'
<1>1. 0 \in 0 .. N
    BY PoolAssumption DEF PoolAssumption
<1> QED BY <1>1 DEF LocalsOK, Finish, Stage, NoAccount

(* Leaving an account keeps the request's local variables typed (TryNext). *)
LEMMA TryNextTyped ==
    ASSUME LocalsOK, NEW r \in Request, pc[r] # "idle", cur[r] \in Account, TryNext(r)
    PROVE  /\ pc' \in [Request -> Stage]
           /\ total' \in [Request -> 0 .. N]
           /\ tried' \in [Request -> SUBSET Account]
           /\ cur' \in [Request -> Account \cup {NoAccount}]
           /\ yielded' \in [Request -> BOOLEAN]
           /\ err' \in [Request -> {"none", "clean", "rate_limit", "missing", "generic"}]
           /\ told' \in [Request -> Nat]
           /\ out' \in [Request -> Outcome]
    BY DEF LocalsOK, TryNext, Stage, NoAccount

(* note_failure keeps the row typed: the counter stays below the threshold.*)
LEMMA NoteFailureTyped ==
    ASSUME RowsOK, NEW a \in Account, NoteFailure(a)
    PROVE  fails' \in [Account -> 0 .. Threshold - 1] /\ degraded' \in [Account -> 0 .. Window]
<1>1. Threshold \in Nat \ {0} /\ Window \in Nat \ {0}
    BY PoolAssumption DEF PoolAssumption
<1>2. fails \in [Account -> 0 .. Threshold - 1] /\ degraded \in [Account -> 0 .. Window]
    BY DEF RowsOK
<1>3. CASE a \notin present
    BY <1>2, <1>3 DEF NoteFailure
<1>4. CASE a \in present /\ fails[a] + 1 >= Threshold
    BY <1>1, <1>2, <1>4 DEF NoteFailure
<1>5. CASE a \in present /\ ~(fails[a] + 1 >= Threshold)
    BY <1>1, <1>2, <1>5 DEF NoteFailure
<1> QED BY <1>3, <1>4, <1>5

(* note_success keeps the row typed.                                       *)
LEMMA NoteSuccessTyped ==
    ASSUME RowsOK, NEW a \in Account, NoteSuccess(a)
    PROVE  fails' \in [Account -> 0 .. Threshold - 1] /\ degraded' \in [Account -> 0 .. Window]
<1>1. 0 \in 0 .. Threshold - 1 /\ 0 \in 0 .. Window
    BY PoolAssumption DEF PoolAssumption
<1> QED BY <1>1 DEF RowsOK, NoteSuccess

(* note_rate_limit turns an entry into an entry.                           *)
LEMMA RateLimitedTyped ==
    ASSUME NEW e \in Entry, NEW hint \in ResetHints
    PROVE  RateLimited(e, hint) \in Entry
<1> DEFINE h == Lesser(e.hits + 1, HitsCap)
<1>1. h \in 1 .. HitsCap
    BY PoolAssumption DEF PoolAssumption, Entry, Lesser
<1>2. Backoff(h) \in Nat
    BY <1>1, BackoffAssumption DEF BackoffAssumption
<1>3. Lesser(hint, MaxUntil) \in Nat
    BY PoolAssumption DEF PoolAssumption, Lesser
<1>4. h \in 0 .. HitsCap
    BY <1>1, PoolAssumption DEF PoolAssumption
<1> HIDE DEF h
<1>5. [reason |-> "6004", hits |-> h,
       left |-> IF hint > 0 THEN Lesser(hint, MaxUntil) ELSE Backoff(h)] \in Entry
    BY <1>2, <1>3, <1>4 DEF Entry
<1> QED BY <1>5 DEF RateLimited, h

-----------------------------------------------------------------------------
(* One lemma for each way a step moves a request's local variables.        *)

LocalInv == LocalsOK /\ LoopInv

(* Ending a request keeps the loop invariant (Finish).                     *)
LEMMA FinishKeeps ==
    ASSUME LocalInv, NEW r \in Request, NEW o \in Outcome, NEW w \in Nat, Finish(r, o, w)
    PROVE  LocalInv'
<1>1. LocalsOK'
    BY FinishTyped DEF LocalInv
<1>2. Cardinality({}) = 0
    BY FS_EmptySet
<1>3. LoopInv'
    BY <1>2 DEF LocalInv, LocalsOK, LoopInv, Finish, Attempting, NoAccount
<1> QED BY <1>1, <1>3 DEF LocalInv

(* What is known of a request whose attempt is running.                    *)
LEMMA AttemptFacts ==
    ASSUME LocalInv, NEW r \in Request, Attempting(r)
    PROVE  /\ cur[r] \in Account /\ cur[r] # NoAccount
           /\ cur[r] \notin tried[r]
           /\ IsFiniteSet(tried[r])
           /\ Cardinality(tried[r]) \in Nat
           /\ total[r] \in Nat
           /\ Cardinality(tried[r] \cup {cur[r]}) = Cardinality(tried[r]) + 1
           /\ tried[r] # {} => Cardinality(tried[r]) < total[r]
           /\ tried[r] = {} => Cardinality(tried[r] \cup {cur[r]}) = 1
           /\ tried[r] \cup {cur[r]} \in SUBSET Account
<1>1. /\ cur[r] \in Account /\ cur[r] \notin tried[r]
      /\ tried[r] \in SUBSET Account /\ total[r] \in 0 .. N
      /\ tried[r] # {} => Cardinality(tried[r]) < total[r]
    BY DEF LocalInv, LocalsOK, LoopInv, Attempting
<1>2. IsFiniteSet(tried[r]) /\ Cardinality(tried[r]) \in Nat
    BY <1>1, PoolCardinality, FS_CardinalityType
<1>3. Cardinality(tried[r] \cup {cur[r]}) = Cardinality(tried[r]) + 1
    BY <1>1, <1>2, FS_AddElement
<1>4. tried[r] = {} => Cardinality(tried[r]) = 0
    BY FS_EmptySet
<1>5. N \in Nat
    BY PoolAssumption DEF PoolAssumption
<1>6. cur[r] # NoAccount
    BY <1>1, <1>5 DEF Account, NoAccount
<1> QED BY <1>1, <1>2, <1>3, <1>4, <1>5, <1>6

(* Leaving an account while others are left keeps the loop invariant,      *)
(* whether the account was refused, cooled down or charged.                *)
LEMMA TryNextKeeps ==
    ASSUME LocalInv, NEW r \in Request, Attempting(r), ~yielded[r], ~LastOne(r), TryNext(r),
           \/ rejected' = rejected
           \/ rejected' = [rejected EXCEPT ![r] = @ \cup {cur[r]}],
           \/ UNCHANGED <<switched, charged>>
           \/ /\ ~switched[r]
              /\ switched' = [switched EXCEPT ![r] = TRUE]
              /\ charged' = [charged EXCEPT ![r] = @ \cup {cur[r]}]
    PROVE  LocalInv'
<1>1. /\ cur[r] \in Account /\ cur[r] \notin tried[r]
      /\ Cardinality(tried[r] \cup {cur[r]}) < total[r]
      /\ tried[r] \cup {cur[r]} \in SUBSET Account
  <2>1. Cardinality(tried[r] \cup {cur[r]}) \in Nat /\ total[r] \in Nat
      BY AttemptFacts
  <2> QED BY <2>1, AttemptFacts DEF LastOne
<1>2. pc[r] # "idle"
    BY DEF Attempting
<1>3. rejected' \in [Request -> SUBSET Account]
    BY <1>1 DEF LocalInv, LocalsOK
<1>4. switched' \in [Request -> BOOLEAN] /\ charged' \in [Request -> SUBSET Account]
  <2>1. switched \in [Request -> BOOLEAN] /\ charged \in [Request -> SUBSET Account]
      BY DEF LocalInv, LocalsOK
  <2>2. CASE UNCHANGED <<switched, charged>>
      BY <2>1, <2>2
  <2>3. CASE /\ switched' = [switched EXCEPT ![r] = TRUE]
             /\ charged' = [charged EXCEPT ![r] = @ \cup {cur[r]}]
    <3>1. switched' \in [Request -> BOOLEAN]
        BY <2>1, <2>3
    <3>2. charged' \in [Request -> SUBSET Account]
        BY <1>1, <2>1, <2>3
    <3> QED BY <3>1, <3>2
  <2> QED BY <2>2, <2>3
<1>5. LocalsOK'
    BY <1>1, <1>2, <1>3, <1>4, TryNextTyped DEF LocalInv, LocalsOK
<1>6. Cardinality({}) = 0 /\ Cardinality({cur[r]}) = 1
    BY FS_EmptySet, FS_Singleton
<1>7. ASSUME NEW q \in Request, q # r
      PROVE  /\ pc'[q] = pc[q] /\ total'[q] = total[q] /\ tried'[q] = tried[q]
             /\ rejected'[q] = rejected[q] /\ switched'[q] = switched[q]
             /\ cur'[q] = cur[q] /\ yielded'[q] = yielded[q] /\ charged'[q] = charged[q]
    BY <1>7 DEF LocalInv, LocalsOK, TryNext
<1>8. /\ pc'[r] = "pick" /\ cur'[r] = NoAccount /\ ~yielded'[r]
      /\ tried'[r] = tried[r] \cup {cur[r]} /\ total'[r] = total[r]
    BY DEF LocalInv, LocalsOK, TryNext
<1>9. NoAccount \notin tried'[r]
  <2>1. N \in Nat
      BY PoolAssumption DEF PoolAssumption
  <2> QED BY <1>1, <1>8, <2>1 DEF Account, NoAccount
<1>10. rejected'[r] \subseteq tried'[r]
    BY <1>8 DEF LocalInv, LocalsOK, LoopInv
<1>11. /\ charged'[r] \subseteq tried'[r]
       /\ ~switched'[r] => charged'[r] = {}
       /\ Cardinality(charged'[r]) <= 1
  <2>1. CASE UNCHANGED <<switched, charged>>
    <3>1. /\ charged[r] \subseteq tried[r]
          /\ ~switched[r] => charged[r] = {}
          /\ Cardinality(charged[r]) <= 1
        BY DEF LocalInv, LoopInv
    <3>2. charged' = charged /\ switched' = switched
        BY <2>1
    <3> QED BY <1>8, <3>1, <3>2
  <2>2. CASE /\ ~switched[r]
             /\ switched' = [switched EXCEPT ![r] = TRUE]
             /\ charged' = [charged EXCEPT ![r] = @ \cup {cur[r]}]
    <3>1. charged[r] = {}
        BY <2>2 DEF LocalInv, LoopInv
    <3>2. charged'[r] = {cur[r]} /\ switched'[r]
        BY <2>2, <3>1 DEF LocalInv, LocalsOK
    <3> QED BY <1>6, <1>8, <3>2
  <2> QED BY <2>1, <2>2
<1>12. LoopInv'
  <2> SUFFICES ASSUME NEW q \in Request
               PROVE  /\ pc'[q] = "idle" => tried'[q] = {} /\ ~switched'[q]
                      /\ IF Attempting(q)' THEN cur'[q] \in Account ELSE cur'[q] = NoAccount
                      /\ yielded'[q] => pc'[q] \in {"stream", "feed", "success"}
                      /\ cur'[q] \notin tried'[q]
                      /\ rejected'[q] \subseteq tried'[q]
                      /\ tried'[q] # {} =>
                           IF pc'[q] = "exhausted"
                           THEN Cardinality(tried'[q]) <= total'[q]
                                \/ Cardinality(tried'[q]) <= 1
                           ELSE Cardinality(tried'[q]) < total'[q]
                      /\ charged'[q] \subseteq tried'[q]
                      /\ ~switched'[q] => charged'[q] = {}
                      /\ Cardinality(charged'[q]) <= 1
      BY DEF LoopInv
  <2>1. CASE q # r
      BY <1>7, <2>1 DEF LocalInv, LoopInv, Attempting
  <2>2. CASE q = r
      BY <1>1, <1>8, <1>9, <1>10, <1>11, <2>2 DEF Attempting
  <2> QED BY <2>1, <2>2
<1> QED BY <1>5, <1>12 DEF LocalInv

(* Moving one request from stage to stage, with its sets, its budget and   *)
(* the number of accounts it counted left alone.                           *)
LEMMA MoveKeeps ==
    ASSUME LocalInv, NEW r \in Request, NEW s \in Stage, Attempting(r), pc[r] # "token",
           s \in {"stream", "feed", "success"},
           pc' = [pc EXCEPT ![r] = s],
           yielded' \in [Request -> BOOLEAN],
           \A q \in Request \ {r} : yielded'[q] = yielded[q],
           err' \in [Request -> {"none", "clean", "rate_limit", "missing", "generic"}],
           UNCHANGED <<total, tried, rejected, switched, cur, told, charged, out>>
    PROVE  LocalInv'
<1>1. LocalsOK'
    BY DEF LocalInv, LocalsOK
<1>2. LoopInv'
  <2> SUFFICES ASSUME NEW q \in Request
               PROVE  /\ pc'[q] = "idle" => tried[q] = {} /\ ~switched[q]
                      /\ IF Attempting(q)' THEN cur[q] \in Account ELSE cur[q] = NoAccount
                      /\ yielded'[q] => pc'[q] \in {"stream", "feed", "success"}
                      /\ tried[q] # {} =>
                           IF pc'[q] = "exhausted"
                           THEN Cardinality(tried[q]) <= total[q] \/ Cardinality(tried[q]) <= 1
                           ELSE Cardinality(tried[q]) < total[q]
      BY DEF LocalInv, LoopInv
  <2>1. CASE q # r
      BY <2>1 DEF LocalInv, LocalsOK, LoopInv, Attempting
  <2>2. CASE q = r
      BY <2>2 DEF LocalInv, LocalsOK, LoopInv, Attempting
  <2> QED BY <2>1, <2>2
<1> QED BY <1>1, <1>2 DEF LocalInv

-----------------------------------------------------------------------------
(* The steps of a request *)

(* Start counts the selectable accounts and opens the loop.                *)
LEMMA StartKeeps ==
    ASSUME LocalInv, RowsOK, NEW r \in Request, Start(r)
    PROVE  LocalInv'
<1>1. Cardinality(Selectable) \in 0 .. N
    BY PoolCardinality DEF Selectable, RowsOK
<1>2. LocalsOK'
    BY <1>1 DEF LocalInv, LocalsOK, Start, Stage, Outcome
<1>3. LoopInv'
    BY DEF LocalInv, LocalsOK, LoopInv, Start, Attempting
<1> QED BY <1>2, <1>3 DEF LocalInv

(* Pick chooses an account that the request has not tried.                 *)
LEMMA PickKeeps ==
    ASSUME LocalInv, RowsOK, NEW r \in Request, Pick(r)
    PROVE  LocalInv'
<1>1. PICK a \in AtCursor(TopTier(HealthyOf(Candidates(r), ModelOf[r]))) :
          cur' = [cur EXCEPT ![r] = a]
    BY DEF Pick
<1>2. a \in present /\ a \notin tried[r] /\ a \in Account
    BY <1>1 DEF AtCursor, TopTier, HealthyOf, Candidates, Selectable, RowsOK
<1>3. LocalsOK'
    BY <1>1, <1>2 DEF LocalInv, LocalsOK, Pick, Stage
<1>4. LoopInv'
    BY <1>1, <1>2 DEF LocalInv, LocalsOK, LoopInv, Pick, Attempting
<1> QED BY <1>3, <1>4 DEF LocalInv

(* The waiting times a request reports are natural numbers.                *)
LEMMA EarliestTyped ==
    ASSUME RowsOK, NEW S \in SUBSET Account, NEW m \in Model, NEW d \in Nat
    PROVE  /\ Earliest(UnlockTimes(S, m), d) \subseteq Nat
           /\ Earliest(RecoveryTimes(S, m), d) \subseteq Nat
<1>1. UnlockTimes(S, m) \subseteq Nat
    BY DEF RowsOK, Entry, UnlockTimes
<1>2. {degraded[a] : a \in S} \subseteq Nat
    BY PoolAssumption DEF PoolAssumption, RowsOK
<1>3. RecoveryTimes(S, m) \subseteq Nat
    BY <1>1, <1>2 DEF RecoveryTimes
<1> QED BY <1>1, <1>3 DEF Earliest

(* PickFails only ends the request.                                        *)
LEMMA PickFailsKeeps ==
    ASSUME LocalInv, RowsOK, NEW r \in Request, PickFails(r)
    PROVE  LocalInv'
<1>1. ModelOf[r] \in Model
    BY PoolAssumption DEF PoolAssumption
<1>2. Candidates(r) \in SUBSET Account
    BY DEF Candidates, Selectable, RowsOK
<1>3. \E o \in Outcome, w \in Nat : Finish(r, o, w)
  <2>1. CASE Candidates(r) = {} \/ rejected[r] # {}
      BY <2>1 DEF PickFails, Outcome
  <2>2. CASE ~(Candidates(r) = {} \/ rejected[r] # {})
    <3>1. /\ Earliest(UnlockTimes(Candidates(r), ModelOf[r]), 0) \subseteq Nat
          /\ Earliest(RecoveryTimes(Candidates(r), ModelOf[r]), 0) \subseteq Nat
        BY <1>1, <1>2, EarliestTyped
    <3> QED BY <2>2, <3>1 DEF PickFails, Outcome
  <2> QED BY <2>1, <2>2
<1> QED BY <1>3, FinishKeeps

(* A refusal leaves the account or ends the request.                       *)
LEMMA RejectedKeeps ==
    ASSUME LocalInv, NEW r \in Request, Attempting(r), ~yielded[r], Rejected(r)
    PROVE  LocalInv'
<1>1. CASE LastOne(r)
    BY <1>1, FinishKeeps DEF Rejected, Outcome
<1>2. CASE ~LastOne(r)
    BY <1>2, TryNextKeeps DEF Rejected
<1> QED BY <1>1, <1>2

(* After a model-level error the request ends, is exhausted or goes on.    *)
LEMMA AfterCooldownKeeps ==
    ASSUME LocalInv, NEW r \in Request, Attempting(r), NEW w \in Nat, NEW o \in Outcome,
           AfterCooldown(r, w, o)
    PROVE  LocalInv'
<1>1. CASE yielded[r]
    BY <1>1, FinishKeeps DEF AfterCooldown
<1>2. CASE ~yielded[r] /\ ~LastOne(r)
    BY <1>2, TryNextKeeps DEF AfterCooldown
<1>3. CASE ~yielded[r] /\ LastOne(r)
  <2>1. /\ pc' = [pc EXCEPT ![r] = "exhausted"]
        /\ tried' = [tried EXCEPT ![r] = @ \cup {cur[r]}]
        /\ cur' = [cur EXCEPT ![r] = NoAccount]
        /\ told' = [told EXCEPT ![r] = w]
        /\ err' = [err EXCEPT ![r] = "none"]
        /\ UNCHANGED <<total, yielded, out, rejected, switched, charged>>
      BY <1>3 DEF AfterCooldown
  <2>2. /\ tried[r] \cup {cur[r]} \in SUBSET Account
        /\ \/ Cardinality(tried[r] \cup {cur[r]}) <= total[r]
           \/ Cardinality(tried[r] \cup {cur[r]}) <= 1
      BY AttemptFacts
  <2>3. LocalsOK'
      BY <2>1, <2>2 DEF LocalInv, LocalsOK, Stage
  <2>4. NoAccount \notin tried[r] \cup {cur[r]}
    <3>1. N \in Nat
        BY PoolAssumption DEF PoolAssumption
    <3> QED BY <2>2, <3>1 DEF Account, NoAccount
  <2>5. LoopInv'
    <3> SUFFICES ASSUME NEW q \in Request
                 PROVE  /\ pc'[q] = "idle" => tried'[q] = {} /\ ~switched[q]
                        /\ IF Attempting(q)' THEN cur'[q] \in Account
                                             ELSE cur'[q] = NoAccount
                        /\ yielded[q] => pc'[q] \in {"stream", "feed", "success"}
                        /\ cur'[q] \notin tried'[q]
                        /\ rejected[q] \subseteq tried'[q]
                        /\ tried'[q] # {} =>
                             IF pc'[q] = "exhausted"
                             THEN Cardinality(tried'[q]) <= total[q]
                                  \/ Cardinality(tried'[q]) <= 1
                             ELSE Cardinality(tried'[q]) < total[q]
                        /\ charged[q] \subseteq tried'[q]
                        /\ ~switched[q] => charged[q] = {}
                        /\ Cardinality(charged[q]) <= 1
        BY <2>1 DEF LoopInv
    <3>1. CASE q # r
        BY <2>1, <3>1 DEF LocalInv, LocalsOK, LoopInv, Attempting
    <3>2. CASE q = r
      <4>1. /\ pc'[r] = "exhausted" /\ tried'[r] = tried[r] \cup {cur[r]}
            /\ cur'[r] = NoAccount
          BY <2>1 DEF LocalInv, LocalsOK
      <4> QED BY <1>3, <2>2, <2>4, <3>2, <4>1 DEF LocalInv, LoopInv, Attempting
    <3> QED BY <3>1, <3>2
  <2> QED BY <2>3, <2>5 DEF LocalInv
<1> QED BY <1>1, <1>2, <1>3

-----------------------------------------------------------------------------
(* Every step of the specification keeps the invariant *)

Inv == RowsOK /\ cursor \in 0 .. CursorMod - 1 /\ LocalInv

(* Replacing one entry of one row keeps the cooldowns typed.               *)
LEMMA EntryReplaced ==
    ASSUME RowsOK, NEW a \in Account, NEW m \in Model, NEW e \in Entry
    PROVE  [cool EXCEPT ![a][m] = e] \in [Account -> [Model -> Entry]]
<1>1. cool \in [Account -> [Model -> Entry]]
    BY DEF RowsOK
<1>2. cool[a] \in [Model -> Entry]
    BY <1>1
<1>3. [cool[a] EXCEPT ![m] = e] \in [Model -> Entry]
    BY <1>2
<1> QED BY <1>1, <1>3

(* The rows stay typed under everything the store does to them.            *)
LEMMA FeedKeepsRows ==
    ASSUME RowsOK, LocalInv, NEW r \in Request,
           \/ FeedRateLimit(r) \/ FeedMissing(r) \/ FeedFailure(r) \/ FeedClear(r)
           \/ FeedSuccess(r)
    PROVE  RowsOK'
<1>1. Attempting(r)
    BY DEF Attempting, FeedRateLimit, FeedMissing, FeedFailure, FeedClear, FeedSuccess
<1>2. cur[r] \in Account /\ ModelOf[r] \in Model
    BY <1>1, AttemptFacts, PoolAssumption DEF PoolAssumption
<1>3. cool[cur[r]][ModelOf[r]] \in Entry
    BY <1>2 DEF RowsOK
<1>4. MissingEntry \in Entry /\ NoEntry \in Entry
    BY PoolAssumption DEF PoolAssumption, Entry, MissingEntry, NoEntry
<1>5. CASE FeedRateLimit(r)
  <2>1. PICK hint \in ResetHints : NoteRateLimit(cur[r], ModelOf[r], hint)
      BY <1>5 DEF FeedRateLimit
  <2>2. RateLimited(cool[cur[r]][ModelOf[r]], hint) \in Entry
      BY <1>3, RateLimitedTyped
  <2>3. CASE cur[r] \in present
    <3>1. cool' = [cool EXCEPT ![cur[r]][ModelOf[r]] =
                       RateLimited(cool[cur[r]][ModelOf[r]], hint)]
        BY <2>1, <2>3 DEF NoteRateLimit
    <3>2. cool' \in [Account -> [Model -> Entry]]
        BY <1>2, <2>2, <3>1, EntryReplaced
    <3> QED BY <1>5, <3>2 DEF FeedRateLimit, RowsOK
  <2>4. CASE cur[r] \notin present
      BY <1>5, <2>1, <2>4 DEF FeedRateLimit, NoteRateLimit, RowsOK
  <2> QED BY <2>3, <2>4
<1>6. CASE FeedMissing(r)
  <2>2. CASE cur[r] \in present
    <3>1. cool' = [cool EXCEPT ![cur[r]][ModelOf[r]] = MissingEntry]
        BY <1>6, <2>2 DEF FeedMissing, NoteModelMissing
    <3>2. cool' \in [Account -> [Model -> Entry]]
        BY <1>2, <1>4, <3>1, EntryReplaced
    <3> QED BY <1>6, <3>2 DEF FeedMissing, RowsOK
  <2>3. CASE cur[r] \notin present
      BY <1>6, <2>3 DEF FeedMissing, NoteModelMissing, RowsOK
  <2> QED BY <2>2, <2>3
<1>7. CASE FeedFailure(r)
    BY <1>2, <1>7, NoteFailureTyped DEF FeedFailure, RowsOK
<1>8. CASE FeedClear(r)
  <2> DEFINE e == IF cool[cur[r]][ModelOf[r]].reason = "11102"
                  THEN NoEntry ELSE cool[cur[r]][ModelOf[r]]
  <2>2. e \in Entry
      BY <1>3, <1>4
  <2>3. cur[r] \in present => cool' = [cool EXCEPT ![cur[r]][ModelOf[r]] = e]
      BY <1>8 DEF FeedClear, ClearModelMissing
  <2>4. cur[r] \notin present => cool' = cool
      BY <1>8 DEF FeedClear, ClearModelMissing
  <2> HIDE DEF e
  <2>5. [cool EXCEPT ![cur[r]][ModelOf[r]] = e] \in [Account -> [Model -> Entry]]
      BY <1>2, <2>2, EntryReplaced
  <2>6. cool \in [Account -> [Model -> Entry]]
      BY DEF RowsOK
  <2>1. cool' \in [Account -> [Model -> Entry]]
      BY <2>3, <2>4, <2>5, <2>6
  <2> QED BY <1>8, <2>1 DEF FeedClear, RowsOK
<1>9. CASE FeedSuccess(r)
    BY <1>2, <1>9, NoteSuccessTyped DEF FeedSuccess, RowsOK
<1> QED BY <1>5, <1>6, <1>7, <1>8, <1>9

(* A step of a request keeps the invariant.                                *)
LEMMA RequestKeepsInv ==
    ASSUME Inv, NEW r \in Request, RequestStep(r)
    PROVE  Inv'
<1> USE DEF Inv
<1>1. CASE Start(r)
    BY <1>1, StartKeeps DEF Start, rowVars, RowsOK
<1>2. CASE Pick(r)
  <2>1. cursor' \in 0 .. CursorMod - 1
      BY <1>2, PoolAssumption DEF PoolAssumption, Pick
  <2> QED BY <1>2, <2>1, PickKeeps DEF Pick, rowVars, RowsOK
<1>3. CASE PickFails(r)
    BY <1>3, PickFailsKeeps DEF PickFails, rowVars, RowsOK
<1>4. CASE TokenReady(r)
  <2>1. LocalsOK'
      BY <1>4 DEF TokenReady, LocalInv, LocalsOK, Stage
  <2>2. LoopInv'
      BY <1>4 DEF TokenReady, LocalInv, LocalsOK, LoopInv, Attempting
  <2> QED BY <1>4, <2>1, <2>2 DEF TokenReady, rowVars, RowsOK, LocalInv
<1>5. CASE TokenFails(r)
    BY <1>5, FinishKeeps DEF TokenFails, rowVars, RowsOK, Outcome
<1>6. CASE Frame(r)
  <2>1. LocalsOK'
      BY <1>6 DEF Frame, LocalInv, LocalsOK
  <2>2. LoopInv'
      BY <1>6 DEF Frame, LocalInv, LocalsOK, LoopInv, Attempting
  <2> QED BY <1>6, <2>1, <2>2 DEF Frame, rowVars, RowsOK, LocalInv
<1>7. CASE CredentialRejected(r)
    BY <1>7, RejectedKeeps DEF CredentialRejected, rowVars, RowsOK, Attempting
<1>8. CASE SessionRejected(r)
  <2>1. CASE yielded[r]
      BY <1>8, <2>1, FinishKeeps DEF SessionRejected, rowVars, RowsOK, Outcome
  <2>2. CASE ~yielded[r]
      BY <1>8, <2>2, RejectedKeeps DEF SessionRejected, rowVars, RowsOK, Attempting
  <2> QED BY <2>1, <2>2
<1>9. CASE PassThrough(r)
    BY <1>9, FinishKeeps DEF PassThrough, rowVars, RowsOK, Outcome
<1>10. CASE StreamEnds(r)
  <2>1. PICK k \in {"clean", "rate_limit", "missing", "generic"} :
            err' = [err EXCEPT ![r] = k]
      BY <1>10 DEF StreamEnds
  <2>2. err' \in [Request -> {"none", "clean", "rate_limit", "missing", "generic"}]
      BY <2>1 DEF LocalInv, LocalsOK
  <2>3. /\ yielded' \in [Request -> BOOLEAN] /\ yielded' = yielded
        /\ Attempting(r) /\ pc[r] # "token" /\ pc' = [pc EXCEPT ![r] = "feed"]
      BY <1>10 DEF StreamEnds, Attempting, LocalInv, LocalsOK
  <2>4. LocalInv'
      BY <1>10, <2>2, <2>3, MoveKeeps DEF StreamEnds, Stage
  <2> QED BY <1>10, <2>4 DEF StreamEnds, rowVars, RowsOK
<1>11. CASE FeedRateLimit(r)
  <2>1. RowsOK'
      BY <1>11, FeedKeepsRows
  <2>2. Attempting(r) /\ ModelOf[r] \in Model
      BY <1>11, PoolAssumption DEF PoolAssumption, FeedRateLimit, Attempting
  <2>3. (IF cur[r] \in present THEN cool'[cur[r]][ModelOf[r]].left ELSE 0) \in Nat
      BY <2>1, <2>2, AttemptFacts DEF RowsOK, Entry
  <2>4. LocalInv'
      BY <1>11, <2>2, <2>3, AfterCooldownKeeps DEF FeedRateLimit, Outcome
  <2> QED BY <1>11, <2>1, <2>4 DEF FeedRateLimit
<1>12. CASE FeedMissing(r)
  <2>1. Attempting(r)
      BY <1>12 DEF FeedMissing, Attempting
  <2>2. (IF cur[r] \in present THEN MissingTTL ELSE 0) \in Nat
      BY PoolAssumption DEF PoolAssumption
  <2>3. LocalInv'
      BY <1>12, <2>1, <2>2, AfterCooldownKeeps DEF FeedMissing, Outcome
  <2> QED BY <1>12, <2>3, FeedKeepsRows DEF FeedMissing
<1>13. CASE ReportExhausted(r)
  <2>1. ModelOf[r] \in Model /\ told[r] \in Nat /\ Selectable \in SUBSET Account
      BY PoolAssumption DEF PoolAssumption, LocalInv, LocalsOK, Selectable, RowsOK
  <2>2. Earliest(UnlockTimes(Selectable, ModelOf[r]), told[r]) \subseteq Nat
      BY <2>1, EarliestTyped
  <2> QED BY <1>13, <2>2, FinishKeeps DEF ReportExhausted, rowVars, RowsOK, Outcome
<1>14. CASE FeedFailure(r)
  <2>1. Attempting(r)
      BY <1>14 DEF FeedFailure, Attempting
  <2>2. LocalInv'
    <3>1. CASE GivesUp(r)
        BY <1>14, <3>1, FinishKeeps DEF FeedFailure, Outcome
    <3>2. CASE ~GivesUp(r)
        BY <1>14, <2>1, <3>2, TryNextKeeps DEF FeedFailure, GivesUp
    <3> QED BY <3>1, <3>2
  <2> QED BY <1>14, <2>2, FeedKeepsRows DEF FeedFailure
<1>15. CASE FeedClear(r)
  <2>1. LocalInv'
      BY <1>15, MoveKeeps
         DEF FeedClear, localVars, Attempting, Stage, LocalInv, LocalsOK
  <2> QED BY <1>15, <2>1, FeedKeepsRows DEF FeedClear
<1>16. CASE FeedSuccess(r)
    BY <1>16, FinishKeeps, FeedKeepsRows DEF FeedSuccess, Outcome
<1>17. CASE Abandon(r)
    BY <1>17, FinishKeeps DEF Abandon, rowVars, RowsOK, Outcome
<1> QED BY <1>1, <1>2, <1>3, <1>4, <1>5, <1>6, <1>7, <1>8, <1>9, <1>10, <1>11, <1>12,
           <1>13, <1>14, <1>15, <1>16, <1>17 DEF RequestStep, Serve

(* The user's operations and the passing of time keep the invariant.       *)
LEMMA EnvironmentKeepsInv ==
    ASSUME Inv, UserStep \/ Tick
    PROVE  Inv'
<1> USE DEF Inv
<1>1. ASSUME UNCHANGED requestVars
      PROVE  LocalInv'
    BY <1>1 DEF requestVars, localVars, LocalInv, LocalsOK, LoopInv, Attempting
<1>2. /\ 0 \in 0 .. Threshold - 1 /\ 0 \in 0 .. Window /\ 1 \in 1 .. MaxPriority
      /\ (cursor + 1) % CursorMod \in 0 .. CursorMod - 1
      /\ [m \in Model |-> NoEntry] \in [Model -> Entry]
    BY PoolAssumption DEF PoolAssumption, Entry, NoEntry
<1>3. CASE \E a \in Account : SetEnabled(a)
    BY <1>1, <1>3 DEF SetEnabled, RowsOK
<1>4. CASE \E a \in Account : SetPriority(a)
    BY <1>1, <1>4 DEF SetPriority, RowsOK
<1>5. CASE \E a \in Account : DeleteAccount(a)
    BY <1>1, <1>2, <1>5 DEF DeleteAccount, RowsOK
<1>6. CASE \E a \in Account : UpsertAccount(a)
    BY <1>1, <1>6 DEF UpsertAccount, RowsOK
<1>7. CASE OtherRealmPick
    BY <1>1, <1>2, <1>7 DEF OtherRealmPick, rowVars, RowsOK
<1>8. CASE Tick
  <2>1. degraded' \in [Account -> 0 .. Window]
      BY <1>8, PoolAssumption DEF PoolAssumption, Tick, Sooner, RowsOK
  <2>2. ASSUME NEW a \in Account, NEW m \in Model
        PROVE  [cool[a][m] EXCEPT !.left = Sooner(@)] \in Entry
    <3>1. cool[a][m] \in Entry
        BY DEF RowsOK
    <3>2. Sooner(cool[a][m].left) \in Nat
        BY <3>1 DEF Entry, Sooner
    <3> QED BY <3>1, <3>2 DEF Entry
  <2>3. cool' \in [Account -> [Model -> Entry]]
      BY <1>8, <2>2 DEF Tick
  <2> QED BY <1>1, <1>8, <2>1, <2>3 DEF Tick, RowsOK
<1> QED BY <1>3, <1>4, <1>5, <1>6, <1>7, <1>8 DEF UserStep

(* The invariant holds at the start.                                       *)
LEMMA InitInv == Init => Inv
<1> SUFFICES ASSUME Init PROVE Inv
    OBVIOUS
<1>1. /\ 0 \in 0 .. Threshold - 1 /\ 0 \in 0 .. Window /\ 1 \in 1 .. MaxPriority
      /\ 0 \in 0 .. CursorMod - 1 /\ 0 \in 0 .. N
      /\ [m \in Model |-> NoEntry] \in [Model -> Entry]
    BY PoolAssumption DEF PoolAssumption, Entry, NoEntry
<1>2. RowsOK
    BY <1>1 DEF Init, RowsOK
<1>3. LocalsOK
    BY <1>1 DEF Init, AtRest, LocalsOK, Stage, Outcome
<1>4. Cardinality({}) = 0
    BY FS_EmptySet
<1>5. LoopInv
    BY <1>4 DEF Init, AtRest, LoopInv, Attempting
<1> QED BY <1>1, <1>2, <1>3, <1>5 DEF Inv, LocalInv, Init

(* The inductive invariant of the account pool: the rows are typed and     *)
(* the local variables of every running request hang together.             *)
THEOREM Invariance == Spec => []Inv
<1>1. Inv /\ [Next]_vars => Inv'
  <2> SUFFICES ASSUME Inv, [Next]_vars PROVE Inv'
      OBVIOUS
  <2>1. CASE \E r \in Request : RequestStep(r)
      BY <2>1, RequestKeepsInv
  <2>2. CASE UserStep \/ Tick
      BY <2>2, EnvironmentKeepsInv
  <2>3. CASE UNCHANGED vars
      BY <2>3 DEF Inv, LocalInv, LocalsOK, LoopInv, RowsOK, vars, rowVars, localVars, Attempting
  <2> QED BY <2>1, <2>2, <2>3 DEF Next
<1> QED BY <1>1, InitInv, PTL DEF Spec

(* Every stored and local value keeps its type; no row is left with a      *)
(* fail_count at the threshold or suspended for longer than the window.    *)
THEOREM Typing == Spec => []TypeOK
<1>1. Inv => TypeOK
    BY DEF Inv, LocalInv, TypeOK
<1> QED BY <1>1, Invariance, PTL

(* The loop invariant holds for any number of requests over any pool.      *)
THEOREM LoopInvariant == Spec => []LoopInv
<1>1. Inv => LoopInv
    BY DEF Inv, LocalInv
<1> QED BY <1>1, Invariance, PTL

(* A request that goes on after a generic failure has charged one account. *)
THEOREM BudgetKept == Spec => []ChargeBudget
<1>1. Inv => ChargeBudget
    BY DEF Inv, LocalInv, LoopInv, ChargeBudget
<1> QED BY <1>1, Invariance, PTL

(* No request gives an account a second attempt.                           *)
THEOREM NoSecondAttempt == Spec => []FreshAttempt
<1>1. Inv => FreshAttempt
    BY DEF Inv, LocalInv, LoopInv, FreshAttempt
<1> QED BY <1>1, Invariance, PTL

(* A request makes at most as many attempts as there were selectable       *)
(* accounts when it started, whatever is done to the pool meanwhile.       *)
THEOREM BoundedAttempts == Spec => []AttemptBound
<1>1. Inv => AttemptBound
  <2> SUFFICES ASSUME Inv, NEW r \in Request
               PROVE  \/ Cardinality(Attempted(r)) <= total[r]
                      \/ Cardinality(Attempted(r)) <= 1
      BY DEF AttemptBound
  <2> USE DEF Inv
  <2>1. tried[r] \in SUBSET Account /\ total[r] \in Nat
      BY PoolAssumption DEF PoolAssumption, LocalInv, LocalsOK
  <2>2. Cardinality(tried[r]) \in Nat
      BY <2>1, PoolCardinality
  <2>3. CASE Attempting(r)
    <3>1. Attempted(r) = tried[r] \cup {cur[r]}
        BY <2>3, AttemptFacts DEF Attempted
    <3> QED BY <2>2, <2>3, <3>1, AttemptFacts
  <2>4. CASE ~Attempting(r)
    <3>1. Attempted(r) = tried[r]
        BY <2>4 DEF Attempted, LocalInv, LoopInv
    <3>2. tried[r] = {} => Cardinality(tried[r]) = 0
        BY FS_EmptySet
    <3> QED BY <2>1, <2>2, <3>1, <3>2 DEF LocalInv, LoopInv
  <2> QED BY <2>3, <2>4
<1> QED BY <1>1, Invariance, PTL

-----------------------------------------------------------------------------
(* Action properties *)

(* What one step of another request or of the environment leaves alone.    *)
LEMMA OthersUntouched ==
    ASSUME Inv, NEW r \in Request, NEW q \in Request, q # r, RequestStep(q)
    PROVE  /\ pc'[r] = pc[r] /\ cur'[r] = cur[r] /\ tried'[r] = tried[r]
           /\ yielded'[r] = yielded[r]
<1> USE DEF Inv, LocalInv, LocalsOK
<1>1. ASSUME NEW o, NEW w, Finish(q, o, w)
      PROVE  /\ pc'[r] = pc[r] /\ cur'[r] = cur[r] /\ tried'[r] = tried[r]
             /\ yielded'[r] = yielded[r]
    BY <1>1 DEF Finish
<1>2. ASSUME TryNext(q)
      PROVE  /\ pc'[r] = pc[r] /\ cur'[r] = cur[r] /\ tried'[r] = tried[r]
             /\ yielded'[r] = yielded[r]
    BY <1>2 DEF TryNext
<1>3. ASSUME NEW o, NEW w, AfterCooldown(q, w, o)
      PROVE  /\ pc'[r] = pc[r] /\ cur'[r] = cur[r] /\ tried'[r] = tried[r]
             /\ yielded'[r] = yielded[r]
    BY <1>1, <1>2, <1>3 DEF AfterCooldown
<1>4. CASE Start(q) \/ Pick(q) \/ TokenReady(q) \/ Frame(q) \/ StreamEnds(q) \/ FeedClear(q)
    BY <1>4 DEF Start, Pick, TokenReady, Frame, StreamEnds, FeedClear, localVars
<1>5. CASE PickFails(q) \/ TokenFails(q) \/ PassThrough(q) \/ ReportExhausted(q)
           \/ FeedSuccess(q) \/ Abandon(q)
    BY <1>1, <1>5 DEF PickFails, TokenFails, PassThrough, ReportExhausted, FeedSuccess, Abandon
<1>6. CASE CredentialRejected(q) \/ SessionRejected(q)
    BY <1>1, <1>2, <1>6 DEF CredentialRejected, SessionRejected, Rejected
<1>7. CASE FeedRateLimit(q) \/ FeedMissing(q)
    BY <1>3, <1>7 DEF FeedRateLimit, FeedMissing
<1>8. CASE FeedFailure(q)
    BY <1>1, <1>2, <1>8 DEF FeedFailure
<1> QED BY <1>4, <1>5, <1>6, <1>7, <1>8 DEF RequestStep, Serve

(* A request that has delivered a frame keeps its account or ends.         *)
LEMMA StreamStep ==
    ASSUME Inv, NEW r \in Request, yielded[r], RequestStep(r)
    PROVE  (cur'[r] = cur[r] /\ yielded'[r]) \/ pc'[r] = "idle"
<1> USE DEF Inv, LocalInv, LocalsOK
<1>1. pc[r] \in {"stream", "feed", "success"}
    BY DEF LoopInv
<1>2. ASSUME NEW o, NEW w, Finish(r, o, w)
      PROVE  pc'[r] = "idle"
    BY <1>2 DEF Finish
<1>3. CASE StreamEnds(r) \/ FeedClear(r)
    BY <1>3 DEF StreamEnds, FeedClear, localVars
<1>4. CASE SessionRejected(r) \/ PassThrough(r) \/ FeedSuccess(r) \/ Abandon(r)
    BY <1>2, <1>4 DEF SessionRejected, PassThrough, FeedSuccess, Abandon
<1>5. CASE FeedRateLimit(r) \/ FeedMissing(r)
    BY <1>2, <1>5 DEF FeedRateLimit, FeedMissing, AfterCooldown
<1>6. CASE FeedFailure(r)
    BY <1>2, <1>6 DEF FeedFailure, GivesUp
<1>7. /\ ~Start(r) /\ ~Pick(r) /\ ~PickFails(r) /\ ~TokenReady(r) /\ ~TokenFails(r)
      /\ ~ReportExhausted(r) /\ ~Frame(r) /\ ~CredentialRejected(r)
    BY <1>1 DEF Start, Pick, PickFails, TokenReady, TokenFails, ReportExhausted, Frame,
                CredentialRejected
<1> QED BY <1>3, <1>4, <1>5, <1>6, <1>7 DEF RequestStep, Serve

(* Nothing is produced, or billed, twice: once a frame has been delivered  *)
(* the request never moves to another account.                             *)
THEOREM NoSwitchAfterFrame == Spec => StreamOnce
<1> DEFINE Stays == \A r \in Request : yielded[r] =>
                        \/ cur'[r] = cur[r] /\ yielded'[r]
                        \/ pc'[r] = "idle"
<1>1. Inv /\ [Next]_vars => [Stays]_vars
  <2> SUFFICES ASSUME Inv, Next, NEW r \in Request, yielded[r]
               PROVE  (cur'[r] = cur[r] /\ yielded'[r]) \/ pc'[r] = "idle"
      OBVIOUS
  <2>1. CASE RequestStep(r)
      BY <2>1, StreamStep
  <2>2. CASE \E q \in Request : q # r /\ RequestStep(q)
      BY <2>2, OthersUntouched
  <2>3. CASE UserStep \/ Tick
      BY <2>3 DEF UserStep, SetEnabled, SetPriority, DeleteAccount, UpsertAccount,
                  OtherRealmPick, Tick, requestVars, localVars
  <2> QED BY <2>1, <2>2, <2>3 DEF Next
<1> QED BY <1>1, Invariance, PTL DEF Spec, StreamOnce

(* A suspension only ever gets shorter: an account that is suspended is    *)
(* not suspended anew by the late failures of older attempts.              *)
THEOREM NoExtension == Spec => SuspensionNeverExtended
<1> DEFINE Shrinks == \A a \in Account : degraded[a] > 0 => degraded'[a] <= degraded[a]
<1>1. Inv /\ [Next]_vars => [Shrinks]_vars
  <2> SUFFICES ASSUME Inv, Next, NEW a \in Account, degraded[a] > 0
               PROVE  degraded'[a] <= degraded[a]
      OBVIOUS
  <2>1. degraded \in [Account -> 0 .. Window] /\ Window \in Nat /\ degraded[a] \in Nat
      BY PoolAssumption DEF PoolAssumption, Inv, RowsOK
  <2>2. CASE degraded' = degraded
      BY <2>1, <2>2
  <2>3. ASSUME NEW r \in Request, FeedFailure(r)
        PROVE  degraded'[a] <= degraded[a]
    <3>1. NoteFailure(cur[r])
        BY <2>3 DEF FeedFailure
    <3> QED BY <2>1, <3>1 DEF NoteFailure
  <2>4. ASSUME NEW r \in Request, FeedSuccess(r)
        PROVE  degraded'[a] <= degraded[a]
    <3>1. NoteSuccess(cur[r])
        BY <2>4 DEF FeedSuccess
    <3> QED BY <2>1, <3>1 DEF NoteSuccess
  <2>5. ASSUME NEW b \in Account, DeleteAccount(b)
        PROVE  degraded'[a] <= degraded[a]
    <3>1. degraded' = [degraded EXCEPT ![b] = 0]
        BY <2>5 DEF DeleteAccount
    <3> QED BY <2>1, <3>1
  <2>6. CASE Tick
      BY <2>1, <2>6 DEF Tick, Sooner
  <2>7. ASSUME NEW r \in Request, RequestStep(r), ~FeedFailure(r), ~FeedSuccess(r)
        PROVE  degraded' = degraded
      BY <2>7 DEF RequestStep, Serve, Start, Pick, PickFails, TokenReady, TokenFails, Frame,
                  CredentialRejected, SessionRejected, PassThrough, StreamEnds, FeedRateLimit,
                  FeedMissing, ReportExhausted, FeedClear, Abandon, rowVars
  <2>8. ASSUME UserStep, \A b \in Account : ~DeleteAccount(b)
        PROVE  degraded' = degraded
      BY <2>8 DEF UserStep, SetEnabled, SetPriority, UpsertAccount, OtherRealmPick, rowVars
  <2> QED BY <2>2, <2>3, <2>4, <2>5, <2>6, <2>7, <2>8 DEF Next
<1> QED BY <1>1, Invariance, PTL DEF Spec, SuspensionNeverExtended

-----------------------------------------------------------------------------
(* The rotation loop implements the promise made to the caller *)

(* How one step of a request shows at the level of the promise.            *)
Stutters(r) == Phase(r)' = Phase(r) /\ Attempted(r)' = Attempted(r) /\ yielded'[r] = yielded[r]

Begins(r) == /\ Phase(r) = "idle" /\ Phase(r)' = "searching"
             /\ Attempted(r)' = Attempted(r) /\ yielded'[r] = yielded[r]

Attempts(r) == /\ Phase(r) = "searching" /\ Phase(r)' = "attempting"
               /\ \E a \in Account \ Attempted(r) : Attempted(r)' = Attempted(r) \cup {a}
               /\ yielded'[r] = yielded[r]

Delivers(r) == /\ Phase(r) = "attempting" /\ Phase(r)' = "attempting"
               /\ Attempted(r)' = Attempted(r) /\ yielded'[r] = TRUE

Leaves(r) == /\ Phase(r) = "attempting" /\ ~yielded[r] /\ Phase(r)' = "searching"
             /\ Attempted(r)' = Attempted(r) /\ yielded'[r] = yielded[r]

Ends(r) == /\ Phase(r) # "idle" /\ Phase(r)' = "idle"
           /\ Attempted(r)' = {} /\ yielded'[r] = FALSE

(* Every step of the loop is one step of the promise or none.              *)
LEMMA StepShows ==
    ASSUME Inv, NEW r \in Request, RequestStep(r)
    PROVE  \/ Stutters(r) \/ Begins(r) \/ Attempts(r) \/ Delivers(r) \/ Leaves(r) \/ Ends(r)
<1> USE DEF Inv, LocalInv, LocalsOK
<1>1. ASSUME NEW o, NEW w, Finish(r, o, w), pc[r] # "idle"
      PROVE  Ends(r)
    BY <1>1 DEF Finish, Ends, Phase, Attempted, Attempting
<1>2. ASSUME Attempting(r), ~yielded[r], tried' = [tried EXCEPT ![r] = @ \cup {cur[r]}],
             cur' = [cur EXCEPT ![r] = NoAccount], yielded' = yielded,
             NEW s \in {"pick", "exhausted"}, pc' = [pc EXCEPT ![r] = s]
      PROVE  Leaves(r)
  <2>1. Attempted(r) = tried[r] \cup {cur[r]} /\ Phase(r) = "attempting"
      BY <1>2, AttemptFacts DEF Attempted, Phase, Attempting
  <2>2. Attempted(r)' = tried[r] \cup {cur[r]}
      BY <1>2 DEF Attempted
  <2>3. Phase(r)' = "searching"
      BY <1>2 DEF Phase, Attempting
  <2> QED BY <1>2, <2>1, <2>2, <2>3 DEF Leaves
<1>3. ASSUME Attempting(r), ~yielded[r], TryNext(r)
      PROVE  Leaves(r)
    BY <1>2, <1>3 DEF TryNext
<1>4. ASSUME Attempting(r), NEW o, NEW w, AfterCooldown(r, w, o)
      PROVE  Leaves(r) \/ Ends(r)
  <2>1. pc[r] # "idle"
      BY <1>4 DEF Attempting
  <2> QED BY <1>1, <1>2, <1>3, <1>4, <2>1 DEF AfterCooldown
<1>5. CASE Start(r)
    BY <1>5 DEF Start, Begins, Phase, Attempted, Attempting
<1>6. CASE Pick(r)
  <2>1. PICK a \in AtCursor(TopTier(HealthyOf(Candidates(r), ModelOf[r]))) :
            cur' = [cur EXCEPT ![r] = a]
      BY <1>6 DEF Pick
  <2>2. a \in Account /\ a \notin tried[r]
      BY <2>1 DEF AtCursor, TopTier, HealthyOf, Candidates, Selectable, RowsOK
  <2>3. a # NoAccount
      BY <2>2, PoolAssumption DEF PoolAssumption, Account, NoAccount
  <2>4. cur[r] = NoAccount
      BY <1>6 DEF Pick, LoopInv, Attempting
  <2>5. Attempted(r) = tried[r] /\ Attempted(r)' = tried[r] \cup {a}
      BY <1>6, <2>1, <2>3, <2>4 DEF Attempted, Pick
  <2>6. Phase(r) = "searching" /\ Phase(r)' = "attempting" /\ yielded' = yielded
      BY <1>6 DEF Pick, Phase, Attempting
  <2> QED BY <2>2, <2>5, <2>6 DEF Attempts
<1>7. CASE PickFails(r) \/ TokenFails(r) \/ PassThrough(r) \/ ReportExhausted(r)
           \/ FeedSuccess(r) \/ Abandon(r)
    BY <1>1, <1>7 DEF PickFails, TokenFails, PassThrough, ReportExhausted, FeedSuccess, Abandon
<1>8. CASE TokenReady(r)
  <2>1. ~yielded[r]
      BY <1>8 DEF TokenReady, LoopInv
  <2> QED BY <1>8, <2>1 DEF TokenReady, Stutters, Phase, Attempted, Attempting
<1>9. CASE Frame(r)
    BY <1>9 DEF Frame, Delivers, Phase, Attempted, Attempting
<1>10. CASE StreamEnds(r) \/ FeedClear(r)
    BY <1>10 DEF StreamEnds, FeedClear, localVars, Stutters, Phase, Attempted, Attempting
<1>11. CASE CredentialRejected(r) \/ SessionRejected(r)
  <2>1. Attempting(r) /\ pc[r] # "idle"
      BY <1>11 DEF CredentialRejected, SessionRejected, Attempting
  <2> QED BY <1>1, <1>3, <1>11, <2>1 DEF CredentialRejected, SessionRejected, Rejected
<1>12. CASE FeedRateLimit(r) \/ FeedMissing(r)
  <2>1. Attempting(r)
      BY <1>12 DEF FeedRateLimit, FeedMissing, Attempting
  <2> QED BY <1>4, <1>12, <2>1 DEF FeedRateLimit, FeedMissing
<1>13. CASE FeedFailure(r)
  <2>1. Attempting(r) /\ pc[r] # "idle"
      BY <1>13 DEF FeedFailure, Attempting
  <2> QED BY <1>1, <1>3, <1>13, <2>1 DEF FeedFailure, GivesUp
<1> QED BY <1>5, <1>6, <1>7, <1>8, <1>9, <1>10, <1>11, <1>12, <1>13 DEF RequestStep, Serve

(* A caller sees, of everything the pool does, only a search that never    *)
(* repeats an account and never leaves one that has answered.              *)
THEOREM PromiseKept == Spec => KeepsPromise
<1>1. Init => Promise!Init
  <2> SUFFICES ASSUME Init PROVE Promise!Init
      OBVIOUS
  <2>1. \A r \in Request : Phase(r) = "idle" /\ Attempted(r) = {}
      BY DEF Init, AtRest, Phase, Attempted
  <2> QED BY <2>1 DEF Init, AtRest, Promise!Init
<1>2. Inv /\ [Next]_vars => [Promise!Next]_(Promise!vars)
  <2> SUFFICES ASSUME Inv, [Next]_vars PROVE [Promise!Next]_(Promise!vars)
      OBVIOUS
  <2> USE DEF Inv, LocalInv, LocalsOK
  <2>1. ASSUME NEW r \in Request, RequestStep(r)
        PROVE  [Promise!Next]_(Promise!vars)
    <3>1. \A q \in Request \ {r} : /\ Phase(q)' = Phase(q) /\ Attempted(q)' = Attempted(q)
                                   /\ yielded'[q] = yielded[q]
        BY <2>1, OthersUntouched DEF Phase, Attempted, Attempting
    <3>2. yielded \in [Request -> BOOLEAN] /\ yielded' \in [Request -> BOOLEAN]
        BY <2>1, RequestKeepsInv
    <3>3. CASE Stutters(r)
        BY <3>1, <3>2, <3>3 DEF Stutters, Promise!vars
    <3>9. ASSUME NEW s, Phase(r)' = s
          PROVE  [q \in Request |-> Phase(q)']
                     = [[q \in Request |-> Phase(q)] EXCEPT ![r] = s]
        BY <3>1, <3>9
    <3>10. ASSUME NEW S, Attempted(r)' = S
           PROVE  [q \in Request |-> Attempted(q)']
                      = [[q \in Request |-> Attempted(q)] EXCEPT ![r] = S]
        BY <3>1, <3>10
    <3>11. ASSUME Attempted(r)' = Attempted(r)
           PROVE  [q \in Request |-> Attempted(q)'] = [q \in Request |-> Attempted(q)]
        BY <3>1, <3>11
    <3>12. ASSUME yielded'[r] = yielded[r]
           PROVE  yielded' = yielded
        BY <3>1, <3>2, <3>12
    <3>4. CASE Begins(r)
        BY <3>4, <3>9, <3>11, <3>12 DEF Begins, Promise!Next, Promise!Begin
    <3>5. CASE Attempts(r)
      <4>1. PICK a \in Account \ Attempted(r) : Attempted(r)' = Attempted(r) \cup {a}
          BY <3>5 DEF Attempts
      <4>2. [q \in Request |-> Attempted(q)']
                = [[q \in Request |-> Attempted(q)] EXCEPT ![r] = @ \cup {a}]
          BY <3>1, <4>1
      <4> QED BY <3>5, <3>9, <3>12, <4>1, <4>2 DEF Attempts, Promise!Next, Promise!Attempt
    <3>6. CASE Delivers(r)
        BY <3>1, <3>2, <3>6 DEF Delivers, Promise!Next, Promise!Deliver
    <3>7. CASE Leaves(r)
        BY <3>7, <3>9, <3>11, <3>12 DEF Leaves, Promise!Next, Promise!Leave
    <3>8. CASE Ends(r)
      <4>1. yielded' = [yielded EXCEPT ![r] = FALSE]
          BY <3>1, <3>2, <3>8 DEF Ends
      <4> QED BY <3>8, <3>9, <3>10, <4>1 DEF Ends, Promise!Next, Promise!End
    <3> QED BY <2>1, <3>3, <3>4, <3>5, <3>6, <3>7, <3>8, StepShows
  <2>2. CASE pc' = pc /\ tried' = tried /\ cur' = cur /\ yielded' = yielded
    <3>1. \A q \in Request : Phase(q)' = Phase(q) /\ Attempted(q)' = Attempted(q)
        BY <2>2 DEF Phase, Attempted, Attempting
    <3> QED BY <2>2, <3>1 DEF Promise!vars
  <2>3. CASE UserStep \/ Tick \/ UNCHANGED vars
      BY <2>2, <2>3 DEF UserStep, SetEnabled, SetPriority, DeleteAccount, UpsertAccount,
                  OtherRealmPick, Tick, requestVars, localVars, vars
  <2> QED BY <2>1, <2>3 DEF Next
<1> QED BY <1>1, <1>2, Invariance, PTL DEF Spec, KeepsPromise, Promise!Spec

(* PoolInv: the types, the loop invariant and the bound on the attempts    *)
(* hold together, however many requests and accounts there are.            *)
THEOREM PoolInvariant == Spec => []PoolInv
BY Typing, LoopInvariant, BoundedAttempts, PTL DEF PoolInv

-----------------------------------------------------------------------------
(* How long a penalty stands *)

(* SuspensionEnds: for any pool and any number of requests, a suspension   *)
(* of a stored account ends by time or by a clean stream of that account.  *)
THEOREM OnlyTimeOrSuccess == Spec => SuspensionEnds
<1> DEFINE Stands == \A a \in present \cap present' :
                        degraded[a] > 0 /\ degraded'[a] = 0 =>
                            \/ Tick
                            \/ \E r \in Request : pc[r] = "success" /\ cur[r] = a /\ out'[r] = "ok"
<1>1. Inv /\ [Next]_vars => [Stands]_vars
  <2> DEFINE Earned(a) == Tick \/ \E r \in Request : pc[r] = "success" /\ cur[r] = a /\ out'[r] = "ok"
  <2> SUFFICES ASSUME Inv, Next, NEW a \in Account, a \in present', degraded[a] > 0, degraded'[a] = 0
               PROVE  Earned(a)
      BY DEF Inv, RowsOK
  <2>1. degraded \in [Account -> 0 .. Window] /\ Window \in Nat /\ degraded[a] \in Nat
      BY PoolAssumption DEF PoolAssumption, Inv, RowsOK
  <2>2. degraded' # degraded
      OBVIOUS
  <2>3. ASSUME NEW r \in Request, FeedFailure(r) PROVE FALSE
    <3>1. NoteFailure(cur[r])
        BY <2>3 DEF FeedFailure
    <3> QED BY <2>1, <3>1 DEF NoteFailure
  <2>4. ASSUME NEW r \in Request, FeedSuccess(r) PROVE Earned(a)
    <3>1. NoteSuccess(cur[r]) /\ pc[r] = "success" /\ Finish(r, "ok", 0)
        BY <2>4 DEF FeedSuccess
    <3>2. cur[r] = a
        BY <2>1, <3>1 DEF NoteSuccess
    <3>3. out'[r] = "ok"
        BY <3>1 DEF Finish, Inv, LocalInv, LocalsOK
    <3> QED BY <3>1, <3>2, <3>3
  <2>5. ASSUME NEW b \in Account, DeleteAccount(b) PROVE FALSE
      BY <2>1, <2>5 DEF DeleteAccount
  <2>6. ASSUME NEW r \in Request, RequestStep(r), ~FeedFailure(r), ~FeedSuccess(r)
        PROVE  degraded' = degraded
      BY <2>6 DEF RequestStep, Serve, Start, Pick, PickFails, TokenReady, TokenFails, Frame,
                  CredentialRejected, SessionRejected, PassThrough, StreamEnds, FeedRateLimit,
                  FeedMissing, ReportExhausted, FeedClear, Abandon, rowVars
  <2>7. ASSUME UserStep, \A b \in Account : ~DeleteAccount(b)
        PROVE  degraded' = degraded
      BY <2>7 DEF UserStep, SetEnabled, SetPriority, UpsertAccount, OtherRealmPick, rowVars
  <2> QED BY <2>2, <2>3, <2>4, <2>5, <2>6, <2>7 DEF Next
<1> QED BY <1>1, Invariance, PTL DEF Spec, SuspensionEnds

(* A cooling period does not grow while it lasts. *)
NotLonger(a, m) == cool'[a][m].reason = "6004" => /\ cool'[a][m].hits <= cool[a][m].hits
                                                 /\ cool'[a][m].left <= cool[a][m].left

LEMMA CoolingStep ==
    ASSUME Inv, Next, NEW a \in Account, NEW m \in Model, cool[a][m].left > 0
    PROVE  NotLonger(a, m)
<1>1. cool \in [Account -> [Model -> Entry]] /\ cool[a] \in [Model -> Entry] /\ cool[a][m] \in Entry
    BY DEF Inv, RowsOK
<1>2. cool[a][m].hits \in Nat /\ cool[a][m].left \in Nat
    BY <1>1, PoolAssumption DEF Entry, PoolAssumption
<1>3. cool'[a][m] = cool[a][m] => NotLonger(a, m)
    BY <1>2 DEF NotLonger
<1>4. \A r \in Request : ModelOf[r] \in Model /\ (pc[r] = "feed" => cur[r] \in Account)
    BY PoolAssumption DEF PoolAssumption, Inv, LocalInv, LoopInv, Attempting
<1>5. ASSUME NEW r \in Request, FeedRateLimit(r) PROVE NotLonger(a, m)
  <2>1. PICK hint \in ResetHints : NoteRateLimit(cur[r], ModelOf[r], hint)
      BY <1>5 DEF FeedRateLimit
  <2>2. CASE cur[r] \notin present
      BY <1>3, <2>1, <2>2 DEF NoteRateLimit
  <2>3. CASE cur[r] \in present
    <3> DEFINE e == RateLimited(cool[cur[r]][ModelOf[r]], hint)
    <3>1. cool' = [cool EXCEPT ![cur[r]][ModelOf[r]] = e]
        BY <2>1, <2>3 DEF NoteRateLimit
    <3>2. cur[r] = a /\ ModelOf[r] = m => e = cool[a][m]
        BY <1>2 DEF RateLimited
    <3> HIDE DEF e
    <3>3. cool'[a][m] = (IF a = cur[r] /\ m = ModelOf[r] THEN e ELSE cool[a][m])
        BY <1>1, <1>4, <1>5, <3>1 DEF FeedRateLimit
    <3> QED BY <1>3, <3>2, <3>3
  <2> QED BY <2>2, <2>3
<1>6. ASSUME NEW c \in Account, NEW k \in Model, NEW e, cool' = [cool EXCEPT ![c][k] = e], e.reason # "6004"
      PROVE  NotLonger(a, m)
  <2>1. cool'[a][m] = (IF a = c /\ m = k THEN e ELSE cool[a][m])
      BY <1>1, <1>6
  <2> QED BY <1>3, <1>6, <2>1 DEF NotLonger
<1>7. ASSUME NEW r \in Request, FeedMissing(r) PROVE NotLonger(a, m)
  <2>1. NoteModelMissing(cur[r], ModelOf[r]) /\ cur[r] \in Account /\ ModelOf[r] \in Model
      BY <1>4, <1>7 DEF FeedMissing
  <2>2. MissingEntry.reason # "6004"
      BY DEF MissingEntry
  <2> QED BY <1>3, <1>6, <2>1, <2>2 DEF NoteModelMissing
<1>8. ASSUME NEW r \in Request, FeedClear(r) PROVE NotLonger(a, m)
  <2>1. ClearModelMissing(cur[r], ModelOf[r]) /\ cur[r] \in Account /\ ModelOf[r] \in Model
      BY <1>4, <1>8 DEF FeedClear
  <2>2. CASE cur[r] \notin present
      BY <1>3, <2>1, <2>2 DEF ClearModelMissing
  <2>3. CASE cur[r] \in present
    <3> DEFINE old == cool[cur[r]][ModelOf[r]]
               e   == IF old.reason = "11102" THEN NoEntry ELSE old
    <3>1. cool' = [cool EXCEPT ![cur[r]][ModelOf[r]] = e]
        BY <2>1, <2>3 DEF ClearModelMissing
    <3>2. cur[r] = a /\ ModelOf[r] = m => e = cool[a][m] \/ e.reason # "6004"
        BY DEF NoEntry
    <3> HIDE DEF e, old
    <3>3. cool'[a][m] = (IF a = cur[r] /\ m = ModelOf[r] THEN e ELSE cool[a][m])
        BY <1>1, <2>1, <3>1
    <3> QED BY <1>3, <3>2, <3>3 DEF NotLonger
  <2> QED BY <2>2, <2>3
<1>9. ASSUME NEW b \in Account, DeleteAccount(b) PROVE NotLonger(a, m)
  <2>1. cool'[a][m] = NoEntry \/ cool'[a][m] = cool[a][m]
      BY <1>1, <1>9 DEF DeleteAccount
  <2> QED BY <1>3, <2>1 DEF NotLonger, NoEntry
<1>10. CASE Tick
  <2>1. cool'[a][m] = [cool[a][m] EXCEPT !.left = Sooner(@)]
      BY <1>10 DEF Tick
  <2>2. cool'[a][m].hits = cool[a][m].hits /\ cool'[a][m].left = Sooner(cool[a][m].left)
      BY <1>1, <2>1 DEF Entry
  <2> QED BY <1>2, <2>2 DEF NotLonger, Sooner
<1>11. ASSUME NEW r \in Request, RequestStep(r), ~FeedRateLimit(r), ~FeedMissing(r), ~FeedClear(r)
       PROVE  cool' = cool
    BY <1>11 DEF RequestStep, Serve, Start, Pick, PickFails, TokenReady, TokenFails, Frame,
                 CredentialRejected, SessionRejected, PassThrough, StreamEnds, FeedFailure,
                 ReportExhausted, FeedSuccess, Abandon, rowVars
<1>12. ASSUME UserStep, \A b \in Account : ~DeleteAccount(b)
       PROVE  cool' = cool
    BY <1>12 DEF UserStep, SetEnabled, SetPriority, UpsertAccount, OtherRealmPick, rowVars
<1> QED BY <1>3, <1>5, <1>7, <1>8, <1>9, <1>10, <1>11, <1>12 DEF Next

(* PenaltiesStand: late and simultaneous reports of any number of requests *)
(* lengthen neither a suspension nor a cooling period.                     *)
THEOREM ReportsDoNotAdd == Spec => PenaltiesStand
<1> DEFINE Stands == \A a \in Account, m \in Model :
                        cool[a][m].left > 0 /\ cool'[a][m].reason = "6004" =>
                            /\ cool'[a][m].hits <= cool[a][m].hits
                            /\ cool'[a][m].left <= cool[a][m].left
<1>1. Inv /\ [Next]_vars => [Stands]_vars
    BY CoolingStep DEF NotLonger
<1> QED BY <1>1, Invariance, NoExtension, PTL DEF Spec, PenaltiesStand, OneHitPerPeriod

-----------------------------------------------------------------------------
(* A pool that nobody edits is gone through before it is given up *)

(* Nobody switches, deletes or adds accounts. *)
NoEdits == UserOps \cap {"toggle", "delete", "login"} = {}

(* Without edits a running request has counted the pool as it is and has   *)
(* attempted nothing but accounts of it; one that is exhausted tried all.  *)
WholeOf(r) ==
    pc[r] # "idle" =>
        /\ out[r] = "none"
        /\ total[r] = Cardinality(Selectable)
        /\ tried[r] \subseteq Selectable
        /\ Attempting(r) => cur[r] \in Selectable
        /\ pc[r] = "exhausted" => tried[r] = Selectable

Whole == \A r \in Request : WholeOf(r)

(* Ending a request makes what WholeOf says of it void (Finish).           *)
LEMMA FinishWhole ==
    ASSUME Inv, NEW r \in Request, NEW o, NEW w, Finish(r, o, w)
    PROVE  pc'[r] = "idle" /\ out'[r] = o
BY DEF Finish, Inv, LocalInv, LocalsOK

(* The last account given up is the last of the pool (LastOne).            *)
LEMMA LastIsAll ==
    ASSUME Inv, NEW r \in Request, WholeOf(r), Attempting(r), LastOne(r)
    PROVE  tried[r] \cup {cur[r]} = Selectable
<1>1. pc[r] # "idle" /\ Attempting(r)
    BY DEF Attempting
<1>2. tried[r] \cup {cur[r]} \subseteq Selectable /\ total[r] = Cardinality(Selectable)
    BY <1>1 DEF WholeOf
<1>3. Selectable \in SUBSET Account
    BY DEF Selectable, Inv, RowsOK
<1>4. IsFiniteSet(Selectable)
    BY <1>3, PoolCardinality
<1>5. N \in Nat
    BY PoolAssumption DEF PoolAssumption
<1>6. Cardinality(Selectable) \in Nat /\ Cardinality(tried[r] \cup {cur[r]}) \in Nat
    BY <1>2, <1>3, <1>5, PoolCardinality
<1>7. Cardinality(tried[r] \cup {cur[r]}) <= Cardinality(Selectable)
    BY <1>2, <1>4, FS_Subset
<1>8. Cardinality(tried[r] \cup {cur[r]}) = Cardinality(Selectable)
    BY <1>2, <1>6, <1>7 DEF LastOne
<1> QED BY <1>2, <1>4, <1>8, FS_Subset

(* What a step says of the request that takes it.                          *)
LEMMA WholeStep ==
    ASSUME Inv, NEW r \in Request, WholeOf(r), Selectable' = Selectable, RequestStep(r)
    PROVE  WholeOf(r)'
<1> USE DEF Inv, LocalInv, LocalsOK
<1>1. ASSUME NEW o, NEW w, Finish(r, o, w) PROVE WholeOf(r)'
    BY <1>1, FinishWhole DEF WholeOf
<1>2. ASSUME Attempting(r), TryNext(r) PROVE WholeOf(r)'
    BY <1>2 DEF TryNext, WholeOf, Attempting
<1>3. ASSUME Attempting(r), NEW o, NEW w, AfterCooldown(r, w, o) PROVE WholeOf(r)'
  <2>1. CASE yielded[r]
      BY <1>1, <1>3, <2>1 DEF AfterCooldown
  <2>2. CASE ~yielded[r] /\ ~LastOne(r)
      BY <1>2, <1>3, <2>2 DEF AfterCooldown
  <2>3. CASE ~yielded[r] /\ LastOne(r)
    <3>1. tried[r] \cup {cur[r]} = Selectable
        BY <1>3, <2>3, LastIsAll
    <3> QED BY <1>3, <2>3, <3>1 DEF AfterCooldown, WholeOf, Attempting
  <2> QED BY <2>1, <2>2, <2>3
<1>4. CASE Start(r)
  <2>1. tried[r] = {}
      BY <1>4 DEF Start, LoopInv
  <2> QED BY <1>4, <2>1 DEF Start, WholeOf, Attempting
<1>5. CASE Pick(r)
  <2>1. PICK a \in AtCursor(TopTier(HealthyOf(Candidates(r), ModelOf[r]))) :
            cur' = [cur EXCEPT ![r] = a]
      BY <1>5 DEF Pick
  <2>2. a \in Selectable
      BY <2>1 DEF AtCursor, TopTier, HealthyOf, Candidates
  <2>3. cur'[r] = a /\ pc'[r] = "token" /\ pc[r] # "idle"
      BY <1>5, <2>1 DEF Pick
  <2>4. total' = total /\ tried' = tried /\ out' = out
      BY <1>5 DEF Pick
  <2> QED BY <2>2, <2>3, <2>4 DEF WholeOf
<1>6. CASE TokenReady(r) \/ Frame(r) \/ StreamEnds(r) \/ FeedClear(r)
    BY <1>6 DEF TokenReady, Frame, StreamEnds, FeedClear, localVars, WholeOf, Attempting
<1>7. CASE PickFails(r) \/ TokenFails(r) \/ PassThrough(r) \/ ReportExhausted(r)
           \/ FeedSuccess(r) \/ Abandon(r)
    BY <1>1, <1>7 DEF PickFails, TokenFails, PassThrough, ReportExhausted, FeedSuccess, Abandon
<1>8. CASE CredentialRejected(r) \/ SessionRejected(r)
    BY <1>1, <1>2, <1>8 DEF CredentialRejected, SessionRejected, Rejected, Attempting
<1>9. CASE FeedRateLimit(r) \/ FeedMissing(r)
    BY <1>3, <1>9 DEF FeedRateLimit, FeedMissing, Attempting
<1>10. CASE FeedFailure(r)
    BY <1>1, <1>2, <1>10 DEF FeedFailure, Attempting
<1> QED BY <1>4, <1>5, <1>6, <1>7, <1>8, <1>9, <1>10 DEF RequestStep, Serve

(* What a step of another request leaves of what WholeOf reads.            *)
LEMMA OthersWhole ==
    ASSUME Inv, NEW r \in Request, NEW q \in Request, q # r, RequestStep(q)
    PROVE  total'[r] = total[r] /\ out'[r] = out[r]
<1> USE DEF Inv, LocalInv, LocalsOK
<1> DEFINE Same == total'[r] = total[r] /\ out'[r] = out[r]
<1> SUFFICES Same
    OBVIOUS
<1>1. ASSUME NEW o, NEW w, Finish(q, o, w) PROVE Same
    BY <1>1 DEF Finish
<1>2. ASSUME TryNext(q) PROVE Same
    BY <1>2 DEF TryNext
<1>3. ASSUME NEW o, NEW w, AfterCooldown(q, w, o) PROVE Same
    BY <1>1, <1>2, <1>3 DEF AfterCooldown
<1>4. CASE Start(q) \/ Pick(q) \/ TokenReady(q) \/ Frame(q) \/ StreamEnds(q) \/ FeedClear(q)
    BY <1>4 DEF Start, Pick, TokenReady, Frame, StreamEnds, FeedClear, localVars
<1> HIDE DEF Same
<1>5. CASE PickFails(q) \/ TokenFails(q) \/ PassThrough(q) \/ ReportExhausted(q)
           \/ FeedSuccess(q) \/ Abandon(q)
    BY <1>1, <1>5 DEF PickFails, TokenFails, PassThrough, ReportExhausted, FeedSuccess, Abandon
<1>6. CASE CredentialRejected(q) \/ SessionRejected(q)
    BY <1>1, <1>2, <1>6 DEF CredentialRejected, SessionRejected, Rejected
<1>7. CASE FeedRateLimit(q) \/ FeedMissing(q)
    BY <1>3, <1>7 DEF FeedRateLimit, FeedMissing
<1>8. CASE FeedFailure(q)
    BY <1>1, <1>2, <1>8 DEF FeedFailure
<1> QED BY <1>4, <1>5, <1>6, <1>7, <1>8 DEF RequestStep, Serve

(* No step of a request changes who can be selected.                       *)
LEMMA PoolKept ==
    ASSUME NEW r \in Request, RequestStep(r)
    PROVE  present' = present /\ enabled' = enabled
BY DEF RequestStep, Serve, Start, Pick, PickFails, TokenReady, TokenFails, Frame,
       CredentialRejected, SessionRejected, PassThrough, StreamEnds, FeedRateLimit, FeedMissing,
       ReportExhausted, FeedFailure, FeedClear, FeedSuccess, Abandon, rowVars

LEMMA EnvironmentWhole ==
    ASSUME NoEdits, UserStep \/ Tick \/ UNCHANGED vars
    PROVE  present' = present /\ enabled' = enabled /\ UNCHANGED requestVars
BY DEF NoEdits, UserStep, SetEnabled, SetPriority, DeleteAccount, UpsertAccount, OtherRealmPick,
       Tick, rowVars, vars, requestVars

(* Without edits the whole pool stays the pool of every request.           *)
LEMMA WholeInvariance == NoEdits => (Spec => []Whole)
<1> SUFFICES ASSUME NoEdits PROVE Spec => []Whole
    OBVIOUS
<1>1. Init => Whole
    BY DEF Init, AtRest, Whole, WholeOf
<1>2. Inv /\ Whole /\ [Next]_vars => Whole'
  <2> SUFFICES ASSUME Inv, Whole, [Next]_vars, NEW r \in Request PROVE WholeOf(r)'
      BY DEF Whole
  <2>1. WholeOf(r)
      BY DEF Whole
  <2>2. CASE RequestStep(r)
      BY <2>1, <2>2, PoolKept, WholeStep DEF Selectable
  <2>3. ASSUME NEW q \in Request, q # r, RequestStep(q) PROVE WholeOf(r)'
    <3>1. /\ pc'[r] = pc[r] /\ cur'[r] = cur[r] /\ tried'[r] = tried[r]
          /\ total'[r] = total[r] /\ out'[r] = out[r]
        BY <2>3, OthersUntouched, OthersWhole
    <3>2. Selectable' = Selectable
        BY <2>3, PoolKept DEF Selectable
    <3> QED BY <2>1, <3>1, <3>2 DEF WholeOf, Attempting
  <2>4. CASE UserStep \/ Tick \/ UNCHANGED vars
    <3>1. present' = present /\ enabled' = enabled /\ UNCHANGED requestVars
        BY <2>4, EnvironmentWhole
    <3>2. Selectable' = Selectable
        BY <3>1 DEF Selectable
    <3> QED BY <2>1, <3>1, <3>2 DEF WholeOf, Attempting, requestVars, localVars
  <2> QED BY <2>2, <2>3, <2>4 DEF Next
<1> QED BY <1>1, <1>2, Invariance, PTL DEF Spec

(* Only a pool that has been gone through is called exhausted, suspended   *)
(* or closed to the model.                                                 *)
LEMMA AnswerStep ==
    ASSUME Inv, NEW r \in Request, WholeOf(r), RequestStep(r),
           pc[r] # "idle", out'[r] \in PoolAnswers, ~yielded[r]
    PROVE  HealthyOf(Selectable, ModelOf[r]) \subseteq Attempted(r)
<1> USE DEF Inv, LocalInv, LocalsOK
<1> DEFINE Goal == HealthyOf(Selectable, ModelOf[r]) \subseteq Attempted(r)
<1> SUFFICES Goal
    OBVIOUS
<1>1. out[r] \notin PoolAnswers
    BY DEF WholeOf, PoolAnswers
<1>2. ASSUME out' = out PROVE FALSE
    BY <1>1, <1>2
<1>3. ASSUME NEW o, NEW w, Finish(r, o, w) PROVE o \in PoolAnswers
    BY <1>3, FinishWhole
<1>4. ASSUME Attempting(r), LastOne(r) PROVE Goal
  <2>1. tried[r] \cup {cur[r]} = Selectable /\ cur[r] # NoAccount
      BY <1>4, LastIsAll, AttemptFacts
  <2> QED BY <2>1 DEF Attempted, HealthyOf
<1>5. CASE PickFails(r)
    BY <1>5 DEF PickFails, HealthyOf, Candidates, Attempted
<1>6. CASE ReportExhausted(r)
    BY <1>6 DEF ReportExhausted, WholeOf, HealthyOf, Attempted
<1> HIDE DEF Goal
<1>7. CASE CredentialRejected(r) \/ SessionRejected(r)
  <2>1. Attempting(r) /\ Rejected(r)
      BY <1>7 DEF CredentialRejected, SessionRejected, Attempting
  <2>2. ASSUME ~LastOne(r) PROVE FALSE
      BY <1>2, <2>1, <2>2 DEF Rejected, TryNext
  <2> QED BY <1>4, <2>1, <2>2
<1>8. CASE FeedRateLimit(r) \/ FeedMissing(r)
  <2>1. ASSUME NEW o, NEW w, AfterCooldown(r, w, o) PROVE out' = out
      BY <2>1 DEF AfterCooldown, TryNext
  <2> QED BY <1>2, <1>8, <2>1 DEF FeedRateLimit, FeedMissing
<1>9. CASE FeedFailure(r)
  <2>1. CASE GivesUp(r)
      BY <1>3, <1>9, <2>1 DEF FeedFailure, PoolAnswers
  <2>2. CASE ~GivesUp(r)
      BY <1>2, <1>9, <2>2 DEF FeedFailure, TryNext
  <2> QED BY <2>1, <2>2
<1>10. CASE TokenFails(r) \/ PassThrough(r) \/ FeedSuccess(r) \/ Abandon(r)
    BY <1>3, <1>10 DEF TokenFails, PassThrough, FeedSuccess, Abandon, PoolAnswers
<1>11. CASE Pick(r) \/ TokenReady(r) \/ Frame(r) \/ StreamEnds(r) \/ FeedClear(r)
    BY <1>2, <1>11 DEF Pick, TokenReady, Frame, StreamEnds, FeedClear, localVars
<1>12. ~Start(r)
    BY DEF Start
<1> QED BY <1>5, <1>6, <1>7, <1>8, <1>9, <1>10, <1>11, <1>12 DEF RequestStep, Serve

(* NoAccountLeftUntried: in a pool of any size that nobody edits, whatever *)
(* the upstream does and however many requests run, no caller is told that *)
(* the pool cannot serve while an account that could was left out.         *)
THEOREM EveryAccountTried == NoEdits => (Spec => NoAccountLeftUntried)
<1> SUFFICES ASSUME NoEdits PROVE Spec => NoAccountLeftUntried
    OBVIOUS
<1> DEFINE Told == \A r \in Request :
                      pc[r] # "idle" /\ out'[r] \in PoolAnswers /\ ~yielded[r] =>
                          HealthyOf(Selectable, ModelOf[r]) \subseteq Attempted(r)
<1>1. Inv /\ Whole /\ [Next]_vars => [Told]_vars
  <2> SUFFICES ASSUME Inv, Whole, Next, NEW r \in Request,
                      pc[r] # "idle", out'[r] \in PoolAnswers, ~yielded[r]
               PROVE  HealthyOf(Selectable, ModelOf[r]) \subseteq Attempted(r)
      OBVIOUS
  <2>1. WholeOf(r) /\ out[r] \notin PoolAnswers
      BY DEF Whole, WholeOf, PoolAnswers
  <2>2. CASE RequestStep(r)
      BY <2>1, <2>2, AnswerStep
  <2>3. ASSUME NEW q \in Request, q # r, RequestStep(q) PROVE FALSE
      BY <2>1, <2>3, OthersWhole
  <2>4. ~(UserStep \/ Tick)
      BY <2>1, EnvironmentWhole DEF requestVars
  <2> QED BY <2>2, <2>3, <2>4 DEF Next
<1> QED BY <1>1, Invariance, WholeInvariance, PTL DEF Spec, NoAccountLeftUntried

================================================================================
