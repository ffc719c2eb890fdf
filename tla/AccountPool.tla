----------------------------- MODULE AccountPool -----------------------------
(***************************************************************************)
(* The WorkBuddy account pool: the health fields that                      *)
(* platforms/store.py keeps for every account and the rotation loop        *)
(* `_frames_with_rotation` of platforms/workbuddy/chat.py that concurrent  *)
(* chat requests run over them.                                            *)
(*                                                                         *)
(* A request is a coroutine; it gives way to the others exactly where the  *)
(* code awaits, and every action below is the code between two awaits.     *)
(* A stored deadline is modelled by the time left until it: the code only  *)
(* ever asks whether a deadline is in the future and sets it to now plus a *)
(* duration, so "left > 0" is "until > now" and no absolute clock is kept. *)
(***************************************************************************)
EXTENDS Integers, FiniteSets

CONSTANTS
    N,             \* accounts the pool may ever hold; account numbers follow the uid order
    Request,       \* concurrent chat requests
    Model,         \* upstream models
    ModelOf,       \* the model each request asks for
    MaxPriority,   \* user priorities are 1 .. MaxPriority, 1 is served first
    Threshold,     \* DEGRADE_FAIL_THRESHOLD
    Window,        \* DEGRADE_WINDOW_MS, in ticks
    BackoffBase,   \* RATE_LIMIT_BACKOFF_BASE_MS
    BackoffCap,    \* RATE_LIMIT_BACKOFF_CAP_MS
    MaxUntil,      \* RATE_LIMIT_MAX_UNTIL_MS
    MissingTTL,    \* MODEL_MISSING_TTL_MS
    ResetHints,    \* recovery times an upstream 6004 may name, 0 for none
    HitsCap,       \* bound on hits; the backoff is constant from there on
    CursorMod,     \* the round-robin cursor wraps here (1_000_000 in the code)
    UserOps        \* which operations on the pool happen besides the requests

Account == 1 .. N

Lesser(x, y) == IF x < y THEN x ELSE y

Backoff(h) == Lesser(BackoffBase * 2^(h - 1), BackoffCap)

ASSUME PoolAssumption ==
    /\ N \in Nat \ {0}
    /\ ModelOf \in [Request -> Model]
    /\ MaxPriority \in Nat \ {0}
    /\ {Threshold, Window, BackoffCap, MaxUntil, MissingTTL, HitsCap, CursorMod}
            \subseteq Nat \ {0}
    /\ ResetHints \subseteq Nat
    /\ UserOps \subseteq {"toggle", "priority", "delete", "login", "other_realm"}

ASSUME BackoffAssumption ==
    /\ \A h \in 1 .. HitsCap : Backoff(h) \in Nat \ {0}
    /\ Backoff(HitsCap) = BackoffCap

NoAccount == 0

(***************************************************************************)
(* One model_cooldowns entry: no entry, a 6004 rate limit or an 11102      *)
(* negative-cache entry.  An expired entry stays in the row with left = 0. *)
(***************************************************************************)
Entry == [reason : {"none", "6004", "11102"}, left : Nat, hits : 0 .. HitsCap]

NoEntry == [reason |-> "none", left |-> 0, hits |-> 0]

VARIABLES
    present,     \* accounts stored in platform_{id}.json
    enabled,     \* the user's switch, row field "enabled"
    prio,        \* row field "priority"
    fails,       \* row field "fail_count"
    degraded,    \* time left of row field "degraded_until"
    cool,        \* row field "model_cooldowns"
    cursor,      \* module variable _cursor, one for every realm
    pc,          \* where a request is suspended
    total,       \* selectable accounts when the request started
    tried,       \* the request's local set tried
    rejected,    \* the request's local set rejected
    switched,    \* the request's local generic_switched
    cur,         \* the account of the running attempt
    yielded,     \* a frame of the running attempt has reached the client
    err,         \* how the running attempt ended, while the store is updated
    told,        \* the waiting time the request reports
    out,         \* how the request ended
    charged      \* history: accounts whose fail_count this request has raised

rowVars == <<present, enabled, prio, fails, degraded, cool>>
localVars == <<total, tried, rejected, switched, cur, yielded, err, told, charged>>
vars == <<rowVars, cursor, pc, localVars, out>>

-----------------------------------------------------------------------------
(* Reading the pool *)

Selectable == {a \in present : enabled[a]}

(* variant: an account with any recent failure is passed over *)
Healthy_NoFailures(a, m) == degraded[a] = 0 /\ fails[a] = 0 /\ cool[a][m].left = 0

Healthy(a, m) == degraded[a] = 0 /\ cool[a][m].left = 0

HealthyOf(S, m) == {a \in S : Healthy(a, m)}

TopTier(S) == {a \in S : \A b \in S : prio[a] <= prio[b]}

(* tier[cursor % len(tier)] of the tier sorted by uid *)
AtCursor(S) ==
    {a \in S : Cardinality({b \in S : b < a}) = cursor % Cardinality(S)}

UnlockTimes(S, m) == {cool[a][m].left : a \in S} \ {0}

RecoveryTimes(S, m) == UnlockTimes(S, m) \cup ({degraded[a] : a \in S} \ {0})

(* the least of a set of waiting times, or d when there is none *)
Earliest(T, d) == IF T = {} THEN {d} ELSE {t \in T : \A u \in T : t <= u}

-----------------------------------------------------------------------------
(* Writing a row: every helper is one locked read-modify-write, and does   *)
(* nothing when the account is gone.                                       *)

(* variant: the counter is not reset at the threshold *)
NoteFailure_KeepsCount(a) ==
    IF a \notin present THEN UNCHANGED <<fails, degraded>>
    ELSE /\ fails' = [fails EXCEPT ![a] = @ + 1]
         /\ degraded' = [degraded EXCEPT ![a] =
                 IF fails[a] + 1 >= Threshold /\ @ = 0 THEN Window ELSE @]

(* variant: the window starts again at every threshold *)
NoteFailure_Extends(a) ==
    IF a \notin present THEN UNCHANGED <<fails, degraded>>
    ELSE IF fails[a] + 1 >= Threshold
         THEN /\ fails' = [fails EXCEPT ![a] = 0]
              /\ degraded' = [degraded EXCEPT ![a] = Window]
         ELSE /\ fails' = [fails EXCEPT ![a] = @ + 1]
              /\ UNCHANGED degraded

NoteFailure(a) ==
    IF a \notin present THEN UNCHANGED <<fails, degraded>>
    ELSE IF fails[a] + 1 >= Threshold
         THEN /\ fails' = [fails EXCEPT ![a] = 0]
              /\ degraded' = [degraded EXCEPT ![a] = IF @ = 0 THEN Window ELSE @]
         ELSE /\ fails' = [fails EXCEPT ![a] = @ + 1]
              /\ UNCHANGED degraded

NoteSuccess(a) ==
    IF a \notin present THEN UNCHANGED <<fails, degraded>>
    ELSE /\ fails' = [fails EXCEPT ![a] = 0]
         /\ degraded' = [degraded EXCEPT ![a] = 0]

(* variant: a live entry is replaced too *)
RateLimited_Always(e, hint) ==
    LET h == Lesser(e.hits + 1, HitsCap) IN
    [reason |-> "6004", hits |-> h,
     left |-> IF hint > 0 THEN Lesser(hint, MaxUntil) ELSE Backoff(h)]

(* the entry note_rate_limit leaves when it finds entry e *)
RateLimited(e, hint) ==
    IF e.left > 0 THEN e
    ELSE LET h == Lesser(e.hits + 1, HitsCap) IN
         [reason |-> "6004", hits |-> h,
          left |-> IF hint > 0 THEN Lesser(hint, MaxUntil) ELSE Backoff(h)]

NoteRateLimit(a, m, hint) ==
    IF a \notin present THEN UNCHANGED cool
    ELSE cool' = [cool EXCEPT ![a][m] = RateLimited(@, hint)]

MissingEntry == [reason |-> "11102", left |-> MissingTTL, hits |-> 0]

NoteModelMissing(a, m) ==
    IF a \notin present THEN UNCHANGED cool
    ELSE cool' = [cool EXCEPT ![a][m] = MissingEntry]

ClearModelMissing(a, m) ==
    IF a \notin present THEN UNCHANGED cool
    ELSE cool' = [cool EXCEPT ![a][m] = IF @.reason = "11102" THEN NoEntry ELSE @]

-----------------------------------------------------------------------------
(* The rotation loop *)

AtRest ==
    /\ pc = [r \in Request |-> "idle"]
    /\ total = [r \in Request |-> 0]
    /\ tried = [r \in Request |-> {}]
    /\ rejected = [r \in Request |-> {}]
    /\ switched = [r \in Request |-> FALSE]
    /\ cur = [r \in Request |-> NoAccount]
    /\ yielded = [r \in Request |-> FALSE]
    /\ err = [r \in Request |-> "none"]
    /\ told = [r \in Request |-> 0]
    /\ charged = [r \in Request |-> {}]
    /\ out = [r \in Request |-> "none"]

Init ==
    /\ present \in SUBSET Account
    /\ enabled = [a \in Account |-> TRUE]
    /\ prio = [a \in Account |-> 1]
    /\ fails = [a \in Account |-> 0]
    /\ degraded = [a \in Account |-> 0]
    /\ cool = [a \in Account |-> [m \in Model |-> NoEntry]]
    /\ cursor = 0
    /\ AtRest

(* The request ends with outcome o, reporting the waiting time w; its      *)
(* local variables go out of scope.                                        *)
Finish(r, o, w) ==
    /\ pc' = [pc EXCEPT ![r] = "idle"]
    /\ out' = [out EXCEPT ![r] = o]
    /\ told' = [told EXCEPT ![r] = w]
    /\ total' = [total EXCEPT ![r] = 0]
    /\ tried' = [tried EXCEPT ![r] = {}]
    /\ rejected' = [rejected EXCEPT ![r] = {}]
    /\ switched' = [switched EXCEPT ![r] = FALSE]
    /\ cur' = [cur EXCEPT ![r] = NoAccount]
    /\ yielded' = [yielded EXCEPT ![r] = FALSE]
    /\ err' = [err EXCEPT ![r] = "none"]
    /\ charged' = [charged EXCEPT ![r] = {}]

(* variant: the account left is not added to tried *)
TryNext_Forgets(r) ==
    /\ pc' = [pc EXCEPT ![r] = "pick"]
    /\ cur' = [cur EXCEPT ![r] = NoAccount]
    /\ err' = [err EXCEPT ![r] = "none"]
    /\ UNCHANGED <<total, tried, yielded, told, out>>

(* The attempt is given up and the loop goes back to picking an account.   *)
TryNext(r) ==
    /\ pc' = [pc EXCEPT ![r] = "pick"]
    /\ tried' = [tried EXCEPT ![r] = @ \cup {cur[r]}]
    /\ cur' = [cur EXCEPT ![r] = NoAccount]
    /\ err' = [err EXCEPT ![r] = "none"]
    /\ UNCHANGED <<total, yielded, told, out>>

(* variants: one account too many, one too few *)
LastOne_Late(r) == Cardinality(tried[r] \cup {cur[r]}) > total[r]

LastOne_Early(r) == Cardinality(tried[r] \cup {cur[r]}) + 1 >= total[r]

(* tried.add(uid) leaves no account to try: len(tried) >= total *)
LastOne(r) == Cardinality(tried[r] \cup {cur[r]}) >= total[r]

Start(r) ==
    /\ pc[r] = "idle"
    /\ pc' = [pc EXCEPT ![r] = "pick"]
    /\ total' = [total EXCEPT ![r] = Cardinality(Selectable)]
    /\ out' = [out EXCEPT ![r] = "none"]
    /\ told' = [told EXCEPT ![r] = 0]
    /\ UNCHANGED <<rowVars, cursor, tried, rejected, switched, cur, yielded, err, charged>>

(* variant: accounts already tried stay in the race *)
Candidates_All(r) == IF r \in Request THEN Selectable ELSE {}

Candidates(r) == Selectable \ tried[r]

Pick(r) ==
    /\ pc[r] = "pick"
    /\ \E a \in AtCursor(TopTier(HealthyOf(Candidates(r), ModelOf[r]))) :
           cur' = [cur EXCEPT ![r] = a]
    /\ cursor' = (cursor + 1) % CursorMod
    /\ pc' = [pc EXCEPT ![r] = "token"]
    /\ UNCHANGED <<rowVars, total, tried, rejected, switched, yielded, err, told, charged, out>>

(* No account can be picked: 503 when there is no candidate or credentials *)
(* were refused, 429 when a candidate is degraded, 400 when every one is   *)
(* cooling down for this model.                                            *)
PickFails(r) ==
    /\ pc[r] = "pick"
    /\ HealthyOf(Candidates(r), ModelOf[r]) = {}
    /\ IF Candidates(r) = {} \/ rejected[r] # {}
       THEN Finish(r, "no_account", 0)
       ELSE IF \E a \in Candidates(r) : degraded[a] > 0
       THEN \E w \in Earliest(RecoveryTimes(Candidates(r), ModelOf[r]), 0) :
                Finish(r, "suspended", w)
       ELSE \E w \in Earliest(UnlockTimes(Candidates(r), ModelOf[r]), 0) :
                Finish(r, "model_unavailable", w)
    /\ UNCHANGED <<rowVars, cursor>>

(* ensure_token returns; the attempt starts *)
TokenReady(r) ==
    /\ pc[r] = "token"
    /\ pc' = [pc EXCEPT ![r] = "stream"]
    /\ yielded' = [yielded EXCEPT ![r] = FALSE]
    /\ UNCHANGED <<rowVars, cursor, total, tried, rejected, switched, cur, err, told,
                   charged, out>>

(* ensure_token raises outside the try block: the request ends at once *)
TokenFails(r) ==
    /\ pc[r] = "token"
    /\ Finish(r, "token_error", 0)
    /\ UNCHANGED <<rowVars, cursor>>

Frame(r) ==
    /\ pc[r] = "stream"
    /\ ~yielded[r]
    /\ yielded' = [yielded EXCEPT ![r] = TRUE]
    /\ UNCHANGED <<rowVars, cursor, pc, total, tried, rejected, switched, cur, err, told,
                   charged, out>>

(* a refused credential (401/403 before any frame) or a dead session:      *)
(* nothing is charged, the account is left                                 *)
Rejected(r) ==
    IF LastOne(r)
    THEN Finish(r, "no_account", 0)
    ELSE /\ TryNext(r)
         /\ rejected' = [rejected EXCEPT ![r] = @ \cup {cur[r]}]
         /\ UNCHANGED <<switched, charged>>

CredentialRejected(r) ==
    /\ pc[r] = "stream"
    /\ ~yielded[r]
    /\ Rejected(r)
    /\ UNCHANGED <<rowVars, cursor>>

SessionRejected(r) ==
    /\ pc[r] = "stream"
    /\ IF yielded[r] THEN Finish(r, "upstream_error", 0) ELSE Rejected(r)
    /\ UNCHANGED <<rowVars, cursor>>

(* read timeout (504) or a business error: nothing is fed, nobody is switched *)
PassThrough(r) ==
    /\ pc[r] = "stream"
    /\ \E o \in {"upstream_timeout", "upstream_error"} : Finish(r, o, 0)
    /\ UNCHANGED <<rowVars, cursor>>

(* the attempt ends in a way that the store is told about next *)
StreamEnds(r) ==
    /\ pc[r] = "stream"
    /\ \E k \in {"clean", "rate_limit", "missing", "generic"} :
           err' = [err EXCEPT ![r] = k]
    /\ pc' = [pc EXCEPT ![r] = "feed"]
    /\ UNCHANGED <<rowVars, cursor, total, tried, rejected, switched, cur, yielded, told,
                   charged, out>>

(* After a model-level error: w is the waiting time just stored, o the     *)
(* answer when frames have already been delivered.                         *)
AfterCooldown(r, w, o) ==
    IF yielded[r] THEN Finish(r, o, w)
    ELSE /\ IF LastOne(r)
            THEN /\ pc' = [pc EXCEPT ![r] = "exhausted"]
                 /\ tried' = [tried EXCEPT ![r] = @ \cup {cur[r]}]
                 /\ cur' = [cur EXCEPT ![r] = NoAccount]
                 /\ told' = [told EXCEPT ![r] = w]
                 /\ err' = [err EXCEPT ![r] = "none"]
                 /\ UNCHANGED <<total, yielded, out>>
            ELSE TryNext(r)
         /\ UNCHANGED <<rejected, switched, charged>>

FeedRateLimit(r) ==
    /\ pc[r] = "feed" /\ err[r] = "rate_limit"
    /\ \E hint \in ResetHints : NoteRateLimit(cur[r], ModelOf[r], hint)
    /\ AfterCooldown(r, IF cur[r] \in present THEN cool'[cur[r]][ModelOf[r]].left ELSE 0,
                     "upstream_error")
    /\ UNCHANGED <<present, enabled, prio, fails, degraded, cursor>>

FeedMissing(r) ==
    /\ pc[r] = "feed" /\ err[r] = "missing"
    /\ NoteModelMissing(cur[r], ModelOf[r])
    /\ AfterCooldown(r, IF cur[r] \in present THEN MissingTTL ELSE 0, "model_unavailable")
    /\ UNCHANGED <<present, enabled, prio, fails, degraded, cursor>>

(* the pool is read again for the answer of an exhausted request *)
ReportExhausted(r) ==
    /\ pc[r] = "exhausted"
    /\ \E w \in Earliest(UnlockTimes(Selectable, ModelOf[r]), told[r]) :
           Finish(r, "model_unavailable", w)
    /\ UNCHANGED <<rowVars, cursor>>

(* variants: the budget, or the frames already delivered, are ignored *)
GivesUp_NoBudget(r) == yielded[r] \/ LastOne(r)

GivesUp_AfterFrames(r) == switched[r] \/ LastOne(r)

GivesUp(r) == yielded[r] \/ switched[r] \/ LastOne(r)

(* 5xx or a network error: charge the account, switch at most once *)
FeedFailure(r) ==
    /\ pc[r] = "feed" /\ err[r] = "generic"
    /\ NoteFailure(cur[r])
    /\ IF GivesUp(r)
       THEN Finish(r, "upstream_error", 0)
       ELSE /\ TryNext(r)
            /\ switched' = [switched EXCEPT ![r] = TRUE]
            /\ charged' = [charged EXCEPT ![r] = @ \cup {cur[r]}]
            /\ UNCHANGED rejected
    /\ UNCHANGED <<present, enabled, prio, cool, cursor>>

(* A clean end of the stream takes two locked writes. *)
FeedClear(r) ==
    /\ pc[r] = "feed" /\ err[r] = "clean"
    /\ ClearModelMissing(cur[r], ModelOf[r])
    /\ pc' = [pc EXCEPT ![r] = "success"]
    /\ UNCHANGED <<present, enabled, prio, fails, degraded, cursor, localVars, out>>

FeedSuccess(r) ==
    /\ pc[r] = "success"
    /\ NoteSuccess(cur[r])
    /\ Finish(r, "ok", 0)
    /\ UNCHANGED <<present, enabled, prio, cool, cursor>>

(* The client goes away: the coroutine is cancelled at its current await.  *)
Abandon(r) ==
    /\ pc[r] # "idle"
    /\ Finish(r, "cancelled", 0)
    /\ UNCHANGED <<rowVars, cursor>>

Serve(r) ==
    \/ Pick(r) \/ PickFails(r) \/ TokenReady(r) \/ TokenFails(r)
    \/ CredentialRejected(r) \/ SessionRejected(r) \/ PassThrough(r)
    \/ StreamEnds(r) \/ FeedRateLimit(r) \/ FeedMissing(r) \/ ReportExhausted(r)
    \/ FeedFailure(r) \/ FeedClear(r) \/ FeedSuccess(r)

RequestStep(r) == Start(r) \/ Serve(r) \/ Frame(r) \/ Abandon(r)

-----------------------------------------------------------------------------
(* The user's operations and the passing of time *)

requestVars == <<pc, localVars, out>>

SetEnabled(a) ==
    /\ "toggle" \in UserOps /\ a \in present
    /\ enabled' = [enabled EXCEPT ![a] = ~@]
    /\ UNCHANGED <<present, prio, fails, degraded, cool, cursor, requestVars>>

SetPriority(a) ==
    /\ "priority" \in UserOps /\ a \in present
    /\ \E p \in 1 .. MaxPriority : prio' = [prio EXCEPT ![a] = p]
    /\ UNCHANGED <<present, enabled, fails, degraded, cool, cursor, requestVars>>

(* Deleting drops the row; nothing of it is left for a later login.        *)
DeleteAccount(a) ==
    /\ "delete" \in UserOps /\ a \in present
    /\ present' = present \ {a}
    /\ enabled' = [enabled EXCEPT ![a] = TRUE]
    /\ prio' = [prio EXCEPT ![a] = 1]
    /\ fails' = [fails EXCEPT ![a] = 0]
    /\ degraded' = [degraded EXCEPT ![a] = 0]
    /\ cool' = [cool EXCEPT ![a] = [m \in Model |-> NoEntry]]
    /\ UNCHANGED <<cursor, requestVars>>

(* variant: a new login writes a new row *)
UpsertAccount_Fresh(a) ==
    /\ "login" \in UserOps
    /\ present' = present \cup {a}
    /\ fails' = [fails EXCEPT ![a] = 0]
    /\ degraded' = [degraded EXCEPT ![a] = 0]
    /\ cool' = [cool EXCEPT ![a] = [m \in Model |-> NoEntry]]
    /\ UNCHANGED <<enabled, prio, cursor, requestVars>>

(* upsert_account with preserve: the switch, the priority and the health   *)
(* fields of a stored account survive a new login or import.               *)
UpsertAccount(a) ==
    /\ "login" \in UserOps
    /\ present' = present \cup {a}
    /\ UNCHANGED <<enabled, prio, fails, degraded, cool, cursor, requestVars>>

(* A pick of the other realm's adapter moves the same module-level cursor. *)
OtherRealmPick ==
    /\ "other_realm" \in UserOps
    /\ cursor' = (cursor + 1) % CursorMod
    /\ UNCHANGED <<rowVars, requestVars>>

Sooner(t) == IF t > 0 THEN t - 1 ELSE 0

Tick ==
    /\ degraded' = [a \in Account |-> Sooner(degraded[a])]
    /\ cool' = [a \in Account |-> [m \in Model |->
                    [cool[a][m] EXCEPT !.left = Sooner(@)]]]
    /\ UNCHANGED <<present, enabled, prio, fails, cursor, requestVars>>

UserStep ==
    \/ \E a \in Account : \/ SetEnabled(a) \/ SetPriority(a)
                          \/ DeleteAccount(a) \/ UpsertAccount(a)
    \/ OtherRealmPick

Next == (\E r \in Request : RequestStep(r)) \/ UserStep \/ Tick

(* The event loop runs every coroutine that is not waiting, the read       *)
(* timeout of 300 s wakes one whose upstream is silent, and time passes.   *)
Fairness == (\A r \in Request : WF_vars(Serve(r))) /\ WF_vars(Tick)

Spec == Init /\ [][Next]_vars

FairSpec == Spec /\ Fairness

-----------------------------------------------------------------------------
(* Properties *)

Stage == {"idle", "pick", "token", "stream", "feed", "success", "exhausted"}

Outcome == {"none", "ok", "no_account", "suspended", "model_unavailable", "token_error",
            "upstream_error", "upstream_timeout", "cancelled"}

RowsOK ==
    /\ present \in SUBSET Account
    /\ enabled \in [Account -> BOOLEAN]
    /\ prio \in [Account -> 1 .. MaxPriority]
    /\ fails \in [Account -> 0 .. Threshold - 1]
    /\ degraded \in [Account -> 0 .. Window]
    /\ cool \in [Account -> [Model -> Entry]]

LocalsOK ==
    /\ pc \in [Request -> Stage]
    /\ total \in [Request -> 0 .. N]
    /\ tried \in [Request -> SUBSET Account]
    /\ rejected \in [Request -> SUBSET Account]
    /\ switched \in [Request -> BOOLEAN]
    /\ cur \in [Request -> Account \cup {NoAccount}]
    /\ yielded \in [Request -> BOOLEAN]
    /\ err \in [Request -> {"none", "clean", "rate_limit", "missing", "generic"}]
    /\ told \in [Request -> Nat]
    /\ charged \in [Request -> SUBSET Account]
    /\ out \in [Request -> Outcome]

(* Every stored and local value keeps its type; in particular no row is    *)
(* ever left with a fail_count at the threshold or a suspension longer     *)
(* than its window (note_failure).                                         *)
TypeOK == RowsOK /\ cursor \in 0 .. CursorMod - 1 /\ LocalsOK

Attempting(r) == pc[r] \in {"token", "stream", "feed", "success"}

Attempted(r) == tried[r] \cup ({cur[r]} \ {NoAccount})

(* A request never gives one account two attempts, and blames a refused    *)
(* credential only on an account it has left (_frames_with_rotation).      *)
FreshAttempt ==
    \A r \in Request : /\ Attempting(r) => cur[r] \notin tried[r]
                       /\ rejected[r] \subseteq tried[r]

(* However the pool grows, shrinks or is switched on and off while a       *)
(* request runs, the request makes at most as many attempts as there were  *)
(* selectable accounts when it started, one if there was none.             *)
AttemptBound ==
    \A r \in Request : \/ Cardinality(Attempted(r)) <= total[r]
                       \/ Cardinality(Attempted(r)) <= 1

(* An outage of the upstream does not travel through the pool: a request   *)
(* that goes on after a generic failure has charged one account, so it     *)
(* charges two at most (the budget generic_switched).                      *)
ChargeBudget == \A r \in Request : Cardinality(charged[r]) <= 1

(* Once a frame has reached the client the request stays with its account  *)
(* until it ends: no output is produced, or billed, twice.                 *)
StreamOnce ==
    [][\A r \in Request : yielded[r] =>
           \/ cur'[r] = cur[r] /\ yielded'[r]
           \/ pc'[r] = "idle"]_vars

(* A suspension is never extended, whatever late failures of attempts that *)
(* started before it bring (note_failure inside the window).               *)
SuspensionNeverExtended ==
    [][\A a \in Account : degraded[a] > 0 => degraded'[a] <= degraded[a]]_vars

(* A suspension of a stored account ends by time or by a clean stream of   *)
(* that very account: no login, import, toggle or other account ends it.   *)
SuspensionEnds ==
    [][\A a \in present \cap present' :
           degraded[a] > 0 /\ degraded'[a] = 0 =>
               \/ Tick
               \/ \E r \in Request : pc[r] = "success" /\ cur[r] = a /\ out'[r] = "ok"]_vars

(* Requests that hit the same rate limit together count as one: hits grow  *)
(* once per cooling period, and a second 6004 does not lengthen the first. *)
OneHitPerPeriod ==
    [][\A a \in Account, m \in Model :
           cool[a][m].left > 0 /\ cool'[a][m].reason = "6004" =>
               /\ cool'[a][m].hits <= cool[a][m].hits
               /\ cool'[a][m].left <= cool[a][m].left]_vars

(* Late and simultaneous reports of one trouble are one trouble: neither a *)
(* suspension nor a cooling period grows while it lasts.                   *)
PenaltiesStand == SuspensionNeverExtended /\ OneHitPerPeriod

PoolAnswers == {"no_account", "suspended", "model_unavailable"}

(* When nobody edits the pool, a request that has delivered nothing is     *)
(* answered "no account", "suspended" or "model unavailable" only if every *)
(* account that could serve it has been tried.                             *)
NoAccountLeftUntried ==
    [][\A r \in Request :
           pc[r] # "idle" /\ out'[r] \in PoolAnswers /\ ~yielded[r] =>
               HealthyOf(Selectable, ModelOf[r]) \subseteq Attempted(r)]_vars

(* Every request ends: with upstreams that answer or time out, the loop    *)
(* cannot go round the pool for ever.                                      *)
RequestEnds == \A r \in Request : pc[r] # "idle" ~> pc[r] = "idle"

(* A pool that nobody edits never stays shut: if it has a selectable       *)
(* account, time alone brings back one that any model can be served from.  *)
PoolRecovers ==
    \A m \in Model : Selectable # {} ~> (HealthyOf(Selectable, m) # {})

(* How the local variables of the rotation loop hang together: they are    *)
(* empty outside a request, an account is held exactly during an attempt,  *)
(* and each time the loop turns there is still an account to try.          *)
LoopInv ==
    \A r \in Request :
        /\ pc[r] = "idle" => tried[r] = {} /\ ~switched[r]
        /\ IF Attempting(r) THEN cur[r] \in Account ELSE cur[r] = NoAccount
        /\ yielded[r] => pc[r] \in {"stream", "feed", "success"}
        /\ cur[r] \notin tried[r]
        /\ rejected[r] \subseteq tried[r]
        /\ tried[r] # {} =>
               IF pc[r] = "exhausted"
               THEN Cardinality(tried[r]) <= total[r] \/ Cardinality(tried[r]) <= 1
               ELSE Cardinality(tried[r]) < total[r]
        /\ charged[r] \subseteq tried[r]
        /\ ~switched[r] => charged[r] = {}
        /\ Cardinality(charged[r]) <= 1

(* What holds of the pool and of the loops at all times: the types, the    *)
(* thread of each loop and the bound on its attempts.                      *)
PoolInv == TypeOK /\ LoopInv /\ AttemptBound

Phase(r) == IF pc[r] = "idle" THEN "idle"
            ELSE IF Attempting(r) THEN "attempting" ELSE "searching"

Promise == INSTANCE Rotation WITH
    phase <- [r \in Request |-> Phase(r)],
    attempts <- [r \in Request |-> Attempted(r)],
    delivering <- yielded

(* The rotation loop over the health rules keeps the caller's promise.     *)
KeepsPromise == Promise!Spec

(* What the health specification says of 429: every account of the pool is *)
(* suspended or cooling down.                                              *)
SuspendedIsWholePool ==
    [][\A r \in Request : pc[r] = "pick" /\ out'[r] = "suspended" =>
           HealthyOf(Selectable, ModelOf[r]) = {}]_vars
=============================================================================
