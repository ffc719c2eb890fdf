----------------------------- MODULE WbCatalog -----------------------------
(***************************************************************************)
(* The model catalogue of one WorkBuddy domain: load_models with its       *)
(* cache, its negative cache and its single-flight lock, over the tokens   *)
(* of WbTokens.  A loader goes through ensure_token like every other       *)
(* caller.  The code between two awaits is one step; whether a cache is    *)
(* still young is all that is kept of its age.  force=True has no caller.  *)
(***************************************************************************)
EXTENDS WbTokens, FiniteSetsExt

CONSTANTS V3Routes,    \* how often /v3/config is asked, once per user agent
          EntPaths     \* how many enterprise endpoints are tried in turn

ASSUME AccountNumbers == Accounts \subseteq Nat   \* in the order of their uids

VARIABLES enabled,     \* accounts the user has not switched off
          cache,       \* [of: None, or the account whose models are kept; young]
          negative,    \* whether the negative cache holds
          loading,     \* the single-flight lock: the caller that holds it, or None
          at,          \* the step of a load
          seen         \* history: an account was selectable at some time since the load began

catalogVars == <<enabled, cache, negative, loading, at, seen>>
loadVars    == <<cache, negative, loading, at>>
allVars     == <<tokenVars, catalogVars>>

NoModels == [of |-> None, young |-> FALSE]

CatalogInit == /\ TokenInit
               /\ enabled = Accounts
               /\ cache = NoModels /\ negative = FALSE /\ loading = None
               /\ at = [c \in Callers |-> "out"]
               /\ seen = [c \in Callers |-> FALSE]

Pool == {a \in enabled : row[a] # None}

(* What a caller has seen once the accounts that exist are those of r and  *)
(* those of e are enabled.                                                 *)
Watch(r, e) == seen' = [c \in Callers |-> at'[c] # "out"
                                         /\ ((at[c] # "out" /\ seen[c]) \/ \E a \in e : r[a] # None)]

Hit == cache.of # None /\ cache.young

-----------------------------------------------------------------------------
(* One answer of _fetch_union.  A probe finds models, none, is refused (an *)
(* error the code expects) or breaks (any other exception).                *)

Probe == {"models", "none", "refused", "broken"}

Failed(o) == o \in {"refused", "broken"}

(* One good route is enough; only if every route fails is the failure told. *)
V3Answer(probes) ==
    IF \E i \in DOMAIN probes : probes[i] = "models" THEN "models"
    ELSE IF \E i \in DOMAIN probes : probes[i] = "none" THEN "none" ELSE "refused"

(* The first endpoint that does not refuse is the answer. *)
EnterpriseAnswer(probes) ==
    LET open == {i \in DOMAIN probes : probes[i] # "refused"}
    IN  IF open = {} THEN "refused" ELSE probes[Min(open)]

(* Without models, a failure of either side is raised. *)
Union(v3, ent) ==
    IF "models" \in {v3, ent} THEN "models"
    ELSE IF Failed(v3) \/ Failed(ent) THEN "error" ELSE "nothing"

-----------------------------------------------------------------------------
(* load_models. *)

Step(c, to) == at' = [at EXCEPT ![c] = to]

(* A load ends; one that has models shows them before it is over. *)
Finish(c, result) == Step(c, IF result = "models" THEN "shown" ELSE "out")

LetGo(c) == loading' = IF loading = c THEN None ELSE loading

Load(c) == /\ at[c] = "out" /\ pc[c] = "idle"
           /\ Step(c, "pick")
           /\ UNCHANGED <<tokenVars, enabled, cache, negative, loading>>
           /\ Watch(row, enabled)

(* variant: an empty pool is not noticed before the caches are asked *)
PickAny(c) == /\ at[c] = "pick"
              /\ Step(c, "look")
              /\ UNCHANGED <<tokenVars, enabled, cache, negative, loading>>
              /\ Watch(row, enabled)

(* _pick_account, before the caches are looked at. *)
Pick(c) == /\ at[c] = "pick"
           /\ Step(c, IF Pool = {} THEN "nobody" ELSE "look")
           /\ UNCHANGED <<tokenVars, enabled, cache, negative, loading>>
           /\ Watch(row, enabled)

(* _clear_cache. *)
Nobody(c) == /\ at[c] = "nobody"
             /\ cache' = NoModels /\ negative' = FALSE
             /\ LetGo(c) /\ Finish(c, "nothing")
             /\ UNCHANGED <<tokenVars, enabled>>
             /\ Watch(row, enabled)

Look(c) == /\ at[c] = "look"
           /\ \/ Hit /\ Finish(c, "models")
              \/ ~Hit /\ negative /\ Finish(c, "nothing")
              \/ ~Hit /\ ~negative /\ Step(c, "queued")
           /\ UNCHANGED <<tokenVars, enabled, cache, negative, loading>>
           /\ Watch(row, enabled)

(* variant: under the lock the caches are not asked again *)
TakeBlind(c) == /\ at[c] = "queued" /\ loading = None
                /\ Step(c, "repick") /\ loading' = c
                /\ UNCHANGED <<tokenVars, enabled, cache, negative>>
                /\ Watch(row, enabled)

(* The lock is free: look again, and keep the lock only to fetch. *)
Take(c) == /\ at[c] = "queued" /\ loading = None
           /\ \/ Hit /\ Finish(c, "models") /\ UNCHANGED loading
              \/ ~Hit /\ negative /\ Finish(c, "nothing") /\ UNCHANGED loading
              \/ ~Hit /\ ~negative /\ Step(c, "repick") /\ loading' = c
           /\ UNCHANGED <<tokenVars, enabled, cache, negative>>
           /\ Watch(row, enabled)

(* The first account of the pool goes through ensure_token. *)
Repick(c) == /\ at[c] = "repick"
             /\ \/ Pool = {} /\ Step(c, "nobody") /\ UNCHANGED tokenVars
                \/ Step(c, "fetch") /\ \E a \in Pool : (\A b \in Pool : a <= b) /\ Use(c, a)
             /\ UNCHANGED <<enabled, cache, negative, loading>>
             /\ Watch(row, enabled)

(* variant: the lock is kept when the fetch fails *)
FetchStuck(c, result) ==
    /\ at[c] = "fetch" /\ pc[c] = "ready"
    /\ cache' = IF result = "models" THEN [of |-> acc[c], young |-> TRUE] ELSE cache
    /\ negative' = (result = "nothing" \/ negative)
    /\ Return(c) /\ Finish(c, result)
    /\ loading' = IF result = "error" THEN loading ELSE None
    /\ UNCHANGED enabled
    /\ Watch(row, enabled)

(* _load_and_cache: models are kept, an empty answer is remembered, and a  *)
(* failure is neither.                                                     *)
Fetch(c, result) ==
    /\ at[c] = "fetch" /\ pc[c] = "ready"
    /\ cache' = IF result = "models" THEN [of |-> acc[c], young |-> TRUE] ELSE cache
    /\ negative' = (result = "nothing" \/ negative)
    /\ Return(c) /\ Finish(c, result)
    /\ LetGo(c)
    /\ UNCHANGED enabled
    /\ Watch(row, enabled)

(* ensure_token raised. *)
NoToken(c) == /\ at[c] = "fetch" /\ pc[c] = "failed"
              /\ Return(c) /\ LetGo(c) /\ Finish(c, "error")
              /\ UNCHANGED <<enabled, cache, negative>>
              /\ Watch(row, enabled)

Answers == {Union(V3Answer(v), EnterpriseAnswer(e)) :
              v \in [1 .. V3Routes -> Probe], e \in [1 .. EntPaths -> Probe]}

Leave(c) == /\ at[c] = "shown"
            /\ Step(c, "out")
            /\ UNCHANGED <<tokenVars, enabled, cache, negative, loading>>
            /\ Watch(row, enabled)

Loading(c) == \/ Pick(c) \/ Nobody(c) \/ Look(c) \/ Take(c) \/ Repick(c) \/ NoToken(c) \/ Leave(c)
              \/ \E result \in Answers : Fetch(c, result)

-----------------------------------------------------------------------------
(* Everything else. *)

CacheAges == cache.young /\ cache' = [cache EXCEPT !.young = FALSE] /\ UNCHANGED negative

NegativeEnds == negative /\ negative' = FALSE /\ UNCHANGED cache

Time == /\ CacheAges \/ NegativeEnds
        /\ UNCHANGED <<tokenVars, enabled, loading, at, seen>>

Switch(a) == /\ row[a] # None
             /\ enabled' = IF a \in enabled THEN enabled \ {a} ELSE enabled \cup {a}
             /\ UNCHANGED <<tokenVars, loadVars>>
             /\ Watch(row, enabled')

(* A deleted account comes back enabled. *)
Change == /\ Around
          /\ enabled' = enabled \cup {a \in Accounts : row'[a] = None}
          /\ UNCHANGED loadVars
          /\ Watch(row', enabled')

Using(c) == at[c] \in {"out", "fetch"} /\ Ensure(c) /\ UNCHANGED catalogVars

(* A chat request, or another use of an account. *)
Serve(c) == /\ at[c] = "out"
            /\ Return(c) \/ \E a \in Pool : Use(c, a)
            /\ UNCHANGED catalogVars

Stop == /\ Restart
        /\ cache' = NoModels /\ negative' = FALSE /\ loading' = None
        /\ at' = [c \in Callers |-> "out"]
        /\ seen' = [c \in Callers |-> FALSE]
        /\ UNCHANGED enabled

CatalogNext == \/ Time \/ Change \/ Stop
               \/ \E a \in Accounts : Switch(a)
               \/ \E c \in Callers : Load(c) \/ Loading(c) \/ Using(c) \/ Serve(c)

CatalogSpec == CatalogInit /\ [][CatalogNext]_allVars

-----------------------------------------------------------------------------
(* Properties. *)

(* The caches and the loads keep their types. *)
CatalogTypeOK ==
    /\ TokenTypeOK
    /\ enabled \subseteq Accounts
    /\ cache \in [of : Accounts \cup {None}, young : BOOLEAN]
    /\ negative \in BOOLEAN /\ loading \in Callers \cup {None}
    /\ at \in [Callers -> {"out", "pick", "nobody", "look", "queued", "repick", "fetch", "shown"}]
    /\ seen \in [Callers -> BOOLEAN]

(* BUG-008: whoever goes to the upstream holds the lock, and neither cache *)
(* answers the question it is asking.                                      *)
OneFetch == \A c \in Callers : at[c] = "fetch" => loading = c /\ ~Hit /\ ~negative

(* BUG-007: a load during which no account could be selected at any time   *)
(* shows no models, whatever the caches hold and other loads are doing.    *)
EmptyPoolShowsNothing == \A c \in Callers : at[c] = "shown" => seen[c]

(* Who holds the lock of the catalogue or of an account is on the way to   *)
(* giving it back, so that nobody waits for ever.                          *)
LocksMove ==
    /\ loading # None => at[loading] \in {"nobody", "repick", "fetch"}
    /\ \A a \in Accounts : lock[a] # None =>
          acc[lock[a]] = a /\ pc[lock[a]] \in {"reread", "decide", "asked", "answered"}

(* What holds of the tokens, the caches and their locks at all times.      *)
CatalogInv == CatalogTypeOK /\ LockHeld /\ LocksMove

(* What a refresh may do: it is made once, and it brings nothing back.     *)
RefreshesRight == RefreshedOnce /\ DeletedStays

(* Said of the catalogue: "目录缓存 1h（对齐 2api 谱系；失败负缓存 5min）".    *)
(* A fetch that did not bring models is not repeated before the negative   *)
(* cache has ended.                                                        *)
FailureRemembered ==
    [][\A c \in Callers : (at[c] = "fetch" /\ pc[c] = "ready" /\ at'[c] = "out") =>
          negative' \/ Pool = {} \/ loading' # None]_allVars
=============================================================================
