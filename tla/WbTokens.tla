------------------------------ MODULE WbTokens ------------------------------
(***************************************************************************)
(* The access tokens of WorkBuddy accounts: ensure_token, which every use  *)
(* of an account goes through (a chat request, the model catalogue,        *)
(* check-in, quota), and refresh_token, while the user logs in again or    *)
(* deletes the account and the relay may be stopped at any moment.         *)
(*                                                                         *)
(* A token is [login, n]: the login it descends from and a number of its   *)
(* own.  One write of the store is one step (AccountStore).                *)
(***************************************************************************)
EXTENDS Places, Naturals, FiniteSets

CONSTANTS Accounts, Callers,
          MaxTokens            \* bound: tokens the upstream issues


VARIABLES row,        \* the stored account: None or [access, refresh]
          upstream,   \* upstream: which number it accepts as refresh token of a login
          issued,     \* upstream: the number of tokens issued
          stale,      \* numbers of the access tokens that are about to expire
          lock,       \* _refresh_locks: the caller that holds the lock of an account
          acc, held, got,  \* a caller: its account, the row it goes by and the
                           \* answer to its refresh
          spent,      \* history: access tokens for which the upstream gave another one
          torn        \* history: accounts of which an answer was lost, or that
                      \* were logged in during a refresh

storeVars  == <<row, upstream, issued, spent>>
callerVars == <<pc, acc, held, got>>
tokenVars  == <<row, upstream, issued, stale, lock, pc, acc, held, got, spent, torn>>

Numbers == 1 .. MaxTokens
Token   == [login : Numbers, n : Numbers]
Row     == [access : Token, refresh : Token]
Answer  == [access : Token, refresh : Token \cup {None}]

ASSUME TokenAssumption == /\ MaxTokens \in Nat
                          /\ None \notin Accounts \cup Callers \cup Numbers \cup Token \cup Row \cup Answer

TokenInit == /\ row = [a \in Accounts |-> None]
             /\ upstream = [l \in Numbers |-> None]
             /\ issued = 0 /\ stale = {} /\ spent = {} /\ torn = {}
             /\ lock = [a \in Accounts |-> None]
             /\ pc = [c \in Callers |-> "idle"]
             /\ acc = [c \in Callers |-> None]
             /\ held = [c \in Callers |-> None]
             /\ got = [c \in Callers |-> None]

Release(c)    == lock' = [lock EXCEPT ![acc[c]] = None]

InFlight(a) == {c \in Callers : acc[c] = a /\ pc[c] \in {"reread", "decide", "asked", "answered"}}

-----------------------------------------------------------------------------
(* ensure_token. *)

(* The caller found the account; it goes by the row it read. *)
Use(c, a) == /\ pc[c] = "idle" /\ row[a] # None
             /\ acc' = [acc EXCEPT ![c] = a]
             /\ held' = [held EXCEPT ![c] = row[a]]
             /\ got' = [got EXCEPT ![c] = None]
             /\ Goto(c, "found")
             /\ UNCHANGED <<storeVars, stale, lock, torn>>

IsStale(r) == r.access.n \in stale

Check(c) == /\ pc[c] = "found"
            /\ Goto(c, IF IsStale(held[c]) THEN "waiting" ELSE "ready")
            /\ UNCHANGED <<storeVars, stale, lock, acc, held, got, torn>>

(* variant: the lock is not waited for *)
AcquireUnlocked(c) == /\ pc[c] = "waiting"
                      /\ lock' = [lock EXCEPT ![acc[c]] = c]
                      /\ Goto(c, "reread")
                      /\ UNCHANGED <<storeVars, stale, acc, held, got, torn>>

Acquire(c) == /\ pc[c] = "waiting" /\ lock[acc[c]] = None
              /\ lock' = [lock EXCEPT ![acc[c]] = c]
              /\ Goto(c, "reread")
              /\ UNCHANGED <<storeVars, stale, acc, held, got, torn>>

(* variant: the second look at the store is left out *)
RereadNot(c) == /\ pc[c] = "reread"
                /\ Goto(c, "decide")
                /\ UNCHANGED <<storeVars, stale, lock, acc, held, got, torn>>

(* A row that is gone leaves the caller with the one it had. *)
Reread(c) == /\ pc[c] = "reread"
             /\ held' = [held EXCEPT ![c] = IF row[acc[c]] = None THEN @ ELSE row[acc[c]]]
             /\ Goto(c, "decide")
             /\ UNCHANGED <<storeVars, stale, lock, acc, got, torn>>

Decide(c) == /\ pc[c] = "decide"
             /\ \/ IsStale(held[c]) /\ Goto(c, "asked") /\ UNCHANGED lock
                \/ ~IsStale(held[c]) /\ Goto(c, "ready") /\ Release(c)
             /\ UNCHANGED <<storeVars, stale, acc, held, got, torn>>

-----------------------------------------------------------------------------
(* refresh_token: the upstream accepts the refresh token it issued last    *)
(* for a login; it may put another one in its place.                       *)

Accepts(t) == upstream[t.login] = t.n

Accept(c, rotates) ==
    LET login == held[c].refresh.login
        new   == [login |-> login, n |-> issued + 1]
    IN  /\ pc[c] = "asked" /\ Accepts(held[c].refresh) /\ issued < MaxTokens
        /\ issued' = issued + 1
        /\ spent' = spent \cup {held[c].access.n}
        /\ upstream' = IF rotates THEN [upstream EXCEPT ![login] = new.n] ELSE upstream
        /\ got' = [got EXCEPT ![c] = [access |-> new, refresh |-> IF rotates THEN new ELSE None]]
        /\ Goto(c, "answered")
        /\ UNCHANGED <<row, stale, lock, acc, held, torn>>

(* No answer, or one that says no: the caller raises. *)
Refused(c) == /\ pc[c] = "asked"
              /\ Goto(c, "failed") /\ Release(c)
              /\ UNCHANGED <<storeVars, stale, acc, held, got, torn>>

(* The connection breaks, or the answer has no token, after the upstream   *)
(* has done its part.                                                      *)
LostAnswer(c) == /\ pc[c] = "answered"
                 /\ Goto(c, "failed") /\ Release(c)
                 /\ torn' = torn \cup {acc[c]}
                 /\ UNCHANGED <<storeVars, stale, acc, held, got>>

(* variant: an answer without a refresh token takes the old one away *)
PatchedBlank(r, g) == [access |-> g.access, refresh |-> g.refresh]

Patched(r, g) == [access |-> g.access, refresh |-> IF g.refresh = None THEN r.refresh ELSE g.refresh]

(* variant: an account that is gone is written again *)
WriteBack(c) == /\ pc[c] = "answered"
                /\ row' = [row EXCEPT ![acc[c]] = Patched(IF @ = None THEN held[c] ELSE @, got[c])]
                /\ held' = [held EXCEPT ![c] = row'[acc[c]]]
                /\ Goto(c, "ready") /\ Release(c)
                /\ UNCHANGED <<upstream, issued, spent, stale, acc, got, torn>>

(* variant: a new refresh token is not stored *)
WriteAccess(c) == /\ pc[c] = "answered" /\ row[acc[c]] # None
                  /\ row' = [row EXCEPT ![acc[c]].access = got[c].access]
                  /\ held' = [held EXCEPT ![c] = row'[acc[c]]]
                  /\ Goto(c, "ready") /\ Release(c)
                  /\ UNCHANGED <<upstream, issued, spent, stale, acc, got, torn>>

(* update_account merges the new tokens into the row as it is now, and     *)
(* raises KeyError when there is none any more.                            *)
Write(c) == /\ pc[c] = "answered"
            /\ \/ /\ row[acc[c]] # None
                  /\ row' = [row EXCEPT ![acc[c]] = Patched(@, got[c])]
                  /\ held' = [held EXCEPT ![c] = row'[acc[c]]]
                  /\ Goto(c, "ready")
               \/ /\ row[acc[c]] = None
                  /\ Goto(c, "failed")
                  /\ UNCHANGED <<row, held>>
            /\ Release(c)
            /\ UNCHANGED <<upstream, issued, spent, stale, acc, got, torn>>

Return(c) == /\ pc[c] \in {"ready", "failed"}
             /\ Goto(c, "idle")
             /\ acc' = [acc EXCEPT ![c] = None]
             /\ held' = [held EXCEPT ![c] = None]
             /\ got' = [got EXCEPT ![c] = None]
             /\ UNCHANGED <<storeVars, stale, lock, torn>>

Ensure(c) == \/ Check(c) \/ Acquire(c) \/ Reread(c) \/ Decide(c)
             \/ (\E rotates \in BOOLEAN : Accept(c, rotates)) \/ Refused(c) \/ LostAnswer(c) \/ Write(c)

-----------------------------------------------------------------------------
(* The user, time, and the end of the process. *)

Login(a) ==
    LET t == [login |-> issued + 1, n |-> issued + 1] IN
    /\ issued < MaxTokens
    /\ issued' = issued + 1
    /\ upstream' = [upstream EXCEPT ![t.login] = t.n]
    /\ row' = [row EXCEPT ![a] = [access |-> t, refresh |-> t]]
    /\ torn' = IF InFlight(a) = {} THEN torn \ {a} ELSE torn \cup {a}
    /\ UNCHANGED <<spent, stale, lock, callerVars>>

Delete(a) == /\ row[a] # None
             /\ row' = [row EXCEPT ![a] = None]
             /\ UNCHANGED <<upstream, issued, spent, stale, lock, callerVars, torn>>

(* The access token of a stored account comes near its end. *)
Expire(n) == /\ n \notin stale
             /\ \E a \in Accounts : row[a] # None /\ row[a].access.n = n
             /\ stale' = stale \cup {n}
             /\ UNCHANGED <<storeVars, lock, callerVars, torn>>

Restart == /\ torn' = torn \cup {acc[c] : c \in {x \in Callers : pc[x] = "answered"}}
           /\ lock' = [a \in Accounts |-> None]
           /\ pc' = [c \in Callers |-> "idle"]
           /\ acc' = [c \in Callers |-> None]
           /\ held' = [c \in Callers |-> None]
           /\ got' = [c \in Callers |-> None]
           /\ UNCHANGED <<storeVars, stale>>

Around == \/ \E a \in Accounts : Login(a) \/ Delete(a)
          \/ \E n \in Numbers : Expire(n)

TokenNext == Around \/ Restart \/ \E c \in Callers : Ensure(c) \/ Return(c) \/ \E a \in Accounts : Use(c, a)

TokenSpec == TokenInit /\ [][TokenNext]_tokenVars

-----------------------------------------------------------------------------
(* Properties. *)

(* Rows, tokens, locks and callers keep their types. *)
TokenTypeOK ==
    /\ row \in [Accounts -> Row \cup {None}]
    /\ upstream \in [Numbers -> Numbers \cup {None}]
    /\ issued \in 0 .. MaxTokens /\ stale \subseteq Numbers /\ spent \subseteq Numbers
    /\ lock \in [Accounts -> Callers \cup {None}]
    /\ pc \in [Callers -> {"idle", "found", "waiting", "reread", "decide", "asked", "answered",
                           "ready", "failed"}]
    /\ acc \in [Callers -> Accounts \cup {None}]
    /\ held \in [Callers -> Row \cup {None}]
    /\ got \in [Callers -> Answer \cup {None}]
    /\ torn \subseteq Accounts

(* A caller between the second look at the store and the end of its        *)
(* refresh holds the lock of its account, so that there is only one.       *)
LockHeld == \A c \in Callers :
    pc[c] \in {"reread", "decide", "asked", "answered"} => acc[c] # None /\ lock[acc[c]] = c

(* However many callers find the token of a stored account about to        *)
(* expire, the upstream replaces it once; unless an answer was lost or the *)
(* user logged in during the refresh.  (An account deleted during the      *)
(* refresh is refreshed again by every caller that waits: Reread.)         *)
RefreshedOnce ==
    [][\A c \in Callers : (pc[c] = "asked" /\ pc'[c] = "answered" /\ row[acc[c]] # None) =>
          held[c].access.n \notin spent \/ acc[c] \in torn]_tokenVars

(* The stored tokens are those of one login, and the refresh token is the  *)
(* one the upstream accepts, once a refresh in flight has been written.    *)
StoredIsAccepted ==
    \A a \in Accounts :
      (row[a] # None /\ a \notin torn /\ ~\E c \in InFlight(a) : pc[c] = "answered") =>
        Accepts(row[a].refresh) /\ row[a].access.login = row[a].refresh.login

(* A refresh never brings back an account the user deleted. *)
DeletedStays ==
    [][\A a \in Accounts : (row[a] = None /\ row'[a] # None) => row'[a].access.n = row'[a].access.login]_tokenVars
=============================================================================
