------------------------------- MODULE WbLogin -------------------------------
(***************************************************************************)
(* WorkBuddy device-authorisation logins (platforms/workbuddy/oauth.py):   *)
(* start_login puts a slot in the table _slots and starts a poller task;   *)
(* the front end asks login_status until it gets an answer, or cancels.    *)
(* Several logins, of either realm, run side by side in one event loop, so *)
(* an action is the code between two awaits.  Time is what is left of each *)
(* login's LOGIN_TIMEOUT_S.  The payloads, the tokens and the fields of    *)
(* the stored row are abstracted to the account's uid.                     *)
(***************************************************************************)
EXTENDS Naturals, FiniteSets

CONSTANTS
  Logins,      \* login ids; each is started at most once
  Realms,      \* the two account pools (WorkBuddy CN and global)
  Accounts,    \* accounts a user may authorise in the browser
  Profile,     \* the realm a login is started for
  Family,      \* the realm an account's domain belongs to
  NoUid,        \* no account
  LifeTime     \* LOGIN_TIMEOUT_S in ticks: the bound of the clock

ASSUME LoginAssumption ==
  /\ Profile \in [Logins -> Realms]
  /\ Family \in [Accounts -> Realms]
  /\ NoUid \notin Accounts \cup Logins
  /\ LifeTime \in Nat \ {0}

(* A login name used as a uid is the fallback uid "wb_" + state.           *)
Uids == Accounts \cup Logins

Pollers == {"loop", "asking", "account", "writing", "prefetch"}

VARIABLES
  slots,      \* the keys of _slots
  status,     \* status and error of each slot object
  left,       \* what is left of a login's time
  poller,     \* where each login's poller task is awaiting
  granted,    \* the account whose token the poller has got
  archived,   \* the uid the login has written to its pool
  pool,       \* the uids stored in each realm's pool
  client      \* what the front end knows of its login

loginVars == <<slots, status, left, poller, granted, archived, pool, client>>

LoginInit ==
  /\ slots = {}
  /\ status = [l \in Logins |-> "pending"]
  /\ left = [l \in Logins |-> LifeTime]
  /\ poller = [l \in Logins |-> "idle"]
  /\ granted = [l \in Logins |-> NoUid]
  /\ archived = [l \in Logins |-> NoUid]
  /\ pool = [r \in Realms |-> {}]
  /\ client = [l \in Logins |-> "absent"]

(***************************************************************************)
(* The poller task.                                                        *)
(***************************************************************************)
Start(l) ==
  /\ poller[l] = "idle"
  /\ slots' = slots \cup {l}
  /\ poller' = [poller EXCEPT ![l] = "loop"]
  /\ client' = [client EXCEPT ![l] = "asking"]
  /\ UNCHANGED <<status, left, granted, archived, pool>>

End(l, s) ==
  /\ poller' = [poller EXCEPT ![l] = "end"]
  /\ status' = [status EXCEPT ![l] = s]

Ask(l) ==
  /\ poller[l] = "loop"
  /\ poller' = [poller EXCEPT ![l] = "asking"]
  /\ UNCHANGED <<slots, status, left, granted, archived, pool, client>>

(* variant: the loop does not look at the deadline *)
NotYet_Forever(l) ==
  /\ poller[l] = "asking"
  /\ poller' = [poller EXCEPT ![l] = "loop"]
  /\ UNCHANGED <<slots, status, left, granted, archived, pool, client>>

(* Not authorised yet, or the network failed: the deadline is looked at    *)
(* between two requests only.                                              *)
NotYet(l) ==
  /\ poller[l] = "asking"
  /\ \/ /\ left[l] > 0
        /\ poller' = [poller EXCEPT ![l] = "loop"]
        /\ UNCHANGED status
     \/ /\ left[l] = 0
        /\ End(l, "timeout")
  /\ UNCHANGED <<slots, left, granted, archived, pool, client>>

Granted(l) ==
  /\ poller[l] = "asking"
  /\ \E a \in Accounts : granted' = [granted EXCEPT ![l] = a]
  /\ poller' = [poller EXCEPT ![l] = "account"]
  /\ UNCHANGED <<slots, status, left, archived, pool, client>>

(* variant: the slot is reported before the account has been stored *)
Identified_Early(l) ==
  /\ poller[l] = "account"
  /\ poller' = [poller EXCEPT ![l] = "writing"]
  /\ status' = [status EXCEPT ![l] = "success"]
  /\ UNCHANGED <<slots, left, granted, archived, pool, client>>

(* variant: no fallback when login/account did not name the account *)
Identified_NoFallback(l) ==
  /\ poller[l] = "account"
  /\ poller' = [poller EXCEPT ![l] = "writing"]
  /\ \E uid \in {granted[l], NoUid} : granted' = [granted EXCEPT ![l] = uid]
  /\ UNCHANGED <<slots, status, left, archived, pool, client>>

(* login/account names the account, or fails and the uid falls back to the *)
(* state.  A domain of the other realm is refused; an unknown one passes.  *)
Identified(l) ==
  /\ poller[l] = "account"
  /\ \/ /\ poller' = [poller EXCEPT ![l] = "writing"]
        /\ \E uid \in {granted[l], l} : granted' = [granted EXCEPT ![l] = uid]
        /\ UNCHANGED status
     \/ /\ Family[granted[l]] # Profile[l]
        /\ End(l, "refused")
        /\ UNCHANGED granted
  /\ UNCHANGED <<slots, left, archived, pool, client>>

Archive(l) ==
  /\ poller[l] = "writing"
  /\ \/ /\ pool' = [pool EXCEPT ![Profile[l]] = @ \cup {granted[l]}]
        /\ archived' = [archived EXCEPT ![l] = granted[l]]
        /\ poller' = [poller EXCEPT ![l] = "prefetch"]
        /\ UNCHANGED status
     \/ /\ End(l, "error")
        /\ UNCHANGED <<pool, archived>>
  /\ UNCHANGED <<slots, left, granted, client>>

Prefetched(l) ==
  /\ poller[l] = "prefetch"
  /\ End(l, "success")
  /\ UNCHANGED <<slots, left, granted, archived, pool, client>>

(***************************************************************************)
(* The front end's calls.                                                  *)
(***************************************************************************)
(* variant: the slot goes, the task stays *)
CancelTasks_SlotOnly(S) == UNCHANGED <<poller, status, archived, pool>>

(* task.cancel() on every running task of the set.  A row being written by *)
(* the worker thread may still reach the file.                             *)
CancelTasks(S) ==
  LET running == {l \in S : poller[l] \in Pollers} IN
  /\ poller' = [l \in Logins |-> IF l \in running THEN "end" ELSE poller[l]]
  /\ status' = [l \in Logins |-> IF l \in running THEN "cancelled" ELSE status[l]]
  /\ \E W \in SUBSET {l \in running : poller[l] = "writing"} :
       /\ archived' = [l \in Logins |-> IF l \in W THEN granted[l] ELSE archived[l]]
       /\ pool' = [r \in Realms |->
                     pool[r] \cup {granted[l] : l \in {k \in W : Profile[k] = r}}]

Stale(l) == status[l] # "pending" \/ left[l] = 0

Asking(l) == client[l] = "asking"

(* The slot is gone: the front end is told the login does not exist.       *)
StatusUnknown(l) ==
  /\ Asking(l)
  /\ l \notin slots
  /\ client' = [client EXCEPT ![l] = "unknown"]
  /\ UNCHANGED <<slots, status, left, poller, granted, archived, pool>>

(* variant: the answer is given but the slot stays *)
StatusAnswered_Keeps(l) ==
  /\ Asking(l)
  /\ l \in slots
  /\ status[l] # "pending"
  /\ client' = [client EXCEPT ![l] = status[l]]
  /\ UNCHANGED <<slots, status, left, poller, granted, archived, pool>>

(* A finished or expired slot is answered and popped; an expired one whose *)
(* poller is still awaiting is marked failed, but its task is left alone.  *)
StatusAnswered(l) ==
  /\ Asking(l)
  /\ l \in slots
  /\ Stale(l)
  /\ slots' = slots \ {l}
  /\ status' = [status EXCEPT ![l] = IF @ = "pending" THEN "timeout" ELSE @]
  /\ client' = [client EXCEPT ![l] = status'[l]]
  /\ UNCHANGED <<left, poller, granted, archived, pool>>

(* variant: the clean-up does not look whether the other slots are stale *)
StatusPending_DropsAll(l) ==
  /\ Asking(l)
  /\ l \in slots
  /\ ~Stale(l)
  /\ slots' = {l}
  /\ CancelTasks(slots \ {l})
  /\ UNCHANGED <<left, granted, client>>

(* A pending slot is answered, and every other stale slot is dropped.      *)
StatusPending(l) ==
  /\ Asking(l)
  /\ l \in slots
  /\ ~Stale(l)
  /\ LET dropped == {k \in slots \ {l} : Stale(k)} IN
       /\ slots' = slots \ dropped
       /\ CancelTasks(dropped)
  /\ UNCHANGED <<left, granted, client>>

Cancel(l) ==
  /\ Asking(l)
  /\ slots' = slots \ {l}
  /\ CancelTasks({l} \cap slots)
  /\ client' = [client EXCEPT ![l] = "left"]
  /\ UNCHANGED <<left, granted>>

(* The page is closed without a call.                                      *)
Leave(l) ==
  /\ Asking(l)
  /\ client' = [client EXCEPT ![l] = "left"]
  /\ UNCHANGED <<slots, status, left, poller, granted, archived, pool>>

Tick ==
  /\ \E l \in Logins : poller[l] # "idle" /\ left[l] > 0
  /\ left' = [l \in Logins |-> IF poller[l] # "idle" /\ left[l] > 0 THEN left[l] - 1 ELSE left[l]]
  /\ UNCHANGED <<slots, status, poller, granted, archived, pool, client>>

Step(l) == Ask(l) \/ NotYet(l) \/ Granted(l) \/ Identified(l) \/ Archive(l) \/ Prefetched(l)

Query(l) == StatusUnknown(l) \/ StatusAnswered(l) \/ StatusPending(l)

LoginNext ==
  \/ \E l \in Logins : Start(l) \/ Step(l) \/ Query(l) \/ Cancel(l) \/ Leave(l)
  \/ Tick

LoginSpec == LoginInit /\ [][LoginNext]_loginVars

(* The event loop runs every ready task, requests time out, the front end  *)
(* asks every two seconds while its dialog is open, and time passes.       *)
Fairness == WF_loginVars(Tick) /\ \A l \in Logins : WF_loginVars(Step(l)) /\ WF_loginVars(Query(l))

FairLoginSpec == LoginSpec /\ Fairness

-----------------------------------------------------------------------------
Outcomes == {"pending", "success", "timeout", "cancelled", "refused", "error"}

LoginTypeOK ==
  /\ slots \subseteq Logins
  /\ status \in [Logins -> Outcomes]
  /\ left \in [Logins -> 0..LifeTime]
  /\ poller \in [Logins -> Pollers \cup {"idle", "end"}]
  /\ granted \in [Logins -> Uids \cup {NoUid}]
  /\ archived \in [Logins -> Uids \cup {NoUid}]
  /\ pool \in [Realms -> SUBSET Uids]
  /\ client \in [Logins -> Outcomes \cup {"absent", "asking", "unknown", "left"}]

(* Parallel logins leave each other alone: a login that still has time is  *)
(* only ever cancelled once its own dialog is gone, whatever is asked      *)
(* about, or cancelled for, the others (oauth.py:203-239).                 *)
NotCancelledByOthers ==
  \A l \in Logins : status[l] = "cancelled" /\ left[l] > 0 => client[l] = "left"

(* No poller is leaked: one that works without a slot is past its deadline *)
(* and in its last request (oauth.py:230-239).                             *)
NoLeakedPoller ==
  \A l \in Logins : poller[l] \in Pollers /\ l \notin slots => left[l] = 0

(* A success is only reported for an account that is in the pool of the    *)
(* realm the login was started for (oauth.py:129-131, 216).                *)
SuccessIsStored ==
  \A l \in Logins :
    client[l] = "success" => archived[l] # NoUid /\ archived[l] \in pool[Profile[l]]

(* The strengthening of the three above: what a slot, its poller and its  *)
(* pool row say of each other.                                             *)
Unstarted(l) ==
  poller[l] = "idle" =>
    l \notin slots /\ status[l] = "pending" /\ client[l] = "absent" /\ left[l] = LifeTime
Overdue(l) == poller[l] \in Pollers /\ status[l] # "pending" => left[l] = 0 /\ l \notin slots
Identity(l) == poller[l] \in {"account", "writing", "prefetch"} => granted[l] # NoUid
Filed(l) == archived[l] # NoUid => archived[l] \in pool[Profile[l]]
Recorded(l) ==
  poller[l] = "prefetch" \/ status[l] = "success" \/ client[l] = "success" => archived[l] # NoUid

SlotInv ==
  /\ NotCancelledByOthers
  /\ NoLeakedPoller
  /\ \A l \in Logins :
       Unstarted(l) /\ Overdue(l) /\ Identity(l) /\ Filed(l) /\ Recorded(l)

(* What holds of the login table at all times: no login is cancelled for   *)
(* another, no poller is leaked and no success is reported in vain.        *)
LoginInv == LoginTypeOK /\ SlotInv /\ SuccessIsStored

(* Every poller ends, whether or not anybody asks about it (oauth.py:118). *)
PollersEnd == \A l \in Logins : poller[l] \in Pollers ~> poller[l] = "end"

(* A dialog that stays open is answered and its slot is removed            *)
(* (oauth.py:203-224).                                                     *)
DialogAnswered ==
  \A l \in Logins : client[l] = "asking" ~> client[l] # "asking" /\ (l \in slots => client[l] = "left")

(* What oauth.py:204 says: a finished slot is popped by the query about    *)
(* it, so the front end learns how its login ended.                        *)
ResultDelivered ==
  \A l \in Logins : client[l] = "unknown" => status[l] # "success"

=============================================================================
