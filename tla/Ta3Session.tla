----------------------------- MODULE Ta3Session -----------------------------
(***************************************************************************)
(* The TA+3 session of the relay: one stored row (storage.py), refreshed   *)
(* by session.ensure_token under a lock, replaced by browser or IM logins  *)
(* (oauth.py, callback.py), cleared by logout, and used by                 *)
(* catalog_sync.sync_models, whose catalogue is left out.  Everything runs *)
(* in one event loop, so an action is the code between two awaits; a write *)
(* of the state file is one step because every writer holds                *)
(* storage._asyncio_lock.  A token is known by the login it descends from  *)
(* and how often it has been rotated.                                      *)
(***************************************************************************)
EXTENDS Naturals, FiniteSets

CONSTANTS
  Callers,   \* requests and commands that run sync_models
  Dialogs,   \* browser logins; each is started at most once
  IM,        \* the silent login through the IM client
  None,
  MaxGen     \* bound on the rotations of one refresh token

Owners == Dialogs \cup {IM}
RefreshTokens == [login : Dialogs, gen : 0..MaxGen]
Rows == [owner : Owners, refresh : RefreshTokens \cup {None}]
Answers == {"rotated", "renewed", "refused"}

ASSUME SessionAssumption ==
  /\ MaxGen \in Nat
  /\ IM \notin Dialogs
  /\ None \notin Owners \cup Callers \cup RefreshTokens \cup Rows \cup Answers

VARIABLES
  row,       \* ta3_auth in the state file
  live,      \* the generation the upstream accepts for each login
  revoked,   \* logins the upstream has ended on its own
  lost,      \* logins whose last rotation never reached the state file
  lock,      \* the holder of the refresh lock
  pc,        \* where each caller is
  held,      \* the refresh token a caller has read under the lock
  answer,    \* what the upstream answered to a refresh
  again,     \* the caller has already had its 401
  active,    \* callback._active
  settled,   \* how each callback server was settled
  task,      \* oauth._active_tasks
  dialog     \* where each dialog's _wait_and_exchange is

vars == <<row, live, revoked, lost, lock, pc, held, answer, again,
          active, settled, task, dialog>>
upstream == <<live, revoked, lost>>
calls == <<lock, pc, held, answer, again>>
logins == <<active, settled, task, dialog>>

Init ==
  /\ row = None
  /\ live = [d \in Dialogs |-> 0] /\ revoked = {} /\ lost = {}
  /\ lock = None
  /\ pc = [c \in Callers |-> "idle"]
  /\ held = [c \in Callers |-> None]
  /\ answer = [c \in Callers |-> None]
  /\ again = [c \in Callers |-> FALSE]
  /\ active = None /\ task = None
  /\ settled = [d \in Dialogs |-> "open"]
  /\ dialog = [d \in Dialogs |-> "absent"]

(***************************************************************************)
(* The state file: a login or a refresh without a refresh token keeps the  *)
(* one that is stored.                                                     *)
(***************************************************************************)
SaveAuth(owner, token) ==
  row' = [owner |-> owner,
          refresh |-> IF token = None /\ row # None THEN row.refresh ELSE token]

(***************************************************************************)
(* sync_models, with ensure_token before the first fetch and after a 401.  *)
(***************************************************************************)
Return(c) ==
  /\ pc' = [pc EXCEPT ![c] = "idle"]
  /\ held' = [held EXCEPT ![c] = None]
  /\ answer' = [answer EXCEPT ![c] = None]
  /\ again' = [again EXCEPT ![c] = FALSE]

(* ensure_token reads the row before it asks for the lock.                 *)
Ensure(c) ==
  /\ pc[c] \in {"idle", "retry"}
  /\ row # None
  /\ \/ /\ row.refresh = None
        /\ pc' = [pc EXCEPT ![c] = "fetch"]
     \/ /\ row.refresh # None
        /\ pc' = [pc EXCEPT ![c] = "waiting"]
  /\ UNCHANGED <<row, upstream, lock, held, answer, again, logins>>

EnsureFails(c) ==
  /\ pc[c] = "retry"
  /\ row = None
  /\ Return(c)
  /\ UNCHANGED <<row, upstream, lock, logins>>

(* variant: the lock is not taken *)
Enter_Unlocked(c) ==
  /\ pc[c] = "waiting"
  /\ row # None
  /\ lock' = c
  /\ pc' = [pc EXCEPT ![c] = "asking"]
  /\ held' = [held EXCEPT ![c] = row.refresh]
  /\ UNCHANGED <<row, upstream, answer, again, logins>>

(* The row is read again under the lock; its refresh token is not checked  *)
(* again.                                                                  *)
Enter(c) ==
  /\ pc[c] = "waiting"
  /\ lock = None
  /\ \/ /\ row # None
        /\ lock' = c
        /\ pc' = [pc EXCEPT ![c] = "asking"]
        /\ held' = [held EXCEPT ![c] = row.refresh]
        /\ UNCHANGED <<answer, again>>
     \/ /\ row = None
        /\ Return(c)
        /\ UNCHANGED lock
  /\ UNCHANGED <<row, upstream, logins>>

Accepted(token) ==
  token # None /\ token.login \notin revoked /\ token.gen = live[token.login]

(* The upstream rotates the refresh token and the answer arrives.          *)
Rotated(c) ==
  /\ pc[c] = "asking"
  /\ Accepted(held[c])
  /\ live[held[c].login] < MaxGen
  /\ live' = [live EXCEPT ![held[c].login] = @ + 1]
  /\ lost' = lost \cup {held[c].login}     \* until it is saved
  /\ pc' = [pc EXCEPT ![c] = "answered"]
  /\ answer' = [answer EXCEPT ![c] = "rotated"]
  /\ UNCHANGED <<row, revoked, lock, held, again, logins>>

(* A new access token without a new refresh token.                         *)
Renewed(c) ==
  /\ pc[c] = "asking"
  /\ Accepted(held[c])
  /\ pc' = [pc EXCEPT ![c] = "answered"]
  /\ answer' = [answer EXCEPT ![c] = "renewed"]
  /\ UNCHANGED <<row, upstream, lock, held, again, logins>>

(* invalid_grant: the token has been used up, or the upstream ends the     *)
(* session on its own.                                                     *)
Refused(c) ==
  /\ pc[c] = "asking"
  /\ held[c] # None
  /\ revoked' = revoked \cup {held[c].login}
  /\ pc' = [pc EXCEPT ![c] = "answered"]
  /\ answer' = [answer EXCEPT ![c] = "refused"]
  /\ UNCHANGED <<row, live, lost, lock, held, again, logins>>

(* Any other failure, with the rotation done upstream or not.              *)
RefreshFails(c) ==
  /\ pc[c] = "asking"
  /\ \/ UNCHANGED upstream
     \/ /\ Accepted(held[c])
        /\ live[held[c].login] < MaxGen
        /\ live' = [live EXCEPT ![held[c].login] = @ + 1]
        /\ lost' = lost \cup {held[c].login}
        /\ UNCHANGED revoked
  /\ lock' = None
  /\ Return(c)
  /\ UNCHANGED <<row, logins>>

(* variant: the rotated refresh token is not taken over *)
NewToken_Dropped(c) == None

NewToken(c) ==
  IF answer[c] = "rotated"
  THEN [login |-> held[c].login, gen |-> held[c].gen + 1]
  ELSE None

Save(c) ==
  /\ pc[c] = "answered"
  /\ answer[c] \in {"rotated", "renewed"}
  /\ SaveAuth(held[c].login, NewToken(c))
  /\ lost' = IF answer[c] = "rotated" THEN lost \ {held[c].login} ELSE lost
  /\ lock' = None
  /\ pc' = [pc EXCEPT ![c] = "fetch"]
  /\ answer' = [answer EXCEPT ![c] = None]
  /\ held' = [held EXCEPT ![c] = None]
  /\ UNCHANGED <<live, revoked, again, logins>>

(* variant: the account is blanked, the tokens stay *)
Clear_Blank(c) ==
  /\ pc[c] = "answered"
  /\ answer[c] = "refused"
  /\ row' = IF row = None THEN None ELSE [row EXCEPT !.owner = None]
  /\ lock' = None
  /\ Return(c)
  /\ UNCHANGED <<upstream, logins>>

Clear(c) ==
  /\ pc[c] = "answered"
  /\ answer[c] = "refused"
  /\ row' = None
  /\ lock' = None
  /\ Return(c)
  /\ UNCHANGED <<upstream, logins>>

(* The catalogue arrives, or the fetch fails.                              *)
Fetched(c) ==
  /\ pc[c] = "fetch"
  /\ Return(c)
  /\ UNCHANGED <<row, upstream, lock, logins>>

Unauthorized(c) ==
  /\ pc[c] = "fetch"
  /\ ~again[c]
  /\ pc' = [pc EXCEPT ![c] = "retry"]
  /\ again' = [again EXCEPT ![c] = TRUE]
  /\ UNCHANGED <<row, upstream, lock, held, answer, logins>>

(***************************************************************************)
(* Logins.                                                                 *)
(***************************************************************************)
(* A server is settled once: by a callback, or without a result by whoever *)
(* stops it.  What the server of a finished dialog held is forgotten.      *)
Settled(d, how) ==
  IF d # None /\ settled[d] = "open" THEN [settled EXCEPT ![d] = how] ELSE settled

(* variant: the old server is not told that it has been replaced *)
StartBrowserLogin_KeepsOld(d) ==
  /\ dialog[d] = "absent"
  /\ active' = d
  /\ task' = d
  /\ dialog' = [dialog EXCEPT ![d] = "waiting"]
  /\ UNCHANGED <<row, upstream, calls, settled>>

(* The new callback server takes the place of the old one.                 *)
StartBrowserLogin(d) ==
  /\ dialog[d] = "absent"
  /\ settled' = Settled(active, "void")
  /\ active' = d
  /\ task' = d
  /\ dialog' = [dialog EXCEPT ![d] = "waiting"]
  /\ UNCHANGED <<row, upstream, calls>>

ImLogin ==
  /\ SaveAuth(IM, None)
  /\ UNCHANGED <<upstream, calls, logins>>

(* The browser calls back: with a code, or with a code for another state.  *)
Callback(d) ==
  /\ active = d
  /\ settled[d] = "open"
  /\ settled' \in {Settled(d, "code"), Settled(d, "void")}
  /\ UNCHANGED <<row, upstream, calls, active, task, dialog>>

Go(d, where) == dialog' = [dialog EXCEPT ![d] = where]

WaitEnds(d) ==
  /\ dialog[d] = "waiting"
  /\ Go(d, IF settled[d] = "code" THEN "exchanging" ELSE "failed")
  /\ UNCHANGED <<row, upstream, calls, active, settled, task>>

Exchanged(d) ==
  /\ dialog[d] = "exchanging"
  /\ \E token \in {None, [login |-> d, gen |-> 0]} : SaveAuth(d, token)
  /\ Go(d, "completed")
  /\ UNCHANGED <<upstream, calls, active, settled, task>>

ExchangeFails(d) ==
  /\ dialog[d] = "exchanging"
  /\ Go(d, "failed")
  /\ UNCHANGED <<row, upstream, calls, active, settled, task>>

(* variant: without the finally clause *)
Finally_NoStop(d) ==
  /\ dialog[d] \in {"failed", "completed"}
  /\ Go(d, "done")
  /\ UNCHANGED <<row, upstream, calls, active, settled, task>>

(* The finally clause stops whichever server is active.                    *)
Finally(d) ==
  /\ dialog[d] \in {"failed", "completed"}
  /\ settled' = [Settled(active, "stopped") EXCEPT ![d] = "void"]
  /\ active' = None
  /\ Go(d, "done")
  /\ UNCHANGED <<row, upstream, calls, task>>

(* login_status forgets a finished task; its answer is the dialog's.       *)
LoginStatus ==
  /\ task # None
  /\ dialog[task] = "done"
  /\ task' = None
  /\ UNCHANGED <<row, upstream, calls, active, settled, dialog>>

(* The active server is stopped and the task is cancelled.  One that waits *)
(* for the callback has no finally clause to run; one that exchanges the   *)
(* code has, and stops once more whichever server is active by then.       *)
CancelLogin ==
  /\ active # None \/ task # None
  /\ active' = None
  /\ task' = None
  /\ \/ /\ task = None
        /\ settled' = Settled(active, "void")
        /\ UNCHANGED dialog
     \/ /\ task # None
        /\ settled' = [Settled(active, "void") EXCEPT ![task] = "void"]
        /\ Go(task, IF dialog[task] = "exchanging" THEN "failed" ELSE "done")
  /\ UNCHANGED <<row, upstream, calls>>

Logout ==
  /\ row # None
  /\ row' = None
  /\ UNCHANGED <<upstream, calls, logins>>

(* The relay process stops at any time: only the file survives.            *)
Restart ==
  /\ lock' = None /\ active' = None /\ task' = None
  /\ pc' = [c \in Callers |-> "idle"]
  /\ held' = [c \in Callers |-> None]
  /\ answer' = [c \in Callers |-> None]
  /\ again' = [c \in Callers |-> FALSE]
  /\ dialog' = [d \in Dialogs |-> IF dialog[d] = "absent" THEN "absent" ELSE "done"]
  /\ settled' = [d \in Dialogs |-> IF dialog[d] = "absent" THEN "open" ELSE "void"]
  /\ UNCHANGED <<row, upstream>>

CallerStep(c) ==
  \/ (pc[c] = "retry" /\ Ensure(c)) \/ EnsureFails(c) \/ Enter(c)
  \/ Rotated(c) \/ Renewed(c) \/ Refused(c) \/ RefreshFails(c)
  \/ Save(c) \/ Clear(c) \/ Fetched(c) \/ Unauthorized(c)

Begin(c) == pc[c] = "idle" /\ Ensure(c)

DialogStep(d) ==
  WaitEnds(d) \/ Exchanged(d) \/ ExchangeFails(d) \/ Finally(d)

Next ==
  \/ \E c \in Callers : Begin(c) \/ CallerStep(c)
  \/ \E d \in Dialogs : StartBrowserLogin(d) \/ Callback(d) \/ DialogStep(d)
  \/ ImLogin \/ LoginStatus \/ CancelLogin \/ Logout \/ Restart

Spec == Init /\ [][Next]_vars

-----------------------------------------------------------------------------
TypeOK ==
  /\ row \in Rows \cup {None}
  /\ live \in [Dialogs -> 0..MaxGen]
  /\ revoked \subseteq Dialogs /\ lost \subseteq Dialogs
  /\ lock \in Callers \cup {None}
  /\ pc \in [Callers -> {"idle", "retry", "waiting", "asking", "answered", "fetch"}]
  /\ held \in [Callers -> RefreshTokens \cup {None}]
  /\ answer \in [Callers -> Answers \cup {None}]
  /\ again \in [Callers -> BOOLEAN]
  /\ active \in Dialogs \cup {None} /\ task \in Dialogs \cup {None}
  /\ settled \in [Dialogs -> {"open", "code", "void", "stopped"}]
  /\ dialog \in [Dialogs -> {"absent", "waiting", "exchanging", "failed", "completed", "done"}]

(* A refresh never presents a token that an earlier refresh has used up,   *)
(* unless the answer to that one was lost: concurrent 401s do not log the  *)
(* account out (session.py:42, 102-105).                                   *)
NoUsedToken ==
  \A c \in Callers :
    pc[c] = "asking" /\ held[c] # None /\ held[c].login \notin lost =>
      held[c].gen = live[held[c].login]

(* Whatever the file holds can be refreshed with: the newest token of its  *)
(* login is stored, unless its answer is still on the way or was lost      *)
(* (session.py:114-123).                                                   *)
NewestTokenStored ==
  row # None /\ row.refresh # None /\ row.refresh.login \notin lost =>
    row.refresh.gen = live[row.refresh.login]

(* No dialog waits for a callback that cannot come any more: its server    *)
(* has been settled when it is no longer the active one                    *)
(* (callback.py:178-193).                                                  *)
NoDeadWait == \A d \in Dialogs : dialog[d] = "waiting" /\ active # d => settled[d] # "open"

(* No callback server outlives its dialog (oauth.py:163, callback.py:187). *)
ListenerOwned == active # None => dialog[active] \notin {"absent", "done"}

(* The strengthening of the above: who holds the refresh lock, what a      *)
(* rotation on its way to the file looks like, and that a token can only   *)
(* descend from a login that has been completed.                           *)
LockHeld(c) == lock = c <=> pc[c] \in {"asking", "answered"}
OnItsWay(c) ==
  /\ pc[c] = "answered" => held[c] # None /\ answer[c] # None
  /\ pc[c] = "answered" /\ answer[c] = "rotated" =>
       /\ held[c].login \in lost
       /\ live[held[c].login] = held[c].gen + 1
Completed(d) == dialog[d] \in {"completed", "done"}

SessionInv ==
  /\ NoUsedToken
  /\ NewestTokenStored
  /\ \A c \in Callers :
       LockHeld(c) /\ OnItsWay(c) /\ (held[c] # None => Completed(held[c].login))
  /\ row # None /\ row.refresh # None => Completed(row.refresh.login)
  /\ \A d \in Dialogs : ~Completed(d) => live[d] = 0

(* What holds of the session at all times: no used-up token is presented   *)
(* and the newest one is in the file.                                      *)
StoredSession == TypeOK /\ SessionInv

(* What callback.py:175 says: a new login takes the place of the old one.  *)
(* A server is not stopped on behalf of another dialog that is over.       *)
ReplacementStands == \A d \in Dialogs : settled[d] # "stopped"

=============================================================================
