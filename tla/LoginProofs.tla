----------------------------- MODULE LoginProofs -----------------------------
(***************************************************************************)
(* The logins: the table of the WorkBuddy device logins for any number of  *)
(* dialogs, pools and accounts and any time-out (WbLogin), and the refresh *)
(* rules of the TA+3 session for any number of callers and browser logins  *)
(* and any number of rotations (Ta3Session).  Neither shares state with    *)
(* the other.                                                              *)
(***************************************************************************)
EXTENDS WbLogin, Ta3Session, TLAPS

-----------------------------------------------------------------------------
(* WorkBuddy: the table of device logins.                                  *)

(* The types need the invariant: a row is only written under a real uid.   *)
LoginIInv == LoginTypeOK /\ SlotInv

(* A uid that a row may get is not the null value.                         *)
LEMMA RealUids == NoUid \notin Uids /\ Accounts \subseteq Uids /\ Logins \subseteq Uids
  BY LoginAssumption DEF LoginAssumption, Uids

(* What cancelling the tasks of a set of logins does to each login.        *)
LEMMA CancelEffect ==
  ASSUME LoginIInv, NEW S \in SUBSET Logins, CancelTasks(S)
  PROVE  /\ poller' \in [Logins -> Pollers \cup {"idle", "end"}]
         /\ status' \in [Logins -> Outcomes]
         /\ archived' \in [Logins -> Uids \cup {NoUid}]
         /\ pool' \in [Realms -> SUBSET Uids]
         /\ \A l \in Logins :
              /\ l \in S /\ poller[l] \in Pollers => poller'[l] = "end" /\ status'[l] = "cancelled"
              /\ ~(l \in S /\ poller[l] \in Pollers) => poller'[l] = poller[l] /\ status'[l] = status[l]
              /\ archived[l] # NoUid => archived'[l] # NoUid
              /\ archived'[l] # NoUid => archived'[l] \in pool'[Profile[l]]
<1>1. PICK W \in SUBSET {l \in S : poller[l] \in Pollers /\ poller[l] = "writing"} :
        /\ archived' = [l \in Logins |-> IF l \in W THEN granted[l] ELSE archived[l]]
        /\ pool' = [r \in Realms |->
                      pool[r] \cup {granted[l] : l \in {k \in W : Profile[k] = r}}]
  BY DEF CancelTasks
<1>2. \A l \in W : l \in Logins /\ granted[l] \in Uids /\ granted[l] # NoUid
  BY <1>1 DEF LoginIInv, LoginTypeOK, SlotInv, Identity
<1>3. archived' \in [Logins -> Uids \cup {NoUid}]
  BY <1>1, <1>2 DEF LoginIInv, LoginTypeOK
<1>4. ASSUME NEW r \in Realms
      PROVE  pool'[r] \subseteq Uids /\ pool[r] \subseteq pool'[r]
             /\ \A l \in W : Profile[l] = r => granted[l] \in pool'[r]
  BY <1>1, <1>2, <1>4 DEF LoginIInv, LoginTypeOK
<1>5. pool' \in [Realms -> SUBSET Uids]
  BY <1>1, <1>4
<1>6. poller' = [l \in Logins |-> IF l \in S /\ poller[l] \in Pollers THEN "end" ELSE poller[l]]
      /\ status' = [l \in Logins |-> IF l \in S /\ poller[l] \in Pollers THEN "cancelled" ELSE status[l]]
  BY DEF CancelTasks
<1>7. poller' \in [Logins -> Pollers \cup {"idle", "end"}] /\ status' \in [Logins -> Outcomes]
  BY <1>6 DEF LoginIInv, LoginTypeOK, Outcomes
<1>8. ASSUME NEW l \in Logins, archived'[l] # NoUid
      PROVE  archived'[l] \in pool'[Profile[l]]
  <2>1. Profile[l] \in Realms
    BY LoginAssumption DEF LoginAssumption
  <2>2. CASE l \in W
    BY <1>1, <1>4, <2>1, <2>2
  <2>3. CASE l \notin W
    BY <1>1, <1>4, <1>8, <2>1, <2>3 DEF LoginIInv, SlotInv, Filed
  <2> QED BY <2>2, <2>3
<1>9. \A l \in Logins : archived[l] # NoUid => archived'[l] # NoUid
  BY <1>1, <1>2
<1> QED BY <1>3, <1>5, <1>6, <1>7, <1>8, <1>9

LEMMA LoginInitInv == LoginInit => LoginIInv
  BY LoginAssumption
  DEF LoginAssumption, LoginInit, LoginIInv, LoginTypeOK, SlotInv, NotCancelledByOthers, NoLeakedPoller,
      Unstarted, Overdue, Identity, Filed, Recorded, Pollers, Outcomes

(* Every step of a poller keeps the invariant.                             *)
LEMMA PollerInv == ASSUME LoginIInv, NEW l \in Logins, Start(l) \/ Step(l) PROVE LoginIInv'
<1> USE DEF LoginIInv, LoginTypeOK, SlotInv, NotCancelledByOthers, NoLeakedPoller,
            Unstarted, Overdue, Identity, Filed, Recorded, Pollers, Outcomes
<1>0. Profile[l] \in Realms /\ LifeTime \in Nat \ {0}
  BY LoginAssumption DEF LoginAssumption
<1>1. CASE Start(l)
  BY <1>0, <1>1 DEF Start
<1>2. CASE Ask(l)
  BY <1>2 DEF Ask
<1>3. CASE NotYet(l)
  BY <1>3 DEF NotYet, End
<1>4. CASE Granted(l)
  BY <1>4, RealUids DEF Granted
<1>5. CASE Identified(l)
  BY <1>5, RealUids DEF Identified, End
<1>6. CASE Archive(l)
  <2>1. granted[l] \in Uids /\ granted[l] # NoUid
    BY <1>6 DEF Archive
  <2>2. CASE End(l, "error") /\ UNCHANGED <<pool, archived>>
    BY <1>6, <2>2 DEF Archive, End
  <2>3. CASE /\ pool' = [pool EXCEPT ![Profile[l]] = @ \cup {granted[l]}]
             /\ archived' = [archived EXCEPT ![l] = granted[l]]
             /\ poller' = [poller EXCEPT ![l] = "prefetch"]
             /\ UNCHANGED status
    <3>1. pool' \in [Realms -> SUBSET Uids] /\ \A r \in Realms : pool[r] \subseteq pool'[r]
      BY <1>0, <2>1, <2>3
    <3>2. \A k \in Logins : Profile[k] \in Realms
      BY LoginAssumption DEF LoginAssumption
    <3>3. granted[l] \in pool'[Profile[l]]
      BY <1>0, <2>3
    <3> QED BY <1>6, <2>1, <2>3, <3>1, <3>2, <3>3 DEF Archive
  <2> QED BY <1>6, <2>2, <2>3 DEF Archive
<1>7. CASE Prefetched(l)
  BY <1>7 DEF Prefetched, End
<1> QED BY <1>1, <1>2, <1>3, <1>4, <1>5, <1>6, <1>7 DEF Step

(* Every call of the front end keeps the invariant.                        *)
LEMMA ClientInv ==
  ASSUME LoginIInv, NEW l \in Logins, Query(l) \/ Cancel(l) \/ Leave(l) PROVE LoginIInv'
<1> USE DEF LoginIInv, LoginTypeOK, SlotInv, NotCancelledByOthers, NoLeakedPoller,
            Unstarted, Overdue, Identity, Filed, Recorded, Pollers, Outcomes
<1>1. CASE StatusUnknown(l)
  BY <1>1 DEF StatusUnknown, Asking
<1>2. CASE StatusAnswered(l)
  BY <1>2 DEF StatusAnswered, Asking, Stale
<1>3. CASE StatusPending(l)
  <2> DEFINE dropped == {k \in slots \ {l} : Stale(k)}
  <2>1. dropped \in SUBSET Logins /\ CancelTasks(dropped) /\ slots' = slots \ dropped
    BY <1>3 DEF StatusPending
  <2>2. \A k \in dropped : poller[k] \in Pollers => left[k] = 0
    BY DEF Stale
  <2> HIDE DEF dropped
  <2> QED BY <1>3, <2>1, <2>2, CancelEffect DEF StatusPending
<1>4. CASE Cancel(l)
  <2> DEFINE gone == {l} \cap slots
  <2>1. gone \in SUBSET Logins /\ CancelTasks(gone) /\ slots' = slots \ gone
        /\ gone \subseteq {l}
    BY <1>4 DEF Cancel
  <2> HIDE DEF gone
  <2> QED BY <1>4, <2>1, CancelEffect DEF Cancel, Asking
<1>5. CASE Leave(l)
  BY <1>5 DEF Leave, Asking
<1> QED BY <1>1, <1>2, <1>3, <1>4, <1>5 DEF Query

LEMMA TickInv == LoginIInv /\ Tick => LoginIInv'
  BY LoginAssumption
  DEF LoginAssumption, LoginIInv, LoginTypeOK, SlotInv, NotCancelledByOthers, NoLeakedPoller,
      Unstarted, Overdue, Identity, Filed, Recorded, Pollers, Outcomes, Tick

(* The inductive invariant of the login table (oauth.py:66, 113-239).      *)
THEOREM LoginInvariance == LoginSpec => []LoginIInv
<1>1. LoginIInv /\ [LoginNext]_loginVars => LoginIInv'
  <2>1. LoginIInv /\ UNCHANGED loginVars => LoginIInv'
    BY DEF loginVars, LoginIInv, LoginTypeOK, SlotInv, NotCancelledByOthers, NoLeakedPoller,
           Unstarted, Overdue, Identity, Filed, Recorded, Pollers, Outcomes
  <2> QED BY <2>1, PollerInv, ClientInv, TickInv DEF LoginNext
<1> QED BY LoginInitInv, <1>1, PTL DEF LoginSpec

(* Every slot, poller and row keeps its type.                              *)
THEOREM LoginTyping == LoginSpec => []LoginTypeOK
<1>1. LoginIInv => LoginTypeOK
  BY DEF LoginIInv
<1> QED BY <1>1, LoginInvariance, PTL

(* A login with time left is only cancelled from its own dialog.           *)
THEOREM ParallelLogins == LoginSpec => []NotCancelledByOthers
<1>1. LoginIInv => NotCancelledByOthers
  BY DEF LoginIInv, SlotInv
<1> QED BY <1>1, LoginInvariance, PTL

(* A poller without a slot is past its deadline.                           *)
THEOREM NoLeak == LoginSpec => []NoLeakedPoller
<1>1. LoginIInv => NoLeakedPoller
  BY DEF LoginIInv, SlotInv
<1> QED BY <1>1, LoginInvariance, PTL

(* A reported success is in the pool of its realm.                         *)
THEOREM SuccessStored == LoginSpec => []SuccessIsStored
<1>1. LoginIInv => SuccessIsStored
  BY DEF LoginIInv, SlotInv, SuccessIsStored, Recorded, Filed
<1> QED BY <1>1, LoginInvariance, PTL

(* Slots, pollers and stored rows fit together (WbLogin).                  *)
THEOREM SlotsFit == LoginSpec => []SlotInv
<1>1. LoginIInv => SlotInv
  BY DEF LoginIInv
<1> QED BY <1>1, LoginInvariance, PTL

(* LoginInv: for any number of logins none is cancelled for another, no    *)
(* poller is leaked and no success is reported in vain.                    *)
THEOREM LoginTable == LoginSpec => []LoginInv
BY LoginTyping, SlotsFit, SuccessStored, PTL DEF LoginInv

-----------------------------------------------------------------------------
(* TA+3: the session and its refresh.                                      *)

Inv == TypeOK /\ SessionInv

(* A refresh token is a record of a login and a generation.                *)
LEMMA TokenShape ==
  ASSUME NEW t \in RefreshTokens
  PROVE  t.login \in Dialogs /\ t.gen \in 0..MaxGen /\ t.gen \in Nat
  BY SessionAssumption DEF SessionAssumption, RefreshTokens

LEMMA Nulls ==
  /\ None \notin Callers /\ None \notin Dialogs /\ None \notin RefreshTokens
  /\ None \notin Rows /\ None \notin Answers
  BY SessionAssumption DEF SessionAssumption, Owners

(* A saved row is a row; its refresh token is the given or the stored one. *)
LEMMA SavedRow ==
  ASSUME Inv, NEW o \in Owners, NEW t \in RefreshTokens \cup {None}, SaveAuth(o, t)
  PROVE  /\ row' \in Rows
         /\ row' # None
         /\ \/ row'.refresh = t
            \/ t = None /\ row # None /\ row'.refresh = row.refresh
<1>1. row # None => row.refresh \in RefreshTokens \cup {None}
  BY DEF Inv, TypeOK, Rows
<1>2. PICK r \in RefreshTokens \cup {None} :
        /\ row' = [owner |-> o, refresh |-> r]
        /\ r = t \/ (t = None /\ row # None /\ r = row.refresh)
  BY <1>1 DEF SaveAuth
<1>3. row' \in Rows /\ row'.refresh = r
  BY <1>2 DEF Rows
<1> QED BY <1>2, <1>3, Nulls

LEMMA InitInv == Init => Inv
  BY SessionAssumption, Nulls
  DEF SessionAssumption, Init, Inv, TypeOK, SessionInv, NoUsedToken, NewestTokenStored,
      LockHeld, OnItsWay, Completed

(* A caller's step that leaves the row, the upstream and the logins alone. *)
LEMMA QuietCallerInv ==
  ASSUME Inv, NEW c \in Callers, UNCHANGED <<row, upstream, logins>>,
         Ensure(c) \/ EnsureFails(c) \/ Enter(c) \/ Renewed(c) \/ Fetched(c) \/ Unauthorized(c)
  PROVE  Inv'
<1> USE DEF Inv, TypeOK, SessionInv, NoUsedToken, NewestTokenStored, LockHeld, OnItsWay,
            Completed, upstream, logins, calls, Return
<1>1. CASE Ensure(c)
  BY <1>1, Nulls DEF Ensure
<1>2. CASE EnsureFails(c)
  BY <1>2, Nulls DEF EnsureFails
<1>3. CASE Enter(c)
  <2>1. row # None => row.refresh \in RefreshTokens \cup {None}
    BY DEF Rows
  <2>2. CASE row = None
    <3>1. Return(c) /\ lock' = lock /\ pc[c] = "waiting"
      BY <1>3, <2>2 DEF Enter
    <3> QED BY <3>1, Nulls
  <2>3. CASE row # None
    BY <1>3, <2>1, <2>3, Nulls DEF Enter
  <2> QED BY <2>2, <2>3
<1>4. CASE Renewed(c)
  BY <1>4, Nulls DEF Renewed, Accepted, Answers
<1>5. CASE Fetched(c)
  BY <1>5, Nulls DEF Fetched
<1>6. CASE Unauthorized(c)
  BY <1>6, Nulls DEF Unauthorized
<1> QED BY <1>1, <1>2, <1>3, <1>4, <1>5, <1>6

(* The upstream rotates a token: only the holder of the lock gets here.    *)
LEMMA RotateInv ==
  ASSUME Inv, NEW c \in Callers, Rotated(c) PROVE Inv'
<1> USE DEF Inv, TypeOK, SessionInv, NoUsedToken, NewestTokenStored, LockHeld, OnItsWay,
            Completed, logins
<1>1. held[c] \in RefreshTokens /\ held[c].login \in Dialogs /\ held[c].gen \in Nat
  BY TokenShape, Nulls DEF Rotated, Accepted
<1>2. lost' = lost \cup {held[c].login} /\ lost' \subseteq Dialogs
  BY <1>1 DEF Rotated
<1>3. live' = [live EXCEPT ![held[c].login] = @ + 1] /\ live' \in [Dialogs -> 0..MaxGen]
  BY <1>1, SessionAssumption DEF Rotated, SessionAssumption
<1>4. \A k \in Callers : k # c => pc[k] \notin {"asking", "answered"}
  BY DEF Rotated
<1>5. live'[held[c].login] = held[c].gen + 1
  BY <1>1, <1>3 DEF Rotated, Accepted
<1>6. \A d \in Dialogs : d \notin lost' => live'[d] = live[d]
  BY <1>1, <1>2, <1>3
<1>7. Completed(held[c].login)
  BY <1>1, Nulls
<1>8. \A d \in Dialogs : ~Completed(d) => live'[d] = live[d]
  BY <1>1, <1>3, <1>7
<1>9. pc' = [pc EXCEPT ![c] = "answered"] /\ answer' = [answer EXCEPT ![c] = "rotated"]
      /\ UNCHANGED <<row, revoked, lock, held, again, logins>>
  BY DEF Rotated
<1>10. TypeOK'
  BY <1>2, <1>3, <1>9, Nulls DEF Answers
<1>11. NoUsedToken'
  BY <1>4, <1>9
<1>12. NewestTokenStored'
  <2>1. ASSUME row # None, row.refresh # None PROVE row.refresh.login \in Dialogs
    BY <2>1, TokenShape DEF Rows
  <2> QED BY <1>2, <1>6, <1>9, <2>1
<1>13. ASSUME NEW k \in Callers PROVE LockHeld(k)' /\ OnItsWay(k)'
  <2>1. CASE k = c
    BY <1>1, <1>2, <1>5, <1>9, <2>1, Nulls DEF Rotated, Answers
  <2>2. CASE k # c
    BY <1>4, <1>9, <2>2
  <2> QED BY <2>1, <2>2
<1>14. \A d \in Dialogs : ~Completed(d)' => live'[d] = 0
  BY <1>8, <1>9
<1> QED BY <1>9, <1>10, <1>11, <1>12, <1>13, <1>14

(* invalid_grant changes nothing that the invariant is about.              *)
LEMMA RefuseInv ==
  ASSUME Inv, NEW c \in Callers, Refused(c) PROVE Inv'
<1>1. held[c] \in RefreshTokens /\ held[c].login \in Dialogs
  BY TokenShape DEF Refused, Inv, TypeOK
<1> QED BY <1>1, Nulls
  DEF Refused, Inv, TypeOK, SessionInv, NoUsedToken, NewestTokenStored, LockHeld, OnItsWay,
      Completed, logins, Answers

(* A failed refresh gives the lock back; a lost rotation is recorded.      *)
LEMMA FailInv ==
  ASSUME Inv, NEW c \in Callers, RefreshFails(c) PROVE Inv'
<1> USE DEF Inv, TypeOK, SessionInv, NoUsedToken, NewestTokenStored, LockHeld, OnItsWay,
            Completed, logins, Return
<1>1. pc[c] = "asking" /\ lock' = None /\ Return(c) /\ UNCHANGED <<row, logins>>
  BY DEF RefreshFails
<1>2. \A k \in Callers : k # c => pc[k] \notin {"asking", "answered"}
  BY <1>1
<1>3. CASE UNCHANGED upstream
  BY <1>1, <1>2, <1>3, Nulls DEF upstream
<1>4. CASE /\ Accepted(held[c])
           /\ live[held[c].login] < MaxGen
           /\ live' = [live EXCEPT ![held[c].login] = @ + 1]
           /\ lost' = lost \cup {held[c].login}
           /\ UNCHANGED revoked
  <2>1. held[c] \in RefreshTokens /\ held[c].login \in Dialogs
    BY <1>4, TokenShape DEF Accepted
  <2>2. live' \in [Dialogs -> 0..MaxGen] /\ lost' \subseteq Dialogs
    BY <1>4, <2>1, SessionAssumption DEF SessionAssumption
  <2>3. \A d \in Dialogs : d \notin lost' => live'[d] = live[d]
    BY <1>4, <2>1
  <2>4. Completed(held[c].login)
    BY <2>1, Nulls
  <2>5. \A d \in Dialogs : ~Completed(d) => live'[d] = live[d]
    BY <1>4, <2>1, <2>4
  <2>6. TypeOK'
    BY <1>1, <1>4, <2>2, Nulls
  <2>7. NewestTokenStored'
    <3>1. ASSUME row # None, row.refresh # None PROVE row.refresh.login \in Dialogs
      BY <3>1, TokenShape DEF Rows
    <3> QED BY <1>1, <1>4, <2>3, <3>1
  <2>8. NoUsedToken' /\ \A k \in Callers : LockHeld(k)' /\ OnItsWay(k)'
    BY <1>1, <1>2, Nulls
  <2> QED BY <1>1, <2>5, <2>6, <2>7, <2>8
<1> QED BY <1>3, <1>4 DEF RefreshFails

(* The answer reaches the file: the rotated token, or the stored one.      *)
LEMMA SaveInv ==
  ASSUME Inv, NEW c \in Callers, Save(c) PROVE Inv'
<1> USE DEF Inv, TypeOK, SessionInv, NoUsedToken, NewestTokenStored, LockHeld, OnItsWay,
            Completed, logins
<1>1. pc[c] = "answered" /\ answer[c] \in {"rotated", "renewed"} /\ lock' = None
  BY DEF Save
<1>2. held[c] \in RefreshTokens /\ held[c].login \in Dialogs /\ held[c].gen \in Nat
  BY <1>1, TokenShape
<1>3. \A k \in Callers : k # c => pc[k] \notin {"asking", "answered"}
  BY <1>1
<1>4. held[c].login \in Owners /\ Completed(held[c].login)
  BY <1>2, Nulls DEF Owners
<1>5. pc' = [pc EXCEPT ![c] = "fetch"] /\ answer' = [answer EXCEPT ![c] = None]
      /\ held' = [held EXCEPT ![c] = None] /\ UNCHANGED <<live, revoked, again, logins>>
  BY DEF Save
<1>6. CASE answer[c] = "rotated"
  <2> DEFINE t == [login |-> held[c].login, gen |-> held[c].gen + 1]
  <2>1. live[held[c].login] = held[c].gen + 1
    BY <1>1, <1>6
  <2>2. t \in RefreshTokens /\ t.login = held[c].login /\ t.gen = live[held[c].login]
    BY <1>2, <2>1 DEF RefreshTokens
  <2>3. SaveAuth(held[c].login, t) /\ lost' = lost \ {held[c].login}
    BY <1>6 DEF Save, NewToken
  <2>4. t # None
    BY <2>2, Nulls
  <2> HIDE DEF t
  <2>5. row' \in Rows /\ row' # None /\ row'.refresh = t
    BY <1>4, <2>2, <2>3, <2>4, SavedRow
  <2>6. TypeOK'
    BY <1>1, <1>5, <2>3, <2>5, Nulls
  <2>7. NewestTokenStored' /\ (row # None /\ row.refresh # None => Completed(row.refresh.login))'
    BY <1>4, <1>5, <2>2, <2>5
  <2>8. NoUsedToken' /\ \A k \in Callers : LockHeld(k)' /\ OnItsWay(k)'
    BY <1>1, <1>3, <1>5, Nulls
  <2> QED BY <1>5, <2>6, <2>7, <2>8, Nulls
<1>7. CASE answer[c] = "renewed"
  <2>1. SaveAuth(held[c].login, None) /\ lost' = lost
    BY <1>7 DEF Save, NewToken
  <2>2. row' \in Rows /\ row' # None
        /\ (row'.refresh = None \/ (row # None /\ row'.refresh = row.refresh))
    BY <1>4, <2>1, SavedRow
  <2>3. TypeOK'
    BY <1>1, <1>5, <2>1, <2>2, Nulls
  <2>4. NewestTokenStored' /\ (row # None /\ row.refresh # None => Completed(row.refresh.login))'
    BY <1>5, <2>1, <2>2
  <2>5. NoUsedToken' /\ \A k \in Callers : LockHeld(k)' /\ OnItsWay(k)'
    BY <1>1, <1>3, <1>5, Nulls
  <2> QED BY <1>5, <2>3, <2>4, <2>5, Nulls
<1> QED BY <1>1, <1>6, <1>7

LEMMA ClearInv ==
  ASSUME Inv, NEW c \in Callers, Clear(c) PROVE Inv'
<1>1. \A k \in Callers : k # c => pc[k] \notin {"asking", "answered"}
  BY DEF Clear, Inv, SessionInv, LockHeld
<1> QED BY <1>1, Nulls
  DEF Clear, Return, Inv, TypeOK, SessionInv, NoUsedToken, NewestTokenStored, LockHeld,
      OnItsWay, Completed, logins, upstream

(* A login writes its own token of generation 0, or keeps the stored one.  *)
LEMMA ExchangeInv ==
  ASSUME Inv, NEW d \in Dialogs, Exchanged(d) PROVE Inv'
<1> USE DEF Inv, TypeOK, SessionInv, NoUsedToken, NewestTokenStored, LockHeld, OnItsWay,
            Completed, calls, upstream
<1>1. PICK t \in {None, [login |-> d, gen |-> 0]} : SaveAuth(d, t)
  BY DEF Exchanged
<1>2. live[d] = 0 /\ dialog' = [dialog EXCEPT ![d] = "completed"]
      /\ UNCHANGED <<upstream, calls, active, settled, task>>
  BY DEF Exchanged, Go
<1>3. t \in RefreshTokens \cup {None} /\ (t # None => t.login = d /\ t.gen = 0)
  BY SessionAssumption DEF SessionAssumption, RefreshTokens
<1>4. row' \in Rows /\ row' # None
      /\ (row'.refresh = t \/ (t = None /\ row # None /\ row'.refresh = row.refresh))
  BY <1>1, <1>3, SavedRow DEF Owners
<1>5. TypeOK'
  BY <1>2, <1>4
<1>6. \A e \in Dialogs : Completed(e) => Completed(e)'
  BY <1>2
<1>7. NewestTokenStored'
  <2>1. CASE row'.refresh = t
    BY <1>2, <1>3, <2>1
  <2>2. CASE row # None /\ row'.refresh = row.refresh
    BY <1>2, <2>2
  <2> QED BY <1>4, <2>1, <2>2
<1>8. (row # None /\ row.refresh # None => Completed(row.refresh.login))'
  <2>1. CASE row'.refresh = t
    BY <1>2, <1>3, <2>1
  <2>2. CASE row # None /\ row'.refresh = row.refresh
    <3>1. row.refresh # None => row.refresh.login \in Dialogs
      BY <2>2, TokenShape DEF Rows
    <3> QED BY <1>6, <2>2, <3>1
  <2> QED BY <1>4, <2>1, <2>2
<1>9. NoUsedToken' /\ \A k \in Callers : LockHeld(k)' /\ OnItsWay(k)'
  BY <1>2
<1>10. (\A k \in Callers : held[k] # None => Completed(held[k].login))'
  <2>1. ASSUME NEW k \in Callers, held[k] # None PROVE held[k].login \in Dialogs
    BY <2>1, TokenShape
  <2> QED BY <1>2, <1>6, <2>1
<1>11. \A e \in Dialogs : ~Completed(e)' => live'[e] = 0
  BY <1>2, <1>6
<1> QED BY <1>5, <1>7, <1>8, <1>9, <1>10, <1>11

LEMMA ImInv == Inv /\ ImLogin => Inv'
<1> USE DEF Inv, TypeOK, SessionInv, NoUsedToken, NewestTokenStored, LockHeld, OnItsWay,
            Completed, calls, upstream, logins
<1>1. SUFFICES ASSUME Inv, ImLogin PROVE Inv'
  OBVIOUS
<1>2. row' \in Rows /\ row' # None
      /\ (row'.refresh = None \/ (row # None /\ row'.refresh = row.refresh))
  BY <1>1, SavedRow DEF ImLogin, Owners
<1>3. UNCHANGED <<upstream, calls, logins>>
  BY <1>1 DEF ImLogin
<1> QED BY <1>1, <1>2, <1>3

(* A dialog's other steps: it never goes back to where it was not          *)
(* completed, and nothing else of the invariant moves.                     *)
LEMMA DialogInv ==
  ASSUME Inv, UNCHANGED <<row, upstream, calls>>,
         active' \in Dialogs \cup {None}, task' \in Dialogs \cup {None},
         settled' \in [Dialogs -> {"open", "code", "void", "stopped"}],
         dialog' \in [Dialogs -> {"absent", "waiting", "exchanging", "failed", "completed", "done"}],
         \A d \in Dialogs : Completed(d) => Completed(d)'
  PROVE  Inv'
<1>1. \A c \in Callers : held[c] # None => held[c].login \in Dialogs
  BY TokenShape DEF Inv, TypeOK
<1>2. row # None /\ row.refresh # None => row.refresh.login \in Dialogs
  BY TokenShape DEF Inv, TypeOK, Rows
<1>3. TypeOK'
  BY DEF Inv, TypeOK, upstream, calls
<1>4. NoUsedToken' /\ NewestTokenStored' /\ \A c \in Callers : LockHeld(c)' /\ OnItsWay(c)'
  BY DEF Inv, SessionInv, NoUsedToken, NewestTokenStored, LockHeld, OnItsWay, upstream, calls
<1>5. \A d \in Dialogs : ~Completed(d)' => live'[d] = 0
  BY DEF Inv, SessionInv, upstream
<1>6. (\A c \in Callers : held[c] # None => Completed(held[c].login))'
  BY <1>1 DEF Inv, SessionInv, calls
<1>7. (row # None /\ row.refresh # None => Completed(row.refresh.login))'
  BY <1>2 DEF Inv, SessionInv
<1> QED BY <1>3, <1>4, <1>5, <1>6, <1>7 DEF Inv, SessionInv

LEMMA SettledType ==
  ASSUME Inv, NEW d \in Dialogs \cup {None}, NEW how \in {"code", "void", "stopped"}
  PROVE  Settled(d, how) \in [Dialogs -> {"open", "code", "void", "stopped"}]
  BY Nulls DEF Inv, TypeOK, Settled

LEMMA LoginsInv ==
  ASSUME Inv,
         \/ \E d \in Dialogs : StartBrowserLogin(d) \/ Callback(d) \/ WaitEnds(d)
                               \/ ExchangeFails(d) \/ Finally(d)
         \/ LoginStatus \/ CancelLogin
  PROVE  Inv'
<1>1. ASSUME NEW d \in Dialogs, StartBrowserLogin(d) PROVE Inv'
  BY <1>1, SettledType, DialogInv DEF StartBrowserLogin, Completed, Inv, TypeOK
<1>2. ASSUME NEW d \in Dialogs, Callback(d) PROVE Inv'
  BY <1>2, SettledType, DialogInv DEF Callback, Completed, Inv, TypeOK
<1>3. ASSUME NEW d \in Dialogs, WaitEnds(d) \/ ExchangeFails(d) PROVE Inv'
  BY <1>3, DialogInv DEF WaitEnds, ExchangeFails, Go, Completed, Inv, TypeOK
<1>4. ASSUME NEW d \in Dialogs, Finally(d) PROVE Inv'
  BY <1>4, SettledType, DialogInv DEF Finally, Go, Completed, Inv, TypeOK
<1>5. CASE LoginStatus
  BY <1>5, DialogInv DEF LoginStatus, Completed, Inv, TypeOK
<1>6. CASE CancelLogin
  <2>1. Settled(active, "void") \in [Dialogs -> {"open", "code", "void", "stopped"}]
    BY SettledType DEF Inv, TypeOK
  <2> QED BY <1>6, <2>1, DialogInv DEF CancelLogin, Go, Completed, Inv, TypeOK
<1> QED BY <1>1, <1>2, <1>3, <1>4, <1>5, <1>6

LEMMA LogoutInv == Inv /\ Logout => Inv'
  BY DEF Logout, Inv, TypeOK, SessionInv, NoUsedToken, NewestTokenStored, LockHeld, OnItsWay,
         Completed, logins, upstream, calls

(* After a restart nobody holds anything; the upstream and the file stay.  *)
LEMMA RestartInv == Inv /\ Restart => Inv'
<1>1. SUFFICES ASSUME Inv, Restart PROVE Inv'
  OBVIOUS
<1>2. row # None /\ row.refresh # None => row.refresh.login \in Dialogs
  BY <1>1, TokenShape DEF Inv, TypeOK, Rows
<1> QED BY <1>1, <1>2, Nulls
  DEF Restart, Inv, TypeOK, SessionInv, NoUsedToken, NewestTokenStored, LockHeld, OnItsWay,
      Completed, upstream

LEMMA StepInv == Inv /\ [Next]_vars => Inv'
<1>1. SUFFICES ASSUME Inv, [Next]_vars PROVE Inv'
  OBVIOUS
<1>2. CASE UNCHANGED vars
  BY <1>1, <1>2 DEF vars, Inv, TypeOK, SessionInv, NoUsedToken, NewestTokenStored, LockHeld,
                    OnItsWay, Completed
<1>3. ASSUME NEW c \in Callers, Begin(c) \/ CallerStep(c) PROVE Inv'
  <2>1. CASE Ensure(c) \/ EnsureFails(c) \/ Fetched(c) \/ Unauthorized(c)
    BY <1>1, <2>1, QuietCallerInv DEF Ensure, EnsureFails, Fetched, Unauthorized
  <2>2. CASE Enter(c) \/ Renewed(c)
    BY <1>1, <2>2, QuietCallerInv DEF Enter, Renewed
  <2> QED BY <1>1, <1>3, <2>1, <2>2, RotateInv, RefuseInv, FailInv, SaveInv, ClearInv
          DEF Begin, CallerStep
<1>4. ASSUME NEW d \in Dialogs, StartBrowserLogin(d) \/ Callback(d) \/ DialogStep(d)
      PROVE  Inv'
  BY <1>1, <1>4, LoginsInv, ExchangeInv DEF DialogStep
<1> QED BY <1>1, <1>2, <1>3, <1>4, ImInv, LoginsInv, LogoutInv, RestartInv DEF Next

(* The inductive invariant of the session (session.py:94-125).             *)
THEOREM SessionInvariance == Spec => []Inv
  BY InitInv, StepInv, PTL DEF Spec

(* The stored row, the calls and the dialogs keep their types.             *)
THEOREM SessionTyping == Spec => []TypeOK
<1>1. Inv => TypeOK
  BY DEF Inv
<1> QED BY <1>1, SessionInvariance, PTL

(* Concurrent callers never present a refresh token that one of them has   *)
(* used up (session.py:102-105).                                           *)
THEOREM RefreshOnce == Spec => []NoUsedToken
<1>1. Inv => NoUsedToken
  BY DEF Inv, SessionInv
<1> QED BY <1>1, SessionInvariance, PTL

(* The stored refresh token is the newest of its login (session.py:118).   *)
THEOREM NewestStored == Spec => []NewestTokenStored
<1>1. Inv => NewestTokenStored
  BY DEF Inv, SessionInv
<1> QED BY <1>1, SessionInvariance, PTL

(* The stored row, its tokens and the callers fit together (Ta3Session).   *)
THEOREM SessionFits == Spec => []SessionInv
<1>1. Inv => SessionInv
  BY DEF Inv
<1> QED BY <1>1, SessionInvariance, PTL

-----------------------------------------------------------------------------
(* The callback servers: the two properties are inductive together.        *)
Servers == NoDeadWait /\ ListenerOwned

(* Settling a server closes it and touches no other one.                   *)
LEMMA SettledEffect ==
  ASSUME TypeOK, NEW d \in Dialogs \cup {None}, NEW how \in {"code", "void", "stopped"}
  PROVE  /\ Settled(d, how) \in [Dialogs -> {"open", "code", "void", "stopped"}]
         /\ \A e \in Dialogs : settled[e] # "open" => Settled(d, how)[e] # "open"
         /\ d # None => Settled(d, how)[d] # "open"
  BY Nulls DEF TypeOK, Settled

LEMMA ActiveClosed ==
  ASSUME TypeOK, NEW how \in {"code", "void", "stopped"}
  PROVE  /\ Settled(active, how) \in [Dialogs -> {"open", "code", "void", "stopped"}]
         /\ \A e \in Dialogs : settled[e] # "open" \/ e = active => Settled(active, how)[e] # "open"
<1>1. active \in Dialogs \cup {None}
  BY DEF TypeOK
<1>2. \A e \in Dialogs : e = active => active # None
  BY Nulls
<1> QED BY <1>1, <1>2, SettledEffect

(* A step after which no server is active leaves no dialog waiting for one *)
(* if it closes the server that was.                                       *)
LEMMA StoppedServers ==
  ASSUME TypeOK, Servers, active' = None,
         \A e \in Dialogs : (settled[e] # "open" \/ e = active) => settled'[e] # "open",
         \A e \in Dialogs : dialog'[e] = "waiting" => dialog[e] = "waiting"
  PROVE  Servers'
  BY DEF Servers, NoDeadWait, ListenerOwned

LEMMA DialogServers ==
  ASSUME TypeOK, Servers, NEW d \in Dialogs,
         StartBrowserLogin(d) \/ Callback(d) \/ DialogStep(d)
  PROVE  Servers'
<1>1. CASE StartBrowserLogin(d)
  <2>1. \A e \in Dialogs : settled[e] # "open" \/ e = active => settled'[e] # "open"
    BY <1>1, ActiveClosed DEF StartBrowserLogin
  <2>2. active' = d /\ dialog' = [dialog EXCEPT ![d] = "waiting"]
    BY <1>1 DEF StartBrowserLogin
  <2> QED BY <2>1, <2>2 DEF Servers, NoDeadWait, ListenerOwned, TypeOK
<1>2. CASE Callback(d)
  <2>1. \A e \in Dialogs : settled[e] # "open" => settled'[e] # "open"
    BY <1>2, SettledEffect DEF Callback
  <2>2. active' = active /\ dialog' = dialog
    BY <1>2 DEF Callback
  <2> QED BY <2>1, <2>2 DEF Servers, NoDeadWait, ListenerOwned
<1>3. CASE WaitEnds(d) \/ Exchanged(d) \/ ExchangeFails(d)
  BY <1>3 DEF WaitEnds, Exchanged, ExchangeFails, Go, Servers, NoDeadWait, ListenerOwned, TypeOK
<1>4. CASE Finally(d)
  <2>1. \A e \in Dialogs : settled[e] # "open" \/ e = active => Settled(active, "stopped")[e] # "open"
    BY ActiveClosed
  <2>2. Settled(active, "stopped") \in [Dialogs -> {"open", "code", "void", "stopped"}]
    BY ActiveClosed
  <2>3. \A e \in Dialogs : settled[e] # "open" \/ e = active => settled'[e] # "open"
    BY <1>4, <2>1, <2>2 DEF Finally
  <2>4. active' = None /\ \A e \in Dialogs : dialog'[e] = "waiting" => dialog[e] = "waiting"
    BY <1>4 DEF Finally, Go, TypeOK
  <2> QED BY <2>3, <2>4, StoppedServers
<1> QED BY <1>1, <1>2, <1>3, <1>4 DEF DialogStep

LEMMA CancelServers == TypeOK /\ Servers /\ CancelLogin => Servers'
<1>1. SUFFICES ASSUME TypeOK, Servers, CancelLogin PROVE Servers'
  OBVIOUS
<1>2. \A e \in Dialogs : settled[e] # "open" \/ e = active => Settled(active, "void")[e] # "open"
  BY <1>1, ActiveClosed
<1>3. Settled(active, "void") \in [Dialogs -> {"open", "code", "void", "stopped"}]
  BY <1>1, ActiveClosed
<1>4. \A e \in Dialogs : settled[e] # "open" \/ e = active => settled'[e] # "open"
  BY <1>1, <1>2, <1>3 DEF CancelLogin
<1>5. active' = None /\ \A e \in Dialogs : dialog'[e] = "waiting" => dialog[e] = "waiting"
  BY <1>1 DEF CancelLogin, Go, TypeOK
<1> QED BY <1>1, <1>4, <1>5, StoppedServers

LEMMA ServersStep == TypeOK /\ Servers /\ [Next]_vars => Servers'
<1>1. SUFFICES ASSUME TypeOK, Servers, [Next]_vars PROVE Servers'
  OBVIOUS
<1>2. CASE UNCHANGED logins
  BY <1>1, <1>2 DEF logins, Servers, NoDeadWait, ListenerOwned
<1>3. ASSUME NEW c \in Callers, Begin(c) \/ CallerStep(c) PROVE UNCHANGED logins
  BY <1>3 DEF Begin, CallerStep, Ensure, EnsureFails, Enter, Rotated, Renewed, Refused,
              RefreshFails, Save, Clear, Fetched, Unauthorized
<1>4. CASE ImLogin \/ Logout \/ UNCHANGED vars
  BY <1>2, <1>4 DEF ImLogin, Logout, vars, logins
<1>5. CASE LoginStatus
  BY <1>1, <1>5 DEF LoginStatus, Servers, NoDeadWait, ListenerOwned
<1>6. CASE Restart
  BY <1>1, <1>6 DEF Restart, Servers, NoDeadWait, ListenerOwned
<1> QED BY <1>1, <1>2, <1>3, <1>4, <1>5, <1>6, DialogServers, CancelServers DEF Next

(* The callback servers keep both promises (callback.py:178-193).          *)
THEOREM ServersKept == Spec => []Servers
<1>1. Init => Servers
  BY DEF Init, Servers, NoDeadWait, ListenerOwned
<1> QED BY <1>1, ServersStep, SessionTyping, PTL DEF Spec

(* No dialog waits for a callback that cannot come any more.               *)
THEOREM WaitsEnd == Spec => []NoDeadWait
<1>1. Servers => NoDeadWait
  BY DEF Servers
<1> QED BY <1>1, ServersKept, PTL

(* No callback server outlives its dialog.                                 *)
THEOREM ListenersOwned == Spec => []ListenerOwned
<1>1. Servers => ListenerOwned
  BY DEF Servers
<1> QED BY <1>1, ServersKept, PTL

(* StoredSession: for any number of callers and logins no used-up token is *)
(* presented and the newest one is in the file.                            *)
THEOREM SessionStored == Spec => []StoredSession
BY SessionTyping, SessionFits, PTL DEF StoredSession

=============================================================================
