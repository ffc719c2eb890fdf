----------------------------- MODULE AccountStore -----------------------------
(***************************************************************************)
(* The account store (platforms/store.py): the rows of one platform in one *)
(* JSON file.  An operation is a coroutine that takes the platform's       *)
(* asyncio lock, reads the file in a thread, changes the list and writes   *)
(* it back in another thread; a thread lock keeps the accesses to the file *)
(* apart.  A cancelled coroutine gives the asyncio lock back at once, but  *)
(* its thread runs on.  A row is abstracted to the task that has written   *)
(* each part of it last: its entry (identity and tokens, by an upsert), its *)
(* health (by the note_ helpers) and what a patch sets (by update_account).*)
(***************************************************************************)
EXTENDS Places, Naturals, FiniteSets

CONSTANTS
  Tasks,     \* coroutines, each with one operation of the store
  Uids,
  Asks,      \* the operations each task may ask for
  Origin     \* wrote what the file holds at first

Parts == {"entry", "health", "cache"}
Kinds == {"upsert", "note", "update", "delete"}
Owned == [upsert |-> "entry", note |-> "health", update |-> "cache"]
Requests == [kind : Kinds, uid : Uids]
Row == [Parts -> Tasks \cup {Origin}]
Tables == UNION {[S -> Row] : S \in SUBSET Uids}
NoRows == [u \in {} |-> Origin]

ASSUME StoreAssumption ==
  /\ Asks \in [Tasks -> SUBSET Requests]
  /\ None \notin Tasks \cup Requests

Unwritten == [p \in Parts |-> Origin]

VARIABLES
  file,      \* the rows in platform_<id>.json
  lock,      \* holder of the asyncio lock
  disk,      \* holder of the thread lock
  thread,    \* the thread that saves for the task: "none", "queued", "writing"
  request,   \* the operation of each task
  view,      \* the list the task has read
  answer,    \* what the caller has been told
  outcome,   \* history: what became of the operation, as in AtomicStore
  stale,     \* history: operations that acted on an outdated list
  excuse     \* history: "unreadable" or "late", the ways a list gets outdated

vars == <<file, lock, disk, pc, thread, request, view, answer, outcome, stale, excuse>>

Holding == {"loading", "loaded", "saving", "saved", "failed"}
Settle(t, o) == outcome' = [outcome EXCEPT ![t] = o]
Outdated(t) == IF view[t] = file THEN stale ELSE stale \cup {t}

Init ==
  /\ file \in {[u \in S |-> Unwritten] : S \in SUBSET Uids}
  /\ lock = None
  /\ disk = None
  /\ pc = [t \in Tasks |-> "idle"]
  /\ thread = [t \in Tasks |-> "none"]
  /\ request = [t \in Tasks |-> None]
  /\ view = [t \in Tasks |-> NoRows]
  /\ answer = [t \in Tasks |-> "none"]
  /\ outcome = [t \in Tasks |-> "none"]
  /\ stale = {}
  /\ excuse = {}

(***************************************************************************)
(* The list an operation writes back.                                      *)
(***************************************************************************)
(* variant: a re-login does not preserve what the old row knew             *)
Upserted_Bare(t, rows, uid) ==
  [u \in DOMAIN rows \cup {uid} |->
     IF u = uid THEN [Unwritten EXCEPT !["entry"] = t] ELSE rows[u]]

(* upsert_account with preserve=True, the only way it is called.           *)
Upserted(t, rows, uid) ==
  LET old == IF uid \in DOMAIN rows THEN rows[uid] ELSE Unwritten
  IN [u \in DOMAIN rows \cup {uid} |->
        IF u = uid THEN [old EXCEPT !["entry"] = t] ELSE rows[u]]

(* variant: the patch replaces the row instead of being merged into it     *)
Patched_Whole(t, rows, uid, part) ==
  [u \in DOMAIN rows |-> IF u = uid THEN [p \in {part} |-> t] ELSE rows[u]]

Patched(t, rows, uid, part) ==
  [u \in DOMAIN rows |-> IF u = uid THEN [rows[u] EXCEPT ![part] = t] ELSE rows[u]]

Deleted(rows, uid) == [u \in DOMAIN rows \ {uid} |-> rows[u]]

Written(t) ==
  LET r == request[t]
  IN CASE r.kind = "upsert" -> Upserted(t, view[t], r.uid)
       [] r.kind = "delete" -> Deleted(view[t], r.uid)
       [] OTHER -> Patched(t, view[t], r.uid, Owned[r.kind])

Found(t) == request[t].uid \in DOMAIN view[t]

(***************************************************************************)
(* The coroutine.                                                          *)
(***************************************************************************)
Ask(t) ==
  /\ At(t, "idle")
  /\ Goto(t, "waiting")
  /\ \E r \in Asks[t] : request' = [request EXCEPT ![t] = r]
  /\ Settle(t, "pending")
  /\ UNCHANGED <<file, lock, disk, thread, view, answer, stale, excuse>>

(* variant: the read-modify-write without the asyncio lock                 *)
Acquire_Unlocked(t) ==
  /\ At(t, "waiting")
  /\ lock' = t
  /\ Goto(t, "loading")
  /\ UNCHANGED <<file, disk, thread, request, view, answer, outcome, stale, excuse>>

Acquire(t) ==
  /\ At(t, "waiting")
  /\ lock = None
  /\ lock' = t
  /\ Goto(t, "loading")
  /\ UNCHANGED <<file, disk, thread, request, view, answer, outcome, stale, excuse>>

(* _load_sync in its thread, under the thread lock.                        *)
Load(t) ==
  /\ At(t, "loading")
  /\ disk = None
  /\ view' = [view EXCEPT ![t] = file]
  /\ Goto(t, "loaded")
  /\ UNCHANGED <<file, lock, disk, thread, request, answer, outcome, stale, excuse>>

(* The read raises OSError (another program has the file open): _load_sync *)
(* takes it for an empty list.                                             *)
LoadUnreadable(t) ==
  /\ At(t, "loading")
  /\ disk = None
  /\ view' = [view EXCEPT ![t] = NoRows]
  /\ Goto(t, "loaded")
  /\ excuse' = excuse \cup {"unreadable"}
  /\ UNCHANGED <<file, lock, disk, thread, request, answer, outcome, stale>>

Finish(t, told) ==
  /\ Goto(t, "done")
  /\ answer' = [answer EXCEPT ![t] = told]

(* variant: the early return leaves the lock taken                         *)
Miss_Locked(t) ==
  /\ At(t, "loaded")
  /\ request[t].kind # "upsert"
  /\ ~Found(t)
  /\ Finish(t, "missing")
  /\ Settle(t, "missing")
  /\ stale' = Outdated(t)
  /\ UNCHANGED <<file, lock, disk, thread, request, view, excuse>>

(* No such row: None, KeyError or False, by the operation; nothing is saved. *)
Miss(t) ==
  /\ At(t, "loaded")
  /\ request[t].kind # "upsert"
  /\ ~Found(t)
  /\ lock' = None
  /\ Finish(t, "missing")
  /\ Settle(t, "missing")
  /\ stale' = Outdated(t)
  /\ UNCHANGED <<file, disk, thread, request, view, excuse>>

Submit(t) ==
  /\ At(t, "loaded")
  /\ request[t].kind = "upsert" \/ Found(t)
  /\ Goto(t, "saving")
  /\ thread' = [thread EXCEPT ![t] = "queued"]
  /\ UNCHANGED <<file, lock, disk, request, view, answer, outcome, stale, excuse>>

Return(t) ==
  /\ At(t, "saved")
  /\ lock' = None
  /\ Finish(t, "ok")
  /\ UNCHANGED <<file, disk, thread, request, view, outcome, stale, excuse>>

Raise(t) ==
  /\ At(t, "failed")
  /\ lock' = None
  /\ Finish(t, "error")
  /\ UNCHANGED <<file, disk, thread, request, view, outcome, stale, excuse>>

(***************************************************************************)
(* The thread that saves: _save_sync.  The file changes only when tmp      *)
(* replaces it.                                                            *)
(***************************************************************************)
EndThread(t, place) ==
  /\ disk' = None
  /\ thread' = [thread EXCEPT ![t] = "none"]
  /\ pc' = IF At(t, "saving") THEN [pc EXCEPT ![t] = place] ELSE pc

(* variant: the write does not wait for the thread lock                    *)
BeginWrite_Anytime(t) ==
  /\ thread[t] = "queued"
  /\ disk' = t
  /\ thread' = [thread EXCEPT ![t] = "writing"]
  /\ UNCHANGED <<file, lock, pc, request, view, answer, outcome, stale, excuse>>

BeginWrite(t) ==
  /\ thread[t] = "queued"
  /\ disk = None
  /\ disk' = t
  /\ thread' = [thread EXCEPT ![t] = "writing"]
  /\ UNCHANGED <<file, lock, pc, request, view, answer, outcome, stale, excuse>>

Replace(t) ==
  /\ thread[t] = "writing"
  /\ file' = Written(t)
  /\ EndThread(t, "saved")
  /\ Settle(t, "applied")
  /\ stale' = Outdated(t)
  /\ UNCHANGED <<lock, request, view, answer, excuse>>

(* variant: a write that failed is not noticed                             *)
WriteFails_Silently(t) ==
  /\ thread[t] = "writing"
  /\ EndThread(t, "saved")
  /\ Settle(t, "refused")
  /\ UNCHANGED <<file, lock, request, view, answer, stale, excuse>>

WriteFails(t) ==
  /\ thread[t] = "writing"
  /\ EndThread(t, "failed")
  /\ Settle(t, "refused")
  /\ UNCHANGED <<file, lock, request, view, answer, stale, excuse>>

(***************************************************************************)
(* Cancellation (the client of a stream goes away, a login is cancelled)   *)
(* and the end of the process.                                             *)
(***************************************************************************)
Leave(t) ==
  /\ pc[t] \in {"waiting"} \cup Holding
  /\ Finish(t, "cancelled")
  /\ lock' = IF lock = t THEN None ELSE lock
  /\ UNCHANGED <<file, disk, request, view, stale>>

CancelCoroutine(t) ==
  /\ thread[t] = "none"
  /\ Leave(t)
  /\ outcome' = [outcome EXCEPT ![t] = IF @ = "pending" THEN "refused" ELSE @]
  /\ UNCHANGED <<thread, excuse>>

(* The save still waits for a thread of the executor and is taken back.    *)
CancelQueued(t) ==
  /\ thread[t] = "queued"
  /\ Leave(t)
  /\ thread' = [thread EXCEPT ![t] = "none"]
  /\ Settle(t, "refused")
  /\ UNCHANGED excuse

(* The thread has started: it runs on, without the asyncio lock.           *)
CancelRunning(t) ==
  /\ thread[t] # "none"
  /\ Leave(t)
  /\ excuse' = excuse \cup {"late"}
  /\ UNCHANGED <<thread, outcome>>

Active(t) == pc[t] \notin {"idle", "done"} \/ thread[t] # "none"

Stop ==
  /\ \E t \in Tasks : Active(t)
  /\ lock' = None
  /\ disk' = None
  /\ pc' = [t \in Tasks |-> IF Active(t) THEN "done" ELSE pc[t]]
  /\ thread' = [t \in Tasks |-> "none"]
  /\ answer' = [t \in Tasks |-> IF pc[t] \in {"idle", "done"} THEN answer[t] ELSE "cancelled"]
  /\ outcome' = [t \in Tasks |-> IF outcome[t] = "pending" THEN "refused" ELSE outcome[t]]
  /\ UNCHANGED <<file, request, view, stale, excuse>>

Over ==
  /\ \A t \in Tasks : At(t, "done") /\ ~Active(t)
  /\ UNCHANGED vars

Coroutine(t) == Acquire(t) \/ Load(t) \/ LoadUnreadable(t) \/ Miss(t) \/ Submit(t) \/ Return(t) \/ Raise(t)
Thread(t) == BeginWrite(t) \/ Replace(t) \/ WriteFails(t)

Next ==
  \/ \E t \in Tasks : Ask(t) \/ Coroutine(t) \/ Thread(t)
  \/ \E t \in Tasks : CancelCoroutine(t) \/ CancelQueued(t) \/ CancelRunning(t)
  \/ Stop
  \/ Over

Spec == Init /\ [][Next]_vars
FairSpec == Spec /\ \A t \in Tasks : SF_vars(Coroutine(t)) /\ WF_vars(Thread(t))

(***************************************************************************)
(* Properties.                                                             *)
(***************************************************************************)
TypeOK ==
  /\ file \in Tables
  /\ lock \in Tasks \cup {None}
  /\ disk \in Tasks \cup {None}
  /\ pc \in [Tasks -> {"idle", "waiting", "done"} \cup Holding]
  /\ thread \in [Tasks -> {"none", "queued", "writing"}]
  /\ request \in [Tasks -> Requests \cup {None}]
  /\ view \in [Tasks -> Tables]
  /\ answer \in [Tasks -> {"none", "ok", "missing", "error", "cancelled"}]
  /\ outcome \in [Tasks -> {"none", "pending", "applied", "missing", "refused"}]
  /\ stale \subseteq Tasks
  /\ excuse \subseteq {"unreadable", "late"}

(* An operation acts on an outdated list only where a read failed or a     *)
(* cancelled coroutine left its thread behind: the asyncio lock of         *)
(* upsert_account, _mutate_account, update_account and delete_account      *)
(* keeps all other operations apart.                                       *)
Excused == stale # {} => excuse # {}

(* What the caller is told is what became of the operation.                *)
AnswerTrue == \A t \in Tasks :
  /\ answer[t] = "ok" => outcome[t] = "applied"
  /\ answer[t] = "missing" => outcome[t] = "missing"
  /\ answer[t] = "error" => outcome[t] = "refused"

(* The list in a coroutine's hands is the one in the file, and only one    *)
(* coroutine and one thread are between a read and its write.              *)
LocksHeld == \A t \in Tasks :
  /\ lock = t <=> pc[t] \in Holding
  /\ disk = t <=> thread[t] = "writing"

ThreadsOwned == \A t \in Tasks : thread[t] # "none" =>
  /\ outcome[t] = "pending"
  /\ At(t, "saving") \/ (At(t, "done") /\ "late" \in excuse)
  /\ request[t].kind = "upsert" \/ Found(t)

OutcomeKnown == \A t \in Tasks :
  /\ At(t, "idle") => outcome[t] = "none"
  /\ pc[t] \in {"waiting", "loading", "loaded", "saving"} => outcome[t] = "pending"
  /\ At(t, "saved") => outcome[t] = "applied"
  /\ At(t, "failed") => outcome[t] = "refused"
  /\ outcome[t] # "none" => request[t] \in Requests
  /\ ~At(t, "done") => answer[t] = "none"

ViewFresh == excuse = {} =>
  \A t \in Tasks : At(t, "loaded") \/ thread[t] # "none" => view[t] = file

StoreInv == LocksHeld /\ ThreadsOwned /\ OutcomeKnown /\ ViewFresh

(* What holds of the file, its locks and its callers at all times: nobody  *)
(* works on an outdated list without an excuse, and nobody is misled.      *)
TableInv == TypeOK /\ StoreInv /\ Excused /\ AnswerTrue

(* Every operation of the store takes effect at most once and at one       *)
(* moment, on its own part of its own row, also when coroutines are        *)
(* cancelled, writes fail or the process stops.                            *)
Atomic == INSTANCE AtomicStore WITH rows <- file
ActsAtomically == Atomic!Spec

(* Every operation ends: no early return, exception or cancellation leaves *)
(* a lock taken.                                                           *)
OperationEnds == \A t \in Tasks : At(t, "waiting") ~> (At(t, "done") /\ ~Active(t))
===============================================================================
