-------------------------- MODULE AccountStoreProofs --------------------------
(***************************************************************************)
(* Theorems about the account store, for any number of tasks and accounts. *)
(* The inductive invariant is TypeOK with StoreInv: who holds which lock,  *)
(* what became of each operation, and that an unexcused view is the file.  *)
(***************************************************************************)
EXTENDS AccountStore, TLAPS

USE DEF At, Goto, Settle

(* Reading a table.                                                        *)
LEMMA TableFacts ==
  ASSUME NEW x \in Tables
  PROVE  /\ DOMAIN x \subseteq Uids
         /\ \A u \in DOMAIN x : x[u] \in Row
         /\ x \in [DOMAIN x -> Row]
<1>1. PICK S \in SUBSET Uids : x \in [S -> Row]
    BY DEF Tables
<1> QED BY <1>1

(* Building a table.                                                       *)
LEMMA MakeTable ==
  ASSUME NEW S \in SUBSET Uids, NEW x \in [S -> Row]
  PROVE  x \in Tables
BY DEF Tables

LEMMA NoRowsIsTable == NoRows \in Tables
<1>1. NoRows \in [{} -> Row]
    BY DEF NoRows
<1> QED BY <1>1, MakeTable

(* What each operation writes back is a table again.                       *)
LEMMA WrittenIsTable ==
  ASSUME NEW t \in Tasks, TypeOK, request[t] \in Requests
  PROVE  Written(t) \in Tables
<1> DEFINE r == request[t]
           v == view[t]
<1>1. /\ r.uid \in Uids /\ r.kind \in Kinds
      /\ v \in Tables
    BY DEF TypeOK, Requests
<1>2. /\ DOMAIN v \subseteq Uids
      /\ \A u \in DOMAIN v : v[u] \in Row
    BY <1>1, TableFacts
<1>3. Unwritten \in Row
    BY DEF Unwritten, Row
<1> HIDE DEF r, v
<1>4. Upserted(t, v, r.uid) \in Tables
  <2> DEFINE old == IF r.uid \in DOMAIN v THEN v[r.uid] ELSE Unwritten
             new == [old EXCEPT !["entry"] = t]
  <2>1. old \in Row
      BY <1>2, <1>3
  <2>2. new \in Row
      BY <2>1 DEF Row
  <2> HIDE DEF new
  <2>3. [u \in DOMAIN v \cup {r.uid} |-> IF u = r.uid THEN new ELSE v[u]]
          \in [DOMAIN v \cup {r.uid} -> Row]
      BY <1>2, <2>2
  <2>4. Upserted(t, v, r.uid) \in [DOMAIN v \cup {r.uid} -> Row]
      BY <2>3 DEF Upserted, new
  <2> QED BY <1>1, <1>2, <2>4, MakeTable
<1>5. Deleted(v, r.uid) \in Tables
  <2>1. Deleted(v, r.uid) \in [DOMAIN v \ {r.uid} -> Row]
      BY <1>2 DEF Deleted
  <2> QED BY <1>2, <2>1, MakeTable
<1>6. ASSUME NEW p \in Parts PROVE Patched(t, v, r.uid, p) \in Tables
  <2>1. ASSUME NEW u \in DOMAIN v PROVE [v[u] EXCEPT ![p] = t] \in Row
      BY <1>2, <2>1 DEF Row
  <2>2. Patched(t, v, r.uid, p) \in [DOMAIN v -> Row]
      BY <1>2, <2>1 DEF Patched
  <2> QED BY <1>2, <2>2, MakeTable
<1>7. r.kind \notin {"upsert", "delete"} => Owned[r.kind] \in Parts
    BY <1>1 DEF Kinds, Owned, Parts
<1> QED BY <1>4, <1>5, <1>6, <1>7 DEF Written, r, v

Inv == TypeOK /\ StoreInv

LEMMA InitInv == Init => Inv
<1> SUFFICES ASSUME Init PROVE Inv
    OBVIOUS
<1>1. file \in Tables
  <2>1. PICK S \in SUBSET Uids : file = [u \in S |-> Unwritten]
      BY DEF Init
  <2>2. Unwritten \in Row
      BY DEF Unwritten, Row
  <2>3. file \in [S -> Row]
      BY <2>1, <2>2
  <2> QED BY <2>3, MakeTable
<1>2. TypeOK
    BY <1>1, NoRowsIsTable DEF Init, TypeOK
<1>3. StoreInv
    BY StoreAssumption DEF Init, StoreInv, LocksHeld, ThreadsOwned, OutcomeKnown, ViewFresh,
       Holding, StoreAssumption
<1> QED BY <1>2, <1>3 DEF Inv

(* Every step keeps the types.                                             *)
LEMMA StepType ==
  ASSUME Inv, [Next]_vars
  PROVE  TypeOK'
<1> USE DEF Inv, TypeOK, Holding
<1>1. ASSUME NEW t \in Tasks, Ask(t) PROVE TypeOK'
  <2>1. PICK r \in Asks[t] : request' = [request EXCEPT ![t] = r]
      BY <1>1 DEF Ask
  <2>2. r \in Requests
      BY <2>1, StoreAssumption DEF StoreAssumption
  <2> QED BY <1>1, <2>1, <2>2 DEF Ask
<1>2. ASSUME NEW t \in Tasks, Acquire(t) \/ Submit(t) \/ BeginWrite(t) PROVE TypeOK'
    BY <1>2 DEF Acquire, Submit, BeginWrite
<1>3. ASSUME NEW t \in Tasks, NEW list \in Tables, view' = [view EXCEPT ![t] = list]
      PROVE  view' \in [Tasks -> Tables]
    BY <1>3
<1>10. ASSUME NEW t \in Tasks, Load(t) PROVE TypeOK'
    BY <1>3, <1>10 DEF Load
<1>11. ASSUME NEW t \in Tasks, LoadUnreadable(t) PROVE TypeOK'
    BY <1>3, <1>11, NoRowsIsTable DEF LoadUnreadable
<1>4. ASSUME NEW t \in Tasks, Miss(t) \/ Return(t) \/ Raise(t) PROVE TypeOK'
    BY <1>4 DEF Miss, Return, Raise, Finish, Outdated
<1>5. ASSUME NEW t \in Tasks, Replace(t) PROVE TypeOK'
  <2>1. request[t] \in Requests
      BY <1>5 DEF Replace, StoreInv, ThreadsOwned, OutcomeKnown
  <2>2. Written(t) \in Tables
      BY <2>1, WrittenIsTable
  <2> QED BY <1>5, <2>2 DEF Replace, EndThread, Outdated
<1>6. ASSUME NEW t \in Tasks, WriteFails(t) PROVE TypeOK'
    BY <1>6 DEF WriteFails, EndThread
<1>7. ASSUME NEW t \in Tasks, CancelCoroutine(t) \/ CancelQueued(t) \/ CancelRunning(t) PROVE TypeOK'
    BY <1>7 DEF CancelCoroutine, CancelQueued, CancelRunning, Leave, Finish
<1>8. CASE Stop
    BY <1>8 DEF Stop
<1>9. CASE Over \/ UNCHANGED vars
    BY <1>9 DEF Over, vars
<1> QED BY <1>1, <1>2, <1>4, <1>5, <1>6, <1>7, <1>8, <1>9, <1>10, <1>11 DEF Next, Coroutine, Thread

(* Every step keeps StoreInv.                                              *)
LEMMA StepInv ==
  ASSUME Inv, [Next]_vars, TypeOK'
  PROVE  StoreInv'
<1> USE StoreAssumption DEF Found, Inv, TypeOK, StoreInv, LocksHeld, ThreadsOwned, OutcomeKnown, ViewFresh,
        Holding, StoreAssumption
<1>1. ASSUME NEW t \in Tasks, Ask(t) PROVE StoreInv'
  <2>1. PICK r \in Asks[t] : request' = [request EXCEPT ![t] = r]
      BY <1>1 DEF Ask
  <2>2. r \in Requests
      BY <2>1
  <2> QED BY <1>1, <2>1, <2>2 DEF Ask
<1>2. ASSUME NEW t \in Tasks, Acquire(t) \/ Submit(t) \/ BeginWrite(t) PROVE StoreInv'
    BY <1>2 DEF Acquire, Submit, BeginWrite
<1>3. ASSUME NEW t \in Tasks, Load(t) \/ LoadUnreadable(t) PROVE StoreInv'
    BY <1>3 DEF Load, LoadUnreadable
<1>4. ASSUME NEW t \in Tasks, Miss(t) \/ Return(t) \/ Raise(t) PROVE StoreInv'
    BY <1>4 DEF Miss, Return, Raise, Finish
<1>5. ASSUME NEW t \in Tasks, Replace(t) PROVE StoreInv'
  <2>1. ViewFresh'
    <3> SUFFICES ASSUME excuse = {}, NEW s \in Tasks, s # t PROVE ~At(s, "loaded") /\ thread[s] = "none"
        BY <1>5 DEF Replace, EndThread
    <3> QED BY <1>5 DEF Replace
  <2> HIDE DEF ViewFresh
  <2> QED BY <1>5, <2>1 DEF Replace, EndThread
<1>6. ASSUME NEW t \in Tasks, WriteFails(t) PROVE StoreInv'
    BY <1>6 DEF WriteFails, EndThread
<1>7. ASSUME NEW t \in Tasks, CancelCoroutine(t) \/ CancelQueued(t) \/ CancelRunning(t) PROVE StoreInv'
    BY <1>7 DEF CancelCoroutine, CancelQueued, CancelRunning, Leave, Finish
<1>8. CASE Stop
    BY <1>8 DEF Stop, Active
<1>9. CASE Over \/ UNCHANGED vars
    BY <1>9 DEF Over, vars
<1> QED BY <1>1, <1>2, <1>3, <1>4, <1>5, <1>6, <1>7, <1>8, <1>9 DEF Next, Coroutine, Thread

LEMMA Invariance == Spec => []Inv
<1>1. Inv /\ [Next]_vars => Inv'
    BY StepType, StepInv DEF Inv
<1> QED BY InitInv, <1>1, PTL DEF Spec

(* The state of the store keeps its types.                                 *)
THEOREM StoreTyping == Spec => []TypeOK
BY Invariance, PTL DEF Inv

(* Locks, threads, outcomes and views fit together.                        *)
THEOREM StoreConsistent == Spec => []StoreInv
BY Invariance, PTL DEF Inv

(* Only a failed read or a thread left behind makes an operation act on an *)
(* outdated list.                                                          *)
THEOREM StaleExcused == Spec => []Excused
<1>1. Init => Excused
    BY DEF Init, Excused
<1>2. Inv /\ Excused /\ [Next]_vars => Excused'
  <2> SUFFICES ASSUME Inv, Excused, [Next]_vars PROVE Excused'
      OBVIOUS
  <2>1. excuse \subseteq excuse'
      BY DEF Next, Coroutine, Thread, Ask, Acquire, Load, LoadUnreadable, Miss, Submit, Return,
             Raise, BeginWrite, Replace, WriteFails, CancelCoroutine, CancelQueued,
             CancelRunning, Leave, Stop, Over, vars
  <2>2. CASE stale' = stale
      BY <2>1, <2>2 DEF Excused
  <2>3. ASSUME NEW t \in Tasks, Miss(t) \/ Replace(t) PROVE Excused'
    <3>1. excuse = {} => view[t] = file
        BY <2>3 DEF Inv, StoreInv, ViewFresh, Miss, Replace
    <3>2. excuse = {} => stale' = stale
        BY <2>3, <3>1 DEF Miss, Replace, Outdated
    <3> QED BY <2>1, <3>2 DEF Excused
  <2> QED BY <2>2, <2>3 DEF Next, Coroutine, Thread, Ask, Acquire, Load, LoadUnreadable, Submit,
             Return, Raise, BeginWrite, WriteFails, CancelCoroutine, CancelQueued,
             CancelRunning, Leave, Stop, Over, vars
<1> QED BY <1>1, <1>2, Invariance, PTL DEF Spec

(* No caller is told of a success, a missing row or an error that was not. *)
THEOREM AnswersTrue == Spec => []AnswerTrue
<1>1. Init => AnswerTrue
    BY DEF Init, AnswerTrue
<1>2. Inv /\ AnswerTrue /\ [Next]_vars => AnswerTrue'
  <2> SUFFICES ASSUME Inv, AnswerTrue, [Next]_vars PROVE AnswerTrue'
      OBVIOUS
  <2> USE DEF Inv, TypeOK, StoreInv, OutcomeKnown, ThreadsOwned, AnswerTrue, Holding
  <2>1. ASSUME NEW t \in Tasks, Ask(t) \/ Miss(t) \/ Return(t) \/ Raise(t) PROVE AnswerTrue'
      BY <2>1 DEF Ask, Miss, Return, Raise, Finish
  <2>2. ASSUME NEW t \in Tasks, Replace(t) \/ WriteFails(t) PROVE AnswerTrue'
      BY <2>2 DEF Replace, WriteFails, EndThread
  <2>3. ASSUME NEW t \in Tasks, CancelCoroutine(t) \/ CancelQueued(t) \/ CancelRunning(t)
        PROVE  AnswerTrue'
      BY <2>3 DEF CancelCoroutine, CancelQueued, CancelRunning, Leave, Finish
  <2>4. CASE Stop
      BY <2>4 DEF Stop
  <2>5. CASE answer' = answer /\ outcome' = outcome
      BY <2>5
  <2> QED BY <2>1, <2>2, <2>3, <2>4, <2>5 DEF Next, Coroutine, Thread, Acquire, Load,
             LoadUnreadable, Submit, BeginWrite, Over, vars
<1> QED BY <1>1, <1>2, Invariance, PTL DEF Spec

(***************************************************************************)
(* The store implements AtomicStore.                                       *)
(***************************************************************************)
(* A write of an up-to-date list changes what the operation owns.          *)
LEMMA FreshWriteApplies ==
  ASSUME Inv, NEW t \in Tasks, Replace(t), view[t] = file
  PROVE  Atomic!Apply(t)
<1> DEFINE r == request[t]
<1>1. /\ r \in Requests
      /\ outcome[t] = "pending"
      /\ r.kind = "upsert" \/ r.uid \in DOMAIN file
    BY DEF Inv, StoreInv, ThreadsOwned, OutcomeKnown, Replace, Found
<1>2. r.uid \in Uids /\ r.kind \in Kinds
    BY <1>1 DEF Requests
<1>3. \A u \in DOMAIN file : file[u] \in Row
    BY TableFacts DEF Inv, TypeOK
<1>4. /\ file' = Written(t)
      /\ Atomic!Settle(t, "applied")
      /\ stale' = stale
    BY <1>1 DEF Replace, Outdated, Atomic!Settle
<1> HIDE DEF r
<1>5. CASE r.kind = "delete"
  <2>1. file' = Deleted(file, r.uid)
      BY <1>4, <1>5 DEF Written, r
  <2> QED BY <1>1, <1>4, <1>5, <2>1 DEF Atomic!Apply, Atomic!RowDeleted, Deleted, r
<1>6. CASE r.kind = "upsert"
  <2> DEFINE old == IF r.uid \in DOMAIN file THEN file[r.uid] ELSE Unwritten
             new == [old EXCEPT !["entry"] = t]
  <2>1. file' = Upserted(t, file, r.uid)
      BY <1>4, <1>6 DEF Written, r
  <2>2. old \in Row
      BY <1>3 DEF Unwritten, Row
  <2>3. new["entry"] = t /\ \A p \in Parts \ {"entry"} : new[p] = old[p]
      BY <2>2 DEF Row, Parts
  <2>4. \A p \in Parts : Unwritten[p] = Origin
      BY DEF Unwritten
  <2> HIDE DEF new
  <2>5. /\ DOMAIN file' = DOMAIN file \cup {r.uid}
        /\ \A u \in DOMAIN file \ {r.uid} : file'[u] = file[u]
        /\ file'[r.uid] = new
      BY <2>1 DEF Upserted, new
  <2>6. Atomic!RowWritten(t, r.uid, "entry")
      BY <2>3, <2>4, <2>5 DEF Atomic!RowWritten, Atomic!Parts, Parts
  <2> QED BY <1>4, <1>6, <2>6 DEF Atomic!Apply, Atomic!Owned, r
<1>7. CASE r.kind \in {"note", "update"}
  <2> DEFINE part == Owned[r.kind]
             new == [file[r.uid] EXCEPT ![part] = t]
  <2>1. r.uid \in DOMAIN file
      BY <1>1, <1>7
  <2>2. part \in Parts
      BY <1>7 DEF Owned, Parts
  <2>3. file' = Patched(t, file, r.uid, part)
      BY <1>4, <1>7 DEF Written, r
  <2>4. new[part] = t /\ \A p \in Parts \ {part} : new[p] = file[r.uid][p]
      BY <1>3, <2>1, <2>2 DEF Row
  <2> HIDE DEF new, part
  <2>5. /\ DOMAIN file' = DOMAIN file
        /\ \A u \in DOMAIN file \ {r.uid} : file'[u] = file[u]
        /\ file'[r.uid] = new
      BY <2>1, <2>3 DEF Patched, new
  <2>6. Atomic!RowWritten(t, r.uid, part)
      BY <2>1, <2>4, <2>5 DEF Atomic!RowWritten, Atomic!Parts, Parts
  <2>7. part = Atomic!Owned[r.kind]
      BY DEF part, Owned, Atomic!Owned
  <2> QED BY <1>4, <1>7, <2>1, <2>6, <2>7 DEF Atomic!Apply, r
<1> QED BY <1>2, <1>5, <1>6, <1>7 DEF Kinds

(* Refusing what is pending: the end of the process.                       *)
LEMMA StopRefuses ==
  ASSUME Inv, Stop
  PROVE  [Atomic!Next]_(Atomic!vars)
<1> DEFINE S == {t \in Tasks : outcome[t] = "pending"}
<1>1. /\ outcome' = [t \in Tasks |-> IF t \in S THEN "refused" ELSE outcome[t]]
      /\ UNCHANGED <<file, request, stale>>
    BY DEF Stop
<1>2. CASE S = {}
  <2>1. outcome' = outcome
      BY <1>1, <1>2 DEF Inv, TypeOK
  <2> QED BY <1>1, <2>1 DEF Atomic!vars
<1>3. CASE S # {}
  <2>1. Atomic!Refuse(S)
      BY <1>1, <1>3 DEF Atomic!Refuse
  <2> QED BY <2>1 DEF Atomic!Next
<1> QED BY <1>2, <1>3

(* Refusing one operation.                                                 *)
LEMMA OneRefused ==
  ASSUME Inv, NEW t \in Tasks, outcome[t] = "pending",
         outcome' = [outcome EXCEPT ![t] = "refused"], UNCHANGED <<file, request, stale>>
  PROVE  [Atomic!Next]_(Atomic!vars)
<1>1. outcome' = [s \in Tasks |-> IF s \in {t} THEN "refused" ELSE outcome[s]]
    BY DEF Inv, TypeOK
<1>2. Atomic!Refuse({t})
    BY <1>1 DEF Atomic!Refuse
<1> QED BY <1>2 DEF Atomic!Next

(* Whatever coroutines, threads, failures and cancellations do, every      *)
(* operation of the store takes effect once, at one moment, on its part of *)
(* its row, or not at all.                                                 *)
THEOREM StoreActsAtomically == Spec => ActsAtomically
<1>1. Init => Atomic!Init
    BY DEF Init, Atomic!Init, Unwritten, Atomic!Parts, Parts
<1>2. Inv /\ [Next]_vars => [Atomic!Next]_(Atomic!vars)
  <2> SUFFICES ASSUME Inv, [Next]_vars PROVE [Atomic!Next]_(Atomic!vars)
      OBVIOUS
  <2>1. CASE UNCHANGED <<file, request, outcome, stale>>
      BY <2>1 DEF Atomic!vars
  <2>2. ASSUME NEW t \in Tasks, Ask(t) PROVE Atomic!Next
    <3>1. PICK r \in Asks[t] : request' = [request EXCEPT ![t] = r]
        BY <2>2 DEF Ask
    <3>2. r \in Atomic!Requests
        BY StoreAssumption DEF StoreAssumption, Requests, Kinds, Atomic!Requests, Atomic!Kinds
    <3>3. outcome[t] = "none"
        BY <2>2 DEF Ask, Inv, StoreInv, OutcomeKnown
    <3>4. Atomic!Ask(t)
        BY <2>2, <3>1, <3>2, <3>3 DEF Ask, Atomic!Ask
    <3> QED BY <3>4 DEF Atomic!Next
  <2>3. ASSUME NEW t \in Tasks, Miss(t) PROVE Atomic!Next
    <3>1. Atomic!Settle(t, "missing")
        BY <2>3 DEF Miss, Inv, StoreInv, OutcomeKnown, Atomic!Settle
    <3>2. CASE view[t] = file
      <4>1. Atomic!Miss(t)
          BY <2>3, <3>1, <3>2 DEF Miss, Outdated, Found, Atomic!Miss
      <4> QED BY <4>1 DEF Atomic!Next
    <3>3. CASE view[t] # file
      <4>1. Atomic!ActStale(t)
          BY <2>3, <3>1, <3>3 DEF Miss, Outdated, Atomic!ActStale
      <4> QED BY <4>1 DEF Atomic!Next
    <3> QED BY <3>2, <3>3
  <2>4. ASSUME NEW t \in Tasks, Replace(t) PROVE Atomic!Next
    <3>1. CASE view[t] = file
        BY <2>4, <3>1, FreshWriteApplies DEF Atomic!Next
    <3>2. CASE view[t] # file
      <4>1. Atomic!Settle(t, "applied")
          BY <2>4 DEF Replace, Inv, StoreInv, ThreadsOwned, Atomic!Settle
      <4>2. Atomic!ActStale(t)
          BY <2>4, <3>2, <4>1 DEF Replace, Outdated, Atomic!ActStale
      <4> QED BY <4>2 DEF Atomic!Next
    <3> QED BY <3>1, <3>2
  <2>5. ASSUME NEW t \in Tasks, WriteFails(t) \/ CancelQueued(t)
        PROVE  [Atomic!Next]_(Atomic!vars)
    <3>1. outcome[t] = "pending"
        BY <2>5 DEF WriteFails, CancelQueued, Inv, StoreInv, ThreadsOwned
    <3> QED BY <2>5, <3>1, OneRefused DEF WriteFails, CancelQueued, Leave
  <2>6. ASSUME NEW t \in Tasks, CancelCoroutine(t)
        PROVE  [Atomic!Next]_(Atomic!vars)
    <3>1. CASE outcome[t] = "pending"
        BY <2>6, <3>1, OneRefused DEF CancelCoroutine, Leave
    <3>2. CASE outcome[t] # "pending"
      <4>1. outcome' = outcome
          BY <2>6, <3>2 DEF CancelCoroutine, Inv, TypeOK
      <4> QED BY <2>1, <2>6, <4>1 DEF CancelCoroutine, Leave
    <3> QED BY <3>1, <3>2
  <2>7. CASE Stop
      BY <2>7, StopRefuses
  <2> QED BY <2>1, <2>2, <2>3, <2>4, <2>5, <2>6, <2>7 DEF Next, Coroutine, Thread, Acquire, Load,
             LoadUnreadable, Submit, Return, Raise, BeginWrite, CancelRunning, Leave, Over, vars
<1> QED BY <1>1, <1>2, Invariance, PTL DEF Spec, ActsAtomically, Atomic!Spec

(* TableInv: whatever is cancelled, fails or stops, nobody works on an     *)
(* outdated list without an excuse and nobody is told what is not so.      *)
THEOREM TableInvariant == Spec => []TableInv
BY StoreTyping, StoreConsistent, StaleExcused, AnswersTrue, PTL DEF TableInv

===============================================================================
