------------------------------ MODULE Sidecar ------------------------------
(***************************************************************************)
(* The desktop shell's care of the relay process (src-tauri/src/lib.rs).   *)
(* What the shell knows is in three cells of AppState, each behind a mutex *)
(* of its own: the child handle, the job object and the ready line.  They  *)
(* are written by the thread that starts the relay (the setup thread, then *)
(* one per relay_restart), by the reader thread of each child when the     *)
(* child exits, and by the main thread (relay_stop, exit of the            *)
(* application).  No lock spans two cells, so an action is one critical    *)
(* section.  A start spawns at most one process, so a start names it too.  *)
(***************************************************************************)
EXTENDS Places, FiniteSets

CONSTANTS
  Starts,   \* the runs of spawn_with_port: the first and one per restart
  first,    \* the start made by the setup hook
  main      \* the main thread

ASSUME SidecarAssumption ==
  /\ first \in Starts
  /\ main \notin Starts
  /\ None \notin Starts

Threads == Starts \cup {main}

VARIABLES
  sidecar,   \* AppState.sidecar: the child that is current
  job,       \* AppState.job: the job object, by the start that made it
  ready,     \* AppState.ready: whose ready line relay_status reports
  tree,      \* the live processes of a start: onefile bootloader and relay
  line,      \* the ready line has reached the start's channel
  reader,    \* the reader thread of each child
  jobless,   \* starts that could not create a job object
  raced      \* two writers of the cells met, or an exit came before its store

vars == <<sidecar, job, ready, pc, tree, line, reader, jobless, raced>>
cells == <<sidecar, job, ready>>

Exited == pc[main] = "exited"

(* A thread, or a reader thread, of the running application is at l.       *)
Stands(a, l) == ~Exited /\ pc[a] = l
ReaderAt(t, l) == ~Exited /\ reader[t] = l

(* Threads and readers that have written one cell and not yet the last.    *)
BusyThreads == {a \in Threads :
                  pc[a] \in {"dropJob", "clearReady", "exitJob", "storeChild", "storeReady"}}
BusyReaders == {t \in Starts : reader[t] \in {"dropJob", "clearReady"}}
Quiet == BusyThreads = {} /\ BusyReaders = {}

Init ==
  /\ sidecar = None /\ job = None /\ ready = None
  /\ pc = [a \in Threads |-> IF a = first THEN "spawn" ELSE "idle"]
  /\ tree = [t \in Starts |-> {}]
  /\ line = [t \in Starts |-> FALSE]
  /\ reader = [t \in Starts |-> "none"]
  /\ jobless = {}
  /\ raced = FALSE

(* child.kill() reaches the bootloader only; closing the last handle of a  *)
(* job object kills every process in it.                                   *)
KillChild(c) == [t \in Starts |-> IF t = c THEN tree[t] \ {"boot"} ELSE tree[t]]
CloseJob(j) == [t \in Starts |-> IF t = j THEN {} ELSE tree[t]]

(***************************************************************************)
(* The relay process, as the shell can observe it.                         *)
(***************************************************************************)
Unpack(t) ==
  /\ tree[t] = {"boot"}
  /\ tree' = [tree EXCEPT ![t] = {"boot", "relay"}]
  /\ UNCHANGED <<cells, pc, line, reader, jobless, raced>>

(* The relay listens and prints its line; the reader sends it on.          *)
ReadyLine(t) ==
  /\ "relay" \in tree[t]
  /\ Stands(t, "await") /\ ~line[t]
  /\ line' = [line EXCEPT ![t] = TRUE]
  /\ UNCHANGED <<cells, pc, tree, reader, jobless, raced>>

Crash(t) ==
  /\ tree[t] # {}
  /\ tree' = [tree EXCEPT ![t] = {}]
  /\ UNCHANGED <<cells, pc, line, reader, jobless, raced>>

(***************************************************************************)
(* spawn_with_port.                                                        *)
(***************************************************************************)
Spawn(s) ==
  /\ Stands(s, "spawn")
  /\ \/ /\ Goto(s, "await")
        /\ tree' = [tree EXCEPT ![s] = {"boot"}]
        /\ reader' = [reader EXCEPT ![s] = "reading"]
     \/ /\ Goto(s, "failed")
        /\ UNCHANGED <<tree, reader>>
  /\ UNCHANGED <<cells, line, jobless, raced>>

(* recv_timeout ends without a line: 60 s are over or the reader is gone.  *)
GiveUp(s) ==
  /\ Stands(s, "await") /\ ~line[s]
  /\ Goto(s, "failed")
  /\ tree' = KillChild(s)
  /\ UNCHANGED <<cells, line, reader, jobless, raced>>

(* variant: the job object that is overwritten is not closed               *)
StoreJob_NoDrop(s) ==
  /\ Stands(s, "await") /\ line[s]
  /\ Goto(s, "storeChild")
  /\ job' = s
  /\ raced' = (raced \/ ~Quiet)
  /\ UNCHANGED <<sidecar, ready, tree, line, reader, jobless>>

(* The job object takes in the whole tree; storing it drops the one that   *)
(* was there.  Without a job object the cell is left as it is.             *)
StoreJob(s) ==
  /\ Stands(s, "await") /\ line[s]
  /\ Goto(s, "storeChild")
  /\ \/ /\ job' = s
        /\ tree' = CloseJob(job)
        /\ UNCHANGED jobless
     \/ /\ jobless' = jobless \cup {s}
        /\ UNCHANGED <<job, tree>>
  /\ raced' = (raced \/ ~Quiet)
  /\ UNCHANGED <<sidecar, ready, line, reader>>

StoreChild(s) ==
  /\ Stands(s, "storeChild")
  /\ sidecar' = s
  /\ Goto(s, "storeReady")
  /\ UNCHANGED <<job, ready, tree, line, reader, jobless, raced>>

StoreReady(s) ==
  /\ Stands(s, "storeReady")
  /\ ready' = s
  /\ Goto(s, "done")
  /\ UNCHANGED <<sidecar, job, tree, line, reader, jobless, raced>>

(***************************************************************************)
(* handle_sidecar_exit, in the reader thread of t.  The exit event comes   *)
(* when the whole tree is gone: its pipes are open until then.             *)
(***************************************************************************)
(* variant: the pid is not compared                                        *)
ExitOfOther_Never(t) == FALSE

ExitOfOther(t) == sidecar \notin {None, t}

Unstored(t) == line[t] /\ pc[t] \in {"await", "storeChild", "storeReady"}

IgnoreExit(t) ==
  /\ ReaderAt(t, "reading") /\ tree[t] = {}
  /\ ExitOfOther(t)
  /\ reader' = [reader EXCEPT ![t] = "gone"]
  /\ raced' = (raced \/ Unstored(t))
  /\ UNCHANGED <<cells, pc, tree, line, jobless>>

(* variant: the exit event only ends the reader                            *)
NoticeExit_Quietly(t) ==
  /\ ReaderAt(t, "reading") /\ tree[t] = {}
  /\ ~ExitOfOther(t)
  /\ reader' = [reader EXCEPT ![t] = "gone"]
  /\ raced' = (raced \/ ~Quiet \/ Unstored(t))
  /\ UNCHANGED <<cells, pc, tree, line, jobless>>

NoticeExit(t) ==
  /\ ReaderAt(t, "reading") /\ tree[t] = {}
  /\ ~ExitOfOther(t)
  /\ sidecar' = None
  /\ reader' = [reader EXCEPT ![t] = "dropJob"]
  /\ raced' = (raced \/ ~Quiet \/ Unstored(t))
  /\ UNCHANGED <<job, ready, pc, tree, line, jobless>>

ReaderDropsJob(t) ==
  /\ ReaderAt(t, "dropJob")
  /\ tree' = CloseJob(job)
  /\ job' = None
  /\ reader' = [reader EXCEPT ![t] = "clearReady"]
  /\ UNCHANGED <<sidecar, ready, pc, line, jobless, raced>>

ReaderClears(t) ==
  /\ ReaderAt(t, "clearReady")
  /\ ready' = None
  /\ reader' = [reader EXCEPT ![t] = "gone"]
  /\ UNCHANGED <<sidecar, job, pc, tree, line, jobless, raced>>

(***************************************************************************)
(* stop_sidecar, by a restart thread or by the main thread, and the exit   *)
(* of the application, which leaves the ready line alone.                  *)
(***************************************************************************)
Restart(s) ==
  /\ s # first /\ Stands(s, "idle")
  /\ Goto(s, "takeChild")
  /\ UNCHANGED <<cells, tree, line, reader, jobless, raced>>

RelayStop ==
  /\ Stands(main, "idle")
  /\ Goto(main, "takeChild")
  /\ UNCHANGED <<cells, tree, line, reader, jobless, raced>>

Exit ==
  /\ Stands(main, "idle")
  /\ Goto(main, "exitChild")
  /\ UNCHANGED <<cells, tree, line, reader, jobless, raced>>

TakeChild(a) ==
  /\ Stands(a, "takeChild") \/ Stands(a, "exitChild")
  /\ tree' = KillChild(sidecar)
  /\ sidecar' = None
  /\ Goto(a, IF pc[a] = "takeChild" THEN "dropJob" ELSE "exitJob")
  /\ raced' = (raced \/ ~Quiet)
  /\ UNCHANGED <<job, ready, line, reader, jobless>>

(* variant: the cell is emptied and the handle kept open                   *)
DropJob_Leaks(a) ==
  /\ Stands(a, "dropJob") \/ Stands(a, "exitJob")
  /\ job' = None
  /\ Goto(a, IF pc[a] = "dropJob" THEN "clearReady" ELSE "exited")
  /\ UNCHANGED <<sidecar, ready, tree, line, reader, jobless, raced>>

(* At the exit of the application every thread ends with it.               *)
DropJob(a) ==
  /\ Stands(a, "dropJob") \/ Stands(a, "exitJob")
  /\ tree' = CloseJob(job)
  /\ job' = None
  /\ Goto(a, IF pc[a] = "dropJob" THEN "clearReady" ELSE "exited")
  /\ UNCHANGED <<sidecar, ready, line, reader, jobless, raced>>

(* variant: relay_stop starts the relay again                              *)
ClearReady_Respawns(a) ==
  /\ Stands(a, "clearReady")
  /\ ready' = None
  /\ Goto(a, "spawn")
  /\ UNCHANGED <<sidecar, job, tree, line, reader, jobless, raced>>

(* variant: the ready line outlives the stop                               *)
ClearReady_Keeps(a) ==
  /\ Stands(a, "clearReady")
  /\ Goto(a, IF a = main THEN "idle" ELSE "spawn")
  /\ UNCHANGED <<cells, tree, line, reader, jobless, raced>>

ClearReady(a) ==
  /\ Stands(a, "clearReady")
  /\ ready' = None
  /\ Goto(a, IF a = main THEN "idle" ELSE "spawn")
  /\ UNCHANGED <<sidecar, job, tree, line, reader, jobless, raced>>

(***************************************************************************)
(* The whole shell.                                                        *)
(***************************************************************************)
Stopping(a) == TakeChild(a) \/ DropJob(a) \/ ClearReady(a)
Starting(s) == Spawn(s) \/ GiveUp(s) \/ StoreJob(s) \/ StoreChild(s) \/ StoreReady(s)
Reading(t) == IgnoreExit(t) \/ NoticeExit(t) \/ ReaderDropsJob(t) \/ ReaderClears(t)
Process(t) == Unpack(t) \/ ReadyLine(t) \/ Crash(t)

(* The application is gone; what it has left behind goes on alone.         *)
Over == Exited /\ UNCHANGED vars

Next ==
  \/ RelayStop \/ Exit \/ Over
  \/ \E a \in Threads : Stopping(a)
  \/ \E s \in Starts : Restart(s) \/ Starting(s) \/ Reading(s) \/ Process(s)

Spec == Init /\ [][Next]_vars

(* Threads run and a wait for the ready line ends; nobody has to press a   *)
(* button and no process has to become ready or to die.                    *)
FairSpec ==
  /\ Spec
  /\ \A a \in Threads : WF_vars(Stopping(a))
  /\ \A s \in Starts : WF_vars(Starting(s)) /\ WF_vars(Reading(s))

(***************************************************************************)
(* Properties.                                                             *)
(***************************************************************************)
StopPlaces == {"idle", "takeChild", "dropJob", "clearReady"}
MainPlaces == StopPlaces \cup {"exitChild", "exitJob", "exited"}
StartPlaces == StopPlaces \cup {"spawn", "await", "storeChild", "storeReady", "done", "failed"}

(* Every cell names a start, and the threads stand where the code can wait.*)
TypeOK ==
  /\ {sidecar, job, ready} \subseteq Starts \cup {None}
  /\ pc \in [Threads -> MainPlaces \cup StartPlaces]
  /\ pc[main] \in MainPlaces /\ \A s \in Starts : pc[s] \in StartPlaces
  /\ tree \in [Starts -> SUBSET {"boot", "relay"}]
  /\ line \in [Starts -> BOOLEAN]
  /\ reader \in [Starts -> {"none", "reading", "dropJob", "clearReady", "gone"}]
  /\ jobless \subseteq Starts
  /\ raced \in BOOLEAN

(* No process tree escapes: whatever restarts, stops, exits and exit       *)
(* events do to each other, a tree that was put into a job object lives    *)
(* only as long as AppState.job holds that object, so at most one such     *)
(* relay runs and none is left when the application has exited.            *)
Grouped(t) == pc[t] \in {"storeChild", "storeReady", "done"} /\ t \notin jobless

NoStrayTree == \A t \in Starts : Grouped(t) /\ tree[t] # {} => job = t

(* The cells agree whenever no writer is half-way, as long as no two       *)
(* writers have met and no exit came before its store: the same child is   *)
(* current and reported ready, and the job object is its own.              *)
CellsAgree ==
  ~raced /\ Quiet /\ ~Exited =>
    /\ ready = sidecar
    /\ job = sidecar \/ sidecar \in jobless

(* The inductive invariant behind it: until writers meet, at most one is   *)
(* half-way, and what it has written so far is in the cells.               *)
OneWriter ==
  /\ \A a, b \in BusyThreads : a = b
  /\ \A t, u \in BusyReaders : t = u
  /\ BusyThreads = {} \/ BusyReaders = {}

ThreadProgress(a) ==
  /\ pc[a] \in {"dropJob", "exitJob", "clearReady"} => sidecar = None
  /\ pc[a] = "clearReady" => job = None
  /\ pc[a] \in {"storeChild", "storeReady"} => job = a \/ a \in jobless
  /\ pc[a] = "storeChild" => ready = sidecar
  /\ pc[a] = "storeReady" => sidecar = a

ReaderProgress(t) ==
  /\ reader[t] \in {"dropJob", "clearReady"} => sidecar = None /\ ready \in {None, t}
  /\ reader[t] = "clearReady" => job = None
  /\ pc[t] \in StopPlaces \cup {"spawn"} => reader[t] = "none"

CellsInv ==
  /\ CellsAgree
  /\ ~raced =>
       /\ OneWriter
       /\ \A a \in Threads : ThreadProgress(a)
       /\ \A t \in Starts : ReaderProgress(t)

(* A reported relay that is dead still has its exit event to come, under   *)
(* the same condition: relay_status tells the truth or is about to.        *)
ReadyIsWatched ==
  ~raced => \A t \in Starts :
    ready = t /\ tree[t] = {} =>
      reader[t] = "reading" \/ ~Quiet

(* Why: a live tree has a reader, a start that has its line has one too,   *)
(* and only a start about to store its own line outlives the reader.       *)
WatchInv ==
  \A t \in Starts :
    /\ tree[t] # {} => reader[t] = "reading"
    /\ pc[t] \in {"storeChild", "storeReady"} => line[t]
    /\ ~raced /\ Unstored(t) => reader[t] = "reading"
    /\ ~raced /\ ready = t =>
         \/ reader[t] \in {"reading", "dropJob", "clearReady"}
         \/ \E q \in Starts : pc[q] = "storeReady"

(* What holds of the cells at all times: they agree, and a relay that is   *)
(* reported is watched, until two writers meet.                            *)
ShellInv == TypeOK /\ CellsInv /\ ReadyIsWatched

(* The exit handler of one child does not take down another that is ready. *)
NewInstanceKept ==
  [][\A t, u \in Starts :
       (t # u /\ reader'[t] # reader[t] /\ ready = u /\ tree[u] # {} /\ ~raced')
         => ready' = u /\ tree'[u] = tree[u]]_vars

(* A relay that dies after it was reported ready is taken back from        *)
(* relay_status, unless writers have met or the application exits.         *)
CrashReported ==
  \A t \in Starts :
    (ready = t /\ tree[t] = {})
      ~> (ready # t \/ raced \/ pc[main] \in {"exitChild", "exitJob", "exited"})

(* handle_sidecar_exit's comment: the arrival of the exit event makes the  *)
(* ready state invalid.                                                    *)
ExitInvalidatesReady == \A t \in Starts : reader[t] = "gone" => ready # t
=============================================================================
