----------------------------- MODULE IdeSwitch -----------------------------
(***************************************************************************)
(* switch_account: an account of the pool is written into the session file *)
(* of the official client, which is closed before and started after, while *)
(* the user works with that client and other switches go on.  The file     *)
(* system is shared with the client: one read, write, rename or removal of *)
(* a file is one step.  (Whether a mark exists and what it holds are two   *)
(* looks of the code, of which one decides: they are one step.)            *)
(*                                                                         *)
(* A session is [uid, tok, key]: the account, its token (0 for the one of  *)
(* the pool, another number for one the client obtained) and the key its   *)
(* secrets are sealed with, 0 for none.  Marks of logouts are numbered:    *)
(* two logouts are taken to leave files of different contents.             *)
(***************************************************************************)
EXTENDS Places, Naturals, FiniteSets

CONSTANTS Switches,      \* the requests; each is one switch
          Uids,
          MaxWrites,     \* bound: tokens and logouts of the client
          MaxKey         \* bound: keys the client ever has

VARIABLES file, tmp,     \* the session file and the temporary file, None if missing
          marker,        \* the mark of a logout, 0 if there is none
          up, mem,       \* the client: whether it runs, the session it goes by
          key, cached,   \* the key of the client; the one the relay remembers, 0 for none
          writes,        \* the number of tokens and marks so far
          target, mine, base, mark,  \* a switch: its account, its key, the session
                         \* it read and the mark it found
          crossed        \* history: what happened to a switch meanwhile: the "client" ran,
                         \* "write": it changed the file, "logout": its user logged out,
                         \* "late": he did so when the switch was about to remove a mark,
                         \* "other": another switch was under way

clientVars == <<up, mem, key, writes>>
ownVars    == <<target, mine, base, mark>>
ideVars    == <<file, tmp, marker, clientVars, cached, pc, ownVars, crossed>>

Sessions == [uid : Uids, tok : 0 .. MaxWrites, key : 0 .. MaxKey]

ASSUME IdeAssumption == /\ MaxWrites \in Nat \ {0} /\ MaxKey \in Nat \ {0}
                        /\ None \notin Uids \cup Sessions

IdeInit == /\ file = None \/ \E u \in Uids, k \in {0, 1} : file = [uid |-> u, tok |-> 0, key |-> k]
           /\ tmp = None /\ marker \in {0, 1} /\ writes = marker
           /\ up = FALSE /\ mem = None /\ key = 1 /\ cached = 0
           /\ pc = [s \in Switches |-> "idle"]
           /\ target = [s \in Switches |-> None]
           /\ mine = [s \in Switches |-> 0]
           /\ base = [s \in Switches |-> None]
           /\ mark = [s \in Switches |-> 0]
           /\ crossed = [s \in Switches |-> {}]

(* variant: what the switch held is kept *)
EndKeeps(s) == Goto(s, "over") /\ UNCHANGED <<ownVars, crossed>>

(* The switch is over; it has nothing of its own any more. *)
End(s) == /\ Goto(s, "over")
          /\ target' = [target EXCEPT ![s] = None]
          /\ mine' = [mine EXCEPT ![s] = 0]
          /\ base' = [base EXCEPT ![s] = None]
          /\ mark' = [mark EXCEPT ![s] = 0]
          /\ crossed' = [crossed EXCEPT ![s] = {}]

Idle(s) == pc[s] \in {"idle", "over"}

(* Every switch under way takes notice of what happens to it. *)
Cross(what) == crossed' = [s \in Switches |-> IF Idle(s) THEN {} ELSE crossed[s] \cup what]

-----------------------------------------------------------------------------
(* switch_account up to the session file. *)

Begin(s, u) == /\ At(s, "idle")
               /\ Goto(s, "key")
               /\ target' = [target EXCEPT ![s] = u]
               /\ crossed' = [t \in Switches |->
                    IF t = s THEN IF \E o \in Switches : ~Idle(o) THEN {"other"} ELSE {}
                    ELSE IF Idle(t) THEN {} ELSE crossed[t] \cup {"other"}]
               /\ UNCHANGED <<file, tmp, marker, clientVars, cached, mine, base, mark>>

(* get_official_key: the remembered key, or the one the client tells. *)
GetKey(s) == /\ At(s, "key")
             /\ cached' = IF cached = 0 THEN key ELSE cached
             /\ mine' = [mine EXCEPT ![s] = cached']
             /\ Goto(s, "close")
             /\ UNCHANGED <<file, tmp, marker, clientVars, target, base, mark, crossed>>

(* variant: the client is left running *)
CloseNot(s) == /\ At(s, "close")
               /\ Goto(s, "marker")
               /\ UNCHANGED <<file, tmp, marker, clientVars, cached, ownVars, crossed>>

(* taskkill; whether it succeeded is not looked at. *)
Close(s) == /\ At(s, "close")
            /\ \/ up' = FALSE /\ UNCHANGED crossed
               \/ up /\ UNCHANGED up /\ crossed' = [crossed EXCEPT ![s] = @ \cup {"client"}]
            /\ Goto(s, "marker")
            /\ UNCHANGED <<file, tmp, marker, mem, key, writes, cached, ownVars>>

FindMarker(s) == /\ At(s, "marker")
                 /\ mark' = [mark EXCEPT ![s] = marker]
                 /\ Goto(s, "read")
                 /\ crossed' = [crossed EXCEPT ![s] = @ \ {"logout"}]
                 /\ UNCHANGED <<file, tmp, marker, clientVars, cached, target, mine, base>>

(* variant: a session sealed with another key is taken as it is *)
OpensAny(s, f) == TRUE

(* decode_session. *)
Opens(s, f) == f # None => f.key \in {0, mine[s]}

Read(s) == /\ At(s, "read")
           /\ \/ /\ Opens(s, file)
                 /\ base' = [base EXCEPT ![s] = file]
                 /\ Goto(s, "write")
                 /\ crossed' = [crossed EXCEPT ![s] = @ \ {"write"}]
                 /\ UNCHANGED <<target, mine, mark>>
              \/ ~Opens(s, file) /\ End(s)
           /\ UNCHANGED <<file, tmp, marker, clientVars, cached>>

(* build_session and encode_session: sealed if the session it read was.    *)
(* The other accounts and fields of that session are taken over as well.   *)
Session(s) == [uid |-> target[s], tok |-> 0,
               key |-> IF base[s] = None \/ base[s].key = 0 THEN 0 ELSE mine[s]]

-----------------------------------------------------------------------------
(* write_account_to_auth_file_sync. *)

(* All switches use the same temporary file. *)
WriteTmp(s) == /\ At(s, "write")
               /\ tmp' = Session(s)
               /\ Goto(s, IF base[s] = None THEN "replace" ELSE "compare")
               /\ UNCHANGED <<file, marker, clientVars, cached, ownVars, crossed>>

(* variant: the file is not read again *)
CompareNot(s) == /\ At(s, "compare")
                 /\ Goto(s, "replace")
                 /\ crossed' = [crossed EXCEPT ![s] = @ \ {"write"}]
                 /\ UNCHANGED <<file, tmp, marker, clientVars, cached, ownVars>>

Compare(s) == /\ At(s, "compare")
              /\ Goto(s, IF file = base[s] THEN "replace" ELSE "sweep_failed")
              /\ crossed' = [crossed EXCEPT ![s] = @ \ {"write"}]
              /\ UNCHANGED <<file, tmp, marker, clientVars, cached, ownVars>>

Replace(s) == /\ At(s, "replace")
              /\ \/ /\ tmp # None
                    /\ file' = tmp /\ tmp' = None
                    /\ Goto(s, "sweep")
                    /\ UNCHANGED <<ownVars, crossed>>
                 \/ tmp = None /\ End(s) /\ UNCHANGED <<file, tmp>>
              /\ UNCHANGED <<marker, clientVars, cached>>

Sweep(s) == /\ pc[s] \in {"sweep", "sweep_failed"}
            /\ tmp' = None
            /\ \/ At(s, "sweep") /\ Goto(s, "look") /\ UNCHANGED <<ownVars, crossed>>
               \/ At(s, "sweep_failed") /\ End(s)
            /\ UNCHANGED <<file, marker, clientVars, cached>>

(* variant: what the mark holds is not looked at *)
LookAny(s) == /\ At(s, "look")
              /\ Goto(s, IF mark[s] # 0 /\ marker # 0 THEN "unmark" ELSE "verify")
              /\ UNCHANGED <<file, tmp, marker, clientVars, cached, ownVars, crossed>>

(* Only the mark that was there at the beginning is to be removed ...      *)
Look(s) == /\ At(s, "look")
           /\ Goto(s, IF mark[s] # 0 /\ marker = mark[s] THEN "unmark" ELSE "verify")
           /\ UNCHANGED <<file, tmp, marker, clientVars, cached, ownVars, crossed>>

(* ... but what is removed is the mark that is there now, if any.          *)
Unmark(s) == /\ At(s, "unmark")
             /\ marker' = 0
             /\ Goto(s, "verify")
             /\ UNCHANGED <<file, tmp, clientVars, cached, ownVars, crossed>>

Written(s) == file # None /\ Opens(s, file) /\ file.uid = target[s] /\ file.tok = 0

Verify(s) == /\ At(s, "verify")
             /\ \/ Written(s) /\ Goto(s, "start") /\ UNCHANGED <<ownVars, crossed>>
                \/ ~Written(s) /\ End(s)
             /\ UNCHANGED <<file, tmp, marker, clientVars, cached>>

(* The session a client goes by when it starts. *)
Loaded == IF marker # 0 \/ file = None \/ file.key \notin {0, key} THEN None ELSE file

(* start_client: a client that runs already goes on as it is. *)
Start(s) == /\ At(s, "start")
            /\ \/ /\ up' = TRUE /\ mem' = IF up THEN mem ELSE Loaded
                  /\ Goto(s, "ok") /\ UNCHANGED <<ownVars, crossed>>
               \/ End(s) /\ UNCHANGED <<up, mem>>
            /\ UNCHANGED <<file, tmp, marker, key, writes, cached>>

(* No key, no taskkill or too late, a file that cannot be read, written or *)
(* removed.                                                                *)
Fail(s) == /\ pc[s] \in {"key", "close", "marker", "read", "write", "unmark"}
           /\ End(s)
           /\ UNCHANGED <<file, tmp, marker, clientVars, cached>>

Return(s) == At(s, "ok") /\ End(s) /\ UNCHANGED <<file, tmp, marker, clientVars, cached>>

KeyForgotten == /\ cached # 0 /\ cached' = 0
                /\ UNCHANGED <<file, tmp, marker, clientVars, pc, ownVars, crossed>>

-----------------------------------------------------------------------------
(* The official client and its user. *)

ClientStarts == /\ ~up /\ up' = TRUE /\ mem' = Loaded
                /\ Cross({"client"})
                /\ UNCHANGED <<file, tmp, marker, key, writes, cached, pc, ownVars>>

(* It obtains a token for the account it goes by, or for another one.      *)
ClientWrites(u) == /\ up /\ writes < MaxWrites
                   /\ writes' = writes + 1
                   /\ mem' = [uid |-> u, tok |-> writes', key |-> key]
                   /\ file' = mem' /\ marker' = 0
                   /\ Cross({"client", "write"})
                   /\ UNCHANGED <<tmp, up, key, cached, pc, ownVars>>

ClientLogsOut == /\ up /\ mem # None /\ writes < MaxWrites
                 /\ writes' = writes + 1
                 /\ marker' = writes' /\ mem' = None
                 /\ crossed' = [s \in Switches |->
                      IF Idle(s) THEN {}
                      ELSE crossed[s] \cup {"client", "logout"} \cup (IF At(s, "unmark") THEN {"late"} ELSE {})]
                 /\ UNCHANGED <<file, tmp, up, key, cached, pc, ownVars>>

(* It writes its session once more. *)
ClientQuits == /\ up /\ up' = FALSE
               /\ file' = IF mem = None THEN file ELSE mem
               /\ Cross({"client", "write"})
               /\ UNCHANGED <<tmp, marker, mem, key, writes, cached, pc, ownVars>>

(* It is installed anew and seals its session with a new key. *)
ClientReinstalled == /\ ~up /\ key < MaxKey
                     /\ key' = key + 1
                     /\ file' = IF file = None \/ file.key = 0 THEN file ELSE [file EXCEPT !.key = key']
                     /\ mem' = None
                     /\ Cross({"client", "write"})
                     /\ UNCHANGED <<tmp, marker, up, writes, cached, pc, ownVars>>

Client == \/ ClientStarts \/ ClientLogsOut \/ ClientQuits \/ ClientReinstalled
          \/ \E u \in Uids : ClientWrites(u)

Switch(s) == \/ GetKey(s) \/ Close(s) \/ FindMarker(s) \/ Read(s) \/ WriteTmp(s) \/ Compare(s)
             \/ Replace(s) \/ Sweep(s) \/ Look(s) \/ Unmark(s) \/ Verify(s) \/ Start(s) \/ Fail(s) \/ Return(s)

IdeNext == \/ Client \/ KeyForgotten
           \/ \E s \in Switches : Switch(s) \/ \E u \in Uids : Begin(s, u)

IdeSpec == IdeInit /\ [][IdeNext]_ideVars

-----------------------------------------------------------------------------
(* Properties. *)

(* Files, client and switches keep their types. *)
IdeTypeOK ==
    /\ file \in Sessions \cup {None} /\ tmp \in Sessions \cup {None} /\ mem \in Sessions \cup {None}
    /\ marker \in 0 .. MaxWrites /\ writes \in 0 .. MaxWrites /\ up \in BOOLEAN
    /\ key \in 0 .. MaxKey /\ cached \in 0 .. MaxKey
    /\ target \in [Switches -> Uids \cup {None}] /\ mine \in [Switches -> 0 .. MaxKey]
    /\ base \in [Switches -> Sessions \cup {None}] /\ mark \in [Switches -> 0 .. MaxWrites]
    /\ crossed \in [Switches -> SUBSET {"client", "write", "logout", "late", "other"}]
    /\ pc \in [Switches -> {"idle", "key", "close", "marker", "read", "write", "compare", "replace", "sweep",
                            "sweep_failed", "look", "unmark", "verify", "start", "ok", "over"}]
    /\ \A s \in Switches : Idle(s) <=> target[s] = None

(* A switch that is alone puts its session over the one it was built from: *)
(* what the client wrote since is not lost, unless it writes between the   *)
(* last look at the file and the renaming.                                 *)
NoUpdateLost ==
    [][\A s \in Switches : (At(s, "replace") /\ pc'[s] = "sweep") =>
          file = base[s] \/ crossed[s] \cap {"write", "other"} # {}]_ideVars

(* A switch puts no session the client cannot open in the place of one it  *)
(* can, whatever key the relay remembers and whenever the client was       *)
(* installed anew; with the same exceptions.                               *)
ClientCanRead ==
    [][\A s \in Switches : (At(s, "replace") /\ pc'[s] = "sweep") =>
          \/ file'.key \in {0, key}
          \/ file # None /\ file.key \notin {0, key}
          \/ crossed[s] \cap {"write", "other"} # {}]_ideVars

(* A switch reports success only if the client goes by its account, unless *)
(* the client has been running or another switch went on meanwhile, the    *)
(* user has logged out, or the file was sealed with an older key before.   *)
RunsAsTold ==
    [][\A s \in Switches : (At(s, "start") /\ pc'[s] = "ok") =>
          \/ mem' # None /\ mem'.uid = target[s] /\ mem'.tok = 0
          \/ crossed[s] # {} \/ marker # 0 \/ file.key \notin {0, key}]_ideVars

(* A switch takes back no logout that the user made after the switch had   *)
(* looked for one, unless he made it between the last look at the mark and *)
(* its removal (ide_switch.py:533-560).                                    *)
LogoutStands ==
    [][\A s \in Switches : (At(s, "unmark") /\ pc'[s] = "verify" /\ marker' # marker) =>
          "logout" \notin crossed[s] \/ "late" \in crossed[s]]_ideVars
=============================================================================
