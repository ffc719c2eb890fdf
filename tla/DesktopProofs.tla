--------------------------- MODULE DesktopProofs ---------------------------
(***************************************************************************)
(* The two parts that start and stop programs of the desktop.              *)
(*                                                                         *)
(* The promises of a switch, for any number of switches, accounts, tokens, *)
(* logouts and new keys.  Whatever a switch relies on is either still true *)
(* or has been crossed by the client or by another switch (IdeInv).        *)
(*                                                                         *)
(* The cells of the shell agree, for any number of restarts of the relay.  *)
(***************************************************************************)
EXTENDS IdeSwitch, Sidecar, TLAPS

Alone(s)   == crossed[s] \cap {"write", "other"} = {}
Closed(s)  == pc[s] \in {"marker", "read", "write", "compare", "replace", "sweep", "look", "unmark", "verify", "start"}
Writing(s) == pc[s] \in {"write", "compare", "replace"}
Looked(s)  == Writing(s) \/ pc[s] \in {"read", "sweep", "look"}

(* What holds of a switch on its own. *)
BaseIsFile(s)  == Writing(s) /\ Alone(s) => file = base[s]
BaseOpens(s)   == Writing(s) => Opens(s, base[s])
TmpIsOwn(s)    == pc[s] \in {"compare", "replace"} /\ "other" \notin crossed[s] => tmp = Session(s)
ClientIsOff(s) == Closed(s) /\ crossed[s] \cap {"client", "other"} = {} => ~up
Verified(s)    == At(s, "start") /\ Alone(s) => Written(s)
MarkIsOld(s)   == Looked(s) /\ "logout" \in crossed[s] => marker = 0 \/ marker # mark[s]
MarkIsLate(s)  == At(s, "unmark") /\ "logout" \in crossed[s] => "late" \in crossed[s]
MarkIsKnown(s) == mark[s] <= writes

SwitchInv(s) == /\ BaseIsFile(s) /\ BaseOpens(s) /\ TmpIsOwn(s) /\ ClientIsOff(s) /\ Verified(s)
                /\ MarkIsOld(s) /\ MarkIsLate(s) /\ MarkIsKnown(s)

(* Of two switches under way each knows of the other. *)
Company == \A s, t \in Switches : s # t /\ ~Idle(s) /\ ~Idle(t) => "other" \in crossed[s]

IdeInv == IdeTypeOK /\ marker <= writes /\ Company /\ \A s \in Switches : SwitchInv(s)

(* The session a switch writes is one. *)
LEMMA SessionType ==
  ASSUME IdeTypeOK, NEW s \in Switches, ~Idle(s)
  PROVE  Session(s) \in Sessions
<1>1. target[s] \in Uids /\ mine[s] \in 0 .. MaxKey /\ 0 \in 0 .. MaxWrites /\ 0 \in 0 .. MaxKey
  BY IdeAssumption DEF IdeTypeOK, IdeAssumption
<1> QED BY <1>1 DEF Session, Sessions

LEMMA InitInv == IdeInit => IdeInv
<1>1. SUFFICES ASSUME IdeInit PROVE IdeInv
  OBVIOUS
<1>2. file \in Sessions \cup {None}
  <2>1. \A u \in Uids, k \in {0, 1} : [uid |-> u, tok |-> 0, key |-> k] \in Sessions
    BY IdeAssumption DEF IdeAssumption, Sessions
  <2> QED BY <1>1, <2>1 DEF IdeInit
<1>3. \A s \in Switches : pc[s] = "idle" /\ Idle(s)
  BY <1>1 DEF IdeInit, Idle
<1>4. IdeTypeOK
  <2>1. \A s \in Switches : Idle(s) <=> target[s] = None
    BY <1>1, <1>3 DEF IdeInit
  <2>2. 1 \in 0 .. MaxKey /\ 0 \in 0 .. MaxKey /\ 0 \in 0 .. MaxWrites /\ 1 \in 0 .. MaxWrites
    BY IdeAssumption DEF IdeAssumption
  <2> QED BY <1>1, <1>2, <2>1, <2>2 DEF IdeInit, IdeTypeOK
<1>5. marker <= writes /\ Company
  BY <1>1, <1>3 DEF IdeInit, Company
<1>6. \A s \in Switches : SwitchInv(s)
  BY <1>1, <1>3 DEF IdeInit, SwitchInv, BaseIsFile, BaseOpens, TmpIsOwn, ClientIsOff, Verified, MarkIsOld, MarkIsLate,
                    MarkIsKnown, Writing, Closed, Looked, At
<1> QED BY <1>4, <1>5, <1>6 DEF IdeInv

-----------------------------------------------------------------------------
(* A switch that does not move itself keeps its invariant if it notices    *)
(* every change of what it relies on.                                      *)
LEMMA Onlooker ==
  ASSUME IdeInv, NEW t \in Switches,
         pc'[t] = pc[t], target'[t] = target[t], mine'[t] = mine[t], base'[t] = base[t], mark'[t] = mark[t],
         Idle(t) \/ crossed[t] \subseteq crossed'[t],
         Idle(t) \/ file' = file \/ crossed'[t] \cap {"write", "other"} # {},
         Idle(t) \/ tmp' = tmp \/ "other" \in crossed'[t],
         Idle(t) \/ (up' => up) \/ crossed'[t] \cap {"client", "other"} # {},
         \/ marker' = 0
         \/ marker' = marker /\ ("logout" \in crossed'[t] => "logout" \in crossed[t] \/ Idle(t))
         \/ marker' = writes + 1,
         "logout" \in crossed'[t] => "logout" \in crossed[t] \/ ~At(t, "unmark") \/ "late" \in crossed'[t],
         writes' \in Nat, writes <= writes'
  PROVE  SwitchInv(t)'
<1>1. SwitchInv(t) /\ mark[t] \in Nat /\ writes \in Nat
  BY IdeAssumption DEF IdeInv, IdeTypeOK, IdeAssumption
<1>2. MarkIsKnown(t)'
  BY <1>1 DEF SwitchInv, MarkIsKnown
<1>3. CASE Idle(t)
  BY <1>2, <1>3 DEF SwitchInv, BaseIsFile, BaseOpens, TmpIsOwn, ClientIsOff, Verified, MarkIsOld, MarkIsLate, Idle,
                    Writing, Closed, Looked, At
<1>4. CASE ~Idle(t)
  <2>1. BaseIsFile(t)'
    BY <1>1, <1>4 DEF SwitchInv, BaseIsFile, Writing, Alone
  <2>2. BaseOpens(t)'
    BY <1>1 DEF SwitchInv, BaseOpens, Writing, Opens
  <2>3. TmpIsOwn(t)'
    BY <1>1, <1>4 DEF SwitchInv, TmpIsOwn, Session
  <2>4. ClientIsOff(t)'
    BY <1>1, <1>4 DEF SwitchInv, ClientIsOff, Closed
  <2>5. Verified(t)'
    BY <1>1, <1>4 DEF SwitchInv, Verified, Written, Opens, At, Alone
  <2>6. MarkIsOld(t)'
    BY <1>1, <1>4 DEF SwitchInv, MarkIsOld, MarkIsKnown, Looked, Writing
  <2>7. MarkIsLate(t)'
    BY <1>1, <1>4 DEF SwitchInv, MarkIsLate, At
  <2> QED BY <1>2, <2>1, <2>2, <2>3, <2>4, <2>5, <2>6, <2>7 DEF SwitchInv
<1> QED BY <1>3, <1>4

(* The steps of the client and the end of the remembered key.              *)
LEMMA CrossEffect ==
  ASSUME NEW what, Cross(what)
  PROVE  \A t \in Switches : crossed'[t] = IF Idle(t) THEN {} ELSE crossed[t] \cup what
  BY DEF Cross

LEMMA ClientType ==
  ASSUME IdeTypeOK, Client \/ KeyForgotten
  PROVE  IdeTypeOK'
<1>1. ASSUME NEW what \in SUBSET {"client", "write", "logout"}, Cross(what), UNCHANGED pc
      PROVE  crossed' \in [Switches -> SUBSET {"client", "write", "logout", "late", "other"}]
  BY <1>1 DEF Cross, IdeTypeOK
<1>2. UNCHANGED <<pc, target>> => \A s \in Switches : Idle(s)' <=> target'[s] = None
  BY DEF IdeTypeOK, Idle
<1>3. CASE ClientStarts
  BY <1>1, <1>2, <1>3 DEF ClientStarts, Loaded, IdeTypeOK, ownVars
<1>4. CASE ClientLogsOut
  <2>1. writes' \in 0 .. MaxWrites
    BY <1>4, IdeAssumption DEF ClientLogsOut, IdeTypeOK, IdeAssumption
  <2>2. crossed' \in [Switches -> SUBSET {"client", "write", "logout", "late", "other"}]
    BY <1>4 DEF ClientLogsOut, IdeTypeOK
  <2> QED BY <1>2, <1>4, <2>1, <2>2 DEF ClientLogsOut, IdeTypeOK, ownVars
<1>5. CASE ClientQuits
  BY <1>1, <1>2, <1>5 DEF ClientQuits, IdeTypeOK, ownVars
<1>6. CASE ClientReinstalled
  <2>1. key' \in 0 .. MaxKey
    BY <1>6, IdeAssumption DEF ClientReinstalled, IdeTypeOK, IdeAssumption
  <2>2. file # None => [file EXCEPT !.key = key'] \in Sessions
    BY <2>1 DEF IdeTypeOK, Sessions
  <2>3. file' \in Sessions \cup {None}
    BY <1>6, <2>2 DEF ClientReinstalled, IdeTypeOK
  <2> QED BY <1>1, <1>2, <1>6, <2>1, <2>3 DEF ClientReinstalled, IdeTypeOK, ownVars
<1>7. ASSUME NEW u \in Uids, ClientWrites(u) PROVE IdeTypeOK'
  <2>1. writes' \in 0 .. MaxWrites
    BY <1>7, IdeAssumption DEF ClientWrites, IdeTypeOK, IdeAssumption
  <2>2. [uid |-> u, tok |-> writes', key |-> key] \in Sessions
    BY <2>1 DEF IdeTypeOK, Sessions
  <2>3. 0 \in 0 .. MaxWrites
    BY IdeAssumption DEF IdeAssumption
  <2> QED BY <1>1, <1>2, <1>7, <2>1, <2>2, <2>3 DEF ClientWrites, IdeTypeOK, ownVars
<1>8. CASE KeyForgotten
  BY <1>2, <1>8, IdeAssumption DEF KeyForgotten, IdeTypeOK, ownVars, clientVars, IdeAssumption
<1> QED BY <1>3, <1>4, <1>5, <1>6, <1>7, <1>8 DEF Client

LEMMA ClientInv ==
  ASSUME IdeInv, Client \/ KeyForgotten
  PROVE  IdeInv'
<1>1. IdeTypeOK /\ marker <= writes /\ writes \in Nat /\ marker \in Nat
  BY IdeAssumption DEF IdeInv, IdeTypeOK, IdeAssumption
<1>2. IdeTypeOK'
  BY <1>1, ClientType
<1>3. UNCHANGED <<pc, ownVars>>
  BY DEF Client, KeyForgotten, ClientStarts, ClientWrites, ClientLogsOut, ClientQuits, ClientReinstalled
<1>0. ASSUME ClientLogsOut
      PROVE  \A t \in Switches : crossed'[t] = IF Idle(t) THEN {}
               ELSE crossed[t] \cup {"client", "logout"} \cup (IF At(t, "unmark") THEN {"late"} ELSE {})
  BY <1>0 DEF ClientLogsOut
<1>4. \A t \in Switches : Idle(t) \/ crossed[t] \subseteq crossed'[t]
  BY <1>0, CrossEffect DEF Client, KeyForgotten, ClientStarts, ClientWrites, ClientQuits, ClientReinstalled
<1>5. \A t \in Switches : Idle(t) \/ file' = file \/ crossed'[t] \cap {"write", "other"} # {}
  <2>1. ASSUME ClientQuits \/ ClientReinstalled \/ \E u \in Uids : ClientWrites(u)
        PROVE  \A t \in Switches : crossed'[t] = IF Idle(t) THEN {} ELSE crossed[t] \cup {"client", "write"}
    BY <2>1, CrossEffect DEF ClientQuits, ClientReinstalled, ClientWrites
  <2>2. \A t \in Switches : "write" \in crossed[t] \cup {"client", "write"}
    OBVIOUS
  <2> QED BY <2>1, <2>2 DEF Client, KeyForgotten, ClientStarts, ClientLogsOut
<1>6. tmp' = tmp
  BY DEF Client, KeyForgotten, ClientStarts, ClientWrites, ClientLogsOut, ClientQuits, ClientReinstalled
<1>7. \A t \in Switches : Idle(t) \/ (up' => up) \/ crossed'[t] \cap {"client", "other"} # {}
  <2>1. CASE ClientStarts
    <3>1. \A t \in Switches : crossed'[t] = IF Idle(t) THEN {} ELSE crossed[t] \cup {"client"}
      BY <2>1, CrossEffect DEF ClientStarts
    <3> QED BY <3>1
  <2> QED BY <2>1 DEF Client, KeyForgotten, ClientWrites, ClientLogsOut, ClientQuits, ClientReinstalled, clientVars
<1>8. \A t \in Switches :
        \/ marker' = 0
        \/ marker' = marker /\ ("logout" \in crossed'[t] => "logout" \in crossed[t] \/ Idle(t))
        \/ marker' = writes + 1
  <2>1. CASE ClientStarts
    <3>1. \A t \in Switches : crossed'[t] = IF Idle(t) THEN {} ELSE crossed[t] \cup {"client"}
      BY <2>1, CrossEffect DEF ClientStarts
    <3>2. \A t \in Switches : "logout" \in crossed'[t] => "logout" \in crossed[t] \/ Idle(t)
      <4>1. SUFFICES ASSUME NEW t \in Switches, "logout" \in crossed'[t], ~Idle(t) PROVE "logout" \in crossed[t]
        OBVIOUS
      <4>2. crossed'[t] = crossed[t] \cup {"client"}
        BY <3>1, <4>1
      <4>3. "logout" \notin {"client"}
        OBVIOUS
      <4> QED BY <4>1, <4>2, <4>3
    <3>3. marker' = marker
      BY <2>1 DEF ClientStarts
    <3> QED BY <3>2, <3>3
  <2>2. CASE ClientQuits \/ ClientReinstalled
    <3>1. \A t \in Switches : crossed'[t] = IF Idle(t) THEN {} ELSE crossed[t] \cup {"client", "write"}
      BY <2>2, CrossEffect DEF ClientQuits, ClientReinstalled
    <3>2. \A t \in Switches : "logout" \in crossed'[t] => "logout" \in crossed[t] \/ Idle(t)
      <4>1. SUFFICES ASSUME NEW t \in Switches, "logout" \in crossed'[t], ~Idle(t) PROVE "logout" \in crossed[t]
        OBVIOUS
      <4>2. crossed'[t] = crossed[t] \cup {"client", "write"}
        BY <3>1, <4>1
      <4>3. "logout" \notin {"client", "write"}
        OBVIOUS
      <4> QED BY <4>1, <4>2, <4>3
    <3>3. marker' = marker
      BY <2>2 DEF ClientQuits, ClientReinstalled
    <3> QED BY <3>2, <3>3
  <2> QED BY <2>1, <2>2 DEF Client, KeyForgotten, ClientWrites, ClientLogsOut
<1>12. \A t \in Switches :
         "logout" \in crossed'[t] => "logout" \in crossed[t] \/ ~At(t, "unmark") \/ "late" \in crossed'[t]
  <2>1. SUFFICES ASSUME NEW t \in Switches, "logout" \in crossed'[t], At(t, "unmark")
                 PROVE  "logout" \in crossed[t] \/ "late" \in crossed'[t]
    OBVIOUS
  <2>2. ~Idle(t)
    BY <2>1 DEF At, Idle
  <2>3. CASE ClientLogsOut
    BY <1>0, <2>1, <2>2, <2>3
  <2>4. ASSUME NEW what, "logout" \notin what, Cross(what) PROVE "logout" \in crossed[t]
    BY <2>1, <2>2, <2>4, CrossEffect
  <2>5. "logout" \notin {"client"} /\ "logout" \notin {"client", "write"}
    OBVIOUS
  <2> QED BY <2>1, <2>3, <2>4, <2>5 DEF Client, KeyForgotten, ClientStarts, ClientWrites, ClientQuits, ClientReinstalled
<1>9. writes' \in Nat /\ writes <= writes' /\ marker' <= writes'
  BY <1>1 DEF Client, KeyForgotten, ClientStarts, ClientWrites, ClientLogsOut, ClientQuits, ClientReinstalled, clientVars
<1>10. Company'
  BY <1>3, <1>4 DEF IdeInv, Company, Idle
<1>11. \A t \in Switches : SwitchInv(t)'
  BY <1>3, <1>4, <1>5, <1>6, <1>7, <1>8, <1>9, <1>12, Onlooker DEF ownVars
<1> QED BY <1>2, <1>9, <1>10, <1>11 DEF IdeInv

-----------------------------------------------------------------------------
(* The steps of a switch.                                                  *)

LEMMA BeginInv ==
  ASSUME IdeInv, NEW s \in Switches, NEW u \in Uids, Begin(s, u)
  PROVE  IdeInv'
<1>1. IdeTypeOK /\ marker <= writes /\ writes \in Nat
  BY IdeAssumption DEF IdeInv, IdeTypeOK, IdeAssumption
<1>2. \A t \in Switches : crossed'[t] =
        IF t = s THEN IF \E o \in Switches : ~Idle(o) THEN {"other"} ELSE {}
        ELSE IF Idle(t) THEN {} ELSE crossed[t] \cup {"other"}
  BY DEF Begin
<1>3. pc[s] = "idle" /\ pc' = [pc EXCEPT ![s] = "key"] /\ target' = [target EXCEPT ![s] = u]
      /\ UNCHANGED <<file, tmp, marker, clientVars, cached, mine, base, mark>>
  BY DEF Begin, Goto, At
<1>4. \A t \in Switches \ {s} : pc'[t] = pc[t] /\ (Idle(t)' <=> Idle(t)) /\ target'[t] = target[t]
  BY <1>1, <1>3 DEF IdeTypeOK, Idle
<1>5. pc'[s] = "key" /\ ~Idle(s)' /\ target'[s] = u
  BY <1>1, <1>3 DEF IdeTypeOK, Idle
<1>6. IdeTypeOK'
  <2>1. crossed' \in [Switches -> SUBSET {"client", "write", "logout", "late", "other"}]
    BY <1>1 DEF Begin, IdeTypeOK
  <2>2. \A t \in Switches : Idle(t)' <=> target'[t] = None
    BY <1>1, <1>4, <1>5, IdeAssumption DEF IdeTypeOK, IdeAssumption
  <2> QED BY <1>1, <1>3, <2>1, <2>2 DEF IdeTypeOK, clientVars
<1>7. Company'
  BY <1>2, <1>4, <1>5 DEF IdeInv, Company
<1>8. SwitchInv(s)'
  BY <1>1, <1>3, <1>5 DEF IdeInv, SwitchInv, BaseIsFile, BaseOpens, TmpIsOwn, ClientIsOff, Verified, MarkIsOld,
       MarkIsLate, MarkIsKnown, Writing, Closed, Looked, At, clientVars
<1>9. ASSUME NEW t \in Switches \ {s} PROVE SwitchInv(t)'
  <2>1. Idle(t) \/ crossed[t] \subseteq crossed'[t]
    BY <1>2, <1>9
  <2>2. marker' = marker /\ ("logout" \in crossed'[t] => "logout" \in crossed[t] \/ Idle(t))
    <3>1. crossed'[t] = IF Idle(t) THEN {} ELSE crossed[t] \cup {"other"}
      BY <1>2, <1>9
    <3> QED BY <1>3, <3>1
  <2>3. "logout" \in crossed'[t] => "logout" \in crossed[t] \/ ~At(t, "unmark") \/ "late" \in crossed'[t]
    BY <2>2 DEF At, Idle
  <2>4. Idle(t) \/ "other" \in crossed'[t]
    BY <1>2, <1>9
  <2> QED BY <1>1, <1>3, <1>4, <1>9, <2>1, <2>2, <2>3, <2>4, Onlooker DEF clientVars
<1> QED BY <1>1, <1>3, <1>6, <1>7, <1>8, <1>9 DEF IdeInv, clientVars

(* The end of a switch, and a step to another place of it. *)
LEMMA EndEffect ==
  ASSUME IdeTypeOK, NEW s \in Switches, End(s)
  PROVE  /\ \A t \in Switches \ {s} :
              /\ pc'[t] = pc[t] /\ target'[t] = target[t] /\ mine'[t] = mine[t] /\ base'[t] = base[t]
              /\ mark'[t] = mark[t] /\ crossed'[t] = crossed[t]
         /\ pc'[s] = "over" /\ Idle(s)' /\ mark'[s] = 0 /\ target'[s] = None
  BY DEF End, Goto, Idle, IdeTypeOK

LEMMA EndType ==
  ASSUME IdeTypeOK, NEW s \in Switches, End(s), ~Idle(s)
  PROVE  /\ target' \in [Switches -> Uids \cup {None}] /\ mine' \in [Switches -> 0 .. MaxKey]
         /\ base' \in [Switches -> Sessions \cup {None}] /\ mark' \in [Switches -> 0 .. MaxWrites]
         /\ crossed' \in [Switches -> SUBSET {"client", "write", "logout", "late", "other"}]
         /\ pc' \in [Switches -> {"idle", "key", "close", "marker", "read", "write", "compare", "replace", "sweep",
                                  "sweep_failed", "look", "unmark", "verify", "start", "ok", "over"}]
         /\ \A t \in Switches : Idle(t)' <=> target'[t] = None
<1>1. 0 \in 0 .. MaxKey /\ 0 \in 0 .. MaxWrites
  BY IdeAssumption DEF IdeAssumption
<1>2. \A t \in Switches \ {s} : pc'[t] = pc[t] /\ target'[t] = target[t]
  BY EndEffect
<1>3. \A t \in Switches : Idle(t)' <=> target'[t] = None
  BY <1>2, EndEffect DEF Idle, IdeTypeOK
<1>4. pc' \in [Switches -> {"idle", "key", "close", "marker", "read", "write", "compare", "replace", "sweep",
                            "sweep_failed", "look", "unmark", "verify", "start", "ok", "over"}]
  BY DEF End, Goto, IdeTypeOK
<1> QED BY <1>1, <1>3, <1>4 DEF End, IdeTypeOK

LEMMA GotoType ==
  ASSUME IdeTypeOK, NEW s \in Switches, ~Idle(s), UNCHANGED target,
         NEW step \in {"close", "marker", "read", "write", "compare", "replace", "sweep",
                       "sweep_failed", "look", "unmark", "verify", "start", "ok"}, Goto(s, step)
  PROVE  /\ pc' \in [Switches -> {"idle", "key", "close", "marker", "read", "write", "compare", "replace", "sweep",
                                  "sweep_failed", "look", "unmark", "verify", "start", "ok", "over"}]
         /\ \A t \in Switches : Idle(t)' <=> target'[t] = None
         /\ \A t \in Switches \ {s} : pc'[t] = pc[t]
         /\ pc'[s] = step /\ ~Idle(s)'
<1>1. \A t \in Switches \ {s} : pc'[t] = pc[t]
  BY DEF Goto, IdeTypeOK
<1>2. pc'[s] = step /\ ~Idle(s)'
  BY DEF Goto, IdeTypeOK, Idle
<1>3. \A t \in Switches : Idle(t)' <=> target'[t] = None
  BY <1>1, <1>2 DEF Idle, IdeTypeOK
<1>4. pc' \in [Switches -> {"idle", "key", "close", "marker", "read", "write", "compare", "replace", "sweep",
                            "sweep_failed", "look", "unmark", "verify", "start", "ok", "over"}]
  BY DEF Goto, IdeTypeOK
<1> QED BY <1>1, <1>2, <1>3, <1>4

(* A step of a switch leaves the others as they were. *)
LEMMA Bystanders ==
  ASSUME IdeInv, NEW s \in Switches, ~Idle(s), UNCHANGED writes, marker' \in {marker, 0},
         \A t \in Switches \ {s} :
            /\ pc'[t] = pc[t] /\ target'[t] = target[t] /\ mine'[t] = mine[t] /\ base'[t] = base[t]
            /\ mark'[t] = mark[t] /\ crossed'[t] = crossed[t],
         Idle(s)' \/ ("other" \in crossed[s] => "other" \in crossed'[s]),
         IdeTypeOK', SwitchInv(s)'
  PROVE  IdeInv'
<1>1. IdeTypeOK /\ marker <= writes /\ writes \in Nat /\ marker \in Nat
  BY IdeAssumption DEF IdeInv, IdeTypeOK, IdeAssumption
<1>2. \A t \in Switches \ {s} : Idle(t)' <=> Idle(t)
  BY DEF Idle
<1>3. Company'
  BY <1>2 DEF IdeInv, Company
<1>4. ASSUME NEW t \in Switches \ {s} PROVE SwitchInv(t)'
  <2>1. Idle(t) \/ "other" \in crossed'[t]
    BY DEF IdeInv, Company
  <2>2. crossed[t] \subseteq crossed'[t]
    OBVIOUS
  <2>3. Idle(t) \/ crossed'[t] \cap {"write", "other"} # {}
    BY <2>1
  <2>4. Idle(t) \/ crossed'[t] \cap {"client", "other"} # {}
    BY <2>1
  <2>5. marker' = 0 \/ (marker' = marker /\ ("logout" \in crossed'[t] => "logout" \in crossed[t] \/ Idle(t)))
    OBVIOUS
  <2> QED BY <1>1, <2>1, <2>2, <2>3, <2>4, <2>5, Onlooker
<1> QED BY <1>1, <1>3, <1>4 DEF IdeInv

LEMMA EndInv ==
  ASSUME IdeInv, NEW s \in Switches, ~Idle(s), End(s), UNCHANGED <<file, marker, clientVars, cached>>,
         tmp' \in Sessions \cup {None}
  PROVE  IdeInv'
<1>1. IdeTypeOK /\ writes \in Nat
  BY IdeAssumption DEF IdeInv, IdeTypeOK, IdeAssumption
<1>2. IdeTypeOK'
  BY <1>1, EndType DEF IdeTypeOK, clientVars
<1>3. SwitchInv(s)'
  BY <1>1, EndEffect DEF SwitchInv, BaseIsFile, BaseOpens, TmpIsOwn, ClientIsOff, Verified, MarkIsOld, MarkIsLate,
       MarkIsKnown, Writing, Closed, Looked, At, clientVars
<1> QED BY <1>1, <1>2, <1>3, EndEffect, Bystanders DEF clientVars

LEMMA MoveInv ==
  ASSUME IdeInv, NEW s \in Switches, ~Idle(s), UNCHANGED <<target, key, writes>>,
         NEW step \in {"close", "marker", "read", "write", "compare", "replace", "sweep",
                       "sweep_failed", "look", "unmark", "verify", "start", "ok"}, Goto(s, step),
         file' \in Sessions \cup {None}, tmp' \in Sessions \cup {None}, mem' \in Sessions \cup {None},
         marker' \in {marker, 0}, up' \in BOOLEAN, cached' \in 0 .. MaxKey,
         NEW m \in 0 .. MaxKey, mine' = [mine EXCEPT ![s] = m],
         NEW b \in Sessions \cup {None}, base' = [base EXCEPT ![s] = b],
         NEW k \in 0 .. MaxWrites, mark' = [mark EXCEPT ![s] = k],
         NEW x \in SUBSET {"client", "write", "logout", "late", "other"}, crossed' = [crossed EXCEPT ![s] = x],
         "other" \in crossed[s] => "other" \in x,
         SwitchInv(s)'
  PROVE  IdeInv'
<1>1. IdeTypeOK /\ 0 \in 0 .. MaxWrites
  BY IdeAssumption DEF IdeInv, IdeTypeOK, IdeAssumption
<1>2. IdeTypeOK'
  BY <1>1, GotoType DEF IdeTypeOK
<1>3. \A t \in Switches \ {s} :
        /\ pc'[t] = pc[t] /\ target'[t] = target[t] /\ mine'[t] = mine[t] /\ base'[t] = base[t]
        /\ mark'[t] = mark[t] /\ crossed'[t] = crossed[t]
  BY <1>1, GotoType DEF IdeTypeOK
<1>4. "other" \in crossed[s] => "other" \in crossed'[s]
  BY <1>1 DEF IdeTypeOK
<1> QED BY <1>2, <1>3, <1>4, Bystanders

(* What a switch has is typed, and writing it again changes nothing.       *)
LEMMA Own ==
  ASSUME IdeInv, NEW s \in Switches
  PROVE  /\ mine[s] \in 0 .. MaxKey /\ mine = [mine EXCEPT ![s] = mine[s]]
         /\ base[s] \in Sessions \cup {None} /\ base = [base EXCEPT ![s] = base[s]]
         /\ mark[s] \in 0 .. MaxWrites /\ mark = [mark EXCEPT ![s] = mark[s]]
         /\ crossed[s] \in SUBSET {"client", "write", "logout", "late", "other"}
         /\ crossed = [crossed EXCEPT ![s] = crossed[s]]
  BY DEF IdeInv, IdeTypeOK

LEMMA Surroundings ==
  ASSUME IdeInv
  PROVE  /\ file \in Sessions \cup {None} /\ tmp \in Sessions \cup {None} /\ mem \in Sessions \cup {None}
         /\ up \in BOOLEAN /\ cached \in 0 .. MaxKey /\ key \in 0 .. MaxKey
         /\ marker \in 0 .. MaxWrites /\ writes \in Nat /\ marker \in Nat /\ marker <= writes
         /\ 0 \in 0 .. MaxKey
  BY IdeAssumption DEF IdeInv, IdeTypeOK, IdeAssumption

(* Before the client is closed nothing is promised yet. *)
LEMMA GetKeyInv == ASSUME IdeInv, NEW s \in Switches, GetKey(s) PROVE IdeInv'
<1>1. ~Idle(s) /\ Goto(s, "close") /\ UNCHANGED <<file, tmp, marker, clientVars, target, base, mark, crossed>>
  BY DEF GetKey, At, Idle
<1>2. cached' \in 0 .. MaxKey /\ mine' = [mine EXCEPT ![s] = cached']
  BY Surroundings DEF GetKey
<1>3. pc'[s] = "close"
  BY <1>1 DEF Goto, IdeInv, IdeTypeOK
<1>4. SwitchInv(s)'
  BY <1>1, <1>3 DEF clientVars, IdeInv, SwitchInv, BaseIsFile, BaseOpens, TmpIsOwn, ClientIsOff, Verified, MarkIsOld,
       MarkIsLate, MarkIsKnown,
           Writing, Closed, Looked, Alone, At
<1> QED BY <1>1, <1>2, <1>4, MoveInv, Own, Surroundings DEF clientVars

LEMMA CloseInv == ASSUME IdeInv, NEW s \in Switches, Close(s) PROVE IdeInv'
<1>1. /\ ~Idle(s) /\ Goto(s, "marker") /\ UNCHANGED <<file, tmp, marker, mem, key, writes, cached, ownVars>>
  BY DEF Close, At, Idle
<1>2. PICK x \in SUBSET {"client", "write", "logout", "late", "other"} :
        /\ crossed' = [crossed EXCEPT ![s] = x]
        /\ crossed[s] \subseteq x
        /\ ~up' \/ "client" \in x
  <2>1. crossed[s] \cup {"client"} \in SUBSET {"client", "write", "logout", "late", "other"}
    BY Own
  <2>2. CASE up' = FALSE /\ UNCHANGED crossed
    BY <2>2, Own
  <2>3. CASE up /\ UNCHANGED up /\ crossed' = [crossed EXCEPT ![s] = crossed[s] \cup {"client"}]
    BY <2>1, <2>3
  <2> QED BY <2>2, <2>3 DEF Close
<1>3. up' \in BOOLEAN
  BY Surroundings DEF Close
<1>4. pc'[s] = "marker" /\ crossed'[s] = x
  BY <1>1, <1>2 DEF Goto, IdeInv, IdeTypeOK
<1>5. ClientIsOff(s)'
  BY <1>2, <1>4 DEF ClientIsOff
<1>6. SwitchInv(s)'
  BY <1>1, <1>4, <1>5 DEF ownVars, IdeInv, SwitchInv, BaseIsFile, BaseOpens, TmpIsOwn, Verified, MarkIsOld, MarkIsLate,
       MarkIsKnown, Writing, Looked, At
<1> QED BY <1>1, <1>2, <1>3, <1>6, MoveInv, Own, Surroundings DEF ownVars

LEMMA FindMarkerInv == ASSUME IdeInv, NEW s \in Switches, FindMarker(s) PROVE IdeInv'
<1>1. /\ ~Idle(s) /\ Goto(s, "read") /\ pc[s] = "marker"
      /\ UNCHANGED <<file, tmp, marker, clientVars, cached, target, mine, base>>
  BY DEF FindMarker, At, Idle
<1>2. mark' = [mark EXCEPT ![s] = marker] /\ crossed' = [crossed EXCEPT ![s] = crossed[s] \ {"logout"}]
  BY DEF FindMarker
<1>3. pc'[s] = "read" /\ mark'[s] = marker /\ crossed'[s] = crossed[s] \ {"logout"}
  BY <1>1, <1>2 DEF Goto, IdeInv, IdeTypeOK
<1>4. ClientIsOff(s)'
  <2>1. "client" \in crossed'[s] <=> "client" \in crossed[s]
    BY <1>3
  <2>2. "other" \in crossed'[s] <=> "other" \in crossed[s]
    BY <1>3
  <2>3. crossed'[s] \cap {"client", "other"} = {} => crossed[s] \cap {"client", "other"} = {}
    BY <2>1, <2>2
  <2> QED BY <1>1, <2>3 DEF clientVars, IdeInv, SwitchInv, ClientIsOff, Closed
<1>5. "logout" \notin crossed'[s] /\ ("other" \in crossed[s] => "other" \in crossed[s] \ {"logout"})
  BY <1>3
<1>6. SwitchInv(s)'
  BY <1>1, <1>3, <1>4, <1>5, Surroundings DEF clientVars, IdeInv, SwitchInv, BaseIsFile, BaseOpens, TmpIsOwn,
       Verified, MarkIsOld, MarkIsLate, MarkIsKnown, Writing, Looked, At
<1>7. crossed[s] \ {"logout"} \in SUBSET {"client", "write", "logout", "late", "other"}
  BY Own
<1> QED BY <1>1, <1>2, <1>5, <1>6, <1>7, MoveInv, Own, Surroundings DEF clientVars

(* Without "write" a switch knows no less of the other things. *)
LEMMA WithoutWrite ==
  ASSUME IdeInv, NEW s \in Switches, NEW x, x = crossed[s] \ {"write"}
  PROVE  /\ x \in SUBSET {"client", "write", "logout", "late", "other"}
         /\ "other" \in crossed[s] <=> "other" \in x
         /\ "logout" \in crossed[s] <=> "logout" \in x
         /\ "late" \in crossed[s] <=> "late" \in x
         /\ x \cap {"client", "other"} = {} => crossed[s] \cap {"client", "other"} = {}
<1>1. /\ "other" \in crossed[s] <=> "other" \in x
      /\ "logout" \in crossed[s] <=> "logout" \in x
      /\ "late" \in crossed[s] <=> "late" \in x
      /\ "client" \in crossed[s] <=> "client" \in x
  OBVIOUS
<1>2. x \cap {"client", "other"} = {} => crossed[s] \cap {"client", "other"} = {}
  BY <1>1
<1> QED BY <1>1, <1>2, Own

LEMMA ReadInv == ASSUME IdeInv, NEW s \in Switches, Read(s) PROVE IdeInv'
<1>1. ~Idle(s) /\ pc[s] = "read" /\ UNCHANGED <<file, tmp, marker, clientVars, cached>>
  BY DEF Read, At, Idle
<1>2. CASE End(s)
  BY <1>1, <1>2, EndInv, Surroundings DEF clientVars
<1>3. CASE /\ Opens(s, file) /\ base' = [base EXCEPT ![s] = file] /\ Goto(s, "write")
           /\ crossed' = [crossed EXCEPT ![s] = crossed[s] \ {"write"}] /\ UNCHANGED <<target, mine, mark>>
  <2> DEFINE x == crossed[s] \ {"write"}
  <2>1. pc'[s] = "write" /\ crossed'[s] = x /\ base'[s] = file /\ mine'[s] = mine[s] /\ mark'[s] = mark[s]
    BY <1>3 DEF Goto, IdeInv, IdeTypeOK
  <2>2. /\ x \in SUBSET {"client", "write", "logout", "late", "other"}
        /\ "other" \in crossed[s] <=> "other" \in x
        /\ "logout" \in crossed[s] <=> "logout" \in x
        /\ x \cap {"client", "other"} = {} => crossed[s] \cap {"client", "other"} = {}
    BY WithoutWrite
  <2>3. crossed' = [crossed EXCEPT ![s] = x]
    BY <1>3
  <2> HIDE DEF x
  <2>4. SwitchInv(s)'
    BY <1>1, <1>3, <2>1, <2>2 DEF clientVars, Opens, IdeInv, SwitchInv, BaseIsFile, BaseOpens, TmpIsOwn, ClientIsOff,
         Verified, MarkIsOld, MarkIsLate, MarkIsKnown, Writing, Closed, Looked, At
  <2> QED BY <1>1, <1>3, <2>2, <2>3, <2>4, MoveInv, Own, Surroundings DEF clientVars
<1> QED BY <1>2, <1>3 DEF Read

LEMMA WriteTmpInv == ASSUME IdeInv, NEW s \in Switches, WriteTmp(s) PROVE IdeInv'
<1>1. ~Idle(s) /\ pc[s] = "write" /\ UNCHANGED <<file, marker, clientVars, cached, ownVars, crossed>>
  BY DEF WriteTmp, At, Idle
<1>2. PICK step \in {"compare", "replace"} : Goto(s, step) /\ tmp' = Session(s)
  BY DEF WriteTmp
<1>3. pc'[s] = step
  BY <1>2 DEF Goto, IdeInv, IdeTypeOK
<1>4. Session(s) \in Sessions /\ Session(s)' = Session(s)
  BY <1>1, SessionType DEF IdeInv, Session, ownVars
<1>5. TmpIsOwn(s)' /\ ~At(s, "start")'
  BY <1>2, <1>3, <1>4 DEF TmpIsOwn, At
<1>6. SwitchInv(s)'
  BY <1>1, <1>3, <1>5 DEF ownVars, clientVars, IdeInv, SwitchInv, BaseIsFile, BaseOpens, ClientIsOff, Verified,
       MarkIsOld, MarkIsLate, MarkIsKnown, Writing, Closed, Looked, Alone, At, Opens
<1> QED BY <1>1, <1>2, <1>4, <1>6, MoveInv, Own, Surroundings DEF ownVars, clientVars

LEMMA CompareInv == ASSUME IdeInv, NEW s \in Switches, Compare(s) PROVE IdeInv'
<1> DEFINE x == crossed[s] \ {"write"}
<1>1. ~Idle(s) /\ pc[s] = "compare" /\ UNCHANGED <<file, tmp, marker, clientVars, cached, ownVars>>
  BY DEF Compare, At, Idle
<1>2. PICK step \in {"replace", "sweep_failed"} :
        Goto(s, step) /\ (step = "replace" => file = base[s])
  BY DEF Compare
<1>3. crossed' = [crossed EXCEPT ![s] = x]
  BY DEF Compare
<1>4. pc'[s] = step /\ crossed'[s] = x
  BY <1>2, <1>3 DEF Goto, IdeInv, IdeTypeOK
<1>5. /\ x \in SUBSET {"client", "write", "logout", "late", "other"}
      /\ "other" \in crossed[s] <=> "other" \in x
      /\ "logout" \in crossed[s] <=> "logout" \in x
      /\ x \cap {"client", "other"} = {} => crossed[s] \cap {"client", "other"} = {}
  BY WithoutWrite
<1> HIDE DEF x
<1>6. SwitchInv(s)'
  BY <1>1, <1>2, <1>4, <1>5 DEF ownVars, clientVars, IdeInv, SwitchInv, BaseIsFile, BaseOpens, TmpIsOwn, ClientIsOff,
       Verified, MarkIsOld, MarkIsLate, MarkIsKnown, Writing, Closed, Looked, At, Opens, Session
<1> QED BY <1>1, <1>2, <1>3, <1>5, <1>6, MoveInv, Own, Surroundings DEF ownVars, clientVars

LEMMA ReplaceInv == ASSUME IdeInv, NEW s \in Switches, Replace(s) PROVE IdeInv'
<1>1. ~Idle(s) /\ pc[s] = "replace" /\ UNCHANGED <<marker, clientVars, cached>>
  BY DEF Replace, At, Idle
<1>2. CASE tmp = None /\ End(s) /\ UNCHANGED <<file, tmp>>
  BY <1>1, <1>2, EndInv, Surroundings
<1>3. CASE /\ tmp # None /\ file' = tmp /\ tmp' = None /\ Goto(s, "sweep") /\ UNCHANGED <<ownVars, crossed>>
  <2>1. pc'[s] = "sweep"
    BY <1>3 DEF Goto, IdeInv, IdeTypeOK
  <2>2. SwitchInv(s)'
    BY <1>1, <1>3, <2>1 DEF ownVars, clientVars, IdeInv, SwitchInv, BaseIsFile, BaseOpens, TmpIsOwn, ClientIsOff,
         Verified, MarkIsOld, MarkIsLate, MarkIsKnown, Writing, Closed, Looked, At
  <2> QED BY <1>1, <1>3, <2>2, MoveInv, Own, Surroundings DEF ownVars, clientVars
<1> QED BY <1>2, <1>3 DEF Replace

LEMMA SweepInv == ASSUME IdeInv, NEW s \in Switches, Sweep(s) PROVE IdeInv'
<1>1. ~Idle(s) /\ tmp' = None /\ UNCHANGED <<file, marker, clientVars, cached>>
  BY DEF Sweep, At, Idle
<1>2. CASE End(s)
  BY <1>1, <1>2, EndInv
<1>3. CASE pc[s] = "sweep" /\ Goto(s, "look") /\ UNCHANGED <<ownVars, crossed>>
  <2>1. pc'[s] = "look"
    BY <1>3 DEF Goto, IdeInv, IdeTypeOK
  <2>2. SwitchInv(s)'
    BY <1>1, <1>3, <2>1 DEF ownVars, clientVars, IdeInv, SwitchInv, BaseIsFile, BaseOpens, TmpIsOwn, ClientIsOff,
         Verified, MarkIsOld, MarkIsLate, MarkIsKnown, Writing, Closed, Looked, At
  <2> QED BY <1>1, <1>3, <2>2, MoveInv, Own, Surroundings DEF ownVars, clientVars
<1> QED BY <1>2, <1>3 DEF Sweep, At

(* A mark that is found again was not made after the first look. *)
LEMMA LookInv == ASSUME IdeInv, NEW s \in Switches, Look(s) PROVE IdeInv'
<1>1. ~Idle(s) /\ pc[s] = "look" /\ UNCHANGED <<file, tmp, marker, clientVars, cached, ownVars, crossed>>
  BY DEF Look, At, Idle
<1>2. PICK step \in {"unmark", "verify"} :
        /\ Goto(s, step)
        /\ step = "unmark" => mark[s] # 0 /\ marker = mark[s]
  BY DEF Look
<1>3. pc'[s] = step
  BY <1>2 DEF Goto, IdeInv, IdeTypeOK
<1>4. step = "unmark" => "logout" \notin crossed[s]
  BY <1>1, <1>2 DEF IdeInv, SwitchInv, MarkIsOld, Looked
<1>5. SwitchInv(s)'
  BY <1>1, <1>2, <1>3, <1>4 DEF ownVars, clientVars, IdeInv, SwitchInv, BaseIsFile, BaseOpens, TmpIsOwn, ClientIsOff,
       Verified, MarkIsOld, MarkIsLate, MarkIsKnown, Writing, Closed, Looked, At
<1> QED BY <1>1, <1>2, <1>5, MoveInv, Own, Surroundings DEF ownVars, clientVars

LEMMA UnmarkInv == ASSUME IdeInv, NEW s \in Switches, Unmark(s) PROVE IdeInv'
<1>1. /\ ~Idle(s) /\ pc[s] = "unmark" /\ marker' = 0 /\ Goto(s, "verify")
      /\ UNCHANGED <<file, tmp, clientVars, cached, ownVars, crossed>>
  BY DEF Unmark, At, Idle
<1>2. pc'[s] = "verify"
  BY <1>1 DEF Goto, IdeInv, IdeTypeOK
<1>3. SwitchInv(s)'
  BY <1>1, <1>2 DEF ownVars, clientVars, IdeInv, SwitchInv, BaseIsFile, BaseOpens, TmpIsOwn, ClientIsOff,
       Verified, MarkIsOld, MarkIsLate, MarkIsKnown, Writing, Closed, Looked, At
<1> QED BY <1>1, <1>3, MoveInv, Own, Surroundings DEF ownVars, clientVars

LEMMA VerifyInv == ASSUME IdeInv, NEW s \in Switches, Verify(s) PROVE IdeInv'
<1>1. ~Idle(s) /\ pc[s] = "verify" /\ UNCHANGED <<file, tmp, marker, clientVars, cached>>
  BY DEF Verify, At, Idle
<1>2. CASE End(s)
  BY <1>1, <1>2, EndInv, Surroundings
<1>3. CASE Written(s) /\ Goto(s, "start") /\ UNCHANGED <<ownVars, crossed>>
  <2>1. pc'[s] = "start" /\ Written(s)'
    BY <1>1, <1>3 DEF Goto, IdeInv, IdeTypeOK, Written, Opens, ownVars
  <2>2. SwitchInv(s)'
    BY <1>1, <1>3, <2>1 DEF ownVars, clientVars, IdeInv, SwitchInv, BaseIsFile, BaseOpens, TmpIsOwn, ClientIsOff,
         Verified, MarkIsOld, MarkIsLate, MarkIsKnown, Writing, Closed, Looked, At
  <2> QED BY <1>1, <1>3, <2>2, MoveInv, Own, Surroundings DEF ownVars, clientVars
<1> QED BY <1>2, <1>3 DEF Verify

(* A switch that has started the client promises nothing more. *)
LEMMA StartInv == ASSUME IdeInv, NEW s \in Switches, Start(s) PROVE IdeInv'
<1>1. ~Idle(s) /\ pc[s] = "start" /\ UNCHANGED <<file, tmp, marker, key, writes, cached>>
  BY DEF Start, At, Idle
<1>2. CASE End(s) /\ UNCHANGED <<up, mem>>
  BY <1>1, <1>2, EndInv, Surroundings DEF clientVars
<1>3. CASE up' = TRUE /\ mem' = (IF up THEN mem ELSE Loaded) /\ Goto(s, "ok") /\ UNCHANGED <<ownVars, crossed>>
  <2>1. pc'[s] = "ok"
    BY <1>3 DEF Goto, IdeInv, IdeTypeOK
  <2>2. mem' \in Sessions \cup {None}
    BY <1>3, Surroundings DEF Loaded
  <2>3. SwitchInv(s)'
    BY <1>1, <1>3, <2>1 DEF ownVars, IdeInv, SwitchInv, BaseIsFile, BaseOpens, TmpIsOwn, ClientIsOff,
         Verified, MarkIsOld, MarkIsLate, MarkIsKnown, Writing, Closed, Looked, At
  <2> QED BY <1>1, <1>3, <2>2, <2>3, MoveInv, Own, Surroundings DEF ownVars
<1> QED BY <1>2, <1>3 DEF Start

LEMMA StepInv == IdeInv /\ [IdeNext]_ideVars => IdeInv'
<1>1. SUFFICES ASSUME IdeInv, [IdeNext]_ideVars PROVE IdeInv'
  OBVIOUS
<1>2. CASE UNCHANGED ideVars
  BY <1>1, <1>2 DEF ideVars, clientVars, ownVars, IdeInv, IdeTypeOK, Company, Idle, SwitchInv, BaseIsFile, BaseOpens,
       TmpIsOwn, ClientIsOff, Verified, MarkIsOld, MarkIsLate, MarkIsKnown, Writing, Closed, Looked, Alone, At, Opens,
       Session, Written
<1>3. ASSUME NEW s \in Switches, Fail(s) \/ Return(s) PROVE IdeInv'
  BY <1>1, <1>3, EndInv, Surroundings DEF Fail, Return, At, Idle
<1>4. ASSUME NEW s \in Switches, Switch(s) PROVE IdeInv'
  BY <1>1, <1>3, <1>4, GetKeyInv, CloseInv, FindMarkerInv, ReadInv, WriteTmpInv, CompareInv, ReplaceInv, SweepInv,
     LookInv, UnmarkInv, VerifyInv, StartInv DEF Switch
<1> QED BY <1>1, <1>2, <1>4, ClientInv, BeginInv DEF IdeNext

-----------------------------------------------------------------------------
(* The strengthening of all promises: what a switch relies on is still     *)
(* true unless it has been crossed (ide_switch.py:533-577).                *)
THEOREM IdeInvariance == IdeSpec => []IdeInv
  BY InitInv, StepInv, PTL DEF IdeSpec

(* Files, client and switches keep their types.                            *)
THEOREM IdeTyping == IdeSpec => []IdeTypeOK
<1>1. IdeInv => IdeTypeOK
  BY DEF IdeInv
<1> QED BY <1>1, IdeInvariance, PTL

(* What a switch reads is what it replaces (ide_switch.py:509-515).        *)
THEOREM UpdatesKept == IdeSpec => NoUpdateLost
<1>1. IdeInv => \A s \in Switches : At(s, "replace") => file = base[s] \/ crossed[s] \cap {"write", "other"} # {}
  BY DEF IdeInv, SwitchInv, BaseIsFile, Writing, Alone, At
<1>2. IdeInv => [\A s \in Switches : (At(s, "replace") /\ pc'[s] = "sweep") =>
                    file = base[s] \/ crossed[s] \cap {"write", "other"} # {}]_ideVars
  BY <1>1
<1> QED BY <1>2, IdeInvariance, PTL DEF NoUpdateLost

(* Only a switch itself moves on.                                          *)
LEMMA OwnStep ==
  ASSUME IdeTypeOK, [IdeNext]_ideVars, NEW s \in Switches, ~Idle(s), pc'[s] # pc[s]
  PROVE  Switch(s)
<1>1. pc' # pc
  OBVIOUS
<1>2. ~UNCHANGED ideVars
  BY <1>1 DEF ideVars
<1>3. ~Client /\ ~KeyForgotten
  BY <1>1 DEF Client, KeyForgotten, ClientStarts, ClientWrites, ClientLogsOut, ClientQuits, ClientReinstalled
<1>4. \A t \in Switches, u \in Uids : ~Begin(t, u)
  BY DEF Begin, Goto, At, Idle, IdeTypeOK
<1>5. ASSUME NEW t \in Switches \ {s}, Switch(t) PROVE FALSE
  <2>1. \A step : Goto(t, step) => pc'[s] = pc[s]
    BY DEF Goto, IdeTypeOK
  <2>2. End(t) => pc'[s] = pc[s]
    BY <2>1 DEF End
  <2> QED BY <1>5, <2>1, <2>2 DEF Switch, GetKey, Close, FindMarker, Read, WriteTmp, Compare, Replace, Sweep, Look, Unmark,
                                  Verify, Start, Fail, Return
<1> QED BY <1>2, <1>3, <1>4, <1>5 DEF IdeNext

LEMMA ReplaceOpens ==
  ASSUME IdeInv, NEW s \in Switches, Replace(s), pc'[s] = "sweep"
  PROVE  \/ file'.key \in {0, key}
         \/ file # None /\ file.key \notin {0, key}
         \/ crossed[s] \cap {"write", "other"} # {}
<1>1. SUFFICES ASSUME Alone(s) PROVE file'.key \in {0, key} \/ (file # None /\ file.key \notin {0, key})
  BY DEF Alone
<1>2. pc[s] = "replace" /\ "other" \notin crossed[s]
  BY <1>1 DEF Replace, At, Alone
<1>3. file = base[s] /\ Opens(s, base[s]) /\ tmp = Session(s)
  BY <1>1, <1>2 DEF IdeInv, SwitchInv, BaseIsFile, BaseOpens, TmpIsOwn, Writing
<1>4. ~End(s)
  BY <1>2, EndEffect DEF IdeInv
<1>5. file' = Session(s)
  BY <1>3, <1>4 DEF Replace
<1>6. file'.key = IF base[s] = None \/ base[s].key = 0 THEN 0 ELSE mine[s]
  BY <1>5 DEF Session
<1> QED BY <1>3, <1>6 DEF Opens

(* No session the client can open gives way to one it cannot               *)
(* (ide_switch.py:216-261, 543-546).                                       *)
THEOREM SessionsReadable == IdeSpec => ClientCanRead
<1>1. IdeInv /\ [IdeNext]_ideVars =>
        [\A s \in Switches : (At(s, "replace") /\ pc'[s] = "sweep") =>
            \/ file'.key \in {0, key}
            \/ file # None /\ file.key \notin {0, key}
            \/ crossed[s] \cap {"write", "other"} # {}]_ideVars
  <2>1. SUFFICES ASSUME IdeInv, [IdeNext]_ideVars, NEW s \in Switches, At(s, "replace"), pc'[s] = "sweep"
                 PROVE  \/ file'.key \in {0, key}
                        \/ file # None /\ file.key \notin {0, key}
                        \/ crossed[s] \cap {"write", "other"} # {}
    OBVIOUS
  <2>2. ~Idle(s) /\ pc'[s] # pc[s]
    BY <2>1 DEF At, Idle
  <2>3. Switch(s)
    BY <2>1, <2>2, OwnStep DEF IdeInv
  <2>4. Replace(s)
    BY <2>1, <2>3 DEF Switch, GetKey, Close, FindMarker, Read, WriteTmp, Compare, Sweep, Look, Unmark, Verify, Start, Fail,
                      Return, At
  <2> QED BY <2>1, <2>4, ReplaceOpens
<1> QED BY <1>1, IdeInvariance, PTL DEF ClientCanRead, IdeSpec

LEMMA StartLoads ==
  ASSUME IdeInv, NEW s \in Switches, Start(s), pc'[s] = "ok"
  PROVE  \/ mem' # None /\ mem'.uid = target[s] /\ mem'.tok = 0
         \/ crossed[s] # {} \/ marker # 0 \/ file.key \notin {0, key}
<1>1. SUFFICES ASSUME crossed[s] = {}, marker = 0, file.key \in {0, key}
               PROVE  mem' # None /\ mem'.uid = target[s] /\ mem'.tok = 0
  OBVIOUS
<1>2. pc[s] = "start" /\ Alone(s) /\ crossed[s] \cap {"client", "other"} = {}
  BY <1>1 DEF Start, At, Alone
<1>3. ~up /\ Written(s)
  BY <1>2 DEF IdeInv, SwitchInv, ClientIsOff, Verified, Closed, At
<1>4. ~End(s)
  BY EndEffect DEF IdeInv
<1>5. mem' = Loaded
  BY <1>3, <1>4 DEF Start
<1> QED BY <1>1, <1>3, <1>5 DEF Loaded, Written

(* A success means that the client goes by the account (ide_switch.py:658-674). *)
THEOREM SuccessTrue == IdeSpec => RunsAsTold
<1>1. IdeInv /\ [IdeNext]_ideVars =>
        [\A s \in Switches : (At(s, "start") /\ pc'[s] = "ok") =>
            \/ mem' # None /\ mem'.uid = target[s] /\ mem'.tok = 0
            \/ crossed[s] # {} \/ marker # 0 \/ file.key \notin {0, key}]_ideVars
  <2>1. SUFFICES ASSUME IdeInv, [IdeNext]_ideVars, NEW s \in Switches, At(s, "start"), pc'[s] = "ok"
                 PROVE  \/ mem' # None /\ mem'.uid = target[s] /\ mem'.tok = 0
                        \/ crossed[s] # {} \/ marker # 0 \/ file.key \notin {0, key}
    OBVIOUS
  <2>2. ~Idle(s) /\ pc'[s] # pc[s]
    BY <2>1 DEF At, Idle
  <2>3. Switch(s)
    BY <2>1, <2>2, OwnStep DEF IdeInv
  <2>4. Start(s)
    BY <2>1, <2>3 DEF Switch, GetKey, Close, FindMarker, Read, WriteTmp, Compare, Replace, Sweep, Look, Unmark, Verify, Fail,
                      Return, At
  <2> QED BY <2>1, <2>4, StartLoads
<1> QED BY <1>1, IdeInvariance, PTL DEF RunsAsTold, IdeSpec

(* A switch takes back no logout made after it had looked for one, but for *)
(* one made between its last look and the removal (ide_switch.py:533-560). *)
THEOREM LogoutsStand == IdeSpec => LogoutStands
<1>1. IdeInv /\ [IdeNext]_ideVars =>
        [\A s \in Switches : (At(s, "unmark") /\ pc'[s] = "verify" /\ marker' # marker) =>
            "logout" \notin crossed[s] \/ "late" \in crossed[s]]_ideVars
  BY DEF IdeInv, SwitchInv, MarkIsLate
<1> QED BY <1>1, IdeInvariance, PTL DEF LogoutStands, IdeSpec

-----------------------------------------------------------------------------
(* The cells of the shell. *)

(* How a thread's place is read is used in every proof below.              *)
USE DEF Stands, ReaderAt, Exited, MainPlaces, StartPlaces, StopPlaces

LEMMA Names == first \in Starts /\ main \notin Starts /\ None \notin Starts
  BY SidecarAssumption DEF SidecarAssumption

(***************************************************************************)
(* Types.                                                                  *)
(***************************************************************************)
LEMMA KillTyping ==
  ASSUME TypeOK, NEW c \in Starts \cup {None}
  PROVE  /\ KillChild(c) \in [Starts -> SUBSET {"boot", "relay"}]
         /\ CloseJob(c) \in [Starts -> SUBSET {"boot", "relay"}]
  BY DEF TypeOK, KillChild, CloseJob

LEMMA StoppingTyping ==
  ASSUME TypeOK, NEW a \in Threads, Stopping(a) PROVE TypeOK'
<1> USE DEF TypeOK, Goto, Threads
<1>1. CASE TakeChild(a)
  BY <1>1, Names, KillTyping DEF TakeChild
<1>2. CASE DropJob(a)
  BY <1>2, Names, KillTyping DEF DropJob
<1>3. CASE ClearReady(a)
  BY <1>3, Names DEF ClearReady
<1> QED BY <1>1, <1>2, <1>3 DEF Stopping

LEMMA StartingTyping ==
  ASSUME TypeOK, NEW s \in Starts, Starting(s) PROVE TypeOK'
<1> USE DEF TypeOK, Goto, Threads, cells
<1>1. CASE Spawn(s)
  BY <1>1, Names DEF Spawn
<1>2. CASE GiveUp(s)
  BY <1>2, Names, KillTyping DEF GiveUp
<1>3. CASE StoreJob(s)
  BY <1>3, Names, KillTyping DEF StoreJob, Quiet
<1>4. CASE StoreChild(s)
  BY <1>4, Names DEF StoreChild
<1>5. CASE StoreReady(s)
  BY <1>5, Names DEF StoreReady
<1> QED BY <1>1, <1>2, <1>3, <1>4, <1>5 DEF Starting

LEMMA ReadingTyping ==
  ASSUME TypeOK, NEW t \in Starts, Reading(t) PROVE TypeOK'
<1> USE DEF TypeOK, cells
<1>1. CASE IgnoreExit(t)
  BY <1>1 DEF IgnoreExit, Unstored
<1>2. CASE NoticeExit(t)
  BY <1>2 DEF NoticeExit, Unstored, Quiet
<1>3. CASE ReaderDropsJob(t)
  BY <1>3, KillTyping DEF ReaderDropsJob
<1>4. CASE ReaderClears(t)
  BY <1>4 DEF ReaderClears
<1> QED BY <1>1, <1>2, <1>3, <1>4 DEF Reading

LEMMA ButtonTyping ==
  ASSUME TypeOK, RelayStop \/ Exit \/ \E s \in Starts : Restart(s) \/ Process(s)
  PROVE  TypeOK'
<1> USE DEF TypeOK, Goto, Threads, cells
<1>1. CASE RelayStop \/ Exit
  BY <1>1, Names DEF RelayStop, Exit
<1>2. ASSUME NEW s \in Starts, Restart(s) PROVE TypeOK'
  BY <1>2, Names DEF Restart
<1>3. ASSUME NEW s \in Starts, Process(s) PROVE TypeOK'
  <2>1. CASE Unpack(s)
    BY <2>1 DEF Unpack
  <2>2. CASE ReadyLine(s)
    BY <2>2 DEF ReadyLine
  <2>3. CASE Crash(s)
    BY <2>3 DEF Crash
  <2> QED BY <1>3, <2>1, <2>2, <2>3 DEF Process
<1> QED BY <1>1, <1>2, <1>3

(* Cells, threads and process trees keep their types, however many starts  *)
(* overlap; the main thread never starts a relay.                          *)
THEOREM SidecarTyping == Spec => []TypeOK
<1>1. Init => TypeOK
  BY Names DEF Init, TypeOK, Threads
<1>2. TypeOK /\ [Next]_vars => TypeOK'
  <2> SUFFICES ASSUME TypeOK, [Next]_vars PROVE TypeOK' OBVIOUS
  <2>1. CASE UNCHANGED vars
    BY <2>1 DEF TypeOK, vars
  <2>2. CASE Next /\ ~Over
    BY <2>2, StoppingTyping, StartingTyping, ReadingTyping, ButtonTyping DEF Next
  <2> QED BY <2>1, <2>2 DEF Over
<1> QED BY <1>1, <1>2, PTL DEF Spec

(***************************************************************************)
(* No tree escapes: closing a job object, or storing one over it, empties  *)
(* the tree that AppState.job no longer names.                             *)
(***************************************************************************)
LEMMA StoppingKeepsTrees ==
  ASSUME TypeOK, NoStrayTree, NEW a \in Threads, Stopping(a) PROVE NoStrayTree'
<1> USE DEF TypeOK, Goto, Threads, NoStrayTree, Grouped
<1>1. CASE TakeChild(a)
  <2>1. \A t \in Starts : tree'[t] \subseteq tree[t]
    BY <1>1 DEF TakeChild, KillChild
  <2> QED BY <1>1, <2>1, Names DEF TakeChild
<1>2. CASE DropJob(a)
  BY <1>2, Names DEF DropJob, CloseJob
<1>3. CASE ClearReady(a)
  BY <1>3, Names DEF ClearReady
<1> QED BY <1>1, <1>2, <1>3 DEF Stopping

LEMMA StartingKeepsTrees ==
  ASSUME TypeOK, NoStrayTree, NEW s \in Starts, Starting(s) PROVE NoStrayTree'
<1> USE DEF TypeOK, Goto, Threads, NoStrayTree,
            Grouped, cells
<1>1. CASE Spawn(s)
  BY <1>1, Names DEF Spawn
<1>2. CASE GiveUp(s)
  <2>1. \A t \in Starts : tree'[t] \subseteq tree[t]
    BY <1>2 DEF GiveUp, KillChild
  <2> QED BY <1>2, <2>1, Names DEF GiveUp
<1>3. CASE StoreJob(s)
  BY <1>3, Names DEF StoreJob, CloseJob
<1>4. CASE StoreChild(s)
  BY <1>4, Names DEF StoreChild
<1>5. CASE StoreReady(s)
  BY <1>5, Names DEF StoreReady
<1> QED BY <1>1, <1>2, <1>3, <1>4, <1>5 DEF Starting

LEMMA OthersKeepTrees ==
  ASSUME TypeOK, NoStrayTree, NEW s \in Starts,
         Reading(s) \/ Restart(s) \/ RelayStop \/ Exit \/ Process(s)
  PROVE  NoStrayTree'
<1> USE DEF TypeOK, Goto, Threads, NoStrayTree,
            Grouped, cells
<1>1. CASE Reading(s)
  <2>1. CASE IgnoreExit(s)
    BY <2>1 DEF IgnoreExit
  <2>2. CASE NoticeExit(s)
    BY <2>2 DEF NoticeExit
  <2>3. CASE ReaderDropsJob(s)
    BY <2>3 DEF ReaderDropsJob, CloseJob
  <2>4. CASE ReaderClears(s)
    BY <2>4 DEF ReaderClears
  <2> QED BY <1>1, <2>1, <2>2, <2>3, <2>4 DEF Reading
<1>2. CASE Restart(s) \/ RelayStop \/ Exit
  BY <1>2, Names DEF Restart, RelayStop, Exit
<1>3. CASE Process(s)
  <2>1. CASE Unpack(s)
    BY <2>1 DEF Unpack
  <2>2. CASE ReadyLine(s)
    BY <2>2 DEF ReadyLine
  <2>3. CASE Crash(s)
    BY <2>3 DEF Crash
  <2> QED BY <1>3, <2>1, <2>2, <2>3 DEF Process
<1> QED BY <1>1, <1>2, <1>3

(* Whatever the restarts, stops, crashes and exit events do to each other, *)
(* a process tree that was put into a job object is alive only while       *)
(* AppState.job holds that object.                                         *)
THEOREM NoTreeEscapes == Spec => []NoStrayTree
<1>1. Init => NoStrayTree
  BY DEF Init, NoStrayTree
<1>2. TypeOK /\ NoStrayTree /\ [Next]_vars => NoStrayTree'
  <2> SUFFICES ASSUME TypeOK, NoStrayTree, [Next]_vars PROVE NoStrayTree' OBVIOUS
  <2>1. CASE UNCHANGED vars
    BY <2>1 DEF NoStrayTree, Grouped, vars
  <2>2. CASE Next /\ ~Over
    BY <2>2, Names, StoppingKeepsTrees, StartingKeepsTrees, OthersKeepTrees DEF Next
  <2> QED BY <2>1, <2>2 DEF Over
<1> QED BY <1>1, <1>2, SidecarTyping, PTL DEF Spec

(***************************************************************************)
(* The cells agree.  A writer that enters while another is half-way sets   *)
(* raced; otherwise it is alone until its last cell is written.            *)
(***************************************************************************)
LEMMA StoppingKeepsCells ==
  ASSUME TypeOK, CellsInv, NEW a \in Threads, Stopping(a) PROVE CellsInv'
<1> USE DEF TypeOK, CellsInv, CellsAgree, OneWriter, ThreadProgress,
            ReaderProgress, BusyThreads, BusyReaders, Quiet, Goto, Threads
<1>1. CASE TakeChild(a)
  <2>1. ~raced' => ~raced /\ Quiet
    BY <1>1 DEF TakeChild
  <2>2. ~raced' => ready = sidecar /\ (job = sidecar \/ sidecar \in jobless)
    BY <1>1, <2>1 DEF TakeChild
  <2> QED BY <1>1, <2>1, <2>2, Names DEF TakeChild
<1>2. CASE DropJob(a)
  BY <1>2, Names DEF DropJob
<1>3. CASE ClearReady(a)
  BY <1>3, Names DEF ClearReady
<1> QED BY <1>1, <1>2, <1>3 DEF Stopping

LEMMA StartingKeepsCells ==
  ASSUME TypeOK, CellsInv, NEW s \in Starts, Starting(s) PROVE CellsInv'
<1> USE DEF TypeOK, CellsInv, CellsAgree, OneWriter, ThreadProgress,
            ReaderProgress, BusyThreads, BusyReaders, Quiet, Goto,
            Threads, cells
<1>1. CASE Spawn(s)
  BY <1>1, Names DEF Spawn
<1>2. CASE GiveUp(s)
  BY <1>2, Names DEF GiveUp
<1>3. CASE StoreJob(s)
  <2>1. ~raced' => ~raced /\ Quiet
    BY <1>3 DEF StoreJob
  <2> QED BY <1>3, <2>1, Names DEF StoreJob
<1>4. CASE StoreChild(s)
  BY <1>4, Names DEF StoreChild
<1>5. CASE StoreReady(s)
  BY <1>5, Names DEF StoreReady
<1> QED BY <1>1, <1>2, <1>3, <1>4, <1>5 DEF Starting

LEMMA ReadingKeepsCells ==
  ASSUME TypeOK, CellsInv, NEW t \in Starts, Reading(t) PROVE CellsInv'
<1> USE DEF TypeOK, CellsInv, CellsAgree, OneWriter, ThreadProgress,
            ReaderProgress, BusyThreads, BusyReaders, Quiet, Threads, cells
<1>1. CASE IgnoreExit(t)
  <2>1. ~raced' => ~raced
    BY <1>1 DEF IgnoreExit
  <2> QED BY <1>1, <2>1, Names DEF IgnoreExit
<1>2. CASE NoticeExit(t)
  <2>1. ~raced' => ~raced /\ Quiet
    BY <1>2 DEF NoticeExit
  <2>2. sidecar \in {None, t}
    BY <1>2 DEF NoticeExit, ExitOfOther
  <2>3. ~raced' => ready \in {None, t}
    BY <1>2, <2>1, <2>2 DEF NoticeExit
  <2> QED BY <1>2, <2>1, <2>2, <2>3, Names DEF NoticeExit
<1>3. CASE ReaderDropsJob(t)
  BY <1>3, Names DEF ReaderDropsJob
<1>4. CASE ReaderClears(t)
  BY <1>4, Names DEF ReaderClears
<1> QED BY <1>1, <1>2, <1>3, <1>4 DEF Reading

LEMMA OthersKeepCells ==
  ASSUME TypeOK, CellsInv,
         RelayStop \/ Exit \/ \E s \in Starts : Restart(s) \/ Process(s)
  PROVE  CellsInv'
<1> USE DEF TypeOK, CellsInv, CellsAgree, OneWriter, ThreadProgress,
            ReaderProgress, BusyThreads, BusyReaders, Quiet, Goto,
            Threads, cells
<1>1. CASE RelayStop \/ Exit
  BY <1>1, Names DEF RelayStop, Exit
<1>2. ASSUME NEW s \in Starts, Restart(s) PROVE CellsInv'
  BY <1>2, Names DEF Restart
<1>3. ASSUME NEW s \in Starts, Process(s) PROVE CellsInv'
  <2>1. UNCHANGED <<cells, pc, reader, jobless, raced>>
    BY <1>3 DEF Process, Unpack, ReadyLine, Crash
  <2> QED BY <2>1
<1> QED BY <1>1, <1>2, <1>3

LEMMA CellsStep == TypeOK /\ CellsInv /\ [Next]_vars => CellsInv'
<1> SUFFICES ASSUME TypeOK, CellsInv, [Next]_vars PROVE CellsInv' OBVIOUS
<1>1. CASE UNCHANGED vars
  BY <1>1 DEF CellsInv, CellsAgree, OneWriter, ThreadProgress, ReaderProgress,
              BusyThreads, BusyReaders, Quiet, vars
<1>2. CASE Next /\ ~Over
  BY <1>2, StoppingKeepsCells, StartingKeepsCells, ReadingKeepsCells, OthersKeepCells
  DEF Next
<1> QED BY <1>1, <1>2 DEF Over

LEMMA CellsInit == Init => CellsInv
  BY Names DEF Init, CellsInv, CellsAgree, OneWriter, ThreadProgress, ReaderProgress,
               BusyThreads, BusyReaders, Quiet, Threads

(* As long as no two writers of the cells have met and no exit event came  *)
(* before its child was stored, the child, the ready state and the job     *)
(* object are of one and the same start.                                   *)
THEOREM WritersApart == Spec => []CellsInv
BY CellsInit, CellsStep, SidecarTyping, PTL DEF Spec

(* The same for the three cells alone.                                     *)
THEOREM CellsAgreement == Spec => []CellsAgree
<1>1. CellsInv => CellsAgree
  BY DEF CellsInv
<1> QED BY <1>1, WritersApart, PTL

(* The exit event of one child never takes down another that is ready,     *)
(* under the same condition.                                               *)
THEOREM LateExitHarmless == Spec => NewInstanceKept
<1>1. TypeOK /\ CellsInv /\ [Next]_vars =>
        [\A t, u \in Starts :
           (t # u /\ reader'[t] # reader[t] /\ ready = u /\ tree[u] # {} /\ ~raced')
             => ready' = u /\ tree'[u] = tree[u]]_vars
  <2> SUFFICES ASSUME TypeOK, CellsInv, Next, NEW t \in Starts, NEW u \in Starts,
                      t # u, reader'[t] # reader[t], ready = u, tree[u] # {}, ~raced'
               PROVE  ready' = u /\ tree'[u] = tree[u]
    BY DEF vars
  <2>1. (\E s \in Starts : Spawn(s)) \/ \E s \in Starts : Reading(s)
    BY DEF Next, Over, vars, cells, Stopping, TakeChild, DropJob, ClearReady,
           Starting, GiveUp, StoreJob, StoreChild, StoreReady, Restart, RelayStop, Exit,
           Process, Unpack, ReadyLine, Crash
  <2>2. ASSUME NEW s \in Starts, Spawn(s) PROVE ready' = u /\ tree'[u] = tree[u]
    <3>1. s = t
      BY <2>2 DEF Spawn, TypeOK
    <3> QED BY <2>2, <3>1 DEF Spawn, TypeOK, cells
  <2>3. ASSUME NEW s \in Starts, Reading(s) PROVE ready' = u /\ tree'[u] = tree[u]
    <3>1. s = t
      BY <2>3 DEF Reading, IgnoreExit, NoticeExit, ReaderDropsJob, ReaderClears, TypeOK
    <3>2. ~raced
      BY <2>3 DEF Reading, IgnoreExit, NoticeExit, ReaderDropsJob, ReaderClears
    <3>3. reader[t] \in {"dropJob", "clearReady"} => ready \in {None, t}
      BY <3>2 DEF CellsInv, ReaderProgress
    <3>4. reader[t] \notin {"dropJob", "clearReady"}
      BY <3>3, Names
    <3> QED BY <2>3, <3>1, <3>4
            DEF Reading, IgnoreExit, NoticeExit, ReaderDropsJob, ReaderClears, cells
  <2> QED BY <2>1, <2>2, <2>3
<1> QED BY <1>1, SidecarTyping, WritersApart, PTL DEF Spec, NewInstanceKept

(***************************************************************************)
(* A reported relay has somebody who waits for its end.                    *)
(***************************************************************************)
LEMMA StoppingKeepsWatch ==
  ASSUME TypeOK, WatchInv, NEW a \in Threads, Stopping(a) PROVE WatchInv'
<1> USE DEF TypeOK, WatchInv, Unstored, Goto, Threads
<1>1. CASE TakeChild(a)
  <2>1. \A t \in Starts : tree'[t] \subseteq tree[t]
    BY <1>1 DEF TakeChild, KillChild
  <2>2. ~raced' => ~raced
    BY <1>1 DEF TakeChild
  <2> QED BY <1>1, <2>1, <2>2, Names DEF TakeChild
<1>2. CASE DropJob(a)
  BY <1>2, Names DEF DropJob, CloseJob
<1>3. CASE ClearReady(a)
  BY <1>3, Names DEF ClearReady
<1> QED BY <1>1, <1>2, <1>3 DEF Stopping

LEMMA StartingKeepsWatch ==
  ASSUME TypeOK, CellsInv, WatchInv, NEW s \in Starts, Starting(s) PROVE WatchInv'
<1> USE DEF TypeOK, WatchInv, Unstored, Goto, Threads,
            cells
<1>1. CASE Spawn(s)
  BY <1>1, Names DEF Spawn
<1>2. CASE GiveUp(s)
  <2>1. \A t \in Starts : tree'[t] \subseteq tree[t]
    BY <1>2 DEF GiveUp, KillChild
  <2> QED BY <1>2, <2>1, Names DEF GiveUp
<1>3. CASE StoreJob(s)
  <2>1. ~raced' => ~raced
    BY <1>3 DEF StoreJob
  <2>2. \A t \in Starts : tree'[t] \subseteq tree[t]
    BY <1>3 DEF StoreJob, CloseJob
  <2> QED BY <1>3, <2>1, <2>2, Names DEF StoreJob
<1>4. CASE StoreChild(s)
  BY <1>4, Names DEF StoreChild
<1>5. CASE StoreReady(s)
  BY <1>5, Names DEF StoreReady
<1> QED BY <1>1, <1>2, <1>3, <1>4, <1>5 DEF Starting

LEMMA ReadingKeepsWatch ==
  ASSUME TypeOK, CellsInv, WatchInv, NEW s \in Starts, Reading(s) PROVE WatchInv'
<1> USE DEF TypeOK, WatchInv, Unstored, cells
<1>1. CASE IgnoreExit(s)
  <2>1. ~raced' => ~raced /\ ~Unstored(s)
    BY <1>1 DEF IgnoreExit
  <2>2. ~raced /\ ready = s => \E q \in Starts : pc[q] = "storeReady"
    <3> SUFFICES ASSUME ~raced, ready = s PROVE \E q \in Starts : pc[q] = "storeReady"
      OBVIOUS
    <3>1. sidecar # None /\ sidecar # ready
      BY <1>1 DEF IgnoreExit, ExitOfOther
    <3>2. ~Quiet
      BY <1>1, <3>1 DEF IgnoreExit, CellsInv, CellsAgree
    <3>3. BusyReaders = {}
      BY <3>1 DEF CellsInv, ReaderProgress, BusyReaders
    <3>4. PICK a \in Threads :
            pc[a] \in {"dropJob", "clearReady", "exitJob", "storeChild", "storeReady"}
      BY <3>2, <3>3 DEF Quiet, BusyThreads
    <3>5. a # main /\ pc[a] \in {"storeChild", "storeReady"}
      BY <3>1, <3>4 DEF CellsInv, ThreadProgress
    <3>6. pc[a] # "storeChild"
      BY <3>1 DEF CellsInv, ThreadProgress
    <3> QED BY <3>5, <3>6 DEF Threads
  <2> QED BY <1>1, <2>1, <2>2 DEF IgnoreExit
<1>2. CASE NoticeExit(s)
  <2>1. ~raced' => ~raced /\ ~Unstored(s)
    BY <1>2 DEF NoticeExit
  <2> QED BY <1>2, <2>1 DEF NoticeExit
<1>3. CASE ReaderDropsJob(s)
  BY <1>3 DEF ReaderDropsJob, CloseJob
<1>4. CASE ReaderClears(s)
  BY <1>4, Names DEF ReaderClears
<1> QED BY <1>1, <1>2, <1>3, <1>4 DEF Reading

LEMMA OthersKeepWatch ==
  ASSUME TypeOK, WatchInv, RelayStop \/ Exit \/ \E s \in Starts : Restart(s) \/ Process(s)
  PROVE  WatchInv'
<1> USE DEF TypeOK, WatchInv, Unstored, Goto, Threads,
            cells
<1>1. CASE RelayStop \/ Exit
  BY <1>1, Names DEF RelayStop, Exit
<1>2. ASSUME NEW s \in Starts, Restart(s) PROVE WatchInv'
  BY <1>2, Names DEF Restart
<1>3. ASSUME NEW s \in Starts, Process(s) PROVE WatchInv'
  <2>1. CASE Unpack(s)
    BY <2>1 DEF Unpack
  <2>2. CASE ReadyLine(s)
    BY <2>2 DEF ReadyLine
  <2>3. CASE Crash(s)
    BY <2>3 DEF Crash
  <2> QED BY <1>3, <2>1, <2>2, <2>3 DEF Process
<1> QED BY <1>1, <1>2, <1>3

(* A reported relay that is dead has its exit event still to come, or a    *)
(* writer is about to change the cells, as long as writers stay apart.     *)
THEOREM ReadyWatched == Spec => []ReadyIsWatched
<1>1. Init => WatchInv
  BY Names DEF Init, WatchInv, Unstored, Threads
<1>2. TypeOK /\ CellsInv /\ WatchInv /\ [Next]_vars => WatchInv'
  <2> SUFFICES ASSUME TypeOK, CellsInv, WatchInv, [Next]_vars PROVE WatchInv' OBVIOUS
  <2>1. CASE UNCHANGED vars
    BY <2>1 DEF WatchInv, Unstored, vars
  <2>2. CASE Next /\ ~Over
    BY <2>2, StoppingKeepsWatch, StartingKeepsWatch, ReadingKeepsWatch, OthersKeepWatch
    DEF Next
  <2> QED BY <2>1, <2>2 DEF Over
<1>3. WatchInv => ReadyIsWatched
  BY DEF WatchInv, ReadyIsWatched, Quiet, BusyReaders, BusyThreads, Threads
<1> QED BY <1>1, <1>2, <1>3, SidecarTyping, WritersApart, PTL DEF Spec

(* ShellInv: until two writers of the cells meet, the cells agree and a    *)
(* reported relay is watched, for any number of overlapping starts.        *)
THEOREM ShellInvariant == Spec => []ShellInv
BY SidecarTyping, WritersApart, ReadyWatched, PTL DEF ShellInv

=============================================================================
