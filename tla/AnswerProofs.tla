---------------------------- MODULE AnswerProofs ----------------------------
(***************************************************************************)
(* What holds of a chat request for every number of retries, lines and     *)
(* reasons: a 200 is no empty answer, the budgets of the two kinds of      *)
(* retry stay apart, and an empty answer is repeated, or a refusal         *)
(* refreshed, only before the client has read anything; and what the       *)
(* client has read once a stream ends is what the upstream sent, piece by  *)
(* piece and in its order, the same as the JSON answer to that request     *)
(* would be, unless the stream broke with an error that was taken for a    *)
(* 401 and began again.                                                    *)
(***************************************************************************)
EXTENDS Answer, SequenceTheorems, WellFoundedInduction, FiniteSetTheorems, TLAPS

Early == {"check", "ensure", "call", "refresh"}
Under == {"lines", "ending", "last"}
Ended == {"over", "gone"}

Untouched == queue = <<>> /\ (~seen.restarted => asm.ev = <<>> /\ http = 0)

(* Before an output is seen the client has nothing, unless the stream of   *)
(* another call broke before, and a call without a line has no output.     *)
RetryInv == /\ pc \in Early => Untouched
            /\ (pc \in Under /\ ~released) => Untouched
            /\ (pc = "lines" /\ up.lines = 0) => ~released
            /\ pc = "last" => released
            /\ released => req.stream
            /\ pc = "over" => queue = <<>>
            /\ (pc \in Early \cup {"lines", "ending"} /\ http = 0) => asm.ev = <<>>
            /\ seen.restarted => refreshed /\ req.stream
            /\ req.stream => json = <<>>

(* The output that was seen is in `up`, and stays there. *)
OutputInv == /\ (pc \in {"lines", "ending"} /\ released) => up.think # <<>> \/ up.text # <<>>
             /\ pc = "last" => ~IsEmpty(up)
             /\ pc # "over" => log = <<>>
             /\ NoFalseSuccess

(* A custom provider may be asked twice for one answer: a JSON document,   *)
(* then a stream.                                                          *)
Twice    == req.prov = "custom" /\ ~req.stream
Calls(n) == IF Twice THEN 2 * n ELSE n
Spent    == seen.empty + (IF refreshed THEN 1 ELSE 0)

(* The calls made, by what they ended in.  While a request goes on each    *)
(* empty answer has used one retry, those before a refresh included, and   *)
(* a refusal with 401 has used the refresh.                                *)
CountInv ==
    /\ pc \in Early => seen.calls <= Calls(Spent)
    /\ pc \in Under => /\ seen.calls <= (IF up.fallback THEN Calls(Spent + 1) ELSE Calls(Spent) + 1)
                       /\ up.fallback => Twice
    /\ pc \in Early \cup Under =>
         /\ req.stream => seen.empty = empties
         /\ ~req.stream => seen.empty \in empties .. (IF refreshed THEN empties + MaxEmpty ELSE empties)
         /\ req.prov = "ta3" => seen.rejected = (IF refreshed THEN 1 ELSE 0)
         /\ log = <<>> /\ http \in {0, 200}
    /\ BudgetsApart

Inv == TypeOK /\ RetryInv /\ OutputInv /\ CountInv

-----------------------------------------------------------------------------
(* What a raised error does: one of the two retries, or the end. *)
RetryEmpty(x) == /\ x.cls = "empty" /\ empties < MaxEmpty
                 /\ empties' = empties + 1 /\ pc' = "call"
                 /\ UNCHANGED <<refreshed, asm, http, json, log>>

RetryFresh(x) == /\ IsUpstream401(x) /\ ~refreshed
                 /\ refreshed' = TRUE /\ pc' = "refresh"
                 /\ empties' = IF req.stream THEN empties ELSE 0
                 /\ UNCHANGED <<asm, http, json, log>>

GiveUp(x) == /\ ~(x.cls = "empty" /\ empties < MaxEmpty)
             /\ ~(IsUpstream401(x) /\ ~refreshed)
             /\ Fail(x)

(* _sse_with_retry and _chat_with_retry choose among these three.          *)
LEMMA RaiseCases ==
  ASSUME NEW x, Raise(x)
  PROVE  RetryEmpty(x) \/ RetryFresh(x) \/ GiveUp(x)
BY DEF Raise, RetryEmpty, RetryFresh, GiveUp

(* An empty answer is never taken for a 401.                               *)
LEMMA EmptyIsNo401 == ~IsUpstream401(EmptyAnswer)
BY DEF IsUpstream401, Err, EmptyAnswer

(* The status an error ends a request with.                                *)
Statuses == {400, 401, 404, 429, 500, 502, 503, 504}

LEMMA RefusalStatus ==
  ASSUME NEW prov \in {"ta3", "custom", "wb"}, NEW x \in Refusals(prov)
  PROVE  /\ RespStatus(x) \in Statuses /\ x.cls # "empty"
         /\ prov = "ta3" => (IsUpstream401(x) <=> x.status = 401) /\ RespStatus(x) = x.status
BY DEF Refusals, Err, RespStatus, Statuses, IsUpstream401

LEMMA BreakStatus ==
  ASSUME NEW prov \in {"ta3", "custom", "wb"}, NEW x \in Breaks(prov)
  PROVE  RespStatus(x) \in Statuses \ {401} /\ x.cls # "empty"
BY DEF Breaks, Err, RespStatus, Statuses

(* The provider of a request is one of the three.                          *)
LEMMA ProvKnown == ASSUME req \in Requests PROVE req.prov \in {"ta3", "custom", "wb"} /\ req.stream \in BOOLEAN
BY AnswerAssumption DEF Requests, AnswerAssumption

(* A call that has not seen a line.                                        *)
LEMMA NewCallType == NewCall \in UpType /\ IsEmpty(NewCall) /\ NewCall.lines = 0
BY DEF NewCall, UpType, FinishReasons, IsEmpty

(* What a line of an upstream may carry.                                   *)
LineType == [think : BOOLEAN, text : BOOLEAN, tool : {"", "named", "nameless", "args"},
             finish : FinishReasons \cup {""}, usage : {0, 1}]

LEMMA LinesType == Lines \subseteq LineType
<1>1. Line \in LineType
    BY DEF Line, LineType
<1>2. ASSUME NEW e \in LineType
      PROVE  {[e EXCEPT !.think = TRUE], [e EXCEPT !.text = TRUE], [e EXCEPT !.think = TRUE, !.text = TRUE],
              [e EXCEPT !.tool = "named"], [e EXCEPT !.tool = "nameless"], [e EXCEPT !.tool = "args"],
              [e EXCEPT !.usage = 1]} \subseteq LineType
    BY DEF LineType
<1>3. ASSUME NEW e \in LineType, NEW f \in FinishReasons PROVE [e EXCEPT !.finish = f] \in LineType
    BY DEF LineType
<1>4. \A f \in Finishes : [Line EXCEPT !.finish = f] \in LineType
    BY <1>1, <1>3, AnswerAssumption DEF AnswerAssumption
<1> QED BY <1>1, <1>2, <1>4 DEF Lines

ToolType  == [name : {"n", ""}, args : BOOLEAN]
PieceType == [f : {"think", "text"}, d : Nat]

HasTool(u, l) == l.tool = "args" => u.tools # <<>>
Spoke(u)      == u.think # <<>> \/ u.text # <<>>

(* The fragments of a tool call.                                           *)
LEMMA MergeType ==
  ASSUME NEW u \in UpType, NEW l \in LineType, HasTool(u, l)
  PROVE  MergeTool(u.tools, l) \in Seq(ToolType)
<1>1. u.tools \in Seq(ToolType)
    BY DEF UpType, ToolType
<1>2. CASE l.tool = "args"
  <2>1. u.tools # <<>>
      BY <1>2 DEF HasTool
  <2>2. Len(u.tools) \in Nat \ {0}
      BY <1>1, <2>1, EmptySeq
  <2>3. Len(u.tools) \in 1 .. Len(u.tools)
      BY <2>2
  <2>4. u.tools[Len(u.tools)] \in ToolType
      BY <1>1, <2>3, ElementOfSeq
  <2>5. ASSUME NEW t \in ToolType PROVE [t EXCEPT !.args = TRUE] \in ToolType
      BY DEF ToolType
  <2>6. [u.tools[Len(u.tools)] EXCEPT !.args = TRUE] \in ToolType
      BY <2>4, <2>5
  <2>7. [u.tools EXCEPT ![Len(u.tools)] = [u.tools[Len(u.tools)] EXCEPT !.args = TRUE]] \in Seq(ToolType)
      BY <1>1, <2>3, <2>6, ExceptSeq
  <2>8. MergeTool(u.tools, l)
        = [u.tools EXCEPT ![Len(u.tools)] = [u.tools[Len(u.tools)] EXCEPT !.args = TRUE]]
      BY <1>2 DEF MergeTool
  <2> QED BY <2>7, <2>8
<1>3. CASE l.tool # "args"
  <2>1. [name |-> "n", args |-> FALSE] \in ToolType /\ [name |-> "", args |-> FALSE] \in ToolType
      BY DEF ToolType
  <2> QED BY <1>1, <1>3, <2>1, AppendProperties DEF MergeTool
<1> QED BY <1>2, <1>3

(* The pieces of one line.                                                 *)
LEMMA PiecesType ==
  ASSUME NEW l \in LineType, NEW n \in Nat
  PROVE  /\ Pieces(l, n) \in Seq(PieceType)
         /\ Pieces(l, n) # <<>> => l.think \/ l.text
<1> DEFINE A == IF l.think THEN <<ThinkFrame(n)>> ELSE <<>>
           B == IF l.text THEN <<TextFrame(n)>> ELSE <<>>
<1>1. ThinkFrame(n) \in PieceType /\ TextFrame(n) \in PieceType
    BY DEF ThinkFrame, TextFrame, PieceType
<1>2. \A x \in PieceType : <<x>> \in Seq(PieceType)
    OBVIOUS
<1>3. <<>> \in Seq(PieceType)
    OBVIOUS
<1>4. A \in Seq(PieceType) /\ B \in Seq(PieceType)
    BY <1>1, <1>2, <1>3
<1>5. Pieces(l, n) = IF req.prov = "ta3" THEN A \o B ELSE B \o A
    BY Zenon DEF Pieces
<1>6. A # <<>> => l.think
    OBVIOUS
<1>7. B # <<>> => l.text
    OBVIOUS
<1> HIDE DEF A, B
<1>8. A \o B \in Seq(PieceType) /\ B \o A \in Seq(PieceType)
    BY <1>4, ConcatProperties
<1>9. A \o B # <<>> \/ B \o A # <<>> => A # <<>> \/ B # <<>>
    BY <1>4, ConcatEmptySeq
<1> QED BY <1>5, <1>6, <1>7, <1>8, <1>9

(* A line adds to a call and takes nothing away.                           *)
LEMMA AbsorbType ==
  ASSUME NEW u \in UpType, NEW l \in LineType, HasTool(u, l)
  PROVE  /\ Absorb(u, l) \in UpType
         /\ Absorb(u, l).lines = u.lines + 1
         /\ Spoke(u) \/ Pieces(l, u.lines + 1) # <<>> => Spoke(Absorb(u, l))
         /\ Absorb(u, l).fallback = u.fallback
<1> DEFINE n == u.lines + 1
<1>1. n \in Nat
  <2>1. u.lines \in Nat
      BY DEF UpType
  <2> QED BY <2>1
<1>2. /\ u.think \in Seq(Nat) /\ u.text \in Seq(Nat)
      /\ l.think \in BOOLEAN /\ l.text \in BOOLEAN
    BY DEF UpType, LineType
<1>3. /\ Append(u.think, n) \in Seq(Nat) /\ Append(u.text, n) \in Seq(Nat)
      /\ Append(u.think, n) # <<>> /\ Append(u.text, n) # <<>>
  <2> HIDE DEF n
  <2>1. \A s \in Seq(Nat), k \in Nat : Append(s, k) \in Seq(Nat) /\ Append(s, k) # <<>>
      BY AppendProperties
  <2> QED BY <1>1, <1>2, <2>1, Zenon
<1> DEFINE th == IF l.think THEN Append(u.think, n) ELSE u.think
           tx == IF l.text THEN Append(u.text, n) ELSE u.text
           tl == MergeTool(u.tools, l)
           fi == IF l.finish # "" THEN l.finish ELSE u.finish
           us == IF l.usage # 0 THEN l.usage ELSE u.usage
           md == u.made \o Pieces(l, n)
           lt == u.late \/ (l.think /\ (u.text # <<>> \/ (l.text /\ req.prov # "ta3")))
           v  == [think |-> th, text |-> tx, tools |-> tl, finish |-> fi, usage |-> us, made |-> md,
                  lines |-> n, fallback |-> u.fallback, late |-> lt]
<1>4. th \in Seq(Nat) /\ tx \in Seq(Nat)
    BY <1>2, <1>3
<1>5. fi \in FinishReasons /\ us \in {0, 1} /\ u.fallback \in BOOLEAN
    BY DEF UpType, LineType
<1>6. md \in Seq(PieceType)
  <2>1. u.made \in Seq(PieceType)
      BY DEF UpType, PieceType
  <2>2. Pieces(l, n) \in Seq(PieceType)
      BY <1>1, PiecesType
  <2> QED BY <2>1, <2>2, ConcatProperties
<1>7. tl \in Seq(ToolType)
    BY MergeType
<1>8. lt \in BOOLEAN
    BY <1>2 DEF UpType
<1>9. Absorb(u, l) = v
    BY Zenon DEF Absorb
<1>10. v.think = th /\ v.text = tx /\ v.lines = n /\ v.fallback = u.fallback
    OBVIOUS
<1>11. (u.think # <<>> \/ l.think => th # <<>>) /\ (u.text # <<>> \/ l.text => tx # <<>>)
    BY <1>3
<1>12. Pieces(l, n) # <<>> => l.think \/ l.text
    BY <1>1, PiecesType
<1> HIDE DEF th, tx, tl, fi, us, md, lt, n
<1>13. v \in UpType
    BY <1>1, <1>4, <1>5, <1>6, <1>7, <1>8 DEF UpType, ToolType, PieceType
<1> HIDE DEF v
<1> QED BY <1>9, <1>10, <1>11, <1>12, <1>13 DEF Spoke, n

-----------------------------------------------------------------------------
HttpType == Statuses \cup {0, 200}

LEMMA ModelErrorStatus == RespStatus(ModelError) \in {404, 503} /\ ModelError.cls = "http"
BY DEF ModelError, Err, RespStatus

LEMMA OwnErrors == /\ RespStatus(EmptyAnswer) = 502 /\ EmptyAnswer.cls = "empty"
                   /\ RespStatus(NoHook) = 500 /\ NoHook.cls = "hook"
BY DEF Err, RespStatus, EmptyAnswer, NoHook

(* No error is called done.                                                *)
LEMMA ErrorNames ==
  /\ ModelError.cls # "done" /\ RespStatus(ModelError) \in Statuses
  /\ NoHook.cls # "done" /\ RespStatus(NoHook) \in Statuses
  /\ EmptyAnswer.cls # "done" /\ RespStatus(EmptyAnswer) \in Statuses
  /\ \A prov \in {"ta3", "custom", "wb"} : \A x \in Refusals(prov) \cup Breaks(prov) :
       x.cls # "done" /\ RespStatus(x) \in Statuses
<1>1. ModelError.cls # "done" /\ RespStatus(ModelError) \in Statuses
    BY ModelErrorStatus DEF Statuses
<1>2. /\ NoHook.cls # "done" /\ RespStatus(NoHook) \in Statuses
      /\ EmptyAnswer.cls # "done" /\ RespStatus(EmptyAnswer) \in Statuses
    BY OwnErrors DEF Statuses
<1>3. ASSUME NEW prov \in {"ta3", "custom", "wb"}, NEW x \in Refusals(prov)
      PROVE  x.cls # "done" /\ RespStatus(x) \in Statuses
  <2>1. RespStatus(x) \in Statuses
      BY RefusalStatus
  <2>2. x.cls # "done"
      BY DEF Refusals, Err
  <2> QED BY <2>1, <2>2
<1>4. ASSUME NEW prov \in {"ta3", "custom", "wb"}, NEW x \in Breaks(prov)
      PROVE  x.cls # "done" /\ RespStatus(x) \in Statuses
  <2>1. RespStatus(x) \in Statuses
      BY BreakStatus
  <2>2. x.cls # "done"
      BY DEF Breaks, Err
  <2> QED BY <2>1, <2>2
<1> QED BY <1>1, <1>2, <1>3, <1>4

LEMMA InitInv == Init => Inv
<1> SUFFICES ASSUME Init PROVE Inv
    OBVIOUS
<1>1. TypeOK
  <2>1. up \in UpType /\ up.lines = 0
      BY NewCallType DEF Init
  <2>2. up.lines <= MaxLines /\ empties \in 0 .. MaxEmpty
      BY <2>1, AnswerAssumption DEF Init, AnswerAssumption
  <2>3. seen \in SeenType
      BY DEF Init, SeenType
  <2>4. /\ req \in Requests /\ model \in Models(req.prov)
        /\ pc \in {"check", "ensure"} /\ http = 0 /\ released = FALSE /\ refreshed = FALSE
      BY DEF Init
  <2> QED BY <2>1, <2>2, <2>3, <2>4 DEF TypeOK
<1>2. RetryInv
    BY DEF Init, RetryInv, Untouched, NewAssembler, Early, Under
<1>3. OutputInv
    BY DEF Init, OutputInv, NoFalseSuccess, Answered
<1>4. CountInv
    BY AnswerAssumption DEF Init, CountInv, BudgetsApart, Early, Under, Calls, Spent, AnswerAssumption
<1> QED BY <1>1, <1>2, <1>3, <1>4 DEF Inv

(* What the end by an error does to the request.                           *)
LEMMA FailEffect ==
  ASSUME NEW x, Fail(x)
  PROVE  /\ http = 0 => http' = RespStatus(x) /\ asm' = asm
         /\ http # 0 => http' = http
         /\ log' = Append(log, x.cls)
         /\ pc' = "over" /\ refreshed' = refreshed /\ empties' = empties /\ json' = json
BY DEF Fail, Budgets

(* The type of the next state, one part after the other.                   *)
LEMMA TypeParts ==
  ASSUME req' \in Requests, model' \in Models(req'.prov),
         pc' \in {"check", "ensure", "call", "lines", "ending", "last", "refresh", "over", "gone"},
         released' \in BOOLEAN, refreshed' \in BOOLEAN, empties' \in 0 .. MaxEmpty,
         http' \in {0, 200, 400, 401, 404, 429, 500, 502, 503, 504},
         up' \in UpType, up'.lines <= MaxLines,
         seen' \in SeenType
  PROVE  TypeOK'
BY ZenonT(40) DEF TypeOK

(* A raised error leaves types and the catalogue alone.                    *)
LEMMA RaiseType ==
  ASSUME TypeOK, NEW x, Raise(x), RespStatus(x) \in Statuses
  PROVE  /\ pc' \in {"call", "refresh", "over"}
         /\ http' \in HttpType /\ refreshed' \in BOOLEAN /\ empties' \in 0 .. MaxEmpty
<1>1. CASE RetryEmpty(x)
    BY <1>1, AnswerAssumption DEF RetryEmpty, TypeOK, HttpType, Statuses, AnswerAssumption
<1>2. CASE RetryFresh(x)
    BY <1>2, AnswerAssumption DEF RetryFresh, TypeOK, HttpType, Statuses, AnswerAssumption
<1>3. CASE GiveUp(x)
    BY <1>3 DEF GiveUp, Fail, TypeOK, HttpType, Statuses, Budgets
<1> QED BY <1>1, <1>2, <1>3, RaiseCases

LEMMA StepType ==
  ASSUME TypeOK, [Next]_vars
  PROVE  TypeOK'
<1> USE DEF TypeOK, SeenType, HttpType, Statuses, Budgets
<1>1. ASSUME Check \/ Ensure PROVE TypeOK'
  <2>1. CASE Check
      BY <2>1, ModelErrorStatus DEF Check, Fail
  <2>2. CASE Ensure
      BY <2>2, ModelErrorStatus DEF Ensure, Fail
  <2> QED BY <1>1, <2>1, <2>2
<1>2. ASSUME Refresh PROVE TypeOK'
  <2>1. req' = req /\ model' = model /\ up' = up /\ released' = released /\ seen' = seen
      BY <1>2 DEF Refresh
  <2>2. CASE Fail(NoHook)
    <3>1. http' = http \/ http' = RespStatus(NoHook)
        BY <2>2, FailEffect
    <3>2. http' = http \/ http' = 500
        BY <3>1, OwnErrors
    <3>3. pc' = "over" /\ refreshed' = refreshed /\ empties' = empties
        BY <2>2, FailEffect
    <3> QED BY <2>1, <3>2, <3>3
  <2>3. CASE pc' = "call" /\ UNCHANGED <<Budgets, http>>
      BY <2>1, <2>3
  <2> QED BY <1>2, <2>2, <2>3, ZenonT(40) DEF Refresh
<1>3. ASSUME CatalogueChanges PROVE TypeOK'
    BY <1>3 DEF CatalogueChanges
<1>4. ASSUME Call PROVE TypeOK'
  <2>1. seen' \in SeenType
      BY <1>4 DEF Call
  <2>2. up' \in UpType /\ up'.lines <= MaxLines
      BY <1>4, NewCallType, AnswerAssumption DEF Call, AnswerAssumption
  <2>3. /\ req' = req /\ model' = model /\ pc' = "lines" /\ released' = FALSE
        /\ http' = http /\ refreshed' = refreshed /\ empties' = empties
      BY <1>4 DEF Call
  <2>4. req' \in Requests /\ model' \in Models(req'.prov)
      BY <2>3
  <2>5. /\ pc' \in {"check", "ensure", "call", "lines", "ending", "last", "refresh", "over", "gone"}
        /\ released' \in BOOLEAN /\ refreshed' \in BOOLEAN
      BY <2>3, ZenonT(40)
  <2>6. empties' \in 0 .. MaxEmpty /\ http' \in {0, 200, 400, 401, 404, 429, 500, 502, 503, 504}
      BY <2>3
  <2> HIDE DEF TypeOK, Statuses, HttpType
  <2> QED BY <2>1, <2>2, <2>4, <2>5, <2>6, TypeParts, ZenonT(40)
<1>5. ASSUME Fallback PROVE TypeOK'
  <2>1. ASSUME NEW u \in UpType
        PROVE  [u EXCEPT !.fallback = TRUE] \in UpType /\ [u EXCEPT !.fallback = TRUE].lines = u.lines
      BY ZenonT(40) DEF UpType
  <2>2. up' \in UpType /\ up'.lines <= MaxLines
      BY <1>5, <2>1, NewCallType, AnswerAssumption DEF Fallback, AnswerAssumption
  <2>3. seen' \in SeenType
      BY <1>5 DEF Fallback
  <2> QED BY <1>5, <2>2, <2>3 DEF Fallback
<1>6. ASSUME Refused PROVE TypeOK'
  <2>1. PICK x \in Refusals(req.prov) :
          Raise(x) /\ seen' = [seen EXCEPT !.rejected = @ + Rejects(x)]
      BY <1>6 DEF Refused
  <2>2. RespStatus(x) \in Statuses
      BY ProvKnown, RefusalStatus
  <2>3. seen' \in SeenType
    <3>1. Rejects(x) \in Nat
        BY DEF Rejects
    <3> QED BY <2>1, <3>1
  <2> QED BY <1>6, <2>1, <2>2, <2>3, RaiseType DEF Refused
<1>7. ASSUME Broken PROVE TypeOK'
  <2>1. PICK x \in Breaks(req.prov) :
          /\ Raise(x)
          /\ seen' = [seen EXCEPT !.rejected = @ + Rejects(x),
                                  !.restarted = @ \/ (pc' = "refresh" /\ http # 0)]
      BY <1>7 DEF Broken
  <2>2. RespStatus(x) \in Statuses
      BY ProvKnown, BreakStatus
  <2>3. seen' \in SeenType
    <3> DEFINE b == seen.restarted \/ (pc' = "refresh" /\ http # 0)
               n == seen.rejected + Rejects(x)
    <3>1. n \in Nat /\ b \in BOOLEAN
        BY DEF Rejects
    <3>2. seen' = [seen EXCEPT !.rejected = n, !.restarted = b]
        BY <2>1
    <3> HIDE DEF b, n
    <3> QED BY <3>1, <3>2
  <2> QED BY <1>7, <2>1, <2>2, <2>3, RaiseType DEF Broken
<1>8. ASSUME TakeLine PROVE TypeOK'
  <2>1. PICK l \in Lines : (l.tool = "args" => up.tools # <<>>) /\ up' = Absorb(up, l)
      BY <1>8 DEF TakeLine
  <2>2. up' \in UpType /\ up'.lines = up.lines + 1
      BY <2>1, LinesType, AbsorbType DEF HasTool
  <2>3. up'.lines <= MaxLines
    <3>1. up.lines \in Nat /\ up.lines < MaxLines
        BY <1>8, ZenonT(40) DEF TakeLine, UpType
    <3> QED BY <2>2, <3>1, AnswerAssumption DEF AnswerAssumption
  <2>4. released' \in BOOLEAN
      BY <1>8, ZenonT(40) DEF TakeLine
  <2> QED BY <1>8, <2>2, <2>3, <2>4 DEF TakeLine
<1>9. ASSUME Silence PROVE TypeOK'
  <2>1. ASSUME NEW r \in FinishReasons PROVE [up EXCEPT !.finish = r] \in UpType /\ [up EXCEPT !.finish = r].lines = up.lines
      BY ZenonT(40) DEF UpType
  <2> QED BY <1>9, <2>1 DEF Silence, FinishReasons
<1>10. ASSUME EndOfLines \/ Forward \/ Close \/ ClientGone PROVE TypeOK'
    BY <1>10, SMTT(30) DEF EndOfLines, Forward, Close, ClientGone
<1>11. ASSUME Done \/ Collected PROVE TypeOK'
  <2>1. CASE Raise(EmptyAnswer) /\ seen' = [seen EXCEPT !.empty = @ + 1] /\ released' = released
    <3>1. RespStatus(EmptyAnswer) \in Statuses
        BY OwnErrors
    <3>2. /\ pc' \in {"call", "refresh", "over"}
          /\ http' \in HttpType /\ refreshed' \in BOOLEAN /\ empties' \in 0 .. MaxEmpty
        BY <2>1, <3>1, RaiseType
    <3>3. seen' \in SeenType
        BY <2>1
    <3>4. req' = req /\ model' = model /\ up' = up
        BY <1>11 DEF Done, Collected
    <3> QED BY <2>1, <3>2, <3>3, <3>4
  <2>2. CASE Done /\ ~NothingMade
      BY <2>2 DEF Done
  <2>3. CASE Collected /\ ~IsEmpty(up)
      BY <2>3 DEF Collected
  <2>4. CASE Done
      BY <2>1, <2>2, <2>4, ZenonT(40) DEF Done
  <2>5. CASE Collected
      BY <2>1, <2>3, <2>5 DEF Collected
  <2> QED BY <1>11, <2>4, <2>5
<1>12. CASE UNCHANGED vars
    BY <1>12 DEF vars
<1> QED BY <1>1, <1>2, <1>3, <1>4, <1>5, <1>6, <1>7, <1>8, <1>9, <1>10, <1>11, <1>12 DEF Next

(* A raised error that leads to a retry finds the client with nothing, or  *)
(* with what an earlier break left it.                                     *)
LEMMA StepRetry ==
  ASSUME TypeOK, RetryInv, [Next]_vars
  PROVE  RetryInv'
<1> USE DEF RetryInv, Untouched, Early, Under
<1>0. seen \in SeenType
    BY DEF TypeOK
<1>1. ASSUME NEW x, Raise(x), Untouched, pc \in {"lines", "ending"}, seen'.restarted = seen.restarted,
             UNCHANGED <<req, up, released, queue>>
      PROVE  RetryInv'
  <2>1. CASE RetryEmpty(x) \/ RetryFresh(x)
      BY <1>1, <2>1 DEF RetryEmpty, RetryFresh
  <2>2. CASE GiveUp(x)
      BY <1>1, <2>2, FailEffect DEF GiveUp
  <2> QED BY <1>1, <2>1, <2>2, RaiseCases
<1>2. ASSUME NEW x, Fail(x), queue = <<>>, seen'.restarted = seen.restarted, UNCHANGED <<req, released, queue>>
      PROVE  RetryInv'
    BY <1>2, FailEffect
<1>3. CASE Check \/ Ensure \/ Refresh
  <2>0. Untouched /\ pc \in Early /\ UNCHANGED <<seen, req, released, queue>>
      BY <1>3 DEF Check, Ensure, Refresh
  <2>1. CASE Fail(ModelError) \/ Fail(NoHook)
      BY <1>2, <2>0, <2>1
  <2>2. CASE pc' \in {"ensure", "call"} /\ UNCHANGED <<Budgets, asm, http, json>>
      BY <2>0, <2>2 DEF Budgets
  <2> QED BY <1>3, <2>1, <2>2 DEF Check, Ensure, Refresh
<1>4. CASE CatalogueChanges \/ Call
  <2>1. seen'.restarted = seen.restarted
      BY <1>0, <1>4 DEF CatalogueChanges, Call, SeenType
  <2> QED BY <1>4, <2>1 DEF CatalogueChanges, Call, NewCall, Budgets
<1>5. CASE Fallback
  <2>1. seen'.restarted = seen.restarted
      BY <1>0, <1>5 DEF Fallback, SeenType
  <2> QED BY <1>5, <2>1 DEF Fallback, Budgets
<1>6. CASE Refused
  <2>1. PICK x \in Refusals(req.prov) : Raise(x) /\ seen' = [seen EXCEPT !.rejected = @ + Rejects(x)]
      BY <1>6 DEF Refused
  <2>2. seen'.restarted = seen.restarted
      BY <1>0, <2>1 DEF SeenType
  <2>3. Untouched /\ pc = "lines" /\ UNCHANGED <<req, up, released, queue>>
      BY <1>6 DEF Refused
  <2> QED BY <1>1, <2>1, <2>2, <2>3
<1>7. CASE Broken
  <2>1. PICK x \in Breaks(req.prov) :
          /\ Raise(x)
          /\ seen' = [seen EXCEPT !.rejected = @ + Rejects(x),
                                  !.restarted = @ \/ (pc' = "refresh" /\ http # 0)]
      BY <1>7 DEF Broken
  <2>2. seen'.restarted = (seen.restarted \/ (pc' = "refresh" /\ http # 0))
      BY <1>0, <2>1 DEF SeenType
  <2>3. pc = "lines" /\ queue = <<>> /\ UNCHANGED <<req, up, released, queue>>
      BY <1>7 DEF Broken
  <2>4. CASE GiveUp(x)
    <3>1. pc' = "over" /\ Fail(x)
        BY <2>4, FailEffect DEF GiveUp
    <3>2. seen'.restarted = seen.restarted
      <4>1. seen.restarted \in BOOLEAN
          BY <1>0 DEF SeenType
      <4>2. pc' # "refresh"
          BY <3>1
      <4> QED BY <2>2, <4>1, <4>2, Zenon
    <3> QED BY <1>2, <2>3, <3>1, <3>2
  <2>5. CASE RetryFresh(x)
    <3>1. /\ pc' = "refresh" /\ refreshed' = TRUE /\ UNCHANGED <<asm, http, json>>
          /\ seen'.restarted = (seen.restarted \/ http # 0)
        BY <2>2, <2>5 DEF RetryFresh
    <3>2. seen'.restarted => req.stream
      <4>1. http # 0 => released \/ seen.restarted
          BY <2>3
      <4> QED BY <3>1, <4>1
    <3>3. ~seen'.restarted => asm.ev = <<>> /\ http = 0
        BY <2>3, <3>1
    <3> QED BY <2>3, <3>1, <3>2, <3>3
  <2>6. CASE RetryEmpty(x)
      BY <2>6, ProvKnown, BreakStatus DEF RetryEmpty, TypeOK
  <2> QED BY <2>1, <2>4, <2>5, <2>6, RaiseCases
<1>8. CASE TakeLine
  <2>1. PICK l \in Lines : (l.tool = "args" => up.tools # <<>>) /\ up' = Absorb(up, l)
      BY <1>8 DEF TakeLine
  <2>2. up'.lines = up.lines + 1 /\ up.lines \in Nat
    <3>1. up \in UpType
        BY DEF TypeOK
    <3>2. HasTool(up, l) /\ l \in LineType
        BY <2>1, LinesType DEF HasTool
    <3>3. up.lines \in Nat
        BY <3>1 DEF UpType
    <3> QED BY <2>1, <3>1, <3>2, <3>3, AbsorbType
  <2>3. pc' = "lines" /\ UNCHANGED <<asm, http, seen, json, refreshed, req>>
      BY <1>8 DEF TakeLine, Budgets
  <2>4. (released' = TRUE /\ req.stream) \/ (released' = released /\ queue' = queue)
      BY <1>8 DEF TakeLine
  <2>5. pc = "lines"
      BY <1>8 DEF TakeLine
  <2> QED BY <2>2, <2>3, <2>4, <2>5
<1>9. CASE Silence \/ EndOfLines
    BY <1>9 DEF Silence, EndOfLines, Budgets
<1>10. CASE Done \/ Collected
  <2>0. seen'.restarted = seen.restarted
      BY <1>0, <1>10 DEF Done, Collected, SeenType
  <2>1. ASSUME Raise(EmptyAnswer), Untouched, pc = "ending", UNCHANGED <<req, up, released, queue>> PROVE RetryInv'
      BY <1>1, <2>0, <2>1
  <2>2. CASE Done /\ NothingMade
      BY <2>1, <2>2 DEF Done, NothingMade
  <2>3. CASE Done /\ ~NothingMade
      BY <2>0, <2>3 DEF Done, Budgets
  <2>4. CASE Collected /\ IsEmpty(up)
      BY <2>1, <2>4 DEF Collected
  <2>5. CASE Collected /\ ~IsEmpty(up)
      BY <2>0, <2>5 DEF Collected, Budgets
  <2> QED BY <1>10, <2>2, <2>3, <2>4, <2>5
<1>11. CASE Forward \/ Close \/ ClientGone
    BY <1>11 DEF Forward, Close, ClientGone, Budgets
<1>12. CASE UNCHANGED vars
    BY <1>12 DEF vars
<1> QED BY <1>3, <1>4, <1>5, <1>6, <1>7, <1>8, <1>9, <1>10, <1>11, <1>12 DEF Next

(* What the upstream produced stays produced: a 200 has an output behind   *)
(* it, or was billed.                                                      *)
LEMMA SpokenIsNotEmpty == ASSUME NEW u, Spoke(u) PROVE ~IsEmpty(u)
BY DEF Spoke, IsEmpty

LEMMA StepOutput ==
  ASSUME TypeOK, RetryInv, OutputInv, [Next]_vars
  PROVE  OutputInv'
<1> USE DEF OutputInv, NoFalseSuccess, Answered
<1>0. req.prov \in {"ta3", "custom", "wb"}
    BY ProvKnown DEF TypeOK
<1>1. ASSUME NEW x, Raise(x), x.cls # "done", pc # "over" PROVE OutputInv'
  <2>1. CASE RetryEmpty(x) \/ RetryFresh(x)
      BY <1>1, <2>1 DEF RetryEmpty, RetryFresh
  <2>2. CASE GiveUp(x)
    <3>1. pc' = "over" /\ log' = <<x.cls>>
        BY <1>1, <2>2, FailEffect DEF GiveUp
    <3>2. log' # <<"done">>
        BY <1>1, <3>1
    <3> QED BY <3>1, <3>2
  <2> QED BY <1>1, <2>1, <2>2, RaiseCases
<1>2. ASSUME pc \in Early, Check \/ Ensure \/ Refresh PROVE OutputInv'
  <2>1. ASSUME NEW x, Fail(x), x.cls # "done" PROVE OutputInv'
    <3>1. pc' = "over" /\ log' = <<x.cls>>
      <4>1. pc' = "over" /\ log' = Append(log, x.cls)
          BY <2>1, FailEffect
      <4>2. log = <<>>
          BY <1>2 DEF Early
      <4> QED BY <4>1, <4>2
    <3>2. log' # <<"done">>
        BY <2>1, <3>1
    <3> QED BY <3>1, <3>2
  <2>2. CASE pc' \in {"ensure", "call"} /\ UNCHANGED log
      BY <1>2, <2>2 DEF Early
  <2> QED BY <1>2, <2>1, <2>2, ErrorNames DEF Check, Ensure, Refresh
<1>3. CASE CatalogueChanges \/ Call \/ Fallback
    BY <1>3, NewCallType DEF CatalogueChanges, Call, Fallback, RetryInv
<1>4. CASE Refused
  <2>1. PICK x \in Refusals(req.prov) : Raise(x)
      BY <1>4 DEF Refused
  <2> QED BY <1>0, <1>1, <1>4, <2>1, ErrorNames DEF Refused
<1>5. CASE Broken
  <2>1. PICK x \in Breaks(req.prov) : Raise(x)
      BY <1>5 DEF Broken
  <2> QED BY <1>0, <1>1, <1>5, <2>1, ErrorNames DEF Broken
<1>6. CASE TakeLine
  <2>1. PICK l \in Lines : /\ l.tool = "args" => up.tools # <<>>
                           /\ up' = Absorb(up, l)
                           /\ released' => released \/ Pieces(l, up.lines + 1) # <<>>
      BY <1>6 DEF TakeLine
  <2>2. up \in UpType /\ HasTool(up, l) /\ l \in LineType
      BY <2>1, LinesType DEF TypeOK, HasTool
  <2>3. released' => Spoke(up')
      BY <1>6, <2>1, <2>2, AbsorbType DEF TakeLine, Spoke
  <2> QED BY <1>6, <2>3 DEF TakeLine, Spoke
<1>7. CASE Silence
  <2>1. \A r : [up EXCEPT !.finish = r].think = up.think /\ [up EXCEPT !.finish = r].text = up.text
      BY ZenonT(40) DEF TypeOK, UpType
  <2> QED BY <1>7, <2>1 DEF Silence
<1>8. CASE EndOfLines \/ Forward \/ Close \/ ClientGone
    BY <1>8 DEF EndOfLines, Forward, Close, ClientGone, RetryInv
<1>9. CASE Done
  <2>1. CASE NothingMade
      BY <1>1, <1>9, <2>1, ErrorNames DEF Done
  <2>2. CASE ~NothingMade
    <3>1. ~IsEmpty(up)
        BY <1>9, <2>2, SpokenIsNotEmpty DEF Done, NothingMade, Spoke
    <3> QED BY <1>9, <2>2, <3>1 DEF Done
  <2> QED BY <2>1, <2>2
<1>10. CASE Collected
  <2>1. CASE IsEmpty(up)
      BY <1>1, <1>10, <2>1, ErrorNames DEF Collected
  <2>2. CASE ~IsEmpty(up)
      BY <1>10, <2>2 DEF Collected
  <2> QED BY <2>1, <2>2
<1>11. CASE UNCHANGED vars
    BY <1>11 DEF vars
<1>12. Check \/ Ensure \/ Refresh => pc \in Early
    BY DEF Check, Ensure, Refresh, Early
<1> QED BY <1>2, <1>3, <1>4, <1>5, <1>6, <1>7, <1>8, <1>9, <1>10, <1>11, <1>12 DEF Next

-----------------------------------------------------------------------------
(* The ledger of the calls and the retries.                                *)

Ongoing == CountInv /\ pc \in Early \cup Under

(* A raised error is booked: as an empty answer, as a refusal with 401, or *)
(* as neither.                                                             *)
BookedEmpty(x) == x.cls = "empty" => ~IsUpstream401(x)
Booked(x) ==
    /\ seen'.calls = seen.calls
    /\ seen'.empty = (IF x.cls = "empty" THEN seen.empty + 1 ELSE seen.empty)
    /\ req.prov = "ta3" => /\ IsUpstream401(x) => seen'.rejected = seen.rejected + 1
                           /\ ~IsUpstream401(x) => seen'.rejected = seen.rejected /\ RespStatus(x) # 401

LEMMA RaiseCount ==
  ASSUME TypeOK, TypeOK', Ongoing, pc \in Under, NEW x, Raise(x), UNCHANGED <<req, up>>,
         RespStatus(x) \in Statuses, Booked(x), BookedEmpty(x)
  PROVE  CountInv'
<1> DEFINE more == IF refreshed THEN 1 ELSE 0
<1>1. /\ seen.calls \in Nat /\ seen.empty \in Nat /\ seen.rejected \in Nat
      /\ empties \in Nat /\ MaxEmpty \in Nat /\ empties <= MaxEmpty
    BY AnswerAssumption DEF TypeOK, SeenType, AnswerAssumption
<1>2. refreshed \in BOOLEAN /\ up.fallback \in BOOLEAN /\ req.stream \in BOOLEAN
  <2>1. up \in UpType /\ req \in Requests /\ refreshed \in BOOLEAN
      BY DEF TypeOK
  <2> QED BY <2>1, ProvKnown DEF UpType
<1>3. /\ seen.calls <= (IF up.fallback THEN Calls(Spent + 1) ELSE Calls(Spent) + 1)
      /\ up.fallback => Twice
      /\ req.stream => seen.empty = empties
      /\ ~req.stream => seen.empty \in empties .. (IF refreshed THEN empties + MaxEmpty ELSE empties)
      /\ req.prov = "ta3" => seen.rejected = more
      /\ log = <<>> /\ http \in {0, 200}
    BY DEF Ongoing, CountInv, Under
<1>4. seen.calls <= Calls(Spent + 1)
    BY <1>1, <1>2, <1>3 DEF Calls, Twice, Spent
<1>5. Twice' = Twice /\ Calls(Spent)' = (IF Twice THEN 2 * Spent' ELSE Spent')
    BY DEF Twice, Calls
<1>6. CASE RetryEmpty(x)
  <2>1. /\ Spent' = Spent + 1 /\ pc' = "call" /\ log' = <<>> /\ empties' = empties + 1
        /\ seen'.empty = seen.empty + 1 /\ refreshed' = refreshed /\ http' = http
        /\ req.prov = "ta3" => seen'.rejected = seen.rejected
      BY <1>1, <1>3, <1>6 DEF RetryEmpty, Spent, Booked, BookedEmpty
  <2>2. seen'.calls <= Calls(Spent)'
      BY <1>1, <1>4, <1>5, <2>1 DEF Booked, Calls
  <2>3. BudgetsApart'
      BY <1>1, <1>2, <1>3, <1>4, <2>1 DEF BudgetsApart, Booked, Calls, Twice, Spent, RetryEmpty
  <2> QED BY <1>1, <1>2, <1>3, <2>1, <2>2, <2>3 DEF CountInv, Early, Under
<1>7. CASE RetryFresh(x)
  <2>1. /\ Spent' = Spent + 1 /\ pc' = "refresh" /\ log' = <<>> /\ refreshed' = TRUE /\ ~refreshed
        /\ empties' = (IF req.stream THEN empties ELSE 0)
        /\ seen'.empty = seen.empty /\ http' = http
        /\ req.prov = "ta3" => seen'.rejected = seen.rejected + 1
      BY <1>1, <1>3, <1>7 DEF RetryFresh, Spent, Booked, BookedEmpty
  <2>2. seen'.calls <= Calls(Spent)'
      BY <1>1, <1>4, <1>5, <2>1 DEF Booked, Calls
  <2>3. BudgetsApart'
      BY <1>1, <1>2, <1>3, <1>4, <2>1 DEF BudgetsApart, Booked, Calls, Twice, Spent
  <2> QED BY <1>1, <1>2, <1>3, <2>1, <2>2, <2>3 DEF CountInv, Early, Under
<1>8. CASE GiveUp(x)
  <2>1. /\ pc' = "over" /\ log' = <<x.cls>> /\ refreshed' = refreshed /\ empties' = empties
      BY <1>3, <1>8, FailEffect DEF GiveUp
  <2>2. log' = <<"empty">> => x.cls = "empty"
      BY <2>1
  <2>3. x.cls = "empty" => empties = MaxEmpty
      BY <1>1, <1>8 DEF GiveUp
  <2>4. http' \in {200, RespStatus(x)}
      BY <1>3, <1>8, FailEffect DEF GiveUp
  <2>5. (http' = 401 /\ req.prov = "ta3") => IsUpstream401(x) /\ refreshed /\ seen'.rejected = seen.rejected + 1
      BY <1>8, <2>4 DEF GiveUp, Booked
  <2>6. BudgetsApart'
    <3>1. /\ seen'.calls = seen.calls /\ req' = req /\ pc' = "over"
          /\ seen'.empty = (IF x.cls = "empty" THEN seen.empty + 1 ELSE seen.empty)
        BY <2>1 DEF Booked
    <3>2. log' = <<"empty">> => IF req.stream THEN seen'.empty = MaxEmpty + 1
                                ELSE seen'.empty \in MaxEmpty + 1 .. 2 * MaxEmpty + 1
        BY <1>1, <1>2, <1>3, <2>2, <2>3, <3>1
    <3>3. (http' = 401 /\ req.prov = "ta3") => seen'.rejected = 2
        BY <1>3, <2>5
    <3>4. req.stream => seen'.calls <= MaxEmpty + 2
        BY <1>1, <1>2, <1>3, <1>4, <3>1 DEF Calls, Twice, Spent
    <3>5. ~req.stream => seen'.calls <= (IF req.prov = "custom" THEN 2 ELSE 1) * 2 * (MaxEmpty + 1)
      <4>1. ~req.stream => Spent + 1 <= 2 * (MaxEmpty + 1)
          BY <1>1, <1>2, <1>3 DEF Spent
      <4> QED BY <1>1, <1>2, <1>4, <3>1, <4>1 DEF Calls, Twice, Spent
    <3> QED BY <3>1, <3>2, <3>3, <3>4, <3>5 DEF BudgetsApart
  <2> QED BY <2>1, <2>6 DEF CountInv, Early, Under
<1> QED BY <1>6, <1>7, <1>8, RaiseCases

LEMMA StepCount ==
  ASSUME Inv, TypeOK', [Next]_vars
  PROVE  CountInv'
<1>1. /\ seen.calls \in Nat /\ seen.empty \in Nat /\ seen.rejected \in Nat
      /\ empties \in Nat /\ MaxEmpty \in Nat /\ empties <= MaxEmpty
      /\ refreshed \in BOOLEAN /\ up.fallback \in BOOLEAN /\ req.stream \in BOOLEAN
      /\ req.prov \in {"ta3", "custom", "wb"}
  <2>1. seen.calls \in Nat /\ seen.empty \in Nat /\ seen.rejected \in Nat
      BY DEF Inv, TypeOK, SeenType
  <2>2. empties \in Nat /\ MaxEmpty \in Nat /\ empties <= MaxEmpty
      BY AnswerAssumption DEF Inv, TypeOK, AnswerAssumption
  <2>3. up \in UpType /\ req \in Requests /\ refreshed \in BOOLEAN
      BY DEF Inv, TypeOK
  <2>4. up.fallback \in BOOLEAN
      BY <2>3 DEF UpType
  <2> QED BY <2>1, <2>2, <2>3, <2>4, ProvKnown
<1>2. TypeOK /\ RetryInv /\ CountInv
    BY DEF Inv
(* The end by an error that is no upstream's. *)
<1>3. ASSUME NEW x, Fail(x), pc \in Early, UNCHANGED <<req, up, seen>>,
             x.cls # "empty", RespStatus(x) \notin {200, 401}
      PROVE  CountInv'
  <2>1. pc' = "over" /\ log' = <<x.cls>> /\ refreshed' = refreshed /\ http' # 401
      BY <1>2, <1>3, FailEffect DEF CountInv
  <2> QED BY <1>2, <1>3, <2>1 DEF CountInv, BudgetsApart, Early, Under
<1>4. CASE Check \/ Ensure \/ Refresh
  <2>1. pc \in Early /\ UNCHANGED <<req, up, seen>>
      BY <1>4 DEF Check, Ensure, Refresh, Early
  <2>2. CASE Fail(ModelError)
      BY <1>3, <2>1, <2>2, ModelErrorStatus
  <2>3. CASE Fail(NoHook)
      BY <1>3, <2>1, <2>3, OwnErrors
  <2>4. CASE pc' \in {"ensure", "call"} /\ UNCHANGED <<Budgets, http, log>>
      BY <1>2, <2>1, <2>4 DEF CountInv, BudgetsApart, Early, Under, Calls, Spent, Twice, Budgets
  <2> QED BY <1>4, <2>2, <2>3, <2>4 DEF Check, Ensure, Refresh
<1>5. CASE CatalogueChanges
    BY <1>2, <1>5 DEF CatalogueChanges, CountInv, BudgetsApart, Early, Under, Calls, Spent, Twice, Budgets
<1>6. CASE Call
  <2>1. /\ pc \in Early /\ pc' = "lines" /\ ~up'.fallback /\ req' = req
        /\ seen'.calls = seen.calls + 1 /\ seen'.empty = seen.empty /\ seen'.rejected = seen.rejected
        /\ UNCHANGED <<refreshed, empties, http, log>>
      BY <1>2, <1>6 DEF Call, Early, NewCall, Budgets, TypeOK
  <2>2. seen.calls <= Calls(Spent)
      BY <1>2, <2>1 DEF CountInv
  <2>3. Calls(Spent)' = Calls(Spent)
      BY <2>1 DEF Calls, Spent, Twice
  <2>4. /\ req.stream => seen.empty = empties
        /\ ~req.stream => seen.empty \in empties .. (IF refreshed THEN empties + MaxEmpty ELSE empties)
        /\ req.prov = "ta3" => seen.rejected = (IF refreshed THEN 1 ELSE 0)
        /\ log = <<>> /\ http \in {0, 200}
      BY <1>2, <2>1 DEF CountInv
  <2>5. BudgetsApart'
      BY <1>1, <2>1, <2>2, <2>4 DEF BudgetsApart, Calls, Spent, Twice
  <2>6. seen'.calls <= Calls(Spent)' + 1
      BY <1>1, <2>1, <2>2, <2>3 DEF Calls, Spent
  <2> HIDE DEF Calls, Spent
  <2> QED BY <2>1, <2>4, <2>5, <2>6 DEF CountInv, Early, Under
<1>7. CASE Fallback
  <2>1. /\ pc = "lines" /\ pc' = "lines" /\ up'.fallback /\ ~up.fallback /\ Twice /\ req' = req
        /\ seen'.calls = seen.calls + 1 /\ seen'.empty = seen.empty /\ seen'.rejected = seen.rejected
        /\ UNCHANGED <<refreshed, empties, http, log>>
      BY <1>2, <1>7 DEF Fallback, NewCall, Budgets, TypeOK, AsksJson, Twice
  <2>2. seen.calls <= Calls(Spent) + 1
      BY <1>2, <2>1 DEF CountInv, Under
  <2>3. Calls(Spent + 1) = Calls(Spent) + 2 /\ Calls(Spent + 1)' = Calls(Spent + 1) /\ Twice'
      BY <1>1, <2>1 DEF Calls, Spent, Twice
  <2>4. /\ req.stream => seen.empty = empties
        /\ ~req.stream => seen.empty \in empties .. (IF refreshed THEN empties + MaxEmpty ELSE empties)
        /\ req.prov = "ta3" => seen.rejected = (IF refreshed THEN 1 ELSE 0)
        /\ log = <<>> /\ http \in {0, 200}
      BY <1>2, <2>1 DEF CountInv, Under
  <2>5. BudgetsApart'
      BY <1>1, <2>1, <2>2, <2>4 DEF BudgetsApart, Calls, Spent, Twice
  <2>6. seen'.calls <= Calls(Spent + 1)'
      BY <1>1, <2>1, <2>2, <2>3 DEF Calls, Spent
  <2> QED BY <1>1, <2>1, <2>3, <2>4, <2>5, <2>6 DEF CountInv, Early, Under
<1>8. CASE Refused
  <2>1. PICK x \in Refusals(req.prov) : Raise(x) /\ seen' = [seen EXCEPT !.rejected = @ + Rejects(x)]
      BY <1>8 DEF Refused
  <2>2. /\ RespStatus(x) \in Statuses /\ x.cls # "empty"
        /\ req.prov = "ta3" => (IsUpstream401(x) <=> x.status = 401) /\ RespStatus(x) = x.status
      BY <1>1, RefusalStatus
  <2>3. Booked(x) /\ BookedEmpty(x)
      BY <1>1, <1>2, <2>1, <2>2 DEF Booked, BookedEmpty, TypeOK, SeenType, Rejects
  <2>4. pc \in Under /\ UNCHANGED <<req, up>>
      BY <1>8 DEF Refused, Under
  <2> QED BY <1>2, <2>1, <2>2, <2>3, <2>4, RaiseCount DEF Ongoing
<1>9. CASE Broken
  <2>1. PICK x \in Breaks(req.prov) :
          /\ Raise(x)
          /\ seen' = [seen EXCEPT !.rejected = @ + Rejects(x),
                                  !.restarted = @ \/ (pc' = "refresh" /\ http # 0)]
      BY <1>9 DEF Broken
  <2>2. x.cls # "empty" /\ RespStatus(x) \in Statuses /\ RespStatus(x) # 401
      BY <1>1, BreakStatus
  <2>3. pc \in Under /\ UNCHANGED <<req, up>>
      BY <1>9 DEF Broken, Under
  <2>4. seen'.calls = seen.calls /\ seen'.empty = seen.empty /\ seen'.rejected = seen.rejected + Rejects(x)
      BY <1>2, <2>1 DEF TypeOK, SeenType
  <2>5. Booked(x) /\ BookedEmpty(x)
      BY <1>1, <2>2, <2>4 DEF Booked, BookedEmpty, Rejects
  <2> QED BY <1>2, <2>1, <2>2, <2>3, <2>5, RaiseCount DEF Ongoing
<1>10. ASSUME pc \in Under, pc' \in Under \cup Ended, pc' = "over" => http' # 401 /\ log' = <<"done">>,
              pc' # "over" => log' = log, up'.fallback = up.fallback, http' \in {http, 200},
              UNCHANGED <<req, Budgets, seen>>
       PROVE  CountInv'
  <2>1. log = <<>> /\ http \in {0, 200}
      BY <1>2, <1>10 DEF CountInv
  <2>2. log' # <<"empty">>
    <3>1. <<"done">> # <<"empty">> /\ <<>> # <<"empty">>
        OBVIOUS
    <3> QED BY <1>10, <2>1, <3>1, Zenon
  <2>3. BudgetsApart'
      BY <1>2, <1>10, <2>2 DEF CountInv, BudgetsApart, Budgets, Under, Ended
  <2>4. pc' \in Under => log' = <<>> /\ http' \in {0, 200}
      BY <1>10, <2>1 DEF Under
  <2> QED BY <1>2, <1>10, <2>3, <2>4 DEF CountInv, Early, Under, Ended, Calls, Spent, Twice, Budgets
<1>11. CASE TakeLine
  <2>1. PICK l \in Lines : (l.tool = "args" => up.tools # <<>>) /\ up' = Absorb(up, l)
      BY <1>11 DEF TakeLine
  <2>2. up \in UpType /\ HasTool(up, l) /\ l \in LineType
      BY <1>2, <2>1, LinesType DEF TypeOK, HasTool
  <2>3. up'.fallback = up.fallback
      BY <2>1, <2>2, AbsorbType
  <2> QED BY <1>10, <1>11, <2>3 DEF TakeLine, Under
<1>12. CASE Silence
  <2>1. \A r : [up EXCEPT !.finish = r].fallback = up.fallback
    <3>1. up \in UpType
        BY <1>2 DEF TypeOK
    <3> QED BY <3>1 DEF UpType
  <2> QED BY <1>10, <1>12, <2>1 DEF Silence, Under
<1>13. CASE EndOfLines \/ ClientGone
    BY <1>10, <1>13 DEF EndOfLines, ClientGone, Under, Ended
<1>14. CASE Close \/ (Collected /\ ~IsEmpty(up))
  <2>1. log = <<>> /\ http \in {0, 200}
      BY <1>2, <1>14 DEF CountInv, Close, Collected, Under
  <2> QED BY <1>10, <1>14, <2>1 DEF Close, Collected, Under, Ended
<1>15. CASE (Done /\ NothingMade) \/ (Collected /\ IsEmpty(up))
  <2>1. Raise(EmptyAnswer) /\ seen' = [seen EXCEPT !.empty = @ + 1] /\ UNCHANGED <<req, up>> /\ pc \in Under
      BY <1>15 DEF Done, Collected, Under
  <2>3. RespStatus(EmptyAnswer) \in Statuses /\ RespStatus(EmptyAnswer) # 401
      BY OwnErrors DEF Statuses
  <2>4. Booked(EmptyAnswer) /\ BookedEmpty(EmptyAnswer)
      BY <1>2, <2>1, <2>3, OwnErrors, EmptyIsNo401 DEF Booked, BookedEmpty, TypeOK, SeenType
  <2> QED BY <1>2, <2>1, <2>3, <2>4, RaiseCount DEF Ongoing
<1>16. CASE Done /\ ~NothingMade
    BY <1>10, <1>16 DEF Done, Under
<1>17. CASE Forward
  <2>1. CASE pc = "over"
      BY <1>2, <1>17, <2>1 DEF Forward, RetryInv
  <2>2. CASE pc \in Early
      BY <1>2, <1>17, <2>2 DEF Forward, RetryInv, Untouched
  <2>3. CASE pc = "gone"
      BY <1>2, <1>17, <2>3 DEF Forward, CountInv, BudgetsApart, Budgets, Early, Under
  <2>4. CASE pc \in Under
      BY <1>10, <1>17, <2>4 DEF Forward, Under
  <2> QED BY <1>2, <2>1, <2>2, <2>3, <2>4 DEF TypeOK, Early, Under
<1>18. CASE UNCHANGED vars
    BY <1>2, <1>18 DEF vars, CountInv, BudgetsApart, Early, Under, Calls, Spent, Twice, Budgets
<1> QED BY <1>4, <1>5, <1>6, <1>7, <1>8, <1>9, <1>11, <1>12, <1>13, <1>14, <1>15, <1>16, <1>17, <1>18
        DEF Next

-----------------------------------------------------------------------------
LEMMA Invariance == Spec => []Inv
<1>1. Init => Inv
    BY InitInv
<1>2. Inv /\ [Next]_vars => Inv'
  <2> SUFFICES ASSUME Inv, [Next]_vars PROVE Inv'
      OBVIOUS
  <2>1. TypeOK'
      BY StepType DEF Inv
  <2>2. RetryInv'
      BY StepRetry DEF Inv
  <2>3. OutputInv'
      BY StepOutput DEF Inv
  <2>4. CountInv'
      BY <2>1, StepCount
  <2> QED BY <2>1, <2>2, <2>3, <2>4 DEF Inv
<1> QED BY <1>1, <1>2, PTL DEF Spec

(* TypeOK: the request, the call under way and the budgets keep their      *)
(* types; the answer ends with one of the statuses of                      *)
(* _upstream_error_response.                                               *)
THEOREM AnswerTyping == Spec => []TypeOK
<1>1. Inv => TypeOK
    BY DEF Inv
<1> QED BY <1>1, Invariance, PTL

(* RetryUnread: however many retries there are, an empty answer is         *)
(* repeated, and a refusal refreshed, only while the client has no status  *)
(* and no byte, unless a break taken for a 401 made its stream begin       *)
(* again, which happens once and to streams alone.                         *)
THEOREM RetriesUnread == Spec => []RetryUnread
<1>1. Inv => RetryUnread
    BY DEF Inv, RetryInv, RetryUnread, Untouched, Early
<1> QED BY <1>1, Invariance, PTL

(* NoFalseSuccess: a 200 is not an answer without output and without cost. *)
THEOREM SuccessHasOutput == Spec => []NoFalseSuccess
<1>1. Inv => NoFalseSuccess
    BY DEF Inv, OutputInv
<1> QED BY <1>1, Invariance, PTL

(* BudgetsApart: the retries of empty answers and the refresh after a 401  *)
(* do not use up each other, for every MaxEmpty, and bound the calls.      *)
THEOREM RetriesBounded == Spec => []BudgetsApart
<1>1. Inv => BudgetsApart
    BY DEF Inv, CountInv
<1> QED BY <1>1, Invariance, PTL

-----------------------------------------------------------------------------
(* Kept: what is kept of a sequence.                                       *)

(* A set of numbers has a least one: the induction of this module.         *)
LEMMA LeastNumber ==
  ASSUME NEW T, T \subseteq Nat, T # {}
  PROVE  \E x \in T : \A y \in T : x <= y
<1>1. PICK x \in T : \A y \in T : ~(<<y, x>> \in OpToRel(<, Nat))
    BY NatLessThanWellFounded, WFMin, Zenon
<1>2. \A m \in Nat, n \in Nat : <<m, n>> \in Nat \X Nat /\ <<m, n>>[1] = m /\ <<m, n>>[2] = n
    OBVIOUS
<1>3. \A m \in Nat, n \in Nat : m < n => <<m, n>> \in OpToRel(<, Nat)
    BY <1>2, Zenon DEF OpToRel
<1>4. \A y \in T : ~(y < x)
    BY <1>1, <1>3, Zenon
<1> QED BY <1>4

(* A set of numbers with 0 and with the successor of each has them all.    *)
LEMMA SetInduction ==
  ASSUME NEW T, 0 \in T, \A n \in Nat : n \in T => n + 1 \in T
  PROVE  \A n \in Nat : n \in T
<1> SUFFICES ASSUME Nat \ T # {} PROVE FALSE
    OBVIOUS
<1>1. PICK x \in Nat \ T : \A y \in Nat \ T : x <= y
    BY LeastNumber
<1>2. x - 1 \in Nat
    BY <1>1
<1>3. x - 1 \in T
    BY <1>1, <1>2
<1> QED BY <1>2, <1>3

(* The function that Kept is the last value of exists.                     *)
KeptStep(s, K, g, i) == IF i = 0 THEN <<>> ELSE IF i \in K THEN Append(g[i - 1], s[i]) ELSE g[i - 1]
KeptIs(s, K, n, g) == g = [i \in 0 .. n |-> KeptStep(s, K, g, i)]

(* The recursive function of Kept exists.                                  *)
LEMMA KeptExists ==
  ASSUME NEW s, NEW K
  PROVE  \A n \in Nat : \E g : KeptIs(s, K, n, g)
<1> DEFINE T == {n \in Nat : \E g : KeptIs(s, K, n, g)}
<1>1. 0 \in T
  <2> DEFINE g == [i \in 0 .. 0 |-> <<>>]
  <2>1. KeptIs(s, K, 0, g)
      BY DEF KeptIs, KeptStep
  <2> QED BY <2>1
<1>2. ASSUME NEW n \in Nat, n \in T PROVE n + 1 \in T
  <2>1. PICK g : KeptIs(s, K, n, g)
      BY <1>2
  <2> DEFINE h == [i \in 0 .. n + 1 |-> KeptStep(s, K, g, i)]
  <2>2. \A i \in 0 .. n : g[i] = KeptStep(s, K, g, i)
      BY <2>1, Zenon DEF KeptIs
  <2>3. \A i \in 0 .. n : i \in 0 .. n + 1
      OBVIOUS
  <2>4. \A i \in 0 .. n : h[i] = g[i]
      BY <2>2, <2>3, Zenon
  <2>5. ASSUME NEW i \in 0 .. n + 1 PROVE KeptStep(s, K, h, i) = KeptStep(s, K, g, i)
    <3>1. CASE i = 0
        BY <3>1 DEF KeptStep
    <3>2. CASE i # 0
      <4>1. i - 1 \in 0 .. n
          BY <3>2
      <4>2. h[i - 1] = g[i - 1]
          BY <2>4, <4>1
      <4> HIDE DEF h
      <4> QED BY <4>2, Zenon DEF KeptStep
    <3> QED BY <3>1, <3>2
  <2>6. h = [i \in 0 .. n + 1 |-> KeptStep(s, K, h, i)]
      BY <2>5, Zenon
  <2>7. KeptIs(s, K, n + 1, h)
      BY <2>6 DEF KeptIs
  <2> QED BY <2>7
<1> HIDE DEF T
<1>3. \A n \in Nat : n \in T
    BY <1>1, <1>2, SetInduction
<1> QED BY <1>3 DEF T

(* The values of that function.                                            *)
KeptTo(s, K) == CHOOSE g : KeptIs(s, K, Len(s), g)

(* Kept is the last value of that function.                                *)
LEMMA KeptValues ==
  ASSUME NEW s, Len(s) \in Nat, NEW K
  PROVE  /\ Kept(s, K) = KeptTo(s, K)[Len(s)]
         /\ KeptIs(s, K, Len(s), KeptTo(s, K))
<1>2. KeptIs(s, K, Len(s), KeptTo(s, K))
    BY KeptExists, Zenon DEF KeptTo
<1>3. Kept(s, K) = KeptTo(s, K)[Len(s)]
    BY Zenon DEF Kept, KeptTo, KeptIs, KeptStep
<1> QED BY <1>2, <1>3

(* That function, element by element.                                      *)
LEMMA KeptNext ==
  ASSUME NEW s, Len(s) \in Nat, NEW K
  PROVE  /\ KeptTo(s, K)[0] = <<>>
         /\ \A i \in 1 .. Len(s) : KeptTo(s, K)[i] = IF i \in K THEN Append(KeptTo(s, K)[i - 1], s[i])
                                                     ELSE KeptTo(s, K)[i - 1]
<1> DEFINE g == KeptTo(s, K)
<1>1. g = [i \in 0 .. Len(s) |-> KeptStep(s, K, g, i)]
    BY KeptValues, Zenon DEF KeptIs
<1>2. 0 \in 0 .. Len(s) /\ \A i \in 1 .. Len(s) : i \in 0 .. Len(s) /\ i # 0
    OBVIOUS
<1> HIDE DEF g
<1>3. \A i \in 0 .. Len(s) : g[i] = KeptStep(s, K, g, i)
    BY <1>1, Zenon
<1>4. g[0] = <<>>
    BY <1>2, <1>3, Zenon DEF KeptStep
<1>5. \A i \in 1 .. Len(s) : g[i] = IF i \in K THEN Append(g[i - 1], s[i]) ELSE g[i - 1]
    BY <1>2, <1>3, Zenon DEF KeptStep
<1> QED BY <1>4, <1>5 DEF g

(* What is kept of the first n elements depends on these alone.            *)
LEMMA KeptSame ==
  ASSUME NEW s, NEW t, Len(s) \in Nat, Len(t) \in Nat, NEW K, NEW L, NEW n \in Nat,
         n <= Len(s), n <= Len(t), \A i \in 1 .. n : s[i] = t[i] /\ (i \in K <=> i \in L)
  PROVE  KeptTo(s, K)[n] = KeptTo(t, L)[n]
<1> DEFINE T == {m \in Nat : m <= n => KeptTo(s, K)[m] = KeptTo(t, L)[m]}
<1>1. 0 \in T
    BY KeptNext
<1>2. ASSUME NEW m \in Nat, m \in T PROVE m + 1 \in T
  <2> SUFFICES ASSUME m + 1 <= n PROVE KeptTo(s, K)[m + 1] = KeptTo(t, L)[m + 1]
      OBVIOUS
  <2>1. m + 1 \in 1 .. n /\ m + 1 \in 1 .. Len(s) /\ m + 1 \in 1 .. Len(t) /\ (m + 1) - 1 = m
      OBVIOUS
  <2>2. KeptTo(s, K)[m] = KeptTo(t, L)[m]
      BY <1>2
  <2>3. KeptTo(s, K)[m + 1] = IF m + 1 \in K THEN Append(KeptTo(s, K)[m], s[m + 1]) ELSE KeptTo(s, K)[m]
      BY <2>1, KeptNext
  <2>4. KeptTo(t, L)[m + 1] = IF m + 1 \in L THEN Append(KeptTo(t, L)[m], t[m + 1]) ELSE KeptTo(t, L)[m]
      BY <2>1, KeptNext
  <2>5. s[m + 1] = t[m + 1] /\ (m + 1 \in K <=> m + 1 \in L)
      BY <2>1
  <2> QED BY <2>2, <2>3, <2>4, <2>5, Zenon
<1> HIDE DEF T
<1>3. n \in T
    BY <1>1, <1>2, SetInduction
<1> QED BY <1>3 DEF T

(* What is kept of a sequence over S is a sequence over S.                 *)
LEMMA KeptIn ==
  ASSUME NEW S, NEW s \in Seq(S), NEW K
  PROVE  \A n \in 0 .. Len(s) : KeptTo(s, K)[n] \in Seq(S)
<1> DEFINE T == {m \in Nat : m <= Len(s) => KeptTo(s, K)[m] \in Seq(S)}
<1>1. 0 \in T
  <2>1. <<>> \in Seq(S) /\ Len(s) \in Nat
      OBVIOUS
  <2>2. KeptTo(s, K)[0] = <<>>
      BY <2>1, KeptNext
  <2> QED BY <2>1, <2>2
<1>2. ASSUME NEW m \in Nat, m \in T PROVE m + 1 \in T
  <2> SUFFICES ASSUME m + 1 <= Len(s) PROVE KeptTo(s, K)[m + 1] \in Seq(S)
      OBVIOUS
  <2>1. m + 1 \in 1 .. Len(s) /\ (m + 1) - 1 = m
      OBVIOUS
  <2>2. KeptTo(s, K)[m] \in Seq(S)
      BY <1>2
  <2>3. KeptTo(s, K)[m + 1] = IF m + 1 \in K THEN Append(KeptTo(s, K)[m], s[m + 1]) ELSE KeptTo(s, K)[m]
      BY <2>1, KeptNext
  <2>4. s[m + 1] \in S
      BY <2>1
  <2>5. Append(KeptTo(s, K)[m], s[m + 1]) \in Seq(S)
      BY <2>2, <2>4, AppendProperties
  <2> QED BY <2>2, <2>3, <2>5, Zenon
<1> HIDE DEF T
<1>3. \A n \in Nat : n \in T
    BY <1>1, <1>2, SetInduction
<1> QED BY <1>3 DEF T

(* Kept, from the back and from the front.                                 *)
LEMMA KeptEmpty == ASSUME NEW K PROVE Kept(<<>>, K) = <<>>
<1> DEFINE s == <<>>
<1>1. Len(s) = 0 /\ Len(s) \in Nat
    OBVIOUS
<1> HIDE DEF s
<1>2. KeptTo(s, K)[0] = <<>> /\ Kept(s, K) = KeptTo(s, K)[Len(s)]
    BY <1>1, KeptValues, KeptNext
<1> QED BY <1>1, <1>2 DEF s

(* An element added at the back is kept last, or not at all.               *)
LEMMA KeptAppend ==
  ASSUME NEW S, NEW s \in Seq(S), NEW x \in S, NEW K, NEW L,
         \A i \in 1 .. Len(s) : i \in K <=> i \in L
  PROVE  /\ Len(s) + 1 \in L => Kept(Append(s, x), L) = Append(Kept(s, K), x)
         /\ Len(s) + 1 \notin L => Kept(Append(s, x), L) = Kept(s, K)
<1> DEFINE t == Append(s, x)
           n == Len(s)
<1>1. /\ t \in Seq(S) /\ Len(t) = n + 1 /\ n \in Nat /\ n + 1 \in 1 .. Len(t) /\ (n + 1) - 1 = n
      /\ t[n + 1] = x /\ \A i \in 1 .. n : s[i] = t[i]
    BY AppendProperties
<1> HIDE DEF t
<1>2. KeptTo(s, K)[n] = KeptTo(t, L)[n]
  <2>1. n <= Len(s) /\ n <= Len(t) /\ \A i \in 1 .. n : s[i] = t[i] /\ (i \in K <=> i \in L)
      BY <1>1
  <2> HIDE DEF n
  <2>2. n \in Nat /\ Len(s) \in Nat /\ Len(t) \in Nat
      BY <1>1
  <2> QED BY <2>1, <2>2, KeptSame
<1>3. KeptTo(t, L)[n + 1] = IF n + 1 \in L THEN Append(KeptTo(t, L)[n], t[n + 1]) ELSE KeptTo(t, L)[n]
    BY <1>1, KeptNext
<1>4. Kept(s, K) = KeptTo(s, K)[n] /\ Kept(t, L) = KeptTo(t, L)[n + 1]
    BY <1>1, KeptValues
<1> QED BY <1>1, <1>2, <1>3, <1>4 DEF t

(* From the front: an element that is not kept may be taken away, one that *)
(* is kept comes first.                                                    *)
LEMMA AppendTail ==
  ASSUME NEW S, NEW u \in Seq(S), u # <<>>, NEW x \in S
  PROVE  Append(u, x) # <<>> /\ Head(Append(u, x)) = Head(u) /\ Tail(Append(u, x)) = Append(Tail(u), x)
OBVIOUS

Shifted(s, K, L) == \A i \in 1 .. Len(s) - 1 : i + 1 \in K <=> i \in L

(* An element kept at the front comes first.                               *)
LEMMA KeptHead ==
  ASSUME NEW S, NEW s \in Seq(S), s # <<>>, NEW K, NEW L, Shifted(s, K, L), 1 \in K
  PROVE  /\ Kept(s, K) \in Seq(S) /\ Kept(s, K) # <<>>
         /\ Head(Kept(s, K)) = Head(s) /\ Tail(Kept(s, K)) = Kept(Tail(s), L)
<1> DEFINE t == Tail(s)
           F(m) == KeptTo(s, K)[m + 1]
           G(m) == KeptTo(t, L)[m]
           T == {m \in Nat : m <= Len(t) => F(m) \in Seq(S) /\ F(m) # <<>> /\ Head(F(m)) = s[1] /\ Tail(F(m)) = G(m)}
<1>1. /\ t \in Seq(S) /\ Len(t) = Len(s) - 1 /\ Len(t) \in Nat /\ Len(s) \in Nat /\ 1 \in 1 .. Len(s)
      /\ \A i \in 1 .. Len(t) : t[i] = s[i + 1]
      /\ Head(s) = s[1] /\ s[1] \in S
    BY HeadTailProperties, EmptySeq
<1> HIDE DEF t
<1>2. 0 \in T
  <2>1. KeptTo(s, K)[1] = Append(KeptTo(s, K)[1 - 1], s[1])
      BY <1>1, KeptNext, ZenonT(40)
  <2>2. KeptTo(s, K)[1 - 1] = <<>> /\ KeptTo(t, L)[0] = <<>>
      BY <1>1, KeptNext
  <2>3. KeptTo(s, K)[1] = <<s[1]>>
      BY <2>1, <2>2
  <2>4. <<s[1]>> \in Seq(S) /\ <<s[1]>> # <<>> /\ Head(<<s[1]>>) = s[1] /\ Tail(<<s[1]>>) = <<>>
      BY <1>1
  <2>5. F(0) = <<s[1]>> /\ G(0) = <<>>
      BY <2>2, <2>3
  <2> HIDE DEF F, G
  <2> QED BY <2>4, <2>5
<1>3. ASSUME NEW m \in Nat, m \in T PROVE m + 1 \in T
  <2> SUFFICES ASSUME m + 1 <= Len(t)
               PROVE  F(m + 1) \in Seq(S) /\ F(m + 1) # <<>> /\ Head(F(m + 1)) = s[1] /\ Tail(F(m + 1)) = G(m + 1)
      OBVIOUS
  <2>1. /\ m + 1 \in 1 .. Len(t) /\ (m + 1) - 1 = m /\ m \in 0 .. Len(t)
        /\ m + 2 \in 1 .. Len(s) /\ (m + 2) - 1 = m + 1 /\ (m + 1) + 1 = m + 2 /\ m + 1 \in 1 .. Len(s) - 1
      BY <1>1
  <2>2. F(m) \in Seq(S) /\ F(m) # <<>> /\ Head(F(m)) = s[1] /\ Tail(F(m)) = G(m)
      BY <1>3, <2>1
  <2>3. t[m + 1] = s[m + 2] /\ (m + 2 \in K <=> m + 1 \in L) /\ s[m + 2] \in S
      BY <1>1, <2>1 DEF Shifted
  <2>4. F(m + 1) = IF m + 2 \in K THEN Append(F(m), s[m + 2]) ELSE F(m)
    <3>1. KeptTo(s, K)[m + 2] = IF m + 2 \in K THEN Append(KeptTo(s, K)[m + 1], s[m + 2]) ELSE KeptTo(s, K)[m + 1]
        BY <2>1, KeptNext
    <3> QED BY <2>1, <3>1
  <2>5. G(m + 1) = IF m + 1 \in L THEN Append(G(m), t[m + 1]) ELSE G(m)
      BY <1>1, <2>1, KeptNext
  <2> HIDE DEF F, G
  <2>6. /\ Append(F(m), s[m + 2]) \in Seq(S)
        /\ Append(F(m), s[m + 2]) # <<>> /\ Head(Append(F(m), s[m + 2])) = Head(F(m))
        /\ Tail(Append(F(m), s[m + 2])) = Append(Tail(F(m)), s[m + 2])
      BY <2>2, <2>3, AppendTail, AppendProperties, SMTT(30)
  <2> QED BY <2>2, <2>3, <2>4, <2>5, <2>6, Zenon
<1>4. Len(t) \in T
  <2> HIDE DEF T
  <2> QED BY <1>1, <1>2, <1>3, SetInduction
<1>5. F(Len(t)) \in Seq(S) /\ F(Len(t)) # <<>> /\ Head(F(Len(t))) = s[1] /\ Tail(F(Len(t))) = G(Len(t))
    BY <1>1, <1>4
<1>6. Kept(s, K) = F(Len(t)) /\ Kept(t, L) = G(Len(t))
    BY <1>1, KeptValues
<1> QED BY <1>1, <1>5, <1>6, Zenon DEF t

(* An element that is not kept at the front may go.                        *)
LEMMA KeptSkip ==
  ASSUME NEW S, NEW s \in Seq(S), s # <<>>, NEW K, NEW L, Shifted(s, K, L), 1 \notin K
  PROVE  Kept(s, K) = Kept(Tail(s), L)
<1> DEFINE t == Tail(s)
           F(m) == KeptTo(s, K)[m + 1]
           G(m) == KeptTo(t, L)[m]
           T == {m \in Nat : m <= Len(t) => F(m) = G(m)}
<1>1. /\ t \in Seq(S) /\ Len(t) = Len(s) - 1 /\ Len(t) \in Nat /\ Len(s) \in Nat /\ 1 \in 1 .. Len(s)
      /\ \A i \in 1 .. Len(t) : t[i] = s[i + 1]
    BY HeadTailProperties, EmptySeq
<1> HIDE DEF t
<1>2. 0 \in T
  <2>1. KeptTo(s, K)[1] = KeptTo(s, K)[1 - 1]
      BY <1>1, KeptNext
  <2>2. KeptTo(s, K)[1 - 1] = <<>> /\ KeptTo(t, L)[0] = <<>>
      BY <1>1, KeptNext
  <2> QED BY <2>1, <2>2
<1>3. ASSUME NEW m \in Nat, m \in T PROVE m + 1 \in T
  <2> SUFFICES ASSUME m + 1 <= Len(t) PROVE F(m + 1) = G(m + 1)
      OBVIOUS
  <2>1. /\ m + 1 \in 1 .. Len(t) /\ (m + 1) - 1 = m /\ m \in 0 .. Len(t)
        /\ m + 2 \in 1 .. Len(s) /\ (m + 2) - 1 = m + 1 /\ (m + 1) + 1 = m + 2 /\ m + 1 \in 1 .. Len(s) - 1
      BY <1>1
  <2>2. F(m) = G(m)
      BY <1>3, <2>1
  <2>3. t[m + 1] = s[m + 2] /\ (m + 2 \in K <=> m + 1 \in L)
      BY <1>1, <2>1 DEF Shifted
  <2>4. F(m + 1) = IF m + 2 \in K THEN Append(F(m), s[m + 2]) ELSE F(m)
    <3>1. KeptTo(s, K)[m + 2] = IF m + 2 \in K THEN Append(KeptTo(s, K)[m + 1], s[m + 2]) ELSE KeptTo(s, K)[m + 1]
        BY <2>1, KeptNext
    <3> QED BY <2>1, <3>1
  <2>5. G(m + 1) = IF m + 1 \in L THEN Append(G(m), t[m + 1]) ELSE G(m)
      BY <1>1, <2>1, KeptNext
  <2> HIDE DEF F, G
  <2> QED BY <2>2, <2>3, <2>4, <2>5, Zenon
<1>4. Len(t) \in T
  <2> HIDE DEF T
  <2> QED BY <1>1, <1>2, <1>3, SetInduction
<1>5. Kept(s, K) = F(Len(t)) /\ Kept(t, L) = G(Len(t))
    BY <1>1, KeptValues
<1> QED BY <1>1, <1>4, <1>5 DEF t

-----------------------------------------------------------------------------
(* The assembler and the events it has emitted.                            *)

EventNames == {"start", "open", "delta", "close", "completed", "failed",
               "role", "think", "text", "tool", "finish", "usage", "DONE", "error"}
EndNames  == {"completed", "incomplete", "end_turn", "max_tokens", "tool_use"}
DataType  == Int \cup {"think", "text", "tool"} \cup FinishReasons \cup Seq(Nat) \cup ToolType
EvType    == [e : EventNames, i : Nat \cup EndNames, d : DataType]
BlockType == [kind : {"think", "text", "tool"}, buf : Seq(Nat) \cup ToolType, open : BOOLEAN]
AsmType   == [started : BOOLEAN, over : {"", "completed", "failed"}, blocks : Seq(BlockType),
              think : Nat, text : Nat, finish : FinishReasons \cup {""}, usage : {-1, 0, 1}, ev : Seq(EvType)]

(* An event that is added leaves the counts of those before it alone.      *)
Hits(s, e, i, n) == {j \in 1 .. n : s[j].e = e /\ s[j].i = i}

(* Times counts a finite set.                                              *)
LEMMA TimesFinite ==
  ASSUME NEW s, NEW e, NEW i, NEW n \in Nat
  PROVE  /\ IsFiniteSet(Hits(s, e, i, n)) /\ Times(s, e, i, n) = Cardinality(Hits(s, e, i, n))
         /\ Times(s, e, i, n) \in Nat
<1>1. IsFiniteSet(1 .. n)
    BY FS_Interval
<1>2. IsFiniteSet(Hits(s, e, i, n))
    BY <1>1, FS_Subset DEF Hits
<1>3. Times(s, e, i, n) = Cardinality(Hits(s, e, i, n))
    BY DEF Hits, Times
<1> QED BY <1>2, <1>3, FS_CardinalityType

(* Counts of the events before are as they were.                           *)
LEMMA TimesBefore ==
  ASSUME NEW ev \in Seq(EvType), NEW x \in EvType, NEW e, NEW i, NEW n \in 0 .. Len(ev)
  PROVE  Times(Append(ev, x), e, i, n) = Times(ev, e, i, n)
<1> DEFINE w == Append(ev, x)
<1>1. \A j \in 1 .. n : w[j] = ev[j]
    BY AppendProperties
<1> HIDE DEF w
<1>2. {j \in 1 .. n : w[j].e = e /\ w[j].i = i} = {j \in 1 .. n : ev[j].e = e /\ ev[j].i = i}
    BY <1>1
<1>3. Times(w, e, i, n) = Times(ev, e, i, n)
    BY <1>2, Zenon DEF Times
<1> QED BY <1>3 DEF w

(* The event itself counts once.                                           *)
LEMMA TimesNow ==
  ASSUME NEW ev \in Seq(EvType), NEW x \in EvType, NEW e, NEW i
  PROVE  /\ x.e = e /\ x.i = i => Times(Append(ev, x), e, i, Len(ev) + 1) = Times(ev, e, i, Len(ev)) + 1
         /\ x.e # e \/ x.i # i => Times(Append(ev, x), e, i, Len(ev) + 1) = Times(ev, e, i, Len(ev))
<1> DEFINE w == Append(ev, x)
           n == Len(ev)
<1>1. n \in Nat /\ w[n + 1] = x /\ \A j \in 1 .. n : w[j] = ev[j]
    BY AppendProperties
<1> HIDE DEF w, n
<1>2. CASE x.e = e /\ x.i = i
  <2>1. Hits(w, e, i, n + 1) = Hits(ev, e, i, n) \cup {n + 1} /\ n + 1 \notin Hits(ev, e, i, n)
      BY <1>1, <1>2 DEF Hits
  <2>2. Cardinality(Hits(w, e, i, n + 1)) = Cardinality(Hits(ev, e, i, n)) + 1
      BY <1>1, <2>1, TimesFinite, FS_AddElement
  <2> QED BY <1>1, <1>2, <2>2, TimesFinite DEF w, n
<1>3. CASE ~(x.e = e /\ x.i = i)
  <2>1. Hits(w, e, i, n + 1) = Hits(ev, e, i, n)
      BY <1>1, <1>3 DEF Hits
  <2> QED BY <1>1, <1>3, <2>1, TimesFinite DEF w, n
<1> QED BY <1>2, <1>3

-----------------------------------------------------------------------------
(* The events of an assembler, well formed.                                *)

Items3 == {"open", "delta", "close"}
Last2  == {"completed", "failed"}

AllClosed(a) == \A i \in DOMAIN a.blocks : ~a.blocks[i].open

(* WellBracketed, of one event.                                            *)
Fits(ev, k, strict) ==
    /\ ev[k].e = "start" <=> (k = 1 /\ ev[k].e # "completed")
    /\ ev[k].e = "open" => /\ ~OpenAt(ev, ev[k].i, k - 1)
                           /\ \A i \in 1 .. ev[k].i - 1 : Times(ev, "open", i, k - 1) > 0
    /\ ev[k].e = "close" => OpenAt(ev, ev[k].i, k - 1)
    /\ (ev[k].e = "delta" /\ strict) => OpenAt(ev, ev[k].i, k - 1)

(* The reasoning and the text have one item each, the others are calls.    *)
Shape(a) ==
    /\ a.think \in 0 .. Len(a.blocks) /\ a.text \in 0 .. Len(a.blocks)
    /\ a.think # 0 => a.blocks[a.think].kind = "think" 
    /\ a.text # 0 => a.blocks[a.text].kind = "text"
    /\ \A i \in DOMAIN a.blocks : /\ a.blocks[i].kind = "think" => i = a.think
                                  /\ a.blocks[i].kind = "text" => i = a.text
                                  /\ a.blocks[i].kind # "tool" => a.blocks[i].buf \in Seq(Nat)
    /\ a.started => a.ev # <<>>
    /\ ~a.started => a.blocks = <<>> /\ (a.over = "" => a.ev = <<>>)

(* The client knows of each item, and whether it is open.                  *)
Known(a) ==
    /\ \A k \in DOMAIN a.ev : a.ev[k].e \in Items3 => a.ev[k].i \in DOMAIN a.blocks
    /\ \A i \in DOMAIN a.blocks :
         /\ Times(a.ev, "open", i, Len(a.ev)) > 0
         /\ Times(a.ev, "open", i, Len(a.ev))
              = Times(a.ev, "close", i, Len(a.ev)) + (IF a.blocks[i].open THEN 1 ELSE 0)

(* One event concludes the stream.                                         *)
Concluded(a) ==
    /\ \A k \in DOMAIN a.ev : a.ev[k].e \in Last2 => k = Len(a.ev) /\ a.over = a.ev[k].e
    /\ a.over # "" => a.ev # <<>> /\ a.ev[Len(a.ev)].e = a.over
    /\ a.over = "completed" => AllClosed(a)

AllFit(ev, strict) == \A k \in DOMAIN ev : Fits(ev, k, strict)

Good(a, strict) == a \in AsmType /\ Shape(a) /\ Known(a) /\ Concluded(a) /\ AllFit(a.ev, strict)

(* An event that fits may be added.                                        *)
LEMMA FitsAppend ==
  ASSUME NEW ev \in Seq(EvType), NEW x \in EvType, NEW s, AllFit(ev, s),
         Fits(Append(ev, x), Len(ev) + 1, s)
  PROVE  AllFit(Append(ev, x), s)
<1> DEFINE w == Append(ev, x)
<1>1. /\ Len(ev) \in Nat /\ Len(w) = Len(ev) + 1 /\ DOMAIN w = 1 .. Len(ev) + 1 /\ DOMAIN ev = 1 .. Len(ev)
      /\ \A j \in 1 .. Len(ev) : w[j] = ev[j]
    BY AppendProperties
<1>2. ASSUME NEW e, NEW i PROVE \A n \in 0 .. Len(ev) : Times(w, e, i, n) = Times(ev, e, i, n)
    BY TimesBefore
<1> HIDE DEF w
<1>3. ASSUME NEW k \in 1 .. Len(ev) PROVE Fits(w, k, s)
  <2>1. w[k] = ev[k] /\ k - 1 \in 0 .. Len(ev) /\ Fits(ev, k, s)
      BY <1>1 DEF AllFit
  <2>2. \A i : OpenAt(w, i, k - 1) = OpenAt(ev, i, k - 1)
      BY <1>2, <2>1 DEF OpenAt
  <2>3. \A i : Times(w, "open", i, k - 1) = Times(ev, "open", i, k - 1)
      BY <1>2, <2>1
  <2> QED BY <2>1, <2>2, <2>3 DEF Fits
<1>4. Fits(w, Len(ev) + 1, s)
    BY DEF w
<1> QED BY <1>1, <1>3, <1>4 DEF AllFit, w

(* How often an item that does not exist was told of.                      *)
LEMMA Unknown ==
  ASSUME NEW a \in AsmType, Known(a), NEW i, i \notin DOMAIN a.blocks
  PROVE  \A n \in 0 .. Len(a.ev) : Times(a.ev, "open", i, n) = 0 /\ Times(a.ev, "close", i, n) = 0
<1>0. a.ev \in Seq(EvType)
    BY DEF AsmType
<1>1. DOMAIN a.ev = 1 .. Len(a.ev) /\ Len(a.ev) \in Nat
    BY <1>0
<1> TAKE n \in 0 .. Len(a.ev)
<1>2. \A e \in {"open", "close"} : {j \in 1 .. n : a.ev[j].e = e /\ a.ev[j].i = i} = {}
  <2> SUFFICES ASSUME NEW e \in {"open", "close"}, NEW j \in 1 .. n, a.ev[j].e = e PROVE a.ev[j].i # i
      OBVIOUS
  <2>1. j \in DOMAIN a.ev
      BY <1>1
  <2>2. a.ev[j].i \in DOMAIN a.blocks
      BY <2>1, Zenon DEF Known, Items3
  <2> QED BY <2>2
<1> QED BY <1>2, FS_EmptySet DEF Times

IsOpenNow(a, i) == i \in DOMAIN a.blocks /\ a.blocks[i].open

(* The stream goes on: it has begun, or it has not even begun.             *)
Live(a, s)    == Good(a, s) /\ a.over = ""
Running(a, s) == Live(a, s) /\ a.started
Emits(a, b, x) == b.ev = Append(a.ev, x) /\ b.over = a.over

(* An event about an item fits if the item is in the state it speaks of.   *)
Timely(a, x, s) ==
    /\ x.e \in Items3 /\ x.i \in 1 .. Len(a.blocks) + 1
    /\ x.e = "open" => ~IsOpenNow(a, x.i)
    /\ x.e = "close" => IsOpenNow(a, x.i)
    /\ (x.e = "delta" /\ s) => IsOpenNow(a, x.i)

(* An event told of an item in time fits the events before it.             *)
LEMMA FitsItem ==
  ASSUME NEW a, NEW x \in EvType, NEW s, Running(a, s), Timely(a, x, s)
  PROVE  Fits(Append(a.ev, x), Len(a.ev) + 1, s)
<1> DEFINE w == Append(a.ev, x)
           n == Len(a.ev)
<1>1. a.ev \in Seq(EvType) /\ a.blocks \in Seq(BlockType) /\ a \in AsmType
    BY DEF Running, Live, Good, AsmType
<1>2. /\ n \in Nat /\ n # 0 /\ n \in 0 .. n /\ w[n + 1] = x /\ (n + 1) - 1 = n /\ Len(a.blocks) \in Nat
      /\ DOMAIN a.blocks = 1 .. Len(a.blocks)
  <2>1. a.ev # <<>>
      BY DEF Running, Live, Good, Shape
  <2> QED BY <1>1, <2>1, AppendProperties, EmptySeq
<1>3. ASSUME NEW e, NEW i PROVE Times(w, e, i, n) = Times(a.ev, e, i, n)
    BY <1>1, <1>2, TimesBefore
<1>4. ASSUME NEW i PROVE OpenAt(w, i, n) <=> IsOpenNow(a, i)
  <2>1. OpenAt(w, i, n) <=> Times(a.ev, "open", i, n) = Times(a.ev, "close", i, n) + 1
      BY <1>3 DEF OpenAt
  <2>2. CASE i \in DOMAIN a.blocks
    <3>1. Times(a.ev, "open", i, n) = Times(a.ev, "close", i, n) + (IF a.blocks[i].open THEN 1 ELSE 0)
        BY <2>2 DEF Running, Live, Good, Known
    <3>2. Times(a.ev, "close", i, n) \in Nat
        BY <1>2, TimesFinite
    <3> QED BY <2>1, <2>2, <3>1, <3>2 DEF IsOpenNow
  <2>3. CASE i \notin DOMAIN a.blocks
    <3>1. Times(a.ev, "open", i, n) = 0 /\ Times(a.ev, "close", i, n) = 0
        BY <1>1, <1>2, <2>3, Unknown DEF Running, Live, Good
    <3> QED BY <2>1, <2>3, <3>1 DEF IsOpenNow
  <2> QED BY <2>2, <2>3
<1>5. ASSUME NEW i \in 1 .. x.i - 1, x.i \in 1 .. Len(a.blocks) + 1 PROVE Times(w, "open", i, n) > 0
  <2>1. i \in DOMAIN a.blocks
      BY <1>2, <1>5
  <2> QED BY <1>3, <2>1 DEF Running, Live, Good, Known
<1> HIDE DEF w, n
<1>6. x.e # "start" /\ n + 1 # 1
    BY <1>2 DEF Timely, Items3
<1>7. x.e = "open" => /\ ~OpenAt(w, x.i, n)
                      /\ \A i \in 1 .. x.i - 1 : Times(w, "open", i, n) > 0
    BY <1>4, <1>5 DEF Timely
<1>8. (x.e = "close" => OpenAt(w, x.i, n)) /\ ((x.e = "delta" /\ s) => OpenAt(w, x.i, n))
    BY <1>4 DEF Timely
<1>9. Fits(w, n + 1, s)
    BY <1>2, <1>6, <1>7, <1>8, Zenon DEF Fits
<1> QED BY <1>9 DEF w, n

(* What an event about an item changes in the items.                       *)
Moves(a, b, x) ==
    /\ Len(a.blocks) <= Len(b.blocks) /\ x.i \in DOMAIN b.blocks
    /\ x.e = "open" => b.blocks[x.i].open
    /\ x.e = "close" => ~b.blocks[x.i].open
    /\ \A i \in DOMAIN b.blocks :
         x.e = "delta" \/ x.i # i => i \in DOMAIN a.blocks /\ (b.blocks[i].open <=> a.blocks[i].open)
    /\ \A i \in DOMAIN a.blocks : b.blocks[i].kind = a.blocks[i].kind

(* A step that tells of one item in time keeps the stream well formed.     *)
LEMMA EmitItem ==
  ASSUME NEW a, NEW b \in AsmType, NEW x \in EvType, NEW s, Running(a, s), Timely(a, x, s),
         Shape(b), Emits(a, b, x), Moves(a, b, x)
  PROVE  Live(b, s)
<1> DEFINE n == Len(a.ev)
<1>1. a.ev \in Seq(EvType) /\ a.blocks \in Seq(BlockType) /\ a \in AsmType
    BY DEF Running, Live, Good, AsmType
<1>2. b.blocks \in Seq(BlockType)
  <2>1. b.blocks \in Seq(BlockType) /\ b.ev \in Seq(EvType)
      BY DEF AsmType
  <2> QED BY <2>1
<1>3. /\ n \in Nat /\ n \in 0 .. n /\ Len(b.ev) = n + 1 /\ DOMAIN b.ev = 1 .. n + 1 /\ DOMAIN a.ev = 1 .. n
      /\ b.ev[n + 1] = x /\ \A k \in 1 .. n : b.ev[k] = a.ev[k]
  <2> DEFINE w == Append(a.ev, x)
  <2>1. /\ n \in Nat /\ n \in 0 .. n /\ Len(w) = n + 1 /\ DOMAIN w = 1 .. n + 1 /\ DOMAIN a.ev = 1 .. n
        /\ w[n + 1] = x /\ \A k \in 1 .. n : w[k] = a.ev[k]
      BY <1>1, AppendProperties
  <2>2. b.ev = w
      BY DEF Emits
  <2> HIDE DEF w, n
  <2> QED BY <2>1, <2>2
<1>4. DOMAIN a.blocks \subseteq DOMAIN b.blocks
  <2>1. /\ DOMAIN a.blocks = 1 .. Len(a.blocks) /\ DOMAIN b.blocks = 1 .. Len(b.blocks)
        /\ Len(a.blocks) \in Nat /\ Len(b.blocks) \in Nat
      BY <1>1, <1>2
  <2>2. Len(a.blocks) <= Len(b.blocks)
      BY DEF Moves
  <2> QED BY <2>1, <2>2
<1>5. AllFit(b.ev, s)
  <2>1. AllFit(Append(a.ev, x), s)
      BY <1>1, FitsItem, FitsAppend DEF Running, Live, Good
  <2> QED BY <2>1 DEF Emits
<1> HIDE DEF n
<1>6. Concluded(b)
  <2>1. \A k \in DOMAIN a.ev : a.ev[k].e \notin Last2
      BY DEF Running, Live, Good, Concluded, Last2
  <2>2. x.e \notin Last2
      BY DEF Timely, Items3, Last2
  <2>3. ASSUME NEW k \in DOMAIN b.ev PROVE b.ev[k].e \notin Last2
    <3>1. k = n + 1 \/ k \in 1 .. n
        BY <1>3
    <3> QED BY <1>3, <2>1, <2>2, <3>1
  <2>4. b.over = ""
      BY DEF Emits, Running, Live
  <2> QED BY <2>3, <2>4 DEF Concluded
<1>7. \A k \in DOMAIN b.ev : b.ev[k].e \in Items3 => b.ev[k].i \in DOMAIN b.blocks
  <2>1. \A k \in DOMAIN a.ev : a.ev[k].e \in Items3 => a.ev[k].i \in DOMAIN b.blocks
      BY <1>4 DEF Running, Live, Good, Known
  <2>2. x.i \in DOMAIN b.blocks
      BY DEF Moves
  <2>3. ASSUME NEW k \in DOMAIN b.ev, b.ev[k].e \in Items3 PROVE b.ev[k].i \in DOMAIN b.blocks
    <3>1. k = n + 1 \/ k \in 1 .. n
        BY <1>3
    <3> QED BY <1>3, <2>1, <2>2, <2>3, <3>1
  <2> QED BY <2>3
<1>8. ASSUME NEW i \in DOMAIN b.blocks
      PROVE  /\ Times(b.ev, "open", i, n + 1) > 0
             /\ Times(b.ev, "open", i, n + 1)
                  = Times(b.ev, "close", i, n + 1) + (IF b.blocks[i].open THEN 1 ELSE 0)
  <2> DEFINE o == Times(a.ev, "open", i, n)
             c == Times(a.ev, "close", i, n)
             p == Times(b.ev, "open", i, n + 1)
             q == Times(b.ev, "close", i, n + 1)
  <2>1. o \in Nat /\ c \in Nat
      BY <1>3, TimesFinite
  <2>2. /\ x.e = "open" /\ x.i = i => p = o + 1
        /\ x.e # "open" \/ x.i # i => p = o
        /\ x.e = "close" /\ x.i = i => q = c + 1
        /\ x.e # "close" \/ x.i # i => q = c
    <3> DEFINE w == Append(a.ev, x)
    <3>1. /\ x.e = "open" /\ x.i = i => Times(w, "open", i, n + 1) = o + 1
          /\ x.e # "open" \/ x.i # i => Times(w, "open", i, n + 1) = o
          /\ x.e = "close" /\ x.i = i => Times(w, "close", i, n + 1) = c + 1
          /\ x.e # "close" \/ x.i # i => Times(w, "close", i, n + 1) = c
        BY <1>1, TimesNow DEF n
    <3>2. b.ev = w
        BY DEF Emits
    <3> HIDE DEF w, o, c
    <3> QED BY <3>1, <3>2
  <2>3. i \in DOMAIN a.blocks => o > 0 /\ (a.blocks[i].open => o = c + 1) /\ (~a.blocks[i].open => o = c)
    <3>1. ASSUME i \in DOMAIN a.blocks PROVE o > 0 /\ o = c + (IF a.blocks[i].open THEN 1 ELSE 0)
        BY <3>1 DEF Running, Live, Good, Known, n
    <3> HIDE DEF o, c
    <3> QED BY <2>1, <3>1
  <2>4. i \notin DOMAIN a.blocks => o = 0 /\ c = 0
      BY <1>1, <1>3, Unknown DEF Running, Live, Good, n
  <2> HIDE DEF o, c, p, q
  <2>5. p > 0 /\ (b.blocks[i].open => p = q + 1) /\ (~b.blocks[i].open => p = q)
    <3>1. CASE x.e = "open" /\ x.i = i
      <4>1. b.blocks[i].open
          BY <3>1 DEF Moves
      <4>2. i \in DOMAIN a.blocks => ~a.blocks[i].open
          BY <3>1 DEF Timely, IsOpenNow
      <4>3. o = c
          BY <2>1, <2>3, <2>4, <4>2
      <4> QED BY <2>1, <2>2, <3>1, <4>1, <4>3
    <3>2. CASE x.e = "close" /\ x.i = i
      <4>1. ~b.blocks[i].open
          BY <3>2 DEF Moves
      <4>2. i \in DOMAIN a.blocks /\ a.blocks[i].open
          BY <3>2 DEF Timely, IsOpenNow
      <4> QED BY <2>1, <2>2, <2>3, <3>2, <4>1, <4>2
    <3>3. CASE x.e = "delta" \/ x.i # i
      <4>1. i \in DOMAIN a.blocks /\ (b.blocks[i].open <=> a.blocks[i].open)
          BY <3>3 DEF Moves
      <4> QED BY <2>1, <2>2, <2>3, <3>3, <4>1
    <3> QED BY <3>1, <3>2, <3>3 DEF Timely, Items3
  <2>6. p \in Nat /\ q \in Nat
      BY <1>3, TimesFinite DEF p, q
  <2>7. p = q + (IF b.blocks[i].open THEN 1 ELSE 0)
      BY <2>5, <2>6
  <2> QED BY <2>5, <2>7 DEF p, q
<1>9. Known(b)
    BY <1>3, <1>7, <1>8 DEF Known
<1> QED BY <1>5, <1>6, <1>9 DEF Emits, Running, Live, Good

-----------------------------------------------------------------------------
(* What a client has read.                                                 *)

(* The pieces of text a client has read from an assembler: PiecesRead.     *)
PieceAt(a, k) == \/ a.ev[k].e \in {"think", "text"}
                 \/ a.ev[k].e = "delta" /\ a.blocks[a.ev[k].i].kind # "tool"
ReadAt(a) == {k \in DOMAIN a.ev : PieceAt(a, k)}
Read(a) == Kept(Data(a.ev), ReadAt(a))

(* What the events carry, when one is added.                               *)
LEMMA DataAppend ==
  ASSUME NEW ev \in Seq(EvType), NEW x \in EvType
  PROVE  /\ Data(ev) \in Seq(DataType) /\ Len(Data(ev)) = Len(ev) /\ x.d \in DataType
         /\ Data(Append(ev, x)) = Append(Data(ev), x.d)
<1> DEFINE w == Append(ev, x)
<1>1. \A y \in EvType : y.d \in DataType
    BY DEF EvType
<1>2. /\ Len(ev) \in Nat /\ DOMAIN ev = 1 .. Len(ev) /\ DOMAIN w = 1 .. Len(ev) + 1
      /\ w[Len(ev) + 1] = x /\ \A k \in 1 .. Len(ev) : w[k] = ev[k] /\ ev[k] \in EvType
    BY AppendProperties
<1> HIDE DEF w
<1>3. Data(ev) \in Seq(DataType) /\ Len(Data(ev)) = Len(ev) /\ x.d \in DataType
      /\ \A k \in 1 .. Len(ev) : Data(ev)[k] = ev[k].d
    BY <1>1, <1>2 DEF Data
<1>4. Data(w) = [k \in 1 .. Len(ev) + 1 |-> w[k].d]
    BY <1>2 DEF Data
<1>5. /\ Data(w) \in Seq(DataType) /\ Len(Data(w)) = Len(ev) + 1
      /\ \A k \in 1 .. Len(ev) + 1 : Data(w)[k] = w[k].d
    BY <1>1, <1>2, <1>4
<1>6. /\ Append(Data(ev), x.d) \in Seq(DataType) /\ Len(Append(Data(ev), x.d)) = Len(ev) + 1
      /\ Append(Data(ev), x.d)[Len(ev) + 1] = x.d
      /\ \A k \in 1 .. Len(ev) : Append(Data(ev), x.d)[k] = Data(ev)[k]
    BY <1>3, AppendProperties
<1>7. \A k \in 1 .. Len(ev) + 1 : Data(w)[k] = Append(Data(ev), x.d)[k]
    BY <1>2, <1>3, <1>5, <1>6
<1>8. Data(w) = Append(Data(ev), x.d)
    BY <1>5, <1>6, <1>7, SeqEqual
<1> QED BY <1>3, <1>8 DEF w

(* One event adds one piece to what was read, or none.                     *)
LEMMA ReadNext ==
  ASSUME NEW a \in AsmType, NEW b \in AsmType, NEW x \in EvType, Emits(a, b, x),
         \A k \in DOMAIN a.ev : PieceAt(b, k) <=> PieceAt(a, k)
  PROVE  /\ Read(a) \in Seq(DataType) /\ Read(b) \in Seq(DataType)
         /\ PieceAt(b, Len(a.ev) + 1) => Read(b) = Append(Read(a), x.d)
         /\ ~PieceAt(b, Len(a.ev) + 1) => Read(b) = Read(a)
<1> DEFINE s == Data(a.ev)
           n == Len(a.ev)
<1>1. a.ev \in Seq(EvType) /\ b.ev \in Seq(EvType)
    BY DEF AsmType
<1>2. s \in Seq(DataType) /\ Len(s) = n /\ x.d \in DataType
    BY <1>1, DataAppend
<1>3. Data(b.ev) = Append(s, x.d)
  <2>1. Data(Append(a.ev, x)) = Append(s, x.d)
      BY <1>1, DataAppend
  <2> QED BY <2>1 DEF Emits
<1>4. n \in Nat /\ DOMAIN a.ev = 1 .. n /\ DOMAIN b.ev = 1 .. n + 1
  <2>1. n \in Nat /\ DOMAIN a.ev = 1 .. n /\ DOMAIN Append(a.ev, x) = 1 .. n + 1
      BY <1>1, AppendProperties
  <2> QED BY <2>1 DEF Emits
<1> HIDE DEF s, n
<1>5. /\ n + 1 \in ReadAt(b) <=> PieceAt(b, n + 1)
      /\ \A i \in 1 .. n : i \in ReadAt(a) <=> i \in ReadAt(b)
    BY <1>4 DEF ReadAt
<1>6. /\ n + 1 \in ReadAt(b) => Kept(Append(s, x.d), ReadAt(b)) = Append(Kept(s, ReadAt(a)), x.d)
      /\ n + 1 \notin ReadAt(b) => Kept(Append(s, x.d), ReadAt(b)) = Kept(s, ReadAt(a))
  <2>1. \A i \in 1 .. Len(s) : i \in ReadAt(a) <=> i \in ReadAt(b)
      BY <1>2, <1>5
  <2> QED BY <1>2, <2>1, KeptAppend
<1>7. Read(b) = Kept(Append(s, x.d), ReadAt(b)) /\ Read(a) = Kept(s, ReadAt(a))
    BY <1>3 DEF Read, s
<1>8. Read(a) \in Seq(DataType)
    BY <1>2, <1>4, <1>7, KeptIn, KeptValues
<1>9. Append(Read(a), x.d) \in Seq(DataType)
    BY <1>2, <1>8, AppendProperties
<1> HIDE DEF Read
<1> QED BY <1>5, <1>6, <1>7, <1>8, <1>9, Zenon DEF n

(* An event about an item is a piece if it is a delta of a message or of   *)
(* reasoning.                                                              *)
LEMMA ReadItem ==
  ASSUME NEW a, NEW b \in AsmType, NEW x \in EvType, NEW s, Running(a, s), Timely(a, x, s),
         Emits(a, b, x), Moves(a, b, x)
  PROVE  /\ Read(a) \in Seq(DataType) /\ Read(b) \in Seq(DataType)
         /\ x.e = "delta" /\ b.blocks[x.i].kind # "tool" => Read(b) = Append(Read(a), x.d)
         /\ x.e # "delta" \/ b.blocks[x.i].kind = "tool" => Read(b) = Read(a)
<1> DEFINE n == Len(a.ev)
<1>1. a \in AsmType /\ a.ev \in Seq(EvType)
    BY DEF Running, Live, Good, AsmType
<1>2. n \in Nat /\ DOMAIN a.ev = 1 .. n
    BY <1>1
<1>3. b.ev[n + 1] = x /\ \A k \in 1 .. n : b.ev[k] = a.ev[k]
  <2> DEFINE w == Append(a.ev, x)
  <2>1. w[n + 1] = x /\ \A k \in 1 .. n : w[k] = a.ev[k]
      BY <1>1, AppendProperties
  <2>2. b.ev = w
      BY DEF Emits
  <2> HIDE DEF w, n
  <2> QED BY <2>1, <2>2
<1> HIDE DEF n
<1>4. ASSUME NEW k \in DOMAIN a.ev PROVE PieceAt(b, k) <=> PieceAt(a, k)
  <2>1. b.ev[k] = a.ev[k]
      BY <1>2, <1>3
  <2>2. a.ev[k].e = "delta" => a.ev[k].i \in DOMAIN a.blocks
      BY DEF Running, Live, Good, Known, Items3
  <2>3. a.ev[k].e = "delta" => b.blocks[a.ev[k].i].kind = a.blocks[a.ev[k].i].kind
      BY <2>2 DEF Moves
  <2> QED BY <2>1, <2>3 DEF PieceAt
<1>5. /\ Read(a) \in Seq(DataType) /\ Read(b) \in Seq(DataType)
      /\ PieceAt(b, n + 1) => Read(b) = Append(Read(a), x.d)
      /\ ~PieceAt(b, n + 1) => Read(b) = Read(a)
    BY <1>1, <1>4, ReadNext DEF n
<1>6. PieceAt(b, n + 1) <=> x.e = "delta" /\ b.blocks[x.i].kind # "tool"
    BY <1>3 DEF PieceAt, Timely, Items3
<1> HIDE DEF PieceAt, Read
<1> QED BY <1>5, <1>6

-----------------------------------------------------------------------------
(* The steps of an assembler, one event at a time.                         *)

(* What a step of the assembler leaves alone.                              *)
SameRest(a, b)  == b.over = a.over /\ b.finish = a.finish /\ b.usage = a.usage
SamePlaces(a, b) == b.think = a.think /\ b.text = a.text
SameBlock(a, b, i) == b.blocks[i].kind = a.blocks[i].kind /\ b.blocks[i].buf = a.blocks[i].buf
SameItems(a, b) == /\ SamePlaces(a, b) /\ Len(b.blocks) = Len(a.blocks)
                   /\ \A i \in DOMAIN a.blocks : SameBlock(a, b, i)
SameOpen(a, b)  == \A i \in DOMAIN a.blocks : b.blocks[i].open <=> a.blocks[i].open

(* An event, and its fields.                                               *)
LEMMA EvTyped ==
  ASSUME NEW e \in EventNames, NEW i \in Nat, NEW d \in DataType
  PROVE  /\ Ev(e, i, d) \in EvType /\ Ev(e, i, d).e = e /\ Ev(e, i, d).i = i /\ Ev(e, i, d).d = d
BY DEF Ev, EvType

(* What there is to know of a stream that goes on.                         *)
LEMMA LiveFields ==
  ASSUME NEW a, NEW s, Live(a, s)
  PROVE  /\ a \in AsmType /\ Shape(a) /\ Known(a) /\ Concluded(a) /\ AllFit(a.ev, s)
         /\ a.ev \in Seq(EvType) /\ a.blocks \in Seq(BlockType)
         /\ Len(a.blocks) \in Nat /\ DOMAIN a.blocks = 1 .. Len(a.blocks)
         /\ Len(a.ev) \in Nat /\ DOMAIN a.ev = 1 .. Len(a.ev)
<1>1. a \in AsmType /\ Shape(a) /\ Known(a) /\ Concluded(a) /\ AllFit(a.ev, s)
    BY DEF Live, Good
<1>2. a.ev \in Seq(EvType) /\ a.blocks \in Seq(BlockType)
    BY <1>1 DEF AsmType
<1> QED BY <1>1, <1>2

(* EnsureStarted: the first event of a stream.                             *)
LEMMA StartFields ==
  ASSUME NEW a \in AsmType, ~a.started
  PROVE  LET b == EnsureStarted(a) IN
         /\ b \in AsmType /\ b.started /\ b.ev = Append(a.ev, Ev("start", 0, 0))
         /\ SameRest(a, b) /\ SamePlaces(a, b) /\ b.blocks = a.blocks
<1>1. Ev("start", 0, 0) \in EvType
    BY EvTyped DEF EventNames, DataType
<1>2. Append(a.ev, Ev("start", 0, 0)) \in Seq(EvType)
    BY <1>1, AppendProperties DEF AsmType
<1> HIDE DEF Ev
<1> QED BY <1>2 DEF EnsureStarted, Emit, AsmType, SameRest, SamePlaces

(* The first event leaves the items alone.                                 *)
LEMMA Started ==
  ASSUME NEW a, NEW s, Live(a, s)
  PROVE  LET b == EnsureStarted(a) IN
         /\ Running(b, s) /\ SameRest(a, b) /\ SameItems(a, b) /\ SameOpen(a, b) /\ Read(b) = Read(a)
<1> DEFINE b == EnsureStarted(a)
<1>1. CASE a.started
  <2>1. b = a
      BY <1>1 DEF EnsureStarted
  <2> QED BY <1>1, <2>1 DEF Running, SameRest, SameItems, SamePlaces, SameBlock, SameOpen
<1>2. CASE ~a.started
  <2>1. a \in AsmType /\ Shape(a) /\ a.ev = <<>> /\ a.blocks = <<>>
      BY <1>2, LiveFields DEF Live, Shape
  <2>2. /\ b \in AsmType /\ b.started /\ b.ev = Append(a.ev, Ev("start", 0, 0))
        /\ SameRest(a, b) /\ SamePlaces(a, b) /\ b.blocks = a.blocks
      BY <1>2, <2>1, StartFields
  <2>3. b.ev = <<Ev("start", 0, 0)>>
      BY <2>1, <2>2
  <2>4. DOMAIN b.ev = {1} /\ b.ev[1].e = "start"
      BY <2>3 DEF Ev
  <2>5. b.blocks = <<>> /\ b.over = "" /\ DOMAIN b.blocks = {}
    <3>1. b.over = ""
        BY <2>2 DEF SameRest, Live
    <3>2. b.blocks = <<>>
        BY <2>1, <2>2
    <3>3. DOMAIN <<>> = {}
        OBVIOUS
    <3> QED BY <3>1, <3>2, <3>3, Zenon
  <2> HIDE DEF b
  <2>6. Known(b)
      BY <2>4, <2>5 DEF Known, Items3
  <2>7. Concluded(b)
      BY <2>4, <2>5 DEF Concluded, Last2
  <2>8. AllFit(b.ev, s)
      BY <2>4 DEF AllFit, Fits
  <2>9. Shape(b)
      BY <2>1, <2>2, <2>4, <2>5 DEF Shape, SamePlaces
  <2>10. Live(b, s)
      BY <2>2, <2>5, <2>6, <2>7, <2>8, <2>9 DEF Live, Good
  <2>11. SameItems(a, b) /\ SameOpen(a, b)
      BY <2>1, <2>2, <2>5 DEF SameItems, SameBlock, SameOpen
  <2>12. Read(b) = Read(a)
    <3> DEFINE x == Ev("start", 0, 0)
    <3>1. x \in EvType /\ Emits(a, b, x)
        BY <2>2, EvTyped DEF EventNames, DataType, Emits, SameRest
    <3>2. \A k \in DOMAIN a.ev : PieceAt(b, k) <=> PieceAt(a, k)
        BY <2>1
    <3>3. ~PieceAt(b, 1)
        BY <2>4 DEF PieceAt
    <3>4. Len(a.ev) + 1 = 1
        BY <2>1
    <3>5. ~PieceAt(b, Len(a.ev) + 1)
        BY <3>3, <3>4
    <3>6. a \in AsmType /\ b \in AsmType
        BY <2>1, <2>2
    <3> HIDE DEF x
    <3> QED BY <3>1, <3>2, <3>5, <3>6, ReadNext
  <2> QED BY <2>2, <2>10, <2>11, <2>12 DEF Running, b
<1> QED BY <1>1, <1>2

(* A new item.                                                             *)
NewPlaces(a, b, kind) ==
    /\ kind = "think" => a.think = 0 /\ b.think = Len(a.blocks) + 1 /\ b.text = a.text
    /\ kind = "text" => a.text = 0 /\ b.text = Len(a.blocks) + 1 /\ b.think = a.think
    /\ kind = "tool" => SamePlaces(a, b)
Block(kind, buf, open) == [kind |-> kind, buf |-> buf, open |-> open]
OpenEv(a, kind) == Ev("open", Len(a.blocks) + 1, kind)
Added(a, b, kind, buf) ==
    /\ b.started /\ SameRest(a, b) /\ NewPlaces(a, b, kind)
    /\ b.blocks = Append(a.blocks, Block(kind, buf, TRUE))
    /\ b.ev = Append(a.ev, OpenEv(a, kind))
Fitting(kind, buf) == \/ kind \in {"think", "text"} /\ buf \in Seq(Nat)
                      \/ kind = "tool" /\ buf \in ToolType

(* The items when one was added.                                           *)
LEMMA AddedBlocks ==
  ASSUME NEW a, NEW s, Live(a, s), NEW b, NEW kind, NEW buf, Added(a, b, kind, buf), Fitting(kind, buf)
  PROVE  LET n == Len(a.blocks) IN
         /\ Len(b.blocks) = n + 1 /\ DOMAIN b.blocks = 1 .. n + 1
         /\ \A i \in 1 .. n : b.blocks[i] = a.blocks[i]
         /\ b.blocks[n + 1].kind = kind /\ b.blocks[n + 1].buf = buf /\ b.blocks[n + 1].open
         /\ OpenEv(a, kind) \in EvType /\ OpenEv(a, kind).e = "open" /\ OpenEv(a, kind).i = n + 1
<1> DEFINE n == Len(a.blocks)
           x == Block(kind, buf, TRUE)
           w == Append(a.blocks, x)
<1>1. a.blocks \in Seq(BlockType) /\ n \in Nat
    BY LiveFields
<1>2. x \in BlockType /\ x.kind = kind /\ x.buf = buf /\ x.open
    BY DEF Fitting, Block, BlockType
<1> HIDE DEF x
<1>3. /\ Len(w) = n + 1 /\ DOMAIN w = 1 .. n + 1
      /\ \A i \in 1 .. n : w[i] = a.blocks[i]
      /\ w[n + 1] = x
    BY <1>1, <1>2, AppendProperties
<1>4. b.blocks = w
    BY DEF Added, x
<1>5. OpenEv(a, kind) \in EvType /\ OpenEv(a, kind).e = "open" /\ OpenEv(a, kind).i = n + 1
  <2>0. kind \in {"think", "text", "tool"}
      BY DEF Fitting
  <2>1. kind \in DataType
      BY <2>0 DEF DataType
  <2>2. n + 1 \in Nat /\ "open" \in EventNames
      BY <1>1 DEF EventNames
  <2> HIDE DEF n, w
  <2> QED BY <2>1, <2>2, EvTyped DEF OpenEv, n
<1> HIDE DEF w, n
<1> QED BY <1>2, <1>3, <1>4, <1>5 DEF n

(* A new item with its opening event keeps the stream well formed.         *)
LEMMA AddItem ==
  ASSUME NEW a, NEW s, Running(a, s), NEW b \in AsmType, NEW kind, NEW buf,
         Added(a, b, kind, buf), Fitting(kind, buf)
  PROVE  Running(b, s) /\ Read(b) = Read(a)
<1> DEFINE n == Len(a.blocks)
           x == OpenEv(a, kind)
<1>1. Live(a, s)
    BY DEF Running
<1>2. /\ Len(b.blocks) = n + 1 /\ DOMAIN b.blocks = 1 .. n + 1
      /\ \A i \in 1 .. n : b.blocks[i] = a.blocks[i]
      /\ b.blocks[n + 1].kind = kind /\ b.blocks[n + 1].buf = buf /\ b.blocks[n + 1].open
      /\ x \in EvType /\ x.e = "open" /\ x.i = n + 1
    BY <1>1, AddedBlocks
<1>3. Shape(a) /\ n \in Nat /\ DOMAIN a.blocks = 1 .. n
    BY <1>1, LiveFields
<1>4. Emits(a, b, x)
    BY DEF Added, Emits, SameRest
<1>5. b.ev # <<>>
  <2>1. \A ev \in Seq(EvType), y \in EvType : Append(ev, y) # <<>>
      BY AppendProperties
  <2>2. a.ev \in Seq(EvType)
      BY <1>1, LiveFields
  <2>3. b.ev = Append(a.ev, x)
      BY <1>4 DEF Emits
  <2> QED BY <1>2, <2>1, <2>2, <2>3
<1> HIDE DEF n, x
<1>6. Timely(a, x, s)
    BY <1>2, <1>3 DEF Timely, Items3, IsOpenNow, n
<1>7. Moves(a, b, x)
  <2>1. ASSUME NEW i \in DOMAIN b.blocks, x.e = "delta" \/ x.i # i
        PROVE i \in DOMAIN a.blocks /\ (b.blocks[i].open <=> a.blocks[i].open)
    <3>1. i \in 1 .. n
        BY <1>2, <1>3, <2>1
    <3> QED BY <1>2, <1>3, <3>1
  <2>2. \A i \in DOMAIN a.blocks : b.blocks[i].kind = a.blocks[i].kind
      BY <1>2, <1>3
  <2>3. n <= n + 1 /\ n + 1 \in 1 .. n + 1
      BY <1>3
  <2> QED BY <1>2, <2>1, <2>2, <2>3 DEF Moves, n
<1>8. Shape(b)
  <2>1. /\ a.think \in 0 .. n /\ a.text \in 0 .. n
        /\ a.think # 0 => a.blocks[a.think].kind = "think"
        /\ a.text # 0 => a.blocks[a.text].kind = "text"
        /\ \A i \in 1 .. n : /\ a.blocks[i].kind = "think" => i = a.think
                             /\ a.blocks[i].kind = "text" => i = a.text
                             /\ a.blocks[i].kind # "tool" => a.blocks[i].buf \in Seq(Nat)
      BY <1>3 DEF Shape, n
  <2>2. /\ kind = "think" => a.think = 0 /\ b.think = n + 1 /\ b.text = a.text
        /\ kind = "text" => a.text = 0 /\ b.text = n + 1 /\ b.think = a.think
        /\ kind = "tool" => b.think = a.think /\ b.text = a.text
      BY DEF Added, NewPlaces, SamePlaces, n
  <2>3. (kind \in {"think", "text"} /\ buf \in Seq(Nat)) \/ kind = "tool"
      BY DEF Fitting
  <2>4. b.think \in 0 .. n + 1 /\ b.text \in 0 .. n + 1
      BY <1>3, <2>1, <2>2, <2>3
  <2>5. b.think # 0 => b.blocks[b.think].kind = "think"
    <3>1. b.think # 0 => (b.think = n + 1 /\ kind = "think") \/ (b.think = a.think /\ b.think \in 1 .. n)
        BY <1>3, <2>1, <2>2, <2>3
    <3> QED BY <1>2, <2>1, <3>1
  <2>6. b.text # 0 => b.blocks[b.text].kind = "text"
    <3>1. b.text # 0 => (b.text = n + 1 /\ kind = "text") \/ (b.text = a.text /\ b.text \in 1 .. n)
        BY <1>3, <2>1, <2>2, <2>3
    <3> QED BY <1>2, <2>1, <3>1
  <2>7. ASSUME NEW i \in 1 .. n + 1
        PROVE  /\ b.blocks[i].kind = "think" => i = b.think
               /\ b.blocks[i].kind = "text" => i = b.text
               /\ b.blocks[i].kind # "tool" => b.blocks[i].buf \in Seq(Nat)
    <3>1. CASE i = n + 1
        BY <1>2, <2>2, <2>3, <3>1
    <3>2. CASE i \in 1 .. n
        BY <1>2, <2>1, <2>2, <2>3, <3>2
    <3> QED BY <1>3, <3>1, <3>2
  <2>8. b.started
      BY DEF Added
  <2>9. b.think \in 0 .. Len(b.blocks) /\ b.text \in 0 .. Len(b.blocks)
      BY <1>2, <2>4
  <2>10. \A i \in DOMAIN b.blocks :
               /\ b.blocks[i].kind = "think" => i = b.think
               /\ b.blocks[i].kind = "text" => i = b.text
               /\ b.blocks[i].kind # "tool" => b.blocks[i].buf \in Seq(Nat)
      BY <1>2, <2>7
  <2> QED BY <1>5, <2>5, <2>6, <2>8, <2>9, <2>10 DEF Shape
<1>9. Live(b, s)
    BY <1>2, <1>4, <1>6, <1>7, <1>8, EmitItem
<1>10. Read(b) = Read(a)
    BY <1>2, <1>4, <1>6, <1>7, ReadItem
<1>11. b.started
    BY DEF Added
<1> QED BY <1>9, <1>10, <1>11 DEF Running

(* _open_item, block_start: what AddBlock makes.                           *)
LEMMA AddBlockFields ==
  ASSUME NEW a, NEW s, Live(a, s), NEW kind, NEW buf, Fitting(kind, buf)
  PROVE  LET b == AddBlock(a, kind, buf) IN
         /\ b \in AsmType /\ b.started = a.started /\ SameRest(a, b) /\ SamePlaces(a, b)
         /\ b.blocks = Append(a.blocks, Block(kind, buf, TRUE))
         /\ b.ev = Append(a.ev, OpenEv(a, kind))
<1> DEFINE x == OpenEv(a, kind)
           k == Block(kind, buf, TRUE)
           b == AddBlock(a, kind, buf)
<1>1. a \in AsmType /\ a.ev \in Seq(EvType) /\ a.blocks \in Seq(BlockType) /\ Len(a.blocks) \in Nat
    BY LiveFields
<1>2. k \in BlockType
    BY DEF Fitting, Block, BlockType
<1>3. x \in EvType
  <2>1. kind \in DataType
      BY DEF Fitting, DataType
  <2>2. Len(a.blocks) + 1 \in Nat /\ "open" \in EventNames
      BY <1>1 DEF EventNames
  <2> QED BY <2>1, <2>2, EvTyped DEF OpenEv
<1> DEFINE bl == Append(a.blocks, k)
           ev == Append(a.ev, x)
<1>4. b = [a EXCEPT !.blocks = bl, !.ev = ev]
    BY <1>1 DEF AddBlock, Emit, Block, OpenEv, AsmType
<1> HIDE DEF k, x
<1>5. bl \in Seq(BlockType) /\ ev \in Seq(EvType)
    BY <1>1, <1>2, <1>3, AppendProperties
<1> HIDE DEF bl, ev, b
<1>6. b \in AsmType /\ b.started = a.started /\ SameRest(a, b) /\ SamePlaces(a, b) /\ b.blocks = bl /\ b.ev = ev
    BY <1>1, <1>4, <1>5 DEF AsmType, SameRest, SamePlaces
<1> QED BY <1>6 DEF b, bl, ev, k, x

(* The new item of the reasoning, of the text, and of a call.              *)
LEMMA NewThink ==
  ASSUME NEW a, NEW s, Running(a, s), a.think = 0
  PROVE  LET b == [AddBlock(a, "think", <<>>) EXCEPT !.think = Len(a.blocks) + 1] IN
         b \in AsmType /\ Added(a, b, "think", <<>>) /\ Fitting("think", <<>>)
<1> DEFINE c == AddBlock(a, "think", <<>>)
           b == [c EXCEPT !.think = Len(a.blocks) + 1]
<1>1. Fitting("think", <<>>)
    BY DEF Fitting
<1>2. Live(a, s) /\ a.started
    BY DEF Running
<1>3. Len(a.blocks) \in Nat
    BY <1>2, LiveFields
<1>4. /\ c \in AsmType /\ c.started = a.started /\ SameRest(a, c) /\ SamePlaces(a, c)
      /\ c.blocks = Append(a.blocks, Block("think", <<>>, TRUE))
      /\ c.ev = Append(a.ev, OpenEv(a, "think"))
    BY <1>1, <1>2, AddBlockFields
<1> HIDE DEF c
<1>5. /\ b \in AsmType /\ b.started = a.started /\ SameRest(a, b) /\ b.text = a.text /\ b.think = Len(a.blocks) + 1
      /\ b.blocks = c.blocks /\ b.ev = c.ev
  <2>1. ASSUME NEW p \in Nat, NEW r \in AsmType
        PROVE  LET q == [r EXCEPT !.think = p] IN
               /\ q \in AsmType /\ q.started = r.started /\ q.over = r.over /\ q.finish = r.finish
               /\ q.usage = r.usage /\ q.text = r.text /\ q.think = p /\ q.blocks = r.blocks /\ q.ev = r.ev
      BY DEF AsmType
  <2>2. Len(a.blocks) + 1 \in Nat
      BY <1>3
  <2>3. /\ b \in AsmType /\ b.started = c.started /\ b.over = c.over /\ b.finish = c.finish
        /\ b.usage = c.usage /\ b.text = c.text /\ b.think = Len(a.blocks) + 1 /\ b.blocks = c.blocks /\ b.ev = c.ev
      BY <1>4, <2>1, <2>2
  <2> HIDE DEF b
  <2> QED BY <1>4, <2>3 DEF SameRest, SamePlaces
<1> HIDE DEF b
<1>6. Added(a, b, "think", <<>>)
    BY <1>2, <1>4, <1>5 DEF Added, NewPlaces
<1> QED BY <1>1, <1>5, <1>6 DEF b, c

(* The item of the text.                                                   *)
LEMMA NewText ==
  ASSUME NEW a, NEW s, Running(a, s), a.text = 0
  PROVE  LET b == [AddBlock(a, "text", <<>>) EXCEPT !.text = Len(a.blocks) + 1] IN
         b \in AsmType /\ Added(a, b, "text", <<>>) /\ Fitting("text", <<>>)
<1> DEFINE c == AddBlock(a, "text", <<>>)
           b == [c EXCEPT !.text = Len(a.blocks) + 1]
<1>1. Fitting("text", <<>>)
    BY DEF Fitting
<1>2. Live(a, s) /\ a.started
    BY DEF Running
<1>3. Len(a.blocks) \in Nat
    BY <1>2, LiveFields
<1>4. /\ c \in AsmType /\ c.started = a.started /\ SameRest(a, c) /\ SamePlaces(a, c)
      /\ c.blocks = Append(a.blocks, Block("text", <<>>, TRUE))
      /\ c.ev = Append(a.ev, OpenEv(a, "text"))
    BY <1>1, <1>2, AddBlockFields
<1> HIDE DEF c
<1>5. /\ b \in AsmType /\ b.started = a.started /\ SameRest(a, b) /\ b.think = a.think /\ b.text = Len(a.blocks) + 1
      /\ b.blocks = c.blocks /\ b.ev = c.ev
  <2>1. ASSUME NEW p \in Nat, NEW r \in AsmType
        PROVE  LET q == [r EXCEPT !.text = p] IN
               /\ q \in AsmType /\ q.started = r.started /\ q.over = r.over /\ q.finish = r.finish
               /\ q.usage = r.usage /\ q.think = r.think /\ q.text = p /\ q.blocks = r.blocks /\ q.ev = r.ev
      BY DEF AsmType
  <2>2. Len(a.blocks) + 1 \in Nat
      BY <1>3
  <2>3. /\ b \in AsmType /\ b.started = c.started /\ b.over = c.over /\ b.finish = c.finish
        /\ b.usage = c.usage /\ b.think = c.think /\ b.text = Len(a.blocks) + 1 /\ b.blocks = c.blocks /\ b.ev = c.ev
      BY <1>4, <2>1, <2>2
  <2> HIDE DEF b
  <2> QED BY <1>4, <2>3 DEF SameRest, SamePlaces
<1> HIDE DEF b
<1>6. Added(a, b, "text", <<>>)
    BY <1>2, <1>4, <1>5 DEF Added, NewPlaces
<1> QED BY <1>1, <1>5, <1>6 DEF b, c

(* The item of a call.                                                     *)
LEMMA NewTool ==
  ASSUME NEW a, NEW s, Running(a, s), NEW t \in ToolType
  PROVE  LET b == AddBlock(a, "tool", t) IN
         b \in AsmType /\ Added(a, b, "tool", t) /\ Fitting("tool", t)
<1> DEFINE b == AddBlock(a, "tool", t)
<1>1. Fitting("tool", t)
    BY DEF Fitting
<1>2. Live(a, s) /\ a.started
    BY DEF Running
<1>3. /\ b \in AsmType /\ b.started = a.started /\ SameRest(a, b) /\ SamePlaces(a, b)
      /\ b.blocks = Append(a.blocks, Block("tool", t, TRUE))
      /\ b.ev = Append(a.ev, OpenEv(a, "tool"))
    BY <1>1, <1>2, AddBlockFields
<1> HIDE DEF b
<1>4. Added(a, b, "tool", t)
    BY <1>2, <1>3 DEF Added, NewPlaces
<1> QED BY <1>1, <1>3, <1>4 DEF b

(* An event about an item that exists.                                     *)
Touched(a, b, x, i) ==
    /\ i \in DOMAIN a.blocks /\ x.i = i /\ x.e \in Items3
    /\ b.ev = Append(a.ev, x) /\ b.started = a.started
    /\ SameRest(a, b) /\ SamePlaces(a, b) /\ Len(b.blocks) = Len(a.blocks)
    /\ \A j \in DOMAIN a.blocks : b.blocks[j].kind = a.blocks[j].kind
    /\ \A j \in DOMAIN a.blocks : j # i => b.blocks[j] = a.blocks[j]
    /\ b.blocks[i].kind # "tool" => b.blocks[i].buf \in Seq(Nat)
    /\ x.e = "open" => ~IsOpenNow(a, i) /\ b.blocks[i].open
    /\ x.e = "close" => IsOpenNow(a, i) /\ ~b.blocks[i].open
    /\ x.e = "delta" => (b.blocks[i].open <=> a.blocks[i].open)

(* An event about an item that exists keeps the stream well formed; a      *)
(* delta of text is read.                                                  *)
LEMMA TouchItem ==
  ASSUME NEW a, NEW s, Running(a, s), NEW b \in AsmType, NEW x \in EvType, NEW i,
         Touched(a, b, x, i), (x.e = "delta" /\ s) => IsOpenNow(a, i)
  PROVE  /\ Running(b, s) /\ Read(a) \in Seq(DataType)
         /\ x.e = "delta" /\ b.blocks[i].kind # "tool" => Read(b) = Append(Read(a), x.d)
         /\ x.e # "delta" \/ b.blocks[i].kind = "tool" => Read(b) = Read(a)
<1> DEFINE n == Len(a.blocks)
<1>1. Live(a, s)
    BY DEF Running
<1>2. Shape(a) /\ n \in Nat /\ DOMAIN a.blocks = 1 .. n /\ a.ev \in Seq(EvType)
    BY <1>1, LiveFields
<1>3. Len(b.blocks) = n /\ DOMAIN b.blocks = 1 .. n
  <2>1. b.blocks \in Seq(BlockType)
      BY DEF AsmType
  <2>2. Len(b.blocks) = n
      BY DEF Touched
  <2> QED BY <2>1, <2>2
<1>4. Emits(a, b, x)
    BY DEF Touched, Emits, SameRest
<1>5. b.ev # <<>>
  <2>1. \A ev \in Seq(EvType), y \in EvType : Append(ev, y) # <<>>
      BY AppendProperties
  <2>2. b.ev = Append(a.ev, x)
      BY <1>4 DEF Emits
  <2> QED BY <1>2, <2>1, <2>2
<1> HIDE DEF n
<1>6. Timely(a, x, s)
    BY <1>2 DEF Timely, Touched, n
<1>7. Moves(a, b, x)
  <2>1. ASSUME NEW j \in DOMAIN b.blocks, x.e = "delta" \/ x.i # j
        PROVE j \in DOMAIN a.blocks /\ (b.blocks[j].open <=> a.blocks[j].open)
    <3>1. j \in DOMAIN a.blocks
        BY <1>2, <1>3
    <3>2. CASE j # i
      <4>1. b.blocks[j] = a.blocks[j]
          BY <3>1, <3>2 DEF Touched
      <4> QED BY <3>1, <4>1
    <3>3. CASE j = i
        BY <2>1, <3>1, <3>3 DEF Touched
    <3> QED BY <3>2, <3>3
  <2>2. \A j \in DOMAIN a.blocks : b.blocks[j].kind = a.blocks[j].kind
      BY DEF Touched
  <2>3. x.i \in DOMAIN b.blocks /\ n <= n /\ Len(a.blocks) = n
      BY <1>2, <1>3 DEF Touched, n
  <2>4. (x.e = "open" => b.blocks[x.i].open) /\ (x.e = "close" => ~b.blocks[x.i].open)
      BY DEF Touched
  <2> QED BY <1>3, <2>1, <2>2, <2>3, <2>4 DEF Moves
<1>8. Shape(b)
  <2>1. /\ b.think = a.think /\ b.text = a.text
        /\ \A j \in 1 .. n : b.blocks[j].kind = a.blocks[j].kind
        /\ \A j \in 1 .. n : j # i => b.blocks[j] = a.blocks[j]
        /\ b.blocks[i].kind # "tool" => b.blocks[i].buf \in Seq(Nat)
      BY <1>2 DEF Touched, SamePlaces
  <2>2. /\ a.think \in 0 .. n /\ a.text \in 0 .. n
        /\ a.think # 0 => a.blocks[a.think].kind = "think"
        /\ a.text # 0 => a.blocks[a.text].kind = "text"
        /\ \A j \in 1 .. n : /\ a.blocks[j].kind = "think" => j = a.think
                             /\ a.blocks[j].kind = "text" => j = a.text
                             /\ a.blocks[j].kind # "tool" => a.blocks[j].buf \in Seq(Nat)
      BY <1>2 DEF Shape, n
  <2>3. b.started
      BY DEF Touched, Running
  <2>4. b.think \in 0 .. Len(b.blocks) /\ b.text \in 0 .. Len(b.blocks)
      BY <1>3, <2>1, <2>2
  <2>5. /\ b.think # 0 => b.blocks[b.think].kind = "think"
        /\ b.text # 0 => b.blocks[b.text].kind = "text"
      BY <1>2, <2>1, <2>2
  <2>6. ASSUME NEW j \in 1 .. n
        PROVE  /\ b.blocks[j].kind = "think" => j = b.think
               /\ b.blocks[j].kind = "text" => j = b.text
               /\ b.blocks[j].kind # "tool" => b.blocks[j].buf \in Seq(Nat)
      BY <2>1, <2>2
  <2>7. \A j \in DOMAIN b.blocks :
               /\ b.blocks[j].kind = "think" => j = b.think
               /\ b.blocks[j].kind = "text" => j = b.text
               /\ b.blocks[j].kind # "tool" => b.blocks[j].buf \in Seq(Nat)
      BY <1>3, <2>6
  <2> QED BY <1>5, <2>3, <2>4, <2>5, <2>7 DEF Shape
<1>9. Live(b, s)
    BY <1>4, <1>6, <1>7, <1>8, EmitItem
<1>10. /\ Read(a) \in Seq(DataType)
       /\ x.e = "delta" /\ b.blocks[x.i].kind # "tool" => Read(b) = Append(Read(a), x.d)
       /\ x.e # "delta" \/ b.blocks[x.i].kind = "tool" => Read(b) = Read(a)
    BY <1>4, <1>6, <1>7, ReadItem
<1>11. b.started /\ x.i = i
    BY DEF Touched, Running
<1> QED BY <1>9, <1>10, <1>11 DEF Running

-----------------------------------------------------------------------------
(* Items that are closed.                                                  *)

(* The fields of an item.                                                  *)
LEMMA BlockFields ==
  ASSUME NEW a, NEW s, Live(a, s), NEW i \in DOMAIN a.blocks
  PROVE  /\ a.blocks[i] \in BlockType /\ i \in Nat /\ i # 0 /\ a.started
         /\ a.blocks[i].kind # "tool" => a.blocks[i].buf \in Seq(Nat)
<1>1. a.blocks \in Seq(BlockType) /\ DOMAIN a.blocks = 1 .. Len(a.blocks) /\ Shape(a)
    BY LiveFields
<1>2. a.blocks[i] \in BlockType /\ i \in Nat /\ i # 0
    BY <1>1
<1>3. a.blocks[i].kind # "tool" => a.blocks[i].buf \in Seq(Nat)
    BY <1>1, Zenon DEF Shape
<1>4. a.started
  <2>1. ~a.started => a.blocks = <<>>
      BY <1>1, Zenon DEF Shape
  <2>2. DOMAIN <<>> = {}
      OBVIOUS
  <2> QED BY <2>1, <2>2, Zenon
<1> QED BY <1>2, <1>3, <1>4, Zenon

(* The assembler with another block i, and one more event.                 *)
With(a, i, y, x) == Emit([a EXCEPT !.blocks[i] = y], x)

(* An item changed and an event emitted, in one record.                    *)
LEMMA WithFields ==
  ASSUME NEW a, NEW s, Live(a, s), NEW i \in DOMAIN a.blocks, NEW y \in BlockType, NEW x \in EvType
  PROVE  LET b == With(a, i, y, x) IN
         /\ b \in AsmType /\ b.started = a.started /\ SameRest(a, b) /\ SamePlaces(a, b)
         /\ Len(b.blocks) = Len(a.blocks) /\ b.blocks[i] = y
         /\ \A j \in DOMAIN a.blocks : j # i => b.blocks[j] = a.blocks[j]
         /\ b.ev = Append(a.ev, x)
<1> DEFINE b == With(a, i, y, x)
           bl == [a.blocks EXCEPT ![i] = y]
           ev == Append(a.ev, x)
<1>1. a \in AsmType /\ a.ev \in Seq(EvType) /\ a.blocks \in Seq(BlockType) /\ DOMAIN a.blocks = 1 .. Len(a.blocks)
    BY LiveFields
<1>2. b = [a EXCEPT !.blocks = bl, !.ev = ev]
    BY <1>1 DEF With, Emit, AsmType
<1>3. bl \in Seq(BlockType) /\ Len(bl) = Len(a.blocks)
    BY <1>1, ExceptSeq
<1>4. bl[i] = y /\ \A j \in DOMAIN a.blocks : j # i => bl[j] = a.blocks[j]
    OBVIOUS
<1>5. ev \in Seq(EvType)
    BY <1>1, AppendProperties
<1> HIDE DEF bl, ev, b
<1>6. b \in AsmType /\ b.started = a.started /\ SameRest(a, b) /\ SamePlaces(a, b) /\ b.blocks = bl /\ b.ev = ev
    BY <1>1, <1>2, <1>3, <1>5 DEF AsmType, SameRest, SamePlaces
<1> QED BY <1>3, <1>4, <1>6 DEF b, ev

(* A piece for an item.                                                    *)
LEMMA PieceAdded ==
  ASSUME NEW a, NEW s, Running(a, s), NEW i \in DOMAIN a.blocks, NEW d \in Nat,
         a.blocks[i].kind # "tool", s => IsOpenNow(a, i)
  PROVE  LET b == AddPiece(a, i, d) IN
         /\ Running(b, s) /\ SameRest(a, b) /\ SamePlaces(a, b) /\ Len(b.blocks) = Len(a.blocks)
         /\ SameOpen(a, b) /\ b.blocks[i].kind = a.blocks[i].kind
         /\ a.blocks[i].buf \in Seq(Nat) /\ b.blocks[i].buf = Append(a.blocks[i].buf, d)
         /\ \A j \in DOMAIN a.blocks : j # i => SameBlock(a, b, j)
         /\ Read(a) \in Seq(DataType) /\ Read(b) = Append(Read(a), d)
<1> DEFINE b == AddPiece(a, i, d)
           o == a.blocks[i]
           y == [o EXCEPT !.buf = Append(@, d)]
           x == Ev("delta", i, d)
<1>1. Live(a, s)
    BY DEF Running
<1>2. o \in BlockType /\ o.buf \in Seq(Nat) /\ i \in Nat
    BY <1>1, BlockFields
<1>3. x \in EvType /\ x.e = "delta" /\ x.i = i /\ x.d = d
  <2>1. d \in DataType /\ "delta" \in EventNames
      BY DEF DataType, EventNames
  <2> QED BY <1>2, <2>1, EvTyped
<1>4. y \in BlockType /\ y.kind = o.kind /\ (y.open <=> o.open) /\ y.buf = Append(o.buf, d) /\ y.buf \in Seq(Nat)
  <2>1. Append(o.buf, d) \in Seq(Nat)
      BY <1>2, AppendProperties
  <2> HIDE DEF o
  <2> QED BY <1>2, <2>1 DEF BlockType
<1>5. b = With(a, i, y, x)
    BY DEF AddPiece, With
<1> HIDE DEF y, x, b
<1>6. /\ b \in AsmType /\ b.started = a.started /\ SameRest(a, b) /\ SamePlaces(a, b)
      /\ Len(b.blocks) = Len(a.blocks) /\ b.blocks[i] = y
      /\ \A j \in DOMAIN a.blocks : j # i => b.blocks[j] = a.blocks[j]
      /\ b.ev = Append(a.ev, x)
    BY <1>1, <1>3, <1>4, <1>5, WithFields
<1>7. \A j \in DOMAIN a.blocks : b.blocks[j].kind = a.blocks[j].kind
    BY <1>4, <1>6
<1>8. Touched(a, b, x, i)
    BY <1>3, <1>4, <1>6, <1>7 DEF Touched, Items3
<1>9. Running(b, s) /\ Read(a) \in Seq(DataType) /\ Read(b) = Append(Read(a), d)
  <2>1. b.blocks[i].kind # "tool"
      BY <1>4, <1>6
  <2> QED BY <1>3, <1>6, <1>8, <2>1, TouchItem
<1>10. SameOpen(a, b)
    BY <1>4, <1>6 DEF SameOpen
<1>11. \A j \in DOMAIN a.blocks : j # i => SameBlock(a, b, j)
    BY <1>6 DEF SameBlock
<1> QED BY <1>2, <1>4, <1>6, <1>9, <1>10, <1>11 DEF b

(* An item is closed, if it is open.                                       *)
OpenBut(a, b, K) == \A j \in DOMAIN a.blocks : b.blocks[j].open <=> a.blocks[j].open /\ j \notin K
Closes(a, b, s, K) == /\ Live(b, s) /\ SameRest(a, b) /\ SameItems(a, b) /\ OpenBut(a, b, K)
                      /\ (a.started => b.started) /\ Read(b) = Read(a)

(* CloseBlock closes one item, if it was open, and nothing else.           *)
LEMMA BlockClosed ==
  ASSUME NEW a, NEW s, Live(a, s), NEW i \in 0 .. Len(a.blocks)
  PROVE  Closes(a, CloseBlock(a, i), s, {i})
<1> DEFINE b == CloseBlock(a, i)
<1>1. CASE ~IsOpen(a, i)
  <2>1. b = a
      BY <1>1 DEF CloseBlock
  <2>2. \A j \in DOMAIN a.blocks : a.blocks[j].open => j # i
      BY <1>1, LiveFields DEF IsOpen
  <2> QED BY <2>1, <2>2 DEF Closes, SameRest, SameItems, SamePlaces, SameBlock, OpenBut
<1>2. CASE IsOpen(a, i)
  <2> DEFINE o == a.blocks[i]
             y == [o EXCEPT !.open = FALSE]
             x == Ev("close", i, o.buf)
  <2>1. i \in DOMAIN a.blocks /\ o.open /\ IsOpenNow(a, i) /\ i \in Nat
      BY <1>2, LiveFields DEF IsOpen, IsOpenNow
  <2>2. o \in BlockType /\ (o.kind # "tool" => o.buf \in Seq(Nat))
      BY <2>1, BlockFields
  <2>3. a.started
      BY <2>1, BlockFields
  <2>4. Running(a, s)
      BY <2>3 DEF Running
  <2>5. y \in BlockType /\ y.kind = o.kind /\ ~y.open /\ y.buf = o.buf
    <3> HIDE DEF o
    <3> QED BY <2>2 DEF BlockType
  <2>6. x \in EvType /\ x.e = "close" /\ x.i = i
    <3>1. o.buf \in DataType /\ "close" \in EventNames
        BY <2>2 DEF DataType, EventNames, BlockType
    <3> QED BY <2>1, <3>1, EvTyped
  <2>7. b = With(a, i, y, x)
      BY <1>2 DEF CloseBlock, With
  <2> HIDE DEF y, x, b
  <2>8. /\ b \in AsmType /\ b.started = a.started /\ SameRest(a, b) /\ SamePlaces(a, b)
        /\ Len(b.blocks) = Len(a.blocks) /\ b.blocks[i] = y
        /\ \A j \in DOMAIN a.blocks : j # i => b.blocks[j] = a.blocks[j]
        /\ b.ev = Append(a.ev, x)
      BY <2>1, <2>5, <2>6, <2>7, WithFields
  <2>9. \A j \in DOMAIN a.blocks : b.blocks[j].kind = a.blocks[j].kind
      BY <2>5, <2>8
  <2>10. Touched(a, b, x, i)
      BY <2>1, <2>2, <2>5, <2>6, <2>8, <2>9 DEF Touched, Items3
  <2>11. Running(b, s) /\ Read(b) = Read(a)
      BY <2>4, <2>6, <2>8, <2>10, TouchItem
  <2>12. SameItems(a, b)
      BY <2>5, <2>8 DEF SameItems, SameBlock
  <2>13. OpenBut(a, b, {i})
      BY <2>1, <2>5, <2>8 DEF OpenBut
  <2>14. Live(b, s) /\ b.started
      BY <2>11 DEF Running
  <2> QED BY <2>8, <2>11, <2>12, <2>13, <2>14 DEF Closes, b
<1> QED BY <1>1, <1>2

(* An item that comes back.                                                *)
LEMMA Reopened ==
  ASSUME NEW a, NEW s, Running(a, s), NEW i \in DOMAIN a.blocks, NEW kind \in {"think", "text"}
  PROVE  LET b == Reopen(a, i, kind) IN
         /\ Running(b, s) /\ SameRest(a, b) /\ SameItems(a, b) /\ IsOpenNow(b, i) /\ Read(b) = Read(a)
<1> DEFINE b == Reopen(a, i, kind)
<1>0. Live(a, s)
    BY DEF Running
<1>1. CASE a.blocks[i].open
  <2>1. b = a
      BY <1>1 DEF Reopen
  <2> QED BY <1>1, <2>1 DEF SameRest, SameItems, SamePlaces, SameBlock, IsOpenNow
<1>2. CASE ~a.blocks[i].open
  <2> DEFINE o == a.blocks[i]
             y == [o EXCEPT !.open = TRUE]
             x == Ev("open", i, kind)
  <2>1. ~o.open /\ ~IsOpenNow(a, i) /\ i \in Nat
      BY <1>0, <1>2, LiveFields DEF IsOpenNow
  <2>2. o \in BlockType /\ (o.kind # "tool" => o.buf \in Seq(Nat))
      BY <1>0, BlockFields
  <2>5. y \in BlockType /\ y.kind = o.kind /\ y.open /\ y.buf = o.buf
    <3> HIDE DEF o
    <3> QED BY <2>2 DEF BlockType
  <2>6. x \in EvType /\ x.e = "open" /\ x.i = i
    <3>1. kind \in DataType /\ "open" \in EventNames
        BY DEF DataType, EventNames
    <3> QED BY <2>1, <3>1, EvTyped
  <2>7. b = With(a, i, y, x)
      BY <1>2 DEF Reopen, With
  <2> HIDE DEF y, x, b
  <2>8. /\ b \in AsmType /\ b.started = a.started /\ SameRest(a, b) /\ SamePlaces(a, b)
        /\ Len(b.blocks) = Len(a.blocks) /\ b.blocks[i] = y
        /\ \A j \in DOMAIN a.blocks : j # i => b.blocks[j] = a.blocks[j]
        /\ b.ev = Append(a.ev, x)
      BY <1>0, <2>5, <2>6, <2>7, WithFields
  <2>9. \A j \in DOMAIN a.blocks : b.blocks[j].kind = a.blocks[j].kind
      BY <2>5, <2>8
  <2>10. Touched(a, b, x, i)
      BY <2>1, <2>2, <2>5, <2>6, <2>8, <2>9 DEF Touched, Items3
  <2>11. Running(b, s) /\ Read(b) = Read(a)
      BY <2>6, <2>8, <2>10, TouchItem
  <2>12. SameItems(a, b)
      BY <2>5, <2>8 DEF SameItems, SameBlock
  <2>13. IsOpenNow(b, i)
    <3>1. b.blocks \in Seq(BlockType)
        BY <2>8 DEF AsmType
    <3>2. DOMAIN b.blocks = DOMAIN a.blocks
        BY <1>0, <2>8, <3>1, LiveFields
    <3> QED BY <2>5, <2>8, <3>2 DEF IsOpenNow
  <2> QED BY <2>8, <2>11, <2>12, <2>13 DEF b
<1> QED BY <1>1, <1>2

(* Closing some items and then others closes both.                         *)
LEMMA ClosesTwice ==
  ASSUME NEW a, NEW b, NEW c, NEW s, NEW K, NEW L, Closes(a, b, s, K), Closes(b, c, s, L), Live(a, s)
  PROVE  Closes(a, c, s, K \cup L)
<1>1. /\ Live(b, s) /\ SameRest(a, b) /\ SameItems(a, b) /\ OpenBut(a, b, K)
      /\ (a.started => b.started) /\ Read(b) = Read(a)
    BY DEF Closes
<1>2. /\ Live(c, s) /\ SameRest(b, c) /\ SameItems(b, c) /\ OpenBut(b, c, L)
      /\ (b.started => c.started) /\ Read(c) = Read(b)
    BY DEF Closes
<1>3. DOMAIN a.blocks = DOMAIN b.blocks
  <2>1. Len(b.blocks) = Len(a.blocks)
      BY <1>1 DEF SameItems
  <2>2. DOMAIN a.blocks = 1 .. Len(a.blocks) /\ DOMAIN b.blocks = 1 .. Len(b.blocks)
      BY <1>1, LiveFields
  <2> QED BY <2>1, <2>2
<1>4. SameRest(a, c)
    BY <1>1, <1>2 DEF SameRest
<1>5. SameItems(a, c)
  <2>1. SamePlaces(a, c) /\ Len(c.blocks) = Len(a.blocks)
      BY <1>1, <1>2 DEF SameItems, SamePlaces
  <2>2. ASSUME NEW i \in DOMAIN a.blocks PROVE SameBlock(a, c, i)
    <3>1. SameBlock(a, b, i) /\ SameBlock(b, c, i)
        BY <1>1, <1>2, <1>3 DEF SameItems
    <3> QED BY <3>1 DEF SameBlock
  <2> QED BY <2>1, <2>2 DEF SameItems
<1>6. OpenBut(a, c, K \cup L)
  <2>1. ASSUME NEW j \in DOMAIN a.blocks PROVE c.blocks[j].open <=> a.blocks[j].open /\ j \notin K \cup L
    <3>1. b.blocks[j].open <=> a.blocks[j].open /\ j \notin K
        BY <1>1 DEF OpenBut
    <3>2. c.blocks[j].open <=> b.blocks[j].open /\ j \notin L
        BY <1>2, <1>3 DEF OpenBut
    <3> QED BY <3>1, <3>2
  <2> QED BY <2>1 DEF OpenBut
<1> QED BY <1>1, <1>2, <1>4, <1>5, <1>6 DEF Closes

(* A stream that stays as it is closes nothing.                            *)
LEMMA ClosesNothing ==
  ASSUME NEW a, NEW s, Live(a, s)
  PROVE  Closes(a, a, s, {})
BY DEF Closes, SameRest, SameItems, SamePlaces, SameBlock, OpenBut

(* The function that CloseTools is the last value of.                      *)
ToolStep(a, g, i) == IF i = 0 THEN a
                     ELSE IF a.blocks[i].kind = "tool" THEN CloseBlock(g[i - 1], i) ELSE g[i - 1]
ToolsIs(a, n, g) == g = [i \in 0 .. n |-> ToolStep(a, g, i)]

(* The recursive function of CloseTools exists.                            *)
LEMMA ToolsExists ==
  ASSUME NEW a
  PROVE  \A n \in Nat : \E g : ToolsIs(a, n, g)
<1> DEFINE T == {n \in Nat : \E g : ToolsIs(a, n, g)}
<1>1. 0 \in T
  <2> DEFINE g == [i \in 0 .. 0 |-> a]
  <2>1. ToolsIs(a, 0, g)
      BY DEF ToolsIs, ToolStep
  <2> QED BY <2>1
<1>2. ASSUME NEW n \in Nat, n \in T PROVE n + 1 \in T
  <2>1. PICK g : ToolsIs(a, n, g)
      BY <1>2
  <2> DEFINE h == [i \in 0 .. n + 1 |-> ToolStep(a, g, i)]
  <2>2. \A i \in 0 .. n : g[i] = ToolStep(a, g, i)
      BY <2>1, Zenon DEF ToolsIs
  <2>3. \A i \in 0 .. n : i \in 0 .. n + 1
      OBVIOUS
  <2>4. \A i \in 0 .. n : h[i] = g[i]
      BY <2>2, <2>3, Zenon
  <2>5. ASSUME NEW i \in 0 .. n + 1 PROVE ToolStep(a, h, i) = ToolStep(a, g, i)
    <3>1. CASE i = 0
        BY <3>1 DEF ToolStep
    <3>2. CASE i # 0
      <4>1. i - 1 \in 0 .. n
          BY <3>2
      <4>2. h[i - 1] = g[i - 1]
          BY <2>4, <4>1
      <4> HIDE DEF h
      <4> QED BY <4>2, Zenon DEF ToolStep
    <3> QED BY <3>1, <3>2
  <2>6. h = [i \in 0 .. n + 1 |-> ToolStep(a, h, i)]
      BY <2>5, Zenon
  <2>7. ToolsIs(a, n + 1, h)
      BY <2>6 DEF ToolsIs
  <2> QED BY <2>7
<1> HIDE DEF T
<1>3. \A n \in Nat : n \in T
    BY <1>1, <1>2, SetInduction
<1> QED BY <1>3 DEF T

ToolsTo(a) == CHOOSE g : ToolsIs(a, Len(a.blocks), g)

(* That function, item by item.                                            *)
LEMMA ToolsNext ==
  ASSUME NEW a, Len(a.blocks) \in Nat
  PROVE  /\ CloseTools(a) = ToolsTo(a)[Len(a.blocks)] /\ ToolsTo(a)[0] = a
         /\ \A i \in 1 .. Len(a.blocks) : ToolsTo(a)[i] = IF a.blocks[i].kind = "tool"
                                                          THEN CloseBlock(ToolsTo(a)[i - 1], i)
                                                          ELSE ToolsTo(a)[i - 1]
<1> DEFINE g == ToolsTo(a)
           n == Len(a.blocks)
<1>1. ToolsIs(a, n, g)
    BY ToolsExists, Zenon DEF ToolsTo
<1>2. CloseTools(a) = g[n]
    BY Zenon DEF CloseTools, ToolsTo, ToolsIs, ToolStep
<1>3. 0 \in 0 .. n /\ \A i \in 1 .. n : i \in 0 .. n /\ i # 0
    OBVIOUS
<1> HIDE DEF g, n
<1>4. \A i \in 0 .. n : g[i] = ToolStep(a, g, i)
    BY <1>1, Zenon DEF ToolsIs
<1>5. g[0] = a
    BY <1>3, <1>4, Zenon DEF ToolStep
<1>6. \A i \in 1 .. n : g[i] = IF a.blocks[i].kind = "tool" THEN CloseBlock(g[i - 1], i) ELSE g[i - 1]
    BY <1>3, <1>4, Zenon DEF ToolStep
<1> QED BY <1>2, <1>5, <1>6 DEF g, n

ToolsIn(a, m) == {j \in 1 .. m : a.blocks[j].kind = "tool"}

(* _close_tools, _stop_tools close every call and nothing else.            *)
LEMMA ToolsClosed ==
  ASSUME NEW a, NEW s, Live(a, s)
  PROVE  Closes(a, CloseTools(a), s, ToolsIn(a, Len(a.blocks)))
<1> DEFINE n == Len(a.blocks)
           g == ToolsTo(a)
           T == {m \in Nat : m <= n => Closes(a, g[m], s, ToolsIn(a, m))}
<1>1. n \in Nat
    BY LiveFields
<1>2. /\ CloseTools(a) = g[n] /\ g[0] = a
      /\ \A i \in 1 .. n : g[i] = IF a.blocks[i].kind = "tool" THEN CloseBlock(g[i - 1], i) ELSE g[i - 1]
    BY <1>1, ToolsNext
<1> HIDE DEF g, n
<1>3. 0 \in T
  <2>1. ToolsIn(a, 0) = {}
      BY DEF ToolsIn
  <2>2. Closes(a, g[0], s, ToolsIn(a, 0))
      BY <1>2, <2>1, ClosesNothing
  <2> QED BY <2>2
<1>4. ASSUME NEW m \in Nat, m \in T PROVE m + 1 \in T
  <2> SUFFICES ASSUME m + 1 <= n PROVE Closes(a, g[m + 1], s, ToolsIn(a, m + 1))
      OBVIOUS
  <2>1. m + 1 \in 1 .. n /\ (m + 1) - 1 = m /\ m <= n
      BY <1>1
  <2>2. Closes(a, g[m], s, ToolsIn(a, m))
      BY <1>4, <2>1
  <2>3. CASE a.blocks[m + 1].kind = "tool"
    <3>1. g[m + 1] = CloseBlock(g[m], m + 1)
        BY <1>2, <2>1, <2>3
    <3>2. Live(g[m], s) /\ m + 1 \in 0 .. Len(g[m].blocks)
        BY <2>1, <2>2 DEF Closes, SameItems, n
    <3>3. Closes(g[m], g[m + 1], s, {m + 1})
        BY <3>1, <3>2, BlockClosed
    <3>4. ToolsIn(a, m + 1) = ToolsIn(a, m) \cup {m + 1}
        BY <2>3 DEF ToolsIn
    <3> QED BY <2>2, <3>3, <3>4, ClosesTwice
  <2>4. CASE a.blocks[m + 1].kind # "tool"
    <3>1. g[m + 1] = g[m]
        BY <1>2, <2>1, <2>4
    <3>2. ToolsIn(a, m + 1) = ToolsIn(a, m)
        BY <2>4 DEF ToolsIn
    <3> QED BY <2>2, <3>1, <3>2
  <2> QED BY <2>3, <2>4
<1> HIDE DEF T
<1>5. n \in T
    BY <1>1, <1>3, <1>4, SetInduction
<1>6. Closes(a, g[n], s, ToolsIn(a, n))
    BY <1>1, <1>5 DEF T
<1> QED BY <1>2, <1>6 DEF n

(* CloseAll leaves no item open.                                           *)
LEMMA AllAreClosed ==
  ASSUME NEW a, NEW s, Live(a, s)
  PROVE  /\ Closes(a, CloseAll(a), s, DOMAIN a.blocks)
         /\ AllClosed(CloseAll(a))
<1> DEFINE b == CloseBlock(a, a.think)
           c == CloseBlock(b, a.text)
           e == CloseAll(a)
           K == ({a.think} \cup {a.text}) \cup ToolsIn(c, Len(c.blocks))
<1>1. a.think \in 0 .. Len(a.blocks) /\ a.text \in 0 .. Len(a.blocks)
    BY LiveFields, Zenon DEF Shape
<1>2. Closes(a, b, s, {a.think})
    BY <1>1, BlockClosed
<1>3. Live(b, s) /\ Len(b.blocks) = Len(a.blocks)
    BY <1>2 DEF Closes, SameItems
<1>4. Closes(b, c, s, {a.text})
    BY <1>1, <1>3, BlockClosed
<1>5. Closes(a, c, s, {a.think} \cup {a.text}) /\ Live(c, s)
    BY <1>2, <1>4, ClosesTwice DEF Closes
<1>6. Closes(c, e, s, ToolsIn(c, Len(c.blocks)))
  <2>1. CloseAll(a) = CloseTools(CloseBlock(CloseBlock(a, a.think), a.text))
      BY DEF CloseAll
  <2>2. e = CloseTools(c)
      BY <2>1, Zenon
  <2> HIDE DEF c, e
  <2> QED BY <1>5, <2>2, ToolsClosed
<1> HIDE DEF b, c, e
<1>7. Closes(a, e, s, K)
    BY <1>5, <1>6, ClosesTwice
<1>8. ASSUME NEW j \in DOMAIN a.blocks PROVE j \in K
  <2>1. /\ a.blocks[j].kind = "think" => j = a.think
        /\ a.blocks[j].kind = "text" => j = a.text
    <3>1. Shape(a)
        BY LiveFields
    <3> QED BY <3>1, Zenon DEF Shape
  <2>2. a.blocks[j].kind \in {"think", "text", "tool"}
      BY BlockFields DEF BlockType
  <2>3. c.blocks[j].kind = a.blocks[j].kind /\ j \in 1 .. Len(c.blocks)
      BY <1>5, LiveFields DEF Closes, SameItems, SameBlock
  <2> QED BY <2>1, <2>2, <2>3 DEF ToolsIn
<1> HIDE DEF K
<1>9. OpenBut(a, e, K)
    BY <1>7 DEF Closes
<1>10. OpenBut(a, e, DOMAIN a.blocks)
    BY <1>8, <1>9 DEF OpenBut
<1>11. Closes(a, e, s, DOMAIN a.blocks)
    BY <1>7, <1>10 DEF Closes
<1>12. AllClosed(e)
  <2>1. Live(e, s) /\ Len(e.blocks) = Len(a.blocks)
      BY <1>7 DEF Closes, SameItems
  <2>2. DOMAIN e.blocks = DOMAIN a.blocks
      BY <2>1, LiveFields
  <2> QED BY <1>10, <2>2 DEF AllClosed, OpenBut
<1> QED BY <1>11, <1>12 DEF e

(* Where nothing is open nothing is closed.                                *)
LEMMA NothingToClose ==
  ASSUME NEW a, NEW s, Good(a, s), AllClosed(a)
  PROVE  CloseAll(a) = a
<1> DEFINE n == Len(a.blocks)
           g == ToolsTo(a)
           T == {m \in Nat : m <= n => g[m] = a}
<1>1. n \in Nat /\ DOMAIN a.blocks = 1 .. n
  <2>1. a.blocks \in Seq(BlockType)
      BY DEF Good, AsmType
  <2> QED BY <2>1
<1>2. /\ CloseTools(a) = g[n] /\ g[0] = a
      /\ \A i \in 1 .. n : g[i] = IF a.blocks[i].kind = "tool" THEN CloseBlock(g[i - 1], i) ELSE g[i - 1]
    BY <1>1, ToolsNext
<1> HIDE DEF g, n
<1>3. ASSUME NEW i \in 0 .. n PROVE CloseBlock(a, i) = a
    BY <1>1, <1>3 DEF AllClosed, CloseBlock, IsOpen
<1>4. 0 \in T
    BY <1>2
<1>5. ASSUME NEW m \in Nat, m \in T PROVE m + 1 \in T
  <2> SUFFICES ASSUME m + 1 <= n PROVE g[m + 1] = a
      OBVIOUS
  <2>1. m + 1 \in 1 .. n /\ (m + 1) - 1 = m /\ m <= n /\ m + 1 \in 0 .. n
      BY <1>1
  <2>2. g[m] = a
      BY <1>5, <2>1
  <2>3. g[m + 1] = IF a.blocks[m + 1].kind = "tool" THEN CloseBlock(a, m + 1) ELSE a
      BY <1>2, <2>1, <2>2
  <2> QED BY <1>3, <2>1, <2>3, Zenon
<1> HIDE DEF T
<1>6. n \in T
    BY <1>1, <1>4, <1>5, SetInduction
<1>7. CloseTools(a) = a
    BY <1>1, <1>2, <1>6 DEF T
<1>8. a.think \in 0 .. n /\ a.text \in 0 .. n
  <2>1. Shape(a)
      BY DEF Good
  <2> QED BY <2>1, Zenon DEF Shape, n
<1>9. CloseBlock(a, a.think) = a /\ CloseBlock(a, a.text) = a
    BY <1>3, <1>8
<1> QED BY <1>7, <1>9, Zenon DEF CloseAll

-----------------------------------------------------------------------------
(* The end of a stream.                                                    *)

(* The event that ends a stream.                                           *)
Ends(a, b, x) ==
    /\ b.ev = Append(a.ev, x) /\ x.e \in Last2 /\ b.over = x.e
    /\ b.blocks = a.blocks /\ b.started = a.started /\ SamePlaces(a, b)
    /\ x.e = "completed" => AllClosed(a)
    /\ x.e = "failed" => a.started

(* The concluding event keeps the stream well formed.                      *)
LEMMA EndItem ==
  ASSUME NEW a, NEW s, Live(a, s), NEW b \in AsmType, NEW x \in EvType, Ends(a, b, x)
  PROVE  /\ Good(b, s) /\ Read(b) = Read(a)
         /\ b.ev # <<>> /\ b.ev[Len(b.ev)] = x /\ b.over = x.e
<1> DEFINE n == Len(a.ev)
<1>1. /\ a \in AsmType /\ Shape(a) /\ Known(a) /\ Concluded(a) /\ AllFit(a.ev, s)
      /\ a.ev \in Seq(EvType) /\ n \in Nat /\ DOMAIN a.ev = 1 .. n
    BY LiveFields
<1>2. x.e \in Last2 /\ b.over = x.e /\ b.blocks = a.blocks /\ b.think = a.think /\ b.text = a.text
    BY DEF Ends, SamePlaces
<1>3. /\ Len(b.ev) = n + 1 /\ DOMAIN b.ev = 1 .. n + 1 /\ b.ev # <<>>
      /\ b.ev[n + 1] = x /\ \A k \in 1 .. n : b.ev[k] = a.ev[k]
  <2> DEFINE w == Append(a.ev, x)
  <2>1. /\ Len(w) = n + 1 /\ DOMAIN w = 1 .. n + 1 /\ w # <<>>
        /\ w[n + 1] = x /\ \A k \in 1 .. n : w[k] = a.ev[k]
      BY <1>1, AppendProperties
  <2>2. b.ev = w
      BY DEF Ends
  <2> HIDE DEF w, n
  <2> QED BY <2>1, <2>2
<1>4. \A k \in 1 .. n : a.ev[k].e \notin Last2
  <2>1. a.over = ""
      BY DEF Live
  <2>2. \A k \in DOMAIN a.ev : a.ev[k].e \in Last2 => a.over = a.ev[k].e
      BY <1>1, Zenon DEF Concluded
  <2> HIDE DEF n
  <2>3. "" \notin Last2
      BY DEF Last2
  <2> QED BY <1>1, <2>1, <2>2, <2>3, Zenon
<1>5. Fits(Append(a.ev, x), n + 1, s)
  <2>1. Append(a.ev, x)[n + 1] = x
      BY <1>1, AppendProperties
  <2>2. x.e = "failed" => n + 1 # 1
    <3>1. x.e = "failed" => a.ev # <<>>
        BY <1>1, Zenon DEF Ends, Shape
    <3>2. a.ev # <<>> => n # 0
        BY <1>1, EmptySeq
    <3> QED BY <1>1, <3>1, <3>2
  <2> HIDE DEF n
  <2> QED BY <1>2, <2>1, <2>2 DEF Fits, Last2
<1>6. AllFit(b.ev, s)
  <2>1. AllFit(Append(a.ev, x), s)
      BY <1>1, <1>5, FitsAppend
  <2> QED BY <2>1 DEF Ends
<1>7. Concluded(b)
  <2>1. ASSUME NEW k \in DOMAIN b.ev, b.ev[k].e \in Last2 PROVE k = Len(b.ev) /\ b.over = b.ev[k].e
    <3>1. k = n + 1 \/ k \in 1 .. n
        BY <1>1, <1>3
    <3> HIDE DEF n
    <3> QED BY <1>2, <1>3, <1>4, <2>1, <3>1
  <2>2. b.over = "completed" => AllClosed(b)
      BY <1>2 DEF Ends, AllClosed
  <2>3. b.ev # <<>> /\ b.ev[Len(b.ev)].e = b.over
      BY <1>2, <1>3
  <2> QED BY <2>1, <2>2, <2>3 DEF Concluded
<1>8. Known(b)
  <2>1. ASSUME NEW k \in DOMAIN b.ev, b.ev[k].e \in Items3 PROVE b.ev[k].i \in DOMAIN b.blocks
    <3>1. k = n + 1 \/ k \in 1 .. n
        BY <1>1, <1>3
    <3>2. x.e \notin Items3
        BY <1>2 DEF Last2, Items3
    <3>3. \A j \in DOMAIN a.ev : a.ev[j].e \in Items3 => a.ev[j].i \in DOMAIN a.blocks
        BY <1>1, Zenon DEF Known
    <3> HIDE DEF n
    <3> QED BY <1>1, <1>2, <1>3, <2>1, <3>1, <3>2, <3>3
  <2>2. \A e \in {"open", "close"} : \A i : Times(b.ev, e, i, n + 1) = Times(a.ev, e, i, n)
    <3>1. ASSUME NEW e \in {"open", "close"}, NEW i PROVE Times(Append(a.ev, x), e, i, n + 1) = Times(a.ev, e, i, n)
      <4>1. x.e # e
          BY <1>2 DEF Last2
      <4> QED BY <1>1, <4>1, TimesNow
    <3>2. b.ev = Append(a.ev, x)
        BY DEF Ends
    <3> HIDE DEF n
    <3> QED BY <3>1, <3>2
  <2>3. \A i \in DOMAIN b.blocks :
          /\ Times(a.ev, "open", i, n) > 0
          /\ Times(a.ev, "open", i, n) = Times(a.ev, "close", i, n) + (IF b.blocks[i].open THEN 1 ELSE 0)
      BY <1>1, <1>2, Zenon DEF Known
  <2> HIDE DEF n
  <2>4. \A i \in DOMAIN b.blocks :
          /\ Times(b.ev, "open", i, Len(b.ev)) > 0
          /\ Times(b.ev, "open", i, Len(b.ev)) = Times(b.ev, "close", i, Len(b.ev)) + (IF b.blocks[i].open THEN 1 ELSE 0)
    <3>1. \A i : /\ Times(b.ev, "open", i, Len(b.ev)) = Times(a.ev, "open", i, n)
                 /\ Times(b.ev, "close", i, Len(b.ev)) = Times(a.ev, "close", i, n)
        BY <1>3, <2>2
    <3> QED BY <2>3, <3>1, Zenon
  <2> QED BY <2>1, <2>4, Zenon DEF Known
<1>9. Shape(b)
  <2>1. b.over # ""
      BY <1>2 DEF Last2
  <2>2. b.started = a.started
      BY DEF Ends
  <2> QED BY <1>1, <1>2, <1>3, <2>1, <2>2, Zenon DEF Shape
<1>10. Read(b) = Read(a)
  <2>1. \A k \in DOMAIN a.ev : PieceAt(b, k) <=> PieceAt(a, k)
    <3> HIDE DEF n
    <3> QED BY <1>1, <1>2, <1>3 DEF PieceAt
  <2>2. ~PieceAt(b, n + 1)
    <3> HIDE DEF n
    <3> QED BY <1>2, <1>3 DEF PieceAt, Last2
  <2>3. /\ Data(b.ev) = Append(Data(a.ev), x.d) /\ Data(a.ev) \in Seq(DataType) /\ x.d \in DataType
        /\ Len(Data(a.ev)) = n
    <3>1. Data(Append(a.ev, x)) = Append(Data(a.ev), x.d) /\ Data(a.ev) \in Seq(DataType) /\ x.d \in DataType
          /\ Len(Data(a.ev)) = n
        BY <1>1, DataAppend
    <3> QED BY <3>1 DEF Ends
  <2>4. /\ n + 1 \notin ReadAt(b)
        /\ \A i \in 1 .. n : i \in ReadAt(a) <=> i \in ReadAt(b)
    <3> HIDE DEF n
    <3> QED BY <1>1, <1>3, <2>1, <2>2 DEF ReadAt
  <2> HIDE DEF n
  <2>5. Kept(Append(Data(a.ev), x.d), ReadAt(b)) = Kept(Data(a.ev), ReadAt(a))
      BY <2>3, <2>4, KeptAppend
  <2> QED BY <2>3, <2>5 DEF Read
<1> HIDE DEF n
<1> QED BY <1>2, <1>3, <1>6, <1>7, <1>8, <1>9, <1>10 DEF Good, n

Typed == {"responses", "anthropic"}
Told(u) == IF u = -1 THEN 0 ELSE u
EndOf(proto, finish) == IF proto = "responses" THEN ResponsesStatus(finish) ELSE AnthropicFinish(finish)

(* What the concluding event says.                                         *)
SaysEnd(proto, b, finish, usage) ==
    /\ b.over = "completed" /\ b.ev # <<>>
    /\ b.ev[Len(b.ev)].e = "completed" /\ b.ev[Len(b.ev)].i = EndOf(proto, finish)
    /\ usage # -1 => b.ev[Len(b.ev)].d = usage
Sealed(a, b) == b.blocks = a.blocks /\ SamePlaces(a, b) /\ b.finish = a.finish /\ Read(b) = Read(a)

EndedBy(a, over, x) == Emit([a EXCEPT !.over = over], x)

(* What the concluding event changes.                                      *)
LEMMA EndedByFields ==
  ASSUME NEW a, NEW s, Live(a, s), NEW over \in Last2, NEW x \in EvType
  PROVE  LET b == EndedBy(a, over, x) IN
         /\ b \in AsmType /\ b.started = a.started /\ SamePlaces(a, b) /\ b.blocks = a.blocks
         /\ b.over = over /\ b.finish = a.finish /\ b.ev = Append(a.ev, x)
<1> DEFINE b == EndedBy(a, over, x)
           ev == Append(a.ev, x)
<1>1. a \in AsmType /\ a.ev \in Seq(EvType)
    BY LiveFields
<1>2. b = [a EXCEPT !.over = over, !.ev = ev]
    BY <1>1 DEF EndedBy, Emit, AsmType
<1>3. ev \in Seq(EvType)
    BY <1>1, AppendProperties
<1> HIDE DEF ev, b
<1>4. /\ b \in AsmType /\ b.started = a.started /\ SamePlaces(a, b) /\ b.blocks = a.blocks
      /\ b.over = over /\ b.finish = a.finish /\ b.ev = ev
    BY <1>1, <1>2, <1>3 DEF AsmType, SamePlaces, Last2
<1> QED BY <1>4 DEF b, ev

(* The terminal event of the Responses protocol, message_delta of the other *)
LEMMA ConcludedNow ==
  ASSUME NEW a, NEW s, Live(a, s), AllClosed(a), NEW proto \in Typed
  PROVE  LET b == Conclude(proto, a) IN
         Good(b, s) /\ SaysEnd(proto, b, a.finish, a.usage) /\ Sealed(a, b)
<1> DEFINE b == Conclude(proto, a)
           d == IF proto = "responses" THEN a.usage ELSE Told(a.usage)
           x == Ev("completed", EndOf(proto, a.finish), d)
<1>1. a \in AsmType /\ a.over = ""
    BY LiveFields DEF Live
<1>2. b = EndedBy(a, "completed", x)
    BY <1>1 DEF Typed, Conclude, Terminal, MessageDelta, EndedBy, EndOf, Ev, Told
<1>3. x \in EvType /\ x.e = "completed" /\ x.i = EndOf(proto, a.finish) /\ x.d = d
  <2>1. EndOf(proto, a.finish) \in EndNames
      BY DEF EndOf, EndNames, ResponsesStatus, AnthropicFinish
  <2>2. d \in DataType
    <3>1. a.usage \in {-1, 0, 1}
        BY <1>1 DEF AsmType
    <3>2. d \in Int
        BY <3>1 DEF Told
    <3> HIDE DEF d
    <3> QED BY <3>2 DEF DataType
  <2>3. "completed" \in EventNames
      BY DEF EventNames
  <2> HIDE DEF d
  <2> QED BY <2>1, <2>2, <2>3 DEF Ev, EvType
<1>4. a.usage # -1 => d = a.usage
    BY DEF Told
<1> HIDE DEF x, b, d
<1>5. /\ b \in AsmType /\ b.started = a.started /\ SamePlaces(a, b) /\ b.blocks = a.blocks
      /\ b.over = "completed" /\ b.finish = a.finish /\ b.ev = Append(a.ev, x)
    BY <1>2, <1>3, EndedByFields DEF Last2
<1>6. Ends(a, b, x)
    BY <1>3, <1>5 DEF Ends, Last2
<1>7. Good(b, s) /\ Read(b) = Read(a) /\ b.ev # <<>> /\ b.ev[Len(b.ev)] = x
    BY <1>3, <1>5, <1>6, EndItem
<1>8. SaysEnd(proto, b, a.finish, a.usage)
    BY <1>3, <1>4, <1>5, <1>7 DEF SaysEnd
<1> QED BY <1>5, <1>7, <1>8 DEF Sealed, b

(* A stream is concluded once.                                             *)
LEMMA ConcludedBefore ==
  ASSUME NEW a, NEW proto, a.over # ""
  PROVE  Conclude(proto, a) = a
BY DEF Conclude, Terminal, MessageDelta

(* failed_event.                                                           *)
LEMMA FailedNow ==
  ASSUME NEW a, NEW s, Live(a, s), NEW proto \in Typed
  PROVE  LET b == Failed(proto, a) IN
         /\ Good(b, s) /\ Read(b) = Read(a) /\ b.ev # <<>> /\ b.ev[Len(b.ev)].e = "failed"
<1> DEFINE b == Failed(proto, a)
           c == EnsureStarted(a)
           x == Ev("failed", 0, 0)
<1>1. a.over = ""
    BY DEF Live
<1>2. b = EndedBy(c, "failed", x)
    BY <1>1 DEF Typed, Failed, EndedBy, Ev
<1>3. x \in EvType /\ x.e = "failed"
    BY EvTyped DEF EventNames, DataType
<1>4. Running(c, s) /\ Read(c) = Read(a)
    BY Started
<1> HIDE DEF x, b, c
<1>5. Live(c, s) /\ c.started
    BY <1>4 DEF Running
<1>6. /\ b \in AsmType /\ b.started = c.started /\ SamePlaces(c, b) /\ b.blocks = c.blocks
      /\ b.over = "failed" /\ b.finish = c.finish /\ b.ev = Append(c.ev, x)
    BY <1>2, <1>3, <1>5, EndedByFields, ZenonT(40) DEF Last2
<1>7. Ends(c, b, x)
    BY <1>3, <1>5, <1>6 DEF Ends, Last2
<1>8. Good(b, s) /\ Read(b) = Read(c) /\ b.ev # <<>> /\ b.ev[Len(b.ev)] = x
    BY <1>3, <1>5, <1>6, <1>7, EndItem
<1> QED BY <1>3, <1>4, <1>8 DEF b

(* The reason for the end and the tokens are noted.                        *)
Noted(a, b) == /\ b.blocks = a.blocks /\ b.ev = a.ev /\ b.started = a.started /\ b.over = a.over
               /\ SamePlaces(a, b)

(* A reason or a count that is noted tells the client nothing.             *)
LEMMA NotedIsGood ==
  ASSUME NEW a, NEW s, Good(a, s), NEW b \in AsmType, Noted(a, b)
  PROVE  Good(b, s) /\ Read(b) = Read(a)
<1>1. Shape(a) /\ Known(a) /\ Concluded(a) /\ AllFit(a.ev, s)
    BY DEF Good
<1>2. /\ b.blocks = a.blocks /\ b.ev = a.ev /\ b.started = a.started /\ b.over = a.over
      /\ b.think = a.think /\ b.text = a.text
    BY DEF Noted, SamePlaces
<1>3. Shape(b)
    BY <1>1, <1>2, Zenon DEF Shape
<1>4. Known(b)
    BY <1>1, <1>2, Zenon DEF Known
<1>5. Concluded(b)
    BY <1>1, <1>2, Zenon DEF Concluded, AllClosed
<1>6. AllFit(b.ev, s)
    BY <1>1, <1>2, Zenon
<1>7. Read(b) = Read(a)
    BY <1>2, Zenon DEF Read, ReadAt, PieceAt
<1> QED BY <1>3, <1>4, <1>5, <1>6, <1>7 DEF Good

(* The reason is noted.                                                    *)
LEMMA FinishNoted ==
  ASSUME NEW a, NEW s, Live(a, s), NEW f \in FinishReasons
  PROVE  LET b == [a EXCEPT !.finish = f] IN
         /\ Live(b, s) /\ Noted(a, b) /\ b.finish = f /\ b.usage = a.usage /\ Read(b) = Read(a)
<1> DEFINE b == [a EXCEPT !.finish = f]
<1>1. a \in AsmType /\ Good(a, s) /\ a.over = ""
    BY LiveFields DEF Live
<1>2. b \in AsmType /\ Noted(a, b) /\ b.finish = f /\ b.usage = a.usage
    BY <1>1 DEF AsmType, Noted, SamePlaces
<1> HIDE DEF b
<1>3. Good(b, s) /\ Read(b) = Read(a)
    BY <1>1, <1>2, NotedIsGood
<1>4. b.over = ""
    BY <1>1, <1>2 DEF Noted
<1> QED BY <1>2, <1>3, <1>4 DEF Live, b

(* The tokens are noted.                                                   *)
LEMMA UsageNoted ==
  ASSUME NEW a, NEW s, Live(a, s), NEW u \in {0, 1}
  PROVE  LET b == [a EXCEPT !.usage = u] IN
         /\ Live(b, s) /\ Noted(a, b) /\ b.finish = a.finish /\ b.usage = u /\ Read(b) = Read(a)
<1> DEFINE b == [a EXCEPT !.usage = u]
<1>1. a \in AsmType /\ Good(a, s) /\ a.over = ""
    BY LiveFields DEF Live
<1>2. b \in AsmType /\ Noted(a, b) /\ b.finish = a.finish /\ b.usage = u
    BY <1>1 DEF AsmType, Noted, SamePlaces
<1> HIDE DEF b
<1>3. Good(b, s) /\ Read(b) = Read(a)
    BY <1>1, <1>2, NotedIsGood
<1>4. b.over = ""
    BY <1>1, <1>2 DEF Noted
<1> QED BY <1>2, <1>3, <1>4 DEF Live, b

-----------------------------------------------------------------------------
(* A piece of reasoning or text.                                           *)

Prose == {"think", "text"}
Other(kind)    == IF kind = "think" THEN "text" ELSE "think"
Place(a, kind) == IF kind = "think" THEN a.think ELSE a.text
Buf(a, i)      == IF i = 0 THEN <<>> ELSE a.blocks[i].buf

(* The place of the reasoning, or of the text, is that of its item.        *)
LEMMA PlaceFields ==
  ASSUME NEW a, NEW s, Live(a, s), NEW kind \in Prose
  PROVE  /\ Place(a, kind) \in 0 .. Len(a.blocks)
         /\ Place(a, kind) # 0 => /\ Place(a, kind) \in DOMAIN a.blocks
                                  /\ a.blocks[Place(a, kind)].kind = kind
                                  /\ Place(a, kind) # Place(a, Other(kind))
<1>1. Shape(a) /\ Len(a.blocks) \in Nat /\ DOMAIN a.blocks = 1 .. Len(a.blocks)
    BY LiveFields
<1>2. a.think \in 0 .. Len(a.blocks) /\ a.text \in 0 .. Len(a.blocks)
    BY <1>1, Zenon DEF Shape
<1>3. (a.think # 0 => a.blocks[a.think].kind = "think") /\ (a.text # 0 => a.blocks[a.text].kind = "text")
    BY <1>1, Zenon DEF Shape
<1> QED BY <1>1, <1>2, <1>3 DEF Place, Other, Prose

(* What the item of the reasoning, or of the text, is after it was looked  *)
(* for: it keeps its place, or takes the next.                             *)
PlaceKept(a, b, kind) ==
    /\ Place(a, kind) # 0 => Place(b, kind) = Place(a, kind) /\ Len(b.blocks) = Len(a.blocks)
    /\ Place(a, kind) = 0 => Place(b, kind) = Len(a.blocks) + 1 /\ Len(b.blocks) = Len(a.blocks) + 1
    /\ Place(b, Other(kind)) = Place(a, Other(kind))
Ready(a, b, s, kind) ==
    /\ Running(b, s) /\ SameRest(a, b) /\ Read(b) = Read(a) /\ PlaceKept(a, b, kind)
    /\ \A i \in DOMAIN a.blocks : SameBlock(a, b, i)
    /\ Place(a, kind) = 0 => b.blocks[Place(b, kind)].buf = <<>>

NewItem(a, kind) == IF kind = "think" THEN [AddBlock(a, "think", <<>>) EXCEPT !.think = Len(a.blocks) + 1]
                    ELSE [AddBlock(a, "text", <<>>) EXCEPT !.text = Len(a.blocks) + 1]

(* An item that is new is ready for its first piece.                       *)
LEMMA NewReady ==
  ASSUME NEW a, NEW s, Running(a, s), NEW kind \in Prose, Place(a, kind) = 0
  PROVE  LET b == NewItem(a, kind) IN
         Ready(a, b, s, kind) /\ SameOpen(a, b) /\ IsOpenNow(b, Place(b, kind))
<1> DEFINE b == NewItem(a, kind)
           n == Len(a.blocks)
<1>1. Live(a, s)
    BY DEF Running
<1>2. b \in AsmType /\ Added(a, b, kind, <<>>) /\ Fitting(kind, <<>>)
  <2>1. CASE kind = "think"
    <3>1. a.think = 0
        BY <2>1 DEF Place
    <3> QED BY <2>1, <3>1, NewThink DEF NewItem
  <2>2. CASE kind = "text"
    <3>1. a.text = 0
        BY <2>2 DEF Place
    <3> QED BY <2>2, <3>1, NewText DEF NewItem
  <2> QED BY <2>1, <2>2 DEF Prose
<1> HIDE DEF b
<1>3. Running(b, s) /\ Read(b) = Read(a)
    BY <1>2, AddItem
<1>4. /\ Len(b.blocks) = n + 1 /\ DOMAIN b.blocks = 1 .. n + 1
      /\ \A i \in 1 .. n : b.blocks[i] = a.blocks[i]
      /\ b.blocks[n + 1].buf = <<>> /\ b.blocks[n + 1].open
    BY <1>1, <1>2, AddedBlocks
<1>5. n \in Nat /\ DOMAIN a.blocks = 1 .. n
    BY <1>1, LiveFields
<1> HIDE DEF n
<1>6. SameRest(a, b) /\ NewPlaces(a, b, kind)
    BY <1>2 DEF Added
<1>7. PlaceKept(a, b, kind) /\ Place(b, kind) = n + 1
    BY <1>4, <1>6 DEF PlaceKept, NewPlaces, Place, Other, Prose, n
<1>8. SameOpen(a, b) /\ \A i \in DOMAIN a.blocks : SameBlock(a, b, i)
    BY <1>4, <1>5 DEF SameOpen, SameBlock
<1>9. IsOpenNow(b, Place(b, kind))
    BY <1>4, <1>5, <1>7 DEF IsOpenNow
<1>10. b.blocks[Place(b, kind)].buf = <<>>
    BY <1>4, <1>7
<1> QED BY <1>3, <1>6, <1>7, <1>8, <1>9, <1>10 DEF Ready, b

(* An item that was there is ready as it was.                              *)
LEMMA OldReady ==
  ASSUME NEW a, NEW s, Running(a, s), NEW kind \in Prose, Place(a, kind) # 0, NEW b,
         Running(b, s), SameRest(a, b), SameItems(a, b), Read(b) = Read(a)
  PROVE  Ready(a, b, s, kind)
<1>1. PlaceKept(a, b, kind)
    BY DEF PlaceKept, Place, Other, Prose, SameItems, SamePlaces
<1> QED BY <1>1 DEF Ready, SameItems

(* A piece is added to the item that is ready for it.                      *)
PieceFed(a, b, s, kind, d) ==
    /\ Running(b, s) /\ SameRest(a, b) /\ PlaceKept(a, b, kind)
    /\ Read(a) \in Seq(DataType) /\ Read(b) = Append(Read(a), d)
    /\ \A i \in DOMAIN a.blocks : i # Place(b, kind) => SameBlock(a, b, i)
    /\ b.blocks[Place(b, kind)].kind = kind
    /\ Buf(a, Place(a, kind)) \in Seq(Nat)
    /\ Buf(b, Place(b, kind)) = Append(Buf(a, Place(a, kind)), d)

(* AddPiece on a ready item adds the piece to it and to what was read.     *)
LEMMA PieceIsFed ==
  ASSUME NEW a, NEW s, Live(a, s), NEW c, NEW kind \in Prose, Ready(a, c, s, kind), NEW d \in Nat,
         s => IsOpenNow(c, Place(c, kind))
  PROVE  LET b == AddPiece(c, Place(c, kind), d) IN
         PieceFed(a, b, s, kind, d) /\ SameOpen(c, b) /\ Len(b.blocks) = Len(c.blocks)
<1> DEFINE i == Place(c, kind)
           b == AddPiece(c, i, d)
           n == Len(a.blocks)
<1>1. Running(c, s) /\ Live(c, s) /\ PlaceKept(a, c, kind) /\ SameRest(a, c) /\ Read(c) = Read(a)
    BY DEF Ready, Running
<1>2. n \in Nat /\ DOMAIN a.blocks = 1 .. n /\ DOMAIN c.blocks = 1 .. Len(c.blocks)
    BY <1>1, LiveFields
<1>3. i # 0
    BY <1>1, <1>2 DEF PlaceKept
<1>4. i \in DOMAIN c.blocks /\ c.blocks[i].kind = kind /\ i # Place(c, Other(kind))
    BY <1>1, <1>3, PlaceFields
<1>5. c.blocks[i].kind # "tool"
    BY <1>4 DEF Prose
<1> HIDE DEF i, b, n
<1>6. /\ Running(b, s) /\ SameRest(c, b) /\ SamePlaces(c, b) /\ Len(b.blocks) = Len(c.blocks)
      /\ SameOpen(c, b) /\ b.blocks[i].kind = c.blocks[i].kind
      /\ c.blocks[i].buf \in Seq(Nat) /\ b.blocks[i].buf = Append(c.blocks[i].buf, d)
      /\ \A j \in DOMAIN c.blocks : j # i => SameBlock(c, b, j)
      /\ Read(c) \in Seq(DataType) /\ Read(b) = Append(Read(c), d)
    BY <1>1, <1>4, <1>5, PieceAdded, SMTT(30) DEF b, i
<1>7. Place(b, kind) = i /\ Place(b, Other(kind)) = Place(c, Other(kind))
    BY <1>6 DEF Place, Other, SamePlaces, i
<1>8. PlaceKept(a, b, kind)
    BY <1>1, <1>6, <1>7 DEF PlaceKept, i
<1>9. DOMAIN a.blocks \subseteq DOMAIN c.blocks
    BY <1>1, <1>2 DEF PlaceKept, n
<1>10. \A j \in DOMAIN a.blocks : j # i => SameBlock(a, b, j)
  <2>1. \A j \in DOMAIN a.blocks : SameBlock(a, c, j)
      BY DEF Ready
  <2> QED BY <1>6, <1>9, <2>1 DEF SameBlock
<1>11. Buf(a, Place(a, kind)) = c.blocks[i].buf
  <2>1. CASE Place(a, kind) = 0
    <3>1. c.blocks[i].buf = <<>>
        BY <2>1 DEF Ready, i
    <3> QED BY <2>1, <3>1 DEF Buf
  <2>2. CASE Place(a, kind) # 0
    <3>1. i = Place(a, kind) /\ i \in DOMAIN a.blocks
        BY <1>1, <2>2, PlaceFields DEF PlaceKept, i
    <3>2. SameBlock(a, c, i)
        BY <3>1 DEF Ready
    <3> QED BY <1>3, <3>1, <3>2 DEF Buf, SameBlock
  <2> QED BY <2>1, <2>2
<1>12. Buf(b, i) = b.blocks[i].buf
    BY <1>3 DEF Buf
<1>13. SameRest(a, b)
    BY <1>1, <1>6 DEF SameRest
<1>14. PieceFed(a, b, s, kind, d)
    BY <1>1, <1>4, <1>6, <1>7, <1>8, <1>10, <1>11, <1>12, <1>13 DEF PieceFed
<1> QED BY <1>6, <1>14 DEF b, i

(* One item as it was, but for what is open.                               *)
Like(a, b, s) == Running(b, s) /\ SameRest(a, b) /\ SameItems(a, b) /\ Read(b) = Read(a)

(* Closing another item first changes nothing for the item that is ready.  *)
LEMMA ReadyFrom ==
  ASSUME NEW a, NEW s, Live(a, s), NEW b, Like(a, b, s), NEW kind \in Prose, NEW c, Ready(b, c, s, kind)
  PROVE  Ready(a, c, s, kind)
<1>1. Live(b, s) /\ SameItems(a, b) /\ SameRest(a, b) /\ Read(b) = Read(a)
    BY DEF Like, Running
<1>2. DOMAIN b.blocks = DOMAIN a.blocks /\ Len(b.blocks) = Len(a.blocks)
    BY <1>1, LiveFields DEF SameItems
<1>3. /\ Running(c, s) /\ SameRest(b, c) /\ Read(c) = Read(b) /\ PlaceKept(b, c, kind)
      /\ \A i \in DOMAIN b.blocks : SameBlock(b, c, i)
      /\ Place(b, kind) = 0 => c.blocks[Place(c, kind)].buf = <<>>
    BY DEF Ready
<1>4. Place(b, kind) = Place(a, kind) /\ Place(b, Other(kind)) = Place(a, Other(kind))
    BY <1>1 DEF Place, Other, SameItems, SamePlaces
<1>5. PlaceKept(a, c, kind)
    BY <1>2, <1>3, <1>4 DEF PlaceKept
<1>6. SameRest(a, c)
    BY <1>1, <1>3 DEF SameRest
<1>7. \A i \in DOMAIN a.blocks : SameBlock(a, c, i)
    BY <1>1, <1>2, <1>3 DEF SameItems, SameBlock
<1> QED BY <1>1, <1>3, <1>4, <1>5, <1>6, <1>7 DEF Ready

(* The first event leaves everything as it was.                            *)
LEMMA StartedLike ==
  ASSUME NEW a, NEW s, Live(a, s)
  PROVE  Like(a, EnsureStarted(a), s) /\ SameOpen(a, EnsureStarted(a))
BY Started DEF Like

(* So does closing another item, but for that item.                        *)
LEMMA ClosedLike ==
  ASSUME NEW a, NEW s, Live(a, s), NEW i \in 0 .. Len(a.blocks)
  PROVE  LET b == CloseBlock(EnsureStarted(a), i) IN
         Like(a, b, s) /\ OpenBut(a, b, {i})
<1> DEFINE c == EnsureStarted(a)
           b == CloseBlock(c, i)
<1>1. Running(c, s) /\ SameRest(a, c) /\ SameItems(a, c) /\ SameOpen(a, c) /\ Read(c) = Read(a)
    BY Started
<1> HIDE DEF c
<1>2. Live(c, s) /\ c.started /\ Len(c.blocks) = Len(a.blocks)
    BY <1>1 DEF Running, SameItems
<1>3. Closes(c, b, s, {i})
    BY <1>2, BlockClosed
<1>4. Closes(a, c, s, {})
    BY <1>1, <1>2 DEF Closes, OpenBut, SameOpen
<1>5. Closes(a, b, s, {} \cup {i})
    BY <1>3, <1>4, ClosesTwice
<1> HIDE DEF b
<1>6. Running(b, s)
    BY <1>2, <1>3 DEF Closes, Running
<1> QED BY <1>5, <1>6 DEF Closes, Like, OpenBut, b, c

(* The items of a Responses stream that may still get pieces.              *)
ROpen(a) == /\ a.think # 0 /\ a.text = 0 => IsOpenNow(a, a.think)
            /\ a.text # 0 => IsOpenNow(a, a.text)

(* ResponsesStreamAssembler: a piece of reasoning.                         *)
LEMMA ThinkFedR ==
  ASSUME NEW a, NEW s, Live(a, s), NEW d \in Nat, ROpen(a), (a.think # 0 /\ a.text # 0) => ~s
  PROVE  PieceFed(a, ReasoningDeltaR(a, d), s, "think", d) /\ ROpen(ReasoningDeltaR(a, d))
<1> DEFINE b == EnsureStarted(a)
           c == IF b.think = 0 THEN NewItem(b, "think") ELSE b
           r == AddPiece(c, Place(c, "think"), d)
<1>0. "think" \in Prose
    BY DEF Prose
<1>1. Like(a, b, s) /\ SameOpen(a, b)
    BY StartedLike
<1>2. ReasoningDeltaR(a, d) = r
  <2>1. r = AddPiece(c, c.think, d)
      BY DEF Place
  <2> QED BY <2>1 DEF ReasoningDeltaR, NewItem
<1> HIDE DEF b
<1>3. Running(b, s) /\ b.think = a.think /\ b.text = a.text /\ Len(b.blocks) = Len(a.blocks)
    BY <1>1 DEF Like, SameItems, SamePlaces
<1>4. DOMAIN a.blocks = 1 .. Len(a.blocks) /\ DOMAIN b.blocks = 1 .. Len(a.blocks) /\ Len(a.blocks) \in Nat
    BY <1>3, LiveFields DEF Running
<1>5. Ready(b, c, s, "think") /\ SameOpen(b, c) /\ (a.think = 0 => IsOpenNow(c, Place(c, "think")))
  <2>1. CASE b.think = 0
    <3>1. c = NewItem(b, "think") /\ Place(b, "think") = 0
        BY <2>1 DEF Place
    <3> HIDE DEF c
    <3> QED BY <1>0, <1>3, <3>1, NewReady
  <2>2. CASE b.think # 0
    <3>1. c = b /\ Place(b, "think") # 0
        BY <2>2 DEF Place
    <3>2. SameRest(b, b) /\ SameItems(b, b) /\ SameOpen(b, b)
        BY DEF SameRest, SameItems, SamePlaces, SameBlock, SameOpen
    <3> HIDE DEF c
    <3> QED BY <1>0, <1>3, <2>2, <3>1, <3>2, OldReady
  <2> QED BY <2>1, <2>2
<1> HIDE DEF c
<1>6. Ready(a, c, s, "think")
    BY <1>0, <1>1, <1>5, ReadyFrom
<1>7. ASSUME NEW i \in DOMAIN a.blocks, IsOpenNow(a, i) PROVE IsOpenNow(c, i)
  <2>1. a.blocks[i].open /\ i \in DOMAIN b.blocks
      BY <1>4, <1>7 DEF IsOpenNow
  <2>2. b.blocks[i].open
      BY <1>1, <2>1 DEF SameOpen
  <2>3. c.blocks[i].open
      BY <1>5, <2>1, <2>2 DEF SameOpen
  <2>4. i \in DOMAIN c.blocks
    <3>1. Running(c, s) /\ PlaceKept(a, c, "think")
        BY <1>6 DEF Ready
    <3>2. DOMAIN c.blocks = 1 .. Len(c.blocks)
        BY <3>1, LiveFields DEF Running
    <3>3. Len(c.blocks) = Len(a.blocks) \/ Len(c.blocks) = Len(a.blocks) + 1
        BY <3>1 DEF PlaceKept
    <3> QED BY <1>4, <3>2, <3>3
  <2> QED BY <2>3, <2>4 DEF IsOpenNow
<1>8. a.think # 0 => Place(c, "think") = a.think
    BY <1>6 DEF Ready, PlaceKept, Place
<1>9. a.text = c.text
    BY <1>6 DEF Ready, PlaceKept, Place, Other
<1>10. a.think # 0 => a.think \in DOMAIN a.blocks
    BY <1>0, PlaceFields DEF Place
<1>11. a.text # 0 => a.text \in DOMAIN a.blocks
  <2>1. "text" \in Prose
      BY DEF Prose
  <2> QED BY <2>1, PlaceFields DEF Place
<1>12. a.text = 0 => IsOpenNow(c, Place(c, "think"))
    BY <1>5, <1>7, <1>8, <1>10 DEF ROpen
<1>13. s => IsOpenNow(c, Place(c, "think"))
    BY <1>5, <1>12
<1>14. PieceFed(a, r, s, "think", d) /\ SameOpen(c, r) /\ Len(r.blocks) = Len(c.blocks)
    BY <1>0, <1>6, <1>13, PieceIsFed
<1> HIDE DEF r
<1>15. ASSUME NEW i, IsOpenNow(c, i) PROVE IsOpenNow(r, i)
  <2>1. Live(c, s) /\ Live(r, s)
      BY <1>6, <1>14 DEF Ready, PieceFed, Running
  <2>2. DOMAIN r.blocks = DOMAIN c.blocks
      BY <1>14, <2>1, LiveFields
  <2> QED BY <1>14, <1>15, <2>2 DEF IsOpenNow, SameOpen
<1>16. r.text = a.text /\ r.think = Place(c, "think")
  <2>1. PlaceKept(a, r, "think") /\ PlaceKept(a, c, "think")
      BY <1>6, <1>14 DEF PieceFed, Ready
  <2> QED BY <2>1 DEF PlaceKept, Place, Other
<1>17. ROpen(r)
    BY <1>7, <1>9, <1>11, <1>12, <1>15, <1>16 DEF ROpen
<1> QED BY <1>2, <1>14, <1>17

(* ResponsesStreamAssembler: a piece of text.                              *)
LEMMA TextFedR ==
  ASSUME NEW a, NEW s, Live(a, s), NEW d \in Nat, ROpen(a)
  PROVE  PieceFed(a, TextDeltaR(a, d), s, "text", d) /\ ROpen(TextDeltaR(a, d))
<1> DEFINE b == CloseBlock(EnsureStarted(a), a.think)
           c == IF b.text = 0 THEN NewItem(b, "text") ELSE b
           r == AddPiece(c, Place(c, "text"), d)
<1>0. "text" \in Prose /\ "think" \in Prose /\ Other("text") = "think" /\ Other("think") = "text"
    BY DEF Prose, Other
<1>1. Like(a, b, s) /\ OpenBut(a, b, {a.think})
  <2>1. a.think \in 0 .. Len(a.blocks)
      BY <1>0, PlaceFields DEF Place
  <2> QED BY <2>1, ClosedLike
<1>2. TextDeltaR(a, d) = r
  <2>1. r = AddPiece(c, c.text, d)
      BY <1>0 DEF Place
  <2> QED BY <2>1 DEF TextDeltaR, NewItem
<1> HIDE DEF b
<1>3. Running(b, s) /\ b.think = a.think /\ b.text = a.text /\ Len(b.blocks) = Len(a.blocks)
    BY <1>1 DEF Like, SameItems, SamePlaces
<1>4. DOMAIN a.blocks = 1 .. Len(a.blocks) /\ DOMAIN b.blocks = 1 .. Len(a.blocks) /\ Len(a.blocks) \in Nat
    BY <1>3, LiveFields DEF Running
<1>5. Ready(b, c, s, "text") /\ IsOpenNow(c, Place(c, "text"))
  <2>1. CASE b.text = 0
    <3>1. c = NewItem(b, "text") /\ Place(b, "text") = 0
        BY <2>1 DEF Place
    <3> HIDE DEF c
    <3> QED BY <1>0, <1>3, <3>1, NewReady
  <2>2. CASE b.text # 0
    <3>1. c = b /\ Place(b, "text") # 0
        BY <2>2 DEF Place
    <3>2. SameRest(b, b) /\ SameItems(b, b)
        BY DEF SameRest, SameItems, SamePlaces, SameBlock
    <3>3. Place(b, "text") = a.text /\ a.text # 0
        BY <1>3, <2>2 DEF Place
    <3>4. a.text \in DOMAIN a.blocks /\ a.text # a.think
        BY <1>0, <3>3, PlaceFields DEF Place
    <3>5. a.blocks[a.text].open
        BY <3>3 DEF ROpen, IsOpenNow
    <3>6. b.blocks[a.text].open
        BY <1>1, <3>4, <3>5 DEF OpenBut
    <3>7. IsOpenNow(b, a.text)
        BY <1>4, <3>4, <3>6 DEF IsOpenNow
    <3> HIDE DEF c
    <3> QED BY <1>0, <1>3, <3>1, <3>2, <3>3, <3>7, OldReady
  <2> QED BY <2>1, <2>2
<1> HIDE DEF c
<1>6. Ready(a, c, s, "text")
    BY <1>0, <1>1, <1>5, ReadyFrom
<1>7. PieceFed(a, r, s, "text", d) /\ SameOpen(c, r) /\ Len(r.blocks) = Len(c.blocks)
    BY <1>0, <1>5, <1>6, PieceIsFed
<1> HIDE DEF r
<1>8. r.text = Place(c, "text") /\ r.text # 0
  <2>1. PlaceKept(a, r, "text") /\ PlaceKept(a, c, "text")
      BY <1>6, <1>7 DEF PieceFed, Ready
  <2>2. r.text = Place(r, "text")
      BY <1>0 DEF Place
  <2> QED BY <1>4, <2>1, <2>2 DEF PlaceKept
<1>9. IsOpenNow(r, r.text)
  <2>1. Live(c, s) /\ Live(r, s)
      BY <1>6, <1>7 DEF Ready, PieceFed, Running
  <2>2. DOMAIN r.blocks = DOMAIN c.blocks
      BY <1>7, <2>1, LiveFields
  <2> QED BY <1>5, <1>7, <1>8, <2>2 DEF IsOpenNow, SameOpen
<1>10. ROpen(r)
    BY <1>8, <1>9 DEF ROpen
<1> QED BY <1>2, <1>7, <1>10

(* AnthropicStreamAssembler: a piece of either kind, whose block may have  *)
(* to come back.                                                           *)
LEMMA PieceFedA ==
  ASSUME NEW a, NEW s, Live(a, s), NEW d \in Nat, NEW kind \in Prose
  PROVE  LET b == CloseBlock(EnsureStarted(a), Place(a, Other(kind)))
             c == IF Place(b, kind) = 0 THEN NewItem(b, kind) ELSE Reopen(b, Place(b, kind), kind)
         IN  PieceFed(a, AddPiece(c, Place(c, kind), d), s, kind, d)
<1> DEFINE b == CloseBlock(EnsureStarted(a), Place(a, Other(kind)))
           c == IF Place(b, kind) = 0 THEN NewItem(b, kind) ELSE Reopen(b, Place(b, kind), kind)
           r == AddPiece(c, Place(c, kind), d)
<1>1. Like(a, b, s)
  <2>1. Other(kind) \in Prose
      BY DEF Other, Prose
  <2>2. Place(a, Other(kind)) \in 0 .. Len(a.blocks)
      BY <2>1, PlaceFields
  <2> QED BY <2>2, ClosedLike
<1> HIDE DEF b
<1>2. Running(b, s) /\ Live(b, s)
    BY <1>1 DEF Like, Running
<1>3. Ready(b, c, s, kind) /\ IsOpenNow(c, Place(c, kind))
  <2>1. CASE Place(b, kind) = 0
    <3>1. c = NewItem(b, kind)
        BY <2>1
    <3> HIDE DEF c
    <3> QED BY <1>2, <2>1, <3>1, NewReady
  <2>2. CASE Place(b, kind) # 0
    <3>1. c = Reopen(b, Place(b, kind), kind)
        BY <2>2
    <3>2. Place(b, kind) \in DOMAIN b.blocks
        BY <1>2, <2>2, PlaceFields
    <3> HIDE DEF c
    <3>3. Running(c, s) /\ SameRest(b, c) /\ SameItems(b, c) /\ IsOpenNow(c, Place(b, kind)) /\ Read(c) = Read(b)
        BY <1>2, <3>1, <3>2, Reopened DEF Prose
    <3>4. Place(c, kind) = Place(b, kind)
        BY <3>3 DEF Place, SameItems, SamePlaces
    <3> QED BY <1>2, <2>2, <3>3, <3>4, OldReady
  <2> QED BY <2>1, <2>2
<1> HIDE DEF c
<1>4. Ready(a, c, s, kind)
    BY <1>1, <1>3, ReadyFrom
<1>5. PieceFed(a, r, s, kind, d)
    BY <1>3, <1>4, PieceIsFed
<1> QED BY <1>5 DEF b, c

(* A piece of thinking.                                                    *)
LEMMA ThinkFedA ==
  ASSUME NEW a, NEW s, Live(a, s), NEW d \in Nat
  PROVE  PieceFed(a, ThinkingDeltaA(a, d), s, "think", d)
<1>1. "think" \in Prose
    BY DEF Prose
<1>2. LET b == CloseBlock(EnsureStarted(a), Place(a, Other("think")))
          c == IF Place(b, "think") = 0 THEN NewItem(b, "think") ELSE Reopen(b, Place(b, "think"), "think")
      IN  PieceFed(a, AddPiece(c, Place(c, "think"), d), s, "think", d)
    BY <1>1, PieceFedA
<1> QED BY <1>2 DEF ThinkingDeltaA, Place, Other, NewItem

(* A piece of text.                                                        *)
LEMMA TextFedA ==
  ASSUME NEW a, NEW s, Live(a, s), NEW d \in Nat
  PROVE  PieceFed(a, TextDeltaA(a, d), s, "text", d)
<1>1. "text" \in Prose
    BY DEF Prose
<1>2. LET b == CloseBlock(EnsureStarted(a), Place(a, Other("text")))
          c == IF Place(b, "text") = 0 THEN NewItem(b, "text") ELSE Reopen(b, Place(b, "text"), "text")
      IN  PieceFed(a, AddPiece(c, Place(c, "text"), d), s, "text", d)
    BY <1>1, PieceFedA
<1> QED BY <1>2 DEF TextDeltaA, Place, Other, NewItem

-----------------------------------------------------------------------------
(* A call of a tool.                                                       *)

(* A call of a tool becomes an item, if it has a name.                     *)
ToolFed(a, b, s, t) ==
    /\ Running(b, s) /\ SameRest(a, b) /\ SamePlaces(a, b) /\ Read(b) = Read(a)
    /\ \A i \in DOMAIN a.blocks : SameBlock(a, b, i)
    /\ t.name = "" => Len(b.blocks) = Len(a.blocks)
    /\ t.name # "" => /\ Len(b.blocks) = Len(a.blocks) + 1
                      /\ b.blocks[Len(a.blocks) + 1].kind = "tool"
                      /\ b.blocks[Len(a.blocks) + 1].buf = t

(* An event that changes no item.                                          *)
LEMMA EmitFields ==
  ASSUME NEW a \in AsmType, NEW x \in EvType
  PROVE  LET b == Emit(a, x) IN
         /\ b \in AsmType /\ b.started = a.started /\ SameRest(a, b) /\ SamePlaces(a, b)
         /\ b.blocks = a.blocks /\ b.ev = Append(a.ev, x)
<1> DEFINE b == Emit(a, x)
           ev == Append(a.ev, x)
<1>1. b = [a EXCEPT !.ev = ev]
    BY DEF Emit
<1>2. ev \in Seq(EvType)
  <2>1. a.ev \in Seq(EvType)
      BY DEF AsmType
  <2> QED BY <2>1, AppendProperties
<1> HIDE DEF ev, b
<1>3. b \in AsmType /\ b.started = a.started /\ SameRest(a, b) /\ SamePlaces(a, b) /\ b.blocks = a.blocks /\ b.ev = ev
    BY <1>1, <1>2 DEF AsmType, SameRest, SamePlaces
<1> QED BY <1>3 DEF b, ev

(* ToolDelta closes reasoning and text, and adds the call.                 *)
LEMMA ToolIsFed ==
  ASSUME NEW a, NEW s, Live(a, s), NEW t \in ToolType
  PROVE  ToolFed(a, ToolDelta(a, t), s, t)
<1> DEFINE b0 == CloseBlock(EnsureStarted(a), a.think)
           b == CloseBlock(b0, a.text)
           c == AddBlock(b, "tool", t)
           x == Ev("delta", Len(b.blocks) + 1, t)
           r == Emit(c, x)
           n == Len(a.blocks)
<1>1. a.think \in 0 .. Len(a.blocks) /\ a.text \in 0 .. Len(a.blocks)
  <2>1. Shape(a)
      BY LiveFields
  <2> QED BY <2>1, Zenon DEF Shape
<1>2. Like(a, b0, s) /\ OpenBut(a, b0, {a.think})
    BY <1>1, ClosedLike
<1>3. Live(b0, s) /\ b0.started /\ Len(b0.blocks) = Len(a.blocks)
    BY <1>2 DEF Like, Running, SameItems
<1> HIDE DEF b0
<1>4. Closes(b0, b, s, {a.text})
    BY <1>1, <1>3, BlockClosed
<1>5. Closes(a, b0, s, {a.think})
    BY <1>2, <1>3 DEF Closes, Like
<1>6. Closes(a, b, s, {a.think} \cup {a.text})
    BY <1>4, <1>5, ClosesTwice
<1> HIDE DEF b
<1>7. Running(b, s) /\ SameRest(a, b) /\ SameItems(a, b) /\ Read(b) = Read(a)
    BY <1>3, <1>4, <1>6 DEF Closes, Running
<1>8. Live(b, s) /\ Len(b.blocks) = n /\ n \in Nat /\ DOMAIN a.blocks = 1 .. n /\ DOMAIN b.blocks = 1 .. n
    BY <1>7, LiveFields DEF Running, SameItems
<1>9. CASE t.name = ""
  <2>1. ToolDelta(a, t) = b
      BY <1>9 DEF ToolDelta, b, b0
  <2>2. ToolFed(a, b, s, t)
      BY <1>7, <1>9 DEF ToolFed, SameItems
  <2> QED BY <2>1, <2>2
<1>10. CASE t.name # ""
  <2>1. ToolDelta(a, t) = r
      BY <1>10 DEF ToolDelta, b, b0
  <2>2. c \in AsmType /\ Added(b, c, "tool", t) /\ Fitting("tool", t)
      BY <1>7, NewTool
  <2>3. x \in EvType /\ x.e = "delta" /\ x.i = n + 1
    <3>1. t \in DataType /\ "delta" \in EventNames /\ n + 1 \in Nat
        BY <1>8 DEF DataType, EventNames
    <3> QED BY <1>8, <3>1, EvTyped
  <2> HIDE DEF c, x, n
  <2>4. Running(c, s) /\ Read(c) = Read(b)
      BY <1>7, <2>2, AddItem
  <2>5. /\ Len(c.blocks) = n + 1 /\ DOMAIN c.blocks = 1 .. n + 1
        /\ \A i \in 1 .. n : c.blocks[i] = b.blocks[i]
        /\ c.blocks[n + 1].kind = "tool" /\ c.blocks[n + 1].buf = t /\ c.blocks[n + 1].open
      BY <1>8, <2>2, AddedBlocks
  <2>6. /\ r \in AsmType /\ r.started = c.started /\ SameRest(c, r) /\ SamePlaces(c, r)
        /\ r.blocks = c.blocks /\ r.ev = Append(c.ev, x)
      BY <2>2, <2>3, EmitFields
  <2> HIDE DEF r
  <2>7. n + 1 \in DOMAIN c.blocks /\ IsOpenNow(c, n + 1)
      BY <1>8, <2>5 DEF IsOpenNow
  <2>8. Touched(c, r, x, n + 1)
      BY <2>3, <2>5, <2>6, <2>7 DEF Touched, Items3
  <2>9. Running(r, s) /\ Read(r) = Read(c)
    <3>1. r.blocks[n + 1].kind = "tool"
        BY <2>5, <2>6
    <3> QED BY <2>3, <2>4, <2>6, <2>7, <2>8, <3>1, TouchItem
  <2>10. SameRest(b, c) /\ SamePlaces(b, c)
      BY <2>2 DEF Added, NewPlaces
  <2>11. SameRest(a, r) /\ SamePlaces(a, r)
      BY <1>7, <2>6, <2>10 DEF SameRest, SamePlaces, SameItems
  <2>12. \A i \in DOMAIN a.blocks : SameBlock(a, r, i)
      BY <1>7, <1>8, <2>5, <2>6 DEF SameItems, SameBlock
  <2>13. ToolFed(a, r, s, t)
      BY <1>7, <1>10, <2>4, <2>5, <2>6, <2>9, <2>11, <2>12 DEF ToolFed, n
  <2> QED BY <2>1, <2>13
<1> QED BY <1>9, <1>10

-----------------------------------------------------------------------------
(* The frames of a stream.                                                 *)

(* What the frames of some kinds in a sequence carry: PiecesOf, for those  *)
(* of the reasoning and the text.                                          *)
FrameNames == {"role", "think", "text", "tool", "finish", "usage", "DONE"}
FrameType  == [f : FrameNames, d : DataType]
FramesAt(q, F) == {k \in DOMAIN q : q[k].f \in F}
FramesOf(q, F) == Kept(Data(q), FramesAt(q, F))

(* The front of one sequence moved to the back of another.                 *)
LEMMA MoveHead ==
  ASSUME NEW S, NEW u \in Seq(S), NEW w \in Seq(S), w # <<>>
  PROVE  Append(u, Head(w)) \o Tail(w) = u \o w
<1> DEFINE a == Append(u, Head(w)) \o Tail(w)
           b == u \o w
<1>1. /\ a \in Seq(S) /\ b \in Seq(S) /\ Len(a) = Len(u) + Len(w) /\ Len(b) = Len(u) + Len(w)
      /\ \A i \in 1 .. Len(u) + Len(w) : a[i] = b[i]
    OBVIOUS
<1> HIDE DEF a, b
<1>2. a = b
    BY <1>1, SeqEqual
<1> QED BY <1>2 DEF a, b

(* What frames carry.                                                      *)
LEMMA FrameData ==
  ASSUME NEW q \in Seq(FrameType)
  PROVE  /\ Data(q) \in Seq(DataType) /\ Len(Data(q)) = Len(q) /\ Len(q) \in Nat /\ DOMAIN q = 1 .. Len(q)
         /\ \A k \in 1 .. Len(q) : Data(q)[k] = q[k].d /\ q[k] \in FrameType
<1>1. \A y \in FrameType : y.d \in DataType
    BY DEF FrameType
<1>2. Len(q) \in Nat /\ DOMAIN q = 1 .. Len(q) /\ \A k \in 1 .. Len(q) : q[k] \in FrameType
    BY ElementOfSeq
<1> QED BY <1>1, <1>2 DEF Data

(* A frame added at the back.                                              *)
LEMMA FramesAppend ==
  ASSUME NEW q \in Seq(FrameType), NEW x \in FrameType, NEW F
  PROVE  /\ x.f \in F => FramesOf(Append(q, x), F) = Append(FramesOf(q, F), x.d)
         /\ x.f \notin F => FramesOf(Append(q, x), F) = FramesOf(q, F)
<1> DEFINE w == Append(q, x)
           n == Len(q)
<1>1. /\ Data(q) \in Seq(DataType) /\ Len(Data(q)) = n /\ n \in Nat /\ DOMAIN q = 1 .. n
      /\ \A k \in 1 .. n : Data(q)[k] = q[k].d
    BY FrameData
<1>2. /\ w \in Seq(FrameType) /\ Len(w) = n + 1 /\ DOMAIN w = 1 .. n + 1
      /\ w[n + 1] = x /\ \A k \in 1 .. n : w[k] = q[k]
    BY <1>1, AppendProperties
<1>3. x.d \in DataType
    BY DEF FrameType
<1> HIDE DEF w, n
<1>4. /\ Data(w) \in Seq(DataType) /\ Len(Data(w)) = n + 1 /\ \A k \in 1 .. n + 1 : Data(w)[k] = w[k].d
    BY <1>2, FrameData
<1>5. Data(w) = Append(Data(q), x.d)
  <2>1. /\ Append(Data(q), x.d) \in Seq(DataType) /\ Len(Append(Data(q), x.d)) = n + 1
        /\ Append(Data(q), x.d)[n + 1] = x.d
        /\ \A k \in 1 .. n : Append(Data(q), x.d)[k] = Data(q)[k]
      BY <1>1, <1>3, AppendProperties
  <2>2. \A k \in 1 .. n + 1 : Data(w)[k] = Append(Data(q), x.d)[k]
      BY <1>1, <1>2, <1>4, <2>1
  <2> QED BY <1>4, <2>1, <2>2, SeqEqual
<1>6. /\ n + 1 \in FramesAt(w, F) <=> x.f \in F
      /\ \A i \in 1 .. n : i \in FramesAt(q, F) <=> i \in FramesAt(w, F)
    BY <1>1, <1>2 DEF FramesAt
<1>7. /\ n + 1 \in FramesAt(w, F) => Kept(Append(Data(q), x.d), FramesAt(w, F)) = Append(Kept(Data(q), FramesAt(q, F)), x.d)
      /\ n + 1 \notin FramesAt(w, F) => Kept(Append(Data(q), x.d), FramesAt(w, F)) = Kept(Data(q), FramesAt(q, F))
    BY <1>1, <1>3, <1>6, KeptAppend
<1>8. FramesOf(w, F) = Kept(Append(Data(q), x.d), FramesAt(w, F)) /\ FramesOf(q, F) = Kept(Data(q), FramesAt(q, F))
    BY <1>5 DEF FramesOf
<1> HIDE DEF FramesOf
<1> QED BY <1>6, <1>7, <1>8, Zenon DEF w

(* A frame taken from the front.                                           *)
LEMMA FramesHead ==
  ASSUME NEW q \in Seq(FrameType), q # <<>>, NEW F
  PROVE  /\ Head(q) \in FrameType /\ Tail(q) \in Seq(FrameType)
         /\ Head(q).f \in F => /\ FramesOf(q, F) \in Seq(DataType) /\ FramesOf(q, F) # <<>>
                               /\ Head(FramesOf(q, F)) = Head(q).d
                               /\ Tail(FramesOf(q, F)) = FramesOf(Tail(q), F)
         /\ Head(q).f \notin F => FramesOf(q, F) = FramesOf(Tail(q), F)
<1> DEFINE t == Tail(q)
           s == Data(q)
           n == Len(q)
<1>1. /\ s \in Seq(DataType) /\ Len(s) = n /\ n \in Nat /\ DOMAIN q = 1 .. n
      /\ \A k \in 1 .. n : s[k] = q[k].d /\ q[k] \in FrameType
    BY FrameData
<1>2. /\ t \in Seq(FrameType) /\ Len(t) = n - 1 /\ n # 0 /\ Head(q) = q[1]
      /\ \A k \in 1 .. n - 1 : t[k] = q[k + 1]
    BY HeadTailProperties, EmptySeq
<1> HIDE DEF t, s, n
<1>3. 1 \in 1 .. n /\ Head(q) \in FrameType
    BY <1>1, <1>2
<1>4. s # <<>> /\ Head(s) = Head(q).d
  <2>1. s # <<>>
      BY <1>1, <1>2
  <2>2. Head(s) = s[1]
      BY <1>1, <2>1, HeadTailProperties
  <2> QED BY <1>1, <1>2, <1>3, <2>1, <2>2
<1>5. Tail(s) = Data(t)
  <2>1. Tail(s) \in Seq(DataType) /\ Len(Tail(s)) = n - 1 /\ \A k \in 1 .. n - 1 : Tail(s)[k] = s[k + 1]
      BY <1>1, <1>4, HeadTailProperties
  <2>2. Data(t) \in Seq(DataType) /\ Len(Data(t)) = n - 1 /\ \A k \in 1 .. n - 1 : Data(t)[k] = t[k].d
      BY <1>2, FrameData
  <2>3. \A k \in 1 .. n - 1 : k + 1 \in 1 .. n
      BY <1>1
  <2>4. \A k \in 1 .. n - 1 : Tail(s)[k] = Data(t)[k]
      BY <1>1, <1>2, <2>1, <2>2, <2>3
  <2> QED BY <2>1, <2>2, <2>4, SeqEqual
<1>6. Shifted(s, FramesAt(q, F), FramesAt(t, F))
  <2>1. DOMAIN t = 1 .. n - 1
      BY <1>1, <1>2
  <2>2. \A i \in 1 .. n - 1 : i + 1 \in 1 .. n
      BY <1>1
  <2> QED BY <1>1, <1>2, <2>1, <2>2 DEF Shifted, FramesAt
<1>7. 1 \in FramesAt(q, F) <=> Head(q).f \in F
    BY <1>1, <1>2, <1>3 DEF FramesAt
<1>8. FramesOf(q, F) = Kept(s, FramesAt(q, F)) /\ FramesOf(t, F) = Kept(Tail(s), FramesAt(t, F))
    BY <1>5 DEF FramesOf, s
<1>9. CASE Head(q).f \in F
  <2>1. /\ Kept(s, FramesAt(q, F)) \in Seq(DataType) /\ Kept(s, FramesAt(q, F)) # <<>>
        /\ Head(Kept(s, FramesAt(q, F))) = Head(s) /\ Tail(Kept(s, FramesAt(q, F))) = Kept(Tail(s), FramesAt(t, F))
      BY <1>1, <1>4, <1>6, <1>7, <1>9, KeptHead
  <2> HIDE DEF FramesOf
  <2> QED BY <1>2, <1>3, <1>4, <1>8, <1>9, <2>1, Zenon DEF t
<1>10. CASE Head(q).f \notin F
  <2>1. Kept(s, FramesAt(q, F)) = Kept(Tail(s), FramesAt(t, F))
      BY <1>1, <1>4, <1>6, <1>7, <1>10, KeptSkip
  <2> HIDE DEF FramesOf
  <2> QED BY <1>2, <1>3, <1>8, <1>10, <2>1, Zenon DEF t
<1> QED BY <1>9, <1>10

(* No frames carry nothing.                                                *)
LEMMA FramesEmpty == ASSUME NEW F PROVE FramesOf(<<>>, F) = <<>>
<1>1. Data(<<>>) = <<>>
    BY DEF Data
<1> QED BY <1>1, KeptEmpty DEF FramesOf

(* The type of what is carried.                                            *)
LEMMA FramesIn == ASSUME NEW q \in Seq(FrameType), NEW F PROVE FramesOf(q, F) \in Seq(DataType)
<1>1. Data(q) \in Seq(DataType) /\ Len(Data(q)) \in 0 .. Len(Data(q)) /\ Len(Data(q)) \in Nat
    BY FrameData
<1>2. KeptTo(Data(q), FramesAt(q, F))[Len(Data(q))] \in Seq(DataType)
    BY <1>1, KeptIn
<1> QED BY <1>1, <1>2, KeptValues DEF FramesOf

(* One frame.                                                              *)
LEMMA FramesOne ==
  ASSUME NEW x \in FrameType, NEW F
  PROVE  /\ x.f \in F => FramesOf(<<x>>, F) = <<x.d>>
         /\ x.f \notin F => FramesOf(<<x>>, F) = <<>>
<1>1. <<>> \in Seq(FrameType) /\ <<x>> = Append(<<>>, x) /\ <<x.d>> = Append(<<>>, x.d)
    OBVIOUS
<1>2. FramesOf(<<>>, F) = <<>>
    BY FramesEmpty
<1>3. x.f \in F => FramesOf(Append(<<>>, x), F) = Append(FramesOf(<<>>, F), x.d)
    BY <1>1, FramesAppend
<1>4. x.f \notin F => FramesOf(Append(<<>>, x), F) = FramesOf(<<>>, F)
    BY <1>1, FramesAppend
<1> HIDE DEF FramesOf
<1> QED BY <1>1, <1>2, <1>3, <1>4, Zenon

(* Two sequences of frames carry what each carries.                        *)
LEMMA FramesConcat ==
  ASSUME NEW u \in Seq(FrameType), NEW v \in Seq(FrameType), NEW F
  PROVE  FramesOf(u \o v, F) = FramesOf(u, F) \o FramesOf(v, F)
<1> DEFINE Holds(a, b) == FramesOf(a \o b, F) = FramesOf(a, F) \o FramesOf(b, F)
           T == {n \in Nat : \A a, b \in Seq(FrameType) : Len(b) = n => Holds(a, b)}
<1>1. 0 \in T
  <2> SUFFICES ASSUME NEW a \in Seq(FrameType), NEW b \in Seq(FrameType), Len(b) = 0 PROVE Holds(a, b)
      OBVIOUS
  <2>1. b = <<>> /\ a \o b = a
      BY EmptySeq
  <2>2. FramesOf(a, F) \o <<>> = FramesOf(a, F)
      BY FramesIn
  <2> QED BY <2>1, <2>2, FramesEmpty
<1>2. ASSUME NEW n \in Nat, n \in T PROVE n + 1 \in T
  <2> SUFFICES ASSUME NEW a \in Seq(FrameType), NEW b \in Seq(FrameType), Len(b) = n + 1 PROVE Holds(a, b)
      OBVIOUS
  <2> DEFINE c == Append(a, Head(b))
  <2>1. b # <<>> /\ Len(Tail(b)) = n /\ Tail(b) \in Seq(FrameType) /\ Head(b) \in FrameType
      BY HeadTailProperties, EmptySeq
  <2>2. c \in Seq(FrameType)
      BY <2>1, AppendProperties
  <2>3. Holds(c, Tail(b))
      BY <1>2, <2>1, <2>2
  <2>4. a \o b = c \o Tail(b)
      BY <2>1, MoveHead
  <2>5. /\ Head(b).f \in F => FramesOf(c, F) = Append(FramesOf(a, F), Head(b).d)
        /\ Head(b).f \notin F => FramesOf(c, F) = FramesOf(a, F)
      BY <2>1, FramesAppend
  <2> HIDE DEF c
  <2>6. FramesOf(c, F) \o FramesOf(Tail(b), F) = FramesOf(a, F) \o FramesOf(b, F)
    <3>1. CASE Head(b).f \in F
      <4>1. /\ FramesOf(b, F) \in Seq(DataType) /\ FramesOf(b, F) # <<>>
            /\ Head(FramesOf(b, F)) = Head(b).d /\ Tail(FramesOf(b, F)) = FramesOf(Tail(b), F)
          BY <2>1, <3>1, FramesHead
      <4>2. FramesOf(a, F) \in Seq(DataType)
          BY FramesIn
      <4>3. Append(FramesOf(a, F), Head(FramesOf(b, F))) \o Tail(FramesOf(b, F)) = FramesOf(a, F) \o FramesOf(b, F)
          BY <4>1, <4>2, MoveHead
      <4> QED BY <2>5, <3>1, <4>1, <4>3, Zenon
    <3>2. CASE Head(b).f \notin F
        BY <2>1, <2>5, <3>2, FramesHead
    <3> QED BY <3>1, <3>2
  <2> QED BY <2>3, <2>4, <2>6, Zenon
<1> HIDE DEF T
<1>3. Len(v) \in T
    BY <1>1, <1>2, SetInduction
<1> QED BY <1>3 DEF T

(* Frames of other kinds carry nothing.                                    *)
LEMMA FramesNone ==
  ASSUME NEW q \in Seq(FrameType), NEW F, \A k \in 1 .. Len(q) : q[k].f \notin F
  PROVE  FramesOf(q, F) = <<>>
<1> DEFINE s == Data(q)
           K == FramesAt(q, F)
           T == {n \in Nat : n <= Len(s) => KeptTo(s, K)[n] = <<>>}
<1>1. Len(s) \in Nat /\ Len(s) = Len(q) /\ DOMAIN q = 1 .. Len(q)
    BY FrameData
<1>2. \A i \in 1 .. Len(s) : i \notin K
    BY <1>1 DEF FramesAt
<1> HIDE DEF s, K
<1>3. 0 \in T
    BY <1>1, KeptNext
<1>4. ASSUME NEW n \in Nat, n \in T PROVE n + 1 \in T
  <2> SUFFICES ASSUME n + 1 <= Len(s) PROVE KeptTo(s, K)[n + 1] = <<>>
      OBVIOUS
  <2>1. n + 1 \in 1 .. Len(s) /\ (n + 1) - 1 = n /\ n <= Len(s)
      BY <1>1
  <2>2. KeptTo(s, K)[n + 1] = KeptTo(s, K)[n]
      BY <1>1, <1>2, <2>1, KeptNext
  <2> QED BY <1>4, <2>1, <2>2
<1> HIDE DEF T
<1>5. Len(s) \in T
    BY <1>1, <1>3, <1>4, SetInduction
<1>6. KeptTo(s, K)[Len(s)] = <<>>
    BY <1>1, <1>5 DEF T
<1> QED BY <1>1, <1>6, KeptValues DEF FramesOf, s, K

-----------------------------------------------------------------------------
(* The stream while the upstream talks.                                    *)

(* While the upstream talks: the frames are pieces and the first role.     *)
PieceFrame == PieceType \cup {RoleFrame}

Strict(proto, u) == ~(proto = "responses" /\ u.late)
NoTools(a) == \A i \in DOMAIN a.blocks : a.blocks[i].kind # "tool"
Grown(a, q, w, kind) == /\ Buf(a, Place(a, kind)) \o FramesOf(q, {kind}) = w
                        /\ Place(a, kind) # 0 => Buf(a, Place(a, kind)) # <<>>
InOrder(a, u) == a.think # 0 /\ a.text # 0 => u.late \/ a.think < a.text
LateFrames(a, q, u) == \A k \in DOMAIN q :
    q[k].f = "think" /\ (a.text # 0 \/ \E m \in 1 .. k - 1 : q[m].f = "text") => u.late
StreamingTyped(a, q, u, proto) ==
    /\ Live(a, Strict(proto, u)) /\ a.finish = "" /\ NoTools(a)
    /\ Grown(a, q, u.think, "think") /\ Grown(a, q, u.text, "text")
    /\ InOrder(a, u) /\ LateFrames(a, q, u)
    /\ proto = "responses" => ROpen(a)

(* A piece of one kind leaves the other kind alone.                        *)
LEMMA OthersGrown ==
  ASSUME NEW a, NEW s, Live(a, s), NEW q \in Seq(FrameType), q # <<>>, NEW kind \in Prose, NEW b,
         NEW w, Grown(a, q, w, Other(kind)), Head(q).f = kind,
         PieceFed(a, b, s, kind, Head(q).d)
  PROVE  Grown(b, Tail(q), w, Other(kind))
<1> DEFINE k == Other(kind)
           i == Place(a, k)
<1>1. FramesOf(q, {k}) = FramesOf(Tail(q), {k})
  <2>1. Head(q).f \notin {k}
      BY DEF Other, Prose
  <2> QED BY <2>1, FramesHead
<1>2. Place(b, k) = i
    BY DEF PieceFed, PlaceKept
<1>3. k \in Prose /\ Other(k) = kind
    BY DEF Other, Prose
<1>4. i # 0 => b.blocks[i].buf = a.blocks[i].buf
  <2> SUFFICES ASSUME i # 0 PROVE b.blocks[i].buf = a.blocks[i].buf
      OBVIOUS
  <2>1. i \in DOMAIN a.blocks /\ i # Place(a, kind) /\ i \in 1 .. Len(a.blocks) /\ Len(a.blocks) \in Nat
      BY <1>3, PlaceFields, LiveFields
  <2>2. i # Place(b, kind)
      BY <2>1 DEF PieceFed, PlaceKept
  <2> HIDE DEF i, k
  <2> QED BY <2>1, <2>2 DEF PieceFed, SameBlock
<1>5. Buf(b, i) = Buf(a, i)
    BY <1>4 DEF Buf
<1> HIDE DEF k, i
<1>6. Grown(b, Tail(q), w, k)
  <2>1. Grown(a, q, w, k)
      BY DEF k
  <2>2. i = Place(a, k)
      BY DEF i
  <2> QED BY <1>1, <1>2, <1>5, <2>1, <2>2, Zenon DEF Grown
<1> QED BY <1>6 DEF k

(* A piece that waits is one that is there after it was fed.               *)
LEMMA ThisGrown ==
  ASSUME NEW a, NEW s, NEW q \in Seq(FrameType), q # <<>>, NEW kind \in Prose, NEW b,
         NEW w, Grown(a, q, w, kind), Head(q).f = kind,
         PieceFed(a, b, s, kind, Head(q).d)
  PROVE  Grown(b, Tail(q), w, kind)
<1> DEFINE F == FramesOf(q, {kind})
           B == Buf(a, Place(a, kind))
           C == Buf(b, Place(b, kind))
<1>1. F \in Seq(DataType) /\ F # <<>> /\ Head(F) = Head(q).d /\ Tail(F) = FramesOf(Tail(q), {kind})
    BY FramesHead
<1>2. B \in Seq(Nat) /\ C = Append(B, Head(q).d)
    BY DEF PieceFed
<1>3. B \in Seq(DataType)
  <2>1. Nat \subseteq DataType
      BY DEF DataType
  <2> HIDE DEF B
  <2> QED BY <1>2, <2>1
<1>4. B \o F = w
    BY DEF Grown
<1> HIDE DEF B, C, F
<1>5. Append(B, Head(F)) \o Tail(F) = B \o F
    BY <1>1, <1>3, MoveHead
<1>6. C \o FramesOf(Tail(q), {kind}) = w
    BY <1>1, <1>2, <1>4, <1>5, Zenon
<1>7. C # <<>>
    BY <1>2, AppendProperties
<1> QED BY <1>6, <1>7, Zenon DEF Grown, C

(* The reasoning stays in front, unless it came late.                      *)
LEMMA OrderKept ==
  ASSUME NEW a, NEW q \in Seq(FrameType), q # <<>>, NEW u, NEW s, Live(a, s), InOrder(a, u), LateFrames(a, q, u),
         NEW kind \in Prose, Head(q).f = kind, NEW b, PlaceKept(a, b, kind)
  PROVE  InOrder(b, u) /\ LateFrames(b, Tail(q), u)
<1>1. /\ Len(a.blocks) \in Nat /\ a.think \in 0 .. Len(a.blocks) /\ a.text \in 0 .. Len(a.blocks)
    BY LiveFields, PlaceFields DEF Place, Prose
<1>2. /\ kind = "think" => /\ b.text = a.text /\ (a.think # 0 => b.think = a.think)
                           /\ (a.think = 0 => b.think = Len(a.blocks) + 1)
      /\ kind = "text" => /\ b.think = a.think /\ (a.text # 0 => b.text = a.text)
                          /\ (a.text = 0 => b.text = Len(a.blocks) + 1)
    BY DEF PlaceKept, Place, Other
<1>3. /\ Len(q) \in Nat /\ DOMAIN q = 1 .. Len(q) /\ Head(q) = q[1] /\ 1 \in DOMAIN q
      /\ DOMAIN Tail(q) = 1 .. Len(q) - 1 /\ \A k \in 1 .. Len(q) - 1 : Tail(q)[k] = q[k + 1]
    BY HeadTailProperties, EmptySeq
<1>4. kind = "think" /\ a.text # 0 => u.late
    BY <1>3, Zenon DEF LateFrames
<1>5. InOrder(b, u)
    BY <1>1, <1>2, <1>4 DEF InOrder, Prose
<1>6. LateFrames(b, Tail(q), u)
  <2> SUFFICES ASSUME NEW k \in 1 .. Len(q) - 1, Tail(q)[k].f = "think",
                      b.text # 0 \/ \E m \in 1 .. k - 1 : Tail(q)[m].f = "text"
               PROVE  u.late
      BY <1>3 DEF LateFrames
  <2>1. k + 1 \in DOMAIN q /\ q[k + 1].f = "think"
      BY <1>3
  <2>2. CASE \E m \in 1 .. k - 1 : Tail(q)[m].f = "text"
    <3>1. PICK m \in 1 .. k - 1 : Tail(q)[m].f = "text"
        BY <2>2
    <3>2. m + 1 \in 1 .. (k + 1) - 1 /\ q[m + 1].f = "text"
        BY <1>3, <3>1
    <3> QED BY <2>1, <3>2, Zenon DEF LateFrames
  <2>3. CASE b.text # 0
    <3>1. a.text # 0 \/ kind = "text"
        BY <1>2, <2>3 DEF Prose
    <3>2. 1 \in 1 .. (k + 1) - 1
        BY <1>3
    <3>3. a.text # 0 \/ \E m \in 1 .. (k + 1) - 1 : q[m].f = "text"
        BY <1>3, <3>1, <3>2, Zenon
    <3> QED BY <2>1, <3>3, Zenon DEF LateFrames
  <2> QED BY <2>2, <2>3
<1> QED BY <1>5, <1>6

(* A piece of the front frame goes to its item.                            *)
LEMMA PieceMoves ==
  ASSUME NEW a, NEW q \in Seq(FrameType), q # <<>>, NEW u, NEW proto, StreamingTyped(a, q, u, proto),
         NEW kind \in Prose, Head(q).f = kind, NEW b,
         PieceFed(a, b, Strict(proto, u), kind, Head(q).d), proto = "responses" => ROpen(b)
  PROVE  /\ StreamingTyped(b, Tail(q), u, proto)
         /\ Read(b) \o FramesOf(Tail(q), Prose) = Read(a) \o FramesOf(q, Prose)
<1> DEFINE s == Strict(proto, u)
           d == Head(q).d
           t == Tail(q)
<1>1. /\ Live(a, s) /\ a.finish = "" /\ NoTools(a) /\ InOrder(a, u) /\ LateFrames(a, q, u)
      /\ Grown(a, q, u.think, "think") /\ Grown(a, q, u.text, "text")
    BY DEF StreamingTyped
<1> HIDE DEF s, d, t
<1>2. PieceFed(a, b, s, kind, d)
    BY DEF s, d
<1>3. Live(b, s) /\ b.finish = ""
    BY <1>1, <1>2 DEF PieceFed, Running, SameRest
<1>4. Grown(b, t, u.think, "think") /\ Grown(b, t, u.text, "text")
  <2>1. CASE kind = "think"
      BY <1>1, <1>2, <2>1, ThisGrown, OthersGrown DEF Other, t, d
  <2>2. CASE kind = "text"
      BY <1>1, <1>2, <2>2, ThisGrown, OthersGrown DEF Other, t, d
  <2> QED BY <2>1, <2>2 DEF Prose
<1>5. InOrder(b, u) /\ LateFrames(b, t, u)
    BY <1>1, <1>2, OrderKept DEF PieceFed, t
<1>6. NoTools(b)
  <2> SUFFICES ASSUME NEW i \in DOMAIN b.blocks PROVE b.blocks[i].kind # "tool"
      BY DEF NoTools
  <2>1. DOMAIN a.blocks = 1 .. Len(a.blocks) /\ DOMAIN b.blocks = 1 .. Len(b.blocks) /\ Len(a.blocks) \in Nat
      BY <1>1, <1>3, LiveFields
  <2>2. CASE i = Place(b, kind)
      BY <1>2, <2>2 DEF PieceFed, Prose
  <2>3. CASE i # Place(b, kind)
    <3>1. i \in DOMAIN a.blocks
        BY <1>2, <2>1, <2>3 DEF PieceFed, PlaceKept
    <3> QED BY <1>1, <1>2, <2>3, <3>1 DEF PieceFed, SameBlock, NoTools
  <2> QED BY <2>2, <2>3
<1>7. StreamingTyped(b, t, u, proto)
    BY <1>3, <1>4, <1>5, <1>6 DEF StreamingTyped, s
<1>8. Read(b) \o FramesOf(t, Prose) = Read(a) \o FramesOf(q, Prose)
  <2> DEFINE F == FramesOf(q, Prose)
  <2>1. F \in Seq(DataType) /\ F # <<>> /\ Head(F) = d /\ Tail(F) = FramesOf(t, Prose)
      BY FramesHead DEF d, t
  <2>2. Read(a) \in Seq(DataType) /\ Read(b) = Append(Read(a), d)
      BY <1>2 DEF PieceFed
  <2> HIDE DEF F
  <2>3. Append(Read(a), Head(F)) \o Tail(F) = Read(a) \o F
      BY <2>1, <2>2, MoveHead
  <2> QED BY <2>1, <2>2, <2>3, Zenon DEF F
<1> QED BY <1>7, <1>8 DEF t

(* Pieces and the role are frames.                                         *)
LEMMA PieceFrameType ==
  /\ PieceFrame \subseteq FrameType /\ PieceType \subseteq FrameType
  /\ \A x \in PieceFrame : x.f \in {"role", "think", "text"} /\ (x.f \in Prose => x.d \in Nat)
<1>1. ASSUME NEW x \in PieceType PROVE x \in FrameType /\ x.f \in Prose /\ x.d \in Nat
  <2>1. x.f \in FrameNames /\ x.f \in Prose /\ x.d \in Nat
      BY DEF PieceType, FrameNames, Prose
  <2>2. x.d \in DataType
      BY <2>1 DEF DataType
  <2>3. x = [f |-> x.f, d |-> x.d]
      BY DEF PieceType
  <2> QED BY <2>1, <2>2, <2>3 DEF FrameType
<1>2. RoleFrame \in FrameType /\ RoleFrame.f = "role"
  <2>1. 0 \in DataType
      BY DEF DataType
  <2> QED BY <2>1 DEF RoleFrame, FrameType, FrameNames
<1> QED BY <1>1, <1>2 DEF PieceFrame, Prose

(* So are sequences of them.                                               *)
LEMMA PieceFramesType ==
  ASSUME NEW q \in Seq(PieceFrame)
  PROVE  /\ q \in Seq(FrameType)
         /\ q # <<>> => /\ Head(q) \in PieceFrame /\ Tail(q) \in Seq(PieceFrame)
                        /\ Head(q).f \in {"role", "think", "text"} /\ (Head(q).f \in Prose => Head(q).d \in Nat)
<1>1. q \in Seq(FrameType)
    BY PieceFrameType
<1>2. q # <<>> => Head(q) \in PieceFrame /\ Tail(q) \in Seq(PieceFrame)
    BY HeadTailProperties
<1> QED BY <1>1, <1>2, PieceFrameType

(* The first frame of a stream.                                            *)
LEMMA RoleMoves ==
  ASSUME NEW a, NEW q \in Seq(FrameType), q # <<>>, NEW u, NEW proto, StreamingTyped(a, q, u, proto),
         Head(q).f = "role"
  PROVE  /\ StreamingTyped(a, Tail(q), u, proto)
         /\ FramesOf(Tail(q), Prose) = FramesOf(q, Prose)
<1>1. \A F \in {{"think"}, {"text"}, Prose} : FramesOf(Tail(q), F) = FramesOf(q, F)
  <2> TAKE F \in {{"think"}, {"text"}, Prose}
  <2>1. Head(q).f \notin F
      BY DEF Prose
  <2> QED BY <2>1, FramesHead
<1>2. Grown(a, Tail(q), u.think, "think") /\ Grown(a, Tail(q), u.text, "text")
  <2>1. Grown(a, q, u.think, "think") /\ Grown(a, q, u.text, "text")
      BY DEF StreamingTyped
  <2> QED BY <1>1, <2>1, Zenon DEF Grown
<1>3. LateFrames(a, Tail(q), u)
  <2>1. /\ Len(q) \in Nat /\ DOMAIN q = 1 .. Len(q)
        /\ DOMAIN Tail(q) = 1 .. Len(q) - 1 /\ \A k \in 1 .. Len(q) - 1 : Tail(q)[k] = q[k + 1]
      BY HeadTailProperties, EmptySeq
  <2>2. LateFrames(a, q, u)
      BY DEF StreamingTyped
  <2> SUFFICES ASSUME NEW k \in 1 .. Len(q) - 1, Tail(q)[k].f = "think",
                      a.text # 0 \/ \E m \in 1 .. k - 1 : Tail(q)[m].f = "text"
               PROVE  u.late
      BY <2>1 DEF LateFrames
  <2>3. k + 1 \in DOMAIN q /\ q[k + 1].f = "think"
      BY <2>1
  <2>4. a.text # 0 \/ \E m \in 1 .. (k + 1) - 1 : q[m].f = "text"
    <3> SUFFICES ASSUME a.text = 0 PROVE \E m \in 1 .. (k + 1) - 1 : q[m].f = "text"
        OBVIOUS
    <3>1. PICK m \in 1 .. k - 1 : Tail(q)[m].f = "text"
        OBVIOUS
    <3>2. m + 1 \in 1 .. (k + 1) - 1 /\ q[m + 1].f = "text"
        BY <2>1, <3>1
    <3> QED BY <3>2
  <2> QED BY <2>2, <2>3, <2>4, Zenon DEF LateFrames
<1>4. StreamingTyped(a, Tail(q), u, proto)
    BY <1>2, <1>3, Zenon DEF StreamingTyped
<1> QED BY <1>1, <1>4

(* FeedTyped, while the upstream talks.                                    *)
LEMMA FedTyped ==
  ASSUME NEW a, NEW q \in Seq(PieceFrame), q # <<>>, NEW u, NEW proto \in Typed, StreamingTyped(a, q, u, proto)
  PROVE  LET b == FeedTyped(proto, a, Head(q)) IN
         /\ StreamingTyped(b, Tail(q), u, proto)
         /\ Read(b) \o FramesOf(Tail(q), Prose) = Read(a) \o FramesOf(q, Prose)
<1> DEFINE x == Head(q)
           b == FeedTyped(proto, a, x)
           s == Strict(proto, u)
<1>1. q \in Seq(FrameType) /\ x.f \in {"role", "think", "text"} /\ (x.f \in Prose => x.d \in Nat)
    BY PieceFramesType
<1>2. Live(a, s) /\ (proto = "responses" => ROpen(a))
    BY DEF StreamingTyped
<1>3. CASE x.f = "role"
  <2>1. b = a
      BY <1>3 DEF FeedTyped
  <2> HIDE DEF b
  <2> QED BY <1>1, <1>3, <2>1, RoleMoves DEF b
<1>4. CASE x.f = "think"
  <2>1. b = IF proto = "responses" THEN ReasoningDeltaR(a, x.d) ELSE ThinkingDeltaA(a, x.d)
      BY <1>4 DEF FeedTyped
  <2>2. x.d \in Nat
      BY <1>1, <1>4 DEF Prose
  <2>3. proto = "responses" /\ a.text # 0 => ~s
    <3>1. LateFrames(a, q, u)
        BY DEF StreamingTyped
    <3>2. 1 \in DOMAIN q /\ q[1] = x
        BY HeadTailProperties, EmptySeq
    <3>3. a.text # 0 => u.late
        BY <1>4, <3>1, <3>2, Zenon DEF LateFrames
    <3> QED BY <3>3, Zenon DEF Strict
  <2> HIDE DEF b, s, x
  <2>4. PieceFed(a, b, s, "think", x.d) /\ (proto = "responses" => ROpen(b))
      BY <1>2, <2>1, <2>2, <2>3, ThinkFedR, ThinkFedA DEF Typed
  <2> QED BY <1>1, <1>4, <2>4, PieceMoves, SMTT(30) DEF b, s, x, Prose
<1>5. CASE x.f = "text"
  <2>1. b = IF proto = "responses" THEN TextDeltaR(a, x.d) ELSE TextDeltaA(a, x.d)
      BY <1>5 DEF FeedTyped
  <2>2. x.d \in Nat
      BY <1>1, <1>5 DEF Prose
  <2> HIDE DEF b, s, x
  <2>4. PieceFed(a, b, s, "text", x.d) /\ (proto = "responses" => ROpen(b))
      BY <1>2, <2>1, <2>2, TextFedR, TextFedA DEF Typed
  <2> QED BY <1>1, <1>5, <2>4, PieceMoves, SMTT(30) DEF b, s, x, Prose
<1> QED BY <1>1, <1>3, <1>4, <1>5

(* A Chat client reads the frame.                                          *)
LEMMA FedChat ==
  ASSUME NEW a \in AsmType, NEW q \in Seq(FrameType), q # <<>>
  PROVE  LET b == Feed("chat", a, Head(q)) IN
         /\ b \in AsmType /\ b.ev # <<>> /\ b.ev[Len(b.ev)].e = Head(q).f
         /\ Read(b) \o FramesOf(Tail(q), Prose) = Read(a) \o FramesOf(q, Prose)
<1> DEFINE y == Head(q)
           x == Ev(y.f, 0, y.d)
           b == Feed("chat", a, y)
<1>1. y \in FrameType /\ y.f \in FrameNames /\ y.d \in DataType
    BY FramesHead DEF FrameType
<1>2. b = Emit(a, x)
    BY DEF Feed, Ev
<1> HIDE DEF b, y
<1>3. x \in EvType /\ x.e = y.f /\ x.d = y.d
    BY <1>1, EvTyped DEF FrameNames, EventNames
<1> HIDE DEF x
<1>4. b \in AsmType /\ SameRest(a, b) /\ b.blocks = a.blocks /\ b.ev = Append(a.ev, x)
    BY <1>2, <1>3, EmitFields
<1>5. a.ev \in Seq(EvType)
    BY DEF AsmType
<1>6. /\ DOMAIN a.ev = 1 .. Len(a.ev) /\ Len(b.ev) = Len(a.ev) + 1 /\ b.ev[Len(a.ev) + 1] = x
      /\ \A k \in 1 .. Len(a.ev) : b.ev[k] = a.ev[k]
      /\ b.ev # <<>>
  <2> DEFINE w == Append(a.ev, x)
  <2>1. /\ DOMAIN a.ev = 1 .. Len(a.ev) /\ Len(w) = Len(a.ev) + 1 /\ w[Len(a.ev) + 1] = x
        /\ \A k \in 1 .. Len(a.ev) : w[k] = a.ev[k]
        /\ w # <<>>
      BY <1>3, <1>5, AppendProperties
  <2> HIDE DEF w
  <2> QED BY <1>4, <2>1 DEF w
<1>7. Emits(a, b, x)
    BY <1>4 DEF Emits, SameRest
<1>8. \A k \in DOMAIN a.ev : PieceAt(b, k) <=> PieceAt(a, k)
    BY <1>4, <1>6 DEF PieceAt
<1>9. PieceAt(b, Len(a.ev) + 1) <=> y.f \in Prose
  <2>1. y.f # "delta"
      BY <1>1 DEF FrameNames
  <2> QED BY <1>3, <1>6, <2>1 DEF PieceAt, Prose
<1>10. /\ Read(a) \in Seq(DataType) /\ Read(b) \in Seq(DataType)
       /\ PieceAt(b, Len(a.ev) + 1) => Read(b) = Append(Read(a), x.d)
       /\ ~PieceAt(b, Len(a.ev) + 1) => Read(b) = Read(a)
    BY <1>3, <1>4, <1>7, <1>8, ReadNext
<1>11. Read(b) \o FramesOf(Tail(q), Prose) = Read(a) \o FramesOf(q, Prose)
  <2>1. CASE y.f \in Prose
    <3> DEFINE F == FramesOf(q, Prose)
    <3>1. F \in Seq(DataType) /\ F # <<>> /\ Head(F) = y.d /\ Tail(F) = FramesOf(Tail(q), Prose)
        BY <2>1, FramesHead DEF y
    <3> HIDE DEF F
    <3>2. Read(b) = Append(Read(a), y.d)
        BY <1>3, <1>9, <1>10, <2>1
    <3>3. Append(Read(a), Head(F)) \o Tail(F) = Read(a) \o F
        BY <1>10, <3>1, MoveHead
    <3> QED BY <3>1, <3>2, <3>3, Zenon DEF F
  <2>2. CASE y.f \notin Prose
    <3>1. FramesOf(Tail(q), Prose) = FramesOf(q, Prose)
        BY <2>2, FramesHead DEF y
    <3>2. Read(b) = Read(a)
        BY <1>9, <1>10, <2>2
    <3> QED BY <3>1, <3>2
  <2> QED BY <2>1, <2>2
<1> QED BY <1>3, <1>4, <1>6, <1>11 DEF b, y

Streaming(a, q, u, proto) == q \in Seq(PieceFrame) /\ (proto # "chat" => StreamingTyped(a, q, u, proto))

(* What the client has read and what waits for it.                         *)
Reads(a, q) == Read(a) \o FramesOf(q, Prose)

(* Feed, while the upstream talks, for each protocol.                      *)
LEMMA FedStreaming ==
  ASSUME NEW a \in AsmType, NEW q, q # <<>>, NEW u, NEW proto \in Typed \cup {"chat"}, Streaming(a, q, u, proto)
  PROVE  LET b == Feed(proto, a, Head(q)) IN
         b \in AsmType /\ Streaming(b, Tail(q), u, proto) /\ Reads(b, Tail(q)) = Reads(a, q)
<1> DEFINE b == Feed(proto, a, Head(q))
<1>1. q \in Seq(PieceFrame) /\ q \in Seq(FrameType) /\ Tail(q) \in Seq(PieceFrame)
    BY PieceFramesType DEF Streaming
<1>2. CASE proto = "chat"
    BY <1>1, <1>2, FedChat DEF Streaming, Reads
<1>3. CASE proto # "chat"
  <2>1. StreamingTyped(a, q, u, proto) /\ proto \in Typed
      BY <1>3 DEF Streaming
  <2>2. b = FeedTyped(proto, a, Head(q))
      BY <1>3 DEF Feed
  <2> HIDE DEF b
  <2>3. StreamingTyped(b, Tail(q), u, proto) /\ Reads(b, Tail(q)) = Reads(a, q)
      BY <1>1, <2>1, <2>2, FedTyped DEF Reads
  <2>4. b \in AsmType
      BY <2>3, LiveFields DEF StreamingTyped
  <2> QED BY <1>1, <1>3, <2>3, <2>4 DEF Streaming, b
<1> QED BY <1>2, <1>3

-----------------------------------------------------------------------------
(* The lines of the upstream.                                              *)

(* The type of what was read.                                              *)
LEMMA ReadIn == ASSUME NEW a \in AsmType PROVE Read(a) \in Seq(DataType)
<1>1. a.ev \in Seq(EvType)
    BY DEF AsmType
<1>2. Len(a.ev) \in Nat /\ DOMAIN a.ev = 1 .. Len(a.ev) /\ \A k \in 1 .. Len(a.ev) : a.ev[k] \in EvType
    BY <1>1, ElementOfSeq
<1>3. \A y \in EvType : y.d \in DataType
    BY DEF EvType
<1>4. Data(a.ev) \in Seq(DataType) /\ Len(Data(a.ev)) = Len(a.ev)
    BY <1>2, <1>3 DEF Data
<1>5. KeptTo(Data(a.ev), ReadAt(a))[Len(Data(a.ev))] \in Seq(DataType)
  <2>1. Len(Data(a.ev)) \in 0 .. Len(Data(a.ev))
      BY <1>2, <1>4
  <2> QED BY <1>4, <2>1, KeptIn
<1>6. Kept(Data(a.ev), ReadAt(a)) = KeptTo(Data(a.ev), ReadAt(a))[Len(Data(a.ev))]
    BY <1>2, <1>4, KeptValues
<1> QED BY <1>5, <1>6 DEF Read

(* A stream that is well formed is so by the looser rule.                  *)
LEMMA Weaker ==
  ASSUME NEW a, NEW s, NEW t, t => s
  PROVE  (Good(a, s) => Good(a, t)) /\ (Live(a, s) => Live(a, t))
<1>1. AllFit(a.ev, s) => AllFit(a.ev, t)
    BY Zenon DEF AllFit, Fits
<1> QED BY <1>1, Zenon DEF Good, Live

(* An assembler that has seen nothing is well formed.                      *)
LEMMA NewIsLive ==
  ASSUME NEW s
  PROVE  /\ Live(NewAssembler, s) /\ Read(NewAssembler) = <<>> /\ NewAssembler.ev = <<>>
         /\ NewAssembler \in AsmType
<1> DEFINE a == NewAssembler
<1>0. ~a.started
    BY DEF NewAssembler
<1>1. /\ a.over = "" /\ a.blocks = <<>> /\ a.think = 0 /\ a.text = 0
      /\ a.finish = "" /\ a.ev = <<>>
    BY DEF NewAssembler
<1>1a. a.blocks = <<>> /\ a.think = 0 /\ a.text = 0
    BY DEF NewAssembler
<1>2. <<>> \in Seq(BlockType) /\ <<>> \in Seq(EvType) /\ DOMAIN <<>> = {} /\ Len(<<>>) = 0
    OBVIOUS
<1>3. a \in AsmType
  <2>1. ASSUME NEW v \in Seq(BlockType), NEW w \in Seq(EvType), NEW u \in {-1, 0, 1}
        PROVE  [started |-> FALSE, over |-> "", blocks |-> v, think |-> 0, text |-> 0,
                finish |-> "", usage |-> u, ev |-> w] \in AsmType
      BY DEF AsmType
  <2>2. <<>> \in Seq(BlockType) /\ <<>> \in Seq(EvType) /\ -1 \in {-1, 0, 1}
      OBVIOUS
  <2>3. [started |-> FALSE, over |-> "", blocks |-> <<>>, think |-> 0, text |-> 0,
         finish |-> "", usage |-> -1, ev |-> <<>>] \in AsmType
      BY <2>1, <2>2
  <2> QED BY <2>3 DEF NewAssembler
<1> HIDE DEF a
<1>4. Shape(a)
  <2>1. a.think \in 0 .. Len(a.blocks) /\ a.text \in 0 .. Len(a.blocks)
      BY <1>1a
  <2>2. DOMAIN a.blocks = {}
      BY <1>1, <1>2
  <2> QED BY <1>0, <1>1, <2>1, <2>2, Zenon DEF Shape
<1>5. Known(a)
    BY <1>1, <1>2, Zenon DEF Known
<1>6. Concluded(a)
    BY <1>1, <1>2 DEF Concluded
<1>7. AllFit(a.ev, s)
    BY <1>1, <1>2, Zenon DEF AllFit
<1>8. Read(a) = <<>>
  <2>0. Data(<<>>) = <<>>
      BY DEF Data
  <2>1. Data(a.ev) = <<>>
      BY <1>1, <2>0
  <2> QED BY <2>1, KeptEmpty DEF Read
<1> QED BY <1>1, <1>3, <1>4, <1>5, <1>6, <1>7, <1>8 DEF Live, Good, a

(* An item of the reasoning, or of the text, holds pieces.                 *)
LEMMA BufType ==
  ASSUME NEW a, NEW s, Live(a, s), NEW kind \in Prose
  PROVE  Buf(a, Place(a, kind)) \in Seq(Nat)
<1>1. CASE Place(a, kind) = 0
  <2>1. <<>> \in Seq(Nat)
      OBVIOUS
  <2> QED BY <1>1, <2>1 DEF Buf
<1>2. CASE Place(a, kind) # 0
  <2>1. Place(a, kind) \in DOMAIN a.blocks /\ a.blocks[Place(a, kind)].kind = kind
      BY <1>2, PlaceFields
  <2>2. a.blocks[Place(a, kind)].buf \in Seq(Nat)
      BY <2>1, BlockFields DEF Prose
  <2> QED BY <1>2, <2>2 DEF Buf
<1> QED BY <1>1, <1>2

(* When no frame waits, an item holds all pieces of its kind.              *)
LEMMA GrownDone ==
  ASSUME NEW a, NEW s, Live(a, s), NEW kind \in Prose, NEW w, Grown(a, <<>>, w, kind)
  PROVE  /\ w = Buf(a, Place(a, kind)) /\ w \in Seq(Nat)
         /\ (Place(a, kind) # 0 <=> w # <<>>)
<1>1. Buf(a, Place(a, kind)) \in Seq(Nat)
    BY BufType
<1>2. Buf(a, Place(a, kind)) \o <<>> = w
    BY FramesEmpty DEF Grown
<1>3. Buf(a, Place(a, kind)) = w
  <2> DEFINE v == Buf(a, Place(a, kind))
  <2>1. v \in Seq(Nat) /\ v \o <<>> = w
      BY <1>1, <1>2
  <2> HIDE DEF v
  <2>2. v = w
      BY <2>1
  <2> QED BY <2>2 DEF v
<1>4. Place(a, kind) = 0 => Buf(a, Place(a, kind)) = <<>>
    BY DEF Buf
<1> QED BY <1>1, <1>3, <1>4 DEF Grown

(* The role frame carries no piece.                                        *)
LEMMA NoFrames ==
  ASSUME NEW q \in {<<>>, <<RoleFrame>>}
  PROVE  q \in Seq(PieceFrame) /\ \A F \in {{"think"}, {"text"}, Prose} : FramesOf(q, F) = <<>>
<1>1. RoleFrame \in PieceFrame /\ RoleFrame \in FrameType /\ RoleFrame.f = "role"
    BY PieceFrameType DEF PieceFrame, RoleFrame
<1>2. <<>> \in Seq(PieceFrame) /\ <<RoleFrame>> \in Seq(PieceFrame)
    BY <1>1
<1>3. ASSUME NEW F \in {{"think"}, {"text"}, Prose} PROVE FramesOf(q, F) = <<>>
  <2>1. RoleFrame.f \notin F
      BY <1>1 DEF Prose
  <2> QED BY <1>1, <2>1, FramesOne, FramesEmpty
<1> QED BY <1>2, <1>3

(* The pieces of one line.                                                 *)
LEMMA LinePieces ==
  ASSUME NEW l \in LineType, NEW n \in Nat
  PROVE  /\ Pieces(l, n) \in Seq(PieceType)
         /\ l.think => FramesOf(Pieces(l, n), {"think"}) = <<n>>
         /\ ~l.think => FramesOf(Pieces(l, n), {"think"}) = <<>>
         /\ l.text => FramesOf(Pieces(l, n), {"text"}) = <<n>>
         /\ ~l.text => FramesOf(Pieces(l, n), {"text"}) = <<>>
<1> DEFINE A == IF l.think THEN <<ThinkFrame(n)>> ELSE <<>>
           B == IF l.text THEN <<TextFrame(n)>> ELSE <<>>
<1>1. ThinkFrame(n) \in PieceType /\ TextFrame(n) \in PieceType
    BY DEF ThinkFrame, TextFrame, PieceType
<1>2. ThinkFrame(n) \in FrameType /\ TextFrame(n) \in FrameType
    BY <1>1, PieceFrameType
<1>3. ThinkFrame(n).f = "think" /\ TextFrame(n).f = "text" /\ ThinkFrame(n).d = n /\ TextFrame(n).d = n
    BY DEF ThinkFrame, TextFrame
<1>4. A \in Seq(FrameType) /\ B \in Seq(FrameType)
    BY <1>2
<1>5. /\ l.think => FramesOf(A, {"think"}) = <<n>>
      /\ ~l.think => FramesOf(A, {"think"}) = <<>>
      /\ FramesOf(A, {"text"}) = <<>>
      /\ l.text => FramesOf(B, {"text"}) = <<n>>
      /\ ~l.text => FramesOf(B, {"text"}) = <<>>
      /\ FramesOf(B, {"think"}) = <<>>
    BY <1>2, <1>3, FramesOne, FramesEmpty
<1>6. Pieces(l, n) = IF req.prov = "ta3" THEN A \o B ELSE B \o A
    BY Zenon DEF Pieces
<1>7. Pieces(l, n) \in Seq(PieceType)
    BY PiecesType
<1> HIDE DEF A, B
<1>8. /\ FramesOf(A \o B, {"think"}) = FramesOf(A, {"think"}) \o FramesOf(B, {"think"})
      /\ FramesOf(B \o A, {"think"}) = FramesOf(B, {"think"}) \o FramesOf(A, {"think"})
      /\ FramesOf(A \o B, {"text"}) = FramesOf(A, {"text"}) \o FramesOf(B, {"text"})
      /\ FramesOf(B \o A, {"text"}) = FramesOf(B, {"text"}) \o FramesOf(A, {"text"})
    BY <1>4, FramesConcat
<1>9. <<n>> \o <<>> = <<n>> /\ <<>> \o <<n>> = <<n>> /\ <<>> \o <<>> = <<>>
    OBVIOUS
<1>10. FramesOf(Pieces(l, n), {"think"}) = FramesOf(A, {"think"})
  <2>1. FramesOf(A, {"think"}) \in {<<n>>, <<>>}
      BY <1>5
  <2> QED BY <1>5, <1>6, <1>8, <1>9, <2>1
<1>11. FramesOf(Pieces(l, n), {"text"}) = FramesOf(B, {"text"})
  <2>1. FramesOf(B, {"text"}) \in {<<n>>, <<>>}
      BY <1>5
  <2> QED BY <1>5, <1>6, <1>8, <1>9, <2>1
<1> QED BY <1>5, <1>7, <1>10, <1>11

(* Sequences of up to three elements, put together.                        *)
LEMMA Joined ==
  ASSUME NEW S, NEW x \in S, NEW y \in S, NEW z \in S
  PROVE  /\ <<>> \o <<>> = <<>> /\ <<x>> \o <<>> = <<x>> /\ <<>> \o <<x>> = <<x>>
         /\ <<x>> \o <<y>> = <<x, y>>
         /\ <<>> \o <<x, y>> = <<x, y>> /\ <<z>> \o <<x, y>> = <<z, x, y>>
<1>1. /\ <<>> \in Seq(S) /\ <<x>> \in Seq(S) /\ <<y>> \in Seq(S) /\ <<z>> \in Seq(S)
      /\ <<x, y>> \in Seq(S) /\ <<z, x, y>> \in Seq(S)
    OBVIOUS
<1>2. \A s \in Seq(S) : s \o <<>> = s /\ <<>> \o s = s
    OBVIOUS
<1>3. <<x>> \o <<y>> = <<x, y>>
  <2> DEFINE u == <<x>> \o <<y>>
             v == <<x, y>>
  <2>1. u \in Seq(S) /\ v \in Seq(S) /\ Len(u) = 2 /\ Len(v) = 2 /\ u[1] = v[1] /\ u[2] = v[2]
      BY <1>1
  <2> HIDE DEF u, v
  <2>2. \A i \in 1 .. 2 : u[i] = v[i]
      BY <2>1
  <2> QED BY <2>1, <2>2, SeqEqual DEF u, v
<1>4. <<z>> \o <<x, y>> = <<z, x, y>>
  <2> DEFINE u == <<z>> \o <<x, y>>
             v == <<z, x, y>>
  <2>1. u \in Seq(S) /\ v \in Seq(S) /\ Len(u) = 3 /\ Len(v) = 3 /\ u[1] = v[1] /\ u[2] = v[2] /\ u[3] = v[3]
      BY <1>1
  <2> HIDE DEF u, v
  <2>2. \A i \in 1 .. 3 : u[i] = v[i]
      BY <2>1
  <2> QED BY <2>1, <2>2, SeqEqual DEF u, v
<1> QED BY <1>1, <1>2, <1>3, <1>4

(* Only a line that carries both, of a provider that hands the text out    *)
(* first, has reasoning after text.                                        *)
LEMMA LineOrder ==
  ASSUME NEW l \in LineType, NEW n \in Nat, NEW base \in {<<>>, <<RoleFrame>>},
         NEW k \in DOMAIN (base \o Pieces(l, n)), (base \o Pieces(l, n))[k].f = "think"
  PROVE  /\ l.think
         /\ (\E m \in 1 .. k - 1 : (base \o Pieces(l, n))[m].f = "text") => l.text /\ req.prov # "ta3"
<1> DEFINE A == IF l.think THEN <<ThinkFrame(n)>> ELSE <<>>
           B == IF l.text THEN <<TextFrame(n)>> ELSE <<>>
           x == ThinkFrame(n)
           y == TextFrame(n)
           z == RoleFrame
           q == base \o Pieces(l, n)
<1>0. x \in FrameType /\ y \in FrameType /\ z \in FrameType
  <2>1. x \in PieceType /\ y \in PieceType
      BY DEF ThinkFrame, TextFrame, PieceType
  <2> QED BY <2>1, PieceFrameType DEF PieceFrame
<1>1. x.f = "think" /\ y.f = "text" /\ z.f = "role"
    BY DEF ThinkFrame, TextFrame, RoleFrame
<1>2. Pieces(l, n) = IF req.prov = "ta3" THEN A \o B ELSE B \o A
    BY Zenon DEF Pieces
<1> DEFINE th == l.think
           tx == l.text
           ta == req.prov = "ta3"
<1>3. A = (IF th THEN <<x>> ELSE <<>>) /\ B = (IF tx THEN <<y>> ELSE <<>>)
    OBVIOUS
<1>2a. Pieces(l, n) = IF ta THEN A \o B ELSE B \o A
    BY <1>2
<1>4. base \in {<<>>, <<z>>}
    OBVIOUS
<1>4a. th \in BOOLEAN /\ tx \in BOOLEAN /\ ta \in BOOLEAN
    BY DEF LineType
<1>4b. q = base \o Pieces(l, n)
    OBVIOUS
<1> HIDE DEF x, y, z, A, B, th, tx, ta, q
<1>5. \/ q \in {<<>>, <<z>>} /\ ~th /\ ~tx
      \/ q \in {<<x>>, <<z, x>>} /\ th /\ ~tx
      \/ q \in {<<y>>, <<z, y>>} /\ ~th /\ tx
      \/ q \in {<<x, y>>, <<z, x, y>>} /\ th /\ tx /\ ta
      \/ q \in {<<y, x>>, <<z, y, x>>} /\ th /\ tx /\ ~ta
  <2> DEFINE P == Pieces(l, n)
  <2>6. /\ <<>> \o <<>> = <<>> /\ <<x>> \o <<>> = <<x>> /\ <<>> \o <<x>> = <<x>>
        /\ <<y>> \o <<>> = <<y>> /\ <<>> \o <<y>> = <<y>>
        /\ <<x>> \o <<y>> = <<x, y>> /\ <<y>> \o <<x>> = <<y, x>>
      BY <1>0, Joined
  <2>7. /\ <<z>> \o <<>> = <<z>> /\ <<z>> \o <<x>> = <<z, x>> /\ <<z>> \o <<y>> = <<z, y>>
        /\ <<z>> \o <<x, y>> = <<z, x, y>> /\ <<z>> \o <<y, x>> = <<z, y, x>>
        /\ <<>> \o <<x, y>> = <<x, y>> /\ <<>> \o <<y, x>> = <<y, x>>
      BY <1>0, Joined, ZenonT(40)
  <2>8. q = base \o P
      BY <1>4b
  <2>9. q = <<>> \o P \/ q = <<z>> \o P
      BY <1>4, <2>8, Zenon
  <2> HIDE DEF P
  <2>2. CASE ~th /\ ~tx
    <3>1. A = <<>> /\ B = <<>>
        BY <1>3, <2>2
    <3>2. P = <<>>
        BY <1>2a, <2>6, <3>1 DEF P
    <3>3. q \in {<<>>, <<z>>}
        BY <2>6, <2>7, <2>9, <3>2
    <3> QED BY <2>2, <3>3
  <2>3. CASE th /\ ~tx
    <3>1. A = <<x>> /\ B = <<>>
        BY <1>3, <2>3
    <3>2. P = <<x>>
        BY <1>2a, <2>6, <3>1 DEF P
    <3>3. q \in {<<x>>, <<z, x>>}
        BY <2>6, <2>7, <2>9, <3>2
    <3> QED BY <2>3, <3>3
  <2>4. CASE ~th /\ tx
    <3>1. A = <<>> /\ B = <<y>>
        BY <1>3, <2>4
    <3>2. P = <<y>>
        BY <1>2a, <2>6, <3>1 DEF P
    <3>3. q \in {<<y>>, <<z, y>>}
        BY <2>6, <2>7, <2>9, <3>2
    <3> QED BY <2>4, <3>3
  <2>5. CASE th /\ tx
    <3>1. A = <<x>> /\ B = <<y>>
        BY <1>3, <2>5
    <3>2. P = IF ta THEN <<x, y>> ELSE <<y, x>>
        BY <1>2a, <2>6, <3>1 DEF P
    <3>3. CASE ta
      <4>1. q \in {<<x, y>>, <<z, x, y>>}
          BY <2>6, <2>7, <2>9, <3>2, <3>3
      <4> QED BY <2>5, <3>3, <4>1
    <3>4. CASE ~ta
      <4>1. q \in {<<y, x>>, <<z, y, x>>}
          BY <2>6, <2>7, <2>9, <3>2, <3>4
      <4> QED BY <2>5, <3>4, <4>1
    <3> QED BY <3>3, <3>4
  <2> QED BY <2>2, <2>3, <2>4, <2>5
<1>6. k \in DOMAIN q /\ q[k].f = "think"
    BY <1>4b
<1>7. th
    BY <1>1, <1>5, <1>6
<1>8. ASSUME NEW m \in 1 .. k - 1, q[m].f = "text" PROVE tx /\ ~ta
    BY <1>1, <1>5, <1>6, <1>8
<1> QED BY <1>7, <1>8 DEF q, th, tx, ta

(* What a line adds to a call: its pieces, and whether reasoning came late. *)
LEMMA AbsorbFields ==
  ASSUME NEW u \in UpType, NEW l \in LineType
  PROVE  LET v == Absorb(u, l)
             n == u.lines + 1
         IN  /\ n \in Nat /\ u.think \in Seq(Nat) /\ u.text \in Seq(Nat) /\ u.made \in Seq(PieceType)
             /\ v.think = IF l.think THEN Append(u.think, n) ELSE u.think
             /\ v.text = IF l.text THEN Append(u.text, n) ELSE u.text
             /\ v.made = u.made \o Pieces(l, n)
             /\ u.late => v.late
             /\ l.think /\ u.text # <<>> => v.late
             /\ l.think /\ l.text /\ req.prov # "ta3" => v.late
<1> DEFINE n == u.lines + 1
           th == IF l.think THEN Append(u.think, n) ELSE u.think
           tx == IF l.text THEN Append(u.text, n) ELSE u.text
           tl == MergeTool(u.tools, l)
           fi == IF l.finish # "" THEN l.finish ELSE u.finish
           us == IF l.usage # 0 THEN l.usage ELSE u.usage
           md == u.made \o Pieces(l, n)
           lt == u.late \/ (l.think /\ (u.text # <<>> \/ (l.text /\ req.prov # "ta3")))
           v  == [think |-> th, text |-> tx, tools |-> tl, finish |-> fi, usage |-> us, made |-> md,
                  lines |-> n, fallback |-> u.fallback, late |-> lt]
<1>1. Absorb(u, l) = v
    BY Zenon DEF Absorb
<1>2. /\ u.think \in Seq(Nat) /\ u.text \in Seq(Nat) /\ u.made \in Seq(PieceType) /\ u.lines \in Nat
    BY DEF UpType, PieceType
<1>3. n \in Nat
    BY <1>2
<1>4. v.think = th /\ v.text = tx /\ v.made = md
    OBVIOUS
<1>5. v.late = lt
    OBVIOUS
<1>6. /\ u.late => lt
      /\ l.think /\ u.text # <<>> => lt
      /\ l.think /\ l.text /\ req.prov # "ta3" => lt
    OBVIOUS
<1> HIDE DEF v, lt
<1> QED BY <1>1, <1>2, <1>3, <1>4, <1>5, <1>6, Zenon

(* The pieces of a line wait behind those before.                          *)
LEMMA GrownByLine ==
  ASSUME NEW a, NEW s, Live(a, s), NEW kind \in Prose, NEW w, NEW n \in Nat, NEW q \in Seq(FrameType),
         Grown(a, <<>>, w, kind)
  PROVE  /\ FramesOf(q, {kind}) = <<n>> => Grown(a, q, Append(w, n), kind)
         /\ FramesOf(q, {kind}) = <<>> => Grown(a, q, w, kind)
<1>1. w = Buf(a, Place(a, kind)) /\ w \in Seq(Nat) /\ (Place(a, kind) # 0 => w # <<>>)
    BY GrownDone
<1>2. w \o <<n>> = Append(w, n) /\ w \o <<>> = w
  <2>1. \A u \in Seq(Nat) : u \o <<n>> = Append(u, n) /\ u \o <<>> = u
      BY AppendIsConcat
  <2> QED BY <1>1, <2>1
<1> QED BY <1>1, <1>2, Zenon DEF Grown

(* One line, and the frames it gives rise to.                              *)
LEMMA LineStreams ==
  ASSUME NEW a \in AsmType, NEW u \in UpType, NEW l \in LineType, NEW proto, NEW base \in {<<>>, <<RoleFrame>>},
         Streaming(a, <<>>, u, proto), Reads(a, <<>>) = FramesOf(u.made, Prose)
  PROVE  LET v == Absorb(u, l)
             q == base \o Pieces(l, u.lines + 1)
         IN  Streaming(a, q, v, proto) /\ Reads(a, q) = FramesOf(v.made, Prose)
<1> DEFINE v == Absorb(u, l)
           n == u.lines + 1
           p == Pieces(l, n)
           q == base \o p
<1>1. /\ n \in Nat /\ u.think \in Seq(Nat) /\ u.text \in Seq(Nat) /\ u.made \in Seq(PieceType)
      /\ v.think = IF l.think THEN Append(u.think, n) ELSE u.think
      /\ v.text = IF l.text THEN Append(u.text, n) ELSE u.text
      /\ v.made = u.made \o p
    BY AbsorbFields, Zenon
<1>2. /\ u.late => v.late
      /\ l.think /\ u.text # <<>> => v.late
      /\ l.think /\ l.text /\ req.prov # "ta3" => v.late
    BY AbsorbFields, Zenon
<1> HIDE DEF v, n
<1>3. p \in Seq(PieceType) /\ p \in Seq(PieceFrame) /\ p \in Seq(FrameType) /\ u.made \in Seq(FrameType)
  <2>1. p \in Seq(PieceType)
      BY <1>1, LinePieces
  <2>2. PieceType \subseteq PieceFrame /\ PieceType \subseteq FrameType
      BY PieceFrameType DEF PieceFrame
  <2> HIDE DEF p
  <2> QED BY <1>1, <2>1, <2>2
<1>4. /\ l.think => FramesOf(p, {"think"}) = <<n>>
      /\ ~l.think => FramesOf(p, {"think"}) = <<>>
      /\ l.text => FramesOf(p, {"text"}) = <<n>>
      /\ ~l.text => FramesOf(p, {"text"}) = <<>>
    BY <1>1, LinePieces
<1>5. ASSUME NEW k \in DOMAIN q, q[k].f = "think"
      PROVE  /\ l.think
             /\ (\E m \in 1 .. k - 1 : q[m].f = "text") => l.text /\ req.prov # "ta3"
    BY <1>1, <1>5, LineOrder
<1>5a. q = base \o p
    OBVIOUS
<1> HIDE DEF p, q
<1>6. base \in Seq(PieceFrame) /\ base \in Seq(FrameType)
    BY NoFrames, PieceFramesType
<1>7. q \in Seq(PieceFrame) /\ q \in Seq(FrameType)
    BY <1>3, <1>5a, <1>6, ConcatProperties
<1>8. \A F \in {{"think"}, {"text"}, Prose} : FramesOf(q, F) = FramesOf(p, F)
  <2> TAKE F \in {{"think"}, {"text"}, Prose}
  <2>1. FramesOf(q, F) = FramesOf(base, F) \o FramesOf(p, F)
      BY <1>3, <1>5a, <1>6, FramesConcat
  <2>2. FramesOf(base, F) = <<>> /\ FramesOf(p, F) \in Seq(DataType)
      BY <1>3, NoFrames, FramesIn
  <2>3. \A s \in Seq(DataType) : <<>> \o s = s
      OBVIOUS
  <2> QED BY <2>1, <2>2, <2>3
<1>9. Reads(a, q) = FramesOf(v.made, Prose)
  <2>1. FramesOf(v.made, Prose) = FramesOf(u.made, Prose) \o FramesOf(p, Prose)
      BY <1>1, <1>3, FramesConcat
  <2>2. Read(a) \in Seq(DataType)
      BY ReadIn
  <2>3. Reads(a, <<>>) = Read(a) \o <<>>
      BY FramesEmpty DEF Reads
  <2>4. \A s \in Seq(DataType) : s \o <<>> = s
      OBVIOUS
  <2>5. Read(a) = FramesOf(u.made, Prose)
      BY <2>2, <2>3, <2>4
  <2>6. FramesOf(q, Prose) = FramesOf(p, Prose)
      BY <1>8
  <2> QED BY <2>1, <2>5, <2>6, Zenon DEF Reads
<1>10. ASSUME proto # "chat" PROVE StreamingTyped(a, q, v, proto)
  <2>1. StreamingTyped(a, <<>>, u, proto)
      BY <1>10 DEF Streaming
  <2>2. Live(a, Strict(proto, u)) /\ Grown(a, <<>>, u.think, "think") /\ Grown(a, <<>>, u.text, "text") /\ InOrder(a, u)
      BY <2>1, Zenon DEF StreamingTyped
  <2>3. Live(a, Strict(proto, v))
    <3>1. Strict(proto, v) => Strict(proto, u)
        BY <1>2, Zenon DEF Strict
    <3> QED BY <2>2, <3>1, Weaker
  <2>4. Grown(a, q, v.think, "think")
    <3>1. /\ FramesOf(q, {"think"}) = <<n>> => Grown(a, q, Append(u.think, n), "think")
          /\ FramesOf(q, {"think"}) = <<>> => Grown(a, q, u.think, "think")
        BY <1>1, <1>7, <2>2, GrownByLine DEF Prose
    <3>2. FramesOf(q, {"think"}) = FramesOf(p, {"think"})
        BY <1>8
    <3> QED BY <1>1, <1>4, <3>1, <3>2, Zenon
  <2>5. Grown(a, q, v.text, "text")
    <3>1. /\ FramesOf(q, {"text"}) = <<n>> => Grown(a, q, Append(u.text, n), "text")
          /\ FramesOf(q, {"text"}) = <<>> => Grown(a, q, u.text, "text")
        BY <1>1, <1>7, <2>2, GrownByLine DEF Prose
    <3>2. FramesOf(q, {"text"}) = FramesOf(p, {"text"})
        BY <1>8
    <3> QED BY <1>1, <1>4, <3>1, <3>2, Zenon
  <2>6. InOrder(a, v)
      BY <1>2, <2>2, Zenon DEF InOrder
  <2>7. LateFrames(a, q, v)
    <3> SUFFICES ASSUME NEW k \in DOMAIN q, q[k].f = "think",
                        a.text # 0 \/ \E m \in 1 .. k - 1 : q[m].f = "text"
                 PROVE  v.late
        BY Zenon DEF LateFrames
    <3>1. l.think /\ ((\E m \in 1 .. k - 1 : q[m].f = "text") => l.text /\ req.prov # "ta3")
        BY <1>5
    <3>2. a.text # 0 => u.text # <<>>
        BY <2>2, GrownDone DEF Place, Prose
    <3> QED BY <1>2, <3>1, <3>2, Zenon
  <2> QED BY <2>1, <2>3, <2>4, <2>5, <2>6, <2>7, Zenon DEF StreamingTyped
<1>11. Streaming(a, q, v, proto)
    BY <1>7, <1>10 DEF Streaming
<1> QED BY <1>9, <1>11 DEF v, q, p, n

(* A call that begins.                                                     *)
LEMMA NewStreams ==
  ASSUME NEW proto
  PROVE  Streaming(NewAssembler, <<>>, NewCall, proto) /\ Reads(NewAssembler, <<>>) = FramesOf(NewCall.made, Prose)
<1> DEFINE a == NewAssembler
           u == NewCall
<1>1. a.think = 0 /\ a.text = 0 /\ a.blocks = <<>> /\ a.finish = ""
    BY DEF NewAssembler
<1>2. u.think = <<>> /\ u.text = <<>> /\ u.made = <<>>
    BY DEF NewCall
<1>3. Live(a, Strict(proto, u)) /\ Read(a) = <<>>
    BY NewIsLive
<1> HIDE DEF a, u
<1>4. <<>> \o <<>> = <<>> /\ DOMAIN <<>> = {} /\ <<>> \in Seq(PieceFrame)
    OBVIOUS
<1>5. Grown(a, <<>>, u.think, "think") /\ Grown(a, <<>>, u.text, "text")
  <2>1. Place(a, "think") = 0 /\ Place(a, "text") = 0
      BY <1>1 DEF Place
  <2>2. FramesOf(<<>>, {"think"}) = <<>> /\ FramesOf(<<>>, {"text"}) = <<>>
      BY FramesEmpty
  <2> QED BY <1>2, <1>4, <2>1, <2>2, Zenon DEF Grown, Buf
<1>6. InOrder(a, u) /\ LateFrames(a, <<>>, u) /\ ROpen(a) /\ NoTools(a)
    BY <1>1, <1>4, Zenon DEF InOrder, LateFrames, ROpen, NoTools
<1>7. StreamingTyped(a, <<>>, u, proto)
    BY <1>1, <1>3, <1>5, <1>6 DEF StreamingTyped
<1>8. Reads(a, <<>>) = FramesOf(u.made, Prose)
    BY <1>2, <1>3, <1>4, FramesEmpty DEF Reads
<1> QED BY <1>4, <1>7, <1>8 DEF Streaming, a, u

(* The reason for the end says nothing of the pieces.                      *)
SameOutput(u, v) == v.think = u.think /\ v.text = u.text /\ (v.late <=> u.late) /\ v.made = u.made

(* So the stages do not depend on it.                                      *)
LEMMA OutputKept ==
  ASSUME NEW a, NEW q, NEW u, NEW v, NEW proto, SameOutput(u, v)
  PROVE  /\ Streaming(a, q, u, proto) => Streaming(a, q, v, proto)
         /\ Strict(proto, u) <=> Strict(proto, v)
<1>1. Strict(proto, u) <=> Strict(proto, v)
    BY Zenon DEF Strict, SameOutput
<1>2. ASSUME StreamingTyped(a, q, u, proto) PROVE StreamingTyped(a, q, v, proto)
  <2>1. Live(a, Strict(proto, v))
    <3>1. Live(a, Strict(proto, u))
        BY <1>2, Zenon DEF StreamingTyped
    <3> QED BY <1>1, <3>1, Weaker
  <2>2. InOrder(a, v) /\ LateFrames(a, q, v)
    <3>1. InOrder(a, u) /\ LateFrames(a, q, u)
        BY <1>2, Zenon DEF StreamingTyped
    <3> QED BY <3>1, Zenon DEF InOrder, LateFrames, SameOutput
  <2>3. Grown(a, q, v.think, "think") /\ Grown(a, q, v.text, "text")
    <3>1. Grown(a, q, u.think, "think") /\ Grown(a, q, u.text, "text")
        BY <1>2, Zenon DEF StreamingTyped
    <3> QED BY <3>1, Zenon DEF SameOutput
  <2> QED BY <1>2, <2>1, <2>2, <2>3, Zenon DEF StreamingTyped
<1> QED BY <1>1, <1>2, Zenon DEF Streaming

-----------------------------------------------------------------------------
(* The items of the answer.                                                *)

ItemType == [kind : {"think", "text", "tool"}, buf : Seq(Nat) \cup ToolType]
Named(its) == {k \in DOMAIN its : HasName(its[k])}
SentTo(u, m) == KeptTo(Items(u), Named(Items(u)))[m]
Sent(a) == [i \in DOMAIN a.blocks |-> Item(a.blocks[i].kind, a.blocks[i].buf)]

(* The items that are no calls.                                            *)
Said(u) == (IF u.think # <<>> THEN << Item("think", u.think) >> ELSE <<>>)
           \o (IF u.text # <<>> THEN << Item("text", u.text) >> ELSE <<>>)

(* The four forms of reasoning and text.                                   *)
LEMMA SaidCases ==
  ASSUME NEW u \in UpType
  PROVE  /\ u.think \in Seq(Nat) /\ u.text \in Seq(Nat) /\ u.tools \in Seq(ToolType)
         /\ Item("think", u.think) \in ItemType /\ Item("text", u.text) \in ItemType
         /\ Said(u) \in Seq(ItemType)
         /\ u.think = <<>> /\ u.text = <<>> => Said(u) = <<>>
         /\ u.think # <<>> /\ u.text = <<>> => Said(u) = << Item("think", u.think) >>
         /\ u.think = <<>> /\ u.text # <<>> => Said(u) = << Item("text", u.text) >>
         /\ u.think # <<>> /\ u.text # <<>> => Said(u) = << Item("think", u.think), Item("text", u.text) >>
<1> DEFINE x == Item("think", u.think)
           y == Item("text", u.text)
<1>1. u.think \in Seq(Nat) /\ u.text \in Seq(Nat) /\ u.tools \in Seq(ToolType)
    BY DEF UpType, ToolType
<1>2. x \in ItemType /\ y \in ItemType
    BY <1>1 DEF Item, ItemType
<1>3. Said(u) = (IF u.think # <<>> THEN <<x>> ELSE <<>>) \o (IF u.text # <<>> THEN <<y>> ELSE <<>>)
    BY DEF Said
<1> HIDE DEF x, y
<1>4. /\ <<>> \o <<>> = <<>> /\ <<x>> \o <<>> = <<x>> /\ <<>> \o <<y>> = <<y>> /\ <<x>> \o <<y>> = <<x, y>>
    BY <1>2, Joined
<1>5. /\ u.think = <<>> /\ u.text = <<>> => Said(u) = <<>>
      /\ u.think # <<>> /\ u.text = <<>> => Said(u) = <<x>>
      /\ u.think = <<>> /\ u.text # <<>> => Said(u) = <<y>>
      /\ u.think # <<>> /\ u.text # <<>> => Said(u) = <<x, y>>
    BY <1>3, <1>4, Zenon
<1>6. <<>> \in Seq(ItemType) /\ <<x>> \in Seq(ItemType) /\ <<y>> \in Seq(ItemType) /\ <<x, y>> \in Seq(ItemType)
    BY <1>2
<1>7. Said(u) \in Seq(ItemType)
    BY <1>5, <1>6, Zenon
<1> QED BY <1>1, <1>2, <1>5, <1>7 DEF x, y

(* The items of an answer: what was said, then the calls.                  *)
LEMMA ItemsFields ==
  ASSUME NEW u \in UpType
  PROVE  LET its == Items(u)
             p == Len(Said(u))
             n == Len(u.tools)
         IN  /\ its \in Seq(ItemType) /\ p \in Nat /\ n \in Nat /\ Len(its) = p + n /\ DOMAIN its = 1 .. p + n
             /\ \A i \in 1 .. p : its[i] = Said(u)[i]
             /\ \A j \in 1 .. n : its[p + j] = ToolItem(u.tools[j]) /\ u.tools[j] \in ToolType
<1> DEFINE its == Items(u)
           s == Said(u)
           p == Len(s)
           n == Len(u.tools)
           t == [k \in DOMAIN u.tools |-> ToolItem(u.tools[k])]
<1>1. s \in Seq(ItemType) /\ u.tools \in Seq(ToolType)
    BY SaidCases
<1>2. p \in Nat /\ n \in Nat /\ DOMAIN u.tools = 1 .. n /\ \A j \in 1 .. n : u.tools[j] \in ToolType
    BY <1>1, ElementOfSeq
<1>3. \A x \in ToolType : ToolItem(x) \in ItemType
    BY DEF ToolItem, Item, ItemType
<1>4. t = [k \in 1 .. n |-> ToolItem(u.tools[k])]
    BY <1>2
<1> HIDE DEF t
<1>5. t \in Seq(ItemType) /\ Len(t) = n /\ \A j \in 1 .. n : t[j] = ToolItem(u.tools[j])
    BY <1>2, <1>3, <1>4
<1>6. its = s \o t
    BY DEF Items, Said, t
<1> HIDE DEF s, its, p, n
<1>7. /\ s \o t \in Seq(ItemType) /\ Len(s \o t) = p + n /\ DOMAIN (s \o t) = 1 .. p + n
      /\ \A i \in 1 .. p : (s \o t)[i] = s[i]
      /\ \A j \in 1 .. n : (s \o t)[p + j] = t[j]
    BY <1>1, <1>2, <1>5 DEF p
<1> QED BY <1>2, <1>5, <1>6, <1>7, Zenon DEF s, its, p, n

(* If each of the first elements is kept, they are what is kept of them.   *)
LEMMA KeptAll ==
  ASSUME NEW S, NEW s \in Seq(S), NEW K, NEW n \in Nat, n <= Len(s), \A i \in 1 .. n : i \in K
  PROVE  /\ KeptTo(s, K)[n] \in Seq(S) /\ Len(KeptTo(s, K)[n]) = n
         /\ \A i \in 1 .. n : KeptTo(s, K)[n][i] = s[i]
<1> DEFINE F(m) == KeptTo(s, K)[m]
           Holds(m) == F(m) \in Seq(S) /\ Len(F(m)) = m /\ \A i \in 1 .. m : F(m)[i] = s[i]
           T == {m \in Nat : m <= n => Holds(m)}
<1>1. Len(s) \in Nat
    OBVIOUS
<1>2. 0 \in T
  <2>1. F(0) = <<>>
      BY <1>1, KeptNext
  <2> HIDE DEF F
  <2>2. <<>> \in Seq(S) /\ Len(<<>>) = 0 /\ \A i \in 1 .. 0 : FALSE
      OBVIOUS
  <2>3. Holds(0)
      BY <2>1, <2>2, Zenon
  <2> QED BY <2>3
<1>3. ASSUME NEW m \in Nat, m \in T PROVE m + 1 \in T
  <2> SUFFICES ASSUME m + 1 <= n PROVE Holds(m + 1)
      OBVIOUS
  <2>1. m + 1 \in 1 .. Len(s) /\ (m + 1) - 1 = m /\ m + 1 \in K /\ m <= n
      BY <1>1
  <2>1a. KeptTo(s, K)[m + 1] = IF m + 1 \in K THEN Append(KeptTo(s, K)[m], s[m + 1]) ELSE KeptTo(s, K)[m]
    <3>1. \A i \in 1 .. Len(s) : KeptTo(s, K)[i] = IF i \in K THEN Append(KeptTo(s, K)[i - 1], s[i])
                                                   ELSE KeptTo(s, K)[i - 1]
        BY <1>1, KeptNext
    <3>2. (m + 1) - 1 = m
        OBVIOUS
    <3> QED BY <2>1, <3>1, <3>2
  <2>2. F(m + 1) = Append(F(m), s[m + 1])
      BY <2>1, <2>1a
  <2>3. Holds(m) /\ s[m + 1] \in S
      BY <1>3, <2>1
  <2> HIDE DEF F
  <2>4. /\ Append(F(m), s[m + 1]) \in Seq(S) /\ Len(Append(F(m), s[m + 1])) = m + 1
        /\ Append(F(m), s[m + 1])[m + 1] = s[m + 1]
        /\ \A i \in 1 .. m : Append(F(m), s[m + 1])[i] = F(m)[i]
      BY <2>3, AppendProperties
  <2>5. \A i \in 1 .. m + 1 : i = m + 1 \/ i \in 1 .. m
      OBVIOUS
  <2> QED BY <2>2, <2>3, <2>4, <2>5
<1> HIDE DEF T
<1>4. n \in T
    BY <1>2, <1>3, SetInduction
<1> QED BY <1>4 DEF T

(* What a client knows before the calls of tools.                          *)
LEMMA SaidFirst ==
  ASSUME NEW u \in UpType
  PROVE  SentTo(u, Len(Said(u))) = Said(u)
<1> DEFINE its == Items(u)
           s == Said(u)
           p == Len(s)
           K == Named(its)
<1>1. /\ its \in Seq(ItemType) /\ p \in Nat /\ p <= Len(its) /\ DOMAIN its = 1 .. Len(its)
      /\ \A i \in 1 .. p : its[i] = s[i]
    BY ItemsFields
<1>2. s \in Seq(ItemType)
    BY SaidCases
<1>3. \A i \in 1 .. p : s[i].kind # "tool"
  <2>1. Item("think", u.think).kind = "think" /\ Item("text", u.text).kind = "text"
      BY DEF Item
  <2> DEFINE x == Item("think", u.think)
             y == Item("text", u.text)
  <2>2. s = <<>> \/ s = <<x>> \/ s = <<y>> \/ s = <<x, y>>
      BY SaidCases
  <2> HIDE DEF x, y, s
  <2> QED BY <2>1, <2>2 DEF x, y
<1> HIDE DEF its, s
<1>4. ASSUME NEW i \in 1 .. p PROVE i \in K
  <2>1. i \in DOMAIN its /\ its[i].kind # "tool"
      BY <1>1, <1>3
  <2>2. HasName(its[i])
      BY <2>1, Zenon DEF HasName
  <2> QED BY <2>1, <2>2, Zenon DEF Named
<1> HIDE DEF K, p
<1>5. /\ KeptTo(its, K)[p] \in Seq(ItemType) /\ Len(KeptTo(its, K)[p]) = p
      /\ \A i \in 1 .. p : KeptTo(its, K)[p][i] = its[i]
    BY <1>1, <1>4, KeptAll
<1>6. p = Len(s)
    BY DEF p
<1>7. KeptTo(its, K)[p] = s
    BY <1>1, <1>2, <1>5, <1>6, SeqEqual
<1> QED BY <1>7 DEF SentTo, its, K, p, s

(* The items of a stream, when the upstream has ended and no reasoning     *)
(* came late.                                                              *)
LEMMA SaidIsSent ==
  ASSUME NEW a, NEW u \in UpType, NEW proto, StreamingTyped(a, <<>>, u, proto), ~u.late
  PROVE  Sent(a) = Said(u)
<1> DEFINE s == Strict(proto, u)
           n == Len(a.blocks)
           th == a.think
           tx == a.text
           x == Item("think", u.think)
           y == Item("text", u.text)
           S == Sent(a)
<1>1. Live(a, s) /\ NoTools(a) /\ Grown(a, <<>>, u.think, "think") /\ Grown(a, <<>>, u.text, "text") /\ InOrder(a, u)
    BY Zenon DEF StreamingTyped
<1> HIDE DEF s
<1>2. n \in Nat /\ DOMAIN a.blocks = 1 .. n /\ a.blocks \in Seq(BlockType) /\ Shape(a)
    BY <1>1, LiveFields
<1>3. /\ th \in 0 .. n /\ tx \in 0 .. n
      /\ th # 0 => a.blocks[th].kind = "think"
      /\ tx # 0 => a.blocks[tx].kind = "text"
      /\ \A i \in 1 .. n : (a.blocks[i].kind = "think" => i = th) /\ (a.blocks[i].kind = "text" => i = tx)
    BY <1>2, Zenon DEF Shape
<1>4. \A i \in 1 .. n : i = th \/ i = tx
  <2> TAKE i \in 1 .. n
  <2>1. a.blocks[i] \in BlockType /\ a.blocks[i].kind # "tool"
      BY <1>1, <1>2 DEF NoTools
  <2>2. a.blocks[i].kind \in {"think", "text"}
      BY <2>1 DEF BlockType
  <2> QED BY <1>3, <2>2
<1>5. /\ th # 0 <=> u.think # <<>>
      /\ tx # 0 <=> u.text # <<>>
      /\ th # 0 => a.blocks[th].buf = u.think
      /\ tx # 0 => a.blocks[tx].buf = u.text
    BY <1>1, GrownDone DEF Place, Prose, Buf
<1>6. th # 0 /\ tx # 0 => th < tx
    BY <1>1 DEF InOrder
<1>7. S = [i \in 1 .. n |-> Item(a.blocks[i].kind, a.blocks[i].buf)]
    BY <1>2 DEF Sent
<1>8. /\ th # 0 => S[th] = x
      /\ tx # 0 => S[tx] = y
    BY <1>3, <1>5, <1>7
<1>9. /\ Said(u) \in Seq(ItemType) /\ x \in ItemType /\ y \in ItemType
      /\ th = 0 /\ tx = 0 => Said(u) = <<>>
      /\ th # 0 /\ tx = 0 => Said(u) = <<x>>
      /\ th = 0 /\ tx # 0 => Said(u) = <<y>>
      /\ th # 0 /\ tx # 0 => Said(u) = <<x, y>>
    BY <1>5, SaidCases
<1>10. S \in Seq(ItemType) /\ Len(S) = n
  <2>1. \A b \in BlockType : Item(b.kind, b.buf) \in ItemType
      BY DEF BlockType, ItemType, Item
  <2>2. \A i \in 1 .. n : a.blocks[i] \in BlockType
      BY <1>2
  <2>3. \A i \in 1 .. n : Item(a.blocks[i].kind, a.blocks[i].buf) \in ItemType
      BY <2>1, <2>2
  <2> HIDE DEF S
  <2> QED BY <1>2, <1>7, <2>3
<1> HIDE DEF n, th, tx, x, y, S
<1>11. CASE th = 0 /\ tx = 0
  <2>1. n = 0
      BY <1>2, <1>4, <1>11
  <2> QED BY <1>9, <1>10, <1>11, <2>1, EmptySeq DEF S
<1>12. CASE th # 0 /\ tx = 0
  <2>1. n = 1 /\ th = 1
      BY <1>2, <1>3, <1>4, <1>12
  <2>2. S[1] = x /\ Said(u) = <<x>> /\ Len(<<x>>) = 1
      BY <1>8, <1>9, <1>12, <2>1
  <2>3. \A i \in 1 .. 1 : S[i] = Said(u)[i]
      BY <2>2
  <2> QED BY <1>9, <1>10, <2>1, <2>2, <2>3, SeqEqual DEF S
<1>13. CASE th = 0 /\ tx # 0
  <2>1. n = 1 /\ tx = 1
      BY <1>2, <1>3, <1>4, <1>13
  <2>2. S[1] = y /\ Said(u) = <<y>> /\ Len(<<y>>) = 1
      BY <1>8, <1>9, <1>13, <2>1
  <2>3. \A i \in 1 .. 1 : S[i] = Said(u)[i]
      BY <2>2
  <2> QED BY <1>9, <1>10, <2>1, <2>2, <2>3, SeqEqual DEF S
<1>14. CASE th # 0 /\ tx # 0
  <2>1. n = 2 /\ th = 1 /\ tx = 2
    <3>1. n >= tx /\ tx >= 2 /\ th >= 1
        BY <1>2, <1>3, <1>6, <1>14
    <3>2. n = 2
      <4>1. CASE n >= 3
        <5>1. 1 \in 1 .. n /\ 2 \in 1 .. n /\ 3 \in 1 .. n
            BY <1>2, <4>1
        <5>2. (1 = th \/ 1 = tx) /\ (2 = th \/ 2 = tx) /\ (3 = th \/ 3 = tx)
            BY <1>4, <5>1
        <5>3. th \in Nat /\ tx \in Nat
            BY <1>2, <1>3
        <5> QED BY <5>2, <5>3
      <4> QED BY <1>2, <1>3, <3>1, <4>1
    <3> QED BY <1>2, <1>3, <1>6, <3>1, <3>2
  <2>2. S[1] = x /\ S[2] = y /\ Said(u) = <<x, y>> /\ Len(<<x, y>>) = 2
      BY <1>8, <1>9, <1>14, <2>1
  <2>3. \A i \in 1 .. 2 : S[i] = Said(u)[i]
      BY <2>2
  <2> QED BY <1>9, <1>10, <2>1, <2>2, <2>3, SeqEqual DEF S
<1> QED BY <1>11, <1>12, <1>13, <1>14

-----------------------------------------------------------------------------
(* The stream after the upstream has ended.                                *)

(* The last frames of a stream, counted from the end: the end mark, the    *)
(* usage, the reason, the calls from the last to the first, and the role   *)
(* if there was no piece before.                                           *)
FinishFrame(r) == [f |-> "finish", d |-> r]
UsageFrame(n)  == [f |-> "usage", d |-> n]
DoneFrame      == [f |-> "DONE", d |-> 0]
EndFrame(u, m) == IF m = 1 THEN DoneFrame
                  ELSE IF m = 2 THEN UsageFrame(u.usage)
                  ELSE IF m = 3 THEN FinishFrame(OpenAIFinish(u.finish))
                  ELSE IF m <= Len(u.tools) + 3 THEN ToolFrame(u.tools[Len(u.tools) + 4 - m])
                  ELSE RoleFrame
EndFrames(u, q) == /\ q \in Seq(FrameType) /\ Len(q) <= Len(u.tools) + 4
                   /\ \A k \in 1 .. Len(q) : q[k] = EndFrame(u, Len(q) - k + 1)

(* Those frames are frames, and carry no piece.                            *)
LEMMA EndFrameType ==
  ASSUME NEW u \in UpType, NEW m \in 1 .. Len(u.tools) + 4
  PROVE  /\ EndFrame(u, m) \in FrameType /\ EndFrame(u, m).f \notin Prose
<1>1. u.tools \in Seq(ToolType) /\ u.finish \in FinishReasons /\ u.usage \in {0, 1}
    BY DEF UpType, ToolType
<1>2. \A f \in FrameNames, d \in DataType : [f |-> f, d |-> d] \in FrameType
    BY DEF FrameType
<1>3. DoneFrame \in FrameType /\ DoneFrame.f = "DONE"
  <2>1. 0 \in DataType /\ "DONE" \in FrameNames
      BY DEF DataType, FrameNames
  <2> QED BY <1>2, <2>1 DEF DoneFrame
<1>4. UsageFrame(u.usage) \in FrameType /\ UsageFrame(u.usage).f = "usage"
  <2>1. u.usage \in DataType /\ "usage" \in FrameNames
      BY <1>1 DEF DataType, FrameNames
  <2> QED BY <1>2, <2>1 DEF UsageFrame
<1>5. FinishFrame(OpenAIFinish(u.finish)) \in FrameType /\ FinishFrame(OpenAIFinish(u.finish)).f = "finish"
  <2>1. OpenAIFinish(u.finish) \in FinishReasons
      BY <1>1 DEF OpenAIFinish, FinishReasons
  <2>2. OpenAIFinish(u.finish) \in DataType /\ "finish" \in FrameNames
      BY <2>1 DEF DataType, FrameNames
  <2> QED BY <1>2, <2>2 DEF FinishFrame
<1>6. \A t \in ToolType : ToolFrame(t) \in FrameType /\ ToolFrame(t).f = "tool"
  <2> TAKE t \in ToolType
  <2>1. t \in DataType /\ "tool" \in FrameNames
      BY DEF DataType, FrameNames
  <2> QED BY <1>2, <2>1 DEF ToolFrame
<1>7. RoleFrame \in FrameType /\ RoleFrame.f = "role"
    BY PieceFrameType DEF PieceFrame, RoleFrame
<1>8. m > 3 /\ m <= Len(u.tools) + 3 => u.tools[Len(u.tools) + 4 - m] \in ToolType
  <2>1. Len(u.tools) \in Nat
      BY <1>1
  <2>2. m > 3 /\ m <= Len(u.tools) + 3 => Len(u.tools) + 4 - m \in 1 .. Len(u.tools)
      BY <2>1
  <2> QED BY <1>1, <2>2, ElementOfSeq
<1>9. m \in Nat /\ m >= 1
  <2>1. Len(u.tools) \in Nat
      BY <1>1
  <2> QED BY <2>1
<1>10. \/ EndFrame(u, m) \in {DoneFrame, UsageFrame(u.usage), FinishFrame(OpenAIFinish(u.finish)), RoleFrame}
       \/ \E t \in ToolType : EndFrame(u, m) = ToolFrame(t)
    BY <1>8, <1>9 DEF EndFrame
<1> QED BY <1>3, <1>4, <1>5, <1>6, <1>7, <1>10 DEF Prose

(* Without the first, the rest are the last frames of the stream.          *)
LEMMA EndFramesTail ==
  ASSUME NEW u \in UpType, NEW q, EndFrames(u, q)
  PROVE  /\ q \in Seq(FrameType) /\ Len(q) \in Nat /\ Len(u.tools) \in Nat /\ FramesOf(q, Prose) = <<>>
         /\ q # <<>> => /\ Head(q) = EndFrame(u, Len(q)) /\ Len(q) \in 1 .. Len(u.tools) + 4
                        /\ EndFrames(u, Tail(q)) /\ Len(Tail(q)) = Len(q) - 1
<1>1. q \in Seq(FrameType) /\ Len(q) \in Nat /\ Len(q) <= Len(u.tools) + 4
    BY DEF EndFrames
<1>2. Len(u.tools) \in Nat
  <2>1. u.tools \in Seq(ToolType)
      BY DEF UpType, ToolType
  <2> QED BY <2>1
<1>3. FramesOf(q, Prose) = <<>>
  <2>1. ASSUME NEW k \in 1 .. Len(q) PROVE q[k].f \notin Prose
    <3>1. Len(q) - k + 1 \in 1 .. Len(u.tools) + 4 /\ q[k] = EndFrame(u, Len(q) - k + 1)
        BY <1>1, <1>2 DEF EndFrames
    <3> QED BY <3>1, EndFrameType
  <2> QED BY <1>1, <2>1, FramesNone
<1>4. ASSUME q # <<>>
      PROVE  /\ Head(q) = EndFrame(u, Len(q)) /\ Len(q) \in 1 .. Len(u.tools) + 4
             /\ EndFrames(u, Tail(q)) /\ Len(Tail(q)) = Len(q) - 1
  <2>1. /\ Len(q) >= 1 /\ Tail(q) \in Seq(FrameType) /\ Len(Tail(q)) = Len(q) - 1 /\ Head(q) = q[1]
        /\ \A k \in 1 .. Len(q) - 1 : Tail(q)[k] = q[k + 1]
      BY <1>1, <1>4, HeadTailProperties, EmptySeq
  <2>2. 1 \in 1 .. Len(q) /\ Len(q) - 1 + 1 = Len(q)
      BY <1>1, <2>1
  <2>3. Head(q) = EndFrame(u, Len(q))
      BY <2>1, <2>2 DEF EndFrames
  <2>4. ASSUME NEW k \in 1 .. Len(q) - 1 PROVE Tail(q)[k] = EndFrame(u, (Len(q) - 1) - k + 1)
    <3>1. k + 1 \in 1 .. Len(q) /\ Len(q) - (k + 1) + 1 = (Len(q) - 1) - k + 1
        BY <1>1
    <3>2. q[k + 1] = EndFrame(u, Len(q) - (k + 1) + 1)
        BY <3>1, Zenon DEF EndFrames
    <3> QED BY <2>1, <3>1, <3>2
  <2>5. EndFrames(u, Tail(q))
      BY <1>1, <1>2, <2>1, <2>4 DEF EndFrames
  <2> QED BY <1>1, <1>2, <2>1, <2>3, <2>5
<1> QED BY <1>1, <1>2, <1>3, <1>4

(* The frames of the done event.                                           *)
LEMMA DoneFramesEnd ==
  ASSUME NEW u \in UpType, NEW base \in {<<>>, <<RoleFrame>>}
  PROVE  LET q == base \o DoneFrames(u, TRUE) IN EndFrames(u, q) /\ Len(q) >= Len(u.tools) + 3
<1> DEFINE n == Len(u.tools)
           t == [k \in DOMAIN u.tools |-> ToolFrame(u.tools[k])]
           x == FinishFrame(OpenAIFinish(u.finish))
           y == UsageFrame(u.usage)
           z == DoneFrame
           w == t \o <<x>> \o <<y>> \o <<z>>
           q == base \o w
<1>1. DoneFrames(u, TRUE) = w
    BY DEF DoneFrames, FinishFrame, UsageFrame, DoneFrame
<1>2. n \in Nat /\ DOMAIN u.tools = 1 .. n
  <2>1. u.tools \in Seq(ToolType)
      BY DEF UpType, ToolType
  <2> QED BY <2>1
<1>3. /\ EndFrame(u, 1) = z /\ EndFrame(u, 2) = y /\ EndFrame(u, 3) = x /\ EndFrame(u, n + 4) = RoleFrame
      /\ \A k \in 1 .. n : EndFrame(u, n - k + 4) = ToolFrame(u.tools[k])
  <2>1. EndFrame(u, n + 4) = RoleFrame
      BY <1>2 DEF EndFrame
  <2>2. ASSUME NEW k \in 1 .. n PROVE EndFrame(u, n - k + 4) = ToolFrame(u.tools[k])
    <3>1. n - k + 4 > 3 /\ n - k + 4 <= n + 3 /\ n + 4 - (n - k + 4) = k
        BY <1>2
    <3> QED BY <1>2, <3>1 DEF EndFrame
  <2> QED BY <2>1, <2>2 DEF EndFrame
<1>4. /\ x \in FrameType /\ y \in FrameType /\ z \in FrameType
      /\ \A k \in 1 .. n : ToolFrame(u.tools[k]) \in FrameType
  <2>1. 1 \in 1 .. n + 4 /\ 2 \in 1 .. n + 4 /\ 3 \in 1 .. n + 4 /\ \A k \in 1 .. n : n - k + 4 \in 1 .. n + 4
      BY <1>2
  <2>2. \A m \in 1 .. n + 4 : EndFrame(u, m) \in FrameType
      BY EndFrameType
  <2> QED BY <1>3, <2>1, <2>2
<1>5. t = [k \in 1 .. n |-> ToolFrame(u.tools[k])]
    BY <1>2
<1> HIDE DEF t, x, y, z, n
<1>6. t \in Seq(FrameType) /\ Len(t) = n /\ \A k \in 1 .. n : t[k] = ToolFrame(u.tools[k])
    BY <1>2, <1>4, <1>5
<1>7. /\ w \in Seq(FrameType) /\ Len(w) = n + 3 /\ w[n + 1] = x /\ w[n + 2] = y /\ w[n + 3] = z
      /\ \A k \in 1 .. n : w[k] = t[k]
  <2> DEFINE w1 == t \o <<x>>
             w2 == w1 \o <<y>>
  <2>1. w1 \in Seq(FrameType) /\ Len(w1) = n + 1 /\ w1[n + 1] = x /\ \A k \in 1 .. n : w1[k] = t[k]
      BY <1>2, <1>4, <1>6
  <2> HIDE DEF w1
  <2>2. w2 \in Seq(FrameType) /\ Len(w2) = n + 2 /\ w2[n + 2] = y /\ \A k \in 1 .. n + 1 : w2[k] = w1[k]
      BY <1>2, <1>4, <2>1
  <2> HIDE DEF w2
  <2>3. /\ w2 \o <<z>> \in Seq(FrameType) /\ Len(w2 \o <<z>>) = n + 3 /\ (w2 \o <<z>>)[n + 3] = z
        /\ \A k \in 1 .. n + 2 : (w2 \o <<z>>)[k] = w2[k]
      BY <1>2, <1>4, <2>2
  <2>4. w = w2 \o <<z>>
      BY DEF w2, w1
  <2>5. n + 1 \in 1 .. n + 1 /\ n + 1 \in 1 .. n + 2 /\ n + 2 \in 1 .. n + 2
        /\ \A k \in 1 .. n : k \in 1 .. n + 1 /\ k \in 1 .. n + 2
      BY <1>2
  <2> HIDE DEF w
  <2> QED BY <2>1, <2>2, <2>3, <2>4, <2>5
<1> HIDE DEF w
<1>8. \A k \in 1 .. n + 3 : w[k] = EndFrame(u, n + 3 - k + 1)
  <2> TAKE k \in 1 .. n + 3
  <2>1. k \in 1 .. n \/ k = n + 1 \/ k = n + 2 \/ k = n + 3
      BY <1>2
  <2>2. CASE k \in 1 .. n
    <3>1. n + 3 - k + 1 = n - k + 4
        BY <1>2
    <3> QED BY <1>3, <1>6, <1>7, <2>2, <3>1
  <2>3. CASE k = n + 1
    <3>1. n + 3 - k + 1 = 3
        BY <1>2, <2>3
    <3> QED BY <1>3, <1>7, <2>3, <3>1
  <2>4. CASE k = n + 2
    <3>1. n + 3 - k + 1 = 2
        BY <1>2, <2>4
    <3> QED BY <1>3, <1>7, <2>4, <3>1
  <2>5. CASE k = n + 3
    <3>1. n + 3 - k + 1 = 1
        BY <1>2, <2>5
    <3> QED BY <1>3, <1>7, <2>5, <3>1
  <2> QED BY <2>1, <2>2, <2>3, <2>4, <2>5
<1>9. q = base \o w /\ q = base \o DoneFrames(u, TRUE)
    BY <1>1
<1> HIDE DEF q
<1>10. ASSUME base = <<>> PROVE EndFrames(u, q) /\ Len(q) >= n + 3
  <2>1. \A s \in Seq(FrameType) : <<>> \o s = s
      OBVIOUS
  <2>2. q = w
      BY <1>7, <1>9, <1>10, <2>1
  <2>3. EndFrames(u, q)
      BY <1>2, <1>7, <1>8, <2>2, SMTT(30) DEF EndFrames, n
  <2> QED BY <1>2, <1>7, <2>2, <2>3
<1>11. ASSUME base = <<RoleFrame>> PROVE EndFrames(u, q) /\ Len(q) >= n + 3
  <2>1. RoleFrame \in FrameType
      BY PieceFrameType DEF PieceFrame
  <2> DEFINE r == RoleFrame
  <2>2. q = <<r>> \o w /\ r \in FrameType
      BY <1>9, <1>11, <2>1
  <2> HIDE DEF r
  <2>3. /\ <<r>> \o w \in Seq(FrameType) /\ Len(<<r>> \o w) = n + 4 /\ (<<r>> \o w)[1] = r
        /\ \A k \in 1 .. n + 3 : (<<r>> \o w)[k + 1] = w[k]
      BY <1>2, <1>7, <2>2
  <2>4. ASSUME NEW k \in 1 .. n + 4 PROVE q[k] = EndFrame(u, n + 4 - k + 1)
    <3>1. CASE k = 1
      <4>1. n + 4 - k + 1 = n + 4
          BY <1>2, <3>1
      <4> QED BY <1>3, <2>2, <2>3, <3>1, <4>1 DEF r
    <3>2. CASE k # 1
      <4>1. k - 1 \in 1 .. n + 3 /\ (k - 1) + 1 = k /\ n + 3 - (k - 1) + 1 = n + 4 - k + 1
          BY <1>2, <3>2
      <4>2. w[k - 1] = EndFrame(u, n + 3 - (k - 1) + 1)
          BY <1>8, <4>1
      <4>3. (<<r>> \o w)[(k - 1) + 1] = w[k - 1]
          BY <2>3, <4>1
      <4> QED BY <2>2, <4>1, <4>2, <4>3
    <3> QED BY <3>1, <3>2
  <2>5. EndFrames(u, q)
      BY <1>2, <2>2, <2>3, <2>4 DEF EndFrames, n
  <2> QED BY <1>2, <2>2, <2>3, <2>5
<1> QED BY <1>9, <1>10, <1>11 DEF n

(* What the client knows of the items, after a step of the assembler.      *)
SentIs(a, its) == /\ its \in Seq(ItemType) /\ Len(its) = Len(a.blocks)
                  /\ \A i \in 1 .. Len(a.blocks) : its[i] = Item(a.blocks[i].kind, a.blocks[i].buf)

(* Sent is a sequence of items.                                            *)
LEMMA SentFields ==
  ASSUME NEW a \in AsmType
  PROVE  SentIs(a, Sent(a)) /\ Len(a.blocks) \in Nat /\ DOMAIN a.blocks = 1 .. Len(a.blocks)
<1>1. a.blocks \in Seq(BlockType)
    BY DEF AsmType
<1>2. Len(a.blocks) \in Nat /\ DOMAIN a.blocks = 1 .. Len(a.blocks)
    BY <1>1
<1> DEFINE n == Len(a.blocks)
           F(i) == Item(a.blocks[i].kind, a.blocks[i].buf)
<1>3. \A i \in 1 .. n : F(i) \in ItemType
  <2> TAKE i \in 1 .. n
  <2>1. a.blocks[i] \in BlockType
      BY <1>1, <1>2, ElementOfSeq
  <2> QED BY <2>1 DEF BlockType, ItemType, Item
<1>4. Sent(a) = [i \in 1 .. n |-> F(i)]
    BY <1>2 DEF Sent
<1> HIDE DEF F, n
<1>5. n \in Nat
    BY <1>2 DEF n
<1>6. Sent(a) \in Seq(ItemType) /\ Len(Sent(a)) = n /\ \A i \in 1 .. n : Sent(a)[i] = F(i)
    BY <1>3, <1>4, <1>5
<1> QED BY <1>2, <1>6 DEF SentIs, F, n

(* There is one such sequence.                                             *)
LEMMA SentOnly ==
  ASSUME NEW a \in AsmType, NEW its, SentIs(a, its)
  PROVE  Sent(a) = its
<1>1. SentIs(a, Sent(a)) /\ Len(a.blocks) \in Nat
    BY SentFields
<1>2. Sent(a) \in Seq(ItemType) /\ its \in Seq(ItemType) /\ Len(Sent(a)) = Len(its)
    BY <1>1 DEF SentIs
<1>3. \A i \in 1 .. Len(its) : Sent(a)[i] = its[i]
    BY <1>1 DEF SentIs
<1> QED BY <1>2, <1>3, SeqEqual

(* Opening and closing do not change what is known of the items.           *)
LEMMA SentSame ==
  ASSUME NEW a \in AsmType, NEW b \in AsmType, Len(b.blocks) = Len(a.blocks),
         \A i \in DOMAIN a.blocks : SameBlock(a, b, i)
  PROVE  Sent(b) = Sent(a)
<1>1. SentIs(a, Sent(a)) /\ DOMAIN a.blocks = 1 .. Len(a.blocks)
    BY SentFields
<1>2. SentIs(b, Sent(a))
    BY <1>1 DEF SentIs, SameBlock
<1> QED BY <1>2, SentOnly

(* A call with a name becomes an item, another one does not.               *)
LEMMA SentTool ==
  ASSUME NEW a \in AsmType, NEW b, NEW s, NEW t \in ToolType, ToolFed(a, b, s, t)
  PROVE  /\ t.name = "" => Sent(b) = Sent(a)
         /\ t.name # "" => Sent(b) = Append(Sent(a), ToolItem(t))
<1>1. /\ b \in AsmType /\ \A i \in DOMAIN a.blocks : SameBlock(a, b, i)
      /\ t.name = "" => Len(b.blocks) = Len(a.blocks)
  <2>1. Live(b, s)
      BY DEF ToolFed, Running
  <2> QED BY <2>1, LiveFields DEF ToolFed
<1>2. t.name = "" => Sent(b) = Sent(a)
    BY <1>1, SentSame
<1>3. ASSUME t.name # "" PROVE Sent(b) = Append(Sent(a), ToolItem(t))
  <2> DEFINE n == Len(a.blocks)
             w == Append(Sent(a), ToolItem(t))
  <2>1. /\ SentIs(a, Sent(a)) /\ n \in Nat /\ DOMAIN a.blocks = 1 .. n
      BY SentFields
  <2>2. Len(b.blocks) = n + 1 /\ b.blocks[n + 1].kind = "tool" /\ b.blocks[n + 1].buf = t
      BY <1>3 DEF ToolFed
  <2>3. ToolItem(t) \in ItemType
      BY DEF ToolItem, Item, ItemType
  <2>4. /\ Sent(a) \in Seq(ItemType) /\ Len(Sent(a)) = n
        /\ \A i \in 1 .. n : Sent(a)[i] = Item(a.blocks[i].kind, a.blocks[i].buf)
      BY <2>1 DEF SentIs
  <2>5. /\ w \in Seq(ItemType) /\ Len(w) = n + 1 /\ w[n + 1] = ToolItem(t)
        /\ \A i \in 1 .. n : w[i] = Sent(a)[i]
      BY <2>1, <2>3, <2>4, AppendProperties
  <2> HIDE DEF w, n
  <2>6. ASSUME NEW i \in 1 .. n + 1 PROVE w[i] = Item(b.blocks[i].kind, b.blocks[i].buf)
    <3>1. CASE i \in 1 .. n
      <4>1. SameBlock(a, b, i)
          BY <1>1, <2>1, <3>1
      <4> QED BY <2>4, <2>5, <3>1, <4>1 DEF SameBlock
    <3>2. CASE i = n + 1
        BY <2>2, <2>5, <3>2 DEF ToolItem
    <3> QED BY <2>1, <3>1, <3>2
  <2>7. SentIs(b, w)
      BY <2>2, <2>5, <2>6 DEF SentIs
  <2>8. Sent(b) = w
      BY <1>1, <2>7, SentOnly
  <2> QED BY <2>8 DEF w
<1> QED BY <1>2, <1>3

(* What is told of the next call.                                          *)
LEMMA SentToNext ==
  ASSUME NEW u \in UpType, NEW j \in 1 .. Len(u.tools)
  PROVE  LET p == Len(Said(u))
             t == u.tools[j]
         IN  /\ t \in ToolType /\ p \in Nat
             /\ t.name = "" => SentTo(u, p + j) = SentTo(u, p + (j - 1))
             /\ t.name # "" => SentTo(u, p + j) = Append(SentTo(u, p + (j - 1)), ToolItem(t))
<1> DEFINE its == Items(u)
           p == Len(Said(u))
           n == Len(u.tools)
           t == u.tools[j]
           K == Named(its)
<1>1. /\ its \in Seq(ItemType) /\ p \in Nat /\ n \in Nat /\ Len(its) = p + n /\ DOMAIN its = 1 .. p + n
      /\ its[p + j] = ToolItem(t) /\ t \in ToolType
    BY ItemsFields
<1> HIDE DEF its, p, n
<1>2. j \in 1 .. n
    BY DEF n
<1> HIDE DEF t, K
<1>3. p + j \in 1 .. Len(its) /\ (p + j) - 1 = p + (j - 1) /\ Len(its) \in Nat
    BY <1>1, <1>2
<1>4. KeptTo(its, K)[p + j] = IF p + j \in K THEN Append(KeptTo(its, K)[(p + j) - 1], its[p + j])
                              ELSE KeptTo(its, K)[(p + j) - 1]
    BY <1>3, KeptNext
<1>5. p + j \in K <=> t.name # ""
  <2>1. HasName(ToolItem(t)) <=> t.name # ""
      BY DEF HasName, ToolItem, Item
  <2>2. p + j \in DOMAIN its
      BY <1>1, <1>3
  <2> QED BY <1>1, <2>1, <2>2 DEF K, Named
<1>6. \A m : SentTo(u, m) = KeptTo(its, K)[m]
    BY DEF SentTo, K, its
<1>7. /\ t.name = "" => SentTo(u, p + j) = SentTo(u, p + (j - 1))
      /\ t.name # "" => SentTo(u, p + j) = Append(SentTo(u, p + (j - 1)), ToolItem(t))
    BY <1>1, <1>3, <1>4, <1>5, <1>6
<1> QED BY <1>1, <1>7 DEF p, t

(* All of them.                                                            *)
LEMMA SentLast ==
  ASSUME NEW u \in UpType
  PROVE  SentTo(u, Len(Said(u)) + Len(u.tools)) = Kept(Items(u), Named(Items(u)))
<1>1. Len(Items(u)) = Len(Said(u)) + Len(u.tools) /\ Len(Items(u)) \in Nat
  <2>1. /\ Len(Items(u)) = Len(Said(u)) + Len(u.tools) /\ Items(u) \in Seq(ItemType)
      BY ItemsFields
  <2> QED BY <2>1
<1> QED BY <1>1, KeptValues DEF SentTo

(* While the upstream has ended: how many calls of tools the client was    *)
(* told of when n frames are left of a stream with t calls.                *)
Given(n, t) == IF n <= 3 THEN t ELSE IF n <= t + 3 THEN t + 3 - n ELSE 0
TellsItems(a, u, n) == u.late \/ Sent(a) = SentTo(u, Len(Said(u)) + Given(n, Len(u.tools)))

EndedFor(a, u) == a.finish = OpenAIFinish(u.finish) /\ AllClosed(a)
Telling(a, u, proto)   == Live(a, Strict(proto, u)) /\ a.finish = ""
Finishing(a, u, proto) == Live(a, Strict(proto, u)) /\ EndedFor(a, u)
Finished(a, u, proto)  == /\ Good(a, Strict(proto, u)) /\ EndedFor(a, u)
                          /\ SaysEnd(proto, a, a.finish, u.usage)
EndingTyped(a, q, u, proto) ==
    /\ EndFrames(u, q) /\ TellsItems(a, u, Len(q))
    /\ Len(q) >= 3 => Telling(a, u, proto)
    /\ Len(q) = 2 => Finishing(a, u, proto)
    /\ Len(q) <= 1 => Finished(a, u, proto)

(* One frame later.                                                        *)
LEMMA GivenNext ==
  ASSUME NEW t \in Nat, NEW n \in 1 .. t + 4
  PROVE  /\ n <= 3 => Given(n - 1, t) = Given(n, t)
         /\ n > 3 /\ n <= t + 3 => /\ Given(n, t) = (t + 4 - n) - 1 /\ Given(n - 1, t) = t + 4 - n
                                   /\ t + 4 - n \in 1 .. t
         /\ n > t + 3 /\ n > 3 => Given(n - 1, t) = Given(n, t)
BY DEF Given

(* The reason of a call is never empty.                                    *)
LEMMA FinishKnown ==
  ASSUME NEW u \in UpType
  PROVE  OpenAIFinish(u.finish) \in FinishReasons /\ OpenAIFinish(u.finish) # "" /\ u.usage \in {0, 1}
<1>1. u.finish \in FinishReasons /\ u.usage \in {0, 1}
    BY DEF UpType
<1> QED BY <1>1 DEF OpenAIFinish, FinishReasons

(* A well formed stream has its type.                                      *)
LEMMA GoodType == ASSUME NEW a, NEW s, Good(a, s) PROVE a \in AsmType
BY DEF Good

(* The items are told of as they were.                                     *)
LEMMA ToldSame ==
  ASSUME NEW a, NEW b, NEW u, NEW n, NEW m, TellsItems(a, u, n), Sent(b) = Sent(a),
         Given(m, Len(u.tools)) = Given(n, Len(u.tools))
  PROVE  TellsItems(b, u, m)
BY DEF TellsItems

(* The same items are known when the items are the same.                   *)
LEMMA SameBlocksSent == ASSUME NEW a, NEW b, b.blocks = a.blocks PROVE Sent(b) = Sent(a)
BY DEF Sent

(* The first frame, and the end mark.                                      *)
LEMMA FedRole == ASSUME NEW proto, NEW a PROVE FeedTyped(proto, a, RoleFrame) = a
BY DEF FeedTyped, RoleFrame

(* It has nothing left to do after the usage.                              *)
LEMMA FedDone ==
  ASSUME NEW a, NEW u \in UpType, NEW proto \in Typed, Finished(a, u, proto)
  PROVE  FeedTyped(proto, a, DoneFrame) = a
<1>0. FeedTyped(proto, a, DoneFrame) = Conclude(proto, CloseAll(a))
    BY DEF FeedTyped, DoneFrame
<1>1. Good(a, Strict(proto, u)) /\ AllClosed(a)
    BY DEF Finished, EndedFor
<1>2. a.over # ""
    BY DEF Finished, SaysEnd
<1>3. CloseAll(a) = a
    BY <1>1, NothingToClose
<1> QED BY <1>0, <1>2, <1>3, ConcludedBefore

(* The usage frame.                                                        *)
LEMMA FedUsage ==
  ASSUME NEW a, NEW u \in UpType, NEW proto \in Typed, Finishing(a, u, proto)
  PROVE  LET b == FeedTyped(proto, a, UsageFrame(u.usage)) IN
         Finished(b, u, proto) /\ Read(b) = Read(a) /\ Sent(b) = Sent(a)
<1> DEFINE s == Strict(proto, u)
           c == [a EXCEPT !.usage = u.usage]
           b == Conclude(proto, c)
<1>1. Live(a, s) /\ EndedFor(a, u) /\ AllClosed(a) /\ a.finish = OpenAIFinish(u.finish)
    BY DEF Finishing, EndedFor
<1>2. OpenAIFinish(u.finish) # "" /\ u.usage \in {0, 1}
    BY FinishKnown
<1>3. FeedTyped(proto, a, UsageFrame(u.usage)) = b
    BY <1>1, <1>2 DEF FeedTyped, UsageFrame
<1> HIDE DEF s
<1>4. Live(c, s) /\ Noted(a, c) /\ c.finish = a.finish /\ c.usage = u.usage /\ Read(c) = Read(a)
    BY <1>1, <1>2, UsageNoted
<1> HIDE DEF c
<1>5. c.blocks = a.blocks
    BY <1>4 DEF Noted
<1>6. AllClosed(c)
    BY <1>1, <1>5 DEF AllClosed
<1>7. Good(b, s) /\ SaysEnd(proto, b, c.finish, c.usage) /\ Sealed(c, b)
    BY <1>4, <1>6, ConcludedNow
<1> HIDE DEF b
<1>8. b.blocks = a.blocks /\ b.finish = a.finish /\ Read(b) = Read(a)
    BY <1>4, <1>5, <1>7 DEF Sealed
<1>9. AllClosed(b)
    BY <1>1, <1>8 DEF AllClosed
<1>10. SaysEnd(proto, b, b.finish, u.usage)
    BY <1>4, <1>7, <1>8
<1>11. Sent(b) = Sent(a)
    BY <1>8, SameBlocksSent
<1>12. EndedFor(b, u)
    BY <1>1, <1>8, <1>9 DEF EndedFor
<1>13. Finished(b, u, proto)
    BY <1>7, <1>10, <1>12 DEF Finished, s
<1> QED BY <1>3, <1>8, <1>11, <1>13

(* The frame of the reason.                                                *)
LEMMA FedFinish ==
  ASSUME NEW a, NEW u \in UpType, NEW proto \in Typed, Telling(a, u, proto)
  PROVE  LET b == FeedTyped(proto, a, FinishFrame(OpenAIFinish(u.finish))) IN
         Finishing(b, u, proto) /\ Read(b) = Read(a) /\ Sent(b) = Sent(a)
<1> DEFINE s == Strict(proto, u)
           f == OpenAIFinish(u.finish)
           c == [a EXCEPT !.finish = f]
           b == CloseAll(c)
<1>1. Live(a, s)
    BY DEF Telling
<1>2. f \in FinishReasons
    BY FinishKnown
<1>3. FeedTyped(proto, a, FinishFrame(f)) = b
    BY DEF FeedTyped, FinishFrame
<1> HIDE DEF s, f
<1>4. Live(c, s) /\ Noted(a, c) /\ c.finish = f /\ Read(c) = Read(a)
    BY <1>1, <1>2, FinishNoted
<1> HIDE DEF c
<1>5. Closes(c, b, s, DOMAIN c.blocks) /\ AllClosed(b)
    BY <1>4, AllAreClosed
<1> HIDE DEF b
<1>6. Live(b, s) /\ b.finish = f /\ Read(b) = Read(a) /\ SameItems(c, b)
    BY <1>4, <1>5 DEF Closes, SameRest
<1>7. Sent(b) = Sent(c)
  <2>1. b \in AsmType /\ c \in AsmType
      BY <1>4, <1>6, LiveFields
  <2> QED BY <1>6, <2>1, SentSame DEF SameItems
<1>8. Sent(c) = Sent(a)
    BY <1>4, SameBlocksSent DEF Noted
<1>9. EndedFor(b, u)
    BY <1>5, <1>6 DEF EndedFor, f
<1>10. Finishing(b, u, proto)
    BY <1>6, <1>9 DEF Finishing, s
<1> QED BY <1>3, <1>6, <1>7, <1>8, <1>10 DEF f

(* A call of a tool.                                                       *)
LEMMA FedTool ==
  ASSUME NEW a, NEW u \in UpType, NEW proto \in Typed, Telling(a, u, proto), NEW n \in 4 .. Len(u.tools) + 3,
         TellsItems(a, u, n)
  PROVE  LET b == FeedTyped(proto, a, ToolFrame(u.tools[Len(u.tools) + 4 - n])) IN
         Telling(b, u, proto) /\ Read(b) = Read(a) /\ TellsItems(b, u, n - 1)
<1> DEFINE s == Strict(proto, u)
           m == Len(u.tools)
           j == m + 4 - n
           t == u.tools[j]
           b == ToolDelta(a, t)
           p == Len(Said(u))
<1>1. m \in Nat
  <2>1. u.tools \in Seq(ToolType)
      BY DEF UpType, ToolType
  <2> QED BY <2>1
<1>2. n \in 1 .. m + 4 /\ n > 3 /\ n <= m + 3
    BY <1>1
<1>3. FeedTyped(proto, a, ToolFrame(t)) = b
    BY DEF FeedTyped, ToolFrame
<1>4. Live(a, s) /\ a.finish = ""
    BY DEF Telling
<1>5. Given(n, m) = j - 1 /\ Given(n - 1, m) = j /\ j \in 1 .. m
    BY <1>1, <1>2, GivenNext
<1>6. t \in ToolType /\ (t.name = "" => SentTo(u, p + j) = SentTo(u, p + (j - 1)))
      /\ (t.name # "" => SentTo(u, p + j) = Append(SentTo(u, p + (j - 1)), ToolItem(t)))
    BY <1>5, SentToNext
<1> HIDE DEF s, j, t, b
<1>7. ToolFed(a, b, s, t)
    BY <1>4, <1>6, ToolIsFed DEF b
<1>8. Live(b, s) /\ b.finish = "" /\ Read(b) = Read(a)
    BY <1>4, <1>7 DEF ToolFed, Running, SameRest
<1>9. (t.name = "" => Sent(b) = Sent(a)) /\ (t.name # "" => Sent(b) = Append(Sent(a), ToolItem(t)))
  <2>1. a \in AsmType
      BY <1>4, LiveFields
  <2> QED BY <1>6, <1>7, <2>1, SentTool
<1>10. u.late \/ Sent(a) = SentTo(u, p + (j - 1))
    BY <1>5 DEF TellsItems
<1>11. u.late \/ Sent(b) = SentTo(u, p + j)
    BY <1>6, <1>9, <1>10
<1>12. TellsItems(b, u, n - 1)
    BY <1>5, <1>11 DEF TellsItems
<1>13. Telling(b, u, proto)
    BY <1>8 DEF Telling, s
<1> QED BY <1>3, <1>8, <1>12, <1>13 DEF t, j

(* FeedTyped on each of the last frames, in their order.                   *)
LEMMA FedEndingTyped ==
  ASSUME NEW a \in AsmType, NEW q, q # <<>>, NEW u \in UpType, NEW proto \in Typed, EndingTyped(a, q, u, proto)
  PROVE  LET b == FeedTyped(proto, a, Head(q)) IN
         b \in AsmType /\ EndingTyped(b, Tail(q), u, proto) /\ Read(b) = Read(a)
<1> DEFINE n == Len(q)
           m == Len(u.tools)
           r == Tail(q)
           b == FeedTyped(proto, a, Head(q))
           s == Strict(proto, u)
<1>1. /\ n \in 1 .. m + 4 /\ m \in Nat /\ Head(q) = EndFrame(u, n) /\ EndFrames(u, r) /\ Len(r) = n - 1
  <2>1. EndFrames(u, q)
      BY DEF EndingTyped
  <2> QED BY <2>1, EndFramesTail
<1>2. TellsItems(a, u, n)
    BY DEF EndingTyped
<1>3. /\ n >= 3 => Telling(a, u, proto)
      /\ n = 2 => Finishing(a, u, proto)
      /\ n <= 1 => Finished(a, u, proto)
    BY DEF EndingTyped
<1> HIDE DEF n, m, r, s
<1>4. SUFFICES /\ b \in AsmType /\ Read(b) = Read(a) /\ TellsItems(b, u, n - 1)
               /\ n - 1 >= 3 => Telling(b, u, proto)
               /\ n - 1 = 2 => Finishing(b, u, proto)
               /\ n - 1 <= 1 => Finished(b, u, proto)
  <2> HIDE DEF b
  <2> QED BY <1>1, <1>4 DEF EndingTyped, b, r
<1>5. /\ n <= 3 => Given(n - 1, m) = Given(n, m)
      /\ n > m + 3 /\ n > 3 => Given(n - 1, m) = Given(n, m)
    BY <1>1, GivenNext
<1>6. CASE n = 1
  <2>1. Finished(a, u, proto)
      BY <1>3, <1>6
  <2>2. Head(q) = DoneFrame
      BY <1>1, <1>6 DEF EndFrame
  <2>4. b = a
      BY <2>1, <2>2, FedDone
  <2>5. TellsItems(a, u, n - 1)
      BY <1>2, <1>5, <1>6, ToldSame DEF m
  <2> HIDE DEF b
  <2> QED BY <1>6, <2>1, <2>4, <2>5
<1>7. CASE n = 2
  <2>1. Finishing(a, u, proto)
      BY <1>3, <1>7
  <2>2. Head(q) = UsageFrame(u.usage)
      BY <1>1, <1>7 DEF EndFrame
  <2>3. Finished(b, u, proto) /\ Read(b) = Read(a) /\ Sent(b) = Sent(a)
      BY <2>1, <2>2, FedUsage
  <2> HIDE DEF b
  <2>4. b \in AsmType
      BY <2>3, GoodType DEF Finished
  <2>5. TellsItems(b, u, n - 1)
      BY <1>2, <1>5, <1>7, <2>3, ToldSame DEF m
  <2> QED BY <1>7, <2>3, <2>4, <2>5
<1>8. CASE n = 3
  <2>1. Telling(a, u, proto)
      BY <1>3, <1>8
  <2>2. Head(q) = FinishFrame(OpenAIFinish(u.finish))
      BY <1>1, <1>8 DEF EndFrame
  <2>3. Finishing(b, u, proto) /\ Read(b) = Read(a) /\ Sent(b) = Sent(a)
      BY <2>1, <2>2, FedFinish
  <2> HIDE DEF b
  <2>4. b \in AsmType
    <3>1. Live(b, Strict(proto, u))
        BY <2>3 DEF Finishing
    <3> QED BY <3>1, LiveFields
  <2>5. TellsItems(b, u, n - 1)
      BY <1>2, <1>5, <1>8, <2>3, ToldSame DEF m
  <2> QED BY <1>8, <2>3, <2>4, <2>5
<1>9. CASE n > 3
  <2>1. Telling(a, u, proto)
      BY <1>1, <1>3, <1>9
  <2>2. SUFFICES b \in AsmType /\ Read(b) = Read(a) /\ TellsItems(b, u, n - 1) /\ Telling(b, u, proto)
    <3> HIDE DEF b
    <3> QED BY <1>1, <1>9, <2>2
  <2>3. CASE n <= m + 3
    <3>1. Head(q) = ToolFrame(u.tools[m + 4 - n])
        BY <1>1, <1>9, <2>3 DEF EndFrame, m
    <3>2. n \in 4 .. m + 3
        BY <1>1, <1>9, <2>3
    <3>3. Telling(b, u, proto) /\ Read(b) = Read(a) /\ TellsItems(b, u, n - 1)
        BY <1>2, <2>1, <3>1, <3>2, FedTool DEF m
    <3> HIDE DEF b
    <3>4. b \in AsmType
      <4>1. Live(b, Strict(proto, u))
          BY <3>3 DEF Telling
      <4> QED BY <4>1, LiveFields
    <3> QED BY <3>3, <3>4
  <2>4. CASE n > m + 3
    <3>1. Head(q) = RoleFrame
        BY <1>1, <1>9, <2>4 DEF EndFrame, m
    <3>2. b = a
        BY <3>1, FedRole
    <3>3. TellsItems(a, u, n - 1)
        BY <1>2, <1>5, <1>9, <2>4, ToldSame DEF m
    <3> HIDE DEF b
    <3> QED BY <2>1, <3>2, <3>3
  <2> QED BY <1>1, <2>3, <2>4
<1> QED BY <1>1, <1>6, <1>7, <1>8, <1>9

(* A stream at its end.                                                    *)
EndingChat(a, q) == /\ q \in Seq(FrameType)
                    /\ q # <<>> => q[Len(q)].f = "DONE"
                    /\ q = <<>> => a.ev # <<>> /\ a.ev[Len(a.ev)].e = "DONE"
Ending(a, q, u, proto) == IF proto = "chat" THEN EndingChat(a, q) ELSE EndingTyped(a, q, u, proto)

(* The last frames are frames.                                             *)
LEMMA EndingFrames ==
  ASSUME NEW a, NEW q, NEW u \in UpType, NEW proto, Ending(a, q, u, proto)
  PROVE  q \in Seq(FrameType)
<1>1. CASE proto = "chat"
    BY <1>1 DEF Ending, EndingChat
<1>2. CASE proto # "chat"
  <2>1. EndFrames(u, q)
      BY <1>2 DEF Ending, EndingTyped
  <2> QED BY <2>1, EndFramesTail
<1> QED BY <1>1, <1>2

(* Feed on each of the last frames, for each protocol.                     *)
LEMMA FedEnding ==
  ASSUME NEW a \in AsmType, NEW q, q # <<>>, NEW u \in UpType, NEW proto \in Typed \cup {"chat"},
         Ending(a, q, u, proto)
  PROVE  LET b == Feed(proto, a, Head(q)) IN
         b \in AsmType /\ Ending(b, Tail(q), u, proto) /\ Reads(b, Tail(q)) = Reads(a, q)
<1> DEFINE b == Feed(proto, a, Head(q))
<1>1. CASE proto = "chat"
  <2>1. EndingChat(a, q)
      BY <1>1 DEF Ending
  <2>2. q \in Seq(FrameType) /\ q[Len(q)].f = "DONE"
      BY <2>1 DEF EndingChat
  <2>3. /\ b \in AsmType /\ b.ev # <<>> /\ b.ev[Len(b.ev)].e = Head(q).f
        /\ Read(b) \o FramesOf(Tail(q), Prose) = Read(a) \o FramesOf(q, Prose)
      BY <1>1, <2>2, FedChat
  <2> HIDE DEF b
  <2>4. /\ Len(q) \in Nat /\ Len(q) >= 1 /\ Tail(q) \in Seq(FrameType) /\ Len(Tail(q)) = Len(q) - 1 /\ Head(q) = q[1]
        /\ \A k \in 1 .. Len(q) - 1 : Tail(q)[k] = q[k + 1]
      BY <2>2, HeadTailProperties, EmptySeq
  <2>5. ASSUME Tail(q) # <<>> PROVE Tail(q)[Len(Tail(q))].f = "DONE"
    <3>1. Len(q) - 1 \in 1 .. Len(q) - 1 /\ (Len(q) - 1) + 1 = Len(q)
        BY <2>4, <2>5, EmptySeq
    <3>2. Tail(q)[Len(q) - 1] = q[(Len(q) - 1) + 1]
        BY <2>4, <3>1
    <3> QED BY <2>2, <2>4, <3>1, <3>2
  <2>6. ASSUME Tail(q) = <<>> PROVE Head(q).f = "DONE"
    <3>1. Len(<<>>) = 0
        OBVIOUS
    <3>2. \A n \in Nat : n - 1 = 0 => n = 1
        OBVIOUS
    <3>3. Len(q) - 1 = 0
        BY <2>4, <2>6, <3>1, Zenon
    <3>4. Len(q) = 1
        BY <2>4, <3>2, <3>3, Zenon
    <3> QED BY <2>2, <2>4, <3>4
  <2>7. EndingChat(b, Tail(q))
      BY <2>3, <2>4, <2>5, <2>6 DEF EndingChat
  <2> QED BY <1>1, <2>3, <2>7 DEF Ending, Reads, b
<1>2. CASE proto # "chat"
  <2>1. proto \in Typed /\ EndingTyped(a, q, u, proto)
      BY <1>2 DEF Ending
  <2>2. b = FeedTyped(proto, a, Head(q))
      BY <1>2 DEF Feed
  <2>3. b \in AsmType /\ EndingTyped(b, Tail(q), u, proto) /\ Read(b) = Read(a)
      BY <2>1, <2>2, FedEndingTyped
  <2>4. FramesOf(q, Prose) = <<>> /\ FramesOf(Tail(q), Prose) = <<>>
    <3>1. EndFrames(u, q) /\ EndFrames(u, Tail(q))
        BY <2>1, <2>3 DEF EndingTyped
    <3> QED BY <3>1, EndFramesTail
  <2> HIDE DEF b
  <2> QED BY <1>2, <2>3, <2>4 DEF Ending, Reads, b
<1> QED BY <1>1, <1>2

(* The done event.                                                         *)
LEMMA DoneEndsTyped ==
  ASSUME NEW a, NEW u \in UpType, NEW proto \in Typed, NEW base \in {<<>>, <<RoleFrame>>},
         StreamingTyped(a, <<>>, u, proto)
  PROVE  EndingTyped(a, base \o DoneFrames(u, TRUE), u, proto) /\ FramesOf(base \o DoneFrames(u, TRUE), Prose) = <<>>
<1> DEFINE q == base \o DoneFrames(u, TRUE)
           m == Len(u.tools)
           p == Len(Said(u))
<1>1. EndFrames(u, q) /\ Len(q) >= m + 3
    BY DoneFramesEnd
<1> HIDE DEF q
<1>2. Len(q) \in Nat /\ m \in Nat /\ FramesOf(q, Prose) = <<>>
    BY <1>1, EndFramesTail
<1>3. p \in Nat
    BY ItemsFields
<1>4. Given(Len(q), m) = 0
    BY <1>1, <1>2 DEF Given
<1>5. u.late \/ Sent(a) = SentTo(u, p + 0)
    BY <1>3, SaidIsSent, SaidFirst
<1>6. TellsItems(a, u, Len(q))
    BY <1>4, <1>5 DEF TellsItems
<1>7. Telling(a, u, proto)
    BY DEF StreamingTyped, Telling
<1>8. Len(q) # 2 /\ ~(Len(q) <= 1)
  <2>1. Len(q) \in Nat /\ m \in Nat /\ Len(q) >= m + 3
      BY <1>1, <1>2
  <2> HIDE DEF m
  <2> QED BY <2>1
<1>9. EndingTyped(a, q, u, proto)
    BY <1>1, <1>6, <1>7, <1>8, Zenon DEF EndingTyped
<1> QED BY <1>2, <1>9 DEF q

(* The frames of the done event carry no piece and end with the end mark.  *)
LEMMA DoneFramesType ==
  ASSUME NEW u \in UpType, NEW base \in {<<>>, <<RoleFrame>>}, NEW want \in BOOLEAN
  PROVE  LET q == base \o DoneFrames(u, want) IN
         q \in Seq(FrameType) /\ FramesOf(q, Prose) = <<>> /\ q # <<>> /\ q[Len(q)] = DoneFrame
<1> DEFINE t == [k \in DOMAIN u.tools |-> ToolFrame(u.tools[k])]
           x == FinishFrame(OpenAIFinish(u.finish))
           y == UsageFrame(u.usage)
           z == DoneFrame
           v == IF want THEN <<y>> ELSE <<>>
           w == t \o <<x>> \o v \o <<z>>
           q == base \o w
           n == Len(u.tools)
<1>1. DoneFrames(u, want) = w
    BY DEF DoneFrames, FinishFrame, UsageFrame, DoneFrame
<1>2. n \in Nat /\ DOMAIN u.tools = 1 .. n
  <2>1. u.tools \in Seq(ToolType)
      BY DEF UpType, ToolType
  <2> QED BY <2>1
<1>3. \A m \in 1 .. n + 4 : EndFrame(u, m) \in FrameType /\ EndFrame(u, m).f \notin Prose
    BY EndFrameType
<1>4. /\ x \in FrameType /\ x.f \notin Prose /\ y \in FrameType /\ y.f \notin Prose
      /\ z \in FrameType /\ z.f \notin Prose
  <2>1. 1 \in 1 .. n + 4 /\ 2 \in 1 .. n + 4 /\ 3 \in 1 .. n + 4
      BY <1>2
  <2>2. EndFrame(u, 1) = z /\ EndFrame(u, 2) = y /\ EndFrame(u, 3) = x
      BY DEF EndFrame
  <2> QED BY <1>3, <2>1, <2>2
<1>5. \A k \in 1 .. n : ToolFrame(u.tools[k]) \in FrameType /\ ToolFrame(u.tools[k]).f \notin Prose
  <2> TAKE k \in 1 .. n
  <2>1. n - k + 4 \in 1 .. n + 4 /\ n - k + 4 > 3 /\ n - k + 4 <= n + 3 /\ n + 4 - (n - k + 4) = k
      BY <1>2
  <2>2. EndFrame(u, n - k + 4) = ToolFrame(u.tools[k])
      BY <1>2, <2>1 DEF EndFrame
  <2> QED BY <1>3, <2>1, <2>2
<1>6. t = [k \in 1 .. n |-> ToolFrame(u.tools[k])]
    BY <1>2
<1> HIDE DEF t, x, y, z, n
<1>7. t \in Seq(FrameType) /\ Len(t) = n /\ \A k \in 1 .. n : t[k].f \notin Prose
    BY <1>2, <1>5, <1>6
<1>8. FramesOf(t, Prose) = <<>>
    BY <1>7, FramesNone
<1>9. /\ <<x>> \in Seq(FrameType) /\ v \in Seq(FrameType) /\ <<z>> \in Seq(FrameType) /\ base \in Seq(FrameType)
      /\ FramesOf(<<x>>, Prose) = <<>> /\ FramesOf(v, Prose) = <<>> /\ FramesOf(<<z>>, Prose) = <<>>
      /\ FramesOf(base, Prose) = <<>>
  <2>1. base \in Seq(FrameType) /\ FramesOf(base, Prose) = <<>>
      BY NoFrames, PieceFramesType
  <2>2. \A f \in FrameType : f.f \notin Prose => <<f>> \in Seq(FrameType) /\ FramesOf(<<f>>, Prose) = <<>>
    <3> TAKE f \in FrameType
    <3>1. <<f>> \in Seq(FrameType)
        OBVIOUS
    <3>2. f.f \notin Prose => FramesOf(<<f>>, Prose) = <<>>
        BY FramesOne
    <3> QED BY <3>1, <3>2
  <2>3. <<>> \in Seq(FrameType) /\ FramesOf(<<>>, Prose) = <<>>
      BY FramesEmpty
  <2> QED BY <1>4, <2>1, <2>2, <2>3
<1> HIDE DEF v
<1>10. \A c \in Seq(FrameType), d \in Seq(FrameType) :
          FramesOf(c, Prose) = <<>> /\ FramesOf(d, Prose) = <<>> =>
          c \o d \in Seq(FrameType) /\ FramesOf(c \o d, Prose) = <<>>
  <2> TAKE c \in Seq(FrameType), d \in Seq(FrameType)
  <2>1. FramesOf(c \o d, Prose) = FramesOf(c, Prose) \o FramesOf(d, Prose)
      BY FramesConcat
  <2>2. <<>> \o <<>> = <<>>
      OBVIOUS
  <2>3. c \o d \in Seq(FrameType)
      BY ConcatProperties
  <2> QED BY <2>1, <2>2, <2>3
<1> DEFINE w1 == t \o <<x>>
           w2 == w1 \o v
<1>11. w1 \in Seq(FrameType) /\ FramesOf(w1, Prose) = <<>>
    BY <1>7, <1>8, <1>9, <1>10
<1> HIDE DEF w1
<1>12. w2 \in Seq(FrameType) /\ FramesOf(w2, Prose) = <<>>
    BY <1>9, <1>10, <1>11
<1> HIDE DEF w2
<1>13. w = w2 \o <<z>>
    BY DEF w1, w2
<1> HIDE DEF w
<1>14. w \in Seq(FrameType) /\ FramesOf(w, Prose) = <<>>
    BY <1>9, <1>10, <1>12, <1>13
<1>15. Len(w) \in Nat /\ Len(w) >= 1 /\ w[Len(w)] = z
    BY <1>4, <1>12, <1>13
<1>16. q = base \o w
    OBVIOUS
<1> HIDE DEF q
<1>17. q \in Seq(FrameType) /\ FramesOf(q, Prose) = <<>>
    BY <1>9, <1>10, <1>14, <1>16
<1>18. Len(q) = Len(base) + Len(w) /\ q[Len(q)] = z /\ q # <<>>
    BY <1>9, <1>14, <1>15, <1>16
<1> QED BY <1>1, <1>16, <1>17, <1>18 DEF z

(* The stream goes over to its end.                                        *)
LEMMA DoneEnds ==
  ASSUME NEW a \in AsmType, NEW u \in UpType, NEW proto \in Typed \cup {"chat"}, NEW base \in {<<>>, <<RoleFrame>>},
         NEW want \in BOOLEAN, proto # "chat" => want, Streaming(a, <<>>, u, proto)
  PROVE  LET q == base \o DoneFrames(u, want) IN
         Ending(a, q, u, proto) /\ q \in Seq(FrameType) /\ Reads(a, q) = Reads(a, <<>>)
<1> DEFINE q == base \o DoneFrames(u, want)
<1>0. q \in Seq(FrameType) /\ FramesOf(q, Prose) = <<>> /\ q # <<>> /\ q[Len(q)] = DoneFrame
    BY DoneFramesType
<1> HIDE DEF q
<1>1. q \in Seq(FrameType) /\ FramesOf(q, Prose) = <<>> /\ q # <<>> /\ q[Len(q)].f = "DONE"
  <2>1. DoneFrame.f = "DONE"
      BY DEF DoneFrame
  <2> QED BY <1>0, <2>1
<1>2. Reads(a, q) = Reads(a, <<>>)
    BY <1>1, FramesEmpty DEF Reads
<1>3. ASSUME proto = "chat" PROVE Ending(a, q, u, proto)
  <2>1. EndingChat(a, q)
      BY <1>1, Zenon DEF EndingChat
  <2> QED BY <1>3, <2>1 DEF Ending
<1>4. ASSUME proto # "chat" PROVE Ending(a, q, u, proto)
  <2>1. want = TRUE /\ proto \in Typed /\ StreamingTyped(a, <<>>, u, proto)
      BY <1>4 DEF Streaming
  <2>2. EndingTyped(a, base \o DoneFrames(u, TRUE), u, proto)
      BY <2>1, DoneEndsTyped
  <2>3. EndingTyped(a, q, u, proto)
      BY <2>1, <2>2 DEF q
  <2> QED BY <1>4, <2>3 DEF Ending
<1>5. Ending(a, q, u, proto)
    BY <1>3, <1>4
<1> QED BY <1>1, <1>2, <1>5 DEF q

-----------------------------------------------------------------------------
(* The inductive invariant of the stream, and each step.                   *)

(* What flows to the client.                                               *)
Flow ==
    /\ asm \in AsmType /\ queue \in Seq(FrameType)
    /\ http # 200 => asm = NewAssembler
    /\ ~req.stream => asm = NewAssembler /\ queue = <<>>
    /\ pc # "over" => log = <<>> /\ json = <<>>
    /\ pc = "ending" => queue = <<>>
    /\ req.proto # "chat" => Good(asm, Strict(req.proto, up))
    /\ req.stream => Reads(asm, queue) = FramesOf(up.made, Prose)

(* The upstream talks, then it has ended; a client that left may have seen *)
(* either.                                                                 *)
Stage ==
    /\ pc \in {"lines", "ending"} /\ req.stream => Streaming(asm, queue, up, req.proto)
    /\ pc = "last" => Ending(asm, queue, up, req.proto)
    /\ pc = "gone" => Streaming(asm, queue, up, req.proto) \/ Ending(asm, queue, up, req.proto)

LastIs(ev, E) == ev # <<>> /\ ev[Len(ev)].e \in E

(* How a request ended.                                                    *)
Outcome ==
    pc = "over" =>
      /\ Len(log) = 1
      /\ log = <<"done">> => /\ http = 200
                             /\ req.stream => json = <<>> /\ Ending(asm, <<>>, up, req.proto)
                             /\ ~req.stream => json # <<>>
      /\ log # <<"done">> => /\ json = <<>>
                             /\ asm.ev # <<>> => LastIs(asm.ev, {"failed", "error"})

StreamInv == Flow /\ Stage /\ Outcome

(* The protocol of a request is one of the three.                          *)
LEMMA ProtoKnown ==
  ASSUME req \in Requests
  PROVE  /\ req.proto \in Typed \cup {"chat"} /\ req.stream \in BOOLEAN /\ req.wantUsage \in BOOLEAN
         /\ req.proto # "chat" => req.wantUsage
BY AnswerAssumption DEF Requests, AnswerAssumption, Typed

(* While the upstream talks the events are well formed.                    *)
LEMMA StreamingGood ==
  ASSUME NEW a, NEW q, NEW u, NEW proto, Streaming(a, q, u, proto), proto # "chat"
  PROVE  Good(a, Strict(proto, u))
BY DEF Streaming, StreamingTyped, Live

(* So they are at the end.                                                 *)
LEMMA EndingGood ==
  ASSUME NEW a, NEW q, NEW u \in UpType, NEW proto, Ending(a, q, u, proto), proto # "chat"
  PROVE  Good(a, Strict(proto, u))
<1>1. EndingTyped(a, q, u, proto)
    BY DEF Ending
<1>2. /\ EndFrames(u, q)
      /\ Len(q) >= 3 => Telling(a, u, proto)
      /\ Len(q) = 2 => Finishing(a, u, proto)
      /\ Len(q) <= 1 => Finished(a, u, proto)
    BY <1>1 DEF EndingTyped
<1>3. Len(q) \in Nat
    BY <1>2, EndFramesTail
<1>4. Len(q) >= 3 \/ Len(q) = 2 \/ Len(q) <= 1
  <2>1. \A n \in Nat : n >= 3 \/ n = 2 \/ n <= 1
      OBVIOUS
  <2> QED BY <1>3, <2>1, Zenon
<1>5. CASE Telling(a, u, proto)
    BY <1>5 DEF Telling, Live
<1>6. CASE Finishing(a, u, proto)
    BY <1>6 DEF Finishing, Live
<1>7. CASE Finished(a, u, proto)
    BY <1>7 DEF Finished
<1> QED BY <1>2, <1>4, <1>5, <1>6, <1>7

(* The whole answer was read.                                              *)
LEMMA EndingOver ==
  ASSUME NEW a, NEW u \in UpType, NEW proto \in Typed \cup {"chat"}, Ending(a, <<>>, u, proto)
  PROVE  /\ proto = "chat" => LastIs(a.ev, {"DONE"})
         /\ proto # "chat" => Finished(a, u, proto) /\ LastIs(a.ev, {"completed"}) /\ TellsItems(a, u, 0)
         /\ a.ev # <<>> /\ Finish(proto, a) = a
<1>0. Len(<<>>) = 0
    OBVIOUS
<1>1. CASE proto = "chat"
  <2>1. LastIs(a.ev, {"DONE"})
      BY <1>1 DEF Ending, EndingChat, LastIs
  <2> QED BY <1>1, <2>1 DEF Finish, LastIs
<1>2. CASE proto # "chat"
  <2>1. EndingTyped(a, <<>>, u, proto) /\ proto \in Typed
      BY <1>2 DEF Ending
  <2>2. Finished(a, u, proto) /\ TellsItems(a, u, 0)
      BY <1>0, <2>1 DEF EndingTyped
  <2>3. LastIs(a.ev, {"completed"}) /\ a.over # ""
      BY <2>2 DEF Finished, SaysEnd, LastIs
  <2>4. Good(a, Strict(proto, u)) /\ AllClosed(a)
      BY <2>2 DEF Finished, EndedFor
  <2>5. CloseAll(a) = a
      BY <2>4, NothingToClose
  <2>6. Conclude(proto, CloseAll(a)) = a
      BY <2>3, <2>5, ConcludedBefore
  <2> QED BY <1>2, <2>2, <2>3, <2>6 DEF Finish, LastIs
<1> QED BY <1>1, <1>2

(* The error event.                                                        *)
LEMMA FailedStream ==
  ASSUME NEW a \in AsmType, NEW u \in UpType, NEW proto \in Typed \cup {"chat"}, Streaming(a, <<>>, u, proto)
  PROVE  LET b == Failed(proto, a) IN
         /\ b \in AsmType /\ LastIs(b.ev, {"failed", "error"}) /\ Reads(b, <<>>) = Reads(a, <<>>)
         /\ proto # "chat" => Good(b, Strict(proto, u))
<1> DEFINE b == Failed(proto, a)
<1>1. CASE proto = "chat"
  <2> DEFINE x == Ev("error", 0, 0)
  <2>1. b = Emit(a, x)
      BY <1>1 DEF Failed, Ev
  <2>2. x \in EvType /\ x.e = "error"
    <3>1. "error" \in EventNames /\ 0 \in DataType /\ 0 \in Nat
        BY DEF EventNames, DataType
    <3> QED BY <3>1, EvTyped
  <2> HIDE DEF x, b
  <2>3. b \in AsmType /\ SameRest(a, b) /\ b.blocks = a.blocks /\ b.ev = Append(a.ev, x)
      BY <2>1, <2>2, EmitFields
  <2>4. Emits(a, b, x)
      BY <2>3 DEF Emits, SameRest
  <2>5. a.ev \in Seq(EvType) /\ Len(a.ev) \in Nat /\ DOMAIN a.ev = 1 .. Len(a.ev)
    <3>1. a.ev \in Seq(EvType)
        BY DEF AsmType
    <3> QED BY <3>1
  <2>6. /\ Len(b.ev) = Len(a.ev) + 1 /\ b.ev[Len(a.ev) + 1] = x /\ b.ev # <<>>
        /\ \A k \in 1 .. Len(a.ev) : b.ev[k] = a.ev[k]
      BY <2>2, <2>3, <2>5, AppendProperties
  <2>7. \A k \in DOMAIN a.ev : PieceAt(b, k) <=> PieceAt(a, k)
    <3> TAKE k \in DOMAIN a.ev
    <3>1. b.ev[k] = a.ev[k]
        BY <2>5, <2>6
    <3> QED BY <2>3, <3>1, Zenon DEF PieceAt
  <2>8. ~PieceAt(b, Len(a.ev) + 1)
      BY <2>2, <2>6 DEF PieceAt
  <2>9. Read(b) = Read(a)
      BY <2>2, <2>3, <2>4, <2>7, <2>8, ReadNext
  <2>10. LastIs(b.ev, {"failed", "error"})
      BY <2>2, <2>6 DEF LastIs
  <2> QED BY <1>1, <2>3, <2>9, <2>10 DEF Reads, b
<1>2. CASE proto # "chat"
  <2> DEFINE s == Strict(proto, u)
  <2>1. Live(a, s) /\ proto \in Typed
      BY <1>2 DEF Streaming, StreamingTyped
  <2> HIDE DEF s
  <2>2. Good(b, s) /\ Read(b) = Read(a) /\ b.ev # <<>> /\ b.ev[Len(b.ev)].e = "failed"
      BY <2>1, FailedNow
  <2> HIDE DEF b
  <2>3. LastIs(b.ev, {"failed", "error"})
      BY <2>2 DEF LastIs
  <2>4. b \in AsmType
      BY <2>2, GoodType
  <2> QED BY <2>2, <2>3, <2>4 DEF Reads, b, s
<1> QED BY <1>1, <1>2

(* A client that has read nothing.                                         *)
LEMMA NewIsGood ==
  ASSUME NEW s
  PROVE  Good(NewAssembler, s) /\ NewAssembler \in AsmType /\ NewAssembler.ev = <<>>
BY NewIsLive DEF Live

(* The beginning of a request.                                             *)
LEMMA InitStream == Init => StreamInv
<1> SUFFICES ASSUME Init PROVE StreamInv
    OBVIOUS
<1>1. /\ pc \in {"check", "ensure"} /\ up = NewCall /\ queue = <<>> /\ asm = NewAssembler /\ http = 0
      /\ json = <<>> /\ log = <<>>
    BY DEF Init
<1>2. <<>> \in Seq(FrameType)
    OBVIOUS
<1>3. Reads(NewAssembler, <<>>) = FramesOf(NewCall.made, Prose)
    BY NewStreams
<1>4. Flow
    BY <1>1, <1>2, <1>3, NewIsGood DEF Flow
<1> QED BY <1>1, <1>4 DEF StreamInv, Stage, Outcome

(* Before the next call the client has what it had.                        *)
LEMMA QuietStep ==
  ASSUME StreamInv, pc # "over", pc' \in Early, UNCHANGED <<req, up, queue, asm, http, json, log>>
  PROVE  StreamInv'
<1>1. Flow'
    BY DEF StreamInv, Flow, Early
<1>2. Stage'
    BY DEF Stage, Early
<1>3. Outcome'
    BY DEF Outcome, Early
<1> QED BY <1>1, <1>2, <1>3 DEF StreamInv

(* A request that ends by an error.                                        *)
LEMMA FailStep ==
  ASSUME StreamInv, TypeOK, NEW x, Fail(x), x.cls # "done", RespStatus(x) \in Statuses, pc # "over",
         http \in {0, 200}, http = 200 => pc = "lines" /\ queue = <<>> /\ req.stream,
         UNCHANGED <<req, up, queue>>
  PROVE  StreamInv'
<1>1. /\ asm \in AsmType /\ queue \in Seq(FrameType) /\ log = <<>> /\ json = <<>>
      /\ http # 200 => asm = NewAssembler
      /\ ~req.stream => asm = NewAssembler /\ queue = <<>>
      /\ req.proto # "chat" => Good(asm, Strict(req.proto, up))
      /\ req.stream => Reads(asm, queue) = FramesOf(up.made, Prose)
    BY DEF StreamInv, Flow
<1>2. /\ http = 0 => http' = RespStatus(x) /\ asm' = asm
      /\ log' = <<x.cls>> /\ pc' = "over" /\ json' = <<>>
    BY <1>1, FailEffect
<1>3. Len(log') = 1 /\ log' # <<"done">>
    BY <1>2
<1>4. Stage'
    BY <1>2 DEF Stage
<1>5. CASE http = 0
  <2>1. asm' = NewAssembler /\ asm' = asm /\ http' # 200
      BY <1>1, <1>2, <1>5 DEF Statuses
  <2>2. asm'.ev = <<>>
      BY <2>1, NewIsGood
  <2>3. Flow'
      BY <1>1, <1>2, <2>1 DEF Flow
  <2>4. Outcome'
      BY <1>2, <1>3, <2>2 DEF Outcome
  <2> QED BY <1>4, <2>3, <2>4 DEF StreamInv
<1>6. CASE http = 200
  <2>1. http' = 200 /\ asm' = Failed(req.proto, asm)
      BY <1>6 DEF Fail
  <2>2. Streaming(asm, <<>>, up, req.proto)
      BY <1>6 DEF StreamInv, Stage
  <2>3. req.proto \in Typed \cup {"chat"} /\ up \in UpType
      BY ProtoKnown DEF TypeOK
  <2>4. /\ asm' \in AsmType /\ LastIs(asm'.ev, {"failed", "error"}) /\ Reads(asm', <<>>) = Reads(asm, <<>>)
        /\ req.proto # "chat" => Good(asm', Strict(req.proto, up))
      BY <1>1, <2>1, <2>2, <2>3, FailedStream
  <2>5. Flow'
      BY <1>1, <1>2, <1>6, <2>1, <2>4 DEF Flow
  <2>6. Outcome'
      BY <1>2, <1>3, <2>4 DEF Outcome
  <2> QED BY <1>4, <2>5, <2>6 DEF StreamInv
<1> QED BY <1>5, <1>6

(* An error, repeated or not.                                              *)
LEMMA RaiseStep ==
  ASSUME StreamInv, TypeOK, NEW x, Raise(x), x.cls # "done", RespStatus(x) \in Statuses, pc # "over",
         http \in {0, 200}, http = 200 => pc = "lines" /\ queue = <<>> /\ req.stream,
         UNCHANGED <<req, up, queue>>
  PROVE  StreamInv'
<1>1. CASE RetryEmpty(x)
    BY <1>1, QuietStep DEF RetryEmpty, Early
<1>2. CASE RetryFresh(x)
    BY <1>2, QuietStep DEF RetryFresh, Early
<1>3. CASE GiveUp(x)
  <2>1. Fail(x)
      BY <1>3 DEF GiveUp
  <2> QED BY <2>1, FailStep
<1> QED BY <1>1, <1>2, <1>3, RaiseCases

(* A call begins.                                                          *)
LEMMA CallStep ==
  ASSUME StreamInv, pc # "over", asm = NewAssembler, queue = <<>>, up' = NewCall, pc' = "lines",
         UNCHANGED <<req, queue, asm, http, json, log>>
  PROVE  StreamInv'
<1>1. /\ queue \in Seq(FrameType) /\ log = <<>> /\ json = <<>>
    BY DEF StreamInv, Flow
<1>2. /\ Streaming(NewAssembler, <<>>, NewCall, req.proto)
      /\ Reads(NewAssembler, <<>>) = FramesOf(NewCall.made, Prose)
    BY NewStreams
<1>3. Flow'
    BY <1>1, <1>2, NewIsGood DEF Flow
<1>4. Stage'
    BY <1>2 DEF Stage
<1>5. Outcome'
    BY DEF Outcome
<1> QED BY <1>3, <1>4, <1>5 DEF StreamInv

(* Without streaming nothing flows before the answer is whole.             *)
LEMMA SilentStep ==
  ASSUME StreamInv, pc # "over", ~req.stream, pc' \notin {"over", "last", "gone"},
         UNCHANGED <<req, queue, asm, http, json, log>>
  PROVE  StreamInv'
<1>1. /\ queue = <<>> /\ asm = NewAssembler /\ queue \in Seq(FrameType) /\ log = <<>> /\ json = <<>>
    BY DEF StreamInv, Flow
<1>2. Flow'
    BY <1>1, NewIsGood DEF Flow
<1>3. Stage'
    BY DEF Stage
<1>4. Outcome'
    BY DEF Outcome
<1> QED BY <1>2, <1>3, <1>4 DEF StreamInv

(* A line of the upstream.                                                 *)
LEMMA TakeLineStep ==
  ASSUME StreamInv, TypeOK, TakeLine
  PROVE  StreamInv'
<1>1. /\ pc = "lines" /\ pc' = "lines" /\ queue = <<>> /\ UNCHANGED <<req, asm, http, json, log>>
    BY DEF TakeLine
<1>2. PICK l \in Lines : /\ up' = Absorb(up, l)
                         /\ LET new == Pieces(l, up.lines + 1) IN
                            IF req.stream /\ new # <<>>
                            THEN queue' = Release(released) \o new /\ released' = TRUE
                            ELSE UNCHANGED <<queue, released>>
    BY DEF TakeLine
<1>3. CASE ~req.stream
  <2>1. queue' = queue
      BY <1>2, <1>3
  <2> QED BY <1>1, <1>3, <2>1, SilentStep
<1>4. CASE req.stream
  <2>1. l \in LineType /\ up \in UpType
      BY <1>2, LinesType DEF TypeOK
  <2> DEFINE new == Pieces(l, up.lines + 1)
             base == IF new # <<>> THEN Release(released) ELSE <<>>
  <2>2. base \in {<<>>, <<RoleFrame>>}
      BY DEF Release
  <2>3. queue' = base \o new
    <3>1. new # <<>> => queue' = Release(released) \o new
        BY <1>2, <1>4
    <3>2. new = <<>> => queue' = <<>>
        BY <1>1, <1>2, <1>4
    <3>3. <<>> \o <<>> = <<>>
        OBVIOUS
    <3> HIDE DEF new
    <3> QED BY <3>1, <3>2, <3>3
  <2>4. Streaming(asm, <<>>, up, req.proto) /\ Reads(asm, <<>>) = FramesOf(up.made, Prose) /\ asm \in AsmType
      BY <1>1, <1>4 DEF StreamInv, Stage, Flow
  <2> HIDE DEF base
  <2>5. Streaming(asm, base \o new, Absorb(up, l), req.proto)
        /\ Reads(asm, base \o new) = FramesOf(Absorb(up, l).made, Prose)
      BY <2>1, <2>2, <2>4, LineStreams
  <2> HIDE DEF new
  <2>6. Streaming(asm, queue', up', req.proto) /\ Reads(asm, queue') = FramesOf(up'.made, Prose)
      BY <1>2, <2>3, <2>5
  <2>7. queue' \in Seq(FrameType)
      BY <2>6, PieceFramesType DEF Streaming
  <2>8. req.proto # "chat" => Good(asm, Strict(req.proto, up'))
      BY <2>6, StreamingGood
  <2>9. /\ http # 200 => asm = NewAssembler
        /\ log = <<>> /\ json = <<>>
      BY <1>1 DEF StreamInv, Flow
  <2>10. Flow'
      BY <1>1, <1>4, <2>4, <2>6, <2>7, <2>8, <2>9 DEF Flow
  <2>11. Stage'
      BY <1>1, <2>6 DEF Stage
  <2>12. Outcome'
      BY <1>1 DEF Outcome
  <2> QED BY <2>10, <2>11, <2>12 DEF StreamInv
<1>5. req.stream \in BOOLEAN
    BY ProtoKnown DEF TypeOK
<1> QED BY <1>3, <1>4, <1>5

(* The last line, or a call that was ended because it was silent.          *)
LEMMA EndOfLinesStep ==
  ASSUME StreamInv, TypeOK, EndOfLines \/ Silence
  PROVE  StreamInv'
<1>1. pc = "lines" /\ pc' = "ending" /\ queue = <<>> /\ UNCHANGED <<req, queue, asm, http, json, log>>
    BY DEF EndOfLines, Silence
<1>2. SameOutput(up, up')
  <2>1. CASE EndOfLines
      BY <2>1 DEF EndOfLines, SameOutput
  <2>2. CASE Silence
    <3>1. up \in UpType
        BY DEF TypeOK
    <3>2. ASSUME NEW r PROVE SameOutput(up, [up EXCEPT !.finish = r])
        BY <3>1 DEF UpType, SameOutput
    <3> QED BY <2>2, <3>2 DEF Silence
  <2> QED BY <2>1, <2>2
<1>3. /\ \A s : Streaming(asm, queue, up, req.proto) => Streaming(asm, queue, up', req.proto)
      /\ Strict(req.proto, up) <=> Strict(req.proto, up')
    BY <1>2, OutputKept
<1>4. up'.made = up.made
    BY <1>2 DEF SameOutput
<1>5. /\ asm \in AsmType /\ queue \in Seq(FrameType) /\ log = <<>> /\ json = <<>>
      /\ http # 200 => asm = NewAssembler
      /\ ~req.stream => asm = NewAssembler /\ queue = <<>>
      /\ req.proto # "chat" => Good(asm, Strict(req.proto, up))
      /\ req.stream => Reads(asm, queue) = FramesOf(up.made, Prose)
    BY <1>1 DEF StreamInv, Flow
<1>6. req.proto # "chat" => Good(asm, Strict(req.proto, up'))
    BY <1>3, <1>5, Weaker
<1>7. Flow'
    BY <1>1, <1>4, <1>5, <1>6 DEF Flow
<1>8. Stage'
    BY <1>1, <1>3 DEF StreamInv, Stage
<1>9. Outcome'
    BY <1>1 DEF Outcome
<1> QED BY <1>7, <1>8, <1>9 DEF StreamInv

(* The done event of a stream.                                             *)
LEMMA DoneStep ==
  ASSUME StreamInv, TypeOK, Done, ~NothingMade
  PROVE  StreamInv'
<1>1. /\ pc = "ending" /\ req.stream /\ pc' = "last" /\ UNCHANGED <<req, up, asm, http, json, log>>
      /\ queue' = Release(released) \o DoneFrames(up, req.wantUsage)
    BY DEF Done
<1>2. /\ asm \in AsmType /\ log = <<>> /\ json = <<>> /\ queue = <<>>
      /\ http # 200 => asm = NewAssembler
      /\ req.proto # "chat" => Good(asm, Strict(req.proto, up))
      /\ Reads(asm, queue) = FramesOf(up.made, Prose)
    BY <1>1 DEF StreamInv, Flow
<1>3. Streaming(asm, <<>>, up, req.proto)
    BY <1>1, <1>2 DEF StreamInv, Stage
<1>4. Release(released) \in {<<>>, <<RoleFrame>>}
    BY DEF Release
<1>5. up \in UpType /\ req \in Requests
    BY DEF TypeOK
<1>6. req.proto \in Typed \cup {"chat"} /\ req.wantUsage \in BOOLEAN /\ (req.proto # "chat" => req.wantUsage)
    BY <1>5, ProtoKnown
<1>7. LET q == Release(released) \o DoneFrames(up, req.wantUsage) IN
      Ending(asm, q, up, req.proto) /\ q \in Seq(FrameType) /\ Reads(asm, q) = Reads(asm, <<>>)
    BY <1>2, <1>3, <1>4, <1>5, <1>6, DoneEnds
<1>8. Ending(asm, queue', up, req.proto) /\ queue' \in Seq(FrameType) /\ Reads(asm, queue') = FramesOf(up.made, Prose)
    BY <1>1, <1>2, <1>7
<1>9. Flow'
    BY <1>1, <1>2, <1>8 DEF Flow
<1>10. Stage'
    BY <1>1, <1>8 DEF Stage
<1>11. Outcome'
    BY <1>1 DEF Outcome
<1> QED BY <1>9, <1>10, <1>11 DEF StreamInv

(* A frame reaches the client.                                             *)
LEMMA ForwardStep ==
  ASSUME StreamInv, TypeOK, RetryInv, Forward
  PROVE  StreamInv'
<1>1. /\ queue # <<>> /\ asm' = Feed(req.proto, asm, Head(queue)) /\ queue' = Tail(queue) /\ http' = 200
      /\ UNCHANGED <<req, pc, up, json, log>>
    BY DEF Forward
<1>2. /\ asm \in AsmType /\ queue \in Seq(FrameType) /\ req.stream
      /\ pc # "over" => log = <<>> /\ json = <<>>
      /\ Reads(asm, queue) = FramesOf(up.made, Prose)
    BY <1>1 DEF StreamInv, Flow
<1>3. pc \in {"lines", "last", "gone"}
  <2>1. pc # "over" /\ pc \notin Early
      BY <1>1 DEF RetryInv, Untouched
  <2>2. pc # "ending"
      BY <1>1 DEF StreamInv, Flow
  <2> QED BY <2>1, <2>2 DEF TypeOK, Early
<1>4. up \in UpType /\ req.proto \in Typed \cup {"chat"}
    BY ProtoKnown DEF TypeOK
<1>5. /\ pc = "lines" => Streaming(asm, queue, up, req.proto)
      /\ pc = "last" => Ending(asm, queue, up, req.proto)
      /\ pc = "gone" => Streaming(asm, queue, up, req.proto) \/ Ending(asm, queue, up, req.proto)
    BY <1>2 DEF StreamInv, Stage
<1>6. ASSUME Streaming(asm, queue, up, req.proto)
      PROVE  /\ asm' \in AsmType /\ Streaming(asm', queue', up, req.proto) /\ Reads(asm', queue') = Reads(asm, queue)
             /\ queue' \in Seq(FrameType)
             /\ req.proto # "chat" => Good(asm', Strict(req.proto, up))
  <2>1. asm' \in AsmType /\ Streaming(asm', queue', up, req.proto) /\ Reads(asm', queue') = Reads(asm, queue)
      BY <1>1, <1>2, <1>4, <1>6, FedStreaming
  <2>2. queue' \in Seq(FrameType)
      BY <2>1, PieceFramesType DEF Streaming
  <2> QED BY <2>1, <2>2, StreamingGood
<1>7. ASSUME Ending(asm, queue, up, req.proto)
      PROVE  /\ asm' \in AsmType /\ Ending(asm', queue', up, req.proto) /\ Reads(asm', queue') = Reads(asm, queue)
             /\ queue' \in Seq(FrameType)
             /\ req.proto # "chat" => Good(asm', Strict(req.proto, up))
  <2>1. asm' \in AsmType /\ Ending(asm', queue', up, req.proto) /\ Reads(asm', queue') = Reads(asm, queue)
      BY <1>1, <1>2, <1>4, <1>7, FedEnding
  <2>2. queue' \in Seq(FrameType)
      BY <1>4, <2>1, EndingFrames
  <2> QED BY <1>4, <2>1, <2>2, EndingGood
<1>8. /\ asm' \in AsmType /\ queue' \in Seq(FrameType) /\ Reads(asm', queue') = Reads(asm, queue)
      /\ req.proto # "chat" => Good(asm', Strict(req.proto, up))
    BY <1>3, <1>5, <1>6, <1>7
<1>9. Flow'
    BY <1>1, <1>2, <1>3, <1>8 DEF Flow
<1>10. Stage'
    BY <1>1, <1>3, <1>5, <1>6, <1>7 DEF Stage
<1>11. Outcome'
    BY <1>1, <1>3 DEF Outcome
<1> QED BY <1>9, <1>10, <1>11 DEF StreamInv

(* The end of the stream.                                                  *)
LEMMA CloseStep ==
  ASSUME StreamInv, TypeOK, RetryInv, Close
  PROVE  StreamInv'
<1>1. /\ pc = "last" /\ queue = <<>> /\ asm' = Finish(req.proto, asm) /\ log' = Append(log, "done")
      /\ pc' = "over" /\ UNCHANGED <<req, up, queue, http, json>>
    BY DEF Close
<1>2. /\ asm \in AsmType /\ queue \in Seq(FrameType) /\ log = <<>> /\ json = <<>>
      /\ http # 200 => asm = NewAssembler
      /\ ~req.stream => asm = NewAssembler /\ queue = <<>>
      /\ req.proto # "chat" => Good(asm, Strict(req.proto, up))
      /\ req.stream => Reads(asm, queue) = FramesOf(up.made, Prose)
    BY <1>1 DEF StreamInv, Flow
<1>3. Ending(asm, <<>>, up, req.proto)
    BY <1>1 DEF StreamInv, Stage
<1>4. up \in UpType /\ req.proto \in Typed \cup {"chat"}
    BY ProtoKnown DEF TypeOK
<1>5. asm' = asm /\ asm.ev # <<>>
    BY <1>1, <1>3, <1>4, EndingOver
<1>6. http = 200
    BY <1>2, <1>5, NewIsGood
<1>7. req.stream
    BY <1>1 DEF RetryInv
<1>8. log' = <<"done">> /\ Len(log') = 1
    BY <1>1, <1>2
<1>9. Flow'
    BY <1>1, <1>2, <1>5 DEF Flow
<1>10. Stage'
    BY <1>1 DEF Stage
<1>11. Outcome'
    BY <1>1, <1>2, <1>3, <1>5, <1>6, <1>7, <1>8 DEF Outcome
<1> QED BY <1>9, <1>10, <1>11 DEF StreamInv

(* A client that leaves keeps what it has read.                            *)
LEMMA ClientGoneStep ==
  ASSUME StreamInv, ClientGone
  PROVE  StreamInv'
<1>1. /\ req.stream /\ pc \in {"lines", "ending", "last"} /\ pc' = "gone"
      /\ UNCHANGED <<req, up, queue, asm, http, json, log>>
    BY DEF ClientGone
<1>2. Flow'
    BY <1>1 DEF StreamInv, Flow
<1>3. Stage'
    BY <1>1 DEF StreamInv, Stage
<1>4. Outcome'
    BY <1>1 DEF Outcome
<1> QED BY <1>2, <1>3, <1>4 DEF StreamInv

(* An answer in a single document.                                         *)
LEMMA CollectedStep ==
  ASSUME StreamInv, Collected, ~IsEmpty(up)
  PROVE  StreamInv'
<1>1. /\ pc = "ending" /\ ~req.stream /\ json' = <<JsonAnswer(req.proto, up)>> /\ http' = 200
      /\ log' = Append(log, "done") /\ pc' = "over" /\ UNCHANGED <<req, up, queue, asm>>
    BY DEF Collected
<1>2. /\ asm \in AsmType /\ queue \in Seq(FrameType) /\ log = <<>>
      /\ asm = NewAssembler /\ queue = <<>>
    BY <1>1 DEF StreamInv, Flow
<1>3. log' = <<"done">> /\ Len(log') = 1
    BY <1>1, <1>2
<1>4. json' # <<>>
    BY <1>1
<1>5. Flow'
    BY <1>1, <1>2, NewIsGood DEF Flow
<1>6. Stage'
    BY <1>1 DEF Stage
<1>7. Outcome'
    BY <1>1, <1>3, <1>4 DEF Outcome
<1> QED BY <1>5, <1>6, <1>7 DEF StreamInv

-----------------------------------------------------------------------------
(* The invariant, and what follows.                                        *)

(* A stream that began again did so for good.                              *)
LEMMA BegunAgain ==
  ASSUME TypeOK, [Next]_vars, seen.restarted
  PROVE  seen'.restarted
<1>0. seen \in SeenType
    BY DEF TypeOK
<1>1. CASE Refused
  <2>1. PICK x \in Refusals(req.prov) : seen' = [seen EXCEPT !.rejected = @ + Rejects(x)]
      BY <1>1 DEF Refused
  <2> QED BY <1>0, <2>1 DEF SeenType
<1>2. CASE Broken
  <2>1. PICK x \in Breaks(req.prov) :
          seen' = [seen EXCEPT !.rejected = @ + Rejects(x),
                               !.restarted = @ \/ (pc' = "refresh" /\ http # 0)]
      BY <1>2 DEF Broken
  <2> QED BY <1>0, <2>1 DEF SeenType
<1>3. CASE Call \/ Fallback \/ Done \/ Collected
    BY <1>0, <1>3 DEF Call, Fallback, Done, Collected, SeenType
<1>4. CASE Check \/ Ensure \/ Refresh \/ CatalogueChanges \/ TakeLine \/ Silence \/ EndOfLines
    BY <1>4 DEF Check, Ensure, Refresh, CatalogueChanges, TakeLine, Silence, EndOfLines
<1>5. CASE Forward \/ Close \/ ClientGone \/ UNCHANGED vars
    BY <1>5 DEF Forward, Close, ClientGone, vars
<1> QED BY <1>1, <1>2, <1>3, <1>4, <1>5 DEF Next

(* Every step of a request whose stream did not begin again keeps the      *)
(* invariant of the stream.                                                *)
LEMMA StepStream ==
  ASSUME Inv, StreamInv, [Next]_vars, ~seen.restarted
  PROVE  StreamInv'
<1>1. TypeOK /\ RetryInv /\ CountInv
    BY DEF Inv
<1>2. /\ pc \in Early => http = 0 /\ queue = <<>> /\ pc # "over"
      /\ pc \in Under /\ ~released => http = 0
      /\ pc \in Under => http \in {0, 200} /\ pc # "over"
      /\ released => req.stream
    BY <1>1 DEF RetryInv, Untouched, CountInv, Early, Under
<1>3. req.prov \in {"ta3", "custom", "wb"} /\ req.stream \in BOOLEAN
    BY <1>1, ProvKnown DEF TypeOK
<1>4. CASE Check \/ Ensure \/ Refresh
  <2>1. pc \in Early /\ UNCHANGED <<req, up, queue>>
      BY <1>4 DEF Check, Ensure, Refresh, Early
  <2>2. CASE Fail(ModelError)
      BY <1>1, <1>2, <2>1, <2>2, FailStep, ErrorNames
  <2>3. CASE Fail(NoHook)
      BY <1>1, <1>2, <2>1, <2>3, FailStep, ErrorNames
  <2>4. CASE pc' \in {"ensure", "call"} /\ UNCHANGED <<asm, http, json, log>>
      BY <1>2, <2>1, <2>4, QuietStep DEF Early
  <2> QED BY <1>4, <2>2, <2>3, <2>4 DEF Check, Ensure, Refresh
<1>5. CASE CatalogueChanges
    BY <1>2, <1>5, QuietStep DEF CatalogueChanges, Early
<1>6. CASE Call
  <2>1. /\ pc = "call" /\ up' = NewCall /\ pc' = "lines" /\ UNCHANGED <<req, queue, asm, http, json, log>>
      BY <1>6 DEF Call
  <2>2. http = 0 /\ queue = <<>>
      BY <1>2, <2>1 DEF Early
  <2>3. asm = NewAssembler
      BY <2>2 DEF StreamInv, Flow
  <2> QED BY <2>1, <2>2, <2>3, CallStep
<1>7. CASE Fallback
    BY <1>7, SilentStep DEF Fallback, AsksJson
<1>8. CASE Refused
  <2>1. PICK x \in Refusals(req.prov) : Raise(x)
      BY <1>8 DEF Refused
  <2>2. pc \in Under /\ http = 0 /\ UNCHANGED <<req, up, queue>>
      BY <1>1, <1>2, <1>8 DEF Refused, RetryInv, Under
  <2>3. x.cls # "done" /\ RespStatus(x) \in Statuses
      BY <1>3, ErrorNames
  <2> QED BY <1>1, <1>2, <2>1, <2>2, <2>3, RaiseStep
<1>9. CASE Broken
  <2>1. PICK x \in Breaks(req.prov) : Raise(x)
      BY <1>9 DEF Broken
  <2>2. pc = "lines" /\ queue = <<>> /\ UNCHANGED <<req, up, queue>>
      BY <1>9 DEF Broken
  <2>3. http \in {0, 200} /\ (http = 200 => req.stream) /\ pc # "over"
      BY <1>2, <2>2 DEF Under
  <2>4. x.cls # "done" /\ RespStatus(x) \in Statuses
      BY <1>3, ErrorNames
  <2> QED BY <1>1, <2>1, <2>2, <2>3, <2>4, RaiseStep
<1>10. CASE TakeLine
    BY <1>1, <1>10, TakeLineStep
<1>11. CASE EndOfLines \/ Silence
    BY <1>1, <1>11, EndOfLinesStep
<1>12. CASE Done \/ Collected
  <2>1. CASE (Done /\ NothingMade) \/ (Collected /\ IsEmpty(up))
    <3>1. Raise(EmptyAnswer) /\ UNCHANGED <<req, up, queue>> /\ pc \in Under
        BY <2>1 DEF Done, Collected, Under
    <3>2. ~released
        BY <1>2, <2>1 DEF Done, Collected, NothingMade
    <3>3. http = 0 /\ pc # "over"
        BY <1>2, <3>1, <3>2
    <3> QED BY <1>1, <3>1, <3>3, RaiseStep, ErrorNames
  <2>2. CASE Done /\ ~NothingMade
      BY <1>1, <2>2, DoneStep
  <2>3. CASE Collected /\ ~IsEmpty(up)
      BY <2>3, CollectedStep
  <2> QED BY <1>12, <2>1, <2>2, <2>3
<1>13. CASE Forward
    BY <1>1, <1>13, ForwardStep
<1>14. CASE Close
    BY <1>1, <1>14, CloseStep
<1>15. CASE ClientGone
    BY <1>15, ClientGoneStep
<1>16. CASE UNCHANGED vars
  <2>1. UNCHANGED <<req, pc, up, queue, asm, http, json, log>>
      BY <1>16 DEF vars
  <2>2. Flow'
      BY <2>1 DEF StreamInv, Flow
  <2>3. Stage'
      BY <2>1 DEF StreamInv, Stage
  <2>4. Outcome'
      BY <2>1 DEF StreamInv, Outcome
  <2> QED BY <2>2, <2>3, <2>4 DEF StreamInv
<1> QED BY <1>4, <1>5, <1>6, <1>7, <1>8, <1>9, <1>10, <1>11, <1>12, <1>13, <1>14, <1>15, <1>16 DEF Next

(* It holds at all times of every request whose stream did not begin again.*)
UntilRestart == seen.restarted \/ StreamInv

LEMMA StreamInvariance == Spec => [](Inv /\ UntilRestart)
<1>1. Init => UntilRestart
    BY InitStream DEF UntilRestart
<1>2. Inv /\ UntilRestart /\ [Next]_vars => UntilRestart'
    BY StepStream, BegunAgain DEF UntilRestart, Inv
<1>3. Spec => []Inv
    BY Invariance
<1> QED BY <1>1, <1>2, <1>3, PTL DEF Spec

-----------------------------------------------------------------------------

(* The log, the status and the last event agree.                           *)
LEMMA OutcomeIsOne == ASSUME Inv, StreamInv PROVE OneOutcome
<1> SUFFICES ASSUME pc = "over"
             PROVE  /\ Len(log) = 1
                    /\ http # 200 => ~Answered /\ asm.ev = <<>> /\ json = <<>>
                    /\ Answered <=> \/ json # <<>>
                                    \/ asm.ev # <<>> /\ asm.ev[Len(asm.ev)].e \in {"completed", "DONE"}
    BY DEF OneOutcome
<1>1. /\ Len(log) = 1
      /\ log = <<"done">> => /\ http = 200
                             /\ req.stream => json = <<>> /\ Ending(asm, <<>>, up, req.proto)
                             /\ ~req.stream => json # <<>>
      /\ log # <<"done">> => json = <<>> /\ (asm.ev # <<>> => LastIs(asm.ev, {"failed", "error"}))
    BY DEF StreamInv, Outcome
<1>2. http # 200 => asm.ev = <<>>
    BY NewIsGood DEF StreamInv, Flow
<1>3. up \in UpType /\ req.proto \in Typed \cup {"chat"}
    BY ProtoKnown DEF Inv, TypeOK
<1>4. CASE log = <<"done">>
  <2>1. req.stream => LastIs(asm.ev, {"DONE"}) \/ LastIs(asm.ev, {"completed"})
      BY <1>1, <1>3, <1>4, EndingOver
  <2> QED BY <1>1, <1>4, <2>1 DEF Answered, LastIs
<1>5. CASE log # <<"done">>
    BY <1>1, <1>2, <1>5 DEF Answered, LastIs
<1> QED BY <1>4, <1>5

(* Each piece of the last call was read, or waits.                         *)
LEMMA AllDelivered == ASSUME StreamInv, ~seen.restarted PROVE Delivered
<1>1. PiecesRead = Read(asm)
    BY DEF PiecesRead, ReadPiece, Read, ReadAt, PieceAt
<1>2. PiecesOf(queue) = FramesOf(queue, Prose) /\ PiecesOf(up.made) = FramesOf(up.made, Prose)
    BY DEF PiecesOf, IsPiece, FramesOf, FramesAt, Prose
<1>3. req.stream => Reads(asm, queue) = FramesOf(up.made, Prose)
    BY DEF StreamInv, Flow
<1> QED BY <1>1, <1>2, <1>3 DEF Delivered, Reads

(* WellBracketed, from what fits event by event.                           *)
LEMMA AllBracketed == ASSUME StreamInv, ~seen.restarted PROVE WellBracketed
<1> SUFFICES ASSUME req.proto # "chat", NEW k \in DOMAIN asm.ev
             PROVE  LET e == asm.ev[k] IN
                    /\ e.e = "start" <=> (k = 1 /\ e.e # "completed")
                    /\ e.e = "open" => /\ ~OpenAt(asm.ev, e.i, k - 1)
                                       /\ \A i \in 1 .. e.i - 1 : Times(asm.ev, "open", i, k - 1) > 0
                    /\ e.e = "close" => OpenAt(asm.ev, e.i, k - 1)
                    /\ (e.e = "delta" /\ ~(req.proto = "responses" /\ up.late)) => OpenAt(asm.ev, e.i, k - 1)
                    /\ e.e \in {"completed", "failed"} => k = Len(asm.ev)
                    /\ e.e = "completed" => \A i \in DOMAIN asm.blocks : ~OpenAt(asm.ev, i, k)
    BY DEF WellBracketed
<1>1. Good(asm, Strict(req.proto, up))
    BY DEF StreamInv, Flow
<1>2. /\ Fits(asm.ev, k, Strict(req.proto, up)) /\ Known(asm) /\ Concluded(asm) /\ asm \in AsmType
    BY <1>1 DEF Good, AllFit
<1>3. asm.ev[k].e \in Last2 => k = Len(asm.ev) /\ asm.over = asm.ev[k].e
    BY <1>2, Zenon DEF Concluded
<1>4. asm.over = "completed" => AllClosed(asm)
    BY <1>2, Zenon DEF Concluded
<1>5. \A i \in DOMAIN asm.blocks :
        Times(asm.ev, "open", i, Len(asm.ev))
          = Times(asm.ev, "close", i, Len(asm.ev)) + (IF asm.blocks[i].open THEN 1 ELSE 0)
    BY <1>2, Zenon DEF Known
<1>6. ASSUME asm.ev[k].e = "completed", NEW i \in DOMAIN asm.blocks PROVE ~OpenAt(asm.ev, i, k)
  <2>1. k = Len(asm.ev) /\ ~asm.blocks[i].open
      BY <1>3, <1>4, <1>6 DEF Last2, AllClosed
  <2> DEFINE n == Times(asm.ev, "open", i, Len(asm.ev))
             m == Times(asm.ev, "close", i, Len(asm.ev))
  <2>2. Len(asm.ev) \in Nat
    <3>1. asm.ev \in Seq(EvType)
        BY <1>2 DEF AsmType
    <3> QED BY <3>1
  <2>3. m \in Nat
      BY <2>2, TimesFinite
  <2>4. n = m + 0
      BY <1>5, <2>1
  <2> HIDE DEF n, m
  <2>5. n # m + 1
      BY <2>3, <2>4
  <2> QED BY <2>1, <2>5 DEF OpenAt, n, m
<1> QED BY <1>2, <1>3, <1>6 DEF Fits, Strict, Last2

(* The reasons whose normal form ends a typed answer as they do themselves. *)
LEMMA EndKept ==
  ASSUME NEW proto \in Typed, NEW f \in FinishReasons, f # "max_tokens"
  PROVE  EndOf(proto, OpenAIFinish(f)) = EndOf(proto, f)
BY DEF EndOf, OpenAIFinish, FinishReasons, ResponsesStatus, AnthropicFinish

(* Both answers say the same.                                              *)
LEMMA BothSame == ASSUME Inv, StreamInv PROVE StreamMatchesJson
<1> DEFINE whole == JsonAnswer(req.proto, up)
           last == asm.ev[Len(asm.ev)]
<1> SUFFICES ASSUME req.stream, req.proto # "chat", Answered
             PROVE  /\ last.e = "completed" /\ last.d = whole.usage
                    /\ up.finish # "max_tokens" => last.i = whole.end
                    /\ ~up.late /\ ~seen.restarted => Sent(asm) = Kept(Items(up), Named(Items(up)))
    BY DEF StreamMatchesJson, Sent, Named
<1>1. up \in UpType /\ req.proto \in Typed
    BY ProtoKnown DEF Inv, TypeOK
<1>2. pc = "over"
    BY DEF StreamInv, Flow, Answered
<1>3. Ending(asm, <<>>, up, req.proto)
    BY <1>2 DEF StreamInv, Outcome, Answered
<1>4. Finished(asm, up, req.proto) /\ TellsItems(asm, up, 0)
    BY <1>1, <1>3, EndingOver
<1>5. asm.finish = OpenAIFinish(up.finish) /\ SaysEnd(req.proto, asm, asm.finish, up.usage)
    BY <1>4 DEF Finished, EndedFor
<1>6. up.usage # -1
  <2>1. up.usage \in {0, 1}
      BY <1>1 DEF UpType
  <2>2. 0 # -1 /\ 1 # -1
      OBVIOUS
  <2> QED BY <2>1, <2>2
<1>7. last.e = "completed" /\ last.i = EndOf(req.proto, OpenAIFinish(up.finish)) /\ last.d = up.usage
    BY <1>5, <1>6 DEF SaysEnd
<1> HIDE DEF last
<1>8. whole.end = EndOf(req.proto, up.finish) /\ whole.usage = up.usage
    BY <1>1 DEF JsonAnswer, EndOf, Typed
<1>9. up.finish # "max_tokens" => last.i = whole.end
  <2>1. up.finish \in FinishReasons
      BY <1>1 DEF UpType
  <2> QED BY <1>1, <1>7, <1>8, <2>1, EndKept
<1>10. ~up.late => Sent(asm) = Kept(Items(up), Named(Items(up)))
  <2>1. Len(up.tools) \in Nat
    <3>1. up.tools \in Seq(ToolType)
        BY <1>1 DEF UpType, ToolType
    <3> QED BY <3>1
  <2>2. Given(0, Len(up.tools)) = Len(up.tools)
      BY DEF Given
  <2> QED BY <1>1, <1>4, <2>2, SentLast DEF TellsItems
<1> QED BY <1>7, <1>8, <1>9, <1>10

(* AnswerInv: types, no success without output, one outcome which the log, *)
(* the status and what the client read agree on, and budgets kept apart;   *)
(* of a stream that began again all but the one outcome.                   *)
THEOREM AnswerSafe ==
  Spec => []((TypeOK /\ NoFalseSuccess /\ BudgetsApart) /\ (seen.restarted \/ AnswerInv))
<1>1. Inv => TypeOK /\ NoFalseSuccess /\ BudgetsApart
    BY DEF Inv, OutputInv, CountInv
<1>2. Inv /\ UntilRestart => seen.restarted \/ AnswerInv
    BY <1>1, OutcomeIsOne DEF UntilRestart, AnswerInv
<1> QED BY <1>1, <1>2, StreamInvariance, PTL

(* StreamTrue: the client of a stream reads each piece of the last call    *)
(* once and in order, whatever was retried before, and the typed events of *)
(* the two assemblers open, fill and close the items as the protocols ask, *)
(* unless a break taken for a 401 made the stream begin again.             *)
THEOREM StreamIsTrue == Spec => [](seen.restarted \/ StreamTrue)
<1>1. UntilRestart => seen.restarted \/ StreamTrue
    BY AllDelivered, AllBracketed DEF UntilRestart, StreamTrue
<1> QED BY <1>1, StreamInvariance, PTL

(* StreamMatchesJson: a client puts the same items, reason and tokens      *)
(* together from the stream as another one reads from the document of      *)
(* chat_response_to_responses or chat_response_to_anthropic, however many  *)
(* pieces and calls there are, unless its stream began again.              *)
THEOREM BothAnswersAgree == Spec => [](seen.restarted \/ StreamMatchesJson)
<1>1. Inv /\ UntilRestart => seen.restarted \/ StreamMatchesJson
    BY BothSame DEF UntilRestart
<1> QED BY <1>1, StreamInvariance, PTL
=============================================================================
