----------------------------- MODULE ToolRepair -----------------------------
(***************************************************************************)
(* relay/tool_repair.py: the repair of the tool traffic in a history, on   *)
(* its way to the WorkBuddy upstream, which refuses a whole conversation   *)
(* when the calls of an assistant are not directly followed by their       *)
(* results.                                                                *)
(*                                                                         *)
(* A message is a record: text and think are sequences of the pieces that  *)
(* were joined into them, img says that its content is a list of blocks,   *)
(* calls are the tool calls [id, name] of an assistant and for is the call *)
(* a tool message answers.  Each pass maps a history to a history.         *)
(***************************************************************************)
EXTENDS Integers, SequencesExt

Placeholder == 0        \* the text of a result that is missing from the history

Message(role) == [role |-> role, text |-> <<>>, img |-> FALSE, think |-> <<>>, calls |-> <<>>, for |-> ""]

Ids(m)    == {m.calls[k].id : k \in DOMAIN m.calls} \ {""}
IsHead(m) == m.role = "assistant" /\ m.calls # <<>>
NoText(m) == m.text = <<>> /\ ~m.img

ResultIds(ms) == {ms[i].for : i \in {j \in DOMAIN ms : ms[j].role = "tool"}} \ {""}

(* The elements of a sequence at the positions K. *)
Those(s, K) == FlattenSeq([k \in DOMAIN s |-> IF k \in K THEN << s[k] >> ELSE <<>>])

-----------------------------------------------------------------------------
(* Two assistants next to each other: calls without text join the calls    *)
(* before them, a text is folded into calls that have none.                *)

Join(prev, m) == [prev EXCEPT !.calls = @ \o m.calls, !.think = @ \o m.think,
                              !.text = IF m.calls = <<>> THEN m.text ELSE @]

Joins(prev, m) == /\ IsHead(prev) /\ m.role = "assistant"
                  /\ \/ m.calls # <<>> /\ NoText(m)
                     \/ m.calls = <<>> /\ m.text # <<>> /\ ~m.img /\ NoText(prev)

MergeStep(out, m) == IF out # <<>> /\ Joins(Last(out), m)
                     THEN Append(Front(out), Join(Last(out), m)) ELSE Append(out, m)

Merge(ms) == LET out[n \in 0 .. Len(ms)] == IF n = 0 THEN <<>> ELSE MergeStep(out[n - 1], ms[n])
             IN  out[Len(ms)]

-----------------------------------------------------------------------------
(* A call without a result anywhere gets a placeholder behind those        *)
(* results of its batch that follow it directly.                           *)

Stub(id) == [Message("tool") EXCEPT !.text = <<Placeholder>>, !.for = id]

Missing(m, have) ==
    LET lost == Those(m.calls, {k \in DOMAIN m.calls : m.calls[k].id \notin have \cup {""}})
    IN  [k \in DOMAIN lost |-> Stub(lost[k].id)]

InRun(ms, h, e) == \A j \in h + 1 .. e : ms[j].role = "tool" /\ ms[j].for \in Ids(ms[h])
RunEnd(ms, h)   == CHOOSE e \in h .. Len(ms) : InRun(ms, h, e) /\ (e = Len(ms) \/ ~InRun(ms, h, e + 1))

Behind(ms, i, have) ==
    LET heads == {h \in DOMAIN ms : IsHead(ms[h]) /\ RunEnd(ms, h) = i}
    IN  IF heads = {} THEN <<>> ELSE Missing(ms[CHOOSE h \in heads : TRUE], have)

Fill(ms) == FlattenSeq([i \in DOMAIN ms |-> << ms[i] >> \o Behind(ms, i, ResultIds(ms))])

-----------------------------------------------------------------------------
(* The results of a batch that come before the next batch are gathered     *)
(* behind it, in the order of the calls, one for each call: the first that *)
(* is not empty.  What stood between them follows.                         *)

NextHead(ms, h) ==
    LET later == {i \in h + 1 .. Len(ms) : IsHead(ms[i])}
    IN  IF later = {} THEN Len(ms) + 1 ELSE CHOOSE i \in later : \A j \in later : i <= j

(* variant: the last result of a call wins *)
BestResultLast(results) == Last(results)

BestResult(results) ==
    Head(Those(results, {k \in DOMAIN results : ~NoText(results[k])}) \o results)

Answers(head, m) == m.role = "tool" /\ m.for \in Ids(head)

ResultsOf(head, window, id) ==
    Those(window, {k \in DOMAIN window : Answers(head, window[k]) /\ window[k].for = id})

IsLast(calls, k) == \A j \in DOMAIN calls : calls[j].id = calls[k].id => j <= k

Chosen(head, window, k) ==
    LET results == ResultsOf(head, window, head.calls[k].id)
    IN  IF IsLast(head.calls, k) /\ results # <<>> THEN << BestResult(results) >> ELSE <<>>

Gathered(head, window) ==
    FlattenSeq([k \in DOMAIN head.calls |-> Chosen(head, window, k)])
    \o Those(window, {k \in DOMAIN window : ~Answers(head, window[k])})

Part(ms, i) ==
    CASE IsHead(ms[i]) -> << ms[i] >> \o Gathered(ms[i], SubSeq(ms, i + 1, NextHead(ms, i) - 1))
      [] ~IsHead(ms[i]) /\ (\E h \in 1 .. i - 1 : IsHead(ms[h])) -> <<>>
      [] ~IsHead(ms[i]) /\ ~(\E h \in 1 .. i - 1 : IsHead(ms[h])) -> << ms[i] >>

Repack(ms) == IF Len(ms) < 3 THEN ms ELSE FlattenSeq([i \in DOMAIN ms |-> Part(ms, i)])

-----------------------------------------------------------------------------
(* Calls and results stay only in pairs; a call without a name goes, and   *)
(* its result with it.                                                     *)

(* variant: a call without a name is kept when it has a result *)
KeptNameless(ms) ==
    UNION {{ms[i].calls[k].id : k \in DOMAIN ms[i].calls} : i \in DOMAIN ms} \cap ResultIds(ms)

Kept(ms) ==
    LET calls == UNION {{ms[i].calls[k] : k \in DOMAIN ms[i].calls} : i \in DOMAIN ms}
    IN  ({c.id : c \in calls} \cap ResultIds(ms)) \ {c.id : c \in {d \in calls : d.name = ""}}

Pruned(m, keep) == [m EXCEPT !.calls = Those(@, {k \in DOMAIN @ : @[k].id \in keep})]

CleanOne(m, keep) == IF m.role = "tool" /\ m.for \notin keep THEN <<>> ELSE << Pruned(m, keep) >>

Clean(ms, keep) == FlattenSeq([i \in DOMAIN ms |-> CleanOne(ms[i], keep)])

Cleanup(ms) == Clean(ms, Kept(ms))

(* variant: the gathering is left out *)
RepairNoRepack(ms) == Cleanup(Fill(Merge(ms)))

(* variant: assistants are joined after their results were gathered *)
RepairMergeLast(ms) == Merge(Cleanup(Repack(Fill(ms))))

Repair(ms) == Cleanup(Repack(Fill(Merge(ms))))
=============================================================================
