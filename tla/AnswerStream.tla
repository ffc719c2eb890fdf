---------------------------- MODULE AnswerStream ----------------------------
(***************************************************************************)
(* How an answer becomes what a client reads: the frames of                *)
(* oai_adapter.stream_openai_sse, the two assemblers that turn them into   *)
(* the typed events of the Responses and Anthropic protocols, and the JSON *)
(* answers of the requests that do not stream.                             *)
(*                                                                         *)
(* A piece of text is a number, given in the order the upstream sent it;   *)
(* a buffer is the sequence of its pieces.  An assembler is a record whose *)
(* ev is everything it has emitted.  The events of one item are folded     *)
(* into "open", "delta" and "close"; created and in_progress into "start". *)
(***************************************************************************)
EXTENDS Integers, Sequences

(* The elements of a sequence at the positions K: SelectSeq, as a function *)
(* on the prefixes of s.                                                   *)
Kept(s, K) ==
    LET f[n \in 0 .. Len(s)] ==
          IF n = 0 THEN <<>>
          ELSE IF n \in K THEN Append(f[n - 1], s[n]) ELSE f[n - 1]
    IN  f[Len(s)]

(* What the frames or the events of a sequence carry. *)
Data(s) == [k \in DOMAIN s |-> s[k].d]

(* Reasons for the end of an answer: those of the Chat protocol, those of  *)
(* an Anthropic upstream, and those of the TA+3 provider's own deadlines.  *)
FinishReasons == {"stop", "length", "tool_calls", "end_turn", "tool_use", "max_tokens",
                  "thinking_timeout", "timeout"}

OpenAIFinish(r) == CASE r = "end_turn"   -> "stop"
                     [] r = "tool_use"   -> "tool_calls"
                     [] r = "max_tokens" -> "length"
                     [] OTHER            -> r

AnthropicFinish(r) == CASE r = "length" -> "max_tokens"
                        [] r \in {"tool_calls", "tool_use"} -> "tool_use"
                        [] OTHER -> "end_turn"

ResponsesStatus(r) == IF r = "length" THEN "incomplete" ELSE "completed"

-----------------------------------------------------------------------------
(* What the upstream produced in one call: think and text are sequences of *)
(* pieces, tools the tool calls [name, args], usage the tokens it billed.  *)

IsShell(t) == ~t.args

(* variant: text and reasoning are forgotten, usage alone decides *)
IsEmptyByUsage(r) == r.usage = 0

IsEmpty(r) == /\ r.usage = 0
              /\ r.think = <<>> /\ r.text = <<>>
              /\ \A k \in DOMAIN r.tools : IsShell(r.tools[k])

Item(kind, buf) == [kind |-> kind, buf |-> buf]
ToolItem(t)     == Item("tool", t)

(* The typed items of an answer that does not stream; the empty message of *)
(* an answer without any is left to the JSON operators below.              *)
Items(r) == (IF r.think # <<>> THEN << Item("think", r.think) >> ELSE <<>>)
            \o (IF r.text # <<>> THEN << Item("text", r.text) >> ELSE <<>>)
            \o [k \in DOMAIN r.tools |-> ToolItem(r.tools[k])]

OrEmptyMessage(items) == IF items = <<>> THEN << Item("text", <<>>) >> ELSE items

(* chat_response_to_responses, _anthropic and _openai: the reason for the  *)
(* end is translated by the last one alone.                                *)
JsonAnswer(proto, r) ==
    CASE proto = "responses" ->
           [items |-> OrEmptyMessage(Items(r)), end |-> ResponsesStatus(r.finish), usage |-> r.usage]
      [] proto = "anthropic" ->
           [items |-> OrEmptyMessage(Items(r)), end |-> AnthropicFinish(r.finish), usage |-> r.usage]
      [] proto = "chat" ->
           [items |-> Items(r), end |-> OpenAIFinish(r.finish), usage |-> r.usage]

-----------------------------------------------------------------------------
(* The frames of stream_openai_sse.  The providers never hand out an empty *)
(* piece, so the buffer for such frames before the release is left out.    *)

RoleFrame      == [f |-> "role", d |-> 0]
ThinkFrame(d)  == [f |-> "think", d |-> d]
TextFrame(d)   == [f |-> "text", d |-> d]
ToolFrame(t)   == [f |-> "tool", d |-> t]

Release(released) == IF released THEN <<>> ELSE << RoleFrame >>

(* The frames of the done event: one for each tool call, then the reason,  *)
(* the usage if the client wants it, and the end mark.                     *)
DoneFrames(r, wantUsage) ==
    [k \in DOMAIN r.tools |-> ToolFrame(r.tools[k])]
    \o << [f |-> "finish", d |-> OpenAIFinish(r.finish)] >>
    \o (IF wantUsage THEN << [f |-> "usage", d |-> r.usage] >> ELSE <<>>)
    \o << [f |-> "DONE", d |-> 0] >>

-----------------------------------------------------------------------------
(* The assemblers.  blocks is the sequence of items that have an index,    *)
(* in the order the indexes were given; think and text are the positions   *)
(* of the reasoning and the text item in it, 0 before they have one.       *)

NewAssembler == [started |-> FALSE, over |-> "", blocks |-> <<>>, think |-> 0, text |-> 0,
                 finish |-> "", usage |-> -1, ev |-> <<>>]

Emit(a, e) == [a EXCEPT !.ev = Append(@, e)]

Ev(e, i, d) == [e |-> e, i |-> i, d |-> d]

EnsureStarted(a) == IF a.started THEN a ELSE Emit([a EXCEPT !.started = TRUE], Ev("start", 0, 0))

IsOpen(a, i) == i # 0 /\ a.blocks[i].open

(* A new item takes the next index and is announced. *)
AddBlock(a, kind, buf) ==
    Emit([a EXCEPT !.blocks = Append(@, [kind |-> kind, buf |-> buf, open |-> TRUE])],
         Ev("open", Len(a.blocks) + 1, kind))

AddPiece(a, i, d) ==
    Emit([a EXCEPT !.blocks[i].buf = Append(@, d)], Ev("delta", i, d))

(* Both protocols tell the client when an item ends; the Responses events  *)
(* repeat the item as it then is, and the terminal event repeats that.     *)
CloseBlock(a, i) ==
    IF IsOpen(a, i) THEN Emit([a EXCEPT !.blocks[i].open = FALSE], Ev("close", i, a.blocks[i].buf))
    ELSE a

(* variant: only the first open item is closed *)
CloseToolsFirst(a) ==
    LET still == {i \in DOMAIN a.blocks : a.blocks[i].kind = "tool" /\ a.blocks[i].open}
    IN  IF still = {} THEN a ELSE CloseBlock(a, CHOOSE i \in still : \A j \in still : i <= j)

(* _close_tools, _stop_tools: every open tool call in order *)
CloseTools(a) ==
    LET f[i \in 0 .. Len(a.blocks)] ==
          IF i = 0 THEN a
          ELSE IF a.blocks[i].kind = "tool" THEN CloseBlock(f[i - 1], i) ELSE f[i - 1]
    IN  f[Len(a.blocks)]

CloseAll(a) == CloseTools(CloseBlock(CloseBlock(a, a.think), a.text))

(* A tool call arrives whole, in one frame, with an id; one without a name *)
(* never gets an item.                                                     *)
ToolDelta(a, t) ==
    LET b == CloseBlock(CloseBlock(EnsureStarted(a), a.think), a.text)
    IN  IF t.name = "" THEN b
        ELSE Emit(AddBlock(b, "tool", t), Ev("delta", Len(b.blocks) + 1, t))

-----------------------------------------------------------------------------
(* ResponsesStreamAssembler: an item is opened once.  Reasoning that comes *)
(* after the text began is still sent for the item already closed.         *)

ReasoningDeltaR(a, d) ==
    LET b == EnsureStarted(a)
        c == IF b.think = 0 THEN [AddBlock(b, "think", <<>>) EXCEPT !.think = Len(b.blocks) + 1] ELSE b
    IN  AddPiece(c, c.think, d)

TextDeltaR(a, d) ==
    LET b == CloseBlock(EnsureStarted(a), a.think)
        c == IF b.text = 0 THEN [AddBlock(b, "text", <<>>) EXCEPT !.text = Len(b.blocks) + 1] ELSE b
    IN  AddPiece(c, c.text, d)

(* The items of response.completed are those closed so far. *)
Terminal(a) ==
    IF a.over # "" THEN a
    ELSE Emit([a EXCEPT !.over = "completed"],
              [e |-> "completed", i |-> ResponsesStatus(a.finish), d |-> a.usage])

-----------------------------------------------------------------------------
(* AnthropicStreamAssembler: a block that comes back is started again with *)
(* the index it had.                                                       *)

Reopen(a, i, kind) ==
    IF a.blocks[i].open THEN a
    ELSE Emit([a EXCEPT !.blocks[i].open = TRUE], Ev("open", i, kind))

ThinkingDeltaA(a, d) ==
    LET b == CloseBlock(EnsureStarted(a), a.text)
        c == IF b.think = 0 THEN [AddBlock(b, "think", <<>>) EXCEPT !.think = Len(b.blocks) + 1]
             ELSE Reopen(b, b.think, "think")
    IN  AddPiece(c, c.think, d)

TextDeltaA(a, d) ==
    LET b == CloseBlock(EnsureStarted(a), a.think)
        c == IF b.text = 0 THEN [AddBlock(b, "text", <<>>) EXCEPT !.text = Len(b.blocks) + 1]
             ELSE Reopen(b, b.text, "text")
    IN  AddPiece(c, c.text, d)

MessageDelta(a) ==
    IF a.over # "" THEN a
    ELSE Emit([a EXCEPT !.over = "completed"],
              [e |-> "completed", i |-> AnthropicFinish(a.finish),
               d |-> IF a.usage = -1 THEN 0 ELSE a.usage])

-----------------------------------------------------------------------------
Conclude(proto, a) == IF proto = "responses" THEN Terminal(a) ELSE MessageDelta(a)

(* variant: the finish frame concludes the answer, before the usage is known *)
FeedTypedEarly(proto, a, fr) ==
    CASE fr.f = "role"   -> a
      [] fr.f = "think"  -> IF proto = "responses" THEN ReasoningDeltaR(a, fr.d) ELSE ThinkingDeltaA(a, fr.d)
      [] fr.f = "text"   -> IF proto = "responses" THEN TextDeltaR(a, fr.d) ELSE TextDeltaA(a, fr.d)
      [] fr.f = "tool"   -> ToolDelta(a, fr.d)
      [] fr.f = "finish" -> Conclude(proto, CloseAll([a EXCEPT !.finish = fr.d]))
      [] fr.f = "usage"  -> [a EXCEPT !.usage = fr.d]
      [] fr.f = "DONE"   -> Conclude(proto, CloseAll(a))

(* feed: the finish frame closes the items; the terminal event waits for   *)
(* the usage frame or the end mark, so that its usage is the real one.     *)
FeedTyped(proto, a, fr) ==
    CASE fr.f = "role"   -> a
      [] fr.f = "think"  -> IF proto = "responses" THEN ReasoningDeltaR(a, fr.d) ELSE ThinkingDeltaA(a, fr.d)
      [] fr.f = "text"   -> IF proto = "responses" THEN TextDeltaR(a, fr.d) ELSE TextDeltaA(a, fr.d)
      [] fr.f = "tool"   -> ToolDelta(a, fr.d)
      [] fr.f = "finish" -> CloseAll([a EXCEPT !.finish = fr.d])
      [] fr.f = "usage"  -> IF a.finish # "" THEN Conclude(proto, [a EXCEPT !.usage = fr.d])
                            ELSE [a EXCEPT !.usage = fr.d]
      [] fr.f = "DONE"   -> Conclude(proto, CloseAll(a))

(* A Chat client reads the frames themselves. *)
Feed(proto, a, fr) ==
    IF proto = "chat" THEN Emit(a, [e |-> fr.f, i |-> 0, d |-> fr.d]) ELSE FeedTyped(proto, a, fr)

(* finish: what is missing at the end of the stream *)
Finish(proto, a) == IF proto = "chat" THEN a ELSE Conclude(proto, CloseAll(a))

(* failed_event, or the error frame of the Chat protocol *)
Failed(proto, a) ==
    IF proto = "chat" THEN Emit(a, [e |-> "error", i |-> 0, d |-> 0])
    ELSE IF a.over # "" THEN a
    ELSE Emit([EnsureStarted(a) EXCEPT !.over = "failed"], [e |-> "failed", i |-> 0, d |-> 0])
=============================================================================
