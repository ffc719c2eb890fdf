------------------------------- MODULE Answer -------------------------------
(***************************************************************************)
(* One chat request from the check of its model to its last byte           *)
(* (routes._handle_chat and below): calls of the upstream, their two       *)
(* budgets of retries, the frames of an answer, the assembler of the       *)
(* client's protocol, the status of the response and the row in the log.   *)
(*                                                                         *)
(* The layers are generators that pull one frame at a time, so a step      *)
(* takes one line of the upstream or one frame through them; frames that   *)
(* one line gives rise to wait in `queue`.  Other requests share nothing   *)
(* with this one but the catalogue, which may change at any await.         *)
(***************************************************************************)
EXTENDS AnswerStream, FiniteSets

CONSTANTS
    Protos,        \* protocols of the client: "chat", "responses", "anthropic"
    Providers,     \* kinds of upstream: "ta3", "custom", "wb"
    MaxEmpty,      \* settings.empty_stream_retries
    MaxLines,      \* bound: lines of an upstream answer
    MaxAgain,      \* bound: lines of a call that goes on with a begun stream
    Finishes,      \* reasons for the end an upstream gives
    Digits401      \* an error text that names no status may hold the digits 401

ASSUME AnswerAssumption ==
    /\ Protos \subseteq {"chat", "responses", "anthropic"}
    /\ Providers \subseteq {"ta3", "custom", "wb"}
    /\ MaxEmpty \in Nat /\ MaxLines \in Nat /\ MaxAgain \in Nat
    /\ Finishes \subseteq FinishReasons
    /\ Digits401 \in BOOLEAN

VARIABLES
    req,        \* the request: [proto, stream, prov, wantUsage]
    pc,         \* where the request is
    model,      \* the requested model: "ok", "unknown" (404), or "nopool" (503)
    up,         \* what the current call of the upstream produced
    released,   \* stream_openai_sse: an output of this call was seen
    queue,      \* frames that the last line gave rise to
    asm,        \* the assembler and, in asm.ev, what the client has read
    http,       \* status of the response, 0 until it is sent
    json,       \* the body of an answer that does not stream
    refreshed,  \* the budget of credential refreshes is used
    empties,    \* retries after an empty answer, out of MaxEmpty
    log,        \* rows chat_done and chat_error of this request
    seen        \* history: upstream calls, how many of them were empty or taken
                \* for a 401, and whether one was repeated after the headers

vars == <<req, pc, model, up, released, queue, asm, http, json, refreshed, empties, log, seen>>

Budgets == <<refreshed, empties>>

NewCall == [think |-> <<>>, text |-> <<>>, tools |-> <<>>, finish |-> "stop", usage |-> 0,
            made |-> <<>>, lines |-> 0, late |-> FALSE, fallback |-> FALSE]

Requests == {r \in [proto : Protos, stream : BOOLEAN, prov : Providers, wantUsage : BOOLEAN] :
                r.proto # "chat" => r.wantUsage}

Models(prov) == IF prov = "wb" THEN {"ok", "unknown", "nopool"} ELSE {"ok", "unknown"}

Init == /\ req \in Requests
        /\ model \in Models(req.prov)
        /\ pc = IF req.stream THEN "check" ELSE "ensure"
        /\ up = NewCall /\ released = FALSE /\ queue = <<>>
        /\ asm = NewAssembler
        /\ http = 0 /\ json = <<>>
        /\ refreshed = FALSE /\ empties = 0
        /\ log = <<>>
        /\ seen = [calls |-> 0, empty |-> 0, rejected |-> 0, restarted |-> FALSE]

-----------------------------------------------------------------------------
(* Errors.  cls is the class of the exception, digits that its text holds  *)
(* 401.  PlatformUpstreamError is no RuntimeError, the other classes are.  *)

Err(cls, status, digits) == [cls |-> cls, status |-> status, digits |-> digits]

(* An upstream answer without output, and a provider without a hook. *)
EmptyAnswer == Err("empty", 0, FALSE)
NoHook      == Err("hook", 500, FALSE)

IsUpstream401(x) == IF x.cls = "ta3" THEN x.status = 401 ELSE x.cls # "platform" /\ x.digits

(* _upstream_error_response: an error it does not know is raised, 500. *)
RespStatus(x) == CASE x.cls \in {"ta3", "custom", "platform"} -> x.status
                   [] x.cls = "model"     -> 400
                   [] x.cls = "suspended" -> 429
                   [] x.cls = "noaccount" -> 503
                   [] x.cls = "empty"     -> 502
                   [] x.cls = "http"      -> x.status
                   [] OTHER               -> 500

(* An upstream that refuses the call.  A custom provider's text is its own *)
(* message, which may or may not name the status; WorkBuddy's statuses are *)
(* what the rotation of the accounts ended in, told with a number of       *)
(* seconds, accounts or a time of day.                                     *)
Refusals(prov) ==
    CASE prov = "ta3"    -> {Err("ta3", 401, TRUE), Err("ta3", 429, FALSE)}
      [] prov = "custom" -> {Err("custom", 401, b) : b \in BOOLEAN}
                            \cup {Err("custom", 429, FALSE), Err("custom", 503, FALSE)}
      [] prov = "wb"     -> {Err("platform", 429, FALSE), Err("noaccount", 0, FALSE)}
                            \cup {Err(c, 0, b) : c \in {"model", "suspended"}, b \in {FALSE, Digits401}}

(* A connection that breaks, before the first line or between two. *)
Breaks(prov) ==
    CASE prov = "ta3"    -> {Err("ta3net", 0, b) : b \in {FALSE, Digits401}}
      [] prov = "custom" -> {Err("custom", 502, b) : b \in {FALSE, Digits401}}
      [] prov = "wb"     -> {Err("platform", 502, FALSE), Err("platform", 504, FALSE)}
                            \cup {Err("model", 0, b) : b \in {FALSE, Digits401}}

(* variant: the row is left out once the stream has begun *)
FailNoRow(x) == /\ IF http = 0 THEN http' = RespStatus(x) /\ asm' = asm /\ log' = Append(log, x.cls)
                   ELSE http' = http /\ asm' = Failed(req.proto, asm) /\ log' = log
                /\ pc' = "over"
                /\ UNCHANGED <<Budgets, json>>

(* The end of a request by an error: a status while the headers are not    *)
(* out, an error event in the stream after that.  Either way chat_error.   *)
Fail(x) == /\ IF http = 0 THEN http' = RespStatus(x) /\ asm' = asm
              ELSE http' = http /\ asm' = Failed(req.proto, asm)
           /\ log' = Append(log, x.cls)
           /\ pc' = "over"
           /\ UNCHANGED <<Budgets, json>>

(* variant: one budget for both kinds of retry *)
RaiseOneBudget(x) ==
    CASE x.cls = "empty" /\ empties < MaxEmpty /\ ~refreshed ->
           /\ empties' = empties + 1 /\ pc' = "call"
           /\ UNCHANGED <<refreshed, asm, http, json, log>>
      [] IsUpstream401(x) /\ ~refreshed ->
           /\ refreshed' = TRUE /\ pc' = "refresh"
           /\ UNCHANGED <<empties, asm, http, json, log>>
      [] OTHER -> Fail(x)

(* variant: one retry too many *)
RaiseOneMore(x) ==
    CASE x.cls = "empty" /\ empties <= MaxEmpty ->
           /\ empties' = empties + 1 /\ pc' = "call"
           /\ UNCHANGED <<refreshed, asm, http, json, log>>
      [] IsUpstream401(x) /\ ~refreshed ->
           /\ refreshed' = TRUE /\ pc' = "refresh"
           /\ UNCHANGED <<empties, asm, http, json, log>>
      [] OTHER -> Fail(x)

(* The two budgets of _sse_with_retry.  Without streaming the retries of   *)
(* empty answers are inside chat_with_empty_retry, which a refresh starts  *)
(* again with a budget of its own.                                         *)
Raise(x) ==
    CASE x.cls = "empty" /\ empties < MaxEmpty ->
           /\ empties' = empties + 1 /\ pc' = "call"
           /\ UNCHANGED <<refreshed, asm, http, json, log>>
      [] IsUpstream401(x) /\ ~refreshed ->
           /\ refreshed' = TRUE /\ pc' = "refresh"
           /\ empties' = IF req.stream THEN empties ELSE 0
           /\ UNCHANGED <<asm, http, json, log>>
      [] OTHER -> Fail(x)

-----------------------------------------------------------------------------
(* A streamed request checks its model before the headers, and again when  *)
(* its generator starts; another one checks it once.                       *)

ModelError == Err("http", IF model = "nopool" THEN 503 ELSE 404, FALSE)

Check == /\ pc = "check"
         /\ IF model = "ok"
            THEN pc' = "ensure" /\ UNCHANGED <<Budgets, asm, http, json, log>>
            ELSE Fail(ModelError)
         /\ UNCHANGED <<req, model, up, released, queue, seen>>

Ensure == /\ pc = "ensure"
          /\ IF model = "ok"
             THEN pc' = "call" /\ UNCHANGED <<Budgets, asm, http, json, log>>
             ELSE Fail(ModelError)
          /\ UNCHANGED <<req, model, up, released, queue, seen>>

(* _refresh_provider_credentials: TA+3 reads its catalogue again for the   *)
(* new key; WorkBuddy refreshes the accounts of its pool, one of which has *)
(* to succeed; a custom provider has no hook, an error of its own.         *)
Refresh == /\ pc = "refresh"
           /\ \/ /\ \/ req.prov = "ta3" /\ model = "ok"
                    \/ req.prov = "wb" /\ model # "nopool"
                 /\ pc' = "call" /\ UNCHANGED <<Budgets, asm, http, json, log>>
              \/ /\ ~(req.prov = "ta3" /\ model = "ok")
                 /\ Fail(NoHook)
           /\ UNCHANGED <<req, model, up, released, queue, seen>>

(* The catalogue, the whitelist, the visibility or the pool changes. *)
CatalogueChanges == /\ pc \in {"check", "ensure", "call", "refresh"}
                    /\ model' \in Models(req.prov) \ {model}
                    /\ UNCHANGED <<req, pc, up, released, queue, asm, http, json, Budgets, log, seen>>

-----------------------------------------------------------------------------
(* Calls of the upstream. *)

Call == /\ pc = "call"
        /\ pc' = "lines"
        /\ up' = NewCall /\ released' = FALSE
        /\ seen' = [seen EXCEPT !.calls = @ + 1]
        /\ UNCHANGED <<req, model, queue, asm, http, json, Budgets, log>>

(* A custom provider without streaming is asked for one JSON document; if  *)
(* it refuses that with a 4xx, the answer is collected from a stream.      *)
AsksJson == req.prov = "custom" /\ ~req.stream /\ ~up.fallback

Fallback == /\ pc = "lines" /\ up.lines = 0 /\ AsksJson
            /\ up' = [NewCall EXCEPT !.fallback = TRUE]
            /\ seen' = [seen EXCEPT !.calls = @ + 1]
            /\ UNCHANGED <<req, pc, model, released, queue, asm, http, json, Budgets, log>>

Rejects(x) == IF IsUpstream401(x) THEN 1 ELSE 0

Refused == /\ pc = "lines" /\ up.lines = 0
           /\ \E x \in Refusals(req.prov) :
                /\ AsksJson => x.status >= 500
                /\ Raise(x)
                /\ seen' = [seen EXCEPT !.rejected = @ + Rejects(x)]
           /\ UNCHANGED <<req, model, up, released, queue>>

(* A break may come after the client has read a part of the answer, and be *)
(* taken for a 401 all the same.                                           *)
Broken == /\ pc = "lines" /\ queue = <<>>
          /\ \E x \in Breaks(req.prov) :
               /\ Raise(x)
               /\ seen' = [seen EXCEPT !.rejected = @ + Rejects(x),
                                       !.restarted = @ \/ (pc' = "refresh" /\ http # 0)]
          /\ UNCHANGED <<req, model, up, released, queue>>

(* One line: reasoning, text, a new tool call, arguments for the last one, *)
(* the reason for the end, the usage.  The first line of most upstreams    *)
(* and an unreadable one carry none of them.                               *)
Line == [think |-> FALSE, text |-> FALSE, tool |-> "", finish |-> "", usage |-> 0]
Lines == {Line,
          [Line EXCEPT !.think = TRUE], [Line EXCEPT !.text = TRUE],
          [Line EXCEPT !.think = TRUE, !.text = TRUE],
          [Line EXCEPT !.tool = "named"], [Line EXCEPT !.tool = "nameless"],
          [Line EXCEPT !.tool = "args"], [Line EXCEPT !.usage = 1]}
         \cup {[Line EXCEPT !.finish = f] :
                  f \in {g \in Finishes : req.prov = "ta3" \/ g \in {"stop", "length", "tool_calls"}}}

(* The parsers of the three providers: the order of what one line carries, *)
(* the merging of the fragments of a tool call, the last reason and the    *)
(* last usage.                                                             *)
Pieces(l, n) == LET th == IF l.think THEN <<ThinkFrame(n)>> ELSE <<>>
                    tx == IF l.text THEN <<TextFrame(n)>> ELSE <<>>
                IN  IF req.prov = "ta3" THEN th \o tx ELSE tx \o th

MergeTool(tools, l) ==
    CASE l.tool = "named"    -> Append(tools, [name |-> "n", args |-> FALSE])
      [] l.tool = "nameless" -> Append(tools, [name |-> "", args |-> FALSE])
      [] l.tool = "args"     -> [tools EXCEPT ![Len(tools)].args = TRUE]
      [] OTHER               -> tools

Absorb(u, l) ==
    LET n == u.lines + 1 IN
    [think  |-> IF l.think THEN Append(u.think, n) ELSE u.think,
     text   |-> IF l.text THEN Append(u.text, n) ELSE u.text,
     tools  |-> MergeTool(u.tools, l),
     finish |-> IF l.finish # "" THEN l.finish ELSE u.finish,
     usage  |-> IF l.usage # 0 THEN l.usage ELSE u.usage,
     made   |-> u.made \o Pieces(l, n),
     lines  |-> n, fallback |-> u.fallback,
     late   |-> u.late \/ (l.think /\ (u.text # <<>> \/ (l.text /\ req.prov # "ta3")))]

TakeLine == /\ pc = "lines" /\ queue = <<>>
            /\ up.lines < MaxLines /\ (seen.restarted => up.lines < MaxAgain)
            /\ \E l \in Lines :
                 /\ l.tool = "args" => up.tools # <<>>
                 /\ up' = Absorb(up, l)
                 /\ LET new == Pieces(l, up.lines + 1) IN
                    IF req.stream /\ new # <<>>
                    THEN queue' = Release(released) \o new /\ released' = TRUE
                    ELSE UNCHANGED <<queue, released>>
            /\ UNCHANGED <<req, pc, model, asm, http, json, Budgets, log, seen>>

(* The watchdog of the TA+3 provider ends a call that is silent. *)
Silence == /\ pc = "lines" /\ queue = <<>> /\ req.prov = "ta3"
           /\ up' = [up EXCEPT !.finish = IF up.think # <<>> /\ up.text = <<>> /\ up.tools = <<>>
                                          THEN "thinking_timeout" ELSE "timeout"]
           /\ pc' = "ending"
           /\ UNCHANGED <<req, model, released, queue, asm, http, json, Budgets, log, seen>>

EndOfLines == /\ pc = "lines" /\ queue = <<>>
              /\ pc' = "ending"
              /\ UNCHANGED <<req, model, up, released, queue, asm, http, json, Budgets, log, seen>>

(* variant: no token billed means empty, whatever was handed out before *)
NothingMadeByUsage == up.usage = 0

(* The verdict on an empty answer comes before its first frame or never. *)
NothingMade == ~released /\ IsEmpty(up)

(* The done event of a streamed call. *)
Done == /\ pc = "ending" /\ req.stream
        /\ IF NothingMade
           THEN /\ Raise(EmptyAnswer)
                /\ seen' = [seen EXCEPT !.empty = @ + 1]
                /\ UNCHANGED <<queue, released>>
           ELSE /\ queue' = Release(released) \o DoneFrames(up, req.wantUsage)
                /\ released' = TRUE
                /\ pc' = "last"
                /\ UNCHANGED <<asm, http, json, Budgets, log, seen>>
        /\ UNCHANGED <<req, model, up>>

(* A frame reaches the client; the first one sends the headers. *)
Forward == /\ queue # <<>>
           /\ asm' = Feed(req.proto, asm, Head(queue))
           /\ queue' = Tail(queue)
           /\ http' = 200
           /\ UNCHANGED <<req, pc, model, up, released, json, Budgets, log, seen>>

(* variant: the terminal event has to be there already *)
CloseOnTerminal == /\ pc = "last" /\ queue = <<>> /\ asm.over # ""
                   /\ asm' = asm
                   /\ log' = Append(log, "done")
                   /\ pc' = "over"
                   /\ UNCHANGED <<req, model, up, released, queue, http, json, Budgets, seen>>

Close == /\ pc = "last" /\ queue = <<>>
         /\ asm' = Finish(req.proto, asm)
         /\ log' = Append(log, "done")
         /\ pc' = "over"
         /\ UNCHANGED <<req, model, up, released, queue, http, json, Budgets, seen>>

(* The client goes away: the generator is cancelled and logs nothing. *)
ClientGone == /\ http = 200 /\ req.stream /\ pc \in {"lines", "ending", "last"}
              /\ pc' = "gone"
              /\ UNCHANGED <<req, model, up, released, queue, asm, http, json, Budgets, log, seen>>

-----------------------------------------------------------------------------
(* Without streaming the lines are collected first; the lines of a JSON    *)
(* document are its fields.                                                *)

Collected == /\ pc = "ending" /\ ~req.stream
             /\ IF IsEmpty(up)
                THEN /\ Raise(EmptyAnswer)
                     /\ seen' = [seen EXCEPT !.empty = @ + 1]
                ELSE /\ json' = <<JsonAnswer(req.proto, up)>>
                     /\ http' = 200 /\ log' = Append(log, "done") /\ pc' = "over"
                     /\ UNCHANGED <<asm, Budgets, seen>>
             /\ UNCHANGED <<req, model, up, released, queue>>

Next == \/ Check \/ Ensure \/ Refresh \/ CatalogueChanges
        \/ Call \/ Fallback \/ Refused \/ Broken \/ TakeLine \/ Silence \/ EndOfLines
        \/ Done \/ Forward \/ Close \/ ClientGone \/ Collected

Spec == Init /\ [][Next]_vars

(* What goes on in a request, but for the catalogue and the client's       *)
(* leaving; the read deadlines of the HTTP clients end a silent upstream.  *)
Progress == \/ Check \/ Ensure \/ Refresh \/ Call \/ Fallback \/ Refused \/ Broken
            \/ TakeLine \/ Silence \/ EndOfLines \/ Done \/ Forward \/ Close \/ Collected

FairSpec == Spec /\ WF_vars(Progress)

-----------------------------------------------------------------------------
(* The pieces of text a client has read, and those of a sequence of frames *)
IsPiece(fr) == fr.f \in {"think", "text"}
ReadPiece(e) == e.e \in {"think", "text"} \/ (e.e = "delta" /\ asm.blocks[e.i].kind # "tool")

PiecesRead == Kept(Data(asm.ev), {k \in DOMAIN asm.ev : ReadPiece(asm.ev[k])})
PiecesOf(frames) == Kept(Data(frames), {k \in DOMAIN frames : IsPiece(frames[k])})

Answered == log = <<"done">>

UpType == [think : Seq(Nat), text : Seq(Nat), tools : Seq([name : {"n", ""}, args : BOOLEAN]),
           finish : FinishReasons, usage : {0, 1}, made : Seq([f : {"think", "text"}, d : Nat]),
           lines : Nat, late : BOOLEAN, fallback : BOOLEAN]

SeenType == [calls : Nat, empty : Nat, rejected : Nat, restarted : BOOLEAN]

TypeOK == /\ req \in Requests /\ model \in Models(req.prov)
          /\ pc \in {"check", "ensure", "call", "lines", "ending", "last", "refresh", "over", "gone"}
          /\ released \in BOOLEAN /\ refreshed \in BOOLEAN
          /\ empties \in 0 .. MaxEmpty
          /\ http \in {0, 200, 400, 401, 404, 429, 500, 502, 503, 504}
          /\ up \in UpType /\ up.lines <= MaxLines
          /\ seen \in SeenType

(* A call is repeated only while the headers of the response are not sent: *)
(* the docstring of _sse_with_retry.  It is not so: a stream that breaks   *)
(* with the digits 401 in the text of the error is refreshed and repeated. *)
NothingBeforeRetry == pc \in {"call", "refresh"} => asm.ev = <<>> /\ queue = <<>> /\ http = 0

(* What remains of it: an empty answer is repeated, and a refusal          *)
(* refreshed, only while the client has neither a status nor a byte, but   *)
(* for a stream that a break already made begin again.                     *)
RetryUnread ==
    pc \in {"call", "refresh"} =>
      /\ queue = <<>>
      /\ seen.restarted \/ (asm.ev = <<>> /\ http = 0)
      /\ seen.restarted => refreshed /\ req.stream /\ json = <<>>

(* Whatever was retried on the way, the client of a stream reads each      *)
(* piece of the last call once, in the order the upstream sent them, and   *)
(* no piece of an earlier call, unless a break made the stream begin       *)
(* again: then it has read some pieces of another call before.             *)
Delivered ==
    req.stream =>
      LET told == PiecesRead \o PiecesOf(queue)
          made == PiecesOf(up.made)
      IN  IF seen.restarted THEN \E n \in 0 .. Len(told) : SubSeq(told, n + 1, Len(told)) = made
          ELSE told = made

(* The items of a typed stream: the first event starts it, an item takes   *)
(* the next index, is told of only while it is open, and is closed before  *)
(* the one event that concludes the stream.  An answer without any item is *)
(* concluded without having been started.                                  *)
Times(ev, e, i, k) == Cardinality({j \in 1 .. k : ev[j].e = e /\ ev[j].i = i})
OpenAt(ev, i, k)   == Times(ev, "open", i, k) = Times(ev, "close", i, k) + 1
WellBracketed ==
    req.proto # "chat" =>
      \A k \in DOMAIN asm.ev :
        LET e == asm.ev[k] IN
        /\ e.e = "start" <=> (k = 1 /\ e.e # "completed")
        /\ e.e = "open" => /\ ~OpenAt(asm.ev, e.i, k - 1)
                           /\ \A i \in 1 .. e.i - 1 : Times(asm.ev, "open", i, k - 1) > 0
        /\ e.e = "close" => OpenAt(asm.ev, e.i, k - 1)
        /\ (e.e = "delta" /\ ~(req.proto = "responses" /\ (up.late \/ seen.restarted))) => OpenAt(asm.ev, e.i, k - 1)
        /\ e.e \in {"completed", "failed"} => k = Len(asm.ev)
        /\ e.e = "completed" => \A i \in DOMAIN asm.blocks : ~OpenAt(asm.ev, i, k)

(* What the client of a stream reads, whatever was retried.                *)
StreamTrue == Delivered /\ WellBracketed

(* A streamed answer and one in a single document tell the same: the items *)
(* a client puts together from the events, the reason for the end and the  *)
(* tokens are those that chat_response_to_... makes of the same upstream   *)
(* answer.  A call of a tool without a name is only in the document,       *)
(* reasoning that follows text may split or reorder the items, a stream    *)
(* that began again holds more, and of an answer that was cut off as an    *)
(* Anthropic upstream says it (TruncationTold) only the stream tells so.   *)
HasName(it) == it.kind # "tool" \/ it.buf.name # ""
StreamMatchesJson ==
    (req.stream /\ req.proto # "chat" /\ Answered) =>
      LET whole == JsonAnswer(req.proto, up)
          last  == asm.ev[Len(asm.ev)]
      IN  /\ last.e = "completed" /\ last.d = whole.usage
          /\ up.finish # "max_tokens" => last.i = whole.end
          /\ ~up.late /\ ~seen.restarted =>
               [i \in DOMAIN asm.blocks |-> Item(asm.blocks[i].kind, asm.blocks[i].buf)]
                 = Kept(Items(up), {k \in DOMAIN Items(up) : HasName(Items(up)[k])})

(* An answer told to be done is never empty: it has output or was billed.  *)
NoFalseSuccess == Answered => ~IsEmpty(up)

(* An error that comes before the first frame has its own status and no    *)
(* stream, and each request leaves one row in the log: chat_done exactly   *)
(* if the client got the whole answer, chat_error otherwise.               *)
OneOutcome ==
    pc = "over" =>
      /\ Len(log) = 1
      /\ http # 200 => ~Answered /\ asm.ev = <<>> /\ json = <<>>
      /\ Answered <=> \/ json # <<>>
                      \/ asm.ev # <<>> /\ asm.ev[Len(asm.ev)].e \in {"completed", "DONE"}

(* Neither kind of retry uses up or renews the other's budget: an empty    *)
(* answer is given up only after MaxEmpty retries, a 401 of TA+3 only      *)
(* after a refresh and a second 401, and the calls are bounded; without    *)
(* streaming a refresh starts the retries of empty answers again.          *)
BudgetsApart ==
    /\ log = <<"empty">> => IF req.stream THEN seen.empty = MaxEmpty + 1
                            ELSE seen.empty \in MaxEmpty + 1 .. 2 * MaxEmpty + 1
    /\ (pc = "over" /\ http = 401 /\ req.prov = "ta3") => seen.rejected = 2
    /\ req.stream => seen.calls <= MaxEmpty + 2
    /\ ~req.stream => seen.calls <= (IF req.prov = "custom" THEN 2 ELSE 1) * 2 * (MaxEmpty + 1)

(* What holds of every request at all times: a success has output, the log *)
(* tells how the request ended, and the budgets are kept apart.            *)
AnswerInv == TypeOK /\ NoFalseSuccess /\ OneOutcome /\ BudgetsApart

(* An answer the upstream cut off at its limit is told to be cut: a        *)
(* comment of oai_adapter says the reasons of Anthropic are normalised.    *)
TruncationTold ==
    (Answered /\ OpenAIFinish(up.finish) = "length") =>
      LET end == IF req.stream THEN asm.ev[Len(asm.ev)].i ELSE json[1].end
      IN  /\ req.proto = "responses" => end = "incomplete"
          /\ req.proto = "anthropic" => end = "max_tokens"

(* A typed stream begins with the event that announces the message.        *)
StartComesFirst == (req.proto # "chat" /\ asm.ev # <<>>) => asm.ev[1].e = "start"

(* Every request ends, unless its client leaves. *)
RequestEnds == <>(pc \in {"over", "gone"})
=============================================================================
