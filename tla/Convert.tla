------------------------------ MODULE Convert ------------------------------
(***************************************************************************)
(* What an agent's request becomes on its way to an upstream: the three    *)
(* protocols are parsed into one list of messages (protocol_adapter.py,    *)
(* oai_adapter.py), which each upstream turns into its own (WorkBuddy with *)
(* the repair of ToolRepair, TA+3 under the names of its own tools, custom *)
(* providers as it is), and the tool calls of the answer are given back    *)
(* under the names the agent used (tool_disguise.py, ta3.py).              *)
(*                                                                         *)
(* A request is a sequence of atoms, one for each piece of content; glue   *)
(* says that the piece is in one message with the piece before it.  The    *)
(* text of a message is the sequence of the positions of its pieces.       *)
(***************************************************************************)
EXTENDS ToolRepair, FiniteSets

CONSTANTS Inputs,      \* requests: [proto, wire, grows, tools, mode, signals, forced]
          Upstreams,   \* upstreams: [kind, family, intl, anthropic, thinks]
          Usual, Rare, \* kinds of pieces an agent may add to a request without any
          MaxPieces,   \* bound: pieces of a request,
          MaxRare,     \* and of one that has a rare piece
          FreshIds     \* the id that is made up for each piece that has none

Kinds == {"user", "say", "think", "system", "image", "call1", "call2", "nameless", "noid",
          "res1", "res2", "void1", "stray"}

SignalType == [thinking : {"", "enabled", "disabled"}, budget : Int, output : STRING,
               effort : STRING, reasoning : STRING, enable : {"", "on", "off"}]

InputType == [proto : {"chat", "anthropic", "responses"}, wire : Seq([k : Kinds, glue : BOOLEAN]),
              grows : BOOLEAN, tools : Seq(STRING), mode : {"hybrid", "strict", "passthrough"},
              signals : SignalType, forced : STRING]

UpstreamType == [kind : {"wb", "ta3", "custom"}, family : STRING, intl : BOOLEAN,
                 anthropic : BOOLEAN, thinks : BOOLEAN]

VARIABLES pc, in, up, chat, ask, body, sent, reply

vars == <<pc, in, up, chat, ask, body, sent, reply>>

Unavailable == -1      \* the text a historical call without a tool is turned into
Neutral     == -2      \* the text that replaces an agent's system prompt
Console     == -3      \* the system prompt that is put first in the international realm

-----------------------------------------------------------------------------
(* Pieces of a request. *)

Calls   == [call1 |-> [id |-> "c1", name |-> "Grep"], call2 |-> [id |-> "c2", name |-> "Edit"],
            nameless |-> [id |-> "c2", name |-> ""], noid |-> [id |-> "", name |-> "Grep"]]
Results == [res1 |-> "c1", res2 |-> "c2", void1 |-> "c1", stray |-> ""]

IsCall(a)   == a.k \in DOMAIN Calls
IsResult(a) == a.k \in DOMAIN Results

Side(proto, a) == CASE IsCall(a) \/ a.k \in {"say", "think"} -> "assistant"
                    [] IsResult(a) -> IF proto = "anthropic" THEN "user" ELSE "tool"
                    [] a.k \in {"user", "image"} -> "user"
                    [] a.k = "system" -> "system"

(* A piece may be in one message with the one before it; so it is in every *)
(* request.                                                                *)
MayGlue(proto, before, a) == /\ Side(proto, before) = Side(proto, a)
                             /\ proto # "responses" /\ a.k # "system" /\ ~(proto = "chat" /\ IsResult(a))

Glued(proto, w) == \A i \in DOMAIN w : w[i].glue => i > 1 /\ MayGlue(proto, w[i - 1], w[i])

ASSUME ConvertAssumption ==
    /\ MaxPieces \in Nat /\ MaxRare \in 0 .. MaxPieces
    /\ Usual \subseteq Kinds /\ Rare \subseteq Kinds
    /\ Inputs \subseteq InputType /\ \A i \in Inputs : Len(i.wire) <= MaxPieces /\ Glued(i.proto, i.wire)
    /\ Upstreams \subseteq UpstreamType
    /\ FreshIds \in Seq(STRING \ {"", "c1", "c2"}) /\ Len(FreshIds) >= MaxPieces

(* _clamp_responses_call_id, _ensure_tool_call_id: a missing id is made    *)
(* up, for a call and for a result alike; Chat keeps the empty id.         *)
IdOf(proto, id, i) == IF id = "" /\ proto # "chat" THEN FreshIds[i] ELSE id

CallOf(proto, w, i) == [Calls[w[i].k] EXCEPT !.id = IdOf(proto, @, i)]

ResultOf(proto, w, i) == [Message("tool") EXCEPT !.for = IdOf(proto, Results[w[i].k], i),
                                                 !.text = IF w[i].k = "void1" THEN <<>> ELSE <<i>>]

(* The message of the pieces a .. b, which are of one side. *)
Pick(w, a, b, Test(_)) == Those([k \in 1 .. b - a + 1 |-> a + k - 1],
                                {k \in 1 .. b - a + 1 : Test(w[a + k - 1])})

Grouped(proto, role, w, a, b) ==
    LET calls == Pick(w, a, b, IsCall) IN
    [Message(role) EXCEPT !.text  = Pick(w, a, b, LAMBDA x : x.k \in {"user", "say", "system"}),
                          !.img   = \E i \in a .. b : w[i].k = "image",
                          !.think = Pick(w, a, b, LAMBDA x : x.k = "think"),
                          !.calls = [k \in DOMAIN calls |-> CallOf(proto, w, calls[k])]]

GroupEnd(w, a) == CHOOSE b \in a .. Len(w) : /\ \A i \in a + 1 .. b : w[i].glue
                                             /\ b = Len(w) \/ ~w[b + 1].glue

ByGroup(w, Op(_, _)) ==
    FlattenSeq([i \in DOMAIN w |-> IF w[i].glue THEN <<>> ELSE Op(i, GroupEnd(w, i))])

-----------------------------------------------------------------------------
(* The three parsers. *)

ParseChat(w) ==
    LET Op(a, b) == IF IsResult(w[a]) THEN << ResultOf("chat", w, a) >>
                    ELSE << Grouped("chat", Side("chat", w[a]), w, a, b) >>
    IN  ByGroup(w, Op)

(* The results of a user message come first; a system message inside the   *)
(* conversation becomes one of the user.                                   *)
ParseAnthropic(w) ==
    LET Op(a, b) ==
          LET results == Pick(w, a, b, IsResult)
              rest    == Grouped("anthropic", IF w[a].k = "system" /\ a = 1 THEN "system" ELSE "user", w, a, b)
          IN  IF Side("anthropic", w[a]) = "assistant"
              THEN << Grouped("anthropic", "assistant", w, a, b) >>
              ELSE [k \in DOMAIN results |-> ResultOf("anthropic", w, results[k])]
                   \o (IF NoText(rest) THEN <<>> ELSE << rest >>)
    IN  ByGroup(w, Op)

(* variant: reasoning is dropped at every turn *)
FlushAssistantBare(s) ==
    [s EXCEPT !.cur = <<>>, !.think = <<>>,
              !.out = IF s.cur = <<>> \/ s.cur[1].calls = <<>> THEN @
                      ELSE Append(@, [s.cur[1] EXCEPT !.think = s.think])]

(* The items of the Responses protocol: calls are collected into one       *)
(* assistant until something else comes, reasoning waits for the next.     *)
FlushAssistant(s) ==
    IF s.cur = <<>> THEN s
    ELSE [s EXCEPT !.cur = <<>>, !.think = <<>>,
                   !.out = IF s.cur[1].calls = <<>> THEN @
                           ELSE Append(@, [s.cur[1] EXCEPT !.think = s.think])]

FlushResults(s) == [s EXCEPT !.out = @ \o s.pending, !.pending = <<>>]

ResponsesMessage(s, w, i) ==
    LET t == FlushResults(FlushAssistant(s))
        m == Grouped("responses", Side("responses", w[i]), w, i, i)
    IN  [t EXCEPT !.out = Append(@, IF m.role = "assistant" THEN [m EXCEPT !.think = t.think] ELSE m),
                  !.think = <<>>]

(* variant: the results of the batch before wait for the end of this one *)
ResponsesCallLate(s, w, i) ==
    LET cur == IF s.cur = <<>> THEN Message("assistant") ELSE s.cur[1]
    IN  [s EXCEPT !.cur = << IF Calls[w[i].k].name = "" THEN cur
                             ELSE [cur EXCEPT !.calls = Append(@, CallOf("responses", w, i))] >>]

ResponsesCall(s, w, i) ==
    LET t   == FlushResults(s)
        cur == IF t.cur = <<>> THEN Message("assistant") ELSE t.cur[1]
    IN  [t EXCEPT !.cur = << IF Calls[w[i].k].name = "" THEN cur
                             ELSE [cur EXCEPT !.calls = Append(@, CallOf("responses", w, i))] >>]

ResponsesOutput(s, w, i) ==
    [FlushResults(FlushAssistant(s)) EXCEPT !.pending = << ResultOf("responses", w, i) >>]

ResponsesStep(s, w, i) ==
    CASE w[i].k = "think" -> [s EXCEPT !.think = Append(@, i)]
      [] IsCall(w[i])     -> ResponsesCall(s, w, i)
      [] IsResult(w[i])   -> ResponsesOutput(s, w, i)
      [] OTHER            -> ResponsesMessage(s, w, i)

NothingYet == [out |-> <<>>, pending |-> <<>>, think |-> <<>>, cur |-> <<>>]

ParseResponses(w) ==
    LET s[n \in 0 .. Len(w)] == IF n = 0 THEN NothingYet ELSE ResponsesStep(s[n - 1], w, n)
    IN  FlushResults(FlushAssistant(s[Len(w)])).out

ParseMessages(proto, w) == CASE proto = "chat"      -> ParseChat(w)
                             [] proto = "anthropic" -> ParseAnthropic(w)
                             [] proto = "responses" -> ParseResponses(w)

-----------------------------------------------------------------------------
(* Signals about thinking.  The fields of a request: thinking with its     *)
(* budget, output_config, reasoning_effort and reasoning with an effort    *)
(* each, enable_thinking with its budget.                                  *)

NoSignals == [thinking |-> "", budget |-> 0, output |-> "", effort |-> "", reasoning |-> "", enable |-> ""]

NormalEffort(e) == IF e \in {"off", "disabled"} THEN "none" ELSE e

BudgetEffort(b) == CASE b <= 0     -> ""
                     [] b \in 1 .. 768 -> "minimal"
                     [] b > 768 /\ b <= 4096    -> "low"
                     [] b > 4096 /\ b <= 16384  -> "medium"
                     [] b > 16384 /\ b <= 28672 -> "high"
                     [] b > 28672 /\ b <= 80384 -> "xhigh"
                     [] b > 80384 -> "max"

Ask(on, effort) == [on |-> on, effort |-> effort]

(* The first field that names an effort. *)
Effort(s) == CASE s.output # "" -> s.output
               [] s.output = "" /\ s.effort # "" -> s.effort
               [] s.output = "" /\ s.effort = "" -> s.reasoning

(* variant: an effort that comes along overrides the explicit "disabled" *)
SignalsEffortFirst(s) ==
    CASE Effort(s) # ""            -> Ask(TRUE, NormalEffort(Effort(s)))
      [] s.thinking = "disabled"   -> Ask(TRUE, "none")
      [] s.thinking = "enabled"    -> Ask(TRUE, BudgetEffort(s.budget))
      [] s.enable = "off"          -> Ask(TRUE, "none")
      [] s.enable = "on"           -> Ask(TRUE, BudgetEffort(s.budget))
      [] OTHER                     -> Ask(FALSE, "")

Signals(s) ==
    CASE s.thinking = "disabled" -> Ask(TRUE, "none")
      [] s.thinking # "disabled" /\ Effort(s) # "" -> Ask(TRUE, NormalEffort(Effort(s)))
      [] Effort(s) = "" /\ s.thinking = "enabled"  -> Ask(TRUE, BudgetEffort(s.budget))
      [] Effort(s) = "" /\ s.thinking = "" /\ s.enable = "off" -> Ask(TRUE, "none")
      [] Effort(s) = "" /\ s.thinking = "" /\ s.enable = "on"  -> Ask(TRUE, BudgetEffort(s.budget))
      [] OTHER -> Ask(FALSE, "")

(* The effort the user fixed for the model in the application wins. *)
Forced(a, forced) == IF forced \in {"", "passthrough"} THEN a ELSE Ask(TRUE, forced)

-----------------------------------------------------------------------------
(* What is sent about thinking: a switch and an effort, "" when absent.    *)

Sent(switch, effort) == [switch |-> switch, effort |-> effort]

OffWords == {"none", "off", "disabled"}

WbThinking(u, a) ==
    CASE u.family # "deepseek" ->
           Sent("", IF a.effort \in {"off", "disabled"} THEN "" ELSE a.effort)
      [] u.family = "deepseek" /\ a.effort \in OffWords -> Sent("disabled", "")
      [] u.family = "deepseek" /\ a.effort \notin OffWords ->
           IF a.on THEN Sent("enabled", a.effort) ELSE Sent("", "")

KimiEffort(e) == CASE e \in {"low", "medium"} -> "low"
                   [] e = "high"              -> "high"
                   [] e \in {"xhigh", "max"}  -> "max"
                   [] OTHER                   -> "low"

ThinkOpenAI(effort) == IF effort = "none" THEN Sent("disabled", "") ELSE Sent("enabled", effort)

ThinkAnthropic(u, effort) ==
    CASE effort = "none" -> Sent("disabled", "")
      [] effort # "none" /\ u.family = "kimi" -> Sent("", KimiEffort(effort))
      [] effort # "none" /\ u.family # "kimi" ->
           Sent("enabled", IF effort \in {"low", "medium", "high"} THEN effort ELSE "low")

Ta3Thinking(u, a) ==
    LET effort == IF a.effort = "" THEN "none" ELSE a.effort
    IN  CASE ~(a.on /\ u.thinks) -> Sent("", "")
          [] a.on /\ u.thinks -> IF u.anthropic THEN ThinkAnthropic(u, effort) ELSE ThinkOpenAI(effort)

CustomThinking(a) == Sent("", a.effort)

Thinking(u, a) == CASE u.kind = "wb"     -> WbThinking(u, a)
                    [] u.kind = "ta3"    -> Ta3Thinking(u, a)
                    [] u.kind = "custom" -> CustomThinking(a)

-----------------------------------------------------------------------------
(* The WorkBuddy body.  rc tells what reasoning_content an assistant has:  *)
(* "none", "blank" for one that was filled in, "own" for its own.          *)

HasTrace(ms) == \E i \in DOMAIN ms : ms[i].think # <<>>

Reasoned(m, rc) == [role |-> m.role, text |-> m.text, img |-> m.img, think |-> m.think,
                    calls |-> m.calls, for |-> m.for, rc |-> rc]

(* variant: only the turns with tool calls are filled in *)
BackfillToolTurns(u, ms, enabled) ==
    [i \in DOMAIN ms |-> Reasoned(ms[i], CASE ms[i].think # <<>> -> "own"
                                           [] ms[i].think = <<>> /\ ms[i].calls # <<>> -> "blank"
                                           [] OTHER -> "none")]

Backfill(u, ms, enabled) ==
    LET Fills(m) == /\ m.role = "assistant"
                    /\ \/ u.family = "deepseek" /\ (enabled \/ HasTrace(ms))
                       \/ u.family = "kimi" /\ m.calls # <<>>
        Rc(m)    == CASE m.think # <<>> -> "own"
                      [] m.think = <<>> /\ Fills(m)  -> "blank"
                      [] m.think = <<>> /\ ~Fills(m) -> "none"
    IN  [i \in DOMAIN ms |-> Reasoned(ms[i], Rc(ms[i]))]

(* A system piece stands for an agent's own prompt, of its pattern or too  *)
(* long; any other system prompt would keep its text.                      *)
Neutralized(ms) ==
    [i \in DOMAIN ms |-> IF ms[i].role = "system" /\ ms[i].text # <<>>
                         THEN [ms[i] EXCEPT !.text = <<Neutral>>] ELSE ms[i]]

SystemFirst(u, ms) ==
    IF u.intl /\ ms # <<>> /\ ms[1].role # "system"
    THEN << Reasoned([Message("system") EXCEPT !.text = <<Console>>], "none") >> \o ms ELSE ms

(* A custom provider gets the messages as they were parsed. *)
CustomBody(ms) == ms

WbBody(u, ms, enabled) == SystemFirst(u, Neutralized(Backfill(u, Repair(ms), enabled)))

-----------------------------------------------------------------------------
(* The names of tools at the TA+3 gateway: those of an agent's tools that  *)
(* have a counterpart, and how the keys of their arguments are called.     *)

ToTa3 == [Grep |-> "Search", search |-> "Search", Read |-> "Read", SearchReplace |-> "Edit",
          websearch |-> "WebSearch", subagent |-> "SubAgent", spawn_subagent |-> "SubAgent"]

Dropped == ""          \* what a key is called that has no counterpart and is left out

ArgsToTa3 == [Grep |-> [pattern |-> "query", path |-> "path"], search |-> [pattern |-> "query"],
              Read |-> [file_path |-> "filepath"],
              SearchReplace |-> [file_path |-> "filepath", old_str |-> "oldString", new_str |-> "newString"],
              subagent |-> [task_description |-> "prompt", task_title |-> "description"],
              spawn_subagent |-> [task_description |-> "prompt", task_title |-> "description",
                                  acceptance_criteria |-> Dropped, explore |-> Dropped]]

ArgsFromTa3 == [Search |-> [query |-> "pattern"], Read |-> [filepath |-> "path"],
                Edit |-> [filepath |-> "path", oldString |-> "old_text", newString |-> "new_text",
                          replaceAll |-> "replace_all"],
                WebSearch |-> [searchEngine |-> "engine", maxResults |-> "max_results"],
                SubAgent |-> [prompt |-> "task_description", description |-> "task_title",
                              subagent_type |-> Dropped]]

SpawnForcedArgs == {"explore"}

NativeKeys == [Search |-> {"query", "path"}, Read |-> {"filepath"},
               Edit |-> {"filepath", "oldString", "newString", "replaceAll"},
               WebSearch |-> {"query", "searchEngine"},
               SubAgent |-> {"prompt", "description", "subagent_type"}]

(* The keys the model may give for a tool it was told of. *)
KeysOf(name) == IF name \in DOMAIN NativeKeys THEN NativeKeys[name] ELSE {"input"}

Through(f, k) == IF k \in DOMAIN f THEN f[k] ELSE k

Renaming(f, keys) == {Through(f, k) : k \in keys} \ {Dropped}

Reversed(f) == [v \in {f[k] : k \in DOMAIN f} \ {Dropped} |-> CHOOSE k \in DOMAIN f : f[k] = v]

(* f with the value v for k, and f with what g has in addition. *)
With(f, k, v) == [x \in DOMAIN f \cup {k} |-> IF x = k THEN v ELSE f[x]]
Over(f, g)    == [x \in DOMAIN f \cup DOMAIN g |-> IF x \in DOMAIN f THEN f[x] ELSE g[x]]

(* variant: the last of several tools with one counterpart is given back *)
DeclareLast(ctx, t, mode) ==
    CASE t \notin DOMAIN ToTa3 ->
           IF mode = "strict" THEN ctx
           ELSE [ctx EXCEPT !.out = Append(@, t), !.pass = @ \cup {t}]
      [] t \in DOMAIN ToTa3 ->
           [ctx EXCEPT !.out = IF ToTa3[t] \in DOMAIN ctx.restore THEN @ ELSE Append(@, ToTa3[t]),
                       !.restore = With(@, ToTa3[t], t)]

(* build_disguise_context: the first of several tools with one counterpart *)
(* takes it; one without is passed through, or dropped in strict mode.     *)
Declare(ctx, t, mode) ==
    CASE t \notin DOMAIN ToTa3 ->
           IF mode = "strict" THEN ctx
           ELSE [ctx EXCEPT !.out = Append(@, t), !.pass = @ \cup {t}]
      [] t \in DOMAIN ToTa3 /\ ToTa3[t] \in DOMAIN ctx.restore -> ctx
      [] t \in DOMAIN ToTa3 /\ ToTa3[t] \notin DOMAIN ctx.restore ->
           LET a   == ToTa3[t]
               old == IF a \in DOMAIN ctx.from THEN ctx.from[a] ELSE << >>
           IN  [ctx EXCEPT !.out = Append(@, a),
                           !.restore = With(@, a, t),
                           !.from = IF t \in DOMAIN ArgsToTa3
                                    THEN With(@, a, Over(Reversed(ArgsToTa3[t]), old)) ELSE @]

NoContext == [out |-> <<>>, pass |-> {}, restore |-> << >>, from |-> ArgsFromTa3]

Context(tools, mode) ==
    LET ctx[n \in 0 .. Len(tools)] ==
          IF n = 0 THEN NoContext ELSE Declare(ctx[n - 1], tools[n], mode)
    IN  IF mode = "passthrough"
        THEN [NoContext EXCEPT !.out = tools, !.pass = {tools[i] : i \in DOMAIN tools}]
        ELSE ctx[Len(tools)]

Known(name, ctx, mode)   == mode = "passthrough" \/ name \in DOMAIN ToTa3 \cup ctx.pass
Disguise(name, mode)     == IF mode = "passthrough" THEN name ELSE Through(ToTa3, name)
DisguiseKeys(name, keys, mode) ==
    IF mode # "passthrough" /\ name \in DOMAIN ToTa3 \cap DOMAIN ArgsToTa3
    THEN Renaming(ArgsToTa3[name], keys) ELSE keys

(* variant: a name that is passed through is looked up like the others *)
RestoreNameAlways(name, ctx, mode) ==
    IF mode = "passthrough" THEN name
    ELSE IF name \in DOMAIN ctx.restore THEN ctx.restore[name]
    ELSE IF name = "Edit" THEN "editor_apply_diff" ELSE name

RestoreName(name, ctx, mode) ==
    IF mode = "passthrough" \/ name \in ctx.pass \/ name \notin DOMAIN ctx.restore THEN name
    ELSE ctx.restore[name]

(* A sub-agent is told to explore whatever the model asks for. *)
RestoreKeys(name, keys, ctx, mode) ==
    IF mode = "passthrough" \/ name \notin DOMAIN ctx.from THEN keys
    ELSE Renaming(ctx.from[name], keys) \cup (IF name = "SubAgent" THEN SpawnForcedArgs ELSE {})

(* A historical call of a tool that is not there any more becomes text; in *)
(* the OpenAI format the other calls of its message go with it.  Results   *)
(* stay as they are.                                                       *)
Renamed(calls, mode) == [k \in DOMAIN calls |-> [calls[k] EXCEPT !.name = Disguise(@, mode)]]
Numbered(calls)      == [k \in DOMAIN calls |-> [calls[k] EXCEPT !.id = IF @ = "" THEN FreshIds[k] ELSE @]]

Ta3OpenAI(m, ctx, mode) ==
    CASE m.role # "assistant" -> m
      [] m.role = "assistant" /\ m.calls = <<>> -> [m EXCEPT !.think = <<>>, !.img = FALSE]
      [] m.role = "assistant" /\ m.calls # <<>> ->
           IF \A k \in DOMAIN m.calls : Known(m.calls[k].name, ctx, mode)
           THEN [m EXCEPT !.calls = Numbered(Renamed(@, mode)), !.img = FALSE]
           ELSE [m EXCEPT !.calls = <<>>, !.text = Append(@, Unavailable), !.img = FALSE]

Ta3Anthropic(u, m, ctx, mode) ==
    IF m.role # "assistant" THEN m
    ELSE LET known == {k \in DOMAIN m.calls : Known(m.calls[k].name, ctx, mode)}
             there == Those(m.calls, known)
             gone  == Those(m.calls, DOMAIN m.calls \ known)
         IN  [m EXCEPT !.calls = Renamed(there, mode), !.img = FALSE,
                       !.text  = @ \o [k \in DOMAIN gone |-> Unavailable],
                       !.think = IF m.calls # <<>> \/ u.family = "kimi" THEN @ ELSE <<>>]

(* The Anthropic format has the system prompts in a field of their own and *)
(* no empty assistants.                                                    *)
Ta3Body(u, ms, ctx, mode) ==
    IF ~u.anthropic THEN [i \in DOMAIN ms |-> Ta3OpenAI(ms[i], ctx, mode)]
    ELSE LET turned == [i \in DOMAIN ms |-> Ta3Anthropic(u, ms[i], ctx, mode)]
             Blank(m) == m.role = "assistant" /\ m.text = <<>> /\ m.think = <<>> /\ m.calls = <<>>
         IN  Those(turned, {i \in DOMAIN ms : turned[i].role = "system"})
             \o Those(turned, {i \in DOMAIN ms : turned[i].role # "system" /\ ~Blank(turned[i])})

-----------------------------------------------------------------------------
(* The steps. *)

Init == /\ in \in Inputs
        /\ pc = "wire"
        /\ up = [kind |-> "none"]
        /\ chat = <<>> /\ ask = Ask(FALSE, "")
        /\ body = <<>> /\ sent = Sent("", "")
        /\ reply = <<>>

(* The agent writes its request; it may not be a sensible one. *)
Add == /\ pc = "wire" /\ in.grows
       /\ \E k \in Usual \cup Rare, g \in BOOLEAN :
            LET w == Append(in.wire, [k |-> k, glue |-> g]) IN
            /\ g => in.wire # <<>> /\ MayGlue(in.proto, Last(in.wire), w[Len(w)])
            /\ Len(w) <= IF \E i \in DOMAIN w : w[i].k \in Rare THEN MaxRare ELSE MaxPieces
            /\ in' = [in EXCEPT !.wire = w]
       /\ UNCHANGED <<pc, up, chat, ask, body, sent, reply>>

(* request_to_chat_request and the fixed effort: an empty conversation is  *)
(* refused.  An empty array of input items is given a user's placeholder:  *)
(* it stands as a request of one user piece.                               *)
Parse == /\ pc = "wire"
         /\ chat' = ParseMessages(in.proto, in.wire)
         /\ ask' = Forced(Signals(in.signals), in.forced)
         /\ pc' = IF chat' = <<>> THEN "refused" ELSE "chat"
         /\ UNCHANGED <<in, up, body, sent, reply>>

Transform == /\ pc = "chat"
             /\ up' \in Upstreams
             /\ sent' = Thinking(up', ask)
             /\ body' = CASE up'.kind = "wb"     -> WbBody(up', chat, sent'.switch = "enabled")
                          [] up'.kind = "ta3"    -> Ta3Body(up', chat, Context(in.tools, in.mode), in.mode)
                          [] up'.kind = "custom" -> CustomBody(chat)
             /\ pc' = "sent"
             /\ UNCHANGED <<in, chat, ask, reply>>

(* The model calls one of the tools it was told of. *)
Reply == /\ pc = "sent" /\ up.kind = "ta3"
         /\ LET ctx == Context(in.tools, in.mode) IN
            \E i \in DOMAIN ctx.out :
              LET name == ctx.out[i] IN
              \E keys \in SUBSET KeysOf(name) :
                reply' = << [called |-> name, keys |-> keys,
                             name |-> RestoreName(name, ctx, in.mode),
                             args |-> RestoreKeys(name, keys, ctx, in.mode)] >>
         /\ pc' = "replied"
         /\ UNCHANGED <<in, up, chat, ask, body, sent>>

Next == Add \/ Parse \/ Transform \/ Reply

Spec == Init /\ [][Next]_vars

-----------------------------------------------------------------------------
(* Properties. *)

AllCalls(ms) == UNION {{ms[i].calls[k] : k \in DOMAIN ms[i].calls} : i \in DOMAIN ms}

(* The calls of each assistant are followed by their results, in their     *)
(* order, and there is no other result.                                    *)
Paired(ms) ==
    /\ \A h \in DOMAIN ms : \A k \in DOMAIN ms[h].calls :
         h + k \in DOMAIN ms /\ ms[h + k].role = "tool" /\ ms[h + k].for = ms[h].calls[k].id
    /\ \A i \in DOMAIN ms : ms[i].role = "tool" =>
         \E h \in 1 .. i - 1 : i - h <= Len(ms[h].calls)

(* No id is called twice, and results come after their call and before the *)
(* next calls.                                                             *)
InTime(ms) ==
    /\ \A h, g \in DOMAIN ms : \A k \in DOMAIN ms[h].calls, j \in DOMAIN ms[g].calls :
         ms[h].calls[k].id = ms[g].calls[j].id => h = g /\ k = j
    /\ \A i, h \in DOMAIN ms : (ms[i].role = "tool" /\ IsHead(ms[h]) /\ ms[i].for \in Ids(ms[h])) =>
         h < i /\ \A g \in h + 1 .. i - 1 : ~IsHead(ms[g])

(* What is sent to WorkBuddy is paired, whatever is missing, doubled, out  *)
(* of order or without a name in a history that is in time, and no call    *)
(* without a name or an id is sent in any history.                         *)
RepairedIsPaired ==
    (pc = "sent" /\ up.kind = "wb") =>
      /\ InTime(Merge(chat)) => Paired(body)
      /\ \A c \in AllCalls(body) : c.name # "" /\ c.id # ""

(* Repairing a repaired history that was in time changes nothing more: the *)
(* four passes leave nothing for each other to do.                         *)
RepairIsStable == (pc = "chat" /\ InTime(Merge(chat))) => Repair(Repair(chat)) = Repair(chat)

(* What the repair of a history does to it.                                *)
RepairHolds == RepairedIsPaired /\ RepairIsStable

(* Texts of the user and of the assistant reach every upstream once each   *)
(* and in their order, and so do images of the user; a result that is not  *)
(* empty reaches WorkBuddy unless its call has no name or another result.  *)
Spoken(ms, w) ==
    FlattenSeq([i \in DOMAIN ms |->
      IF ms[i].role \in {"user", "assistant"}
      THEN Those(ms[i].text, {k \in DOMAIN ms[i].text : ms[i].text[k] # Unavailable /\ w[ms[i].text[k]].k # "system"})
      ELSE <<>>])
Said(w) == Those([i \in DOMAIN w |-> i], {i \in DOMAIN w : w[i].k \in {"user", "say"}})
NothingLost ==
    pc = "sent" =>
      /\ Spoken(body, in.wire) = Said(in.wire)
      /\ (up.kind = "wb" /\ InTime(Merge(chat))) =>
           \A i \in DOMAIN chat : \A c \in AllCalls(chat) :
             (chat[i].role = "tool" /\ chat[i].for = c.id /\ c.id # "" /\ c.name # "" /\ ~NoText(chat[i])) =>
               \E j \in DOMAIN body : /\ body[j].role = "tool" /\ body[j].for = c.id
                                      /\ body[j].text # <<Placeholder>> /\ body[j].text # <<>>

(* A conversation whose calls are answered at once keeps its batches       *)
(* together in every protocol: no repair is needed for upstreams that get  *)
(* none.  The calls of a batch are in one message, or follow each other as *)
(* items of the Responses protocol.                                        *)
Answered(proto, w) ==
    LET batches == {b \in DOMAIN w : IsCall(w[b]) /\ (b = Len(w) \/ ~IsCall(w[b + 1]))}
        First(b) == CHOOSE a \in 1 .. b : (\A i \in a .. b : IsCall(w[i])) /\ (a = 1 \/ ~IsCall(w[a - 1]))
        Ids2(b)  == [k \in 1 .. b - First(b) + 1 |-> Calls[w[First(b) + k - 1].k].id]
    IN  /\ \A i \in DOMAIN w : w[i].k \notin {"nameless", "noid", "stray"}
        /\ \A i, j \in DOMAIN w : (IsCall(w[i]) /\ w[i].k = w[j].k) => i = j
        /\ \A i \in DOMAIN w : (IsCall(w[i]) /\ i > 1 /\ IsCall(w[i - 1])) => w[i].glue \/ proto = "responses"
        /\ \A b \in batches : \A k \in DOMAIN Ids2(b) :
             b + k \in DOMAIN w /\ IsResult(w[b + k]) /\ Results[w[b + k].k] = Ids2(b)[k]
        /\ \A i \in DOMAIN w : IsResult(w[i]) => \E b \in batches : i \in b + 1 .. b + Len(Ids2(b))
BatchesStay == (pc = "chat" /\ Answered(in.proto, in.wire)) => Paired(chat)

(* Reasoning that comes directly before the words or the calls of an       *)
(* assistant is handed on with that message; in the Responses protocol     *)
(* calls that are not answered yet would take it.                          *)
OpenCalls(w, i) == \E j \in 1 .. i - 1 : IsCall(w[j]) /\ \A k \in j + 1 .. i - 1 : w[k].k = "think"
ReasoningStays ==
    pc = "chat" =>
      \A i \in 1 .. Len(in.wire) - 1 :
        LET next == in.wire[i + 1] IN
        (/\ in.wire[i].k = "think"
         /\ ~(in.proto = "responses" /\ next.k = "say" /\ OpenCalls(in.wire, i))
         /\ next.k = "say" \/ (IsCall(next) /\ Calls[next.k].name # "")
         /\ next.glue \/ in.proto = "responses") =>
           \E j \in DOMAIN chat :
             /\ \E t \in DOMAIN chat[j].think : chat[j].think[t] = i
             /\ IF next.k = "say" THEN \E t \in DOMAIN chat[j].text : chat[j].text[t] = i + 1
                ELSE \E k \in DOMAIN chat[j].calls : chat[j].calls[k] = CallOf(in.proto, in.wire, i + 1)

(* A deepseek model gets reasoning from all assistants or from none, and   *)
(* from all if it is to think.                                             *)
AllReasonedOrNone ==
    (pc = "sent" /\ up.kind = "wb" /\ up.family = "deepseek") =>
      LET rcs == {body[i].rc : i \in {j \in DOMAIN body : body[j].role = "assistant"}}
      IN  ("none" \in rcs => rcs = {"none"} /\ sent.switch # "enabled")

(* An agent gets back the name of a tool it declared, and sending that     *)
(* call in the next request tells the model the name it used.  So it is    *)
(* with the keys: the agent sees its own keys for those its table lists,   *)
(* and the model sees all keys it gave again and no other, but for those   *)
(* that are restored for a tool of the application which the agent's table *)
(* does not list.                                                          *)
OwnTable(name, mode) ==
    IF mode # "passthrough" /\ name \in DOMAIN ToTa3 \cap DOMAIN ArgsToTa3 THEN ArgsToTa3[name] ELSE << >>

Listed(table) == {table[k] : k \in DOMAIN table}

Borrowed(called, table, mode) ==
    IF mode = "passthrough" \/ called \notin DOMAIN ArgsFromTa3 THEN {}
    ELSE DOMAIN ArgsFromTa3[called] \ Listed(table)

CallsComeBack ==
    pc = "replied" =>
      LET r     == reply[1]
          table == OwnTable(r.name, in.mode)
          again == DisguiseKeys(r.name, r.args, in.mode)
      IN  /\ \E i \in DOMAIN in.tools : in.tools[i] = r.name
          /\ Disguise(r.name, in.mode) = r.called
          /\ \A v \in r.keys \cap Listed(table) : \E k \in r.args \cap DOMAIN table : table[k] = v
          /\ r.keys \ Borrowed(r.called, table, in.mode) \subseteq again
          /\ again \cap KeysOf(r.called) \subseteq r.keys

(* An explicit "disabled" wins over every effort and reaches no upstream   *)
(* as thinking; an effort the agent names, in whichever of its fields,     *)
(* reaches WorkBuddy and custom providers unchanged; an agent that says    *)
(* nothing sends nothing; what the user fixed holds whatever the agent     *)
(* says, "none" being his way to switch thinking off (routes.py).          *)
ThinkingAsAsked ==
    pc = "sent" =>
      LET s == in.signals
          named == {s.output, s.effort, s.reasoning} \ {""}
          free == in.forced \in {"", "passthrough"}
          off == IF free THEN s.thinking = "disabled" ELSE in.forced = "none"
      IN  /\ off => sent.switch # "enabled" /\ sent.effort \in OffWords \cup {""}
          /\ (free /\ s = NoSignals) => sent = Sent("", "")
          /\ (free /\ s.thinking # "disabled" /\ named # {} /\ named \cap OffWords = {} /\ up.kind # "ta3") =>
               /\ sent.switch # "disabled" /\ sent.effort \in named
               /\ s.output # "" => sent.effort = s.output
          /\ (in.forced \notin OffWords /\ ~free /\ up.kind # "ta3") => sent.effort = in.forced

(* What is sent about thinking.                                            *)
ThinkingSent == ThinkingAsAsked /\ AllReasonedOrNone

-----------------------------------------------------------------------------
(* What comments and docstrings say and the code does not.                 *)

(* tool_repair: whatever goes in, calls are followed by all their results. *)
AnyHistoryPaired == pc = "chat" => Paired(Repair(chat))

(* tool_disguise: the names of the tools that are sent are unique.         *)
NamesUnique ==
    (pc = "sent" /\ up.kind = "ta3") =>
      LET out == Context(in.tools, in.mode).out
      IN  \A i, j \in DOMAIN out : out[i] = out[j] => i = j

(* tool_disguise: what is passed through comes back as it is.              *)
PassedThroughAsIs ==
    pc = "replied" /\ reply[1].called \in Context(in.tools, in.mode).pass =>
      reply[1].name = reply[1].called /\ reply[1].args = reply[1].keys

(* oai_adapter: thinking that is on without an effort stays on.            *)
OnStaysOn ==
    (pc = "sent" /\ in.forced = "" /\ in.signals.thinking = "enabled" /\ ask = Ask(TRUE, "")) =>
      sent.switch # "disabled"
=============================================================================
