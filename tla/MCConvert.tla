----------------------------- MODULE MCConvert -----------------------------
(***************************************************************************)
(* Instance of Convert for TLC: every request of up to MaxPieces pieces of *)
(* the usual kinds, joined into messages in every way and in the three     *)
(* protocols; every combination of the signals about thinking; every list  *)
(* of up to MaxTools tools in the three modes.                             *)
(***************************************************************************)
EXTENDS Convert

CONSTANT MaxTools

MCUsual == {"user", "say", "think", "call1", "call2", "nameless", "res1", "res2", "void1"}
MCRare  == {"image", "system", "noid", "stray"}

Request(proto, grows, tools, mode, signals, forced) ==
    [proto |-> proto, wire |-> IF grows THEN <<>> ELSE << [k |-> "user", glue |-> FALSE] >>, grows |-> grows,
     tools |-> tools, mode |-> mode, signals |-> signals, forced |-> forced]

Histories == {Request(p, TRUE, <<"Grep">>, "hybrid", NoSignals, "") : p \in {"chat", "anthropic", "responses"}}

Signs == [thinking : {"", "enabled", "disabled"}, budget : {0, 768, 769, 30000}, output : {"", "off", "high"},
          effort : {"", "none", "max"}, reasoning : {"", "medium"}, enable : {"", "on", "off"}]
Thoughts == {Request("chat", FALSE, <<>>, "hybrid", s, f) : s \in Signs, f \in {"", "none", "off", "low"}}

MCFreshIds == <<"f1", "f2", "f3", "f4", "f5", "f6">>

Names == {"Grep", "search", "Edit", "SearchReplace", "Read", "websearch", "subagent", "spawn_subagent",
          "apply_patch"}
Lists == {s \in UNION {[1 .. n -> Names] : n \in 0 .. MaxTools} : \A i, j \in DOMAIN s : s[i] = s[j] => i = j}
Tools == {Request("chat", FALSE, t, m, NoSignals, "") : t \in Lists, m \in {"hybrid", "strict", "passthrough"}}

MCInputs == Histories \cup Thoughts \cup Tools

Upstream(kind, family, intl, anthropic) ==
    [kind |-> kind, family |-> family, intl |-> intl, anthropic |-> anthropic, thinks |-> TRUE]
MCUpstreams == {Upstream("wb", "deepseek", FALSE, FALSE), Upstream("wb", "kimi", TRUE, FALSE),
                Upstream("ta3", "qwen", FALSE, FALSE), Upstream("ta3", "kimi", FALSE, TRUE),
                Upstream("custom", "other", FALSE, FALSE)}
=============================================================================
