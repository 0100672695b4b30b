-------------------------------- MODULE MCEval --------------------------------
EXTENDS EvalCli, TLC

-------------------------------------------------------------------------------
(* eval compare                                                              *)

MCGrids == {1, 10, 100}
MCCells == {Null, Num(0), Num(6), Num(15), Num(44), Num(-60), NaN, Infinite(1), Str(1)}
MCRows == [1 .. 1 -> MCCells]
          \cup {<<Num(0), Num(15)>>, <<Num(15), Num(6)>>, <<Num(6), Null>>, <<Num(44), NaN>>}
MCTables == {<<r>> : r \in MCRows} \cup {<<r, s>> : r, s \in [1 .. 1 -> MCCells \ {Num(6), Str(1)}]} \cup {<<>>}

MCCompareAsked ==
    [mode : MatchModes, tol : {0, 1, 20}, expected : MCTables \ {<<>>}, actual : MCTables,
     readable : {TRUE}]
    \cup [mode : {"set"}, tol : {0}, expected : {<<<<Null>>>>}, actual : {<<<<Null>>>>},
          readable : {FALSE}]

-------------------------------------------------------------------------------
(* eval run: the report                                                      *)

Envelope(fresh, status, causes, rank) ==
    [NoEnvelope EXCEPT !.fresh = fresh, !.status = status, !.causes = causes, !.verified = TRUE,
                       !.rank = rank]
Fresh == Envelope("true", "ok", {}, 1)
Late == Envelope("false", "high", {"late", "load"}, 2)
Other == Envelope("", "low", {}, 3)

Saying(result) == <<Piece("table", result)>>
SayingVerdict(e) == <<Piece("words", NoResult), Piece("verdict", Verdict(e))>>
Fenced(piece) == <<Piece("words", NoResult), Piece("fence", NoResult), Piece("newline", NoResult),
                   piece, Piece("fence", NoResult)>>
Words == <<Piece("braces", NoResult), Piece("words", NoResult), Piece("table", Table(1))>>

Invocation(ok, text, cost, hit) == [ok |-> ok, text |-> text, cost |-> cost, turns |-> cost, hit |-> hit]
Invocations ==
    {Invocation(TRUE, Saying(Table(1)), 2, TRUE), Invocation(TRUE, Saying(Table(1)), 1, FALSE),
     Invocation(TRUE, Fenced(Piece("table", Table(2))), 1, FALSE), Invocation(TRUE, Words, 1, FALSE),
     Invocation(TRUE, Saying(Table(1)), Absent, FALSE), Invocation(FALSE, <<>>, Absent, FALSE),
     Invocation(TRUE, SayingVerdict(Fresh), 2, TRUE)}

Golden(id, kind, tags) ==
    GoldenCase(id, kind, tags, IF kind = "verdict" THEN "fresh" ELSE "", [table |-> 1, field |-> "true"])
Sampled(case, invs) == [case |-> case, samples |-> invs]

ReportRequest(cases, samples, total, explicit) ==
    [model |-> "m", cases |-> cases, samples |-> samples, total |-> total, explicit |-> explicit]

MCReportAsked ==
    {ReportRequest(<<Sampled(Golden(1, k, {"a"}), s)>>, 2, t, FALSE) :
        k \in {"table", "verdict"}, s \in [1 .. 2 -> Invocations], t \in {1, 2}}
    \cup {ReportRequest(<<Sampled(Golden(1, "table", {"a"}), s), Sampled(Golden(i, "verdict", {}), t)>>,
                        1, 2, e) :
        s, t \in [1 .. 1 -> Invocations], i \in {1, 2}, e \in BOOLEAN}
    \cup {ReportRequest(<<Sampled(Golden(1, "table", {"a"}), s), Sampled(Golden(1, "table", {}), t)>>,
                        2, 2, FALSE) :
        s, t \in [1 .. 2 -> {inv \in Invocations : inv.cost # 1}]}

-------------------------------------------------------------------------------
(* eval gate                                                                 *)

\* A report from before repeated sampling has a verdict and no counts.
Legacy(id, tags, b) == [CaseResult(id, tags, 0, 0) EXCEPT !.pass = b]

OfCase(id, tags) == {CaseResult(id, tags, 3, p) : p \in {0, 2, 3}} \cup {Legacy(id, tags, b) : b \in BOOLEAN}
Reports(backends) ==
    {[backend |-> b, configs |-> <<aggregate("m", <<c, d>>)>>] :
        b \in backends, c \in OfCase(1, {"a"}), d \in OfCase(2, {"a", "b"})}
    \cup {[backend |-> b, configs |-> <<aggregate("m", <<c>>)>>] : b \in backends, c \in OfCase(2, {"b"})}
    \cup {[backend |-> b, configs |-> <<aggregate("n", <<c>>), aggregate("m", <<c>>)>>] :
             b \in backends, c \in OfCase(2, {"b"})}

\* Bindings of one name, and results of one case.
Doubled ==
    {[backend |-> DefaultBackend, configs |-> <<aggregate("m", <<c, d>>), aggregate("m", <<e>>)>>] :
        c \in OfCase(1, {"a"}), d \in OfCase(1, {"b"}), e \in OfCase(1, {"a"})}

MCGateAsked ==
    [baseline : Reports({DefaultBackend}), current : Reports({DefaultBackend}), tol : {0, 6},
     backend : {""}]
    \cup [baseline : Doubled, current : Doubled, tol : {6}, backend : {""}]
    \cup [baseline : {r \in Reports({DefaultBackend}) : Len(r.configs) = 2},
          current : {r \in Reports({"vercel"}) : Len(r.configs) = 2}, tol : {0}, backend : {"", "vercel"}]

-------------------------------------------------------------------------------
(* eval run --tag --sample; eval ablate                                      *)

Numbered(tags) == [i \in DOMAIN tags |-> [id |-> i, tags |-> tags[i]]]
MCSelectAsked ==
    [cases : {Numbered(t) : t \in UNION {[1 .. n -> {{}, {"a"}, {"a", "b"}}] : n \in 1 .. 4}},
     tags : {{}, {"b"}},
     sample : [form : {"count", "integer", "per-tag"}, n : {0, 1, 2}]
              \cup [form : {"percent", "fraction"}, n : {34, 100}] \cup {[form |-> "", n |-> 0]}]

Step(label) == [label |-> label, tier |-> "orchestrator"]
Points == [accuracy : {6, 9, 12}, cost : {1, 2}]
MCAblateAsked ==
    [ir : {<< <<Step("one"), Step("two")>> >>}, sweep : {<<"cheap", "strong">>, <<"strong", "orchestrator", "cheap">>},
     base_tier : {"strong"}, baseline : Points, tol : {0, 3},
     measured : {[p \in (1 .. 2) \X {"cheap", "orchestrator"} |->
                     IF p[1] = 1 THEN m ELSE IF p[2] = "cheap" THEN n ELSE o] : m, n, o \in Points}]

-------------------------------------------------------------------------------
(* eval monitor-report                                                       *)

MonitorSamples == [1 .. 3 -> {Invocation(TRUE, SayingVerdict(e), 1, FALSE) : e \in {Fresh, Late, Other}}]
MonitorRun(case, samples) == ReportRequest(<<Sampled(case, samples)>>, 3, 1, FALSE)
Expecting(field) == [Golden(1, "verdict", {}) EXCEPT !.expected.field = field]
MCMonitorAsked ==
    [manifest : [id : {1}, supported : {TRUE}, keywords : {{"late", "slow"}}, severity : {"", "high"}],
     clean : {MonitorRun(Expecting("true"), s) : s \in MonitorSamples},
     injected : {MonitorRun(Expecting("false"), s) : s \in MonitorSamples}]

-------------------------------------------------------------------------------
(* eval run: the binding                                                     *)

Mixed == [NoTiers EXCEPT !["strong"] = "big", !["cheap"] = "small", !["orchestrator"] = "mid"]
Partial == [Mixed EXCEPT !["cheap"] = ""]
Objects(cells) == [columns |-> <<"x", "y">>, rows |-> <<[is |-> "object", cells |-> cells]>>]
Output == {Objects([x |-> 1, y |-> 2]), Objects([x |-> 1])}

MCBindingAsked ==
    [file : {[given |-> FALSE, tiers |-> NoTiers], [given |-> TRUE, tiers |-> Mixed],
             [given |-> TRUE, tiers |-> Partial]},
     flags : {NoTiers, Partial, AllTiers("big")}, models : {<<"frontmatter">>, <<"big", "small">>},
     backend : Backends, maxTurns : {"", "5"}, settings : {"none", "there", "unreadable"},
     spec : [shape : {"ask", "setup", "none"}, requireTool : {{"query"}}],
     process : [exit : {"success", "error"}, out : Output, cost : {"1"}, turns : {"2"}]]

-------------------------------------------------------------------------------
(* eval compliance                                                           *)

Word(is) == [is |-> is, path |-> <<>>, quoted |-> FALSE]
PathWord(p) == [is |-> "path", path |-> p, quoted |-> FALSE]
InScope == <<"out", "a">>
OutOfScope == <<"src", "a">>

MCTraceEvents ==
    {Call("Bash", <<Word("warble blast-radius")>>, <<>>, ""),
     Call("Bash", <<Word("warble blast-radius"), Word(">"), PathWord(InScope)>>, <<>>, ""),
     Call("Bash", <<Word("wren"), Word(">"), PathWord(InScope)>>, <<>>, ""),
     Call("Bash", <<Word("wren")>>, <<>>, ""),
     Call("Bash", <<>>, <<>>, ""),
     Call("Write", <<>>, InScope, ""),
     Call("Write", <<>>, OutOfScope, ""),
     Call("Write", <<>>, <<>>, ""),
     Call("Task", <<>>, <<>>, "verify"),
     Call("publish", <<>>, InScope, ""),
     Event("approval", TRUE, FALSE, "", -1),
     Event("tool_result", FALSE, TRUE, "", 0),
     Event("tool_result", FALSE, FALSE, "block", -1),
     Event("tool_result", FALSE, FALSE, "", 10)}

MCComponents ==
    {IrComponentView(TRUE, Checks \ {"read_only_execution"}, <<"out">>, NoScope, "verify", "publish"),
     IrComponentView(TRUE, {"read_only_execution"}, NoScope, <<"out">>, "", ""),
     IrComponentView(TRUE, {"must_dry_run", "blast_radius_limit"}, <<".">>, NoScope, "", ""),
     IrComponentView(TRUE, {"attestation_gate"}, NoScope, NoScope, "verify", ""),
     IrComponentView(FALSE, {}, NoScope, NoScope, "", "")}

-------------------------------------------------------------------------------
(* eval verify-context, eval capture; eval run                               *)

MCFiles == {[dir |-> "models", ext |-> "yml"], [dir |-> ".claude", ext |-> "md"],
            [dir |-> "models", ext |-> "json"], [dir |-> "models", ext |-> "md"]}

MCConfigs ==
    {RunConfig("run", "claude-code-cli", FALSE, None, None, "agent dir", <<"m1", "m2">>, 1),
     RunConfig("run", "claude-agent-sdk", FALSE, "1", None, "ir", <<"m1">>, 2),
     RunConfig("run", "claude-agent-sdk", FALSE, None, "t", "ir", <<"m1">>, 1),
     RunConfig("run", "codex-local", FALSE, None, None, "ir", <<"m1">>, 1),
     RunConfig("ablate", "claude-code-cli", FALSE, None, None, "ir", <<"all strong", "one cheap">>, 1),
     RunConfig("run", "vercel", TRUE, None, None, "ir", <<"m1">>, 1)}

EvalSymmetry == Permutations(Workers) \cup Permutations(Tables)
===============================================================================
