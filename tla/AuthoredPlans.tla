------------------------------ MODULE AuthoredPlans ------------------------------
(* Profiles and hosts for HostPlans: one that fits, and those that differ from it.  *)
EXTENDS HostPlans

Asking(form, ir) == [form |-> form, ir |-> ir, out |-> Nothing, disk |-> "fine"]

Session(ir, host, entry) == Asking("session", ir) @@ [host |-> host, entry |-> entry, supply |-> {}]

\* What a session host declares that has all that a component requires, and no more.
ToolFor == [c \in Callable |-> IF c = "semantic_introspection" THEN "inspect" ELSE "query"]
Capabilities(n, composed) ==
    [c \in (n.requires \ (Models \cup {"llm:per_step_tier"})) \cup (IF n.renders THEN {"render_contract"} ELSE {}) |->
        CASE c \in Callable -> ToolFor[c] [] c = "artifact_write" /\ ~composed -> "save" [] OTHER -> Nothing]
Contract(n, composed) ==
    [HostContract(Capabilities(n, composed)) EXCEPT !.guards = n.guards, !.version = IF composed THEN "2" ELSE "1"]
Alone(ir, id) == Session(ir, Contract(Named(ir.nodes, id), FALSE), id)
Together(ir, id) ==
    Session(ir, ComposedHost([i \in Closure(ir.nodes, <<id>>).met |-> Contract(Named(ir.nodes, i), TRUE)]), id)

\* A vercel host, and the fragment that brings its tools.
Fragment(cs) ==
    [Link!ProviderFragment("p", [c \in cs |-> Link!CapabilityEntry("realize_via", FALSE, "s")],
                           [c \in cs |-> Link!ToolBindingSpec("bare", "", {ToolFor[c]})]) EXCEPT !.engine = "vercel"]
HostedHost(cs) ==
    [current |-> TRUE, guards |-> {"read_only_execution", "artifact_write", "row_limit", "surprise"},
     authority |-> [t \in {ToolFor[c] : c \in cs} |-> Authority("bare", {c \in cs : ToolFor[c] = t})]]
Hosted(ir) ==
    Asking("hosted", ir) @@ [host |-> HostedHost(Callable), target |-> "vercel:headless", providers |-> <<Fragment(Callable)>>]

AllForms(ir, id) == {Alone(ir, id), Together(ir, id), Hosted(ir)}

-------------------------------------------------------------------------------
(* Graphs of calls.                                                            *)

Calling(callees) == [i \in DOMAIN callees |-> ComponentCall("ask" \o ToString(i), callees[i])]
Component(id, callees) ==
    LET step == [Step("s") EXCEPT !.component_calls = Calling(callees)]
    IN  IF callees = <<>> THEN [Node(id, <<step>>) EXCEPT !.entrypoint = FALSE]
        ELSE [Node(id, <<step>>) EXCEPT !.entrypoint = FALSE, !.requires = @ \cup {"component_invocation"}]
Entry(id, callees) == [Component(id, callees) EXCEPT !.entrypoint = TRUE]

\* A chain of calls below p, which ends with a call of the last one's callees.
Chain(p, len, end) == [i \in 1 .. len |-> Component(p \o ToString(i), IF i = len THEN end ELSE <<p \o ToString(i + 1)>>)]
Below(roots, tail, detour, end) == roots \o Chain("n", tail, end) \o Chain("m", detour, <<"n1">>)
Graphs ==
    {Below(<<Entry("r", c)>>, tail, detour, <<>>) :
        c \in {<<"n1", "m1">>, <<"m1", "n1">>, <<"m1">>}, tail \in 6 .. 8, detour \in 1 .. 3}
    \cup {Below(<<Entry("r", <<"n1">>), Entry("q", <<"m1">>)>>, tail, detour, <<>>) : tail \in 6 .. 8, detour \in 1 .. 3}
    \cup {Below(<<Entry("r", <<"n1">>)>>, tail, 1, <<>>) : tail \in 1 .. 9}
    \cup {Below(<<Entry("r", <<"n1">>), Entry("q", c)>>, 2, 1, end) :
            c \in {<<"m1">>, <<"r", "m1">>}, end \in {<<"n1">>, <<"m1">>, <<"q">>, <<"gone">>, <<"n2">>}}
    \cup {<<Entry("r", <<"n1">>), Component("n1", <<>>), Component("n1", <<>>)>>}
ClosuresAsked == UNION {{Together(Ir(g), "r"), Hosted(Ir(g))} : g \in Graphs}

-------------------------------------------------------------------------------
(* Steps, and what they may do.                                                *)

First == {[Step("a") EXCEPT !.produces = p] : p \in {Nothing, "x"}}
Second ==
    {[Step("b") EXCEPT !.produces = p, !.consumes = c, !.when = w, !.conditional = w # Absent] :
        p \in {Nothing, "x", "y"}, c \in {{}, {"x"}, {"z"}},
        w \in {Absent, Present(When("on_failure", "a")), Present(When("on_failure", "b")), Present(When("on_flag", "a"))}}
Third ==
    {[Step("c") EXCEPT !.produces = p, !.consumes = c, !.when = w, !.conditional = w # Absent] :
        p \in {Nothing, "z"}, c \in {{}, {"x"}, {"y"}}, w \in {Absent, Present(When("on_failure", "b"))}}
Odd == {<<>>, <<Step("a"), Step("a")>>, <<[Step("a") EXCEPT !.exclusive = TRUE]>>, <<[Step("a") EXCEPT !.tier = "strong"]>>,
        <<[Step("a") EXCEPT !.conditional = TRUE]>>, <<[Step("a") EXCEPT !.when = Present(When("on_failure", "a"))]>>}
Flows == Odd \cup {<<f, g>> : f \in First, g \in Second} \cup {<<f, g, h>> : f \in First, g \in Second, h \in Third}
Flowing == {Ir(<<Node("r", s)>>) : s \in Flows}
FlowsAsked == {{Alone(i, "r") : i \in Flowing}, {Together(i, "r") : i \in Flowing}, {Hosted(i) : i \in Flowing}}

Wide == {"llm:cheap", "component_invocation"} \cup Callable
Doing(caps, alias) == [Step("a") EXCEPT !.capabilities = caps, !.component_calls = <<ComponentCall(alias, "n1"), ComponentCall("ask", "n1")>>]
Narrowings == {Absent} \cup {Present(s) : s \in SUBSET (Wide \cup {"artifact_write"})}
Leaf == Component("n1", <<>>)
Caller(step) == [Node("r", <<step>>) EXCEPT !.requires = Wide]
AuthorityAsked ==
    UNION {{Together(i, "r"), [Hosted(i) EXCEPT !.host.authority["query"].capabilities = w]} :
        i \in {[Ir(<<Caller(Doing(caps, alias)), Leaf>>) EXCEPT !.ceiling = ceiling] :
                  caps \in Narrowings, alias \in {"x", "query", "ask"},
                  ceiling \in {Absent, Present(Wide), Present({"llm:cheap"})}},
        w \in {{"sql_execution:read_only"}, Callable}}
    \cup UNION {{[Hosted(i) EXCEPT !.providers = p, !.host = h] :
            p \in {<<>>, <<Fragment({"sql_execution:read_only"})>>, <<Fragment(Callable), Fragment(Callable)>>},
            h \in {HostedHost(Callable), HostedHost({"sql_execution:read_only"}), [HostedHost(Callable) EXCEPT !.current = FALSE],
                   [HostedHost(Callable) EXCEPT !.authority["query"].source = "mcp"]}} :
        i \in {Ir(<<Caller(Doing(Absent, "x")), Leaf>>)}}

-------------------------------------------------------------------------------
(* What else a component or a host may differ in.                              *)

Writing(n) == [n EXCEPT !.requires = @ \cup {"artifact_write"}, !.guards = @ \cup {Guardrail("artifact_write", "scope")}]
Loose(g) == [g EXCEPT !.locked = FALSE]
ReadOnly == Guardrail("read_only_execution", "none")
Variants(n) ==
    {n, Writing(n), [n EXCEPT !.known = FALSE], [n EXCEPT !.assets = TRUE], [n EXCEPT !.kind = "tool"], [n EXCEPT !.actions = {"draw"}],
     [n EXCEPT !.entrypoint = ~@], [n EXCEPT !.trigger = "event"], [n EXCEPT !.outcome = "mutation"], [n EXCEPT !.verb = "other"],
     [n EXCEPT !.status = "fail"], [n EXCEPT !.unchecked = 1], [n EXCEPT !.renders = TRUE], [n EXCEPT !.binds = {"p"}],
     [n EXCEPT !.requires = @ \cup {"blast_radius"}], [n EXCEPT !.requires = @ \cup {"artifact_write"}],
     [n EXCEPT !.slots = "t" :> [nested |-> TRUE, present_when |-> FALSE]]}
    \cup {[n EXCEPT !.context = c] : c \in {"other", "unsupported"}}
    \cup {[n EXCEPT !.params = "p" :> k, !.binds = {"p"}] : k \in {"required", "dropped"}}
    \cup {[n EXCEPT !.checks = <<[Check(p, a, o) EXCEPT !.checked = q]>>] :
            p \in {"has_metric", "metric_additive", "unheard_of"}, a \in {"none", "$param", "blank"}, o \in {"pass", "fail"},
            q \in {"metric_additive", "has_metric"}}
    \cup {[n EXCEPT !.guards = g] :
            g \in {{}, {Loose(ReadOnly)}, {ReadOnly, Loose(ReadOnly)}, {ReadOnly, Guardrail("row_limit", "threshold")},
                   {ReadOnly, Guardrail("row_limit", "none")}, {ReadOnly, Guardrail("surprise", "none")},
                   {ReadOnly, Guardrail("additivity_guard", "none")}, {ReadOnly, Loose(Guardrail("artifact_write", "scope"))}}}
    \cup {[n EXCEPT !.slots = "t" :> [nested |-> FALSE, present_when |-> w], !.mentions = m] : w \in BOOLEAN, m \in {{}, {"t"}, {"u"}}}

Pair(n, m) == Ir(<<n, m>>)
Changed(ir) ==
    {[ir EXCEPT !.current = FALSE], [ir EXCEPT !.known = FALSE], [ir EXCEPT !.prompt = TRUE], [ir EXCEPT !.assets = TRUE],
     [ir EXCEPT !.slots = "t" :> [nested |-> FALSE, present_when |-> FALSE]]}
Changes(a) == {[a EXCEPT !.host = h] : h \in
    {[a.host EXCEPT !.execution = @ \ {"ordered_steps"}], [a.host EXCEPT !.tiers = {}], [a.host EXCEPT !.version = "3"],
     [a.host EXCEPT !.guards = @ \cup {Guardrail("row_limit", "threshold")}], [a.host EXCEPT !.execution = @ \cup {"more"}],
     [a.host EXCEPT !.capabilities = [c \in DOMAIN @ |-> "query"]], [a.host EXCEPT !.capabilities = <<>>],
     [a.host EXCEPT !.capabilities = ("blast_radius" :> Nothing) @@ @]}}
Single == [Node("r", <<Step("a")>>) EXCEPT !.requires = {"llm:cheap"} \cup Callable]
VariantsAsked ==
    UNION {AllForms(Ir(<<n>>), "r") : n \in Variants(Node("r", <<Step("a")>>))}
    \cup UNION {{Together(Pair(Entry("r", <<"n1">>), n), "r"), Hosted(Pair(Entry("r", <<"n1">>), n))} : n \in Variants(Leaf)}
    \cup UNION {AllForms(i, "r") : i \in Changed(Ir(<<Single>>))}
    \cup Changes(Alone(Ir(<<Single>>), "r"))
    \cup {[Alone(Ir(<<n>>), "r") EXCEPT !.supply = s] : n \in Variants(Node("r", <<Step("a")>>)), s \in {{"t"}, {"v"}}}
    \cup {[a EXCEPT !.out = o, !.disk = d] : a \in AllForms(Ir(<<Node("r", <<Step("a")>>)>>), "r"), o \in {Nothing, "theirs"}, d \in {"fine", "full"}}

-------------------------------------------------------------------------------
(* Native sessions, and the pi hybrid.                                          *)

Native(ir, target, pinned, roots) ==
    LET composed == [i \in roots |-> Together(ir, i).host]
        contexts == UNION {DOMAIN composed[i].components : i \in roots}
    IN  Asking("native", ir) @@ [host |-> NativeHost(Vendor(target), composed, contexts), target |-> target, entry |-> pinned]
NativeIrs ==
    {Ir(<<n, m, k>>) : n \in {Entry("r", <<"k">>), Entry("r", <<>>), [Entry("r", <<"k">>) EXCEPT !.verb = "m"], Writing(Entry("r", <<"k">>))},
                       m \in {Entry("m", <<>>), Entry("m", <<"r">>), Component("m", <<>>)},
                       k \in {Component("k", <<>>), Writing(Entry("k", <<>>)), Entry("k", <<"m">>)}}
NativeAsked ==
    {Native(i, target, pinned, roots) :
        i \in NativeIrs, target \in {"claude-code:interactive", "codex:interactive", "pi:interactive", "vercel:headless"},
        pinned \in {Nothing, "r", "m"}, roots \in SUBSET {"r", "m", "k"}}
    \cup {[a EXCEPT !.host = h] : a \in {Native(Ir(<<Entry("r", <<"k">>), Entry("m", <<>>), Component("k", <<>>)>>), "claude-code:interactive", Nothing, {"r"})},
            h \in {[NativeHost("claude", <<>>, {}) EXCEPT !.current = FALSE], NativeHost("claude", "r" :> Contract(Leaf, FALSE), {"r", "k"})}}

Hybrid(ir, config) == Asking("hybrid", ir) @@ [config |-> config]
Zoned == {Model("public"), Model("private"), [Model("private") EXCEPT !.api = "anthropic-messages"], [Model("private") EXCEPT !.url = "credentials"]}
Config(m, p, callees) == HybridConfig("r", [x \in {"m"} |-> m], [x \in {"p", "o"} |-> IF x = "p" THEN p ELSE [c \in callees |-> [t \in {"cheap"} |-> Model("private")]]])
PrivateOf(tiers, m, ids) == [i \in ids |-> [t \in tiers |-> m]]
HybridAsked ==
    {Hybrid(Pair(n, m), Config(Model("public"), PrivateOf({"cheap"}, Model("private"), {"n1"}), {"n1"})) :
        n \in Variants(Entry("r", <<"n1">>)) \cup {Entry("r", <<>>), Entry("r", <<"n1", "gone">>), Entry("r", <<"n1", "r">>)},
        m \in {Leaf, Component("n1", <<"r">>), [Leaf EXCEPT !.requires = @ \cup Callable]}}
    \cup {Hybrid(Pair(Entry("r", <<"n1">>), m), Config(Model("public"), PrivateOf({"cheap"}, Model("private"), {"n1"}), {"n1"})) : m \in Variants(Leaf)}
    \cup {Hybrid(Pair(Entry("r", <<"n1">>), Leaf), Config(m, PrivateOf(t, z, i), {"n1"})) :
            m \in Zoned, z \in Zoned, t \in {{}, {"cheap"}, {"strong"}, {"cheap", "strong"}}, i \in {{}, {"n1"}, {"n1", "r"}}}
    \cup {[Hybrid(Pair(Entry("r", <<"n1">>), Leaf), [Config(Model("public"), PrivateOf({"cheap"}, Model("private"), {"n1"}), {"n1"}) EXCEPT !.adapter = p])
             EXCEPT !.out = o, !.disk = d] : p \in {"pinned", "changed", "relative"}, o \in {Nothing, "theirs"}, d \in {"fine", "full"}}

Families == FlowsAsked \cup {ClosuresAsked, AuthorityAsked, VariantsAsked, NativeAsked, HybridAsked}
===============================================================================
