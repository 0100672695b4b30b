------------------------------- MODULE MCToolchain -------------------------------
(* Toolchain on small projects, services, slots, providers and directories. *)
EXTENDS Toolchain, TLC

A == INSTANCE AuthoredProjects
H == INSTANCE AuthoredPlans

CONSTANTS c1, c2, c3, stranger

ThreeMounts == {c1, c2, c3}
FourIds == ThreeMounts \cup {stranger}
MountSymmetry == Permutations(Mounted)

MCWellNamed == {"s", "t", "c", "d", "p", "q", "u", "x", "y", "zz"}
MCProjectsCompiled == A!Families
MCLayers == A!SomeLayers
MCPlansAsked == H!Families

-------------------------------------------------------------------------------
(* Projects as authored, their libraries and overlays.                         *)

Holding(ids) == [i \in ids |-> ComponentFile(i, <<A!Step>>)]
Library(kind, ids) == Source(kind, Holding(ids))
Empty == Library("local", {})
Bound == [k \in {"k", "l"} |-> Text("m")]

Asking(entries, own, overlay) ==
    [authored |-> entries, own |-> own, extra |-> <<>>, hub |-> Library("hub", {"x", "y"}),
     hub_dir |-> FALSE, hub_version |-> FALSE, reachable |-> TRUE, overlay |-> overlay]

AuthoredEntries ==
    {Entry(f, id) : f \in {"use", "full", "shorthand"}, id \in {"x", "y"}}
    \cup {Entry("use", ""), [Entry("use", "x") EXCEPT !.mixed = TRUE],
          [Entry("full", "x") EXCEPT !.mount_fields = TRUE], [Entry("full", "y") EXCEPT !.unknown = TRUE],
          [Entry("shorthand", "x") EXCEPT !.prompt = A!Blank]}

Using(ids) == [i \in DOMAIN ids |-> Entry("use", ids[i])]
UseXY == <<[Entry("use", "x") EXCEPT !.bind = Bound], Entry("use", "y")>>
Mounting(ids) == [i \in DOMAIN ids |-> ProfileComponentMount(ids[i])]
Change(id, keys) == [i \in {id} |-> [k \in keys |-> Text("n")]]

Overlays ==
    {Overlay(Mounting(m), u, b) :
        m \in {<<>>, <<"z">>, <<"x">>, <<"z", "z">>}, u \in SUBSET {"x", "y", "w"},
        b \in {<<>>, Change("x", {"k"}), Change("y", {"k"}), Change("w", {"k"})}}

MCSourcesAsked ==
    {Asking(<<e>>, Library("local", ids), <<>>) : e \in AuthoredEntries, ids \in SUBSET {"x", "y"}}
    \cup {Asking(<<e, f>>, Library("local", {"y"}), <<>>) : e \in AuthoredEntries, f \in AuthoredEntries}
    \cup {[Asking(Using(<<"x">>), Library("local", own), <<>>)
             EXCEPT !.extra = extra, !.hub = Library("hub", hub), !.hub_dir = d, !.hub_version = v, !.reachable = r] :
            own \in SUBSET {"x"}, extra \in {<<>>, <<Library("local", {"x"})>>}, hub \in SUBSET {"x"},
            d \in BOOLEAN, v \in BOOLEAN, r \in BOOLEAN}
    \cup {[Asking(Using(<<"x">>), Source("local", [i \in {"x"} |-> ComponentFile(named, <<step>>)]), <<>>)
             EXCEPT !.reachable = r] :
            named \in {"x", "y"}, step \in {A!Step, [A!Step EXCEPT !.form = "both"]}, r \in BOOLEAN}
    \cup {[Asking(UseXY, Library("local", own), <<[o EXCEPT !.version = v]>>) EXCEPT !.reachable = r] :
            own \in {{"x", "y"}, {"y"}, {"x", "y", "z"}}, o \in Overlays, v \in {1, 2}, r \in BOOLEAN}

-------------------------------------------------------------------------------
(* The gate and the server.                                                    *)

Impact(down, rank) == HostImpact(down, rank)
Analysed(down, rank) ==
    [A!Rich EXCEPT !.analysis = HostAnalysis([n \in {"orders"} |-> Impact(down, rank)])]
MCGateAsked ==
    [bound : BOOLEAN,
     layer : {A!Rich, unparseable}
             \cup {Analysed(down, rank) : down \in SUBSET {"a", "b"}, rank \in {0, 2}},
     node : {"orders", "other"},
     threshold : [protected : {{}, {"a"}, {"orders"}}, max_severity_rank : {Unlimited, 0, 1},
                  max_downstream : {Unlimited, 0, 1}]]

ToolCalling(id, step) == Message("tools/call", id, TOOL_NAME, step, "text")
Messages ==
    {Message("initialize", "1", "", "", ""), Message("initialized", "none", "", "", ""),
     Message("noise", "none", "", "", ""), Message("ping", "none", "", "", ""),
     Message("other", "2", "", "", ""), Message("other", "none", "", "", ""),
     Message("tools/call", "1", "another", "", ""),
     ToolCalling("1", "draft"), ToolCalling("2", "judge"), ToolCalling("3", "gone")}
MCServeAsked ==
    [lines : UNION {[1..n -> Messages] : n \in 0..3}, steps : {[draft |-> "up", judge |-> "down"]}]

-------------------------------------------------------------------------------
(* Slots.                                                                      *)

Saying(words, refs) == {Piece("words", words)} \cup {SlotRef(r) : r \in refs}
Variants(n, refs) == [full |-> Saying(n \o "full", refs), short |-> Saying(n \o "short", {})]
Slot(n, refs) == {IrSlot(n, Variants(n, refs), "full", p) : p \in BOOLEAN}
SomeIrs ==
    {[slots |-> <<p>>, nodes |-> <<[slots |-> <<s, t>>, text |-> Saying("x", refs)]>>] :
        p \in Slot("p", {}) \cup Slot("p", {"p"}), t \in Slot("t", {}) \cup Slot("t", {"s"}),
        s \in Slot("s", {}) \cup Slot("s", {"t"}) \cup Slot("s", {"p"}) \cup Slot("s", {"zz"}),
        refs \in {{}, {"s"}, {"t", "p"}, {"zz"}}}
    \cup {[slots |-> <<>>, nodes |-> <<[slots |-> <<>>, text |-> Saying("x", refs)]>>] : refs \in {{}, {"s"}}}
SomeFlags ==
    {<<>>, <<Flag("s", ""), Flag("s", "full")>>}
    \cup {<<Flag(n, v)>> : n \in {"s", "t", "q", ""}, v \in {"", "full", "other"}}
    \cup {<<Flag("s", v), Flag("t", w)>> : v \in {"", "short"}, w \in {"full", ""}}
    \cup {<<Flag("s", v), Flag("t", w), Flag("p", "full")>> :
             v \in {"full", "short"}, w \in {"full", ""}}
MCSlotsAsked == [ir : SomeIrs, flags : SomeFlags]

-------------------------------------------------------------------------------
(* Dispatches: targets, shapes of components, providers and pinned entries.      *)

Vendor == [cheap |-> "anthropic", strong |-> "anthropic", orchestrator |-> "anthropic"]
Dispatching(target, nodes) ==
    [target |-> target, nodes |-> nodes, providers |-> <<>>, context |-> "bound", binding |-> "none",
     models |-> Vendor, purpose |-> "", pinned |-> ""]
PlainNode == ComponentNode("v", {"llm:cheap"})
SomeModels == {Vendor, [cheap |-> "anthropic", strong |-> "anthropic"], [Vendor EXCEPT !.strong = "local"], [cheap |-> "anthropic"]}
Shaped ==
    {[Dispatching(target, <<[PlainNode EXCEPT !.kind = kind, !.tiers = tiers, !.trigger = trigger, !.outcome = outcome,
                                          !.writes = writes]>>) EXCEPT !.models = models, !.context = context] :
       target \in Targets, kind \in {"skill", "gated-tool"}, tiers \in {{"cheap"}, {"cheap", "strong"}},
       trigger \in {"one_shot", "scheduled", "event"}, outcome \in {"none", "mutation", "dispatch"}, writes \in {"", "context"},
       models \in SomeModels, context \in {"bound", "absent"}}
AllNames == UNION {DOMAIN BaseProfile0(t) : t \in Targets} \cup {"ask_a_service"}
Required ==
    {[Dispatching(target, <<[PlainNode EXCEPT !.requires = {c}, !.binding = own, !.invokes = invokes]>>) EXCEPT !.binding = binding, !.context = context] :
       target \in Targets, c \in AllNames, own \in {"none", "fine", "coarse"}, binding \in {"none", "fine", "coarse"},
       invokes \in BOOLEAN, context \in {"bound", "absent"}}
Sourced(via) == CapabilityEntry("realize_via", FALSE, via)
EntriesOf(c) == {<<>>, [k \in {c} |-> CapabilityEntry("fail", FALSE, "")], [k \in {c} |-> Sourced("s")]}
ToolsOf(c) == {<<>>} \cup {[k \in {c} |-> t] : t \in {ToolBindingSpec("bare", "", {"ask"}), ToolBindingSpec("mcp", "s", {"s"}),
                                                    ToolBindingSpec("mcp", "t", {"t"}), ToolBindingSpec("malformed", "", {"s"})}}
Fragments(target, c, modes) ==
    {[ProviderFragment("p", e, t) EXCEPT !.engine = Engine(target), !.mode = m] :
        e \in EntriesOf(c), t \in ToolsOf(c), m \in modes}
Supplying(target, c, fragments) ==
    [Dispatching(target, <<[PlainNode EXCEPT !.requires = {c}]>>) EXCEPT !.providers = fragments]
Supplied ==
    {{Supplying(target, c, <<f>>) : f \in Fragments(target, c, {"", "headless"})} :
              target \in Targets \ {"codex:interactive", "pi:interactive"},
              c \in {"human_approval", "ask_a_service", "semantic_introspection", "raw_material_read"}}
    \cup {{Supplying(target, c, <<f, g>>) : f \in Fragments(target, c, {""}), g \in Fragments(target, c, {""})} :
              target \in {"claude-code:headless", "vercel:interactive"}, c \in {"human_approval", "ask_a_service"}}
Two(n) == {[n EXCEPT !.id = i, !.entrypoint = e, !.requires = r] : i \in {"v", "w"}, e \in BOOLEAN, r \in {{}, {"enrichment_apply:deterministic"}}}
Pinned ==
    {[Dispatching(target, <<m, n>>) EXCEPT !.purpose = p, !.pinned = v] : target \in Targets,
        m \in {k \in Two(PlainNode) : k.id = "v"}, n \in {k \in Two([PlainNode EXCEPT !.verb = "v"]) \cup Two([PlainNode EXCEPT !.verb = "w"]) : k.id = "w"},
        p \in {"", "analysis"}, v \in {"", "v", "w"}}
MCLinkAsked == {Shaped, Required, Pinned} \cup Supplied

-------------------------------------------------------------------------------
(* Deliveries: what an author may have written when a compilation starts.      *)

File(c, p) == [component |-> c, path |-> p]
Delivered(text, shape, assets) ==
    [text |-> text, shapes |-> [c \in Components |-> shape], assets |-> assets]
MCProjects ==
    {Delivered(1, "split", (File("a", "data") :> 1) @@ (File("b", "data") :> 1)),
     Delivered(2, "split", (File("a", "data") :> 2) @@ (File("b", "data") :> 1)),
     Delivered(2, "isolated", File("b", "CLAUDE.md") :> 1),
     Delivered(2, "isolated split", NoFiles)}
===============================================================================
