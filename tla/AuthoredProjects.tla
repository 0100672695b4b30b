---------------------------- MODULE AuthoredProjects ----------------------------
(***************************************************************************)
(* Small projects and layers for the runs over ProfileCompile: a base that   *)
(* compiles, and one family of projects for each thing an author can get      *)
(* wrong, so that families add up instead of multiplying.                    *)
(***************************************************************************)
EXTENDS ProfileCompile

Parsed(metrics, dimensions, models, edges, probes) ==
    [Bare("prepared", TRUE) EXCEPT
        !.metrics = metrics, !.dimensions = dimensions,
        !.time_dimensions = Temporal(dimensions),
        !.models = models, !.lineage = LineageGraph({"orders"}, edges),
        !.source_introspectable = probes[1], !.raw_docs_readable = probes[2]]

Rich == Parsed(<<MetricInfo("m", TRUE, "additive"), MetricInfo("n", TRUE, "non_additive"),
                 MetricInfo("u", FALSE, "")>>,
               <<DimensionInfo("d", TRUE), DimensionInfo("e", FALSE)>>,
               <<ModelInfo("m", TRUE), ModelInfo("n", FALSE)>>, {<<"orders", "orders">>}, <<"yes", "no">>)
Poor == Parsed(<<MetricInfo("u", FALSE, "")>>, <<DimensionInfo("e", FALSE)>>, <<ModelInfo("n", FALSE)>>,
               {<<"orders", "gone">>}, <<"unknown", "unknown">>)
Nothing == Parsed(<<>>, <<>>, <<>>, {}, <<"no", "yes">>)
Raw(schema, docs) == from_sources([schema |-> schema, docs |-> docs])

SomeLayers == {Rich, Poor, Nothing, ExternalContext, Raw("columns", TRUE), Raw("empty", FALSE), Raw("broken", TRUE)}

\* Names that are well formed, and one that is not.
GoodNames == {"s", "t", "c", "d"}

-------------------------------------------------------------------------------
Step == LlmStep("a", "prompt", Words, {}, {})
Base == ComponentFile("c", <<Step>>)
BaseMount == ProfileComponentMount("c")
BaseProfile == ProfileFile(TRUE, <<BaseMount>>)

Project1(profile, component, layer) ==
    [profile |-> profile, components |-> [i \in {component.id} |-> component],
     project |-> "p", layer |-> layer]
On(layer, component, mount) == Project1(ProfileFile(TRUE, <<mount>>), component, layer)

Arguments(predicate) ==
    LET key == selector(predicate)
        values == {Text("m"), Text("n"), Text("u"), Text(""), NotAText, Reference("x"), Reference("z")}
    IN  {<<>>} \cup (IF key = "" THEN {} ELSE {[k \in {key} |-> v] : v \in values})

\* Every predicate with every argument, bound in every way, over every layer.
Preconditioned ==
    { {On(l, [Base EXCEPT !.preconditions = <<Precondition("mdl_parseable", <<>>), Precondition(p, a)>>,
                          !.params = <<Param("x", "optional", "", d)>>],
          [BaseMount EXCEPT !.bind = b]) :
        l \in SomeLayers, p \in {"metric_additive", "model_has_timestamp"},
        a \in Arguments("metric_additive") \cup Arguments("model_has_timestamp"),
        d \in {NoDefault, Text("n")}, b \in {<<>>, [x \in {"x"} |-> Text("m")], [x \in {"x"} |-> NotAText]}}
    , {On(l, [Base EXCEPT !.preconditions = <<Precondition(p, <<>>)>>], BaseMount) :
              l \in SomeLayers, p \in PRECONDITION_VOCABULARY \cup {"has_everything"}}
    , {On(Rich, [Base EXCEPT !.params = <<Param("x", f, s, NoDefault)>>],
                [BaseMount EXCEPT !.bind = b, !.config = c]) :
              f \in {"", "required", "optional"}, s \in {"", "runtime-injected", "elsewhere"},
              b \in {<<>>, [x \in {"x"} |-> Text("m")]}, c \in BOOLEAN} }

Powers == {"sql", "write"}
Other == ComponentFile("d", <<Step>>)

\* Capabilities and calls against a ceiling; guardrails against the patch of a mount.
Empowered ==
    { {[profile |-> [ProfileFile(TRUE, <<BaseMount, ProfileComponentMount("d")>>) EXCEPT !.ceiling = ceiling],
        components |->
           [i \in {"c", "d"} |->
              IF i = "d" THEN Other
              ELSE [Base EXCEPT !.capabilities = held,
                                !.steps = <<[Step EXCEPT !.capabilities = used, !.calls = calls,
                                                         !.exclusive = exclusive]>>]],
        project |-> "p", layer |-> Rich] :
          held \in SUBSET Powers, used \in SUBSET Powers, calls \in {{}, {"d"}, {"c"}, {"e"}},
          exclusive \in BOOLEAN,
          ceiling \in {[given |-> FALSE, admits |-> {}]}
                      \cup {[given |-> TRUE, admits |-> a] :
                              a \in SUBSET (Powers \cup {COMPONENT_INVOCATION_CAPABILITY})}}
    , {On(Rich, [Base EXCEPT !.guardrails = <<Guardrail("g", locked, free)>>],
               [BaseMount EXCEPT !.guardrails = patch]) :
              locked \in {"", "yes", "no"}, free \in {"", "yes", "no"},
              patch \in {<<>>} \cup {[g \in {"g"} |-> v] : v \in {"", "yes", "no"}}} }

Template(is) == {Piece(is, ""), Piece("words", "")}
Texts == {Absent, Blank, Words, {SlotRef("s")}, {SlotRef("t")}, {SlotRef("Bad")}, {SlotRef("s"), SlotRef("t")}}
         \cup {Template(is) : is \in {"project", "project_name", "unknown", "statement"}}
OneSlot(name, default, texts) ==
    SlotDecl(name, [v \in {"full"} |-> texts], default)
SlotLists == {<<>>} \cup {<<OneSlot(n, d, t)>> : n \in {"s", "Bad"}, d \in {"full", "gone"},
                                                t \in {Absent, Words, {SlotRef("s")}, Template("project")}}
             \cup {<<OneSlot("t", "full", {SlotRef("s")}), OneSlot("s", "full", Words)>>,
                   <<OneSlot("s", "full", Words), OneSlot("s", "full", Words)>>,
                   <<OneSlot("s", "full", {SlotRef("t")})>>}

\* Texts, slots and placeholders, in a profile with a context and without one.
Worded ==
    { {Project1([ProfileFile(bound, <<[BaseMount EXCEPT !.brief = patch]>>)
                    EXCEPT !.system_prompt = shared, !.slots = outer],
                [Base EXCEPT !.steps = <<[Step EXCEPT !.prompt = prompt]>>, !.brief = brief, !.slots = inner],
                IF bound THEN Rich ELSE NoContext) :
          bound \in BOOLEAN, patch \in {Absent, {SlotRef("t")}}, shared \in {Blank, {SlotRef("t")}},
          outer \in {<<>>, <<OneSlot("t", "full", Words)>>},
          prompt \in {Words, {SlotRef("s")}, {SlotRef("s"), SlotRef("t")}, Template("project")},
          brief \in {Absent, {SlotRef("s")}}, inner \in SlotLists}
    , {Project1([ProfileFile(bound, <<BaseMount>>) EXCEPT !.system_prompt = shared, !.slots = outer],
                     Base, IF bound THEN Rich ELSE NoContext) :
              bound \in BOOLEAN, shared \in Texts, outer \in SlotLists}
    , {Project1(ProfileFile(bound, <<[BaseMount EXCEPT !.brief = patch]>>),
                     [Base EXCEPT !.steps = <<[Step EXCEPT !.prompt = prompt]>>],
                     IF bound THEN Rich ELSE NoContext) :
              bound \in BOOLEAN, patch \in Texts, prompt \in Texts \ {Absent}} }

\* What is left: prompts, descriptions, assets, requirements, mounts.
Odd ==
    { {Project1(ProfileFile(bound, <<BaseMount>>),
                [Base EXCEPT !.steps = <<[Step EXCEPT !.form = form]>>, !.description = said,
                             !.examples = e, !.assets = files, !.requirements = needs, !.dataflow = flows],
                IF bound THEN Rich ELSE NoContext) :
          bound \in BOOLEAN, form \in {"prompt", "prompt_ref", "both", "neither"},
          said \in {Absent, Blank, Words, {SlotRef("s")}}, e \in {{}, {Words}, {Blank}},
          files \in {<<>>, <<AssetDecl("f", "h")>>, <<AssetDecl("f", "")>>}, needs \in {{}, {"lineage"}},
          flows \in BOOLEAN}
    , {[profile |-> ProfileFile(bound, mounts), components |-> [i \in {"c"} |-> Base], project |-> "p",
             layer |-> Rich] :
              bound \in BOOLEAN, mounts \in {<<>>, <<BaseMount, BaseMount>>, <<ProfileComponentMount("d")>>}} }

Families == Preconditioned \cup Empowered \cup Worded \cup Odd
===============================================================================
