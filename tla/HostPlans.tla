-------------------------------- MODULE HostPlans --------------------------------
(***************************************************************************)
(* The plans that a host executes for itself.  Warble launches nothing here:   *)
(* it reads a compiled profile and what a host says it can do, and either       *)
(* refuses or writes down steps, their authority and who may call whom          *)
(* (claude-code-cli: session.rs, native_host.rs, pi_hybrid.rs; vercel:          *)
(* hosted.rs).  Everything a document may hold too much of is a flag (`known`);  *)
(* sizes and spellings are left out.                                           *)
(***************************************************************************)
EXTENDS Naturals, Sequences, SequencesExt, FiniteSets, Functions, TLC

Link == INSTANCE CapabilityLink

-------------------------------------------------------------------------------
(* What is planned, and what a host declares.                                  *)

Nothing == ""
Absent == <<>>
Present(x) == <<x>>

Guardrail(name, limit) == [name |-> name, locked |-> TRUE, limit |-> limit]
When(guard, target) == [guard |-> guard, target |-> target]
ComponentCall(alias, component) == [alias |-> alias, component |-> component]
Check(predicate, arg, outcome) == [predicate |-> predicate, arg |-> arg, checked |-> predicate, outcome |-> outcome]

Step(name) ==
    [name |-> name, tier |-> "cheap", consumes |-> {}, produces |-> Nothing, exclusive |-> FALSE,
     conditional |-> FALSE, when |-> Absent, capabilities |-> Absent, component_calls |-> <<>>]

Node(id, steps) ==
    [id |-> id, verb |-> id, entrypoint |-> TRUE, kind |-> "skill", trigger |-> "one_shot", outcome |-> "none",
     context |-> "profile", known |-> TRUE, assets |-> FALSE, slots |-> <<>>, mentions |-> {},
     params |-> <<>>, binds |-> {}, checks |-> <<>>, unchecked |-> 0, status |-> "pass", renders |-> FALSE,
     guards |-> {Guardrail("read_only_execution", "none")}, requires |-> {"llm:cheap"},
     actions |-> {}, steps |-> steps]

Ir(nodes) ==
    [current |-> TRUE, known |-> TRUE, prompt |-> FALSE, assets |-> FALSE, slots |-> <<>>, ceiling |-> Absent, nodes |-> nodes]

HostContract(capabilities) ==
    [version |-> "2", tiers |-> {"cheap", "strong"}, capabilities |-> capabilities,
     guards |-> {Guardrail("read_only_execution", "none")},
     execution |-> {"ordered_steps", "isolated_step_tools", "artifact_provenance", "per_step_tiers",
                    "bounded_repair", "render_contract"}]

IdsOf(nodes) == {nodes[i].id : i \in DOMAIN nodes}
Distinct(nodes) == Cardinality(IdsOf(nodes)) = Len(nodes)
Named(nodes, id) == nodes[CHOOSE i \in DOMAIN nodes : nodes[i].id = id]
ModelOf(tier) == "llm:" \o tier
Models == {ModelOf("cheap"), ModelOf("strong")}

HasCalls(n) == \E i \in DOMAIN n.steps : n.steps[i].component_calls # <<>>
Calls(n) == FlattenSeq([i \in DOMAIN n.steps |->
                [j \in DOMAIN n.steps[i].component_calls |-> n.steps[i].component_calls[j].component]])

-------------------------------------------------------------------------------
(* The closure of a root.  Heights are remembered, so that a shared callee is    *)
(* walked once; what is remembered still has to fit under the present caller.   *)

MaxDepth == 8

\* Mutant: a component that was reached before is taken to fit here too.
FitsAlone(above, height) == above <= MaxDepth

Fits(above, height) == above + height <= MaxDepth

\* What a walk knows: whether it may go on, the height of the component that it left
\* last, and of each that it has met.
Found(ids) == [ok : BOOLEAN, height : Nat, met : SUBSET ids, heights : [ids -> Nat]]
NothingFound(ids) == [ok |-> TRUE, height |-> 0, met |-> {}, heights |-> [i \in ids |-> 0]]

Visits(nodes) ==
    LET visit[id \in STRING, active \in SUBSET IdsOf(nodes), found \in Found(IdsOf(nodes))] ==
            LET Deeper(f, callee) ==
                    LET g == visit[callee, active \cup {id}, f]
                    IN  [g EXCEPT !.height = IF f.height > 1 + @ THEN f.height ELSE 1 + @]
                walked == FoldLeft(Deeper, [found EXCEPT !.height = 0], Calls(Named(nodes, id)))
                above == Cardinality(active)
                Refused == [found EXCEPT !.ok = FALSE]
            IN  IF ~found.ok \/ id \in active THEN Refused
                ELSE IF id \in found.met
                     THEN IF Fits(above, found.heights[id]) THEN [found EXCEPT !.height = found.heights[id]] ELSE Refused
                ELSE IF id \notin IdsOf(nodes) \/ above > MaxDepth THEN Refused
                ELSE [walked EXCEPT !.met = @ \cup {id}, !.heights[id] = walked.height]
    IN  visit

Closure(nodes, roots) ==
    LET visit == Visits(nodes)
    IN  FoldLeft(LAMBDA f, r : visit[r, {}, f], NothingFound(IdsOf(nodes)), roots)

-------------------------------------------------------------------------------
(* session.rs: one component.  `composed` is the second format, whose components *)
(* may call each other.                                                        *)

Callable == {"semantic_introspection", "sql_execution:read_only"}
capability_kind(composed) ==
    [c \in Callable |-> TRUE] @@ [c \in {"render_contract", "structured_output_capture"} |-> FALSE]
    @@ [c \in {"artifact_write"} |-> ~composed]
    @@ IF composed THEN [c \in {"component_invocation"} |-> FALSE] ELSE <<>>

Parameter(name) ==
    CASE name \in {"read_only_execution", "deterministic_gate", "additivity_guard"} -> "none"
      [] name \in {"row_limit", "statement_timeout", "drill_depth_limit"} -> "threshold"
      [] name = "artifact_write" -> "scope"
      [] OTHER -> "unsupported"

validate_guardrail(g, composed) ==
    /\ g.limit = Parameter(g.name) /\ g.limit # "unsupported"
    /\ g.name \in {"additivity_guard", "drill_depth_limit"} => composed

EachOnce(guards) == Cardinality({g.name : g \in guards}) = Cardinality(guards)
Enforces(guards, name) == \E g \in guards : g.name = name /\ g.locked

validate_host(host, composed) ==
    LET kind == capability_kind(composed)
        held == DOMAIN host.capabilities
    IN  /\ host.version = (IF composed THEN "2" ELSE "1")
        /\ host.execution \subseteq HostContract(<<>>).execution
        /\ held \subseteq DOMAIN kind
        /\ \A c \in held : kind[c] = (host.capabilities[c] # Nothing)
        /\ \A c, d \in held : c # d /\ kind[c] => host.capabilities[c] # host.capabilities[d]
        /\ \A g \in host.guards : validate_guardrail(g, composed)
        /\ EachOnce(host.guards)

\* A slot of the profile or of the component, and what the command line supplies.
validate_slots(ir, n, supply) ==
    LET names == DOMAIN ir.slots \cup DOMAIN n.slots
    IN  /\ DOMAIN ir.slots \cap DOMAIN n.slots = {}
        /\ \A s \in names : ~(ir.slots @@ n.slots)[s].nested
        /\ supply \subseteq names

\* resolve_ir_json: every mention becomes text; an optional slot must be answered.
Resolves(ir, n, supply) ==
    \A s \in n.mentions : /\ s \in DOMAIN ir.slots \cup DOMAIN n.slots
                          /\ (ir.slots @@ n.slots)[s].present_when => s \in supply

validate_compiled_parameters(n) ==
    /\ DOMAIN n.params = n.binds
    /\ \A p \in DOMAIN n.params : n.params[p] \in {"optional", "required"}

Predicates == {"mdl_parseable", "has_metric", "metric_additive", "model_has_timestamp", "lineage_resolvable"}
validate_composed_context(n) ==
    /\ n.unchecked = 0
    /\ \A i \in DOMAIN n.checks :
         LET c == n.checks[i]
         IN  /\ c.predicate \in Predicates /\ c.checked = c.predicate /\ c.outcome = "pass"
             /\ c.arg # "$param"
             /\ c.predicate \in {"metric_additive", "model_has_timestamp"} => c.arg # "blank"

\* What kind of component it is, and that its context is the profile's and was met.
AnatomyHolds(ir, n, supply, composed) ==
    /\ n.known /\ ~n.assets
    /\ ~composed => n.params = <<>> /\ n.binds = {} /\ n.entrypoint
    /\ composed => validate_compiled_parameters(n) /\ validate_composed_context(n)
    /\ n.context = "profile"
    /\ validate_slots(ir, n, supply) /\ Resolves(ir, n, supply)
    /\ n.kind = "skill" /\ n.trigger = "one_shot" /\ n.outcome = "none"
    /\ n.status = "pass" /\ \A i \in DOMAIN n.checks : n.checks[i].outcome = "pass"

GuardsAgree(n, host, composed) ==
    /\ \A g \in n.guards : validate_guardrail(g, composed)
    /\ EachOnce(n.guards) /\ n.guards = host.guards
    /\ Enforces(n.guards, "read_only_execution")

CapabilitiesHeld(ir, n, host, composed) ==
    /\ ir.ceiling # Absent => n.requires \subseteq ir.ceiling[1]
    /\ \A c \in n.requires \ {"llm:per_step_tier"} :
         IF c \in Models THEN \E t \in host.tiers : c = ModelOf(t)
         ELSE c \in DOMAIN capability_kind(composed) \cap DOMAIN host.capabilities
    /\ "artifact_write" \in n.requires => Enforces(n.guards, "artifact_write")
    /\ n.renders => "render_contract" \in DOMAIN host.capabilities

Effective(n, s) == IF s.capabilities = Absent THEN n.requires ELSE s.capabilities[1]
Tools(host, caps) ==
    {host.capabilities[c] : c \in caps \cap DOMAIN host.capabilities} \ {Nothing}

validate_calls(calls, caps, tools) ==
    /\ calls # <<>> => "component_invocation" \in caps
    /\ IsInjective([i \in DOMAIN calls |-> calls[i].alias])
    /\ \A i \in DOMAIN calls : calls[i].alias \notin tools

\* The one conditional step there is: it mends what the step before it failed to produce.
Repairs(steps, i) ==
    /\ i > 1 /\ steps[i].when = Present(When("on_failure", steps[i - 1].name))
    /\ ~steps[i - 1].conditional
    /\ steps[i].produces # Nothing /\ steps[i - 1].produces # Nothing
    /\ steps[i - 1].produces \in steps[i].consumes

Before(steps, i) == {steps[j] : j \in 1 .. i - 1}
ProducedBefore(steps, i) == {s.produces : s \in Before(steps, i)} \ {Nothing}
IfExecuted(steps, i) == {s.produces : s \in {t \in Before(steps, i) : t.conditional}}

\* Mutant: whatever an earlier step may produce can be consumed.
ConsumesAnything(steps, i) == steps[i].consumes \subseteq ProducedBefore(steps, i)

ConsumesCertain(steps, i) == steps[i].consumes \subseteq ProducedBefore(steps, i) \ IfExecuted(steps, i)

StepHolds(n, host, i, composed) ==
    LET s == n.steps[i]
        effective == Effective(n, s)
    IN  /\ s.name \notin {t.name : t \in Before(n.steps, i)}
        /\ ~composed => s.component_calls = <<>>
        /\ s.exclusive => s.produces # Nothing
        /\ s.tier \in host.tiers /\ ModelOf(s.tier) \in n.requires
        /\ effective \subseteq n.requires
        /\ composed => validate_calls(s.component_calls, effective, Tools(host, effective))
        /\ IF s.conditional THEN Repairs(n.steps, i) ELSE s.when = Absent
        /\ ConsumesCertain(n.steps, i)
        /\ s.produces \notin ProducedBefore(n.steps, i)

RequiredExecution(n) ==
    {"ordered_steps", "isolated_step_tools", "artifact_provenance", "per_step_tiers"}
    \cup (IF n.renders THEN {"render_contract"} ELSE {})
    \cup (IF \E i \in DOMAIN n.steps : n.steps[i].conditional THEN {"bounded_repair"} ELSE {})

\* A plan of one component: its declaration, and for each step what it may use.
PlannedStep(n, i, tools) ==
    [step |-> n.steps[i], capabilities |-> Effective(n, n.steps[i]), tools |-> tools,
     realization |-> IF n.steps[i].conditional THEN "repair_fold" ELSE "independent"]

ProducesFor(ir, host, n, supply, composed) ==
    /\ validate_host(host, composed)
    /\ ir.current /\ ir.known /\ ~ir.assets /\ (ir.prompt => composed)
    /\ AnatomyHolds(ir, n, supply, composed)
    /\ GuardsAgree(n, host, composed)
    /\ CapabilitiesHeld(ir, n, host, composed)
    /\ n.steps # <<>> /\ \A i \in DOMAIN n.steps : StepHolds(n, host, i, composed)
    /\ RequiredExecution(n) \subseteq host.execution

produce_component(host, n) ==
    [node |-> n, steps |-> [i \in DOMAIN n.steps |->
        PlannedStep(n, i, Tools(host, Effective(n, n.steps[i])))]]

Plan(ok, roots, plans) == [ok |-> ok, roots |-> roots, plans |-> plans]
NoPlan == Plan(FALSE, {}, <<>>)

Persists(n) == n.actions # {} \/ "artifact_write" \in n.requires \/ \E g \in n.guards : g.name = "artifact_write"

ComposedHost(components) == [version |-> "2", current |-> TRUE, components |-> components]

produce_composed_session(ir, host, component, supply) ==
    LET closure == Closure(ir.nodes, <<component>>)
        reachable == closure.met
        N(id) == Named(ir.nodes, id)
        ok == /\ supply = {} /\ host.current
              /\ Distinct(ir.nodes)
              /\ component \in IdsOf(ir.nodes) /\ N(component).entrypoint
              /\ closure.ok
              /\ DOMAIN host.components = reachable
              /\ ir.slots = <<>>
              /\ \A id \in reachable :
                   /\ N(id).slots = <<>>
                   /\ ProducesFor(ir, host.components[id], N(id), supply, TRUE)
                   /\ id # component => ~Persists(N(id))
    IN  IF ok THEN Plan(TRUE, {component},
                         [id \in reachable |-> produce_component(host.components[id], N(id))])
        ELSE NoPlan

\* A host of the first format gives its one contract, of the second one per component.
produce_session(ir, host, component, supply) ==
    IF host.version = "2" THEN produce_composed_session(ir, host, component, supply)
    ELSE IF /\ Distinct(ir.nodes) /\ component \in IdsOf(ir.nodes)
            /\ ProducesFor(ir, host, Named(ir.nodes, component), supply, FALSE)
         THEN Plan(TRUE, {component}, component :> produce_component(host, Named(ir.nodes, component)))
         ELSE NoPlan

-------------------------------------------------------------------------------
(* hosted.rs: all entries of a profile for one host, whose tools the provider    *)
(* fragments name.                                                             *)

Authority(source, capabilities) == [source |-> source, capabilities |-> capabilities]

HostedGuards(n, host) ==
    /\ EachOnce(n.guards)
    /\ \A g \in n.guards : /\ g.name \in host.guards /\ validate_guardrail(g, TRUE)
                           /\ g.name = "artifact_write" => g.locked
    /\ Enforces(n.guards, "read_only_execution")
    /\ "artifact_write" \in n.requires => \E g \in n.guards : g.name = "artifact_write"

HostedStep(n, i) ==
    LET s == n.steps[i]
    IN  /\ s.name \notin {t.name : t \in Before(n.steps, i)}
        /\ ModelOf(s.tier) \in n.requires
        /\ s.exclusive => s.produces # Nothing
        /\ s.conditional = (s.when # Absent) /\ (s.when # Absent => Repairs(n.steps, i))
        /\ ConsumesCertain(n.steps, i)
        /\ s.produces \notin ProducedBefore(n.steps, i)
        /\ Effective(n, s) \subseteq n.requires
        /\ s.component_calls # <<>> => "component_invocation" \in Effective(n, s)
        /\ IsInjective([j \in DOMAIN s.component_calls |-> s.component_calls[j].alias])

Known == Callable \cup Models \cup {"render_contract", "structured_output_capture", "artifact_write",
                                    "component_invocation", "llm:per_step_tier"}

validate_context_records(n) == n.status = "pass" /\ validate_composed_context(n)

validate_node(n, host) ==
    /\ n.known /\ ~n.assets /\ n.slots = <<>> /\ n.mentions = {}
    /\ n.kind = "skill" /\ n.trigger = "one_shot" /\ n.outcome = "none"
    /\ validate_context_records(n)
    /\ n.context # "unsupported"
    /\ validate_compiled_parameters(n)
    /\ n.requires \subseteq Known
    /\ HostedGuards(n, host)
    /\ n.steps # <<>> /\ \A i \in DOMAIN n.steps : HostedStep(n, i)

\* Every capability that a fragment serves is served by a tool that can do nothing else
\* in this step.  Persistence is the root's last action, never a tool.
ToolName(binding) == CHOOSE t \in binding.spelled : TRUE
Served(caps, tools) == (caps \cap DOMAIN tools) \ {"artifact_write"}
step_tools_hold(caps, tools, host) ==
    /\ caps \cap Callable \subseteq DOMAIN tools
    /\ \A c \in Served(caps, tools) :
         LET name == ToolName(tools[c])
         IN  /\ name \in DOMAIN host.authority
             /\ host.authority[name].source = tools[c].source
             /\ c \in host.authority[name].capabilities
             /\ host.authority[name].capabilities \subseteq caps
    /\ \A c, d \in Served(caps, tools) : c # d => ToolName(tools[c]) # ToolName(tools[d])
step_tools(caps, tools) == {ToolName(tools[c]) : c \in Served(caps, tools)}

Tiers(n) == {n.steps[i].tier : i \in DOMAIN n.steps}
Implied(n) == (IF n.renders THEN {"render_contract"} ELSE {})
              \cup (IF Cardinality(Tiers(n)) > 1 THEN {"llm:per_step_tier"} ELSE {})
HostedCapable(n, profile) ==
    \A c \in n.requires \cup Implied(n) : c \in DOMAIN profile /\ profile[c].outcome # "fail"

prepare_hosted_vercel(ir, host, target, providers) ==
    LET entries == SelectSeq(ir.nodes, LAMBDA n : n.entrypoint)
        roots == [i \in DOMAIN entries |-> entries[i].id]
        closure == Closure(ir.nodes, roots)
        reachable == closure.met
        N(id) == Named(ir.nodes, id)
        callees == UNION {ToSet(Calls(N(id))) : id \in reachable}
        link == Link!compose_target(target, providers)
        profile == ("component_invocation" :> Link!CapabilityEntry("realize_via", FALSE, "host")) @@ link.profile
        Held(id, s) == /\ step_tools_hold(Effective(N(id), s), link.tools, host)
                       /\ \A j \in DOMAIN s.component_calls :
                            s.component_calls[j].alias \notin step_tools(Effective(N(id), s), link.tools)
        ok == /\ host.current
              /\ ir.current /\ ir.known /\ ~ir.assets /\ ir.slots = <<>> /\ ir.ceiling = Absent
              /\ Distinct(ir.nodes) /\ entries # <<>>
              /\ closure.ok /\ link.ok
              /\ \A id \in reachable :
                   /\ validate_node(N(id), host)
                   /\ id \in callees => ~Persists(N(id))
                   /\ HostedCapable(N(id), profile)
                   /\ \A i \in DOMAIN N(id).steps : Held(id, N(id).steps[i])
        Planned(n) == [node |-> n, steps |-> [i \in DOMAIN n.steps |->
                          PlannedStep(n, i, step_tools(Effective(n, n.steps[i]), link.tools))]]
    IN  IF ok THEN Plan(TRUE, ToSet(roots), [id \in reachable |-> Planned(N(id))]) ELSE NoPlan

-------------------------------------------------------------------------------
(* native_host.rs: the entries of a native session whose steps the host runs, and *)
(* what is left for the vendor's conversation (emit/mod.rs, codex.rs, pi.rs).     *)

NativeHost(vendor, roots, contexts) ==
    [vendor |-> vendor, current |-> TRUE, bound |-> TRUE, roots |-> roots, contexts |-> contexts]

Vendor(target) ==
    CASE target = "claude-code:interactive" -> "claude" [] target = "codex:interactive" -> "codex"
      [] target = "pi:interactive" -> "pi" [] OTHER -> Nothing

\* The components as the linker of a native target sees them; only an analysis session
\* may have a host.
Linked(n) ==
    [Link!ComponentNode(n.id, n.requires) EXCEPT
        !.verb = n.verb, !.entrypoint = n.entrypoint, !.kind = n.kind, !.trigger = n.trigger,
        !.tiers = Tiers(n), !.outcome = n.outcome, !.renders = n.renders, !.invokes = HasCalls(n)]

Launch(ir, target, pinned) ==
    [target |-> target, nodes |-> [i \in DOMAIN ir.nodes |-> Linked(ir.nodes[i])], providers |-> <<>>,
     context |-> "bound", binding |-> "none", purpose |-> "analysis", pinned |-> pinned,
     models |-> [t \in {"cheap", "strong", "orchestrator"} |-> "anthropic"]]

\* No entry is pinned in a scope session: the host then runs those that call others.
Entries(ir, pinned) == SelectSeq(ir.nodes, LAMBDA n : n.entrypoint /\ pinned \in {Nothing, n.id})
HostRun(entry, pinned) == SelectSeq(entry, LAMBDA n : pinned # Nothing \/ HasCalls(n))

PreparedFrom(ir, host, target, pinned, entry, selected, plan) ==
    LET ok == /\ host.current /\ host.bound /\ Vendor(target) # Nothing /\ host.vendor = Vendor(target)
              /\ pinned = Nothing => host.vendor = "claude"
              /\ Link!PurposeHolds(Launch(ir, target, pinned))
              /\ \A i \in DOMAIN entry : ~entry[i].assets
              /\ selected # <<>> /\ IdsOf(selected) = DOMAIN host.roots
              /\ \A i \in DOMAIN selected :
                   /\ selected[i].id = selected[i].verb
                   /\ host.roots[selected[i].id].version = "2"
                   /\ plan[selected[i].id].ok
              /\ host.contexts = UNION {DOMAIN plan[id].plans : id \in IdsOf(selected)}
    IN  IF ok THEN [ok |-> TRUE, sessions |-> plan] ELSE [ok |-> FALSE, sessions |-> <<>>]

prepare(ir, host, target, pinned) ==
    LET entry == Entries(ir, pinned)
        selected == HostRun(entry, pinned)
    IN  PreparedFrom(ir, host, target, pinned, entry, selected,
                     [id \in IdsOf(selected) |-> produce_session(ir, host.roots[id], id, {})])

\* The linker's answer for a session with a host: no component is refused for its calls,
\* and what a root requires is the host's to provide.
LinkedWithHost(ir, target, pinned, roots) ==
    LET Hosted(n) == [n EXCEPT !.requires = {}, !.renders = FALSE, !.tiers = {"cheap"}]
        Lifted(n) == [IF n.id \in roots THEN Hosted(n) ELSE n EXCEPT !.invokes = FALSE, !.serves = TRUE]
    IN  Link!run_dispatch([Launch(ir, target, pinned) EXCEPT !.nodes = [i \in DOMAIN @ |-> Lifted(@[i])]])

NativeSession(prepared, link) ==
    IF prepared.ok /\ link.ok
    THEN [ok |-> TRUE, sessions |-> prepared.sessions, emitted |-> IdsOf(link.nodes)]
    ELSE [ok |-> FALSE, sessions |-> <<>>, emitted |-> {}]

emit_with_host(ir, host, target, pinned) ==
    LET prepared == prepare(ir, host, target, pinned)
    IN  NativeSession(prepared, LinkedWithHost(ir, target, pinned, DOMAIN prepared.sessions))

-------------------------------------------------------------------------------
(* pi_hybrid.rs: one component on a public model, whose callees run on private    *)
(* models.  The runtime of the launch is dispatcher/pi.                          *)

Model(zone) == [zone |-> zone, api |-> "openai-completions", url |-> "https"]
HybridConfig(entry, models, projects) ==
    [known |-> TRUE, entry |-> entry, adapter |-> "pinned", selections |-> {"s"}, models |-> models,
     projects |-> projects, defaults |-> [policy |-> "s", model |-> "m", project |-> "p"]]

validate_hybrid_node(n, root) ==
    /\ n.entrypoint = root /\ n.kind = "skill" /\ n.trigger = "one_shot" /\ n.outcome = "none"
    /\ ~n.renders /\ n.checks = <<>> /\ n.unchecked = 0 /\ n.params = <<>> /\ n.status = "pass" /\ n.slots = <<>>
    /\ \A g \in n.guards : g = Guardrail("read_only_execution", "none")
    /\ Len(n.steps) = 1
    /\ LET s == n.steps[1]
           model == ModelOf(s.tier)
       IN  /\ s.tier \in {"cheap", "strong"}
           /\ ~s.conditional /\ s.when = Absent /\ s.produces = Nothing /\ s.consumes = {}
           /\ s.capabilities = Absent /\ ~s.exclusive
           /\ ~root => s.component_calls = <<>>
           /\ model \in n.requires /\ n.requires \cap Models = {model} /\ "llm:per_step_tier" \notin n.requires
           /\ root => n.requires \subseteq {model, "component_invocation"} /\ n.actions = {}

validate_hybrid_ir(ir, entry) ==
    /\ ir.current /\ ir.slots = <<>> /\ ir.ceiling = Absent
    /\ Distinct(ir.nodes) /\ entry \in IdsOf(ir.nodes)
    /\ LET root == Named(ir.nodes, entry)
       IN  /\ validate_hybrid_node(root, TRUE)
           /\ HasCalls(root) /\ "component_invocation" \in root.requires
           /\ IsInjective([i \in DOMAIN root.steps[1].component_calls |-> root.steps[1].component_calls[i].alias])
           /\ \A c \in ToSet(Calls(root)) : c \in IdsOf(ir.nodes) /\ validate_hybrid_node(Named(ir.nodes, c), FALSE)

validate_model(m, zone) ==
    /\ m.zone = zone
    /\ m.api \in {"openai-completions", "anthropic-messages"} /\ (zone = "private" => m.api = "openai-completions")
    /\ m.url \in {"https", "loopback"}

\* Each project brings one private model for each callee, at the tier of its step.
validate_config(config, ir) ==
    LET callees == ToSet(Calls(Named(ir.nodes, config.entry)))
    IN  /\ config.known /\ config.adapter \in {"pinned", "changed"}
        /\ config.defaults.policy \in config.selections /\ config.defaults.model \in DOMAIN config.models
        /\ config.defaults.project \in DOMAIN config.projects
        /\ \A m \in DOMAIN config.models : validate_model(config.models[m], "public")
        /\ \A p \in DOMAIN config.projects :
             LET private == config.projects[p]
             IN  /\ DOMAIN private = callees
                 /\ \A c \in callees :
                      LET tier == Named(ir.nodes, c).steps[1].tier
                      IN  DOMAIN private[c] = {tier} /\ validate_model(private[c][tier], "private")

emit_pi_hybrid(ir, config) ==
    validate_hybrid_ir(ir, config.entry) /\ validate_config(config, ir) /\ config.adapter = "pinned"

-------------------------------------------------------------------------------
(* The commands.  `out` is what the user has at the output.  A plan is created,    *)
(* never overwritten, and taken away when it cannot be written; the bundle for     *)
(* vercel is overwritten.                                                         *)

Planned(a) ==
    CASE a.form = "session" -> produce_session(a.ir, a.host, a.entry, a.supply)
      [] a.form = "hosted" -> prepare_hosted_vercel(a.ir, a.host, a.target, a.providers)
      [] a.form = "native" -> emit_with_host(a.ir, a.host, a.target, a.entry)
      [] a.form = "hybrid" -> [ok |-> emit_pi_hybrid(a.ir, a.config)]

\* A native session is delivered by AssetDelivery.
Left(a, ok) ==
    CASE ~ok \/ a.form = "native" \/ (a.out = "theirs" /\ a.form # "hosted") -> a.out
      [] a.disk = "full" -> IF a.form = "hosted" THEN "part" ELSE Nothing
      [] OTHER -> "plan"

Written(a, plan) == [plan |-> plan, out |-> Left(a, plan.ok)]

run_plan(a) == Written(a, Planned(a))

-------------------------------------------------------------------------------
(* What a plan promises to the host that executes it.                          *)

\* The components that a chain of n calls leads to.
Led(nodes, roots) ==
    LET led[n \in 0 .. MaxDepth + 1] ==
            IF n = 0 THEN roots
            ELSE UNION {ToSet(Calls(Named(nodes, id))) : id \in led[n - 1] \cap IdsOf(nodes)}
    IN  led

\* A closure is accepted when no chain of calls is too long, none comes back to where it
\* has been and none leads out of the profile, in whatever order the callees were met;
\* and it is then all that the roots reach.
ClosureIsHonest(nodes, roots) ==
    LET led == Led(nodes, ToSet(roots))
        met == UNION {led[n] : n \in DOMAIN led}
        closure == Closure(nodes, roots)
    IN  /\ closure.ok <=> led[MaxDepth + 1] = {} /\ met \subseteq IdsOf(nodes)
        /\ closure.ok => closure.met = met

\* Whichever steps fail: every step that is executed finds what it consumes, from one
\* producer that was executed before it, and a repair follows the step that it mends.
RunsDry(plan) ==
    LET s == [i \in DOMAIN plan.steps |-> plan.steps[i].step]
        Executed(failed) == {i \in DOMAIN s : plan.steps[i].realization = "independent" \/ i - 1 \in failed}
    IN  \A failed \in SUBSET DOMAIN s : \A i \in Executed(failed) :
          /\ \A x \in s[i].consumes : \E j \in Executed(failed) : j < i /\ s[j].produces = x
          /\ \A j \in Executed(failed) : i # j /\ s[i].produces # Nothing => s[i].produces # s[j].produces

\* A step has no tool that can do what the step may not, and no call that could be taken
\* for a tool; it stays below the ceiling and its component, and calls only what is planned.
StepsAreBounded(ir, plan, planned, Grants(_)) ==
    \A i \in DOMAIN plan.steps :
        LET s == plan.steps[i]
            calls == ToSet(s.step.component_calls)
        IN  /\ s.capabilities \subseteq plan.node.requires
            /\ ir.ceiling # Absent => s.capabilities \subseteq ir.ceiling[1]
            /\ \A t \in s.tools : Grants(t) # {} /\ Grants(t) \subseteq s.capabilities
            /\ \A c \in calls : /\ c.alias \notin s.tools /\ c.component \in planned
                                /\ "component_invocation" \in s.capabilities

\* No component that another one calls can persist anything, also where it is a root.
OnlyRootsPersist(plans) ==
    LET called == UNION {ToSet(Calls(plans[id].node)) : id \in DOMAIN plans}
    IN  \A id \in called \cap DOMAIN plans : ~Persists(plans[id].node)

SessionIsSound(ir, host, entry, r) ==
    LET contract(id) == IF host.version = "2" THEN host.components[id] ELSE host
        Grants(id, t) == {c \in DOMAIN contract(id).capabilities : contract(id).capabilities[c] = t}
    IN  /\ host.version = "2" /\ entry \in IdsOf(ir.nodes) /\ Distinct(ir.nodes) => ClosureIsHonest(ir.nodes, <<entry>>)
        /\ OnlyRootsPersist(r.plans) /\ r.ok => entry \in DOMAIN r.plans
        /\ \A id \in DOMAIN r.plans :
             /\ RunsDry(r.plans[id])
             /\ StepsAreBounded(ir, r.plans[id], DOMAIN r.plans, LAMBDA t : Grants(id, t))

HostedIsSound(a, r) ==
    LET Grants(t) == IF t \in DOMAIN a.host.authority THEN a.host.authority[t].capabilities ELSE {}
    IN  /\ Distinct(a.ir.nodes) => ClosureIsHonest(a.ir.nodes, SetToSeq({n.id : n \in {m \in ToSet(a.ir.nodes) : m.entrypoint}}))
        /\ OnlyRootsPersist(r.plans) /\ r.roots \subseteq DOMAIN r.plans
        /\ \A id \in DOMAIN r.plans :
             RunsDry(r.plans[id]) /\ StepsAreBounded(a.ir, r.plans[id], DOMAIN r.plans, Grants)

\* A component of a native session that calls others is run by the host, never by the
\* conversation; and what one session persists no other session calls.
NativeIsSound(a, r) ==
    LET plans == UNION {ToSet(<<r.sessions[id].plans>>) : id \in DOMAIN r.sessions}
        called == UNION {UNION {ToSet(Calls(p[id].node)) : id \in DOMAIN p} : p \in plans}
    IN  /\ \A id \in r.emitted : HasCalls(Named(a.ir.nodes, id)) => id \in DOMAIN r.sessions
        /\ DOMAIN r.sessions \subseteq r.emitted
        /\ \A p \in plans : \A id \in DOMAIN p : Persists(p[id].node) => id \notin called
        /\ \A id \in DOMAIN r.sessions : SessionIsSound(a.ir, a.host.roots[id], id, r.sessions[id])

\* The component on a public model holds nothing but its calls; what it calls, calls
\* nothing, and has a private model in every project.
HybridIsSound(a, r) ==
    r.ok =>
        LET root == Named(a.ir.nodes, a.config.entry)
        IN  /\ root.requires \subseteq Models \cup {"component_invocation"} /\ ~Persists(root)
            /\ \A c \in ToSet(Calls(root)) : ~HasCalls(Named(a.ir.nodes, c))
            /\ \A p \in DOMAIN a.config.projects, c \in ToSet(Calls(root)) :
                 \A i \in DOMAIN Named(a.ir.nodes, c).steps :
                    LET private == a.config.projects[p][c]
                        tier == Named(a.ir.nodes, c).steps[i].tier
                    IN  tier \in DOMAIN private /\ private[tier].zone = "private"

\* A refused plan and a full disk leave nothing behind, and a plan never replaces a file.
PlanIsNew(a, r) ==
    a.form \in {"session", "hybrid"} =>
        r.out = (IF a.out = "theirs" THEN "theirs" ELSE IF r.plan.ok /\ a.disk # "full" THEN "plan" ELSE Nothing)

\* All that a host is promised about what it is given.
PlansKeepTheirWord(a, r) ==
    /\ PlanIsNew(a, r)
    /\ CASE a.form = "session" -> SessionIsSound(a.ir, a.host, a.entry, r.plan)
         [] a.form = "hosted" -> HostedIsSound(a, r.plan)
         [] a.form = "native" -> NativeIsSound(a, r.plan)
         [] a.form = "hybrid" -> HybridIsSound(a, r.plan)
===============================================================================
