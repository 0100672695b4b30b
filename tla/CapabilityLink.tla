----------------------------- MODULE CapabilityLink -----------------------------
(***************************************************************************)
(* Whether a compiled profile may run on a target.  Each back-end asks before  *)
(* it writes anything: the table of what its target supports (targets.rs), the  *)
(* provider fragments laid over it (provider.rs), what each component requires  *)
(* by word and by shape (resolve.rs), and the guards of its emitter             *)
(* (claude-code-cli: emit/mod.rs, codex.rs, pi.rs; vercel: emit.rs).            *)
(*                                                                          *)
(* A host that runs component calls itself (native_host.rs, hosted.rs) and the  *)
(* pi:hybrid target are in HostPlans.                                         *)
(***************************************************************************)
EXTENDS Naturals, Sequences, SequencesExt, FiniteSets, Selections

CapabilityEntry(outcome, critical, via) == [outcome |-> outcome, critical |-> critical, via |-> via]
SafetyCritical == {"human_approval", "write_authz", "context_write_authz", "artifact_write",
                   "blast_radius", "enrichment_apply:deterministic"}

CapabilityProfile(fails, native, degraded, via) ==
    [c \in fails \cup native \cup degraded \cup via |->
        CapabilityEntry(CASE c \in fails -> "fail" [] c \in native -> "native"
                          [] c \in degraded -> "degrade" [] OTHER -> "realize_via",
                        c \in SafetyCritical, "")]

Tiers == {"llm:strong", "llm:cheap"}
NotForAnyTarget == {"component_invocation", "blast_radius"}
Writes == {"write_authz", "context_write_authz", "artifact_write", "version_control"}
Transports == {"scheduler", "event_bus", "notify_channel"}
Layer == {"semantic_introspection", "source_connect", "context_validate", "context_build"}

headless_profile ==
    CapabilityProfile(NotForAnyTarget \cup {"human_approval"},
        Tiers \cup {"sql_execution:read_only", "genbi_build", "structured_output_capture"}, {},
        Writes \cup Transports \cup {"semantic_introspection", "schema_introspection", "llm:per_step_tier",
            "llm:per_step_provider", "render_contract", "context_isolation"})
interactive_profile ==
    CapabilityProfile(NotForAnyTarget,
        Tiers \cup {"sql_execution:read_only", "genbi_build", "raw_material_read", "human_approval"},
        {"render_contract", "structured_output_capture"},
        Writes \cup Transports \cup Layer \cup {"schema_introspection", "enrichment_apply:deterministic",
            "llm:per_step_tier", "llm:per_step_provider", "context_isolation"})
codex_interactive_profile ==
    CapabilityProfile(NotForAnyTarget, Tiers \cup {"human_approval"}, {"render_contract"},
        (Writes \ {"write_authz"}) \cup Layer \cup {"sql_execution:read_only", "genbi_build",
            "raw_material_read", "llm:per_step_tier", "enrichment_apply:deterministic"})
pi_interactive_profile ==
    CapabilityProfile(NotForAnyTarget \cup Layer \cup {"raw_material_read", "context_write_authz",
            "version_control", "human_approval", "enrichment_apply:deterministic"},
        Tiers, {"llm:per_step_tier", "render_contract"},
        {"sql_execution:read_only", "genbi_build", "artifact_write"})
vercel_headless_profile ==
    CapabilityProfile(NotForAnyTarget \cup {"human_approval"},
        Tiers \cup {"render_contract", "structured_output_capture"}, {}, Writes \cup {"llm:per_step_tier"})
vercel_interactive_profile ==
    CapabilityProfile(NotForAnyTarget,
        Tiers \cup {"render_contract", "structured_output_capture", "human_approval"}, {},
        Writes \cup {"llm:per_step_tier"})

Vercel == {"vercel:headless", "vercel:interactive"}
Targets == Vercel \cup {"claude-code:headless", "claude-code:interactive", "codex:interactive", "pi:interactive"}
Mode(target) == IF target \in {"claude-code:headless", "vercel:headless"} THEN "headless" ELSE "interactive"
Engine(target) == IF target \in Vercel THEN "vercel" ELSE "claude-code"

BaseProfile0(target) ==
    CASE target = "claude-code:headless" -> headless_profile
      [] target = "claude-code:interactive" -> interactive_profile
      [] target = "codex:interactive" -> codex_interactive_profile
      [] target = "pi:interactive" -> pi_interactive_profile
      [] target = "vercel:headless" -> vercel_headless_profile
      [] OTHER -> vercel_interactive_profile
base_tool_map(target) == IF target \in Vercel THEN {"artifact_write", "version_control"} ELSE {}

-------------------------------------------------------------------------------
(* provider.rs.  A fragment brings entries, and tools that a source serves; an   *)
(* mcp source names its server, a tool's name may be spelled after a server.     *)

ProviderFragment(provider, entries, tools) ==
    [provider |-> provider, engine |-> "claude-code", mode |-> "", entries |-> entries, tools |-> tools]
ToolBindingSpec(source, server, spelled) == [source |-> source, server |-> server, spelled |-> spelled]

validate_source_grammar(tool) == tool.source # "malformed"
validate_via_source_coherence(profile, c, tool) ==
    tool.source = "mcp" => c \in DOMAIN profile /\ profile[c].via = tool.server
validate_names_match_source(target, tool) ==
    Engine(target) = "claude-code" =>
        tool.spelled # {} /\ (tool.source = "mcp" => tool.spelled = {tool.server})

\* Mutant: only what the base target supports is its own.
LocksWhatItOffers(base, c) == c \in DOMAIN base /\ base[c].outcome # "fail"

base_locks_capability(base, c) == c \in DOMAIN base /\ (base[c].critical \/ base[c].outcome # "fail")

\* A capability has one source, and a source is its place in the list.
claim_capability(claimed, c, i) == c \in DOMAIN claimed => claimed[c] = i

Applies(target, fragment) == fragment.mode \in {"", Mode(target)}

\* What the fragments so far come to.
Composition(ok, profile, tools, claimed) ==
    [ok |-> ok, profile |-> profile, tools |-> tools, claimed |-> claimed]

LaidOver(top, below) ==
    [c \in DOMAIN top \cup DOMAIN below |-> IF c \in DOMAIN top THEN top[c] ELSE below[c]]
Claims(fragment) == DOMAIN fragment.entries \cup DOMAIN fragment.tools

\* One fragment, its entries before its tools.
Laid(target, s, f, i) ==
    LET base == BaseProfile0(target)
        profile == LaidOver(f.entries, s.profile)
        Free(c) == ~base_locks_capability(base, c) /\ claim_capability(s.claimed, c, i)
        Sound(c) == /\ validate_source_grammar(f.tools[c])
                    /\ validate_via_source_coherence(profile, c, f.tools[c])
                    /\ validate_names_match_source(target, f.tools[c])
                    /\ Free(c) /\ c \notin base_tool_map(target)
                    /\ c \in DOMAIN profile
    IN  IF ~s.ok \/ f.engine # Engine(target) THEN Composition(FALSE, s.profile, s.tools, s.claimed)
        ELSE IF ~Applies(target, f) THEN s
        ELSE Composition(/\ \A c \in DOMAIN f.entries : Free(c)
                         /\ \A c \in DOMAIN f.tools : Sound(c),
                         profile, LaidOver(f.tools, s.tools), LaidOver([c \in Claims(f) |-> i], s.claimed))

compose_target(target, providers) ==
    LET laid[n \in 0 .. Len(providers)] ==
            IF n = 0 THEN Composition(TRUE, BaseProfile0(target), <<>>, <<>>)
            ELSE Laid(target, laid[n - 1], providers[n], n)
    IN  laid[Len(providers)]

-------------------------------------------------------------------------------
(* resolve.rs.  `fine` is whether the binding's lineage is resolvable: the node's *)
(* own where it has one, and in the claude-code emitter the profile's else.       *)

ComponentNode(id, requires) ==
    [id |-> id, verb |-> id, entrypoint |-> TRUE, kind |-> "skill", tiers |-> {"cheap"}, trigger |-> "one_shot",
     emits |-> FALSE, renders |-> FALSE, outcome |-> "none", writes |-> "", requires |-> requires,
     invokes |-> FALSE, templated |-> FALSE, guarded |-> "none", plain |-> TRUE, serves |-> TRUE, binding |-> "none"]

should_split_per_step_tier(n) == Cardinality(n.tiers) > 1
should_isolate(n) == "context_isolation" \in n.requires

implied_capabilities(n) ==
    UNION {IF should_split_per_step_tier(n) THEN {"llm:per_step_tier"} ELSE {},
           IF n.trigger = "scheduled" THEN {"scheduler"} ELSE {},
           IF n.trigger = "event" \/ n.emits THEN {"event_bus"} ELSE {},
           IF n.renders THEN {"render_contract"} ELSE {},
           IF n.outcome = "mutation"
           THEN {"version_control", IF n.writes = "context" THEN "context_write_authz" ELSE "write_authz"}
           ELSE {}}
collect_required_capabilities(n) == n.requires \cup implied_capabilities(n)

Outcome(c, fine, profile) ==
    IF c = "blast_radius" THEN (IF fine THEN "native" ELSE "fail")
    ELSE IF c \in DOMAIN profile THEN profile[c].outcome ELSE "fail"

resolve_capabilities(n, fine, profile) ==
    \A c \in collect_required_capabilities(n) : Outcome(c, fine, profile) # "fail"

has_fine_grained_binding(n) == n.binding = "fine"
resolve_node_with_shared_binding(a, n, profile) ==
    resolve_capabilities(n, IF n.binding = "none" THEN a.binding = "fine" ELSE has_fine_grained_binding(n), profile)

-------------------------------------------------------------------------------
(* interactive.rs: a purpose pins an entry, or enters the whole scope.           *)

is_native_entry_eligible(n) ==
    /\ n.id = n.verb /\ n.kind = "skill" /\ n.trigger = "one_shot" /\ n.outcome = "none"
    /\ "enrichment_apply:deterministic" \notin n.requires

Entries(nodes) == Picked(nodes, {i \in DOMAIN nodes : nodes[i].entrypoint})
CalledBy(nodes, verb) == Picked(nodes, {i \in DOMAIN nodes : nodes[i].verb = verb})
KnownAs(nodes, id) == Picked(nodes, {i \in DOMAIN nodes : nodes[i].id = id})

validate_profile(a, entries) ==
    IF a.pinned # ""
    THEN LET named == CalledBy(entries, a.pinned)
         IN  Len(named) = 1 /\ is_native_entry_eligible(named[1])
    ELSE Cardinality({i \in DOMAIN entries : is_native_entry_eligible(entries[i])}) > 1

\* The verb is looked up among all entries before the others are put aside.
Projected(a) ==
    LET entries == Entries(a.nodes)
    IN  IF a.purpose # "" /\ a.pinned # "" THEN KnownAs(entries, a.pinned) ELSE entries
PurposeHolds(a) ==
    a.purpose # "" => validate_profile(a, Entries(a.nodes)) /\ validate_profile(a, Projected(a))

reject_unsupported_component_composition(nodes) == \A i \in DOMAIN nodes : ~nodes[i].invokes
Materializable(nodes) ==
    Picked(nodes, {i \in DOMAIN nodes : "enrichment_apply:deterministic" \notin nodes[i].requires})
Each(nodes, Holds(_)) == \A i \in DOMAIN nodes : Holds(nodes[i])

-------------------------------------------------------------------------------
(* The emitters.  `models` binds a tier to its provider.                         *)

validate_models(a, nodes) == Each(nodes, LAMBDA n : n.tiers \subseteq DOMAIN a.models)
AllAnthropic(a, nodes) == Each(nodes, LAMBDA n : \A t \in n.tiers : a.models[t] = "anthropic")
require_per_step_provider_support(a, nodes) ==
    "llm:per_step_provider" \in DOMAIN BaseProfile0(a.target) \/ AllAnthropic(a, nodes)

\* A profile without a context runs only where nothing is borrowed from one.
BorrowsNothing(models, n) ==
    /\ n.plain /\ n.kind = "skill" /\ n.trigger = "one_shot" /\ n.outcome = "none"
    /\ ~n.renders /\ ~n.invokes /\ n.guarded = "none" /\ Cardinality(n.tiers) = 1
    /\ n.requires \subseteq {"llm:per_step_tier", "llm:per_step_provider"} \cup Tiers
    /\ n.tiers \subseteq DOMAIN models /\ \A t \in n.tiers : models[t] = "anthropic"
ContextFree(a) ==
    /\ a.target \in {"claude-code:headless", "claude-code:interactive"} /\ a.purpose = "" /\ a.providers = <<>>
    /\ Each(a.nodes, LAMBDA n : BorrowsNothing(a.models, n))

realization_supported(n) == n.kind \in {"skill", "tool", "gated-tool"}
trigger_supported(n) == n.trigger \in {"one_shot", "scheduled"}
outcome_supported(n) == n.outcome \in {"none", "assertion", "mutation"}
EnumsSupported(nodes) ==
    Each(nodes, LAMBDA n : realization_supported(n) /\ trigger_supported(n) /\ outcome_supported(n))

\* What a back-end answers: whether it dispatches, which components, with which table.
Answer(ok, nodes, link) == [ok |-> ok, nodes |-> nodes, profile |-> link.profile, tools |-> link.tools]
NoFragments(a) == [ok |-> a.providers = <<>>, profile |-> BaseProfile0(a.target), tools |-> <<>>]

RunsInClaudeCode(a, entries, nodes, link) ==
    /\ a.context = "absent" => ContextFree(a)
    /\ PurposeHolds(a)
    /\ a.purpose # "" => a.target = "claude-code:interactive"
    /\ reject_unsupported_component_composition(entries)
    /\ a.target = "claude-code:interactive" => nodes # <<>>
    /\ Each(nodes, LAMBDA n : ~n.templated)
    /\ validate_models(a, nodes)
    /\ Each(nodes, LAMBDA n : should_split_per_step_tier(n) \/ should_isolate(n)
                                 => "orchestrator" \in DOMAIN a.models)
    /\ require_per_step_provider_support(a, nodes)
    /\ EnumsSupported(nodes)
    /\ link.ok
    /\ Each(nodes, LAMBDA n : /\ ~(n.kind = "gated-tool" /\ should_split_per_step_tier(n))
                              /\ resolve_node_with_shared_binding(a, n, link.profile))
emit_claude_code(a) ==
    LET entries == Projected(a)
        nodes == IF a.target = "claude-code:interactive" THEN Materializable(entries) ELSE entries
        link == compose_target(a.target, a.providers)
    IN  Answer(RunsInClaudeCode(a, entries, nodes, link), nodes, link)

RunsInCodex(a, entries, nodes, link) ==
    /\ link.ok /\ a.context = "bound"
    /\ PurposeHolds(a) /\ (a.purpose # "" => a.pinned # "")
    /\ reject_unsupported_component_composition(entries)
    /\ nodes # <<>>
    /\ Each(nodes, LAMBDA n : /\ n.trigger = "one_shot" /\ n.kind \in {"skill", "gated-tool"}
                              /\ n.outcome \in {"none", "mutation"}
                              /\ resolve_capabilities(n, has_fine_grained_binding(n), link.profile))
emit_codex_interactive(a) ==
    LET entries == Projected(a)
        nodes == Materializable(entries)
        link == NoFragments(a)
    IN  Answer(RunsInCodex(a, entries, nodes, link), nodes, link)

\* A pi session has one component, and no tools but those that its shape earns it.
RunsInPi(a, nodes, link) ==
    /\ link.ok /\ a.context = "bound"
    /\ a.purpose = "analysis" /\ a.pinned # "" /\ PurposeHolds(a)
    /\ reject_unsupported_component_composition(nodes)
    /\ nodes # <<>>
    /\ resolve_capabilities(nodes[1], has_fine_grained_binding(nodes[1]), link.profile)
    /\ nodes[1].serves
emit_pi_interactive(a) ==
    LET nodes == Projected(a)
        link == NoFragments(a)
    IN  Answer(RunsInPi(a, nodes, link), nodes, link)

check_conditional_shapes(n) == n.guarded \in {"none", "guarded"}

RunsOnVercel(a, nodes, link) ==
    /\ a.context = "bound" /\ a.purpose = ""
    /\ reject_unsupported_component_composition(nodes)
    /\ link.ok /\ EnumsSupported(nodes)
    /\ Each(nodes, LAMBDA n : /\ check_conditional_shapes(n)
                              /\ resolve_capabilities(n, has_fine_grained_binding(n), link.profile))
emit_vercel(a) ==
    LET nodes == Entries(a.nodes)
        link == compose_target(a.target, a.providers)
    IN  Answer(RunsOnVercel(a, nodes, link), nodes, link)

run_dispatch(a) ==
    CASE a.target \in Vercel -> emit_vercel(a)
      [] a.target = "codex:interactive" -> emit_codex_interactive(a)
      [] a.target = "pi:interactive" -> emit_pi_interactive(a)
      [] OTHER -> emit_claude_code(a)

-------------------------------------------------------------------------------
\* Who supports a capability that is not the binding's: the target, or one fragment
\* of the right mode where the target does not and where no safety depends on it.
Suppliers(a, c) ==
    {i \in DOMAIN a.providers : Applies(a.target, a.providers[i]) /\ c \in DOMAIN a.providers[i].entries}
Supported(a, c) ==
    LET base == BaseProfile0(a.target)
        own == c \in DOMAIN base /\ base[c].outcome # "fail"
    IN  \/ own /\ Suppliers(a, c) = {}
        \/ /\ ~own /\ (c \in DOMAIN base => c \notin SafetyCritical)
           /\ Cardinality(Suppliers(a, c)) = 1
           /\ \A i \in Suppliers(a, c) : a.providers[i].entries[c].outcome # "fail"

\* Nothing that is dispatched was weakened on the way: all that a component requires,
\* by word or by shape, is supported, the protective part of it by the target itself;
\* a change that must be gated by its reach has a lineage to reckon with; a component
\* that would call another is not started without a host; steps of a gated tool do
\* not run apart; a pinned entry is the only one of its verb, and runs alone; and
\* tools reach a server that the report names.
NothingIsWeakened(a, r) ==
    LET used == UNION {collect_required_capabilities(r.nodes[i]) : i \in DOMAIN r.nodes}
    IN  r.ok =>
          /\ \A c \in used \ {"blast_radius"} : Supported(a, c)
          /\ \A i \in DOMAIN r.nodes :
               /\ "blast_radius" \in r.nodes[i].requires => "fine" \in {a.binding, r.nodes[i].binding}
               /\ ~r.nodes[i].invokes /\ r.nodes[i].entrypoint
               /\ Engine(a.target) = "claude-code" /\ Mode(a.target) = "headless" =>
                    ~(r.nodes[i].kind = "gated-tool" /\ "llm:per_step_tier" \in implied_capabilities(r.nodes[i]))
          /\ a.purpose # "" /\ a.pinned # "" =>
               Len(r.nodes) = 1 /\ Len(CalledBy(Entries(a.nodes), a.pinned)) = 1
          /\ \A c \in used \cap DOMAIN r.tools :
               r.tools[c].source = "mcp" => r.profile[c].via = r.tools[c].server

\* The order in which fragments are named does not matter: it changes neither whether
\* a profile is dispatched nor with what, so no file silently overrides another.
Reordered(a) ==
    [target |-> a.target, nodes |-> a.nodes, providers |-> Reverse(a.providers), context |-> a.context,
     binding |-> a.binding, models |-> a.models, purpose |-> a.purpose, pinned |-> a.pinned]
FragmentOrderIsImmaterial(a, r) ==
    LET s == run_dispatch(Reordered(a))
    IN  (r.ok <=> s.ok) /\ (r.ok => r = s)
===============================================================================
