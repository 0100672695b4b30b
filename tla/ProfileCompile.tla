----------------------------- MODULE ProfileCompile -----------------------------
(***************************************************************************)
(* compile (core/src/compile.rs) with the authored types it resolves         *)
(* (core/src/model.rs): a profile, its mounts and their components become an  *)
(* intermediate representation, or the first fault found is reported.  Two   *)
(* parts are modules of their own: the call graph is CallGraph, the order of  *)
(* the steps is StepPlan.                                                    *)
(*                                                                          *)
(* A text is a set of pieces; what the host read from a file is kept at the  *)
(* declaration that names the file.  Fields that are passed on unread (verb, *)
(* outcome, render blocks, evaluation, trigger) are left out.                *)
(***************************************************************************)
EXTENDS SemanticContext, FiniteSets

CONSTANT WellNamed      \* the names that match [a-z_][a-z0-9_]*

-------------------------------------------------------------------------------
(* Authored shapes.                                                          *)

Piece(is, name) == [is |-> is, name |-> name]
Absent == {Piece("absent", NotGiven)}
Blank == {}
Words == {Piece("words", NotGiven)}
SlotRef(name) == Piece("slot", name)
Given(text) == text # Absent

Param(name, bind, source, default) ==
    [name |-> name, bind |-> bind, source |-> source, default |-> default]
NoDefault == [is |-> "nothing", v |-> NotGiven]

Guardrail(name, locked, overridable) ==
    [name |-> name, locked |-> locked, overridable |-> overridable]

SlotDecl(name, variants, default) == [name |-> name, variants |-> variants, default |-> default]

AssetDecl(path, hash) == [path |-> path, hash |-> hash]

\* form: which of prompt and prompt_ref are written.
LlmStep(name, form, prompt, capabilities, calls) ==
    [name |-> name, tier |-> "cheap", form |-> form, prompt |-> prompt,
     capabilities |-> capabilities, calls |-> calls, produces |-> NotGiven, exclusive |-> FALSE]

ComponentFile(id, steps) ==
    [id |-> id, preconditions |-> <<>>, requirements |-> {}, params |-> <<>>, steps |-> steps,
     guardrails |-> <<>>, capabilities |-> {}, brief |-> Absent, description |-> Absent,
     examples |-> {}, slots |-> <<>>, assets |-> <<>>, dataflow |-> TRUE]

ProfileComponentMount(id) ==
    [use |-> id, entrypoint |-> TRUE, config |-> FALSE, bind |-> <<>>, tiers |-> <<>>,
     guardrails |-> <<>>, brief |-> Absent]

ProfileFile(bound, mounts) ==
    [context |-> bound, system_prompt |-> Absent, slots |-> <<>>,
     ceiling |-> [given |-> FALSE, admits |-> {}], components |-> mounts]

-------------------------------------------------------------------------------
(* Prompt text.                                                              *)

is_slot_name(name) == name \in WellNamed

\* Three forms, trimmed, are recognised inside double braces.
check_template_syntax(text) ==
    \A p \in text : /\ p.is \notin {"statement", "unknown"}
                    /\ p.is = "slot" => is_slot_name(p.name)

slot_references(text) == {p.name : p \in {q \in text : q.is = "slot" /\ is_slot_name(q.name)}}

Placeholders == {"project", "project_name"}

\* Only the form without blanks is replaced; it needs a project to be replaced with.
Rendered(text, project) ==
    {IF p.is = "project" THEN Piece("project_value", project)
     ELSE IF p.is = "project_name" THEN Piece("project_name_value", project) ELSE p : p \in text}
render_placeholders(text, project) ==
    [ok |-> /\ check_template_syntax(text)
            /\ project = NotGiven => \A p \in text : p.is \notin Placeholders,
     text |-> Rendered(text, project)]
Renders(text, project) == Given(text) => render_placeholders(text, project).ok

\* The text shared by all components comes before what is left of the component's own.
Own(component, mount) == IF Given(mount.brief) THEN mount.brief ELSE component.brief
render_brief(profile, component, mount, project) ==
    LET own == Own(component, mount)
        shared == IF profile.system_prompt = Blank THEN Absent ELSE profile.system_prompt
    IN  [ok |-> Renders(own, project) /\ Renders(profile.system_prompt, project),
         text |-> IF ~Given(shared) THEN Rendered(own, project)
                  ELSE Rendered(shared, project) \cup (IF Given(own) THEN Rendered(own, project) ELSE {})]

-------------------------------------------------------------------------------
(* Slots.                                                                    *)

Names(s) == {s[i].name : i \in DOMAIN s}
VariantTexts(slots) ==
    UNION {{slots[i].variants[k] : k \in DOMAIN slots[i].variants} : i \in DOMAIN slots}
References(texts) == UNION {slot_references(t) : t \in {u \in texts : Given(u)}}

check_slot_shape(slot) ==
    is_slot_name(slot.name) /\ DOMAIN slot.variants # {} /\ slot.default \in DOMAIN slot.variants

\* Names once, in shape, every variant read; what is referenced is what is declared.
SlotsLineUp(slots, referenced) ==
    /\ \A i, j \in DOMAIN slots : slots[i].name = slots[j].name => i = j
    /\ \A i \in DOMAIN slots : check_slot_shape(slots[i])
    /\ \A t \in VariantTexts(slots) : Given(t)
    /\ referenced = Names(slots)

\* Mutant: what a variant of a slot refers to is not asked for.
ReferredOutsideVariants(component, mount) ==
    References({component.steps[i].prompt : i \in DOMAIN component.steps} \cup {Own(component, mount)})

component_slot_reference_names(component, mount) ==
    References({component.steps[i].prompt : i \in DOMAIN component.steps}
               \cup {Own(component, mount)} \cup VariantTexts(component.slots))

check_component_slots(component, mount) ==
    SlotsLineUp(component.slots, component_slot_reference_names(component, mount))

check_profile_slots(profile, components) ==
    /\ SlotsLineUp(profile.slots, References({profile.system_prompt} \cup VariantTexts(profile.slots)))
    /\ \A i \in DOMAIN profile.components :
         profile.components[i].use \in DOMAIN components =>
             Names(profile.slots) \cap Names(components[profile.components[i].use].slots) = {}

render_slots(slots, project) ==
    [ok |-> \A t \in VariantTexts(slots) : Renders(t, project),
     slots |-> [i \in DOMAIN slots |->
                   SlotDecl(slots[i].name,
                            [k \in DOMAIN slots[i].variants |-> Rendered(slots[i].variants[k], project)],
                            slots[i].default)]]

render_assets(assets) == \A i \in DOMAIN assets : assets[i].hash # NotGiven

-------------------------------------------------------------------------------
(* Parameters and preconditions.                                             *)

check_param_sources(component) ==
    \A i \in DOMAIN component.params :
        LET p == component.params[i]
        IN  IF p.bind = NotGiven THEN p.source = "runtime-injected" ELSE p.source = NotGiven

check_required_binds(component, mount) ==
    \A i \in DOMAIN component.params :
        component.params[i].bind = "required" => component.params[i].name \in DOMAIN mount.bind

Bindable(component) == {i \in DOMAIN component.params : component.params[i].source = NotGiven}
resolve_binds(component, mount) ==
    LET value(i) == LET p == component.params[i]
                    IN  IF p.name \in DOMAIN mount.bind THEN mount.bind[p.name] ELSE p.default
        bound == {i \in Bindable(component) : value(i) # NoDefault}
    IN  [n \in {component.params[i].name : i \in bound} |->
            value(CHOOSE i \in bound : component.params[i].name = n)]

\* An argument that references a parameter is given the parameter's value.
resolve_precondition_args(args, component, binds) ==
    LET refs == {k \in DOMAIN args : args[k].is = "reference"}
    IN  [declared |-> \A k \in refs : args[k].v \in Names(component.params),
         resolved |-> \A k \in refs : args[k].v \in DOMAIN binds,
         args |-> [k \in DOMAIN args |->
                      IF k \in refs /\ args[k].v \in DOMAIN binds THEN binds[args[k].v] ELSE args[k]]]

check_precondition_vocabulary(component) ==
    \A i \in DOMAIN component.preconditions :
        component.preconditions[i].predicate \in PRECONDITION_VOCABULARY

\* What each precondition comes to; compilation stops at the first that does not pass.
evaluate_preconditions(component, l, binds) ==
    [i \in DOMAIN component.preconditions |->
        LET pre == component.preconditions[i]
            r == resolve_precondition_args(pre.args, component, binds)
        IN  [outcome |-> IF ~r.declared THEN "undeclared"
                         ELSE IF ~r.resolved THEN "unanswerable"
                         ELSE eval_predicate(pre.predicate, r.args, l),
             condition |-> Precondition(pre.predicate, r.args)]]

FirstRefusal(outcomes) ==
    LET i == SelectInSeq(outcomes, LAMBDA o : o.outcome # "pass")
    IN  IF i = 0 THEN NotGiven ELSE outcomes[i].outcome

-------------------------------------------------------------------------------
(* Authority: capabilities and guardrails.                                   *)

COMPONENT_INVOCATION_CAPABILITY == "component_invocation"
Calling(calls) == IF calls = {} THEN {} ELSE {COMPONENT_INVOCATION_CAPABILITY}

effective_required_capabilities(component) ==
    component.capabilities \cup Calling(UNION {component.steps[i].calls : i \in DOMAIN component.steps})

\* Mutant: the ceiling is held against what is written, not against what is needed.
CeilingOnTheWritten(component, profile) ==
    profile.ceiling.given => component.capabilities \subseteq profile.ceiling.admits

check_capability_ceiling(component, profile) ==
    profile.ceiling.given => effective_required_capabilities(component) \subseteq profile.ceiling.admits

check_step_capabilities(component) ==
    \A i \in DOMAIN component.steps :
        /\ component.steps[i].capabilities \subseteq effective_required_capabilities(component)
        /\ component.steps[i].exclusive => component.steps[i].produces # NotGiven

\* locked and overridable are "yes", "no" or not given; they must not contradict.
resolve_guardrail_locked(g) ==
    [ok |-> /\ g.locked # NotGiven \/ g.overridable # NotGiven
            /\ g.locked # NotGiven /\ g.overridable # NotGiven => g.locked # g.overridable,
     locked |-> IF g.locked # NotGiven THEN g.locked = "yes" ELSE g.overridable = "no"]

resolve_guardrails(component, mount) ==
    LET Locked(i) == resolve_guardrail_locked(component.guardrails[i])
        Patched(i) == component.guardrails[i].name \in DOMAIN mount.guardrails
        Patch(i) == mount.guardrails[component.guardrails[i].name]
    IN  [ok |-> \A i \in DOMAIN component.guardrails : Locked(i).ok /\ (Patched(i) => ~Locked(i).locked),
         guardrails |-> [i \in DOMAIN component.guardrails |->
            [name |-> component.guardrails[i].name,
             locked |-> IF Patched(i) /\ Patch(i) # NotGiven THEN Patch(i) = "yes" ELSE Locked(i).locked]]]

check_selector_fields(component) ==
    LET Braced(t) == \E p \in t : p.is \notin {"words", "statement"}
        described == Given(component.description) /\ component.description # Blank
    IN  /\ component.examples \ {Blank} # {} => described
        /\ \A t \in component.examples \cup ({component.description} \ {Absent}) : ~Braced(t)

\* The patch of a mount reaches a step by the step's name.
resolve_llm_calls(component, mount, project) ==
    [i \in DOMAIN component.steps |->
        LET s == component.steps[i]
        IN  [name |-> s.name, prompt |-> Rendered(s.prompt, project), calls |-> s.calls,
             tier |-> IF s.name \in DOMAIN mount.tiers THEN mount.tiers[s.name] ELSE s.tier,
             capabilities |-> IF s.capabilities = {} THEN {} ELSE s.capabilities \cup Calling(s.calls)]]

-------------------------------------------------------------------------------
(* compile().                                                                *)

\* What CallGraph's walk decides: calls stay within the profile and come to an end.
check_component_composition(profile, components) ==
    LET mounted == {profile.components[i].use : i \in DOMAIN profile.components}
        called(c) == UNION {components[c].steps[i].calls : i \in DOMAIN components[c].steps}
    IN  /\ Cardinality(mounted) = Len(profile.components)
        /\ mounted \subseteq DOMAIN components
        /\ \A c \in mounted : called(c) \subseteq mounted \ {c}
        /\ \A s \in SUBSET mounted \ {{}} : \E c \in s : called(c) \cap s = {}

Fault(name, holds) == [fault |-> name, holds |-> holds]
FirstFault(faults) ==
    LET i == SelectInSeq(faults, LAMBDA f : ~f.holds) IN IF i = 0 THEN NotGiven ELSE faults[i].fault

ProfileFaults(profile, components, l) ==
    <<Fault("mounts_nothing", profile.context \/ profile.components # <<>>),
      Fault("unparseable", profile.context => l.parseable),
      Fault("profile_slots", check_profile_slots(profile, components)),
      Fault("composition", check_component_composition(profile, components))>>

\* A step has one text, and it says something.
check_step_prompts(component) ==
    \A i \in DOMAIN component.steps :
        component.steps[i].form \in {"prompt", "prompt_ref"} /\ component.steps[i].prompt # Blank

check_placeholders(profile, component, mount, project) ==
    /\ \A i \in DOMAIN component.steps : Renders(component.steps[i].prompt, project)
    /\ render_brief(profile, component, mount, project).ok
    /\ render_slots(component.slots, project).ok

\* In the order in which they are looked for.
MountFaults(profile, component, mount, project, l) ==
    LET outcomes == evaluate_preconditions(component, l, resolve_binds(component, mount))
    IN  <<Fault("config", ~mount.config),
          Fault("requires_context",
                profile.context \/ (component.preconditions = <<>> /\ component.requirements = {})),
          Fault("prompt", check_step_prompts(component)),
          Fault("vocabulary", check_precondition_vocabulary(component)),
          Fault("ceiling", check_capability_ceiling(component, profile)),
          Fault("param_source", check_param_sources(component)),
          Fault("selector_fields", check_selector_fields(component)),
          Fault("required_bind", check_required_binds(component, mount)),
          Fault("undeclared", FirstRefusal(outcomes) # "undeclared"),
          Fault("unanswerable", FirstRefusal(outcomes) # "unanswerable"),
          Fault("not_satisfied", FirstRefusal(outcomes) # "fail"),
          Fault("guardrail", resolve_guardrails(component, mount).ok),
          Fault("dataflow", component.dataflow),
          Fault("step_capabilities", check_step_capabilities(component)),
          Fault("component_slots", check_component_slots(component, mount)),
          Fault("placeholder", check_placeholders(profile, component, mount, project)),
          Fault("asset", render_assets(component.assets))>>

Node(profile, component, mount, project, l) ==
    LET binds == resolve_binds(component, mount)
        outcomes == evaluate_preconditions(component, l, binds)
    IN  [id |-> component.id, entrypoint |-> mount.entrypoint, binds |-> binds,
         preconditions |-> [i \in DOMAIN outcomes |-> outcomes[i].condition],
         llm_calls |-> resolve_llm_calls(component, mount, project),
         guardrails |-> resolve_guardrails(component, mount).guardrails,
         required_capabilities |-> effective_required_capabilities(component),
         brief |-> render_brief(profile, component, mount, project).text,
         slots |-> render_slots(component.slots, project).slots, assets |-> component.assets]

\* What the layer holds is left out when nothing looked at it: empty is a claim.
resolved_binding(l) ==
    IF ~was_introspected(l) THEN [given |-> FALSE]
    ELSE [given |-> TRUE, metrics |-> l.metrics, dimensions |-> l.dimensions,
          time_dimensions |-> l.time_dimensions, models |-> Names(l.models),
          nodes |-> Cardinality(l.lineage.nodes), edges |-> Cardinality(l.lineage.edges),
          resolvable |-> is_resolvable(l.lineage)]

\* A profile without a context has no project, whatever the host gives it.
ProjectOf(profile, project) == IF profile.context THEN project ELSE NotGiven

NoIR == [components |-> <<>>]
Refused(fault) == [ok |-> FALSE, fault |-> fault, ir |-> NoIR]

Emitted(profile, components, project, l) ==
    [project |-> project,
     resolved |-> IF profile.context THEN resolved_binding(l) ELSE [given |-> FALSE],
     ceiling |-> profile.ceiling, slots |-> render_slots(profile.slots, project).slots,
     components |-> [i \in DOMAIN profile.components |->
        LET m == profile.components[i] IN Node(profile, components[m.use], m, project, l)]]

compile(profile, components, as_authored, l) ==
    LET project == ProjectOf(profile, as_authored)
        early == FirstFault(ProfileFaults(profile, components, l))
        OfMount(m) == FirstFault(MountFaults(profile, components[m.use], m, project, l))
        faulty == SelectInSeq(profile.components, LAMBDA m : OfMount(m) # NotGiven)
    IN  IF early # NotGiven THEN Refused(early)
        ELSE IF faulty # 0 THEN Refused(OfMount(profile.components[faulty]))
        ELSE IF ~render_slots(profile.slots, project).ok THEN Refused("placeholder")
        ELSE [ok |-> TRUE, fault |-> NotGiven, ir |-> Emitted(profile, components, project, l)]
===============================================================================
