----------------------------- MODULE CompileAndAdmit -----------------------------
(***************************************************************************)
(* A project is compiled against the layer it is bound to, and a host that   *)
(* later runs the result asks once more, over its own snapshot of the layer  *)
(* (warble check-context).  Between the two the layer may have moved.        *)
(***************************************************************************)
EXTENDS ProfileCompile

CONSTANTS
    ProjectsCompiled, \* families of [profile, components, project, layer]
    Layers          \* what the layer may be when the host takes its snapshot

\* Mounts, preconditions and slots are written as lists, components are kept under their ids,
\* a guardrail may say whether it is locked, and every adapter keeps as time dimensions
\* the temporal ones of its dimensions.
WellKept(l) == l.time_dimensions = Temporal(l.dimensions)
WellFormed(given) ==
    /\ given.profile.components \in Seq(Range(given.profile.components))
    /\ given.profile.slots \in Seq(Range(given.profile.slots))
    /\ \A id \in DOMAIN given.components :
          LET component == given.components[id]
          IN  /\ component.id = id
              /\ component.preconditions \in Seq(Range(component.preconditions))
              /\ component.slots \in Seq(Range(component.slots))
              /\ \A g \in Range(component.guardrails) : g.locked \in {"yes", "no", NotGiven}
    /\ WellKept(given.layer)

ASSUME AuthoredAssumption == \A family \in ProjectsCompiled : \A given \in family : WellFormed(given)
ASSUME LayerAssumption == \A l \in Layers : WellKept(l)

VARIABLES authored, compiled, snapshot, admitted
admitVars == <<authored, compiled, snapshot, admitted>>

NotYet == [ok |-> FALSE, fault |-> "not_yet", ir |-> NoIR]

Uncompiled ==
    /\ compiled = NotYet
    /\ snapshot = NoContext
    /\ admitted = "no_answer"

AdmitInit == (\E family \in ProjectsCompiled : authored \in family) /\ Uncompiled
AdmitIdle == authored = <<>> /\ Uncompiled

CompileProject ==
    /\ compiled = NotYet
    /\ compiled' = compile(authored.profile, authored.components, authored.project, authored.layer)
    /\ UNCHANGED <<authored, snapshot, admitted>>

TakeSnapshot ==
    /\ compiled.ok /\ authored.profile.context /\ snapshot = NoContext
    /\ \E l \in Layers \cup {authored.layer} : snapshot' = l
    /\ UNCHANGED <<authored, compiled, admitted>>

Resolved(ir) == UNION {Range(ir.components[i].preconditions) : i \in DOMAIN ir.components}

CheckContext ==
    /\ snapshot # NoContext /\ admitted = "no_answer"
    /\ admitted' = IF context_check([version |-> 1, context |-> prepared_document_from(snapshot),
                                     preconditions |-> Resolved(compiled.ir)])
                   THEN "admitted" ELSE "refused"
    /\ UNCHANGED <<authored, compiled, snapshot>>

AdmitNext == CompileProject \/ TakeSnapshot \/ CheckContext
AdmitSpec == AdmitInit /\ [][AdmitNext]_admitVars

-------------------------------------------------------------------------------
(* Properties.                                                               *)

Conditions == Resolved(compiled.ir)

\* A selector that is no name, or an argument that still refers to a parameter.
Unnamed(c) ==
    \E k \in DOMAIN c.args :
        c.args[k].is = "reference" \/ (k = selector(c.predicate) /\ (~IsText(c.args[k]) \/ c.args[k].v = NotGiven))

\* What compile found to hold of a layer, a host that writes the same layer down
\* is told again, except where a name is missing and only the host minds; a host
\* is never admitted to a layer that fails a condition; and a layer that nobody
\* can look into is never said to fail one.  (verify_context_preconditions,
\* eval_predicate, prepared_document_from: two readers of one format.)
CompiledStandsAtRuntime ==
    /\ admitted = "admitted" =>
         \A c \in Conditions :
            /\ ~Unnamed(c)
            /\ eval_predicate_uncensored(c.predicate, c.args, snapshot) # "fail"
    /\ admitted = "refused" /\ snapshot = authored.layer => \E c \in Conditions : Unnamed(c)
    /\ compiled.fault = "not_satisfied" => was_introspected(authored.layer)

Nodes == {compiled.ir.components[i] : i \in DOMAIN compiled.ir.components}

IsAuthorized(n, component, ceiling) ==
    LET steps == {n.llm_calls[i] : i \in DOMAIN n.llm_calls}
    IN  /\ ceiling.given => n.required_capabilities \subseteq ceiling.admits
        /\ \A s \in steps :
              /\ s.capabilities \subseteq n.required_capabilities
              /\ s.calls # {} =>
                   /\ COMPONENT_INVOCATION_CAPABILITY \in n.required_capabilities
                   /\ s.capabilities # {} => COMPONENT_INVOCATION_CAPABILITY \in s.capabilities
        /\ \A i \in DOMAIN component.guardrails :
              (component.guardrails[i].locked = "yes" \/ component.guardrails[i].overridable = "no")
              => n.guardrails[i].locked

\* In what compiles no step holds, and no call needs, a capability above the
\* ceiling of the profile; a call always brings its capability; and a mount has
\* unlocked nothing that its component locked.
CompiledIsAuthorized ==
    \A n \in Nodes : IsAuthorized(n, authored.components[n.id], compiled.ir.ceiling)

\* The texts that a consumer of the intermediate representation will hand on.
Emits(n) == {n.llm_calls[i].prompt : i \in DOMAIN n.llm_calls} \cup {n.brief} \cup VariantTexts(n.slots)

\* Every slot that any text of a node names, the shared part of its brief and
\* the text of the slots included, is declared once within its reach, with a
\* default that it has; and no placeholder is left.
SlotsResolve ==
    \A n \in Nodes :
        LET reach == n.slots \o compiled.ir.slots
        IN  /\ \A t \in Emits(n) \cup VariantTexts(compiled.ir.slots) :
                  \A name \in slot_references(t) :
                     Cardinality({i \in DOMAIN reach :
                                    reach[i].name = name /\ reach[i].default \in DOMAIN reach[i].variants}) = 1
            /\ \A t \in Emits(n) : \A p \in t : p.is \notin Placeholders \cup {"unknown", "statement"}
===============================================================================
