------------------------------- MODULE StepPlan -------------------------------
(***************************************************************************)
(* The ordered steps of a component and what the compiler accepts of them   *)
(* (core/src/compile.rs: check_when_guards, check_step_dataflow).  A step    *)
(* may produce one artifact, consume artifacts of earlier steps, and be      *)
(* conditional on a guard whose target is a step or an artifact.             *)
(***************************************************************************)
EXTENDS Naturals, Sequences

CONSTANTS
    Names,          \* names of steps
    Artifacts,      \* names of artifacts: the two namespaces may overlap
    Nothing,        \* produces nothing; the target of no guard
    MaxSteps        \* bound: the steps of a component

ASSUME PlanAssumption == Nothing \notin Names \cup Artifacts /\ MaxSteps \in Nat \ {0}

\* conditional goes with a when guard; any other combination is refused.
Unguarded == [guard |-> "none", target |-> Nothing]
Guards == {Unguarded}
          \cup [guard : {"on_failure"}, target : Names]
          \cup [guard : {"on_missing", "on_flag"}, target : Artifacts]

Steps == [name : Names, produces : Artifacts \cup {Nothing}, consumes : SUBSET Artifacts,
          when : Guards]

NamesOf(plan) == {plan[j].name : j \in DOMAIN plan}
ProducedBy(plan) == {plan[j].produces : j \in DOMAIN plan} \ {Nothing}

\* Mutant: the check lets a guard name any step.
AnyTarget(plan, s) == TRUE

\* "on_failure" can only observe a step that has already run, "on_missing" and
\* "on_flag" an artifact of one.
TargetIsEarlier(plan, s) ==
    CASE s.when.guard = "none" -> TRUE
      [] s.when.guard = "on_failure" -> s.when.target \in NamesOf(plan)
      [] OTHER -> s.when.target \in ProducedBy(plan)

IsFresh(plan, s) == s.name \notin NamesOf(plan) /\ s.produces \notin ProducedBy(plan)

\* check_step_dataflow, for the step that follows plan.
Accepts(plan, s) ==
    /\ IsFresh(plan, s)
    /\ s.produces \notin s.consumes
    /\ s.consumes \subseteq ProducedBy(plan)
    /\ TargetIsEarlier(plan, s)

Unconditional(s) == s.when.guard = "none"
WaitsForFailureOf(s, name) == s.when.guard = "on_failure" /\ s.when.target = name

\* What the order of the steps gives their executor, stated on the whole plan.
EarlierProducer(plan, j, a) == \E p \in 1 .. j - 1 : plan[p].produces = a
EarlierStep(plan, j, n) == \E p \in 1 .. j - 1 : plan[p].name = n

WellFormed(plan) ==
    /\ \A i, j \in DOMAIN plan :
         i # j => /\ plan[i].name # plan[j].name
                  /\ plan[i].produces # Nothing => plan[i].produces # plan[j].produces
    /\ \A j \in DOMAIN plan :
         /\ \A a \in plan[j].consumes : EarlierProducer(plan, j, a)
         /\ plan[j].when.guard = "on_failure" => EarlierStep(plan, j, plan[j].when.target)
         /\ plan[j].when.guard \in {"on_missing", "on_flag"}
              => EarlierProducer(plan, j, plan[j].when.target)
===============================================================================
