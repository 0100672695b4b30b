------------------------------ MODULE CodexSteps ------------------------------
(***************************************************************************)
(* The sequential engines of dispatcher/codex-local: runExec (exec_run.ts)   *)
(* and runTurn (turn_run.ts) over a sequence of steps that                  *)
(* validateStepTopology (step_engine.ts) accepts.  Both decide alike; they   *)
(* differ in the process or session that executes one step, which here      *)
(* answers with a terminal that has the step's produced field, with one     *)
(* that has not, or not at all.                                             *)
(***************************************************************************)
EXTENDS StepPlan

VARIABLES
    plan,           \* node.llm_calls
    phase,          \* "waiting" until it is prepared
    at,
    outcomes,       \* outcomes[n]: "none" until step n has been reached
    artifacts,      \* the artifacts with a value
    final,          \* the step whose text is lastFinalText, 0 for null
    value           \* the step whose object is lastValue, 0 for undefined

CodexInit ==
    /\ phase = "waiting"
    /\ at = 0 /\ final = 0 /\ value = 0
    /\ outcomes = [n \in Names |-> "none"]
    /\ artifacts = {}

-------------------------------------------------------------------------------
(* prepare: parseStepWhen and validateStepTopology.                          *)

\* A conditional step is the last one.
WellPlaced(i) == Unconditional(plan[i]) \/ i = Len(plan)

AcceptsStep(i) ==
    LET earlier == SubSeq(plan, 1, i - 1)
    IN /\ plan[i].name \notin NamesOf(earlier)
       /\ plan[i].consumes \subseteq ProducedBy(earlier)
       /\ plan[i].produces # Nothing
       /\ plan[i].when.guard \in {"none", "on_failure"}
       /\ WellPlaced(i)
       /\ plan[i].when.guard = "on_failure" => plan[i].when.target \in NamesOf(earlier)

Prepare ==
    /\ phase = "waiting"
    /\ IF \A i \in DOMAIN plan : AcceptsStep(i) THEN phase' = "running" /\ at' = 1
       ELSE phase' = "refused" /\ at' = at
    /\ UNCHANGED <<plan, outcomes, artifacts, final, value>>

-------------------------------------------------------------------------------
(* The loop over the steps.                                                  *)

\* Mutant: a guard fires whenever its target ran.
TargetRan(s) == s.when.guard = "on_failure" => outcomes[s.when.target] \in {"ok", "bad"}

ShouldRunStep(s) == s.when.guard = "on_failure" => outcomes[s.when.target] = "bad"

HasGuardedConsumer(s) == \E j \in DOMAIN plan : WaitsForFailureOf(plan[j], s.name)

Reached(i) == phase = "running" /\ at = i /\ i \in DOMAIN plan

Skip(i) ==
    /\ Reached(i) /\ ~ShouldRunStep(plan[i])
    /\ outcomes' = [outcomes EXCEPT ![plan[i].name] = "skipped"]
    /\ at' = i + 1
    /\ UNCHANGED <<plan, phase, artifacts, final, value>>

\* The terminal has exactly the produced field.
GoodTerminal(i) ==
    /\ Reached(i) /\ ShouldRunStep(plan[i])
    /\ outcomes' = [outcomes EXCEPT ![plan[i].name] = "ok"]
    /\ artifacts' = artifacts \cup {plan[i].produces}
    /\ final' = i /\ value' = i
    /\ at' = i + 1
    /\ UNCHANGED <<plan, phase>>

\* A mismatch is survived only when a guard waits for it.
BadTerminal(i) ==
    /\ Reached(i) /\ ShouldRunStep(plan[i])
    /\ IF HasGuardedConsumer(plan[i])
       THEN /\ outcomes' = [outcomes EXCEPT ![plan[i].name] = "bad"]
            /\ final' = i
            /\ at' = i + 1
            /\ UNCHANGED phase
       ELSE phase' = "failed" /\ UNCHANGED <<outcomes, final, at>>
    /\ UNCHANGED <<plan, artifacts, value>>

\* The process or the session breaks off, times out or is cancelled: nothing
\* survives that.
StepBreaks(i) ==
    /\ Reached(i) /\ ShouldRunStep(plan[i])
    /\ phase' = "broken"
    /\ UNCHANGED <<plan, at, outcomes, artifacts, final, value>>

Finish ==
    /\ phase = "running" /\ at = Len(plan) + 1
    /\ phase' = IF final = 0 THEN "failed" ELSE "done"
    /\ UNCHANGED <<plan, at, outcomes, artifacts, final, value>>

-------------------------------------------------------------------------------
(* Properties. *)

Ran(i) == outcomes[plan[i].name] \in {"ok", "bad"}

\* turn_run.ts: finalText is "the last step that actually ran's raw terminal text",
\* value "the parsed terminal object of the last step that actually ran".  They are
\* of the same step, though only a good terminal has an object.
ResultIsTheLastStep ==
    phase = "done" => /\ final = value
                      /\ final \in DOMAIN plan /\ outcomes[plan[final].name] = "ok"
                      /\ \A j \in DOMAIN plan : Ran(j) => j <= final

\* step_engine.ts: "nothing downstream ever consumes a step that might not run".  No
\* step has run whose input a skipped step was to produce.
NothingFromASkippedStep ==
    \A i, j \in DOMAIN plan :
        outcomes[plan[i].name] = "skipped" /\ Ran(j) => plan[i].produces \notin plan[j].consumes

===============================================================================
