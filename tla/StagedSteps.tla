------------------------------ MODULE StagedSteps ------------------------------
(***************************************************************************)
(* The staged executor of dispatcher/claude-agent-sdk: runHybridStaged and  *)
(* executeStep (run.ts), with the guards of conditional.ts, over a plan the *)
(* compiler accepted.  executeComponent of componentInvocation.ts has the   *)
(* same loop.                                                               *)
(*                                                                          *)
(* An artifact holds the text a step left in it: who wrote it and what a    *)
(* guard can tell of it, a flag that is true, any other output, or the text *)
(* of a failure.  A model's output may be anything.                         *)
(***************************************************************************)
EXTENDS StepPlan

CONSTANT MaxRepairAttempts      \* DEFAULT_MAX_REPAIR_ATTEMPTS, 1 in the code

ASSUME RepairAssumption == MaxRepairAttempts \in Nat \ {0}

VARIABLES
    plan,           \* the steps accepted so far
    phase,
    at,             \* the step the executor is at
    tries,          \* attempts of the repair it is at
    outcomes,       \* outcomes[n]: "none" until the step named n has run
    artifacts,      \* artifacts[key]: NoText until it is written
    final           \* the step whose text is finalText, 0 at first

stagedVars == <<plan, phase, at, tries, outcomes, artifacts, final>>

Keys == Names \cup Artifacts
NoText == [by |-> 0, kind |-> "undefined"]

StagedInit ==
    /\ plan = <<>>
    /\ phase = "authoring"
    /\ at = 0 /\ tries = 0 /\ final = 0
    /\ outcomes = [n \in Names |-> "none"]
    /\ artifacts = [k \in Keys |-> NoText]

-------------------------------------------------------------------------------
(* Authoring and compiling: compile() refuses a component at its first bad   *)
(* step.                                                                     *)

AuthorStep(s) ==
    /\ phase = "authoring" /\ Len(plan) < MaxSteps
    /\ IF Accepts(plan, s) THEN plan' = Append(plan, s) /\ phase' = phase
       ELSE plan' = plan /\ phase' = "refused"
    /\ UNCHANGED <<at, tries, outcomes, artifacts, final>>

Dispatch ==
    /\ phase = "authoring" /\ plan # <<>>
    /\ phase' = "running" /\ at' = 1
    /\ UNCHANGED <<plan, tries, outcomes, artifacts, final>>

-------------------------------------------------------------------------------
(* classifyConditionalStep.                                                  *)

ArtifactKey(s) == IF s.produces = Nothing THEN s.name ELSE s.produces

\* repairFoldTarget: the step waits for the failure of the one before it and takes
\* over its artifact.
RepairShape(i) ==
    /\ i > 1
    /\ WaitsForFailureOf(plan[i], plan[i - 1].name)
    /\ plan[i - 1].produces \in plan[i].consumes

EvaluateGuard(when) ==
    CASE when.guard = "on_failure" -> outcomes[when.target] = "failure"
      [] when.guard = "on_flag" -> artifacts[when.target].kind = "flag"
      [] when.guard = "on_missing" -> artifacts[when.target] = NoText

Decision(i) ==
    IF Unconditional(plan[i]) THEN "run"
    ELSE IF RepairShape(i)
         THEN IF outcomes[plan[i].when.target] = "failure" THEN "repair" ELSE "skip"
    ELSE IF EvaluateGuard(plan[i].when) THEN "run" ELSE "skip"

\* Mutant: every failure is tolerated.
ToleratesAll(s) == TRUE

\* The steps an on_failure guard waits for run tolerantly.
Tolerant(s) == \E j \in DOMAIN plan : WaitsForFailureOf(plan[j], s.name)

-------------------------------------------------------------------------------
(* The loop over the steps.                                                  *)

Running(i) == phase = "running" /\ at = i /\ i \in DOMAIN plan

Skip(i) ==
    /\ Running(i) /\ Decision(i) = "skip"
    /\ at' = i + 1
    /\ UNCHANGED <<plan, phase, tries, outcomes, artifacts, final>>

\* What a step that ended leaves behind: its outcome and, in its artifact, its text
\* or the text of its failure.
Record(i, outcome, kind) ==
    /\ outcomes' = [outcomes EXCEPT ![plan[i].name] = outcome]
    /\ artifacts' = [artifacts EXCEPT ![ArtifactKey(plan[i])] = [by |-> i, kind |-> kind]]

FinalAfter(i, outcome) == IF outcome = "success" THEN i ELSE final

Succeed(i, kind) ==
    /\ Running(i) /\ Decision(i) \in {"run", "repair"}
    /\ Record(i, "success", kind)
    /\ final' = FinalAfter(i, "success")
    /\ at' = i + 1 /\ tries' = 0
    /\ UNCHANGED <<plan, phase>>

Fail(i) ==
    /\ Running(i) /\ Decision(i) = "run" /\ Tolerant(plan[i])
    /\ Record(i, "failure", "failure")
    /\ final' = FinalAfter(i, "failure")
    /\ at' = i + 1
    /\ UNCHANGED <<plan, phase, tries>>

\* No guard waits for it: the error ends the run.
Abort(i) ==
    /\ Running(i) /\ Decision(i) = "run" /\ ~Tolerant(plan[i])
    /\ phase' = "failed"
    /\ UNCHANGED <<plan, at, tries, outcomes, artifacts, final>>

\* Mutant: a repair that is out of attempts lets the run end well.
GoesOn(attempt) == IF attempt < MaxRepairAttempts THEN "running" ELSE "done"

AfterRepair(attempt) == IF attempt < MaxRepairAttempts THEN "running" ELSE "failed"

\* runRepairLoop: exhaustion ends the run.
FailRepair(i) ==
    /\ Running(i) /\ Decision(i) = "repair"
    /\ Record(i, "failure", "failure")
    /\ tries' = tries + 1
    /\ phase' = AfterRepair(tries + 1)
    /\ UNCHANGED <<plan, at, final>>

Finish ==
    /\ phase = "running" /\ at = Len(plan) + 1
    /\ phase' = "done"
    /\ UNCHANGED <<plan, at, tries, outcomes, artifacts, final>>

StagedNext ==
    \/ \E s \in Steps : AuthorStep(s)
    \/ Dispatch
    \/ \E i \in 1..MaxSteps : \/ Skip(i) \/ Fail(i) \/ Abort(i) \/ FailRepair(i)
                              \/ \E kind \in {"flag", "plain"} : Succeed(i, kind)
    \/ Finish

StagedSpec == StagedInit /\ [][StagedNext]_stagedVars

-------------------------------------------------------------------------------
(* Properties. *)

StagedTypeOK ==
    /\ plan \in Seq(Steps) /\ Len(plan) <= MaxSteps
    /\ phase \in {"authoring", "refused", "running", "done", "failed"}
    /\ at \in 0 .. MaxSteps + 1
    /\ tries \in 0 .. MaxRepairAttempts
    /\ outcomes \in [Names -> {"none", "success", "failure"}]
    /\ artifacts \in [Keys -> [by : 0..MaxSteps, kind : {"undefined", "flag", "plain", "failure"}]]
    /\ final \in 0..MaxSteps

\* What the compiler accepts step by step is what the executor's order needs.
PlanIsWellFormed == WellFormed(plan)

Ran(i) == outcomes[plan[i].name] # "none"

\* conditional.ts: "never a silent skip".  In a run that ends well a later step
\* has run because of every step that failed.
NoFailureSwallowed ==
    phase = "done" =>
        \A j \in DOMAIN plan :
            outcomes[plan[j].name] = "failure"
              => \E k \in DOMAIN plan : k > j /\ Ran(k) /\ WaitsForFailureOf(plan[k], plan[j].name)

\* The final text of a run that ends well is that of the last step that ran, and
\* there is one: chains of failures and repairs end in a success.
FinalTextIsTheLastStep ==
    phase = "done" => /\ final \in DOMAIN plan /\ Ran(final)
                      /\ \A j \in DOMAIN plan : Ran(j) => j <= final

\* ir-schema.md, the guards: a conditional step "runs only if" its target failed, its
\* target's flag is set, or its target was not produced.  It holds of every step that
\* ran for as long as the run lasts: no later step takes its reason away.
GuardsTellTheTruth ==
    \A k \in DOMAIN plan :
        LET when == plan[k].when
        IN Ran(k) =>
             /\ when.guard = "on_failure" => outcomes[when.target] = "failure"
             /\ when.guard = "on_flag" =>
                  \E p \in 1 .. k - 1 : plan[p].produces = when.target /\ outcomes[plan[p].name] = "success"
             /\ when.guard = "on_missing" =>
                  \A p \in 1 .. k - 1 : plan[p].produces = when.target => ~Ran(p)

\* The compiler holds the names of steps and of artifacts apart, the executor keeps
\* both in one record (artifactKey): no step that produces nothing has the name of an
\* artifact.
KeysAreApart ==
    \A i, j \in DOMAIN plan : plan[i].produces = Nothing => plan[i].name # plan[j].produces

\* What a run shows and what it tells are the same run: its text and, where no step
\* writes over the artifact of another, the reasons for which its steps ran.
RunIsWhatItTells == FinalTextIsTheLastStep /\ (KeysAreApart => GuardsTellTheTruth)

===============================================================================
