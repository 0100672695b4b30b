------------------------------ MODULE StepEngines ------------------------------
(***************************************************************************)
(* One compiled component dispatched by both back-ends: the staged executor *)
(* of claude-agent-sdk and a sequential engine of codex-local.  The two      *)
(* share nothing at run time; they are stepped side by side, with the same  *)
(* answer of the model to the same step, to compare what they make of it.   *)
(* When the answers part, or one of the two is refused or breaks, one of     *)
(* them is followed to its end.                                             *)
(***************************************************************************)
EXTENDS StagedSteps

VARIABLES
    codexPhase, codexAt, codexOutcomes, codexArtifacts, codexFinal, codexValue,
    followed        \* "both", or the one that goes on

codexVars == <<codexPhase, codexAt, codexOutcomes, codexArtifacts, codexFinal, codexValue>>
enginesVars == <<stagedVars, codexVars, followed>>

Codex == INSTANCE CodexSteps
            WITH phase <- codexPhase, at <- codexAt, outcomes <- codexOutcomes,
                 artifacts <- codexArtifacts, final <- codexFinal, value <- codexValue

EnginesInit == StagedInit /\ Codex!CodexInit /\ followed = "both"

\* Both of them read the same IR.
DispatchBoth == Dispatch /\ Codex!Prepare /\ UNCHANGED followed

StepsEndWell(i) == \E kind \in {"flag", "plain"} : Succeed(i, kind)
StepsEndBadly(i) == Fail(i) \/ Abort(i) \/ FailRepair(i)

Together ==
    /\ followed = "both"
    /\ \/ \E i \in 1..MaxSteps : \/ Skip(i) /\ Codex!Skip(i)
                                 \/ StepsEndWell(i) /\ Codex!GoodTerminal(i)
                                 \/ StepsEndBadly(i) /\ Codex!BadTerminal(i)
       \/ Finish /\ Codex!Finish
    /\ UNCHANGED followed

Part ==
    /\ followed = "both" /\ phase # "authoring"
    /\ followed' \in {"staged", "codex"}
    /\ UNCHANGED <<stagedVars, codexVars>>

StagedAlone ==
    /\ followed = "staged"
    /\ \/ \E i \in 1..MaxSteps : Skip(i) \/ StepsEndWell(i) \/ StepsEndBadly(i)
       \/ Finish
    /\ UNCHANGED <<codexVars, followed>>

CodexAlone ==
    /\ followed = "codex"
    /\ \/ \E i \in 1..MaxSteps : \/ Codex!Skip(i) \/ Codex!GoodTerminal(i)
                                 \/ Codex!BadTerminal(i) \/ Codex!StepBreaks(i)
       \/ Codex!Finish
    /\ UNCHANGED <<stagedVars, followed>>

EnginesNext ==
    \/ \E s \in Steps : AuthorStep(s) /\ UNCHANGED <<codexVars, followed>>
    \/ DispatchBoth
    \/ Together
    \/ Part
    \/ StagedAlone
    \/ CodexAlone

EnginesSpec == EnginesInit /\ [][EnginesNext]_enginesVars

-------------------------------------------------------------------------------
(* Properties. *)

\* The shared conformance fixture (dispatcher/conformance-fixtures/conditional.json)
\* holds the back-ends to one reading of the guards.  Given the same answers they
\* decide alike at every step, and end alike, with the text of the same step: the
\* repairs and tolerated failures of one, the guarded consumers of the other.
EnginesAgree ==
    followed = "both" /\ codexPhase \in {"running", "done", "failed"} =>
        /\ phase = codexPhase
        /\ at = codexAt
        /\ phase = "running" /\ at \in DOMAIN plan =>
             (Decision(at) = "skip" <=> ~Codex!ShouldRunStep(plan[at]))
        /\ phase = "done" => final = codexFinal

\* On its own, too, the Codex engine returns text and value of one step, and no step
\* consumes what a skipped one would have made (CodexSteps).
CodexRunIsSound ==
    EnginesAgree /\ Codex!ResultIsTheLastStep /\ Codex!NothingFromASkippedStep
================================================================================
