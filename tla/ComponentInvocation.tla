-------------------------- MODULE ComponentInvocation --------------------------
(***************************************************************************)
(* ComponentInvocationRuntime (dispatcher/claude-agent-sdk/src/             *)
(* componentInvocation.ts): one root run of a component whose steps may     *)
(* invoke other components, on one shared budget of model turns.            *)
(*                                                                          *)
(* A frame is one execution of a component: frame 0 is the root, frame k    *)
(* the k-th admitted attempt.  The step runner (componentSdk.ts, one SDK    *)
(* query per step) is the environment: it may invoke aliases while its step *)
(* runs, and ends the step with a number of turns, well or badly.  An alias *)
(* is named by its callee.  Which conditional step runs is decided from     *)
(* artifacts and outcomes (conditional.ts); here it may run or be skipped.  *)
(***************************************************************************)
EXTENDS Integers, FiniteSets, FiniteSetsExt, Sequences

CONSTANTS
    Components, Root,
    StepCount,         \* StepCount[c]: the number of steps of c
    Edges,             \* <<c, s, d>>: step s of c may call d
    Tolerant,          \* steps that some on_failure guard targets
    Conditional,       \* steps with a guard
    MaxDepth, MaxAttempts, MaxTurns, MaxTurnsPerChild,
    Calls,             \* calls of run.invoke(), each made at most once
    Overrun,           \* a provider may report more turns than it was allowed
    Detach             \* a step may end while a call it made is unanswered

Callees(c, s) == {d \in Components : <<c, s, d>> \in Edges}
CalleesOf(c) == UNION {Callees(c, s) : s \in 1..StepCount[c]}

\* maxDescendantDepth: the longest chain of calls below a component, 0 for a leaf.
ChainBelow[n \in Nat] ==
    [c \in Components |->
        IF n = 0 THEN 0 ELSE Max({0} \cup {1 + ChainBelow[n - 1][d] : d \in CalleesOf(c)})]
MaxDescendantDepth(c) == ChainBelow[Cardinality(Components)][c]
DescendantDepthForStep(c, s) == Max({0} \cup {1 + MaxDescendantDepth(d) : d \in Callees(c, s)})

ASSUME InvocationAssumption ==
    /\ IsFiniteSet(Components) /\ Root \in Components
    /\ StepCount \in [Components -> Nat \ {0}]
    /\ Edges \subseteq Components \X Nat \X Components
    /\ {MaxDepth, MaxAttempts, MaxTurns, MaxTurnsPerChild} \subseteq Nat \ {0}
    /\ {Overrun, Detach} \subseteq BOOLEAN

VARIABLES
    availableTurns,
    attempts,
    totalTurns,     \* totalTurnsObserved
    cancelled,
    frame,          \* frame[k]: one execution, see FrameType
    call,           \* call[i]: one call of invoke(), see CallType
    queue,          \* queue[k]: the calls of frame k not yet answered, in order
    run             \* the promise of runRoot()

invocationVars == <<availableTurns, attempts, totalTurns, cancelled, frame, call, queue, run>>

Frames == 0..MaxAttempts
NoFrame == MaxAttempts + 1

UnusedFrame == [pc |-> "unused", component |-> Root, ancestry |-> {}, step |-> 0,
                remaining |-> 0, error |-> "none"]
IdleCall == [pc |-> "idle", frame |-> NoFrame, step |-> 0, callee |-> Root,
             child |-> NoFrame, result |-> "none"]

InvocationInit ==
    /\ availableTurns = MaxTurns
    /\ attempts = 0
    /\ totalTurns = 0
    /\ cancelled = FALSE
    /\ frame = [k \in Frames |->
                  IF k = 0 THEN [UnusedFrame EXCEPT !.pc = "between", !.ancestry = {Root}]
                  ELSE UnusedFrame]
    /\ call = [i \in Calls |-> IdleCall]
    /\ queue = [k \in Frames |-> <<>>]
    /\ run = "running"

Lesser(a, b) == IF a < b THEN a ELSE b
Greater(a, b) == IF a > b THEN a ELSE b

-------------------------------------------------------------------------------
(* The turns that are granted.                                               *)

\* Mutant: nothing is held back for the callees.
NothingHeld(available, depth) == Lesser(0, available)

\* Turns held back for a chain of depth further calls; one is left to use.
HeldForDescendants(available, depth) ==
    Lesser(depth * MaxTurnsPerChild, Greater(0, available - 1))

RootReservation(s) ==
    availableTurns - HeldForDescendants(availableTurns, DescendantDepthForStep(Root, s))

ChildReservation(c) ==
    Lesser(availableTurns - HeldForDescendants(availableTurns, MaxDescendantDepth(c)),
           MaxTurnsPerChild)

-------------------------------------------------------------------------------
(* executeComponent: the steps of a frame.                                   *)

\* Where the loop over the steps may go next: past skipped conditional steps.
NextSteps(c, s) ==
    {n \in s + 1 .. StepCount[c] + 1 : \A m \in s + 1 .. n - 1 : <<c, m>> \in Conditional}

\* The next step starts: the root reserves for it, a child has its reservation.
StartStep(k) ==
    /\ frame[k].pc = "between"
    /\ ~cancelled
    /\ \E s \in NextSteps(frame[k].component, frame[k].step) :
        /\ s <= StepCount[frame[k].component]
        /\ LET turns == IF k = 0 THEN RootReservation(s) ELSE frame[k].remaining
           IN /\ turns >= 1
              /\ availableTurns' = IF k = 0 THEN availableTurns - turns ELSE availableTurns
              /\ frame' = [frame EXCEPT ![k].pc = "step", ![k].step = s, ![k].remaining = turns]
    /\ UNCHANGED <<attempts, totalTurns, cancelled, call, queue, run>>

EndFrame(k, error) == frame' = [frame EXCEPT ![k].pc = "ended", ![k].error = error]

OutOfTurns(k) == IF k = 0 THEN availableTurns < 1 ELSE frame[k].remaining < 1

\* A step does not start: the run is cancelled, or no turn is left.
StepRefused(k) ==
    /\ frame[k].pc = "between"
    /\ \E s \in NextSteps(frame[k].component, frame[k].step) : s <= StepCount[frame[k].component]
    /\ \/ cancelled /\ EndFrame(k, "cancelled")
       \/ /\ OutOfTurns(k)
          /\ EndFrame(k, "budget_exhausted")
    /\ UNCHANGED <<availableTurns, attempts, totalTurns, cancelled, call, queue, run>>

AllStepsDone(k) ==
    /\ frame[k].pc = "between"
    /\ StepCount[frame[k].component] + 1 \in NextSteps(frame[k].component, frame[k].step)
    /\ EndFrame(k, "none")
    /\ UNCHANGED <<availableTurns, attempts, totalTurns, cancelled, call, queue, run>>

Open(k) == {i \in Calls : call[i].frame = k /\ call[i].pc \in {"queued", "running"}}

\* The provider's query is over.  It waits for the tool calls it made, unless it
\* is aborted or its transport breaks.
StepOver(k) == frame[k].pc = "step" /\ (Open(k) # {} => Detach \/ cancelled)

\* Every code but the first is treated alike.
Errors == {"budget_exhausted", "callee_failed"}

\* charge: what is left of the reservation; everything is gone when it was exceeded.
Left(k, turns) == IF turns > frame[k].remaining THEN 0 ELSE frame[k].remaining - turns

\* The root's reservation lasts one step; a child keeps its own for the next one.
AvailableAfter(k, turns) == IF k = 0 THEN availableTurns + Left(k, turns) ELSE availableTurns

\* The step ends after so many turns, with an error unless the frame goes on.
EndStep(k, turns, error, goesOn) ==
    /\ totalTurns' = totalTurns + turns
    /\ availableTurns' = AvailableAfter(k, turns)
    /\ frame' = [frame EXCEPT ![k].pc = IF goesOn THEN "between" ELSE "ended",
                              ![k].remaining = IF k = 0 THEN 0 ELSE Left(k, turns),
                              ![k].error = IF goesOn THEN "none" ELSE error]
    /\ UNCHANGED <<attempts, cancelled, call, queue, run>>

Exceeds(k, turns) == turns > frame[k].remaining

StepSucceeds(k, turns) ==
    /\ StepOver(k)
    /\ Exceeds(k, turns) => Overrun
    /\ EndStep(k, turns,
               IF Exceeds(k, turns) THEN "budget_exhausted" ELSE "cancelled",
               ~cancelled /\ ~Exceeds(k, turns))

\* An on_failure guard waits for this step's failure, and it is not a terminal one.
Tolerated(k, error) ==
    <<frame[k].component, frame[k].step>> \in Tolerant /\ error # "budget_exhausted"

StepFails(k, turns, error) ==
    /\ StepOver(k)
    /\ Exceeds(k, turns) => Overrun
    /\ EndStep(k, turns, IF Exceeds(k, turns) THEN "budget_exhausted" ELSE error,
               Tolerated(k, error) /\ ~Exceeds(k, turns))

-------------------------------------------------------------------------------
(* enqueueInvocation and invoke: the calls a step makes.                     *)

Invoke(i, k, c) ==
    /\ call[i].pc = "idle"
    /\ frame[k].pc = "step"
    /\ call' = [call EXCEPT ![i] = [IdleCall EXCEPT !.pc = "queued", !.frame = k,
                                                    !.step = frame[k].step, !.callee = c]]
    /\ queue' = [queue EXCEPT ![k] = Append(@, i)]
    /\ UNCHANGED <<availableTurns, attempts, totalTurns, cancelled, frame, run>>

\* Mutant: a call does not wait for the one before it.
Queued(i) == call[i].pc = "queued"

\* The calls before i have been answered.
IsNext(i) ==
    /\ call[i].pc = "queued"
    /\ queue[call[i].frame] # <<>>
    /\ Head(queue[call[i].frame]) = i

Caller(i) == frame[call[i].frame]
Authorized(i) == call[i].callee \in Callees(Caller(i).component, call[i].step)

Reenters(i) == call[i].callee \in Caller(i).ancestry

\* The depth of a frame is the number of its ancestors; the root's is 0.
TooDeep(i) == Cardinality(Caller(i).ancestry) > MaxDepth

Answered(calls, i, result) == [calls EXCEPT ![i].pc = "answered", ![i].result = result]

\* Mutant: a call that throws does not release the next one.
DequeueAnswered(i) ==
    queue' = IF call'[i].result = "thrown" THEN queue
             ELSE [queue EXCEPT ![call[i].frame] = Tail(@)]

\* release(): i was first in its queue, the next call may go on.
Dequeue(i) == queue' = [queue EXCEPT ![call[i].frame] = Tail(@)]

\* The call throws: cancelled, not an alias of its step, or a recursion.  The
\* last two cancel the whole run.
ThrowCall(i) ==
    /\ IsNext(i)
    /\ cancelled \/ ~Authorized(i) \/ (Reenters(i) /\ ~TooDeep(i) /\ attempts < MaxAttempts)
    /\ cancelled' = TRUE
    /\ call' = Answered(call, i, "thrown")
    /\ Dequeue(i)
    /\ UNCHANGED <<availableTurns, attempts, totalTurns, frame, run>>

\* The call is answered without a child: a malformed request, or no budget.
RefuseCall(i) ==
    /\ IsNext(i)
    /\ ~cancelled /\ Authorized(i)
    /\ \/ call' = Answered(call, i, "invalid_request")
       \/ /\ \/ TooDeep(i) \/ attempts >= MaxAttempts
             \/ ~Reenters(i) /\ ChildReservation(call[i].callee) < 1
          /\ call' = Answered(call, i, "budget_exhausted")
    /\ Dequeue(i)
    /\ UNCHANGED <<availableTurns, attempts, totalTurns, cancelled, frame, run>>

\* Mutant: admission is not closed by cancellation.
AdmitsCancelled == TRUE

MayAdmit == ~cancelled

AdmitCall(i) ==
    LET c == call[i].callee
        turns == ChildReservation(c)
        child == attempts + 1
    IN /\ IsNext(i)
       /\ MayAdmit /\ Authorized(i) /\ ~Reenters(i)
       /\ ~TooDeep(i) /\ attempts < MaxAttempts
       /\ turns >= 1
       /\ attempts' = child
       /\ availableTurns' = availableTurns - turns
       /\ frame' = [frame EXCEPT ![child] =
                      [pc |-> "between", component |-> c, ancestry |-> Caller(i).ancestry \cup {c},
                       step |-> 0, remaining |-> turns, error |-> "none"]]
       /\ call' = [call EXCEPT ![i].pc = "running", ![i].child = child]
       /\ UNCHANGED <<totalTurns, cancelled, queue, run>>

\* What the caller gets for a child: nothing of it once the run is cancelled.
Results(k) ==
    IF cancelled THEN {"late_discarded"}
    ELSE IF frame[k].error = "none" THEN {"ok", "refused", "invalid_result"}
    ELSE {frame[k].error}

\* Mutant: all of the reservation is given back.
RefundAll(k) == MaxTurnsPerChild

Refund(k) == frame[k].remaining

\* invoke() after executeComponent, and its finally.
ChildReturns(i) ==
    LET k == call[i].child
    IN /\ call[i].pc = "running"
       /\ frame[k].pc = "ended"
       /\ availableTurns' = availableTurns + Refund(k)
       /\ frame' = [frame EXCEPT ![k].pc = "returned", ![k].remaining = 0]
       /\ \E result \in Results(k) : call' = Answered(call, i, result)
       /\ Dequeue(i)
       /\ UNCHANGED <<attempts, totalTurns, cancelled, run>>

-------------------------------------------------------------------------------
(* runRoot and cancel.                                                       *)

RootReturns ==
    /\ frame[0].pc = "ended"
    /\ run = "running"
    /\ run' = IF frame[0].error = "none" /\ ~cancelled THEN "ok" ELSE "failed"
    /\ UNCHANGED <<availableTurns, attempts, totalTurns, cancelled, frame, call, queue>>

\* The caller's signal, or the deadline.
Cancel ==
    /\ ~cancelled
    /\ cancelled' = TRUE
    /\ UNCHANGED <<availableTurns, attempts, totalTurns, frame, call, queue, run>>

-------------------------------------------------------------------------------
StepEnds(k) ==
    \E turns \in 0 .. frame[k].remaining + 1 :
        StepSucceeds(k, turns) \/ \E error \in Errors : StepFails(k, turns, error)

InvocationNext ==
    \/ \E k \in Frames :
         \/ StartStep(k) \/ StepRefused(k) \/ AllStepsDone(k)
         \/ StepEnds(k)
         \/ \E i \in Calls, c \in Components : Invoke(i, k, c)
    \/ \E i \in Calls : ThrowCall(i) \/ RefuseCall(i) \/ AdmitCall(i) \/ ChildReturns(i)
    \/ RootReturns
    \/ Cancel

InvocationSpec == InvocationInit /\ [][InvocationNext]_invocationVars

\* Continuations run, and a query that waits for none of its calls ends: the
\* provider is bounded by maxTurns.  Nothing ends a query inside a tool call, so a
\* step whose call is unanswered may stay there for ever, Detach or not.
InvocationFairness ==
    /\ \A k \in Frames :
         /\ WF_invocationVars(StartStep(k) \/ StepRefused(k) \/ AllStepsDone(k))
         /\ WF_invocationVars(Open(k) = {} /\ StepEnds(k))
    /\ \A i \in Calls : WF_invocationVars(ThrowCall(i) \/ RefuseCall(i) \/ AdmitCall(i) \/ ChildReturns(i))
    /\ WF_invocationVars(RootReturns)

FairInvocationSpec == InvocationSpec /\ InvocationFairness

-------------------------------------------------------------------------------
(* Properties. *)

FrameType ==
    [pc : {"unused", "between", "step", "ended", "returned"}, component : Components,
     ancestry : SUBSET Components, step : Nat, remaining : Nat,
     error : Errors \cup {"none", "cancelled"}]

CallType ==
    [pc : {"idle", "queued", "running", "answered"}, frame : Frames \cup {NoFrame}, step : Nat,
     callee : Components, child : Frames \cup {NoFrame},
     result : Errors \cup {"none", "thrown", "invalid_request", "cancelled", "late_discarded",
                           "ok", "refused", "invalid_result"}]

InvocationTypeOK ==
    /\ availableTurns \in Nat
    /\ attempts \in 0..MaxAttempts
    /\ totalTurns \in Nat
    /\ cancelled \in BOOLEAN
    /\ frame \in [Frames -> FrameType]
    /\ call \in [Calls -> CallType]
    /\ queue \in [Frames -> Seq(Calls)]
    /\ run \in {"running", "ok", "failed"}

\* "parent and child SDK limits can never each promise the same remaining turns":
\* the runtime's reservations are the grants of one ledger.  No path through failure,
\* tolerance, cancellation or a late child loses turns or makes some, and a provider
\* that reports more than it was allowed forfeits its own reservation only.
Ledger == INSTANCE TurnLedger WITH
              Holders <- Frames, Cap <- MaxTurns, free <- availableTurns,
              grant <- [k \in Frames |-> frame[k].remaining], spent <- totalTurns
ImplementsTurnLedger == Ledger!LedgerSpec

\* A root step with a turn for each call of the longest chain below it reserves
\* so that the first such chain is never refused for turns, whatever is set aside
\* for one child after the other.
FirstChainIsFunded ==
    /\ totalTurns = 0
    /\ MaxTurns > DescendantDepthForStep(Root, frame[0].step)
    /\ \A k \in 0..attempts : frame[k].pc = "step" /\ Cardinality(Open(k)) <= 1
    /\ \A i \in Calls : call[i].pc # "idle" => Caller(i).step = call[i].step
    => \A i \in Calls : call[i].pc = "queued" /\ Authorized(i) => ChildReservation(call[i].callee) >= 1

\* component-composition.md section 10: "in-flight component calls | 1 | later
\* requests wait in runtime event order".  Calls of one frame run one at a time.
SerialSiblings ==
    \A i, j \in Calls :
        call[i].pc = "running" /\ call[j].pc = "running" /\ call[i].frame = call[j].frame => i = j

\* What makes SerialSiblings inductive: a running call is the first of its frame's
\* queue.
FirstInLine ==
    \A i \in Calls :
        call[i].pc = "running" => /\ queue[call[i].frame] # <<>>
                                  /\ Head(queue[call[i].frame]) = i

\* Once the run is cancelled nothing is admitted and nothing is delivered.
CancellationWins ==
    [][cancelled => /\ attempts' = attempts
                    /\ \A i \in Calls : call[i].pc # "answered" /\ call'[i].pc = "answered"
                                          => call'[i].result \in {"thrown", "late_discarded"}
                    /\ run' \in {run, "failed"}]_invocationVars

\* Every call is answered and the run ends, though a query may wait for its call,
\* the call for the one before it, and that one for a child's query, which waits in
\* its turn: no such chain closes, whichever queries let go of their calls.
EveryCallIsAnswered == \A i \in Calls : call[i].pc = "queued" ~> call[i].pc = "answered"
RunEnds == <>(run # "running")
EverythingIsAnswered == EveryCallIsAnswered /\ RunEnds

===============================================================================
