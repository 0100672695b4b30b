--------------------------- MODULE OrchestrateTurn ---------------------------
(***************************************************************************)
(* One turn of CodexOrchestrateRuntime                                     *)
(* (dispatcher/codex-local/src/orchestrate_runtime.ts): the parent agent   *)
(* is told to spawn one child agent per step and to wait for each.  The    *)
(* host never runs a step; it follows the notifications of the app-server, *)
(* attributes each child thread to a step, writes the next step's request  *)
(* to a file the children read, and, when the turn is over, reads every    *)
(* child's thread back and decides whether the run is accepted.            *)
(*                                                                         *)
(* Steps 1..Required are unconditional; each later step is a repair of its *)
(* immediate predecessor (validateStepChain), and every step but the first *)
(* consumes exactly what its predecessor produces.  A thread, an artifact's*)
(* value and an item are identities; an envelope is the step it names, ok  *)
(* and the value.                                                          *)
(***************************************************************************)
EXTENDS Integers, SequencesExt

CONSTANTS
    Steps,     \* how many steps the component has
    Required,  \* how many of them, from the first, are unconditional
    Threads,   \* child threads
    Values,    \* values of artifacts
    NoValue,   \* the input of a step that consumes nothing
    Unset,     \* a step whose request has not been prepared
    Items,     \* ids of the parent's collaboration items
    MaxHeld    \* bound: how many notifications overtake the answer to turn/start

ASSUME StepsAssumption == Steps \in Nat /\ Required \in 1..Steps
ASSUME ValuesAssumption == NoValue \notin Values /\ Unset \notin Values \cup {NoValue}

VARIABLES
    phase,     \* where run() is: waiting for turn/start, for the turn, for a child's thread, or settled
    turn,      \* the ActiveRun, with the step request file
    buffer,    \* pendingTurnNotifications
    results    \* what validateChildren has accepted so far

hostVars == <<phase, turn, buffer, results>>

-----------------------------------------------------------------------------
\* A step with a repairer: a conditional step repairs its immediate predecessor.
Repaired(i) == i >= Required /\ i < Steps

FirstRequest == [step |-> 1, input |-> NoValue]

NewTurn ==
    [started |-> FALSE, spawns |-> <<>>, pending |-> {}, strangers |-> <<>>, ended |-> {},
     waits |-> <<>>, requests |-> [i \in 1..Steps |-> IF i = 1 THEN NoValue ELSE Unset],
     file |-> FirstRequest, answers |-> [c \in Threads |-> 0], text |-> 0,
     over |-> FALSE, end |-> "no", broken |-> FALSE]

\* A handler that throws rejects the run and closes the transport; nothing reads the rest of
\* the turn again.
Throw(t) == [NewTurn EXCEPT !.broken = TRUE, !.end = IF t.end = "no" THEN "rejected" ELSE t.end]

Require(ok, t, next) == IF ok THEN next ELSE Throw(t)

-----------------------------------------------------------------------------
(* Child threads *)

SpawnsOf(t, c) == {i \in DOMAIN t.spawns : t.spawns[i].child = c}
IsKnown(t, c) == SpawnsOf(t, c) # {}

\* The step a child's answer is held against: its spawn's, or the one its place among
\* the threads not yet attributed will give it.
StepOf(t, c) == IF IsKnown(t, c) THEN Min(SpawnsOf(t, c))
                ELSE Len(t.spawns) + (CHOOSE p \in DOMAIN t.strangers : t.strangers[p] = c)

\* A good answer prepares the next step; where the next step is a repair, a bad one does.
PreparesNext(i, e) == i < Steps /\ (e.ok # Repaired(i))

Learn(t, c, i, e) ==
    LET heard == [t EXCEPT !.answers[c] = i]
    IN IF PreparesNext(i, e)
       THEN [heard EXCEPT !.requests[i + 1] = e.value, !.file = [step |-> i + 1, input |-> e.value]]
       ELSE heard

\* observeChildNotification
Observe(t, c, e) ==
    IF e.kind # "answer" THEN t
    ELSE Require(t.answers[c] = 0 /\ StepOf(t, c) <= Steps /\ e.step = StepOf(t, c),
                 t, Learn(t, c, StepOf(t, c), e))

\* A thread that no spawn has named yet is remembered, in order, until one does.
Meet(t, c, e) ==
    LET met == [t EXCEPT !.strangers = IF Contains(@, c) THEN @ ELSE Append(@, c)]
        heard == Observe(met, c, e)
        noted == IF e.kind = "done" THEN [heard EXCEPT !.ended = @ \cup {c}] ELSE heard
    IN Require(Len(noted.strangers) <= Steps - Len(noted.spawns), noted, noted)

OnChild(t, e) ==
    CASE IsKnown(t, e.child) -> Observe(t, e.child, e)
      [] ~IsKnown(t, e.child) /\ Len(t.spawns) < Steps -> Meet(t, e.child, e)
      [] OTHER -> Throw(t)

-----------------------------------------------------------------------------
(* The parent's spawn and wait items *)

CompleteWait(t, receiver) ==
    LET n == Len(t.spawns)
    IN Require(n > 0 /\ ~t.spawns[n].waited /\ receiver = t.spawns[n].child,
               t, [t EXCEPT !.spawns[n].waited = TRUE])

AwaitedAll(t) == t.spawns = <<>> \/ Last(t.spawns).waited

\* Mutant: a spawn takes the place of the first unattributed thread, whichever it is.
SpawnOfAnother(t, c) ==
    LET n == Len(t.spawns) + 1
    IN Require(AwaitedAll(t) /\ n <= Steps /\ t.requests[n] # Unset, t,
               [t EXCEPT !.spawns = Append(@, [child |-> c, request |-> t.requests[n], waited |-> FALSE]),
                         !.strangers = IF @ = <<>> THEN @ ELSE Tail(@)])

SpawnCompleted(t, c) ==
    LET n == Len(t.spawns) + 1
        spawned == [t EXCEPT
            !.spawns = Append(@, [child |-> c, request |-> t.requests[n], waited |-> FALSE]),
            !.strangers = IF @ = <<>> THEN @ ELSE Tail(@),
            !.ended = @ \ {c},
            !.waits = IF @ = <<>> THEN @ ELSE Tail(@)]
    IN Require(AwaitedAll(t) /\ n <= Steps /\ (t.strangers = <<>> \/ Head(t.strangers) = c)
                 /\ t.requests[n] # Unset,
               t, IF t.waits = <<>> THEN spawned ELSE CompleteWait(spawned, Head(t.waits)))

\* A wait that completes before any spawn is deferred to the first spawn.
WaitCompleted(t, receiver) ==
    IF t.spawns = <<>>
    THEN Require(Len(t.waits) < Steps, t, [t EXCEPT !.waits = Append(@, receiver)])
    ELSE CompleteWait(t, receiver)

ItemStarted(t, e) ==
    Require(\A p \in t.pending : p[1] # e.id, t, [t EXCEPT !.pending = @ \cup {<<e.id, e.tool>>}])

\* Mutant: a completed item stays pending.
KeepsPending(t, e) ==
    Require(<<e.id, e.tool>> \in t.pending /\ e.ok, t,
            IF e.tool = "spawn" THEN SpawnCompleted(t, e.child) ELSE WaitCompleted(t, e.child))

ItemCompleted(t, e) ==
    LET left == [t EXCEPT !.pending = @ \ {<<e.id, e.tool>>}]
    IN Require(<<e.id, e.tool>> \in t.pending /\ e.ok, t,
               IF e.tool = "spawn" THEN SpawnCompleted(left, e.child) ELSE WaitCompleted(left, e.child))

\* tryFinalizeTurn: a completed turn resolves once nothing it started is outstanding.
TryFinalize(t) ==
    IF ~t.broken /\ t.over /\ t.pending = {} /\ t.strangers = <<>> /\ t.waits = <<>>
    THEN [t EXCEPT !.over = FALSE, !.end = IF @ = "no" THEN "resolved" ELSE @] ELSE t

-----------------------------------------------------------------------------
(* The end of the turn *)

\* Mutant: direct collaboration needs a child for every step, the repairs included.
SynthesizeAll(t) ==
    LET n == Len(t.strangers)
    IN IF t.spawns # <<>> \/ n = 0 THEN t
       ELSE Require(n = Steps /\ ToSet(t.strangers) \subseteq t.ended /\ Len(t.waits) = n, t,
                    [t EXCEPT !.spawns = [i \in 1..n |-> [child |-> t.strangers[i],
                                                         request |-> t.requests[i], waited |-> TRUE]],
                              !.strangers = <<>>, !.ended = {}, !.waits = <<>>])

\* synthesizeDirectCollaboration: a turn without spawn items is read off its child threads.
Synthesize(t) ==
    LET n == Len(t.strangers)
    IN IF t.spawns # <<>> \/ n = 0 THEN t
       ELSE Require(n \in Required..Steps /\ ToSet(t.strangers) \subseteq t.ended
                      /\ Len(t.waits) = n /\ \A i \in 1..n : t.requests[i] # Unset,
                    t, [t EXCEPT !.spawns = [i \in 1..n |-> [child |-> t.strangers[i],
                                                            request |-> t.requests[i], waited |-> TRUE]],
                                 !.strangers = <<>>, !.ended = {}, !.waits = <<>>])

TurnCompleted(t, e) ==
    LET direct == Synthesize(t)
    IN Require(t.started /\ e.ok /\ t.text # 0, t,
               IF direct.broken THEN direct ELSE TryFinalize([direct EXCEPT !.over = TRUE]))

\* onNotification
Consume(t, e) ==
    IF t.broken THEN t
    ELSE CASE e.kind = "turn_started" -> Require(~t.started, t, [t EXCEPT !.started = TRUE])
           [] e.kind \in {"start", "answer", "done"} -> OnChild(t, e)
           [] e.kind = "item_started" -> TryFinalize(ItemStarted(t, e))
           [] e.kind = "item_completed" -> TryFinalize(ItemCompleted(t, e))
           [] e.kind = "message" -> TryFinalize([t EXCEPT !.text = e.step])
           [] e.kind = "turn_completed" -> TurnCompleted(t, e)
           [] OTHER -> Throw(t)

-----------------------------------------------------------------------------
(* run() *)

HostInit ==
    /\ phase = "starting"
    /\ turn = NewTurn
    /\ buffer = <<>>
    /\ results = <<>>

\* Notifications that overtake the answer to turn/start wait for it.
Hold(e) ==
    /\ phase = "starting" /\ Len(buffer) < MaxHeld
    /\ buffer' = Append(buffer, e)
    /\ UNCHANGED <<phase, turn, results>>

Handle(e) ==
    /\ phase \in {"awaiting", "validating"}
    /\ turn' = Consume(turn, e)
    /\ UNCHANGED <<phase, buffer, results>>

Notify(e) == Hold(e) \/ Handle(e)

\* turn/start is answered: what was held is replayed, in order.
Respond ==
    /\ phase = "starting"
    /\ phase' = "awaiting"
    /\ turn' = FoldLeft(Consume, turn, buffer)
    /\ buffer' = <<>>
    /\ UNCHANGED results

\* turn/start is refused.
Refuse ==
    /\ phase = "starting"
    /\ phase' = "failed"
    /\ buffer' = <<>>
    /\ UNCHANGED <<turn, results>>

\* run() goes on after its turn resolved, some notifications later: validateChildren's first test.
Continue ==
    /\ phase = "awaiting" /\ turn.end = "resolved"
    /\ phase' = IF /\ Len(turn.spawns) \in Required..Steps
                   /\ \A i \in DOMAIN turn.spawns : turn.spawns[i].waited
                THEN "validating" ELSE "failed"
    /\ UNCHANGED <<turn, buffer, results>>

Reject ==
    /\ phase = "awaiting" /\ turn.end = "rejected"
    /\ phase' = "failed"
    /\ UNCHANGED <<turn, buffer, results>>

\* The step read back next; the loop is over the live list of spawns.
At == Len(results) + 1

\* Mutant: a step with a repairer may end either way.
AnyRepair(child) ==
    /\ child.step = At /\ child.sound
    /\ turn.spawns[At].request = IF At = 1 THEN NoValue ELSE results[At - 1].value
    /\ Repaired(At) \/ child.ok

\* What is true of an acceptable thread: its envelope, its identity, role, transport calls
\* and tools (sound), an input that is the previous step's value, and the rule of its step: one
\* without a repairer succeeds, one with a repairer fails exactly if the repairer was spawned.
Acceptable(child) ==
    /\ child.step = At /\ child.sound
    /\ turn.spawns[At].request = IF At = 1 THEN NoValue ELSE results[At - 1].value
    /\ IF Repaired(At) THEN child.ok # (Len(turn.spawns) > At) ELSE child.ok

Accepted(child) == Append(results, [child |-> turn.spawns[At].child, ok |-> child.ok, value |-> child.value])

\* thread/read of the next child is answered; after the last one run() tests the parent's receipt.
ReadChild(child) ==
    /\ phase = "validating" /\ ~turn.broken
    /\ results' = IF Acceptable(child) THEN Accepted(child) ELSE results
    /\ phase' = CASE ~Acceptable(child) -> "failed"
                  [] Acceptable(child) /\ At < Len(turn.spawns) -> "validating"
                  [] OTHER -> IF turn.text = At THEN "returned" ELSE "failed"
    /\ UNCHANGED <<turn, buffer>>

\* A read that a closed transport or the app-server refuses.
ReadFails ==
    /\ phase = "validating"
    /\ phase' = "failed"
    /\ UNCHANGED <<turn, buffer, results>>

-----------------------------------------------------------------------------
(* Properties *)

\* A child's live answer is parsed, and passed on, as that of the step its thread ends up
\* attributed to, whichever of its notifications and its spawn's completion came first
\* (observeChildNotification 874-876, onCollabItem 925-929, synthesizeDirectCollaboration).
AnswersStayAttributed ==
    ~turn.broken => \A c \in Threads : turn.answers[c] # 0 => LET i == turn.answers[c] IN
        IF i <= Len(turn.spawns) THEN turn.spawns[i].child = c
        ELSE i - Len(turn.spawns) \in DOMAIN turn.strangers /\ turn.strangers[i - Len(turn.spawns)] = c

\* No child is attributed before the one it depends on was heard to answer, so none is ever
\* held against an input that was not there when it was spawned (onCollabItem 939-942).
NoSpawnBeforeItsInput ==
    ~turn.broken => \A i \in 2..Len(turn.spawns) : turn.answers[turn.spawns[i - 1].child] = i - 1

\* Whose answer it is, and whose input.
AnswersFindTheirSteps == AnswersStayAttributed /\ NoSpawnBeforeItsInput

\* A returned run is one execution of the component, although validateChildren walks a list
\* that notifications still extend: every required step, each repair run exactly because its
\* predecessor failed, and a success at the end that the parent named.
ResultIsAnExecution ==
    phase = "returned" =>
        /\ Len(results) \in Required..Steps
        /\ results[Len(results)].ok /\ turn.text = Len(results)
        /\ \A i \in 1..(Len(results) - 1) : results[i].ok = ~Repaired(i)
        /\ \A i \in DOMAIN results : turn.spawns[i].child = results[i].child
=============================================================================
