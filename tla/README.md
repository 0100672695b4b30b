# Warble: a TLA+ verification project

Warble compiles declarative agent definitions to an intermediate representation
(`core`, `cli`), dispatches them to agent hosts (`dispatcher/*`) and evaluates
the result (`eval/*`). The modules here model each of those stages, the runs
check them with TLC, and the `_proofs` modules prove the main results with TLAPS.

Two kinds of thing are hard in this code. Some parts are concurrent: child
processes on pipes, sessions whose continuations meet in any order, agents that
invoke agents on one budget, and directories that several commands share without
a lock. Others are sequential but rely on each other: what one stage checks, a
later one, often in another language, takes for granted. The first kind is a
state machine here; the second is a set of operators, asked together over all
small inputs.

Read a module next to the code `PROJECT.json` maps it to; paths below are under
`src/`.

## 1. The system and its parts

| Part | State | Operations | Interacts with | Hard |
|---|---|---|---|---|
| `core` (compile, context) | none between calls | `compile`: slots, preconditions, capabilities, dataflow, guards, call graph; the loaders of a semantic layer | profile, components and context from `cli`; its IR is read by every dispatcher | what is checked step by step must be what executors and a later `check-context` assume |
| `cli` sources, overlay, authoring | none | which library a component comes from, overlay, concise forms, whether the Hub is needed | files; `hub_fetch`; `core` | decisions taken on a profile that is yet to change |
| `cli` hub cache (`hub_fetch.rs`) | a directory per user: archive, checksum, extracted files | fill, trust, clear, unpack, publish, read | other processes | no lock; kills and power cuts between any two steps |
| `cli` gate, `mcp_serve` | none; one stdio loop | `blast-radius`, `handle_request` | agents call it | a seed, a ceiling at zero, replies that pair with requests |
| `cli` author build (`author_cli.rs`) | a reserved directory | reserve, open, emit, remove | other builders | what is opened and removed is found by path |
| `dispatcher/claude-code-cli` capability link, slots | none | profiles, provider fragments, resolution, refusals; slot choices | IR | what locks what; absence that travels through nested slots |
| host-owned plans (`session.rs`, `native_host.rs`, `pi_hybrid.rs`, vercel's `hosted.rs`) | none; a new plan file | `produce_session`, `prepare`, `emit_pi_hybrid`, `prepare_hosted_vercel` | IR and a host's contract, neither of which they trust | four readers of one kind of graph; heights remembered across callers; authority per step |
| claude-code-cli assets and interactive output | the IR and its asset directory, an output with an ownership record, a launch document | `compile`, `dispatch`, launch | the author, the user of the output, other commands | crash half-way, edits in between |
| `dispatcher/codex-local` transport (`app_server_transport.ts`) | pending map with timers, `closing`, `closed`, one child | `request`, `notify`, `close`, `onLine`, exit and stdin events, timers | the owner by promises and two callbacks; the app-server by JSON-RPC lines | late answers, throws inside executors, two closers, a child that ignores signals |
| codex-local session (`session.ts`) | `active` turns, `waiters`, `lastCompletedTurn`, `disconnected`, the last error, `recovering` | `start`, `turn`, `waitForTurn`, `resume`, `restartAndResume`, `close`, notifications | transport; embedder; provenance file | every `await` is an interleaving point; a wait may time out while its answer is on the way |
| codex-local orchestrated turn (`orchestrate_runtime.ts`, `request_mcp.ts`) | the `ActiveRun`: spawns, strangers, collaboration items, answers, deferred completion; a request file | `run`, `onCollabItem`, `validateChildren`, `stopTurn`, `restart` | app-server; children that read the request file | attribution of children whose spawn and answer come in either order |
| codex-local sequential engines (`exec_run.ts`, `turn_run.ts`, `step_engine.ts`) | outcomes, artifacts, last text and value | one process or turn per step | IR | a guard vocabulary shared with claude-agent-sdk |
| codex-local composed runtime (`component_runtime.ts`) | frames, a queue per frame, transports | `runComponentInvocation`, `invoke`, `runStep` | transport | queued calls of a step that has ended |
| `dispatcher/claude-agent-sdk` invocation runtime (`componentInvocation.ts`) | available turns, attempts, frames with reservations, a queue per frame | `run`, `invoke`, `executeComponent`, cancellation | one SDK query per step | one budget for a tree of runs |
| claude-agent-sdk staged executor (`run.ts`, `conditional.ts`) | artifacts, outcomes, final text | `runHybridStaged`, `executeStep`, `runRepairLoop` | IR | tolerated failures, repairs of repairs |
| claude-agent-sdk `closure.ts`, codex-local `prepareComponentInvocation` | a walk | one walk of the call graph each | IR, which they do not trust | three walks must agree |
| `dispatcher/vercel` | none | capability link and refusals; hosted bundles; renders | IR | as claude-code-cli |
| `dispatcher/pi` | callbacks by owner, grants with epochs, permits, evidence | `authorize`, `invoke`, `cancel`, `permit`, `fetch` | host by JSON lines | late answers, stale grants |
| `eval` compare and scoring | none | table comparison, extraction, folding of samples, reports | recorded answers | tolerance, absent cost, unstable answers |
| `eval` gate, selection, ablation, monitor | none | verdicts from reports | reports | legacy reports, ties, coverage |
| `eval` compliance | a position in a trace | six checks | trace, IR | order of approvals, gates and writes |
| `eval` runs and trace store | results by index, the store, an installed agent | `run_eval`, `run_cases`, `run_indexed`, `install_agents`, `load`, `store` | worker threads, the project | replay under a stale key, a kill between install and clean-up |
| `eval` backends | none | bindings to command lines, output to answers | dispatchers | a model lost on the way |
| `eval` context versions | pin of a golden file | verify, stamp, capture | the project's files | files a run leaves in what it hashes |

What makes each correct, in one line each:

* compile: what is emitted refuses nowhere later what was accepted here, and asks
  for nothing its profile withholds.
* sources: the project compiled is the project written, overlay included.
* hub cache: whoever ends well has read the release; whoever is alone does not fail.
* delivery: what lands is the manifest; nobody's own work is overwritten; an output is
  of one text or its record says otherwise.
* capability link: no provider weakens what the base locks.
* host-owned plans: a host is given what its root reaches, steps that find what they
  consume, and no authority that was not asked for.
* transport: a request settles once, in every ending; an ending is announced.
* session: a turn that ended stays ended; a wait settles, with "completed" only
  when it was earned; a session that must be resumed can be.
* orchestrated turn: a returned result is one execution of the compiled steps; a
  good run is not rejected for the order of its notifications; no run waits for ever.
* engines: no failure is lost; the result is of the last step; two back-ends
  given the same answers decide alike.
* invocation: turns are conserved; siblings are serial; cancellation wins; every
  call is answered.
* call graph: accepted means acyclic; a closure is what the roots reach.
* eval: a pass is within the tolerance, a report says no more than was measured, a
  verdict is earned, and an answer is of the configuration it is filed under.

`PROJECT.json` lists every part under `components`, those not modelled with the
reason, and under `hazards` the places where the code is hard to test.

## 2. Modules

    RpcPromise <--refines-- AppServerTransport --INSTANCE--> CodexSession
    TurnLedger <--refines-- ComponentInvocation
    StepPlan --EXTENDS--> StagedSteps --EXTENDS--> StepEngines <--INSTANCE-- CodexSteps
    OrchestrateTurn --EXTENDS--> OrchestrateAnyServer, OrchestrateDelivery
    SemanticContext --EXTENDS--> ProfileCompile --EXTENDS--> CompileAndAdmit
    Toolchain --EXTENDS--> CallGraph, CompileAndAdmit, HubCache, AssetDelivery, AuthorBuild,
                           ProjectSources, HostServices, SlotResolution, CapabilityLink
    Toolchain --INSTANCE--> HostPlans
    EvalCli:   EvalScores, EvalVerdicts, EvalBackends, Compliance, EvalContext, EvalRun

**AppServerTransport** is one `CodexAppServerTransport`. `phase` stands for
`closing`/`closed`, `req[r]` for a pending entry, its timer and the promise of its
caller; "zombie" is the entry left behind when `write()` throws in the promise's
executor. Actions: the owner's `request` and `close`, the four kinds of line
`onLine` tells apart, a request's timer, the kill timer, loss of stdin, exit of
the child. **RpcPromise** is what callers are promised: a call settles at most
once, is only answered by a live connection, and ends with it.

**CodexSession** runs `CodexSessionRuntime` on an instance of the transport. A
step is what JavaScript runs without giving up control: a call up to its first
`await`, one line, a timer, a file operation, or a continuation. Continuations
of settled promises come before the next timer or I/O event (`Quiet`), but after
the other lines of the chunk that settled them (`LineReady`): that is how
`turn/completed` can precede the continuation of `turn/start`. `said[t]` is a
history of what the server said of a turn.

**OrchestrateTurn** is one `run()` of `CodexOrchestrateRuntime`: every
notification handler, the deferral of waits and of the turn's completion, the
step request file, and the read-back of every child. It is completed by two
environments. **OrchestrateAnyServer** sends anything in any order and answers a
read with anything. **OrchestrateDelivery** does what the driver prompt asks, each act
once, and never waits for the host: up to `Lag` notifications may be on their way.
`Awaits` says what has to be said before a notification of a step, and every order that
it allows may occur; `Orders` names what the source knows of Codex 0.146 that changes
it: spawns recorded as they happen ("timely"), not at all ("direct"), after the turn
("late"), or after their waits ("early_wait").

**StepPlan** is the compiler's acceptance of ordered steps. **StagedSteps** has an
author write steps that `compile()` accepts or refuses one by one, then runs
`runHybridStaged` on them. **CodexSteps** is `validateStepTopology` and the loop
of `runExec`/`runTurn`. **StepEngines** steps both side by side on the same
component and, while they agree, the same answers; it is there to compare them.

**ComponentInvocation** is a composed run: frame 0 is the root, frame k the k-th
admitted attempt; the environment makes calls while a step runs and ends the step
with a number of turns. **TurnLedger** is the abstract budget: turns that are free,
granted or spent; none is promised twice, and who uses more than its grant forfeits
only itself.

**CallGraph** is the call graph of a profile and its three readers. The recursion
is a stack; what differs between the readers is a parameter of the walk (the sdk
forgets its visits with each root; `compile` looks at declarations first).

**SemanticContext** is the semantic layer and its loaders (parsed sources, a prepared
document, another program's layer, none) with every predicate; a text is a set of
pieces and a layer is what the predicates read of it. **ProfileCompile** is
`compile()`: every refusal, in the order of the source (`ProfileFaults`,
`MountFaults`), and what is emitted. **CompileAndAdmit** compiles a project over one
layer and verifies the preconditions that were emitted over another, as
`check-context` does in the host. **ProjectSources** is what `cli` does before:
concise forms, libraries and their precedence, the overlay, the need for the Hub.

**HubCache** is `ensure_cached_hub` by several processes: `proc[p].pc` is the next
statement of a command, `archive`, `checksum` and `extracted` the directory they
share; `excused` remembers whether a command met anybody or anything that may be
blamed for its failure. Between two statements a command may be killed or the power
may fail, after which any file may be cut short.

**HostServices** is the gate and the stdio server. **SlotResolution** is a slot from
its flag to the final text. **CapabilityLink** has the profiles of the targets,
the composition of provider fragments, the resolution of a component and the
refusals of the emission. **HostPlans** is what is written down for a host that runs the
steps itself: the direct session in both formats, the hosted bundle of vercel, the host
of a native session and pi:hybrid, each with every refusal but those of sizes and
spellings; `Visits` is the walk with remembered heights, a recursive
function of an id, the ids above it and what was found so far. **AssetDelivery** is the life of an output: compilations of
a project that changes, dispatches of what they wrote, the ownership record, edits
by whoever works in the output, and commands that die. **AuthorBuild** is a build at
a path that is to be new: it makes a directory, opens what is at the path (`Reserve` and
`Retain`, two system calls), and knows by that handle what it may remove. **Toolchain** is the command line over all of these: one
behaviour is one command. A command that answers at once gives its answer in a step
over every input of a `...Asked` constant; one that works on files or compiles runs the
machine of its module, and the other machines rest where they began, so that a theorem
about a machine alone is one about the command line (`MachinesAreTheirOwn`).

**EvalScores** (comparison included), **EvalVerdicts** and **EvalBackends** are the pure
parts of `warble eval`; costs and rates are integers, and numeric cells and tolerances
are whole units. The unit, the finest grid (`Finest`, nine decimals in the code) and the
end of an i64 (`Largest`) are constants, so that `round_to_grid` has the cast's edges: it
saturates, and NaN and the infinities, which a string may parse to, get a place as well.
What f64 rounds off before the cast is left out. **Compliance** reads a trace event by event and advances
the six checks together. **EvalRun** is successive runs and ablations over one
project: keys, the installed agent, worker threads over a shared counter, the trace
store, edits and kills; a file's content is a version and a hash is that version.
**EvalContext** is the pin of a golden file against the project's files.
**EvalCli** is the subcommands over them.

The MC modules give the instances of the larger runs; **AuthoredProjects** holds the
small projects and layers of `MCToolchain`, **AuthoredPlans** the profiles and hosts of
its plans. The other instances are given by their cfgs.

The `_proofs` modules hold the theorems (section 5): `Promises_proofs` for the transport
and the invocation runtime, which implement `RpcPromise` and `TurnLedger`; one each for
the session, the orchestrated turn (with both its servers) and the step engines; `Machines_proofs` for the
machines of the command line (the three directories that commands share: Hub cache,
author build, delivered output; the call graph; the compiler with the host that admits
what it compiled); `Toolchain_proofs` for the command line over all of these;
`Eval_proofs` for all of `eval`; and `Selections_proofs` for the lemmas about naturals,
sums and selections that several of them need.

## 3. Runs

| Run | Instance | Shows |
|---|---|---|
| `transport` | 3 requests | one settlement per request in every ending, no silent crash, every `close()` completes; refines `RpcPromise` |
| `session_calls` | 2 turns with a required tool call, 1 wait, one restart, bad lines and answers, a lost stdin | "completed" is earned, no waiter is stranded, no ended turn becomes active, a late wait is told the truth |
| `session_live` | 1 turn, 1 wait, overlapping callers, request timers, file errors | waits, turns and recoveries end |
| `session_timeout_resumable` | 1 turn, 1 wait | **violation**, see section 6 |
| `invocation` | 3 components in a diamond, 2 calls, 3 turns, providers that overrun and detach calls, a cancel | refines `TurnLedger`; serial siblings, funding of a chain, cancellation; every call and the run end, though a query may wait for its call for ever |
| `step_engines` | every plan of up to 3 steps over 3 names and 3 artifacts, one word being both | plans are well-formed, no failure swallowed, results and guards, both engines agree |
| `orchestrate_any` | 3 steps (the third a repair), 3 threads, any server | attribution, inputs, results are executions |
| `orchestrate_delivery` | 3 steps, 2 values, every order of delivery but a wait before its spawn, up to 3 notifications on their way | a good run is returned with all its answers; every run is judged |
| `orchestrate_early_wait` | the same, a wait before its spawn | **violation**, see section 6 |
| `toolchain` | one command of `warble`: some nine thousand projects over seven layers; overlays on two mounts; all call graphs of 3 mounts; 2 processes on a Hub cache; slots, services, providers; some eight thousand profiles and hosts of the plans; dispatches and builds into a directory in use | eleven properties, each about one command: those that are one machine's own in its module, the others in `Toolchain` |
| `eval` | one subcommand of `warble eval`: small tables, samples, reports, selections, bindings; traces of four events; two runs over an edited project | eight properties, stated in `EvalCli` |
| `eval_chained_gate` | traces of two events | **violation**, see section 6 |

Bounds, and why they are enough for the question asked:

* `Requests`, `Turns`, `Waiters`, `Calls`: an id is used once, so the number of ids
  bounds the run. Three requests allow one that is answered, one that times out and
  one that is stranded by a close at once; two turns are the least for "a newer turn".
* `Items`, `Mishaps`: which of the server's items and of the failures may occur;
  the session runs take all of them between them. `Overlap` allows callers that do not
  wait for their own call; only liveness is asked of them. `MaxRestarts` bounds
  recoveries; one meets everything of before.
* `OneTroubleAtATime` (a constraint of `session_calls`): with one turn alone every
  trouble is combined with every other; once a second turn or another request is
  there, the state is kept but not followed further when a restart, a failed tool, or
  the end of the session has happened as well.
* `MaxDepth`, `MaxAttempts`, `MaxTurns`, `MaxTurnsPerChild` are the code's own limits
  with small values. The diamond has a chain, a shared leaf and a step with a
  repair: calls at two depths, tolerance and refusal of a second attempt occur.
* `MaxSteps` 3: a failed step, its repair and a consumer of either; a repair of a
  repair; a guard between an artifact and its writer. `MaxRepairAttempts` is the
  code's 1; the proofs about the staged executor leave it open, and the agreement of the
  two engines needs it.
* `MaxHeld` and `Lag` bound the notifications held before the answer to `turn/start`
  and those on their way; the code has no bound. Two and three let a step's spawn,
  its child and its wait cross, and the server be a step ahead of the host.
* `Grids` 1, 10, 100 with `Finest` 10 and `Largest` 3: tolerances below, at and between
  grids, and numbers of either sign beyond the ends of the integer on the finest.
* `MaxCalls` 3 with three mounts and a stranger: every graph, self-calls and missing
  components included.
* `MaxStarts` 3, `MaxOutages` 2 on two processes: a third command finds what two that
  met, and two failures, have left; files are two so that a directory can be half
  removed.
* `MaxCompiles`, `MaxDispatches` 2 and `MaxMishaps` 1: a second emission over a first,
  a compilation between the two readings of a dispatch, and one death or edit.
  `MaxSwaps` 2 replaces a path and puts
  something back; of three builders the third meets what a late removal of the first
  does to the second.
* Plans: call graphs are chains of up to ten components, with detours that reach one
  twice at different depths, around the code's own limit of 8; flows are all pairs and
  triples of steps over three artifacts; a step's capabilities are every subset of four.
  In each form between a twentieth and a half of the inputs are accepted.
* The `...Asked` sets and `Families` vary one or two features of a base at a time,
  each through all values the code tells apart, instead of the full product.
* `MaxEvents` 4: an approval or gate call, its result, another event in between, and
  a write. `MaxRuns` 2, `MaxEdits` 1, `MaxKills` 1, two workers and a case: a second run
  replays what a first one stored, over an edit, after a kill.

`CHECK_DEADLOCK FALSE` everywhere: every one of these programs ends.

Symmetry is used for ids the modules only compare, never in a run with liveness.

## 4. Fairness

* Transport and session: a timer that is armed fires (`RequestTimeout`,
  `KillTimer`, `WaitTimer`), a settled promise continues, a file operation ends,
  and a process that was killed exits. Nothing is assumed of the server: it may
  never say a word. SIGTERM may be ignored; only SIGKILL is believed.
* Invocation: the loop takes its next step, the queue of a frame moves, and a step whose
  calls are all answered ends (the SDK query has a turn limit). A turn limit does not end
  a query inside a tool call, so nothing is assumed of a step with an unanswered call: it
  may let go of it (`Detach`) or wait for ever, and that no such wait closes a circle is
  what the run shows. No fairness on cancellation or on the environment's calls.
* Orchestrated delivery: weak fairness of the whole next step: the server of this
  module does what it was told to, in some order, and the host reads it.
* `toolchain` and `eval` ask safety only; a command that is killed ends anywhere.

## 5. Proofs

All with tlapm, for any value of the constants: any number of requests, steps, threads,
processes, cases and events. They assume only the named ASSUMEs of the modules, which
TLC evaluates in the runs. Each safety theorem rests on one inductive invariant, which
was checked by TLC before it was proved; the property alone is never inductive, and the
text below says what had to be added.

* `Promises_proofs`, the transport: `TransportTypeCorrect`; `TransportEnd`, with the
  invariant that a closed transport has no entry in the pending map and a silent
  end has a cause, from which `ChildEndIsAccounted` follows; `SettledOnce`, the
  action property that a settlement is final; `TransportKeepsPromise`, step
  simulation of `RpcPromise` (each action is one `Make`, `Resolve`, `Fail`, `End` or
  a stutter).
* `CodexSession_proofs`: `CompletionsAreEarned`, for callers that overlap as well. The
  invariant (`EarnedInv`) is about the notes the runtime keeps: those on an active turn,
  and those of the last completed one, say only what the server has said of that turn,
  and a wait that is told "completed" is told so from one of these notes.
  `NoWaitIsLeftBehind` and `EndedTurnsStayEnded` are of callers that await each call
  (`~Overlap`; a restart while a turn/start is unanswered can leave a wait behind, and two
  turns started at once share one bridge). Their invariant (`KeptInv`): one `turn()` at a
  time and none during a recovery; the transport of a restart has been asked for no turn;
  a turn that failed is one the server cannot take up again, unless its answer could not
  be used; a turn that was returned and is not followed any more has been heard to end;
  and a restart that finds turns left over finds none that someone waits for, so the
  disconnect that aborts it, which settles nobody, strands nobody.
  `LateWaitsAreAnswered`, the action property, needs no such caller: until the first
  recovery, the end of a returned turn is in the bridge or another turn has been started
  (`EndIsBridged`).
* `OrchestrateTurn_proofs`: `AnswersAreAttributed` and `ReturnedIsAnExecution`, for
  any number of steps and threads and a server that sends anything in any order. The
  invariant (`RunInv`) follows a record of the run from the notification that made it to
  the read-back that uses it: the threads of spawns, strangers and held notifications are
  apart, an answer is of the thread it is filed under, what is deferred is still to be
  judged, and a validation that walks the list of children while it grows has passed
  those behind it. The replay of held notifications is a fold; that it keeps the invariant
  is an induction over its prefixes, done by the least one that does not.
* `OrchestrateTurn_proofs`, the faithful server: `OutcomesAreEarned`, that no good turn is
  rejected and what is returned is what was answered, in any order of delivery but the two
  of section 6 (`OrdersAreKept`). The invariant (`DeliveryInv`) has the host's record of
  the turn as a function of the server's as it was when it said what the host has handled:
  each notification held or on its way leads from one such state to the next (`Leads`),
  the last of them to the server as it is.
* `StepEngines_proofs`: `StagedTypeCorrect`; `AcceptedPlansAreWellFormed`: the
  one-step checks of `compile()` make a whole plan well-formed (each accepted
  step keeps it); `FailuresAreNotSwallowed`: the strengthening says that every
  failure behind the executor either has a step that ran for it or has its
  tolerant guard still ahead (`FailuresAnswered`). `RunsTellTheTruth`: the final text is
  that of the last success, a flag was left by a step that succeeded and who has run has
  left something (`RunInv`); whoever ran last did not fail, for its failure would have
  been awaited by a later one. The reasons of the steps stand because they lie behind
  them, provided that `KeysAreApart`, without which they do not (section 6).
  `EnginesKeepFaith`: the Codex engine's outcomes from the step it is at backwards, a
  bad terminal with a consumer that waits for it, and a shared story as long as both are
  followed (`EnginesInv`). Its hypothesis `MaxRepairAttempts = 1` is the code's constant
  and is needed: with a second attempt the staged executor is still at the repair when the
  Codex engine has given up. `EnginesImplementStaged` carries the theorems about the
  staged executor over to the two side by side.
* `Promises_proofs`, the invocation runtime: `InvocationTypeCorrect`, in particular that no
  reservation and no balance is ever negative, even with overrun;
  `SiblingsAreSerial`, which is not inductive alone: a running call must be the
  first of its frame's queue (`FirstInLine`), and queues have no other owner;
  `CancellationIsFinal`, an action property; `InvocationKeepsTheLedger`, step
  simulation of `TurnLedger` (each step is at most one act of one holder), with the
  invariant that whoever is about to be granted turns holds none (`HeldIsInUse`).
  `TheFirstChainIsFunded` follows the reservations down a chain of calls: while no turn
  is spent and no call is left from an earlier step, the frames are one chain
  (`OneChain`, by the queues again), and what is available has a turn for every call
  that may still follow (`Funded`).  The depths it counts with are those of the
  recursive function `ChainBelow`: that it is what its definition says, is bounded, and
  finds no shorter chain in more levels, are inductions (`ChainBelowUnfolds`,
  `ChainIsBounded`, `ChainIsLongest`), so that the constants need no assumption about
  depths, and graphs with cycles are not excluded.
* `Machines_proofs`, the directories that commands share without a lock:
  * `HubStaysWhole`. The invariant (`HubInv`) says what a command knows at its point of
    the sequence: the archive it trusted is good, what it is about to publish is
    complete, and once somebody reads, nothing but the release is found in the
    directory, because whatever replaces it is complete and whatever else happens to it
    only removes files. That a command alone does not fail needs two more parts:
    commands that run at one time excuse each other (`Alone`), and one without an
    excuse finds the directory as it left it (`DirectoryIsItsOwn`).
  * `BuildsKeepToTheirOwn`. A build holds what it made and, about to remove, stands before
    it, unless somebody came between the making and the opening or between the look and
    the removal; one that was overtaken can take away another build's directory, and by
    that make a third build's look stale (which is why the property excuses all builds
    and not only the late one).
  * `DeliveriesAreWhole` and `EmissionsSpareTheUser`, from one invariant
    (`DeliveryInv`): of what a dispatch has to write, everything that is not left to
    write is there as it was emitted, or was touched by somebody since; nothing else is
    in the output that was not there before, until files are landed; and while an
    interactive dispatch emits, what it finds of its user's is in its record, because
    the preflight compared them. The child of an isolated component is the exception,
    being in no plan (`WrittenIsPlanned`).
  * `OutputsAreTheirOwn`, from an invariant of its own (`OwnInv`): a record has the shape
    of its plan, each recorded digest is of a text that was there when the record was
    written, files are recorded before the launch document, and in an output that nobody
    touched (`Undisturbed`) every recorded file is as recorded. The proof made the
    property weaker than it had been stated: an output whose component was split and is
    now isolated keeps its old step files, which are planned, hence recorded, and which
    nothing writes any more (section 6). `DeliveryAssumption` keeps the
    name under which the model files what a session shares apart from the names of
    components, as the directories of the output do.
* `Machines_proofs`, the call graph: `GraphInvariant` and from it `AcceptedHasNoCycle`,
  `VerdictsHaveACause`, `ClosureIsTheReach`. The invariant: the stack is a simple
  path of calls; each node on it has every callee still to look at, behind it, or
  next on the stack; what the ended visits of this root and of earlier roots left
  is closed under calls and acyclic (`Sound`), a property kept by union
  (`SoundUnion`) and by adding a node whose callees are all inside
  (`SoundWithOneMore`); and nothing was visited that the roots do not need.
  Acyclicity is stated as well-foundedness (each set of components has one that
  calls none of it), so the argument needs no induction and no transitive closure.
* `Machines_proofs`, compilation, for `CompilationsStand`, `CompilationsAreAuthorized` and
  `CompilationsResolve`, which `Toolchain_proofs` concludes of the command line. The invariant (`AdmitInv`): what is compiled is what `compile()`
  gives for what was authored, and an answer of the host is that of `check-context` over
  the snapshot it took. The work is below it. The compiler reports the first of many
  faults, so no fault means that every check of the list held (`FirstFaultFacts`,
  `MountFaultsFacts`, `CompiledFacts`), and each node of the result is a mount whose checks
  held (`NodesAreMounted`).
  From there: that a step holds what its component is granted follows the capability of
  calls through both places where the compiler adds it (`StepsAreAuthorized`); a lock
  survives a patch because a patch of a locked guardrail is a fault (`LocksAreKept`); an
  emitted condition is the one that was evaluated, in all three ways an evaluation may end
  (`OutcomeFacts`), and the host's evaluation of it differs from the compiler's only in
  the layer (`SameAnswers`). That a slot is declared once within reach joins two checks:
  references and declarations of one list are the same names, and the lists of a component
  and of its profile share none (`LinedUp`, `DeclaredOnce`); rendering takes away
  placeholders and keeps references (`RenderedFacts`).
  They assume `AuthoredAssumption` and `LayerAssumption`, what the types and the loader give
  for any file: lists are lists, a component is kept under its own id (`lib.rs:579`), `locked`
  and `overridable` are yes, no or absent, and a layer's time dimensions are the temporal
  ones of its dimensions (`context.rs:454`; a layer whose loader broke that is not covered).
* `Toolchain_proofs`, the command line: `MachinesAreTheirOwn` (a behaviour of `Toolchain`
  is one of each of its machines, at work or at rest), which carries the theorems of the
  machines over: `CachesStayWhole`, `DispatchesAreWhole`, `CommandsSpareOthers`,
  `ReadersAreTrue`. Of the commands that answer, four are proved for any input:
  * `SourcesAreKept`, of any profile, overlay, libraries and Hub. Where a component is
    defined is a selection by value (`DefiningIsOfThese`), a selection from joined lists is
    joined (`PickedJoined`), and the Hub's part of it is empty among local libraries
    (`HubIsBehind`), so that what a library has is found alike with the Hub and without
    (`LibraryResolves`); the rest compares two compilations mount by mount. Of an overlay:
    what it leaves is the kept mounts, each bound or as it was, and its own
    (`PatchedMountsAre`); a selection from the kept mounts is one from the written ones
    (`PickedTwice`), and no component is mounted twice because what is counted equal is
    without repetition (`DistinctCount`). The proof found a hypothesis that the property
    lacked: a profile with one component twice, which is malformed and refused before its
    overlay is looked at, would keep it twice.
  * `ServicesAreTrue`, of any layer, thresholds and lines: the answers of the server are the
    requests it heard, one for one (`FlattenOfFew`), whatever was between.

  * `DispatchesAreKept`, of `warble dispatch` in two halves. To a target, with any components
    and any `--provider` fragments: the composition after the first n fragments is
    described without their order (`IsComposition`: each capability has the entry of the
    base or of the one fragment that claims it, and every fragment fits what the base and
    itself have), so that a rearrangement of the list composes, or fails to, alike
    (`AnyOrderComposes`), and what each of the four back-ends resolves against is supported
    by the base or by exactly one fragment (`ComposedIs`, `DispatchWeakensNothing`). With
    `--slot`, over any texts: the recursion of `resolve_one` is over names and the set of
    slots it is inside of, which grows at each reference; after as many rounds as slots
    are left a round changes nothing (`Settled`), which gives the function that the
    recursion names (`SlotsAreResolved`). What a slot then comes to is shown by the same
    measure: a fault-free one leads to nothing it is inside of and says the wording of all
    that it leads to (`Clean`), and where every slot is sound nothing faults (`NextIsFine`).

  They assume `SourcesAssumption`, `ServeAssumption`, `LinkAssumption` and
  `SlotsAssumption`: lists are lists, the project and further libraries are local ones and
  the Hub is the Hub (`lib.rs:47`), a profile mounts a component once
  (`core/src/compile.rs:803`), and a piece of text is a place in the sources, so that no two
  variants share one. The last is what the preview's claim needs: two variants that say
  the same words at different places are told apart.
* `Eval_proofs`: `CompliantTracesAreCleared`, for traces of any length: the property
  speaks of all writes of a trace against the last approval, gate call and attestation
  before each, the code of one position; the invariant (`ComplianceInv`) says what each
  of the six checks knows of the events it has passed, and that the last one of a kind
  is the greatest position of it. `ReplaysAreTheirOwn` and `RunsAreTheirOwn`, for any
  number of workers, cases, samples, edits and kills: the keys are one-to-one
  (`RunAssumption` of `EvalRun`: a turn limit is not a tier), the hash of an emitted agent
  tells the IR it is of (`KeyedIrIsHashed`), a job is of exactly one worker,
  a result in a slot is of the job whose slot it is, and the installed agent is that of
  the point while any worker of it runs (`EvalRunInv`).
* `Eval_proofs`, the files: `StaleGoldensHaveMoved`. A hash is over the sorted model files
  and their versions, so it is the same for two directories exactly when each file of one
  is in the other at the same version (`HashTellsModels`); the invariant (`ContextInv`) keeps
  what was hashed next to the hash.
* `Eval_proofs`, the answers, one theorem for each property of a pure command. There the
  invariant only says that an answer was given to a question that may be asked; the
  argument is about the operators.
  * `PassesAreWithinTolerance`: equal multisets give a bijection between the rows they
    count (`SameBagRearranges`), a row of the grid is compared cell by cell, and two numbers
    on one point of the grid are no more than a step apart, where the step is at most the
    tolerance or, for none or a negative one, the finest there is
    (`GridIsWithinTolerance`). This is so of numbers that have a place on the grid;
    `OnePlace` exempts the others (`RoundAlike`, and section 6). The constants are any
    grids with a unit and a finest one, and any width (`GridAssumption`).
  * `BindingsAreHonoured`: the model that reaches a backend is the flag's, the file's or
    none, in this order of precedence, and every backend that cannot carry it refuses.
  * `VerdictsHaveTheirReasons`, of four commands. That the gate fails exactly when
    something is lost has to be said of ids, of which a report may hold several with
    different rates: the map keeps the last. A gate with a negative tolerance may also fail
    for nothing, and the property does not ask it of one. For the selection, what `even_pick` takes is
    strictly ascending and of the size asked, and buckets fill evenly because each round
    of `per_tag_pick` goes over all tags (`SampleIsFair`). For an ablation, the cheapest
    that holds the floor. For a monitor, counts that are equal are of equal sets.
  * `ReportsTellTheTruth`, over any number of cases and samples: the totals are sums of
    sums, and a sum over sequences joined is the sum of their sums (`SumOfJoined`); a
    missing summand makes each sum above it missing; the bag of answers counts as many as
    there were answers, so that a bag that is full with one element is one answer given
    every time. The property speaks of ids, as the report prints them, since nothing in the
    runner keeps two cases from having one.

  What they assume of the questions (`CompareAssumption` ... `BindingAssumption`) is what
  the types and the parsers of the program give for every input: tables are lists of lists,
  counts are not negative, a case is asked as often as `--samples` says and at least once
  (`lib.rs:1738`), a report's rate is that of its passes, and the cost of a step is
  known when `recommend` compares it.
* `Selections_proofs`: a filtered list, which the model writes `Picked` (the elements at
  given places, in order), has one place for each place chosen and keeps what all elements
  have; it is the only list of its places (`PickedIsListed`), which makes selections of
  selections and of joined lists selections again; joined lists hold what their parts hold; counting equals tells subsets apart. These
  stand for what the libraries say of `SelectSeq` and `FlattenSeq`, which the provers
  cannot unfold.

Induction over data is out of the prover's reach in the form the libraries give it (an
operator as parameter). Where a proof needs it over the naturals, it takes the least element
of a set of counterexamples, which the well-founded order gives (`LeastNatural`,
`Induction`, `SomeoneIsLast`). It also gives what a recursive function returns: that a
function with the recursion's equations exists at all is proved by joining its initial
parts (`RecursionExists`), for sums, selections, joined lists and `ChainBelow`.

Only model-checked:

* The plans of a host (`PlansAreHonoured`), whose inputs are enumerated.
* That a compiler's graph check, which `ProfileCompile` takes as one condition, is what the
  walk of `CallGraph` decides: the theorems about each are separate.
* All liveness, which rests on fairness and ENABLED, beyond this prover.

## 6. Where the code and the repository's words disagree

Three are runs that expect a violation:

* `session_timeout_resumable`: a wait that times out is to leave "an explicit
  resume-required state" (`session.test.ts:406`). A line of the server that is
  handled between the interrupt and the clean-up's end enters the turn again
  (`session.ts:527`), and `resume()` then refuses because a turn is active.
* `orchestrate_early_wait`: "waits and spawns can complete in either order"
  (`orchestrate_runtime.ts:958-962`). When the wait of step i+1 completes before its spawn, the
  state of the last spawn is that of step i, the wait is taken for a second one of
  step i and the run is rejected.
* `eval_chained_gate`: a write chained to its own gate call counts as its dry run
  (`compliance.rs:627`) and is not held against the gate's verdict (`:758`), and the
  comments at both say that the trace is non-compliant overall, by `human_approval` and
  `write_authz`. Approved beforehand and within its scope it passes these as well, and the
  trace is compliant before the gate has answered. `CompliantMeansCleared`, which is about
  all other writes, says that it leaves such a write out.

Others were met while modelling and are not kept as runs. In the runtimes:

* The timer of a request closes the transport without `onDisconnect`: a session
  goes on believing it is connected, where `codex-local/README.md:91-92` says that a
  timeout yields "an explicit failed or resume-required session state".
  `SilentEndHasACause` keeps this as the one exception.
* `component-composition.md:423-426, 446, 450` reserves a step's turns before the
  step and its descendants start and admits calls of the running step only; a step
  that ends with an unanswered call (`Detach`) leaves that call in the queue, to be
  admitted with whatever is there then.
* `run.ts:441` keys the text of a step that produces nothing by its name, in the record
  that holds the artifacts, and `compile.rs:1085-1102` checks the two namespaces apart.
  When the producer of artifact `x` fails under a guard that tolerates it and a step
  named `x` then answers with the flag, a later step with `on_flag` on `x` runs, where
  `docs/spec/ir-schema.md:494` says "Runs only if that boolean field on a produced
  artifact is true". `GuardsTellTheTruth` alone is violated in this way in the instance
  of `step_engines` (one word is a name and an artifact there); `RunIsWhatItTells` asks
  it of plans with `KeysAreApart`.
* `exec_run.ts:173` reads, as `undefined`, inputs that a survived bad terminal never
  wrote; the rule of `step_engine.ts:60-64` covers skipped producers only.
* A server that answers one `turn/start` with something unusable and runs that turn
  all the same lets a second turn be started beside it; when both complete before the
  second answer's continuation, `lastCompletedTurn` holds only the later of the two and
  the other one "resurrects". `NoTurnResurrected` is asked where every turn that began
  was kept (`TurnsAreKept`).
* `restartAndResume()` looks at active turns only. Called while a `turn/start` is on its
  way, it starts the new child under a turn that becomes active meanwhile, and a wait for
  that turn is left to its own timer. `NoWaitLeftBehind` is asked of callers that await
  each call, where it holds.
* With `Orders = {"late"}` and one required step, whose records then all come after the
  turn, there is no spawn to defer the completion for: `synthesizeDirectCollaboration`
  (`orchestrate_runtime.ts:1005`) takes the turn for one without records and rejects it,
  where the comment at `:818-821` retains it. `OutcomesAreEarned` needs more than one
  required step when records may be late.

In compile, dispatch and the command line:

* A selector that is not a string compiles and is refused by `check-context`. The
  document prepared from an external context answers "no" where the context itself
  answers nothing.
* A cycle of slot variants compiles, and no dispatch of it succeeds; a `--slot` flag with
  a name no component declares is ignored.
* Two components may declare one asset path: the later one lands. Two verbs of one name
  write one `agents/<verb>.md`.
* A component that was split and is emitted again isolated leaves its old `step.md` files
  in the output. They are in the plan (`emit/mod.rs:707`), so they are recorded with the
  digests of the earlier emission, and nothing writes or removes them.
* For an isolated component "the tiers collapse" (`emit/mod.rs:806`), but the plan of an
  interactive output names a file per tier (`emit/mod.rs:707`): the ownership record is
  refused over its own emission, after every file was written (`IsolatedTiersCollapse` of
  `AssetDelivery`, with one component and nobody else at work).
* A build makes its directory and opens it by path (`author_cli.rs:123, 127`). A directory
  that somebody puts there in between is held as the build's own, passes the check of
  identity (`:156`) and is removed with all it holds when the build fails, where the comment
  at `:122` says that one that exists "is never ours to clean up". If the opening fails, the
  new directory stays. The check and the removal (`:156, 161`) leave the same gap.
  `BuildKeepsToItsOwn` excuses builds when somebody came into either.
* A re-emission that dies half-way is refused for ever: the files no longer match the
  record, and the only remedy is by hand.
* An overlay that unmounts a component and binds it as well passes the checks of
  `apply_overlay` and panics at "presence was checked above" (`overlay.rs:167-172`), after
  a part was applied.
* An empty blast radius is let through also when its seed is protected; the order is
  documented (`gate.rs:48-57`).
* The asset directory is read again after the IR was loaded, so that a compilation in
  between is noticed only by digests; the hybrid target writes before it checks.
* Two readers of one kind of profile differ: the hosted bundle refuses any capability
  ceiling, the direct session honours it; the session wants the host's guardrails to be
  the component's, the bundle wants them among the host's; the session compares a
  component's context with the profile's, the bundle does not; and children of pi:hybrid
  may have borrowed actions, which both others refuse.
* The vercel, codex and pi targets refuse every component that asks for `blast_radius`,
  where `docs/spec/blast-radius.md:203-205` says only a coarsely bound target does.

In eval:

* The tolerance of the gate never changes its verdict: coverage falls only when a case
  does, and a case that falls to zero is a regression of its own. A gate passes when no
  configuration of the baseline is in the current report.
* Two steps of one label share their points in an ablation's recommendation.
* A trace is written with `fs::write`, which a kill can cut; a torn trace is a miss.
  `install_agents` that fails part-way leaves the files it copied. `--no-cache` does
  not store either.
* The replay key of a back-end that reads an IR hashes that file alone, not the assets
  beside it. For codex-local the file is a dispatch spec (`lib.rs:1461-1463` hashes it), and
  neither the IR that it names nor anything beside that is in the key: after an edit of the
  IR the answers of the old one are replayed, where `CaseKey` says "Everything here is in
  the cache key" of the inputs that determine a result (`cache.rs:80`). `ReplayIsItsOwn`
  compares the IR as well and exempts codex-local by name.
* A table is compared on a grid of integers, and the cast to i64 saturates
  (`compare/src/lib.rs:114-117`). Without a tolerance the grid has nine decimals, so that
  all numbers from about 9.2e9 up, of either sign, are one: 10000000000 is a match for
  20000000000 under `set` and `ordered` (a scalar is compared exactly). The text "nan"
  counts as zero there. `PassIsWithinTolerance` exempts numbers that have no place of
  their own on the grid.

## 7. Not modelled

* The lifecycle around the orchestrated turn (`stopTurn`, `restart`, a second `run()`
  during `turn/start`), the composed runtime of codex-local (its preparation is a
  reader of `CallGraph`; its queues and frames are `ComponentInvocation`'s in another
  language), the provenance file of a session.
* `dispatcher/pi` and its service; `dispatcher/claude-agent-sdk` options, guardrails,
  sessions and code generation. `claude-code-cli/src/conditional.rs`, which only its
  tests and a conformance fixture call.
* Text: prompts, rendering, manifests, the Vercel bundle, printed explanations. Parsing
  of arguments and files. They are functions of immutable data and ordinary
  tests reach them. `provenance.rs` repeats loading for a preview and is mapped with
  what it repeats.
* Symbolic links in outputs, two `eval run` at once over one project, the external
  benchmark client `eval/bird-interact`.

Hazards that are known and that no property covers:

* After an awaited interrupt the session's clean-up takes the session down whatever has
  happened since (`session.ts:417`): the code does exactly this and nothing in the
  repository says otherwise; it is in the model.
* `run()` tests the active turn but not `startingTurn` (`orchestrate_runtime.ts:562`): a
  second call during `turn/start` displaces the first, whose promise then never settles.
* The message of a tolerated failure is stored as the artifact itself
  (`run.ts:634`), so consumers read it as data.
* `stopTurn` waits out its grace period and then closes the transport it captured,
  although the turn may have completed (`orchestrate_runtime.ts:1271`); two processes
  share the step request file (`:888`; that a child loads its own is part of
  `TurnRunsItsCourse`, under the orders of delivery modelled).
* The transport of a step dies while one of its calls runs and another waits
  (`component_runtime.ts:111`).
* The record of a thread's turns is truncated and then written
  (`session_provenance.ts:51`).
* Cancelled callbacks of the pi service are remembered up to a bound
  (`pi/src/service.ts:27`).
