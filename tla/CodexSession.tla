----------------------------- MODULE CodexSession -----------------------------
(***************************************************************************)
(* CodexSessionRuntime (dispatcher/codex-local/src/session.ts) on top of    *)
(* CodexAppServerTransport: one persistent thread, turns on it, waits for   *)
(* turns, the timeout of a wait, the loss of the app-server, restart,       *)
(* resume and close.                                                        *)
(*                                                                          *)
(* JavaScript runs one callback at a time.  A step here is one such run: a  *)
(* call of the runtime up to its first await, one line of the app-server, a *)
(* timer, a file operation that ended, or the continuation of an await.     *)
(* Continuations of settled promises run before the next timer, I/O event   *)
(* or exit of the child (Quiet), but after the other lines of the chunk     *)
(* that settled them (LineReady).                                           *)
(***************************************************************************)
EXTENDS Naturals, Functions, TLC

CONSTANTS
    Turns,        \* turn ids; turn() is called at most once for each
    Waiters,      \* calls of waitForTurn()
    NoTurn,
    RequireTool,  \* the step's requireSuccessfulTool
    Overlap,      \* callers may make a call while another one is pending
    Items,        \* which of ItemEvents the app-server sends, to bound a run
    Mishaps,      \* which of AllMishaps may occur, to bound a run
    MaxRestarts   \* bound on restartAndResume() and resume()

AllMishaps ==
    {"bad line", "bad answer", "request timer", "stdin lost", "other request", "file error"}

\* One MCP tool call, with its result, and the agent's message.
ItemEvents == {"tool started", "tool completed", "tool failed", "answer"}

ASSUME SessionAssumption ==
    /\ NoTurn \notin Turns
    /\ RequireTool \in BOOLEAN
    /\ Overlap \in BOOLEAN
    /\ Items \subseteq ItemEvents
    /\ Mishaps \subseteq AllMishaps
    /\ MaxRestarts \in Nat

VARIABLES
    phase, req, stdinUp, killed, told, ownerClosed,  \* the transport
    loaded,         \* session # null
    active,         \* activeTurns
    disconnected,
    lost,           \* disconnectedTurn: the turn and the error its late waiter gets
    lastCompleted,  \* lastCompletedTurn: the turn and its status
    start,          \* the call of start()
    turn,           \* turn[t]: the call of turn() that obtains t
    wait,           \* wait[w]: a call of waitForTurn(), its turn and its outcome
    recovery,       \* the call of restartAndResume() or resume()
    closing,        \* the call of close()
    said            \* history: what the server said of each turn

transport == <<phase, req, stdinUp, killed, told, ownerClosed>>
runtime == <<loaded, active, disconnected, lost, lastCompleted>>
calls == <<start, turn, wait, recovery, closing>>
sessionVars == <<transport, runtime, calls, said>>

-------------------------------------------------------------------------------
StartRequest == <<"thread/start", NoTurn>>
InitRequest == <<"initialize", NoTurn>>
ResumeRequest == <<"thread/resume", NoTurn>>
AuxRequest == <<"other", NoTurn>>     \* read, steer, interrupt or fork by a caller
TurnRequest(t) == <<"turn/start", t>>
InterruptRequest(w) == <<"turn/interrupt", w>>

SessionRequests ==
    {StartRequest, InitRequest, ResumeRequest, AuxRequest}
        \cup {TurnRequest(t) : t \in Turns} \cup {InterruptRequest(w) : w \in Waiters}

T == INSTANCE AppServerTransport WITH Requests <- SessionRequests

Outcome(k, t) == [kind |-> k, turn |-> t]
None == Outcome("none", NoTurn)
NothingLost == [turn |-> NoTurn, error |-> None]

IdleTurn == [started |-> FALSE, pendingTool |-> FALSE, goodTool |-> FALSE, hasAnswer |-> FALSE]
NoneActive == [t \in {} |-> IdleTurn]

SessionInit ==
    /\ T!TransportInit
    /\ loaded = FALSE
    /\ active = NoneActive
    /\ disconnected = FALSE
    /\ lost = NothingLost
    /\ lastCompleted = None
    /\ start = "idle"
    /\ turn = [t \in Turns |-> "idle"]
    /\ wait = [w \in Waiters |-> [pc |-> "idle", turn |-> NoTurn, out |-> None]]
    /\ recovery = [pc |-> "idle", by |-> "none", count |-> 0]
    /\ closing = "no"
    /\ said = [t \in Turns |-> {}]

-------------------------------------------------------------------------------
(* The event loop. *)

Settled(r) == req[r] \notin {"unused", "pending"}

Awaited ==
    {TurnRequest(t) : t \in {u \in Turns : turn[u] = "starting"}}
      \cup {InterruptRequest(w) : w \in {v \in Waiters : wait[v].pc = "interrupting"}}
      \cup {r \in {StartRequest} : start = "requested"}
      \cup {r \in {InitRequest} : recovery.pc = "initializing"}
      \cup {r \in {ResumeRequest} : recovery.pc = "resuming"}

\* The await throws, or returns an answer the runtime throws on: no thread or
\* turn in it, another thread, a turn that is not in progress, another codexHome.
Unusable(r) == req[r] = "resolved" => "bad answer" \in Mishaps

Continuations == {r \in Awaited : Settled(r)}

\* Someone awaits the end of a child that has ended.
EndAwaited ==
    /\ phase = "closed"
    /\ \/ \E w \in Waiters : wait[w].pc = "closing"
       \/ recovery.pc \in {"stopping", "aborting"}
       \/ closing = "pending"

Quiet == Continuations = {} /\ ~EndAwaited
LineReady == T!Reading /\ \A r \in Continuations : req[r] \in {"resolved", "rejected"}

\* While restartAndResume() starts a transport, this.transport is still the old,
\* closed one, though the new one already calls onNotification and onDisconnect.
Attached == recovery.pc # "initializing"

\* A caller that awaits each call, waits apart, before the next one; close() ends it.
CallerFree ==
    \/ Overlap
    \/ /\ start \notin {"requested", "creating"}
       /\ \A t \in Turns : turn[t] \notin {"starting", "recording"}
       /\ recovery.pc = "idle" /\ closing = "no"

-------------------------------------------------------------------------------
(* Private methods. *)

\* settleWaiters for the turns in S.
SettleWaiters(ws, S, out) ==
    [w \in Waiters |-> IF ws[w].pc = "waiting" /\ ws[w].turn \in S
                       THEN [ws[w] EXCEPT !.pc = "settled", !.out = out] ELSE ws[w]]

EnsureActive(t) ==
    [u \in DOMAIN active \cup {t} |-> IF u \in DOMAIN active THEN active[u] ELSE IdleTurn]

\* onDisconnect, called with the turns and the waiters as they then are.  The
\* turn a late waiter can still ask about is the first of the active ones.
OnDisconnect(turns, ws, error) ==
    IF disconnected
    THEN /\ active' = turns
         /\ wait' = ws
         /\ UNCHANGED <<disconnected, lost, lastCompleted>>
    ELSE /\ disconnected' = TRUE
         /\ IF DOMAIN turns # {} /\ loaded
            THEN \E t \in DOMAIN turns : lost' = [turn |-> t, error |-> error]
            ELSE lost' = NothingLost
         /\ lastCompleted' = None
         /\ wait' = SettleWaiters(ws, DOMAIN turns, error)
         /\ active' = NoneActive

\* Mutant: the transport is left open.
CloseForgotten == UNCHANGED transport

\* transport.close() on this.transport.
CloseTransport == IF Attached /\ phase = "open" THEN T!Close ELSE UNCHANGED transport

\* request() on this.transport.
SendRequest(r) == IF Attached THEN T!Request(r) ELSE UNCHANGED transport

-------------------------------------------------------------------------------
(* start() *)

StartCall ==
    /\ CallerFree
    /\ start = "idle"
    /\ ~disconnected /\ ~loaded
    /\ SendRequest(StartRequest)
    /\ start' = IF Attached THEN "requested" ELSE "failed"
    /\ UNCHANGED <<runtime, turn, wait, recovery, closing, said>>

StartContinues ==
    /\ start = "requested"
    /\ Settled(StartRequest)
    /\ \/ req[StartRequest] = "resolved" /\ start' = "creating"
       \/ Unusable(StartRequest) /\ start' = "failed"
    /\ UNCHANGED <<transport, runtime, turn, wait, recovery, closing, said>>

\* provenance.create() has ended; only then is the session set.
StartCreated ==
    /\ Quiet
    /\ start = "creating"
    /\ \/ start' = "done" /\ loaded' = TRUE
       \/ "file error" \in Mishaps /\ start' = "failed" /\ UNCHANGED loaded
    /\ UNCHANGED <<transport, active, disconnected, lost, lastCompleted>>
    /\ UNCHANGED <<turn, wait, recovery, closing, said>>

-------------------------------------------------------------------------------
(* turn() *)

TurnCall(t) ==
    /\ CallerFree
    /\ turn[t] = "idle"
    /\ ~disconnected /\ loaded
    /\ active = NoneActive
    /\ lastCompleted' = None
    /\ SendRequest(TurnRequest(t))
    /\ turn' = [turn EXCEPT ![t] = IF Attached THEN "starting" ELSE "failed"]
    /\ UNCHANGED <<loaded, active, disconnected, lost>>
    /\ UNCHANGED <<start, wait, recovery, closing, said>>

\* Mutant: the completion that came before the response is forgotten.
NothingEnded(t) == disconnected

EndedAlready(t) == disconnected \/ lastCompleted.turn = t

\* The turn/start response: the turn becomes active unless its completion, or
\* the end of the connection, was handled first.
TurnContinues(t) ==
    /\ turn[t] = "starting"
    /\ Settled(TurnRequest(t))
    /\ \/ /\ req[TurnRequest(t)] = "resolved"
          /\ turn' = [turn EXCEPT ![t] = "recording"]
          /\ active' = IF EndedAlready(t) THEN active ELSE EnsureActive(t)
       \/ /\ Unusable(TurnRequest(t))
          /\ turn' = [turn EXCEPT ![t] = "failed"]
          /\ UNCHANGED active
    /\ UNCHANGED <<transport, loaded, disconnected, lost, lastCompleted>>
    /\ UNCHANGED <<start, wait, recovery, closing, said>>

\* provenance.record() has ended and turn() returns its reference, or throws.
TurnRecorded(t) ==
    /\ Quiet
    /\ turn[t] = "recording"
    /\ \/ turn' = [turn EXCEPT ![t] = "returned"]
       \/ "file error" \in Mishaps /\ turn' = [turn EXCEPT ![t] = "failed"]
    /\ UNCHANGED <<transport, runtime, start, wait, recovery, closing, said>>

-------------------------------------------------------------------------------
(* waitForTurn() *)

\* Mutant: no bridge to a late wait.
AnswerNowUnbridged(t) ==
    IF disconnected /\ lost.turn = t THEN lost.error
    ELSE IF disconnected \/ t \notin DOMAIN active THEN Outcome("gone", t)
    ELSE None

AnswerNow(t) ==
    IF disconnected /\ lost.turn = t THEN lost.error
    ELSE IF ~disconnected /\ lastCompleted.turn = t THEN lastCompleted
    ELSE IF disconnected \/ t \notin DOMAIN active THEN Outcome("gone", t)
    ELSE None

WaitCall(w, t) ==
    /\ wait[w].pc = "idle"
    /\ turn[t] = "returned"
    /\ wait' = [wait EXCEPT ![w] =
                  [pc |-> IF AnswerNow(t) = None THEN "waiting" ELSE "settled",
                   turn |-> t, out |-> AnswerNow(t)]]
    /\ UNCHANGED <<transport, runtime, start, turn, recovery, closing, said>>

TimeoutOf(w) == Outcome("timeout", wait[w].turn)

\* The end of the clean-up: onDisconnect, then transport.close() awaited.
CleanUp(w) ==
    LET awaited == Attached /\ phase # "closed"
        mine == [wait EXCEPT ![w].pc = IF awaited THEN "closing" ELSE "settled",
                             ![w].out = TimeoutOf(w)]
    IN /\ OnDisconnect(active, mine, TimeoutOf(w))
       /\ CloseTransport

\* The timer of a wait: the waiter is removed and the turn interrupted; when
\* interrupt() fails at once the clean-up follows in the same run.
WaitTimer(w) ==
    /\ Quiet
    /\ wait[w].pc = "waiting"
    /\ IF ~disconnected /\ Attached /\ phase = "open"
       THEN /\ T!Request(InterruptRequest(w))
            /\ wait' = [wait EXCEPT ![w].pc = "interrupting"]
            /\ UNCHANGED runtime
       ELSE CleanUp(w) /\ UNCHANGED loaded
    /\ UNCHANGED <<start, turn, recovery, closing, said>>

\* The interrupt was answered, refused or lost; either way the session ends.
InterruptContinues(w) ==
    /\ wait[w].pc = "interrupting"
    /\ Settled(InterruptRequest(w))
    /\ CleanUp(w)
    /\ UNCHANGED <<loaded, start, turn, recovery, closing, said>>

WaitCleanedUp(w) ==
    /\ wait[w].pc = "closing"
    /\ phase = "closed"
    /\ wait' = [wait EXCEPT ![w].pc = "settled"]
    /\ UNCHANGED <<transport, runtime, start, turn, recovery, closing, said>>

-------------------------------------------------------------------------------
(* Requests of a caller that change nothing in the runtime. *)

AuxCall ==
    /\ "other request" \in Mishaps
    /\ CallerFree /\ Attached
    /\ ~disconnected /\ loaded
    /\ T!Request(AuxRequest)
    /\ UNCHANGED <<runtime, calls, said>>

-------------------------------------------------------------------------------
(* restartAndResume() and resume() *)

Recover(pc) == recovery' = [recovery EXCEPT !.pc = pc]

\* Mutant: a restart under an active turn.
AlwaysRestart == TRUE

MayRestart == disconnected \/ active = NoneActive

RestartCall ==
    /\ CallerFree /\ loaded
    /\ recovery.pc = "idle" /\ recovery.count < MaxRestarts
    /\ MayRestart
    /\ CloseTransport
    /\ recovery' = [pc |-> "stopping", by |-> "restart", count |-> recovery.count + 1]
    /\ UNCHANGED <<runtime, start, turn, wait, closing, said>>

\* The old child has ended: a new transport, with initialize as its first
\* request.  Starting it may fail at once.
RestartSpawn ==
    /\ recovery.pc = "stopping"
    /\ phase = "closed"
    /\ Continuations = {} /\ \A w \in Waiters : wait[w].pc # "closing"
    /\ closing # "pending"
    /\ \/ /\ phase' = "open" /\ stdinUp' = TRUE /\ killed' = FALSE
          /\ told' = "nothing" /\ ownerClosed' = FALSE
          /\ req' = [r \in SessionRequests |-> IF r = InitRequest THEN "pending" ELSE "unused"]
          /\ Recover("initializing")
       \/ Recover("idle") /\ UNCHANGED transport
    /\ UNCHANGED <<runtime, start, turn, wait, closing, said>>

\* The new transport is this.transport from here on.  resume() follows in the
\* same run up to its first await, and refuses when a turn is active; then the
\* runtime is disconnected again and the new transport closed.
RestartContinues ==
    /\ recovery.pc = "initializing"
    /\ req[InitRequest] = "resolved"
    /\ lost' = NothingLost
    /\ IF active = NoneActive
       THEN /\ disconnected' = FALSE
            /\ Recover("checking")
            /\ UNCHANGED transport
       ELSE /\ disconnected' = TRUE
            /\ Recover("aborting")
            /\ IF phase = "open" THEN T!Close ELSE UNCHANGED transport
    /\ UNCHANGED <<loaded, active, lastCompleted, start, turn, wait, closing, said>>

\* initialize failed, or named another codexHome: the new transport is closed
\* and never becomes this.transport.
RestartFails ==
    /\ recovery.pc = "initializing"
    /\ Settled(InitRequest) /\ Unusable(InitRequest)
    /\ IF phase = "open" THEN T!Close ELSE UNCHANGED transport
    /\ Recover("aborting")
    /\ UNCHANGED <<runtime, start, turn, wait, closing, said>>

RestartAborted ==
    /\ recovery.pc = "aborting"
    /\ phase = "closed"
    /\ Recover("idle")
    /\ UNCHANGED <<transport, runtime, start, turn, wait, closing, said>>

ResumeCall ==
    /\ CallerFree
    /\ recovery.pc = "idle" /\ recovery.count < MaxRestarts
    /\ ~disconnected /\ active = NoneActive
    /\ recovery' = [pc |-> "checking", by |-> "resume", count |-> recovery.count + 1]
    /\ UNCHANGED <<transport, runtime, start, turn, wait, closing, said>>

\* A resume that fails is a restart that fails: disconnected again, and the
\* transport closed.  A plain resume() leaves the runtime as it is.
ResumeFails ==
    IF recovery.by = "restart"
    THEN /\ disconnected' = TRUE
         /\ CloseTransport
         /\ Recover("aborting")
    ELSE Recover("idle") /\ UNCHANGED <<disconnected, transport>>

\* provenance.turns() has ended.
ResumeChecked ==
    /\ Quiet
    /\ recovery.pc = "checking"
    /\ \/ /\ T!Request(ResumeRequest)
          /\ Recover("resuming")
          /\ UNCHANGED disconnected
       \/ "file error" \in Mishaps /\ ResumeFails
    /\ UNCHANGED <<loaded, active, lost, lastCompleted, start, turn, wait, closing, said>>

ResumeContinues ==
    /\ recovery.pc = "resuming"
    /\ Settled(ResumeRequest)
    /\ \/ /\ req[ResumeRequest] = "resolved"
          /\ loaded' = TRUE
          /\ Recover("idle")
          /\ UNCHANGED <<transport, disconnected>>
       \/ Unusable(ResumeRequest) /\ ResumeFails /\ UNCHANGED loaded
    /\ UNCHANGED <<active, lost, lastCompleted, start, turn, wait, closing, said>>

-------------------------------------------------------------------------------
(* close() *)

AwaitsChild == Attached /\ phase # "closed"

CloseCall ==
    /\ CallerFree
    /\ closing = "no"
    /\ disconnected' = TRUE
    /\ lost' = NothingLost
    /\ lastCompleted' = None
    /\ wait' = SettleWaiters(wait, DOMAIN active, Outcome("closed", NoTurn))
    /\ active' = NoneActive
    /\ CloseTransport
    /\ closing' = IF AwaitsChild THEN "pending" ELSE "done"
    /\ UNCHANGED <<loaded, start, turn, recovery, said>>

CloseReturns ==
    /\ closing = "pending"
    /\ phase = "closed"
    /\ closing' = "done"
    /\ UNCHANGED <<transport, runtime, start, turn, wait, recovery, said>>

-------------------------------------------------------------------------------
(* Lines of the app-server.  It speaks of turns it was asked for on this      *)
(* transport and did not refuse, reports the start and the end of a turn      *)
(* once, and is free in the order, and in what it says of items.              *)

Known(t) == \/ req[TurnRequest(t)] \in {"pending", "resolved", "timedout"}
            \/ req[TurnRequest(t)] = "rejected" /\ said[t] # {}

\* A notification the handler accepts, and one it throws on: protocolFailure,
\* after the handler has already changed activeTurns to turns.
Accepted == UNCHANGED <<transport, loaded, disconnected, lost>>
Violation(turns) == /\ T!BadLine
                    /\ OnDisconnect(turns, wait, Outcome("protocol", NoTurn))
                    /\ UNCHANGED loaded

ServerResponse(r, ok) ==
    /\ LineReady
    /\ \A t \in Turns : r = TurnRequest(t) /\ ~ok => said[t] = {}
    /\ T!Answer(r, ok)
    /\ UNCHANGED <<runtime, calls, said>>

\* An answer after the request's timer.
ServerLateResponse(r) ==
    /\ LineReady
    /\ T!LateAnswer(r)
    /\ OnDisconnect(active, wait, Outcome("protocol", NoTurn))
    /\ UNCHANGED <<loaded, start, turn, recovery, closing, said>>

\* Not JSON, of another thread, an unknown notification, a forbidden item, a
\* terminal error, ...
ServerBadLine ==
    /\ "bad line" \in Mishaps
    /\ LineReady
    /\ Violation(active)
    /\ UNCHANGED <<start, turn, recovery, closing, said>>

TurnStarted(t) ==
    /\ LineReady /\ Known(t)
    /\ "started" \notin said[t]
    /\ said' = [said EXCEPT ![t] = @ \cup {"started"}]
    /\ IF loaded /\ ~EnsureActive(t)[t].started
       THEN /\ active' = [EnsureActive(t) EXCEPT ![t].started = TRUE]
            /\ Accepted /\ UNCHANGED <<lastCompleted, wait>>
       ELSE Violation(active)
    /\ UNCHANGED <<start, turn, recovery, closing>>

\* onItem.  A turn the runtime does not know is entered in activeTurns before
\* the check that it has started.
ItemAllowed(a, event) ==
    /\ a.started
    /\ event = "tool started" => ~a.pendingTool
    /\ event \in {"tool completed", "tool failed"} => a.pendingTool

\* Mutant: a failed tool call counts as a successful one.
AfterItemAnyTool(a, event) ==
    [a EXCEPT !.pendingTool = IF event = "answer" THEN @ ELSE event = "tool started",
              !.goodTool = @ \/ event \in {"tool completed", "tool failed"},
              !.hasAnswer = @ \/ event = "answer"]

AfterItem(a, event) ==
    [a EXCEPT !.pendingTool = IF event = "answer" THEN @ ELSE event = "tool started",
              !.goodTool = @ \/ event = "tool completed",
              !.hasAnswer = @ \/ event = "answer"]

Item(t, event) ==
    /\ LineReady /\ Known(t)
    /\ IF ~loaded THEN Violation(active)
       ELSE IF ItemAllowed(EnsureActive(t)[t], event)
       THEN /\ active' = [EnsureActive(t) EXCEPT ![t] = AfterItem(@, event)]
            /\ Accepted /\ UNCHANGED <<lastCompleted, wait>>
       ELSE Violation(EnsureActive(t))
    /\ said' = [said EXCEPT ![t] = @ \cup {event}]
    /\ UNCHANGED <<start, turn, recovery, closing>>

\* onTurnCompleted.
MayComplete(t, status) ==
    /\ loaded
    /\ t \in DOMAIN active
    /\ active[t].started /\ ~active[t].pendingTool
    /\ status = "completed" => (RequireTool => active[t].goodTool) /\ active[t].hasAnswer

TurnCompleted(t, status) ==
    /\ LineReady /\ Known(t)
    /\ "completed" \notin said[t]
    /\ said' = [said EXCEPT ![t] = @ \cup {"completed"}]
    /\ IF MayComplete(t, status)
       THEN /\ active' = Restrict(active, DOMAIN active \ {t})
            /\ lastCompleted' = Outcome(status, t)
            /\ wait' = SettleWaiters(wait, {t}, Outcome(status, t))
            /\ Accepted
       ELSE Violation(active)
    /\ UNCHANGED <<start, turn, recovery, closing>>

-------------------------------------------------------------------------------
(* Timers and the end of the child. *)

RequestTimer(r) ==
    /\ "request timer" \in Mishaps
    /\ Quiet
    /\ T!RequestTimeout(r)
    /\ UNCHANGED <<runtime, calls, said>>

KillTimer ==
    /\ Quiet
    /\ T!KillTimer
    /\ UNCHANGED <<runtime, calls, said>>

StdinLost == "stdin lost" \in Mishaps /\ T!StdinLost /\ UNCHANGED <<runtime, calls, said>>

ChildExit ==
    /\ Quiet
    /\ T!ChildExit
    /\ IF phase = "open" THEN OnDisconnect(active, wait, Outcome("crash", NoTurn))
                         ELSE UNCHANGED <<active, disconnected, lost, lastCompleted, wait>>
    /\ UNCHANGED <<loaded, start, turn, recovery, closing, said>>

-------------------------------------------------------------------------------
Statuses == {"completed", "interrupted", "failed"}

Runtime ==
    \/ StartContinues \/ StartCreated
    \/ \E t \in Turns : TurnContinues(t) \/ TurnRecorded(t)
    \/ \E w \in Waiters : WaitTimer(w) \/ InterruptContinues(w) \/ WaitCleanedUp(w)
    \/ RestartSpawn \/ RestartContinues \/ RestartFails \/ RestartAborted
    \/ ResumeChecked \/ ResumeContinues
    \/ CloseReturns
    \/ \E r \in SessionRequests : RequestTimer(r)
    \/ KillTimer

Callers ==
    \/ StartCall \/ AuxCall \/ RestartCall \/ ResumeCall \/ CloseCall
    \/ \E t \in Turns : TurnCall(t) \/ \E w \in Waiters : WaitCall(w, t)

Server ==
    \/ \E r \in SessionRequests : ServerLateResponse(r) \/ \E ok \in BOOLEAN : ServerResponse(r, ok)
    \/ ServerBadLine
    \/ \E t \in Turns : \/ TurnStarted(t)
                         \/ \E event \in Items : Item(t, event)
                         \/ \E status \in Statuses : TurnCompleted(t, status)
    \/ StdinLost
    \/ ChildExit

SessionNext == Runtime \/ Callers \/ Server

SessionSpec == SessionInit /\ [][SessionNext]_sessionVars

\* Continuations, file operations and armed timers happen.  Callers and the
\* server owe nothing; a child that got SIGKILL ends.
SessionFairness ==
    /\ WF_sessionVars(StartContinues) /\ WF_sessionVars(StartCreated)
    /\ \A t \in Turns : WF_sessionVars(TurnContinues(t)) /\ WF_sessionVars(TurnRecorded(t))
    /\ \A w \in Waiters : /\ WF_sessionVars(WaitTimer(w))
                          /\ WF_sessionVars(InterruptContinues(w))
                          /\ WF_sessionVars(WaitCleanedUp(w))
    /\ WF_sessionVars(RestartSpawn)
    /\ WF_sessionVars(RestartContinues \/ RestartFails)
    /\ WF_sessionVars(RestartAborted)
    /\ WF_sessionVars(ResumeChecked) /\ WF_sessionVars(ResumeContinues)
    /\ WF_sessionVars(CloseReturns)
    /\ \A r \in SessionRequests : WF_sessionVars(RequestTimer(r))
    /\ WF_sessionVars(KillTimer) /\ WF_sessionVars(killed /\ ChildExit)

FairSessionSpec == SessionSpec /\ SessionFairness

-------------------------------------------------------------------------------
(* Properties. *)

\* Whoever still waits waits for something that can come: a turn the runtime
\* follows on a session it believes connected.  No completion, protocol failure,
\* crash, timeout of another wait, restart or close() leaves a waiter behind, of callers
\* that await each call (a restart during an unanswered turn/start may leave one).
NoWaitLeftBehind ==
    \A w \in Waiters : wait[w].pc = "waiting" => ~disconnected /\ wait[w].turn \in DOMAIN active

\* "An early response must not resurrect a completed turn as active and block
\* the next turn" (session.test.ts): whatever the order of the turn/start
\* response and the notifications, a completed turn is not active -- as long as
\* turn() has kept every turn that the server began.  After an answer it could not
\* use, the server may run two turns at once, and lastCompletedTurn holds one.
TurnsAreKept ==
    \A t \in Turns : turn[t] = "failed" => req[TurnRequest(t)] # "resolved"
NoTurnResurrected ==
    ~disconnected /\ TurnsAreKept => \A t \in DOMAIN active : "completed" \notin said[t]

\* A wait that resolves as completed, at once or later, is for a turn the server
\* started, answered and completed, with a successful tool call when the step
\* demands one.
NoUnearnedCompletion ==
    \A w \in Waiters : wait[w].out.kind = "completed" =>
        /\ {"started", "answer", "completed"} \subseteq said[wait[w].turn]
        /\ RequireTool => "tool completed" \in said[wait[w].turn]

\* A wait registered after its turn ended is not told "no longer active" while
\* the session is up, unless another turn has been started since (the bridge,
\* lastCompletedTurn, holds one turn) or the session was restarted.
LateWaitIsAnswered ==
    [][\A w \in Waiters :
         /\ wait[w].pc = "idle" /\ wait'[w].out.kind = "gone"
         /\ ~disconnected /\ recovery.count = 0
         => \E u \in Turns \ {wait'[w].turn} : turn[u] # "idle"]_sessionVars

\* Every call of the runtime ends, though the server may say nothing at all.
EveryWaitSettles ==
    \A w \in Waiters : wait[w].pc = "waiting" ~> wait[w].pc = "settled"
EveryTurnCallReturns ==
    \A t \in Turns : turn[t] = "starting" ~> turn[t] \in {"returned", "failed"}
EveryRecoveryEnds == recovery.pc # "idle" ~> recovery.pc = "idle"
EverySessionCallEnds == EveryWaitSettles /\ EveryTurnCallReturns /\ EveryRecoveryEnds

\* session.test.ts:406: "turn timeout interrupts, closes, and leaves an explicit
\* resume-required state".  A session that has to be resumed can be: no turn is
\* left over for resume() to refuse.
TimedOutSessionIsResumable ==
    disconnected /\ lost.error.kind = "timeout" /\ phase = "closed" /\ recovery.pc = "idle"
        => DOMAIN active = {}

-------------------------------------------------------------------------------
(* What a model checker explores.                                            *)

\* Turns are only compared.
TurnSymmetry == Permutations(Turns)

\* A second turn, and a request of another kind, are followed in sessions where no
\* restart, failed tool call or spoiled answer has happened, up to the session's end;
\* those are explored with one turn alone.
OneTroubleAtATime ==
    (\A t \in Turns : turn[t] # "idle") \/ req[AuxRequest] # "unused" =>
        /\ recovery.count = 0 /\ phase = "open"
        /\ \A t \in Turns : turn[t] # "failed" /\ "tool failed" \notin said[t]
===============================================================================
