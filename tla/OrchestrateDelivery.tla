------------------------- MODULE OrchestrateDelivery -------------------------
(***************************************************************************)
(* A turn against an app-server that does what the driver prompt asks      *)
(* (buildOrchestrateDriverPrompt): one child per step, each waited for, a  *)
(* repair exactly after a failure, and the final receipt.  What is left    *)
(* open is the order in which the notifications of a step reach the host:  *)
(* any that what the source says of Codex 0.146 allows.  The server does   *)
(* not wait for the host: a child may load the step request file while     *)
(* notifications are on their way.  Codex itself is not part of the        *)
(* repository; it is modelled from the notifications the source and its    *)
(* fake server handle.                                                     *)
(***************************************************************************)
EXTENDS OrchestrateTurn

CONSTANTS
    Orders,  \* the orders of delivery to consider
    Lag      \* how many notifications may be on their way

VARIABLES
    server,  \* its order of delivery, its step, what it has said of it, and what the children answered
    wire,    \* notifications on their way
    loaded   \* what each child read from the step request file

serverVars == <<server, wire, loaded>>
deliveryVars == <<hostVars, serverVars>>

-----------------------------------------------------------------------------
(* What is said of a step, and what of it has to be said before.  "timely": a wait completes *)
(* after its spawn; "direct": there are no records of spawns; "late": the records of the last *)
(* step may complete after the turn; "early_wait": a wait may complete before its spawn. *)

Course(s) == {"start", "answer", "done", "waiting", "waited"}
             \cup (IF s.order = "direct" THEN {} ELSE {"spawning", "spawned"})
Ending == {"message", "turn_completed"}

Awaits(s, kind) ==
    CASE kind \in {"turn_started", "spawning"} -> {}
      [] kind = "spawned" -> {"spawning"}
      [] kind = "start" -> Course(s) \cap {"spawning"}
      [] kind \in {"answer", "waiting"} -> {"start"}
      [] kind = "done" -> {"answer"}
      [] kind = "waited" -> {"waiting", "done"}
                            \cup (IF s.order = "early_wait" THEN {} ELSE Course(s) \cap {"spawned"})
      [] kind = "message" -> IF s.order = "late" THEN {"waiting", "done"} ELSE Course(s)
      [] kind = "turn_completed" -> {"message"}

\* The parent goes on exactly where the driver prompt tells it to.
Ends(s) == "answer" \in s.said /\ ~PreparesNext(s.step, s.answers[s.step])

\* A child is a thread: the i-th child is thread i.
Admits(s, kind) ==
    /\ kind \in (IF s.step = 0 THEN {"turn_started"} ELSE Course(s) \cup Ending) \ s.said
    /\ Awaits(s, kind) \subseteq s.said
    /\ kind = "start" => s.step \in Threads
    /\ kind \in Ending => Ends(s)

After(s, kind) ==
    LET now == s.said \cup {kind}
    IN IF kind = "turn_started" \/ (now = Course(s) /\ ~Ends(s))
       THEN [s EXCEPT !.step = @ + 1, !.said = {}] ELSE [s EXCEPT !.said = now]

AfterAnswer(s, ok, value) ==
    [s EXCEPT !.said = @ \cup {"answer"},
              !.answers = Append(@, [child |-> s.step, ok |-> ok, value |-> value])]

\* The ids of this server's collaboration items.
ServerItems == {"spawn", "wait"} \X (1 .. Steps)

Begin(tool, i) == [kind |-> "item_started", id |-> <<tool, i>>, tool |-> tool]
End(tool, i) == [kind |-> "item_completed", id |-> <<tool, i>>, tool |-> tool, ok |-> TRUE, child |-> i]

Notice(kind, i) ==
    CASE kind = "turn_started" -> [kind |-> kind]
      [] kind = "spawning" -> Begin("spawn", i)
      [] kind = "spawned" -> End("spawn", i)
      [] kind = "waiting" -> Begin("wait", i)
      [] kind = "waited" -> End("wait", i)
      [] kind \in {"start", "done"} -> [kind |-> kind, child |-> i]
      [] kind = "message" -> [kind |-> kind, step |-> i]
      [] kind = "turn_completed" -> [kind |-> kind, ok |-> TRUE]

AnswerNotice(i, ok, value) == [kind |-> "answer", child |-> i, step |-> i, ok |-> ok, value |-> value]

-----------------------------------------------------------------------------
NewServer(order) == [order |-> order, step |-> 0, said |-> {}, answers |-> <<>>]

DeliveryInit ==
    /\ HostInit
    /\ server \in {NewServer(order) : order \in Orders}
    /\ wire = <<>>
    /\ loaded = [i \in 1..Steps |-> Unset]

\* What is said besides the answers of children.
Kinds == {"turn_started", "spawning", "spawned", "start", "done", "waiting", "waited"} \cup Ending

Say(kind) ==
    /\ Admits(server, kind)
    /\ Len(wire) < Lag
    /\ wire' = Append(wire, Notice(kind, server.step))
    /\ server' = After(server, kind)
    /\ UNCHANGED <<loaded, hostVars>>

\* A child loads its request before it works on it.
LoadRequest ==
    /\ "start" \in server.said /\ loaded[server.step] = Unset
    /\ loaded' = [loaded EXCEPT ![server.step] = turn.file]
    /\ UNCHANGED <<server, wire, hostVars>>

Answer(ok, value) ==
    /\ Admits(server, "answer") /\ loaded[server.step] # Unset
    /\ Len(wire) < Lag
    /\ wire' = Append(wire, AnswerNotice(server.step, ok, value))
    /\ server' = AfterAnswer(server, ok, value)
    /\ UNCHANGED <<loaded, hostVars>>

Deliver ==
    /\ wire # <<>>
    /\ Notify(Head(wire))
    /\ wire' = Tail(wire)
    /\ UNCHANGED <<server, loaded>>

ShowChild ==
    LET c == turn.spawns[At].child
    IN /\ At <= Len(turn.spawns) /\ c <= Len(server.answers)
       /\ ReadChild([step |-> c, ok |-> server.answers[c].ok, value |-> server.answers[c].value, sound |-> TRUE])
       /\ UNCHANGED serverVars

Host == (Respond \/ Continue \/ Reject) /\ UNCHANGED serverVars

DeliveryNext ==
    \/ LoadRequest \/ Deliver \/ ShowChild \/ Host
    \/ \E kind \in Kinds : Say(kind)
    \/ \E ok \in BOOLEAN, value \in Values : Answer(ok, value)

\* The server works, the pipe is read, and calls are answered.
DeliverySpec == DeliveryInit /\ [][DeliveryNext]_deliveryVars /\ WF_deliveryVars(DeliveryNext)

-----------------------------------------------------------------------------
(* Properties *)

EndedWell == server.answers # <<>> /\ Last(server.answers).ok

\* The host rejects a turn of this server only when its last step failed: no order of the
\* notifications makes a good run fail (the comments on Codex 0.146 at 766-769, 818-821,
\* 960-962, and the tests named after it in tests/ask_runtime.test.ts).
RejectedOnlyForCause == phase = "failed" => ~EndedWell

\* A returned result is what the children answered, all of it, and it ended well.
ReturnedWhatWasAnswered == phase = "returned" => EndedWell /\ results = server.answers

\* What becomes of a turn is what its children made of it.
OutcomeIsEarned == RejectedOnlyForCause /\ ReturnedWhatWasAnswered

\* run() ends: neither a deferred completion nor a deferred wait is kept for ever.
EveryTurnIsJudged == <>(phase \in {"returned", "failed"})

\* A child never loads the request of another step once the host has handled the answer its
\* own is made of: what it can be too early for is only the writing of the file (1170-1173).
RequestIsFreshOnceHandled ==
    [][\A i \in 2..Steps : loaded'[i] # loaded[i] =>
         \/ loaded'[i] = [step |-> i, input |-> server.answers[i - 1].value]
         \/ turn.broken
         \/ \E e \in ToSet(buffer \o wire) : e.kind = "answer" /\ e.child = i - 1]_deliveryVars

\* The turn ends, and on the way nobody works on the request of another.
TurnRunsItsCourse == EveryTurnIsJudged /\ RequestIsFreshOnceHandled

=============================================================================
