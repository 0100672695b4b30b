-------------------------- MODULE CodexSession_proofs --------------------------
(* Theorems about CodexSession, for every set of turns, waits and mishaps, any *)
(* number of restarts, and callers that overlap their calls or do not; the two *)
(* with ~Overlap are of callers that await each call.                          *)
EXTENDS CodexSession, TLAPS

\* Everything said of a turn, everything a wait or a lost turn may come to.
Heard == {"started", "completed"} \cup ItemEvents
OutcomeType ==
    [kind : Statuses \cup {"none", "gone", "timeout", "protocol", "crash", "closed"},
     turn : Turns \cup {NoTurn}]
WaitType ==
    [pc : {"idle", "waiting", "interrupting", "closing", "settled"},
     turn : Turns \cup {NoTurn}, out : OutcomeType]
ActiveTurn == [started : BOOLEAN, pendingTool : BOOLEAN, goodTool : BOOLEAN, hasAnswer : BOOLEAN]

\* What the runtime notes of a turn is what the server said of it.
NotedIsHeard(a, words) ==
    /\ a.started => "started" \in words
    /\ a.goodTool => "tool completed" \in words
    /\ a.hasAnswer => "answer" \in words

Followed(turns, heard) ==
    /\ DOMAIN turns \subseteq Turns
    /\ \A t \in DOMAIN turns : turns[t] \in ActiveTurn /\ NotedIsHeard(turns[t], heard[t])

\* The turn was started, answered and completed, with the tool call it must have.
Earned(t, heard) ==
    /\ t \in Turns
    /\ {"started", "answer", "completed"} \subseteq heard[t]
    /\ RequireTool => "tool completed" \in heard[t]

OutcomeIsEarned(out, heard) ==
    out \in OutcomeType /\ (out.kind = "completed" => Earned(out.turn, heard))

WaitsAreEarned(ws, heard) ==
    /\ ws \in [Waiters -> WaitType]
    /\ \A w \in Waiters : ws[w].out.kind = "completed" => Earned(ws[w].turn, heard)

LostIsNoCompletion(l) ==
    l \in [turn : Turns \cup {NoTurn}, error : OutcomeType] /\ l.error.kind # "completed"

\* The inductive invariant: NoUnearnedCompletion needs that whatever a completion is
\* made of, the notes on active turns and the bridge to late waits, is earned as well.
EarnedInv ==
    /\ said \in [Turns -> SUBSET Heard]
    /\ Followed(active, said)
    /\ OutcomeIsEarned(lastCompleted, said)
    /\ WaitsAreEarned(wait, said)
    /\ LostIsNoCompletion(lost)

-------------------------------------------------------------------------------
\* What was heard stays heard, so all of this survives more words.
LEMMA MoreIsHeard ==
    ASSUME NEW heard, NEW more, \A t \in Turns : heard[t] \subseteq more[t]
    PROVE  /\ \A turns : Followed(turns, heard) => Followed(turns, more)
           /\ \A out : OutcomeIsEarned(out, heard) => OutcomeIsEarned(out, more)
           /\ \A ws : WaitsAreEarned(ws, heard) => WaitsAreEarned(ws, more)
<1>1. \A t : Earned(t, heard) => Earned(t, more)
  BY DEF Earned
<1>2. \A turns : Followed(turns, heard) => Followed(turns, more)
  BY DEF Followed, NotedIsHeard
<1>3. \A out : OutcomeIsEarned(out, heard) => OutcomeIsEarned(out, more)
  BY <1>1 DEF OutcomeIsEarned
<1>4. \A ws : WaitsAreEarned(ws, heard) => WaitsAreEarned(ws, more)
  BY <1>1 DEF WaitsAreEarned
<1> QED
  BY <1>2, <1>3, <1>4

\* Waits that are settled with a completion are waits for a turn that earned it.
LEMMA SettledIsEarned ==
    ASSUME NEW ws, NEW S, NEW out \in OutcomeType, NEW heard, WaitsAreEarned(ws, heard),
           out.kind = "completed" => \A t \in S : Earned(t, heard)
    PROVE  WaitsAreEarned(SettleWaiters(ws, S, out), heard)
<1> DEFINE new(w) == [ws[w] EXCEPT !.pc = "settled", !.out = out]
<1>1. \A w \in Waiters : ws[w] \in WaitType
  BY DEF WaitsAreEarned
<1>2. ASSUME NEW w \in Waiters
      PROVE  new(w) \in WaitType /\ new(w).out = out /\ new(w).turn = ws[w].turn
  BY <1>1 DEF WaitType
<1> HIDE DEF new
<1>3. SettleWaiters(ws, S, out) =
        [w \in Waiters |-> IF ws[w].pc = "waiting" /\ ws[w].turn \in S THEN new(w) ELSE ws[w]]
  BY DEF SettleWaiters, new
<1> QED
  BY <1>1, <1>2, <1>3 DEF WaitsAreEarned

\* A turn that becomes active has nothing noted of it.
LEMMA NewTurnIsFollowed ==
    ASSUME Followed(active, said), NEW t \in Turns
    PROVE  /\ Followed(EnsureActive(t), said)
           /\ t \in DOMAIN EnsureActive(t)
           /\ DOMAIN EnsureActive(t) = DOMAIN active \cup {t}
<1>1. IdleTurn \in ActiveTurn /\ NotedIsHeard(IdleTurn, said[t])
  BY DEF IdleTurn, ActiveTurn, NotedIsHeard
<1> QED
  BY <1>1 DEF Followed, EnsureActive

\* onDisconnect leaves nothing unearned behind, whatever turns and waits it meets.
LEMMA DisconnectKeepsEarned ==
    ASSUME EarnedInv, NEW turns, NEW ws, NEW error \in OutcomeType, error.kind # "completed",
           Followed(turns, said'), WaitsAreEarned(ws, said'), OutcomeIsEarned(lastCompleted, said'),
           said' \in [Turns -> SUBSET Heard], OnDisconnect(turns, ws, error)
    PROVE  EarnedInv'
<1>1. CASE disconnected
  BY <1>1 DEF OnDisconnect, EarnedInv
<1>2. CASE ~disconnected
  <2>1. Followed(active', said')
    BY <1>2 DEF OnDisconnect, NoneActive, Followed
  <2>2. WaitsAreEarned(wait', said')
    BY <1>2, SettledIsEarned DEF OnDisconnect
  <2>3. LostIsNoCompletion(lost')
    <3>1. NothingLost \in [turn : Turns \cup {NoTurn}, error : OutcomeType]
          /\ NothingLost.error.kind # "completed"
      BY DEF NothingLost, None, Outcome, OutcomeType, Statuses
    <3>2. \A t \in DOMAIN turns : LostIsNoCompletion([turn |-> t, error |-> error])
      BY DEF Followed, LostIsNoCompletion
    <3> QED
      BY <1>2, <3>1, <3>2 DEF OnDisconnect, LostIsNoCompletion
  <2>4. OutcomeIsEarned(lastCompleted', said')
    BY <1>2 DEF OnDisconnect, OutcomeIsEarned, None, Outcome, OutcomeType, Statuses
  <2> QED
    BY <2>1, <2>2, <2>3, <2>4 DEF EarnedInv
<1> QED
  BY <1>1, <1>2

-------------------------------------------------------------------------------
\* Every step keeps it.
LEMMA EarnedStep ==
    ASSUME EarnedInv, [SessionNext]_sessionVars
    PROVE  EarnedInv'
<1>t. /\ said \in [Turns -> SUBSET Heard] /\ Followed(active, said)
      /\ OutcomeIsEarned(lastCompleted, said) /\ WaitsAreEarned(wait, said)
      /\ LostIsNoCompletion(lost)
  BY DEF EarnedInv
<1>w. wait \in [Waiters -> WaitType]
  BY <1>t DEF WaitsAreEarned
<1>n. /\ OutcomeIsEarned(None, said) /\ LostIsNoCompletion(NothingLost)
      /\ None.kind # "completed"
  BY DEF OutcomeIsEarned, LostIsNoCompletion, NothingLost, None, Outcome, OutcomeType, Statuses
\* Steps that leave the wait and what is noted of turns alone.
<1>1. ASSUME UNCHANGED <<active, wait, said>>,
             lost' \in {lost, NothingLost}, lastCompleted' \in {lastCompleted, None}
      PROVE  EarnedInv'
  BY <1>1, <1>t, <1>n DEF EarnedInv
<1>2. ASSUME \/ StartCall \/ StartContinues \/ StartCreated
             \/ \E t \in Turns : TurnCall(t) \/ TurnRecorded(t)
             \/ AuxCall \/ RestartCall \/ RestartSpawn \/ RestartContinues
      PROVE  EarnedInv'
  BY <1>1, <1>2 DEF StartCall, StartContinues, StartCreated, TurnCall, TurnRecorded, AuxCall,
                    RestartCall, RestartSpawn, RestartContinues, runtime, calls
<1>3. ASSUME \/ RestartFails \/ RestartAborted \/ ResumeCall \/ ResumeChecked \/ ResumeContinues
             \/ CloseReturns \/ KillTimer \/ StdinLost
             \/ \E r \in SessionRequests : \/ RequestTimer(r)
                                           \/ \E ok \in BOOLEAN : ServerResponse(r, ok)
             \/ UNCHANGED sessionVars
      PROVE  EarnedInv'
  BY <1>1, <1>3 DEF RestartFails, RestartAborted, ResumeCall, ResumeChecked, ResumeContinues,
                    CloseReturns, KillTimer, StdinLost, RequestTimer, ServerResponse,
                    runtime, calls, sessionVars
\* The response of a turn/start, before or after the notifications of the turn.
<1>4. ASSUME NEW t \in Turns, TurnContinues(t)
      PROVE  EarnedInv'
  <2>1. /\ active' = active \/ active' = EnsureActive(t)
        /\ UNCHANGED <<lost, lastCompleted, wait, said>>
    BY <1>4 DEF TurnContinues
  <2>2. Followed(active', said)
    BY <2>1, <1>t, NewTurnIsFollowed
  <2> QED
    BY <2>1, <2>2, <1>t DEF EarnedInv
\* A wait of a turn: the bridges hand on what is earned.
<1>5. ASSUME NEW w \in Waiters, NEW t \in Turns, WaitCall(w, t)
      PROVE  EarnedInv'
  <2> DEFINE answer == AnswerNow(t)
             new == [pc |-> IF answer = None THEN "waiting" ELSE "settled", turn |-> t, out |-> answer]
  <2>1. answer \in OutcomeType /\ (answer.kind = "completed" => Earned(t, said))
    <3>1. Outcome("gone", t) \in OutcomeType /\ Outcome("gone", t).kind # "completed"
      BY DEF Outcome, OutcomeType
    <3>2. lost.error \in OutcomeType /\ lost.error.kind # "completed"
      BY <1>t DEF LostIsNoCompletion
    <3>3. lastCompleted \in OutcomeType /\ (lastCompleted.kind = "completed" => Earned(lastCompleted.turn, said))
      BY <1>t DEF OutcomeIsEarned
    <3>4. None \in OutcomeType
      BY <1>n DEF OutcomeIsEarned
    <3> QED
      BY <3>1, <3>2, <3>3, <3>4, <1>n DEF AnswerNow
  <2> HIDE DEF answer
  <2>2. new \in WaitType /\ new.turn = t /\ new.out = answer
    BY <2>1 DEF WaitType
  <2>3. wait' = [wait EXCEPT ![w] = new] /\ UNCHANGED <<active, lost, lastCompleted, said>>
    BY <1>5 DEF WaitCall, runtime, answer
  <2> HIDE DEF new
  <2>4. WaitsAreEarned(wait', said)
    BY <2>1, <2>2, <2>3, <1>t, <1>w DEF WaitsAreEarned
  <2> QED
    BY <2>3, <2>4, <1>t DEF EarnedInv
\* The timer of a wait, and the clean-up that ends it.
<1>6. ASSUME NEW w \in Waiters, NEW pc \in {"interrupting", "closing", "settled"},
             NEW out \in OutcomeType, out.kind # "completed" \/ out = wait[w].out
      PROVE  WaitsAreEarned([wait EXCEPT ![w] = [wait[w] EXCEPT !.pc = pc, !.out = out]], said)
  <2> DEFINE new == [wait[w] EXCEPT !.pc = pc, !.out = out]
  <2>1. wait[w] \in WaitType
    BY <1>w
  <2>2. new \in WaitType /\ new.turn = wait[w].turn /\ new.out = out
    BY <2>1 DEF WaitType
  <2> HIDE DEF new
  <2>3. WaitsAreEarned([wait EXCEPT ![w] = new], said)
    BY <2>2, <1>6, <1>t, <1>w DEF WaitsAreEarned
  <2> QED
    BY <2>3 DEF new
<1>7. ASSUME NEW w \in Waiters, CleanUp(w), said' = said
      PROVE  EarnedInv'
  <2>1. wait[w].turn \in Turns \cup {NoTurn}
    BY <1>w DEF WaitType
  <2>2. PICK error : error = TimeoutOf(w)
    OBVIOUS
  <2>3. error \in OutcomeType /\ error.kind # "completed"
    BY <2>1, <2>2 DEF TimeoutOf, Outcome, OutcomeType
  <2>4. PICK pc \in {"closing", "settled"} :
            OnDisconnect(active, [wait EXCEPT ![w] = [wait[w] EXCEPT !.pc = pc, !.out = error]], error)
    BY <1>7, <1>w, <2>2 DEF CleanUp
  <2>5. PICK ws : ws = [wait EXCEPT ![w] = [wait[w] EXCEPT !.pc = pc, !.out = error]]
    OBVIOUS
  <2>6. WaitsAreEarned(ws, said)
    BY <1>6, <2>3, <2>5
  <2>7. PICK turns : turns = active
    OBVIOUS
  <2>8. OnDisconnect(turns, ws, error)
    BY <2>4, <2>5, <2>7
  <2> QED
    BY <1>7, <1>t, <2>3, <2>6, <2>7, <2>8, DisconnectKeepsEarned
<1>8. ASSUME NEW w \in Waiters, WaitTimer(w) \/ InterruptContinues(w) \/ WaitCleanedUp(w)
      PROVE  EarnedInv'
  <2>1. said' = said
    BY <1>8 DEF WaitTimer, InterruptContinues, WaitCleanedUp
  <2>2. CASE CleanUp(w)
    BY <1>7, <2>1, <2>2
  <2>3. CASE ~CleanUp(w)
    <3>1. PICK pc \in {"interrupting", "settled"} : wait' = [wait EXCEPT ![w].pc = pc]
      BY <1>8, <2>3 DEF WaitTimer, InterruptContinues, WaitCleanedUp
    <3>2. UNCHANGED <<active, lost, lastCompleted>>
      BY <1>8, <2>3 DEF WaitTimer, InterruptContinues, WaitCleanedUp, runtime
    <3>3. PICK out : out = wait[w].out
      OBVIOUS
    <3>4. wait[w] \in WaitType
      BY <1>w
    <3>5. wait' = [wait EXCEPT ![w] = [wait[w] EXCEPT !.pc = pc, !.out = out]] /\ out \in OutcomeType
      BY <3>1, <3>3, <3>4, <1>w DEF WaitType
    <3>6. WaitsAreEarned(wait', said)
      BY <1>6, <3>3, <3>5
    <3> QED
      BY <2>1, <3>2, <3>6, <1>t DEF EarnedInv
  <2> QED
    BY <2>2, <2>3
<1>9. ASSUME CloseCall
      PROVE  EarnedInv'
  <2>1. PICK S : S = DOMAIN active
    OBVIOUS
  <2>2. Outcome("closed", NoTurn) \in OutcomeType /\ Outcome("closed", NoTurn).kind # "completed"
    BY DEF Outcome, OutcomeType
  <2>3. WaitsAreEarned(SettleWaiters(wait, S, Outcome("closed", NoTurn)), said)
    BY <2>2, <1>t, SettledIsEarned
  <2>4. /\ wait' = SettleWaiters(wait, S, Outcome("closed", NoTurn))
        /\ active' = NoneActive /\ said' = said /\ lost' = NothingLost /\ lastCompleted' = None
    BY <1>9, <2>1 DEF CloseCall
  <2>5. Followed(active', said')
    BY <2>4 DEF Followed, NoneActive
  <2> QED
    BY <2>3, <2>4, <2>5, <1>t, <1>n DEF EarnedInv
\* The end of the connection, by a line or by the child's exit.
<1>10. ASSUME NEW kind \in {"protocol", "crash"}, OnDisconnect(active, wait, Outcome(kind, NoTurn)), said' = said
       PROVE  EarnedInv'
  <2>1. PICK turns, ws, error : turns = active /\ ws = wait /\ error = Outcome(kind, NoTurn)
    OBVIOUS
  <2>2. error \in OutcomeType /\ error.kind # "completed"
    BY <2>1 DEF Outcome, OutcomeType
  <2>3. OnDisconnect(turns, ws, error)
    BY <1>10, <2>1
  <2> QED
    BY <1>10, <1>t, <2>1, <2>2, <2>3, DisconnectKeepsEarned
<1>11. ASSUME \/ ServerBadLine \/ ChildExit
              \/ \E r \in SessionRequests : ServerLateResponse(r)
       PROVE  EarnedInv'
  <2>1. said' = said
    BY <1>11 DEF ServerBadLine, ChildExit, ServerLateResponse
  <2>2. CASE \E kind \in {"protocol", "crash"} : OnDisconnect(active, wait, Outcome(kind, NoTurn))
    BY <1>10, <2>1, <2>2
  <2>3. CASE UNCHANGED <<active, lost, lastCompleted, wait>>
    BY <1>1, <2>1, <2>3
  <2> QED
    BY <1>11, <2>2, <2>3 DEF ServerBadLine, ChildExit, ServerLateResponse, Violation
\* Lines about a turn.
<1>12. ASSUME NEW t \in Turns, NEW event \in Heard, said' = [said EXCEPT ![t] = @ \cup {event}]
       PROVE  /\ said' \in [Turns -> SUBSET Heard]
              /\ \A u \in Turns : said[u] \subseteq said'[u]
              /\ event \in said'[t]
              /\ Followed(active, said') /\ Followed(EnsureActive(t), said')
              /\ OutcomeIsEarned(lastCompleted, said') /\ WaitsAreEarned(wait, said')
  <2>1. /\ said' \in [Turns -> SUBSET Heard]
        /\ \A u \in Turns : said[u] \subseteq said'[u]
        /\ event \in said'[t]
    BY <1>12, <1>t
  <2>2. PICK heard, more : heard = said /\ more = said'
    OBVIOUS
  <2>3. /\ \A turns : Followed(turns, heard) => Followed(turns, more)
        /\ \A out : OutcomeIsEarned(out, heard) => OutcomeIsEarned(out, more)
        /\ \A ws : WaitsAreEarned(ws, heard) => WaitsAreEarned(ws, more)
    BY <2>1, <2>2, MoreIsHeard
  <2>4. Followed(EnsureActive(t), said)
    BY <1>t, NewTurnIsFollowed
  <2> QED
    BY <2>1, <2>2, <2>3, <2>4, <1>t
<1>13. ASSUME NEW t \in Turns, NEW event \in Heard, said' = [said EXCEPT ![t] = @ \cup {event}],
              \/ Violation(active) \/ Violation(EnsureActive(t))
       PROVE  EarnedInv'
  <2>1. PICK turns, ws, error :
            /\ turns \in {active, EnsureActive(t)} /\ ws = wait /\ error = Outcome("protocol", NoTurn)
            /\ OnDisconnect(turns, ws, error)
    BY <1>13 DEF Violation
  <2>2. error \in OutcomeType /\ error.kind # "completed"
    BY <2>1 DEF Outcome, OutcomeType
  <2>3. Followed(turns, said') /\ WaitsAreEarned(ws, said')
    BY <1>12, <1>13, <2>1
  <2> QED
    BY <1>12, <1>13, <2>1, <2>2, <2>3, DisconnectKeepsEarned
<1>14. ASSUME NEW t \in Turns, NEW event \in Heard, said' = [said EXCEPT ![t] = @ \cup {event}],
              NEW new \in ActiveTurn, NotedIsHeard(new, said'[t]),
              active' = [EnsureActive(t) EXCEPT ![t] = new], UNCHANGED <<lost, lastCompleted, wait>>
       PROVE  EarnedInv'
  <2>1. t \in DOMAIN EnsureActive(t) /\ Followed(EnsureActive(t), said')
    BY <1>12, <1>14, <1>t, NewTurnIsFollowed
  <2>2. Followed(active', said')
    BY <1>14, <2>1 DEF Followed, EnsureActive
  <2> QED
    BY <1>12, <1>14, <2>2, <1>t DEF EarnedInv
<1>15. ASSUME NEW t \in Turns, TurnStarted(t)
       PROVE  EarnedInv'
  <2>1. said' = [said EXCEPT ![t] = @ \cup {"started"}] /\ "started" \in Heard
    BY <1>15 DEF TurnStarted, Heard
  <2>2. CASE Violation(active)
    BY <1>13, <2>1, <2>2
  <2>3. CASE ~Violation(active)
    <3> DEFINE new == [EnsureActive(t)[t] EXCEPT !.started = TRUE]
    <3>1. active' = [EnsureActive(t) EXCEPT ![t] = new] /\ UNCHANGED <<lost, lastCompleted, wait>>
      BY <1>15, <2>3 DEF TurnStarted, Accepted, EnsureActive
    <3>2. EnsureActive(t)[t] \in ActiveTurn /\ NotedIsHeard(EnsureActive(t)[t], said'[t])
          /\ "started" \in said'[t]
      BY <1>12, <1>t, <2>1, NewTurnIsFollowed DEF Followed
    <3>3. new \in ActiveTurn /\ NotedIsHeard(new, said'[t])
      BY <3>2 DEF ActiveTurn, NotedIsHeard
    <3>4. PICK a : a = new
      OBVIOUS
    <3> QED
      BY <1>14, <2>1, <3>1, <3>3, <3>4
  <2> QED
    BY <2>2, <2>3
<1>16. ASSUME NEW t \in Turns, NEW event \in ItemEvents, Item(t, event)
       PROVE  EarnedInv'
  <2>1. said' = [said EXCEPT ![t] = @ \cup {event}] /\ event \in Heard
    BY <1>16 DEF Item, Heard
  <2>2. CASE Violation(active) \/ Violation(EnsureActive(t))
    BY <1>13, <2>1, <2>2
  <2>3. CASE ~Violation(active) /\ ~Violation(EnsureActive(t))
    <3> DEFINE new == AfterItem(EnsureActive(t)[t], event)
    <3>1. active' = [EnsureActive(t) EXCEPT ![t] = new] /\ UNCHANGED <<lost, lastCompleted, wait>>
      BY <1>16, <2>3 DEF Item, Accepted, EnsureActive
    <3>2. EnsureActive(t)[t] \in ActiveTurn /\ NotedIsHeard(EnsureActive(t)[t], said'[t])
          /\ event \in said'[t]
      BY <1>12, <1>t, <2>1, NewTurnIsFollowed DEF Followed
    <3>3. new \in ActiveTurn /\ NotedIsHeard(new, said'[t])
      BY <3>2 DEF ActiveTurn, NotedIsHeard, AfterItem
    <3>4. PICK a : a = new
      OBVIOUS
    <3> QED
      BY <1>14, <2>1, <3>1, <3>3, <3>4
  <2> QED
    BY <2>2, <2>3
\* onTurnCompleted: what the runtime checks is what makes a completion earned.
<1>17. ASSUME NEW t \in Turns, NEW status \in Statuses, TurnCompleted(t, status)
       PROVE  EarnedInv'
  <2>1. said' = [said EXCEPT ![t] = @ \cup {"completed"}] /\ "completed" \in Heard
    BY <1>17 DEF TurnCompleted, Heard
  <2>2. CASE ~MayComplete(t, status)
    <3>1. Violation(active)
      BY <1>17, <2>2 DEF TurnCompleted
    <3> QED
      BY <1>13, <2>1, <3>1
  <2>3. CASE MayComplete(t, status)
    <3>1. /\ active' = Restrict(active, DOMAIN active \ {t}) /\ lost' = lost
          /\ lastCompleted' = Outcome(status, t)
          /\ wait' = SettleWaiters(wait, {t}, Outcome(status, t))
      BY <1>17, <2>3 DEF TurnCompleted, Accepted
    <3>2. status = "completed" => Earned(t, said')
      <4>1. Followed(active, said') /\ "completed" \in said'[t]
        BY <1>12, <2>1
      <4>2. /\ t \in DOMAIN active /\ active[t].started
            /\ status = "completed" => (RequireTool => active[t].goodTool) /\ active[t].hasAnswer
        BY <2>3 DEF MayComplete
      <4>3. NotedIsHeard(active[t], said'[t])
        BY <4>1, <4>2 DEF Followed
      <4> QED
        BY <4>1, <4>2, <4>3 DEF NotedIsHeard, Earned
    <3>3. Outcome(status, t) \in OutcomeType /\ Outcome(status, t).kind = status
          /\ Outcome(status, t).turn = t
      BY DEF Outcome, OutcomeType
    <3>4. PICK heard : heard = said'
      OBVIOUS
    <3>5. WaitsAreEarned(SettleWaiters(wait, {t}, Outcome(status, t)), heard)
      <4>1. WaitsAreEarned(wait, heard)
        BY <1>12, <2>1, <3>4
      <4>2. PICK ws, S, out : ws = wait /\ S = {t} /\ out = Outcome(status, t)
        OBVIOUS
      <4>3. out \in OutcomeType /\ (out.kind = "completed" => \A u \in S : Earned(u, heard))
        BY <3>2, <3>3, <3>4, <4>2
      <4>4. WaitsAreEarned(SettleWaiters(ws, S, out), heard)
        BY <4>1, <4>2, <4>3, SettledIsEarned
      <4> QED
        BY <4>2, <4>4
    <3>6. Followed(active', said')
      BY <1>12, <2>1, <3>1 DEF Followed, Restrict
    <3>7. OutcomeIsEarned(lastCompleted', said')
      BY <3>1, <3>2, <3>3 DEF OutcomeIsEarned
    <3>8. said' \in [Turns -> SUBSET Heard]
      BY <1>12, <2>1
    <3> QED
      BY <3>1, <3>4, <3>5, <3>6, <3>7, <3>8, <1>t DEF EarnedInv
  <2> QED
    BY <2>2, <2>3
<1>18. Items \subseteq ItemEvents
  BY SessionAssumption
<1>19. CASE Runtime
  BY <1>19, <1>2, <1>3, <1>4, <1>8 DEF Runtime
<1>20. CASE Callers
  BY <1>20, <1>2, <1>3, <1>5, <1>9 DEF Callers
<1>21. CASE Server
  BY <1>21, <1>3, <1>11, <1>15, <1>16, <1>17, <1>18 DEF Server
<1> QED
  BY <1>3, <1>19, <1>20, <1>21 DEF SessionNext

-------------------------------------------------------------------------------
LEMMA EarnedFromStart ==
    ASSUME SessionInit
    PROVE  EarnedInv
<1>1. None \in OutcomeType /\ None.kind # "completed"
  BY DEF None, Outcome, OutcomeType
<1>2. Followed(active, said)
  BY DEF SessionInit, NoneActive, Followed
<1>3. OutcomeIsEarned(lastCompleted, said)
  BY <1>1 DEF SessionInit, OutcomeIsEarned
<1>4. LostIsNoCompletion(lost)
  BY <1>1 DEF SessionInit, NothingLost, LostIsNoCompletion
<1>5. WaitsAreEarned(wait, said)
  BY <1>1 DEF SessionInit, WaitsAreEarned, WaitType
<1>6. said \in [Turns -> SUBSET Heard]
  BY DEF SessionInit
<1> QED
  BY <1>2, <1>3, <1>4, <1>5, <1>6 DEF EarnedInv

\* A wait never resolves as completed for a turn that did not earn it: for any number
\* of turns, waits and restarts, callers that overlap, timeouts of waits and requests,
\* lines in any order and any mishap, at once or by the bridge to late waits.
THEOREM CompletionsAreEarned == SessionSpec => []NoUnearnedCompletion
<1>1. SessionInit => EarnedInv
  BY EarnedFromStart
<1>2. EarnedInv /\ [SessionNext]_sessionVars => EarnedInv'
  BY EarnedStep
<1>3. EarnedInv => NoUnearnedCompletion
  BY DEF EarnedInv, WaitsAreEarned, Earned, NoUnearnedCompletion
<1> QED
  BY <1>1, <1>2, <1>3, PTL DEF SessionSpec

-------------------------------------------------------------------------------
(* Waits and turns of callers that await each call.                             *)

Calling(t) == turn[t] \in {"starting", "recording"}

\* Turns the server may still speak of though turn() has failed: the answer to their
\* turn/start came too late, or not at all.
Doubtful(t) ==
    \/ req[TurnRequest(t)] = "timedout"
    \/ req[TurnRequest(t)] = "rejected" /\ said[t] # {}

RecoveryType ==
    [pc : {"idle", "stopping", "initializing", "checking", "resuming", "aborting"},
     by : {"none", "restart", "resume"}, count : Nat]

\* One turn() at a time, and none during a recovery; the transport of a restart starts
\* with no turn asked for.
CallsAreSerial ==
    /\ turn \in [Turns -> {"idle", "starting", "recording", "returned", "failed"}]
    /\ req \in [SessionRequests -> T!States]
    /\ recovery \in RecoveryType
    /\ \A t, u \in Turns : Calling(t) /\ Calling(u) => t = u
    /\ recovery.pc # "idle" => \A t \in Turns : ~Calling(t)
    /\ recovery.pc \in {"stopping", "initializing", "aborting"} => recovery.by = "restart"
    /\ recovery.by = "restart" /\ recovery.pc \in {"initializing", "checking", "resuming", "aborting"} =>
         \A t \in Turns : req[TurnRequest(t)] = "unused"

\* A turn that failed is one the server cannot take up again beside the next one, unless
\* its answer could not be used.
RequestsAreKnown ==
    \A t \in Turns :
        /\ turn[t] = "idle" => req[TurnRequest(t)] = "unused" /\ said[t] = {}
        /\ turn[t] \in {"recording", "returned", "failed"} => req[TurnRequest(t)] # "pending"
        /\ req[TurnRequest(t)] = "zombie" => said[t] = {}
        /\ Doubtful(t) => phase # "open"
        /\ turn[t] = "starting" /\ req[TurnRequest(t)] \in {"pending", "resolved"} =>
             \A u \in Turns : turn[u] = "failed" => ~Doubtful(u)

\* A turn that turn() returned and that is not followed any more has been heard to end.
EndsAreHeard ==
    /\ lost.turn \in Turns => lost.error.kind # "none"
    /\ lastCompleted.turn \in Turns => {"started", "completed"} \subseteq said[lastCompleted.turn]
    /\ ~disconnected => \A t \in Turns : req[TurnRequest(t)] # "unused" =>
         /\ "completed" \in said[t] => "started" \in said[t]
         /\ turn[t] \in {"recording", "returned"} /\ t \notin DOMAIN active =>
              {"started", "completed"} \subseteq said[t]
    /\ ~disconnected /\ recovery.pc \in {"stopping", "initializing"} =>
         \A t \in DOMAIN active : turn[t] # "returned" /\ "completed" \notin said[t]
    /\ recovery.by = "restart" /\ recovery.pc \in {"checking", "resuming"} => DOMAIN active = {}

\* While the answer to a turn/start is awaited nothing else is active, and a completion
\* that came first is in the bridge.
BridgeHolds ==
    ~disconnected /\ TurnsAreKept =>
        \A t \in Turns : turn[t] = "starting" /\ req[TurnRequest(t)] \in {"pending", "resolved"} =>
            /\ DOMAIN active \subseteq {t}
            /\ "completed" \in said[t] => lastCompleted.turn = t

WaitsAreForReturned == \A w \in Waiters : wait[w].pc = "waiting" => turn[wait[w].turn] = "returned"

KeptInv ==
    /\ CallsAreSerial /\ RequestsAreKnown /\ EndsAreHeard /\ BridgeHolds
    /\ NoTurnResurrected /\ NoWaitLeftBehind /\ WaitsAreForReturned

-------------------------------------------------------------------------------
\* What the transport may do to the requests of turns, and the server say of turns.
RequestMoves(t) ==
    \/ req'[TurnRequest(t)] = req[TurnRequest(t)]
    \/ /\ req[TurnRequest(t)] = "pending"
       /\ \/ req'[TurnRequest(t)] = "resolved"
          \/ req'[TurnRequest(t)] = "rejected" /\ (phase' # "open" \/ said'[t] = {})
          \/ req'[TurnRequest(t)] = "timedout" /\ phase' # "open"
    \/ req[TurnRequest(t)] = "zombie" /\ req'[TurnRequest(t)] \in {"rejected", "dropped"}

TransportMoves ==
    /\ req' \in [SessionRequests -> T!States]
    /\ phase' = "open" => phase = "open"
    /\ \A t \in Turns : RequestMoves(t)

Spoken == \A t \in Turns : said[t] \subseteq said'[t] /\ (said'[t] # said[t] => Known(t))

QuietWaits ==
    \A w \in Waiters : wait'[w].pc = "waiting" => wait[w].pc = "waiting" /\ wait'[w].turn = wait[w].turn

LEMMA RequestsAreApart ==
    /\ \A t \in Turns : TurnRequest(t) \in SessionRequests
    /\ \A t, u \in Turns : TurnRequest(t) = TurnRequest(u) => t = u
    /\ \A t \in Turns : TurnRequest(t) \notin {StartRequest, InitRequest, ResumeRequest, AuxRequest}
    /\ \A t \in Turns : \A w \in Waiters : TurnRequest(t) # InterruptRequest(w)
BY DEF TurnRequest, SessionRequests, StartRequest, InitRequest, ResumeRequest, AuxRequest, InterruptRequest

\* Every step of the transport but the request of a turn and a new transport.
LEMMA StepsOfTheTransport ==
    ASSUME req \in [SessionRequests -> T!States],
           \/ UNCHANGED transport
           \/ T!Close \/ T!KillTimer \/ T!StdinLost \/ T!ProtocolFailure \/ T!ChildExit
           \/ \E r \in SessionRequests : T!RequestTimeout(r)
           \/ \E r \in SessionRequests : T!Request(r) /\ \A t \in Turns : r # TurnRequest(t)
           \/ \E r \in SessionRequests, ok \in BOOLEAN :
                T!Answer(r, ok) /\ \A t \in Turns : r = TurnRequest(t) /\ ~ok => said'[t] = {}
    PROVE  TransportMoves
<1> USE RequestsAreApart
<1>1. CASE UNCHANGED transport
  BY <1>1 DEF transport, TransportMoves, RequestMoves
<1>2. CASE T!Close \/ T!KillTimer \/ T!StdinLost
  BY <1>2 DEF T!Close, T!KillTimer, T!StdinLost, TransportMoves, RequestMoves
<1>3. CASE T!ProtocolFailure \/ T!ChildExit
  <2>1. req' = T!RejectPending /\ phase' # "open"
    BY <1>3 DEF T!ProtocolFailure, T!ChildExit, T!Closing
  <2>2. \A r \in SessionRequests : req'[r] = IF req[r] \in {"pending", "zombie"} THEN "rejected" ELSE req[r]
    BY <2>1 DEF T!RejectPending, T!Listed
  <2>3. req' \in [SessionRequests -> T!States]
    BY <2>1 DEF T!RejectPending, T!States
  <2> QED
    BY <2>1, <2>2, <2>3 DEF TransportMoves, RequestMoves
<1>4. ASSUME NEW r \in SessionRequests, T!RequestTimeout(r)
      PROVE  TransportMoves
  <2>1. /\ req[r] \in {"pending", "zombie"} /\ phase' # "open"
        /\ req' = [req EXCEPT ![r] = IF req[r] = "pending" THEN "timedout" ELSE "dropped"]
    BY <1>4 DEF T!RequestTimeout, T!Listed, T!Closing
  <2>2. req' \in [SessionRequests -> T!States]
    BY <2>1 DEF T!States
  <2> QED
    BY <2>1, <2>2 DEF TransportMoves, RequestMoves
<1>5. ASSUME NEW r \in SessionRequests, T!Request(r), \A t \in Turns : r # TurnRequest(t)
      PROVE  TransportMoves
  <2>1. /\ phase' = phase
        /\ req' = [req EXCEPT ![r] = IF T!Refused THEN "rejected" ELSE IF stdinUp THEN "pending" ELSE "zombie"]
    BY <1>5 DEF T!Request
  <2>2. req' \in [SessionRequests -> T!States]
    BY <2>1 DEF T!States
  <2> QED
    BY <1>5, <2>1, <2>2 DEF TransportMoves, RequestMoves
<1>6. ASSUME NEW r \in SessionRequests, NEW ok \in BOOLEAN, T!Answer(r, ok),
             \A t \in Turns : r = TurnRequest(t) /\ ~ok => said'[t] = {}
      PROVE  TransportMoves
  <2>1. /\ req[r] = "pending" /\ phase' = phase
        /\ req' = [req EXCEPT ![r] = IF ok THEN "resolved" ELSE "rejected"]
    BY <1>6 DEF T!Answer
  <2>2. req' \in [SessionRequests -> T!States]
    BY <2>1 DEF T!States
  <2> QED
    BY <1>6, <2>1, <2>2 DEF TransportMoves, RequestMoves
<1> QED
  BY <1>1, <1>2, <1>3, <1>4, <1>5, <1>6

\* What the requests are known for stands while the transport moves and the server speaks.
LEMMA MovesKeepRequests ==
    ASSUME CallsAreSerial, RequestsAreKnown, TransportMoves, Spoken, turn' = turn
    PROVE  (recovery' = recovery => CallsAreSerial') /\ RequestsAreKnown'
<1>1. \A t \in Turns : Doubtful(t)' => phase' # "open" /\ (turn[t] = "failed" => Doubtful(t))
  BY DEF Doubtful, TransportMoves, RequestMoves, Spoken, RequestsAreKnown, Known, CallsAreSerial
<1>2. recovery' = recovery => CallsAreSerial'
  BY DEF CallsAreSerial, Calling, TransportMoves, RequestMoves
<1>3. RequestsAreKnown'
  BY <1>1 DEF RequestsAreKnown, TransportMoves, RequestMoves, Spoken, Known
<1> QED
  BY <1>2, <1>3

\* The request of a turn that the server may still take up was so before.
LEMMA MovesLookBack ==
    ASSUME TransportMoves
    PROVE  /\ \A t \in Turns : req'[TurnRequest(t)] = "unused" <=> req[TurnRequest(t)] = "unused"
           /\ \A t \in Turns : req'[TurnRequest(t)] \in {"pending", "resolved"} =>
                req[TurnRequest(t)] \in {"pending", "resolved"}
           /\ turn' = turn /\ TurnsAreKept' => TurnsAreKept
BY DEF TransportMoves, RequestMoves, TurnsAreKept

\* The runtime is left as it is: calls, timers, answers, continuations, a transport that ends.
LEMMA SteadySteps ==
    ASSUME KeptInv, TransportMoves, QuietWaits,
           UNCHANGED <<turn, recovery, active, disconnected, lost, lastCompleted, said>>
    PROVE  KeptInv'
<1>1. CallsAreSerial' /\ RequestsAreKnown'
  BY MovesKeepRequests DEF KeptInv, Spoken
<1>2. EndsAreHeard'
  BY MovesLookBack DEF KeptInv, EndsAreHeard
<1>3. BridgeHolds' /\ NoTurnResurrected'
  BY MovesLookBack DEF KeptInv, BridgeHolds, NoTurnResurrected
<1>4. NoWaitLeftBehind' /\ WaitsAreForReturned'
  BY DEF KeptInv, NoWaitLeftBehind, WaitsAreForReturned, QuietWaits
<1> QED
  BY <1>1, <1>2, <1>3, <1>4 DEF KeptInv

\* The connection has ended and no one waits.
LEMMA EndedSteps ==
    ASSUME KeptInv, TransportMoves, Spoken, UNCHANGED <<turn, recovery>>,
           disconnected', lastCompleted' \in {lastCompleted, None},
           lost'.turn \in Turns => lost'.error.kind # "none",
           recovery.by = "restart" /\ recovery.pc \in {"checking", "resuming"} => DOMAIN active' = {},
           \A w \in Waiters : wait'[w].pc # "waiting"
    PROVE  KeptInv'
<1>1. CallsAreSerial' /\ RequestsAreKnown'
  BY MovesKeepRequests DEF KeptInv
<1>2. None.turn \notin Turns
  BY SessionAssumption DEF None, Outcome
<1>3. EndsAreHeard'
  BY <1>2 DEF KeptInv, EndsAreHeard, Spoken
<1>4. BridgeHolds' /\ NoTurnResurrected'
  BY DEF BridgeHolds, NoTurnResurrected
<1>5. NoWaitLeftBehind' /\ WaitsAreForReturned'
  BY DEF NoWaitLeftBehind, WaitsAreForReturned
<1> QED
  BY <1>1, <1>3, <1>4, <1>5 DEF KeptInv

\* onDisconnect settles every wait: all of them are for turns that are active.
LEMMA DisconnectSettlesAll ==
    ASSUME KeptInv, wait \in [Waiters -> WaitType], TransportMoves, Spoken, UNCHANGED <<turn, recovery>>,
           NEW turns, NEW ws \in [Waiters -> WaitType], NEW error, OnDisconnect(turns, ws, error),
           error.kind # "none", DOMAIN active \subseteq DOMAIN turns,
           recovery.by = "restart" /\ recovery.pc \in {"checking", "resuming"} => DOMAIN turns = {},
           \A w \in Waiters : ws[w].pc = "waiting" => wait[w].pc = "waiting" /\ ws[w].turn = wait[w].turn
    PROVE  KeptInv'
<1>1. CASE disconnected
  BY <1>1, EndedSteps DEF OnDisconnect, KeptInv, EndsAreHeard, NoWaitLeftBehind
<1>2. CASE ~disconnected
  <2>1. \A w \in Waiters : ws[w].pc = "waiting" => ws[w].turn \in DOMAIN turns
    BY <1>2 DEF KeptInv, NoWaitLeftBehind
  <2>2. wait' = SettleWaiters(ws, DOMAIN turns, error)
    BY <1>2 DEF OnDisconnect
  <2>3. \A w \in Waiters : [ws[w] EXCEPT !.pc = "settled", !.out = error].pc = "settled"
    BY DEF WaitType
  <2>4. \A w \in Waiters : wait'[w].pc # "waiting"
    BY <2>1, <2>2, <2>3 DEF SettleWaiters
  <2>5. disconnected' /\ lastCompleted' = None /\ DOMAIN active' = {}
    BY <1>2 DEF OnDisconnect, NoneActive
  <2>6. lost'.turn \in Turns => lost'.error.kind # "none"
    BY <1>2, SessionAssumption DEF OnDisconnect, NothingLost
  <2> QED
    BY <2>4, <2>5, <2>6, EndedSteps
<1> QED
  BY <1>1, <1>2

-------------------------------------------------------------------------------
LEMMA WaitsHaveTheirType ==
    ASSUME EarnedInv
    PROVE  wait \in [Waiters -> WaitType]
BY DEF EarnedInv, WaitsAreEarned

\* Calls, continuations and timers that leave the runtime as it is.
LEMMA KeptBySteadySteps ==
    ASSUME EarnedInv, KeptInv,
           \/ StartCall \/ StartContinues \/ StartCreated \/ AuxCall \/ CloseReturns
           \/ KillTimer \/ StdinLost \/ UNCHANGED sessionVars
           \/ (ChildExit /\ phase # "open")
           \/ \E r \in SessionRequests : RequestTimer(r) \/ \E ok \in BOOLEAN : ServerResponse(r, ok)
           \/ \E w \in Waiters : WaitCleanedUp(w)
    PROVE  KeptInv'
<1>t. req \in [SessionRequests -> T!States]
  BY DEF KeptInv, CallsAreSerial
<1>r. /\ {StartRequest, AuxRequest} \subseteq SessionRequests
      /\ \A t \in Turns : TurnRequest(t) \notin {StartRequest, AuxRequest}
  BY RequestsAreApart DEF SessionRequests
<1>1. UNCHANGED <<turn, recovery, active, disconnected, lost, lastCompleted, said>>
  BY DEF StartCall, StartContinues, StartCreated, AuxCall, CloseReturns, KillTimer, StdinLost,
         ChildExit, RequestTimer, ServerResponse, WaitCleanedUp, runtime, calls, sessionVars
<1>2. QuietWaits
  <2>1. CASE wait' = wait
    BY <2>1 DEF QuietWaits
  <2>2. CASE \E w \in Waiters : WaitCleanedUp(w)
    BY <2>2, WaitsHaveTheirType DEF WaitCleanedUp, QuietWaits, WaitType
  <2> QED
    BY <2>1, <2>2 DEF StartCall, StartContinues, StartCreated, AuxCall, CloseReturns, KillTimer,
        StdinLost, ChildExit, RequestTimer, ServerResponse, runtime, calls, sessionVars
<1>3. TransportMoves
  <2>1. CASE UNCHANGED transport
    BY <2>1, <1>t, StepsOfTheTransport
  <2>2. CASE StartCall \/ AuxCall
    <3>1. UNCHANGED transport \/ T!Request(StartRequest) \/ T!Request(AuxRequest)
      BY <2>2 DEF StartCall, AuxCall, SendRequest
    <3> QED
      BY <3>1, <1>t, <1>r, StepsOfTheTransport
  <2>3. CASE KillTimer \/ StdinLost \/ ChildExit
    BY <2>3, <1>t, StepsOfTheTransport DEF KillTimer, StdinLost, ChildExit
  <2>4. ASSUME NEW r \in SessionRequests, RequestTimer(r)
        PROVE  TransportMoves
    BY <2>4, <1>t, StepsOfTheTransport DEF RequestTimer
  <2>5. ASSUME NEW r \in SessionRequests, NEW ok \in BOOLEAN, ServerResponse(r, ok)
        PROVE  TransportMoves
    <3>1. T!Answer(r, ok) /\ \A t \in Turns : r = TurnRequest(t) /\ ~ok => said'[t] = {}
      BY <2>5 DEF ServerResponse
    <3> QED
      BY <3>1, <1>t, StepsOfTheTransport
  <2> QED
    BY <2>1, <2>2, <2>3, <2>4, <2>5 DEF StartContinues, StartCreated, CloseReturns, WaitCleanedUp, sessionVars
<1> QED
  BY <1>1, <1>2, <1>3, SteadySteps

\* The timer of a wait, the clean-up after it, a line the runtime throws on, the end of
\* the child, and close().
LEMMA KeptByDisconnects ==
    ASSUME EarnedInv, KeptInv,
           \/ ServerBadLine \/ CloseCall \/ (ChildExit /\ phase = "open")
           \/ \E r \in SessionRequests : ServerLateResponse(r)
           \/ \E w \in Waiters : WaitTimer(w) \/ InterruptContinues(w)
    PROVE  KeptInv'
<1>t. req \in [SessionRequests -> T!States] /\ wait \in [Waiters -> WaitType]
  BY WaitsHaveTheirType DEF KeptInv, CallsAreSerial
<1>a. recovery.by = "restart" /\ recovery.pc \in {"checking", "resuming"} => DOMAIN active = {}
  BY DEF KeptInv, EndsAreHeard
<1>c. CloseTransport => TransportMoves
  BY <1>t, StepsOfTheTransport DEF CloseTransport
<1>1. CASE ServerBadLine \/ (ChildExit /\ phase = "open") \/ \E r \in SessionRequests : ServerLateResponse(r)
  <2>1. T!ProtocolFailure \/ T!ChildExit
    BY <1>1 DEF ServerBadLine, ChildExit, ServerLateResponse, Violation, T!BadLine, T!LateAnswer
  <2>2. UNCHANGED <<turn, recovery, said>>
    BY <1>1 DEF ServerBadLine, ChildExit, ServerLateResponse
  <2>3. TransportMoves
    BY <1>t, <2>1, StepsOfTheTransport
  <2>4. PICK kind \in {"protocol", "crash"} : OnDisconnect(active, wait, Outcome(kind, NoTurn))
    BY <1>1 DEF ServerBadLine, ChildExit, ServerLateResponse, Violation
  <2>5. PICK turns, ws, error : turns = active /\ ws = wait /\ error = Outcome(kind, NoTurn)
    OBVIOUS
  <2>6. OnDisconnect(turns, ws, error) /\ error.kind # "none" /\ ws \in [Waiters -> WaitType]
    BY <2>4, <2>5, <1>t DEF Outcome
  <2> QED
    BY <2>2, <2>3, <2>5, <2>6, <1>a, <1>t, DisconnectSettlesAll DEF Spoken
<1>2. ASSUME NEW w \in Waiters, CleanUp(w), UNCHANGED <<turn, recovery, said>>
      PROVE  KeptInv'
  <2>1. CloseTransport
    BY <1>2 DEF CleanUp
  <2>2. PICK error : error = TimeoutOf(w)
    OBVIOUS
  <2>3. PICK pc \in {"closing", "settled"} :
            OnDisconnect(active, [wait EXCEPT ![w] = [wait[w] EXCEPT !.pc = pc, !.out = error]], error)
    BY <1>2, <1>t, <2>2 DEF CleanUp
  <2>4. PICK turns, ws : turns = active
            /\ ws = [wait EXCEPT ![w] = [wait[w] EXCEPT !.pc = pc, !.out = error]]
    OBVIOUS
  <2>5. wait[w] \in WaitType /\ error \in OutcomeType /\ error.kind # "none"
    BY <2>2, <1>t DEF TimeoutOf, Outcome, OutcomeType, WaitType
  <2>6. PICK new : new = [wait[w] EXCEPT !.pc = pc, !.out = error]
    OBVIOUS
  <2>7. new \in WaitType /\ new.pc # "waiting"
    BY <2>5, <2>6 DEF WaitType
  <2>8. ws = [wait EXCEPT ![w] = new]
    BY <2>4, <2>6
  <2>9. /\ ws \in [Waiters -> WaitType]
        /\ \A v \in Waiters : ws[v].pc = "waiting" => wait[v].pc = "waiting" /\ ws[v].turn = wait[v].turn
    BY <2>7, <2>8, <1>t
  <2>10. OnDisconnect(turns, ws, error)
    BY <2>3, <2>4
  <2> QED
    BY <1>2, <1>a, <1>c, <1>t, <2>1, <2>4, <2>5, <2>9, <2>10, DisconnectSettlesAll DEF Spoken
<1>3. ASSUME NEW w \in Waiters, InterruptContinues(w)
      PROVE  KeptInv'
  BY <1>2, <1>3 DEF InterruptContinues
<1>4. ASSUME NEW w \in Waiters, WaitTimer(w)
      PROVE  KeptInv'
  <2>1. CASE CleanUp(w)
    BY <1>2, <1>4, <2>1 DEF WaitTimer
  <2>2. CASE ~CleanUp(w)
    <3>1. /\ T!Request(InterruptRequest(w)) /\ wait' = [wait EXCEPT ![w].pc = "interrupting"]
          /\ UNCHANGED <<turn, recovery, active, disconnected, lost, lastCompleted, said>>
      BY <1>4, <2>2 DEF WaitTimer, runtime
    <3>2. InterruptRequest(w) \in SessionRequests /\ \A t \in Turns : InterruptRequest(w) # TurnRequest(t)
      BY RequestsAreApart DEF SessionRequests
    <3>3. TransportMoves
      BY <3>1, <3>2, <1>t, StepsOfTheTransport
    <3>4. QuietWaits
      BY <3>1, <1>t DEF QuietWaits, WaitType
    <3> QED
      BY <3>1, <3>3, <3>4, SteadySteps
  <2> QED
    BY <2>1, <2>2
<1>5. CASE CloseCall
  <2>1. /\ disconnected' /\ lost' = NothingLost /\ lastCompleted' = None /\ active' = NoneActive
        /\ UNCHANGED <<turn, recovery, said>> /\ CloseTransport
    BY <1>5 DEF CloseCall
  <2>2. wait' = SettleWaiters(wait, DOMAIN active, Outcome("closed", NoTurn))
    BY <1>5 DEF CloseCall
  <2>3. \A w \in Waiters : [wait[w] EXCEPT !.pc = "settled", !.out = Outcome("closed", NoTurn)].pc = "settled"
    BY <1>t DEF WaitType
  <2>4. \A w \in Waiters : wait'[w].pc # "waiting"
    BY <2>2, <2>3 DEF SettleWaiters, KeptInv, NoWaitLeftBehind
  <2>5. NothingLost.turn \notin Turns /\ DOMAIN NoneActive = {}
    BY SessionAssumption DEF NothingLost, NoneActive
  <2> QED
    BY <2>1, <2>4, <2>5, <1>c, EndedSteps DEF Spoken
<1> QED
  BY <1>1, <1>3, <1>4, <1>5

\* turn(), of a caller that has no other call pending.
LEMMA KeptByTurnCall ==
    ASSUME EarnedInv, KeptInv, ~Overlap, NEW t \in Turns, TurnCall(t)
    PROVE  KeptInv'
<1>1. /\ recovery.pc = "idle" /\ turn[t] = "idle" /\ ~disconnected /\ DOMAIN active = {}
      /\ \A u \in Turns : ~Calling(u)
  BY DEF TurnCall, CallerFree, Calling, NoneActive
<1>2. /\ UNCHANGED <<active, disconnected, lost, wait, recovery, said>> /\ lastCompleted' = None
      /\ T!Request(TurnRequest(t)) /\ turn' = [turn EXCEPT ![t] = "starting"]
  BY <1>1 DEF TurnCall, SendRequest, Attached
<1>3. PICK new \in {"rejected", "pending", "zombie"} :
        /\ req' = [req EXCEPT ![TurnRequest(t)] = new] /\ phase' = phase
        /\ new = "pending" => phase = "open"
  BY <1>2 DEF T!Request, T!Refused
<1>4. /\ turn \in [Turns -> {"idle", "starting", "recording", "returned", "failed"}]
      /\ req \in [SessionRequests -> T!States]
  BY DEF KeptInv, CallsAreSerial
<1>5. /\ req'[TurnRequest(t)] = new /\ turn'[t] = "starting"
      /\ \A u \in Turns \ {t} : req'[TurnRequest(u)] = req[TurnRequest(u)] /\ turn'[u] = turn[u]
  BY <1>2, <1>3, <1>4, RequestsAreApart
<1>6. said[t] = {} /\ (phase = "open" => \A u \in Turns : ~Doubtful(u))
  BY <1>1 DEF KeptInv, RequestsAreKnown
<1>7. \A u \in Turns : Doubtful(u)' => Doubtful(u)
  BY <1>2, <1>5, <1>6 DEF Doubtful
<1>8. CallsAreSerial'
  <2>1. /\ turn' \in [Turns -> {"idle", "starting", "recording", "returned", "failed"}]
        /\ req' \in [SessionRequests -> T!States]
    BY <1>2, <1>3, <1>4 DEF T!States
  <2>2. \A u \in Turns : Calling(u)' => u = t
    BY <1>1, <1>5 DEF Calling
  <2> QED
    BY <1>1, <1>2, <2>1, <2>2 DEF KeptInv, CallsAreSerial
<1>9. RequestsAreKnown'
  BY <1>1, <1>2, <1>3, <1>5, <1>6, <1>7 DEF KeptInv, RequestsAreKnown, Calling
<1>10. EndsAreHeard'
  <2>1. None.turn \notin Turns
    BY SessionAssumption DEF None, Outcome
  <2> QED
    BY <1>1, <1>2, <1>5, <1>6, <2>1 DEF KeptInv, EndsAreHeard
<1>11. BridgeHolds' /\ NoTurnResurrected'
  BY <1>1, <1>2, <1>5, <1>6 DEF BridgeHolds, NoTurnResurrected, Calling
<1>12. NoWaitLeftBehind' /\ WaitsAreForReturned'
  BY <1>1, <1>2 DEF KeptInv, NoWaitLeftBehind, WaitsAreForReturned
<1> QED
  BY <1>8, <1>9, <1>10, <1>11, <1>12 DEF KeptInv

\* The continuations of turn(): the bridge tells it of a completion that came first.
LEMMA KeptByTurnReturns ==
    ASSUME EarnedInv, KeptInv, NEW t \in Turns, TurnContinues(t) \/ TurnRecorded(t)
    PROVE  KeptInv'
<1>1. /\ UNCHANGED <<disconnected, lost, lastCompleted, wait, recovery, said, req, phase>>
      /\ Calling(t) /\ req[TurnRequest(t)] # "pending"
  BY DEF TurnContinues, TurnRecorded, Calling, Settled, transport, runtime, KeptInv, RequestsAreKnown
<1>2. PICK pc \in {"recording", "returned", "failed"} :
        /\ turn' = [turn EXCEPT ![t] = pc]
        /\ pc = "recording" => turn[t] = "starting" /\ req[TurnRequest(t)] = "resolved"
        /\ pc = "returned" => turn[t] = "recording"
  BY DEF TurnContinues, TurnRecorded
<1>3. /\ recovery.pc = "idle"
      /\ turn \in [Turns -> {"idle", "starting", "recording", "returned", "failed"}]
      /\ \A u \in Turns : Calling(u) => u = t
  BY <1>1 DEF KeptInv, CallsAreSerial
<1>4. turn'[t] = pc /\ \A u \in Turns \ {t} : turn'[u] = turn[u]
  BY <1>2, <1>3
<1>5. \/ active' = active /\ (turn[t] = "recording" \/ pc = "failed" \/ EndedAlready(t))
      \/ /\ DOMAIN active' = DOMAIN active \cup {t} /\ turn[t] = "starting"
         /\ req[TurnRequest(t)] = "resolved" /\ ~EndedAlready(t)
  <2>1. DOMAIN EnsureActive(t) = DOMAIN active \cup {t}
    BY DEF EnsureActive
  <2>2. CASE TurnRecorded(t)
    BY <2>2 DEF TurnRecorded, runtime
  <2>3. CASE TurnContinues(t) /\ turn'[t] = "failed"
    BY <2>3, <1>3, <1>4 DEF TurnContinues
  <2>4. CASE TurnContinues(t) /\ turn'[t] # "failed"
    <3>1. /\ turn[t] = "starting" /\ req[TurnRequest(t)] = "resolved"
          /\ active' = IF EndedAlready(t) THEN active ELSE EnsureActive(t)
      BY <2>4, <1>3 DEF TurnContinues
    <3> QED
      BY <3>1, <2>1
  <2> QED
    BY <2>2, <2>3, <2>4
<1>6. TurnsAreKept' => TurnsAreKept
  BY <1>1, <1>4 DEF TurnsAreKept, Calling
<1>7. CallsAreSerial'
  BY <1>1, <1>2, <1>3, <1>4 DEF KeptInv, CallsAreSerial, Calling
<1>8. RequestsAreKnown'
  BY <1>1, <1>3, <1>4 DEF KeptInv, RequestsAreKnown, Calling, Doubtful
<1>9. EndsAreHeard'
  BY <1>1, <1>2, <1>3, <1>4, <1>5 DEF KeptInv, EndsAreHeard, EndedAlready
<1>10. BridgeHolds'
  BY <1>3, <1>4 DEF BridgeHolds, Calling
<1>11. NoTurnResurrected'
  BY <1>1, <1>5, <1>6 DEF KeptInv, NoTurnResurrected, BridgeHolds, EndedAlready
<1>12. NoWaitLeftBehind' /\ WaitsAreForReturned'
  <2>1. \A w \in Waiters : wait[w].pc = "waiting" => wait[w].turn # t /\ wait[w].turn \in Turns
    BY <1>1 DEF KeptInv, NoWaitLeftBehind, WaitsAreForReturned, Calling, EarnedInv, Followed
  <2> QED
    BY <1>1, <1>4, <1>5, <2>1 DEF KeptInv, NoWaitLeftBehind, WaitsAreForReturned
<1> QED
  BY <1>7, <1>8, <1>9, <1>10, <1>11, <1>12 DEF KeptInv

\* waitForTurn(): only the wait for a turn that is active has no answer yet.
LEMMA KeptByWaitCall ==
    ASSUME EarnedInv, KeptInv, NEW w \in Waiters, NEW t \in Turns, WaitCall(w, t)
    PROVE  KeptInv'
<1>1. /\ UNCHANGED <<phase, req, turn, recovery, active, disconnected, lost, lastCompleted, said>>
      /\ turn[t] = "returned"
  BY DEF WaitCall, runtime, transport
<1>2. AnswerNow(t) = None => ~disconnected /\ t \in DOMAIN active
  BY SessionAssumption DEF AnswerNow, None, Outcome, KeptInv, EndsAreHeard
<1>3. \A v \in Waiters : wait'[v].pc = "waiting" =>
        \/ v = w /\ wait'[v].turn = t /\ AnswerNow(t) = None
        \/ wait'[v] = wait[v]
  BY WaitsHaveTheirType DEF WaitCall
<1>4. CallsAreSerial' /\ RequestsAreKnown' /\ EndsAreHeard'
  BY <1>1 DEF KeptInv, CallsAreSerial, RequestsAreKnown, EndsAreHeard, Calling, Doubtful
<1>5. BridgeHolds' /\ NoTurnResurrected'
  BY <1>1 DEF KeptInv, BridgeHolds, NoTurnResurrected, TurnsAreKept
<1>6. NoWaitLeftBehind' /\ WaitsAreForReturned'
  BY <1>1, <1>2, <1>3 DEF KeptInv, NoWaitLeftBehind, WaitsAreForReturned
<1> QED
  BY <1>4, <1>5, <1>6 DEF KeptInv

-------------------------------------------------------------------------------
\* A line about a turn is one more word said of a turn that is known.
LEMMA LinesAreSpoken ==
    ASSUME EarnedInv, NEW t \in Turns, NEW event, said' = [said EXCEPT ![t] = @ \cup {event}], Known(t)
    PROVE  /\ Spoken /\ req[TurnRequest(t)] # "unused"
           /\ said'[t] = said[t] \cup {event}
           /\ \A u \in Turns \ {t} : said'[u] = said[u]
BY DEF EarnedInv, Spoken, Known

\* A line the runtime throws on.
LEMMA KeptByViolation ==
    ASSUME EarnedInv, KeptInv, NEW t \in Turns, NEW event,
           said' = [said EXCEPT ![t] = @ \cup {event}], Known(t), UNCHANGED <<turn, recovery>>,
           Violation(active) \/ Violation(EnsureActive(t))
    PROVE  KeptInv'
<1>1. Spoken /\ req[TurnRequest(t)] # "unused"
  BY LinesAreSpoken
<1>2. TransportMoves
  BY StepsOfTheTransport DEF Violation, T!BadLine, KeptInv, CallsAreSerial
<1>3. ~(recovery.by = "restart" /\ recovery.pc \in {"checking", "resuming"})
  BY <1>1 DEF KeptInv, CallsAreSerial
<1>4. PICK turns, ws, error :
        /\ turns \in {active, EnsureActive(t)} /\ ws = wait /\ error = Outcome("protocol", NoTurn)
        /\ OnDisconnect(turns, ws, error)
  BY DEF Violation
<1>5. DOMAIN active \subseteq DOMAIN turns /\ error.kind # "none"
  BY <1>4 DEF EnsureActive, Outcome
<1> QED
  BY <1>1, <1>2, <1>3, <1>4, <1>5, WaitsHaveTheirType, DisconnectSettlesAll

\* What the calls and the requests are known for survives every line the runtime accepts.
LEMMA AcceptedKeepsRequests ==
    ASSUME KeptInv, Spoken, Accepted, UNCHANGED <<turn, recovery>>
    PROVE  /\ CallsAreSerial' /\ RequestsAreKnown'
           /\ TurnsAreKept' => TurnsAreKept
           /\ UNCHANGED <<req, phase, disconnected, lost>>
<1>1. TransportMoves
  BY StepsOfTheTransport DEF Accepted, KeptInv, CallsAreSerial
<1> QED
  BY <1>1, MovesKeepRequests, MovesLookBack DEF KeptInv, Accepted, transport

\* A turn becomes active with its first notification, and no turn that ended does.
LEMMA KeptByTurnStarted ==
    ASSUME EarnedInv, KeptInv, NEW t \in Turns, TurnStarted(t)
    PROVE  KeptInv'
<1>1. /\ said' = [said EXCEPT ![t] = @ \cup {"started"}] /\ Known(t)
      /\ "started" \notin said[t] /\ UNCHANGED <<turn, recovery>>
  BY DEF TurnStarted
<1>2. CASE Violation(active)
  BY <1>1, <1>2, KeptByViolation
<1>3. CASE ~Violation(active)
  <2>1. /\ active' = [EnsureActive(t) EXCEPT ![t].started = TRUE]
        /\ Accepted /\ UNCHANGED <<lastCompleted, wait>>
    BY <1>3 DEF TurnStarted
  <2>2. DOMAIN active' = DOMAIN active \cup {t}
    BY <2>1 DEF EnsureActive
  <2>3. /\ Spoken /\ req[TurnRequest(t)] # "unused" /\ said'[t] = said[t] \cup {"started"}
        /\ \A u \in Turns \ {t} : said'[u] = said[u]
    BY <1>1, LinesAreSpoken
  <2>4. /\ CallsAreSerial' /\ RequestsAreKnown' /\ (TurnsAreKept' => TurnsAreKept)
        /\ UNCHANGED <<req, phase, disconnected, lost>>
    BY <1>1, <2>1, <2>3, AcceptedKeepsRequests
  <2>5. ~disconnected => "completed" \notin said[t] /\ (turn[t] = "returned" => t \in DOMAIN active)
    BY <1>1, <2>3 DEF KeptInv, EndsAreHeard
  <2>6. EndsAreHeard'
    <3>1. recovery.by = "restart" => recovery.pc \notin {"initializing", "checking", "resuming"}
      BY <2>3 DEF KeptInv, CallsAreSerial
    <3>2. recovery.pc # "initializing"
      BY <3>1 DEF KeptInv, CallsAreSerial
    <3>3. ~disconnected' /\ recovery'.pc \in {"stopping", "initializing"} =>
            \A u \in DOMAIN active' : turn'[u] # "returned" /\ "completed" \notin said'[u]
      <4>1. DOMAIN active \subseteq Turns
        BY DEF EarnedInv, Followed
      <4>2. ~disconnected /\ recovery.pc = "stopping" => turn[t] # "returned"
        BY <2>5 DEF KeptInv, EndsAreHeard
      <4> QED
        BY <1>1, <2>2, <2>3, <2>4, <2>5, <3>2, <4>1, <4>2 DEF KeptInv, EndsAreHeard
    <3> QED
      BY <1>1, <2>1, <2>2, <2>3, <2>4, <3>1, <3>3 DEF KeptInv, EndsAreHeard
  <2>7. BridgeHolds'
    <3> SUFFICES ASSUME ~disconnected, TurnsAreKept, NEW u \in Turns, turn[u] = "starting",
                        req[TurnRequest(u)] \in {"pending", "resolved"}
                 PROVE  /\ DOMAIN active \cup {t} \subseteq {u}
                        /\ "completed" \in said'[u] => lastCompleted.turn = u
      BY <1>1, <2>1, <2>2, <2>4 DEF BridgeHolds
    <3>1. DOMAIN active \subseteq {u} /\ ("completed" \in said[u] => lastCompleted.turn = u)
      BY DEF KeptInv, BridgeHolds
    <3>2. t \in DOMAIN active \cup {u}
      <4>1. turn[t] \in {"idle", "starting", "recording", "returned", "failed"}
        BY DEF KeptInv, CallsAreSerial
      <4>2. turn[t] # "idle"
        BY <2>3 DEF KeptInv, RequestsAreKnown
      <4>3. turn[t] # "failed"
        BY <1>1 DEF KeptInv, RequestsAreKnown, Known, Doubtful, TurnsAreKept
      <4> QED
        BY <2>5, <4>1, <4>2, <4>3 DEF KeptInv, CallsAreSerial, Calling
    <3> QED
      BY <2>3, <3>1, <3>2
  <2>8. NoTurnResurrected'
    <3>1. DOMAIN active \subseteq Turns
      BY DEF EarnedInv, Followed
    <3> QED
      BY <2>2, <2>3, <2>4, <2>5, <3>1 DEF KeptInv, NoTurnResurrected
  <2>9. NoWaitLeftBehind' /\ WaitsAreForReturned'
    BY <1>1, <2>1, <2>2, <2>4 DEF KeptInv, NoWaitLeftBehind, WaitsAreForReturned
  <2> QED
    BY <2>4, <2>6, <2>7, <2>8, <2>9 DEF KeptInv
<1> QED
  BY <1>2, <1>3

\* An item is accepted of a turn that is active already.
LEMMA KeptByItem ==
    ASSUME EarnedInv, KeptInv, NEW t \in Turns, NEW event \in ItemEvents, Item(t, event)
    PROVE  KeptInv'
<1>1. said' = [said EXCEPT ![t] = @ \cup {event}] /\ Known(t) /\ UNCHANGED <<turn, recovery>>
  BY DEF Item
<1>2. CASE Violation(active) \/ Violation(EnsureActive(t))
  BY <1>1, <1>2, KeptByViolation
<1>3. CASE ~Violation(active) /\ ~Violation(EnsureActive(t))
  <2>1. /\ active' = [EnsureActive(t) EXCEPT ![t] = AfterItem(@, event)]
        /\ ItemAllowed(EnsureActive(t)[t], event) /\ Accepted /\ UNCHANGED <<lastCompleted, wait>>
    BY <1>3 DEF Item
  <2>2. t \in DOMAIN active /\ DOMAIN active' = DOMAIN active
    BY <2>1 DEF EnsureActive, ItemAllowed, IdleTurn
  <2>3. /\ Spoken /\ said'[t] = said[t] \cup {event}
        /\ \A u \in Turns \ {t} : said'[u] = said[u]
    BY <1>1, LinesAreSpoken
  <2>4. \A u \in Turns : \A word \in {"started", "completed"} : word \in said'[u] <=> word \in said[u]
    BY <2>3 DEF ItemEvents
  <2>5. /\ CallsAreSerial' /\ RequestsAreKnown' /\ (TurnsAreKept' => TurnsAreKept)
        /\ UNCHANGED <<req, phase, disconnected, lost>>
    BY <1>1, <2>1, <2>3, AcceptedKeepsRequests
  <2>6. DOMAIN active \subseteq Turns
    BY DEF EarnedInv, Followed
  <2>7. EndsAreHeard'
    BY <1>1, <2>1, <2>2, <2>4, <2>5, <2>6 DEF KeptInv, EndsAreHeard
  <2>8. BridgeHolds' /\ NoTurnResurrected'
    BY <1>1, <2>1, <2>2, <2>4, <2>5, <2>6 DEF KeptInv, BridgeHolds, NoTurnResurrected
  <2>9. NoWaitLeftBehind' /\ WaitsAreForReturned'
    BY <1>1, <2>1, <2>2, <2>5 DEF KeptInv, NoWaitLeftBehind, WaitsAreForReturned
  <2> QED
    BY <2>5, <2>7, <2>8, <2>9 DEF KeptInv
<1> QED
  BY <1>2, <1>3

\* A completion settles the waits of its turn and goes to the bridge.
LEMMA KeptByTurnCompleted ==
    ASSUME EarnedInv, KeptInv, NEW t \in Turns, NEW status \in Statuses, TurnCompleted(t, status)
    PROVE  KeptInv'
<1>1. said' = [said EXCEPT ![t] = @ \cup {"completed"}] /\ Known(t) /\ UNCHANGED <<turn, recovery>>
  BY DEF TurnCompleted
<1>2. CASE Violation(active)
  BY <1>1, <1>2, KeptByViolation
<1>3. CASE ~Violation(active)
  <2>1. /\ active' = Restrict(active, DOMAIN active \ {t})
        /\ lastCompleted' = Outcome(status, t)
        /\ wait' = SettleWaiters(wait, {t}, Outcome(status, t))
        /\ Accepted /\ MayComplete(t, status)
    BY <1>3 DEF TurnCompleted
  <2>2. DOMAIN active' = DOMAIN active \ {t} /\ t \in DOMAIN active /\ lastCompleted'.turn = t
    BY <2>1 DEF Restrict, MayComplete, Outcome
  <2>3. /\ Spoken /\ said'[t] = said[t] \cup {"completed"}
        /\ \A u \in Turns \ {t} : said'[u] = said[u]
    BY <1>1, LinesAreSpoken
  <2>4. "started" \in said[t]
    BY <2>1, <2>2 DEF MayComplete, EarnedInv, Followed, NotedIsHeard
  <2>5. /\ CallsAreSerial' /\ RequestsAreKnown' /\ (TurnsAreKept' => TurnsAreKept)
        /\ UNCHANGED <<req, phase, disconnected, lost>>
    BY <1>1, <2>1, <2>3, AcceptedKeepsRequests
  <2>6. DOMAIN active \subseteq Turns
    BY DEF EarnedInv, Followed
  <2>7. EndsAreHeard'
    BY <1>1, <2>2, <2>3, <2>4, <2>5, <2>6 DEF KeptInv, EndsAreHeard
  <2>8. BridgeHolds' /\ NoTurnResurrected'
    BY <1>1, <2>2, <2>3, <2>5, <2>6 DEF KeptInv, BridgeHolds, NoTurnResurrected
  <2>9. NoWaitLeftBehind' /\ WaitsAreForReturned'
    <3>1. \A w \in Waiters : [wait[w] EXCEPT !.pc = "settled", !.out = Outcome(status, t)].pc = "settled"
      BY WaitsHaveTheirType DEF WaitType
    <3>2. \A w \in Waiters : wait'[w].pc = "waiting" => wait'[w] = wait[w] /\ wait[w].turn # t
      BY <2>1, <3>1 DEF SettleWaiters
    <3> QED
      BY <1>1, <2>2, <2>5, <3>2 DEF KeptInv, NoWaitLeftBehind, WaitsAreForReturned
  <2> QED
    BY <2>5, <2>7, <2>8, <2>9 DEF KeptInv
<1> QED
  BY <1>2, <1>3

-------------------------------------------------------------------------------
\* A recovery goes on while no turn() is pending: it leaves the turns as they are, or ends
\* the connection when no one waits.
LEMMA RecoverySteps ==
    ASSUME KeptInv, TransportMoves, UNCHANGED <<turn, active, lastCompleted, wait, said>>,
           recovery' \in RecoveryType, \A t \in Turns : ~Calling(t),
           lost' \in {lost, NothingLost},
           \/ disconnected' = disconnected
           \/ disconnected' /\ \A w \in Waiters : wait[w].pc # "waiting",
           recovery'.pc \in {"stopping", "initializing", "aborting"} => recovery'.by = "restart",
           recovery'.by = "restart" /\ recovery'.pc \in {"initializing", "checking", "resuming", "aborting"} =>
             \A t \in Turns : req[TurnRequest(t)] = "unused",
           recovery'.pc \in {"stopping", "initializing"} => disconnected \/ DOMAIN active = {},
           recovery'.by = "restart" /\ recovery'.pc \in {"checking", "resuming"} => DOMAIN active = {}
    PROVE  KeptInv'
<1>1. RequestsAreKnown'
  BY MovesKeepRequests DEF KeptInv, Spoken
<1>2. CallsAreSerial'
  BY MovesLookBack DEF KeptInv, CallsAreSerial, Calling, TransportMoves
<1>3. NothingLost.turn \notin Turns
  BY SessionAssumption DEF NothingLost
<1>4. EndsAreHeard'
  BY <1>3, MovesLookBack DEF KeptInv, EndsAreHeard
<1>5. BridgeHolds' /\ NoTurnResurrected'
  BY MovesLookBack DEF KeptInv, BridgeHolds, NoTurnResurrected
<1>6. NoWaitLeftBehind' /\ WaitsAreForReturned'
  BY DEF KeptInv, NoWaitLeftBehind, WaitsAreForReturned
<1> QED
  BY <1>1, <1>2, <1>4, <1>5, <1>6 DEF KeptInv

\* The new transport of a restart has been asked for no turn.
LEMMA NewTransportKeeps ==
    ASSUME KeptInv, UNCHANGED <<runtime, turn, wait, said>>,
           recovery.pc = "stopping", Recover("initializing"),
           req' = [r \in SessionRequests |-> IF r = InitRequest THEN "pending" ELSE "unused"]
    PROVE  KeptInv'
<1>1. \A t \in Turns : req'[TurnRequest(t)] = "unused"
  BY RequestsAreApart
<1>2. /\ recovery' \in RecoveryType /\ recovery'.pc = "initializing" /\ recovery'.by = recovery.by
      /\ recovery.by = "restart" /\ \A t \in Turns : ~Calling(t)
  BY DEF KeptInv, CallsAreSerial, Recover, RecoveryType
<1>3. UNCHANGED <<active, disconnected, lost, lastCompleted>>
  BY DEF runtime
<1>4. CallsAreSerial'
  <2>1. req' \in [SessionRequests -> T!States]
    BY DEF T!States
  <2> QED
    BY <1>1, <1>2, <2>1 DEF KeptInv, CallsAreSerial, Calling
<1>5. RequestsAreKnown'
  BY <1>1 DEF KeptInv, RequestsAreKnown, Doubtful
<1>6. EndsAreHeard'
  BY <1>1, <1>2, <1>3 DEF KeptInv, EndsAreHeard
<1>7. BridgeHolds' /\ NoTurnResurrected'
  BY <1>1, <1>3 DEF KeptInv, EndsAreHeard, BridgeHolds, NoTurnResurrected
<1>8. NoWaitLeftBehind' /\ WaitsAreForReturned'
  BY <1>3 DEF KeptInv, NoWaitLeftBehind, WaitsAreForReturned
<1> QED
  BY <1>4, <1>5, <1>6, <1>7, <1>8 DEF KeptInv

\* The runtime is connected again once no turn is left that someone waits for.
LEMMA ReconnectionKeeps ==
    ASSUME KeptInv, UNCHANGED <<transport, active, lastCompleted, turn, wait, said>>,
           recovery.pc = "initializing", Recover("checking"), lost' = NothingLost,
           active = NoneActive, ~disconnected'
    PROVE  KeptInv'
<1>1. /\ recovery' \in RecoveryType /\ recovery'.pc = "checking" /\ recovery'.by = recovery.by
      /\ recovery.by = "restart" /\ DOMAIN active = {}
      /\ \A t \in Turns : ~Calling(t) /\ req[TurnRequest(t)] = "unused"
  BY DEF KeptInv, CallsAreSerial, Recover, RecoveryType, NoneActive
<1>2. req' = req /\ phase' = phase
  BY DEF transport
<1>3. CallsAreSerial' /\ RequestsAreKnown'
  BY <1>1, <1>2 DEF KeptInv, CallsAreSerial, RequestsAreKnown, Calling, Doubtful
<1>4. EndsAreHeard'
  <2>1. NothingLost.turn \notin Turns
    BY SessionAssumption DEF NothingLost
  <2> QED
    BY <1>1, <1>2, <2>1 DEF KeptInv, EndsAreHeard
<1>5. BridgeHolds' /\ NoTurnResurrected'
  BY <1>1, <1>2 DEF BridgeHolds, NoTurnResurrected
<1>6. NoWaitLeftBehind' /\ WaitsAreForReturned'
  BY <1>1 DEF KeptInv, NoWaitLeftBehind, WaitsAreForReturned
<1> QED
  BY <1>3, <1>4, <1>5, <1>6 DEF KeptInv

LEMMA KeptByRecovery ==
    ASSUME EarnedInv, KeptInv, ~Overlap,
           \/ RestartCall \/ RestartSpawn \/ RestartContinues \/ RestartFails \/ RestartAborted
           \/ ResumeCall \/ ResumeChecked \/ ResumeContinues
    PROVE  KeptInv'
<1>t. /\ req \in [SessionRequests -> T!States] /\ recovery \in RecoveryType
      /\ recovery.pc # "idle" => \A t \in Turns : ~Calling(t)
      /\ recovery.pc \in {"stopping", "initializing", "aborting"} => recovery.by = "restart"
      /\ recovery.by = "restart" /\ recovery.pc \in {"initializing", "checking", "resuming", "aborting"} =>
           \A t \in Turns : req[TurnRequest(t)] = "unused"
      /\ recovery.by = "restart" /\ recovery.pc \in {"checking", "resuming"} => DOMAIN active = {}
  BY DEF KeptInv, CallsAreSerial, EndsAreHeard
<1>r. \A pc \in {"idle", "stopping", "initializing", "checking", "resuming", "aborting"} :
        Recover(pc) => recovery' \in RecoveryType /\ recovery'.pc = pc /\ recovery'.by = recovery.by
  BY <1>t DEF Recover, RecoveryType
<1>m. UNCHANGED transport \/ T!Close \/ T!Request(ResumeRequest) => TransportMoves
  <2>1. ResumeRequest \in SessionRequests /\ \A t \in Turns : ResumeRequest # TurnRequest(t)
    BY RequestsAreApart DEF SessionRequests
  <2> QED
    BY <2>1, <1>t, StepsOfTheTransport
<1>c. CloseTransport => UNCHANGED transport \/ T!Close
  BY DEF CloseTransport
\* A caller's call finds no other one pending.
<1>1. CASE RestartCall
  <2>1. /\ \A t \in Turns : ~Calling(t)
        /\ disconnected \/ DOMAIN active = {}
        /\ recovery' = [pc |-> "stopping", by |-> "restart", count |-> recovery.count + 1]
        /\ CloseTransport /\ UNCHANGED <<runtime, turn, wait, said>>
    BY <1>1 DEF RestartCall, CallerFree, Calling, MayRestart, NoneActive
  <2>2. recovery' \in RecoveryType /\ recovery'.pc = "stopping" /\ recovery'.by = "restart"
    BY <2>1, <1>t DEF RecoveryType
  <2> QED
    BY <2>1, <2>2, <1>m, <1>c, RecoverySteps DEF runtime
<1>2. CASE ResumeCall
  <2>1. /\ \A t \in Turns : ~Calling(t)
        /\ recovery' = [pc |-> "checking", by |-> "resume", count |-> recovery.count + 1]
        /\ UNCHANGED <<transport, runtime, turn, wait, said>>
    BY <1>2 DEF ResumeCall, CallerFree, Calling
  <2>2. recovery' \in RecoveryType /\ recovery'.pc = "checking" /\ recovery'.by = "resume"
    BY <2>1, <1>t DEF RecoveryType
  <2> QED
    BY <2>1, <2>2, <1>m, RecoverySteps DEF runtime
<1>3. CASE RestartSpawn
  <2>1. recovery.pc = "stopping" /\ UNCHANGED <<runtime, turn, wait, said>>
    BY <1>3 DEF RestartSpawn
  <2>2. CASE Recover("idle") /\ UNCHANGED transport
    BY <2>1, <2>2, <1>t, <1>r, <1>m, RecoverySteps DEF runtime
  <2>3. CASE ~(Recover("idle") /\ UNCHANGED transport)
    BY <1>3, <2>1, <2>3, NewTransportKeeps DEF RestartSpawn
  <2> QED
    BY <2>2, <2>3
<1>4. CASE RestartContinues
  <2>1. /\ recovery.pc = "initializing" /\ lost' = NothingLost
        /\ UNCHANGED <<active, lastCompleted, turn, wait, said>>
    BY <1>4 DEF RestartContinues
  <2>2. CASE active = NoneActive
    <3>1. ~disconnected' /\ Recover("checking") /\ UNCHANGED transport
      BY <1>4, <2>2 DEF RestartContinues
    <3> QED
      BY <2>1, <2>2, <3>1, ReconnectionKeeps
  <2>3. CASE active # NoneActive
    <3>1. disconnected' /\ Recover("aborting") /\ (UNCHANGED transport \/ T!Close)
      BY <1>4, <2>3 DEF RestartContinues
    <3>2. \A w \in Waiters : wait[w].pc # "waiting"
      BY <2>1 DEF KeptInv, NoWaitLeftBehind, WaitsAreForReturned, EndsAreHeard
    <3> QED
      BY <2>1, <3>1, <3>2, <1>t, <1>r, <1>m, RecoverySteps
  <2> QED
    BY <2>2, <2>3
<1>5. CASE RestartFails \/ RestartAborted
  <2>1. /\ recovery.pc \in {"initializing", "aborting"} /\ UNCHANGED <<runtime, turn, wait, said>>
        /\ Recover("aborting") \/ Recover("idle")
        /\ UNCHANGED transport \/ T!Close
    BY <1>5 DEF RestartFails, RestartAborted
  <2> QED
    BY <2>1, <1>t, <1>r, <1>m, RecoverySteps DEF runtime
<1>6. CASE ResumeChecked \/ ResumeContinues
  <2>1. /\ recovery.pc \in {"checking", "resuming"}
        /\ UNCHANGED <<active, lost, lastCompleted, turn, wait, said>>
    BY <1>6 DEF ResumeChecked, ResumeContinues
  <2>2. CASE /\ Recover("resuming") \/ Recover("idle") 
             /\ UNCHANGED transport \/ T!Request(ResumeRequest)
             /\ UNCHANGED disconnected
    BY <2>1, <2>2, <1>t, <1>r, <1>m, RecoverySteps
  <2>3. CASE ResumeFails /\ recovery.by = "restart"
    <3>1. disconnected' /\ Recover("aborting") /\ (UNCHANGED transport \/ T!Close)
      BY <2>3, <1>c DEF ResumeFails
    <3>2. \A w \in Waiters : wait[w].pc # "waiting"
      BY <2>1, <2>3, <1>t DEF KeptInv, NoWaitLeftBehind
    <3> QED
      BY <2>1, <2>3, <3>1, <3>2, <1>t, <1>r, <1>m, RecoverySteps
  <2> QED
    BY <1>6, <2>2, <2>3 DEF ResumeChecked, ResumeContinues, ResumeFails
<1> QED
  BY <1>1, <1>2, <1>3, <1>4, <1>5, <1>6

-------------------------------------------------------------------------------
LEMMA KeptStep ==
    ASSUME EarnedInv, KeptInv, ~Overlap, [SessionNext]_sessionVars
    PROVE  KeptInv'
<1>1. Items \subseteq ItemEvents
  BY SessionAssumption
<1>2. CASE Runtime
  BY <1>2, KeptBySteadySteps, KeptByDisconnects, KeptByTurnReturns, KeptByRecovery DEF Runtime
<1>3. CASE Callers
  BY <1>3, KeptBySteadySteps, KeptByDisconnects, KeptByTurnCall, KeptByWaitCall, KeptByRecovery DEF Callers
<1>4. CASE Server
  BY <1>1, <1>4, KeptBySteadySteps, KeptByDisconnects, KeptByTurnStarted, KeptByItem, KeptByTurnCompleted
     DEF Server
<1> QED
  BY <1>2, <1>3, <1>4, KeptBySteadySteps DEF SessionNext

LEMMA KeptFromStart ==
    ASSUME SessionInit
    PROVE  KeptInv
<1>1. T!TransportInit /\ req = [r \in SessionRequests |-> "unused"]
  BY DEF SessionInit, T!TransportInit
<1>2. CallsAreSerial
  BY <1>1 DEF SessionInit, CallsAreSerial, Calling, RecoveryType, T!States
<1>3. RequestsAreKnown
  BY <1>1, RequestsAreApart DEF SessionInit, RequestsAreKnown, Doubtful
<1>4. EndsAreHeard
  BY <1>1, RequestsAreApart, SessionAssumption
     DEF SessionInit, EndsAreHeard, NothingLost, None, Outcome, NoneActive
<1>5. BridgeHolds /\ NoTurnResurrected
  BY <1>1, RequestsAreApart DEF SessionInit, BridgeHolds, NoTurnResurrected, NoneActive
<1>6. NoWaitLeftBehind /\ WaitsAreForReturned
  BY DEF SessionInit, NoWaitLeftBehind, WaitsAreForReturned
<1> QED
  BY <1>2, <1>3, <1>4, <1>5, <1>6 DEF KeptInv

LEMMA SerialCallersAreKept ==
    ASSUME ~Overlap
    PROVE  SessionSpec => [](EarnedInv /\ KeptInv)
<1>1. SessionInit => EarnedInv /\ KeptInv
  BY EarnedFromStart, KeptFromStart
<1>2. (EarnedInv /\ KeptInv) /\ [SessionNext]_sessionVars => (EarnedInv /\ KeptInv)'
  BY EarnedStep, KeptStep
<1> QED
  BY <1>1, <1>2, PTL DEF SessionSpec

\* Of callers that await each call, none is left waiting for what cannot come: whoever waits
\* waits for an active turn of a connected session, after any completion, protocol failure,
\* crash, timeout, restart, failed resume or close(), for any number of turns, waits and
\* restarts.
THEOREM NoWaitIsLeftBehind ==
    ASSUME ~Overlap
    PROVE  SessionSpec => []NoWaitLeftBehind
<1>1. EarnedInv /\ KeptInv => NoWaitLeftBehind
  BY DEF KeptInv
<1> QED
  BY <1>1, SerialCallersAreKept, PTL

\* Of the same callers: a turn the runtime heard the end of is not active again, whichever
\* of the turn/start response and the notifications comes first, as long as turn() kept
\* every turn the server began.
THEOREM EndedTurnsStayEnded ==
    ASSUME ~Overlap
    PROVE  SessionSpec => []NoTurnResurrected
<1>1. EarnedInv /\ KeptInv => NoTurnResurrected
  BY DEF KeptInv
<1> QED
  BY <1>1, SerialCallersAreKept, PTL

-------------------------------------------------------------------------------
(* The bridge to a late wait, for callers that overlap their calls as well.     *)

\* Until the first recovery, the end of a turn that turn() returned is in the bridge, or
\* another turn has been started since.
EndIsBridged ==
    ~disconnected /\ recovery.count = 0 =>
        \A t \in Turns : turn[t] \in {"recording", "returned"} /\ t \notin DOMAIN active =>
            lastCompleted.turn = t \/ \E u \in Turns \ {t} : turn[u] # "idle"

LateInv ==
    /\ turn \in [Turns -> {"idle", "starting", "recording", "returned", "failed"}]
    /\ req \in [SessionRequests -> T!States]
    /\ recovery \in RecoveryType /\ (recovery.pc # "idle" => recovery.count > 0)
    /\ \A t \in Turns : turn[t] = "idle" => req[TurnRequest(t)] = "unused" /\ said[t] = {}
    /\ \A w \in Waiters : wait[w].pc = "idle" => wait[w].out.kind # "gone"
    /\ lastCompleted.kind # "gone"
    /\ EndIsBridged

\* A wait that has not been asked for is left alone.
IdleWaitsStand(ws) == \A w \in Waiters : wait[w].pc = "idle" \/ ws[w].pc = "idle" => ws[w] = wait[w]

RequestsStand ==
    /\ req' \in [SessionRequests -> T!States]
    /\ \A t \in Turns : req[TurnRequest(t)] = "unused" => req'[TurnRequest(t)] = "unused"

\* The steps that touch neither turn() nor its bridge while the session is up.
LEMMA BridgeStands ==
    ASSUME LateInv, RequestsStand, turn' = turn, Spoken, IdleWaitsStand(wait'),
           recovery' \in RecoveryType, recovery'.pc # "idle" => recovery'.count > 0,
           lastCompleted' \in {lastCompleted, None},
           \/ disconnected' \/ recovery'.count > 0
           \/ /\ disconnected' = disconnected /\ recovery'.count = recovery.count
              /\ DOMAIN active \subseteq DOMAIN active' /\ lastCompleted' = lastCompleted
    PROVE  LateInv'
<1>1. EndIsBridged'
  BY DEF LateInv, EndIsBridged
<1>2. \A t \in Turns : turn'[t] = "idle" => req'[TurnRequest(t)] = "unused" /\ said'[t] = {}
  BY DEF LateInv, RequestsStand, Spoken, Known
<1>3. \A w \in Waiters : wait'[w].pc = "idle" => wait'[w].out.kind # "gone"
  BY DEF LateInv, IdleWaitsStand
<1> QED
  BY <1>1, <1>2, <1>3 DEF LateInv, RequestsStand, None, Outcome

LEMMA SettlingIsOfOthers ==
    ASSUME wait \in [Waiters -> WaitType], NEW ws \in [Waiters -> WaitType], IdleWaitsStand(ws),
           NEW S, NEW out
    PROVE  IdleWaitsStand(SettleWaiters(ws, S, out))
<1>1. \A w \in Waiters : [ws[w] EXCEPT !.pc = "settled", !.out = out].pc = "settled"
  BY DEF WaitType
<1> QED
  BY <1>1 DEF IdleWaitsStand, SettleWaiters

\* What a step does to the requests of turns, ...
LEMMA RequestsOfEveryStep ==
    ASSUME LateInv, [SessionNext]_sessionVars, \A t \in Turns : ~TurnCall(t)
    PROVE  RequestsStand
<1>t. req \in [SessionRequests -> T!States]
  BY DEF LateInv
<1>m. TransportMoves => RequestsStand
  BY DEF TransportMoves, RequestMoves, RequestsStand
<1>r. /\ {StartRequest, AuxRequest, ResumeRequest} \subseteq SessionRequests
      /\ \A t \in Turns : TurnRequest(t) \notin {StartRequest, AuxRequest, ResumeRequest}
      /\ \A w \in Waiters : InterruptRequest(w) \in SessionRequests
      /\ \A w \in Waiters, t \in Turns : InterruptRequest(w) # TurnRequest(t)
  BY RequestsAreApart DEF SessionRequests
<1>1. ASSUME UNCHANGED transport \/ T!Close \/ T!KillTimer \/ T!StdinLost \/ T!ProtocolFailure \/ T!ChildExit
      PROVE  RequestsStand
  BY <1>1, <1>t, <1>m, StepsOfTheTransport
<1>2. ASSUME NEW r \in SessionRequests, T!Request(r), \A t \in Turns : r # TurnRequest(t)
      PROVE  RequestsStand
  BY <1>2, <1>t, <1>m, StepsOfTheTransport
<1>3. ASSUME \/ StartContinues \/ StartCreated \/ RestartCall \/ RestartContinues \/ RestartFails \/ RestartAborted
             \/ ResumeCall \/ CloseCall \/ CloseReturns \/ KillTimer \/ StdinLost \/ ChildExit
             \/ ServerBadLine \/ UNCHANGED sessionVars
             \/ \E r \in SessionRequests : ServerLateResponse(r)
             \/ \E t \in Turns : TurnContinues(t) \/ TurnRecorded(t)
             \/ \E t \in Turns, w \in Waiters : WaitCall(w, t)
             \/ \E w \in Waiters : InterruptContinues(w) \/ WaitCleanedUp(w)
      PROVE  RequestsStand
  BY <1>1, <1>3 DEF StartContinues, StartCreated, RestartCall, RestartContinues, RestartFails, RestartAborted,
     ResumeCall, CloseCall, CloseReturns, KillTimer, StdinLost, ChildExit, ServerBadLine, ServerLateResponse,
     TurnContinues, TurnRecorded, WaitCall, InterruptContinues, WaitCleanedUp, CleanUp, CloseTransport,
     Violation, T!BadLine, T!LateAnswer, sessionVars
<1>4. ASSUME StartCall \/ AuxCall \/ ResumeChecked \/ ResumeContinues \/ \E w \in Waiters : WaitTimer(w)
      PROVE  RequestsStand
  BY <1>1, <1>2, <1>4, <1>r DEF StartCall, AuxCall, SendRequest, ResumeChecked, ResumeContinues, ResumeFails,
     WaitTimer, CleanUp, CloseTransport
<1>5. ASSUME NEW t \in Turns, \/ TurnStarted(t) \/ \E event \in Items : Item(t, event)
                              \/ \E status \in Statuses : TurnCompleted(t, status)
      PROVE  RequestsStand
  BY <1>1, <1>5 DEF TurnStarted, Item, TurnCompleted, Accepted, Violation, T!BadLine
<1>6. ASSUME NEW r \in SessionRequests, RequestTimer(r) \/ \E ok \in BOOLEAN : ServerResponse(r, ok)
      PROVE  RequestsStand
  <2>1. CASE RequestTimer(r)
    BY <2>1, <1>t, <1>m, StepsOfTheTransport DEF RequestTimer
  <2>2. ASSUME NEW ok \in BOOLEAN, ServerResponse(r, ok)
        PROVE  RequestsStand
    <3>1. T!Answer(r, ok) /\ \A t \in Turns : r = TurnRequest(t) /\ ~ok => said'[t] = {}
      BY <2>2 DEF ServerResponse
    <3> QED
      BY <3>1, <1>t, <1>m, StepsOfTheTransport
  <2> QED
    BY <1>6, <2>1, <2>2
<1>7. CASE RestartSpawn
  <2>1. UNCHANGED transport \/ req' = [r \in SessionRequests |-> IF r = InitRequest THEN "pending" ELSE "unused"]
    BY <1>7 DEF RestartSpawn
  <2>2. ASSUME req' = [r \in SessionRequests |-> IF r = InitRequest THEN "pending" ELSE "unused"]
        PROVE  RequestsStand
    BY <2>2, RequestsAreApart DEF RequestsStand, T!States
  <2> QED
    BY <1>1, <2>1, <2>2
<1> QED
  BY <1>3, <1>4, <1>5, <1>6, <1>7 DEF SessionNext, Runtime, Callers, Server

\* ... to what is said of turns, ...
LEMMA WordsOfEveryStep ==
    ASSUME EarnedInv, [SessionNext]_sessionVars
    PROVE  Spoken
<1>1. ASSUME NEW t \in Turns, \/ TurnStarted(t) \/ \E event \in Items : Item(t, event)
                              \/ \E status \in Statuses : TurnCompleted(t, status)
      PROVE  Spoken
  <2>1. Known(t) /\ \E event : said' = [said EXCEPT ![t] = @ \cup {event}]
    BY <1>1 DEF TurnStarted, Item, TurnCompleted
  <2> QED
    BY <2>1, LinesAreSpoken
<1>2. ASSUME said' = said
      PROVE  Spoken
  BY <1>2 DEF Spoken
<1>3. CASE Runtime
  BY <1>2, <1>3 DEF Runtime, StartContinues, StartCreated, TurnContinues, TurnRecorded, WaitTimer,
     InterruptContinues, WaitCleanedUp, RestartSpawn, RestartContinues, RestartFails, RestartAborted,
     ResumeChecked, ResumeContinues, CloseReturns, RequestTimer, KillTimer
<1>4. CASE Callers
  BY <1>2, <1>4 DEF Callers, StartCall, AuxCall, RestartCall, ResumeCall, CloseCall, TurnCall, WaitCall
<1>5. CASE Server
  BY <1>1, <1>2, <1>5 DEF Server, ServerLateResponse, ServerResponse, ServerBadLine, StdinLost, ChildExit
<1> QED
  BY <1>2, <1>3, <1>4, <1>5 DEF SessionNext, sessionVars

\* ... to the recovery, ...
LEMMA RecoveryOfEveryStep ==
    ASSUME LateInv, [SessionNext]_sessionVars
    PROVE  /\ recovery' \in RecoveryType
           /\ recovery'.pc # "idle" => recovery'.count > 0
           /\ recovery' = recovery \/ recovery'.count > 0
<1>t. recovery \in RecoveryType /\ (recovery.pc # "idle" => recovery.count > 0)
  BY DEF LateInv
<1>1. ASSUME NEW pc \in {"idle", "initializing", "checking", "resuming", "aborting"}, Recover(pc), recovery.pc # "idle"
      PROVE  recovery' \in RecoveryType /\ recovery'.count > 0
  BY <1>1, <1>t DEF Recover, RecoveryType
<1>2. CASE RestartCall \/ ResumeCall
  <2>1. PICK pc \in {"stopping", "checking"}, by \in {"restart", "resume"} :
          recovery' = [pc |-> pc, by |-> by, count |-> recovery.count + 1]
    BY <1>2 DEF RestartCall, ResumeCall
  <2> QED
    BY <2>1, <1>t DEF RecoveryType
<1>3. CASE RestartSpawn \/ RestartContinues \/ RestartFails \/ RestartAborted \/ ResumeChecked \/ ResumeContinues
  BY <1>1, <1>3 DEF RestartSpawn, RestartContinues, RestartFails, RestartAborted, ResumeChecked, ResumeContinues,
     ResumeFails
<1>4. CASE recovery' = recovery
  BY <1>4, <1>t
<1> QED
  BY <1>2, <1>3, <1>4 DEF SessionNext, Runtime, Callers, Server, sessionVars, calls,
     StartContinues, StartCreated, TurnContinues, TurnRecorded, WaitTimer, InterruptContinues, WaitCleanedUp,
     CloseReturns, RequestTimer, KillTimer, StartCall, AuxCall, CloseCall, TurnCall, WaitCall,
     ServerLateResponse, ServerResponse, ServerBadLine, StdinLost, ChildExit, TurnStarted, Item, TurnCompleted

\* ... to the waits, ...
LEMMA WaitsOfEveryStep ==
    ASSUME EarnedInv, [SessionNext]_sessionVars, \A w \in Waiters, t \in Turns : ~WaitCall(w, t)
    PROVE  IdleWaitsStand(wait')
<1>t. wait \in [Waiters -> WaitType]
  BY WaitsHaveTheirType
<1>1. CASE wait' = wait
  BY <1>1 DEF IdleWaitsStand
<1>2. ASSUME NEW turns, NEW ws \in [Waiters -> WaitType], IdleWaitsStand(ws), NEW error,
             OnDisconnect(turns, ws, error)
      PROVE  IdleWaitsStand(wait')
  <2>1. wait' = ws \/ \E S : wait' = SettleWaiters(ws, S, error)
    BY <1>2 DEF OnDisconnect
  <2> QED
    BY <1>t, <1>2, <2>1, SettlingIsOfOthers
<1>3. IdleWaitsStand(wait)
  BY DEF IdleWaitsStand
<1>4. ASSUME ServerBadLine \/ ChildExit \/ \E r \in SessionRequests : ServerLateResponse(r)
      PROVE  IdleWaitsStand(wait')
  <2>1. PICK ws : ws = wait
    OBVIOUS
  <2>2. wait' = wait \/ \E turns, error : OnDisconnect(turns, ws, error)
    BY <1>4, <2>1 DEF ServerBadLine, ChildExit, ServerLateResponse, Violation
  <2> QED
    BY <1>1, <1>2, <1>3, <1>t, <2>1, <2>2
<1>5. ASSUME NEW w \in Waiters, NEW pc \in {"interrupting", "closing", "settled"}, NEW out \in OutcomeType,
             wait[w].pc # "idle"
      PROVE  /\ [wait EXCEPT ![w] = [wait[w] EXCEPT !.pc = pc, !.out = out]] \in [Waiters -> WaitType]
             /\ IdleWaitsStand([wait EXCEPT ![w] = [wait[w] EXCEPT !.pc = pc, !.out = out]])
  <2>1. PICK new : new = [wait[w] EXCEPT !.pc = pc, !.out = out]
    OBVIOUS
  <2>2. wait[w] \in WaitType
    BY <1>t
  <2>3. new \in WaitType /\ new.pc # "idle"
    BY <2>1, <2>2 DEF WaitType
  <2> QED
    BY <2>1, <2>3, <1>t, <1>5 DEF IdleWaitsStand
<1>6. ASSUME NEW w \in Waiters, WaitTimer(w) \/ InterruptContinues(w) \/ WaitCleanedUp(w)
      PROVE  IdleWaitsStand(wait')
  <2>1. wait[w] \in WaitType /\ wait[w].pc # "idle"
    BY <1>t, <1>6 DEF WaitTimer, InterruptContinues, WaitCleanedUp
  <2>2. CASE CleanUp(w)
    <3>1. PICK turns, error : turns = active /\ error = TimeoutOf(w)
      OBVIOUS
    <3>2. error \in OutcomeType
      BY <2>1, <3>1 DEF TimeoutOf, Outcome, OutcomeType, WaitType
    <3>3. PICK pc \in {"closing", "settled"} :
            OnDisconnect(turns, [wait EXCEPT ![w] = [wait[w] EXCEPT !.pc = pc, !.out = error]], error)
      BY <2>2, <1>t, <3>1 DEF CleanUp
    <3>4. PICK ws : ws = [wait EXCEPT ![w] = [wait[w] EXCEPT !.pc = pc, !.out = error]]
      OBVIOUS
    <3>5. ws \in [Waiters -> WaitType] /\ IdleWaitsStand(ws)
      BY <1>5, <2>1, <3>2, <3>4
    <3>6. OnDisconnect(turns, ws, error)
      BY <3>3, <3>4
    <3> QED
      BY <1>2, <3>5, <3>6
  <2>3. CASE ~CleanUp(w)
    <3>1. PICK pc \in {"interrupting", "settled"} : wait' = [wait EXCEPT ![w].pc = pc]
      BY <1>6, <2>3 DEF WaitTimer, InterruptContinues, WaitCleanedUp
    <3> QED
      BY <3>1, <2>1, <1>t DEF IdleWaitsStand, WaitType
  <2> QED
    BY <2>2, <2>3
<1>7. CASE CloseCall
  BY <1>7, <1>t, <1>3, SettlingIsOfOthers DEF CloseCall
<1>8. ASSUME NEW t \in Turns, \/ TurnStarted(t) \/ \E event \in Items : Item(t, event)
                              \/ \E status \in Statuses : TurnCompleted(t, status)
      PROVE  IdleWaitsStand(wait')
  <2>1. PICK ws : ws = wait
    OBVIOUS
  <2>2. \/ wait' = wait
        \/ \E turns, error : OnDisconnect(turns, ws, error)
        \/ \E S, out : wait' = SettleWaiters(wait, S, out)
    BY <1>8, <2>1 DEF TurnStarted, Item, TurnCompleted, Violation
  <2> QED
    BY <1>1, <1>2, <1>3, <1>t, <2>1, <2>2, SettlingIsOfOthers
<1>9. CASE Runtime
  BY <1>1, <1>6, <1>9 DEF Runtime, calls, StartContinues, StartCreated, TurnContinues, TurnRecorded, RestartSpawn,
     RestartContinues, RestartFails, RestartAborted, ResumeChecked, ResumeContinues, CloseReturns,
     RequestTimer, KillTimer
<1>10. CASE Callers
  BY <1>1, <1>7, <1>10 DEF Callers, calls, StartCall, AuxCall, RestartCall, ResumeCall, TurnCall
<1>11. CASE Server
  BY <1>1, <1>4, <1>8, <1>11 DEF Server, calls, ServerResponse, StdinLost
<1> QED
  BY <1>1, <1>9, <1>10, <1>11 DEF SessionNext, sessionVars, calls

\* ... and to the bridge.
LEMMA BridgeOfEveryStep ==
    ASSUME LateInv, [SessionNext]_sessionVars,
           \A t \in Turns : ~TurnCall(t) /\ ~TurnContinues(t) /\ ~TurnRecorded(t),
           \A t \in Turns, status \in Statuses : ~TurnCompleted(t, status)
    PROVE  /\ turn' = turn /\ lastCompleted' \in {lastCompleted, None}
           /\ \/ disconnected' \/ recovery.count > 0
              \/ /\ disconnected' = disconnected /\ lastCompleted' = lastCompleted
                 /\ DOMAIN active \subseteq DOMAIN active'
<1> DEFINE Stands == /\ lastCompleted' \in {lastCompleted, None}
                     /\ \/ disconnected' \/ recovery.count > 0
                        \/ /\ disconnected' = disconnected /\ lastCompleted' = lastCompleted
                           /\ DOMAIN active \subseteq DOMAIN active'
<1>1. ASSUME NEW turns, NEW ws, NEW error, OnDisconnect(turns, ws, error)
      PROVE  Stands
  BY <1>1 DEF OnDisconnect
<1>2. ASSUME UNCHANGED <<active, disconnected, lastCompleted>>
      PROVE  Stands
  BY <1>2
<1> HIDE DEF Stands
<1>3. ASSUME NEW t \in Turns, TurnStarted(t) \/ \E event \in Items : Item(t, event)
      PROVE  Stands
  <2>1. \/ \E turns, ws, error : OnDisconnect(turns, ws, error)
        \/ /\ Accepted /\ lastCompleted' = lastCompleted
           /\ \E a : active' = [EnsureActive(t) EXCEPT ![t] = a]
    BY <1>3 DEF TurnStarted, Item, Violation
  <2> QED
    BY <1>1, <2>1 DEF Accepted, EnsureActive, Stands
<1>4. ASSUME NEW w \in Waiters, WaitTimer(w) \/ InterruptContinues(w) \/ WaitCleanedUp(w)
      PROVE  Stands
  BY <1>1, <1>2, <1>4 DEF WaitTimer, InterruptContinues, WaitCleanedUp, CleanUp, runtime
<1>5. ASSUME RestartSpawn \/ RestartContinues \/ RestartFails \/ RestartAborted \/ ResumeChecked \/ ResumeContinues
      PROVE  Stands
  BY <1>5 DEF LateInv, Stands, runtime, RestartSpawn, RestartContinues, RestartFails, RestartAborted, ResumeChecked, ResumeContinues
<1>6. ASSUME CloseCall
      PROVE  Stands
  BY <1>6 DEF CloseCall, Stands
<1>7. ASSUME Runtime
      PROVE  Stands
  BY <1>2, <1>4, <1>5, <1>7 DEF Runtime, runtime, calls, StartContinues, StartCreated, CloseReturns, RequestTimer, KillTimer
<1>8. ASSUME Callers
      PROVE  Stands
  BY <1>2, <1>6, <1>8 DEF Callers, runtime, calls, StartCall, AuxCall, RestartCall, ResumeCall, WaitCall
<1>9. ASSUME Server
      PROVE  Stands
  BY <1>1, <1>2, <1>3, <1>9 DEF Server, runtime, calls, ServerLateResponse, ServerResponse, ServerBadLine, Violation,
     StdinLost, ChildExit
<1>10. turn' = turn
  BY DEF SessionNext, Runtime, Callers, Server, sessionVars, calls, StartContinues, StartCreated,
     WaitTimer, InterruptContinues, WaitCleanedUp, RestartSpawn, RestartContinues, RestartFails,
     RestartAborted, ResumeChecked, ResumeContinues, CloseReturns, RequestTimer, KillTimer,
     StartCall, AuxCall, RestartCall, ResumeCall, CloseCall, WaitCall,
     ServerLateResponse, ServerResponse, ServerBadLine, StdinLost, ChildExit, TurnStarted, Item
<1>11. Stands
  BY <1>2, <1>7, <1>8, <1>9 DEF SessionNext, sessionVars, runtime
<1> QED
  BY <1>10, <1>11 DEF Stands

\* A turn that is started, or returned by turn(), or completed: the bridge holds the last
\* completion, of this turn or of another one.
LEMMA BridgeOfTurns ==
    ASSUME EarnedInv, LateInv, NEW t \in Turns,
           TurnCall(t) \/ TurnContinues(t) \/ TurnRecorded(t)
    PROVE  LateInv'
<1>t. /\ turn \in [Turns -> {"idle", "starting", "recording", "returned", "failed"}]
      /\ req \in [SessionRequests -> T!States]
  BY DEF LateInv
<1>1. UNCHANGED <<disconnected, wait, recovery, said>>
  BY DEF TurnCall, TurnContinues, TurnRecorded, runtime
<1>2. PICK pc \in {"starting", "recording", "returned", "failed"} : turn' = [turn EXCEPT ![t] = pc]
  BY DEF TurnCall, TurnContinues, TurnRecorded
<1>3. turn'[t] = pc /\ \A u \in Turns \ {t} : turn'[u] = turn[u]
  BY <1>2, <1>t
<1>4. /\ req' \in [SessionRequests -> T!States]
      /\ \A u \in Turns \ {t} : req'[TurnRequest(u)] = req[TurnRequest(u)]
  <2>1. UNCHANGED req \/ T!Request(TurnRequest(t))
    BY DEF TurnCall, SendRequest, TurnContinues, TurnRecorded, transport
  <2>2. ASSUME T!Request(TurnRequest(t))
        PROVE  \E new \in T!States : req' = [req EXCEPT ![TurnRequest(t)] = new]
    BY <2>2 DEF T!Request, T!States
  <2> QED
    BY <2>1, <2>2, <1>t, RequestsAreApart
<1>5. EndIsBridged'
  <2>1. CASE TurnCall(t)
    BY <2>1, <1>3 DEF EndIsBridged, TurnCall
  <2>2. CASE TurnRecorded(t)
    <3>1. turn[t] = "recording" /\ UNCHANGED <<active, lastCompleted>>
      BY <2>2 DEF TurnRecorded, runtime
    <3>2. \A u \in Turns : turn'[u] # "idle" <=> turn[u] # "idle"
      BY <1>2, <1>3, <3>1
    <3>3. \A u \in Turns : turn'[u] \in {"recording", "returned"} => turn[u] \in {"recording", "returned"}
      BY <1>3, <3>1
    <3> QED
      BY <1>1, <3>1, <3>2, <3>3 DEF LateInv, EndIsBridged
  <2>3. CASE TurnContinues(t)
    <3>1. DOMAIN active \subseteq DOMAIN active' /\ lastCompleted' = lastCompleted
      BY <2>3 DEF TurnContinues, EnsureActive
    <3>2. t \in DOMAIN active' \/ disconnected \/ lastCompleted.turn = t \/ pc = "failed"
      BY <2>3, <1>t, <1>3 DEF TurnContinues, EnsureActive, EndedAlready
    <3>3. pc \in {"recording", "failed"}
      BY <2>3, <1>t, <1>3 DEF TurnContinues
    <3> QED
      BY <1>1, <1>3, <3>1, <3>2, <3>3 DEF LateInv, EndIsBridged
  <2> QED
    BY <2>1, <2>2, <2>3
<1>6. lastCompleted' \in {lastCompleted, None}
  BY DEF TurnCall, TurnContinues, TurnRecorded, runtime
<1> QED
  BY <1>1, <1>2, <1>3, <1>4, <1>5, <1>6, <1>t DEF LateInv, None, Outcome

LEMMA LateStep ==
    ASSUME EarnedInv, LateInv, [SessionNext]_sessionVars
    PROVE  LateInv'
<1>1. CASE \E t \in Turns : TurnCall(t) \/ TurnContinues(t) \/ TurnRecorded(t)
  BY <1>1, BridgeOfTurns
<1>2. ASSUME NEW w \in Waiters, NEW t \in Turns, WaitCall(w, t)
      PROVE  LateInv'
  <2>1. /\ UNCHANGED <<req, turn, recovery, active, disconnected, lastCompleted, said>>
        /\ \A v \in Waiters : wait'[v] = wait[v] \/ wait'[v].pc # "idle"
    BY <1>2, WaitsHaveTheirType DEF WaitCall, runtime, transport
  <2>2. EndIsBridged'
    BY <2>1 DEF LateInv, EndIsBridged
  <2> QED
    BY <2>1, <2>2 DEF LateInv
<1>3. CASE /\ \A t \in Turns : ~TurnCall(t) /\ ~TurnContinues(t) /\ ~TurnRecorded(t)
           /\ \A w \in Waiters, t \in Turns : ~WaitCall(w, t)
  <2>1. RequestsStand /\ Spoken
    BY <1>3, RequestsOfEveryStep, WordsOfEveryStep
  <2>2. IdleWaitsStand(wait')
    BY <1>3, WaitsOfEveryStep
  <2>3. /\ recovery' \in RecoveryType /\ (recovery'.pc # "idle" => recovery'.count > 0)
        /\ recovery' = recovery \/ recovery'.count > 0
    BY RecoveryOfEveryStep
  <2>4. CASE \A t \in Turns, status \in Statuses : ~TurnCompleted(t, status)
    <3>1. /\ turn' = turn /\ lastCompleted' \in {lastCompleted, None}
          /\ \/ disconnected' \/ recovery.count > 0
             \/ /\ disconnected' = disconnected /\ lastCompleted' = lastCompleted
                /\ DOMAIN active \subseteq DOMAIN active'
      BY <1>3, <2>4, BridgeOfEveryStep
    <3>2. \/ disconnected' \/ recovery'.count > 0
          \/ /\ disconnected' = disconnected /\ recovery'.count = recovery.count
             /\ DOMAIN active \subseteq DOMAIN active' /\ lastCompleted' = lastCompleted
      BY <2>3, <3>1
    <3> QED
      BY <2>1, <2>2, <2>3, <3>1, <3>2, BridgeStands
  <2>5. ASSUME NEW t \in Turns, NEW status \in Statuses, TurnCompleted(t, status)
        PROVE  LateInv'
    <3>1. turn' = turn /\ recovery' = recovery /\ turn[t] # "idle"
      BY <2>5 DEF TurnCompleted, Known, LateInv
    <3>2. CASE OnDisconnect(active, wait, Outcome("protocol", NoTurn))
      <4>1. disconnected' /\ lastCompleted' \in {lastCompleted, None}
        BY <3>2 DEF OnDisconnect
      <4> QED
        BY <4>1, <2>1, <2>2, <2>3, <3>1, BridgeStands
    <3>3. CASE ~OnDisconnect(active, wait, Outcome("protocol", NoTurn))
      <4>1. /\ active' = Restrict(active, DOMAIN active \ {t}) /\ lastCompleted' = Outcome(status, t)
            /\ disconnected' = disconnected
        BY <2>5, <3>3 DEF TurnCompleted, Accepted, Violation
      <4>2. DOMAIN active' = DOMAIN active \ {t} /\ lastCompleted'.turn = t
        BY <4>1 DEF Restrict, Outcome
      <4>3. EndIsBridged'
        BY <3>1, <4>1, <4>2 DEF EndIsBridged
      <4>4. \A u \in Turns : turn'[u] = "idle" => req'[TurnRequest(u)] = "unused" /\ said'[u] = {}
        BY <2>1, <3>1 DEF LateInv, RequestsStand, Spoken, Known
      <4>5. \A w \in Waiters : wait'[w].pc = "idle" => wait'[w].out.kind # "gone"
        BY <2>2 DEF LateInv, IdleWaitsStand
      <4>6. lastCompleted'.kind # "gone"
        BY <4>1 DEF Outcome, Statuses
      <4> QED
        BY <2>1, <2>3, <3>1, <4>3, <4>4, <4>5, <4>6 DEF LateInv, RequestsStand
    <3> QED
      BY <3>2, <3>3
  <2> QED
    BY <2>4, <2>5
<1> QED
  BY <1>1, <1>2, <1>3

LEMMA LateFromStart ==
    ASSUME SessionInit
    PROVE  LateInv
<1>1. req = [r \in SessionRequests |-> "unused"]
  BY DEF SessionInit, T!TransportInit
<1> QED
  BY <1>1, RequestsAreApart DEF SessionInit, LateInv, RecoveryType, T!States, EndIsBridged, None, Outcome

\* A wait that comes after its turn ended is answered by the bridge: only in a session that
\* has ended or been restarted, or when another turn has been started since, is it told that
\* the turn is no longer active. For every order of the response, the notifications and
\* the wait, and for callers that overlap their calls.
THEOREM LateWaitsAreAnswered == SessionSpec => LateWaitIsAnswered
<1>1. SessionInit => EarnedInv /\ LateInv
  BY EarnedFromStart, LateFromStart
<1>2. (EarnedInv /\ LateInv) /\ [SessionNext]_sessionVars => (EarnedInv /\ LateInv)'
  BY EarnedStep, LateStep
<1>3. ASSUME EarnedInv, LateInv, [SessionNext]_sessionVars, NEW w \in Waiters,
             wait[w].pc = "idle", wait'[w].out.kind = "gone", ~disconnected, recovery.count = 0
      PROVE  \E u \in Turns \ {wait'[w].turn} : turn[u] # "idle"
  <2>1. ~IdleWaitsStand(wait')
    BY <1>3 DEF LateInv, IdleWaitsStand
  <2>2. PICK v \in Waiters, t \in Turns : WaitCall(v, t)
    BY <1>3, <2>1, WaitsOfEveryStep
  <2>3. v = w
    BY <1>3, <2>2, WaitsHaveTheirType DEF WaitCall, LateInv
  <2>4. wait'[w].turn = t /\ wait'[w].out = AnswerNow(t) /\ turn[t] = "returned"
    BY <1>3, <2>2, <2>3, WaitsHaveTheirType DEF WaitCall
  <2>5. t \notin DOMAIN active /\ lastCompleted.turn # t
    <3>1. lastCompleted.turn = t => AnswerNow(t) = lastCompleted
      BY <1>3 DEF AnswerNow
    <3> QED
      BY <1>3, <2>4, <3>1 DEF AnswerNow, None, Outcome, LateInv
  <2> QED
    BY <1>3, <2>4, <2>5 DEF LateInv, EndIsBridged
<1>4. (EarnedInv /\ LateInv) /\ [SessionNext]_sessionVars =>
        [\A w \in Waiters :
           /\ wait[w].pc = "idle" /\ wait'[w].out.kind = "gone"
           /\ ~disconnected /\ recovery.count = 0
           => \E u \in Turns \ {wait'[w].turn} : turn[u] # "idle"]_sessionVars
  BY <1>3
<1> QED
  BY <1>1, <1>2, <1>4, PTL DEF SessionSpec, LateWaitIsAnswered
================================================================================
