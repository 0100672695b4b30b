------------------------ MODULE OrchestrateAnyServer ------------------------
(***************************************************************************)
(* A turn against any app-server at all: it sends any notification, in any *)
(* order, and answers a read of a child's thread with anything.  The host  *)
(* is to fail closed.                                                      *)
(***************************************************************************)
EXTENDS OrchestrateTurn, TLC

CONSTANT Receipts  \* the steps the parent may name as final

Events ==
    [kind : {"turn_started", "error"}]
    \cup [kind : {"start", "done"}, child : Threads]
    \cup [kind : {"answer"}, child : Threads, step : 0..Steps, ok : BOOLEAN, value : Values]
    \cup [kind : {"item_started"}, id : Items, tool : {"spawn", "wait"}]
    \cup [kind : {"item_completed"}, id : Items, tool : {"spawn", "wait"}, ok : BOOLEAN, child : Threads]
    \cup [kind : {"message"}, step : Receipts]
    \cup [kind : {"turn_completed"}, ok : BOOLEAN]

Threadlike == [step : 0..Steps, ok : BOOLEAN, value : Values, sound : BOOLEAN]

\* A broken turn closes the transport.
ServerSays(e) == ~turn.broken /\ Notify(e)

Next ==
    \/ \E e \in Events : ServerSays(e)
    \/ \E child \in Threadlike : ReadChild(child)
    \/ Respond \/ Refuse \/ Continue \/ Reject \/ ReadFails

Spec == HostInit /\ [][Next]_hostVars

\* Threads are only compared: a model checker may take one for another.
Interchangeable == Permutations(Threads)
=============================================================================
