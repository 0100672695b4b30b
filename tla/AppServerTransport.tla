-------------------------- MODULE AppServerTransport --------------------------
(***************************************************************************)
(* CodexAppServerTransport (dispatcher/codex-local/src/                     *)
(* app_server_transport.ts): JSON-RPC over the pipes of one child process.  *)
(*                                                                          *)
(* One value of this state is one transport object.  A request id is used   *)
(* once (nextId only grows), so the ids are the elements of Requests.  The  *)
(* text of a message is abstracted to what onLine tells apart: an answer to *)
(* a pending id, an answer to an id that is not pending, a notification its *)
(* handler accepts or throws on, and output that is no JSON-RPC at all.     *)
(***************************************************************************)
CONSTANT Requests

VARIABLES
    phase,      \* "open"; "closing": close() has begun; "closed": the child's streams ended
    req,        \* req[r]: the life of one request, see States
    stdinUp,    \* the child still reads its stdin
    killed,     \* the kill timer of close() has sent SIGKILL
    told,       \* onDisconnect's first call: "nothing", "disconnected" or "protocol"
    ownerClosed \* history: the owner called close() itself

transportVars == <<phase, req, stdinUp, killed, told, ownerClosed>>

Phases == {"open", "closing", "closed"}

\* "zombie": the promise was rejected because write() threw in its executor, but
\* the pending entry and its timer, made just before, are still there; "dropped":
\* that timer has fired.
States == {"unused", "pending", "zombie", "resolved", "rejected", "timedout", "dropped"}

Told == {"nothing", "disconnected", "protocol"}

\* Mutant: an entry only made when the write fails.
ListedTooLate == {r \in Requests : req[r] = "zombie"}

\* The entries of the pending map: a promise and an armed timer each.
Listed == {r \in Requests : req[r] \in {"pending", "zombie"}}

TransportInit ==
    /\ phase = "open"
    /\ req = [r \in Requests |-> "unused"]
    /\ stdinUp = TRUE
    /\ killed = FALSE
    /\ told = "nothing"
    /\ ownerClosed = FALSE

-------------------------------------------------------------------------------
(* Helpers, each one a private method. *)

\* rejectPending: every entry is rejected and the map cleared.
RejectPending == [r \in Requests |-> IF r \in Listed THEN "rejected" ELSE req[r]]

\* close(): the first call of it sends SIGTERM and arms the kill timer.
Closing == IF phase = "open" THEN "closing" ELSE phase

\* Mutant: a crash is not passed on.
TellProtocolOnly(what) == IF told = "nothing" /\ what = "protocol" THEN what ELSE told

\* onDisconnect is called, with an error or without.
Tell(what) == IF told = "nothing" THEN what ELSE told

ProtocolFailure ==
    /\ req' = RejectPending
    /\ told' = Tell("protocol")
    /\ phase' = Closing
    /\ UNCHANGED <<stdinUp, killed, ownerClosed>>

-------------------------------------------------------------------------------
(* The owner's calls. *)

\* Mutant: request() does not look at closed and closing.
NeverRefused == FALSE

Refused == phase # "open"

\* request(): refused once close() has begun; else entered with its timer and
\* written.  When the child no longer reads, the write throws after the entry
\* was made.
Request(r) ==
    /\ req[r] = "unused"
    /\ req' = [req EXCEPT ![r] = IF Refused THEN "rejected"
                                 ELSE IF stdinUp THEN "pending" ELSE "zombie"]
    /\ UNCHANGED <<phase, stdinUp, killed, told, ownerClosed>>

Close ==
    /\ phase = "open"
    /\ phase' = "closing"
    /\ ownerClosed' = TRUE
    /\ UNCHANGED <<req, stdinUp, killed, told>>

-------------------------------------------------------------------------------
(* Timers. *)

\* The timer of a request deletes the entry, rejects and closes.
RequestTimeout(r) ==
    /\ r \in Listed
    /\ req' = [req EXCEPT ![r] = IF req[r] = "pending" THEN "timedout" ELSE "dropped"]
    /\ phase' = Closing
    /\ UNCHANGED <<stdinUp, killed, told, ownerClosed>>

\* close()'s grace period is over: SIGKILL.
KillTimer ==
    /\ phase = "closing"
    /\ ~killed
    /\ killed' = TRUE
    /\ UNCHANGED <<phase, req, stdinUp, told, ownerClosed>>

-------------------------------------------------------------------------------
(* Lines of the child.  They are read until its streams end, so also while   *)
(* the transport is closing.                                                 *)

Reading == phase # "closed"

\* A response whose id is pending: a result resolves, an error rejects.
Answer(r, ok) ==
    /\ Reading
    /\ req[r] = "pending"
    /\ req' = [req EXCEPT ![r] = IF ok THEN "resolved" ELSE "rejected"]
    /\ UNCHANGED <<phase, stdinUp, killed, told, ownerClosed>>

\* The answer to a request whose timer already fired: an id onLine does not
\* know.  The child answers at most once; a second answer is in BadLine.
LateAnswer(r) ==
    /\ Reading
    /\ req[r] = "timedout"
    /\ ProtocolFailure

\* Output that is no JSON-RPC message, and a notification its handler throws on.
BadLine == Reading /\ ProtocolFailure

-------------------------------------------------------------------------------
(* The child process. *)

\* It stops reading its stdin, on the way to its end.
StdinLost ==
    /\ Reading
    /\ stdinUp
    /\ stdinUp' = FALSE
    /\ UNCHANGED <<phase, req, killed, told, ownerClosed>>

\* The 'error' event: the process could not be started (or signalled).
ChildError ==
    /\ Reading
    /\ req' = RejectPending
    /\ UNCHANGED <<phase, stdinUp, killed, told, ownerClosed>>

\* The 'close' event: by a crash, after SIGTERM, or after SIGKILL.
ChildExit ==
    /\ phase # "closed"
    /\ phase' = "closed"
    /\ req' = RejectPending
    /\ told' = IF phase = "open" THEN Tell("disconnected") ELSE told
    /\ UNCHANGED <<stdinUp, killed, ownerClosed>>

-------------------------------------------------------------------------------
TransportNext ==
    \/ \E r \in Requests :
         \/ Request(r)
         \/ RequestTimeout(r)
         \/ \E ok \in BOOLEAN : Answer(r, ok)
         \/ LateAnswer(r)
    \/ Close
    \/ KillTimer
    \/ BadLine
    \/ StdinLost
    \/ ChildError
    \/ ChildExit

\* Node runs an armed timer, and the kernel ends a process that got SIGKILL.
\* Nothing makes the child answer, or obey SIGTERM.
TransportFairness ==
    /\ \A r \in Requests : WF_transportVars(RequestTimeout(r))
    /\ WF_transportVars(KillTimer)
    /\ WF_transportVars(killed /\ ChildExit)

TransportSpec == TransportInit /\ [][TransportNext]_transportVars
FairTransportSpec == TransportSpec /\ TransportFairness

-------------------------------------------------------------------------------
(* Properties. *)

TypeOK ==
    /\ phase \in Phases
    /\ req \in [Requests -> States]
    /\ stdinUp \in BOOLEAN
    /\ killed \in BOOLEAN
    /\ told \in Told
    /\ ownerClosed \in BOOLEAN

\* A transport that ends without onDisconnect having been called was closed by
\* its owner, or a request ran into its timer (the one close() nobody else is
\* told of).  A crash or a protocol failure never passes in silence.
SilentEndHasACause ==
    phase # "open" /\ told = "nothing" /\ ~ownerClosed
        => \E r \in Requests : req[r] \in {"timedout", "dropped"}

\* Nothing the app-server says can settle a request twice or change how it was
\* settled, be it an answer after the timer or after a protocol failure.
SettledIsFinal ==
    [][\A r \in Requests :
         req[r] \in {"resolved", "rejected", "timedout", "dropped"} => req'[r] = req[r]]_transportVars

\* When the streams have ended no promise is left open.
NothingOutlivesTheChild == phase = "closed" => Listed = {}

\* The end of a child is accounted for: to the owner, and to everybody who waits.
ChildEndIsAccounted == SilentEndHasACause /\ NothingOutlivesTheChild

\* Every request settles, and every close() ends with the process gone, even
\* when the child answers nothing and ignores SIGTERM.
EveryRequestSettles == \A r \in Requests : req[r] = "pending" ~> req[r] # "pending"
CloseCompletes == phase = "closing" ~> phase = "closed"
EverythingSettles == EveryRequestSettles /\ CloseCompletes

\* The transport implements the promise made to its callers.
Rpc == INSTANCE RpcPromise WITH
           call <- [r \in Requests |->
                      CASE req[r] = "unused" -> "none"
                        [] req[r] = "pending" -> "open"
                        [] req[r] = "resolved" -> "resolved"
                        [] OTHER -> "rejected"],
           up <- (phase # "closed")
ImplementsRpcPromise == Rpc!RpcSpec
===============================================================================
