------------------------------ MODULE RpcPromise ------------------------------
(***************************************************************************)
(* What a caller of CodexAppServerTransport is promised, with no process,   *)
(* timer or JSON-RPC id in sight: a call that was made is settled at most   *)
(* once, only a connection that has not ended can answer it, and when the   *)
(* connection has ended no call is left open.                               *)
(***************************************************************************)
CONSTANT Requests

VARIABLES
    call,   \* call[r]: "none", "open", "resolved" or "rejected"
    up      \* the connection has not ended

rpcVars == <<call, up>>

RpcInit == /\ call = [r \in Requests |-> "none"]
           /\ up = TRUE

\* A call is made; on a connection that is going away it may fail at once.
Make(r) == /\ call[r] = "none"
           /\ \/ up /\ call' = [call EXCEPT ![r] = "open"]
              \/ call' = [call EXCEPT ![r] = "rejected"]
           /\ UNCHANGED up

\* The peer's answer: a result or an error.
Resolve(r) == /\ up
              /\ call[r] = "open"
              /\ call' = [call EXCEPT ![r] = "resolved"]
              /\ UNCHANGED up

\* Some open calls fail, whatever the cause; the connection goes on or not.
Fail(R) == /\ \A r \in R : call[r] = "open"
           /\ call' = [r \in Requests |-> IF r \in R THEN "rejected" ELSE call[r]]
           /\ UNCHANGED up

\* The connection ends, and every call still open ends with it.
End == /\ up
       /\ up' = FALSE
       /\ call' = [r \in Requests |-> IF call[r] = "open" THEN "rejected" ELSE call[r]]

RpcNext == \/ \E r \in Requests : Make(r) \/ Resolve(r)
           \/ \E R \in SUBSET Requests : Fail(R)
           \/ End

RpcSpec == RpcInit /\ [][RpcNext]_rpcVars
===============================================================================
