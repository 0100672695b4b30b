------------------------- MODULE MCComponentInvocation -------------------------
(* ComponentInvocation on small call graphs. *)
EXTENDS ComponentInvocation, TLC

CONSTANTS caller, middle, leaf, i1, i2

Three == {caller, middle, leaf}
TwoCalls == {i1, i2}

\* The caller has a step and its repair; each component has a call to make.
Steps == (caller :> 2) @@ (middle :> 1) @@ (leaf :> 1)
Diamond == {<<caller, 1, middle>>, <<caller, 1, leaf>>, <<middle, 1, leaf>>}
Repaired == {<<caller, 1>>}
Repair == {<<caller, 2>>}
===============================================================================
