------------------------------- MODULE CallGraph -------------------------------
(***************************************************************************)
(* The component call graph of a profile and its three readers.  compile()  *)
(* walks it from every mount (core/src/compile.rs); a dispatcher walks it   *)
(* again from the roots it was asked for, since it does not trust that the  *)
(* IR it was handed came from compile(): resolveComponentClosure            *)
(* (claude-agent-sdk/src/closure.ts) and prepareComponentInvocation         *)
(* (codex-local/src/component_invocation.ts).                               *)
(*                                                                          *)
(* The recursion of a walk is its stack.  A callee is found by its id; the  *)
(* step and the alias that name it are left out.  Mounts and calls are      *)
(* walked in any order, which stands for every order of declaration.        *)
(***************************************************************************)
EXTENDS Naturals, Sequences, FiniteSets

CONSTANTS
    Ids,        \* what a call may name
    Mounted,    \* the components of the profile
    MaxCalls    \* bound: the components one component calls

ASSUME GraphAssumption == Mounted \subseteq Ids /\ IsFiniteSet(Mounted) /\ MaxCalls \in Nat

VARIABLES
    calls,      \* calls[v]: the ids the steps of v may call
    reader,     \* "none", "compile", "sdk" or "codex"
    requested,  \* the roots it starts from
    roots,      \* those it has not walked from yet
    stack,      \* the nodes being visited, each called by the one before it
    todo,       \* todo[v]: the callees a visit of v has not looked at
    left,       \* the nodes whose visit has ended
    closure,    \* the nodes visited from any root
    verdict, cycle

readVars == <<reader, requested, roots, stack, todo, left, closure, verdict, cycle>>
graphVars == <<calls, readVars>>

SetOf(s) == {s[i] : i \in DOMAIN s}
Top == stack[Len(stack)]
Pop == SubSeq(stack, 1, Len(stack) - 1)

Unread ==
    /\ reader = "none" /\ verdict = "none"
    /\ requested = {} /\ roots = {} /\ closure = {}
    /\ stack = <<>> /\ left = {} /\ cycle = <<>>
    /\ todo = [v \in Mounted |-> {}]

GraphInit == calls \in [Mounted -> {C \in SUBSET Ids : Cardinality(C) <= MaxCalls}] /\ Unread
GraphIdle == calls = [v \in Mounted |-> {}] /\ Unread

-------------------------------------------------------------------------------
(* A reader begins.                                                          *)

Begin(who, R) ==
    /\ reader = "none"
    /\ reader' = who /\ requested' = R /\ roots' = R
    /\ verdict' = "reading"
    /\ UNCHANGED <<calls, stack, todo, left, closure, cycle>>

\* check_component_composition looks at every declaration before it walks.
BadDeclaration == \E v \in Mounted : v \in calls[v] \/ ~(calls[v] \subseteq Mounted)

Compile == ~BadDeclaration /\ Begin("compile", Mounted)

CompileRefuses ==
    /\ BadDeclaration
    /\ reader = "none"
    /\ reader' = "compile" /\ verdict' = "declaration"
    /\ UNCHANGED <<calls, requested, roots, stack, todo, left, closure, cycle>>

\* The roots exist and are entry points.
Resolve(R) == Begin("sdk", R)
PrepareInvocation(root) == Begin("codex", {root})

-------------------------------------------------------------------------------
(* The walk.                                                                 *)

Reading == verdict = "reading"

\* Mutant: an ended and an active visit are not told apart, and never a cycle.
NeverCloses(c) == FALSE

Closes(c) == c \in SetOf(stack)
Visited(c) == c \in SetOf(stack) \cup left

\* Mutant: a visit looks at its first callee only.
NothingElse(v, c) == {}

Rest(v, c) == todo[v] \ {c}

\* The sdk forgets its visits with every root; the others go past a visited one.
Root(r) ==
    /\ Reading /\ stack = <<>> /\ r \in roots
    /\ roots' = roots \ {r}
    /\ IF reader # "sdk" /\ Visited(r) THEN UNCHANGED <<stack, todo, left, closure>>
       ELSE /\ stack' = <<r>>
            /\ todo' = [todo EXCEPT ![r] = calls[r]]
            /\ left' = IF reader = "sdk" THEN {} ELSE left
            /\ closure' = closure \cup {r}
    /\ UNCHANGED <<calls, reader, requested, verdict, cycle>>

\* The visit on top of the stack looks at its callee c.
Looks(c) == Reading /\ stack # <<>> /\ c \in todo[Top]

Enter(c) ==
    /\ Looks(c) /\ c \in Mounted /\ ~Closes(c) /\ ~Visited(c)
    /\ stack' = Append(stack, c)
    /\ todo' = [todo EXCEPT ![Top] = Rest(Top, c), ![c] = calls[c]]
    /\ closure' = closure \cup {c}
    /\ UNCHANGED <<calls, reader, requested, roots, left, verdict, cycle>>

Pass(c) ==
    /\ Looks(c) /\ ~Closes(c) /\ Visited(c)
    /\ todo' = [todo EXCEPT ![Top] = Rest(Top, c)]
    /\ UNCHANGED <<calls, reader, requested, roots, stack, left, closure, verdict, cycle>>

CycleFrom(i) == Append(SubSeq(stack, i, Len(stack)), stack[i])

\* The sdk words a component that calls itself apart from a longer cycle.
ReportCycle(c) ==
    /\ Looks(c) /\ Closes(c)
    /\ \E i \in DOMAIN stack : stack[i] = c /\ cycle' = CycleFrom(i)
    /\ verdict' = "cycle"
    /\ UNCHANGED <<calls, reader, requested, roots, stack, todo, left, closure>>

ReportMissing(c) ==
    /\ Looks(c) /\ c \notin Mounted
    /\ verdict' = "missing"
    /\ UNCHANGED <<calls, reader, requested, roots, stack, todo, left, closure, cycle>>

Leave ==
    /\ Reading /\ stack # <<>> /\ todo[Top] = {}
    /\ stack' = Pop
    /\ left' = left \cup {Top}
    /\ UNCHANGED <<calls, reader, requested, roots, todo, closure, verdict, cycle>>

Accept ==
    /\ Reading /\ stack = <<>> /\ roots = {}
    /\ verdict' = "accepted"
    /\ UNCHANGED <<calls, reader, requested, roots, stack, todo, left, closure, cycle>>

GraphNext ==
    \/ Compile \/ CompileRefuses
    \/ \E R \in SUBSET Mounted : Resolve(R)
    \/ \E r \in Mounted : PrepareInvocation(r) \/ Root(r)
    \/ \E c \in Ids : Enter(c) \/ Pass(c) \/ ReportCycle(c) \/ ReportMissing(c)
    \/ Leave
    \/ Accept

GraphSpec == GraphInit /\ [][GraphNext]_graphVars

-------------------------------------------------------------------------------
(* Properties. *)

\* component-composition.md, section 4: "any directed cycle" is refused, so that a chain
\* of invocations always ends.  Whatever a reader accepts has, in every set of its
\* components, one that calls none of the set.
Acyclic(T) == \A S \in SUBSET T : S # {} => \E v \in S : calls[v] \cap S = {}

AcceptedIsAcyclic == verdict = "accepted" => Acyclic(closure)

\* A profile is refused for a component that calls itself or one that is not mounted, or
\* for the cycle that is reported, "one complete closed path": every component of it calls
\* the next, only the last is named twice.  "A diamond and shared leaves are valid".
RefusedOnlyForCause ==
    /\ verdict = "declaration" => BadDeclaration
    /\ verdict = "missing" => BadDeclaration
    /\ verdict = "cycle" =>
         /\ Len(cycle) >= 2 /\ cycle[Len(cycle)] = cycle[1]
         /\ \A i \in 1 .. Len(cycle) - 1 : cycle[i] \in Mounted /\ cycle[i + 1] \in calls[cycle[i]]
         /\ \A i, j \in 1 .. Len(cycle) - 1 : cycle[i] = cycle[j] => i = j

\* Neither verdict is given without what it stands for.
VerdictIsDeserved == AcceptedIsAcyclic /\ RefusedOnlyForCause

\* closure.ts: "Resolve exactly the requested roots and their transitive callees".  The
\* closure is the least set that has the roots and the callees of each of its members.
ClosedUnderCalls(T) == \A v \in T : calls[v] \subseteq T

ClosureIsReach ==
    verdict = "accepted" =>
        /\ requested \subseteq closure /\ closure \subseteq Mounted
        /\ ClosedUnderCalls(closure)
        /\ \A T \in SUBSET Mounted : requested \subseteq T /\ ClosedUnderCalls(T) => closure \subseteq T

-------------------------------------------------------------------------------
(* The invariant the theorems rest on.                                       *)

GraphTypeOK ==
    /\ calls \in [Mounted -> SUBSET Ids]
    /\ reader \in {"none", "compile", "sdk", "codex"}
    /\ verdict \in {"none", "reading", "accepted", "declaration", "missing", "cycle"}
    /\ requested \subseteq Mounted /\ roots \subseteq requested
    /\ stack \in Seq(Mounted) /\ left \subseteq Mounted /\ closure \subseteq Mounted
    /\ todo \in [Mounted -> SUBSET Ids]

\* The stack is a path of calls without a repetition.
StackIsAPath ==
    /\ \A i \in 1 .. Len(stack) - 1 : stack[i + 1] \in calls[stack[i]]
    /\ \A i, j \in DOMAIN stack : stack[i] = stack[j] => i = j

\* A visit has still to look at a callee, or is inside it, or has it behind.
CalleesAccounted ==
    /\ \A v \in Mounted : todo[v] \subseteq calls[v]
    /\ \A i \in DOMAIN stack : \A c \in calls[stack[i]] :
         c \in todo[stack[i]] \/ c \in left \/ (i < Len(stack) /\ c = stack[i + 1])

Sound(T) == ClosedUnderCalls(T) /\ Acyclic(T)

\* What this root's walk and the walks of earlier roots have left is sound.
LeftIsSound ==
    /\ Sound(left)
    /\ left \cap SetOf(stack) = {}
    /\ \E T \in SUBSET Mounted : Sound(T) /\ closure = T \cup left \cup SetOf(stack)

ClosureIsNeeded ==
    /\ reader = "none" => verdict = "none" /\ closure = {}
    /\ requested \ roots \subseteq closure
    /\ \A T \in SUBSET Mounted : requested \subseteq T /\ ClosedUnderCalls(T) => closure \subseteq T

AcceptsAtTheEnd == verdict = "accepted" => stack = <<>> /\ roots = {}

GraphInv ==
    /\ GraphTypeOK /\ StackIsAPath /\ CalleesAccounted /\ LeftIsSound
    /\ ClosureIsNeeded /\ AcceptsAtTheEnd /\ RefusedOnlyForCause
================================================================================
