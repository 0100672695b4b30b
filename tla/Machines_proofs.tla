---------------------------- MODULE Machines_proofs ----------------------------
(***************************************************************************)
(* What the machines that the commands of `warble` run keep.  What `compile`   *)
(* accepts, for any profile, call graph and layer: the reading of a call graph *)
(* first, by the compiler and by those who do not trust it, then a compilation *)
(* and the host that admits it.  Then the three directories that processes     *)
(* share without a lock, for any number of processes, files and mishaps: the   *)
(* cache of the Hub, the new output of an author build, and the output of a    *)
(* dispatch.                                                                 *)
(***************************************************************************)
EXTENDS CallGraph, CompileAndAdmit, HubCache, AuthorBuild, AssetDelivery,
        FiniteSetTheorems, NaturalsInduction, WellFoundedInduction, TLAPS

-------------------------------------------------------------------------------
(* The call graph: sound sets of components.                                   *)

\* Two sets that are closed and acyclic are so together: a set of their components
\* has one that calls none of the set in either part, and a part keeps its callees.
LEMMA SoundUnion ==
    ASSUME NEW T, NEW U, Sound(T), Sound(U)
    PROVE  Sound(T \cup U)
<1>1. ClosedUnderCalls(T \cup U)
  BY DEF Sound, ClosedUnderCalls
<1>2. ASSUME NEW S \in SUBSET (T \cup U), S # {}
      PROVE  \E v \in S : calls[v] \cap S = {}
  <2>1. CASE S \cap T # {}
    <3>1. PICK v \in S \cap T : calls[v] \cap (S \cap T) = {}
      BY <2>1 DEF Sound, Acyclic
    <3> QED
      BY <3>1 DEF Sound, ClosedUnderCalls
  <2>2. CASE S \cap T = {}
    <3>1. S \in SUBSET U
      BY <1>2, <2>2
    <3> QED
      BY <3>1, <1>2 DEF Sound, Acyclic
  <2> QED
    BY <2>1, <2>2
<1> QED
  BY <1>1, <1>2 DEF Sound, Acyclic

\* A component whose callees are all in a sound set joins it.
LEMMA SoundWithOneMore ==
    ASSUME NEW T, NEW v, Sound(T), v \notin T, calls[v] \subseteq T
    PROVE  Sound(T \cup {v})
<1>1. ClosedUnderCalls(T \cup {v})
  BY DEF Sound, ClosedUnderCalls
<1>2. ASSUME NEW S \in SUBSET (T \cup {v}), S # {}
      PROVE  \E w \in S : calls[w] \cap S = {}
  <2>1. CASE S \cap T # {}
    <3>1. PICK w \in S \cap T : calls[w] \cap (S \cap T) = {}
      BY <2>1 DEF Sound, Acyclic
    <3>2. calls[w] \subseteq T
      BY <3>1 DEF Sound, ClosedUnderCalls
    <3> QED
      BY <3>1, <3>2
  <2>2. CASE S \cap T = {}
    <3>1. S = {v}
      BY <1>2, <2>2
    <3> QED
      BY <3>1
  <2> QED
    BY <2>1, <2>2
<1> QED
  BY <1>1, <1>2 DEF Sound, Acyclic

\* Soundness looks only at the calls, which no step changes.
LEMMA SoundIsKept ==
    ASSUME NEW T, Sound(T), calls' = calls
    PROVE  Sound(T)'
BY DEF Sound, ClosedUnderCalls, Acyclic

\* The empty set is sound.
LEMMA NothingIsSound == Sound({})
BY DEF Sound, ClosedUnderCalls, Acyclic
-------------------------------------------------------------------------------
(* The stack.                                                                *)

\* The top of a stack that is not empty, and the stack without it.
LEMMA TopAndPop ==
    ASSUME GraphTypeOK, stack # <<>>
    PROVE  /\ Len(stack) \in Nat \ {0} /\ Top \in Mounted /\ Top = stack[Len(stack)]
           /\ DOMAIN stack = 1 .. Len(stack)
           /\ Pop \in Seq(Mounted) /\ Len(Pop) = Len(stack) - 1
           /\ \A i \in 1 .. Len(stack) - 1 : Pop[i] = stack[i]
<1>1. stack \in Seq(Mounted)
  BY DEF GraphTypeOK
<1>2. Len(stack) \in Nat \ {0} /\ DOMAIN stack = 1 .. Len(stack)
  BY <1>1
<1>3. Top = stack[Len(stack)] /\ Top \in Mounted
  BY <1>1, <1>2 DEF Top
<1>4. Pop = SubSeq(stack, 1, Len(stack) - 1)
  BY DEF Pop
<1>5. Pop \in Seq(Mounted)
  BY <1>1, <1>2, <1>4
<1>6. Len(Pop) = Len(stack) - 1 /\ \A i \in 1 .. Len(stack) - 1 : Pop[i] = stack[i]
  BY <1>1, <1>2, <1>4
<1> QED
  BY <1>2, <1>3, <1>5, <1>6

\* The stack with one more node.
LEMMA PushFacts ==
    ASSUME GraphTypeOK, NEW c \in Mounted
    PROVE  /\ Append(stack, c) \in Seq(Mounted) /\ Len(Append(stack, c)) = Len(stack) + 1
           /\ DOMAIN stack = 1 .. Len(stack) /\ Len(stack) \in Nat
           /\ DOMAIN Append(stack, c) = 1 .. Len(stack) + 1
           /\ \A i \in 1 .. Len(stack) : Append(stack, c)[i] = stack[i]
           /\ Append(stack, c)[Len(stack) + 1] = c
BY DEF GraphTypeOK

\* The nodes of a stack after a push.
LEMMA PushSet ==
    ASSUME GraphTypeOK, NEW c \in Mounted
    PROVE  SetOf(Append(stack, c)) = SetOf(stack) \cup {c}
BY PushFacts DEF SetOf

\* The nodes of a stack after a pop, when no node is in it twice.
LEMMA PopSet ==
    ASSUME GraphTypeOK, StackIsAPath, stack # <<>>
    PROVE  /\ SetOf(stack) = SetOf(Pop) \cup {Top}
           /\ Top \notin SetOf(Pop)
<1>1. DOMAIN Pop = 1 .. Len(stack) - 1
  BY TopAndPop
<1> QED
  BY <1>1, TopAndPop DEF SetOf, StackIsAPath

-------------------------------------------------------------------------------
(* The invariant holds at first, and each action keeps it.                   *)

LEMMA InitHolds == GraphInit => GraphInv
<1> SUFFICES ASSUME GraphInit PROVE GraphInv
  OBVIOUS
<1>1. SetOf(stack) = {}
  BY DEF GraphInit, Unread, SetOf
<1>2. Sound(left)
  BY NothingIsSound DEF GraphInit, Unread
<1>3. \E T \in SUBSET Mounted : Sound(T) /\ closure = T \cup left \cup SetOf(stack)
  <2>1. closure = {} \cup left \cup SetOf(stack)
    BY <1>1 DEF GraphInit, Unread
  <2> QED
    BY <2>1, NothingIsSound
<1>4. GraphTypeOK /\ StackIsAPath /\ CalleesAccounted
  BY DEF GraphInit, Unread, GraphTypeOK, StackIsAPath, CalleesAccounted
<1>5. ClosureIsNeeded /\ AcceptsAtTheEnd /\ RefusedOnlyForCause
  BY DEF GraphInit, Unread, ClosureIsNeeded, AcceptsAtTheEnd, RefusedOnlyForCause
<1> QED
  BY <1>1, <1>2, <1>3, <1>4, <1>5 DEF GraphInv, LeftIsSound

\* A step that leaves the walk alone keeps what is said of the walk.
LEMMA WalkIsKept ==
    ASSUME StackIsAPath, CalleesAccounted, LeftIsSound,
           UNCHANGED <<calls, stack, todo, left, closure>>
    PROVE  StackIsAPath' /\ CalleesAccounted' /\ LeftIsSound'
<1>1. StackIsAPath' /\ CalleesAccounted'
  BY DEF StackIsAPath, CalleesAccounted
<1>2. Sound(left)'
  BY DEF LeftIsSound, Sound, ClosedUnderCalls, Acyclic
<1>3. SetOf(stack)' = SetOf(stack)
  BY DEF SetOf
<1>4. PICK T \in SUBSET Mounted : Sound(T) /\ closure = T \cup left \cup SetOf(stack)
  BY DEF LeftIsSound
<1>5. Sound(T)'
  BY <1>4, SoundIsKept
<1> QED
  BY <1>1, <1>2, <1>3, <1>4, <1>5 DEF LeftIsSound

\* What is reported stays justified while the graph and the report stay.
LEMMA CauseIsKept ==
    ASSUME RefusedOnlyForCause, UNCHANGED <<calls, verdict, cycle>>
    PROVE  RefusedOnlyForCause'
BY DEF RefusedOnlyForCause, BadDeclaration

\* Nothing is reported while a reader reads.
LEMMA NoReportYet ==
    ASSUME verdict' = "reading"
    PROVE  RefusedOnlyForCause' /\ AcceptsAtTheEnd'
BY DEF RefusedOnlyForCause, AcceptsAtTheEnd

LEMMA BeginKeeps ==
    ASSUME GraphInv, NEW who \in {"compile", "sdk", "codex"}, NEW R \in SUBSET Mounted,
           Begin(who, R)
    PROVE  GraphInv'
<1>1. GraphTypeOK'
  BY DEF GraphInv, GraphTypeOK, Begin
<1>2. StackIsAPath' /\ CalleesAccounted' /\ LeftIsSound'
  BY WalkIsKept DEF GraphInv, Begin
<1>3. ClosureIsNeeded'
  BY DEF GraphInv, ClosureIsNeeded, Begin
<1>4. RefusedOnlyForCause' /\ AcceptsAtTheEnd'
  BY NoReportYet DEF Begin
<1> QED
  BY <1>1, <1>2, <1>3, <1>4 DEF GraphInv

LEMMA CompileRefusesKeeps == GraphInv /\ CompileRefuses => GraphInv'
<1> SUFFICES ASSUME GraphInv, CompileRefuses PROVE GraphInv'
  OBVIOUS
<1>1. GraphTypeOK'
  BY DEF GraphInv, GraphTypeOK, CompileRefuses
<1>2. StackIsAPath' /\ CalleesAccounted' /\ LeftIsSound'
  BY WalkIsKept DEF GraphInv, CompileRefuses
<1>3. ClosureIsNeeded' /\ AcceptsAtTheEnd'
  BY DEF GraphInv, ClosureIsNeeded, AcceptsAtTheEnd, CompileRefuses, ClosedUnderCalls
<1>4. RefusedOnlyForCause'
  BY DEF RefusedOnlyForCause, CompileRefuses, BadDeclaration
<1> QED
  BY <1>1, <1>2, <1>3, <1>4 DEF GraphInv

LEMMA RootKeeps == ASSUME GraphInv, NEW r, Root(r) PROVE GraphInv'
<1> USE DEF Root, Reading
<1>1. /\ GraphTypeOK /\ r \in Mounted /\ r \in requested
      /\ stack = <<>> /\ Len(stack) = 0 /\ SetOf(stack) = {}
  BY DEF GraphInv, GraphTypeOK, SetOf
<1>2. RefusedOnlyForCause' /\ AcceptsAtTheEnd'
  BY NoReportYet
<1>3. CASE reader # "sdk" /\ Visited(r)
  <2>1. UNCHANGED <<calls, stack, todo, left, closure>>
    BY <1>3
  <2>2. GraphTypeOK'
    BY <1>1, <2>1 DEF GraphTypeOK
  <2>3. StackIsAPath' /\ CalleesAccounted' /\ LeftIsSound'
    BY <2>1, WalkIsKept DEF GraphInv
  <2>4. r \in closure
    BY <1>1, <1>3 DEF GraphInv, LeftIsSound, Visited
  <2>5. ClosureIsNeeded'
    BY <2>1, <2>4 DEF GraphInv, ClosureIsNeeded, ClosedUnderCalls
  <2> QED
    BY <1>2, <2>2, <2>3, <2>5 DEF GraphInv
<1>4. CASE ~(reader # "sdk" /\ Visited(r))
  <2>1. /\ stack' = <<r>> /\ todo' = [todo EXCEPT ![r] = calls[r]]
        /\ left' = IF reader = "sdk" THEN {} ELSE left
        /\ closure' = closure \cup {r} /\ calls' = calls
    BY <1>4
  <2>2. Len(stack') = 1 /\ DOMAIN stack' = {1} /\ stack'[1] = r /\ SetOf(stack)' = {r}
    BY <2>1 DEF SetOf
  <2>3. GraphTypeOK'
    BY <1>1, <2>1 DEF GraphTypeOK
  <2>4. StackIsAPath'
    BY <2>2 DEF StackIsAPath
  <2>5. CalleesAccounted'
    BY <1>1, <2>1, <2>2 DEF CalleesAccounted, GraphInv, GraphTypeOK
  <2>6. PICK T \in SUBSET Mounted : Sound(T) /\ closure = T \cup left
    BY <1>1 DEF GraphInv, LeftIsSound
  <2>7. LeftIsSound'
    <3>1. CASE reader = "sdk"
      <4>1. left' = {}
        BY <2>1, <3>1
      <4>2. Sound(left)'
        BY <4>1 DEF Sound, ClosedUnderCalls, Acyclic
      <4>3. Sound(T \cup left)
        BY <2>6, SoundUnion DEF GraphInv, LeftIsSound
      <4>4. PICK U : U = T \cup left
        OBVIOUS
      <4>5. Sound(U)'
        BY <2>1, <4>3, <4>4, SoundIsKept
      <4>6. U \in SUBSET Mounted /\ closure' = U \cup left' \cup SetOf(stack)'
        BY <1>1, <2>1, <2>2, <2>6, <4>1, <4>4 DEF GraphTypeOK
      <4> QED
        BY <4>1, <4>2, <4>5, <4>6 DEF LeftIsSound
    <3>2. CASE reader # "sdk"
      <4>1. left' = left /\ r \notin left
        BY <1>4, <2>1, <3>2 DEF Visited
      <4>2. Sound(left)'
        BY <2>1, <4>1 DEF GraphInv, LeftIsSound, Sound, ClosedUnderCalls, Acyclic
      <4>3. Sound(T)'
        BY <2>1, <2>6, SoundIsKept
      <4>4. closure' = T \cup left' \cup SetOf(stack)'
        BY <2>1, <2>2, <2>6, <4>1
      <4> QED
        BY <2>2, <4>1, <4>2, <4>3, <4>4 DEF LeftIsSound
    <3> QED
      BY <3>1, <3>2
  <2>8. ClosureIsNeeded'
    BY <1>1, <2>1 DEF GraphInv, ClosureIsNeeded, ClosedUnderCalls
  <2> QED
    BY <1>2, <2>3, <2>4, <2>5, <2>7, <2>8 DEF GraphInv
<1> QED
  BY <1>3, <1>4

\* What a visit that looks at a callee knows of it.
LEMMA LooksFacts ==
    ASSUME GraphInv, NEW c, Looks(c)
    PROVE  /\ c \in calls[Top] /\ Top \in Mounted /\ stack # <<>> /\ verdict = "reading"
           /\ Top \in SetOf(stack) /\ c \in Ids
<1>1. stack # <<>> /\ c \in todo[Top] /\ verdict = "reading"
  BY DEF Looks, Reading
<1>2. Top \in Mounted /\ Top = stack[Len(stack)] /\ Len(stack) \in 1 .. Len(stack)
      /\ DOMAIN stack = 1 .. Len(stack)
  BY <1>1, TopAndPop DEF GraphInv
<1>3. c \in calls[Top]
  BY <1>1, <1>2 DEF GraphInv, CalleesAccounted
<1> QED
  BY <1>1, <1>2, <1>3 DEF SetOf, GraphInv, GraphTypeOK

LEMMA EnterKeeps == ASSUME GraphInv, NEW c, Enter(c) PROVE GraphInv'
<1>1. /\ GraphTypeOK /\ Looks(c) /\ c \in Mounted /\ c \notin SetOf(stack) /\ c \notin left
      /\ stack' = Append(stack, c)
      /\ todo' = [todo EXCEPT ![Top] = Rest(Top, c), ![c] = calls[c]]
      /\ closure' = closure \cup {c}
      /\ UNCHANGED <<calls, reader, requested, roots, left, verdict>>
  BY DEF GraphInv, Enter, Closes, Visited
<1>2. /\ c \in calls[Top] /\ Top \in Mounted /\ stack # <<>> /\ verdict = "reading"
      /\ Top \in SetOf(stack) /\ Top = stack[Len(stack)]
  BY <1>1, LooksFacts, TopAndPop
<1>3. /\ Len(stack) \in Nat /\ DOMAIN stack = 1 .. Len(stack)
      /\ stack' \in Seq(Mounted) /\ Len(stack') = Len(stack) + 1
      /\ DOMAIN stack' = 1 .. Len(stack) + 1
      /\ \A i \in 1 .. Len(stack) : stack'[i] = stack[i]
      /\ stack'[Len(stack) + 1] = c
  BY <1>1, PushFacts
<1>4. SetOf(stack)' = SetOf(stack) \cup {c}
  BY <1>1, PushSet DEF SetOf
<1>5. \A i \in 1 .. Len(stack) : stack[i] # c
  BY <1>1, <1>3 DEF SetOf
<1>6. RefusedOnlyForCause' /\ AcceptsAtTheEnd'
  BY <1>1, <1>2, NoReportYet
<1>7. GraphTypeOK'
  BY <1>1, <1>3 DEF GraphTypeOK, Rest
<1>8. StackIsAPath'
  <2>1. \A i \in 1 .. Len(stack) : stack'[i + 1] \in calls[stack'[i]]
    BY <1>2, <1>3 DEF GraphInv, StackIsAPath
  <2>2. \A i, j \in 1 .. Len(stack) : stack'[i] = stack'[j] => i = j
    <3>1. \A i, j \in 1 .. Len(stack) : stack[i] = stack[j] => i = j
      BY <1>3 DEF GraphInv, StackIsAPath
    <3> QED
      BY <1>3, <3>1, Zenon
  <2>3. \A i \in 1 .. Len(stack) : stack'[i] # stack'[Len(stack) + 1]
    BY <1>3, <1>5, Zenon
  <2>4. \A i \in 1 .. Len(stack) + 1 : i \in 1 .. Len(stack) \/ i = Len(stack) + 1
    BY <1>3
  <2>5. \A i, j \in 1 .. Len(stack) + 1 : stack'[i] = stack'[j] => i = j
    BY <2>2, <2>3, <2>4, Zenon
  <2> QED
    BY <1>1, <1>3, <2>1, <2>5 DEF StackIsAPath
<1>9. CalleesAccounted'
  <2>1. \A v \in Mounted : todo'[v] \subseteq calls[v]
    BY <1>1, <1>2 DEF GraphInv, CalleesAccounted, GraphTypeOK, Rest
  <2>2. ASSUME NEW i \in 1 .. Len(stack) + 1, NEW d \in calls[stack'[i]]
        PROVE  d \in todo'[stack'[i]] \/ d \in left \/ (i < Len(stack) + 1 /\ d = stack'[i + 1])
    <3>1. CASE i = Len(stack) + 1
      <4>1. todo'[c] = calls[c]
        BY <1>1 DEF GraphTypeOK
      <4> QED
        BY <1>3, <2>2, <3>1, <4>1
    <3>2. CASE i = Len(stack)
      <4>1. stack'[i] = Top /\ stack'[i + 1] = c /\ Top # c
        BY <1>1, <1>2, <1>3, <3>2
      <4>2. todo'[Top] = todo[Top] \ {c}
        BY <1>1, <1>2, <4>1 DEF GraphTypeOK, Rest
      <4>3. d \in todo[Top] \/ d \in left
        BY <1>2, <1>3, <2>2, <3>2, <4>1 DEF GraphInv, CalleesAccounted
      <4> QED
        BY <1>3, <3>2, <4>1, <4>2, <4>3
    <3>3. CASE i \in 1 .. Len(stack) - 1
      <4>1. stack'[i] = stack[i] /\ stack'[i + 1] = stack[i + 1]
        BY <1>3, <3>3
      <4>2. stack[i] # Top /\ stack[i] # c
        BY <1>2, <1>3, <1>5, <3>3 DEF GraphInv, StackIsAPath
      <4>3. todo'[stack[i]] = todo[stack[i]]
        <5>1. stack[i] \in Mounted /\ todo \in [Mounted -> SUBSET Ids]
          BY <1>1, <1>3, <3>3 DEF GraphTypeOK
        <5> QED
          BY <1>1, <4>2, <5>1
      <4>4. d \in todo[stack[i]] \/ d \in left \/ d = stack[i + 1]
        BY <1>3, <2>2, <3>3, <4>1 DEF GraphInv, CalleesAccounted
      <4> QED
        BY <1>3, <3>3, <4>1, <4>3, <4>4
    <3> QED
      BY <1>3, <3>1, <3>2, <3>3
  <2>3. \A i \in DOMAIN stack' : \A d \in calls'[stack'[i]] :
          d \in todo'[stack'[i]] \/ d \in left' \/ (i < Len(stack') /\ d = stack'[i + 1])
    <3>1. /\ DOMAIN stack' = 1 .. Len(stack) + 1 /\ Len(stack') = Len(stack) + 1
          /\ calls' = calls /\ left' = left
      BY <1>1, <1>3
    <3> QED
      BY <2>2, <3>1, Zenon
  <2> QED
    BY <1>1, <2>1, <2>3 DEF CalleesAccounted
<1>10. LeftIsSound'
  <2>1. PICK T \in SUBSET Mounted : Sound(T) /\ closure = T \cup left \cup SetOf(stack)
    BY DEF GraphInv, LeftIsSound
  <2>2. Sound(T)'
    BY <1>1, <2>1, SoundIsKept
  <2>3. closure' = T \cup left' \cup SetOf(stack)'
    BY <1>1, <1>4, <2>1
  <2>4. Sound(left)'
    BY <1>1 DEF GraphInv, LeftIsSound, Sound, ClosedUnderCalls, Acyclic
  <2>5. left' \cap SetOf(stack)' = {}
    BY <1>1, <1>4 DEF GraphInv, LeftIsSound
  <2> QED
    BY <2>2, <2>3, <2>4, <2>5 DEF LeftIsSound
<1>11. ClosureIsNeeded'
  <2>1. Top \in closure
    BY <1>2 DEF GraphInv, LeftIsSound
  <2>2. reader # "none"
    BY <1>2 DEF GraphInv, ClosureIsNeeded
  <2>3. requested' \ roots' \subseteq closure'
    BY <1>1 DEF GraphInv, ClosureIsNeeded
  <2>4. \A T \in SUBSET Mounted : requested \subseteq T /\ ClosedUnderCalls(T) => closure' \subseteq T
    BY <1>1, <1>2, <2>1 DEF GraphInv, ClosureIsNeeded, ClosedUnderCalls
  <2> QED
    BY <1>1, <2>2, <2>3, <2>4 DEF ClosureIsNeeded, ClosedUnderCalls
<1> QED
  BY <1>6, <1>7, <1>8, <1>9, <1>10, <1>11 DEF GraphInv

LEMMA PassKeeps == ASSUME GraphInv, NEW c, Pass(c) PROVE GraphInv'
<1>1. /\ GraphTypeOK /\ Looks(c) /\ c \in left
      /\ todo' = [todo EXCEPT ![Top] = Rest(Top, c)]
      /\ UNCHANGED <<calls, reader, requested, roots, stack, left, closure, verdict>>
  BY DEF GraphInv, Pass, Closes, Visited
<1>2. Top \in Mounted /\ verdict = "reading"
  BY <1>1, LooksFacts
<1>3. GraphTypeOK'
  BY <1>1 DEF GraphTypeOK, Rest
<1>4. StackIsAPath'
  BY <1>1 DEF GraphInv, StackIsAPath
<1>5. \A v \in Mounted : todo'[v] \subseteq todo[v] /\ todo[v] \subseteq todo'[v] \cup {c}
  BY <1>1 DEF GraphTypeOK, Rest
<1>6. CalleesAccounted'
  <2>1. \A v \in Mounted : todo'[v] \subseteq calls[v]
    BY <1>5 DEF GraphInv, CalleesAccounted
  <2>2. \A i \in DOMAIN stack : stack[i] \in Mounted
    BY <1>1 DEF GraphTypeOK
  <2>3. \A i \in DOMAIN stack : \A d \in calls[stack[i]] :
          d \in todo'[stack[i]] \/ d \in left \/ (i < Len(stack) /\ d = stack[i + 1])
    BY <1>1, <1>5, <2>2 DEF GraphInv, CalleesAccounted
  <2> QED
    BY <1>1, <2>1, <2>3 DEF CalleesAccounted
<1>7. LeftIsSound'
  <2>1. PICK T \in SUBSET Mounted : Sound(T) /\ closure = T \cup left \cup SetOf(stack)
    BY DEF GraphInv, LeftIsSound
  <2>2. Sound(T)'
    BY <1>1, <2>1, SoundIsKept
  <2>3. Sound(left)' /\ SetOf(stack)' = SetOf(stack)
    BY <1>1 DEF GraphInv, LeftIsSound, Sound, ClosedUnderCalls, Acyclic, SetOf
  <2> QED
    BY <1>1, <2>1, <2>2, <2>3 DEF GraphInv, LeftIsSound
<1>8. ClosureIsNeeded'
  BY <1>1 DEF GraphInv, ClosureIsNeeded, ClosedUnderCalls
<1> QED
  BY <1>1, <1>2, <1>3, <1>4, <1>6, <1>7, <1>8, NoReportYet DEF GraphInv

\* A report changes the verdict alone.
LEMMA VerdictKeeps ==
    ASSUME GraphInv, verdict = "reading", verdict' \in {"cycle", "missing"},
           UNCHANGED <<calls, reader, requested, roots, stack, todo, left, closure>>
    PROVE  /\ GraphTypeOK' /\ StackIsAPath' /\ CalleesAccounted' /\ LeftIsSound'
           /\ ClosureIsNeeded' /\ AcceptsAtTheEnd'
<1>1. GraphTypeOK'
  BY DEF GraphInv, GraphTypeOK
<1>2. StackIsAPath' /\ CalleesAccounted' /\ LeftIsSound'
  BY WalkIsKept DEF GraphInv
<1>3. ClosureIsNeeded' /\ AcceptsAtTheEnd'
  BY DEF GraphInv, ClosureIsNeeded, AcceptsAtTheEnd, ClosedUnderCalls
<1> QED
  BY <1>1, <1>2, <1>3

LEMMA ReportMissingKeeps == ASSUME GraphInv, NEW c, ReportMissing(c) PROVE GraphInv'
<1>1. c \in calls[Top] /\ Top \in Mounted /\ c \notin Mounted /\ verdict = "reading"
  BY LooksFacts DEF ReportMissing
<1>2. BadDeclaration'
  BY <1>1 DEF BadDeclaration, ReportMissing
<1>3. RefusedOnlyForCause'
  BY <1>2 DEF RefusedOnlyForCause, ReportMissing
<1> QED
  BY <1>1, <1>3, VerdictKeeps DEF ReportMissing, GraphInv

LEMMA ReportCycleKeeps == ASSUME GraphInv, NEW c, ReportCycle(c) PROVE GraphInv'
<1>1. /\ c \in calls[Top] /\ Top = stack[Len(stack)] /\ verdict = "reading"
      /\ stack \in Seq(Mounted) /\ Len(stack) \in Nat \ {0} /\ DOMAIN stack = 1 .. Len(stack)
  BY LooksFacts, TopAndPop DEF ReportCycle, GraphInv, GraphTypeOK
<1>2. PICK i \in 1 .. Len(stack) : stack[i] = c /\ cycle' = CycleFrom(i)
  BY <1>1 DEF ReportCycle
<1>3. calls' = calls /\ verdict' = "cycle"
  BY DEF ReportCycle
<1> DEFINE chain == SubSeq(stack, i, Len(stack))
           n == Len(stack) - i + 1
<1>4. /\ chain \in Seq(Mounted) /\ Len(chain) = n /\ n \in Nat \ {0}
      /\ \A k \in 1 .. n : chain[k] = stack[i + k - 1]
  BY <1>1
<1>5. /\ Len(cycle') = n + 1 /\ cycle'[n + 1] = c
      /\ \A k \in 1 .. n : cycle'[k] = stack[i + k - 1]
  <2>1. cycle' = Append(chain, c)
    BY <1>2 DEF CycleFrom
  <2> HIDE DEF chain, n
  <2>2. chain \in Seq(Mounted) /\ c \in Mounted
    BY <1>1, <1>2, <1>4
  <2>3. Len(cycle') = n + 1 /\ cycle'[n + 1] = c /\ \A k \in 1 .. n : cycle'[k] = chain[k]
    BY <1>4, <2>1, <2>2
  <2> QED
    BY <1>4, <2>3
<1>6. ASSUME NEW k \in 1 .. n
      PROVE  cycle'[k] \in Mounted /\ cycle'[k + 1] \in calls[cycle'[k]]
  <2>1. cycle'[k] = stack[i + k - 1] /\ i + k - 1 \in 1 .. Len(stack)
    BY <1>1, <1>5
  <2>2. CASE k = n
    BY <1>1, <1>5, <2>1, <2>2
  <2>3. CASE k # n
    <3>1. k + 1 \in 1 .. n /\ i + k - 1 \in 1 .. Len(stack) - 1 /\ i + (k + 1) - 1 = i + k
      BY <1>1, <2>3
    <3>2. cycle'[k + 1] = stack[i + k]
      <4> HIDE DEF n
      <4> QED
        BY <1>5, <3>1
    <3>3. stack[(i + k - 1) + 1] \in calls[stack[i + k - 1]]
      BY <3>1 DEF GraphInv, StackIsAPath
    <3> QED
      BY <1>1, <2>1, <3>1, <3>2, <3>3
  <2> QED
    BY <2>2, <2>3
<1>7. ASSUME NEW j \in 1 .. n, NEW k \in 1 .. n, cycle'[j] = cycle'[k]
      PROVE  j = k
  <2>1. stack[i + j - 1] = stack[i + k - 1]
    BY <1>5, <1>7
  <2>2. i + j - 1 \in DOMAIN stack /\ i + k - 1 \in DOMAIN stack
    BY <1>1
  <2>3. i + j - 1 = i + k - 1
    BY <2>1, <2>2 DEF GraphInv, StackIsAPath
  <2> QED
    BY <2>3
<1>8. cycle'[1] = c
  BY <1>1, <1>2, <1>4, <1>5
<1>9. RefusedOnlyForCause'
  <2> HIDE DEF n
  <2>1. Len(cycle') - 1 = n /\ Len(cycle') >= 2 /\ cycle'[Len(cycle')] = cycle'[1]
    BY <1>4, <1>5, <1>8
  <2> QED
    BY <1>3, <1>6, <1>7, <2>1 DEF RefusedOnlyForCause
<1> QED
  BY <1>1, <1>9, VerdictKeeps DEF ReportCycle, GraphInv

LEMMA LeaveKeeps == GraphInv /\ Leave => GraphInv'
<1> SUFFICES ASSUME GraphInv, Leave PROVE GraphInv'
  OBVIOUS
<1>1. /\ GraphTypeOK /\ stack # <<>> /\ todo[Top] = {} /\ verdict = "reading"
      /\ stack' = Pop /\ left' = left \cup {Top}
      /\ UNCHANGED <<calls, reader, requested, roots, todo, closure, verdict, cycle>>
  BY DEF GraphInv, Leave, Reading
<1>2. /\ Len(stack) \in Nat \ {0} /\ Top \in Mounted /\ Top = stack[Len(stack)]
      /\ DOMAIN stack = 1 .. Len(stack)
      /\ stack' \in Seq(Mounted) /\ Len(stack') = Len(stack) - 1
      /\ DOMAIN stack' = 1 .. Len(stack) - 1
      /\ \A i \in 1 .. Len(stack) - 1 : stack'[i] = stack[i]
  <2>1. /\ Len(stack) \in Nat \ {0} /\ Top \in Mounted /\ Top = stack[Len(stack)]
        /\ DOMAIN stack = 1 .. Len(stack)
        /\ Pop \in Seq(Mounted) /\ Len(Pop) = Len(stack) - 1
        /\ \A i \in 1 .. Len(stack) - 1 : Pop[i] = stack[i]
    BY <1>1, TopAndPop, Zenon
  <2>2. stack' \in Seq(Mounted) /\ Len(stack') = Len(stack) - 1
    BY <1>1, <2>1
  <2>3. DOMAIN stack' = 1 .. Len(stack')
    BY <2>2
  <2>4. \A i \in 1 .. Len(stack) - 1 : stack'[i] = stack[i]
    BY <1>1, <2>1
  <2> QED
    BY <2>1, <2>2, <2>3, <2>4
<1>3. SetOf(stack) = SetOf(stack)' \cup {Top} /\ Top \notin SetOf(stack)'
  BY <1>1, PopSet DEF GraphInv, SetOf
<1>4. GraphTypeOK'
  BY <1>1, <1>2 DEF GraphTypeOK
<1>5. StackIsAPath'
  <2>1. /\ \A i \in 1 .. Len(stack) - 1 : i \in 1 .. Len(stack) /\ stack[i + 1] \in calls[stack[i]]
        /\ \A i, j \in 1 .. Len(stack) : stack[i] = stack[j] => i = j
    <3>1. StackIsAPath
      BY DEF GraphInv
    <3>2. \A i \in 1 .. Len(stack) - 1 : i \in 1 .. Len(stack)
      BY <1>2
    <3>3. DOMAIN stack = 1 .. Len(stack)
      BY <1>2
    <3> QED
      BY <3>1, <3>2, <3>3, Zenon DEF StackIsAPath
  <2>2. \A i \in 1 .. (Len(stack) - 1) - 1 :
          i \in 1 .. Len(stack) - 1 /\ i + 1 \in 1 .. Len(stack) - 1
    BY <1>2
  <2>3. \A i \in 1 .. Len(stack') - 1 : stack'[i + 1] \in calls[stack'[i]]
    <3>1. /\ Len(stack') = Len(stack) - 1
          /\ \A i \in 1 .. Len(stack) - 1 : stack'[i] = stack[i]
      BY <1>2
    <3> SUFFICES ASSUME NEW i \in 1 .. (Len(stack) - 1) - 1 PROVE stack'[i + 1] \in calls[stack'[i]]
      BY <3>1, Zenon
    <3>2. stack'[i] = stack[i] /\ stack'[i + 1] = stack[i + 1]
      BY <2>2, <3>1, Zenon
    <3> QED
      BY <2>1, <2>2, <3>2, Zenon
  <2>4. \A i, j \in 1 .. Len(stack') : stack'[i] = stack'[j] => i = j
    BY <1>2, <2>1, Zenon
  <2> QED
    BY <1>1, <1>2, <2>3, <2>4 DEF StackIsAPath
<1>6. CalleesAccounted'
  <2>1. ASSUME NEW i \in 1 .. Len(stack) - 1, NEW d \in calls[stack[i]]
        PROVE  d \in todo[stack[i]] \/ d \in left' \/ (i < Len(stack) - 1 /\ d = stack'[i + 1])
    <3>1. d \in todo[stack[i]] \/ d \in left \/ d = stack[i + 1]
      BY <1>2, <2>1 DEF GraphInv, CalleesAccounted
    <3>2. CASE i = Len(stack) - 1
      <4>1. stack[i + 1] = Top
        BY <1>2, <3>2
      <4> QED
        BY <1>1, <3>1, <4>1
    <3>3. CASE i # Len(stack) - 1
      <4>1. i < Len(stack) - 1 /\ i + 1 \in 1 .. Len(stack) - 1
        <5>1. Len(stack) \in Nat \ {0}
          BY <1>2
        <5> QED
          BY <3>3, <5>1
      <4>2. stack'[i + 1] = stack[i + 1]
        BY <1>2, <4>1
      <4> QED
        BY <1>1, <3>1, <4>1, <4>2
    <3> QED
      BY <3>2, <3>3
  <2>2. \A i \in DOMAIN stack' : \A d \in calls'[stack'[i]] :
          d \in todo'[stack'[i]] \/ d \in left' \/ (i < Len(stack') /\ d = stack'[i + 1])
    BY <1>1, <1>2, <2>1
  <2>3. \A v \in Mounted : todo'[v] \subseteq calls'[v]
    BY <1>1 DEF GraphInv, CalleesAccounted
  <2> QED
    BY <2>2, <2>3 DEF CalleesAccounted
<1>7. LeftIsSound'
  <2>1. calls[Top] \subseteq left
    BY <1>1, <1>2 DEF GraphInv, CalleesAccounted
  <2>2. Top \notin left
    BY <1>3 DEF GraphInv, LeftIsSound
  <2>3. PICK l, v : l = left /\ v = Top
    OBVIOUS
  <2>4. Sound(l \cup {v})
    BY <2>1, <2>2, <2>3, SoundWithOneMore DEF GraphInv, LeftIsSound
  <2>5. left' = l \cup {v}
    BY <1>1, <2>3
  <2>6. PICK m : m = l \cup {v}
    OBVIOUS
  <2>7. Sound(m)'
    BY <1>1, <2>4, <2>6, SoundIsKept
  <2>8. Sound(left)'
    BY <2>5, <2>6, <2>7 DEF Sound, ClosedUnderCalls, Acyclic
  <2>9. PICK T \in SUBSET Mounted : Sound(T) /\ closure = T \cup left \cup SetOf(stack)
    BY DEF GraphInv, LeftIsSound
  <2>10. Sound(T)'
    BY <1>1, <2>9, SoundIsKept
  <2>11. closure' = T \cup left' \cup SetOf(stack)'
    BY <1>1, <1>3, <2>9
  <2>12. left' \cap SetOf(stack)' = {}
    BY <1>1, <1>3 DEF GraphInv, LeftIsSound
  <2> QED
    BY <2>8, <2>10, <2>11, <2>12 DEF LeftIsSound
<1>8. ClosureIsNeeded'
  BY <1>1 DEF GraphInv, ClosureIsNeeded, ClosedUnderCalls
<1> QED
  BY <1>1, <1>4, <1>5, <1>6, <1>7, <1>8, NoReportYet DEF GraphInv

LEMMA AcceptKeeps == GraphInv /\ Accept => GraphInv'
<1> SUFFICES ASSUME GraphInv, Accept PROVE GraphInv'
  OBVIOUS
<1> USE DEF Accept, Reading
<1>1. GraphTypeOK'
  BY DEF GraphInv, GraphTypeOK
<1>2. StackIsAPath' /\ CalleesAccounted' /\ LeftIsSound'
  BY WalkIsKept DEF GraphInv
<1>3. ClosureIsNeeded' /\ AcceptsAtTheEnd' /\ RefusedOnlyForCause'
  BY DEF GraphInv, ClosureIsNeeded, AcceptsAtTheEnd, RefusedOnlyForCause, ClosedUnderCalls
<1> QED
  BY <1>1, <1>2, <1>3 DEF GraphInv

LEMMA StutterKeeps == GraphInv /\ UNCHANGED graphVars => GraphInv'
<1> SUFFICES ASSUME GraphInv, UNCHANGED graphVars PROVE GraphInv'
  OBVIOUS
<1> USE DEF graphVars, readVars
<1>1. GraphTypeOK'
  BY DEF GraphInv, GraphTypeOK
<1>2. StackIsAPath' /\ CalleesAccounted' /\ LeftIsSound'
  BY WalkIsKept DEF GraphInv
<1>3. ClosureIsNeeded' /\ AcceptsAtTheEnd'
  BY DEF GraphInv, ClosureIsNeeded, AcceptsAtTheEnd, ClosedUnderCalls
<1>4. RefusedOnlyForCause'
  BY CauseIsKept DEF GraphInv
<1> QED
  BY <1>1, <1>2, <1>3, <1>4 DEF GraphInv

-------------------------------------------------------------------------------
(* The theorems.                                                             *)

\* The reading of a call graph keeps GraphInv: what the visits that have ended left is
\* closed and acyclic, and a visit accounts for each of its callees.
LEMMA GraphStep == GraphInv /\ [GraphNext]_graphVars => GraphInv'
<1> SUFFICES ASSUME GraphInv, [GraphNext]_graphVars PROVE GraphInv'
  OBVIOUS
<1>1. CASE Compile
  BY <1>1, BeginKeeps DEF Compile
<1>2. CASE CompileRefuses
  BY <1>2, CompileRefusesKeeps
<1>3. ASSUME NEW R \in SUBSET Mounted, Resolve(R) PROVE GraphInv'
  BY <1>3, BeginKeeps DEF Resolve
<1>4. ASSUME NEW r \in Mounted, PrepareInvocation(r) PROVE GraphInv'
  <2>1. {r} \in SUBSET Mounted /\ Begin("codex", {r})
    BY <1>4 DEF PrepareInvocation
  <2> QED
    BY <2>1, BeginKeeps
<1>5. ASSUME NEW r \in Mounted, Root(r) PROVE GraphInv'
  BY <1>5, RootKeeps
<1>6. ASSUME NEW c \in Ids, Enter(c) \/ Pass(c) \/ ReportCycle(c) \/ ReportMissing(c)
      PROVE  GraphInv'
  BY <1>6, EnterKeeps, PassKeeps, ReportCycleKeeps, ReportMissingKeeps
<1>7. CASE Leave
  BY <1>7, LeaveKeeps
<1>8. CASE Accept
  BY <1>8, AcceptKeeps
<1>9. CASE UNCHANGED graphVars
  BY <1>9, StutterKeeps
<1> QED
  BY <1>1, <1>2, <1>3, <1>4, <1>5, <1>6, <1>7, <1>8, <1>9 DEF GraphNext

\* So it does in every behaviour.
THEOREM GraphInvariant == GraphSpec => []GraphInv
  BY GraphStep, InitHolds, PTL DEF GraphSpec

\* A graph that compile(), resolveComponentClosure or prepareComponentInvocation accepts
\* has no cycle among the components it has visited.
THEOREM AcceptedHasNoCycle == GraphSpec => []AcceptedIsAcyclic
<1>1. GraphInv => AcceptedIsAcyclic
  <2> SUFFICES ASSUME GraphInv, verdict = "accepted" PROVE Acyclic(closure)
    BY DEF AcceptedIsAcyclic
  <2>1. SetOf(stack) = {}
    BY DEF GraphInv, AcceptsAtTheEnd, SetOf
  <2>2. PICK T \in SUBSET Mounted : Sound(T) /\ closure = T \cup left
    BY <2>1 DEF GraphInv, LeftIsSound
  <2>3. Sound(T \cup left)
    BY <2>2, SoundUnion DEF GraphInv, LeftIsSound
  <2> QED
    BY <2>2, <2>3 DEF Sound
<1> QED
  BY <1>1, GraphInvariant, PTL

\* What a reader accepts has no cycle; what it refuses has the fault, and a cycle that
\* is reported is one.
THEOREM VerdictsHaveACause == GraphSpec => []VerdictIsDeserved
<1>1. GraphInv => RefusedOnlyForCause
  BY DEF GraphInv
<1>2. AcceptedIsAcyclic /\ RefusedOnlyForCause => VerdictIsDeserved
  BY DEF VerdictIsDeserved
<1> QED
  BY <1>1, <1>2, GraphInvariant, AcceptedHasNoCycle, PTL

\* The components a reader that accepts has visited, the closure the dispatchers go on
\* with, are the roots and what can be called from them, and no more.
THEOREM ClosureIsTheReach == GraphSpec => []ClosureIsReach
<1>1. GraphInv => ClosureIsReach
  <2> SUFFICES ASSUME GraphInv, verdict = "accepted"
               PROVE  /\ requested \subseteq closure /\ closure \subseteq Mounted
                      /\ ClosedUnderCalls(closure)
                      /\ \A T \in SUBSET Mounted :
                           requested \subseteq T /\ ClosedUnderCalls(T) => closure \subseteq T
    BY DEF ClosureIsReach
  <2>1. SetOf(stack) = {} /\ roots = {}
    BY DEF GraphInv, AcceptsAtTheEnd, SetOf
  <2>2. PICK T \in SUBSET Mounted : Sound(T) /\ closure = T \cup left
    BY <2>1 DEF GraphInv, LeftIsSound
  <2>3. ClosedUnderCalls(closure)
    BY <2>2 DEF GraphInv, LeftIsSound, Sound, ClosedUnderCalls
  <2>4. requested \subseteq closure /\ closure \subseteq Mounted
    BY <2>1 DEF GraphInv, ClosureIsNeeded, GraphTypeOK
  <2> QED
    BY <2>3, <2>4 DEF GraphInv, ClosureIsNeeded
<1> QED
  BY <1>1, GraphInvariant, PTL

-------------------------------------------------------------------------------
(* Compilation: the first of many faults.                                       *)

\* A set of numbers that is not empty has a least one, and Min gives it.
LEMMA MinIsLeast ==
    ASSUME NEW S, S \subseteq Nat, S # {}
    PROVE  Min(S) \in S /\ \A y \in S : Min(S) <= y
<1> DEFINE R == OpToRel(<, Nat)
<1>1. IsWellFoundedOn(R, Nat)
  BY NatLessThanWellFounded, Zenon
<1>2. \A x, y \in Nat : y < x => <<y, x>> \in R
  BY DEF OpToRel
<1> HIDE DEF R
<1>3. PICK x \in S : \A y \in S : ~ (<<y, x>> \in R)
  BY <1>1, WFMin
<1>4. ASSUME NEW y \in S PROVE x <= y
  <2>1. x \in Nat /\ y \in Nat
    OBVIOUS
  <2>2. ~(y < x)
    BY <1>2, <1>3, <2>1
  <2> QED
    BY <2>1, <2>2
<1>5. \E z \in S : \A y \in S : z <= y
  BY <1>4
<1> QED
  BY <1>5 DEF Min

\* What SelectInSeq gives, for the indexes that pass its test.
Selected(I) == IF I # {} THEN Min(I) ELSE 0
LEMMA SelectedFacts ==
    ASSUME NEW n \in Nat, NEW I, I \subseteq 1..n
    PROVE  /\ I = {} => Selected(I) = 0
           /\ I # {} => Selected(I) \in I /\ Selected(I) # 0
<1>1. \A i \in 1..n : i \in Nat /\ i # 0
  OBVIOUS
<1>2. I \subseteq Nat
  BY <1>1
<1>3. I # {} => Min(I) \in I
  BY <1>2, MinIsLeast
<1> QED
  BY <1>1, <1>3 DEF Selected

\* The first fault of a list is none when every check holds, and otherwise is of one
\* that does not.
LEMMA FirstFaultFacts ==
    ASSUME NEW faults, NEW n \in Nat, Len(faults) = n,
           \A i \in 1..n : faults[i].fault # NotGiven
    PROVE  /\ FirstFault(faults) = NotGiven => \A i \in 1..n : faults[i].holds
           /\ FirstFault(faults) # NotGiven => \E i \in 1..n : FirstFault(faults) = faults[i].fault /\ ~faults[i].holds
<1> DEFINE I == {i \in 1..n : ~faults[i].holds}
<1>1. I \subseteq 1..n
  BY Zenon
<1>2. FirstFault(faults) = IF Selected(I) = 0 THEN NotGiven ELSE faults[Selected(I)].fault
  BY DEF FirstFault, SelectInSeq, Selected
<1>3. \A i \in 1..n : i \in I <=> ~faults[i].holds
  BY Zenon
<1> HIDE DEF I
<1>4. CASE I = {}
  BY <1>1, <1>2, <1>3, <1>4, SelectedFacts
<1>5. CASE I # {}
  <2>1. Selected(I) \in I /\ Selected(I) # 0
    BY <1>1, <1>5, SelectedFacts
  <2>2. PICK k \in 1..n : k = Selected(I) /\ k \in I /\ k # 0
    BY <1>1, <2>1
  <2>3. FirstFault(faults) = faults[k].fault
    BY <1>2, <2>2
  <2> QED
    BY <1>3, <2>2, <2>3
<1> QED
  BY <1>4, <1>5

\* The same of the outcomes of preconditions.
LEMMA FirstRefusalFacts ==
    ASSUME NEW outcomes, NEW n \in Nat, Len(outcomes) = n,
           \A i \in 1..n : outcomes[i].outcome # NotGiven
    PROVE  /\ FirstRefusal(outcomes) = NotGiven => \A i \in 1..n : outcomes[i].outcome = "pass"
           /\ FirstRefusal(outcomes) # NotGiven =>
                \E i \in 1..n : FirstRefusal(outcomes) = outcomes[i].outcome /\ outcomes[i].outcome # "pass"
<1> DEFINE I == {i \in 1..n : outcomes[i].outcome # "pass"}
<1>1. I \subseteq 1..n
  BY Zenon
<1>2. FirstRefusal(outcomes) = IF Selected(I) = 0 THEN NotGiven ELSE outcomes[Selected(I)].outcome
  BY DEF FirstRefusal, SelectInSeq, Selected
<1>3. \A i \in 1..n : i \in I <=> outcomes[i].outcome # "pass"
  BY Zenon
<1> HIDE DEF I
<1>4. CASE I = {}
  BY <1>1, <1>2, <1>3, <1>4, SelectedFacts
<1>5. CASE I # {}
  <2>1. Selected(I) \in I /\ Selected(I) # 0
    BY <1>1, <1>5, SelectedFacts
  <2>2. PICK k \in 1..n : k = Selected(I) /\ k \in I /\ k # 0
    BY <1>1, <2>1
  <2>3. FirstRefusal(outcomes) = outcomes[k].outcome
    BY <1>2, <2>2
  <2> QED
    BY <1>3, <2>2, <2>3
<1> QED
  BY <1>4, <1>5

\* Every fault and outcome has a name.
LEMMA NamesAreGiven ==
    NotGiven \notin {"config", "requires_context", "prompt", "vocabulary", "ceiling",
                     "param_source", "selector_fields", "required_bind", "undeclared",
                     "unanswerable", "not_satisfied", "guardrail", "dataflow", "step_capabilities",
                     "component_slots", "placeholder", "asset", "mounts_nothing", "unparseable",
                     "profile_slots", "composition", "fail", "pass", "yes", "no"}
  BY Zenon DEF NotGiven

\* The checks of a mount are seventeen, each with a name of its own.
LEMMA MountFaultsListed ==
    ASSUME NEW profile, NEW component, NEW mount, NEW project, NEW l,
           NEW faults, faults = MountFaults(profile, component, mount, project, l),
           NEW outcomes, outcomes = evaluate_preconditions(component, l, resolve_binds(component, mount))
    PROVE  /\ Len(faults) = 17
           /\ \A i \in 1..17 : faults[i].fault # NotGiven /\ (faults[i].fault = "not_satisfied" => i = 11)
           /\ faults[4] = Fault("vocabulary", check_precondition_vocabulary(component))
           /\ faults[5] = Fault("ceiling", check_capability_ceiling(component, profile))
           /\ faults[9] = Fault("undeclared", FirstRefusal(outcomes) # "undeclared")
           /\ faults[10] = Fault("unanswerable", FirstRefusal(outcomes) # "unanswerable")
           /\ faults[11] = Fault("not_satisfied", FirstRefusal(outcomes) # "fail")
           /\ faults[12] = Fault("guardrail", resolve_guardrails(component, mount).ok)
           /\ faults[14] = Fault("step_capabilities", check_step_capabilities(component))
           /\ faults[15] = Fault("component_slots", check_component_slots(component, mount))
           /\ faults[16] = Fault("placeholder", check_placeholders(profile, component, mount, project))
<1>1. Len(faults) = 17
  BY DEF MountFaults
<1>2. /\ faults[4] = Fault("vocabulary", check_precondition_vocabulary(component))
      /\ faults[5] = Fault("ceiling", check_capability_ceiling(component, profile))
      /\ faults[12] = Fault("guardrail", resolve_guardrails(component, mount).ok)
      /\ faults[14] = Fault("step_capabilities", check_step_capabilities(component))
      /\ faults[15] = Fault("component_slots", check_component_slots(component, mount))
      /\ faults[16] = Fault("placeholder", check_placeholders(profile, component, mount, project))
  BY DEF MountFaults
<1>3. /\ faults[9] = Fault("undeclared", FirstRefusal(outcomes) # "undeclared")
      /\ faults[10] = Fault("unanswerable", FirstRefusal(outcomes) # "unanswerable")
      /\ faults[11] = Fault("not_satisfied", FirstRefusal(outcomes) # "fail")
  BY DEF MountFaults
<1>4. /\ faults[1].fault \notin {NotGiven, "not_satisfied"} /\ faults[2].fault \notin {NotGiven, "not_satisfied"}
      /\ faults[3].fault \notin {NotGiven, "not_satisfied"} /\ faults[4].fault \notin {NotGiven, "not_satisfied"}
      /\ faults[5].fault \notin {NotGiven, "not_satisfied"} /\ faults[6].fault \notin {NotGiven, "not_satisfied"}
      /\ faults[7].fault \notin {NotGiven, "not_satisfied"} /\ faults[8].fault \notin {NotGiven, "not_satisfied"}
      /\ faults[9].fault \notin {NotGiven, "not_satisfied"} /\ faults[10].fault \notin {NotGiven, "not_satisfied"}
      /\ faults[11].fault # NotGiven
  BY NamesAreGiven DEF MountFaults, Fault
<1>5. /\ faults[12].fault \notin {NotGiven, "not_satisfied"} /\ faults[13].fault \notin {NotGiven, "not_satisfied"}
      /\ faults[14].fault \notin {NotGiven, "not_satisfied"} /\ faults[15].fault \notin {NotGiven, "not_satisfied"}
      /\ faults[16].fault \notin {NotGiven, "not_satisfied"} /\ faults[17].fault \notin {NotGiven, "not_satisfied"}
  BY NamesAreGiven DEF MountFaults, Fault
<1>6. \A i \in 1..17 : faults[i].fault # NotGiven /\ (faults[i].fault = "not_satisfied" => i = 11)
  <2>1. \A i \in 1..17 : \/ i = 1 \/ i = 2 \/ i = 3 \/ i = 4 \/ i = 5 \/ i = 6 \/ i = 7 \/ i = 8 \/ i = 9
                         \/ i = 10 \/ i = 11 \/ i = 12 \/ i = 13 \/ i = 14 \/ i = 15 \/ i = 16 \/ i = 17
    OBVIOUS
  <2> QED
    BY <1>4, <1>5, <2>1, Zenon
<1> QED
  BY <1>1, <1>2, <1>3, <1>6

\* The checks that authority and preconditions rest on hold where no fault is found.
LEMMA FaultsRead ==
    ASSUME NEW profile, NEW component, NEW mount, NEW project, NEW faults, NEW outcomes,
           Len(faults) = 17,
           \A i \in 1..17 : faults[i].fault # NotGiven /\ (faults[i].fault = "not_satisfied" => i = 11),
           faults[4] = Fault("vocabulary", check_precondition_vocabulary(component)),
           faults[5] = Fault("ceiling", check_capability_ceiling(component, profile)),
           faults[9] = Fault("undeclared", FirstRefusal(outcomes) # "undeclared"),
           faults[10] = Fault("unanswerable", FirstRefusal(outcomes) # "unanswerable"),
           faults[11] = Fault("not_satisfied", FirstRefusal(outcomes) # "fail"),
           faults[12] = Fault("guardrail", resolve_guardrails(component, mount).ok),
           faults[14] = Fault("step_capabilities", check_step_capabilities(component)),
           faults[15] = Fault("component_slots", check_component_slots(component, mount)),
           faults[16] = Fault("placeholder", check_placeholders(profile, component, mount, project))
    PROVE  /\ FirstFault(faults) = NotGiven =>
                /\ check_precondition_vocabulary(component)
                /\ check_capability_ceiling(component, profile)
                /\ check_step_capabilities(component)
                /\ resolve_guardrails(component, mount).ok
                /\ check_component_slots(component, mount)
                /\ check_placeholders(profile, component, mount, project)
                /\ FirstRefusal(outcomes) \notin {"undeclared", "unanswerable", "fail"}
           /\ FirstFault(faults) = "not_satisfied" => FirstRefusal(outcomes) = "fail"
<1>1. faults[4].holds = check_precondition_vocabulary(component)
  BY SMT DEF Fault
<1>2. faults[5].holds = check_capability_ceiling(component, profile)
  BY SMT DEF Fault
<1>3. faults[9].holds = (FirstRefusal(outcomes) # "undeclared")
  BY SMT DEF Fault
<1>4. faults[10].holds = (FirstRefusal(outcomes) # "unanswerable")
  BY SMT DEF Fault
<1>5. faults[11].holds = (FirstRefusal(outcomes) # "fail")
  BY SMT DEF Fault
<1>6. faults[12].holds = resolve_guardrails(component, mount).ok
  BY SMT DEF Fault
<1>7. faults[14].holds = check_step_capabilities(component)
  BY SMT DEF Fault
<1>8. faults[15].holds = check_component_slots(component, mount)
  BY SMT DEF Fault
<1>9. faults[16].holds = check_placeholders(profile, component, mount, project)
  BY SMT DEF Fault
<1>10. \A i \in {4, 5, 9, 10, 11, 12, 14, 15, 16} : i \in 1..17
  OBVIOUS
<1>11. /\ FirstFault(faults) = NotGiven => \A i \in 1..17 : faults[i].holds
       /\ FirstFault(faults) # NotGiven => \E i \in 1..17 : FirstFault(faults) = faults[i].fault /\ ~faults[i].holds
  BY FirstFaultFacts
<1>12. ASSUME FirstFault(faults) = NotGiven
       PROVE  /\ faults[4].holds /\ faults[5].holds /\ faults[9].holds /\ faults[10].holds
              /\ faults[11].holds /\ faults[12].holds /\ faults[14].holds
              /\ faults[15].holds /\ faults[16].holds
  BY <1>10, <1>11, <1>12, Zenon
<1>13. FirstFault(faults) = "not_satisfied" => ~faults[11].holds
  BY <1>11, NamesAreGiven
<1> QED
  BY <1>1, <1>2, <1>3, <1>4, <1>5, <1>6, <1>7, <1>8, <1>9, <1>12, <1>13, Zenon

\* The same of a mount.
LEMMA MountFaultsFacts ==
    ASSUME NEW profile, NEW component, NEW mount, NEW project, NEW l,
           NEW faults, faults = MountFaults(profile, component, mount, project, l),
           NEW outcomes, outcomes = evaluate_preconditions(component, l, resolve_binds(component, mount))
    PROVE  /\ FirstFault(faults) = NotGiven =>
                /\ check_precondition_vocabulary(component)
                /\ check_capability_ceiling(component, profile)
                /\ check_step_capabilities(component)
                /\ resolve_guardrails(component, mount).ok
                /\ check_component_slots(component, mount)
                /\ check_placeholders(profile, component, mount, project)
                /\ FirstRefusal(outcomes) \notin {"undeclared", "unanswerable", "fail"}
           /\ FirstFault(faults) = "not_satisfied" => FirstRefusal(outcomes) = "fail"
  BY MountFaultsListed, FaultsRead

\* What compile() returns.
LEMMA CompiledFacts ==
    ASSUME NEW profile, NEW components, NEW as_authored, NEW l,
           profile.components \in Seq(Range(profile.components)),
           NEW project, project = ProjectOf(profile, as_authored),
           NEW c, c = compile(profile, components, as_authored, l)
    PROVE  /\ c.ok \in BOOLEAN
           /\ ~c.ok => c.ir = NoIR
           /\ c.ok => /\ c.ir = Emitted(profile, components, project, l)
                      /\ c.fault = NotGiven
                      /\ check_component_composition(profile, components)
                      /\ check_profile_slots(profile, components)
                      /\ \A i \in DOMAIN profile.components :
                            LET m == profile.components[i]
                            IN  FirstFault(MountFaults(profile, components[m.use], m, project, l)) = NotGiven
           /\ c.fault = "not_satisfied" =>
                /\ check_component_composition(profile, components)
                /\ \E i \in DOMAIN profile.components :
                      LET m == profile.components[i]
                      IN  FirstFault(MountFaults(profile, components[m.use], m, project, l)) = "not_satisfied"
<1> DEFINE early == FirstFault(ProfileFaults(profile, components, l))
           OfMount(m) == FirstFault(MountFaults(profile, components[m.use], m, project, l))
           n == Len(profile.components)
           I == {i \in 1..n : OfMount(profile.components[i]) # NotGiven}
           faulty == Selected(I)
<1>1. c = IF early # NotGiven THEN Refused(early)
          ELSE IF faulty # 0 THEN Refused(OfMount(profile.components[faulty]))
          ELSE IF ~render_slots(profile.slots, project).ok THEN Refused("placeholder")
          ELSE [ok |-> TRUE, fault |-> NotGiven, ir |-> Emitted(profile, components, project, l)]
  BY Zenon DEF compile, SelectInSeq, Selected
<1>2. n \in Nat /\ DOMAIN profile.components = 1..n
  OBVIOUS
<1>3. Len(ProfileFaults(profile, components, l)) = 4
  BY DEF ProfileFaults
<1>3a. \A i \in 1..4 : ProfileFaults(profile, components, l)[i].fault \notin {NotGiven, "not_satisfied"}
  BY NamesAreGiven DEF ProfileFaults, Fault
<1>3b. ProfileFaults(profile, components, l)[4] =
        Fault("composition", check_component_composition(profile, components))
  BY DEF ProfileFaults
<1>3c. ProfileFaults(profile, components, l)[4].holds = check_component_composition(profile, components)
  BY <1>3b, SMT DEF Fault
<1>3d. ProfileFaults(profile, components, l)[3] = Fault("profile_slots", check_profile_slots(profile, components))
  BY DEF ProfileFaults
<1>3e. ProfileFaults(profile, components, l)[3].holds = check_profile_slots(profile, components)
  BY <1>3d, SMT DEF Fault
<1>4. /\ early = NotGiven => /\ check_component_composition(profile, components)
                            /\ check_profile_slots(profile, components)
      /\ early # "not_satisfied"
  <2> DEFINE pf == ProfileFaults(profile, components, l)
  <2> HIDE DEF pf
  <2>1. Len(pf) = 4 /\ \A i \in 1..4 : pf[i].fault \notin {NotGiven, "not_satisfied"}
    BY <1>3, <1>3a DEF pf
  <2>2. /\ FirstFault(pf) = NotGiven => \A i \in 1..4 : pf[i].holds
        /\ FirstFault(pf) # NotGiven => \E i \in 1..4 : FirstFault(pf) = pf[i].fault /\ ~pf[i].holds
    BY <2>1, FirstFaultFacts
  <2>3. FirstFault(pf) # "not_satisfied"
    BY <2>1, <2>2, NamesAreGiven
  <2>4. FirstFault(pf) = NotGiven => pf[3].holds /\ pf[4].holds
    BY <2>2
  <2> QED
    BY <1>3c, <1>3e, <2>3, <2>4 DEF pf
<1>5. /\ faulty = 0 => \A i \in 1..n : OfMount(profile.components[i]) = NotGiven
      /\ faulty # 0 => faulty \in 1..n
  <2>1. I \subseteq 1..n /\ \A i \in 1..n : i \in I <=> OfMount(profile.components[i]) # NotGiven
    BY Zenon
  <2> HIDE DEF I, OfMount
  <2> QED
    BY <1>2, <2>1, SelectedFacts
<1> HIDE DEF early, OfMount, n, I, faulty
<1>6. CASE early # NotGiven
  BY <1>1, <1>4, <1>6 DEF Refused
<1>7. CASE early = NotGiven /\ faulty # 0
  <2>1. c.fault = OfMount(profile.components[faulty]) /\ c.ok = FALSE /\ c.ir = NoIR
    BY <1>1, <1>7 DEF Refused
  <2>2. faulty \in DOMAIN profile.components
    BY <1>2, <1>5, <1>7 DEF n
  <2>3. check_component_composition(profile, components)
    BY <1>4, <1>7
  <2> QED
    BY <2>1, <2>2, <2>3 DEF OfMount
<1>8. CASE early = NotGiven /\ faulty = 0 /\ ~render_slots(profile.slots, project).ok
  BY <1>1, <1>8 DEF Refused
<1>9. CASE early = NotGiven /\ faulty = 0 /\ render_slots(profile.slots, project).ok
  <2>1. c = [ok |-> TRUE, fault |-> NotGiven, ir |-> Emitted(profile, components, project, l)]
    BY <1>1, <1>9
  <2>2. c.ok = TRUE /\ c.fault = NotGiven /\ c.ir = Emitted(profile, components, project, l)
    BY <2>1
  <2> QED
    BY <1>2, <1>4, <1>5, <1>9, <2>2 DEF OfMount
<1> QED
  BY <1>6, <1>7, <1>8, <1>9, SMTT(30)

-------------------------------------------------------------------------------
(* Compilation: authority.                                                     *)

\* A step of a node holds what its component needs: its own capabilities and, where
\* it calls, the one of calls.
LEMMA StepsAreAuthorized ==
    ASSUME NEW component, NEW mount, NEW project, check_step_capabilities(component),
           NEW steps, steps = resolve_llm_calls(component, mount, project),
           NEW i \in DOMAIN steps
    PROVE  /\ steps[i].capabilities \subseteq effective_required_capabilities(component)
           /\ steps[i].calls # {} =>
                /\ COMPONENT_INVOCATION_CAPABILITY \in effective_required_capabilities(component)
                /\ steps[i].capabilities # {} => COMPONENT_INVOCATION_CAPABILITY \in steps[i].capabilities
<1>1. DOMAIN steps = DOMAIN component.steps
  BY DEF resolve_llm_calls
<1>2. PICK s : s = component.steps[i]
  OBVIOUS
<1>3. /\ steps[i].calls = s.calls
      /\ steps[i].capabilities = IF s.capabilities = {} THEN {} ELSE s.capabilities \cup Calling(s.calls)
  BY <1>1, <1>2 DEF resolve_llm_calls
<1>4. s.capabilities \subseteq effective_required_capabilities(component)
  BY <1>1, <1>2 DEF check_step_capabilities
<1>5. s.calls # {} => Calling(s.calls) = {COMPONENT_INVOCATION_CAPABILITY}
  BY DEF Calling
<1>6. s.calls = {} => Calling(s.calls) = {}
  BY DEF Calling
<1>7. s.calls # {} => COMPONENT_INVOCATION_CAPABILITY \in effective_required_capabilities(component)
  <2> SUFFICES ASSUME s.calls # {}
               PROVE  COMPONENT_INVOCATION_CAPABILITY \in effective_required_capabilities(component)
    OBVIOUS
  <2>1. UNION {component.steps[k].calls : k \in DOMAIN component.steps} # {}
    BY <1>1, <1>2
  <2> QED
    BY <2>1 DEF effective_required_capabilities, Calling
<1> QED
  BY <1>3, <1>4, <1>5, <1>6, <1>7

\* What a component locks is locked for every mount that compiles.
LEMMA LocksAreKept ==
    ASSUME NEW component, NEW mount, resolve_guardrails(component, mount).ok,
           NEW i \in DOMAIN component.guardrails,
           component.guardrails[i].locked \in {"yes", "no", NotGiven},
           component.guardrails[i].locked = "yes" \/ component.guardrails[i].overridable = "no"
    PROVE  resolve_guardrails(component, mount).guardrails[i].locked
<1> DEFINE g == component.guardrails[i]
           Locked == resolve_guardrail_locked(g)
           Patched == g.name \in DOMAIN mount.guardrails
<1>1. Locked.ok /\ (Patched => ~Locked.locked)
  BY DEF resolve_guardrails
<1>2. Locked.ok <=> /\ g.locked # NotGiven \/ g.overridable # NotGiven
                    /\ g.locked # NotGiven /\ g.overridable # NotGiven => g.locked # g.overridable
  BY DEF resolve_guardrail_locked
<1>3. Locked.locked <=> IF g.locked # NotGiven THEN g.locked = "yes" ELSE g.overridable = "no"
  BY DEF resolve_guardrail_locked
<1>4. NotGiven \notin {"yes", "no"}
  BY NamesAreGiven
<1>5. Locked.locked
  <2> HIDE DEF Locked
  <2> QED
    BY <1>1, <1>2, <1>3, <1>4
<1>6. resolve_guardrails(component, mount).guardrails[i].locked = Locked.locked
  BY <1>1, <1>5 DEF resolve_guardrails
<1> QED
  BY <1>5, <1>6

-------------------------------------------------------------------------------
(* Compilation: preconditions, and the two that evaluate them.                 *)

\* A predicate passes, fails or cannot be answered; one that fails was answered.
LEMMA OutcomesAreThree ==
    ASSUME NEW p, NEW args, NEW l
    PROVE  /\ eval_predicate_uncensored(p, args, l) \in {"pass", "fail", "unanswerable"}
           /\ eval_predicate(p, args, l) \in {"pass", "fail", "unanswerable"}
           /\ eval_predicate(p, args, l) \in {"pass", "fail"} =>
                can_answer(l, p) /\ eval_predicate(p, args, l) = eval_predicate_uncensored(p, args, l)
<1>2. raw_shape(l.source_introspectable) \in {"pass", "fail", "unanswerable"}
  BY DEF raw_shape, boolean_outcome
<1>3. raw_shape(l.raw_docs_readable) \in {"pass", "fail", "unanswerable"}
  BY DEF raw_shape, boolean_outcome
<1>4. eval_metric_additive(args, l) \in {"pass", "fail", "unanswerable"}
  BY DEF eval_metric_additive, AnyOfThem, boolean_outcome
<1>5. eval_model_has_timestamp(args, l) \in {"pass", "fail", "unanswerable"}
  BY DEF eval_model_has_timestamp, boolean_outcome
<1>6. eval_predicate_uncensored(p, args, l) \in {"pass", "fail", "unanswerable"}
  BY <1>2, <1>3, <1>4, <1>5 DEF eval_predicate_uncensored, boolean_outcome
<1> QED
  BY <1>6 DEF eval_predicate

\* What a predicate says rests on what a document keeps of a layer.
LEMMA SameAnswers ==
    ASSUME NEW l, WellKept(l),
           NEW read, read = from_json(prepared_document_from(l)),
           NEW p, NEW args
    PROVE  /\ read.ok
           /\ eval_predicate_uncensored(p, args, read.context) = eval_predicate_uncensored(p, args, l)
           /\ can_answer(l, p) => can_answer(read.context, p)
<1> DEFINE ctx == read.context
           doc == prepared_document_from(l)
<1>1. /\ doc.wellformed /\ doc.context_version = PREPARED_CONTEXT_VERSION
      /\ doc.parseable = l.parseable /\ doc.metrics = l.metrics /\ doc.dimensions = l.dimensions
      /\ doc.models = l.models /\ doc.lineage = l.lineage
      /\ doc.source_introspectable = l.source_introspectable /\ doc.raw_docs_readable = l.raw_docs_readable
  BY DEF prepared_document_from
<1> HIDE DEF doc
<1>2. read.ok /\ ctx = [kind |-> "prepared", parseable |-> doc.parseable, metrics |-> doc.metrics,
                        dimensions |-> doc.dimensions, time_dimensions |-> Temporal(doc.dimensions),
                        models |-> doc.models, lineage |-> doc.lineage,
                        source_introspectable |-> doc.source_introspectable,
                        raw_docs_readable |-> doc.raw_docs_readable, analysis |-> doc.analysis]
  BY <1>1 DEF from_json, doc
<1> HIDE DEF ctx
<1>3. /\ ctx.kind = "prepared" /\ ctx.parseable = l.parseable /\ ctx.metrics = l.metrics
      /\ ctx.dimensions = l.dimensions /\ ctx.time_dimensions = l.time_dimensions
      /\ ctx.models = l.models /\ ctx.lineage = l.lineage
      /\ ctx.source_introspectable = l.source_introspectable /\ ctx.raw_docs_readable = l.raw_docs_readable
  BY <1>1, <1>2 DEF WellKept
<1>4. eval_metric_additive(args, ctx) = eval_metric_additive(args, l)
  BY <1>3 DEF eval_metric_additive, metric_additivity, DeclaresAMetric, AnyOfThem
<1>5. eval_model_has_timestamp(args, ctx) = eval_model_has_timestamp(args, l)
  BY <1>3 DEF eval_model_has_timestamp
<1>6. eval_predicate_uncensored(p, args, ctx) = eval_predicate_uncensored(p, args, l)
  BY <1>3, <1>4, <1>5 DEF eval_predicate_uncensored
<1>7. can_answer(l, p) => can_answer(ctx, p)
  BY <1>3 DEF can_answer, DeclaresAMetric
<1> QED
  BY <1>2, <1>6, <1>7 DEF ctx

-------------------------------------------------------------------------------
(* Compilation: slots and placeholders.                                        *)

\* Rendering replaces placeholders and leaves the references to slots.
LEMMA RenderedFacts ==
    ASSUME NEW text, NEW project
    PROVE  /\ slot_references(Rendered(text, project)) = slot_references(text)
           /\ Renders(text, project) =>
                \A p \in Rendered(text, project) : p.is \notin Placeholders \cup {"unknown", "statement"}
<1> DEFINE Becomes(p) == IF p.is = "project" THEN Piece("project_value", project)
                         ELSE IF p.is = "project_name" THEN Piece("project_name_value", project) ELSE p
<1>1. Rendered(text, project) = {Becomes(p) : p \in text}
  BY DEF Rendered
<1>2. \A p : /\ p.is \in Placeholders => Becomes(p).is \in {"project_value", "project_name_value"}
             /\ p.is \notin Placeholders => Becomes(p) = p
  BY DEF Piece, Placeholders
<1>3. {q \in Rendered(text, project) : q.is = "slot" /\ is_slot_name(q.name)}
        = {q \in text : q.is = "slot" /\ is_slot_name(q.name)}
  <2> HIDE DEF Becomes
  <2>1. "slot" \notin Placeholders \cup {"project_value", "project_name_value"}
    BY DEF Placeholders
  <2>2. \A p \in text : Becomes(p).is = "slot" => Becomes(p) = p
    BY <1>2, <2>1
  <2>3. \A p \in text : p.is = "slot" => Becomes(p) = p
    BY <1>2, <2>1
  <2> QED
    BY <1>1, <2>2, <2>3
<1>4. slot_references(Rendered(text, project)) = slot_references(text)
  BY <1>3 DEF slot_references
<1>5. ASSUME Renders(text, project), NEW p \in text
      PROVE  p.is \notin {"unknown", "statement"}
  <2>1. CASE Given(text)
    BY <1>5, <2>1 DEF Renders, render_placeholders, check_template_syntax
  <2>2. CASE ~Given(text)
    BY <2>2 DEF Given, Absent, Piece
  <2> QED
    BY <2>1, <2>2
<1>6. ASSUME Renders(text, project), NEW q \in Rendered(text, project)
      PROVE  q.is \notin Placeholders \cup {"unknown", "statement"}
  <2>1. PICK p \in text : q = Becomes(p)
    BY <1>1
  <2> HIDE DEF Becomes
  <2>2. CASE p.is \in Placeholders
    BY <1>2, <2>1, <2>2 DEF Placeholders
  <2>3. CASE p.is \notin Placeholders
    BY <1>2, <1>5, <1>6, <2>1, <2>3
  <2> QED
    BY <2>2, <2>3
<1> QED
  BY <1>4, <1>6

\* Nothing is referred to in a text that is not there.
LEMMA AbsentRefersToNothing == slot_references(Absent) = {}
  BY DEF slot_references, Absent, Piece

LEMMA ReferredIn ==
    ASSUME NEW texts, NEW t \in texts
    PROVE  slot_references(t) \subseteq References(texts)
  BY AbsentRefersToNothing DEF References, Given

\* Slots as they are rendered.
LEMMA RenderedSlots ==
    ASSUME NEW slots, slots \in Seq(Range(slots)), NEW project,
           NEW rendered, rendered = render_slots(slots, project).slots
    PROVE  /\ Len(rendered) = Len(slots) /\ rendered \in Seq(Range(rendered))
           /\ \A i \in 1..Len(slots) : /\ rendered[i].name = slots[i].name /\ rendered[i].default = slots[i].default
                                       /\ DOMAIN rendered[i].variants = DOMAIN slots[i].variants
           /\ VariantTexts(rendered) \subseteq {Rendered(v, project) : v \in VariantTexts(slots)}
<1> DEFINE n == Len(slots)
           entry(i) == SlotDecl(slots[i].name, [k \in DOMAIN slots[i].variants |-> Rendered(slots[i].variants[k], project)],
                                slots[i].default)
<1>1. n \in Nat /\ DOMAIN slots = 1..n
  OBVIOUS
<1>2. rendered = [i \in DOMAIN slots |-> entry(i)]
  BY DEF render_slots
<1> HIDE DEF n
<1>3. rendered = [i \in 1..n |-> entry(i)]
  BY <1>1, <1>2
<1>4. Len(rendered) = n /\ DOMAIN rendered = 1..n /\ rendered \in Seq(Range(rendered))
  <2> HIDE DEF entry
  <2>1. \A i \in 1..n : rendered[i] \in Range(rendered)
    BY <1>3 DEF Range
  <2>2. rendered \in [1..n -> Range(rendered)]
    BY <1>3, <2>1
  <2> QED
    BY <1>1, <1>3, <2>2
<1>5. ASSUME NEW i \in 1..n
      PROVE  /\ rendered[i].name = slots[i].name /\ rendered[i].default = slots[i].default
             /\ rendered[i].variants = [k \in DOMAIN slots[i].variants |-> Rendered(slots[i].variants[k], project)]
  BY <1>3 DEF SlotDecl
<1>6. ASSUME NEW t \in VariantTexts(rendered)
      PROVE  \E v \in VariantTexts(slots) : t = Rendered(v, project)
  <2>1. PICK i \in 1..n : \E k \in DOMAIN rendered[i].variants : t = rendered[i].variants[k]
    BY <1>4 DEF VariantTexts
  <2>2. PICK k \in DOMAIN rendered[i].variants : t = rendered[i].variants[k]
    BY <2>1
  <2>3. rendered[i].variants = [j \in DOMAIN slots[i].variants |-> Rendered(slots[i].variants[j], project)]
    BY <1>5
  <2>4. k \in DOMAIN slots[i].variants /\ t = Rendered(slots[i].variants[k], project)
    BY <2>2, <2>3
  <2>5. slots[i].variants[k] \in VariantTexts(slots)
    BY <1>1, <2>4 DEF VariantTexts
  <2> QED
    BY <2>4, <2>5
<1> QED
  BY <1>4, <1>5, <1>6 DEF n

\* A brief refers to what the component's own and the shared text refer to.
LEMMA BriefFacts ==
    ASSUME NEW profile, NEW component, NEW mount, NEW project,
           NEW brief, brief = render_brief(profile, component, mount, project)
    PROVE  /\ slot_references(brief.text) \subseteq
                slot_references(Own(component, mount)) \cup slot_references(profile.system_prompt)
           /\ brief.ok => \A p \in brief.text : p.is \notin Placeholders \cup {"unknown", "statement"}
<1> DEFINE own == Own(component, mount)
           shared == IF profile.system_prompt = Blank THEN Absent ELSE profile.system_prompt
<1>1. /\ brief.ok <=> Renders(own, project) /\ Renders(profile.system_prompt, project)
      /\ brief.text = IF ~Given(shared) THEN Rendered(own, project)
                      ELSE Rendered(shared, project) \cup (IF Given(own) THEN Rendered(own, project) ELSE {})
  BY DEF render_brief
<1>2. Given(shared) => shared = profile.system_prompt
  BY DEF Given
<1> HIDE DEF own, shared
<1>3. brief.text \subseteq Rendered(own, project) \cup Rendered(profile.system_prompt, project)
  <2>1. CASE Given(shared)
    BY <1>1, <1>2, <2>1
  <2>2. CASE ~Given(shared)
    BY <1>1, <2>2
  <2> QED
    BY <2>1, <2>2
<1>4. slot_references(brief.text) \subseteq
        slot_references(Rendered(own, project)) \cup slot_references(Rendered(profile.system_prompt, project))
  BY <1>3 DEF slot_references
<1>5. brief.ok => /\ \A p \in Rendered(own, project) : p.is \notin Placeholders \cup {"unknown", "statement"}
                  /\ \A p \in Rendered(profile.system_prompt, project) :
                       p.is \notin Placeholders \cup {"unknown", "statement"}
  BY <1>1, RenderedFacts
<1>6. brief.ok => \A p \in brief.text : p.is \notin Placeholders \cup {"unknown", "statement"}
  BY <1>3, <1>5
<1>7. slot_references(brief.text) \subseteq slot_references(own) \cup slot_references(profile.system_prompt)
  BY <1>4, RenderedFacts
<1> QED
  BY <1>6, <1>7 DEF own

\* A name that one of two lists declares once and the other does not is declared once
\* in the two together.
Once(name, reach) ==
    Cardinality({i \in DOMAIN reach : reach[i].name = name /\ reach[i].default \in DOMAIN reach[i].variants}) = 1

LEMMA DeclaredOnce ==
    ASSUME NEW s, s \in Seq(Range(s)), NEW o, o \in Seq(Range(o)),
           \A i, j \in 1..Len(s) : s[i].name = s[j].name => i = j,
           \A i, j \in 1..Len(o) : o[i].name = o[j].name => i = j,
           \A i \in 1..Len(s), j \in 1..Len(o) : s[i].name # o[j].name,
           \A i \in 1..Len(s) : s[i].default \in DOMAIN s[i].variants,
           \A i \in 1..Len(o) : o[i].default \in DOMAIN o[i].variants,
           NEW name, (\E i \in 1..Len(s) : s[i].name = name) \/ (\E i \in 1..Len(o) : o[i].name = name),
           NEW reach, reach = s \o o
    PROVE  Once(name, reach)
<1> DEFINE m == Len(s)
           n == Len(o)
           Here == {i \in DOMAIN reach : reach[i].name = name /\ reach[i].default \in DOMAIN reach[i].variants}
<1>1. /\ m \in Nat /\ n \in Nat /\ DOMAIN reach = 1..(m + n)
      /\ \A i \in 1..m : reach[i] = s[i]
      /\ \A i \in 1..n : reach[m + i] = o[i]
  <2>1. s \in Seq(Range(s) \cup Range(o)) /\ o \in Seq(Range(s) \cup Range(o))
    OBVIOUS
  <2> QED
    BY <2>1
<1>2. \A i \in 1..(m + n) : i \in 1..m \/ \E j \in 1..n : i = m + j
  <2> SUFFICES ASSUME NEW i \in 1..(m + n), i \notin 1..m PROVE \E j \in 1..n : i = m + j
    OBVIOUS
  <2> HIDE DEF m, n
  <2>1. i - m \in 1..n /\ i = m + (i - m)
    BY <1>1
  <2> QED
    BY <2>1
<1>3. \A i \in 1..m : i \in 1..(m + n) /\ reach[i].default \in DOMAIN reach[i].variants
  <2> HIDE DEF m, n
  <2>1. \A i \in 1..m : i \in 1..(m + n)
    BY <1>1
  <2> QED
    BY <1>1, <2>1 DEF m
<1>4. \A j \in 1..n : m + j \in 1..(m + n) /\ reach[m + j].default \in DOMAIN reach[m + j].variants
  <2> HIDE DEF m, n
  <2>1. \A j \in 1..n : m + j \in 1..(m + n)
    BY <1>1
  <2> QED
    BY <1>1, <2>1 DEF n
<1>5. \A i \in 1..(m + n) : i \in Here <=> reach[i].name = name
  <2> HIDE DEF m, n
  <2> QED
    BY <1>1, <1>2, <1>3, <1>4
<1>6. Here \subseteq 1..(m + n)
  BY <1>1
<1> HIDE DEF Here
<1>7. \E k \in Here : Here = {k}
  <2>1. CASE \E i \in 1..m : s[i].name = name
    <3>1. PICK i \in 1..m : s[i].name = name
      BY <2>1
    <3>2. i \in Here
      BY <1>1, <1>3, <1>5, <3>1
    <3>3. ASSUME NEW k \in Here PROVE k = i
      <4>1. CASE k \in 1..m
        <5>1. s[k].name = name
          BY <1>1, <1>5, <1>6, <4>1
        <5> QED
          BY <3>1, <4>1, <5>1
      <4>2. CASE \E j \in 1..n : k = m + j
        <5>1. PICK j \in 1..n : k = m + j
          BY <4>2
        <5>2. o[j].name = name
          BY <1>1, <1>5, <1>6, <5>1
        <5> QED
          BY <3>1, <5>1, <5>2
      <4> QED
        BY <1>2, <1>6, <4>1, <4>2
    <3>4. Here = {i}
      BY <3>2, <3>3, Zenon
    <3> QED
      BY <3>2, <3>4, Zenon
  <2>2. CASE \E i \in 1..n : o[i].name = name
    <3>1. PICK i \in 1..n : o[i].name = name
      BY <2>2
    <3>2. m + i \in Here
      BY <1>1, <1>4, <1>5, <3>1
    <3>3. ASSUME NEW k \in Here PROVE k = m + i
      <4>1. CASE k \in 1..m
        <5>1. s[k].name = name
          BY <1>1, <1>5, <1>6, <4>1
        <5> QED
          BY <3>1, <4>1, <5>1
      <4>2. CASE \E j \in 1..n : k = m + j
        <5>1. PICK j \in 1..n : k = m + j
          BY <4>2
        <5>2. o[j].name = o[i].name
          BY <1>1, <1>5, <1>6, <3>1, <5>1
        <5> QED
          BY <3>1, <5>1, <5>2
      <4> QED
        BY <1>2, <1>6, <4>1, <4>2
    <3>4. Here = {m + i}
      BY <3>2, <3>3, Zenon
    <3> QED
      BY <3>2, <3>4, Zenon
  <2> QED
    BY <2>1, <2>2
<1>8. PICK k \in Here : Here = {k}
  BY <1>7
<1>9. Cardinality(Here) = 1
  BY <1>8, FS_Singleton
<1> QED
  BY <1>9 DEF Here, Once

\* Slots that line up: each is named once and has its default, and a text that they
\* are to serve refers to them only.
LEMMA LinedUp ==
    ASSUME NEW slots, slots \in Seq(Range(slots)), NEW texts,
           SlotsLineUp(slots, References(texts)),
           NEW project, NEW rendered, rendered = render_slots(slots, project).slots
    PROVE  /\ rendered \in Seq(Range(rendered))
           /\ \A i, j \in 1..Len(rendered) : rendered[i].name = rendered[j].name => i = j
           /\ \A i \in 1..Len(rendered) : rendered[i].default \in DOMAIN rendered[i].variants
           /\ \A i \in 1..Len(rendered) : rendered[i].name \in Names(slots)
           /\ \A t \in texts : \A name \in slot_references(t) : \E i \in 1..Len(rendered) : rendered[i].name = name
<1>1. /\ Len(rendered) = Len(slots) /\ rendered \in Seq(Range(rendered))
      /\ \A i \in 1..Len(slots) : /\ rendered[i].name = slots[i].name /\ rendered[i].default = slots[i].default
                                  /\ DOMAIN rendered[i].variants = DOMAIN slots[i].variants
  BY RenderedSlots
<1>2. DOMAIN slots = 1..Len(slots)
  OBVIOUS
<1>3. /\ \A i, j \in 1..Len(slots) : slots[i].name = slots[j].name => i = j
      /\ \A i \in 1..Len(slots) : slots[i].default \in DOMAIN slots[i].variants
      /\ References(texts) = Names(slots)
  BY <1>2 DEF SlotsLineUp, check_slot_shape
<1>4. Names(slots) = {slots[i].name : i \in 1..Len(slots)}
  BY <1>2 DEF Names
<1>5. \A t \in texts : slot_references(t) \subseteq Names(slots)
  BY <1>3, ReferredIn
<1>6. \A t \in texts : \A name \in slot_references(t) : \E i \in 1..Len(rendered) : rendered[i].name = name
  BY <1>1, <1>4, <1>5
<1>7. \A i \in 1..Len(rendered) : rendered[i].name \in Names(slots)
  BY <1>1, <1>4
<1> QED
  BY <1>1, <1>3, <1>6, <1>7

\* The texts of a node of one mount: what they refer to is what the mount's component or
\* the profile declares, and no placeholder is left in them.
LEMMA NodeTexts ==
    ASSUME NEW profile, NEW component, NEW mount, NEW project, NEW l,
           NEW n, n = Node(profile, component, mount, project, l),
           component.slots \in Seq(Range(component.slots)),
           check_placeholders(profile, component, mount, project),
           NEW t \in Emits(n)
    PROVE  /\ \A p \in t : p.is \notin Placeholders \cup {"unknown", "statement"}
           /\ slot_references(t) \subseteq component_slot_reference_names(component, mount)
                                           \cup slot_references(profile.system_prompt)
<1> DEFINE texts == {component.steps[i].prompt : i \in DOMAIN component.steps}
                    \cup {Own(component, mount)} \cup VariantTexts(component.slots)
<1>1. /\ n.llm_calls = resolve_llm_calls(component, mount, project)
      /\ n.brief = render_brief(profile, component, mount, project).text
      /\ n.slots = render_slots(component.slots, project).slots
  BY DEF Node
<1>2. component_slot_reference_names(component, mount) = References(texts)
  BY DEF component_slot_reference_names
<1>3. \A u \in texts : slot_references(u) \subseteq References(texts)
  <2> HIDE DEF texts
  <2> QED
    BY ReferredIn
<1>4. ASSUME NEW u \in texts, t = Rendered(u, project), Renders(u, project)
      PROVE  /\ \A p \in t : p.is \notin Placeholders \cup {"unknown", "statement"}
             /\ slot_references(t) \subseteq References(texts)
  <2> HIDE DEF texts
  <2> QED
    BY <1>3, <1>4, RenderedFacts
<1>5. CASE \E i \in DOMAIN n.llm_calls : t = n.llm_calls[i].prompt
  <2>0. PICK i \in DOMAIN n.llm_calls : t = n.llm_calls[i].prompt
    BY <1>5
  <2>1. i \in DOMAIN component.steps /\ t = Rendered(component.steps[i].prompt, project)
    <3>1. DOMAIN n.llm_calls = DOMAIN component.steps
      BY <1>1 DEF resolve_llm_calls
    <3>2. i \in DOMAIN component.steps
      BY <2>0, <3>1
    <3>3. n.llm_calls[i].prompt = Rendered(component.steps[i].prompt, project)
      BY <1>1, <3>2 DEF resolve_llm_calls
    <3> QED
      BY <2>0, <3>2, <3>3
  <2>2. PICK u : u = component.steps[i].prompt
    OBVIOUS
  <2>3. Renders(u, project) /\ u \in texts /\ t = Rendered(u, project)
    BY <2>1, <2>2 DEF check_placeholders
  <2> HIDE DEF texts
  <2>4. /\ \A p \in t : p.is \notin Placeholders \cup {"unknown", "statement"}
        /\ slot_references(t) \subseteq References(texts)
    BY <1>4, <2>3, Zenon
  <2> QED
    BY <1>2, <2>4
<1>6. CASE t = n.brief
  <2>1. render_brief(profile, component, mount, project).ok
    BY DEF check_placeholders
  <2>2. slot_references(Own(component, mount)) \subseteq References(texts)
    BY <1>3
  <2>3. /\ slot_references(t) \subseteq slot_references(Own(component, mount)) \cup slot_references(profile.system_prompt)
        /\ \A p \in t : p.is \notin Placeholders \cup {"unknown", "statement"}
    BY <1>1, <1>6, <2>1, BriefFacts
  <2> QED
    BY <1>2, <2>2, <2>3
<1>7. CASE t \in VariantTexts(n.slots)
  <2>1. PICK v \in VariantTexts(component.slots) : t = Rendered(v, project)
    <3>1. PICK slots : slots = component.slots /\ slots \in Seq(Range(slots))
      OBVIOUS
    <3>2. PICK rendered : rendered = n.slots /\ rendered = render_slots(slots, project).slots
      BY <1>1, <3>1
    <3>3. VariantTexts(rendered) \subseteq {Rendered(v, project) : v \in VariantTexts(slots)}
      BY <3>1, <3>2, RenderedSlots
    <3> QED
      BY <1>7, <3>1, <3>2, <3>3
  <2>2. Renders(v, project) /\ v \in texts
    BY DEF check_placeholders, render_slots
  <2> QED
    BY <1>2, <1>4, <2>1, <2>2
<1> QED
  BY <1>5, <1>6, <1>7 DEF Emits

\* What the preconditions of a component come to, one by one.
LEMMA OutcomeFacts ==
    ASSUME NEW component, component.preconditions \in Seq(Range(component.preconditions)),
           NEW l, NEW binds, NEW outcomes, outcomes = evaluate_preconditions(component, l, binds)
    PROVE  /\ Len(outcomes) \in Nat
           /\ DOMAIN outcomes = 1..Len(outcomes) /\ DOMAIN component.preconditions = 1..Len(outcomes)
           /\ \A i \in 1..Len(outcomes) :
                /\ outcomes[i].condition.predicate = component.preconditions[i].predicate
                /\ outcomes[i].outcome \in {"undeclared", "unanswerable", "pass", "fail"}
                /\ outcomes[i].outcome \in {"pass", "fail"} =>
                     outcomes[i].outcome =
                        eval_predicate(outcomes[i].condition.predicate, outcomes[i].condition.args, l)
<1> DEFINE r(i) == resolve_precondition_args(component.preconditions[i].args, component, binds)
           n == Len(component.preconditions)
           entry(i) ==
             [outcome |-> IF ~r(i).declared THEN "undeclared"
                          ELSE IF ~r(i).resolved THEN "unanswerable"
                          ELSE eval_predicate(component.preconditions[i].predicate, r(i).args, l),
              condition |-> Precondition(component.preconditions[i].predicate, r(i).args)]
<1>1. n \in Nat /\ DOMAIN component.preconditions = 1..n
  OBVIOUS
<1>2. outcomes = [i \in DOMAIN component.preconditions |-> entry(i)]
  BY DEF evaluate_preconditions
<1> HIDE DEF n
<1>3. outcomes = [i \in 1..n |-> entry(i)]
  BY <1>1, <1>2
<1>4. Len(outcomes) = n /\ DOMAIN outcomes = 1..n
  <2> HIDE DEF entry
  <2> QED
    BY <1>1, <1>3
<1>5. ASSUME NEW i \in 1..n
      PROVE  /\ outcomes[i].condition.predicate = component.preconditions[i].predicate
             /\ outcomes[i].outcome \in {"undeclared", "unanswerable", "pass", "fail"}
             /\ outcomes[i].outcome \in {"pass", "fail"} =>
                  outcomes[i].outcome =
                     eval_predicate(outcomes[i].condition.predicate, outcomes[i].condition.args, l)
  <2> HIDE DEF r
  <2>1. outcomes[i] = entry(i)
    BY <1>3
  <2>2. /\ outcomes[i].condition.predicate = component.preconditions[i].predicate
        /\ outcomes[i].condition.args = r(i).args
    BY <2>1 DEF Precondition
  <2>3. outcomes[i].outcome = IF ~r(i).declared THEN "undeclared"
                              ELSE IF ~r(i).resolved THEN "unanswerable"
                              ELSE eval_predicate(component.preconditions[i].predicate, r(i).args, l)
    BY <2>1
  <2> HIDE DEF entry
  <2>4. eval_predicate(component.preconditions[i].predicate, r(i).args, l) \in {"pass", "fail", "unanswerable"}
    BY OutcomesAreThree
  <2> QED
    BY <2>2, <2>3, <2>4
<1> QED
  BY <1>1, <1>4, <1>5

\* Every precondition of a mount in which no fault is found passes; one that is found
\* not satisfied was evaluated.
LEMMA PreconditionsPass ==
    ASSUME NEW component, component.preconditions \in Seq(Range(component.preconditions)),
           NEW l, NEW binds, NEW outcomes, outcomes = evaluate_preconditions(component, l, binds)
    PROVE  /\ check_precondition_vocabulary(component)
              /\ FirstRefusal(outcomes) \notin {"undeclared", "unanswerable", "fail"} =>
                \A i \in DOMAIN outcomes :
                   /\ outcomes[i].condition.predicate \in PRECONDITION_VOCABULARY
                   /\ eval_predicate(outcomes[i].condition.predicate, outcomes[i].condition.args, l) = "pass"
           /\ FirstRefusal(outcomes) = "fail" => was_introspected(l)
<1> DEFINE n == Len(outcomes)
<1>1. /\ n \in Nat /\ DOMAIN outcomes = 1..n /\ DOMAIN component.preconditions = 1..n
      /\ \A i \in 1..n : /\ outcomes[i].condition.predicate = component.preconditions[i].predicate
                         /\ outcomes[i].outcome \in {"undeclared", "unanswerable", "pass", "fail"}
                         /\ outcomes[i].outcome \in {"pass", "fail"} =>
                              outcomes[i].outcome =
                                eval_predicate(outcomes[i].condition.predicate, outcomes[i].condition.args, l)
  BY OutcomeFacts
<1>2. \A i \in 1..n : outcomes[i].outcome # NotGiven
  BY <1>1, NamesAreGiven
<1>3. /\ FirstRefusal(outcomes) = NotGiven => \A i \in 1..n : outcomes[i].outcome = "pass"
      /\ FirstRefusal(outcomes) # NotGiven =>
           \E i \in 1..n : FirstRefusal(outcomes) = outcomes[i].outcome /\ outcomes[i].outcome # "pass"
  BY <1>1, <1>2, FirstRefusalFacts
<1> HIDE DEF n
<1>4. FirstRefusal(outcomes) \notin {"undeclared", "unanswerable", "fail"} =>
        \A i \in 1..n : outcomes[i].outcome = "pass"
  BY <1>1, <1>3
<1>5. check_precondition_vocabulary(component) =>
        \A i \in 1..n : outcomes[i].condition.predicate \in PRECONDITION_VOCABULARY
  BY <1>1 DEF check_precondition_vocabulary
<1>6. ASSUME FirstRefusal(outcomes) = "fail"
      PROVE  was_introspected(l)
  <2>1. PICK i \in 1..n : outcomes[i].outcome = "fail"
    BY <1>3, <1>6, NamesAreGiven
  <2>2. PICK p, args : eval_predicate(p, args, l) = "fail"
    BY <1>1, <2>1
  <2>3. can_answer(l, p)
    BY <2>2, OutcomesAreThree
  <2>4. p \in PRECONDITION_VOCABULARY
    BY <2>3 DEF can_answer, PRECONDITION_VOCABULARY
  <2> QED
    BY <2>3, <2>4 DEF was_introspected
<1> QED
  BY <1>1, <1>4, <1>5, <1>6

-------------------------------------------------------------------------------
(* Compilation and the host that admits it.                                    *)

Request == [version |-> 1, context |-> prepared_document_from(snapshot), preconditions |-> Resolved(compiled.ir)]
CompiledNow == compile(authored.profile, authored.components, authored.project, authored.layer)

\* The invariant: what is compiled is of what was authored, a host looks at a layer
\* only after it, and answers from what it saw.
AdmitInv ==
    /\ WellFormed(authored)
    /\ compiled = NotYet \/ compiled = CompiledNow
    /\ snapshot # NoContext => compiled.ok /\ WellKept(snapshot)
    /\ admitted \in {"no_answer", "admitted", "refused"}
    /\ admitted # "no_answer" => snapshot # NoContext /\ (admitted = "admitted" <=> context_check(Request))

\* The node n is what the compiler makes of a mount whose checks held.
MountedAs(n, mount, component, project, outcomes) ==
    /\ component = authored.components[n.id]
    /\ n = Node(authored.profile, component, mount, project, authored.layer)
    /\ component.preconditions \in Seq(Range(component.preconditions))
    /\ \A g \in Range(component.guardrails) : g.locked \in {"yes", "no", NotGiven}
    /\ check_precondition_vocabulary(component)
    /\ check_capability_ceiling(component, authored.profile)
    /\ check_step_capabilities(component)
    /\ resolve_guardrails(component, mount).ok
    /\ check_component_slots(component, mount)
    /\ check_placeholders(authored.profile, component, mount, project)
    /\ \E i \in DOMAIN authored.profile.components :
         mount = authored.profile.components[i] /\ component = authored.components[mount.use]
    /\ outcomes = evaluate_preconditions(component, authored.layer, resolve_binds(component, mount))
    /\ FirstRefusal(outcomes) \notin {"undeclared", "unanswerable", "fail"}

\* A node is of the mount at its place, whose checks all hold.
LEMMA NodesAreMounted ==
    ASSUME AdmitInv, NEW n \in Nodes
    PROVE  /\ compiled = CompiledNow /\ compiled.ok
           /\ compiled.ir.ceiling = authored.profile.ceiling
           /\ compiled.ir.slots = render_slots(authored.profile.slots, compiled.ir.project).slots
           /\ check_profile_slots(authored.profile, authored.components)
           /\ check_component_composition(authored.profile, authored.components)
           /\ \E mount, component, project, outcomes : MountedAs(n, mount, component, project, outcomes)
<1>0. PICK k \in DOMAIN compiled.ir.components : n = compiled.ir.components[k]
  BY DEF Nodes
<1> DEFINE project == ProjectOf(authored.profile, authored.project)
           faultsOf(i) == MountFaults(authored.profile, authored.components[authored.profile.components[i].use],
                                      authored.profile.components[i], project, authored.layer)
<1>1. NoIR.components = <<>>
  BY DEF NoIR
<1>2. compiled # NotYet
  BY <1>0, <1>1 DEF NotYet
<1>3. compiled = CompiledNow
  BY <1>2 DEF AdmitInv
<1>4. authored.profile.components \in Seq(Range(authored.profile.components))
  BY DEF AdmitInv, WellFormed
<1>5. /\ compiled.ok \in BOOLEAN
      /\ ~compiled.ok => compiled.ir = NoIR
      /\ compiled.ok => /\ compiled.ir = Emitted(authored.profile, authored.components, project, authored.layer)
                        /\ check_component_composition(authored.profile, authored.components)
                        /\ check_profile_slots(authored.profile, authored.components)
                        /\ \A i \in DOMAIN authored.profile.components : FirstFault(faultsOf(i)) = NotGiven
  BY <1>3, <1>4, CompiledFacts DEF CompiledNow
<1> HIDE DEF project, faultsOf
<1>6. compiled.ok
  BY <1>0, <1>1, <1>5, SMTT(30)
<1>7. /\ compiled.ir.ceiling = authored.profile.ceiling
      /\ compiled.ir.slots = render_slots(authored.profile.slots, compiled.ir.project).slots
      /\ compiled.ir.components = [i \in DOMAIN authored.profile.components |->
            LET m == authored.profile.components[i]
            IN  Node(authored.profile, authored.components[m.use], m, project, authored.layer)]
  BY <1>5, <1>6 DEF Emitted
<1>8. PICK mount : mount = authored.profile.components[k] /\ k \in DOMAIN authored.profile.components
  BY <1>0, <1>7
<1>9. mount.use \in DOMAIN authored.components
  BY <1>5, <1>6, <1>8 DEF check_component_composition
<1>10. PICK component : component = authored.components[mount.use]
  OBVIOUS
<1>11. PICK outcomes : outcomes = evaluate_preconditions(component, authored.layer, resolve_binds(component, mount))
  OBVIOUS
<1>12. n = Node(authored.profile, component, mount, project, authored.layer)
  BY <1>0, <1>7, <1>8, <1>10
<1>13. n.id = component.id
  BY <1>12 DEF Node
<1>14. /\ component.id = mount.use
       /\ component.preconditions \in Seq(Range(component.preconditions))
       /\ \A g \in Range(component.guardrails) : g.locked \in {"yes", "no", NotGiven}
  BY <1>9, <1>10 DEF AdmitInv, WellFormed
<1>15. /\ check_precondition_vocabulary(component)
       /\ check_capability_ceiling(component, authored.profile)
       /\ check_step_capabilities(component)
       /\ resolve_guardrails(component, mount).ok
       /\ check_component_slots(component, mount)
       /\ check_placeholders(authored.profile, component, mount, project)
       /\ FirstRefusal(outcomes) \notin {"undeclared", "unanswerable", "fail"}
  <2>1. FirstFault(MountFaults(authored.profile, component, mount, project, authored.layer)) = NotGiven
    BY <1>5, <1>6, <1>8, <1>10 DEF faultsOf
  <2> QED
    BY <1>11, <2>1, MountFaultsFacts
<1>16. component = authored.components[n.id]
  BY <1>10, <1>13, <1>14
<1>17. MountedAs(n, mount, component, project, outcomes)
  BY <1>8, <1>10, <1>11, <1>12, <1>14, <1>15, <1>16, Zenon DEF MountedAs
<1> QED
  BY <1>3, <1>5, <1>6, <1>7, <1>17, Zenon

LEMMA NodeFields ==
    ASSUME NEW profile, NEW component, NEW mount, NEW project, NEW l,
           NEW n, n = Node(profile, component, mount, project, l)
    PROVE  /\ n.required_capabilities = effective_required_capabilities(component)
           /\ n.llm_calls = resolve_llm_calls(component, mount, project)
           /\ n.guardrails = resolve_guardrails(component, mount).guardrails
  BY DEF Node

\* A node whose checks hold is authorized.
LEMMA MountsAuthorize ==
    ASSUME NEW profile, NEW component, NEW mount, NEW project, NEW l,
           NEW n, n = Node(profile, component, mount, project, l),
           \A g \in Range(component.guardrails) : g.locked \in {"yes", "no", NotGiven},
           check_capability_ceiling(component, profile),
           check_step_capabilities(component),
           resolve_guardrails(component, mount).ok
    PROVE  IsAuthorized(n, component, profile.ceiling)
<1>1. /\ n.required_capabilities = effective_required_capabilities(component)
      /\ n.llm_calls = resolve_llm_calls(component, mount, project)
      /\ n.guardrails = resolve_guardrails(component, mount).guardrails
  BY NodeFields
<1>2. profile.ceiling.given => n.required_capabilities \subseteq profile.ceiling.admits
  BY <1>1 DEF check_capability_ceiling
<1>3. ASSUME NEW i \in DOMAIN n.llm_calls
      PROVE  /\ n.llm_calls[i].capabilities \subseteq n.required_capabilities
             /\ n.llm_calls[i].calls # {} =>
                  /\ COMPONENT_INVOCATION_CAPABILITY \in n.required_capabilities
                  /\ n.llm_calls[i].capabilities # {} =>
                       COMPONENT_INVOCATION_CAPABILITY \in n.llm_calls[i].capabilities
  BY <1>1, StepsAreAuthorized
<1>4. ASSUME NEW i \in DOMAIN component.guardrails,
             component.guardrails[i].locked = "yes" \/ component.guardrails[i].overridable = "no"
      PROVE  n.guardrails[i].locked
  <2>1. component.guardrails[i].locked \in {"yes", "no", NotGiven}
    BY DEF Range
  <2> QED
    BY <1>1, <1>4, <2>1, LocksAreKept
<1> QED
  BY <1>2, <1>3, <1>4 DEF IsAuthorized

\* What compiles is authorized: of each node, by the checks of its mount.
LEMMA CompiledAuthorized == AdmitInv => CompiledIsAuthorized
<1> SUFFICES ASSUME AdmitInv, NEW n \in Nodes
             PROVE  IsAuthorized(n, authored.components[n.id], compiled.ir.ceiling)
  BY DEF CompiledIsAuthorized
<1>1. compiled.ir.ceiling = authored.profile.ceiling
  BY NodesAreMounted, Zenon
<1>2. PICK mount, component, project, outcomes : MountedAs(n, mount, component, project, outcomes)
  BY NodesAreMounted, Zenon
<1>3. /\ component = authored.components[n.id]
      /\ n = Node(authored.profile, component, mount, project, authored.layer)
      /\ \A g \in Range(component.guardrails) : g.locked \in {"yes", "no", NotGiven}
      /\ check_capability_ceiling(component, authored.profile)
      /\ check_step_capabilities(component)
      /\ resolve_guardrails(component, mount).ok
  BY <1>2, Zenon DEF MountedAs
<1>4. IsAuthorized(n, component, authored.profile.ceiling)
  BY <1>3, MountsAuthorize, Zenon
<1> QED
  BY <1>1, <1>3, <1>4, Zenon

\* Every condition of what compiles is in the vocabulary, and passed over the layer
\* that was authored.
LEMMA ConditionsPassed ==
    ASSUME AdmitInv, NEW c \in Conditions
    PROVE  /\ c.predicate \in PRECONDITION_VOCABULARY
           /\ eval_predicate(c.predicate, c.args, authored.layer) = "pass"
<1>1. PICK n \in Nodes : c \in Range(n.preconditions)
  BY DEF Conditions, Resolved, Nodes
<1>2. PICK mount, component, project, outcomes : MountedAs(n, mount, component, project, outcomes)
  BY NodesAreMounted, Zenon
<1>3. /\ n = Node(authored.profile, component, mount, project, authored.layer)
      /\ component.preconditions \in Seq(Range(component.preconditions))
      /\ check_precondition_vocabulary(component)
      /\ outcomes = evaluate_preconditions(component, authored.layer, resolve_binds(component, mount))
      /\ FirstRefusal(outcomes) \notin {"undeclared", "unanswerable", "fail"}
  BY <1>2, Zenon DEF MountedAs
<1>4. PICK i \in DOMAIN outcomes : c = outcomes[i].condition
  <2>1. n.preconditions = [i \in DOMAIN outcomes |-> outcomes[i].condition]
    BY <1>3 DEF Node
  <2> QED
    BY <1>1, <2>1 DEF Range
<1> QED
  BY <1>3, <1>4, PreconditionsPass

\* A condition that names what it should is verified by exactly those layers that
\* make it pass.
LEMMA VerifiedWhenNamed ==
    ASSUME NEW c, NEW l, c.predicate \in PRECONDITION_VOCABULARY, ~Unnamed(c),
           eval_predicate(c.predicate, c.args, l) = "pass"
    PROVE  Verifies(c, l)
  BY DEF Unnamed, Verifies, IsText

\* What a host that admitted saw, and what one that refused had not.
LEMMA CompiledStands == AdmitInv => CompiledStandsAtRuntime
<1> SUFFICES ASSUME AdmitInv PROVE CompiledStandsAtRuntime
  OBVIOUS
<1> DEFINE read == from_json(prepared_document_from(snapshot))
<1>1. admitted # "no_answer" => compiled.ok /\ WellKept(snapshot)
  BY DEF AdmitInv
<1>2. context_check(Request) <=> read.ok /\ verify_context_preconditions(Conditions, read.context)
  BY DEF context_check, Request, Conditions
<1> HIDE DEF read
<1>3. ASSUME admitted = "admitted", NEW c \in Conditions
      PROVE  ~Unnamed(c) /\ eval_predicate_uncensored(c.predicate, c.args, snapshot) # "fail"
  <2>1. Verifies(c, read.context)
    BY <1>2, <1>3 DEF AdmitInv, verify_context_preconditions
  <2>2. eval_predicate_uncensored(c.predicate, c.args, read.context) = "pass"
    BY <2>1, OutcomesAreThree DEF Verifies
  <2>3. eval_predicate_uncensored(c.predicate, c.args, snapshot) = "pass"
    BY <1>1, <1>3, <2>2, SameAnswers DEF read
  <2>4. ~Unnamed(c)
    BY <2>1 DEF Verifies, Unnamed, IsText
  <2> QED
    BY <2>3, <2>4
<1>4. ASSUME admitted = "refused", snapshot = authored.layer
      PROVE  \E c \in Conditions : Unnamed(c)
  <2> SUFFICES ASSUME \A c \in Conditions : ~Unnamed(c) PROVE FALSE
    OBVIOUS
  <2>1. read.ok
    BY <1>1, <1>4, SameAnswers DEF read
  <2>2. ASSUME NEW c \in Conditions PROVE Verifies(c, read.context)
    <3>1. /\ c.predicate \in PRECONDITION_VOCABULARY
          /\ eval_predicate(c.predicate, c.args, snapshot) = "pass"
      BY <1>4, ConditionsPassed
    <3>2. /\ can_answer(snapshot, c.predicate)
          /\ eval_predicate_uncensored(c.predicate, c.args, snapshot) = "pass"
      BY <3>1, OutcomesAreThree
    <3>3. /\ can_answer(read.context, c.predicate)
          /\ eval_predicate_uncensored(c.predicate, c.args, read.context) = "pass"
      BY <1>1, <1>4, <3>2, SameAnswers DEF read
    <3>4. eval_predicate(c.predicate, c.args, read.context) = "pass"
      BY <3>3 DEF eval_predicate
    <3> QED
      BY <3>1, <3>4, VerifiedWhenNamed
  <2> QED
    BY <1>2, <1>4, <2>1, <2>2 DEF AdmitInv, verify_context_preconditions
<1>5. ASSUME compiled.fault = "not_satisfied"
      PROVE  was_introspected(authored.layer)
  <2> DEFINE project == ProjectOf(authored.profile, authored.project)
  <2>1. compiled = CompiledNow
    BY <1>5 DEF AdmitInv, NotYet
  <2>2. authored.profile.components \in Seq(Range(authored.profile.components))
    BY DEF AdmitInv, WellFormed
  <2>3. /\ check_component_composition(authored.profile, authored.components)
        /\ \E i \in DOMAIN authored.profile.components :
              LET m == authored.profile.components[i]
              IN  FirstFault(MountFaults(authored.profile, authored.components[m.use], m, project, authored.layer))
                    = "not_satisfied"
    <3> HIDE DEF project
    <3>1. project = ProjectOf(authored.profile, authored.project)
      BY DEF project
    <3>2. compiled = compile(authored.profile, authored.components, authored.project, authored.layer)
      BY <2>1 DEF CompiledNow
    <3> QED
      BY <1>5, <2>2, <3>1, <3>2, CompiledFacts
  <2> HIDE DEF project
  <2>4. PICK m : /\ \E i \in DOMAIN authored.profile.components : m = authored.profile.components[i]
                 /\ FirstFault(MountFaults(authored.profile, authored.components[m.use], m, project,
                                           authored.layer)) = "not_satisfied"
    BY <2>3
  <2>5. PICK component : component = authored.components[m.use]
    BY Zenon
  <2>6. component.preconditions \in Seq(Range(component.preconditions))
    BY <2>3, <2>4, <2>5 DEF check_component_composition, AdmitInv, WellFormed
  <2>7. FirstRefusal(evaluate_preconditions(component, authored.layer, resolve_binds(component, m))) = "fail"
    BY <2>4, <2>5, MountFaultsFacts
  <2> QED
    BY <2>6, <2>7, PreconditionsPass
<1> QED
  BY <1>3, <1>4, <1>5 DEF CompiledStandsAtRuntime

\* Every slot that a text names is declared once within its reach.
LEMMA CompiledResolves == AdmitInv => SlotsResolve
<1> SUFFICES ASSUME AdmitInv, NEW n \in Nodes
             PROVE  /\ \A t \in Emits(n) \cup VariantTexts(compiled.ir.slots) :
                         \A name \in slot_references(t) : Once(name, n.slots \o compiled.ir.slots)
                    /\ \A t \in Emits(n) : \A p \in t : p.is \notin Placeholders \cup {"unknown", "statement"}
  BY DEF SlotsResolve, Once
<1>1. PICK mount, component, project, outcomes : MountedAs(n, mount, component, project, outcomes)
  BY NodesAreMounted, Zenon
<1>2. /\ n = Node(authored.profile, component, mount, project, authored.layer)
      /\ check_component_slots(component, mount)
      /\ check_placeholders(authored.profile, component, mount, project)
      /\ \E i \in DOMAIN authored.profile.components :
           mount = authored.profile.components[i] /\ component = authored.components[mount.use]
  BY <1>1, Zenon DEF MountedAs
<1>3. /\ compiled.ir.slots = render_slots(authored.profile.slots, compiled.ir.project).slots
      /\ check_profile_slots(authored.profile, authored.components)
      /\ check_component_composition(authored.profile, authored.components)
  BY NodesAreMounted, Zenon
<1>4. mount.use \in DOMAIN authored.components
  BY <1>2, <1>3, Zenon DEF check_component_composition
<1>5. component.slots \in Seq(Range(component.slots)) /\ authored.profile.slots \in Seq(Range(authored.profile.slots))
  BY <1>2, <1>4, Zenon DEF AdmitInv, WellFormed
<1>6. n.slots = render_slots(component.slots, project).slots
  BY <1>2, Zenon DEF Node
<1> DEFINE inner == {component.steps[i].prompt : i \in DOMAIN component.steps}
                    \cup {Own(component, mount)} \cup VariantTexts(component.slots)
           outer == {authored.profile.system_prompt} \cup VariantTexts(authored.profile.slots)
<1>7. /\ SlotsLineUp(component.slots, References(inner))
      /\ component_slot_reference_names(component, mount) = References(inner)
      /\ SlotsLineUp(authored.profile.slots, References(outer))
      /\ References(inner) = Names(component.slots) /\ References(outer) = Names(authored.profile.slots)
  BY <1>2, <1>3, Zenon DEF check_component_slots, component_slot_reference_names, check_profile_slots, SlotsLineUp
<1>8. Names(authored.profile.slots) \cap Names(component.slots) = {}
  BY <1>2, <1>3, <1>4, Zenon DEF check_profile_slots
<1>9. /\ authored.profile.system_prompt \in outer
      /\ VariantTexts(authored.profile.slots) \subseteq outer
  OBVIOUS
<1> HIDE DEF inner, outer
<1>10. PICK s : /\ s = n.slots /\ s \in Seq(Range(s))
                /\ \A i, j \in 1..Len(s) : s[i].name = s[j].name => i = j
                /\ \A i \in 1..Len(s) : s[i].default \in DOMAIN s[i].variants
                /\ \A i \in 1..Len(s) : s[i].name \in Names(component.slots)
                /\ Len(s) = Len(component.slots)
                /\ \A i \in 1..Len(s) : s[i].name = component.slots[i].name
  <2>0. PICK slots : slots = component.slots /\ slots \in Seq(Range(slots))
    BY <1>5
  <2>1. PICK s : s = n.slots /\ s = render_slots(slots, project).slots
    BY <1>6, <2>0
  <2>2. SlotsLineUp(slots, References(inner))
    BY <1>7, <2>0
  <2>3. /\ s \in Seq(Range(s))
        /\ \A i, j \in 1..Len(s) : s[i].name = s[j].name => i = j
        /\ \A i \in 1..Len(s) : s[i].default \in DOMAIN s[i].variants
        /\ \A i \in 1..Len(s) : s[i].name \in Names(slots)
    BY <2>0, <2>1, <2>2, LinedUp
  <2>4. Len(s) = Len(slots) /\ \A i \in 1..Len(slots) : s[i].name = slots[i].name
    BY <2>0, <2>1, RenderedSlots
  <2> QED
    BY <2>0, <2>1, <2>3, <2>4
<1>11. PICK o : /\ o = compiled.ir.slots /\ o \in Seq(Range(o))
                /\ \A i, j \in 1..Len(o) : o[i].name = o[j].name => i = j
                /\ \A i \in 1..Len(o) : o[i].default \in DOMAIN o[i].variants
                /\ \A i \in 1..Len(o) : o[i].name \in Names(authored.profile.slots)
                /\ Len(o) = Len(authored.profile.slots)
                /\ \A i \in 1..Len(o) : o[i].name = authored.profile.slots[i].name
                /\ \A t \in VariantTexts(o) : \E v \in VariantTexts(authored.profile.slots) :
                     t = Rendered(v, compiled.ir.project)
  <2>0. PICK slots : slots = authored.profile.slots /\ slots \in Seq(Range(slots))
    BY <1>5
  <2>1. PICK as_given : as_given = compiled.ir.project
    OBVIOUS
  <2>2. PICK o : o = compiled.ir.slots /\ o = render_slots(slots, as_given).slots
    BY <1>3, <2>0, <2>1
  <2>3. SlotsLineUp(slots, References(outer))
    BY <1>7, <2>0
  <2>4. /\ o \in Seq(Range(o))
        /\ \A i, j \in 1..Len(o) : o[i].name = o[j].name => i = j
        /\ \A i \in 1..Len(o) : o[i].default \in DOMAIN o[i].variants
        /\ \A i \in 1..Len(o) : o[i].name \in Names(slots)
    BY <2>0, <2>2, <2>3, LinedUp
  <2>5. Len(o) = Len(slots) /\ \A i \in 1..Len(slots) : o[i].name = slots[i].name
    BY <2>0, <2>2, RenderedSlots
  <2>6. VariantTexts(o) \subseteq {Rendered(v, as_given) : v \in VariantTexts(slots)}
    <3>1. slots \in Seq(Range(slots)) /\ o = render_slots(slots, as_given).slots
      BY <2>0, <2>2
    <3> HIDE DEF AdmitInv
    <3> QED
      BY ONLY <3>1, RenderedSlots
  <2> QED
    BY <2>0, <2>1, <2>2, <2>4, <2>5, <2>6
<1>12. \A i \in 1..Len(s), j \in 1..Len(o) : s[i].name # o[j].name
  BY <1>8, <1>10, <1>11
<1>13. /\ Names(component.slots) = {s[i].name : i \in 1..Len(s)}
       /\ Names(authored.profile.slots) = {o[i].name : i \in 1..Len(o)}
  <2>1. PICK own, shared : /\ own = component.slots /\ own \in Seq(Range(own))
                           /\ shared = authored.profile.slots /\ shared \in Seq(Range(shared))
    BY <1>5
  <2>2. DOMAIN own = 1..Len(own) /\ DOMAIN shared = 1..Len(shared)
    BY <2>1
  <2>3. Len(s) = Len(own) /\ \A i \in 1..Len(own) : s[i].name = own[i].name
    BY <1>10, <2>1
  <2>4. Names(own) = {s[i].name : i \in 1..Len(s)}
    BY <2>2, <2>3 DEF Names
  <2>5. Len(o) = Len(shared) /\ \A i \in 1..Len(shared) : o[i].name = shared[i].name
    BY <1>11, <2>1
  <2>6. Names(shared) = {o[i].name : i \in 1..Len(o)}
    BY <2>2, <2>5 DEF Names
  <2> QED
    BY <2>1, <2>4, <2>6
<1>14. ASSUME NEW name \in Names(component.slots) \cup Names(authored.profile.slots),
              NEW reach, reach = n.slots \o compiled.ir.slots
       PROVE  Once(name, reach)
  <2>1. (\E i \in 1..Len(s) : s[i].name = name) \/ (\E i \in 1..Len(o) : o[i].name = name)
    BY <1>13
  <2>2. reach = s \o o
    BY <1>10, <1>11, <1>14
  <2>3. s \in Seq(Range(s)) /\ o \in Seq(Range(o))
    BY <1>10, <1>11
  <2>4. /\ \A i, j \in 1..Len(s) : s[i].name = s[j].name => i = j
        /\ \A i \in 1..Len(s) : s[i].default \in DOMAIN s[i].variants
    BY <1>10
  <2>5. /\ \A i, j \in 1..Len(o) : o[i].name = o[j].name => i = j
        /\ \A i \in 1..Len(o) : o[i].default \in DOMAIN o[i].variants
    BY <1>11
  <2> QED
    BY <1>12, <2>1, <2>2, <2>3, <2>4, <2>5, DeclaredOnce
<1>15. slot_references(authored.profile.system_prompt) \subseteq Names(authored.profile.slots)
  BY <1>7, <1>9, ReferredIn
<1>16. ASSUME NEW t \in Emits(n)
       PROVE  /\ \A p \in t : p.is \notin Placeholders \cup {"unknown", "statement"}
              /\ slot_references(t) \subseteq Names(component.slots) \cup Names(authored.profile.slots)
  <2>1. /\ \A p \in t : p.is \notin Placeholders \cup {"unknown", "statement"}
        /\ slot_references(t) \subseteq component_slot_reference_names(component, mount)
                                        \cup slot_references(authored.profile.system_prompt)
    BY <1>2, <1>5, NodeTexts, Zenon
  <2> QED
    BY <1>7, <1>15, <2>1
<1>17. ASSUME NEW t \in VariantTexts(compiled.ir.slots)
       PROVE  slot_references(t) \subseteq Names(authored.profile.slots)
  <2>1. PICK v \in VariantTexts(authored.profile.slots) : t = Rendered(v, compiled.ir.project)
    BY <1>11
  <2>2. slot_references(t) = slot_references(v)
    BY <2>1, RenderedFacts
  <2>3. slot_references(v) \subseteq References(outer)
    BY <1>9, ReferredIn
  <2> QED
    BY <1>7, <2>2, <2>3
<1> QED
  BY <1>14, <1>16, <1>17

LEMMA AdmitInitHolds == AdmitInit => AdmitInv
  BY AuthoredAssumption DEF AdmitInit, Uncompiled, AdmitInv

LEMMA AdmitStep == AdmitInv /\ [AdmitNext]_admitVars => AdmitInv'
<1> SUFFICES ASSUME AdmitInv, [AdmitNext]_admitVars PROVE AdmitInv'
  OBVIOUS
<1>1. CASE CompileProject
  <2>1. compiled.ok = FALSE
    BY <1>1 DEF CompileProject, NotYet
  <2>2. snapshot' = NoContext /\ admitted' = "no_answer" /\ authored' = authored
    BY <1>1, <2>1 DEF CompileProject, AdmitInv
  <2>3. compiled' = CompiledNow'
    BY <1>1 DEF CompileProject, CompiledNow
  <2> QED
    BY <2>2, <2>3 DEF AdmitInv
<1>2. CASE TakeSnapshot
  <2>1. authored' = authored /\ compiled' = compiled /\ admitted' = admitted
    BY <1>2 DEF TakeSnapshot
  <2>2. compiled.ok /\ admitted = "no_answer"
    BY <1>2 DEF TakeSnapshot, AdmitInv
  <2>3. WellKept(snapshot')
    BY <1>2, LayerAssumption DEF TakeSnapshot, AdmitInv, WellFormed
  <2>4. WellKept(snapshot)'
    BY <2>3 DEF WellKept
  <2> QED
    BY <2>1, <2>2, <2>4 DEF AdmitInv, CompiledNow
<1>3. CASE CheckContext
  <2>1. authored' = authored /\ compiled' = compiled /\ snapshot' = snapshot /\ snapshot # NoContext
    BY <1>3 DEF CheckContext
  <2>2. admitted' = IF context_check(Request) THEN "admitted" ELSE "refused"
    BY <1>3 DEF CheckContext, Request
  <2>3. context_check(Request)' <=> context_check(Request)
    BY <2>1 DEF Request
  <2> QED
    BY <2>1, <2>2, <2>3 DEF AdmitInv, CompiledNow
<1>4. CASE UNCHANGED admitVars
  BY <1>4 DEF admitVars, AdmitInv, CompiledNow, Request
<1> QED
  BY <1>1, <1>2, <1>3, <1>4 DEF AdmitNext

-------------------------------------------------------------------------------
(* The cache.  HubIsWhole is not inductive: a command is safe because of what   *)
(* it knows of the directory at its point of the sequence, and a command that   *)
(* may not fail because it is alone.                                            *)

Points == {"idle", "check", "fetch", "write archive", "write checksum", "clear", "clearing",
           "unpack", "publish", "read", "done", "failed"}

\* Everything that was read is the release: files with a part of the files.
Reads == UNION {[S -> {"release"}] : S \in SUBSET Files}
Trees == UNION {[S -> Contents] : S \in SUBSET Files}

HubTypes ==
    /\ archive \in Contents /\ checksum \in Contents
    /\ extracted \in [there : BOOLEAN, files : Trees]
    /\ unpacked \in [Processes -> [there : BOOLEAN, files : Trees]]
    /\ proc \in [Processes -> [pc : Points, read : Reads, excused : BOOLEAN]]
    /\ Held(extracted) # {} => extracted.there

\* The archive is good from the moment a command has trusted it, until a power cut
\* ends every command.
ArchiveIsTrusted(p) ==
    proc[p].pc \in {"write checksum", "clear", "clearing", "unpack"} => archive = "release"

\* What a command publishes is complete, and once one has published nothing else is
\* ever found in the directory.
PublishesTheRelease(p) ==
    /\ At(p, "publish") => unpacked[p] = Complete
    /\ At(p, "read") => \A f \in Held(extracted) : extracted.files[f] = "release"

\* Two commands at one time are excuses for each other.
Alone(p) == \A q \in Running : p \in Running /\ p # q => proc[p].excused

\* What a command without an excuse has left of the directory, as nobody else acts.
DirectoryIsItsOwn(p) ==
    ~proc[p].excused =>
        /\ At(p, "clearing") => extracted.there
        /\ proc[p].pc \in {"unpack", "publish"} => Held(extracted) = {}
        /\ At(p, "read") => Held(extracted) = Files

EndsAsPromised(p) ==
    /\ At(p, "done") => DOMAIN proc[p].read = Files
    /\ At(p, "failed") => proc[p].excused

Kept(p) ==
    ArchiveIsTrusted(p) /\ PublishesTheRelease(p) /\ Alone(p) /\ DirectoryIsItsOwn(p) /\ EndsAsPromised(p)

HubInv == HubTypes /\ \A p \in Processes : Kept(p)

\* What a command has read stays a part of the release when one more file is read.
LEMMA ReadsGrow ==
    ASSUME NEW r \in Reads, NEW f \in Files, NEW v \in {"release"}
    PROVE  [g \in DOMAIN r \cup {f} |-> IF g = f THEN v ELSE r[g]] \in Reads
<1>1. PICK S \in SUBSET Files : r \in [S -> {"release"}]
  BY DEF Reads
<1>2. DOMAIN r = S /\ S \cup {f} \in SUBSET Files
  BY <1>1
<1>3. [g \in S \cup {f} |-> IF g = f THEN v ELSE r[g]] \in [S \cup {f} -> {"release"}]
  BY <1>1
<1> QED BY <1>2, <1>3 DEF Reads

\* A tree that loses files, or whose files are cut short, is a tree.
LEMMA TreesShrink ==
    ASSUME NEW t \in Trees, NEW S \in SUBSET DOMAIN t,
           NEW v \in [S -> Contents]
    PROVE  v \in Trees /\ [f \in S |-> t[f]] \in Trees
<1>1. PICK D \in SUBSET Files : t \in [D -> Contents]
  BY DEF Trees
<1>2. DOMAIN t = D /\ S \in SUBSET Files
  BY <1>1
<1>3. [f \in S |-> t[f]] \in [S -> Contents]
  BY <1>1, <1>2
<1> QED BY <1>2, <1>3 DEF Trees

LEMMA EmptyTree == NoDirectory \in [there : BOOLEAN, files : Trees] /\ Held(NoDirectory) = {}
<1>1. [f \in {} |-> "none"] \in [{} -> Contents]
  OBVIOUS
<1>2. {} \in SUBSET Files
  OBVIOUS
<1>3. [f \in {} |-> "none"] \in Trees
  BY <1>1, <1>2 DEF Trees
<1> QED BY <1>3 DEF NoDirectory, Tree, Held

LEMMA CompleteTree ==
    /\ Complete \in [there : BOOLEAN, files : Trees] /\ Complete.there
    /\ Held(Complete) = Files /\ \A f \in Files : Complete.files[f] = "release"
<1>1. [f \in Files |-> "release"] \in [Files -> Contents]
  BY DEF Contents
<1>2. Files \in SUBSET Files
  OBVIOUS
<1>3. [f \in Files |-> "release"] \in Trees
  BY <1>1, <1>2 DEF Trees
<1> QED BY <1>3 DEF Complete, Tree, Held

LEMMA NothingRead == [f \in {} |-> "none"] \in Reads
<1>1. [f \in {} |-> "none"] \in [{} -> {"release"}] /\ {} \in SUBSET Files
  OBVIOUS
<1> QED BY <1>1 DEF Reads

LEMMA HubInvInit == HubInit => HubInv
<1> SUFFICES ASSUME HubInit PROVE HubInv
  OBVIOUS
<1>1. HubTypes
  BY EmptyTree, NothingRead DEF HubInit, HubTypes, Contents, Command, Points
<1>2. \A p \in Processes : proc[p].pc = "idle"
  BY DEF HubInit, Command
<1>3. Running = {}
  BY <1>2 DEF Running, Idle
<1> QED BY <1>1, <1>2, <1>3
     DEF HubInv, Kept, ArchiveIsTrusted, PublishesTheRelease, Alone, DirectoryIsItsOwn, EndsAsPromised, At

-------------------------------------------------------------------------------
\* A step of one command, p, that starts nobody and takes no excuse away leaves Alone;
\* and what another command knows of the directory is excused, because p ran.
LEMMA OthersAreExcused ==
    ASSUME HubInv, NEW p \in Processes, p \in Running, NEW q \in Processes,
           proc' \in [Processes -> [pc : Points, read : Reads, excused : BOOLEAN]],
           \A r \in Processes : r # p => proc'[r] = proc[r],
           proc[p].excused => proc'[p].excused
    PROVE  Alone(q)' /\ (q # p => DirectoryIsItsOwn(q)' /\ EndsAsPromised(q)')
<1>1. \A r \in Processes : r \in Running' => r \in Running
  BY DEF Running
<1>2. Alone(q)
  BY DEF HubInv, Kept
<1>3. Running \subseteq Processes
  BY DEF Running
<1>4. Alone(q)'
  <2> SUFFICES ASSUME NEW r \in Running', q \in Running', q # r PROVE proc'[q].excused
    BY DEF Alone
  <2>1. r \in Processes
    BY DEF Running
  <2>2. q \in Running /\ r \in Running
    BY <1>1, <2>1
  <2>3. proc[q].excused
    BY <1>2, <2>2 DEF Alone
  <2> QED BY <2>3
<1>5. ASSUME q # p PROVE DirectoryIsItsOwn(q)' /\ EndsAsPromised(q)'
  <2>1. proc'[q] = proc[q]
    BY <1>5
  <2>2. EndsAsPromised(q)'
    BY <2>1 DEF HubInv, Kept, EndsAsPromised, At
  <2>3. q \in Running => proc[q].excused
    BY <1>2, <1>5 DEF Alone
  <2>4. DirectoryIsItsOwn(q)'
    BY <2>1, <2>3 DEF DirectoryIsItsOwn, At, Running, Idle
  <2> QED BY <2>2, <2>4
<1> QED BY <1>4, <1>5

\* Where p may go on the disk that rests: p knows at its new point what it needs to know.
LEMMA RestingDisk ==
    ASSUME HubInv, NEW p \in Processes, p \in Running, UNCHANGED Disk,
           proc' \in [Processes -> [pc : Points, read : Reads, excused : BOOLEAN]],
           \A r \in Processes : r # p => proc'[r] = proc[r],
           proc[p].excused => proc'[p].excused,
           ArchiveIsTrusted(p)', PublishesTheRelease(p)', DirectoryIsItsOwn(p)', EndsAsPromised(p)'
    PROVE  HubInv'
<1>1. HubTypes'
  BY DEF HubInv, HubTypes, Disk
<1>2. ASSUME NEW q \in Processes PROVE Kept(q)'
  <2>1. CASE q = p
    BY <2>1, OthersAreExcused DEF Kept
  <2>2. CASE q # p
    <3>1. proc'[q] = proc[q]
      BY <2>2
    <3>2. ArchiveIsTrusted(q)' /\ PublishesTheRelease(q)'
      BY <3>1 DEF HubInv, Kept, ArchiveIsTrusted, PublishesTheRelease, At, Held, Disk
    <3> QED BY <2>2, <3>2, OthersAreExcused DEF Kept
  <2> QED BY <2>1, <2>2
<1> QED BY <1>1, <1>2 DEF HubInv, Kept

\* A step that only moves p to another point.
LEMMA Moved ==
    ASSUME HubInv, NEW p \in Processes, NEW pc \in Points, Goto(p, pc)
    PROVE  /\ proc' \in [Processes -> [pc : Points, read : Reads, excused : BOOLEAN]]
           /\ \A r \in Processes : r # p => proc'[r] = proc[r]
           /\ proc'[p].pc = pc /\ proc'[p].read = proc[p].read /\ proc'[p].excused = proc[p].excused
  BY DEF HubInv, HubTypes, Goto

LEMMA StepCheckCache ==
    ASSUME HubInv, NEW p \in Processes, CheckCache(p) PROVE HubInv'
<1> DEFINE pc == IF cache_hit THEN "clear" ELSE "fetch"
<1>1. pc \in Points /\ Goto(p, pc) /\ At(p, "check")
  BY DEF Points, CheckCache
<1>2. p \in Running
  BY <1>1 DEF Running, At, Idle
<1>3. UNCHANGED Disk
  BY DEF CheckCache
<1>4. ArchiveIsTrusted(p)' /\ PublishesTheRelease(p)' /\ DirectoryIsItsOwn(p)' /\ EndsAsPromised(p)'
  BY <1>1, <1>3, Moved
     DEF cache_hit, Disk, ArchiveIsTrusted, PublishesTheRelease, DirectoryIsItsOwn, EndsAsPromised, At
<1> HIDE DEF pc
<1> QED BY <1>1, <1>2, <1>3, <1>4, Moved, RestingDisk

LEMMA StepFetchHub ==
    ASSUME HubInv, NEW p \in Processes, FetchHub(p) PROVE HubInv'
<1>1. p \in Running /\ UNCHANGED Disk
  BY DEF FetchHub, At, Running, Idle
<1>2. CASE Goto(p, "write archive")
  <2>1. ArchiveIsTrusted(p)' /\ PublishesTheRelease(p)' /\ DirectoryIsItsOwn(p)' /\ EndsAsPromised(p)'
    BY <1>2, Moved DEF Points, ArchiveIsTrusted, PublishesTheRelease, DirectoryIsItsOwn, EndsAsPromised, At
  <2> QED BY <1>1, <1>2, <2>1, Moved, RestingDisk DEF Points
<1>3. CASE proc' = [proc EXCEPT ![p].pc = "failed", ![p].excused = TRUE]
  <2>1. /\ proc' \in [Processes -> [pc : Points, read : Reads, excused : BOOLEAN]]
        /\ \A r \in Processes : r # p => proc'[r] = proc[r]
        /\ proc'[p].pc = "failed" /\ proc'[p].excused
    BY <1>3 DEF HubInv, HubTypes, Points
  <2>2. ArchiveIsTrusted(p)' /\ PublishesTheRelease(p)' /\ DirectoryIsItsOwn(p)' /\ EndsAsPromised(p)'
    BY <2>1 DEF ArchiveIsTrusted, PublishesTheRelease, DirectoryIsItsOwn, EndsAsPromised, At
  <2> QED BY <1>1, <2>1, <2>2, RestingDisk
<1> QED BY <1>2, <1>3 DEF FetchHub, fetched_as

LEMMA StepWriteArchive ==
    ASSUME HubInv, NEW p \in Processes, WriteArchive(p) PROVE HubInv'
<1>1. p \in Running /\ At(p, "write archive") /\ Goto(p, "write checksum") /\ archive' = "release"
      /\ UNCHANGED <<checksum, extracted, unpacked>>
  BY DEF WriteArchive, At, Running, Idle
<1>2. /\ proc' \in [Processes -> [pc : Points, read : Reads, excused : BOOLEAN]]
      /\ \A r \in Processes : r # p => proc'[r] = proc[r]
      /\ proc'[p].pc = "write checksum" /\ proc'[p].excused = proc[p].excused
  BY <1>1, Moved DEF Points
<1>3. HubTypes'
  BY <1>1, <1>2 DEF HubInv, HubTypes, Contents
<1>4. ASSUME NEW q \in Processes PROVE Kept(q)'
  <2>1. ArchiveIsTrusted(q)'
    BY <1>1 DEF ArchiveIsTrusted
  <2>2. PublishesTheRelease(q)' /\ (q = p => DirectoryIsItsOwn(q)' /\ EndsAsPromised(q)')
    BY <1>1, <1>2 DEF HubInv, Kept, PublishesTheRelease, DirectoryIsItsOwn, EndsAsPromised, At
  <2> QED BY <1>1, <1>2, <2>1, <2>2, OthersAreExcused DEF Kept
<1> QED BY <1>3, <1>4 DEF HubInv, Kept

LEMMA StepWriteChecksum ==
    ASSUME HubInv, NEW p \in Processes, WriteChecksum(p) PROVE HubInv'
<1>1. p \in Running /\ At(p, "write checksum") /\ Goto(p, "clear") /\ checksum' = "release"
      /\ UNCHANGED <<archive, extracted, unpacked>>
  BY DEF WriteChecksum, At, Running, Idle
<1>2. /\ proc' \in [Processes -> [pc : Points, read : Reads, excused : BOOLEAN]]
      /\ \A r \in Processes : r # p => proc'[r] = proc[r]
      /\ proc'[p].pc = "clear" /\ proc'[p].excused = proc[p].excused
  BY <1>1, Moved DEF Points
<1>3. HubTypes'
  BY <1>1, <1>2 DEF HubInv, HubTypes, Contents
<1>4. ASSUME NEW q \in Processes PROVE Kept(q)'
  <2>1. ArchiveIsTrusted(q)'
    BY <1>1, <1>2 DEF HubInv, Kept, ArchiveIsTrusted, At
  <2>2. PublishesTheRelease(q)' /\ (q = p => DirectoryIsItsOwn(q)' /\ EndsAsPromised(q)')
    BY <1>1, <1>2 DEF HubInv, Kept, PublishesTheRelease, DirectoryIsItsOwn, EndsAsPromised, At
  <2> QED BY <1>1, <1>2, <2>1, <2>2, OthersAreExcused DEF Kept
<1> QED BY <1>3, <1>4 DEF HubInv, Kept

LEMMA StepClearFails ==
    ASSUME HubInv, NEW p \in Processes, ClearFails(p) PROVE HubInv'
<1>1. p \in Running /\ Goto(p, "failed") /\ proc[p].excused /\ UNCHANGED Disk
  BY DEF ClearFails, Fail, At, Running, Idle
<1>2. ArchiveIsTrusted(p)' /\ PublishesTheRelease(p)' /\ DirectoryIsItsOwn(p)' /\ EndsAsPromised(p)'
  BY <1>1, Moved DEF Points, ArchiveIsTrusted, PublishesTheRelease, DirectoryIsItsOwn, EndsAsPromised, At
<1> QED BY <1>1, <1>2, Moved, RestingDisk DEF Points

\* What is left of a directory that held only the release is the release.
LEMMA StepClearFile ==
    ASSUME HubInv, NEW p \in Processes, ClearFile(p) PROVE HubInv'
<1>1. PICK f \in Held(extracted) : extracted' = Without(extracted, f)
  BY DEF ClearFile
<1>2. /\ p \in Running /\ proc[p].pc \in {"clear", "clearing"} /\ Goto(p, "clearing")
      /\ archive' = archive /\ checksum' = checksum /\ unpacked' = unpacked
  BY DEF ClearFile, Running, Idle
<1>3. /\ proc' \in [Processes -> [pc : Points, read : Reads, excused : BOOLEAN]]
      /\ \A r \in Processes : r # p => proc'[r] = proc[r]
      /\ proc'[p].pc = "clearing" /\ proc'[p].excused = proc[p].excused
  BY <1>2, Moved DEF Points
<1>4. extracted.there /\ extracted \in [there : BOOLEAN, files : Trees]
  BY <1>1 DEF HubInv, HubTypes
<1> DEFINE remains == [g \in Held(extracted) \ {f} |-> extracted.files[g]]
<1>5. extracted'.there /\ extracted'.files = remains /\ extracted' = [there |-> extracted.there, files |-> remains]
  BY <1>1, <1>4 DEF Without, Tree
<1>6. remains \in Trees
  <2>1. PICK D \in SUBSET Files : extracted.files \in [D -> Contents]
    BY <1>4 DEF Trees
  <2>2. remains \in [D \ {f} -> Contents]
    BY <2>1 DEF Held
  <2> QED BY <2>1, <2>2 DEF Trees
<1>7. HubTypes'
  BY <1>2, <1>3, <1>4, <1>5, <1>6 DEF HubInv, HubTypes
<1>8. ASSUME NEW q \in Processes PROVE Kept(q)'
  <2>1. ArchiveIsTrusted(q)'
    BY <1>2, <1>3 DEF HubInv, Kept, ArchiveIsTrusted
  <2>2. PublishesTheRelease(q)'
    <3>1. At(q, "read")' \/ At(q, "publish")' => q # p
      BY <1>3 DEF At
    <3>2. At(q, "publish")' => unpacked'[q] = Complete
      BY <1>2, <1>3, <3>1 DEF HubInv, Kept, PublishesTheRelease, At
    <3>3. ASSUME At(q, "read")', NEW g \in Held(extracted)' PROVE extracted'.files[g] = "release"
      <4>1. g \in Held(extracted) \ {f}
        BY <1>5 DEF Held
      <4>2. At(q, "read")
        BY <1>3, <3>1, <3>3 DEF At
      <4> QED BY <4>1, <4>2, <1>5 DEF HubInv, Kept, PublishesTheRelease
    <3> QED BY <3>2, <3>3 DEF PublishesTheRelease
  <2>3. q = p => DirectoryIsItsOwn(q)' /\ EndsAsPromised(q)'
    BY <1>3, <1>5 DEF DirectoryIsItsOwn, EndsAsPromised, At
  <2> QED BY <1>2, <1>3, <2>1, <2>2, <2>3, OthersAreExcused DEF Kept
<1> QED BY <1>7, <1>8 DEF HubInv, Kept

LEMMA StepClearDirectory ==
    ASSUME HubInv, NEW p \in Processes, ClearDirectory(p) PROVE HubInv'
<1>1. PICK pc \in {"unpack", "failed"} :
        /\ Goto(p, pc)
        /\ pc = "failed" => At(p, "clearing") /\ ~extracted.there
  BY DEF ClearDirectory, Fail
<1>2. /\ p \in Running /\ proc[p].pc \in {"clear", "clearing"} /\ extracted' = NoDirectory
      /\ archive' = archive /\ checksum' = checksum /\ unpacked' = unpacked
  BY DEF ClearDirectory, Running, Idle
<1>3. /\ proc' \in [Processes -> [pc : Points, read : Reads, excused : BOOLEAN]]
      /\ \A r \in Processes : r # p => proc'[r] = proc[r]
      /\ proc'[p].pc = pc /\ proc'[p].excused = proc[p].excused
  BY <1>1, Moved DEF Points
<1>4. HubTypes'
  BY <1>2, <1>3, EmptyTree DEF HubInv, HubTypes, Held
<1>5. Held(extracted)' = {}
  BY <1>2, EmptyTree DEF Held
<1>6. pc = "failed" => proc[p].excused
  BY <1>1 DEF HubInv, Kept, DirectoryIsItsOwn
<1>7. ASSUME NEW q \in Processes PROVE Kept(q)'
  <2>1. ArchiveIsTrusted(q)'
    BY <1>2, <1>3 DEF HubInv, Kept, ArchiveIsTrusted
  <2>2. PublishesTheRelease(q)'
    BY <1>2, <1>3, <1>5 DEF HubInv, Kept, PublishesTheRelease, At
  <2>3. q = p => DirectoryIsItsOwn(q)' /\ EndsAsPromised(q)'
    BY <1>3, <1>5, <1>6 DEF DirectoryIsItsOwn, EndsAsPromised, At
  <2> QED BY <1>2, <1>3, <2>1, <2>2, <2>3, OthersAreExcused DEF Kept
<1> QED BY <1>4, <1>7 DEF HubInv, Kept

LEMMA StepUnpack ==
    ASSUME HubInv, NEW p \in Processes, Unpack(p) PROVE HubInv'
<1>1. /\ p \in Running /\ At(p, "unpack")
      /\ archive' = archive /\ checksum' = checksum /\ extracted' = extracted
  BY DEF Unpack, At, Running, Idle
<1>2. archive = "release"
  BY <1>1 DEF HubInv, Kept, ArchiveIsTrusted, At
<1>3. unpacked' = [unpacked EXCEPT ![p] = Complete] /\ Goto(p, "publish")
  BY <1>2 DEF Unpack
<1>4. /\ proc' \in [Processes -> [pc : Points, read : Reads, excused : BOOLEAN]]
      /\ \A r \in Processes : r # p => proc'[r] = proc[r]
      /\ proc'[p].pc = "publish" /\ proc'[p].excused = proc[p].excused
  BY <1>3, Moved DEF Points
<1>5. /\ unpacked' \in [Processes -> [there : BOOLEAN, files : Trees]]
      /\ unpacked'[p] = Complete /\ \A r \in Processes : r # p => unpacked'[r] = unpacked[r]
  BY <1>3, CompleteTree DEF HubInv, HubTypes
<1>6. HubTypes'
  BY <1>1, <1>4, <1>5 DEF HubInv, HubTypes
<1>7. ASSUME NEW q \in Processes PROVE Kept(q)'
  <2>1. ArchiveIsTrusted(q)'
    BY <1>1, <1>4 DEF HubInv, Kept, ArchiveIsTrusted
  <2>2. PublishesTheRelease(q)'
    BY <1>1, <1>4, <1>5 DEF HubInv, Kept, PublishesTheRelease, At, Held
  <2>3. q = p => DirectoryIsItsOwn(q)' /\ EndsAsPromised(q)'
    BY <1>1, <1>4 DEF HubInv, Kept, DirectoryIsItsOwn, EndsAsPromised, At, Held
  <2> QED BY <1>1, <1>4, <2>1, <2>2, <2>3, OthersAreExcused DEF Kept
<1> QED BY <1>6, <1>7 DEF HubInv, Kept

LEMMA StepPublish ==
    ASSUME HubInv, NEW p \in Processes, Publish(p) PROVE HubInv'
<1>1. p \in Running /\ At(p, "publish") /\ archive' = archive /\ checksum' = checksum
  BY DEF Publish, At, Running, Idle
<1>2. unpacked[p] = Complete
  BY <1>1 DEF HubInv, Kept, PublishesTheRelease
<1>3. CASE Held(extracted) = {}
  <2>1. /\ extracted' = Complete /\ Goto(p, "read")
        /\ unpacked' = [unpacked EXCEPT ![p] = NoDirectory]
    BY <1>2, <1>3 DEF Publish
  <2>2. /\ proc' \in [Processes -> [pc : Points, read : Reads, excused : BOOLEAN]]
        /\ \A r \in Processes : r # p => proc'[r] = proc[r]
        /\ proc'[p].pc = "read" /\ proc'[p].excused = proc[p].excused
    BY <2>1, Moved DEF Points
  <2>3. /\ unpacked' \in [Processes -> [there : BOOLEAN, files : Trees]]
        /\ \A r \in Processes : r # p => unpacked'[r] = unpacked[r]
    BY <2>1, EmptyTree DEF HubInv, HubTypes
  <2>4. Held(extracted)' = Files /\ \A f \in Files : extracted'.files[f] = "release"
    BY <2>1, CompleteTree DEF Held
  <2>5. HubTypes'
    BY <1>1, <2>1, <2>2, <2>3, CompleteTree DEF HubInv, HubTypes
  <2>6. ASSUME NEW q \in Processes PROVE Kept(q)'
    <3>1. ArchiveIsTrusted(q)'
      BY <1>1, <2>2 DEF HubInv, Kept, ArchiveIsTrusted
    <3>2. PublishesTheRelease(q)'
      BY <2>2, <2>3, <2>4 DEF HubInv, Kept, PublishesTheRelease, At
    <3>3. q = p => DirectoryIsItsOwn(q)' /\ EndsAsPromised(q)'
      BY <2>2, <2>4 DEF DirectoryIsItsOwn, EndsAsPromised, At
    <3> QED BY <1>1, <2>2, <3>1, <3>2, <3>3, OthersAreExcused DEF Kept
  <2> QED BY <2>5, <2>6 DEF HubInv, Kept
<1>4. CASE Held(extracted) # {}
  <2>1. Goto(p, "failed") /\ UNCHANGED Disk
    BY <1>1, <1>4 DEF Publish, Fail, Disk
  <2>2. proc[p].excused
    BY <1>1, <1>4 DEF HubInv, Kept, DirectoryIsItsOwn, At
  <2>3. ArchiveIsTrusted(p)' /\ PublishesTheRelease(p)' /\ DirectoryIsItsOwn(p)' /\ EndsAsPromised(p)'
    BY <2>1, <2>2, Moved DEF Points, ArchiveIsTrusted, PublishesTheRelease, DirectoryIsItsOwn, EndsAsPromised, At
  <2> QED BY <1>1, <2>1, <2>3, Moved, RestingDisk DEF Points
<1> QED BY <1>3, <1>4

LEMMA StepReadComponent ==
    ASSUME HubInv, NEW p \in Processes, ReadComponent(p) PROVE HubInv'
<1>1. p \in Running /\ At(p, "read") /\ UNCHANGED Disk
  BY DEF ReadComponent, At, Running, Idle
<1>2. PICK f \in Files \ DOMAIN proc[p].read :
        IF f \in Held(extracted)
        THEN LET read == [g \in DOMAIN proc[p].read \cup {f} |->
                             IF g = f THEN extracted.files[f] ELSE proc[p].read[g]]
             IN  proc' = [proc EXCEPT ![p].read = read,
                                      ![p].pc = IF DOMAIN read = Files THEN "done" ELSE "read"]
        ELSE Fail(p)
  BY DEF ReadComponent
<1>3. CASE f \in Held(extracted)
  <2> DEFINE read == [g \in DOMAIN proc[p].read \cup {f} |->
                         IF g = f THEN extracted.files[f] ELSE proc[p].read[g]]
             pc == IF DOMAIN read = Files THEN "done" ELSE "read"
  <2>1. proc' = [proc EXCEPT ![p].read = read, ![p].pc = pc]
    BY <1>2, <1>3
  <2>2. extracted.files[f] = "release"
    BY <1>1, <1>3 DEF HubInv, Kept, PublishesTheRelease
  <2>3. proc[p].read \in Reads
    BY DEF HubInv, HubTypes
  <2>4. read \in Reads
    BY <2>2, <2>3, ReadsGrow
  <2>5. pc = "done" => DOMAIN read = Files
    OBVIOUS
  <2>6. pc \in {"done", "read"}
    OBVIOUS
  <2> HIDE DEF read, pc
  <2>7. /\ proc' \in [Processes -> [pc : Points, read : Reads, excused : BOOLEAN]]
        /\ \A r \in Processes : r # p => proc'[r] = proc[r]
        /\ proc'[p].pc = pc /\ proc'[p].read = read /\ proc'[p].excused = proc[p].excused
    BY <2>1, <2>4, <2>6 DEF HubInv, HubTypes, Points
  <2>8. ArchiveIsTrusted(p)' /\ PublishesTheRelease(p)'
    BY <1>1, <2>6, <2>7 DEF HubInv, Kept, ArchiveIsTrusted, PublishesTheRelease, At, Disk, Held
  <2>9. DirectoryIsItsOwn(p)' /\ EndsAsPromised(p)'
    BY <1>1, <2>5, <2>6, <2>7 DEF HubInv, Kept, DirectoryIsItsOwn, EndsAsPromised, At, Disk, Held
  <2> QED BY <1>1, <2>7, <2>8, <2>9, RestingDisk
<1>4. CASE f \notin Held(extracted)
  <2>1. Goto(p, "failed")
    BY <1>2, <1>4 DEF Fail
  <2>2. proc[p].excused
    <3>1. Held(extracted) # Files
      BY <1>2, <1>4
    <3> QED BY <1>1, <3>1 DEF HubInv, Kept, DirectoryIsItsOwn
  <2>3. ArchiveIsTrusted(p)' /\ PublishesTheRelease(p)' /\ DirectoryIsItsOwn(p)' /\ EndsAsPromised(p)'
    BY <2>1, <2>2, Moved DEF Points, ArchiveIsTrusted, PublishesTheRelease, DirectoryIsItsOwn, EndsAsPromised, At
  <2> QED BY <1>1, <2>1, <2>3, Moved, RestingDisk DEF Points
<1> QED BY <1>3, <1>4

LEMMA StepKilled ==
    ASSUME HubInv, NEW p \in Processes, Killed(p) PROVE HubInv'
<1>1. PICK kept \in SUBSET Held(unpacked[p]) :
        unpacked' = [unpacked EXCEPT ![p].files = [f \in kept |-> @[f]]]
  BY DEF Killed
<1>2. /\ p \in Running /\ proc' = [proc EXCEPT ![p].pc = "failed", ![p].excused = TRUE]
      /\ archive' = archive /\ checksum' = checksum /\ extracted' = extracted
  BY DEF Killed
<1>3. /\ proc' \in [Processes -> [pc : Points, read : Reads, excused : BOOLEAN]]
      /\ \A r \in Processes : r # p => proc'[r] = proc[r]
      /\ proc'[p].pc = "failed" /\ proc'[p].excused
  BY <1>2 DEF HubInv, HubTypes, Points
<1> DEFINE remains == [f \in kept |-> unpacked[p].files[f]]
<1>4. remains \in Trees
  <2>1. unpacked[p].files \in Trees
    BY DEF HubInv, HubTypes
  <2>2. PICK D \in SUBSET Files : unpacked[p].files \in [D -> Contents]
    BY <2>1 DEF Trees
  <2>3. kept \in SUBSET D /\ remains \in [kept -> Contents]
    BY <1>1, <2>2 DEF Held
  <2> QED BY <2>2, <2>3 DEF Trees
<1>5. unpacked' = [unpacked EXCEPT ![p].files = remains]
  BY <1>1 DEF HubInv, HubTypes
<1> HIDE DEF remains
<1>6. /\ unpacked' \in [Processes -> [there : BOOLEAN, files : Trees]]
      /\ \A r \in Processes : r # p => unpacked'[r] = unpacked[r]
  BY <1>4, <1>5 DEF HubInv, HubTypes
<1>7. HubTypes'
  BY <1>2, <1>3, <1>6 DEF HubInv, HubTypes, Held
<1>8. ASSUME NEW q \in Processes PROVE Kept(q)'
  <2>1. ArchiveIsTrusted(q)' /\ PublishesTheRelease(q)'
    BY <1>2, <1>3, <1>6 DEF HubInv, Kept, ArchiveIsTrusted, PublishesTheRelease, At, Held
  <2>2. q = p => DirectoryIsItsOwn(q)' /\ EndsAsPromised(q)'
    BY <1>3 DEF DirectoryIsItsOwn, EndsAsPromised, At
  <2> QED BY <1>2, <1>3, <2>1, <2>2, OthersAreExcused DEF Kept
<1> QED BY <1>7, <1>8 DEF HubInv, Kept

\* Whoever is about to start has nothing yet; whoever runs has an excuse from now on.
LEMMA StepStart ==
    ASSUME HubInv, NEW p \in Processes, Start(p) PROVE HubInv'
<1>1. /\ proc[p].pc \in Idle /\ UNCHANGED Disk
      /\ proc' = [q \in Processes |->
                     IF q = p THEN Command("check", [f \in {} |-> "none"], Running # {})
                     ELSE [proc[q] EXCEPT !.excused = @ \/ q \in Running]]
  BY DEF Start
<1>2. \A q \in Processes : proc[q] \in [pc : Points, read : Reads, excused : BOOLEAN]
  BY DEF HubInv, HubTypes
<1>3. \A q \in Processes : q # p =>
        /\ proc'[q] \in [pc : Points, read : Reads, excused : BOOLEAN]
        /\ proc'[q].pc = proc[q].pc /\ proc'[q].read = proc[q].read
        /\ proc'[q].excused = (proc[q].excused \/ q \in Running)
  BY <1>1, <1>2
<1>4. /\ proc'[p] = Command("check", [f \in {} |-> "none"], Running # {})
      /\ Command("check", [f \in {} |-> "none"], Running # {}) \in [pc : Points, read : Reads, excused : BOOLEAN]
  BY <1>1, NothingRead DEF Command, Points
<1>5. proc' \in [Processes -> [pc : Points, read : Reads, excused : BOOLEAN]]
  <2>1. \A q \in Processes : proc'[q] \in [pc : Points, read : Reads, excused : BOOLEAN]
    BY <1>3, <1>4
  <2>2. proc' = [q \in Processes |-> proc'[q]]
    BY <1>1
  <2> QED BY <2>1, <2>2
<1>6. proc'[p].pc = "check" /\ proc'[p].excused = (Running # {})
  BY <1>4 DEF Command
<1>7. HubTypes'
  BY <1>1, <1>5 DEF HubInv, HubTypes, Disk
<1>8. \A q \in Running' : q # p => q \in Running
  BY <1>3 DEF Running
<1>9. ASSUME NEW q \in Processes PROVE Kept(q)'
  <2>1. CASE q = p
    <3>1. Alone(p)'
      BY <1>6, <1>8 DEF Alone
    <3> QED BY <1>6, <2>1, <3>1
         DEF Kept, ArchiveIsTrusted, PublishesTheRelease, DirectoryIsItsOwn, EndsAsPromised, At
  <2>2. CASE q # p
    <3>1. proc'[q].pc = proc[q].pc /\ proc'[q].read = proc[q].read
          /\ proc'[q].excused = (proc[q].excused \/ q \in Running)
      BY <1>3, <2>2
    <3>2. Alone(q)'
      BY <1>8, <2>2, <3>1 DEF Alone
    <3>3. ArchiveIsTrusted(q)' /\ PublishesTheRelease(q)'
      BY <1>1, <3>1 DEF HubInv, Kept, ArchiveIsTrusted, PublishesTheRelease, At, Held, Disk
    <3>5. DirectoryIsItsOwn(q)'
      BY <3>1 DEF DirectoryIsItsOwn, At, Running, Idle
    <3>6. EndsAsPromised(q)'
      BY <3>1 DEF HubInv, Kept, EndsAsPromised, At
    <3> QED BY <3>2, <3>3, <3>5, <3>6 DEF Kept
  <2> QED BY <2>1, <2>2
<1> QED BY <1>7, <1>9 DEF HubInv, Kept

\* The power cut leaves no command running, and excuses those it has ended.
LEMMA StepPowerCut ==
    ASSUME HubInv, PowerCut PROVE HubInv'
<1>1. /\ archive' \in Tear(archive) /\ checksum' \in Tear(checksum) /\ unpacked' = unpacked
      /\ proc' = [p \in Processes |->
                     IF p \in Running THEN Command("failed", proc[p].read, TRUE) ELSE proc[p]]
  BY DEF PowerCut
<1>2. PICK torn \in SUBSET Held(extracted) :
        extracted' = [extracted EXCEPT !.files =
                         [f \in Held(extracted) |-> IF f \in torn THEN "torn" ELSE @[f]]]
  BY DEF PowerCut
<1> DEFINE cut == [f \in Held(extracted) |-> IF f \in torn THEN "torn" ELSE extracted.files[f]]
<1>3. extracted \in [there : BOOLEAN, files : Trees]
  BY DEF HubInv, HubTypes
<1>4. cut \in Trees
  <2>1. PICK D \in SUBSET Files : extracted.files \in [D -> Contents]
    BY <1>3 DEF Trees
  <2>2. cut \in [D -> Contents]
    BY <2>1 DEF Held, Contents
  <2> QED BY <2>2 DEF Trees
<1>5. extracted' = [extracted EXCEPT !.files = cut]
  BY <1>2, <1>3
<1>6. DOMAIN cut = Held(extracted)
  OBVIOUS
<1> HIDE DEF cut
<1>7. extracted' \in [there : BOOLEAN, files : Trees] /\ Held(extracted)' = Held(extracted)
      /\ extracted'.there = extracted.there
  BY <1>3, <1>4, <1>5, <1>6 DEF Held
<1>8. archive' \in Contents /\ checksum' \in Contents
  BY <1>1 DEF HubInv, HubTypes, Tear, Contents
<1>9. \A q \in Processes :
        /\ proc'[q] \in [pc : Points, read : Reads, excused : BOOLEAN]
        /\ q \in Running => proc'[q].pc = "failed" /\ proc'[q].excused
        /\ q \notin Running => proc'[q] = proc[q]
  <2>1. \A q \in Processes : proc[q] \in [pc : Points, read : Reads, excused : BOOLEAN]
    BY DEF HubInv, HubTypes
  <2> QED BY <1>1, <2>1 DEF Command, Points
<1>10. proc' \in [Processes -> [pc : Points, read : Reads, excused : BOOLEAN]]
  <2>1. proc' = [q \in Processes |-> proc'[q]]
    BY <1>1
  <2> QED BY <1>9, <2>1
<1>11. HubTypes'
  BY <1>1, <1>7, <1>8, <1>10 DEF HubInv, HubTypes
<1>12. ASSUME NEW q \in Processes PROVE Kept(q)'
  <2>1. proc'[q].pc \in Idle
    BY <1>9 DEF Running, Idle
  <2>2. q \notin Running'
    BY <2>1 DEF Running
  <2>3. ArchiveIsTrusted(q)' /\ PublishesTheRelease(q)' /\ Alone(q)' /\ DirectoryIsItsOwn(q)'
    BY <2>1, <2>2 DEF ArchiveIsTrusted, PublishesTheRelease, Alone, DirectoryIsItsOwn, At, Idle
  <2>4. EndsAsPromised(q)'
    BY <1>9 DEF HubInv, Kept, EndsAsPromised, At
  <2> QED BY <2>3, <2>4 DEF Kept
<1> QED BY <1>11, <1>12 DEF HubInv, Kept

-------------------------------------------------------------------------------
LEMMA HubInvStep == HubInv /\ [HubNext]_hubVars => HubInv'
<1> SUFFICES ASSUME HubInv, [HubNext]_hubVars PROVE HubInv'
  OBVIOUS
<1>1. CASE UNCHANGED hubVars
  BY <1>1 DEF hubVars, HubInv, Kept, HubTypes, ArchiveIsTrusted, PublishesTheRelease, Alone,
     DirectoryIsItsOwn, EndsAsPromised, At, Running, Held
<1>2. CASE PowerCut
  BY <1>2, StepPowerCut
<1>3. ASSUME NEW p \in Processes,
             \/ Start(p) \/ CheckCache(p) \/ FetchHub(p) \/ WriteArchive(p) \/ WriteChecksum(p)
             \/ ClearFile(p) \/ ClearDirectory(p) \/ ClearFails(p) \/ Unpack(p) \/ Publish(p)
             \/ ReadComponent(p) \/ Killed(p)
      PROVE  HubInv'
  BY <1>3, StepStart, StepCheckCache, StepFetchHub, StepWriteArchive, StepWriteChecksum, StepClearFile,
     StepClearDirectory, StepClearFails, StepUnpack, StepPublish, StepReadComponent, StepKilled
<1> QED BY <1>1, <1>2, <1>3 DEF HubNext

LEMMA HubInvIsEnough == HubInv => HubIsWhole
<1> SUFFICES ASSUME HubInv, NEW p \in Processes
    PROVE  /\ proc[p].pc = "done" => proc[p].read = Complete.files
           /\ proc[p].pc = "failed" => proc[p].excused
  BY DEF HubIsWhole
<1>1. ASSUME proc[p].pc = "done" PROVE proc[p].read = Complete.files
  <2>1. DOMAIN proc[p].read = Files /\ proc[p].read \in Reads
    BY <1>1 DEF HubInv, Kept, HubTypes, EndsAsPromised, At
  <2>2. PICK S \in SUBSET Files : proc[p].read \in [S -> {"release"}]
    BY <2>1 DEF Reads
  <2>3. proc[p].read \in [Files -> {"release"}]
    BY <2>1, <2>2
  <2>4. proc[p].read = [f \in Files |-> "release"]
    BY <2>3
  <2> QED BY <2>4 DEF Complete, Tree
<1>2. proc[p].pc = "failed" => proc[p].excused
  BY DEF HubInv, Kept, EndsAsPromised, At
<1> QED BY <1>1, <1>2

\* hub_fetch.rs, "benign, not silently": for any processes that share the cache, with
\* any kills, power cuts and bad downloads, a command that ends well has read the
\* release, and one that was alone and undisturbed does not fail.
THEOREM HubStaysWhole == HubSpec => []HubIsWhole
<1>1. HubInit => HubInv
  BY HubInvInit
<1>2. HubInv /\ [HubNext]_hubVars => HubInv'
  BY HubInvStep
<1>3. HubInv => HubIsWhole
  BY HubInvIsEnough
<1> QED BY <1>1, <1>2, <1>3, PTL DEF HubSpec

-------------------------------------------------------------------------------
(* The new output.  A build is safe because directories are told apart by who    *)
(* made them, and because a removal is decided on the directory that is removed. *)

Pcs == {"start", "refused", "reserve", "open", "left", "emit", "check", "remove", "built", "removed", "preserved"}
BuildType == [pc : Pcs, made : Nat, held : Nat, written : Nat, late : BOOLEAN]
DirectoryType == [maker : Builders \cup {Others}, files : SUBSET (Builders \X Nat)]

BuildTypeOK ==
    /\ dirs \in Seq(DirectoryType) /\ path \in 0..Len(dirs) /\ swaps \in Nat
    /\ build \in [Builders -> BuildType]

\* A build that has a directory, and is not through with it.
Owns(b) == build[b].pc \in {"open", "emit", "check", "remove"}
Holds(b) == build[b].pc \in {"emit", "check", "remove"}
EmittedBy(b) == {<<b, n>> : n \in 1..build[b].written}

\* Directories are told apart: each has one maker.
DirectoriesAreTheirs ==
    /\ \A b \in Builders : build[b].made <= Len(dirs) /\ (Owns(b) => build[b].made >= 1)
    /\ \A b, c \in Builders : build[b].made = build[c].made /\ build[b].made # 0 => b = c

\* As long as nobody was overtaken, who is about to open or to remove finds what it made,
\* and who holds a directory holds that one.
RemovalsAreAimed ==
    (\A c \in Builders : ~build[c].late) =>
        \A b \in Builders :
            /\ Hurries(b) => path = build[b].made
            /\ Holds(b) => build[b].held = build[b].made

\* Without swaps at most one build has the path, and all that is there is its own.
AloneIsSafe ==
    swaps = 0 =>
        \A b \in Builders :
            /\ ~build[b].late /\ ~IsAt(b, "preserved")
            /\ Owns(b) => path = build[b].made
            /\ build[b].pc \in {"open", "emit"} => dirs[path].files = EmittedBy(b)

\* Nothing is written before there is a directory.
WritesFollow ==
    \A b \in Builders : build[b].pc \in {"start", "refused", "reserve", "open"} => build[b].written = 0

BuildInv == BuildTypeOK /\ DirectoriesAreTheirs /\ RemovalsAreAimed /\ AloneIsSafe /\ WritesFollow

\* One build goes on to another point, the path and the directories stay.
LEMMA GoingOnKeepsInv ==
    ASSUME BuildInv, NEW b \in Builders, NEW pc \in Pcs, Goes(b, pc), UNCHANGED <<path, dirs, swaps>>,
           pc \in {"check", "remove"} => Holds(b),
           pc = "remove" => path = build[b].held,
           pc \notin {"open", "emit"}, pc = "preserved" => swaps > 0,
           pc \in {"start", "refused", "reserve"} => build[b].pc \in {"start", "reserve"}
    PROVE  BuildInv'
<1> DEFINE new == [build[b] EXCEPT !.pc = pc]
<1>t. BuildTypeOK /\ build[b] \in BuildType
  BY DEF BuildInv, BuildTypeOK
<1>1. /\ new \in BuildType /\ new.pc = pc /\ new.made = build[b].made /\ new.held = build[b].held
      /\ new.written = build[b].written /\ new.late = build[b].late
  BY <1>t DEF BuildType
<1>2. build' = [build EXCEPT ![b] = new]
  BY <1>t DEF Goes, BuildTypeOK
<1> HIDE DEF new
<1>3. /\ build'[b] = new /\ \A c \in Builders : c # b => build'[c] = build[c]
      /\ build' \in [Builders -> BuildType]
  BY <1>1, <1>2, <1>t DEF BuildTypeOK
<1>4. BuildTypeOK'
  BY <1>3, <1>t DEF BuildTypeOK
<1>5. DirectoriesAreTheirs'
  BY <1>1, <1>3 DEF BuildInv, DirectoriesAreTheirs, Owns, Holds
<1>6. RemovalsAreAimed'
  BY <1>1, <1>3 DEF BuildInv, RemovalsAreAimed, Hurries, Holds
<1>7. AloneIsSafe'
  <2> SUFFICES ASSUME swaps = 0, NEW c \in Builders
               PROVE  /\ ~build'[c].late /\ build'[c].pc # "preserved"
                      /\ build'[c].pc \in {"open", "emit", "check", "remove"} => path = build'[c].made
                      /\ build'[c].pc \in {"open", "emit"} => dirs[path].files = {<<c, n>> : n \in 1..build'[c].written}
    BY DEF AloneIsSafe, IsAt, Owns, EmittedBy
  <2>1. CASE c = b
    BY <1>1, <1>3, <2>1, <1>t DEF BuildInv, AloneIsSafe, IsAt, Owns, Holds, BuildTypeOK
  <2>2. CASE c # b
    BY <1>3, <2>2 DEF BuildInv, AloneIsSafe, IsAt, Owns, EmittedBy
  <2> QED
    BY <2>1, <2>2
<1>8. WritesFollow'
  BY <1>1, <1>3 DEF BuildInv, WritesFollow
<1> QED
  BY <1>4, <1>5, <1>6, <1>7, <1>8 DEF BuildInv

\* A new directory at the path, made by a build that reserves it.
LEMMA ReserveKeepsInv ==
    ASSUME BuildInv, NEW b \in Builders, Reserve(b)
    PROVE  BuildInv'
<1>t. BuildTypeOK /\ build[b] \in BuildType
  BY DEF BuildInv, BuildTypeOK
<1>1. CASE path # Nowhere
  <2>1. Goes(b, "refused") /\ UNCHANGED <<path, dirs, swaps>>
    BY <1>1 DEF Reserve
  <2> QED
    BY <2>1, GoingOnKeepsInv DEF Pcs, Reserve, IsAt
<1>2. CASE path = Nowhere
  <2> DEFINE new == [build[b] EXCEPT !.pc = "open", !.made = Len(dirs) + 1]
             made == Len(dirs) + 1
  <2>1. /\ build' = [build EXCEPT ![b] = new] /\ path' = made /\ swaps' = swaps
        /\ dirs' = Append(dirs, Directory(b)) /\ IsAt(b, "reserve")
    BY <1>2, <1>t DEF Reserve, NewDirectory, BuildTypeOK
  <2>2. Directory(b) \in DirectoryType /\ Directory(b).files = {} /\ made \in Nat /\ made >= 1
    BY <1>t DEF Directory, DirectoryType, BuildTypeOK
  <2>3. /\ dirs' \in Seq(DirectoryType) /\ Len(dirs') = made /\ dirs'[made] = Directory(b)
    BY <2>1, <2>2, <1>t DEF BuildTypeOK
  <2>4. /\ new \in BuildType /\ new.pc = "open" /\ new.made = made /\ new.held = build[b].held
        /\ new.written = build[b].written /\ new.late = build[b].late
    BY <2>2, <1>t DEF BuildType, Pcs
  <2> HIDE DEF new, made
  <2>5. /\ build'[b] = new /\ \A c \in Builders : c # b => build'[c] = build[c]
        /\ build' \in [Builders -> BuildType]
    BY <2>1, <2>4, <1>t DEF BuildTypeOK
  <2>6. BuildTypeOK'
    BY <2>1, <2>2, <2>3, <2>5, <1>t DEF BuildTypeOK
  <2>7. \A c \in Builders : build[c].made \in Nat /\ build[c].made < made /\ (Owns(c) => path # build[c].made)
    <3>1. \A c \in Builders : build[c] \in BuildType /\ build[c].made <= Len(dirs) /\ Len(dirs) \in Nat
      BY <1>t DEF BuildInv, BuildTypeOK, DirectoriesAreTheirs
    <3>2. \A c \in Builders : Owns(c) => build[c].made >= 1
      BY DEF BuildInv, DirectoriesAreTheirs
    <3> QED
      BY <1>2, <3>1, <3>2 DEF made, BuildType, Nowhere
  <2>8. DirectoriesAreTheirs'
    <3>1. \A c \in Builders : build'[c].made <= Len(dirs') /\ (Owns(c)' => build'[c].made >= 1)
      BY <2>2, <2>3, <2>4, <2>5, <2>7 DEF BuildInv, DirectoriesAreTheirs, Owns
    <3>2. ASSUME NEW c \in Builders, NEW d \in Builders,
                 build'[c].made = build'[d].made, build'[c].made # 0
          PROVE  c = d
      BY <2>4, <2>5, <2>7, <3>2 DEF BuildInv, DirectoriesAreTheirs
    <3> QED
      BY <3>1, <3>2 DEF DirectoriesAreTheirs
  <2>9. RemovalsAreAimed'
    BY <2>1, <2>4, <2>5, <2>7 DEF BuildInv, RemovalsAreAimed, Hurries, Holds, Owns
  <2>10. AloneIsSafe'
    <3> SUFFICES ASSUME swaps = 0, NEW c \in Builders
                 PROVE  /\ ~build'[c].late /\ build'[c].pc # "preserved"
                        /\ build'[c].pc \in {"open", "emit", "check", "remove"} => path' = build'[c].made
                        /\ build'[c].pc \in {"open", "emit"} => dirs'[path'].files = {<<c, n>> : n \in 1..build'[c].written}
      BY <2>1 DEF AloneIsSafe, IsAt, Owns, EmittedBy
    <3>1. CASE c = b
      <4>1. build[b].written = 0
        BY <2>1 DEF BuildInv, WritesFollow, IsAt
      <4> QED
        BY <2>1, <2>2, <2>3, <2>4, <2>5, <3>1, <4>1 DEF BuildInv, AloneIsSafe
    <3>2. CASE c # b
      BY <2>5, <2>7, <3>2 DEF BuildInv, AloneIsSafe, IsAt, Owns
    <3> QED
      BY <3>1, <3>2
  <2>11. WritesFollow'
    BY <2>1, <2>4, <2>5 DEF BuildInv, WritesFollow, IsAt
  <2> QED
    BY <2>6, <2>8, <2>9, <2>10, <2>11 DEF BuildInv
<1> QED
  BY <1>1, <1>2

\* The directory at the path is held: its own, unless it was overtaken.
LEMMA RetainKeepsInv ==
    ASSUME BuildInv, NEW b \in Builders, Retain(b)
    PROVE  BuildInv'
<1>t. BuildTypeOK /\ build[b] \in BuildType
  BY DEF BuildInv, BuildTypeOK
<1>1. CASE Goes(b, "left")
  BY <1>1, GoingOnKeepsInv DEF Pcs, Retain
<1>2. CASE path # Nowhere /\ build' = [build EXCEPT ![b].pc = "emit", ![b].held = path]
  <2> DEFINE new == [build[b] EXCEPT !.pc = "emit", !.held = path]
  <2>1. path \in Nat /\ UNCHANGED <<path, dirs, swaps>> /\ build[b].pc = "open"
    BY <1>t DEF BuildTypeOK, Retain, IsAt
  <2>2. /\ new \in BuildType /\ new.pc = "emit" /\ new.made = build[b].made /\ new.held = path
        /\ new.written = build[b].written /\ new.late = build[b].late
    BY <2>1, <1>t DEF BuildType, Pcs
  <2>3. build' = [build EXCEPT ![b] = new]
    BY <1>2, <1>t DEF BuildTypeOK
  <2> HIDE DEF new
  <2>4. /\ build'[b] = new /\ \A c \in Builders : c # b => build'[c] = build[c]
        /\ build' \in [Builders -> BuildType]
    BY <2>2, <2>3, <1>t DEF BuildTypeOK
  <2>5. BuildTypeOK'
    BY <2>1, <2>4, <1>t DEF BuildTypeOK
  <2>6. DirectoriesAreTheirs'
    BY <2>1, <2>2, <2>4 DEF BuildInv, DirectoriesAreTheirs, Owns
  <2>7. RemovalsAreAimed'
    BY <2>1, <2>2, <2>4 DEF BuildInv, RemovalsAreAimed, Hurries, Holds
  <2>8. AloneIsSafe'
    <3> SUFFICES ASSUME swaps = 0, NEW c \in Builders
                 PROVE  /\ ~build'[c].late /\ build'[c].pc # "preserved"
                        /\ build'[c].pc \in {"open", "emit", "check", "remove"} => path = build'[c].made
                        /\ build'[c].pc \in {"open", "emit"} => dirs[path].files = {<<c, n>> : n \in 1..build'[c].written}
      BY <2>1 DEF AloneIsSafe, IsAt, Owns, EmittedBy
    <3>1. CASE c = b
      BY <2>1, <2>2, <2>4, <3>1 DEF BuildInv, AloneIsSafe, IsAt, Owns, EmittedBy
    <3>2. CASE c # b
      BY <2>4, <3>2 DEF BuildInv, AloneIsSafe, IsAt, Owns, EmittedBy
    <3> QED
      BY <3>1, <3>2
  <2>9. WritesFollow'
    BY <2>1, <2>2, <2>4 DEF BuildInv, WritesFollow
  <2> QED
    BY <2>5, <2>6, <2>7, <2>8, <2>9 DEF BuildInv
<1> QED
  BY <1>1, <1>2 DEF Retain

LEMMA EmissionKeepsInv ==
    ASSUME BuildInv, NEW b \in Builders, Emit(b)
    PROVE  BuildInv'
<1>t. BuildTypeOK /\ build[b] \in BuildType
  BY DEF BuildInv, BuildTypeOK
<1>1. CASE UNCHANGED dirs /\ \E pc \in {"built", "check"} : Goes(b, pc)
  BY <1>1, GoingOnKeepsInv DEF Emit, Pcs, IsAt, Holds
<1>2. CASE /\ path # Nowhere
           /\ dirs' = [dirs EXCEPT ![path].files = @ \cup {<<b, build[b].written + 1>>}]
           /\ build' = [build EXCEPT ![b].written = @ + 1]
  <2> DEFINE new == [build[b] EXCEPT !.written = @ + 1]
             there == [dirs[path] EXCEPT !.files = @ \cup {<<b, build[b].written + 1>>}]
  <2>1. /\ new \in BuildType /\ new.pc = build[b].pc /\ new.made = build[b].made /\ new.held = build[b].held
        /\ new.written = build[b].written + 1 /\ new.late = build[b].late
    BY <1>t DEF BuildType
  <2>2. path \in 1..Len(dirs) /\ dirs[path] \in DirectoryType
    BY <1>2, <1>t DEF BuildTypeOK, Nowhere
  <2>3. there \in DirectoryType /\ there.files = dirs[path].files \cup {<<b, build[b].written + 1>>}
    BY <2>2, <1>t DEF DirectoryType, BuildType
  <2>4. build' = [build EXCEPT ![b] = new] /\ dirs' = [dirs EXCEPT ![path] = there]
        /\ UNCHANGED <<path, swaps>> /\ IsAt(b, "emit")
    BY <1>2, <2>2, <1>t DEF Emit, BuildTypeOK
  <2> HIDE DEF new, there
  <2>5. /\ build'[b] = new /\ \A c \in Builders : c # b => build'[c] = build[c]
        /\ build' \in [Builders -> BuildType]
    BY <2>1, <2>4, <1>t DEF BuildTypeOK
  <2>6. dirs' \in Seq(DirectoryType) /\ Len(dirs') = Len(dirs) /\ dirs'[path] = there
    BY <2>2, <2>3, <2>4, <1>t DEF BuildTypeOK
  <2>7. BuildTypeOK'
    BY <2>4, <2>5, <2>6, <1>t DEF BuildTypeOK
  <2>8. DirectoriesAreTheirs'
    BY <2>1, <2>5, <2>6 DEF BuildInv, DirectoriesAreTheirs, Owns
  <2>9. RemovalsAreAimed'
    BY <2>1, <2>4, <2>5 DEF BuildInv, RemovalsAreAimed, Hurries, Holds
  <2>10. AloneIsSafe'
    <3> SUFFICES ASSUME swaps = 0, NEW c \in Builders
                 PROVE  /\ ~build'[c].late /\ build'[c].pc # "preserved"
                        /\ build'[c].pc \in {"open", "emit", "check", "remove"} => path = build'[c].made
                        /\ build'[c].pc \in {"open", "emit"} => dirs'[path].files = {<<c, n>> : n \in 1..build'[c].written}
      BY <2>4 DEF AloneIsSafe, IsAt, Owns, EmittedBy
    <3>1. CASE c = b
      <4>1. dirs[path].files = {<<b, n>> : n \in 1..build[b].written}
        BY <2>4 DEF BuildInv, AloneIsSafe, EmittedBy, IsAt
      <4>2. 1..(build[b].written + 1) = 1..build[b].written \cup {build[b].written + 1}
        BY <1>t DEF BuildType
      <4>3. there.files = {<<b, n>> : n \in 1..(build[b].written + 1)}
        BY <2>3, <4>1, <4>2
      <4> QED
        BY <2>1, <2>4, <2>5, <2>6, <3>1, <4>3 DEF BuildInv, AloneIsSafe, IsAt, Owns
    <3>2. CASE c # b
      <4>1. build[c].pc \notin {"open", "emit"}
        <5> SUFFICES ASSUME build[c].pc \in {"open", "emit"} PROVE FALSE
          OBVIOUS
        <5>1. Owns(b) /\ Owns(c)
          BY <2>4 DEF IsAt, Owns
        <5>2. path = build[b].made /\ path = build[c].made
          BY <5>1 DEF BuildInv, AloneIsSafe
        <5>3. build[b] \in BuildType /\ build[b].made >= 1
          BY <1>t, <5>1 DEF BuildInv, DirectoriesAreTheirs
        <5>4. build[b].made # 0
          BY <5>3 DEF BuildType
        <5> QED
          BY <3>2, <5>2, <5>4 DEF BuildInv, DirectoriesAreTheirs
      <4> QED
        BY <2>5, <3>2, <4>1 DEF BuildInv, AloneIsSafe, IsAt, Owns
    <3> QED
      BY <3>1, <3>2
  <2>11. WritesFollow'
    BY <2>1, <2>4, <2>5 DEF BuildInv, WritesFollow, IsAt
  <2> QED
    BY <2>7, <2>8, <2>9, <2>10, <2>11 DEF BuildInv
<1> QED
  BY <1>1, <1>2 DEF Emit

LEMMA RemoveKeepsInv ==
    ASSUME BuildInv, NEW b \in Builders, RemoveAll(b)
    PROVE  BuildInv'
<1>t. BuildTypeOK /\ build[b] \in BuildType
  BY DEF BuildInv, BuildTypeOK
<1>1. PICK pc \in {"preserved", "removed"} : Goes(b, pc) /\ (pc = "preserved" => path = Nowhere)
  BY DEF RemoveAll
<1> DEFINE new == [build[b] EXCEPT !.pc = pc]
<1>2. /\ new \in BuildType /\ new.pc = pc /\ new.made = build[b].made /\ new.held = build[b].held
      /\ new.written = build[b].written /\ new.late = build[b].late
  BY <1>t DEF BuildType, Pcs
<1>3. build' = [build EXCEPT ![b] = new] /\ path' = Nowhere /\ UNCHANGED <<dirs, swaps>> /\ IsAt(b, "remove")
  BY <1>1, <1>t DEF Goes, RemoveAll, BuildTypeOK
<1> HIDE DEF new
<1>4. /\ build'[b] = new /\ \A c \in Builders : c # b => build'[c] = build[c]
      /\ build' \in [Builders -> BuildType]
  BY <1>2, <1>3, <1>t DEF BuildTypeOK
<1>5. BuildTypeOK'
  BY <1>3, <1>4, <1>t DEF BuildTypeOK, Nowhere
<1>6. DirectoriesAreTheirs'
  BY <1>2, <1>3, <1>4 DEF BuildInv, DirectoriesAreTheirs, Owns
<1>7. ASSUME NEW c \in Builders, c # b, path = build[b].made, Owns(c)
      PROVE  path # build[c].made
  <2>1. build[c].made # 0
    BY <1>7, <1>t DEF BuildInv, DirectoriesAreTheirs, BuildTypeOK, BuildType
  <2> QED
    BY <1>7, <2>1 DEF BuildInv, DirectoriesAreTheirs
\* Who was aimed at the same path would have made the same directory.
<1>8. RemovalsAreAimed'
  <2> SUFFICES ASSUME \A c \in Builders : ~build'[c].late, NEW c \in Builders
               PROVE  ~Hurries(c)' /\ (Holds(c)' => build'[c].held = build'[c].made)
    BY DEF RemovalsAreAimed
  <2>1. \A d \in Builders : ~build[d].late
    BY <1>2, <1>4
  <2>2. CASE c = b
    BY <1>1, <1>2, <1>4, <2>2 DEF Hurries, Holds
  <2>3. CASE c # b
    <3>1. path = build[b].made /\ (Hurries(c) => path = build[c].made) /\ (Holds(c) => build[c].held = build[c].made)
      BY <1>3, <2>1 DEF BuildInv, RemovalsAreAimed, Hurries, IsAt
    <3>2. ~Hurries(c)
      BY <1>7, <2>3, <3>1 DEF Owns, Hurries
    <3> QED
      BY <1>4, <2>3, <3>1, <3>2 DEF Hurries, Holds
  <2> QED
    BY <2>2, <2>3
<1>9. AloneIsSafe'
  <2> SUFFICES ASSUME swaps = 0, NEW c \in Builders
               PROVE  ~build'[c].late /\ build'[c].pc \notin {"preserved", "open", "emit", "check", "remove"}
    BY <1>3 DEF AloneIsSafe, IsAt, Owns
  <2>1. path = build[b].made /\ path # Nowhere
    BY <1>3, <1>t DEF BuildInv, AloneIsSafe, DirectoriesAreTheirs, IsAt, Owns, Nowhere, BuildType
  <2>2. CASE c = b
    BY <1>1, <1>2, <1>4, <2>1, <2>2 DEF BuildInv, AloneIsSafe
  <2>3. CASE c # b
    BY <1>4, <1>7, <2>1, <2>3 DEF BuildInv, AloneIsSafe, IsAt, Owns
  <2> QED
    BY <2>2, <2>3
<1>10. WritesFollow'
  BY <1>2, <1>4 DEF BuildInv, WritesFollow
<1> QED
  BY <1>5, <1>6, <1>8, <1>9, <1>10 DEF BuildInv

\* Whatever somebody does to the path, it overtakes every removal that is decided.
LEMMA SwapKeepsInv ==
    ASSUME BuildInv, Swap
    PROVE  BuildInv'
<1>t. BuildTypeOK
  BY DEF BuildInv
<1> DEFINE new(c) == [build[c] EXCEPT !.late = @ \/ Hurries(c)]
<1>1. ASSUME NEW c \in Builders
      PROVE  /\ new(c) \in BuildType /\ new(c).pc = build[c].pc /\ new(c).made = build[c].made /\ new(c).held = build[c].held
             /\ new(c).written = build[c].written /\ (Hurries(c) \/ build[c].late => new(c).late)
  BY <1>t DEF BuildTypeOK, BuildType, Hurries
<1>2. build' = [c \in Builders |-> new(c)] /\ swaps' = swaps + 1
  BY DEF Swap
<1> HIDE DEF new
<1>3. \A c \in Builders : build'[c] = new(c)
  BY <1>2
<1>4. dirs' \in Seq(DirectoryType) /\ path' \in 0..Len(dirs') /\ Len(dirs') >= Len(dirs)
  <2>1. CASE NewDirectory(Others)
    <3>1. Directory(Others) \in DirectoryType
      BY DEF Directory, DirectoryType
    <3> QED
      BY <2>1, <3>1, <1>t DEF NewDirectory, BuildTypeOK
  <2>2. CASE path' = Nowhere /\ UNCHANGED dirs
    BY <2>2, <1>t DEF BuildTypeOK, Nowhere
  <2> QED
    BY <2>1, <2>2 DEF Swap
<1>5. BuildTypeOK'
  BY <1>1, <1>2, <1>4, <1>t DEF BuildTypeOK
<1>6. DirectoriesAreTheirs'
  <2>1. \A c \in Builders : build[c].made \in Nat /\ Len(dirs) \in Nat /\ Len(dirs') \in Nat
    BY <1>4, <1>t DEF BuildTypeOK, BuildType
  <2> QED
    BY <1>1, <1>3, <1>4, <2>1 DEF BuildInv, DirectoriesAreTheirs, Owns
<1>7. RemovalsAreAimed'
  BY <1>1, <1>3 DEF BuildInv, RemovalsAreAimed, Hurries, Holds
<1>8. AloneIsSafe'
  BY <1>2, <1>t DEF AloneIsSafe, BuildTypeOK
<1>9. WritesFollow'
  BY <1>1, <1>3 DEF BuildInv, WritesFollow
<1> QED
  BY <1>5, <1>6, <1>7, <1>8, <1>9 DEF BuildInv

\* `warble author build` cleans up after itself and nobody else, unless somebody came
\* between the making of a directory and its opening, or between the look and the removal:
\* for any number of builds at one path, any emission, and whoever moves directories about.
THEOREM BuildsKeepToTheirOwn == BuildSpec => BuildKeepsToItsOwn
<1>1. BuildInit => BuildInv
  <2> SUFFICES ASSUME BuildInit
               PROVE  BuildInv
    OBVIOUS
  <2>1. Build("start", 0, 0) \in BuildType /\ ~Build("start", 0, 0).late
        /\ Build("start", 0, 0).pc = "start" /\ Build("start", 0, 0).made = 0 /\ Build("start", 0, 0).held = 0
        /\ Build("start", 0, 0).written = 0
    BY DEF Build, BuildType, Pcs, Nowhere
  <2>2. \A b \in Builders : build[b] = Build("start", 0, 0)
    BY DEF BuildInit
  <2>3. BuildTypeOK
    BY <2>1 DEF BuildInit, BuildTypeOK, Nowhere
  <2> QED
    BY <2>1, <2>2, <2>3
    DEF BuildInit, BuildInv, DirectoriesAreTheirs, RemovalsAreAimed, AloneIsSafe, WritesFollow, Hurries, Holds, IsAt, Owns
<1>2. ASSUME BuildInv, [BuildNext]_buildVars
      PROVE  BuildInv'
  <2>1. ASSUME NEW b \in Builders, BeginBuild(b)
        PROVE  BuildInv'
    <3>1. PICK pc \in {"refused", "reserve"} : Goes(b, pc)
      BY <2>1 DEF BeginBuild
    <3> QED
      BY <1>2, <2>1, <3>1, GoingOnKeepsInv DEF BeginBuild, IsAt, Pcs
  <2>2. ASSUME NEW b \in Builders, CheckIdentity(b)
        PROVE  BuildInv'
    <3>1. SameDirectory(b) \/ swaps > 0
      <4>1. swaps = 0 \/ swaps > 0
        BY <1>2 DEF BuildInv, BuildTypeOK
      <4>2. CASE swaps = 0
        <5>1. path = build[b].made /\ \A c \in Builders : ~build[c].late
          BY <1>2, <2>2, <4>2 DEF CheckIdentity, BuildInv, AloneIsSafe, IsAt, Owns
        <5>2. build[b].held = build[b].made
          BY <1>2, <2>2, <5>1 DEF CheckIdentity, BuildInv, RemovalsAreAimed, IsAt, Holds
        <5> QED
          BY <5>1, <5>2 DEF SameDirectory
      <4> QED
        BY <4>1, <4>2
    <3>2. PICK pc \in {"remove", "preserved"} :
              Goes(b, pc) /\ (pc = "remove" => SameDirectory(b)) /\ (pc = "preserved" => swaps > 0)
      BY <2>2, <3>1 DEF CheckIdentity
    <3> QED
      BY <1>2, <2>2, <3>2, GoingOnKeepsInv DEF CheckIdentity, SameDirectory, IsAt, Holds, Pcs
  <2>3. CASE UNCHANGED buildVars
    BY <1>2, <2>3 DEF buildVars, BuildInv, BuildTypeOK, DirectoriesAreTheirs, RemovalsAreAimed, AloneIsSafe,
                      WritesFollow, IsAt, Owns, Holds, Hurries, EmittedBy
  <2> QED
    BY <1>2, <2>1, <2>2, <2>3, ReserveKeepsInv, RetainKeepsInv, EmissionKeepsInv, RemoveKeepsInv, SwapKeepsInv DEF BuildNext
<1>3. ASSUME BuildInv, BuildInv', [BuildNext]_buildVars, NEW b \in Builders
      PROVE  /\ IsAt(b, "remove") /\ build'[b].pc = "removed" =>
                     path = build[b].made \/ \E c \in Builders : build[c].late
             /\ swaps = 0 /\ build'[b].pc = "preserved" => FALSE
             /\ swaps = 0 /\ IsAt(b, "emit") /\ build'[b].pc = "built" =>
                     path = build[b].made /\ dirs[path].files = {<<b, n>> : n \in 1..MaxFiles}
  <2>1. IsAt(b, "remove") => path = build[b].made \/ \E c \in Builders : build[c].late
    BY <1>3 DEF BuildInv, RemovalsAreAimed, Hurries, IsAt
  <2>2. ASSUME swaps = 0, build'[b].pc = "preserved"
        PROVE  FALSE
    <3>1. swaps' # 0
      BY <1>3, <2>2 DEF BuildInv, AloneIsSafe, IsAt
    <3>2. Swap
      BY <1>3, <2>2, <3>1 DEF BuildNext, buildVars, BeginBuild, Reserve, Retain, Emit, CheckIdentity, RemoveAll
    <3>3. build[b] \in BuildType /\ build'[b] = [build[b] EXCEPT !.late = @ \/ Hurries(b)]
      BY <1>3, <3>2 DEF Swap, BuildInv, BuildTypeOK
    <3> QED
      BY <1>3, <2>2, <3>3 DEF BuildInv, AloneIsSafe, IsAt, BuildType
  <2>3. ASSUME swaps = 0, IsAt(b, "emit"), build'[b].pc = "built"
        PROVE  path = build[b].made /\ dirs[path].files = {<<b, n>> : n \in 1..MaxFiles}
    <3>1. path = build[b].made /\ dirs[path].files = EmittedBy(b)
      BY <1>3, <2>3 DEF BuildInv, AloneIsSafe, Owns, IsAt
    <3>2. build[b].written = MaxFiles
      <4>1. build \in [Builders -> BuildType] /\ build[b].pc = "emit"
        BY <1>3, <2>3 DEF BuildInv, BuildTypeOK, IsAt
      <4>2. ASSUME NEW c \in Builders, NEW pc \in Pcs, Goes(c, pc), pc # "built" \/ c # b
            PROVE  FALSE
        BY <2>3, <4>1, <4>2 DEF Goes, BuildType
      <4>3. ~Swap
        BY <2>3, <4>1 DEF Swap, BuildType
      <4>4. \A c \in Builders : ~BeginBuild(c) /\ ~CheckIdentity(c) /\ ~RemoveAll(c)
        BY <4>2 DEF BeginBuild, CheckIdentity, RemoveAll, Pcs
      <4>5. \A c \in Builders : ~Reserve(c) /\ ~Retain(c)
        <5>1. ASSUME NEW c \in Builders, Reserve(c)
              PROVE  FALSE
          <6>1. CASE Goes(c, "refused")
            BY <4>2, <6>1 DEF Pcs
          <6>2. CASE build' = [build EXCEPT ![c].pc = "open", ![c].made = Len(dirs) + 1]
            BY <2>3, <4>1, <6>2 DEF BuildType
          <6> QED
            BY <5>1, <6>1, <6>2 DEF Reserve
        <5>2. ASSUME NEW c \in Builders, Retain(c)
              PROVE  FALSE
          <6>1. CASE Goes(c, "left")
            BY <4>2, <6>1 DEF Pcs
          <6>2. CASE build' = [build EXCEPT ![c].pc = "emit", ![c].held = path]
            BY <2>3, <4>1, <6>2 DEF BuildType
          <6> QED
            BY <5>2, <6>1, <6>2 DEF Retain
        <5> QED
          BY <5>1, <5>2
      <4>6. PICK c \in Builders : Emit(c)
        BY <1>3, <2>3, <4>1, <4>3, <4>4, <4>5 DEF BuildNext, buildVars
      <4>7. CASE build' = [build EXCEPT ![c].written = @ + 1]
        BY <2>3, <4>1, <4>7 DEF BuildType
      <4>8. CASE build[c].written = MaxFiles /\ Goes(c, "built")
        BY <4>2, <4>8 DEF Pcs
      <4>9. CASE Goes(c, "check")
        BY <4>2, <4>9 DEF Pcs
      <4> QED
        BY <4>6, <4>7, <4>8, <4>9 DEF Emit
    <3> QED
      BY <3>1, <3>2 DEF EmittedBy
  <2> QED
    BY <2>1, <2>2, <2>3
<1>4. ASSUME BuildInv, BuildInv', [BuildNext]_buildVars
      PROVE  \A b \in Builders :
               /\ IsAt(b, "remove") /\ build'[b].pc = "removed" =>
                     path = build[b].made \/ \E c \in Builders : build[c].late
               /\ swaps = 0 /\ build'[b].pc = "preserved" => FALSE
               /\ swaps = 0 /\ IsAt(b, "emit") /\ build'[b].pc = "built" =>
                     /\ path = build[b].made
                     /\ dirs[path].files = {<<b, n>> : n \in 1..MaxFiles}
  BY <1>3, <1>4
<1> QED
  BY <1>1, <1>2, <1>4, PTL DEF BuildSpec, BuildKeepsToItsOwn

-------------------------------------------------------------------------------
(* The output.  An emission has written what of its plan is not left to write,   *)
(* and nothing else, until it lands the files of the manifest.                   *)

Recorded ==
    dispatch = [pc |-> dispatch.pc, kind |-> dispatch.kind, project |-> dispatch.project, left |-> dispatch.left,
                manifest |-> dispatch.manifest, landing |-> dispatch.landing, before |-> dispatch.before,
                touched |-> dispatch.touched, stopped |-> dispatch.stopped]

Wrote == Written(dispatch.project.shapes)
EmittedWhole(n) == Untouched(n) => n \in DOMAIN out /\ out[n] = Content("emitted", dispatch.project.text, dispatch.kind)
Landed(d) ==
    Untouched(Landing(d)) =>
        /\ Landing(d) \in DOMAIN out
        /\ \E e \in DOMAIN dispatch.manifest :
              e.path = d.path /\ out[Landing(d)] = Content("asset", dispatch.manifest[e], "")

LeftIsToWrite ==
    /\ dispatch.pc = "prepare" => dispatch.left = Wrote
    /\ dispatch.pc = "emit" => dispatch.left \subseteq Wrote /\ dispatch.left # {}
    /\ dispatch.pc = "write" => dispatch.left \subseteq DOMAIN dispatch.manifest /\ dispatch.left # {}

EmittedSoFar ==
    /\ dispatch.pc = "emit" => \A n \in Wrote \ dispatch.left : EmittedWhole(n)
    /\ dispatch.pc \in {"ownership", "launch", "land"} => \A n \in Wrote : EmittedWhole(n)
    /\ dispatch.pc \in {"write", "done"} => \A n \in Wrote \ Landings(dispatch.manifest) : EmittedWhole(n)

LandedSoFar ==
    /\ dispatch.pc = "write" => \A d \in DOMAIN dispatch.manifest : dispatch.landing[d] = dispatch.manifest[d]
    /\ dispatch.pc = "write" => \A d \in DOMAIN dispatch.manifest \ dispatch.left : Landed(d)
    /\ dispatch.pc = "done" => \A d \in DOMAIN dispatch.manifest : Landed(d)

StoppedOnce == dispatch.pc # "refused" => dispatch.stopped = ""

NothingElseYet ==
    dispatch.pc \in {"prepare", "emit", "ownership", "launch", "land"} \/ dispatch.stopped = "land" =>
        \A n \in DOMAIN out \ Wrote : Untouched(n) => n \in DOMAIN dispatch.before /\ out[n] = dispatch.before[n]

OverwrittenIsKnown ==
    dispatch.kind = MARK /\ dispatch.pc = "emit" =>
        \A n \in DOMAIN out \cap Wrote :
            out[n] = User => \/ n \in dispatch.touched \/ n[2] = "isolated.md"
                             \/ n \in DOMAIN ownership.digests /\ ownership.digests[n] = User

DeliveryInv ==
    /\ Recorded /\ LeftIsToWrite /\ EmittedSoFar /\ LandedSoFar
    /\ StoppedOnce /\ NothingElseYet /\ OverwrittenIsKnown

LEMMA PutPuts ==
    ASSUME NEW files, NEW n, NEW content
    PROVE  /\ DOMAIN Put(files, n, content) = {n} \cup DOMAIN files
           /\ Put(files, n, content)[n] = content
           /\ \A m \in DOMAIN files : m # n => Put(files, n, content)[m] = files[m]
BY DEF Put

LEMMA WrittenIsPlanned ==
    ASSUME NEW shapes, NEW n \in Written(shapes) \ Planned(shapes)
    PROVE  n[2] = "isolated.md"
<1>1. Of({"split"}, shapes) \subseteq Of({"split", "isolated split"}, shapes)
  BY DEF Of
<1>2. PICK c \in Of({"isolated", "isolated split"}, shapes) : n = <<c, "isolated.md">>
  BY <1>1 DEF Written, Planned
<1>3. <<c, "isolated.md">>[2] = "isolated.md"
  OBVIOUS
<1> QED
  BY <1>2, <1>3

LEMMA FirstIsLeft == ASSUME NEW S, S # {} PROVE First(S) \in S
BY DEF First

\* The author's commands, and whatever leaves the output and the dispatch alone.
LEMMA OthersKeepInv ==
    ASSUME DeliveryInv, UNCHANGED <<out, ownership, dispatch>>
    PROVE  DeliveryInv'
<1>1. Recorded' /\ LeftIsToWrite' /\ StoppedOnce' /\ NothingElseYet' /\ OverwrittenIsKnown'
  BY DEF DeliveryInv, Recorded, LeftIsToWrite, StoppedOnce, NothingElseYet, OverwrittenIsKnown, Wrote, Untouched
<1>2. EmittedSoFar' /\ LandedSoFar'
  BY DEF DeliveryInv, EmittedSoFar, LandedSoFar, Wrote, EmittedWhole, Landed, Untouched, Landings
<1> QED
  BY <1>1, <1>2 DEF DeliveryInv

LEMMA LoadKeepsInv ==
    ASSUME NEW kind, LoadIr(kind)
    PROVE  DeliveryInv'
<1> DEFINE begun == [NoDispatch EXCEPT !.kind = kind, !.before = out, !.project = ir.project,
                                       !.left = IF ir.state = "whole" THEN Written(ir.project.shapes) ELSE {}]
<1>1. CASE ir.state # "whole"
  <2>1. dispatch' = [begun EXCEPT !.pc = "refused", !.stopped = "load"]
    BY <1>1 DEF LoadIr
  <2>2. Recorded' /\ dispatch'.pc = "refused" /\ dispatch'.stopped = "load"
    BY <2>1 DEF Recorded, NoDispatch
  <2> QED
    BY <2>2 DEF DeliveryInv, LeftIsToWrite, EmittedSoFar, LandedSoFar, StoppedOnce, NothingElseYet, OverwrittenIsKnown
<1>2. CASE ir.state = "whole"
  <2>1. dispatch' = [begun EXCEPT !.pc = IF kind = MARK THEN "prepare" ELSE "emit"] /\ out' = out
    BY <1>2 DEF LoadIr, outputVars
  <2>2. /\ Recorded' /\ dispatch'.pc = (IF kind = MARK THEN "prepare" ELSE "emit") /\ dispatch'.stopped = ""
        /\ dispatch'.kind = kind /\ dispatch'.before = out /\ dispatch'.touched = {}
        /\ dispatch'.left = Wrote'
    BY <1>2, <2>1 DEF Recorded, NoDispatch, Wrote
  <2>3. Wrote' # {}
    BY DEF Wrote, Written, Scope
  <2>4. LeftIsToWrite' /\ EmittedSoFar' /\ LandedSoFar' /\ StoppedOnce' /\ OverwrittenIsKnown'
    BY <2>2, <2>3 DEF LeftIsToWrite, EmittedSoFar, LandedSoFar, StoppedOnce, OverwrittenIsKnown
  <2>5. NothingElseYet'
    BY <2>1, <2>2 DEF NothingElseYet
  <2> QED
    BY <2>2, <2>4, <2>5 DEF DeliveryInv
<1> QED
  BY <1>1, <1>2

LEMMA PrepareKeepsInv ==
    ASSUME DeliveryInv, prepare_interactive_output
    PROVE  DeliveryInv'
<1> DEFINE planned == Planned(dispatch.project.shapes)
<1>1. CASE ~Preflight(planned)
  <2>1. dispatch' = [dispatch EXCEPT !.pc = "refused", !.stopped = "prepare"]
    BY <1>1 DEF prepare_interactive_output, Refuse
  <2>2. Recorded' /\ dispatch'.pc = "refused" /\ dispatch'.stopped = "prepare"
    BY <2>1 DEF DeliveryInv, Recorded
  <2> QED
    BY <2>2 DEF DeliveryInv, LeftIsToWrite, EmittedSoFar, LandedSoFar, StoppedOnce, NothingElseYet, OverwrittenIsKnown
<1>2. CASE Preflight(planned)
  <2>1. dispatch' = [dispatch EXCEPT !.pc = "emit"] /\ UNCHANGED <<out, ownership>> /\ dispatch.pc = "prepare"
    BY <1>2 DEF prepare_interactive_output, outputVars
  <2>2. /\ Recorded' /\ dispatch'.pc = "emit" /\ dispatch'.kind = dispatch.kind /\ dispatch'.project = dispatch.project
        /\ dispatch'.left = dispatch.left /\ dispatch'.before = dispatch.before /\ dispatch'.touched = dispatch.touched
        /\ dispatch'.stopped = dispatch.stopped
    BY <2>1 DEF DeliveryInv, Recorded
  <2>3. Wrote' = Wrote /\ Wrote # {}
    BY <2>2 DEF Wrote, Written, Scope
  <2>4. LeftIsToWrite' /\ EmittedSoFar' /\ LandedSoFar' /\ StoppedOnce' /\ NothingElseYet'
    BY <2>1, <2>2, <2>3 DEF DeliveryInv, LeftIsToWrite, EmittedSoFar, LandedSoFar, StoppedOnce, NothingElseYet, Untouched
  <2>5. ASSUME NEW n \in DOMAIN out \cap Wrote, out[n] = User, n[2] # "isolated.md"
        PROVE  n \in DOMAIN ownership.digests /\ ownership.digests[n] = User
    <3>1. n \in planned
      BY <2>5, WrittenIsPlanned DEF Wrote
    <3> QED
      BY <1>2, <2>5, <3>1 DEF Preflight, verify_ownership
  <2>6. OverwrittenIsKnown'
    BY <2>1, <2>2, <2>3, <2>5 DEF OverwrittenIsKnown
  <2> QED
    BY <2>2, <2>4, <2>6 DEF DeliveryInv
<1> QED
  BY <1>1, <1>2

LEMMA EmitKeepsInv ==
    ASSUME DeliveryInv, EmitFile
    PROVE  DeliveryInv'
<1> DEFINE n == First(dispatch.left)
           content == Content("emitted", dispatch.project.text, dispatch.kind)
           next == IF dispatch.left # {n} THEN "emit" ELSE IF dispatch.kind = MARK THEN "ownership" ELSE "land"
<1>1. /\ dispatch.pc = "emit" /\ out' = Put(out, n, content) /\ UNCHANGED ownership
      /\ dispatch' = [dispatch EXCEPT !.left = @ \ {n}, !.pc = next]
  BY DEF EmitFile
<1>2. /\ Recorded' /\ dispatch'.pc = next /\ dispatch'.kind = dispatch.kind /\ dispatch'.project = dispatch.project
      /\ dispatch'.left = dispatch.left \ {n} /\ dispatch'.before = dispatch.before
      /\ dispatch'.touched = dispatch.touched /\ dispatch'.stopped = dispatch.stopped
  BY <1>1 DEF DeliveryInv, Recorded
<1>3. Wrote' = Wrote
  BY <1>2 DEF Wrote
<1>4. n \in dispatch.left /\ n \in Wrote /\ dispatch.left \subseteq Wrote
  BY <1>1, FirstIsLeft DEF DeliveryInv, LeftIsToWrite
<1>5. /\ DOMAIN out' = {n} \cup DOMAIN out /\ out'[n] = content
      /\ \A m \in DOMAIN out : m # n => out'[m] = out[m]
  BY <1>1 DEF Put
<1>6. content # User
  BY DEF Content, User
<1>c. content' = content
  BY <1>2
<1> HIDE DEF n, content
<1>7. LeftIsToWrite'
  BY <1>2, <1>3, <1>4 DEF LeftIsToWrite
<1>8. EmittedSoFar'
  <2>1. \A m \in Wrote \ dispatch'.left : m \notin dispatch'.touched => m \in DOMAIN out' /\ out'[m] = content'
    BY <1>1, <1>2, <1>4, <1>5, <1>c DEF DeliveryInv, EmittedSoFar, EmittedWhole, Untouched, content
  <2>2. dispatch'.pc # "emit" => dispatch'.left = {}
    BY <1>2
  <2> QED
    BY <1>2, <1>3, <2>1, <2>2 DEF EmittedSoFar, EmittedWhole, Untouched, content
<1>9. LandedSoFar' /\ StoppedOnce'
  <2>1. dispatch'.pc \in {"emit", "ownership", "land"} /\ dispatch'.stopped = ""
    BY <1>1, <1>2 DEF DeliveryInv, StoppedOnce
  <2> QED
    BY <2>1 DEF LandedSoFar, StoppedOnce
<1>10. NothingElseYet'
  BY <1>1, <1>2, <1>3, <1>4, <1>5 DEF DeliveryInv, NothingElseYet, Untouched
<1>11. OverwrittenIsKnown'
  BY <1>1, <1>2, <1>3, <1>5, <1>6 DEF DeliveryInv, OverwrittenIsKnown
<1> QED
  BY <1>2, <1>7, <1>8, <1>9, <1>10, <1>11 DEF DeliveryInv

LEMMA OwnershipKeepsInv ==
    ASSUME DeliveryInv, write_ownership \/ write_launch_spec
    PROVE  DeliveryInv'
<1>1. CASE dispatch' = [dispatch EXCEPT !.pc = "refused", !.stopped = "ownership"]
  <2>1. Recorded' /\ dispatch'.pc = "refused" /\ dispatch'.stopped = "ownership"
    BY <1>1 DEF DeliveryInv, Recorded
  <2> QED
    BY <2>1 DEF DeliveryInv, LeftIsToWrite, EmittedSoFar, LandedSoFar, StoppedOnce, NothingElseYet, OverwrittenIsKnown
<1>2. CASE \E pc \in {"launch", "land"} :
              dispatch' = [dispatch EXCEPT !.pc = pc] /\ dispatch.pc \in {"ownership", "launch"} /\ out' = out
  <2>1. /\ Recorded' /\ dispatch'.pc \in {"launch", "land"} /\ dispatch'.kind = dispatch.kind
        /\ dispatch'.project = dispatch.project /\ dispatch'.before = dispatch.before
        /\ dispatch'.touched = dispatch.touched /\ dispatch'.stopped = dispatch.stopped
    BY <1>2 DEF DeliveryInv, Recorded
  <2>2. Wrote' = Wrote
    BY <2>1 DEF Wrote
  <2>3. LeftIsToWrite' /\ LandedSoFar' /\ StoppedOnce' /\ OverwrittenIsKnown'
    BY <1>2, <2>1 DEF DeliveryInv, LeftIsToWrite, LandedSoFar, StoppedOnce, OverwrittenIsKnown
  <2>4. EmittedSoFar' /\ NothingElseYet'
    BY <1>2, <2>1, <2>2 DEF DeliveryInv, EmittedSoFar, NothingElseYet, EmittedWhole, Untouched
  <2> QED
    BY <2>1, <2>3, <2>4 DEF DeliveryInv
<1> QED
  BY <1>1, <1>2 DEF write_ownership, write_launch_spec, Refuse

\* The files that the second reading of the representation names are not emitted yet:
\* what was emitted stays as it is, but for the paths on which they land.
LEMMA VerifyKeepsInv ==
    ASSUME DeliveryInv, land_ir_assets
    PROVE  DeliveryInv'
<1> DEFINE assets == ir.project.assets
<1>1. CASE dispatch' = [dispatch EXCEPT !.pc = "refused", !.stopped = "land"] /\ dispatch.pc = "land" /\ out' = out
  <2>1. /\ Recorded' /\ dispatch'.pc = "refused" /\ dispatch'.stopped = "land" /\ dispatch'.project = dispatch.project
        /\ dispatch'.before = dispatch.before /\ dispatch'.touched = dispatch.touched
    BY <1>1 DEF DeliveryInv, Recorded
  <2>2. Wrote' = Wrote
    BY <2>1 DEF Wrote
  <2>3. NothingElseYet'
    BY <1>1, <2>1, <2>2 DEF DeliveryInv, NothingElseYet, Untouched
  <2> QED
    BY <2>1, <2>3 DEF DeliveryInv, LeftIsToWrite, EmittedSoFar, LandedSoFar, StoppedOnce, OverwrittenIsKnown
<1>2. CASE Verified(assets)
           /\ dispatch' = [dispatch EXCEPT !.left = DOMAIN assets, !.manifest = assets,
                                           !.landing = Restrict(store, DOMAIN assets),
                                           !.pc = IF DOMAIN assets = {} THEN "done" ELSE "write"]
           /\ dispatch.pc = "land" /\ out' = out
  <2> DEFINE next == IF DOMAIN assets = {} THEN "done" ELSE "write"
  <2>1. /\ Recorded' /\ dispatch'.pc = next /\ dispatch'.kind = dispatch.kind /\ dispatch'.project = dispatch.project
        /\ dispatch'.left = DOMAIN assets /\ dispatch'.manifest = assets /\ dispatch'.touched = dispatch.touched
        /\ dispatch'.landing = Restrict(store, DOMAIN assets) /\ dispatch'.stopped = dispatch.stopped
    BY <1>2 DEF DeliveryInv, Recorded
  <2>2. Wrote' = Wrote
    BY <2>1 DEF Wrote
  <2>3. dispatch'.pc \in {"done", "write"} /\ dispatch'.stopped = ""
    BY <1>2, <2>1 DEF DeliveryInv, StoppedOnce
  <2>4. \A d \in DOMAIN assets : dispatch'.landing[d] = assets[d]
    BY <1>2, <2>1 DEF Verified, Restrict
  <2>5. EmittedSoFar'
    BY <1>2, <2>1, <2>2, <2>3 DEF DeliveryInv, EmittedSoFar, EmittedWhole, Untouched
  <2>6. LandedSoFar' /\ LeftIsToWrite'
    BY <2>1, <2>3, <2>4 DEF LandedSoFar, LeftIsToWrite
  <2>7. StoppedOnce' /\ NothingElseYet' /\ OverwrittenIsKnown'
    BY <2>3 DEF StoppedOnce, NothingElseYet, OverwrittenIsKnown
  <2> QED
    BY <2>1, <2>5, <2>6, <2>7 DEF DeliveryInv
<1> QED
  BY <1>1, <1>2 DEF land_ir_assets, Refuse, outputVars

LEMMA LandKeepsInv ==
    ASSUME DeliveryInv, LandFile
    PROVE  DeliveryInv'
<1> DEFINE d == First(dispatch.left)
           at == Landing(d)
           content == Content("asset", dispatch.landing[d], "")
           next == IF dispatch.left = {d} THEN "done" ELSE "write"
<1>1. /\ dispatch.pc = "write" /\ out' = Put(out, at, content)
      /\ dispatch' = [dispatch EXCEPT !.left = @ \ {d}, !.pc = next]
  BY DEF LandFile
<1>2. /\ Recorded' /\ dispatch'.pc = next /\ dispatch'.kind = dispatch.kind /\ dispatch'.project = dispatch.project
      /\ dispatch'.left = dispatch.left \ {d} /\ dispatch'.manifest = dispatch.manifest
      /\ dispatch'.landing = dispatch.landing /\ dispatch'.touched = dispatch.touched /\ dispatch'.stopped = dispatch.stopped
  BY <1>1 DEF DeliveryInv, Recorded
<1>3. dispatch'.pc \in {"done", "write"} /\ dispatch'.stopped = ""
  BY <1>1, <1>2 DEF DeliveryInv, StoppedOnce
<1>4. /\ d \in dispatch.left /\ d \in DOMAIN dispatch.manifest /\ dispatch.left \subseteq DOMAIN dispatch.manifest
      /\ content = Content("asset", dispatch.manifest[d], "")
  BY <1>1, FirstIsLeft DEF DeliveryInv, LeftIsToWrite, LandedSoFar
<1>5. /\ DOMAIN out' = {at} \cup DOMAIN out /\ out'[at] = content
      /\ \A m \in DOMAIN out : m # at => out'[m] = out[m]
  BY <1>1 DEF Put
<1>6. at \in Landings(dispatch.manifest)
  BY <1>4 DEF Landings
<1>7. \A e \in DOMAIN dispatch.manifest : Landing(e) = at => d.path = e.path
  BY DEF Landing
<1>w. Wrote' = Wrote /\ Landings(dispatch.manifest)' = Landings(dispatch.manifest)
  BY <1>2 DEF Wrote, Landings
<1> HIDE DEF d, at, content
<1>8. LeftIsToWrite'
  BY <1>2, <1>3, <1>4 DEF LeftIsToWrite
<1>9. EmittedSoFar'
  BY <1>1, <1>2, <1>3, <1>5, <1>6, <1>w DEF DeliveryInv, EmittedSoFar, EmittedWhole, Untouched
<1>10. \A e \in DOMAIN dispatch.manifest : e = d \/ e \notin dispatch.left => Landed(e)'
  <2> SUFFICES ASSUME NEW e \in DOMAIN dispatch.manifest, e = d \/ e \notin dispatch.left, Landing(e) \notin dispatch.touched
               PROVE  /\ Landing(e) \in DOMAIN out'
                      /\ \E f \in DOMAIN dispatch.manifest :
                            f.path = e.path /\ out'[Landing(e)] = Content("asset", dispatch.manifest[f], "")
    BY <1>2 DEF Landed, Untouched
  <2>1. CASE Landing(e) = at
    BY <1>4, <1>5, <1>7, <2>1
  <2>2. CASE Landing(e) # at
    <3>1. e # d
      BY <2>2 DEF at
    <3>2. Landed(e)
      BY <1>1, <3>1 DEF DeliveryInv, LandedSoFar
    <3> QED
      BY <1>5, <2>2, <3>2 DEF Landed, Untouched
  <2> QED
    BY <2>1, <2>2
<1>11. LandedSoFar'
  <2>1. dispatch'.pc = "done" => dispatch.left = {d}
    BY <1>2
  <2> QED
    BY <1>1, <1>2, <1>3, <1>10, <2>1 DEF DeliveryInv, LandedSoFar
<1>12. StoppedOnce' /\ NothingElseYet' /\ OverwrittenIsKnown'
  BY <1>3 DEF StoppedOnce, NothingElseYet, OverwrittenIsKnown
<1> QED
  BY <1>2, <1>8, <1>9, <1>11, <1>12 DEF DeliveryInv

LEMMA StoppingKeepsInv ==
    ASSUME DeliveryInv, DispatchStops
    PROVE  DeliveryInv'
<1>1. dispatch' = [dispatch EXCEPT !.pc = "refused", !.stopped = "stopped"]
  BY DEF DispatchStops, Refuse
<1>2. Recorded' /\ dispatch'.pc = "refused" /\ dispatch'.stopped = "stopped"
  BY <1>1 DEF DeliveryInv, Recorded
<1> QED
  BY <1>2 DEF DeliveryInv, LeftIsToWrite, EmittedSoFar, LandedSoFar, StoppedOnce, NothingElseYet, OverwrittenIsKnown

LEMMA WritingKeepsInv ==
    ASSUME DeliveryInv, UserWrites
    PROVE  DeliveryInv'
<1>1. CASE UNCHANGED <<out, dispatch>>
  BY <1>1, OthersKeepInv DEF UserWrites
<1>2. CASE \E n \in DOMAIN out \cup Scope :
              out' = Put(out, n, User) /\ dispatch' = [dispatch EXCEPT !.touched = @ \cup {n}]
  <2>1. PICK n \in DOMAIN out \cup Scope :
              out' = Put(out, n, User) /\ dispatch' = [dispatch EXCEPT !.touched = @ \cup {n}]
    BY <1>2
  <2>2. /\ Recorded' /\ dispatch'.pc = dispatch.pc /\ dispatch'.kind = dispatch.kind /\ dispatch'.project = dispatch.project
        /\ dispatch'.left = dispatch.left /\ dispatch'.manifest = dispatch.manifest /\ dispatch'.landing = dispatch.landing
        /\ dispatch'.before = dispatch.before /\ dispatch'.touched = dispatch.touched \cup {n}
        /\ dispatch'.stopped = dispatch.stopped
    BY <2>1 DEF DeliveryInv, Recorded
  <2>3. /\ DOMAIN out' = {n} \cup DOMAIN out
        /\ \A m \in DOMAIN out : m # n => out'[m] = out[m]
    BY <2>1 DEF Put
  <2>4. Wrote' = Wrote /\ Landings(dispatch.manifest)' = Landings(dispatch.manifest) /\ ownership' = ownership
    BY <2>2 DEF Wrote, Landings, UserWrites
  <2>5. \A m : EmittedWhole(m) => EmittedWhole(m)'
    BY <2>2, <2>3 DEF EmittedWhole, Untouched
  <2>6. \A d : Landed(d) => Landed(d)'
    BY <2>2, <2>3 DEF Landed, Untouched
  <2>7. LeftIsToWrite' /\ StoppedOnce' /\ NothingElseYet' /\ OverwrittenIsKnown'
    BY <2>2, <2>3, <2>4 DEF DeliveryInv, LeftIsToWrite, StoppedOnce, NothingElseYet, OverwrittenIsKnown, Untouched
  <2>8. EmittedSoFar' /\ LandedSoFar'
    BY <2>2, <2>4, <2>5, <2>6 DEF DeliveryInv, EmittedSoFar, LandedSoFar
  <2> QED
    BY <2>2, <2>7, <2>8 DEF DeliveryInv
<1> QED
  BY <1>1, <1>2 DEF UserWrites

LEMMA DeliveryStep == DeliveryInv /\ [DeliveryNext]_deliveryVars => DeliveryInv'
<1> SUFFICES ASSUME DeliveryInv, [DeliveryNext]_deliveryVars PROVE DeliveryInv'
  OBVIOUS
<1>1. CASE StartCompile \/ WriteIr \/ OpenAsset \/ WriteAsset \/ CompileStops \/ LoseStore
  BY <1>1, OthersKeepInv DEF StartCompile, WriteIr, OpenAsset, WriteAsset, CompileStops, LoseStore, outputVars
<1>2. CASE LoadIr("headless") \/ LoadIr(MARK)
  BY <1>2, LoadKeepsInv
<1>3. CASE prepare_interactive_output
  BY <1>3, PrepareKeepsInv
<1>4. CASE EmitFile
  BY <1>4, EmitKeepsInv
<1>5. CASE write_ownership \/ write_launch_spec
  BY <1>5, OwnershipKeepsInv
<1>6. CASE land_ir_assets
  BY <1>6, VerifyKeepsInv
<1>7. CASE LandFile
  BY <1>7, LandKeepsInv
<1>8. CASE DispatchStops
  BY <1>8, StoppingKeepsInv
<1>9. CASE UserWrites
  BY <1>9, WritingKeepsInv
<1>10. CASE UNCHANGED deliveryVars
  BY <1>10, OthersKeepInv DEF deliveryVars
<1> QED
  BY <1>1, <1>2, <1>3, <1>4, <1>5, <1>6, <1>7, <1>8, <1>9, <1>10 DEF DeliveryNext

LEMMA DeliveryStart == DeliveryInit => DeliveryInv
<1> SUFFICES ASSUME DeliveryInit PROVE DeliveryInv
  OBVIOUS
<1>1. Recorded /\ dispatch.pc = "idle" /\ dispatch.stopped = ""
  BY DEF DeliveryInit, NoDispatch, Recorded
<1> QED
  BY <1>1 DEF DeliveryInv, LeftIsToWrite, EmittedSoFar, LandedSoFar, StoppedOnce, NothingElseYet, OverwrittenIsKnown

\* Whatever the projects are, and however often the author, the user and deaths
\* intervene: a dispatch that ends well has landed what the manifest names and emitted
\* the rest from one text, and one that refuses the files has put none of them down.
THEOREM DeliveriesAreWhole == DeliverySpec => []LandedIsTheManifest
<1>1. DeliveryInv => LandedIsTheManifest
  BY DEF DeliveryInv, LandedIsTheManifest, EmittedSoFar, LandedSoFar, NothingElseYet, EmittedWhole, Landed, Wrote
<1> QED
  BY <1>1, DeliveryStart, DeliveryStep, PTL DEF DeliverySpec

\* An interactive dispatch emits over nothing that the user of the output wrote,
\* except while it emits, or what its own record holds to be emitted.
THEOREM EmissionsSpareTheUser == DeliverySpec => UserWorkSurvives
<1> DEFINE Spares ==
        dispatch.kind = MARK /\ dispatch.pc = "emit" =>
          \A n \in DOMAIN out \cap Written(dispatch.project.shapes) :
              out[n] = User /\ out'[n] # User =>
                  \/ n \in dispatch.touched \/ n[2] = "isolated.md"
                  \/ n \in DOMAIN ownership.digests /\ ownership.digests[n] = User
<1>1. DeliveryInv => Spares
  BY DEF DeliveryInv, OverwrittenIsKnown, Wrote
<1>2. DeliveryInv => [Spares]_deliveryVars
  BY <1>1
<1> HIDE DEF Spares
<1>3. DeliverySpec => [][Spares]_deliveryVars
  BY <1>2, DeliveryStart, DeliveryStep, PTL DEF DeliverySpec
<1> QED
  BY <1>3 DEF UserWorkSurvives, Spares
-------------------------------------------------------------------------------
(* The record of what was emitted.  That it still stands, and that the output may *)
(* be emitted again, takes what an undisturbed emission knows at each point.       *)

OwnShape ==
    /\ compiler = [pc |-> compiler.pc, plan |-> compiler.plan, left |-> compiler.left, open |-> compiler.open]
    /\ spent = [compiles |-> spent.compiles, dispatches |-> spent.dispatches,
                mishaps |-> spent.mishaps, excuses |-> spent.excuses]

Recording == dispatch.pc \in {"prepare", "emit", "ownership", "launch"}

\* What is compiled and dispatched is what an author wrote.
AuthoredOnly ==
    /\ compiler.pc = "ir" => compiler.plan \in Projects
    /\ ir.state = "whole" => ir.project \in Projects
    /\ Recording => dispatch.project \in Projects

\* Only an interactive emission is prepared and recorded, and launched with a record.
RecordFirst ==
    /\ dispatch.pc \in {"prepare", "ownership", "launch"} => dispatch.kind = MARK
    /\ launch = "spec" \/ dispatch.pc = "launch" => ownership.state # "none"
    /\ ownership.state # "whole" => DOMAIN ownership.digests = {}
    /\ dispatch.pc = "launch" /\ dispatch.touched = {} => verify_ownership(DOMAIN ownership.digests)

UserOr(content) == {User, content}
TextOf(p) == Content("emitted", p.text, MARK)

\* While one emits, what it has written holds its text or what the user wrote over it.
HoldsItsText ==
    /\ dispatch.pc = "ownership" => dispatch.left = {}
    /\ dispatch.kind = MARK /\ dispatch.pc \in {"emit", "ownership"} =>
          \A n \in (Wrote \ dispatch.left) \cap DOMAIN out : out[n] \in UserOr(TextOf(dispatch.project))

RecordIsOneEmission ==
    ownership.state = "whole" =>
        \E p \in Projects :
            /\ DOMAIN ownership.digests = Planned(p.shapes)
            /\ \A n \in DOMAIN ownership.digests \cap Written(p.shapes) :
                  ownership.digests[n] \in UserOr(TextOf(p))

\* With nobody and nothing in the way: an emission is interactive; what is there is marked
\* and recorded, unless an emission is under way, which then finds all of its plan there.
Undisturbed ==
    spent.excuses = {} =>
        /\ dispatch.pc = "emit" => dispatch.kind = MARK
        /\ \A n \in Marked \cap DOMAIN out : out[n].mark = MARK
        /\ launch \in {"none", "spec"}
        /\ ownership.state = "whole" =>
              IF dispatch.pc \in {"emit", "ownership"} THEN Planned(dispatch.project.shapes) \subseteq DOMAIN out
              ELSE verify_ownership(DOMAIN ownership.digests)
        /\ dispatch.stopped = "prepare" => DOMAIN ownership.digests # Planned(dispatch.project.shapes)

OwnInv ==
    /\ OwnShape /\ AuthoredOnly /\ RecordFirst /\ HoldsItsText /\ RecordIsOneEmission /\ Undisturbed

\* The author's commands touch neither the output nor the dispatch.
LEMMA AuthorsKeepOwn ==
    ASSUME OwnInv, StartCompile \/ WriteIr \/ OpenAsset \/ WriteAsset \/ CompileStops \/ LoseStore \/ UNCHANGED deliveryVars
    PROVE  OwnInv'
<1>1. UNCHANGED <<out, ownership, launch, dispatch>>
  BY DEF StartCompile, WriteIr, OpenAsset, WriteAsset, CompileStops, LoseStore, outputVars, deliveryVars
<1>2. OwnShape' /\ (spent'.excuses = {} => spent.excuses = {})
  <2>1. CASE StartCompile
    BY <2>1 DEF StartCompile, OwnInv, OwnShape
  <2>2. CASE WriteIr
    BY <2>2 DEF WriteIr, OwnInv, OwnShape
  <2>3. CASE OpenAsset
    BY <2>3 DEF OpenAsset, OwnInv, OwnShape
  <2>4. CASE WriteAsset
    <3>1. PICK d : compiler' = [compiler EXCEPT !.left = @ \ {d}, !.open = {}, !.pc = IF compiler.left = {d} THEN "done" ELSE "assets"]
      BY <2>4 DEF WriteAsset
    <3> QED BY <2>4, <3>1 DEF WriteAsset, OwnInv, OwnShape
  <2>5. CASE CompileStops
    BY <2>5 DEF CompileStops, Mishap, OwnInv, OwnShape
  <2>6. CASE LoseStore
    BY <2>6 DEF LoseStore, Mishap, OwnInv, OwnShape
  <2>7. CASE UNCHANGED deliveryVars
    BY <2>7 DEF deliveryVars, OwnInv, OwnShape
  <2> QED BY <2>1, <2>2, <2>3, <2>4, <2>5, <2>6, <2>7
<1>3. /\ compiler'.pc = "ir" => compiler'.plan \in Projects
      /\ ir'.state = "whole" => ir'.project \in Projects
  <2>1. CASE StartCompile
    BY <2>1 DEF StartCompile, Ir
  <2>2. CASE WriteIr
    <3>1. compiler.pc = "ir" /\ ir' = [state |-> "whole", project |-> compiler.plan]
      BY <2>2 DEF WriteIr, Ir
    <3>2. compiler'.pc \in {"done", "assets"}
      BY <2>2 DEF WriteIr, OwnInv, OwnShape
    <3> QED BY <3>1, <3>2 DEF OwnInv, AuthoredOnly
  <2>3. CASE OpenAsset
    <3>1. ir' = ir /\ compiler'.pc # "ir"
      BY <2>3 DEF OpenAsset, OwnInv, OwnShape
    <3> QED BY <3>1 DEF OwnInv, AuthoredOnly
  <2>4. CASE WriteAsset
    <3>1. PICK d : compiler' = [compiler EXCEPT !.left = @ \ {d}, !.open = {}, !.pc = IF compiler.left = {d} THEN "done" ELSE "assets"]
      BY <2>4 DEF WriteAsset
    <3>2. ir' = ir /\ compiler'.pc # "ir"
      BY <2>4, <3>1 DEF WriteAsset, OwnInv, OwnShape
    <3> QED BY <3>2 DEF OwnInv, AuthoredOnly
  <2>5. CASE CompileStops
    <3>1. ir' = ir /\ compiler'.pc # "ir"
      BY <2>5 DEF CompileStops, OwnInv, OwnShape
    <3> QED BY <3>1 DEF OwnInv, AuthoredOnly
  <2>6. CASE LoseStore
    BY <2>6 DEF LoseStore, OwnInv, AuthoredOnly
  <2>7. CASE UNCHANGED deliveryVars
    BY <2>7 DEF deliveryVars, OwnInv, AuthoredOnly
  <2> QED BY <2>1, <2>2, <2>3, <2>4, <2>5, <2>6, <2>7
<1>4. AuthoredOnly'
  BY <1>1, <1>3 DEF OwnInv, AuthoredOnly, Recording
<1>5. RecordFirst' /\ RecordIsOneEmission'
  BY <1>1 DEF OwnInv, RecordFirst, RecordIsOneEmission, verify_ownership
<1>6. HoldsItsText'
  BY <1>1 DEF OwnInv, HoldsItsText, Wrote
<1>7. Undisturbed'
  BY <1>1, <1>2 DEF OwnInv, Undisturbed, verify_ownership
<1> QED BY <1>2, <1>4, <1>5, <1>6, <1>7 DEF OwnInv

\* A dispatch that begins or ends changes nothing of the output.
LEMMA LoadKeepsOwn ==
    ASSUME OwnInv, NEW kind \in {"headless", MARK}, LoadIr(kind)
    PROVE  OwnInv'
<1> DEFINE begun == [NoDispatch EXCEPT !.kind = kind, !.before = out, !.project = ir.project,
                                       !.left = IF ir.state = "whole" THEN Written(ir.project.shapes) ELSE {}]
<1>1. /\ UNCHANGED <<ir, compiler, out, ownership, launch>> /\ AtRest(dispatch.pc)
      /\ dispatch' = IF ir.state # "whole" THEN [begun EXCEPT !.pc = "refused", !.stopped = "load"]
                     ELSE [begun EXCEPT !.pc = IF kind = MARK THEN "prepare" ELSE "emit"]
      /\ spent' = [spent EXCEPT !.dispatches = @ + 1, !.excuses = @ \cup ({<<kind>>} \ {<<MARK>>})]
  BY DEF LoadIr, compileVars, outputVars
<1>2. /\ dispatch'.pc \in {"refused", "prepare", "emit"} /\ dispatch'.stopped \in {"", "load"}
      /\ dispatch'.pc # "refused" => ir.state = "whole" /\ dispatch'.project = ir.project
      /\ dispatch'.pc = "prepare" <=> (ir.state = "whole" /\ kind = MARK)
      /\ dispatch'.pc = "emit" => kind # MARK
      /\ dispatch'.kind = kind
  BY <1>1 DEF NoDispatch
<1>3. OwnShape' /\ spent'.excuses = spent.excuses \cup ({<<kind>>} \ {<<MARK>>})
  BY <1>1 DEF OwnInv, OwnShape
<1>4. spent'.excuses = {} => spent.excuses = {} /\ kind = MARK
  <2>1. kind # MARK => <<kind>> # <<MARK>>
    OBVIOUS
  <2> QED BY <1>3, <2>1
<1>5. AuthoredOnly'
  BY <1>1, <1>2 DEF OwnInv, AuthoredOnly, Recording
<1>6. RecordFirst'
  BY <1>1, <1>2 DEF OwnInv, RecordFirst
<1>7. HoldsItsText' /\ RecordIsOneEmission'
  BY <1>1, <1>2 DEF OwnInv, HoldsItsText, RecordIsOneEmission
<1>8. Undisturbed'
  <2> SUFFICES ASSUME spent'.excuses = {} PROVE Undisturbed'
    BY DEF Undisturbed
  <2>1. spent.excuses = {} /\ kind = MARK /\ dispatch'.pc \notin {"emit", "ownership"} /\ dispatch'.stopped # "prepare"
    BY <1>2, <1>4
  <2>2. dispatch.pc \notin {"emit", "ownership"}
    BY <1>1 DEF AtRest
  <2> QED BY <1>1, <2>1, <2>2 DEF OwnInv, Undisturbed, verify_ownership
<1> QED BY <1>3, <1>5, <1>6, <1>7, <1>8 DEF OwnInv

\* A plan of which everything is there as it was recorded, or nothing.
LEMMA PrepareKeepsOwn ==
    ASSUME DeliveryInv, OwnInv, prepare_interactive_output
    PROVE  OwnInv'
<1> DEFINE planned == Planned(dispatch.project.shapes)
<1>1. /\ dispatch.pc = "prepare" /\ UNCHANGED <<ir, compiler, out, ownership, launch, spent>>
      /\ dispatch' = IF Preflight(planned) THEN [dispatch EXCEPT !.pc = "emit"]
                     ELSE [dispatch EXCEPT !.pc = "refused", !.stopped = "prepare"]
  BY DEF prepare_interactive_output, Refuse, compileVars, outputVars
<1>2. /\ dispatch'.kind = dispatch.kind /\ dispatch'.project = dispatch.project /\ dispatch'.left = dispatch.left
      /\ dispatch'.touched = dispatch.touched
      /\ dispatch'.pc = (IF Preflight(planned) THEN "emit" ELSE "refused")
      /\ dispatch'.stopped = (IF Preflight(planned) THEN dispatch.stopped ELSE "prepare")
  BY <1>1 DEF DeliveryInv, Recorded
<1>3. dispatch.kind = MARK /\ dispatch.left = Wrote /\ Wrote' = Wrote /\ dispatch.stopped = ""
  BY <1>1, <1>2 DEF DeliveryInv, LeftIsToWrite, StoppedOnce, OwnInv, RecordFirst, Wrote
<1>4. OwnShape' /\ AuthoredOnly' /\ RecordFirst' /\ RecordIsOneEmission'
  BY <1>1, <1>2 DEF OwnInv, OwnShape, AuthoredOnly, Recording, RecordFirst, RecordIsOneEmission
<1>5. HoldsItsText'
  BY <1>2, <1>3 DEF HoldsItsText
<1>6. Undisturbed'
  <2> SUFFICES ASSUME spent.excuses = {} PROVE Undisturbed'
    BY <1>1 DEF Undisturbed
  <2>1. /\ \A n \in Marked \cap DOMAIN out : out[n].mark = MARK
        /\ launch \in {"none", "spec"}
        /\ ownership.state = "whole" => verify_ownership(DOMAIN ownership.digests)
    BY <1>1 DEF OwnInv, Undisturbed
  <2>2. CASE Preflight(planned)
    <3>1. ownership.state = "whole" => planned \subseteq DOMAIN out
      BY <2>2 DEF Preflight, verify_ownership
    <3> HIDE DEF planned
    <3>2. Planned(dispatch'.project.shapes) = planned
      BY <1>2 DEF planned
    <3> QED BY <1>1, <1>2, <1>3, <2>1, <2>2, <3>1, <3>2 DEF Undisturbed
  <2>3. CASE ~Preflight(planned)
    <3>1. DOMAIN ownership.digests = planned => ownership.state = "whole"
      <4>1. planned # {}
        BY DEF Planned, Scope
      <4> QED BY <4>1 DEF OwnInv, RecordFirst
    <3>2. DOMAIN ownership.digests = planned => verify_ownership(planned)
      BY <2>1, <3>1
    <3>3. DOMAIN ownership.digests # planned
      BY <2>1, <2>3, <3>2 DEF Preflight
    <3> HIDE DEF planned
    <3>4. Planned(dispatch'.project.shapes) = planned
      BY <1>2 DEF planned
    <3> QED BY <1>1, <1>2, <2>1, <2>3, <3>3, <3>4 DEF Undisturbed, verify_ownership
  <2> QED BY <2>2, <2>3
<1> QED BY <1>4, <1>5, <1>6 DEF OwnInv

LEMMA EmitKeepsOwn ==
    ASSUME DeliveryInv, OwnInv, EmitFile
    PROVE  OwnInv'
<1> DEFINE n == First(dispatch.left)
           content == Content("emitted", dispatch.project.text, dispatch.kind)
           next == IF dispatch.left # {n} THEN "emit" ELSE IF dispatch.kind = MARK THEN "ownership" ELSE "land"
<1>1. /\ dispatch.pc = "emit" /\ out' = Put(out, n, content) /\ UNCHANGED <<ir, compiler, ownership, launch, spent>>
      /\ dispatch' = [dispatch EXCEPT !.left = @ \ {n}, !.pc = next]
  BY DEF EmitFile, compileVars
<1>2. /\ dispatch'.pc = next /\ dispatch'.kind = dispatch.kind /\ dispatch'.project = dispatch.project
      /\ dispatch'.left = dispatch.left \ {n} /\ dispatch'.touched = dispatch.touched /\ dispatch'.stopped = dispatch.stopped
  BY <1>1 DEF DeliveryInv, Recorded
<1>3. Wrote' = Wrote /\ dispatch.stopped = ""
  BY <1>1, <1>2 DEF Wrote, DeliveryInv, StoppedOnce
<1>4. /\ DOMAIN out' = {n} \cup DOMAIN out /\ out'[n] = content
      /\ \A m \in DOMAIN out : m # n => out'[m] = out[m]
  BY <1>1 DEF Put
<1>5. /\ dispatch.kind = MARK => content = TextOf(dispatch.project) /\ content.mark = MARK
      /\ TextOf(dispatch.project)' = TextOf(dispatch.project)
  BY <1>2 DEF TextOf, Content
<1>6. next = "ownership" => dispatch.kind = MARK /\ dispatch.left \ {n} = {}
  OBVIOUS
<1>7. next \in {"emit", "ownership", "land"} /\ (dispatch.kind = MARK => next \in {"emit", "ownership"})
  OBVIOUS
<1> HIDE DEF n, content, next
<1>8. OwnShape' /\ AuthoredOnly' /\ RecordFirst' /\ RecordIsOneEmission'
  <2>1. OwnShape' /\ AuthoredOnly' /\ RecordIsOneEmission'
    BY <1>1, <1>2, <1>7 DEF OwnInv, OwnShape, AuthoredOnly, Recording, RecordIsOneEmission
  <2>2. RecordFirst'
    BY <1>1, <1>2, <1>6, <1>7 DEF OwnInv, RecordFirst
  <2> QED BY <2>1, <2>2
<1>9. HoldsItsText'
  <2>1. dispatch'.pc = "ownership" => dispatch'.left = {}
    BY <1>2, <1>6
  <2>2. ASSUME dispatch.kind = MARK, NEW m \in (Wrote \ dispatch'.left) \cap DOMAIN out'
        PROVE  out'[m] \in UserOr(TextOf(dispatch.project))
    <3>1. CASE m = n
      BY <1>4, <1>5, <2>2, <3>1 DEF UserOr
    <3>2. CASE m # n
      BY <1>1, <1>2, <1>4, <2>2, <3>2 DEF OwnInv, HoldsItsText
    <3> QED BY <3>1, <3>2
  <2> QED BY <1>2, <1>3, <1>5, <2>1, <2>2 DEF HoldsItsText, UserOr
<1>10. Undisturbed'
  <2> SUFFICES ASSUME spent.excuses = {} PROVE Undisturbed'
    BY <1>1 DEF Undisturbed
  <2>1. /\ dispatch.kind = MARK /\ \A m \in Marked \cap DOMAIN out : out[m].mark = MARK
        /\ launch \in {"none", "spec"}
        /\ ownership.state = "whole" => Planned(dispatch.project.shapes) \subseteq DOMAIN out
    BY <1>1 DEF OwnInv, Undisturbed
  <2>2. \A m \in Marked \cap DOMAIN out' : out'[m].mark = MARK
    BY <1>4, <1>5, <2>1
  <2>3. Planned(dispatch'.project.shapes) = Planned(dispatch.project.shapes)
    BY <1>2
  <2> QED BY <1>1, <1>2, <1>3, <1>4, <1>7, <2>1, <2>2, <2>3 DEF Undisturbed
<1> QED BY <1>8, <1>9, <1>10 DEF OwnInv

LEMMA OwnershipKeepsOwn ==
    ASSUME DeliveryInv, OwnInv, write_ownership
    PROVE  OwnInv'
<1> DEFINE planned == Planned(dispatch.project.shapes)
<1>1. /\ dispatch.pc = "ownership" /\ UNCHANGED <<ir, compiler, out, launch, spent>>
      /\ dispatch.kind = MARK /\ dispatch.project \in Projects /\ dispatch.left = {} /\ dispatch.stopped = ""
  BY DEF write_ownership, compileVars, OwnInv, RecordFirst, AuthoredOnly, Recording, HoldsItsText, DeliveryInv, StoppedOnce
<1>2. CASE planned \subseteq DOMAIN out
  <2>1. /\ ownership' = Owned("whole", Restrict(out, planned)) /\ dispatch' = [dispatch EXCEPT !.pc = "launch"]
    BY <1>2 DEF write_ownership
  <2>2. /\ dispatch'.pc = "launch" /\ dispatch'.kind = dispatch.kind /\ dispatch'.project = dispatch.project
        /\ dispatch'.stopped = ""
    BY <1>1, <2>1 DEF DeliveryInv, Recorded
  <2>3. /\ ownership'.state = "whole" /\ DOMAIN ownership'.digests = planned
        /\ \A m \in planned : ownership'.digests[m] = out[m]
    BY <2>1 DEF Owned, Restrict
  <2>4. \A m \in planned \cap Wrote : out[m] \in UserOr(TextOf(dispatch.project))
    BY <1>1, <1>2 DEF OwnInv, HoldsItsText
  <2>5. RecordIsOneEmission'
    <3>1. Wrote = Written(dispatch.project.shapes)
      BY DEF Wrote
    <3> HIDE DEF planned
    <3>2. \A m \in planned \cap Written(dispatch.project.shapes) : ownership'.digests[m] \in UserOr(TextOf(dispatch.project))
      BY <2>3, <2>4, <3>1
    <3> QED BY <1>1, <2>3, <3>2 DEF RecordIsOneEmission, planned
  <2> HIDE DEF planned
  <2>6. verify_ownership(DOMAIN ownership.digests)'
    BY <1>1, <1>2, <2>3 DEF verify_ownership
  <2>7. OwnShape' /\ AuthoredOnly' /\ RecordFirst' /\ HoldsItsText'
    BY <1>1, <2>2, <2>3, <2>6 DEF OwnInv, OwnShape, AuthoredOnly, Recording, RecordFirst, HoldsItsText
  <2>8. Undisturbed'
    BY <1>1, <2>2, <2>6 DEF OwnInv, Undisturbed
  <2> QED BY <2>5, <2>7, <2>8 DEF OwnInv
<1>3. CASE ~(planned \subseteq DOMAIN out)
  <2>1. ownership' = ownership /\ dispatch' = [dispatch EXCEPT !.pc = "refused", !.stopped = "ownership"]
    BY <1>3 DEF write_ownership, Refuse
  <2>2. dispatch'.pc = "refused" /\ dispatch'.stopped = "ownership"
    BY <2>1 DEF DeliveryInv, Recorded
  <2>3. spent.excuses = {} => ownership.state # "whole"
    BY <1>1, <1>3 DEF OwnInv, Undisturbed
  <2>4. OwnShape' /\ AuthoredOnly' /\ RecordFirst' /\ HoldsItsText' /\ RecordIsOneEmission'
    BY <1>1, <2>1, <2>2 DEF OwnInv, OwnShape, AuthoredOnly, Recording, RecordFirst, HoldsItsText, RecordIsOneEmission
  <2>5. Undisturbed'
    BY <1>1, <2>1, <2>2, <2>3 DEF OwnInv, Undisturbed
  <2> QED BY <2>4, <2>5 DEF OwnInv
<1> QED BY <1>2, <1>3

LEMMA LaunchKeepsOwn ==
    ASSUME DeliveryInv, OwnInv, write_launch_spec
    PROVE  OwnInv'
<1>1. /\ dispatch.pc = "launch" /\ UNCHANGED <<ir, compiler, out, ownership, spent>>
      /\ launch' = "spec" /\ dispatch' = [dispatch EXCEPT !.pc = "land"] /\ dispatch.stopped = ""
  BY DEF write_launch_spec, compileVars, DeliveryInv, StoppedOnce
<1>2. dispatch'.pc = "land" /\ dispatch'.stopped = ""
  BY <1>1 DEF DeliveryInv, Recorded
<1>3. OwnShape' /\ AuthoredOnly' /\ RecordFirst' /\ HoldsItsText' /\ RecordIsOneEmission'
  BY <1>1, <1>2 DEF OwnInv, OwnShape, AuthoredOnly, Recording, RecordFirst, HoldsItsText, RecordIsOneEmission
<1>4. Undisturbed'
  BY <1>1, <1>2 DEF OwnInv, Undisturbed, verify_ownership
<1> QED BY <1>3, <1>4 DEF OwnInv

LEMMA VerifyKeepsOwn ==
    ASSUME DeliveryInv, OwnInv, land_ir_assets
    PROVE  OwnInv'
<1>1. dispatch.pc = "land" /\ UNCHANGED <<ir, compiler, out, ownership, launch, spent>> /\ dispatch.stopped = ""
  BY DEF land_ir_assets, compileVars, outputVars, DeliveryInv, StoppedOnce
<1>2. dispatch'.pc \in {"refused", "write", "done"} /\ dispatch'.stopped \in {"", "land"}
  BY <1>1 DEF land_ir_assets, Refuse, DeliveryInv, Recorded
<1>3. OwnShape' /\ AuthoredOnly' /\ RecordFirst' /\ HoldsItsText' /\ RecordIsOneEmission'
  BY <1>1, <1>2 DEF OwnInv, OwnShape, AuthoredOnly, Recording, RecordFirst, HoldsItsText, RecordIsOneEmission
<1>4. Undisturbed'
  BY <1>1, <1>2 DEF OwnInv, Undisturbed, verify_ownership
<1> QED BY <1>3, <1>4 DEF OwnInv

\* What lands on nothing that is shared lands on nothing that is recorded.
LEMMA LandingsAreNotPlanned ==
    ASSUME NEW d, NEW shapes, Landing(d) \in Planned(shapes)
    PROVE  Landing(d) \in Scope
<1>1. \A c \in Components : \A x : Landing(d) # <<c, x>>
  BY DeliveryAssumption DEF Landing
<1> QED BY <1>1 DEF Planned, Of

LEMMA LandKeepsOwn ==
    ASSUME DeliveryInv, OwnInv, LandFile
    PROVE  OwnInv'
<1> DEFINE d == First(dispatch.left)
           at == Landing(d)
           content == Content("asset", dispatch.landing[d], "")
<1>1. /\ dispatch.pc = "write" /\ UNCHANGED <<ir, compiler, ownership, launch>> /\ dispatch.stopped = ""
      /\ out' = Put(out, at, content) /\ spent' = [spent EXCEPT !.excuses = @ \cup ({at} \cap Scope)]
  BY DEF LandFile, compileVars, DeliveryInv, StoppedOnce
<1>2. dispatch'.pc \in {"write", "done"} /\ dispatch'.stopped = ""
  BY <1>1 DEF LandFile, DeliveryInv, Recorded
<1>3. /\ DOMAIN out' = {at} \cup DOMAIN out
      /\ \A m \in DOMAIN out : m # at => out'[m] = out[m]
  BY <1>1 DEF Put
<1>4. OwnShape' /\ spent'.excuses = spent.excuses \cup ({at} \cap Scope)
  BY <1>1 DEF OwnInv, OwnShape
<1>5. \A shapes : at \in Planned(shapes) => at \in Scope
  BY LandingsAreNotPlanned
<1> HIDE DEF d, at, content
<1>6. AuthoredOnly' /\ RecordFirst' /\ HoldsItsText' /\ RecordIsOneEmission'
  BY <1>1, <1>2 DEF OwnInv, AuthoredOnly, Recording, RecordFirst, HoldsItsText, RecordIsOneEmission
<1>7. Undisturbed'
  <2> SUFFICES ASSUME spent'.excuses = {} PROVE Undisturbed'
    BY DEF Undisturbed
  <2>1. spent.excuses = {} /\ at \notin Scope
    BY <1>4
  <2>2. /\ \A m \in Marked \cap DOMAIN out : out[m].mark = MARK
        /\ launch \in {"none", "spec"}
        /\ ownership.state = "whole" => verify_ownership(DOMAIN ownership.digests)
    BY <1>1, <2>1 DEF OwnInv, Undisturbed
  <2>3. \A m \in Marked \cap DOMAIN out' : out'[m].mark = MARK
    BY <1>3, <2>1, <2>2 DEF Marked, Scope
  <2>4. ownership.state = "whole" => at \notin DOMAIN ownership.digests
    BY <1>5, <2>1 DEF OwnInv, RecordIsOneEmission
  <2>5. ownership.state = "whole" => verify_ownership(DOMAIN ownership.digests)'
    BY <1>1, <1>3, <2>2, <2>4 DEF verify_ownership
  <2> QED BY <1>1, <1>2, <2>2, <2>3, <2>5 DEF Undisturbed
<1> QED BY <1>4, <1>6, <1>7 DEF OwnInv

LEMMA MishapsAreExcuses ==
    ASSUME OwnShape, NEW why, Mishap(why)
    PROVE  spent'.excuses # {} /\ spent' = [compiles |-> spent'.compiles, dispatches |-> spent'.dispatches,
                                            mishaps |-> spent'.mishaps, excuses |-> spent'.excuses]
  BY DEF OwnShape, Mishap

LEMMA StoppingKeepsOwn ==
    ASSUME DeliveryInv, OwnInv, DispatchStops
    PROVE  OwnInv'
<1>1. /\ UNCHANGED <<ir, compiler>> /\ Mishap("dispatch stopped")
      /\ dispatch' = [dispatch EXCEPT !.pc = "refused", !.stopped = "stopped"]
      /\ ownership' \in {ownership, Owned("torn", None)}
      /\ launch' \in {launch, "torn"}
  BY DEF DispatchStops, compileVars, outputVars, Refuse
<1>2. dispatch'.pc = "refused"
  BY <1>1 DEF DeliveryInv, Recorded
<1>3. OwnShape' /\ spent'.excuses # {}
  BY <1>1, MishapsAreExcuses DEF OwnInv, OwnShape
<1>4. AuthoredOnly' /\ HoldsItsText' /\ Undisturbed'
  BY <1>1, <1>2, <1>3 DEF OwnInv, AuthoredOnly, Recording, HoldsItsText, Undisturbed
<1>5. CASE ownership' = ownership
  BY <1>1, <1>2, <1>3, <1>4, <1>5 DEF OwnInv, RecordFirst, RecordIsOneEmission
<1>6. CASE ownership' = Owned("torn", None)
  <2>1. ownership'.state = "torn" /\ DOMAIN ownership'.digests = {}
    BY <1>6 DEF Owned, None
  <2> QED BY <1>2, <1>3, <1>4, <2>1 DEF OwnInv, RecordFirst, RecordIsOneEmission
<1> QED BY <1>1, <1>5, <1>6

LEMMA WritingKeepsOwn ==
    ASSUME DeliveryInv, OwnInv, UserWrites
    PROVE  OwnInv'
<1>1. UNCHANGED <<ir, compiler, ownership>> /\ Mishap("user")
  BY DEF UserWrites, compileVars
<1>2. OwnShape' /\ spent'.excuses # {}
  BY <1>1, MishapsAreExcuses DEF OwnInv, OwnShape
<1>3. Undisturbed' /\ RecordIsOneEmission'
  BY <1>1, <1>2 DEF OwnInv, Undisturbed, RecordIsOneEmission
<1>4. CASE launch' = "user" /\ UNCHANGED <<out, dispatch>>
  BY <1>1, <1>2, <1>3, <1>4 DEF OwnInv, AuthoredOnly, Recording, RecordFirst, HoldsItsText, Wrote, verify_ownership
<1>5. CASE \E n \in DOMAIN out \cup Scope :
              out' = Put(out, n, User) /\ dispatch' = [dispatch EXCEPT !.touched = @ \cup {n}] /\ UNCHANGED launch
  <2>1. PICK n : out' = Put(out, n, User) /\ dispatch' = [dispatch EXCEPT !.touched = @ \cup {n}] /\ UNCHANGED launch
    BY <1>5
  <2>2. /\ dispatch'.pc = dispatch.pc /\ dispatch'.kind = dispatch.kind /\ dispatch'.project = dispatch.project
        /\ dispatch'.left = dispatch.left /\ dispatch'.touched # {}
    BY <2>1 DEF DeliveryInv, Recorded
  <2>3. /\ DOMAIN out' = {n} \cup DOMAIN out /\ out'[n] = User
        /\ \A m \in DOMAIN out : m # n => out'[m] = out[m]
    BY <2>1 DEF Put
  <2>4. Wrote' = Wrote /\ TextOf(dispatch.project)' = TextOf(dispatch.project)
    BY <2>2 DEF Wrote, TextOf
  <2>5. AuthoredOnly' /\ RecordFirst'
    BY <1>1, <2>1, <2>2 DEF OwnInv, AuthoredOnly, Recording, RecordFirst
  <2>6. HoldsItsText'
    BY <2>2, <2>3, <2>4 DEF OwnInv, HoldsItsText, UserOr
  <2> QED BY <1>2, <1>3, <2>5, <2>6 DEF OwnInv
<1> QED BY <1>4, <1>5 DEF UserWrites

LEMMA OwnStep == DeliveryInv /\ OwnInv /\ [DeliveryNext]_deliveryVars => OwnInv'
<1> SUFFICES ASSUME DeliveryInv, OwnInv, [DeliveryNext]_deliveryVars PROVE OwnInv'
  OBVIOUS
<1>1. CASE StartCompile \/ WriteIr \/ OpenAsset \/ WriteAsset \/ CompileStops \/ LoseStore \/ UNCHANGED deliveryVars
  BY <1>1, AuthorsKeepOwn
<1>2. CASE LoadIr("headless") \/ LoadIr(MARK)
  BY <1>2, LoadKeepsOwn
<1>3. CASE prepare_interactive_output
  BY <1>3, PrepareKeepsOwn
<1>4. CASE EmitFile
  BY <1>4, EmitKeepsOwn
<1>5. CASE write_ownership
  BY <1>5, OwnershipKeepsOwn
<1>6. CASE write_launch_spec
  BY <1>6, LaunchKeepsOwn
<1>7. CASE land_ir_assets
  BY <1>7, VerifyKeepsOwn
<1>8. CASE LandFile
  BY <1>8, LandKeepsOwn
<1>9. CASE DispatchStops
  BY <1>9, StoppingKeepsOwn
<1>10. CASE UserWrites
  BY <1>10, WritingKeepsOwn
<1> QED
  BY <1>1, <1>2, <1>3, <1>4, <1>5, <1>6, <1>7, <1>8, <1>9, <1>10 DEF DeliveryNext

LEMMA OwnStart == DeliveryInit => OwnInv
<1> SUFFICES ASSUME DeliveryInit PROVE OwnInv
  OBVIOUS
<1>1. /\ dispatch.pc = "idle" /\ dispatch.stopped = "" /\ ir.state = "none" /\ compiler.pc = "idle"
      /\ ownership.state = "none" /\ DOMAIN ownership.digests = {} /\ launch = "none" /\ DOMAIN out = {}
  BY DEF DeliveryInit, NoDispatch, Ir, Resting, Owned, None
<1>2. OwnShape
  BY DEF DeliveryInit, OwnShape, Resting, Unspent
<1> QED
  BY <1>1, <1>2 DEF OwnInv, AuthoredOnly, Recording, RecordFirst, HoldsItsText, RecordIsOneEmission, Undisturbed, Marked

\* However often the author, the user and deaths intervene: the record of an output is
\* of one emission, an output is launched only with a record, and an output that nobody
\* and nothing disturbed may be emitted again.
THEOREM OutputsAreTheirOwn == DeliverySpec => []OwnOutputIsWhole
<1>1. OwnInv => OwnOutputIsWhole
  <2> SUFFICES ASSUME OwnInv PROVE OwnOutputIsWhole
    OBVIOUS
  <2>1. ownership.state = "whole" =>
              \E p \in Projects :
                  /\ DOMAIN ownership.digests = Planned(p.shapes)
                  /\ \A n \in DOMAIN ownership.digests \cap Written(p.shapes) :
                        ownership.digests[n] \in {User, Content("emitted", p.text, MARK)}
    BY DEF OwnInv, RecordIsOneEmission, UserOr, TextOf
  <2>2. dispatch.stopped = "prepare" =>
              spent.excuses # {} \/ DOMAIN ownership.digests # Planned(dispatch.project.shapes)
    BY DEF OwnInv, Undisturbed
  <2> QED BY <2>1, <2>2 DEF OwnInv, RecordFirst, OwnOutputIsWhole
<1> QED
  BY <1>1, DeliveryStart, DeliveryStep, OwnStart, OwnStep, PTL DEF DeliverySpec
===============================================================================
