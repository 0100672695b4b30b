---------------------------- MODULE Promises_proofs ----------------------------
(***************************************************************************)
(* The two components that keep the promise of an abstract specification: the *)
(* transport settles calls as RpcPromise says, for any set of requests, and    *)
(* the invocation runtime spends turns as TurnLedger says, for every call      *)
(* graph, limit and set of calls.                                             *)
(***************************************************************************)
EXTENDS AppServerTransport, ComponentInvocation, FiniteSetTheorems, WellFoundedInduction, TLAPS

-------------------------------------------------------------------------------
(* The transport.                                                            *)

\* Type correctness: the life of a request stays inside States and the flags of
\* close() and of the kill timer stay what they are declared to be.
THEOREM TransportTypeCorrect == TransportSpec => []TypeOK
<1>1. TransportInit => TypeOK
  BY DEF TransportInit, TypeOK, Phases, States, Told
<1>2. TypeOK /\ [TransportNext]_transportVars => TypeOK'
  BY DEF TypeOK, TransportNext, transportVars, Phases, States, Told, Request, RequestTimeout,
         Answer, LateAnswer, Close, KillTimer, BadLine, StdinLost, ChildError, ChildExit,
         ProtocolFailure, RejectPending, Closing, Tell, Listed, Refused
<1> QED
  BY <1>1, <1>2, PTL DEF TransportSpec

\* The end of a transport, for any number of requests: nothing stays pending
\* after the child, and a silent end is the owner's or a request timer's.
THEOREM TransportEnd == TransportSpec => []ChildEndIsAccounted
<1>1. TransportInit => ChildEndIsAccounted
  BY DEF TransportInit, ChildEndIsAccounted, NothingOutlivesTheChild, SilentEndHasACause, Listed
<1>2. ASSUME TypeOK, ChildEndIsAccounted, [TransportNext]_transportVars
      PROVE  ChildEndIsAccounted'
  <2> USE <1>2 DEF TypeOK, Phases, States, Told
  <2>1. ASSUME NEW r \in Requests, Request(r)
        PROVE  ChildEndIsAccounted'
    <3>1. NothingOutlivesTheChild'
      BY <2>1 DEF Request, Refused, ChildEndIsAccounted, NothingOutlivesTheChild, Listed
    <3>2. SilentEndHasACause'
      BY <2>1 DEF Request, Refused, ChildEndIsAccounted, SilentEndHasACause
    <3> QED
      BY <3>1, <3>2 DEF ChildEndIsAccounted
  <2>2. ASSUME NEW r \in Requests, RequestTimeout(r)
        PROVE  ChildEndIsAccounted'
    <3>1. phase # "closed" /\ phase' # "closed"
      BY <2>2 DEF RequestTimeout, ChildEndIsAccounted, NothingOutlivesTheChild, Closing
    <3>2. req'[r] \in {"timedout", "dropped"}
      BY <2>2 DEF RequestTimeout
    <3> QED
      BY <3>1, <3>2 DEF ChildEndIsAccounted, NothingOutlivesTheChild, SilentEndHasACause
  <2>3. ASSUME NEW r \in Requests, NEW ok \in BOOLEAN, Answer(r, ok)
        PROVE  ChildEndIsAccounted'
    BY <2>3 DEF Answer, Reading, ChildEndIsAccounted, NothingOutlivesTheChild, SilentEndHasACause
  <2>4. CASE Reading /\ ProtocolFailure
    BY <2>4 DEF Reading, ProtocolFailure, Closing, Tell, ChildEndIsAccounted, NothingOutlivesTheChild,
                SilentEndHasACause
  <2>5. CASE Close
    BY <2>5 DEF Close, ChildEndIsAccounted, NothingOutlivesTheChild, SilentEndHasACause
  <2>6. CASE KillTimer \/ StdinLost
    BY <2>6 DEF KillTimer, StdinLost, ChildEndIsAccounted, NothingOutlivesTheChild, SilentEndHasACause, Listed
  <2>7. CASE ChildError
    BY <2>7 DEF ChildError, RejectPending, Reading, Listed, ChildEndIsAccounted, NothingOutlivesTheChild,
                SilentEndHasACause
  <2>8. CASE ChildExit
    <3>1. NothingOutlivesTheChild'
      BY <2>8 DEF ChildExit, RejectPending, Listed, NothingOutlivesTheChild
    <3>2. SilentEndHasACause'
      BY <2>8 DEF ChildExit, RejectPending, Listed, Tell, ChildEndIsAccounted, SilentEndHasACause
    <3> QED
      BY <3>1, <3>2 DEF ChildEndIsAccounted
  <2>9. CASE UNCHANGED transportVars
    BY <2>9 DEF transportVars, ChildEndIsAccounted, NothingOutlivesTheChild, SilentEndHasACause, Listed
  <2> QED
    BY <2>1, <2>2, <2>3, <2>4, <2>5, <2>6, <2>7, <2>8, <2>9 DEF TransportNext, LateAnswer, BadLine
<1> QED
  BY <1>1, <1>2, TransportTypeCorrect, PTL DEF TransportSpec

-------------------------------------------------------------------------------
\* An answer, a late answer, a timer, a protocol failure or the end of the child
\* never settles a request that was settled before.
THEOREM SettledOnce == TransportSpec => SettledIsFinal
<1> DEFINE Final == \A r \in Requests :
              req[r] \in {"resolved", "rejected", "timedout", "dropped"} => req'[r] = req[r]
<1>1. TypeOK /\ [TransportNext]_transportVars => [Final]_transportVars
  BY DEF TypeOK, TransportNext, transportVars, Request, RequestTimeout, Answer, LateAnswer,
         Close, KillTimer, BadLine, StdinLost, ChildError, ChildExit, ProtocolFailure,
         RejectPending, Listed
<1> QED
  BY <1>1, TransportTypeCorrect, PTL DEF TransportSpec, SettledIsFinal

-------------------------------------------------------------------------------
\* The transport implements RpcPromise: every step of it is one of the promise's
\* steps or leaves the callers' view unchanged.
THEOREM TransportKeepsPromise == TransportSpec => ImplementsRpcPromise
<1> DEFINE view == [r \in Requests |-> CASE req[r] = "unused" -> "none"
                                         [] req[r] = "pending" -> "open"
                                         [] req[r] = "resolved" -> "resolved"
                                         [] OTHER -> "rejected"]
<1> USE DEF Rpc!rpcVars
<1>1. TransportInit => Rpc!RpcInit
  BY DEF TransportInit, Rpc!RpcInit
<1>2. ASSUME TypeOK, ChildEndIsAccounted, [TransportNext]_transportVars
      PROVE  [Rpc!RpcNext]_(Rpc!rpcVars)
  <2> USE <1>2 DEF TypeOK, Phases, States, Told
  <2>0. PICK Gone \in SUBSET Requests : Gone = {r \in Requests : req[r] = "pending"}
    OBVIOUS
  <2>1. ASSUME NEW r \in Requests, Request(r)
        PROVE  Rpc!RpcNext
    <3>1. Rpc!Make(r)
      BY <2>1 DEF Request, Refused, Rpc!Make
    <3> QED
      BY <3>1 DEF Rpc!RpcNext
  <2>2. ASSUME NEW r \in Requests, RequestTimeout(r)
        PROVE  Rpc!RpcNext \/ UNCHANGED Rpc!rpcVars
    <3>1. phase # "closed" /\ phase' # "closed"
      BY <2>2 DEF RequestTimeout, ChildEndIsAccounted, NothingOutlivesTheChild, Closing
    <3>2. CASE req[r] = "pending"
      <4>1. Rpc!Fail({r})
        BY <2>2, <3>1, <3>2 DEF RequestTimeout, Rpc!Fail
      <4> QED
        BY <4>1 DEF Rpc!RpcNext
    <3>3. CASE req[r] = "zombie"
      BY <2>2, <3>1, <3>3 DEF RequestTimeout
    <3> QED
      BY <2>2, <3>2, <3>3 DEF RequestTimeout, Listed
  <2>3. ASSUME NEW r \in Requests, NEW ok \in BOOLEAN, Answer(r, ok)
        PROVE  Rpc!RpcNext
    <3>1. CASE ok
      <4>1. Rpc!Resolve(r)
        BY <2>3, <3>1 DEF Answer, Reading, Rpc!Resolve
      <4> QED
        BY <4>1 DEF Rpc!RpcNext
    <3>2. CASE ~ok
      <4>1. Rpc!Fail({r})
        BY <2>3, <3>2 DEF Answer, Reading, Rpc!Fail
      <4> QED
        BY <4>1 DEF Rpc!RpcNext
    <3> QED
      BY <3>1, <3>2
  <2>4. ASSUME Reading /\ ProtocolFailure
        PROVE  Rpc!RpcNext
    <3>1. Rpc!Fail(Gone)
      BY <2>0, <2>4 DEF Reading, ProtocolFailure, Closing, RejectPending, Listed, Rpc!Fail
    <3> QED
      BY <3>1 DEF Rpc!RpcNext
  <2>5. CASE Close \/ KillTimer \/ StdinLost
    BY <2>5 DEF Close, KillTimer, StdinLost
  <2>6. ASSUME ChildError
        PROVE  Rpc!RpcNext
    <3>1. Rpc!Fail(Gone)
      BY <2>0, <2>6 DEF ChildError, Reading, RejectPending, Listed, Rpc!Fail
    <3> QED
      BY <3>1 DEF Rpc!RpcNext
  <2>7. ASSUME ChildExit
        PROVE  Rpc!RpcNext
    <3>1. Rpc!End
      BY <2>7 DEF ChildExit, RejectPending, Listed, Rpc!End
    <3> QED
      BY <3>1 DEF Rpc!RpcNext
  <2>8. CASE UNCHANGED transportVars
    BY <2>8 DEF transportVars
  <2> QED
    BY <2>1, <2>2, <2>3, <2>4, <2>5, <2>6, <2>7, <2>8 DEF TransportNext, LateAnswer, BadLine
<1> QED
  BY <1>1, <1>2, TransportTypeCorrect, TransportEnd, PTL
     DEF TransportSpec, ImplementsRpcPromise, Rpc!RpcSpec

-------------------------------------------------------------------------------
(* The invocation runtime.                                                   *)

\* The limits are numbers and the root has steps.
LEMMA Limits ==
    /\ MaxDepth \in Nat /\ MaxAttempts \in Nat /\ MaxTurns \in Nat /\ MaxTurnsPerChild \in Nat
    /\ Root \in Components /\ StepCount \in [Components -> Nat]
  BY InvocationAssumption

-------------------------------------------------------------------------------
(* The longest chain of calls.  ChainBelow is a recursive function: that it is *)
(* what its definition says, and every fact about all of its values, is by     *)
(* induction, in the form of a least counterexample.                           *)

\* A set of natural numbers has a least one, unless it is empty.
LEMMA LeastNatural ==
    ASSUME NEW T, T \subseteq Nat, T # {}
    PROVE  \E x \in T : \A y \in T : x <= y
<1> DEFINE R == OpToRel(<, Nat)
<1>1. IsWellFoundedOn(R, Nat)
  BY NatLessThanWellFounded
<1>2. \A x, y \in Nat : y < x => <<y, x>> \in R
  BY DEF OpToRel
<1> HIDE DEF R
<1>3. PICK x \in T : \A y \in T : ~ (<<y, x>> \in R)
  BY <1>1, WFMin
<1>4. ASSUME NEW y \in T PROVE x <= y
  <2>1. x \in Nat /\ y \in Nat
    OBVIOUS
  <2>2. ~(y < x)
    BY <1>2, <1>3, <2>1
  <2> QED
    BY <2>1, <2>2
<1> QED
  BY <1>4

\* A counterexample to what holds of 0 has a least one, and that has a predecessor.
LEMMA LeastCounterexample ==
    ASSUME NEW T, T \subseteq Nat, T # {}, 0 \notin T
    PROVE  \E m \in Nat : m + 1 \in T /\ \A j \in 0..m : j \notin T
<1>1. PICK x \in T : \A y \in T : x <= y
  BY LeastNatural
<1>2. x \in Nat /\ x # 0
  BY <1>1
<1>3. \A j \in 0 .. x - 1 : j \notin T
  BY <1>1, <1>2
<1>4. x - 1 \in Nat /\ x - 1 + 1 = x
  BY <1>2
<1> QED
  BY <1>1, <1>3, <1>4

\* A set of numbers up to a bound has a greatest one, which Max finds.
LEMMA MaxIsGreatest ==
    ASSUME NEW S, S \subseteq Nat, S # {}, NEW b \in Nat, \A x \in S : x <= b
    PROVE  Max(S) \in S /\ \A x \in S : x <= Max(S)
<1> DEFINE T == {n \in Nat : \A x \in S : x <= n}
<1>1. PICK m \in T : \A n \in T : m <= n
  <2>1. T \subseteq Nat /\ b \in T
    OBVIOUS
  <2> QED
    BY <2>1, LeastNatural
<1>2. m \in Nat /\ \A x \in S : x <= m
  BY <1>1
<1>3. m \in S
  <2> SUFFICES ASSUME m \notin S PROVE FALSE
    OBVIOUS
  <2>1. PICK s \in S : s \in Nat
    OBVIOUS
  <2>2. \A x \in S : x \in Nat /\ x <= m - 1
    BY <1>2
  <2>3. m - 1 \in Nat
    BY <1>2, <2>1, <2>2
  <2>4. m - 1 \in T
    BY <2>2, <2>3
  <2> QED
    BY <1>1, <1>2, <2>4
<1>4. \A x \in S : m >= x
  BY <1>2
<1>5. Max(S) \in S /\ \A y \in S : Max(S) >= y
  BY <1>3, <1>4 DEF Max
<1>6. \A y \in S : y \in Nat /\ Max(S) \in Nat
  BY <1>5
<1> QED
  BY <1>5, <1>6

\* One level of the recursion.
NoChain == [c \in Components |-> 0]
LongerBy(below) == [c \in Components |-> Max({0} \cup {1 + below[d] : d \in CalleesOf(c)})]

\* ChainBelow is what its recursive definition says.
LEMMA ChainBelowUnfolds ==
    /\ ChainBelow[0] = NoChain
    /\ \A n \in Nat : ChainBelow[n + 1] = LongerBy(ChainBelow[n])
<1> DEFINE Body(h, n) == IF n = 0 THEN NoChain ELSE LongerBy(h[n - 1])
           Upto(h, n) == h = [m \in 0..n |-> Body(h, m)]
<1>1. \A n \in Nat : \E h : Upto(h, n)
  <2> DEFINE T == {n \in Nat : ~\E h : Upto(h, n)}
  <2> SUFFICES ASSUME T # {} PROVE FALSE
    OBVIOUS
  <2>1. 0 \notin T
    <3> DEFINE h == [m \in 0..0 |-> NoChain]
    <3>1. Upto(h, 0)
      OBVIOUS
    <3> QED
      BY <3>1
  <2>2. T \subseteq Nat
    OBVIOUS
  <2> HIDE DEF T
  <2>3. PICK m \in Nat : m + 1 \in T /\ \A j \in 0..m : j \notin T
    BY <2>1, <2>2, LeastCounterexample
  <2>4. m \notin T
    BY <2>3
  <2>5. PICK h : Upto(h, m)
    BY <2>4 DEF T
  <2> DEFINE g == [j \in 0 .. m + 1 |-> IF j = m + 1 THEN LongerBy(h[m]) ELSE h[j]]
  <2>6. ASSUME NEW j \in 0 .. m + 1
        PROVE  g[j] = Body(g, j)
    <3> HIDE DEF NoChain, LongerBy
    <3>1. CASE j = m + 1
      <4>1. m + 1 # 0 /\ m + 1 - 1 = m /\ m \in 0 .. m + 1 /\ m # m + 1
        OBVIOUS
      <4>2. g[m] = h[m] /\ g[j] = LongerBy(h[m])
        BY <3>1, <4>1
      <4> HIDE DEF g
      <4> QED
        BY <3>1, <4>1, <4>2
    <3>2. CASE j # m + 1
      <4>1. j \in 0..m /\ (j # 0 => j - 1 \in 0..m)
        BY <3>2
      <4>2. g[j] = h[j] /\ (j # 0 => g[j - 1] = h[j - 1])
        BY <3>2, <4>1
      <4>3. h[j] = Body(h, j)
        BY <2>5, <4>1
      <4> HIDE DEF g
      <4> QED
        BY <4>2, <4>3
    <3> QED
      BY <3>1, <3>2
  <2>7. Upto(g, m + 1)
    <3>1. g = [j \in 0 .. m + 1 |-> g[j]]
      OBVIOUS
    <3> HIDE DEF g, NoChain, LongerBy
    <3>2. [j \in 0 .. m + 1 |-> g[j]] = [j \in 0 .. m + 1 |-> Body(g, j)]
      BY <2>6
    <3> QED
      BY <3>1, <3>2
  <2> HIDE DEF g
  <2> QED
    BY <2>3, <2>7 DEF T
<1>2. ASSUME NEW k \in Nat, NEW n \in Nat, NEW h, NEW g, Upto(h, k), Upto(g, n),
             NEW m \in Nat, m <= k, m <= n
      PROVE  h[m] = g[m]
  <2> DEFINE T == {j \in Nat : j <= k /\ j <= n /\ h[j] # g[j]}
  <2> HIDE DEF NoChain, LongerBy
  <2> SUFFICES ASSUME T # {} PROVE FALSE
    BY <1>2
  <2>1. \A j \in 0..k : h[j] = Body(h, j)
    BY <1>2
  <2>2. \A j \in 0..n : g[j] = Body(g, j)
    BY <1>2
  <2>3. 0 \notin T
    BY <2>1, <2>2
  <2>4. T \subseteq Nat
    OBVIOUS
  <2>5. PICK i \in Nat : i + 1 \in T /\ \A j \in 0..i : j \notin T
    <3> HIDE DEF T
    <3> QED
      BY <2>3, <2>4, LeastCounterexample
  <2>6. i + 1 \in 0..k /\ i + 1 \in 0..n /\ i \notin T /\ i + 1 # 0 /\ i + 1 - 1 = i
    BY <2>5
  <2>7. h[i] = g[i]
    BY <2>5, <2>6
  <2>8. h[i + 1] = LongerBy(h[i]) /\ g[i + 1] = LongerBy(g[i])
    BY <2>1, <2>2, <2>6
  <2> QED
    BY <2>5, <2>7, <2>8
<1> DEFINE Part(n) == CHOOSE h : Upto(h, n)
           F == [n \in Nat |-> Part(n)[n]]
<1>3. \A n \in Nat : Upto(Part(n), n)
  BY <1>1
<1> HIDE DEF Part
<1>4. ASSUME NEW n \in Nat
      PROVE  F[n] = Body(F, n)
  <2> HIDE DEF NoChain, LongerBy
  <2>1. n \in 0..n
    OBVIOUS
  <2>2. Part(n)[n] = Body(Part(n), n)
    BY <1>3, <2>1
  <2>3. CASE n = 0
    BY <2>2, <2>3
  <2>4. CASE n # 0
    <3>1. n - 1 \in Nat /\ n - 1 <= n /\ n - 1 <= n - 1
      BY <2>4
    <3>2. PICK p \in Nat : p = n - 1
      BY <3>1
    <3>3. Part(n)[p] = Part(p)[p]
      <4>1. Upto(Part(n), n) /\ Upto(Part(p), p) /\ p <= n /\ p <= p
        BY <1>3, <3>1, <3>2
      <4> HIDE DEF Upto
      <4> QED
        BY <4>1, <1>2
    <3>4. F[n] = Part(n)[n] /\ F[p] = Part(p)[p]
      OBVIOUS
    <3> HIDE DEF F
    <3> QED
      BY <2>2, <2>4, <3>2, <3>3, <3>4
  <2> QED
    BY <2>3, <2>4
<1>5. \E f : f = [n \in Nat |->
        [c \in Components |->
          IF n = 0 THEN 0 ELSE Max({0} \cup {1 + f[n - 1][d] : d \in CalleesOf(c)})]]
  <2>1. \A n \in Nat :
          F[n] = [c \in Components |->
                    IF n = 0 THEN 0 ELSE Max({0} \cup {1 + F[n - 1][d] : d \in CalleesOf(c)})]
    <3> SUFFICES ASSUME NEW n \in Nat
                 PROVE  F[n] = [c \in Components |->
                    IF n = 0 THEN 0 ELSE Max({0} \cup {1 + F[n - 1][d] : d \in CalleesOf(c)})]
      OBVIOUS
    <3>1. F[n] = Body(F, n)
      BY <1>4
    <3> HIDE DEF F
    <3>2. CASE n = 0
      BY <3>1, <3>2 DEF NoChain
    <3>3. CASE n # 0
      BY <3>1, <3>3 DEF LongerBy
    <3> QED
      BY <3>2, <3>3
  <2>2. F = [n \in Nat |-> F[n]]
    OBVIOUS
  <2> HIDE DEF F
  <2>3. F = [n \in Nat |-> [c \in Components |->
                    IF n = 0 THEN 0 ELSE Max({0} \cup {1 + F[n - 1][d] : d \in CalleesOf(c)})]]
    BY <2>1, <2>2
  <2> QED
    BY <2>3
<1>6. ChainBelow = [n \in Nat |->
        [c \in Components |->
          IF n = 0 THEN 0 ELSE Max({0} \cup {1 + ChainBelow[n - 1][d] : d \in CalleesOf(c)})]]
  BY <1>5 DEF ChainBelow
<1>7. \A n \in Nat : ChainBelow[n] =
        [c \in Components |->
          IF n = 0 THEN 0 ELSE Max({0} \cup {1 + ChainBelow[n - 1][d] : d \in CalleesOf(c)})]
  BY <1>6
<1>8. ChainBelow[0] = NoChain
  BY <1>7 DEF NoChain
<1>9. ASSUME NEW n \in Nat
      PROVE  ChainBelow[n + 1] = LongerBy(ChainBelow[n])
  <2>1. PICK k \in Nat : k = n + 1 /\ k # 0 /\ k - 1 = n
    <3>1. n + 1 \in Nat /\ n + 1 # 0 /\ n + 1 - 1 = n
      OBVIOUS
    <3> QED
      BY <3>1
  <2>2. ChainBelow[k] =
          [c \in Components |->
             IF k = 0 THEN 0 ELSE Max({0} \cup {1 + ChainBelow[k - 1][d] : d \in CalleesOf(c)})]
    BY <1>7
  <2>3. ChainBelow[k] =
          [c \in Components |-> Max({0} \cup {1 + ChainBelow[n][d] : d \in CalleesOf(c)})]
    BY <2>1, <2>2
  <2> QED
    BY <2>1, <2>3 DEF LongerBy
<1> QED
  BY <1>8, <1>9

\* No chain is longer than the levels it was looked for in.
LEMMA ChainIsBounded == \A n \in Nat : ChainBelow[n] \in [Components -> 0..n]
<1> DEFINE T == {n \in Nat : ChainBelow[n] \notin [Components -> 0..n]}
<1> SUFFICES ASSUME T # {} PROVE FALSE
  OBVIOUS
<1>1. T \subseteq Nat
  OBVIOUS
<1>2. 0 \notin T
  BY ChainBelowUnfolds DEF NoChain
<1> HIDE DEF T
<1>3. PICK m \in Nat : m + 1 \in T /\ \A j \in 0..m : j \notin T
  BY <1>1, <1>2, LeastCounterexample
<1>4. ChainBelow[m] \in [Components -> 0..m]
  BY <1>3 DEF T
<1>5. ASSUME NEW c \in Components
      PROVE  LongerBy(ChainBelow[m])[c] \in 0 .. m + 1
  <2> DEFINE S == {0} \cup {1 + ChainBelow[m][d] : d \in CalleesOf(c)}
  <2>1. \A d \in CalleesOf(c) : d \in Components
    BY DEF CalleesOf, Callees
  <2>2. S \subseteq Nat /\ 0 \in S /\ \A x \in S : x <= m + 1
    BY <1>4, <2>1
  <2>3. LongerBy(ChainBelow[m])[c] = Max(S)
    BY DEF LongerBy
  <2>4. PICK b \in Nat : b = m + 1
    OBVIOUS
  <2> HIDE DEF S
  <2>5. Max(S) \in S
    BY <2>2, <2>4, MaxIsGreatest
  <2>6. Max(S) \in Nat /\ Max(S) <= m + 1
    BY <2>2, <2>5
  <2> QED
    BY <2>3, <2>6
<1>6. LongerBy(ChainBelow[m]) \in [Components -> 0 .. m + 1]
  BY <1>5 DEF LongerBy
<1>7. m + 1 \notin T
  BY <1>6, ChainBelowUnfolds DEF T
<1> QED
  BY <1>3, <1>7

\* A call makes the chain of its caller longer than that of its callee, one level down.
LEMMA CallLengthensChain ==
    ASSUME NEW n \in Nat, NEW c \in Components, NEW d \in CalleesOf(c)
    PROVE  d \in Components /\ ChainBelow[n + 1][c] >= 1 + ChainBelow[n][d]
<1> DEFINE S == {0} \cup {1 + ChainBelow[n][e] : e \in CalleesOf(c)}
<1>1. \A e \in CalleesOf(c) : e \in Components
  BY DEF CalleesOf, Callees
<1>2. ChainBelow[n] \in [Components -> 0..n]
  BY ChainIsBounded
<1>3. S \subseteq Nat /\ 0 \in S /\ 1 + ChainBelow[n][d] \in S /\ \A x \in S : x <= n + 1
  BY <1>1, <1>2
<1>4. ChainBelow[n + 1][c] = Max(S)
  BY ChainBelowUnfolds DEF LongerBy
<1>5. PICK b \in Nat : b = n + 1
  OBVIOUS
<1> HIDE DEF S
<1>6. Max(S) \in S /\ \A x \in S : x <= Max(S)
  BY <1>3, <1>5, MaxIsGreatest
<1>7. PICK x \in S : x = 1 + ChainBelow[n][d]
  BY <1>3
<1>8. x <= Max(S) /\ x \in Nat /\ Max(S) \in Nat
  BY <1>3, <1>6
<1> QED
  BY <1>1, <1>4, <1>7, <1>8

\* More levels find no shorter chain.
LEMMA ChainGrows == \A n \in Nat, c \in Components : ChainBelow[n][c] <= ChainBelow[n + 1][c]
<1> DEFINE T == {n \in Nat : ~\A c \in Components : ChainBelow[n][c] <= ChainBelow[n + 1][c]}
<1> SUFFICES ASSUME T # {} PROVE FALSE
  OBVIOUS
<1>1. T \subseteq Nat
  OBVIOUS
<1>2. 0 \notin T
  <2>1. ASSUME NEW c \in Components PROVE ChainBelow[0][c] <= ChainBelow[0 + 1][c]
    <3>1. ChainBelow[0][c] \in 0..0 /\ ChainBelow[1][c] \in 0..1
      BY ChainIsBounded
    <3> QED
      BY <3>1
  <2> QED
    BY <2>1
<1> HIDE DEF T
<1>3. PICK m \in Nat : m + 1 \in T /\ \A j \in 0..m : j \notin T
  BY <1>1, <1>2, LeastCounterexample
<1>4. PICK n \in Nat : n = m + 1
  OBVIOUS
<1>5. \A c \in Components : ChainBelow[m][c] <= ChainBelow[n][c]
  BY <1>3, <1>4 DEF T
<1>6. ASSUME NEW c \in Components
      PROVE  ChainBelow[n][c] <= ChainBelow[n + 1][c]
  <2>1. /\ ChainBelow[m] \in [Components -> 0..m]
        /\ ChainBelow[n] \in [Components -> 0..n]
        /\ ChainBelow[n + 1] \in [Components -> 0 .. n + 1]
    BY ChainIsBounded
  <2> DEFINE S == {0} \cup {1 + ChainBelow[m][e] : e \in CalleesOf(c)}
  <2>2. \A e \in CalleesOf(c) : e \in Components
    BY DEF CalleesOf, Callees
  <2>3. S \subseteq Nat /\ 0 \in S /\ \A x \in S : x <= m + 1
    BY <2>1, <2>2
  <2>4. ChainBelow[n][c] = Max(S)
    BY <1>4, ChainBelowUnfolds DEF LongerBy
  <2>5. Max(S) \in S
    <3> HIDE DEF S
    <3> QED
      BY <1>4, <2>3, MaxIsGreatest
  <2>6. CASE ChainBelow[n][c] = 0
    BY <2>1, <2>6
  <2>7. CASE ChainBelow[n][c] # 0
    <3>1. PICK d \in CalleesOf(c) : ChainBelow[n][c] = 1 + ChainBelow[m][d]
      BY <2>4, <2>5, <2>7
    <3>2. ChainBelow[n + 1][c] >= 1 + ChainBelow[n][d]
      BY CallLengthensChain
    <3>3. /\ ChainBelow[m][d] \in Nat /\ ChainBelow[n][d] \in Nat /\ ChainBelow[n + 1][c] \in Nat
          /\ ChainBelow[m][d] <= ChainBelow[n][d]
      BY <1>5, <2>1, <2>2
    <3> QED
      BY <3>1, <3>2, <3>3
  <2> QED
    BY <2>6, <2>7
<1>7. n \notin T
  BY <1>6 DEF T
<1> QED
  BY <1>3, <1>4, <1>7

\* So the longest chain of all is as long as what any number of levels finds.
LEMMA ChainIsLongest ==
    ASSUME NEW n \in Nat, NEW k \in 0..n, NEW c \in Components
    PROVE  ChainBelow[k][c] <= ChainBelow[n][c]
<1> DEFINE T == {j \in Nat : j <= n /\ ~(ChainBelow[n - j][c] <= ChainBelow[n][c])}
<1>1. T \subseteq Nat
  OBVIOUS
<1>2. 0 \notin T
  <2>1. ChainBelow[n][c] \in 0..n /\ n - 0 = n
    BY ChainIsBounded
  <2> QED
    BY <2>1
<1>3. T = {}
  <2> SUFFICES ASSUME T # {} PROVE FALSE
    OBVIOUS
  <2> HIDE DEF T
  <2>1. PICK m \in Nat : m + 1 \in T /\ \A j \in 0..m : j \notin T
    BY <1>1, <1>2, LeastCounterexample
  <2>2. m + 1 <= n /\ m \notin T /\ ~(ChainBelow[n - (m + 1)][c] <= ChainBelow[n][c])
    BY <2>1 DEF T
  <2>3. PICK p \in Nat : p = n - (m + 1) /\ p + 1 = n - m
    <3>1. n - (m + 1) \in Nat /\ n - (m + 1) + 1 = n - m
      BY <2>2
    <3> QED
      BY <3>1
  <2>4. ChainBelow[p + 1][c] <= ChainBelow[n][c]
    BY <2>2, <2>3 DEF T
  <2>5. ChainBelow[p][c] <= ChainBelow[p + 1][c]
    BY ChainGrows
  <2>6. ChainBelow[p][c] \in Nat /\ ChainBelow[p + 1][c] \in Nat /\ ChainBelow[n][c] \in Nat
    <3>1. \A i \in Nat : ChainBelow[i][c] \in Nat
      BY ChainIsBounded
    <3> QED
      BY <3>1
  <2> QED
    BY <2>2, <2>3, <2>4, <2>5, <2>6
<1>4. PICK j \in Nat : j = n - k /\ j <= n /\ n - j = k
  <2>1. n - k \in Nat /\ n - k <= n /\ n - (n - k) = k
    OBVIOUS
  <2> QED
    BY <2>1
<1> QED
  BY <1>3, <1>4

\* The levels there are to look in.
Levels == Cardinality(Components)

LEMMA LevelsType == Levels \in Nat
  BY InvocationAssumption, FS_CardinalityType DEF Levels

\* The depths that reservations are made for are numbers, and a step's is greater
\* than the depth of what it may call.
LEMMA Depths ==
    ASSUME NEW c \in Components
    PROVE  /\ MaxDescendantDepth(c) \in Nat
           /\ MaxDescendantDepth(c) = ChainBelow[Levels][c]
           /\ \A s : /\ DescendantDepthForStep(c, s) \in Nat
                     /\ \A d \in Callees(c, s) :
                           DescendantDepthForStep(c, s) >= 1 + MaxDescendantDepth(d)
<1>1. \A d \in Components : MaxDescendantDepth(d) \in 0..Levels
  BY LevelsType, ChainIsBounded DEF MaxDescendantDepth, Levels
<1>2. ASSUME NEW s
      PROVE  /\ DescendantDepthForStep(c, s) \in Nat
             /\ \A d \in Callees(c, s) :
                   DescendantDepthForStep(c, s) >= 1 + MaxDescendantDepth(d)
  <2> DEFINE S == {0} \cup {1 + MaxDescendantDepth(d) : d \in Callees(c, s)}
  <2>1. \A d \in Callees(c, s) : d \in Components
    BY DEF Callees
  <2>2. S \subseteq Nat /\ 0 \in S /\ \A x \in S : x <= Levels + 1
    BY <1>1, <2>1, LevelsType
  <2>3. \A d \in Callees(c, s) : 1 + MaxDescendantDepth(d) \in S
    OBVIOUS
  <2>4. PICK b \in Nat : b = Levels + 1
    BY LevelsType
  <2>5. DescendantDepthForStep(c, s) = Max(S)
    BY DEF DescendantDepthForStep
  <2> HIDE DEF S
  <2>6. Max(S) \in S /\ \A x \in S : x <= Max(S)
    BY <2>2, <2>4, MaxIsGreatest
  <2>7. Max(S) \in Nat
    BY <2>2, <2>6
  <2>8. ASSUME NEW d \in Callees(c, s)
        PROVE  Max(S) >= 1 + MaxDescendantDepth(d)
    <3>1. PICK x \in S : x = 1 + MaxDescendantDepth(d)
      BY <2>3
    <3>2. x \in Nat /\ x <= Max(S)
      BY <2>2, <2>6
    <3> QED
      BY <2>7, <3>1, <3>2
  <2> QED
    BY <2>5, <2>7, <2>8
<1> QED
  BY <1>1, <1>2 DEF MaxDescendantDepth, Levels

-------------------------------------------------------------------------------
(* The turns that are granted.                                               *)

\* What is held back for a chain of calls is part of what is available.
LEMMA HeldIsAvailable ==
    ASSUME NEW available \in Nat, NEW depth \in Nat
    PROVE  HeldForDescendants(available, depth) \in 0..available
<1>1. depth * MaxTurnsPerChild \in Nat
  BY InvocationAssumption
<1> DEFINE wanted == depth * MaxTurnsPerChild
<1>2. wanted \in Nat
  BY <1>1
<1> HIDE DEF wanted
<1>3. Lesser(wanted, Greater(0, available - 1)) \in 0..available
  BY <1>2 DEF Lesser, Greater
<1> QED
  BY <1>3 DEF HeldForDescendants, wanted

\* A child's reservation is part of what is available.
LEMMA ChildReservationIsAvailable ==
    ASSUME availableTurns \in Nat, NEW c \in Components
    PROVE  /\ ChildReservation(c) \in Nat
           /\ ChildReservation(c) <= availableTurns
<1> DEFINE held == HeldForDescendants(availableTurns, MaxDescendantDepth(c))
<1>1. held \in 0..availableTurns
  BY HeldIsAvailable, Depths
<1> HIDE DEF held
<1>2. Lesser(availableTurns - held, MaxTurnsPerChild) \in 0..availableTurns
  BY <1>1, InvocationAssumption DEF Lesser
<1> QED
  BY <1>2 DEF ChildReservation, held

\* So is the reservation of a step of the root.
LEMMA RootReservationIsAvailable ==
    ASSUME availableTurns \in Nat, NEW s \in 1..StepCount[Root]
    PROVE  /\ RootReservation(s) \in Nat
           /\ RootReservation(s) <= availableTurns
<1>1. HeldForDescendants(availableTurns, DescendantDepthForStep(Root, s)) \in 0..availableTurns
  BY HeldIsAvailable, Depths, Limits
<1> QED
  BY <1>1 DEF RootReservation

\* A call finds a turn as long as there is one.
LEMMA OneTurnIsEnough ==
    ASSUME availableTurns \in Nat, availableTurns >= 1, NEW c \in Components
    PROVE  ChildReservation(c) >= 1
<1>1. MaxDescendantDepth(c) * MaxTurnsPerChild \in Nat
  BY InvocationAssumption, Depths
<1>2. PICK wanted \in Nat : wanted = MaxDescendantDepth(c) * MaxTurnsPerChild
  BY <1>1
<1>3. PICK held \in Nat : held = HeldForDescendants(availableTurns, MaxDescendantDepth(c)) /\ held <= availableTurns - 1
  BY <1>2 DEF HeldForDescendants, Lesser, Greater
<1> QED
  BY <1>3, InvocationAssumption DEF ChildReservation, Lesser

\* What is held for a chain has a turn for every call of it, and so for every call of
\* a shorter one, if there is one more.
LEMMA HeldFundsTheChain ==
    ASSUME NEW available \in Nat, NEW depth \in Nat, NEW least \in 0..depth, available >= least + 1
    PROVE  HeldForDescendants(available, depth) >= least
<1>1. PICK t \in Nat : t + 1 = MaxTurnsPerChild
  <2>1. MaxTurnsPerChild - 1 \in Nat /\ MaxTurnsPerChild - 1 + 1 = MaxTurnsPerChild
    BY InvocationAssumption
  <2> QED
    BY <2>1
<1>2. depth * (t + 1) = depth * t + depth /\ depth * t \in Nat
  OBVIOUS
<1>3. PICK wanted \in Nat : wanted = depth * MaxTurnsPerChild /\ wanted >= depth
  BY <1>1, <1>2
<1> QED
  BY <1>3 DEF HeldForDescendants, Lesser, Greater

\* An admitted call leaves a turn for every call of the chain below it.
LEMMA AdmissionFundsTheChain ==
    ASSUME availableTurns \in Nat, NEW c \in Components,
           NEW least \in 0..MaxDescendantDepth(c), availableTurns >= least + 1
    PROVE  availableTurns - ChildReservation(c) >= least
<1>1. MaxDescendantDepth(c) \in Nat
  BY Depths
<1>2. MaxDescendantDepth(c) * MaxTurnsPerChild \in Nat
  BY <1>1, InvocationAssumption
<1>3. HeldForDescendants(availableTurns, MaxDescendantDepth(c)) \in Nat
  BY <1>2 DEF HeldForDescendants, Lesser, Greater
<1>4. HeldForDescendants(availableTurns, MaxDescendantDepth(c)) >= least
  BY <1>1, HeldFundsTheChain
<1> QED
  BY <1>1, <1>3, <1>4, InvocationAssumption DEF ChildReservation, Lesser

-------------------------------------------------------------------------------
\* Which frames a call is between: its caller's, and its child's once it has one.
CallsHaveFrames ==
    \A i \in Calls : /\ call[i].pc # "idle" => call[i].frame \in Frames
                     /\ call[i].pc = "running" => call[i].child \in Frames

\* What makes the type invariant inductive: frame 0 stays the root's, so that its
\* steps are those the root reserves for, and calls have the frames they name.
TypeInv == InvocationTypeOK /\ frame[0].component = Root /\ CallsHaveFrames

\* The inductive invariant.  Types alone are not inductive: a call may only take
\* itself off a queue that it heads, and a child's turns go back from the frame its
\* call names.
LEMMA InvocationInvariant == InvocationSpec => [](TypeInv /\ FirstInLine)
<1>1. InvocationInit => TypeInv
  <2> SUFFICES ASSUME InvocationInit
               PROVE  TypeInv
    OBVIOUS
  <2>1. UnusedFrame \in FrameType
    BY InvocationAssumption DEF UnusedFrame, FrameType
  <2>2. [UnusedFrame EXCEPT !.pc = "between", !.ancestry = {Root}] \in FrameType
    BY <2>1, InvocationAssumption DEF UnusedFrame, FrameType
  <2>3. IdleCall \in CallType
    BY InvocationAssumption DEF IdleCall, CallType
  <2>4. frame \in [Frames -> FrameType] /\ frame[0].component = Root
    <3>1. 0 \in Frames
      BY InvocationAssumption DEF Frames
    <3>2. frame[0] = [UnusedFrame EXCEPT !.pc = "between", !.ancestry = {Root}]
      BY <3>1 DEF InvocationInit
    <3>3. frame[0].component = Root
      BY <3>2 DEF UnusedFrame
    <3> QED
      BY <2>1, <2>2, <3>3 DEF InvocationInit
  <2>5. call \in [Calls -> CallType] /\ queue \in [Frames -> Seq(Calls)]
    BY <2>3 DEF InvocationInit
  <2>6. CallsHaveFrames
    BY DEF InvocationInit, IdleCall, CallsHaveFrames
  <2> QED
    <3>1. availableTurns \in Nat /\ attempts \in 0..MaxAttempts /\ totalTurns \in Nat
      BY Limits DEF InvocationInit
    <3>2. cancelled \in BOOLEAN /\ run \in {"running", "ok", "failed"}
      BY DEF InvocationInit
    <3> QED
      BY <2>4, <2>5, <2>6, <3>1, <3>2 DEF TypeInv, InvocationTypeOK
<1>2. ASSUME TypeInv, FirstInLine, [InvocationNext]_invocationVars
      PROVE  TypeInv'
  <2> USE Limits
  <2>t. /\ InvocationTypeOK /\ frame[0].component = Root /\ CallsHaveFrames
        /\ 0 \in Frames
    BY <1>2 DEF TypeInv, Frames
  <2>c. UNCHANGED call => CallsHaveFrames'
    BY <2>t DEF CallsHaveFrames
  <2>f. ASSUME NEW k \in Frames, NEW new \in FrameType, frame' = [frame EXCEPT ![k] = new],
               k = 0 => new.component = Root
        PROVE  frame' \in [Frames -> FrameType] /\ frame'[0].component = Root
    BY <2>f, <2>t DEF InvocationTypeOK
  <2>1. ASSUME NEW k \in Frames, StartStep(k)
        PROVE  TypeInv'
    <3>1. PICK s \in NextSteps(frame[k].component, frame[k].step) :
              /\ s <= StepCount[frame[k].component]
              /\ availableTurns' = IF k = 0 THEN availableTurns - RootReservation(s) ELSE availableTurns
              /\ frame' = [frame EXCEPT ![k].pc = "step", ![k].step = s,
                             ![k].remaining = IF k = 0 THEN RootReservation(s) ELSE frame[k].remaining]
      BY <2>1 DEF StartStep
    <3>2. frame[k] \in FrameType /\ StepCount[frame[k].component] \in Nat
      BY <2>t DEF InvocationTypeOK, FrameType
    <3>3. s \in 1..StepCount[frame[k].component]
      BY <3>1, <3>2 DEF NextSteps, FrameType
    <3>4. k = 0 => RootReservation(s) \in Nat /\ RootReservation(s) <= availableTurns
      BY <2>t, <3>3, RootReservationIsAvailable DEF InvocationTypeOK
    <3>5. availableTurns' \in Nat
      BY <2>t, <3>1, <3>4 DEF InvocationTypeOK
    <3>6. frame' \in [Frames -> FrameType] /\ frame'[0].component = Root
      <4> DEFINE turns == IF k = 0 THEN RootReservation(s) ELSE frame[k].remaining
                 new == [frame[k] EXCEPT !.pc = "step", !.step = s, !.remaining = turns]
      <4>1. turns \in Nat /\ s \in Nat
        BY <3>2, <3>3, <3>4 DEF FrameType
      <4>2. frame' = [frame EXCEPT ![k] = new]
        BY <3>1, <2>t DEF InvocationTypeOK
      <4> HIDE DEF turns
      <4>3. new \in FrameType /\ new.component = frame[k].component
        BY <3>2, <4>1 DEF FrameType
      <4> HIDE DEF new
      <4> QED
        BY <4>2, <4>3, <2>t, <2>f
    <3>7. UNCHANGED <<attempts, totalTurns, cancelled, call, queue, run>>
      BY <2>1 DEF StartStep
    <3> QED
      BY <2>t, <2>c, <3>5, <3>6, <3>7 DEF TypeInv, InvocationTypeOK
  <2>2. ASSUME NEW k \in Frames, StepRefused(k) \/ AllStepsDone(k)
        PROVE  TypeInv'
    <3>1. PICK error \in Errors \cup {"none", "cancelled"} : EndFrame(k, error)
      BY <2>2 DEF StepRefused, AllStepsDone, Errors
    <3>2. frame' \in [Frames -> FrameType] /\ frame'[0].component = Root
      <4> DEFINE new == [frame[k] EXCEPT !.pc = "ended", !.error = error]
      <4>1. new \in FrameType /\ new.component = frame[k].component
        BY <2>t DEF InvocationTypeOK, FrameType
      <4>2. frame' = [frame EXCEPT ![k] = new]
        BY <3>1, <2>t DEF EndFrame, InvocationTypeOK
      <4> HIDE DEF new
      <4> QED
        BY <4>1, <4>2, <2>t, <2>f
    <3>3. UNCHANGED <<availableTurns, attempts, totalTurns, cancelled, call, queue, run>>
      BY <2>2 DEF StepRefused, AllStepsDone
    <3> QED
      BY <3>2, <3>3, <2>t, <2>c DEF TypeInv, InvocationTypeOK
  <2>3. ASSUME NEW k \in Frames, NEW turns \in 0 .. frame[k].remaining + 1,
               NEW error \in Errors \cup {"cancelled"}, NEW goesOn \in BOOLEAN,
               EndStep(k, turns, error, goesOn)
        PROVE  TypeInv'
    <3>1. frame[k] \in FrameType
      BY <2>t DEF InvocationTypeOK
    <3>2. turns \in Nat /\ Left(k, turns) \in Nat
      BY <3>1 DEF Left, FrameType
    <3>3. totalTurns' \in Nat /\ availableTurns' \in Nat
      BY <2>3, <2>t, <3>2 DEF EndStep, AvailableAfter, InvocationTypeOK
    <3>4. frame' \in [Frames -> FrameType] /\ frame'[0].component = Root
      <4> DEFINE new == [frame[k] EXCEPT !.pc = IF goesOn THEN "between" ELSE "ended",
                                         !.remaining = IF k = 0 THEN 0 ELSE Left(k, turns),
                                         !.error = IF goesOn THEN "none" ELSE error]
      <4>1. new \in FrameType /\ new.component = frame[k].component
        BY <3>1, <3>2 DEF FrameType, Errors
      <4>2. frame' = [frame EXCEPT ![k] = new]
        BY <2>3, <2>t DEF EndStep, InvocationTypeOK
      <4> HIDE DEF new
      <4> QED
        BY <4>1, <4>2, <2>t, <2>f
    <3>5. UNCHANGED <<attempts, cancelled, call, queue, run>>
      BY <2>3 DEF EndStep
    <3> QED
      BY <2>t, <2>c, <3>3, <3>4, <3>5 DEF TypeInv, InvocationTypeOK
  <2>4. ASSUME NEW k \in Frames, StepEnds(k)
        PROVE  TypeInv'
    <3>1. PICK turns \in 0 .. frame[k].remaining + 1 :
              StepSucceeds(k, turns) \/ \E error \in Errors : StepFails(k, turns, error)
      BY <2>4 DEF StepEnds
    <3>2. CASE StepSucceeds(k, turns)
      <4>1. EndStep(k, turns, IF Exceeds(k, turns) THEN "budget_exhausted" ELSE "cancelled",
                    ~cancelled /\ ~Exceeds(k, turns))
        BY <3>2 DEF StepSucceeds
      <4>2. (~cancelled /\ ~Exceeds(k, turns)) \in BOOLEAN
        OBVIOUS
      <4> QED
        BY <4>1, <4>2, <2>3 DEF Errors
    <3>3. ASSUME NEW error \in Errors, StepFails(k, turns, error)
          PROVE  TypeInv'
      <4>1. EndStep(k, turns, IF Exceeds(k, turns) THEN "budget_exhausted" ELSE error,
                    Tolerated(k, error) /\ ~Exceeds(k, turns))
        BY <3>3 DEF StepFails
      <4>2. (Tolerated(k, error) /\ ~Exceeds(k, turns)) \in BOOLEAN
        OBVIOUS
      <4> QED
        BY <4>1, <4>2, <2>3 DEF Errors
    <3> QED
      BY <3>1, <3>2, <3>3
  <2>5. ASSUME NEW k \in Frames, NEW i \in Calls, NEW c \in Components, Invoke(i, k, c)
        PROVE  TypeInv'
    <3> DEFINE new == [IdleCall EXCEPT !.pc = "queued", !.frame = k,
                                       !.step = frame[k].step, !.callee = c]
    <3>1. frame[k].step \in Nat
      BY <2>t DEF InvocationTypeOK, FrameType
    <3>2. new \in CallType /\ new.frame = k /\ new.pc = "queued"
      BY <3>1 DEF CallType, IdleCall
    <3>3. call' = [call EXCEPT ![i] = new]
      BY <2>5 DEF Invoke
    <3> HIDE DEF new
    <3>4. call' \in [Calls -> CallType] /\ CallsHaveFrames'
      BY <3>2, <3>3, <2>t DEF InvocationTypeOK, CallsHaveFrames
    <3>5. queue' \in [Frames -> Seq(Calls)]
      BY <2>5, <2>t DEF Invoke, InvocationTypeOK
    <3>6. UNCHANGED <<availableTurns, attempts, totalTurns, cancelled, frame, run>>
      BY <2>5 DEF Invoke
    <3> QED
      BY <2>t, <3>4, <3>5, <3>6 DEF TypeInv, InvocationTypeOK
  <2>6. ASSUME NEW i \in Calls, queue[call[i].frame] # <<>>, Dequeue(i)
        PROVE  queue' \in [Frames -> Seq(Calls)]
    <3> DEFINE f == call[i].frame
    <3>1. f \in Frames => Tail(queue[f]) \in Seq(Calls)
      BY <2>6, <2>t DEF InvocationTypeOK
    <3>2. queue' = [queue EXCEPT ![f] = Tail(queue[f])]
      BY <2>6 DEF Dequeue
    <3> HIDE DEF f
    <3> QED
      BY <3>1, <3>2, <2>t DEF InvocationTypeOK
  <2>a. ASSUME NEW i \in Calls, call[i].pc # "idle", NEW result, call' = Answered(call, i, result),
               result \in Errors \cup {"thrown", "invalid_request", "cancelled", "late_discarded",
                                     "ok", "refused", "invalid_result"}
        PROVE  call' \in [Calls -> CallType] /\ CallsHaveFrames'
    <3>1. call \in [Calls -> CallType]
      BY <2>t DEF InvocationTypeOK
    <3>2. /\ call' \in [Calls -> CallType]
          /\ \A j \in Calls : call'[j].frame = call[j].frame /\ (j # i => call'[j] = call[j])
          /\ call'[i].pc = "answered"
      <4> DEFINE new == [call[i] EXCEPT !.pc = "answered", !.result = result]
      <4>1. new \in CallType /\ new.frame = call[i].frame /\ new.pc = "answered"
        BY <2>a, <3>1 DEF CallType
      <4>2. call' = [call EXCEPT ![i] = new]
        BY <2>a DEF Answered
      <4> HIDE DEF new
      <4> QED
        BY <3>1, <4>1, <4>2
    <3> QED
      BY <2>a, <2>t, <3>2 DEF CallsHaveFrames
  <2>7. ASSUME NEW i \in Calls, ThrowCall(i) \/ RefuseCall(i)
        PROVE  TypeInv'
    <3>1. queue' \in [Frames -> Seq(Calls)]
      BY <2>7, <2>6 DEF ThrowCall, RefuseCall, IsNext
    <3>2. call' \in [Calls -> CallType] /\ CallsHaveFrames'
      <4>1. PICK result \in {"thrown", "invalid_request", "budget_exhausted"} :
                call' = Answered(call, i, result)
        BY <2>7 DEF ThrowCall, RefuseCall
      <4>2. call[i].pc # "idle"
        BY <2>7 DEF ThrowCall, RefuseCall, IsNext
      <4> QED
        BY <4>1, <4>2, <2>a DEF Errors
    <3>3. cancelled' \in BOOLEAN /\ UNCHANGED <<availableTurns, attempts, totalTurns, frame, run>>
      BY <2>7, <2>t DEF ThrowCall, RefuseCall, InvocationTypeOK
    <3> QED
      BY <2>t, <3>1, <3>2, <3>3 DEF TypeInv, InvocationTypeOK
  <2>8. ASSUME NEW i \in Calls, AdmitCall(i)
        PROVE  TypeInv'
    <3> DEFINE c == call[i].callee
               child == attempts + 1
               turns == ChildReservation(c)
               new == [pc |-> "between", component |-> c,
                       ancestry |-> Caller(i).ancestry \cup {c},
                       step |-> 0, remaining |-> turns, error |-> "none"]
    <3>1. c \in Components /\ child \in Frames /\ child # 0 /\ call[i].frame \in Frames
      <4>1. attempts < MaxAttempts /\ call[i].pc = "queued"
        BY <2>8 DEF AdmitCall, IsNext
      <4>2. child \in Frames /\ child # 0
        BY <4>1, <2>t DEF InvocationTypeOK, Frames
      <4> QED
        BY <4>1, <4>2, <2>t DEF InvocationTypeOK, CallType, CallsHaveFrames
    <3>2. turns \in Nat /\ turns <= availableTurns
      BY <3>1, <2>t, ChildReservationIsAvailable DEF InvocationTypeOK
    <3>3. /\ attempts' = child
          /\ availableTurns' = availableTurns - turns
          /\ frame' = [frame EXCEPT ![child] = new]
          /\ call' = [call EXCEPT ![i] = [call[i] EXCEPT !.pc = "running", !.child = child]]
          /\ UNCHANGED <<totalTurns, cancelled, queue, run>>
          /\ attempts < MaxAttempts
      BY <2>8, <2>t DEF AdmitCall, InvocationTypeOK
    <3>4. new \in FrameType
      BY <3>1, <3>2, <2>t DEF FrameType, Caller, InvocationTypeOK
    <3> HIDE DEF c, turns, new
    <3>5. frame' \in [Frames -> FrameType] /\ frame'[0].component = Root
      BY <3>1, <3>3, <3>4, <2>f
    <3>6. call' \in [Calls -> CallType] /\ CallsHaveFrames'
      <4> DEFINE newCall == [call[i] EXCEPT !.pc = "running", !.child = child]
      <4>1. newCall \in CallType /\ newCall.frame \in Frames /\ newCall.child \in Frames
        BY <3>1, <2>t DEF InvocationTypeOK, CallType
      <4> HIDE DEF newCall
      <4>2. call' = [call EXCEPT ![i] = newCall]
        BY <3>3 DEF newCall
      <4> QED
        BY <4>1, <4>2, <2>t DEF InvocationTypeOK, CallsHaveFrames
    <3>7. attempts' \in 0..MaxAttempts /\ availableTurns' \in Nat
      BY <3>2, <3>3, <2>t DEF InvocationTypeOK
    <3> QED
      BY <2>t, <3>3, <3>5, <3>6, <3>7 DEF TypeInv, InvocationTypeOK
  <2>9. ASSUME NEW i \in Calls, ChildReturns(i)
        PROVE  TypeInv'
    <3> DEFINE k == call[i].child
               new == [frame[k] EXCEPT !.pc = "returned", !.remaining = 0]
    <3>1. k \in Frames /\ call[i].pc = "running" /\ queue[call[i].frame] # <<>>
      BY <1>2, <2>9, <2>t DEF ChildReturns, CallsHaveFrames, FirstInLine
    <3>2. availableTurns' = availableTurns + frame[k].remaining /\ frame[k] \in FrameType
      BY <2>9, <3>1, <2>t DEF ChildReturns, Refund, InvocationTypeOK
    <3>3. availableTurns' \in Nat
      <4>1. frame[k].remaining \in Nat /\ availableTurns \in Nat
        BY <3>2, <2>t DEF InvocationTypeOK, FrameType
      <4> HIDE DEF k
      <4> QED
        BY <3>2, <4>1
    <3>4. new \in FrameType /\ new.component = frame[k].component
      BY <3>2 DEF FrameType
    <3>5. frame' = [frame EXCEPT ![k] = new]
      BY <2>9, <3>1, <2>t DEF ChildReturns, InvocationTypeOK
    <3>6. frame' \in [Frames -> FrameType] /\ frame'[0].component = Root
      <4> HIDE DEF new, k
      <4> QED
        BY <3>1, <3>4, <3>5, <2>t, <2>f
    <3>7. queue' \in [Frames -> Seq(Calls)]
      BY <2>9, <3>1, <2>6 DEF ChildReturns
    <3>8. PICK result \in Results(k) : call' = Answered(call, i, result)
      BY <2>9 DEF ChildReturns
    <3>9. call' \in [Calls -> CallType] /\ CallsHaveFrames'
      <4>1. result \in Errors \cup {"cancelled", "late_discarded", "ok", "refused", "invalid_result"}
        BY <3>2, <3>8 DEF Results, FrameType
      <4> QED
        BY <4>1, <3>1, <3>8, <2>a
    <3>10. UNCHANGED <<attempts, totalTurns, cancelled, run>>
      BY <2>9 DEF ChildReturns
    <3> QED
      BY <2>t, <3>3, <3>6, <3>7, <3>9, <3>10 DEF TypeInv, InvocationTypeOK
  <2>10. CASE RootReturns \/ Cancel
    <3>1. /\ cancelled' \in BOOLEAN /\ run' \in {"running", "ok", "failed"}
          /\ UNCHANGED <<availableTurns, attempts, totalTurns, frame, call, queue>>
      BY <2>10, <2>t DEF RootReturns, Cancel, InvocationTypeOK
    <3> QED
      BY <3>1, <2>t, <2>c DEF TypeInv, InvocationTypeOK
  <2>11. CASE UNCHANGED invocationVars
    BY <2>11, <2>t, <2>c DEF invocationVars, TypeInv, InvocationTypeOK
  <2> QED
    BY <1>2, <2>1, <2>2, <2>4, <2>5, <2>7, <2>8, <2>9, <2>10, <2>11 DEF InvocationNext
<1>3. InvocationInit => FirstInLine
  BY DEF InvocationInit, IdleCall, FirstInLine
<1>4. ASSUME TypeInv, FirstInLine, [InvocationNext]_invocationVars
      PROVE  FirstInLine'
  <2>t. /\ queue \in [Frames -> Seq(Calls)] /\ call \in [Calls -> CallType]
        /\ CallsHaveFrames
    BY <1>4 DEF TypeInv, InvocationTypeOK
  <2>1. UNCHANGED <<call, queue>> => FirstInLine'
    BY <1>4 DEF FirstInLine
  <2>2. ASSUME NEW k \in Frames, NEW i \in Calls, NEW c \in Components, Invoke(i, k, c)
        PROVE  FirstInLine'
    <3>1. /\ queue' = [queue EXCEPT ![k] = Append(queue[k], i)]
          /\ \A j \in Calls \ {i} : call'[j] = call[j]
          /\ call'[i].pc = "queued"
      BY <2>2, <2>t DEF Invoke, IdleCall
    <3>2. queue[k] # <<>> => Head(Append(queue[k], i)) = Head(queue[k])
      BY <2>t
    <3>3. Append(queue[k], i) # <<>>
      BY <2>t
    <3>4. ASSUME NEW j \in Calls, call'[j].pc = "running"
          PROVE  queue'[call'[j].frame] # <<>> /\ Head(queue'[call'[j].frame]) = j
      <4>1. j # i /\ call'[j] = call[j] /\ call[j].frame \in Frames
        BY <3>1, <3>4, <2>t DEF CallsHaveFrames
      <4>2. queue[call[j].frame] # <<>> /\ Head(queue[call[j].frame]) = j
        BY <1>4, <3>4, <4>1 DEF FirstInLine
      <4>3. CASE call[j].frame = k
        BY <3>1, <3>2, <3>3, <4>1, <4>2, <4>3, <2>t
      <4>4. CASE call[j].frame # k
        BY <3>1, <4>1, <4>2, <4>4, <2>t
      <4> QED
        BY <4>3, <4>4
    <3> QED
      BY <3>4 DEF FirstInLine
  <2>3. ASSUME NEW i \in Calls, call[i].frame \in Frames, Head(queue[call[i].frame]) = i, Dequeue(i),
               NEW result, call' = Answered(call, i, result)
        PROVE  FirstInLine'
    <3>1. /\ \A j \in Calls \ {i} : call'[j] = call[j]
          /\ call'[i].pc = "answered"
      BY <2>3, <2>t DEF Answered, CallType
    <3>2. ASSUME NEW j \in Calls, call'[j].pc = "running"
          PROVE  queue'[call'[j].frame] # <<>> /\ Head(queue'[call'[j].frame]) = j
      <4>1. j # i /\ call'[j] = call[j] /\ call[j].frame \in Frames
        BY <3>1, <3>2, <2>t DEF CallsHaveFrames
      <4>2. queue[call[j].frame] # <<>> /\ Head(queue[call[j].frame]) = j
        BY <1>4, <3>2, <4>1 DEF FirstInLine
      <4>3. call[j].frame # call[i].frame
        BY <2>3, <4>1, <4>2
      <4>4. queue'[call[j].frame] = queue[call[j].frame]
        BY <2>3, <4>1, <4>3, <2>t DEF Dequeue
      <4> QED
        BY <4>1, <4>2, <4>4
    <3> QED
      BY <3>2 DEF FirstInLine
  <2>4. ASSUME NEW i \in Calls, ThrowCall(i) \/ RefuseCall(i)
        PROVE  FirstInLine'
    <3>1. PICK result : call' = Answered(call, i, result)
      BY <2>4 DEF ThrowCall, RefuseCall
    <3> QED
      BY <2>3, <2>4, <2>t, <3>1 DEF ThrowCall, RefuseCall, IsNext, CallsHaveFrames
  <2>5. ASSUME NEW i \in Calls, ChildReturns(i)
        PROVE  FirstInLine'
    <3>1. PICK result : call' = Answered(call, i, result)
      BY <2>5 DEF ChildReturns
    <3> QED
      BY <1>4, <2>3, <2>5, <2>t, <3>1 DEF ChildReturns, FirstInLine, CallsHaveFrames
  <2>6. ASSUME NEW i \in Calls, AdmitCall(i)
        PROVE  FirstInLine'
    <3>1. /\ queue[call[i].frame] # <<>> /\ Head(queue[call[i].frame]) = i
          /\ queue' = queue
      BY <2>6 DEF AdmitCall, IsNext
    <3>2. \A j \in Calls : call'[j].frame = call[j].frame /\ (j # i => call'[j] = call[j])
      BY <2>6, <2>t DEF AdmitCall, CallType
    <3> QED
      BY <1>4, <3>1, <3>2 DEF FirstInLine
  <2>7. ASSUME NEW k \in Frames, StepEnds(k)
        PROVE  UNCHANGED <<call, queue>>
    BY <2>7 DEF StepEnds, StepSucceeds, StepFails, EndStep
  <2> QED
    BY <1>4, <2>1, <2>2, <2>4, <2>5, <2>6, <2>7
    DEF InvocationNext, StartStep, StepRefused, AllStepsDone, RootReturns, Cancel, invocationVars
<1> QED
  BY <1>1, <1>2, <1>3, <1>4, PTL DEF InvocationSpec

-------------------------------------------------------------------------------
\* Type correctness for every call graph: in particular the turns available, the
\* turns reserved and the attempts stay natural numbers within their limits, also
\* when a provider reports more turns than it was allowed.
THEOREM InvocationTypeCorrect == InvocationSpec => []InvocationTypeOK
<1>1. TypeInv => InvocationTypeOK
  BY DEF TypeInv
<1> QED
  BY <1>1, InvocationInvariant, PTL

\* Two calls of one frame never run at the same time, whatever fails, is refused
\* or is cancelled before, between or beside them.
THEOREM SiblingsAreSerial == InvocationSpec => []SerialSiblings
<1>1. TypeInv /\ FirstInLine => SerialSiblings
  BY DEF FirstInLine, SerialSiblings
<1> QED
  BY <1>1, InvocationInvariant, PTL

\* From its cancellation on, a run admits no child and delivers no result of one.
THEOREM CancellationIsFinal == InvocationSpec => CancellationWins
<1>1. ASSUME TypeInv, [InvocationNext]_invocationVars, cancelled
      PROVE  /\ attempts' = attempts
             /\ \A i \in Calls : call[i].pc # "answered" /\ call'[i].pc = "answered"
                                   => call'[i].result \in {"thrown", "late_discarded"}
             /\ run' \in {run, "failed"}
  <2>t. call \in [Calls -> CallType]
    BY <1>1 DEF TypeInv, InvocationTypeOK
  <2>1. ASSUME NEW k \in Frames, NEW i \in Calls, NEW c \in Components, Invoke(i, k, c)
        PROVE  \A j \in Calls : call'[j] = call[j] \/ call'[j].pc = "queued"
    BY <2>1, <2>t DEF Invoke, IdleCall
  <2>2. ASSUME NEW i \in Calls, NEW result \in {"thrown", "late_discarded"},
               call' = Answered(call, i, result)
        PROVE  \A j \in Calls : call'[j] = call[j] \/ call'[j].result \in {"thrown", "late_discarded"}
    BY <2>2, <2>t DEF Answered, CallType
  <2>3. ASSUME NEW i \in Calls, ThrowCall(i) \/ ChildReturns(i)
        PROVE  \E result \in {"thrown", "late_discarded"} : call' = Answered(call, i, result)
    BY <1>1, <2>3 DEF ThrowCall, ChildReturns, Results
  <2>4. ASSUME NEW i \in Calls
        PROVE  ~AdmitCall(i) /\ ~RefuseCall(i)
    BY <1>1 DEF AdmitCall, MayAdmit, RefuseCall
  <2>5. ASSUME NEW k \in Frames, StepEnds(k)
        PROVE  UNCHANGED <<attempts, call, run>>
    BY <2>5 DEF StepEnds, StepSucceeds, StepFails, EndStep
  <2>6. UNCHANGED <<attempts, run>> \/ RootReturns
    BY <1>1, <2>4, <2>5 DEF InvocationNext, StartStep, StepRefused, AllStepsDone, Invoke, ThrowCall,
                            ChildReturns, RootReturns, Cancel, invocationVars
  <2>7. attempts' = attempts /\ run' \in {run, "failed"}
    BY <1>1, <2>6 DEF RootReturns
  <2>8. ASSUME NEW j \in Calls, call[j].pc # "answered", call'[j].pc = "answered"
        PROVE  call'[j].result \in {"thrown", "late_discarded"}
    <3>1. call' # call
      BY <2>8
    <3>2. CASE \E k \in Frames, i \in Calls, c \in Components : Invoke(i, k, c)
      BY <2>1, <2>8, <3>2
    <3>3. CASE \E i \in Calls : ThrowCall(i) \/ ChildReturns(i)
      BY <2>2, <2>3, <2>8, <3>3
    <3> QED
      BY <1>1, <2>4, <2>5, <3>1, <3>2, <3>3
      DEF InvocationNext, StartStep, StepRefused, AllStepsDone, RootReturns, Cancel, invocationVars
  <2> QED
    BY <2>7, <2>8
<1> QED
  BY <1>1, InvocationInvariant, PTL DEF InvocationSpec, CancellationWins

-------------------------------------------------------------------------------
\* What the refinement rests on besides types: the root holds turns only during a
\* step, and a frame that no attempt has taken holds none.  So whoever is granted
\* turns had none.
HeldIsInUse ==
    /\ frame[0].pc # "step" => frame[0].remaining = 0
    /\ \A k \in Frames : k > attempts => frame[k].remaining = 0

\* The turns each frame holds, the ledger's grants.
Held == [k \in Frames |-> frame[k].remaining]

\* One frame is replaced: only its own grant may change.
LEMMA OneGrantChanges ==
    ASSUME frame \in [Frames -> FrameType], NEW k \in Frames, NEW new \in FrameType,
           frame' = [frame EXCEPT ![k] = new]
    PROVE  /\ Held' = [Held EXCEPT ![k] = new.remaining]
           /\ frame'[k] = new
           /\ \A j \in Frames \ {k} : frame'[j] = frame[j]
  BY DEF Held

\* Every step of the runtime is a step of the ledger or leaves it alone, and keeps
\* HeldIsInUse.
LEMMA LedgerStep ==
    ASSUME TypeInv, FirstInLine, HeldIsInUse, [InvocationNext]_invocationVars
    PROVE  HeldIsInUse' /\ [Ledger!LedgerNext]_<<availableTurns, Held, totalTurns>>
<1> DEFINE Stutters == UNCHANGED <<availableTurns, Held, totalTurns>>
           Goal == HeldIsInUse' /\ [Ledger!LedgerNext]_<<availableTurns, Held, totalTurns>>
<1>t. /\ frame \in [Frames -> FrameType] /\ call \in [Calls -> CallType] /\ CallsHaveFrames
      /\ availableTurns \in Nat /\ totalTurns \in Nat /\ attempts \in 0..MaxAttempts
      /\ frame[0].component = Root /\ MaxAttempts \in Nat /\ 0 \in Frames
  BY Limits DEF TypeInv, InvocationTypeOK, Frames
<1>s. ASSUME UNCHANGED <<availableTurns, frame, attempts, totalTurns>>
      PROVE  Goal
  <2>1. Stutters
    BY <1>s DEF Held
  <2>2. HeldIsInUse'
    BY <1>s DEF HeldIsInUse
  <2> QED
    BY <2>1, <2>2
<1>1. ASSUME NEW k \in Frames, StartStep(k)
      PROVE  Goal
  <2>1. PICK s \in NextSteps(frame[k].component, frame[k].step) :
            /\ s <= StepCount[frame[k].component]
            /\ (IF k = 0 THEN RootReservation(s) ELSE frame[k].remaining) >= 1
            /\ availableTurns' = IF k = 0 THEN availableTurns - RootReservation(s) ELSE availableTurns
            /\ frame' = [frame EXCEPT ![k].pc = "step", ![k].step = s,
                           ![k].remaining = IF k = 0 THEN RootReservation(s) ELSE frame[k].remaining]
    BY <1>1 DEF StartStep
  <2>2. frame[k] \in FrameType /\ StepCount[frame[k].component] \in Nat
    BY <1>t, Limits DEF FrameType
  <2>3. s \in 1..StepCount[frame[k].component] /\ s \in Nat
    BY <2>1, <2>2 DEF NextSteps, FrameType
  <2>4. k = 0 => RootReservation(s) \in Nat /\ RootReservation(s) <= availableTurns
    BY <1>t, <2>3, RootReservationIsAvailable
  <2> DEFINE turns == IF k = 0 THEN RootReservation(s) ELSE frame[k].remaining
             new == [frame[k] EXCEPT !.pc = "step", !.step = s, !.remaining = turns]
  <2>5. turns \in Nat /\ turns >= 1 /\ (k # 0 => turns = frame[k].remaining)
    BY <2>1, <2>2, <2>4 DEF FrameType
  <2>6. frame' = [frame EXCEPT ![k] = new]
    BY <2>1, <1>t
  <2>7. k = 0 => availableTurns' = availableTurns - turns /\ turns <= availableTurns
    BY <2>1, <2>4
  <2> HIDE DEF turns
  <2>8. new \in FrameType /\ new.remaining = turns /\ new.pc = "step"
    BY <2>2, <2>3, <2>5 DEF FrameType
  <2> HIDE DEF new
  <2>9. /\ Held' = [Held EXCEPT ![k] = turns]
        /\ frame'[k] = new /\ \A j \in Frames \ {k} : frame'[j] = frame[j]
    BY <1>t, <2>6, <2>8, OneGrantChanges
  <2>10. attempts' = attempts /\ totalTurns' = totalTurns
    BY <1>1 DEF StartStep
  <2>11. HeldIsInUse'
    BY <2>5, <2>8, <2>9, <2>10, <1>t DEF HeldIsInUse
  <2>12. CASE k = 0
    <3>1. Held[0] = 0
      BY <1>1, <2>12, <1>t DEF StartStep, HeldIsInUse, Held
    <3>2. turns \in 1..availableTurns /\ availableTurns' = availableTurns - turns
      BY <2>5, <2>7, <2>12, <1>t
    <3>3. Ledger!Grant(0)
      BY <2>9, <2>10, <2>12, <3>1, <3>2 DEF Ledger!Grant, Held
    <3> QED
      BY <2>11, <3>3, <1>t DEF Ledger!LedgerNext
  <2>13. CASE k # 0
    <3>1. Held' = Held
      BY <2>5, <2>9, <2>13 DEF Held
    <3> QED
      BY <2>1, <2>10, <2>11, <2>13, <3>1
  <2> QED
    BY <2>12, <2>13
<1>2. ASSUME NEW k \in Frames, StepRefused(k) \/ AllStepsDone(k)
      PROVE  Goal
  <2>1. PICK error \in Errors \cup {"none", "cancelled"} : EndFrame(k, error)
    BY <1>2 DEF StepRefused, AllStepsDone, Errors
  <2> DEFINE new == [frame[k] EXCEPT !.pc = "ended", !.error = error]
  <2>2. new \in FrameType /\ new.remaining = frame[k].remaining
    BY <1>t DEF FrameType
  <2>3. frame' = [frame EXCEPT ![k] = new] /\ frame[k].pc = "between"
    BY <1>2, <2>1, <1>t DEF EndFrame, StepRefused, AllStepsDone
  <2> HIDE DEF new
  <2>4. /\ Held' = [Held EXCEPT ![k] = frame[k].remaining]
        /\ frame'[k] = new /\ \A j \in Frames \ {k} : frame'[j] = frame[j]
    BY <1>t, <2>2, <2>3, OneGrantChanges
  <2>5. UNCHANGED <<availableTurns, attempts, totalTurns>>
    BY <1>2 DEF StepRefused, AllStepsDone
  <2>6. Held' = Held
    BY <2>4 DEF Held
  <2>7. HeldIsInUse'
    BY <2>2, <2>3, <2>4, <2>5, <1>t DEF HeldIsInUse
  <2> QED
    BY <2>5, <2>6, <2>7
<1>3. ASSUME NEW k \in Frames, NEW turns \in 0 .. frame[k].remaining + 1,
             NEW error \in Errors \cup {"cancelled"}, NEW goesOn \in BOOLEAN,
             EndStep(k, turns, error, goesOn), Exceeds(k, turns) => Overrun
      PROVE  Goal
  <2> DEFINE left == IF k = 0 THEN 0 ELSE Left(k, turns)
             new == [frame[k] EXCEPT !.pc = IF goesOn THEN "between" ELSE "ended",
                                     !.remaining = left,
                                     !.error = IF goesOn THEN "none" ELSE error]
  <2>1. frame[k] \in FrameType /\ frame[k].remaining \in Nat /\ turns \in Nat
    BY <1>t DEF FrameType
  <2>2. Left(k, turns) \in Nat
    BY <2>1 DEF Left
  <2>3. new \in FrameType /\ new.remaining = left /\ new.pc # "step"
    BY <2>1, <2>2 DEF FrameType, Errors
  <2>4. frame' = [frame EXCEPT ![k] = new]
    BY <1>3, <1>t DEF EndStep
  <2> HIDE DEF new
  <2>5. /\ Held' = [Held EXCEPT ![k] = left]
        /\ frame'[k] = new /\ \A j \in Frames \ {k} : frame'[j] = frame[j]
    BY <1>t, <2>3, <2>4, OneGrantChanges
  <2>6. /\ totalTurns' = totalTurns + turns /\ attempts' = attempts
        /\ availableTurns' = AvailableAfter(k, turns)
    BY <1>3 DEF EndStep
  <2>7. HeldIsInUse'
    <3>1. k > attempts => left = 0
      BY <2>1, <1>t DEF HeldIsInUse, Left
    <3>2. k = 0 => left = 0
      OBVIOUS
    <3> HIDE DEF left
    <3> QED
      BY <2>3, <2>5, <2>6, <3>1, <3>2, <1>t DEF HeldIsInUse
  <2>8. Held[k] = frame[k].remaining
    BY DEF Held
  <2>9. CASE Exceeds(k, turns)
    <3>1. Left(k, turns) = 0 /\ left = 0
      BY <2>9 DEF Exceeds, Left
    <3>2. availableTurns' = availableTurns
      BY <2>6, <3>1, <1>t DEF AvailableAfter
    <3>3. totalTurns' > totalTurns + Held[k] /\ Overrun
      BY <1>3, <2>1, <2>6, <2>8, <2>9, <1>t DEF Exceeds
    <3>4. Ledger!Forfeit(k)
      BY <2>5, <3>1, <3>2, <3>3 DEF Ledger!Forfeit, Held
    <3> QED
      BY <2>7, <3>4 DEF Ledger!LedgerNext
  <2>10. CASE ~Exceeds(k, turns)
    <3>1. turns \in 0..Held[k] /\ Left(k, turns) = Held[k] - turns
      BY <2>1, <2>8, <2>10 DEF Exceeds, Left
    <3>2. \/ left = Held[k] - turns /\ availableTurns' = availableTurns
          \/ left = 0 /\ availableTurns' = availableTurns + Held[k] - turns
      BY <2>1, <2>6, <2>8, <3>1, <1>t DEF AvailableAfter
    <3> HIDE DEF left
    <3>3. Ledger!Use(k)
      BY <2>5, <2>6, <3>1, <3>2 DEF Ledger!Use, Held
    <3> QED
      BY <2>7, <3>3 DEF Ledger!LedgerNext
  <2> QED
    BY <2>9, <2>10
<1>4. ASSUME NEW k \in Frames, StepEnds(k)
      PROVE  Goal
  <2>1. PICK turns \in 0 .. frame[k].remaining + 1 :
            StepSucceeds(k, turns) \/ \E error \in Errors : StepFails(k, turns, error)
    BY <1>4 DEF StepEnds
  <2> DEFINE exceeded == Exceeds(k, turns)
  <2>2. CASE StepSucceeds(k, turns)
    <3>1. /\ EndStep(k, turns, IF exceeded THEN "budget_exhausted" ELSE "cancelled",
                     ~cancelled /\ ~exceeded)
          /\ exceeded => Overrun
      BY <2>2 DEF StepSucceeds
    <3>2. (~cancelled /\ ~exceeded) \in BOOLEAN
      OBVIOUS
    <3>3. (IF exceeded THEN "budget_exhausted" ELSE "cancelled") \in Errors \cup {"cancelled"}
      BY DEF Errors
    <3> QED
      BY <3>1, <3>2, <3>3, <1>3
  <2>3. ASSUME NEW error \in Errors, StepFails(k, turns, error)
        PROVE  Goal
    <3>1. /\ EndStep(k, turns, IF exceeded THEN "budget_exhausted" ELSE error,
                     Tolerated(k, error) /\ ~exceeded)
          /\ exceeded => Overrun
      BY <2>3 DEF StepFails
    <3>2. (Tolerated(k, error) /\ ~exceeded) \in BOOLEAN
      OBVIOUS
    <3>3. (IF exceeded THEN "budget_exhausted" ELSE error) \in Errors \cup {"cancelled"}
      BY DEF Errors
    <3> QED
      BY <3>1, <3>2, <3>3, <1>3
  <2> QED
    BY <2>1, <2>2, <2>3
<1>5. ASSUME NEW i \in Calls, AdmitCall(i)
      PROVE  Goal
  <2> DEFINE c == call[i].callee
             child == attempts + 1
             turns == ChildReservation(c)
             new == [pc |-> "between", component |-> c,
                     ancestry |-> Caller(i).ancestry \cup {c},
                     step |-> 0, remaining |-> turns, error |-> "none"]
  <2>1. /\ attempts < MaxAttempts /\ call[i].pc = "queued" /\ turns >= 1
        /\ attempts' = child /\ availableTurns' = availableTurns - turns
        /\ totalTurns' = totalTurns
        /\ frame' = [frame EXCEPT ![child] = new]
    BY <1>5 DEF AdmitCall, IsNext
  <2>2. child \in Frames /\ child # 0 /\ child > attempts /\ c \in Components
    BY <2>1, <1>t DEF Frames, CallType
  <2>3. turns \in Nat /\ turns <= availableTurns
    BY <2>2, <1>t, ChildReservationIsAvailable
  <2>4. Caller(i) \in FrameType
    BY <2>1, <1>t DEF Caller, CallsHaveFrames
  <2> HIDE DEF turns, c
  <2>5. new \in FrameType /\ new.remaining = turns
    BY <2>2, <2>3, <2>4 DEF FrameType
  <2> HIDE DEF new
  <2>6. /\ Held' = [Held EXCEPT ![child] = turns]
        /\ \A j \in Frames \ {child} : frame'[j] = frame[j]
    BY <1>t, <2>1, <2>2, <2>5, OneGrantChanges
  <2>7. HeldIsInUse'
    BY <2>1, <2>2, <2>6, <1>t DEF HeldIsInUse, Frames
  <2>8. Held[child] = 0
    BY <2>2 DEF HeldIsInUse, Held
  <2>9. turns \in 1..availableTurns
    BY <2>1, <2>3, <1>t
  <2>10. PICK h \in Frames : h = child
    BY <2>2
  <2>11. Ledger!Grant(h)
    BY <2>1, <2>6, <2>8, <2>9, <2>10 DEF Ledger!Grant, Held
  <2> QED
    BY <2>7, <2>11 DEF Ledger!LedgerNext
<1>6. ASSUME NEW i \in Calls, ChildReturns(i)
      PROVE  Goal
  <2>1. PICK k \in Frames : k = call[i].child
    BY <1>6, <1>t DEF ChildReturns, CallsHaveFrames
  <2> DEFINE new == [frame[k] EXCEPT !.pc = "returned", !.remaining = 0]
  <2>a. frame[k] \in FrameType
    BY <1>t
  <2>2. new \in FrameType /\ new.remaining = 0 /\ new.pc = "returned"
    BY <2>a DEF FrameType
  <2>3. frame' = [frame EXCEPT ![k] = new]
    BY <1>6, <2>1, <1>t DEF ChildReturns
  <2>4. /\ availableTurns' = availableTurns + frame[k].remaining
        /\ attempts' = attempts /\ totalTurns' = totalTurns
    BY <1>6, <2>1 DEF ChildReturns, Refund
  <2> HIDE DEF new
  <2>5. /\ Held' = [Held EXCEPT ![k] = 0]
        /\ frame'[k] = new /\ \A j \in Frames \ {k} : frame'[j] = frame[j]
    <3>1. Held' = [Held EXCEPT ![k] = new.remaining]
          /\ frame'[k] = new /\ \A j \in Frames \ {k} : frame'[j] = frame[j]
      BY <1>t, <2>2, <2>3, OneGrantChanges
    <3> QED
      BY <2>2, <3>1
  <2>6. HeldIsInUse'
    BY <2>1, <2>2, <2>4, <2>5, <1>t DEF HeldIsInUse
  <2>7. frame[k].remaining \in Nat /\ Held[k] = frame[k].remaining
    BY <2>1, <1>t DEF FrameType, Held
  <2>8. /\ 0 \in 0..Held[k] /\ totalTurns' = totalTurns + 0
        /\ availableTurns' = availableTurns + Held[k] - 0
    BY <2>4, <2>7, <1>t
  <2>9. Ledger!Use(k)
    BY <2>5, <2>8 DEF Ledger!Use, Held
  <2> QED
    BY <2>1, <2>6, <2>9 DEF Ledger!LedgerNext
<1>7. ASSUME \/ \E k \in Frames, i \in Calls, c \in Components : Invoke(i, k, c)
             \/ \E i \in Calls : ThrowCall(i) \/ RefuseCall(i)
             \/ RootReturns \/ Cancel \/ UNCHANGED invocationVars
      PROVE  Goal
  BY <1>7, <1>s DEF Invoke, ThrowCall, RefuseCall, RootReturns, Cancel, invocationVars
<1> HIDE DEF Goal
<1>8. Goal
  BY <1>1, <1>2, <1>4, <1>5, <1>6, <1>7 DEF InvocationNext
<1> QED
  BY <1>8 DEF Goal

\* "parent and child SDK limits can never each promise the same remaining turns"
\* (componentInvocation.ts), for every call graph, budget, depth and set of calls,
\* with or without providers that overrun and steps that leave calls behind.
THEOREM InvocationKeepsTheLedger == InvocationSpec => ImplementsTurnLedger
<1>1. InvocationInit => Ledger!LedgerInit /\ HeldIsInUse
  <2> SUFFICES ASSUME InvocationInit
               PROVE  Ledger!LedgerInit /\ HeldIsInUse
    OBVIOUS
  <2>1. \A k \in Frames : frame[k].remaining = 0
    BY DEF InvocationInit, UnusedFrame
  <2>2. 0 \in Frames
    BY Limits DEF Frames
  <2>3. [k \in Frames |-> frame[k].remaining] = [k \in Frames |-> 0]
    BY <2>1
  <2> QED
    BY <2>1, <2>2, <2>3 DEF InvocationInit, Ledger!LedgerInit, HeldIsInUse
<1>2. TypeInv /\ FirstInLine /\ HeldIsInUse /\ [InvocationNext]_invocationVars
        => HeldIsInUse' /\ [Ledger!LedgerNext]_(Ledger!ledgerVars)
  BY LedgerStep DEF Ledger!ledgerVars, Held
<1> QED
  BY <1>1, <1>2, InvocationInvariant, PTL
  DEF InvocationSpec, ImplementsTurnLedger, Ledger!LedgerSpec

-------------------------------------------------------------------------------
(* The first chain of calls.                                                   *)

\* Where executions and calls stand: no frame beyond the attempts is used, a
\* running step is one of its component's, a call is made from a frame in use and
\* never from a step to come, and a child is an attempt.
FramesInv ==
    /\ \A k \in Frames : k > attempts => frame[k].pc = "unused"
    /\ \A k \in Frames :
          frame[k].pc = "step" => frame[k].step \in 1..StepCount[frame[k].component]
    /\ \A i \in Calls : /\ call[i].pc # "idle" => /\ call[i].frame \in 0..attempts
                                                  /\ call[i].step <= Caller(i).step
                        /\ call[i].pc = "running" => call[i].child \in 1..attempts

\* What a step of the runtime does to frames, calls and turns, as far as the chain
\* of calls is concerned.
Moves(k) ==
    /\ frame[k].pc \in {"between", "step"}
    /\ \A j \in Frames \ {k} : frame'[j] = frame[j]
    /\ frame'[k].component = frame[k].component /\ frame'[k].ancestry = frame[k].ancestry
    /\ UNCHANGED <<attempts, call>>

Starts(k) ==
    /\ Moves(k) /\ frame[k].pc = "between" /\ frame'[k].pc = "step"
    /\ frame'[k].step > frame[k].step
    /\ frame'[k].step \in 1..StepCount[frame[k].component]
    /\ totalTurns' = totalTurns
    /\ k # 0 => availableTurns' = availableTurns
    /\ k = 0 => \E turns \in 0..availableTurns :
                   /\ turns = RootReservation(frame'[k].step)
                   /\ availableTurns' = availableTurns - turns /\ frame'[k].remaining = turns

Rests(k) ==
    /\ Moves(k) /\ frame[k].pc = "step" /\ frame'[k].pc = "between"
    /\ frame'[k].step = frame[k].step
    /\ \E turns \in Nat :
          /\ totalTurns' = totalTurns + turns
          /\ availableTurns' = AvailableAfter(k, turns)
          /\ frame'[k].remaining = IF k = 0 THEN 0 ELSE Left(k, turns)

Stops(k) == Moves(k) /\ frame'[k].pc = "ended" /\ frame'[k].step = frame[k].step

OneCallChanges(i) ==
    /\ \A j \in Calls \ {i} : call'[j] = call[j]
    /\ UNCHANGED <<availableTurns, attempts, totalTurns, frame>>

Asks(i, k) ==
    /\ OneCallChanges(i)
    /\ call[i].pc = "idle" /\ frame[k].pc = "step"
    /\ call'[i].pc = "queued" /\ call'[i].frame = k /\ call'[i].step = frame[k].step

TurnedAway(i) ==
    /\ OneCallChanges(i)
    /\ call[i].pc = "queued" /\ call'[i].pc = "answered"
    /\ call'[i].frame = call[i].frame /\ call'[i].step = call[i].step

Admitted(i) ==
    /\ call[i].pc = "queued" /\ IsNext(i) /\ Authorized(i) /\ ~Reenters(i)
    /\ attempts < MaxAttempts /\ attempts' = attempts + 1 /\ totalTurns' = totalTurns
    /\ availableTurns' = availableTurns - ChildReservation(call[i].callee)
    /\ \A j \in Frames \ {attempts + 1} : frame'[j] = frame[j]
    /\ frame'[attempts + 1].pc = "between"
    /\ frame'[attempts + 1].component = call[i].callee
    /\ frame'[attempts + 1].ancestry = Caller(i).ancestry \cup {call[i].callee}
    /\ \A j \in Calls \ {i} : call'[j] = call[j]
    /\ call'[i].pc = "running" /\ call'[i].child = attempts + 1
    /\ call'[i].frame = call[i].frame /\ call'[i].step = call[i].step

Returns(i) ==
    /\ call[i].pc = "running" /\ call'[i].pc = "answered" /\ attempts' = attempts
    /\ call'[i].frame = call[i].frame /\ call'[i].step = call[i].step
    /\ \A j \in Calls \ {i} : call'[j] = call[j]
    /\ \A j \in Frames \ {call[i].child} : frame'[j] = frame[j]
    /\ frame'[call[i].child].pc = "returned"
    /\ frame'[call[i].child].step = frame[call[i].child].step

\* Every step of the runtime is one of these, or of no concern to the chain.
LEMMA ChainSteps ==
    ASSUME TypeInv, [InvocationNext]_invocationVars
    PROVE  \/ \E k \in Frames : Starts(k) \/ Rests(k) \/ Stops(k)
           \/ \E i \in Calls, k \in Frames : Asks(i, k)
           \/ \E i \in Calls : TurnedAway(i) \/ Admitted(i) \/ Returns(i)
           \/ UNCHANGED <<availableTurns, attempts, totalTurns, frame, call>>
<1> DEFINE Goal == \/ \E k \in Frames : Starts(k) \/ Rests(k) \/ Stops(k)
                   \/ \E i \in Calls, k \in Frames : Asks(i, k)
                   \/ \E i \in Calls : TurnedAway(i) \/ Admitted(i) \/ Returns(i)
                   \/ UNCHANGED <<availableTurns, attempts, totalTurns, frame, call>>
<1>t. /\ frame \in [Frames -> FrameType] /\ call \in [Calls -> CallType]
      /\ availableTurns \in Nat /\ totalTurns \in Nat /\ attempts \in 0..MaxAttempts
      /\ frame[0].component = Root /\ MaxAttempts \in Nat /\ 0 \in Frames /\ CallsHaveFrames
  BY Limits DEF TypeInv, InvocationTypeOK, Frames
<1>r. ASSUME NEW k \in Frames, NEW new \in FrameType, frame' = [frame EXCEPT ![k] = new],
             frame[k].pc \in {"between", "step"},
             new.component = frame[k].component, new.ancestry = frame[k].ancestry,
             UNCHANGED <<attempts, call>>
      PROVE  Moves(k) /\ frame'[k] = new
  BY <1>r, <1>t DEF Moves
<1>1. ASSUME NEW k \in Frames, StartStep(k)
      PROVE  Starts(k)
  <2>1. PICK s \in NextSteps(frame[k].component, frame[k].step) :
            /\ s <= StepCount[frame[k].component]
            /\ availableTurns' = IF k = 0 THEN availableTurns - RootReservation(s) ELSE availableTurns
            /\ frame' = [frame EXCEPT ![k].pc = "step", ![k].step = s,
                           ![k].remaining = IF k = 0 THEN RootReservation(s) ELSE frame[k].remaining]
    BY <1>1 DEF StartStep
  <2>2. frame[k] \in FrameType /\ StepCount[frame[k].component] \in Nat
    BY <1>t, Limits DEF FrameType
  <2>3. s \in 1..StepCount[frame[k].component] /\ s \in Nat /\ s > frame[k].step
    BY <2>1, <2>2 DEF NextSteps, FrameType
  <2>4. k = 0 => RootReservation(s) \in Nat /\ RootReservation(s) <= availableTurns
    BY <1>t, <2>3, RootReservationIsAvailable
  <2> DEFINE turns == IF k = 0 THEN RootReservation(s) ELSE frame[k].remaining
             new == [frame[k] EXCEPT !.pc = "step", !.step = s, !.remaining = turns]
  <2>5. turns \in Nat
    BY <2>2, <2>4 DEF FrameType
  <2>6. frame' = [frame EXCEPT ![k] = new]
    BY <2>1, <1>t
  <2>7. k = 0 => availableTurns' = availableTurns - turns /\ turns \in 0..availableTurns /\ turns = RootReservation(s)
    BY <2>1, <2>4, <1>t
  <2> HIDE DEF turns
  <2>8. /\ new \in FrameType /\ new.remaining = turns /\ new.pc = "step" /\ new.step = s
        /\ new.component = frame[k].component /\ new.ancestry = frame[k].ancestry
    BY <2>2, <2>3, <2>5 DEF FrameType
  <2> HIDE DEF new
  <2>9. Moves(k) /\ frame'[k] = new
    BY <1>1, <1>r, <2>6, <2>8 DEF StartStep
  <2>10. frame[k].pc = "between" /\ totalTurns' = totalTurns
    BY <1>1 DEF StartStep
  <2> QED
    BY <2>1, <2>3, <2>7, <2>8, <2>9, <2>10 DEF Starts
<1>2. ASSUME NEW k \in Frames, StepRefused(k) \/ AllStepsDone(k)
      PROVE  Stops(k)
  <2>1. PICK error \in Errors \cup {"none", "cancelled"} : EndFrame(k, error)
    BY <1>2 DEF StepRefused, AllStepsDone, Errors
  <2> DEFINE new == [frame[k] EXCEPT !.pc = "ended", !.error = error]
  <2>2. /\ new \in FrameType /\ new.pc = "ended" /\ new.step = frame[k].step
        /\ new.component = frame[k].component /\ new.ancestry = frame[k].ancestry
    BY <1>t DEF FrameType
  <2>3. frame' = [frame EXCEPT ![k] = new] /\ frame[k].pc = "between" /\ UNCHANGED <<attempts, call>>
    BY <1>2, <2>1, <1>t DEF EndFrame, StepRefused, AllStepsDone
  <2> HIDE DEF new
  <2>4. Moves(k) /\ frame'[k] = new
    BY <1>r, <2>2, <2>3
  <2> QED
    BY <2>2, <2>4 DEF Stops
<1>3. ASSUME NEW k \in Frames, NEW turns \in 0 .. frame[k].remaining + 1,
             NEW error \in Errors \cup {"cancelled"}, NEW goesOn \in BOOLEAN,
             EndStep(k, turns, error, goesOn), StepOver(k)
      PROVE  Rests(k) \/ Stops(k)
  <2> DEFINE left == IF k = 0 THEN 0 ELSE Left(k, turns)
             new == [frame[k] EXCEPT !.pc = IF goesOn THEN "between" ELSE "ended",
                                     !.remaining = left,
                                     !.error = IF goesOn THEN "none" ELSE error]
  <2>1. frame[k] \in FrameType /\ frame[k].remaining \in Nat /\ turns \in Nat
    BY <1>t DEF FrameType
  <2>2. Left(k, turns) \in Nat
    BY <2>1 DEF Left
  <2>3. /\ new \in FrameType /\ new.remaining = left /\ new.step = frame[k].step
        /\ new.pc = IF goesOn THEN "between" ELSE "ended"
        /\ new.component = frame[k].component /\ new.ancestry = frame[k].ancestry
    BY <2>1, <2>2 DEF FrameType, Errors
  <2>4. frame' = [frame EXCEPT ![k] = new]
    BY <1>3, <1>t DEF EndStep
  <2> HIDE DEF new
  <2>5. /\ totalTurns' = totalTurns + turns /\ UNCHANGED <<attempts, call>>
        /\ availableTurns' = AvailableAfter(k, turns) /\ frame[k].pc = "step"
    BY <1>3 DEF EndStep, StepOver
  <2>6. Moves(k) /\ frame'[k] = new
    BY <1>r, <2>3, <2>4, <2>5
  <2> QED
    BY <2>1, <2>3, <2>5, <2>6 DEF Rests, Stops
<1>4. ASSUME NEW k \in Frames, StepEnds(k)
      PROVE  Rests(k) \/ Stops(k)
  <2>1. PICK turns \in 0 .. frame[k].remaining + 1 :
            StepSucceeds(k, turns) \/ \E error \in Errors : StepFails(k, turns, error)
    BY <1>4 DEF StepEnds
  <2> DEFINE exceeded == Exceeds(k, turns)
  <2>2. CASE StepSucceeds(k, turns)
    <3>1. /\ EndStep(k, turns, IF exceeded THEN "budget_exhausted" ELSE "cancelled",
                     ~cancelled /\ ~exceeded)
          /\ StepOver(k)
      BY <2>2 DEF StepSucceeds
    <3>2. (~cancelled /\ ~exceeded) \in BOOLEAN
      OBVIOUS
    <3>3. (IF exceeded THEN "budget_exhausted" ELSE "cancelled") \in Errors \cup {"cancelled"}
      BY DEF Errors
    <3> QED
      BY <3>1, <3>2, <3>3, <1>3
  <2>3. ASSUME NEW error \in Errors, StepFails(k, turns, error)
        PROVE  Rests(k) \/ Stops(k)
    <3>1. /\ EndStep(k, turns, IF exceeded THEN "budget_exhausted" ELSE error,
                     Tolerated(k, error) /\ ~exceeded)
          /\ StepOver(k)
      BY <2>3 DEF StepFails
    <3>2. (Tolerated(k, error) /\ ~exceeded) \in BOOLEAN
      OBVIOUS
    <3>3. (IF exceeded THEN "budget_exhausted" ELSE error) \in Errors \cup {"cancelled"}
      BY DEF Errors
    <3> QED
      BY <3>1, <3>2, <3>3, <1>3
  <2> QED
    BY <2>1, <2>2, <2>3
<1>5. ASSUME NEW k \in Frames, NEW i \in Calls, NEW c \in Components, Invoke(i, k, c)
      PROVE  Asks(i, k)
  <2> DEFINE new == [IdleCall EXCEPT !.pc = "queued", !.frame = k,
                                     !.step = frame[k].step, !.callee = c]
  <2>1. new.frame = k /\ new.pc = "queued" /\ new.step = frame[k].step
    BY DEF IdleCall
  <2>2. call' = [call EXCEPT ![i] = new]
    BY <1>5 DEF Invoke
  <2> HIDE DEF new
  <2>3. call'[i] = new /\ \A j \in Calls \ {i} : call'[j] = call[j]
    BY <2>2, <1>t
  <2> QED
    BY <1>5, <2>1, <2>3 DEF Invoke, Asks, OneCallChanges
<1>a. ASSUME NEW i \in Calls, NEW result, call' = Answered(call, i, result)
      PROVE  /\ call'[i].pc = "answered" /\ call'[i].frame = call[i].frame /\ call'[i].step = call[i].step
             /\ \A j \in Calls \ {i} : call'[j] = call[j]
  BY <1>a, <1>t DEF Answered, CallType
<1>6. ASSUME NEW i \in Calls, ThrowCall(i) \/ RefuseCall(i)
      PROVE  TurnedAway(i)
  <2>1. PICK result : call' = Answered(call, i, result)
    BY <1>6 DEF ThrowCall, RefuseCall
  <2>2. call[i].pc = "queued" /\ UNCHANGED <<availableTurns, attempts, totalTurns, frame>>
    BY <1>6 DEF ThrowCall, RefuseCall, IsNext
  <2> QED
    BY <1>a, <2>1, <2>2 DEF TurnedAway, OneCallChanges
<1>7. ASSUME NEW i \in Calls, AdmitCall(i)
      PROVE  Admitted(i)
  <2> DEFINE child == attempts + 1
             turns == ChildReservation(call[i].callee)
             new == [pc |-> "between", component |-> call[i].callee,
                     ancestry |-> Caller(i).ancestry \cup {call[i].callee},
                     step |-> 0, remaining |-> turns, error |-> "none"]
             newCall == [call[i] EXCEPT !.pc = "running", !.child = child]
  <2>1. /\ IsNext(i) /\ Authorized(i) /\ ~Reenters(i) /\ attempts < MaxAttempts
        /\ attempts' = child /\ availableTurns' = availableTurns - turns
        /\ totalTurns' = totalTurns
        /\ frame' = [frame EXCEPT ![child] = new]
    BY <1>7 DEF AdmitCall
  <2>2. call' = [call EXCEPT ![i] = newCall]
    BY <1>7, <1>t DEF AdmitCall
  <2>3. child \in Frames
    BY <2>1, <1>t DEF Frames
  <2>4. /\ newCall.pc = "running" /\ newCall.child = child
        /\ newCall.frame = call[i].frame /\ newCall.step = call[i].step
    BY <1>t DEF CallType
  <2>5. /\ new.pc = "between" /\ new.component = call[i].callee
        /\ new.ancestry = Caller(i).ancestry \cup {call[i].callee}
    OBVIOUS
  <2> HIDE DEF new, newCall
  <2>6. frame'[child] = new /\ \A j \in Frames \ {child} : frame'[j] = frame[j]
    BY <2>1, <2>3, <1>t
  <2>7. call'[i] = newCall /\ \A j \in Calls \ {i} : call'[j] = call[j]
    BY <2>2, <1>t
  <2> QED
    BY <2>1, <2>4, <2>5, <2>6, <2>7 DEF Admitted, IsNext
<1>8. ASSUME NEW i \in Calls, ChildReturns(i)
      PROVE  Returns(i)
  <2>1. PICK k \in Frames : k = call[i].child
    BY <1>8, <1>t DEF ChildReturns, CallsHaveFrames
  <2> DEFINE new == [frame[k] EXCEPT !.pc = "returned", !.remaining = 0]
  <2>2. new.pc = "returned" /\ new.step = frame[k].step
    BY <1>t DEF FrameType
  <2>3. frame' = [frame EXCEPT ![k] = new]
    BY <1>8, <2>1, <1>t DEF ChildReturns
  <2> HIDE DEF new
  <2>4. frame'[k] = new /\ \A j \in Frames \ {k} : frame'[j] = frame[j]
    BY <2>3, <1>t
  <2>5. PICK result : call' = Answered(call, i, result)
    BY <1>8 DEF ChildReturns
  <2>6. call[i].pc = "running" /\ attempts' = attempts
    BY <1>8 DEF ChildReturns
  <2> QED
    BY <1>a, <2>1, <2>2, <2>4, <2>5, <2>6 DEF Returns
<1>9. CASE RootReturns \/ Cancel \/ UNCHANGED invocationVars
  BY <1>9 DEF RootReturns, Cancel, invocationVars
<1> HIDE DEF Goal
<1>10. Goal
  BY <1>1, <1>2, <1>4, <1>5, <1>6, <1>7, <1>8, <1>9 DEF InvocationNext, Goal
<1> QED
  BY <1>10 DEF Goal

LEMMA FramesStep ==
    ASSUME TypeInv, FramesInv, [InvocationNext]_invocationVars
    PROVE  FramesInv'
<1>t. /\ frame \in [Frames -> FrameType] /\ call \in [Calls -> CallType]
      /\ attempts \in 0..MaxAttempts /\ MaxAttempts \in Nat /\ 0 \in Frames
      /\ \A k \in Frames : frame[k].step \in Nat /\ k \in Int
      /\ \A i \in Calls : call[i].step \in Nat
  BY Limits DEF TypeInv, InvocationTypeOK, Frames, FrameType, CallType
<1>f. /\ \A k \in Frames : k > attempts => frame[k].pc = "unused"
      /\ \A k \in Frames :
            frame[k].pc = "step" => frame[k].step \in 1..StepCount[frame[k].component]
      /\ \A i \in Calls : /\ call[i].pc # "idle" => /\ call[i].frame \in 0..attempts
                                                    /\ call[i].step <= frame[call[i].frame].step
                          /\ call[i].pc = "running" => call[i].child \in 1..attempts
  BY DEF FramesInv, Caller
<1>s. 0..attempts \subseteq Frames
  BY <1>t DEF Frames
<1> SUFFICES /\ \A k \in Frames : k > attempts' => frame'[k].pc = "unused"
             /\ \A k \in Frames :
                  frame'[k].pc = "step" => frame'[k].step \in 1..StepCount[frame'[k].component]
             /\ \A i \in Calls : /\ call'[i].pc # "idle" => /\ call'[i].frame \in 0..attempts'
                                                            /\ call'[i].step <= frame'[call'[i].frame].step
                                 /\ call'[i].pc = "running" => call'[i].child \in 1..attempts'
  BY DEF FramesInv, Caller
<1> DEFINE Goal ==
             /\ \A k \in Frames : k > attempts' => frame'[k].pc = "unused"
             /\ \A k \in Frames :
                  frame'[k].pc = "step" => frame'[k].step \in 1..StepCount[frame'[k].component]
             /\ \A i \in Calls : /\ call'[i].pc # "idle" => /\ call'[i].frame \in 0..attempts'
                                                            /\ call'[i].step <= frame'[call'[i].frame].step
                                 /\ call'[i].pc = "running" => call'[i].child \in 1..attempts'
<1>1. ASSUME NEW k \in Frames, Starts(k) \/ Rests(k) \/ Stops(k)
      PROVE  Goal
  <2>1. /\ frame[k].pc \in {"between", "step"}
        /\ \A j \in Frames \ {k} : frame'[j] = frame[j]
        /\ frame'[k].component = frame[k].component
        /\ attempts' = attempts /\ call' = call
    BY <1>1 DEF Starts, Rests, Stops, Moves
  <2>2. ~(k > attempts)
    BY <2>1, <1>f
  <2>3. /\ frame'[k].pc = "step" => frame'[k].step \in 1..StepCount[frame[k].component]
        /\ frame'[k].step >= frame[k].step /\ frame'[k].step \in Nat
    BY <1>1, <1>t DEF Starts, Rests, Stops
  <2>4. \A j \in Frames : frame'[j].step >= frame[j].step /\ frame'[j].step \in Nat
    BY <2>1, <2>3, <1>t
  <2>5. ASSUME NEW i \in Calls, call[i].pc # "idle"
        PROVE  call[i].step <= frame'[call[i].frame].step
    <3>1. PICK j \in Frames : j = call[i].frame
      BY <2>5, <1>f, <1>s
    <3>2. call[i].step <= frame[j].step
      BY <3>1, <2>5, <1>f
    <3> QED
      BY <3>1, <3>2, <2>4, <1>t
  <2> QED
    BY <2>1, <2>2, <2>3, <2>5, <1>f
<1>2. ASSUME NEW i \in Calls, NEW k \in Frames, Asks(i, k)
      PROVE  Goal
  <2>1. k \in 0..attempts
    BY <1>2, <1>f, <1>t DEF Asks, Frames
  <2>2. call'[i].frame \in 0..attempts /\ call'[i].step = frame[call'[i].frame].step /\ call'[i].pc = "queued"
    BY <1>2, <2>1 DEF Asks
  <2>3. /\ \A j \in Calls \ {i} : call'[j] = call[j]
        /\ attempts' = attempts /\ frame' = frame
    BY <1>2 DEF Asks, OneCallChanges
  <2>4. ASSUME NEW j \in Calls, call'[j].pc # "idle"
        PROVE  /\ call'[j].frame \in 0..attempts
               /\ call'[j].step <= frame[call'[j].frame].step
               /\ call'[j].pc = "running" => call'[j].child \in 1..attempts
    <3>1. CASE j = i
      <4>1. call'[j].step \in Nat
        BY <2>2, <3>1, <1>s, <1>t
      <4> QED
        BY <2>2, <3>1, <4>1
    <3>2. CASE j # i
      BY <2>3, <2>4, <3>2, <1>f
    <3> QED
      BY <3>1, <3>2
  <2>5. \A j \in Calls : call'[j].pc = "running" => call'[j].pc # "idle"
    OBVIOUS
  <2> QED
    BY <2>3, <2>4, <2>5, <1>f
<1>3. ASSUME NEW i \in Calls, TurnedAway(i)
      PROVE  Goal
  <2>1. /\ \A j \in Calls \ {i} : call'[j] = call[j]
        /\ attempts' = attempts /\ frame' = frame
        /\ call[i].pc = "queued" /\ call'[i].pc = "answered"
        /\ call'[i].frame = call[i].frame /\ call'[i].step = call[i].step
    BY <1>3 DEF TurnedAway, OneCallChanges
  <2> QED
    BY <2>1, <1>f
<1>4. ASSUME NEW i \in Calls, Admitted(i)
      PROVE  Goal
  <2>1. PICK child \in Frames : child = attempts + 1
    BY <1>4, <1>t DEF Admitted, Frames
  <2>2. /\ \A j \in Calls \ {i} : call'[j] = call[j]
        /\ attempts' = child /\ frame'[child].pc = "between"
        /\ \A j \in Frames \ {child} : frame'[j] = frame[j]
        /\ call[i].pc = "queued" /\ call'[i].pc = "running" /\ call'[i].child = child
        /\ call'[i].frame = call[i].frame /\ call'[i].step = call[i].step
    BY <1>4, <2>1 DEF Admitted
  <2>3. \A k \in 0..attempts : k # child /\ k \in Frames /\ k \in 0..child
    BY <2>1, <1>s, <1>t
  <2>4. ASSUME NEW j \in Calls, call'[j].pc # "idle"
        PROVE  /\ call'[j].frame \in 0..child
               /\ call'[j].step <= frame'[call'[j].frame].step
               /\ call'[j].pc = "running" => call'[j].child \in 1..child
    <3>1. call[j].pc # "idle" /\ call'[j].frame = call[j].frame /\ call'[j].step = call[j].step
      BY <2>2, <2>4
    <3>2. call[j].frame \in 0..attempts /\ call[j].step <= frame[call[j].frame].step
      BY <3>1, <1>f
    <3>3. frame'[call[j].frame] = frame[call[j].frame]
      BY <3>2, <2>2, <2>3
    <3>4. call'[j].pc = "running" => call'[j].child \in 1..child
      BY <2>1, <2>2, <1>f, <1>t
    <3> QED
      BY <3>1, <3>2, <3>3, <3>4, <2>3
  <2>5. ASSUME NEW k \in Frames
        PROVE  /\ k > child => frame'[k].pc = "unused"
               /\ frame'[k].pc = "step" => frame'[k].step \in 1..StepCount[frame'[k].component]
    <3>1. CASE k = child
      BY <2>1, <2>2, <3>1, <1>t
    <3>2. CASE k # child
      BY <2>1, <2>2, <3>2, <1>t, <1>f
    <3> QED
      BY <3>1, <3>2
  <2>6. \A j \in Calls : call'[j].pc = "running" => call'[j].pc # "idle"
    OBVIOUS
  <2> QED
    BY <2>2, <2>4, <2>5, <2>6
<1>5. ASSUME NEW i \in Calls, Returns(i)
      PROVE  Goal
  <2>1. PICK k \in Frames : k = call[i].child /\ k \in 1..attempts
    BY <1>5, <1>f, <1>s DEF Returns
  <2>2. /\ \A j \in Calls \ {i} : call'[j] = call[j]
        /\ attempts' = attempts /\ frame'[k].pc = "returned" /\ frame'[k].step = frame[k].step
        /\ \A j \in Frames \ {k} : frame'[j] = frame[j]
        /\ call[i].pc = "running" /\ call'[i].pc = "answered"
        /\ call'[i].frame = call[i].frame /\ call'[i].step = call[i].step
    BY <1>5, <2>1 DEF Returns
  <2>3. \A j \in Frames : frame'[j].step = frame[j].step
    BY <2>2
  <2>4. ~(k > attempts)
    BY <2>1, <1>t
  <2>5. ASSUME NEW j \in Calls, call'[j].pc # "idle"
        PROVE  /\ call'[j].frame \in 0..attempts'
               /\ call'[j].step <= frame'[call'[j].frame].step
               /\ call'[j].pc = "running" => call'[j].child \in 1..attempts'
    <3>1. call[j].pc # "idle" /\ call'[j].frame = call[j].frame /\ call'[j].step = call[j].step
      BY <2>2, <2>5
    <3>2. call[j].frame \in 0..attempts /\ call[j].step <= frame[call[j].frame].step
      BY <3>1, <1>f
    <3>3. frame'[call[j].frame].step = frame[call[j].frame].step
      BY <3>2, <2>3, <1>s
    <3> QED
      BY <3>1, <3>2, <3>3, <2>2, <1>f
  <2>6. \A j \in Calls : call'[j].pc = "running" => call'[j].pc # "idle"
    OBVIOUS
  <2>7. ASSUME NEW j \in Frames
        PROVE  /\ j > attempts' => frame'[j].pc = "unused"
               /\ frame'[j].pc = "step" => frame'[j].step \in 1..StepCount[frame'[j].component]
    BY <2>2, <2>4, <1>f
  <2> QED
    BY <2>5, <2>6, <2>7
<1>6. ASSUME UNCHANGED <<availableTurns, attempts, totalTurns, frame, call>>
      PROVE  Goal
  BY <1>6, <1>f
<1> HIDE DEF Goal
<1>7. Goal
  BY <1>1, <1>2, <1>3, <1>4, <1>5, <1>6, ChainSteps
<1> QED
  BY <1>7 DEF Goal

\* Only finitely many calls have been made.
Made == {i \in Calls : call[i].pc # "idle"}

LEMMA MadeStep ==
    ASSUME TypeInv, IsFiniteSet(Made), [InvocationNext]_invocationVars
    PROVE  IsFiniteSet(Made')
<1>1. ASSUME NEW i \in Calls, Made' \subseteq Made \cup {i}
      PROVE  IsFiniteSet(Made')
  <2>1. IsFiniteSet(Made \cup {i})
    BY FS_AddElement
  <2> QED
    BY <1>1, <2>1, FS_Subset
<1>2. ASSUME NEW i \in Calls, \A j \in Calls \ {i} : call'[j] = call[j]
      PROVE  Made' \subseteq Made \cup {i}
  BY <1>2 DEF Made
<1>3. ASSUME UNCHANGED call
      PROVE  IsFiniteSet(Made')
  <2>1. Made' = Made
    BY <1>3 DEF Made
  <2> QED
    BY <2>1
<1> QED
  BY <1>1, <1>2, <1>3, ChainSteps
  DEF Starts, Rests, Stops, Moves, Asks, TurnedAway, OneCallChanges, Admitted, Returns

\* A run whose executions are all under way, with no turn spent and no call left
\* from an earlier step.
Untouched ==
    /\ totalTurns = 0
    /\ \A k \in 0..attempts : frame[k].pc \in {"between", "step"}
    /\ \A i \in Calls : call[i].pc # "idle" => Caller(i).step = call[i].step

\* Its frames are one chain: each was called by the one before, and has one
\* ancestor more.
OneChain ==
    /\ \A k \in 1..attempts :
          \E i \in Calls : call[i].pc = "running" /\ call[i].child = k /\ call[i].frame = k - 1
    /\ \A k \in 0..attempts : Cardinality(frame[k].ancestry) = k + 1

\* And what is available funds the rest of it: the root's step holds a turn for
\* every call below it, and so does every call that is admitted.  A chain of n
\* calls has n + 1 different components, so that many levels of ChainBelow are left.
Funded ==
    /\ attempts = 0 =>
          /\ availableTurns + frame[0].remaining = MaxTurns
          /\ frame[0].pc = "step" =>
                availableTurns = HeldForDescendants(MaxTurns, DescendantDepthForStep(Root, frame[0].step))
    /\ (/\ attempts > 0
        /\ \A k \in 0 .. attempts - 1 : frame[k].pc = "step"
        /\ MaxTurns > DescendantDepthForStep(Root, frame[0].step))
       => availableTurns >= ChainBelow[Levels - attempts + 1][frame[attempts].component]

ChainInv == Untouched => OneChain /\ Funded

\* Nothing that has been touched becomes untouched again.
LEMMA UntouchedBefore ==
    ASSUME TypeInv, FramesInv, [InvocationNext]_invocationVars, Untouched'
    PROVE  /\ Untouched
           /\ \A k \in Frames : ~Stops(k)
           /\ \A i \in Calls : ~Returns(i)
<1>t. /\ attempts \in 0..MaxAttempts /\ MaxAttempts \in Nat /\ totalTurns \in Nat
      /\ 0..attempts \subseteq Frames
      /\ \A k \in Frames : frame[k].step \in Nat /\ k \in Nat
      /\ \A i \in Calls : call[i].step \in Nat
  BY Limits DEF TypeInv, InvocationTypeOK, Frames, FrameType, CallType
<1>f. /\ \A k \in Frames : k > attempts => frame[k].pc = "unused"
      /\ \A i \in Calls : /\ call[i].pc # "idle" => /\ call[i].frame \in 0..attempts
                                                    /\ call[i].step <= frame[call[i].frame].step
                          /\ call[i].pc = "running" => call[i].child \in 1..attempts
  BY DEF FramesInv, Caller
<1>u. /\ totalTurns' = 0
      /\ \A k \in 0..attempts' : frame'[k].pc \in {"between", "step"}
      /\ \A i \in Calls : call'[i].pc # "idle" => frame'[call'[i].frame].step = call'[i].step
  BY DEF Untouched, Caller
<1>1. ASSUME NEW k \in Frames, Stops(k)
      PROVE  FALSE
  <2>1. k \in 0..attempts /\ attempts' = attempts
    BY <1>1, <1>f, <1>t DEF Stops, Moves
  <2> QED
    BY <1>1, <1>u, <2>1 DEF Stops
<1>2. ASSUME NEW i \in Calls, Returns(i)
      PROVE  FALSE
  <2>1. call[i].child \in 0..attempts /\ attempts' = attempts
    BY <1>2, <1>f, <1>t DEF Returns
  <2> QED
    BY <1>2, <1>u, <2>1 DEF Returns
<1>3. ASSUME NEW k \in Frames, Starts(k) \/ Rests(k)
      PROVE  Untouched
  <2>1. /\ \A j \in Frames \ {k} : frame'[j] = frame[j]
        /\ attempts' = attempts /\ call' = call /\ frame[k].pc \in {"between", "step"}
    BY <1>3 DEF Starts, Rests, Moves
  <2>2. totalTurns = 0
    BY <1>3, <1>u, <1>t DEF Starts, Rests
  <2>3. ASSUME NEW i \in Calls, call[i].pc # "idle"
        PROVE  frame[call[i].frame].step = call[i].step
    <3>1. PICK j \in Frames : j = call[i].frame
      BY <2>3, <1>f, <1>t
    <3>2. call[i].step <= frame[j].step /\ frame'[j].step = call[i].step
      BY <3>1, <2>1, <2>3, <1>f, <1>u
    <3>3. frame'[j].step = frame[j].step \/ frame'[j].step > frame[j].step
      BY <1>3, <2>1 DEF Starts, Rests
    <3> QED
      BY <3>1, <3>2, <3>3, <1>t
  <2>4. \A j \in 0..attempts : frame[j].pc \in {"between", "step"}
    BY <2>1, <1>u, <1>t
  <2> QED
    BY <2>2, <2>3, <2>4 DEF Untouched, Caller
<1>4. ASSUME NEW i \in Calls, OneCallChanges(i),
             call[i].pc = "idle" \/ (/\ call'[i].frame = call[i].frame
                                     /\ call'[i].step = call[i].step
                                     /\ call'[i].pc # "idle")
      PROVE  Untouched
  BY <1>4, <1>u DEF Untouched, Caller, OneCallChanges
<1>5. ASSUME NEW i \in Calls, Admitted(i)
      PROVE  Untouched
  <2>1. /\ \A j \in Calls \ {i} : call'[j] = call[j]
        /\ attempts' = attempts + 1 /\ totalTurns' = totalTurns
        /\ \A j \in Frames \ {attempts + 1} : frame'[j] = frame[j]
        /\ call[i].pc = "queued" /\ call'[i].pc = "running"
        /\ call'[i].frame = call[i].frame /\ call'[i].step = call[i].step
    BY <1>5 DEF Admitted
  <2>2. \A j \in 0..attempts : frame'[j] = frame[j] /\ j \in 0..attempts'
    BY <2>1, <1>t
  <2>3. ASSUME NEW j \in Calls, call[j].pc # "idle"
        PROVE  frame[call[j].frame].step = call[j].step
    <3>1. call'[j].pc # "idle" /\ call'[j].frame = call[j].frame /\ call'[j].step = call[j].step
      BY <2>1, <2>3
    <3>2. frame'[call[j].frame] = frame[call[j].frame]
      BY <2>2, <2>3, <1>f
    <3> QED
      BY <3>1, <3>2, <1>u
  <2> QED
    BY <2>1, <2>2, <2>3, <1>u DEF Untouched, Caller
<1>6. ASSUME UNCHANGED <<availableTurns, attempts, totalTurns, frame, call>>
      PROVE  Untouched
  BY <1>6, <1>u DEF Untouched, Caller
<1>7. Untouched
  <2>1. ASSUME NEW i \in Calls, TurnedAway(i) PROVE Untouched
    BY <1>4, <2>1 DEF TurnedAway
  <2>2. ASSUME NEW i \in Calls, NEW k \in Frames, Asks(i, k) PROVE Untouched
    BY <1>4, <2>2 DEF Asks
  <2> QED
    BY <1>1, <1>2, <1>3, <1>5, <1>6, <2>1, <2>2, ChainSteps
<1> QED
  BY <1>1, <1>2, <1>7

\* Only the last frame of the chain is without a running call of its own.
LEMMA OnlyTheLastIsFree ==
    ASSUME FramesInv, OneChain, NEW k \in 0..attempts,
           attempts \in Nat,
           ~\E i \in Calls : call[i].pc = "running" /\ call[i].frame = k
    PROVE  k = attempts
<1>1. CASE k < attempts
  <2>1. PICK n \in 1..attempts : n - 1 = k
    <3>1. k + 1 \in 1..attempts /\ k + 1 - 1 = k
      BY <1>1
    <3> QED
      BY <3>1
  <2>2. PICK i \in Calls : call[i].pc = "running" /\ call[i].frame = n - 1
    BY DEF OneChain
  <2> QED
    BY <2>1, <2>2
<1> QED
  BY <1>1

\* What a call from the last frame of a funded chain finds, while no frame before has
\* ended its step.
LEMMA FundedCallee ==
    ASSUME TypeInv, FramesInv, Untouched, OneChain, Funded,
           \A k \in 0..attempts : frame[k].pc = "step",
           MaxTurns > DescendantDepthForStep(Root, frame[0].step),
           NEW i \in Calls, call[i].pc = "queued", call[i].frame = attempts, Authorized(i)
    PROVE  /\ Levels - attempts \in Nat
           /\ availableTurns >= 1 + ChainBelow[Levels - attempts][call[i].callee]
<1>t. /\ attempts \in 0..MaxAttempts /\ MaxAttempts \in Nat /\ MaxTurns \in Nat
      /\ availableTurns \in Nat /\ frame[0].component = Root /\ Root \in Components
      /\ attempts \in Frames /\ 0 \in Frames /\ frame \in [Frames -> FrameType]
  BY Limits DEF TypeInv, InvocationTypeOK, Frames
<1> DEFINE last == frame[attempts].component
           callee == call[i].callee
<1>1. /\ callee \in Callees(last, frame[attempts].step) /\ callee \in Components
      /\ frame[attempts].step \in 1..StepCount[last] /\ last \in Components
  <2>1. callee \in Callees(last, call[i].step) /\ call[i].step = frame[attempts].step
    BY DEF Authorized, Caller, Untouched
  <2>2. attempts \in 0..attempts
    BY <1>t
  <2>3. frame[attempts].step \in 1..StepCount[last]
    BY <1>t, <2>2 DEF FramesInv
  <2> QED
    BY <1>t, <2>1, <2>3 DEF Callees, FrameType
<1>2. callee \in CalleesOf(last)
  BY <1>1 DEF CalleesOf
<1>3. Levels - attempts \in Nat /\ Levels \in Nat
  <2>1. frame[attempts].ancestry \subseteq Components
    BY <1>t DEF FrameType
  <2>2. Cardinality(frame[attempts].ancestry) <= Levels
    BY <2>1, FS_Subset, InvocationAssumption DEF Levels
  <2>3. Cardinality(frame[attempts].ancestry) = attempts + 1
    BY <1>t DEF OneChain
  <2> QED
    BY <2>2, <2>3, <1>t, LevelsType
<1>4. CASE attempts = 0
  <2>1. availableTurns = HeldForDescendants(MaxTurns, DescendantDepthForStep(Root, frame[0].step))
    BY <1>4 DEF Funded
  <2> DEFINE depth == DescendantDepthForStep(Root, frame[0].step)
  <2>2. depth \in Nat /\ depth >= 1 + MaxDescendantDepth(callee)
    BY <1>1, <1>4, <1>t, Depths
  <2>3. MaxTurns >= depth + 1
    BY <2>2, <1>t
  <2> HIDE DEF depth
  <2>4. HeldForDescendants(MaxTurns, depth) >= depth
    BY <2>2, <2>3, <1>t, HeldFundsTheChain
  <2>5. availableTurns >= depth
    BY <2>1, <2>4 DEF depth
  <2>6. MaxDescendantDepth(callee) = ChainBelow[Levels][callee] /\ MaxDescendantDepth(callee) \in Nat
    BY <1>1, Depths
  <2>7. Levels - attempts = Levels
    BY <1>3, <1>4
  <2> HIDE DEF callee
  <2>8. availableTurns >= 1 + ChainBelow[Levels][callee]
    BY <2>2, <2>5, <2>6, <1>t
  <2> QED
    BY <1>3, <2>7, <2>8 DEF callee
<1>5. CASE attempts # 0
  <2>1. availableTurns >= ChainBelow[Levels - attempts + 1][last]
    <3>1. attempts > 0 /\ \A k \in 0 .. attempts - 1 : frame[k].pc = "step"
      BY <1>5, <1>t
    <3> QED
      BY <3>1 DEF Funded
  <2>2. PICK n \in Nat : n = Levels - attempts
    BY <1>3
  <2>3. ChainBelow[n + 1][last] >= 1 + ChainBelow[n][callee]
    BY <1>1, <1>2, CallLengthensChain
  <2>4. ChainBelow[n + 1][last] \in Nat /\ ChainBelow[n][callee] \in Nat
    <3>1. ChainBelow[n + 1] \in [Components -> 0 .. n + 1] /\ ChainBelow[n] \in [Components -> 0..n]
      BY ChainIsBounded
    <3> QED
      BY <3>1, <1>1
  <2>5. availableTurns >= ChainBelow[n + 1][last]
    BY <2>1, <2>2
  <2> HIDE DEF last, callee
  <2>6. availableTurns >= 1 + ChainBelow[n][callee]
    BY <2>3, <2>4, <2>5, <1>t
  <2> QED
    BY <1>3, <2>2, <2>6 DEF callee
<1> QED
  BY <1>4, <1>5

LEMMA ChainStep ==
    ASSUME TypeInv, FirstInLine, HeldIsInUse, FramesInv, ChainInv, [InvocationNext]_invocationVars
    PROVE  ChainInv'
<1>t. /\ attempts \in 0..MaxAttempts /\ MaxAttempts \in Nat /\ attempts \in Nat
      /\ MaxTurns \in Nat /\ availableTurns \in Nat /\ totalTurns \in Nat
      /\ frame[0].component = Root /\ Root \in Components
      /\ 0..attempts \subseteq Frames /\ frame \in [Frames -> FrameType]
      /\ 0 \in Frames /\ \A k \in Frames : k \in Nat /\ frame[k].remaining \in Nat
  BY Limits DEF TypeInv, InvocationTypeOK, Frames, FrameType
<1> SUFFICES ASSUME Untouched'
             PROVE  OneChain' /\ Funded'
  BY DEF ChainInv
<1>u. /\ Untouched /\ OneChain /\ Funded
      /\ \A k \in Frames : ~Stops(k)
      /\ \A i \in Calls : ~Returns(i)
  BY UntouchedBefore DEF ChainInv
<1>p. /\ \A k \in 1..attempts :
            \E i \in Calls : call[i].pc = "running" /\ call[i].child = k /\ call[i].frame = k - 1
      /\ \A k \in 0..attempts : Cardinality(frame[k].ancestry) = k + 1
  BY <1>u DEF OneChain
<1>v. /\ totalTurns' = 0
      /\ \A i \in Calls : call'[i].pc # "idle" => frame'[call'[i].frame].step = call'[i].step
  BY DEF Untouched, Caller
<1>m. ASSUME NEW k \in Frames, Moves(k)
      PROVE  OneChain' /\ k \in 0..attempts
  <2>1. /\ \A j \in Frames : frame'[j].ancestry = frame[j].ancestry
        /\ attempts' = attempts /\ call' = call
    BY <1>m DEF Moves
  <2>2. k \in 0..attempts
    BY <1>m, <1>t DEF Moves, FramesInv
  <2> QED
    BY <2>1, <2>2, <1>p, <1>t DEF OneChain
<1>1. ASSUME NEW k \in Frames, Starts(k)
      PROVE  OneChain' /\ Funded'
  <2>1. Moves(k) /\ OneChain' /\ k \in 0..attempts
    BY <1>1, <1>m DEF Starts
  <2>2. /\ \A j \in Frames \ {k} : frame'[j] = frame[j]
        /\ attempts' = attempts /\ call' = call /\ frame'[k].component = frame[k].component
    BY <2>1 DEF Moves
  <2>3. k = attempts
    <3>1. ASSUME NEW i \in Calls, call[i].pc = "running", call[i].frame = k
          PROVE  FALSE
      <4>1. frame'[k].step = call[i].step
        BY <3>1, <2>2, <1>v
      <4>2. call[i].step <= frame[k].step /\ call[i].step \in Nat /\ frame[k].step \in Nat
        BY <3>1, <1>t DEF FramesInv, Caller, TypeInv, InvocationTypeOK, CallType, FrameType
      <4> QED
        BY <4>1, <4>2, <1>1 DEF Starts
    <3> QED
      BY <2>1, <3>1, <1>t, <1>u, OnlyTheLastIsFree
  <2>4. CASE k = 0
    <3>1. PICK turns \in 0..availableTurns :
              /\ turns = RootReservation(frame'[0].step)
              /\ availableTurns' = availableTurns - turns /\ frame'[0].remaining = turns
      BY <1>1, <2>4 DEF Starts
    <3>2. availableTurns = MaxTurns
      <4>1. frame[0].remaining = 0
        BY <1>1, <2>4 DEF Starts, HeldIsInUse
      <4>2. availableTurns + frame[0].remaining = MaxTurns
        BY <2>3, <2>4, <1>u DEF Funded
      <4> QED
        BY <4>1, <4>2, <1>t
    <3>3. PICK held \in Nat : held = HeldForDescendants(MaxTurns, DescendantDepthForStep(Root, frame'[0].step))
                              /\ held <= MaxTurns
      <4>1. DescendantDepthForStep(Root, frame'[0].step) \in Nat
        BY <1>t, Depths
      <4>2. HeldForDescendants(MaxTurns, DescendantDepthForStep(Root, frame'[0].step)) \in 0..MaxTurns
        BY <4>1, <1>t, HeldIsAvailable
      <4> QED
        BY <4>2, <1>t
    <3>4. turns = MaxTurns - held
      BY <3>1, <3>2, <3>3 DEF RootReservation
    <3>5. availableTurns' + frame'[0].remaining = MaxTurns /\ availableTurns' = held
      BY <3>1, <3>2, <3>3, <3>4, <1>t
    <3>6. attempts' = 0
      BY <2>2, <2>3, <2>4
    <3> QED
      BY <2>1, <3>3, <3>5, <3>6 DEF Funded
  <2>5. CASE k # 0
    <3>1. availableTurns' = availableTurns /\ attempts' = attempts /\ attempts > 0
      BY <1>1, <2>2, <2>3, <2>5, <1>t DEF Starts
    <3>2. \A j \in 0 .. attempts - 1 : frame'[j] = frame[j]
      BY <2>2, <2>3, <1>t
    <3>3. frame'[0] = frame[0]
      BY <2>2, <2>5, <1>t
    <3>4. frame'[attempts].component = frame[attempts].component
      BY <2>2, <2>3
    <3> QED
      BY <2>1, <3>1, <3>2, <3>3, <3>4, <1>u, <1>t DEF Funded
  <2> QED
    BY <2>4, <2>5
<1>2. ASSUME NEW k \in Frames, Rests(k)
      PROVE  OneChain' /\ Funded'
  <2>1. Moves(k) /\ OneChain' /\ k \in 0..attempts
    BY <1>2, <1>m DEF Rests
  <2>2. /\ \A j \in Frames \ {k} : frame'[j] = frame[j]
        /\ attempts' = attempts /\ frame'[k].component = frame[k].component
        /\ frame'[k].pc = "between"
    BY <1>2, <2>1 DEF Moves, Rests
  <2>3. PICK turns \in Nat :
            /\ totalTurns' = totalTurns + turns
            /\ availableTurns' = AvailableAfter(k, turns)
            /\ frame'[k].remaining = IF k = 0 THEN 0 ELSE Left(k, turns)
    BY <1>2 DEF Rests
  <2>4. turns = 0
    BY <2>3, <1>v, <1>t
  <2>5. Left(k, turns) = frame[k].remaining
    BY <2>4, <1>t DEF Left
  <2>6. CASE attempts = 0
    <3>1. k = 0
      BY <2>1, <2>6
    <3>2. availableTurns' = availableTurns + frame[0].remaining /\ frame'[0].remaining = 0
      BY <2>3, <2>5, <3>1 DEF AvailableAfter
    <3>3. availableTurns + frame[0].remaining = MaxTurns
      BY <2>6, <1>u DEF Funded
    <3>4. frame'[0].pc # "step" /\ attempts' = 0 /\ availableTurns' + frame'[0].remaining = MaxTurns
      BY <2>2, <2>6, <3>1, <3>2, <3>3, <1>t
    <3> QED
      BY <2>1, <3>4 DEF Funded
  <2>7. CASE attempts # 0 /\ k = attempts
    <3>1. availableTurns' = availableTurns /\ attempts' = attempts
      BY <2>2, <2>3, <2>7 DEF AvailableAfter
    <3>2. \A j \in 0 .. attempts - 1 : frame'[j] = frame[j]
      BY <2>2, <2>7, <1>t
    <3>3. frame'[0] = frame[0]
      BY <2>2, <2>7, <1>t
    <3>4. frame'[attempts].component = frame[attempts].component
      BY <2>2, <2>7
    <3> QED
      BY <2>1, <2>7, <3>1, <3>2, <3>3, <3>4, <1>u, <1>t DEF Funded
  <2>8. CASE attempts # 0 /\ k # attempts
    <3>1. k \in 0 .. attempts - 1 /\ frame'[k].pc # "step" /\ attempts' = attempts
      BY <2>1, <2>2, <2>8, <1>t
    <3> QED
      BY <2>1, <2>8, <3>1 DEF Funded
  <2> QED
    BY <2>6, <2>7, <2>8
<1>3. ASSUME NEW i \in Calls, OneCallChanges(i), call[i].pc # "running"
      PROVE  OneChain' /\ Funded'
  <2>1. /\ \A j \in Calls \ {i} : call'[j] = call[j]
        /\ availableTurns' = availableTurns /\ attempts' = attempts /\ frame' = frame
    BY <1>3 DEF OneCallChanges
  <2>2. \A j \in Calls : call[j].pc = "running" => call'[j] = call[j]
    BY <1>3, <2>1
  <2>3. OneChain'
    BY <2>1, <2>2, <1>p DEF OneChain
  <2>4. Funded'
    BY <2>1, <1>u DEF Funded
  <2> QED
    BY <2>3, <2>4
<1>4. ASSUME NEW i \in Calls, Admitted(i)
      PROVE  OneChain' /\ Funded'
  <2>1. PICK child \in Frames : child = attempts + 1
    BY <1>4, <1>t DEF Admitted, Frames
  <2> DEFINE callee == call[i].callee
  <2>2. /\ \A j \in Calls \ {i} : call'[j] = call[j]
        /\ attempts' = child
        /\ availableTurns' = availableTurns - ChildReservation(callee)
        /\ \A j \in Frames \ {child} : frame'[j] = frame[j]
        /\ frame'[child].component = callee
        /\ frame'[child].ancestry = frame[call[i].frame].ancestry \cup {callee}
        /\ call[i].pc = "queued" /\ call'[i].pc = "running" /\ call'[i].child = child
        /\ call'[i].frame = call[i].frame
        /\ callee \notin frame[call[i].frame].ancestry
        /\ Authorized(i) /\ Head(queue[call[i].frame]) = i
    BY <1>4, <2>1 DEF Admitted, Caller, Reenters, IsNext
  <2>3. call[i].frame = attempts
    <3>1. call[i].frame \in 0..attempts
      BY <2>2 DEF FramesInv
    <3>2. ASSUME NEW j \in Calls, call[j].pc = "running", call[j].frame = call[i].frame
          PROVE  FALSE
      BY <3>2, <2>2 DEF FirstInLine
    <3> QED
      BY <3>1, <3>2, <1>t, <1>u, OnlyTheLastIsFree
  <2>4. \A j \in 0..attempts : frame'[j] = frame[j] /\ j # child
    BY <2>1, <2>2, <1>t
  <2>5. OneChain'
    <3>1. ASSUME NEW k \in 1..child
          PROVE  \E j \in Calls : call'[j].pc = "running" /\ call'[j].child = k /\ call'[j].frame = k - 1
      <4>1. CASE k = child
        <5>1. k - 1 = attempts
          BY <2>1, <4>1, <1>t
        <5> QED
          BY <2>2, <2>3, <4>1, <5>1
      <4>2. CASE k # child
        <5>1. k \in 1..attempts
          BY <2>1, <4>2, <1>t
        <5>2. PICK j \in Calls : call[j].pc = "running" /\ call[j].child = k /\ call[j].frame = k - 1
          BY <5>1, <1>p
        <5> QED
          BY <5>2, <2>2
      <4> QED
        BY <4>1, <4>2
    <3>2. Cardinality(frame'[child].ancestry) = child + 1
      <4> DEFINE above == frame[attempts].ancestry
      <4>1. above \subseteq Components
        BY <1>t DEF FrameType
      <4>2. IsFiniteSet(above)
        BY <4>1, FS_Subset, InvocationAssumption
      <4>3. Cardinality(above) = attempts + 1
        BY <1>p, <1>t
      <4>4. callee \notin above /\ frame'[child].ancestry = above \cup {callee}
        BY <2>2, <2>3
      <4> HIDE DEF above, callee
      <4>5. Cardinality(above \cup {callee}) = Cardinality(above) + 1
        BY <4>2, <4>4, FS_AddElement
      <4> QED
        BY <4>3, <4>4, <4>5, <2>1
    <3>3. ASSUME NEW k \in 0..child
          PROVE  Cardinality(frame'[k].ancestry) = k + 1
      <4>1. CASE k = child
        BY <3>2, <4>1
      <4>2. CASE k # child
        <5>1. k \in 0..attempts
          BY <2>1, <4>2, <1>t
        <5> QED
          BY <5>1, <2>4, <1>p
      <4> QED
        BY <4>1, <4>2
    <3> QED
      BY <3>1, <3>3, <2>2 DEF OneChain
  <2>6. Funded'
    <3> SUFFICES ASSUME \A k \in 0 .. child - 1 : frame'[k].pc = "step",
                        MaxTurns > DescendantDepthForStep(Root, frame'[0].step)
                 PROVE  availableTurns' >= ChainBelow[Levels - child + 1][callee]
      <4>1. child # 0
        BY <2>1, <1>t
      <4> HIDE DEF callee
      <4> QED
        BY <4>1, <2>2 DEF Funded
    <3>1. \A k \in 0..attempts : frame[k].pc = "step"
      <4>1. \A k \in 0..attempts : k \in 0 .. child - 1
        BY <2>1, <1>t
      <4> QED
        BY <4>1, <2>4
    <3>2. MaxTurns > DescendantDepthForStep(Root, frame[0].step)
      <4>1. frame'[0] = frame[0]
        BY <2>4, <1>t
      <4> QED
        BY <4>1
    <3>3. Levels - attempts \in Nat /\ availableTurns >= 1 + ChainBelow[Levels - attempts][callee]
      BY <3>1, <3>2, <2>2, <2>3, <1>u, FundedCallee
    <3>4. PICK n \in 0..Levels : n = Levels - attempts
      BY <3>3, <1>t, LevelsType
    <3>5. Levels - child + 1 = n
      BY <2>1, <3>4, <1>t, LevelsType
    <3>6. callee \in Components
      BY DEF TypeInv, InvocationTypeOK, CallType
    <3>7. PICK least \in 0..MaxDescendantDepth(callee) : least = ChainBelow[n][callee]
      <4>1. ChainBelow[n][callee] <= ChainBelow[Levels][callee]
        BY <3>4, <3>6, LevelsType, ChainIsLongest
      <4>2. ChainBelow[n] \in [Components -> 0..n]
        BY <3>4, LevelsType, ChainIsBounded
      <4>3. MaxDescendantDepth(callee) = ChainBelow[Levels][callee] /\ MaxDescendantDepth(callee) \in Nat
        BY <3>6, Depths
      <4> QED
        BY <4>1, <4>2, <4>3, <3>6
    <3>8. availableTurns >= least + 1
      <4>1. least \in Nat
        BY <3>6, Depths
      <4> HIDE DEF callee
      <4> QED
        BY <4>1, <3>3, <3>4, <3>7, <1>t
    <3>9. availableTurns - ChildReservation(callee) >= least
      BY <3>6, <3>8, <1>t, AdmissionFundsTheChain
    <3> HIDE DEF callee
    <3> QED
      BY <2>2, <3>5, <3>7, <3>9
  <2> QED
    BY <2>5, <2>6
<1>5. ASSUME UNCHANGED <<availableTurns, attempts, totalTurns, frame, call>>
      PROVE  OneChain' /\ Funded'
  BY <1>5, <1>u DEF OneChain, Funded
<1>6. ASSUME NEW i \in Calls, TurnedAway(i)
      PROVE  OneChain' /\ Funded'
  BY <1>3, <1>6 DEF TurnedAway
<1>7. ASSUME NEW i \in Calls, NEW k \in Frames, Asks(i, k)
      PROVE  OneChain' /\ Funded'
  BY <1>3, <1>7 DEF Asks
<1> QED
  BY <1>1, <1>2, <1>4, <1>5, <1>6, <1>7, <1>u, ChainSteps

\* The invariant the chain rests on, from the first state on.
LEMMA ChainInvariant ==
    InvocationSpec => [](TypeInv /\ FramesInv /\ IsFiniteSet(Made) /\ ChainInv)
<1>1. InvocationInit => HeldIsInUse /\ FramesInv /\ IsFiniteSet(Made) /\ ChainInv
  <2> SUFFICES ASSUME InvocationInit
               PROVE  HeldIsInUse /\ FramesInv /\ IsFiniteSet(Made) /\ ChainInv
    OBVIOUS
  <2>1. /\ attempts = 0 /\ availableTurns = MaxTurns /\ 0 \in Frames
        /\ \A i \in Calls : call[i].pc = "idle"
        /\ \A k \in Frames : /\ frame[k].remaining = 0 /\ frame[k].pc # "step"
                             /\ k # 0 => frame[k].pc = "unused"
        /\ frame[0].ancestry = {Root}
    <3>1. 0 \in Frames
      BY Limits DEF Frames
    <3>2. UnusedFrame.pc = "unused" /\ UnusedFrame.remaining = 0
      BY DEF UnusedFrame
    <3>3. frame[0] = [UnusedFrame EXCEPT !.pc = "between", !.ancestry = {Root}]
      BY <3>1 DEF InvocationInit
    <3>4. frame[0].pc = "between" /\ frame[0].remaining = 0 /\ frame[0].ancestry = {Root}
      BY <3>3 DEF UnusedFrame
    <3>5. \A k \in Frames : k # 0 => frame[k] = UnusedFrame
      BY DEF InvocationInit
    <3>6. attempts = 0 /\ availableTurns = MaxTurns /\ \A i \in Calls : call[i].pc = "idle"
      BY DEF InvocationInit, IdleCall
    <3> QED
      BY <3>1, <3>2, <3>4, <3>5, <3>6
  <2>2. HeldIsInUse
    BY <2>1 DEF HeldIsInUse
  <2>3. FramesInv
    BY <2>1 DEF FramesInv
  <2>4. Made = {}
    BY <2>1 DEF Made
  <2>5. OneChain
    <3>1. Cardinality({Root}) = 1
      BY FS_Singleton
    <3>2. \A k \in 0..attempts : k = 0 /\ frame[k].ancestry = {Root}
      BY <2>1
    <3>3. \A k \in 0..attempts : Cardinality(frame[k].ancestry) = k + 1
      <4> SUFFICES ASSUME NEW k \in 0..attempts
                   PROVE  Cardinality(frame[k].ancestry) = k + 1
        OBVIOUS
      <4>1. k = 0 /\ Cardinality(frame[k].ancestry) = 1
        BY <3>1, <3>2
      <4> QED
        BY <4>1
    <3>4. 1..attempts = {}
      BY <2>1
    <3> QED
      BY <3>3, <3>4 DEF OneChain
  <2>6. Funded
    BY <2>1, Limits DEF Funded
  <2> QED
    BY <2>2, <2>3, <2>4, <2>5, <2>6, FS_EmptySet DEF ChainInv
<1>2. /\ TypeInv /\ FirstInLine /\ HeldIsInUse /\ FramesInv /\ IsFiniteSet(Made) /\ ChainInv
      /\ [InvocationNext]_invocationVars
      => HeldIsInUse' /\ FramesInv' /\ IsFiniteSet(Made)' /\ ChainInv'
  BY LedgerStep, FramesStep, MadeStep, ChainStep
<1> QED
  BY <1>1, <1>2, InvocationInvariant, PTL DEF InvocationSpec

\* "Reserve an active root SDK query before its synchronous child handlers may be
\* admitted" (componentInvocation.ts): whatever the call graph and the limits, a
\* step of the root that has a turn for each call of the longest chain below it
\* keeps back enough for the first such chain, down to its last call, although every
\* call on the way is given all that is not kept back for the calls below it.
THEOREM TheFirstChainIsFunded == InvocationSpec => []FirstChainIsFunded
<1>1. ASSUME TypeInv, FramesInv, IsFiniteSet(Made), ChainInv
      PROVE  FirstChainIsFunded
  <2> SUFFICES ASSUME totalTurns = 0,
                      MaxTurns > DescendantDepthForStep(Root, frame[0].step),
                      \A k \in 0..attempts : frame[k].pc = "step" /\ Cardinality(Open(k)) <= 1,
                      \A i \in Calls : call[i].pc # "idle" => Caller(i).step = call[i].step,
                      NEW i \in Calls, call[i].pc = "queued", Authorized(i)
               PROVE  ChildReservation(call[i].callee) >= 1
    BY DEF FirstChainIsFunded
  <2>t. attempts \in Nat /\ availableTurns \in Nat /\ call[i].callee \in Components
    BY <1>1, Limits DEF TypeInv, InvocationTypeOK, CallType
  <2>1. Untouched
    BY DEF Untouched
  <2>2. OneChain /\ Funded
    BY <1>1, <2>1 DEF ChainInv
  <2>3. PICK k \in 0..attempts : k = call[i].frame
    BY <1>1 DEF FramesInv
  <2>4. ASSUME NEW j \in Calls, call[j].pc = "running", call[j].frame = k
        PROVE  FALSE
    <3>1. i \in Open(k) /\ j \in Open(k) /\ i # j
      BY <2>3, <2>4 DEF Open
    <3>2. IsFiniteSet(Open(k))
      <4>1. Open(k) \subseteq Made
        BY DEF Open, Made
      <4> QED
        BY <1>1, <4>1, FS_Subset
    <3>3. Cardinality({i, j}) <= Cardinality(Open(k)) /\ Cardinality(Open(k)) \in Nat
      <4>1. {i, j} \subseteq Open(k)
        BY <3>1
      <4> QED
        BY <3>2, <4>1, FS_Subset, FS_CardinalityType
    <3>4. Cardinality({i, j}) = 2
      <4>1. Cardinality({i}) = 1 /\ IsFiniteSet({i}) /\ j \notin {i} /\ {i} \cup {j} = {i, j}
        BY <3>1, FS_Singleton
      <4>2. Cardinality({i} \cup {j}) = Cardinality({i}) + 1
        BY <4>1, FS_AddElement
      <4> QED
        BY <4>1, <4>2
    <3> QED
      BY <3>3, <3>4
  <2>5. call[i].frame = attempts
    BY <1>1, <2>t, <2>2, <2>3, <2>4, OnlyTheLastIsFree
  <2>6. PICK n \in Nat : n = Levels - attempts /\ availableTurns >= 1 + ChainBelow[n][call[i].callee]
    <3>1. \A k0 \in 0..attempts : frame[k0].pc = "step"
      OBVIOUS
    <3> QED
      BY <1>1, <2>1, <2>2, <2>5, <3>1, FundedCallee
  <2>7. ChainBelow[n][call[i].callee] \in Nat
    BY <2>t, ChainIsBounded
  <2>8. availableTurns >= 1
    BY <2>t, <2>6, <2>7
  <2> QED
    BY <2>t, <2>8, OneTurnIsEnough
<1> QED
  BY <1>1, ChainInvariant, PTL
===============================================================================
