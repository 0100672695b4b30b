------------------------- MODULE OrchestrateTurn_proofs -------------------------
EXTENDS OrchestrateAnyServer, OrchestrateDelivery, Selections_proofs

-------------------------------------------------------------------------------
(* The replay of what was held. *)

Unfolds(f, t, s, n) ==
    f = [S \in SUBSET (1..n) |-> IF S = {} THEN t ELSE Consume(f[S \ {Max(S)}], s[Max(S)])]

LEMMA LastOfPrefix ==
    ASSUME NEW n \in Nat, NEW S \in SUBSET (1..(n + 1)), n + 1 \in S
    PROVE  Max(S) = n + 1 /\ S \ {Max(S)} \in SUBSET (1..n)
<1>1. \A x \in S : x \in Nat /\ x <= n + 1
  OBVIOUS
<1>2. \E x \in S : \A y \in S : x >= y
  BY <1>1
<1>3. Max(S) \in S /\ \A y \in S : Max(S) >= y
  BY <1>2 DEF Max
<1>4. Max(S) = n + 1
  <2>1. Max(S) \in Nat /\ Max(S) <= n + 1
    BY <1>1, <1>3
  <2>2. Max(S) >= n + 1
    BY <1>3
  <2>3. QED
    BY <2>1, <2>2
<1>5. QED
  BY <1>4

LEMMA FoldsExist ==
    ASSUME NEW t, NEW s, NEW n \in Nat
    PROVE  \E f : Unfolds(f, t, s, n)
<1> DEFINE D == {k \in Nat : \E f : Unfolds(f, t, s, k)}
<1>1. 0 \in D
  <2> DEFINE f == [S \in SUBSET (1..0) |-> t]
  <2>1. 1..0 = {}
    OBVIOUS
  <2>2. Unfolds(f, t, s, 0)
    BY <2>1 DEF Unfolds
  <2>3. QED
    BY <2>2
<1>2. ASSUME NEW k \in Nat, k \in D PROVE k + 1 \in D
  <2>1. PICK g : Unfolds(g, t, s, k)
    BY <1>2
  <2> DEFINE f == [S \in SUBSET (1..(k + 1)) |->
                       IF k + 1 \in S THEN Consume(g[S \ {k + 1}], s[k + 1]) ELSE g[S]]
  <2>2. ASSUME NEW S \in SUBSET (1..(k + 1))
        PROVE  f[S] = IF S = {} THEN t ELSE Consume(f[S \ {Max(S)}], s[Max(S)])
    <3>1. CASE k + 1 \in S
      <4>1. Max(S) = k + 1 /\ S \ {Max(S)} \in SUBSET (1..k)
        BY <3>1, LastOfPrefix
      <4>2. k + 1 \notin S \ {k + 1} /\ S \ {k + 1} \in SUBSET (1..(k + 1))
        OBVIOUS
      <4>3. f[S \ {k + 1}] = g[S \ {k + 1}]
        BY <4>2
      <4>4. QED
        BY <3>1, <4>1, <4>3
    <3>2. CASE k + 1 \notin S
      <4>1. S \in SUBSET (1..k) /\ S \ {Max(S)} \in SUBSET (1..k)
        <5>1. \A x \in S : x \in 1..(k + 1) /\ x # k + 1
          BY <3>2
        <5>2. \A x \in S : x \in 1..k
          BY <5>1
        <5>3. QED
          BY <5>2
      <4>2. k + 1 \notin S \ {Max(S)} /\ S \ {Max(S)} \in SUBSET (1..(k + 1))
        BY <3>2
      <4>3. f[S] = g[S] /\ f[S \ {Max(S)}] = g[S \ {Max(S)}]
        BY <3>2, <4>2
      <4>4. g[S] = IF S = {} THEN t ELSE Consume(g[S \ {Max(S)}], s[Max(S)])
        BY <2>1, <4>1 DEF Unfolds
      <4>5. QED
        BY <4>3, <4>4
    <3>3. QED
      BY <3>1, <3>2
  <2>3. f = [S \in SUBSET (1..(k + 1)) |-> IF S = {} THEN t ELSE Consume(f[S \ {Max(S)}], s[Max(S)])]
    BY <2>2, Zenon
  <2> HIDE DEF f
  <2>4. Unfolds(f, t, s, k + 1)
    BY <2>3 DEF Unfolds
  <2>5. QED
    BY <2>4
<1>3. QED
  BY <1>1, <1>2, Induction

LEMMA FoldIsUnfolded ==
    ASSUME NEW t, NEW n \in Nat, NEW s, DOMAIN s = 1..n
    PROVE  \E f : Unfolds(f, t, s, n) /\ FoldLeft(Consume, t, s) = f[1..n]
<1> DEFINE g == CHOOSE f : f = [S \in SUBSET (DOMAIN s) |->
                        IF S = {} THEN t ELSE Consume(f[S \ {Max(S)}], s[Max(S)])]
<1>1. FoldLeft(Consume, t, s) = g[DOMAIN s]
  BY DEF FoldLeft, MapThenFoldSet
<1>2. PICK f : Unfolds(f, t, s, n)
  BY FoldsExist
<1>3. f = [S \in SUBSET (DOMAIN s) |-> IF S = {} THEN t ELSE Consume(f[S \ {Max(S)}], s[Max(S)])]
  BY <1>2 DEF Unfolds
<1>4. g = [S \in SUBSET (DOMAIN s) |-> IF S = {} THEN t ELSE Consume(g[S \ {Max(S)}], s[Max(S)])]
  BY <1>3, Zenon
<1> HIDE DEF g
<1>5. Unfolds(g, t, s, n)
  BY <1>4 DEF Unfolds
<1>6. QED
  BY <1>1, <1>5

-------------------------------------------------------------------------------
(* A turn, and what follows a turn. *)

Tools == {"spawn", "wait"}
Inputs == Values \cup {NoValue, Unset}
Spawns == [child : Threads, request : Inputs, waited : BOOLEAN]

TurnType ==
    [started : BOOLEAN, spawns : Seq(Spawns), pending : SUBSET (Items \X Tools),
     strangers : Seq(Threads), ended : SUBSET Threads, waits : Seq(Threads),
     requests : [1..Steps -> Inputs], file : [step : 1..Steps, input : Inputs],
     answers : [Threads -> 0..Steps], text : Receipts \cup {0}, over : BOOLEAN,
     end : {"no", "resolved", "rejected"}, broken : BOOLEAN]

\* A thread waits for its spawn once, and only before it.
StrangersAreNew(t) ==
    /\ \A p, q \in DOMAIN t.strangers : t.strangers[p] = t.strangers[q] => p = q
    /\ \A p \in DOMAIN t.strangers, i \in DOMAIN t.spawns : t.strangers[p] # t.spawns[i].child

\* An answer is held under the place of its thread.
AnswersHaveAPlace(t) ==
    \A c \in Threads : t.answers[c] # 0 =>
        IF t.answers[c] <= Len(t.spawns) THEN t.spawns[t.answers[c]].child = c
        ELSE /\ t.answers[c] - Len(t.spawns) \in DOMAIN t.strangers
             /\ t.strangers[t.answers[c] - Len(t.spawns)] = c

\* A request was prepared by an answer of the step before.
RequestsWereAnswered(t) ==
    \A n \in 2..Steps : t.requests[n] # Unset => \E c \in Threads : t.answers[c] = n - 1

SpawnsHadInputs(t) ==
    \A i \in 2..Len(t.spawns) : t.answers[t.spawns[i - 1].child] = i - 1

TurnInv(t) ==
    /\ t \in TurnType
    /\ ~t.broken => /\ Len(t.spawns) <= Steps
                    /\ StrangersAreNew(t) /\ AnswersHaveAPlace(t)
                    /\ RequestsWereAnswered(t) /\ SpawnsHadInputs(t)

\* Children once attributed stay where they are.
Extends(t, u) ==
    /\ Len(t.spawns) <= Len(u.spawns)
    /\ \A i \in DOMAIN t.spawns : u.spawns[i].child = t.spawns[i].child

Follows(t, u) == TurnInv(u) /\ (~u.broken => ~t.broken /\ Extends(t, u))

\* What the attribution of children is made of.
SameAttribution(t, u) ==
    /\ Len(u.spawns) = Len(t.spawns) /\ \A i \in DOMAIN t.spawns : u.spawns[i].child = t.spawns[i].child
    /\ u.strangers = t.strangers /\ u.answers = t.answers /\ u.requests = t.requests /\ u.broken = t.broken

LEMMA SpawnsLength ==
    ASSUME NEW t \in TurnType
    PROVE  /\ Len(t.spawns) \in Nat /\ DOMAIN t.spawns = 1..Len(t.spawns)
           /\ \A i \in DOMAIN t.spawns : t.spawns[i] \in Spawns
           /\ Len(t.strangers) \in Nat /\ DOMAIN t.strangers = 1..Len(t.strangers)
           /\ \A i \in DOMAIN t.strangers : t.strangers[i] \in Threads
BY DEF TurnType

LEMMA SameAttributionFollows ==
    ASSUME NEW t, NEW u, TurnInv(t), u \in TurnType, SameAttribution(t, u)
    PROVE  Follows(t, u)
<1>1. Extends(t, u)
  BY SpawnsLength DEF SameAttribution, Extends, TurnInv
<1>2. CASE u.broken
  BY <1>2 DEF Follows, TurnInv
<1>3. CASE ~u.broken
  <2>1. t \in TurnType /\ ~t.broken /\ Len(u.spawns) <= Steps
    BY <1>3 DEF TurnInv, SameAttribution
  <2>2. /\ Len(u.spawns) = Len(t.spawns) /\ DOMAIN u.spawns = DOMAIN t.spawns
        /\ \A i \in 1..Len(t.spawns) : u.spawns[i].child = t.spawns[i].child
        /\ u.strangers = t.strangers /\ u.answers = t.answers /\ u.requests = t.requests
    BY <2>1, SpawnsLength DEF SameAttribution
  <2>3. StrangersAreNew(u)
    BY <2>1, <2>2, SpawnsLength DEF TurnInv, StrangersAreNew
  <2>4. AnswersHaveAPlace(u)
    <3> SUFFICES ASSUME NEW c \in Threads, t.answers[c] # 0, t.answers[c] <= Len(t.spawns)
                 PROVE  u.spawns[t.answers[c]].child = c
      BY <2>1, <2>2 DEF TurnInv, AnswersHaveAPlace
    <3>1. t.answers[c] \in 1..Len(t.spawns)
      BY <2>1 DEF TurnType
    <3>2. QED
      BY <2>1, <2>2, <3>1 DEF TurnInv, AnswersHaveAPlace
  <2>5. RequestsWereAnswered(u) /\ SpawnsHadInputs(u)
    <3>1. RequestsWereAnswered(t) /\ SpawnsHadInputs(t) /\ Len(t.spawns) \in Nat
      BY <2>1, SpawnsLength DEF TurnInv
    <3>2. RequestsWereAnswered(u)
      BY ONLY <2>2, <3>1 DEF RequestsWereAnswered
    <3>3. SpawnsHadInputs(u)
      <4> SUFFICES ASSUME NEW i \in 2..Len(t.spawns)
                   PROVE  u.answers[u.spawns[i - 1].child] = i - 1
        BY <2>2 DEF SpawnsHadInputs
      <4>1. i - 1 \in 1..Len(t.spawns)
        BY <3>1
      <4>2. QED
        BY ONLY <2>2, <3>1, <4>1 DEF SpawnsHadInputs
    <3>4. QED
      BY <3>2, <3>3
  <2>6. QED
    BY <1>1, <2>1, <2>3, <2>4, <2>5 DEF Follows, TurnInv
<1>4. QED
  BY <1>2, <1>3

LEMMA FollowsFollows ==
    ASSUME NEW t, NEW u, NEW v, TurnInv(t), Follows(t, u), Follows(u, v)
    PROVE  Follows(t, v)
<1>1. CASE v.broken
  BY <1>1 DEF Follows
<1>2. CASE ~v.broken
  <2>1. t \in TurnType /\ u \in TurnType /\ v \in TurnType
    BY DEF Follows, TurnInv
  <2>2. Extends(t, u) /\ Extends(u, v)
    BY <1>2 DEF Follows
  <2>3. Extends(t, v)
    BY <2>1, <2>2, SpawnsLength DEF Extends
  <2>4. QED
    BY <1>2, <2>3 DEF Follows
<1>3. QED
  BY <1>1, <1>2

LEMMA NewTurnFits == TurnInv(NewTurn) /\ ~NewTurn.broken /\ NewTurn.spawns = <<>>
<1>1. NewTurn \in TurnType
  <2>1. [i \in 1..Steps |-> IF i = 1 THEN NoValue ELSE Unset] \in [1..Steps -> Inputs]
    BY DEF Inputs
  <2>2. FirstRequest \in [step : 1..Steps, input : Inputs]
    BY StepsAssumption DEF FirstRequest, Inputs
  <2>3. [c \in Threads |-> 0] \in [Threads -> 0..Steps]
    BY StepsAssumption
  <2>4. QED
    BY <2>1, <2>2, <2>3 DEF NewTurn, TurnType
<1>2. QED
  BY <1>1, StepsAssumption DEF NewTurn, TurnInv, StrangersAreNew, AnswersHaveAPlace, RequestsWereAnswered, SpawnsHadInputs

LEMMA ThrowFollows ==
    ASSUME NEW t, TurnInv(t)
    PROVE  Follows(t, Throw(t))
<1>1. NewTurn \in TurnType /\ t \in TurnType
  BY NewTurnFits DEF TurnInv
<1>2. Throw(t) \in TurnType
  BY <1>1 DEF Throw, TurnType
<1>3. Throw(t).broken
  BY <1>1 DEF Throw, TurnType
<1>4. QED
  BY <1>2, <1>3 DEF Follows, TurnInv

LEMMA RequireFollows ==
    ASSUME NEW t, TurnInv(t), NEW ok, NEW u, ok => Follows(t, u)
    PROVE  Follows(t, Require(ok, t, u))
BY ThrowFollows DEF Require

-------------------------------------------------------------------------------
(* The handlers, one by one. *)

LEMMA StepOfIsItsPlace ==
    ASSUME NEW t \in TurnType, NEW c \in Threads,
           IsKnown(t, c) \/ \E p \in DOMAIN t.strangers : t.strangers[p] = c
    PROVE  /\ StepOf(t, c) \in Nat \ {0}
           /\ IF StepOf(t, c) <= Len(t.spawns) THEN t.spawns[StepOf(t, c)].child = c
              ELSE /\ StepOf(t, c) - Len(t.spawns) \in DOMAIN t.strangers
                   /\ t.strangers[StepOf(t, c) - Len(t.spawns)] = c
<1>1. CASE IsKnown(t, c)
  <2>1. SpawnsOf(t, c) \in SUBSET Nat /\ SpawnsOf(t, c) # {}
    BY <1>1, SpawnsLength DEF SpawnsOf, IsKnown
  <2>2. \E m \in SpawnsOf(t, c) : \A n \in SpawnsOf(t, c) : m <= n
    BY <2>1, LeastNatural
  <2>3. Min(SpawnsOf(t, c)) \in SpawnsOf(t, c)
    BY <2>2 DEF Min
  <2>4. QED
    BY <1>1, <2>3, SpawnsLength DEF SpawnsOf, StepOf
<1>2. CASE ~IsKnown(t, c)
  <2>1. \E p \in DOMAIN t.strangers : t.strangers[p] = c
    BY <1>2
  <2> DEFINE q == CHOOSE p \in DOMAIN t.strangers : t.strangers[p] = c
  <2>2. q \in DOMAIN t.strangers /\ t.strangers[q] = c
    BY <2>1
  <2>3. StepOf(t, c) = Len(t.spawns) + q
    BY <1>2 DEF StepOf
  <2> HIDE DEF q
  <2>4. QED
    BY <2>2, <2>3, SpawnsLength
<1>3. QED
  BY <1>1, <1>2

LEMMA LearnFollows ==
    ASSUME NEW t, TurnInv(t), ~t.broken, NEW c \in Threads, NEW e, NEW i \in 1..Steps, e.value \in Values,
           t.answers[c] = 0,
           IF i <= Len(t.spawns) THEN t.spawns[i].child = c
           ELSE i - Len(t.spawns) \in DOMAIN t.strangers /\ t.strangers[i - Len(t.spawns)] = c
    PROVE  Follows(t, Learn(t, c, i, e))
<1> DEFINE u == Learn(t, c, i, e)
<1>1. t \in TurnType
  BY DEF TurnInv
<1>2. /\ u \in TurnType /\ u.spawns = t.spawns /\ u.strangers = t.strangers /\ u.broken = t.broken
      /\ u.answers = [t.answers EXCEPT ![c] = i]
      /\ \A n \in 1..Steps : u.requests[n] = t.requests[n] \/ n = i + 1
  <2> DEFINE A == [t.answers EXCEPT ![c] = i]
  <2>1. A \in [Threads -> 0..Steps]
    BY <1>1, StepsAssumption DEF TurnType
  <2>2. CASE PreparesNext(i, e)
    <3> DEFINE R == [t.requests EXCEPT ![i + 1] = e.value]
               F == [step |-> i + 1, input |-> e.value]
    <3>1. i + 1 \in 1..Steps /\ e.value \in Inputs
      BY <2>2, StepsAssumption DEF PreparesNext, Inputs
    <3>2. /\ R \in [1..Steps -> Inputs] /\ F \in [step : 1..Steps, input : Inputs]
          /\ \A n \in 1..Steps : R[n] = t.requests[n] \/ n = i + 1
      BY <1>1, <3>1 DEF TurnType
    <3>3. u = [t EXCEPT !.answers = A, !.requests = R, !.file = F]
      BY <2>2, <1>1 DEF Learn, TurnType
    <3> HIDE DEF u, A, R, F
    <3>4. u \in TurnType /\ u.spawns = t.spawns /\ u.strangers = t.strangers /\ u.broken = t.broken /\ u.answers = A
          /\ u.requests = R
      BY <1>1, <2>1, <3>2, <3>3 DEF TurnType
    <3>5. QED
      BY <3>2, <3>4 DEF A
  <2>3. CASE ~PreparesNext(i, e)
    <3>1. u = [t EXCEPT !.answers = A]
      BY <2>3, <1>1 DEF Learn, TurnType
    <3> HIDE DEF u, A
    <3>2. u \in TurnType /\ u.spawns = t.spawns /\ u.strangers = t.strangers /\ u.broken = t.broken /\ u.answers = A
          /\ u.requests = t.requests
      BY <1>1, <2>1, <3>1 DEF TurnType
    <3>3. QED
      BY <3>2 DEF A
  <2>4. QED
    BY <2>2, <2>3
<1> HIDE DEF u
<1>3. \A d \in Threads : u.answers[d] = IF d = c THEN i ELSE t.answers[d]
  BY <1>1, <1>2 DEF TurnType
<1>4. StrangersAreNew(u) /\ AnswersHaveAPlace(u)
  BY <1>2, <1>3 DEF TurnInv, StrangersAreNew, AnswersHaveAPlace
<1>5. RequestsWereAnswered(u)
  <2> SUFFICES ASSUME NEW n \in 2..Steps, u.requests[n] # Unset
               PROVE  \E d \in Threads : u.answers[d] = n - 1
    BY DEF RequestsWereAnswered
  <2>1. CASE n = i + 1
    BY <2>1, <1>3
  <2>2. CASE n # i + 1
    <3>1. PICK d \in Threads : t.answers[d] = n - 1
      BY <2>2, <1>2 DEF TurnInv, RequestsWereAnswered
    <3>2. QED
      BY <3>1, <1>3
  <2>3. QED
    BY <2>1, <2>2
<1>6. SpawnsHadInputs(u)
  <2> SUFFICES ASSUME NEW j \in 2..Len(t.spawns) PROVE u.answers[t.spawns[j - 1].child] = j - 1
    BY <1>2 DEF SpawnsHadInputs
  <2>1. t.answers[t.spawns[j - 1].child] = j - 1
    BY DEF TurnInv, SpawnsHadInputs
  <2>2. t.spawns[j - 1].child \in Threads
    BY <1>1, SpawnsLength DEF Spawns
  <2>3. QED
    BY <2>1, <2>2, <1>3
<1>7. Extends(t, u)
  BY <1>1, <1>2, SpawnsLength DEF Extends
<1>8. QED
  BY <1>2, <1>4, <1>5, <1>6, <1>7 DEF TurnInv, Follows, u

LEMMA ObserveFollows ==
    ASSUME NEW t, TurnInv(t), ~t.broken, NEW c \in Threads, NEW e, e.kind = "answer" => e.value \in Values,
           IsKnown(t, c) \/ \E p \in DOMAIN t.strangers : t.strangers[p] = c
    PROVE  Follows(t, Observe(t, c, e))
<1>1. t \in TurnType
  BY DEF TurnInv
<1>2. CASE e.kind # "answer"
  BY <1>1, <1>2, SameAttributionFollows DEF Observe, SameAttribution
<1>3. CASE e.kind = "answer"
  <2> DEFINE ok == t.answers[c] = 0 /\ StepOf(t, c) <= Steps /\ e.step = StepOf(t, c)
  <2>1. ASSUME ok PROVE Follows(t, Learn(t, c, StepOf(t, c), e))
    BY <1>1, <1>3, <2>1, StepOfIsItsPlace, LearnFollows, StepsAssumption
  <2>2. QED
    BY <1>3, <2>1, RequireFollows DEF Observe
<1>4. QED
  BY <1>2, <1>3

LEMMA MeetFollows ==
    ASSUME NEW t, TurnInv(t), ~t.broken, NEW c \in Threads, ~IsKnown(t, c), NEW e, e.kind = "answer" => e.value \in Values
    PROVE  Follows(t, Meet(t, c, e))
<1>1. t \in TurnType
  BY DEF TurnInv
<1> DEFINE met == [t EXCEPT !.strangers = IF Contains(@, c) THEN @ ELSE Append(@, c)]
           heard == Observe(met, c, e)
           noted == IF e.kind = "done" THEN [heard EXCEPT !.ended = @ \cup {c}] ELSE heard
<1>2. /\ met \in TurnType /\ met.spawns = t.spawns /\ met.answers = t.answers /\ met.broken = t.broken
      /\ met.requests = t.requests
      /\ met.strangers = IF Contains(t.strangers, c) THEN t.strangers ELSE Append(t.strangers, c)
  <2> DEFINE S == IF Contains(t.strangers, c) THEN t.strangers ELSE Append(t.strangers, c)
  <2>1. S \in Seq(Threads) /\ met = [t EXCEPT !.strangers = S]
    BY <1>1, AppendProperties DEF TurnType
  <2> HIDE DEF S, met
  <2>2. /\ met \in TurnType /\ met.spawns = t.spawns /\ met.answers = t.answers /\ met.broken = t.broken
        /\ met.requests = t.requests /\ met.strangers = S
    BY <1>1, <2>1 DEF TurnType
  <2>3. QED
    BY <2>2 DEF S
<1>3. TurnInv(met) /\ (\E p \in DOMAIN met.strangers : met.strangers[p] = c) /\ Extends(t, met)
  <2>1. CASE Contains(t.strangers, c)
    <3>1. met.strangers = t.strangers
      BY <2>1, <1>2
    <3>2. \E p \in DOMAIN met.strangers : met.strangers[p] = c
      BY <2>1, <3>1, <1>1, SpawnsLength DEF Contains
    <3>3. QED
      BY <1>2, <3>1, <3>2, SameAttributionFollows DEF SameAttribution, Follows
  <2>2. CASE ~Contains(t.strangers, c)
    <3>1. /\ met.strangers = Append(t.strangers, c) /\ Len(met.strangers) = Len(t.strangers) + 1
          /\ DOMAIN met.strangers = 1..(Len(t.strangers) + 1)
          /\ \A p \in 1..Len(t.strangers) : met.strangers[p] = t.strangers[p] /\ t.strangers[p] # c
          /\ met.strangers[Len(t.strangers) + 1] = c
      <4>1. t.strangers \in Seq(Threads) /\ met.strangers = Append(t.strangers, c) /\ met.strangers \in Seq(Threads)
        BY <2>2, <1>1, <1>2 DEF TurnType
      <4>2. \A p \in 1..Len(t.strangers) : t.strangers[p] # c
        BY <2>2 DEF Contains
      <4> HIDE DEF met
      <4>3. QED
        BY <4>1, <4>2, AppendProperties, LenProperties, SMTT(30)
    <3>2. \A i \in DOMAIN t.spawns : t.spawns[i].child # c
      BY DEF IsKnown, SpawnsOf
    <3> HIDE DEF met
    <3>3. StrangersAreNew(met)
      BY <1>1, <1>2, <3>1, <3>2, SpawnsLength DEF TurnInv, StrangersAreNew
    <3>4. AnswersHaveAPlace(met)
      BY <1>1, <1>2, <3>1, SpawnsLength DEF TurnInv, AnswersHaveAPlace
    <3>5. RequestsWereAnswered(met) /\ SpawnsHadInputs(met)
      BY <1>2 DEF TurnInv, RequestsWereAnswered, SpawnsHadInputs
    <3>6. Extends(t, met)
      BY <1>1, <1>2, SpawnsLength DEF Extends
    <3>7. QED
      BY <1>1, <1>2, <3>1, <3>3, <3>4, <3>5, <3>6, SpawnsLength DEF TurnInv
  <2>3. QED
    BY <2>1, <2>2
<1>4. Follows(t, met)
  BY <1>3, <1>2 DEF Follows
<1>5. Follows(met, heard)
  BY <1>2, <1>3, ObserveFollows
<1> HIDE DEF heard, met
<1>6. Follows(heard, noted)
  <2>1. TurnInv(heard) /\ heard \in TurnType
    BY <1>5 DEF Follows, TurnInv
  <2>2. noted \in TurnType /\ SameAttribution(heard, noted)
    BY <2>1 DEF TurnType, SameAttribution
  <2>3. QED
    BY <2>1, <2>2, SameAttributionFollows
<1> HIDE DEF noted
<1>7. TurnInv(met) /\ TurnInv(heard) /\ TurnInv(noted)
  BY <1>4, <1>5, <1>6 DEF Follows
<1>8. Follows(t, noted)
  BY <1>4, <1>5, <1>6, <1>7, FollowsFollows
<1>9. Follows(noted, Require(Len(noted.strangers) <= Steps - Len(noted.spawns), noted, noted))
  <2>1. Follows(noted, noted)
    BY <1>7, SameAttributionFollows DEF SameAttribution, TurnInv
  <2>2. QED
    BY <1>7, <2>1, RequireFollows
<1>10. Follows(t, Require(Len(noted.strangers) <= Steps - Len(noted.spawns), noted, noted))
  BY <1>7, <1>8, <1>9, FollowsFollows
<1>11. QED
  BY <1>10 DEF Meet, noted, heard, met

LEMMA CompleteWaitFollows ==
    ASSUME NEW t, TurnInv(t), ~t.broken, NEW receiver
    PROVE  Follows(t, CompleteWait(t, receiver))
<1> DEFINE n == Len(t.spawns)
           u == [t EXCEPT !.spawns[n].waited = TRUE]
           S == [t.spawns EXCEPT ![n] = [t.spawns[n] EXCEPT !.waited = TRUE]]
<1>1. t \in TurnType
  BY DEF TurnInv
<1>2. ASSUME n > 0 PROVE Follows(t, u)
  <2>1. n \in 1..Len(t.spawns) /\ t.spawns \in Seq(Spawns) /\ t.spawns[n] \in Spawns
    BY <1>1, <1>2, SpawnsLength DEF TurnType
  <2>2. [t.spawns[n] EXCEPT !.waited = TRUE] \in Spawns /\ [t.spawns[n] EXCEPT !.waited = TRUE].child = t.spawns[n].child
    BY <2>1 DEF Spawns
  <2>3. /\ S \in Seq(Spawns) /\ Len(S) = Len(t.spawns)
        /\ \A i \in 1..Len(t.spawns) : S[i].child = t.spawns[i].child
    BY <2>1, <2>2, ExceptSeq
  <2>4. u = [t EXCEPT !.spawns = S]
    BY <1>1 DEF TurnType
  <2> HIDE DEF S, u
  <2>5. u \in TurnType /\ SameAttribution(t, u)
    BY <1>1, <2>3, <2>4, SpawnsLength DEF TurnType, SameAttribution
  <2>6. QED
    BY <2>5, SameAttributionFollows
<1>3. QED
  BY <1>2, RequireFollows DEF CompleteWait

LEMMA SpawnCompletedFollows ==
    ASSUME NEW t, TurnInv(t), ~t.broken, NEW c \in Threads
    PROVE  Follows(t, SpawnCompleted(t, c))
<1> DEFINE n == Len(t.spawns) + 1
           spawn == [child |-> c, request |-> t.requests[n], waited |-> FALSE]
           S == Append(t.spawns, spawn)
           R == IF t.strangers = <<>> THEN <<>> ELSE Tail(t.strangers)
           W == IF t.waits = <<>> THEN <<>> ELSE Tail(t.waits)
           u == [t EXCEPT !.spawns = Append(@, [child |-> c, request |-> t.requests[n], waited |-> FALSE]),
                          !.strangers = IF @ = <<>> THEN @ ELSE Tail(@),
                          !.ended = @ \ {c},
                          !.waits = IF @ = <<>> THEN @ ELSE Tail(@)]
           ok == /\ AwaitedAll(t) /\ n <= Steps /\ (t.strangers = <<>> \/ Head(t.strangers) = c)
                 /\ t.requests[n] # Unset
<1>1. t \in TurnType
  BY DEF TurnInv
<1>2. ASSUME ok PROVE Follows(t, u) /\ ~u.broken
  <2>1. n \in 1..Steps /\ spawn \in Spawns
    <3>1. n \in 1..Steps
      BY <1>1, <1>2, SpawnsLength, StepsAssumption
    <3>2. t.requests[n] \in Inputs
      BY <1>1, <3>1 DEF TurnType
    <3>3. QED
      BY <3>1, <3>2 DEF Spawns
  <2>2. /\ S \in Seq(Spawns) /\ Len(S) = n /\ S[n] = spawn /\ S[n].child = c
        /\ DOMAIN S = 1..n /\ \A i \in 1..Len(t.spawns) : S[i] = t.spawns[i]
    BY <2>1, <1>1, AppendProperties, LenProperties DEF TurnType
  <2>3. R \in Seq(Threads) /\ W \in Seq(Threads)
    BY <1>1, EmptySeq, HeadTailProperties DEF TurnType
  <2>4. /\ t.strangers = <<>> => R = <<>>
        /\ t.strangers # <<>> => /\ t.strangers[1] = c /\ Len(R) = Len(t.strangers) - 1
                                /\ \A p \in 1..Len(R) : R[p] = t.strangers[p + 1]
    <3>1. t.strangers \in Seq(Threads)
      BY <1>1 DEF TurnType
    <3>2. CASE t.strangers # <<>>
      <4>1. t.strangers[1] = c
        BY <3>1, <3>2, <1>2
      <4>2. QED
        BY <3>1, <3>2, <4>1, HeadTailProperties
    <3>3. QED
      BY <3>2
  <2>5. u = [t EXCEPT !.spawns = S, !.strangers = R, !.ended = t.ended \ {c}, !.waits = W]
    BY <1>1 DEF TurnType
  <2> HIDE DEF S, R, W, u
  <2>6. /\ u \in TurnType /\ u.spawns = S /\ u.strangers = R /\ u.answers = t.answers
        /\ u.requests = t.requests /\ u.broken = t.broken
    BY <1>1, <2>2, <2>3, <2>5 DEF TurnType
  <2>7. StrangersAreNew(u)
    <3>1. DOMAIN R = 1..Len(R) /\ Len(R) \in Nat
      BY <2>3, LenProperties
    <3>2. CASE t.strangers = <<>>
      BY <2>4, <2>6, <3>1, <3>2 DEF StrangersAreNew
    <3>3. CASE t.strangers # <<>>
      <4>1. \A p \in DOMAIN R : p + 1 \in DOMAIN t.strangers /\ R[p] = t.strangers[p + 1] /\ 1 \in DOMAIN t.strangers
        BY <1>1, <2>4, <3>1, <3>3, SpawnsLength
      <4>2. \A p \in DOMAIN R : R[p] # c
        BY <3>1, <4>1, <2>4, <3>3 DEF TurnInv, StrangersAreNew
      <4>3. \A p \in DOMAIN R, i \in DOMAIN S : R[p] # S[i].child
        BY <1>1, <2>2, <4>1, <4>2, SpawnsLength DEF TurnInv, StrangersAreNew
      <4>4. \A p, q \in DOMAIN R : R[p] = R[q] => p = q
        BY <3>1, <4>1 DEF TurnInv, StrangersAreNew
      <4>5. QED
        BY <2>6, <4>3, <4>4 DEF StrangersAreNew
    <3>4. QED
      BY <3>2, <3>3
  <2>8. AnswersHaveAPlace(u)
    <3> SUFFICES ASSUME NEW d \in Threads, t.answers[d] # 0
                 PROVE  IF t.answers[d] <= n THEN S[t.answers[d]].child = d
                        ELSE t.answers[d] - n \in DOMAIN R /\ R[t.answers[d] - n] = d
      BY <2>2, <2>6 DEF AnswersHaveAPlace
    <3>1. t.answers[d] \in Nat \ {0}
      BY <1>1 DEF TurnType
    <3>2. CASE t.answers[d] <= Len(t.spawns)
      BY <1>1, <2>2, <3>1, <3>2, SpawnsLength DEF TurnInv, AnswersHaveAPlace
    <3>3. CASE t.answers[d] > Len(t.spawns)
      <4>1. /\ t.answers[d] - Len(t.spawns) \in 1..Len(t.strangers)
            /\ t.strangers[t.answers[d] - Len(t.spawns)] = d
        BY <1>1, <3>1, <3>3, SpawnsLength DEF TurnInv, AnswersHaveAPlace
      <4>2. t.strangers # <<>>
        BY <4>1
      <4>3. DOMAIN R = 1..Len(R) /\ Len(R) = Len(t.strangers) - 1
        BY <2>3, <2>4, <4>2, LenProperties
      <4>4. CASE t.answers[d] = n
        BY <1>1, <2>2, <2>4, <4>1, <4>2, <4>4, SpawnsLength
      <4>5. CASE t.answers[d] > n
        BY <1>1, <2>4, <3>1, <4>1, <4>2, <4>3, <4>5, SpawnsLength, SMTT(30)
      <4>6. QED
        BY <1>1, <3>1, <3>3, <4>4, <4>5, SpawnsLength
    <3>4. QED
      BY <1>1, <3>1, <3>2, <3>3, SpawnsLength
  <2>9. RequestsWereAnswered(u)
    BY <2>6 DEF TurnInv, RequestsWereAnswered
  <2>10. SpawnsHadInputs(u)
    <3> SUFFICES ASSUME NEW i \in 2..n PROVE t.answers[S[i - 1].child] = i - 1
      BY <2>2, <2>6 DEF SpawnsHadInputs
    <3>1. i - 1 \in 1..Len(t.spawns) /\ S[i - 1] = t.spawns[i - 1]
      BY <1>1, <2>2, SpawnsLength
    <3>2. CASE i = n
      <4>1. PICK d \in Threads : t.answers[d] = n - 1
        BY <2>1, <1>2, <3>2 DEF TurnInv, RequestsWereAnswered
      <4>2. t.spawns[n - 1].child = d
        BY <1>1, <3>1, <3>2, <4>1, SpawnsLength DEF TurnInv, AnswersHaveAPlace
      <4>3. QED
        BY <3>1, <3>2, <4>1, <4>2
    <3>3. CASE i # n
      BY <1>1, <3>1, <3>3, SpawnsLength DEF TurnInv, SpawnsHadInputs
    <3>4. QED
      BY <3>2, <3>3
  <2>11. Extends(t, u)
    BY <1>1, <2>2, <2>6, SpawnsLength DEF Extends
  <2>12. QED
    BY <2>1, <2>2, <2>6, <2>7, <2>8, <2>9, <2>10, <2>11 DEF Follows, TurnInv
<1> DEFINE v == IF t.waits = <<>> THEN u ELSE CompleteWait(u, Head(t.waits))
<1>3. ASSUME ok PROVE Follows(t, v)
  <2> HIDE DEF u, ok
  <2>1. TurnInv(u) /\ ~u.broken /\ Follows(t, u)
    BY <1>2, <1>3 DEF Follows
  <2>2. Follows(u, CompleteWait(u, Head(t.waits)))
    BY <2>1, CompleteWaitFollows
  <2>3. QED
    BY <2>1, <2>2, FollowsFollows
<1>4. SpawnCompleted(t, c) = Require(ok, t, v)
  BY DEF SpawnCompleted
<1> HIDE DEF ok, v
<1>5. QED
  BY <1>3, <1>4, RequireFollows

LEMMA WaitCompletedFollows ==
    ASSUME NEW t, TurnInv(t), ~t.broken, NEW receiver \in Threads
    PROVE  Follows(t, WaitCompleted(t, receiver))
<1> DEFINE u == [t EXCEPT !.waits = Append(@, receiver)]
<1>1. t \in TurnType
  BY DEF TurnInv
<1>2. Append(t.waits, receiver) \in Seq(Threads)
  BY <1>1, AppendProperties DEF TurnType
<1>3. u \in TurnType /\ SameAttribution(t, u)
  BY <1>1, <1>2 DEF TurnType, SameAttribution
<1>4. Follows(t, u)
  BY <1>3, SameAttributionFollows
<1> HIDE DEF u
<1>5. Follows(t, Require(Len(t.waits) < Steps, t, u))
  BY <1>4, RequireFollows
<1>6. QED
  BY <1>5, CompleteWaitFollows DEF WaitCompleted, u

LEMMA TryFinalizeFollows ==
    ASSUME NEW t, TurnInv(t)
    PROVE  Follows(t, TryFinalize(t))
<1>1. TryFinalize(t) \in TurnType /\ SameAttribution(t, TryFinalize(t))
  BY DEF TurnInv, TurnType, TryFinalize, SameAttribution
<1>2. QED
  BY <1>1, SameAttributionFollows

LEMMA ItemStartedFollows ==
    ASSUME NEW t, TurnInv(t), ~t.broken, NEW e, e.id \in Items, e.tool \in Tools
    PROVE  Follows(t, ItemStarted(t, e))
<1> DEFINE u == [t EXCEPT !.pending = @ \cup {<<e.id, e.tool>>}]
           P == t.pending \cup {<<e.id, e.tool>>}
<1>1. u \in TurnType /\ SameAttribution(t, u)
  <2>1. t \in TurnType /\ u = [t EXCEPT !.pending = P]
    BY DEF TurnInv, TurnType
  <2>2. P \in SUBSET (Items \X Tools)
    BY <2>1 DEF TurnType
  <2> HIDE DEF P, u
  <2>3. QED
    BY <2>1, <2>2 DEF TurnType, SameAttribution
<1>2. Follows(t, u)
  BY <1>1, SameAttributionFollows
<1> HIDE DEF u
<1>3. Follows(t, Require(\A p \in t.pending : p[1] # e.id, t, u))
  BY <1>2, RequireFollows
<1>4. QED
  BY <1>3 DEF ItemStarted, u

LEMMA ItemCompletedFollows ==
    ASSUME NEW t, TurnInv(t), ~t.broken, NEW e, e.child \in Threads
    PROVE  Follows(t, ItemCompleted(t, e))
<1> DEFINE left == [t EXCEPT !.pending = @ \ {<<e.id, e.tool>>}]
           next == IF e.tool = "spawn" THEN SpawnCompleted(left, e.child) ELSE WaitCompleted(left, e.child)
<1>1. left \in TurnType /\ SameAttribution(t, left) /\ ~left.broken
  BY DEF TurnInv, TurnType, SameAttribution
<1> HIDE DEF left
<1>2. Follows(t, left) /\ TurnInv(left)
  BY <1>1, SameAttributionFollows DEF Follows
<1>3. Follows(left, next)
  BY <1>1, <1>2, SpawnCompletedFollows, WaitCompletedFollows
<1> HIDE DEF next
<1>4. Follows(t, next)
  BY <1>2, <1>3, FollowsFollows
<1>5. Follows(t, Require(<<e.id, e.tool>> \in t.pending /\ e.ok, t, next))
  BY <1>4, RequireFollows
<1>6. QED
  BY <1>5 DEF ItemCompleted, left, next

\* A turn without spawn items gets its threads as children, in the order they were met.
LEMMA SynthesizeFollows ==
    ASSUME NEW t, TurnInv(t), ~t.broken
    PROVE  Follows(t, Synthesize(t))
<1> DEFINE n == Len(t.strangers)
           S == [i \in 1..n |-> [child |-> t.strangers[i], request |-> t.requests[i], waited |-> TRUE]]
           u == [t EXCEPT !.spawns = [i \in 1..n |-> [child |-> t.strangers[i],
                                                      request |-> t.requests[i], waited |-> TRUE]],
                          !.strangers = <<>>, !.ended = {}, !.waits = <<>>]
           ok == /\ n \in Required..Steps /\ ToSet(t.strangers) \subseteq t.ended
                 /\ Len(t.waits) = n /\ \A i \in 1..n : t.requests[i] # Unset
<1>1. t \in TurnType
  BY DEF TurnInv
<1>2. CASE t.spawns # <<>> \/ n = 0
  BY <1>1, <1>2, SameAttributionFollows DEF Synthesize, SameAttribution
<1>3. CASE t.spawns = <<>> /\ n # 0
  <2>1. ASSUME ok PROVE Follows(t, u)
    <3>1. n \in 1..Steps /\ n \in Nat /\ Len(t.spawns) = 0
      BY <2>1, <1>3, StepsAssumption
    <3>2. \A i \in 1..n : t.strangers[i] \in Threads /\ t.requests[i] \in Inputs
      BY <1>1, <3>1, SpawnsLength, StepsAssumption DEF TurnType
    <3>3. /\ S \in Seq(Spawns) /\ Len(S) = n /\ DOMAIN S = 1..n
          /\ \A i \in 1..n : S[i].child = t.strangers[i]
      BY <3>1, <3>2 DEF Spawns
    <3>4. u = [t EXCEPT !.spawns = S, !.strangers = <<>>, !.ended = {}, !.waits = <<>>]
      OBVIOUS
    <3> HIDE DEF S, u
    <3>5. /\ u \in TurnType /\ u.spawns = S /\ u.strangers = <<>> /\ u.answers = t.answers
          /\ u.requests = t.requests /\ u.broken = t.broken
      <4>1. <<>> \in Seq(Threads) /\ {} \in SUBSET Threads
        BY EmptySeq
      <4>2. QED
        BY <1>1, <3>3, <3>4, <4>1 DEF TurnType
    <3>6. StrangersAreNew(u)
      BY <3>5 DEF StrangersAreNew
    <3>7. \A d \in Threads : t.answers[d] # 0 => t.answers[d] \in 1..n /\ t.strangers[t.answers[d]] = d
      BY <1>1, <3>1, SpawnsLength DEF TurnInv, AnswersHaveAPlace, TurnType
    <3>8. AnswersHaveAPlace(u)
      BY <3>3, <3>5, <3>7 DEF AnswersHaveAPlace
    <3>9. RequestsWereAnswered(u)
      BY <3>5 DEF TurnInv, RequestsWereAnswered
    <3>10. SpawnsHadInputs(u)
      <4> SUFFICES ASSUME NEW i \in 2..n PROVE t.answers[S[i - 1].child] = i - 1
        BY <3>3, <3>5 DEF SpawnsHadInputs
      <4>1. t.requests[i] # Unset /\ i \in 2..Steps /\ i - 1 \in 1..n
        BY <2>1, <3>1, StepsAssumption
      <4>2. PICK d \in Threads : t.answers[d] = i - 1
        BY <4>1 DEF TurnInv, RequestsWereAnswered
      <4>3. t.strangers[i - 1] = d
        BY <3>7, <4>1, <4>2
      <4>4. QED
        BY <3>3, <4>1, <4>2, <4>3
    <3>11. Extends(t, u)
      BY <3>1, <3>3, <3>5, <1>1, SpawnsLength DEF Extends
    <3>12. QED
      BY <3>1, <3>3, <3>5, <3>6, <3>8, <3>9, <3>10, <3>11 DEF Follows, TurnInv
  <2>2. Synthesize(t) = Require(ok, t, u)
    BY <1>3 DEF Synthesize
  <2> HIDE DEF ok, u
  <2>3. QED
    BY <2>1, <2>2, RequireFollows
<1>4. QED
  BY <1>2, <1>3

LEMMA TurnCompletedFollows ==
    ASSUME NEW t, TurnInv(t), ~t.broken, NEW e
    PROVE  Follows(t, TurnCompleted(t, e))
<1> DEFINE direct == Synthesize(t)
           over == [direct EXCEPT !.over = TRUE]
           next == IF direct.broken THEN direct ELSE TryFinalize(over)
<1>1. Follows(t, direct)
  BY SynthesizeFollows
<1> HIDE DEF direct
<1>2. TurnInv(direct)
  BY <1>1 DEF Follows
<1>3. Follows(direct, over) /\ TurnInv(over)
  <2>1. over \in TurnType /\ SameAttribution(direct, over)
    BY <1>2 DEF TurnInv, TurnType, SameAttribution
  <2>2. QED
    BY <1>2, <2>1, SameAttributionFollows DEF Follows
<1> HIDE DEF over
<1>4. Follows(over, TryFinalize(over))
  BY <1>3, TryFinalizeFollows
<1>5. Follows(t, next)
  BY <1>1, <1>2, <1>3, <1>4, FollowsFollows
<1> HIDE DEF next
<1>6. Follows(t, Require(t.started /\ e.ok /\ t.text # 0, t, next))
  BY <1>5, RequireFollows
<1>7. QED
  BY <1>6 DEF TurnCompleted, direct, over, next

\* onNotification keeps the invariant and every attribution, whatever is received.
LEMMA ConsumeFollows ==
    ASSUME NEW t, TurnInv(t), NEW e \in Events
    PROVE  Follows(t, Consume(t, e))
<1>1. CASE t.broken
  <2>1. Consume(t, e) = t
    BY <1>1 DEF Consume
  <2>2. QED
    BY <1>1, <2>1 DEF Follows
<1>2. CASE ~t.broken
  <2>1. ASSUME NEW u, Follows(t, u) PROVE Follows(t, TryFinalize(u))
    <3>1. TurnInv(u) /\ Follows(u, TryFinalize(u))
      BY <2>1, TryFinalizeFollows DEF Follows
    <3>2. QED
      BY <2>1, <3>1, FollowsFollows
  <2>2. CASE e.kind = "turn_started"
    <3> DEFINE u == [t EXCEPT !.started = TRUE]
    <3>1. u \in TurnType /\ SameAttribution(t, u)
      BY DEF TurnInv, TurnType, SameAttribution
    <3>2. Follows(t, u)
      BY <3>1, SameAttributionFollows
    <3> HIDE DEF u
    <3>3. Follows(t, Require(~t.started, t, u))
      BY <3>2, RequireFollows
    <3>4. QED
      BY <1>2, <2>2, <3>3 DEF Consume, u
  <2>3. CASE e.kind \in {"start", "answer", "done"}
    <3>1. e.child \in Threads /\ (e.kind = "answer" => e.value \in Values)
      BY <2>3 DEF Events
    <3>2. Follows(t, OnChild(t, e))
      BY <1>2, <3>1, ObserveFollows, MeetFollows, ThrowFollows DEF OnChild
    <3>3. QED
      BY <1>2, <2>3, <3>2 DEF Consume
  <2>4. CASE e.kind = "item_started"
    <3>1. e.id \in Items /\ e.tool \in Tools
      BY <2>4 DEF Events, Tools
    <3>2. Follows(t, TryFinalize(ItemStarted(t, e)))
      BY <1>2, <2>1, <3>1, ItemStartedFollows
    <3>3. QED
      BY <1>2, <2>4, <3>2 DEF Consume
  <2>5. CASE e.kind = "item_completed"
    <3>1. e.child \in Threads
      BY <2>5 DEF Events
    <3>2. Follows(t, TryFinalize(ItemCompleted(t, e)))
      BY <1>2, <2>1, <3>1, ItemCompletedFollows
    <3>3. QED
      BY <1>2, <2>5, <3>2 DEF Consume
  <2>6. CASE e.kind = "message"
    <3> DEFINE u == [t EXCEPT !.text = e.step]
    <3>1. e.step \in Receipts
      BY <2>6 DEF Events
    <3>2. u \in TurnType /\ SameAttribution(t, u)
      BY <3>1 DEF TurnInv, TurnType, SameAttribution
    <3>3. Follows(t, u)
      BY <3>2, SameAttributionFollows
    <3> HIDE DEF u
    <3>4. Follows(t, TryFinalize(u))
      BY <2>1, <3>3
    <3>5. QED
      BY <1>2, <2>6, <3>4 DEF Consume, u
  <2>7. CASE e.kind = "turn_completed"
    BY <1>2, <2>7, TurnCompletedFollows DEF Consume
  <2>8. CASE e.kind = "error"
    BY <1>2, <2>8, ThrowFollows DEF Consume
  <2>9. QED
    BY <2>2, <2>3, <2>4, <2>5, <2>6, <2>7, <2>8 DEF Events
<1>3. QED
  BY <1>1, <1>2

\* The replay of what was held keeps the invariant as well.
LEMMA ReplayFollows ==
    ASSUME NEW t, TurnInv(t), NEW s \in Seq(Events)
    PROVE  TurnInv(FoldLeft(Consume, t, s))
<1> DEFINE n == Len(s)
<1>1. n \in Nat /\ DOMAIN s = 1..n /\ \A i \in 1..n : s[i] \in Events
  BY LenProperties, ElementOfSeq
<1>2. PICK f : Unfolds(f, t, s, n) /\ FoldLeft(Consume, t, s) = f[1..n]
  BY <1>1, FoldIsUnfolded
<1> DEFINE D == {k \in Nat : k <= n => TurnInv(f[1..k])}
<1>3. 0 \in D
  <2>1. 1..0 = {} /\ {} \in SUBSET (1..n)
    BY <1>1
  <2>2. f[{}] = t
    BY <1>2, <2>1 DEF Unfolds
  <2>3. QED
    BY <2>1, <2>2
<1>4. ASSUME NEW k \in Nat, k \in D PROVE k + 1 \in D
  <2> SUFFICES ASSUME k + 1 <= n PROVE TurnInv(f[1..(k + 1)])
    OBVIOUS
  <2> DEFINE S == 1..(k + 1)
  <2>1. S \in SUBSET (1..n) /\ S # {} /\ S \in SUBSET (1..(k + 1)) /\ k + 1 \in S
    <3>1. k + 1 \in S
      OBVIOUS
    <3>2. \A i \in S : i \in 1..n
      BY <1>1
    <3>3. QED
      BY <3>1, <3>2
  <2>2. Max(S) = k + 1
    BY <2>1, LastOfPrefix
  <2>3. S \ {k + 1} = 1..k
    OBVIOUS
  <2>4. f[S] = Consume(f[S \ {Max(S)}], s[Max(S)])
    <3> HIDE DEF S
    <3>1. QED
      BY <1>2, <2>1 DEF Unfolds
  <2>5. TurnInv(f[1..k]) /\ s[k + 1] \in Events
    BY <1>1, <1>4
  <2>6. QED
    BY <2>2, <2>3, <2>4, <2>5, ConsumeFollows DEF Follows
<1>5. n \in D
  <2> HIDE DEF D
  <2>1. QED
    BY <1>1, <1>3, <1>4, Induction
<1>6. QED
  BY <1>1, <1>2, <1>5

-------------------------------------------------------------------------------
(* The run. *)

Results == [child : Threads, ok : BOOLEAN, value : Values]

\* What validateChildren has accepted, while notifications go on extending the spawns.
AcceptedSoFar ==
    /\ Required <= Len(turn.spawns) /\ Len(results) < Len(turn.spawns)
    /\ \A i \in 1..Len(results) : results[i].ok = ~Repaired(i) /\ turn.spawns[i].child = results[i].child

RunInv ==
    /\ phase \in {"starting", "awaiting", "validating", "failed", "returned"}
    /\ buffer \in Seq(Events)
    /\ results \in Seq(Results)
    /\ TurnInv(turn)
    /\ phase \in {"starting", "awaiting"} => results = <<>>
    /\ phase = "validating" /\ ~turn.broken => AcceptedSoFar
    /\ ResultIsAnExecution

LEMMA RunInvInit == HostInit => RunInv
BY NewTurnFits, EmptySeq DEF HostInit, RunInv, ResultIsAnExecution

LEMMA RunInvNotify ==
    ASSUME RunInv, NEW e \in Events, Notify(e)
    PROVE  RunInv'
<1>1. CASE Hold(e)
  <2>1. Append(buffer, e) \in Seq(Events)
    BY AppendProperties DEF RunInv
  <2>2. QED
    BY <1>1, <2>1 DEF Hold, RunInv, ResultIsAnExecution, AcceptedSoFar, Repaired
<1>2. CASE Handle(e)
  <2>1. Follows(turn, turn') /\ TurnInv(turn) /\ TurnInv(turn)'
    BY <1>2, ConsumeFollows DEF Handle, RunInv, Follows
  <2>2. phase' = "validating" /\ ~turn'.broken => AcceptedSoFar'
    <3> SUFFICES ASSUME phase' = "validating", ~turn'.broken PROVE AcceptedSoFar'
      OBVIOUS
    <3>1. AcceptedSoFar /\ Extends(turn, turn') /\ results' = results
      BY <1>2, <2>1 DEF Handle, RunInv, Follows
    <3>2. turn \in TurnType /\ turn' \in TurnType /\ Len(results) \in Nat
      BY <2>1, LenProperties DEF TurnInv, RunInv
    <3>3. /\ Len(turn.spawns) \in Nat /\ Len(turn'.spawns) \in Nat
          /\ DOMAIN turn.spawns = 1..Len(turn.spawns)
      BY <3>2, SpawnsLength
    <3>4. Required <= Len(turn'.spawns) /\ Len(results) < Len(turn'.spawns)
      BY <3>1, <3>2, <3>3, StepsAssumption DEF AcceptedSoFar, Extends
    <3>5. ASSUME NEW i \in 1..Len(results)
          PROVE  results[i].ok = ~Repaired(i) /\ turn'.spawns[i].child = results[i].child
      <4>1. i \in DOMAIN turn.spawns
        BY <3>1, <3>2, <3>3, <3>5 DEF AcceptedSoFar
      <4>2. QED
        BY <3>1, <3>5, <4>1, Zenon DEF AcceptedSoFar, Extends
    <3>6. QED
      BY <3>1, <3>4, <3>5, Zenon DEF AcceptedSoFar, Repaired
  <2>3. QED
    BY <1>2, <2>1, <2>2 DEF Handle, RunInv, ResultIsAnExecution
<1>3. QED
  BY <1>1, <1>2 DEF Notify

LEMMA RunInvReadChild ==
    ASSUME RunInv, NEW child \in Threadlike, ReadChild(child)
    PROVE  RunInv'
<1>1. /\ phase = "validating" /\ ~turn.broken /\ AcceptedSoFar /\ turn' = turn /\ buffer' = buffer
      /\ turn \in TurnType /\ Len(turn.spawns) <= Steps
  BY DEF ReadChild, RunInv, TurnInv
<1>2. /\ Len(results) \in Nat /\ At \in 1..Len(turn.spawns) /\ Len(turn.spawns) \in Nat
      /\ DOMAIN results = 1..Len(results)
  BY <1>1, SpawnsLength, LenProperties DEF RunInv, AcceptedSoFar, At
<1>3. CASE ~Acceptable(child)
  BY <1>1, <1>3 DEF ReadChild, RunInv, ResultIsAnExecution
<1>4. CASE Acceptable(child)
  <2> DEFINE r == [child |-> turn.spawns[At].child, ok |-> child.ok, value |-> child.value]
  <2>1. r \in Results
    BY <1>1, <1>2, SpawnsLength DEF Results, Threadlike, Spawns
  <2>2. results' = Append(results, r)
    BY <1>4 DEF ReadChild, Accepted
  <2>3. /\ results' \in Seq(Results) /\ Len(results') = At /\ DOMAIN results' = 1..At
        /\ results'[At].ok = child.ok /\ results'[At].child = turn.spawns[At].child
        /\ \A i \in 1..Len(results) : results'[i] = results[i]
    BY <1>2, <2>1, <2>2, AppendProperties, LenProperties DEF RunInv, At
  <2>4. IF Repaired(At) THEN child.ok # (Len(turn.spawns) > At) ELSE child.ok
    BY <1>4 DEF Acceptable
  <2>5. child.ok \in BOOLEAN
    BY DEF Threadlike
  <2>6. \A i \in 1..Len(results) : /\ results'[i].ok = ~Repaired(i)
                                   /\ turn.spawns[i].child = results'[i].child
    BY <1>1, <2>3 DEF AcceptedSoFar
  <2>7. CASE At < Len(turn.spawns)
    <3>1. phase' = "validating"
      BY <1>4, <2>7 DEF ReadChild
    <3>2. results'[At].ok = ~Repaired(At)
      BY <2>3, <2>4, <2>5, <2>7
    <3>3. \A i \in 1..At : results'[i].ok = ~Repaired(i) /\ turn.spawns[i].child = results'[i].child
      BY <1>2, <2>3, <2>6, <3>2 DEF At
    <3>4. AcceptedSoFar'
      BY <1>1, <2>3, <2>7, <3>3 DEF AcceptedSoFar, Repaired
    <3>5. QED
      BY <1>1, <2>3, <3>1, <3>4 DEF RunInv, ResultIsAnExecution
  <2>8. CASE At = Len(turn.spawns)
    <3>1. child.ok
      BY <1>2, <2>4, <2>5, <2>8
    <3>2. phase' = "returned" => turn.text = At
      BY <1>4, <2>8 DEF ReadChild
    <3>3. phase' \in {"returned", "failed"}
      BY <1>4, <1>2, <2>8 DEF ReadChild
    <3>4. Len(results') \in Required..Steps
      BY <1>1, <1>2, <2>3, <2>8, StepsAssumption DEF AcceptedSoFar
    <3>5. ResultIsAnExecution'
      <4>1. \A i \in 1..(Len(results') - 1) : results'[i].ok = ~Repaired(i)
        BY <1>2, <2>3, <2>6 DEF At
      <4>2. \A i \in DOMAIN results' : turn.spawns[i].child = results'[i].child
        BY <1>2, <2>3, <2>6 DEF At
      <4>3. QED
        BY <1>1, <2>3, <3>1, <3>2, <3>4, <4>1, <4>2 DEF ResultIsAnExecution, Repaired
    <3>6. QED
      BY <1>1, <2>3, <3>3, <3>5 DEF RunInv
  <2>9. QED
    BY <1>2, <2>7, <2>8
<1>5. QED
  BY <1>3, <1>4

LEMMA RunInvNext == RunInv /\ [Next]_hostVars => RunInv'
<1> SUFFICES ASSUME RunInv, [Next]_hostVars PROVE RunInv'
  OBVIOUS
<1>1. ASSUME NEW e \in Events, ServerSays(e) PROVE RunInv'
  BY <1>1, RunInvNotify DEF ServerSays
<1>2. ASSUME NEW child \in Threadlike, ReadChild(child) PROVE RunInv'
  BY <1>2, RunInvReadChild
<1>3. CASE Respond
  <2>1. TurnInv(turn)'
    BY <1>3, ReplayFollows DEF Respond, RunInv
  <2>2. QED
    BY <1>3, <2>1, EmptySeq DEF Respond, RunInv, ResultIsAnExecution
<1>4. CASE Refuse
  BY <1>4, EmptySeq DEF Refuse, RunInv, ResultIsAnExecution
<1>5. CASE Continue
  <2>1. phase' = "validating" => AcceptedSoFar'
    BY <1>5, EmptySeq, StepsAssumption DEF Continue, RunInv, AcceptedSoFar
  <2>2. phase' \in {"validating", "failed"}
    BY <1>5 DEF Continue
  <2>3. QED
    BY <1>5, <2>1, <2>2 DEF Continue, RunInv, ResultIsAnExecution
<1>6. CASE Reject
  BY <1>6 DEF Reject, RunInv, ResultIsAnExecution
<1>7. CASE ReadFails
  BY <1>7 DEF ReadFails, RunInv, ResultIsAnExecution
<1>8. CASE UNCHANGED hostVars
  BY <1>8 DEF hostVars, RunInv, ResultIsAnExecution, AcceptedSoFar, Repaired
<1>9. QED
  BY <1>1, <1>2, <1>3, <1>4, <1>5, <1>6, <1>7, <1>8 DEF Next

LEMMA TurnsAnswersFindTheirSteps == RunInv => AnswersFindTheirSteps
BY DEF RunInv, TurnInv, AnswersHaveAPlace, SpawnsHadInputs, AnswersFindTheirSteps, AnswersStayAttributed, NoSpawnBeforeItsInput

LEMMA AlwaysRunInv == Spec => []RunInv
BY RunInvInit, RunInvNext, PTL DEF Spec

\* Whatever the app-server sends, and in whatever order, an answer is held against the step
\* that its thread ends up attributed to, and no child is attributed before the one that it
\* depends on was heard (orchestrate_runtime.ts: observeChildNotification, onCollabItem,
\* synthesizeDirectCollaboration).
THEOREM AnswersAreAttributed == Spec => []AnswersFindTheirSteps
BY AlwaysRunInv, TurnsAnswersFindTheirSteps, PTL

\* Whatever it answers when the children are read back, a run that is returned is one
\* execution of the component (validateChildren).
THEOREM ReturnedIsAnExecution == Spec => []ResultIsAnExecution
<1>1. RunInv => ResultIsAnExecution
  BY DEF RunInv
<1>2. QED
  BY <1>1, AlwaysRunInv, PTL

-------------------------------------------------------------------------------
(* A server that does what it was told. *)

\* The two orders of the README's findings: a wait before its spawn, and the records of the
\* only step after the turn.
OrdersAreKept == "early_wait" \notin Orders /\ ("late" \in Orders => Required > 1)

Replies == [child : Threads, ok : BOOLEAN, value : Values]
ServerFields == {"order", "step", "said", "answers"}
AllKinds == Kinds \cup {"answer"}

\* How many children have answered.
HeardBy(s) == IF "answer" \in s.said THEN s.step ELSE s.step - 1

\* The server went on exactly where an answer told it to.
AnswersFit(s) ==
    /\ s.answers \in Seq(Replies)
    /\ Len(s.answers) = IF s.step = 0 THEN 0 ELSE HeardBy(s)
    /\ \A j \in 1..Len(s.answers) : s.answers[j].child = j
    /\ \A j \in 1..(s.step - 1) : PreparesNext(j, s.answers[j])

SaidInOrder(s) ==
    /\ \A kind \in s.said : kind \in Course(s) \cup Ending /\ Awaits(s, kind) \subseteq s.said
    /\ s.said \cap Ending # {} => Ends(s)
    /\ Course(s) \subseteq s.said => Ends(s)
    /\ "start" \in s.said => s.step \in Threads

\* A state this server can be in.
Server(s) ==
    /\ DOMAIN s = ServerFields
    /\ s.order # "early_wait" /\ (s.order = "late" => Required > 1)
    /\ s.step \in 0..Steps /\ (s.step = 0 => s.said = {})
    /\ AnswersFit(s) /\ SaidInOrder(s)

\* What a server does next, and what it says of it.
Tells(s, e, u) ==
    \/ \E kind \in Kinds : Admits(s, kind) /\ e = Notice(kind, s.step) /\ u = After(s, kind)
    \/ \E ok \in BOOLEAN, value \in Values :
           Admits(s, "answer") /\ e = AnswerNotice(s.step, ok, value) /\ u = AfterAnswer(s, ok, value)

LEMMA WhatWasSaid ==
    ASSUME NEW s, Server(s)
    PROVE  LET S == s.said IN
           /\ s.order = "direct" => "spawning" \notin S /\ "spawned" \notin S
           /\ "turn_started" \notin S
           /\ "spawned" \in S => "spawning" \in S
           /\ "start" \in S => "spawning" \in S \/ s.order = "direct"
           /\ "answer" \in S => "start" \in S
           /\ "waiting" \in S => "start" \in S
           /\ "done" \in S => "answer" \in S
           /\ "waited" \in S => "waiting" \in S /\ "done" \in S /\ ("spawned" \in S \/ s.order = "direct")
           /\ "message" \in S => "waiting" \in S /\ "done" \in S /\ (s.order = "late" \/ Course(s) \subseteq S)
           /\ "turn_completed" \in S => "message" \in S
<1>1. \A kind \in s.said : kind \in Course(s) \cup Ending /\ Awaits(s, kind) \subseteq s.said
  BY DEF Server, SaidInOrder
<1>2. s.order # "early_wait"
  BY DEF Server
<1>3. /\ "spawned" \in s.said => "spawning" \in s.said
      /\ "start" \in s.said => "spawning" \in s.said \/ s.order = "direct"
      /\ "answer" \in s.said => "start" \in s.said
      /\ "waiting" \in s.said => "start" \in s.said
      /\ "done" \in s.said => "answer" \in s.said
      /\ "turn_completed" \in s.said => "message" \in s.said
  BY <1>1 DEF Awaits, Course
<1>4. "waited" \in s.said => "waiting" \in s.said /\ "done" \in s.said /\ ("spawned" \in s.said \/ s.order = "direct")
  BY <1>1, <1>2 DEF Awaits, Course
<1>5. "message" \in s.said => s.order = "late" \/ Course(s) \subseteq s.said
  BY <1>1 DEF Awaits
<1>6. "message" \in s.said => "waiting" \in s.said /\ "done" \in s.said
  BY <1>1 DEF Awaits, Course
<1>7. /\ s.order = "direct" => "spawning" \notin s.said /\ "spawned" \notin s.said
      /\ "turn_started" \notin s.said
  BY <1>1 DEF Course, Ending
<1>8. QED
  BY <1>3, <1>4, <1>5, <1>6, <1>7

LEMMA AnswerTypes ==
    ASSUME NEW s, Server(s)
    PROVE  /\ s.step \in Nat /\ s.step <= Steps /\ Steps \in Nat /\ Required \in Nat /\ 1 <= Required /\ Required <= Steps
           /\ Len(s.answers) \in Nat /\ DOMAIN s.answers = 1..Len(s.answers)
           /\ Len(s.answers) = IF s.step = 0 THEN 0 ELSE HeardBy(s)
           /\ \A j \in 1..Len(s.answers) :
                  /\ s.answers[j] \in Replies /\ s.answers[j].child = j /\ j \in Threads
                  /\ s.answers[j].ok \in BOOLEAN /\ s.answers[j].value \in Values
           /\ "answer" \in s.said => s.step # 0
<1>1. s.answers \in Seq(Replies) /\ s.step \in 0..Steps /\ AnswersFit(s)
  BY DEF Server, AnswersFit
<1>2. Len(s.answers) \in Nat /\ DOMAIN s.answers = 1..Len(s.answers) /\ \A j \in 1..Len(s.answers) : s.answers[j] \in Replies
  BY <1>1, LenProperties, ElementOfSeq
<1>3. \A j \in 1..Len(s.answers) : j \in Threads /\ s.answers[j].ok \in BOOLEAN /\ s.answers[j].value \in Values
  BY <1>1, <1>2 DEF AnswersFit, Replies
<1>4. "answer" \in s.said => s.step # 0
  BY DEF Server
<1>5. QED
  BY <1>1, <1>2, <1>3, <1>4, StepsAssumption DEF AnswersFit

\* What is said of a step leaves a server that has said it.
Noted(s, kind) == [s EXCEPT !.said = @ \cup {kind}]

LEMMA NoteFields ==
    ASSUME NEW s, Server(s), NEW kind
    PROVE  /\ DOMAIN Noted(s, kind) = ServerFields
           /\ Noted(s, kind).order = s.order /\ Noted(s, kind).step = s.step /\ Noted(s, kind).answers = s.answers
           /\ Noted(s, kind).said = s.said \cup {kind}
BY DEF Server, ServerFields, Noted

\* The page is turned when all was said of a step that is not the last.
NextPage(s) == [s EXCEPT !.step = @ + 1, !.said = {}]

LEMMA PageFields ==
    ASSUME NEW s, DOMAIN s = ServerFields
    PROVE  /\ DOMAIN NextPage(s) = ServerFields
           /\ NextPage(s).order = s.order /\ NextPage(s).step = s.step + 1 /\ NextPage(s).answers = s.answers
           /\ NextPage(s).said = {}
BY DEF ServerFields, NextPage

LEMMA AfterIsNoted ==
    ASSUME NEW s, Server(s), NEW kind
    PROVE  \/ /\ After(s, kind) = Noted(s, kind)
              /\ kind # "turn_started" /\ (Noted(s, kind).said = Course(s) => Ends(s))
           \/ /\ After(s, kind) = NextPage(Noted(s, kind))
              /\ kind = "turn_started" \/ (Noted(s, kind).said = Course(s) /\ ~Ends(s))
<1>1. DOMAIN s = ServerFields /\ Noted(s, kind).said = s.said \cup {kind}
  BY NoteFields DEF Server
<1>2. [s EXCEPT !.step = @ + 1, !.said = {}] = NextPage(Noted(s, kind))
  BY <1>1 DEF ServerFields, NextPage, Noted
<1>3. QED
  BY <1>1, <1>2 DEF After, Noted

LEMMA ServerNoted ==
    ASSUME NEW s, Server(s), NEW kind \in Kinds, Admits(s, kind), kind # "turn_started"
    PROVE  /\ s.step # 0 /\ kind \notin s.said /\ kind \in Course(s) \cup Ending
           /\ Awaits(s, kind) \subseteq s.said /\ (kind \in Ending => Ends(s))
           /\ (Noted(s, kind).said = Course(s) => Ends(s)) => Server(Noted(s, kind))
<1> DEFINE u == Noted(s, kind)
<1>1. /\ s.step # 0 /\ kind \notin s.said /\ kind \in Course(s) \cup Ending
      /\ Awaits(s, kind) \subseteq s.said /\ (kind \in Ending => Ends(s)) /\ (kind = "start" => s.step \in Threads)
  BY DEF Admits
<1>2. /\ DOMAIN u = ServerFields /\ u.order = s.order /\ u.step = s.step /\ u.answers = s.answers
      /\ u.said = s.said \cup {kind}
  BY NoteFields
<1> HIDE DEF u
<1>3. kind # "answer"
  BY DEF Kinds, Ending
<1>4. Ends(u) = Ends(s) /\ Course(u) = Course(s) /\ (\A k : Awaits(u, k) = Awaits(s, k)) /\ HeardBy(u) = HeardBy(s)
  BY <1>2, <1>3 DEF Ends, Course, Awaits, HeardBy
<1>5. AnswersFit(u)
  BY <1>2, <1>4 DEF AnswersFit, Server
<1>6. ASSUME u.said = Course(s) => Ends(s) PROVE Server(u)
  <2>1. SaidInOrder(s)
    BY DEF Server
  <2>2. Course(s) \cap Ending = {}
    BY DEF Course, Ending
  <2>3. \A k \in u.said : k \in Course(u) \cup Ending /\ Awaits(u, k) \subseteq u.said
    BY <1>1, <1>2, <1>4, <2>1 DEF SaidInOrder
  <2>4. u.said \cap Ending # {} => Ends(u)
    BY <1>1, <1>2, <1>4, <2>1 DEF SaidInOrder
  <2>5. Course(u) \subseteq u.said => Ends(u)
    BY <1>2, <1>4, <1>6, <2>3, <2>4
  <2>6. "start" \in u.said => u.step \in Threads
    BY <1>1, <1>2, <2>1 DEF SaidInOrder
  <2>7. QED
    BY <1>1, <1>2, <1>5, <2>3, <2>4, <2>5, <2>6 DEF Server, SaidInOrder
<1>7. QED
  BY <1>1, <1>6 DEF u

LEMMA ServerTurnsPage ==
    ASSUME NEW s, Server(s), NEW kind \in Kinds, Admits(s, kind), kind # "turn_started",
           Noted(s, kind).said = Course(s), ~Ends(s)
    PROVE  Server(NextPage(Noted(s, kind))) /\ s.step < Steps /\ "answer" \in s.said
<1> DEFINE n == Noted(s, kind)
           u == NextPage(n)
<1>1. s.step # 0 /\ n.said = s.said \cup {kind} /\ n.order = s.order /\ n.step = s.step /\ n.answers = s.answers /\ DOMAIN n = ServerFields
  BY NoteFields, ServerNoted
<1>2. "answer" \in s.said
  BY <1>1 DEF Course, Kinds, Ending
<1>3. PreparesNext(s.step, s.answers[s.step])
  BY <1>2 DEF Ends
<1> HIDE DEF n
<1>4. /\ DOMAIN u = ServerFields /\ u.order = s.order /\ u.step = s.step + 1 /\ u.answers = s.answers /\ u.said = {}
  BY <1>1, PageFields
<1> HIDE DEF u
<1>5. s.step < Steps /\ s.step \in Nat
  BY <1>3, AnswerTypes DEF PreparesNext
<1>6. AnswersFit(u)
  <2>1. Len(u.answers) = s.step /\ u.answers \in Seq(Replies) /\ \A j \in 1..Len(u.answers) : u.answers[j].child = j
    BY <1>1, <1>2, <1>4 DEF Server, AnswersFit, HeardBy
  <2>2. HeardBy(u) = s.step /\ u.step # 0
    BY <1>4, <1>5 DEF HeardBy
  <2>3. \A j \in 1..(u.step - 1) : PreparesNext(j, u.answers[j])
    <3>1. \A j \in 1..s.step : PreparesNext(j, s.answers[j])
      BY <1>3, <1>5 DEF Server, AnswersFit
    <3>2. QED
      BY <1>4, <1>5, <3>1
  <2>4. QED
    BY <2>1, <2>2, <2>3 DEF AnswersFit
<1>7. SaidInOrder(u)
  BY <1>4 DEF SaidInOrder, Course
<1>8. Server(u)
  BY <1>4, <1>5, <1>6, <1>7, AnswerTypes DEF Server
<1>9. QED
  BY <1>2, <1>5, <1>8 DEF u, n

LEMMA ServerBegins ==
    ASSUME NEW s, Server(s), Admits(s, "turn_started")
    PROVE  /\ s.step = 0 /\ s.said = {} /\ s.answers = <<>>
           /\ After(s, "turn_started") = NextPage(s) /\ Server(NextPage(s))
<1>1. s.step = 0 /\ s.said = {}
  BY DEF Admits, Course, Ending, Server
<1>2. s.answers = <<>> /\ DOMAIN s = ServerFields
  BY <1>1 DEF Server, AnswersFit
<1>3. After(s, "turn_started") = NextPage(s)
  BY DEF After, NextPage
<1> DEFINE u == NextPage(s)
<1>4. DOMAIN u = ServerFields /\ u.order = s.order /\ u.step = 1 /\ u.said = {} /\ u.answers = <<>>
  BY <1>1, <1>2, PageFields
<1> HIDE DEF u
<1>5. AnswersFit(u)
  BY <1>4 DEF AnswersFit, HeardBy
<1>6. SaidInOrder(u)
  BY <1>4 DEF SaidInOrder, Course
<1>7. Server(u)
  BY <1>4, <1>5, <1>6, StepsAssumption DEF Server
<1>8. QED
  BY <1>1, <1>2, <1>3, <1>7 DEF u

LEMMA ServerAnswers ==
    ASSUME NEW s, Server(s), Admits(s, "answer"), NEW ok \in BOOLEAN, NEW value \in Values
    PROVE  LET u == AfterAnswer(s, ok, value) IN
           /\ s.step # 0 /\ "answer" \notin s.said /\ "start" \in s.said /\ s.step \in Threads
           /\ s.said \cap Ending = {} /\ "done" \notin s.said /\ "waited" \notin s.said
           /\ u.order = s.order /\ u.step = s.step /\ u.said = s.said \cup {"answer"}
           /\ u.answers = Append(s.answers, [child |-> s.step, ok |-> ok, value |-> value])
           /\ Len(s.answers) = s.step - 1
           /\ Server(u)
<1> DEFINE u == AfterAnswer(s, ok, value)
           r == [child |-> s.step, ok |-> ok, value |-> value]
<1>1. s.step # 0 /\ "answer" \notin s.said /\ "start" \in s.said
  BY DEF Admits, Awaits, Ending
<1>2. s.step \in Threads /\ "done" \notin s.said /\ "message" \notin s.said /\ "turn_completed" \notin s.said /\ "waited" \notin s.said
  BY <1>1, WhatWasSaid DEF Server, SaidInOrder
<1>3. DOMAIN u = ServerFields /\ u.order = s.order /\ u.step = s.step /\ u.said = s.said \cup {"answer"} /\ u.answers = Append(s.answers, r)
  BY DEF AfterAnswer, Server, ServerFields
<1>4. Len(s.answers) = s.step - 1 /\ s.answers \in Seq(Replies) /\ s.step \in Nat
  BY <1>1, AnswerTypes DEF HeardBy, Server, AnswersFit
<1>5. r \in Replies /\ r.child = s.step
  BY <1>2 DEF Replies
<1> HIDE DEF u, r
<1>6. /\ Len(u.answers) = s.step /\ u.answers \in Seq(Replies) /\ u.answers[s.step] = r
      /\ \A j \in 1..(s.step - 1) : u.answers[j] = s.answers[j]
  BY <1>3, <1>4, <1>5, AppendProperties
<1>7. AnswersFit(u)
  <2>1. \A j \in 1..Len(u.answers) : u.answers[j].child = j
    BY <1>4, <1>5, <1>6 DEF Server, AnswersFit
  <2>2. \A j \in 1..(u.step - 1) : PreparesNext(j, u.answers[j])
    BY <1>3, <1>6 DEF Server, AnswersFit
  <2>3. QED
    BY <1>1, <1>3, <1>6, <2>1, <2>2 DEF AnswersFit, HeardBy
<1>8. SaidInOrder(u)
  <2>1. SaidInOrder(s)
    BY DEF Server
  <2>2. Course(u) = Course(s) /\ \A k : Awaits(u, k) = Awaits(s, k)
    BY <1>3 DEF Course, Awaits
  <2>3. Awaits(s, "answer") \subseteq s.said /\ "answer" \in Course(s) /\ "done" \in Course(s) /\ "done" \notin u.said
    BY <1>2, <1>3 DEF Admits, Course
  <2>4. u.said \cap Ending = {}
    BY <1>2, <1>3 DEF Ending
  <2>5. QED
    BY <1>2, <1>3, <2>1, <2>2, <2>3, <2>4 DEF SaidInOrder
<1>9. Server(u)
  BY <1>1, <1>3, <1>7, <1>8 DEF Server
<1>10. s.said \cap Ending = {}
  BY <1>2 DEF Ending
<1>11. QED
  BY <1>1, <1>2, <1>3, <1>4, <1>9, <1>10 DEF u, r

LEMMA ServerTells ==
    ASSUME NEW s, Server(s), NEW e, NEW u, Tells(s, e, u)
    PROVE  Server(u)
<1>1. CASE \E kind \in Kinds : Admits(s, kind) /\ u = After(s, kind)
  <2>1. PICK kind \in Kinds : Admits(s, kind) /\ u = After(s, kind)
    BY <1>1
  <2>2. CASE kind = "turn_started"
    BY <2>1, <2>2, ServerBegins
  <2>3. CASE kind # "turn_started"
    <3>1. CASE u = Noted(s, kind) /\ (Noted(s, kind).said = Course(s) => Ends(s))
      BY <2>1, <2>3, <3>1, ServerNoted
    <3>2. CASE u = NextPage(Noted(s, kind)) /\ Noted(s, kind).said = Course(s) /\ ~Ends(s)
      BY <2>1, <2>3, <3>2, ServerTurnsPage
    <3>3. QED
      BY <2>1, <2>3, <3>1, <3>2, AfterIsNoted
  <2>4. QED
    BY <2>2, <2>3
<1>2. CASE \E ok \in BOOLEAN, value \in Values : Admits(s, "answer") /\ u = AfterAnswer(s, ok, value)
  <2>1. PICK ok \in BOOLEAN, value \in Values : Admits(s, "answer") /\ u = AfterAnswer(s, ok, value)
    BY <1>2
  <2>2. Server(AfterAnswer(s, ok, value))
    BY <2>1, ServerAnswers
  <2>3. QED
    BY <2>1, <2>2
<1>3. QED
  BY <1>1, <1>2 DEF Tells

\* Nothing is said after the turn.
Finished(s) == s.step # 0 /\ Course(s) \cup Ending \subseteq s.said

LEMMA NothingAfter ==
    ASSUME NEW s, Finished(s), NEW e, NEW u
    PROVE  ~Tells(s, e, u)
BY DEF Finished, Tells, Admits, Course

LEMMA FinishedEnds ==
    ASSUME NEW s, Server(s), Finished(s)
    PROVE  /\ s.step \in 1..Steps /\ Len(s.answers) = s.step /\ ~PreparesNext(s.step, s.answers[s.step])
           /\ Last(s.answers) = s.answers[s.step]
<1>1. "answer" \in s.said /\ s.step # 0 /\ Ends(s)
  BY DEF Finished, Course, Ending, Server, SaidInOrder
<1>2. QED
  BY <1>1, AnswerTypes DEF HeardBy, Ends, Last

-------------------------------------------------------------------------------
(* The turn of a host that has handled everything up to a state of the server. *)

TurnFields == {"started", "spawns", "pending", "strangers", "ended", "waits", "requests", "file",
               "answers", "text", "over", "end", "broken"}

\* How many children were met, have ended, were waited for and were attributed.
Met(s) == IF "start" \in s.said THEN s.step ELSE s.step - 1
Ready(s) == IF "done" \in s.said THEN s.step ELSE s.step - 1
Awaited(s) == IF "waited" \in s.said THEN s.step ELSE s.step - 1
Known(s) == IF s.order = "direct" THEN (IF "turn_completed" \in s.said THEN s.step ELSE 0)
            ELSE (IF "spawned" \in s.said THEN s.step ELSE s.step - 1)

Prepared(s, j) == j \in 1..Len(s.answers) /\ PreparesNext(j, s.answers[j])
Requests(s) == [j \in 1..Steps |-> IF j = 1 THEN NoValue
                                   ELSE IF Prepared(s, j - 1) THEN s.answers[j - 1].value ELSE Unset]
SpawnAt(s, j) == [child |-> j, request |-> Requests(s)[j], waited |-> j <= Awaited(s)]
Attributed(s) == [j \in 1..Known(s) |-> SpawnAt(s, j)]
Unattributed(s) == [p \in 1..(Met(s) - Known(s)) |-> Known(s) + p]
Item(tool, i) == <<<<tool, i>>, tool>>
Open(s) == (IF "spawning" \in s.said /\ "spawned" \notin s.said THEN {Item("spawn", s.step)} ELSE {})
           \cup (IF "waiting" \in s.said /\ "waited" \notin s.said THEN {Item("wait", s.step)} ELSE {})
Deferred(s) == IF s.order = "direct" /\ "turn_completed" \notin s.said THEN [j \in 1..Awaited(s) |-> j] ELSE <<>>
HeardAll(s) == [c \in Threads |-> IF c \in 1..Len(s.answers) THEN c ELSE 0]
Over(s) == "turn_completed" \in s.said

IsTurn(t) == t = [field \in TurnFields |-> t[field]]

Looks(s, t) ==
    /\ IsTurn(t)
    /\ t.started = (s.step # 0)
    /\ t.spawns = Attributed(s)
    /\ t.pending = Open(s)
    /\ t.strangers = Unattributed(s)
    /\ t.ended = (Known(s) + 1)..Ready(s)
    /\ t.waits = Deferred(s)
    /\ t.requests = Requests(s)
    /\ t.answers = HeardAll(s)
    /\ t.text = (IF "message" \in s.said THEN s.step ELSE 0)
    /\ t.over = (Over(s) /\ ~Finished(s))
    /\ t.end = (IF Finished(s) THEN "resolved" ELSE "no")
    /\ t.broken = FALSE

LEMMA NewTurnLooks ==
    ASSUME NEW order
    PROVE  Looks(NewServer(order), NewTurn)
<1> DEFINE s == NewServer(order)
<1>1. s.order = order /\ s.step = 0 /\ s.said = {} /\ s.answers = <<>>
  BY DEF NewServer
<1> HIDE DEF s
<1>2. Met(s) = -1 /\ Ready(s) = -1 /\ Awaited(s) = -1 /\ Known(s) \in {-1, 0} /\ Open(s) = {} /\ ~Over(s) /\ ~Finished(s)
  BY <1>1 DEF Met, Ready, Awaited, Known, Open, Over, Finished
<1>3. Attributed(s) = <<>> /\ Unattributed(s) = <<>> /\ Deferred(s) = <<>> /\ (Known(s) + 1)..Ready(s) = {}
  BY <1>1, <1>2 DEF Attributed, Unattributed, Deferred
<1>4. Requests(s) = NewTurn.requests
  BY <1>1 DEF Requests, NewTurn, Prepared
<1>5. HeardAll(s) = NewTurn.answers
  BY <1>1 DEF HeardAll, NewTurn
<1>6. Looks(s, NewTurn)
  BY <1>1, <1>2, <1>3, <1>4, <1>5 DEF Looks, NewTurn, IsTurn, TurnFields
<1>7. QED
  BY <1>6 DEF s

\* A step of which all was said looks like the next of which nothing was.
LEMMA PageLooks ==
    ASSUME NEW s, DOMAIN s = ServerFields, s.step \in Nat \ {0}, s.said = Course(s), NEW t, Looks(s, t)
    PROVE  Looks(NextPage(s), t)
<1> DEFINE u == NextPage(s)
<1>1. u.order = s.order /\ u.step = s.step + 1 /\ u.said = {} /\ u.answers = s.answers
  BY PageFields
<1> HIDE DEF u
<1>2. Met(u) = Met(s) /\ Ready(u) = Ready(s) /\ Awaited(u) = Awaited(s) /\ Known(u) = Known(s)
  BY <1>1 DEF Met, Ready, Awaited, Known, Course
<1>3. Open(u) = {} /\ Open(s) = {} /\ ~Over(u) /\ ~Over(s) /\ ~Finished(u) /\ ~Finished(s) /\ "message" \notin s.said
  BY <1>1 DEF Open, Over, Finished, Course, Ending
<1>4. Requests(u) = Requests(s) /\ HeardAll(u) = HeardAll(s)
  BY <1>1 DEF Requests, HeardAll, Prepared
<1>5. Attributed(u) = Attributed(s) /\ Unattributed(u) = Unattributed(s) /\ Deferred(u) = Deferred(s)
  BY <1>1, <1>2, <1>3, <1>4 DEF Attributed, Unattributed, Deferred, SpawnAt, Over
<1>6. Looks(u, t)
  BY <1>1, <1>2, <1>3, <1>4, <1>5 DEF Looks
<1>7. QED
  BY <1>6 DEF u

LEMMA TurnStartedLooks ==
    ASSUME NEW s, Server(s), Admits(s, "turn_started"), NEW t, Looks(s, t)
    PROVE  Looks(NextPage(s), Consume(t, Notice("turn_started", s.step)))
<1> DEFINE u == NextPage(s)
           w == [t EXCEPT !.started = TRUE]
<1>1. s.step = 0 /\ s.said = {} /\ s.answers = <<>> /\ DOMAIN s = ServerFields
  BY ServerBegins DEF Server
<1>2. u.order = s.order /\ u.step = 1 /\ u.said = {} /\ u.answers = <<>>
  BY <1>1, PageFields
<1> HIDE DEF u
<1>3. Consume(t, Notice("turn_started", s.step)) = w
  BY <1>1 DEF Consume, Notice, Require, Looks
<1>4. /\ IsTurn(w) /\ w.started = TRUE /\ w.spawns = t.spawns /\ w.pending = t.pending
      /\ w.strangers = t.strangers /\ w.ended = t.ended /\ w.waits = t.waits /\ w.requests = t.requests
      /\ w.answers = t.answers /\ w.text = t.text /\ w.over = t.over /\ w.end = t.end /\ w.broken = t.broken
  BY DEF Looks, IsTurn, TurnFields
<1> HIDE DEF w
<1>5. /\ Met(s) = -1 /\ Ready(s) = -1 /\ Awaited(s) = -1 /\ Known(s) \in {-1, 0}
      /\ Met(u) = 0 /\ Ready(u) = 0 /\ Awaited(u) = 0 /\ Known(u) = 0
  BY <1>1, <1>2 DEF Met, Ready, Awaited, Known
<1>6. Open(u) = {} /\ Open(s) = {} /\ ~Over(u) /\ ~Over(s) /\ ~Finished(u) /\ ~Finished(s)
  BY <1>1, <1>2 DEF Open, Over, Finished, Ending
<1>7. Requests(u) = Requests(s) /\ HeardAll(u) = HeardAll(s)
  BY <1>1, <1>2 DEF Requests, HeardAll, Prepared
<1>8. /\ Attributed(u) = <<>> /\ Unattributed(u) = <<>> /\ Deferred(u) = <<>> /\ (Known(u) + 1)..Ready(u) = {}
      /\ Attributed(s) = <<>> /\ Unattributed(s) = <<>> /\ Deferred(s) = <<>> /\ (Known(s) + 1)..Ready(s) = {}
  BY <1>1, <1>2, <1>5 DEF Attributed, Unattributed, Deferred
<1>9. Looks(u, w)
  <2>1. /\ t.spawns = <<>> /\ t.pending = {} /\ t.strangers = <<>> /\ t.ended = {} /\ t.waits = <<>>
        /\ t.requests = Requests(u) /\ t.answers = HeardAll(u) /\ t.text = 0 /\ t.over = FALSE /\ t.end = "no"
        /\ t.broken = FALSE
    BY <1>1, <1>6, <1>7, <1>8 DEF Looks
  <2>2. (u.step # 0) = TRUE /\ (Over(u) /\ ~Finished(u)) = FALSE /\ "message" \notin u.said
    BY <1>2, <1>6
  <2>3. QED
    BY ONLY <1>4, <1>6, <1>8, <2>1, <2>2 DEF Looks
<1>10. QED
  BY <1>3, <1>9 DEF u

\* What the places of a step's notifications come to.
LEMMA Counts ==
    ASSUME NEW s, Server(s), s.step # 0
    PROVE  /\ s.step \in 1..Steps /\ Met(s) \in Nat /\ Ready(s) \in Nat /\ Awaited(s) \in Nat /\ Known(s) \in Nat
           /\ Len(s.answers) = HeardBy(s) /\ HeardBy(s) \in Nat
           /\ Awaited(s) <= Ready(s) /\ Ready(s) <= HeardBy(s) /\ HeardBy(s) <= Met(s)
           /\ Met(s) <= s.step /\ s.step - 1 <= Awaited(s) /\ Known(s) <= s.step
           /\ s.order # "direct" => s.step - 1 <= Known(s) /\ Awaited(s) <= Known(s)
           /\ s.order = "direct" => Known(s) = IF "turn_completed" \in s.said THEN s.step ELSE 0
BY WhatWasSaid, AnswerTypes DEF Met, Ready, Awaited, Known, HeardBy

LEMMA ListLengths ==
    ASSUME NEW s, Server(s), s.step # 0
    PROVE  /\ DOMAIN Attributed(s) = 1..Known(s) /\ Len(Attributed(s)) = Known(s)
           /\ \A j \in 1..Known(s) : Attributed(s)[j] = SpawnAt(s, j)
           /\ Met(s) >= Known(s) => /\ DOMAIN Unattributed(s) = 1..(Met(s) - Known(s))
                                    /\ Len(Unattributed(s)) = Met(s) - Known(s)
           /\ \A p \in 1..(Met(s) - Known(s)) : Unattributed(s)[p] = Known(s) + p
           /\ Met(s) <= Known(s) => Unattributed(s) = <<>>
           /\ s.order = "direct" /\ ~Over(s) => Len(Deferred(s)) = Awaited(s) /\ DOMAIN Deferred(s) = 1..Awaited(s)
           /\ s.order # "direct" \/ Over(s) => Deferred(s) = <<>>
<1>1. /\ Known(s) \in Nat /\ Met(s) \in Nat /\ Awaited(s) \in Nat
  BY Counts
<1>2. PICK k \in Nat, m \in Nat, a \in Nat : k = Known(s) /\ m = Met(s) /\ a = Awaited(s)
  BY <1>1
<1>3. DOMAIN Attributed(s) = 1..k /\ Len(Attributed(s)) = k /\ \A j \in 1..k : Attributed(s)[j] = SpawnAt(s, j)
  <2>1. Attributed(s) = [j \in 1..k |-> SpawnAt(s, j)]
    BY <1>2 DEF Attributed
  <2>2. QED
    BY <2>1
<1>4. Unattributed(s) = [p \in 1..(m - k) |-> k + p]
  BY <1>2 DEF Unattributed
<1>5. /\ m >= k => DOMAIN Unattributed(s) = 1..(m - k) /\ Len(Unattributed(s)) = m - k
      /\ m <= k => Unattributed(s) = <<>>
      /\ \A p \in 1..(m - k) : Unattributed(s)[p] = k + p
  BY <1>4
<1>6. s.order = "direct" /\ ~Over(s) => Len(Deferred(s)) = a /\ DOMAIN Deferred(s) = 1..a
  <2>1. s.order = "direct" /\ ~Over(s) => Deferred(s) = [j \in 1..a |-> j]
    BY <1>2 DEF Deferred, Over
  <2>2. QED
    BY <2>1
<1>7. s.order # "direct" \/ Over(s) => Deferred(s) = <<>>
  BY DEF Deferred, Over
<1>8. QED
  BY <1>2, <1>3, <1>5, <1>6, <1>7

LEMMA NotedCounts ==
    ASSUME NEW s, Server(s), NEW kind
    PROVE  LET u == Noted(s, kind) IN
           /\ Met(u) = IF kind = "start" THEN s.step ELSE Met(s)
           /\ Ready(u) = IF kind = "done" THEN s.step ELSE Ready(s)
           /\ Awaited(u) = IF kind = "waited" THEN s.step ELSE Awaited(s)
           /\ Known(u) = IF s.order = "direct" THEN (IF kind = "turn_completed" THEN s.step ELSE Known(s))
                         ELSE (IF kind = "spawned" THEN s.step ELSE Known(s))
           /\ Requests(u) = Requests(s) /\ HeardAll(u) = HeardAll(s)
           /\ Over(u) <=> Over(s) \/ kind = "turn_completed"
<1> DEFINE u == Noted(s, kind)
<1>1. u.order = s.order /\ u.step = s.step /\ u.answers = s.answers /\ u.said = s.said \cup {kind}
  BY NoteFields
<1> HIDE DEF u
<1>2. Requests(u) = Requests(s) /\ HeardAll(u) = HeardAll(s)
  BY <1>1 DEF Requests, HeardAll, Prepared
<1>3. QED
  BY <1>1, <1>2 DEF Met, Ready, Awaited, Known, Over, u

LEMMA NotFinishedYet ==
    ASSUME NEW s, Server(s), NEW kind \in Kinds, Admits(s, kind), kind # "turn_started"
    PROVE  /\ ~Finished(s)
           /\ kind \in Course(s) /\ kind \notin {"spawned", "waited"} => ~Over(s)
           /\ kind = "message" \/ kind = "turn_completed" => ~Over(s)
           /\ ~Over(s) /\ kind # "turn_completed" => ~Finished(Noted(s, kind))
<1>1. kind \in Course(s) \cup Ending /\ kind \notin s.said /\ Noted(s, kind).said = s.said \cup {kind}
  BY ServerNoted, NoteFields
<1>2. "turn_completed" \in s.said => /\ "message" \in s.said /\ "done" \in s.said /\ "answer" \in s.said
                                     /\ "waiting" \in s.said /\ "start" \in s.said /\ ("spawning" \in s.said \/ s.order = "direct")
  BY WhatWasSaid
<1>3. kind \in Course(s) /\ kind \notin {"spawned", "waited"} => "turn_completed" \notin s.said
  BY <1>1, <1>2 DEF Course
<1>4. "turn_completed" \in Ending /\ "turn_completed" \in Noted(s, kind).said => "turn_completed" \in s.said \/ kind = "turn_completed"
  BY <1>1
<1>5. QED
  BY <1>1, <1>2, <1>3, <1>4 DEF Finished, Over, Ending

LEMMA NothingToFinalize ==
    ASSUME NEW t, t.over = FALSE
    PROVE  TryFinalize(t) = t
BY DEF TryFinalize

\* The parent starts an item.
LEMMA BeginLooks ==
    ASSUME NEW s, Server(s), NEW tool \in {"spawn", "wait"}, NEW kind, kind = IF tool = "spawn" THEN "spawning" ELSE "waiting",
           Admits(s, kind), NEW t, Looks(s, t)
    PROVE  Looks(Noted(s, kind), Consume(t, Notice(kind, s.step)))
<1> DEFINE u == Noted(s, kind)
           w == [t EXCEPT !.pending = @ \cup {Item(tool, s.step)}]
           e == Notice(kind, s.step)
<1>1. kind \in Kinds /\ kind # "turn_started" /\ kind \notin s.said /\ s.step # 0
  BY ServerNoted DEF Kinds
<1>2. u.order = s.order /\ u.step = s.step /\ u.answers = s.answers /\ u.said = s.said \cup {kind}
  BY NoteFields
<1>3. kind \in Course(s)
  BY <1>1, ServerNoted DEF Ending
<1>4. ~Over(s) /\ ~Finished(s) /\ ~Over(u) /\ ~Finished(u)
  BY <1>1, <1>3, NotFinishedYet, NotedCounts
<1>5. /\ Met(u) = Met(s) /\ Ready(u) = Ready(s) /\ Awaited(u) = Awaited(s) /\ Known(u) = Known(s)
      /\ Requests(u) = Requests(s) /\ HeardAll(u) = HeardAll(s)
  BY <1>1, NotedCounts
<1> HIDE DEF u
<1>6. /\ Attributed(u) = Attributed(s) /\ Unattributed(u) = Unattributed(s) /\ Deferred(u) = Deferred(s)
  BY <1>2, <1>4, <1>5 DEF Attributed, Unattributed, Deferred, SpawnAt, Over
<1>7. e.kind = "item_started" /\ e.id = <<tool, s.step>> /\ e.tool = tool
  BY DEF Notice, Begin
<1>8. "spawned" \in s.said => "spawning" \in s.said
  BY WhatWasSaid
<1>9. "waited" \in s.said => "waiting" \in s.said
  BY WhatWasSaid
<1>10. Open(u) = Open(s) \cup {Item(tool, s.step)}
  BY <1>1, <1>2, <1>8, <1>9 DEF Open
<1>11. \A p \in Open(s) : p[1] # <<tool, s.step>>
  BY <1>1, <1>8, <1>9 DEF Open, Item
<1>12. w.over = FALSE /\ Consume(t, e) = TryFinalize(w)
  BY <1>4, <1>7, <1>11 DEF Consume, ItemStarted, Require, Looks, IsTurn, TurnFields, Item
<1>13. Consume(t, e) = w
  BY <1>12, NothingToFinalize
<1>14. /\ IsTurn(w) /\ w.started = t.started /\ w.spawns = t.spawns /\ w.pending = t.pending \cup {Item(tool, s.step)}
       /\ w.strangers = t.strangers /\ w.ended = t.ended /\ w.waits = t.waits /\ w.requests = t.requests
       /\ w.answers = t.answers /\ w.text = t.text /\ w.over = t.over /\ w.end = t.end /\ w.broken = t.broken
  BY DEF Looks, IsTurn, TurnFields
<1> HIDE DEF w, e
<1>15. Looks(u, w)
  BY <1>1, <1>2, <1>4, <1>5, <1>6, <1>10, <1>14 DEF Looks
<1>16. QED
  BY <1>13, <1>15 DEF u, e

LEMMA MessageLooks ==
    ASSUME NEW s, Server(s), Admits(s, "message"), NEW t, Looks(s, t)
    PROVE  Looks(Noted(s, "message"), Consume(t, Notice("message", s.step)))
<1> DEFINE u == Noted(s, "message")
           w == [t EXCEPT !.text = s.step]
           e == Notice("message", s.step)
<1>1. "message" \in Kinds /\ "message" \notin s.said /\ s.step # 0
  BY ServerNoted DEF Kinds, Ending
<1>2. u.order = s.order /\ u.step = s.step /\ u.answers = s.answers /\ u.said = s.said \cup {"message"}
  BY NoteFields
<1>3. ~Over(s) /\ ~Finished(s) /\ ~Over(u) /\ ~Finished(u)
  BY <1>1, NotFinishedYet, NotedCounts
<1>4. /\ Met(u) = Met(s) /\ Ready(u) = Ready(s) /\ Awaited(u) = Awaited(s) /\ Known(u) = Known(s)
      /\ Requests(u) = Requests(s) /\ HeardAll(u) = HeardAll(s)
  BY <1>1, NotedCounts
<1> HIDE DEF u
<1>5. /\ Attributed(u) = Attributed(s) /\ Unattributed(u) = Unattributed(s) /\ Deferred(u) = Deferred(s)
  BY <1>2, <1>3, <1>4 DEF Attributed, Unattributed, Deferred, SpawnAt, Over
<1>6. Open(u) = Open(s)
  BY <1>2 DEF Open
<1>7. w.over = FALSE /\ Consume(t, e) = TryFinalize(w)
  BY <1>3 DEF Consume, Notice, Looks, IsTurn, TurnFields
<1>8. Consume(t, e) = w
  BY <1>7, NothingToFinalize
<1>9. /\ IsTurn(w) /\ w.started = t.started /\ w.spawns = t.spawns /\ w.pending = t.pending
      /\ w.strangers = t.strangers /\ w.ended = t.ended /\ w.waits = t.waits /\ w.requests = t.requests
      /\ w.answers = t.answers /\ w.text = s.step /\ w.over = t.over /\ w.end = t.end /\ w.broken = t.broken
  BY DEF Looks, IsTurn, TurnFields
<1> HIDE DEF w, e
<1>10. Looks(u, w)
  BY <1>1, <1>2, <1>3, <1>4, <1>5, <1>6, <1>9 DEF Looks
<1>11. QED
  BY <1>8, <1>10 DEF u, e

\* Which child the host knows by the time its thread is heard of.
LEMMA KnownChild ==
    ASSUME NEW s, Server(s), s.step # 0, NEW t, Looks(s, t)
    PROVE  /\ IsKnown(t, s.step) <=> Known(s) = s.step
           /\ Known(s) = s.step => StepOf(t, s.step) = s.step
           /\ Known(s) # s.step => Known(s) < s.step
           /\ Met(s) # s.step \/ Known(s) = s.step => \A p \in DOMAIN t.strangers : t.strangers[p] # s.step
           /\ Met(s) = s.step /\ Known(s) # s.step =>
                  /\ s.step - Known(s) \in DOMAIN t.strangers /\ t.strangers[s.step - Known(s)] = s.step
                  /\ StepOf(t, s.step) = s.step
           /\ Len(t.spawns) = Known(s)
           /\ Met(s) >= Known(s) => Len(t.strangers) = Met(s) - Known(s)
<1>1. PICK k \in Nat, m \in Nat, n \in Nat : k = Known(s) /\ m = Met(s) /\ n = s.step /\ k <= n /\ m <= n
  BY Counts
<1>2. /\ DOMAIN t.spawns = 1..k /\ Len(t.spawns) = k
      /\ \A j \in 1..k : t.spawns[j].child = j
  <2>1. t.spawns = Attributed(s)
    BY DEF Looks
  <2>2. \A j \in 1..k : SpawnAt(s, j).child = j
    BY DEF SpawnAt
  <2>3. DOMAIN Attributed(s) = 1..k /\ Len(Attributed(s)) = k /\ \A j \in 1..k : Attributed(s)[j] = SpawnAt(s, j)
    BY <1>1, ListLengths
  <2>4. QED
    BY <2>1, <2>2, <2>3
<1>3. SpawnsOf(t, n) = IF k = n THEN {n} ELSE {}
  <2>1. CASE k = n
    BY <1>1, <1>2, <2>1, Counts DEF SpawnsOf
  <2>2. CASE k # n
    BY <1>1, <1>2, <2>2 DEF SpawnsOf
  <2>3. QED
    BY <2>1, <2>2
<1>4. k = n => StepOf(t, n) = n
  <2>1. Min({n}) = n
    BY DEF Min
  <2>2. QED
    BY <1>3, <2>1 DEF StepOf, IsKnown
<1>5. t.strangers = [p \in 1..(m - k) |-> k + p]
  BY <1>1 DEF Looks, Unattributed
<1>6. m # n \/ k = n => \A p \in DOMAIN t.strangers : t.strangers[p] # n
  BY <1>1, <1>5
<1>7. m = n /\ k # n => /\ n - k \in DOMAIN t.strangers /\ t.strangers[n - k] = n
                        /\ \A p \in DOMAIN t.strangers : t.strangers[p] = n => p = n - k
  BY <1>1, <1>5
<1>8. m = n /\ k # n => StepOf(t, n) = n
  <2> SUFFICES ASSUME m = n, k # n PROVE StepOf(t, n) = n
    OBVIOUS
  <2>1. (CHOOSE p \in DOMAIN t.strangers : t.strangers[p] = n) = n - k
    BY <1>7
  <2>2. StepOf(t, n) = k + (n - k)
    BY <1>2, <1>3, <2>1 DEF StepOf, IsKnown
  <2>3. QED
    BY <1>1, <2>2
<1>9. m >= k => Len(t.strangers) = m - k
  BY <1>1, <1>5
<1>10. IsKnown(t, n) <=> k = n
  BY <1>3 DEF IsKnown
<1>11. QED
  BY <1>1, <1>2, <1>4, <1>6, <1>7, <1>8, <1>9, <1>10

\* The thread of a child begins, before or after its spawn is recorded.
LEMMA StartLooks ==
    ASSUME NEW s, Server(s), Admits(s, "start"), NEW t, Looks(s, t)
    PROVE  Looks(Noted(s, "start"), Consume(t, Notice("start", s.step)))
<1> DEFINE u == Noted(s, "start")
           e == Notice("start", s.step)
<1>1. "start" \in Kinds /\ "start" \notin s.said /\ s.step # 0 /\ "start" \in Course(s)
  BY ServerNoted DEF Kinds, Course
<1>2. u.order = s.order /\ u.step = s.step /\ u.answers = s.answers /\ u.said = s.said \cup {"start"}
  BY NoteFields
<1>3. ~Over(s) /\ ~Finished(s) /\ ~Over(u) /\ ~Finished(u)
  BY <1>1, NotFinishedYet, NotedCounts
<1>4. /\ Met(u) = s.step /\ Ready(u) = Ready(s) /\ Awaited(u) = Awaited(s) /\ Known(u) = Known(s)
      /\ Requests(u) = Requests(s) /\ HeardAll(u) = HeardAll(s)
  BY <1>1, NotedCounts
<1> HIDE DEF u
<1>5. Attributed(u) = Attributed(s) /\ Deferred(u) = Deferred(s) /\ Open(u) = Open(s)
  BY <1>2, <1>3, <1>4 DEF Attributed, Deferred, SpawnAt, Over, Open
<1>6. e.kind = "start" /\ e.child = s.step
  BY DEF Notice
<1>7. Consume(t, e) = OnChild(t, e)
  BY <1>6 DEF Consume, Looks
<1>8. PICK k \in Nat, n \in Nat : /\ k = Known(s) /\ n = s.step /\ k <= n /\ Met(s) = n - 1 /\ n <= Steps /\ n # 0
  BY <1>1, Counts, AnswerTypes DEF Met
<1>9. CASE k = n
  <2>1. Consume(t, e) = t
    BY <1>1, <1>6, <1>7, <1>8, <1>9, KnownChild DEF OnChild, Observe
  <2>2. Unattributed(u) = Unattributed(s)
    BY <1>4, <1>8, <1>9 DEF Unattributed
  <2>3. Looks(u, t)
    BY <1>1, <1>2, <1>3, <1>4, <1>5, <2>2 DEF Looks
  <2>4. QED
    BY <2>1, <2>3 DEF u
<1>10. CASE k # n
  <2> DEFINE w == [t EXCEPT !.strangers = Append(@, n)]
  <2>1. ~IsKnown(t, e.child) /\ Len(t.spawns) = k /\ k <= n - 1 /\ Steps \in Nat
    BY <1>1, <1>6, <1>8, <1>10, KnownChild, StepsAssumption
  <2>2. t.strangers = [p \in 1..(n - 1 - k) |-> k + p] /\ \A p \in DOMAIN t.strangers : t.strangers[p] # n
    BY <1>1, <1>8, KnownChild DEF Looks, Unattributed
  <2>3. ~Contains(t.strangers, n)
    <3>1. DOMAIN t.strangers = 1..Len(t.strangers)
      BY <1>8, <2>1, <2>2
    <3>2. QED
      BY <2>2, <3>1 DEF Contains
  <2>4. Append(t.strangers, n) = [p \in 1..(n - k) |-> k + p] /\ Len(Append(t.strangers, n)) = n - k
    <3>1. PICK l \in Nat : l = n - 1 - k
      BY <1>8, <2>1
    <3>2. n = k + l + 1
      BY <1>8, <3>1
    <3>3. t.strangers = [p \in 1..l |-> k + p]
      BY <2>2, <3>1
    <3>4. Append(t.strangers, k + l + 1) = [p \in 1..(l + 1) |-> k + p] /\ Len(Append(t.strangers, k + l + 1)) = l + 1
      BY ONLY k \in Nat, l \in Nat, <3>3
    <3>5. n - k = l + 1
      BY <1>8, <3>1
    <3>6. QED
      BY <3>2, <3>4, <3>5
  <2>5. /\ IsTurn(w) /\ w.started = t.started /\ w.spawns = t.spawns /\ w.pending = t.pending
        /\ w.strangers = Append(t.strangers, n) /\ w.ended = t.ended /\ w.waits = t.waits /\ w.requests = t.requests
        /\ w.answers = t.answers /\ w.text = t.text /\ w.over = t.over /\ w.end = t.end /\ w.broken = t.broken
    BY DEF Looks, IsTurn, TurnFields
  <2>6. OnChild(t, e) = Meet(t, n, e)
    BY <1>6, <1>8, <2>1 DEF OnChild
  <2>7. [t EXCEPT !.strangers = IF Contains(@, n) THEN @ ELSE Append(@, n)] = w
    BY <2>3
  <2> HIDE DEF w, e
  <2>8. Observe(w, n, e) = w
    BY <1>6 DEF Observe
  <2>9. Meet(t, n, e) = Require(Len(w.strangers) <= Steps - Len(w.spawns), w, w)
    BY <1>6, <2>7, <2>8 DEF Meet
  <2>10. Consume(t, e) = w
    BY <1>7, <2>6, <2>9, <1>8, <2>1, <2>4, <2>5 DEF Require
  <2>11. w.strangers = Unattributed(u)
    BY <1>4, <1>8, <2>4, <2>5 DEF Unattributed
  <2>12. Looks(u, w)
    BY <1>1, <1>2, <1>3, <1>4, <1>5, <2>5, <2>11 DEF Looks
  <2>13. QED
    BY <2>10, <2>12 DEF u, e
<1>11. QED
  BY <1>9, <1>10

LEMMA DoneLooks ==
    ASSUME NEW s, Server(s), Admits(s, "done"), NEW t, Looks(s, t)
    PROVE  Looks(Noted(s, "done"), Consume(t, Notice("done", s.step)))
<1> DEFINE u == Noted(s, "done")
           e == Notice("done", s.step)
<1>1. "done" \in Kinds /\ "done" \notin s.said /\ s.step # 0 /\ "done" \in Course(s) /\ "answer" \in s.said
  BY ServerNoted DEF Kinds, Course, Awaits
<1>2. u.order = s.order /\ u.step = s.step /\ u.answers = s.answers /\ u.said = s.said \cup {"done"}
  BY NoteFields
<1>3. ~Over(s) /\ ~Finished(s) /\ ~Over(u) /\ ~Finished(u)
  BY <1>1, NotFinishedYet, NotedCounts
<1>4. /\ Met(u) = Met(s) /\ Ready(u) = s.step /\ Awaited(u) = Awaited(s) /\ Known(u) = Known(s)
      /\ Requests(u) = Requests(s) /\ HeardAll(u) = HeardAll(s)
  BY <1>1, NotedCounts
<1> HIDE DEF u
<1>5. Attributed(u) = Attributed(s) /\ Unattributed(u) = Unattributed(s) /\ Deferred(u) = Deferred(s) /\ Open(u) = Open(s)
  BY <1>2, <1>3, <1>4 DEF Attributed, Unattributed, Deferred, SpawnAt, Over, Open
<1>6. e.kind = "done" /\ e.child = s.step
  BY DEF Notice
<1>7. Consume(t, e) = OnChild(t, e)
  BY <1>6 DEF Consume, Looks
<1>8. PICK k \in Nat, n \in Nat : /\ k = Known(s) /\ n = s.step /\ k <= n /\ Met(s) = n /\ n <= Steps /\ n # 0
                                  /\ Ready(s) = n - 1
  BY <1>1, Counts, AnswerTypes, WhatWasSaid DEF Met, Ready
<1>9. CASE k = n
  <2>1. Consume(t, e) = t
    BY <1>1, <1>6, <1>7, <1>8, <1>9, KnownChild DEF OnChild, Observe
  <2>2. (Known(u) + 1)..Ready(u) = (Known(s) + 1)..Ready(s)
    BY <1>4, <1>8, <1>9
  <2>3. Looks(u, t)
    BY <1>1, <1>2, <1>3, <1>4, <1>5, <2>2 DEF Looks
  <2>4. QED
    BY <2>1, <2>3 DEF u
<1>10. CASE k # n
  <2> DEFINE w == [t EXCEPT !.ended = @ \cup {n}]
  <2>1. /\ ~IsKnown(t, e.child) /\ Len(t.spawns) = k /\ k <= n - 1 /\ Steps \in Nat
        /\ Len(t.strangers) = n - k /\ n - k \in DOMAIN t.strangers /\ t.strangers[n - k] = n
    BY <1>1, <1>6, <1>8, <1>10, KnownChild, StepsAssumption
  <2>2. Contains(t.strangers, n)
    <3>1. DOMAIN t.strangers = 1..Len(t.strangers)
      BY <1>8, <2>1 DEF Looks, Unattributed
    <3>2. QED
      BY <2>1, <3>1 DEF Contains
  <2>3. /\ IsTurn(w) /\ w.started = t.started /\ w.spawns = t.spawns /\ w.pending = t.pending
        /\ w.strangers = t.strangers /\ w.ended = t.ended \cup {n} /\ w.waits = t.waits /\ w.requests = t.requests
        /\ w.answers = t.answers /\ w.text = t.text /\ w.over = t.over /\ w.end = t.end /\ w.broken = t.broken
    BY DEF Looks, IsTurn, TurnFields
  <2>4. OnChild(t, e) = Meet(t, n, e)
    BY <1>6, <1>8, <2>1 DEF OnChild
  <2>5. [t EXCEPT !.strangers = IF Contains(@, n) THEN @ ELSE Append(@, n)] = t
    BY <2>2 DEF Looks, IsTurn, TurnFields
  <2>6. Observe(t, n, e) = t
    BY <1>6 DEF Observe
  <2> HIDE DEF e
  <2>7. Meet(t, n, e) = Require(Len(w.strangers) <= Steps - Len(w.spawns), w, w)
    BY <1>6, <2>5, <2>6 DEF Meet
  <2> HIDE DEF w
  <2>8. Consume(t, e) = w
    BY <1>7, <1>8, <2>1, <2>3, <2>4, <2>7 DEF Require
  <2>9. w.ended = (Known(u) + 1)..Ready(u)
    <3>1. t.ended = (k + 1)..(n - 1)
      BY <1>8 DEF Looks
    <3>2. ((k + 1)..(n - 1)) \cup {n} = (k + 1)..n
      BY <1>8, <2>1
    <3>3. QED
      BY <1>4, <1>8, <2>3, <3>1, <3>2
  <2>10. Looks(u, w)
    BY <1>1, <1>2, <1>3, <1>4, <1>5, <2>3, <2>9 DEF Looks
  <2>11. QED
    BY <2>8, <2>10 DEF u, e
<1>11. QED
  BY <1>9, <1>10

LEMMA AnswerLearned ==
    ASSUME NEW s, Server(s), Admits(s, "answer"), NEW ok \in BOOLEAN, NEW value \in Values
    PROVE  LET u == AfterAnswer(s, ok, value) IN
           /\ HeardAll(u) = [HeardAll(s) EXCEPT ![s.step] = s.step]
           /\ Requests(u) = IF PreparesNext(s.step, [ok |-> ok]) THEN [Requests(s) EXCEPT ![s.step + 1] = value]
                            ELSE Requests(s)
<1> DEFINE u == AfterAnswer(s, ok, value)
           r == [child |-> s.step, ok |-> ok, value |-> value]
<1>1. /\ u.answers = Append(s.answers, r) /\ Len(s.answers) = s.step - 1 /\ s.step # 0 /\ s.step \in Threads
  BY ServerAnswers
<1> HIDE DEF u
<1>2. PICK n \in Nat : n = s.step /\ n # 0 /\ n <= Steps /\ Steps \in Nat
  BY <1>1, AnswerTypes
<1>3. s.answers \in Seq(Replies) /\ r \in Replies
  BY <1>1 DEF Server, AnswersFit, Replies
<1>4. r.ok = ok /\ r.value = value
  OBVIOUS
<1> HIDE DEF r
<1>5. Len(u.answers) = n /\ u.answers[n] = r /\ \A j \in 1..(n - 1) : u.answers[j] = s.answers[j]
  BY <1>1, <1>2, <1>3, AppendProperties
<1>6. HeardAll(u) = [HeardAll(s) EXCEPT ![n] = n]
  <2>1. \A c \in Threads : c \in 1..n <=> c \in 1..(n - 1) \/ c = n
    BY <1>2
  <2>2. Len(s.answers) = n - 1 /\ n \in Threads
    BY <1>1, <1>2
  <2>3. HeardAll(u) = [c \in Threads |-> IF c \in 1..n THEN c ELSE 0]
    BY <1>5 DEF HeardAll
  <2>4. HeardAll(s) = [c \in Threads |-> IF c \in 1..(n - 1) THEN c ELSE 0]
    BY <2>2 DEF HeardAll
  <2>5. QED
    BY <2>1, <2>2, <2>3, <2>4
<1>7. PreparesNext(n, r) = PreparesNext(n, [ok |-> ok])
  BY <1>4 DEF PreparesNext
<1>8. \A j \in 1..Steps : j # 1 /\ j # n + 1 => Prepared(u, j - 1) = Prepared(s, j - 1) /\ (Prepared(s, j - 1) => u.answers[j - 1] = s.answers[j - 1])
  BY <1>1, <1>2, <1>5 DEF Prepared
<1>9. (Prepared(u, n) <=> PreparesNext(n, r)) /\ ~Prepared(s, n)
  <2>1. n \in 1..Len(u.answers) /\ n \notin 1..Len(s.answers)
    BY <1>1, <1>2, <1>5
  <2>2. u.answers[n] = r
    BY <1>5
  <2>3. QED
    BY ONLY <2>1, <2>2 DEF Prepared
<1>10. PreparesNext(n, r) => n + 1 \in 1..Steps
  BY <1>2 DEF PreparesNext
<1>11. \A j \in 1..Steps : Requests(u)[j] = IF j = n + 1 /\ PreparesNext(n, r) THEN value ELSE Requests(s)[j]
  <2>1. TAKE j \in 1..Steps
  <2>2. CASE j = 1
    BY <1>2, <2>2 DEF Requests
  <2>3. CASE j = n + 1
    <3>1. j # 1 /\ j - 1 = n
      BY <1>2, <2>3
    <3>2. Requests(u)[j] = IF Prepared(u, n) THEN u.answers[n].value ELSE Unset
      BY <3>1 DEF Requests
    <3>3. Requests(s)[j] = IF Prepared(s, n) THEN s.answers[n].value ELSE Unset
      BY <3>1 DEF Requests
    <3>4. QED
      BY <1>4, <1>5, <1>9, <2>3, <3>2, <3>3
  <2>4. CASE j # 1 /\ j # n + 1
    BY <1>8, <2>4 DEF Requests
  <2>5. QED
    BY <2>2, <2>3, <2>4
<1>12. Requests(u) = IF PreparesNext(n, r) THEN [Requests(s) EXCEPT ![n + 1] = value] ELSE Requests(s)
  <2>1. Requests(u) = [j \in 1..Steps |-> Requests(u)[j]] /\ Requests(s) = [j \in 1..Steps |-> Requests(s)[j]]
    BY DEF Requests
  <2>2. CASE PreparesNext(n, r)
    BY <1>10, <1>11, <2>1, <2>2
  <2>3. CASE ~PreparesNext(n, r)
    BY <1>11, <2>1, <2>3
  <2>4. QED
    BY <2>2, <2>3
<1>13. QED
  BY <1>2, <1>6, <1>7, <1>12 DEF u

LEMMA AnswerLooks ==
    ASSUME NEW s, Server(s), Admits(s, "answer"), NEW ok \in BOOLEAN, NEW value \in Values, NEW t, Looks(s, t)
    PROVE  Looks(AfterAnswer(s, ok, value), Consume(t, AnswerNotice(s.step, ok, value)))
<1> DEFINE u == AfterAnswer(s, ok, value)
           e == AnswerNotice(s.step, ok, value)
           w == Learn(t, s.step, s.step, e)
<1>1. /\ s.step # 0 /\ "answer" \notin s.said /\ "start" \in s.said /\ s.step \in Threads
      /\ s.said \cap Ending = {} /\ "done" \notin s.said
      /\ u.order = s.order /\ u.step = s.step /\ u.said = s.said \cup {"answer"}
      /\ Len(s.answers) = s.step - 1
  BY ServerAnswers
<1>2. /\ HeardAll(u) = [HeardAll(s) EXCEPT ![s.step] = s.step]
      /\ Requests(u) = IF PreparesNext(s.step, [ok |-> ok]) THEN [Requests(s) EXCEPT ![s.step + 1] = value]
                       ELSE Requests(s)
  BY AnswerLearned
<1> HIDE DEF u
<1>3. ~Over(s) /\ ~Finished(s) /\ ~Over(u) /\ ~Finished(u) /\ "message" \notin s.said /\ "message" \notin u.said
  BY <1>1 DEF Over, Finished, Ending
<1>4. /\ Met(u) = Met(s) /\ Ready(u) = Ready(s) /\ Awaited(u) = Awaited(s) /\ Known(u) = Known(s) /\ Met(s) = s.step
      /\ Open(u) = Open(s)
  BY <1>1 DEF Met, Ready, Awaited, Known, Open
<1>5. Requests(u) = Requests(s) \/ \A j \in 1..Known(s) : Requests(u)[j] = Requests(s)[j]
  <2>1. Known(s) <= s.step /\ Known(s) \in Nat /\ s.step \in Nat
    BY <1>1, Counts
  <2>2. \A j \in 1..Known(s) : j # s.step + 1
    BY <2>1
  <2>3. \A j \in DOMAIN Requests(s) \ {s.step + 1} : [Requests(s) EXCEPT ![s.step + 1] = value][j] = Requests(s)[j]
    OBVIOUS
  <2>4. DOMAIN Requests(s) = 1..Steps /\ \A j \in 1..Known(s) : j \in 1..Steps
    BY <2>1, AnswerTypes DEF Requests
  <2>5. QED
    BY <1>2, <2>2, <2>3, <2>4
<1>6. Attributed(u) = Attributed(s)
  <2>1. \A j \in 1..Known(s) : SpawnAt(u, j) = SpawnAt(s, j)
    BY <1>4, <1>5 DEF SpawnAt
  <2>2. QED
    BY <1>4, <2>1 DEF Attributed
<1>7. Unattributed(u) = Unattributed(s) /\ Deferred(u) = Deferred(s)
  BY <1>1, <1>3, <1>4 DEF Unattributed, Deferred, Over
<1>8. e.kind = "answer" /\ e.child = s.step /\ e.step = s.step /\ e.ok = ok /\ e.value = value
  BY DEF AnswerNotice
<1>9. Consume(t, e) = OnChild(t, e)
  BY <1>8 DEF Consume, Looks
<1>10. PICK k \in Nat, n \in Nat : /\ k = Known(s) /\ n = s.step /\ k <= n /\ Met(s) = n /\ n <= Steps /\ n # 0 /\ Steps \in Nat
  BY <1>1, <1>4, Counts, AnswerTypes
<1>11. StepOf(t, n) = n
  BY <1>1, <1>4, <1>10, KnownChild
<1>12. t.answers[n] = 0
  BY <1>1, <1>10 DEF Looks, HeardAll
<1>13. Observe(t, n, e) = w
  BY <1>8, <1>10, <1>11, <1>12 DEF Observe, Require
<1>14. /\ IsTurn(w) /\ w.started = t.started /\ w.spawns = t.spawns /\ w.pending = t.pending
       /\ w.strangers = t.strangers /\ w.ended = t.ended /\ w.waits = t.waits
       /\ w.requests = (IF PreparesNext(n, e) THEN [t.requests EXCEPT ![n + 1] = value] ELSE t.requests)
       /\ w.answers = [t.answers EXCEPT ![n] = n] /\ w.text = t.text /\ w.over = t.over /\ w.end = t.end /\ w.broken = t.broken
  <2> DEFINE h == [t EXCEPT !.answers[n] = n]
  <2>1. /\ IsTurn(h) /\ h.started = t.started /\ h.spawns = t.spawns /\ h.pending = t.pending
        /\ h.strangers = t.strangers /\ h.ended = t.ended /\ h.waits = t.waits /\ h.requests = t.requests
        /\ h.answers = [t.answers EXCEPT ![n] = n] /\ h.text = t.text /\ h.over = t.over /\ h.end = t.end /\ h.broken = t.broken
    BY DEF Looks, IsTurn, TurnFields
  <2>2. w = IF PreparesNext(n, e) THEN [h EXCEPT !.requests[n + 1] = value, !.file = [step |-> n + 1, input |-> value]] ELSE h
    BY <1>8, <1>10 DEF Learn
  <2> HIDE DEF h, w
  <2>3. CASE PreparesNext(n, e)
    <3> DEFINE g == [h EXCEPT !.requests[n + 1] = value, !.file = [step |-> n + 1, input |-> value]]
    <3>1. /\ IsTurn(g) /\ g.started = h.started /\ g.spawns = h.spawns /\ g.pending = h.pending
          /\ g.strangers = h.strangers /\ g.ended = h.ended /\ g.waits = h.waits /\ g.requests = [h.requests EXCEPT ![n + 1] = value]
          /\ g.answers = h.answers /\ g.text = h.text /\ g.over = h.over /\ g.end = h.end /\ g.broken = h.broken
      BY <2>1 DEF IsTurn, TurnFields
    <3>2. w = g
      BY <2>2, <2>3
    <3> HIDE DEF g
    <3>3. QED
      BY <2>1, <2>3, <3>1, <3>2
  <2>4. CASE ~PreparesNext(n, e)
    BY <2>1, <2>2, <2>4
  <2>5. QED
    BY <2>3, <2>4
<1>15. Consume(t, e) = w
  <2>1. CASE k = n
    BY <1>1, <1>8, <1>9, <1>10, <1>13, <2>1, KnownChild DEF OnChild
  <2>2. CASE k # n
    <3>1. /\ ~IsKnown(t, e.child) /\ Len(t.spawns) = k /\ k <= n - 1
          /\ Len(t.strangers) = n - k /\ n - k \in DOMAIN t.strangers /\ t.strangers[n - k] = n
      BY <1>1, <1>4, <1>8, <1>10, <2>2, KnownChild
    <3>2. Contains(t.strangers, n)
      <4>1. DOMAIN t.strangers = 1..Len(t.strangers)
        BY <1>4, <1>10, <3>1 DEF Looks, Unattributed
      <4>2. QED
        BY <3>1, <4>1 DEF Contains
    <3>3. OnChild(t, e) = Meet(t, n, e)
      BY <1>8, <1>10, <3>1 DEF OnChild
    <3>4. [t EXCEPT !.strangers = IF Contains(@, n) THEN @ ELSE Append(@, n)] = t
      BY <3>2 DEF Looks, IsTurn, TurnFields
    <3> HIDE DEF e, w
    <3>5. Meet(t, n, e) = Require(Len(w.strangers) <= Steps - Len(w.spawns), w, w)
      BY <1>8, <1>13, <3>4 DEF Meet
    <3>6. Len(w.strangers) = n - k /\ Len(w.spawns) = k
      BY <1>14, <3>1
    <3>7. Require(Len(w.strangers) <= Steps - Len(w.spawns), w, w) = w
      BY <1>10, <3>6 DEF Require
    <3>8. QED
      BY <1>9, <3>3, <3>5, <3>7
  <2>3. QED
    BY <2>1, <2>2
<1>16. PreparesNext(n, e) = PreparesNext(n, [ok |-> ok])
  BY <1>8 DEF PreparesNext
<1> HIDE DEF w, e
<1>17. w.requests = Requests(u) /\ w.answers = HeardAll(u)
  BY <1>2, <1>10, <1>14, <1>16 DEF Looks
<1>18. Looks(u, w)
  BY <1>1, <1>3, <1>4, <1>6, <1>7, <1>14, <1>17 DEF Looks
<1>19. QED
  BY <1>15, <1>18 DEF u, e

\* The request of a step is there when its spawn is recorded.
LEMMA RequestIsThere ==
    ASSUME NEW s, Server(s), s.step # 0, NEW j \in 1..s.step
    PROVE  /\ Requests(s)[j] # Unset
           /\ j # 1 => j - 1 \in 1..Len(s.answers) /\ Requests(s)[j] = s.answers[j - 1].value
<1>1. s.step \in 1..Steps /\ s.step - 1 <= Len(s.answers) /\ Len(s.answers) \in Nat /\ Steps \in Nat
  BY AnswerTypes DEF HeardBy
<1>2. j \in 1..Steps
  BY <1>1
<1>3. CASE j = 1
  BY <1>2, <1>3, ValuesAssumption DEF Requests
<1>4. CASE j # 1
  <2>1. j - 1 \in 1..(s.step - 1) /\ j - 1 \in 1..Len(s.answers)
    BY <1>1, <1>4
  <2>2. Prepared(s, j - 1)
    BY <2>1 DEF Prepared, Server, AnswersFit
  <2>3. s.answers[j - 1].value \in Values
    BY <2>1, AnswerTypes
  <2>4. Requests(s)[j] = s.answers[j - 1].value
    BY <1>2, <1>4, <2>2 DEF Requests
  <2>5. QED
    BY <2>1, <2>3, <2>4, ValuesAssumption
<1>5. QED
  BY <1>3, <1>4

LEMMA SpawnedLooks ==
    ASSUME NEW s, Server(s), Admits(s, "spawned"), NEW t, Looks(s, t)
    PROVE  Looks(Noted(s, "spawned"), Consume(t, Notice("spawned", s.step)))
<1> DEFINE u == Noted(s, "spawned")
           e == Notice("spawned", s.step)
<1>1. /\ "spawned" \in Kinds /\ "spawned" \notin s.said /\ s.step # 0 /\ "spawned" \in Course(s) /\ "spawning" \in s.said
      /\ s.order # "direct" /\ "waited" \notin s.said
  <2>1. "spawned" \in Kinds /\ "spawned" # "turn_started"
    BY DEF Kinds
  <2>2. /\ "spawned" \notin s.said /\ s.step # 0 /\ "spawned" \in Course(s) \cup Ending
        /\ Awaits(s, "spawned") \subseteq s.said
    BY <2>1, ServerNoted
  <2>3. "spawned" \in Course(s) /\ s.order # "direct" /\ "spawning" \in s.said
    BY <2>2 DEF Course, Ending, Awaits
  <2>4. QED
    BY <2>1, <2>2, <2>3, WhatWasSaid
<1>2. u.order = s.order /\ u.step = s.step /\ u.answers = s.answers /\ u.said = s.said \cup {"spawned"}
  BY NoteFields
<1>3. ~Finished(s) /\ ~Finished(u) /\ (Over(u) <=> Over(s))
  BY <1>1, <1>2, NotedCounts DEF Finished, Course
<1>4. /\ Met(u) = Met(s) /\ Ready(u) = Ready(s) /\ Awaited(u) = Awaited(s) /\ Known(u) = s.step
      /\ Requests(u) = Requests(s) /\ HeardAll(u) = HeardAll(s)
  BY <1>1, NotedCounts
<1> HIDE DEF u
<1>5. PICK n \in Nat : /\ n = s.step /\ n # 0 /\ n <= Steps /\ Steps \in Nat /\ Known(s) = n - 1 /\ Awaited(s) = n - 1
                       /\ Met(s) \in {n - 1, n} /\ Ready(s) \in {n - 1, n}
  BY <1>1, AnswerTypes DEF Known, Awaited, Met, Ready
<1>6. e.kind = "item_completed" /\ e.id = <<"spawn", n>> /\ e.tool = "spawn" /\ e.ok = TRUE /\ e.child = n
  BY <1>5 DEF Notice, End
<1>7. <<e.id, e.tool>> = Item("spawn", n) /\ Item("spawn", n) \in Open(s) /\ Open(s) \ {Item("spawn", n)} = Open(u)
  BY <1>1, <1>2, <1>5, <1>6 DEF Item, Open
<1>8. Deferred(s) = <<>> /\ Deferred(u) = <<>>
  BY <1>1, <1>2 DEF Deferred
<1> HIDE DEF e
<1> DEFINE left == [t EXCEPT !.pending = @ \ {Item("spawn", n)}]
<1>9. /\ IsTurn(left) /\ left.started = t.started /\ left.spawns = t.spawns /\ left.pending = t.pending \ {Item("spawn", n)}
      /\ left.strangers = t.strangers /\ left.ended = t.ended /\ left.waits = t.waits /\ left.requests = t.requests
      /\ left.answers = t.answers /\ left.text = t.text /\ left.over = t.over /\ left.end = t.end /\ left.broken = t.broken
  BY DEF Looks, IsTurn, TurnFields
<1> HIDE DEF left
<1>10. Consume(t, e) = TryFinalize(SpawnCompleted(left, n))
  BY <1>6, <1>7 DEF Consume, ItemCompleted, Require, Looks, left
<1> DEFINE new == [child |-> n, request |-> t.requests[n], waited |-> FALSE]
           w == [left EXCEPT !.spawns = Append(@, new), !.strangers = IF @ = <<>> THEN @ ELSE Tail(@),
                             !.ended = @ \ {n}, !.waits = IF @ = <<>> THEN @ ELSE Tail(@)]
<1>11. DOMAIN Attributed(s) = 1..(n - 1) /\ Len(Attributed(s)) = n - 1 /\ \A j \in 1..(n - 1) : Attributed(s)[j] = SpawnAt(s, j)
  BY <1>1, <1>5, ListLengths
<1>12. Len(left.spawns) + 1 = n /\ AwaitedAll(left)
  <2>1. n - 1 # 0 => Attributed(s)[n - 1] = SpawnAt(s, n - 1)
    BY <1>5, <1>11
  <2>2. left.spawns = Attributed(s)
    BY <1>9 DEF Looks
  <2>3. SpawnAt(s, n - 1).waited
    <3>1. SpawnAt(s, n - 1).waited = (n - 1 <= Awaited(s))
      BY DEF SpawnAt
    <3>2. n - 1 <= Awaited(s)
      BY <1>5
    <3>3. QED
      BY <3>1, <3>2
  <2>4. n - 1 = 0 => Attributed(s) = <<>>
    BY <1>5 DEF Attributed
  <2>5. QED
    BY <1>5, <1>11, <2>1, <2>2, <2>3, <2>4 DEF AwaitedAll, Last
<1>13. left.strangers = <<>> \/ (Head(left.strangers) = n /\ Tail(left.strangers) = <<>>)
  <2>1. left.strangers = [p \in 1..(Met(s) - (n - 1)) |-> n - 1 + p]
    BY <1>5, <1>9 DEF Looks, Unattributed
  <2>2. CASE Met(s) = n - 1
    BY <1>5, <2>1, <2>2
  <2>3. CASE Met(s) = n
    <3>1. left.strangers = [p \in 1..1 |-> n - 1 + p]
      <4>1. Met(s) - (n - 1) = 1
        BY <1>5, <2>3
      <4>2. QED
        BY ONLY <2>1, <4>1
    <3>2. left.strangers = <<n>>
      BY <1>5, <3>1
    <3>3. QED
      BY <3>2
  <2>4. QED
    BY <1>5, <2>2, <2>3
<1>14. left.requests[n] # Unset /\ left.requests = t.requests
  BY <1>1, <1>5, <1>9, RequestIsThere DEF Looks
<1>15. left.waits = <<>>
  BY <1>8, <1>9 DEF Looks
<1>16. SpawnCompleted(left, n) = w
  BY <1>5, <1>12, <1>13, <1>14, <1>15 DEF SpawnCompleted, Require
<1>17. /\ IsTurn(w) /\ w.started = t.started /\ w.spawns = Append(t.spawns, new) /\ w.pending = Open(u)
       /\ w.strangers = <<>> /\ w.ended = t.ended \ {n} /\ w.waits = <<>> /\ w.requests = t.requests
       /\ w.answers = t.answers /\ w.text = t.text /\ w.over = t.over /\ w.end = t.end /\ w.broken = t.broken
  <2> HIDE DEF new
  <2>1. /\ IsTurn(w) /\ w.started = left.started /\ w.spawns = Append(left.spawns, new) /\ w.pending = left.pending
        /\ w.strangers = (IF left.strangers = <<>> THEN left.strangers ELSE Tail(left.strangers)) /\ w.ended = left.ended \ {n}
        /\ w.waits = (IF left.waits = <<>> THEN left.waits ELSE Tail(left.waits)) /\ w.requests = left.requests
        /\ w.answers = left.answers /\ w.text = left.text /\ w.over = left.over /\ w.end = left.end /\ w.broken = left.broken
    BY <1>9 DEF IsTurn, TurnFields
  <2> HIDE DEF w
  <2>2. t.pending = Open(s)
    BY DEF Looks
  <2>3. QED
    BY <1>7, <1>9, <1>13, <1>15, <2>1, <2>2
<1>18. Append(t.spawns, new) = Attributed(u)
  <2>1. t.spawns = Attributed(s) /\ t.requests = Requests(u)
    BY <1>4 DEF Looks
  <2>2. new = SpawnAt(u, n)
    <3>1. (n <= Awaited(u)) = FALSE
      BY <1>4, <1>5
    <3>2. QED
      BY <2>1, <3>1 DEF SpawnAt
  <2>3. \A j \in 1..(n - 1) : SpawnAt(u, j) = SpawnAt(s, j)
    BY <1>4 DEF SpawnAt
  <2>4. Attributed(u) = [j \in 1..n |-> SpawnAt(u, j)]
    BY <1>4, <1>5 DEF Attributed
  <2>5. Attributed(s) = [j \in 1..(n - 1) |-> SpawnAt(s, j)]
    BY <1>5 DEF Attributed
  <2> HIDE DEF new
  <2>6. Append(Attributed(s), SpawnAt(u, n)) = [j \in 1..n |-> SpawnAt(u, j)]
    BY <1>5, <2>3, <2>5
  <2>7. QED
    BY <2>1, <2>2, <2>4, <2>6
<1> HIDE DEF new, w
<1>19. TryFinalize(w) = w
  <2>1. CASE Over(s)
    <3>1. "waiting" \in s.said
      BY <2>1, WhatWasSaid DEF Over
    <3>2. Item("wait", n) \in Open(u)
      BY <1>1, <1>2, <1>5, <3>1 DEF Open
    <3>3. QED
      BY <1>17, <3>2 DEF TryFinalize
  <2>2. CASE ~Over(s)
    BY <1>17, <2>2 DEF TryFinalize, Looks
  <2>3. QED
    BY <2>1, <2>2
<1>20. w.ended = (Known(u) + 1)..Ready(u) /\ w.strangers = Unattributed(u)
  <2>1. t.ended = n..Ready(s) /\ (n..Ready(s)) \ {n} = (n + 1)..Ready(s)
    BY <1>5 DEF Looks
  <2>2. Unattributed(u) = <<>>
    BY <1>4, <1>5 DEF Unattributed
  <2>3. QED
    BY <1>4, <1>5, <1>17, <2>1, <2>2
<1>21. Looks(u, w)
  BY <1>1, <1>2, <1>3, <1>4, <1>8, <1>17, <1>18, <1>20 DEF Looks
<1>22. QED
  BY <1>10, <1>16, <1>19, <1>21 DEF u, e

\* What the completion of a wait finds.
LEMMA WaitedFinds ==
    ASSUME NEW s, Server(s), Admits(s, "waited")
    PROVE  /\ "waited" \in Kinds /\ "waited" \notin s.said /\ s.step # 0 /\ "waiting" \in s.said /\ "done" \in s.said
           /\ "start" \in s.said /\ "answer" \in s.said
           /\ s.order # "direct" => "spawned" \in s.said /\ "spawning" \in s.said
           /\ s.order = "direct" => ~Over(s)
           /\ ~Finished(s) /\ (Finished(Noted(s, "waited")) <=> Over(s))
<1>1. "waited" \in Kinds /\ "waited" # "turn_started"
  BY DEF Kinds
<1>2. "waited" \notin s.said /\ s.step # 0 /\ Awaits(s, "waited") \subseteq s.said /\ s.order # "early_wait"
  BY <1>1, ServerNoted DEF Server
<1>3. /\ "waiting" \in s.said /\ "done" \in s.said /\ (s.order # "direct" => "spawned" \in s.said)
  BY <1>2 DEF Awaits, Course
<1>4. "start" \in s.said /\ "answer" \in s.said /\ ("spawned" \in s.said => "spawning" \in s.said)
  BY <1>3, WhatWasSaid
<1>5. "waited" \in Course(s) /\ s.order = "direct" => s.order # "late"
  BY DEF Course
<1>6. s.order = "direct" => ~Over(s)
  BY <1>2, <1>5, WhatWasSaid DEF Over, Course
<1>7. Noted(s, "waited").step = s.step /\ Noted(s, "waited").order = s.order /\ Noted(s, "waited").said = s.said \cup {"waited"}
  BY NoteFields
<1>8. Finished(Noted(s, "waited")) => Over(s)
  BY <1>7 DEF Finished, Over, Ending
<1>9. Over(s) => "message" \in s.said
  BY WhatWasSaid DEF Over
<1>10. Over(s) => Finished(Noted(s, "waited"))
  BY <1>2, <1>3, <1>4, <1>6, <1>7, <1>9 DEF Finished, Over, Ending, Course
<1>11. ~Finished(s)
  BY <1>2 DEF Finished, Course
<1>12. QED
  BY <1>1, <1>2, <1>3, <1>4, <1>6, <1>8, <1>10, <1>11

LEMMA SpawnIsWaitedFor ==
    ASSUME NEW c, NEW request
    PROVE  [[child |-> c, request |-> request, waited |-> FALSE] EXCEPT !.waited = TRUE]
             = [child |-> c, request |-> request, waited |-> TRUE]
<1> DEFINE R == [child : {c}, request : {request}, waited : BOOLEAN]
           x == [child |-> c, request |-> request, waited |-> FALSE]
           y == [child |-> c, request |-> request, waited |-> TRUE]
           z == [x EXCEPT !.waited = TRUE]
<1>1. z \in R /\ y \in R /\ z.waited = y.waited /\ z.child = y.child /\ z.request = y.request
  OBVIOUS
<1> HIDE DEF z, y
<1>2. z = y
  BY <1>1
<1>3. QED
  BY <1>2 DEF z, y

LEMMA WaitedLooks ==
    ASSUME NEW s, Server(s), Admits(s, "waited"), NEW t, Looks(s, t)
    PROVE  Looks(Noted(s, "waited"), Consume(t, Notice("waited", s.step)))
<1> DEFINE u == Noted(s, "waited")
           e == Notice("waited", s.step)
<1>1. /\ "waited" \notin s.said /\ s.step # 0 /\ "waiting" \in s.said /\ "done" \in s.said
      /\ "start" \in s.said /\ "answer" \in s.said
      /\ s.order # "direct" => "spawned" \in s.said /\ "spawning" \in s.said
      /\ s.order = "direct" => ~Over(s)
      /\ ~Finished(s) /\ (Finished(u) <=> Over(s)) /\ "waited" \in Kinds
  BY WaitedFinds
<1>2. u.order = s.order /\ u.step = s.step /\ u.answers = s.answers /\ u.said = s.said \cup {"waited"}
  BY NoteFields
<1>3. /\ Met(u) = Met(s) /\ Ready(u) = Ready(s) /\ Awaited(u) = s.step /\ Known(u) = Known(s)
      /\ Requests(u) = Requests(s) /\ HeardAll(u) = HeardAll(s) /\ (Over(u) <=> Over(s))
  BY NotedCounts
<1> HIDE DEF u
<1>4. PICK n \in Nat : /\ n = s.step /\ n # 0 /\ n <= Steps /\ Steps \in Nat /\ Awaited(s) = n - 1
                       /\ Met(s) = n /\ Known(s) = IF s.order = "direct" THEN 0 ELSE n
  BY <1>1, AnswerTypes DEF Known, Awaited, Met, Over
<1>5. e.kind = "item_completed" /\ e.id = <<"wait", n>> /\ e.tool = "wait" /\ e.ok = TRUE /\ e.child = n
  BY <1>4 DEF Notice, End
<1>6. <<e.id, e.tool>> = Item("wait", n) /\ Item("wait", n) \in Open(s) /\ Open(s) \ {Item("wait", n)} = Open(u)
  BY <1>1, <1>2, <1>4, <1>5 DEF Item, Open
<1> HIDE DEF e
<1> DEFINE left == [t EXCEPT !.pending = @ \ {Item("wait", n)}]
<1>7. /\ IsTurn(left) /\ left.started = t.started /\ left.spawns = t.spawns /\ left.pending = t.pending \ {Item("wait", n)}
      /\ left.strangers = t.strangers /\ left.ended = t.ended /\ left.waits = t.waits /\ left.requests = t.requests
      /\ left.answers = t.answers /\ left.text = t.text /\ left.over = t.over /\ left.end = t.end /\ left.broken = t.broken
  BY DEF Looks, IsTurn, TurnFields
<1> HIDE DEF left
<1>8. left.pending = Open(u) /\ left.spawns = Attributed(s) /\ left.waits = Deferred(s)
  BY <1>6, <1>7 DEF Looks
<1>9. Consume(t, e) = TryFinalize(WaitCompleted(left, n))
  BY <1>5, <1>6 DEF Consume, ItemCompleted, Require, Looks, left
<1>10. CASE s.order = "direct"
  <2> DEFINE w == [left EXCEPT !.waits = Append(@, n)]
  <2>1. ~Over(s) /\ ~Over(u) /\ Known(s) = 0
    BY <1>1, <1>3, <1>4, <1>10
  <2>2. Deferred(s) = [j \in 1..(n - 1) |-> j] /\ Len(Deferred(s)) = n - 1 /\ Deferred(u) = [j \in 1..n |-> j]
    BY <1>2, <1>3, <1>4, <1>10, <2>1 DEF Deferred, Over
  <2>3. left.spawns = <<>>
    BY <1>8, <2>1 DEF Attributed
  <2>4. WaitCompleted(left, n) = w
    BY <1>4, <1>8, <2>2, <2>3 DEF WaitCompleted, Require
  <2>5. /\ IsTurn(w) /\ w.started = left.started /\ w.spawns = left.spawns /\ w.pending = left.pending
        /\ w.strangers = left.strangers /\ w.ended = left.ended /\ w.waits = Append(left.waits, n) /\ w.requests = left.requests
        /\ w.answers = left.answers /\ w.text = left.text /\ w.over = left.over /\ w.end = left.end /\ w.broken = left.broken
    BY <1>7 DEF IsTurn, TurnFields
  <2> HIDE DEF w
  <2>6. TryFinalize(w) = w
    BY <1>7, <2>1, <2>5, NothingToFinalize DEF Looks
  <2>7. w.waits = Deferred(u)
    BY <1>4, <1>8, <2>2, <2>5
  <2>8. Attributed(u) = <<>> /\ Unattributed(u) = Unattributed(s)
    BY <1>3, <2>1 DEF Attributed, Unattributed
  <2>9. "message" \in u.said <=> "message" \in s.said
    BY <1>2
  <2>10. /\ t.started = (s.step # 0) /\ t.strangers = Unattributed(s) /\ t.ended = (Known(s) + 1)..Ready(s)
         /\ t.requests = Requests(s) /\ t.answers = HeardAll(s) /\ t.text = (IF "message" \in s.said THEN s.step ELSE 0)
         /\ t.over = FALSE /\ t.end = "no" /\ t.broken = FALSE
    BY <1>1, <2>1 DEF Looks
  <2>11. ~Finished(u)
    BY <1>1, <2>1
  <2>12. Looks(u, w)
    BY <1>2, <1>3, <1>7, <1>8, <2>1, <2>3, <2>5, <2>7, <2>8, <2>9, <2>10, <2>11 DEF Looks
  <2>13. QED
    BY <1>9, <2>4, <2>6, <2>12 DEF u, e
<1>11. CASE s.order # "direct"
  <2> DEFINE w == [left EXCEPT !.spawns[n].waited = TRUE]
  <2>1. Known(s) = n /\ Deferred(s) = <<>> /\ Deferred(u) = <<>> /\ Unattributed(u) = <<>> /\ Unattributed(s) = <<>>
    BY <1>2, <1>3, <1>4, <1>11 DEF Deferred, Unattributed
  <2>2. Attributed(s) = [j \in 1..n |-> SpawnAt(s, j)] /\ Attributed(u) = [j \in 1..n |-> SpawnAt(u, j)]
    BY <1>3, <1>4, <2>1 DEF Attributed
  <2>3. Len(left.spawns) = n /\ left.spawns[n] = SpawnAt(s, n) /\ left.spawns # <<>>
    BY <1>4, <1>8, <2>2
  <2>4. SpawnAt(s, n).child = n /\ ~SpawnAt(s, n).waited
    <3>1. SpawnAt(s, n).child = n /\ SpawnAt(s, n).waited = (n <= Awaited(s))
      BY DEF SpawnAt
    <3>2. ~(n <= Awaited(s))
      BY <1>4
    <3>3. QED
      BY <3>1, <3>2
  <2>5. WaitCompleted(left, n) = w
    BY <1>4, <2>3, <2>4 DEF WaitCompleted, CompleteWait, Require
  <2>6. /\ IsTurn(w) /\ w.started = left.started /\ w.spawns = [left.spawns EXCEPT ![n] = [@ EXCEPT !.waited = TRUE]]
        /\ w.pending = left.pending
        /\ w.strangers = left.strangers /\ w.ended = left.ended /\ w.waits = left.waits /\ w.requests = left.requests
        /\ w.answers = left.answers /\ w.text = left.text /\ w.over = left.over /\ w.end = left.end /\ w.broken = left.broken
    BY <1>7 DEF IsTurn, TurnFields
  <2> HIDE DEF w
  <2>7. [SpawnAt(s, n) EXCEPT !.waited = TRUE] = SpawnAt(u, n)
    <3>1. (n <= Awaited(u)) = TRUE /\ (n <= Awaited(s)) = FALSE
      BY <1>3, <1>4
    <3>2. Requests(u)[n] = Requests(s)[n]
      BY <1>3
    <3>3. SpawnAt(u, n) = [child |-> n, request |-> Requests(s)[n], waited |-> TRUE]
      BY <3>1, <3>2 DEF SpawnAt
    <3>4. SpawnAt(s, n) = [child |-> n, request |-> Requests(s)[n], waited |-> FALSE]
      BY <3>1 DEF SpawnAt
    <3>5. QED
      BY <3>3, <3>4, SpawnIsWaitedFor
  <2>8. \A j \in 1..n : j # n => SpawnAt(s, j) = SpawnAt(u, j)
    <3>1. \A j \in 1..n : j # n => (j <= Awaited(u)) = TRUE /\ (j <= Awaited(s)) = TRUE
      BY <1>3, <1>4
    <3>2. QED
      BY <1>3, <3>1 DEF SpawnAt
  <2>9. w.spawns = Attributed(u)
    <3>1. w.spawns = [Attributed(s) EXCEPT ![n] = [@ EXCEPT !.waited = TRUE]]
      BY <1>8, <2>6
    <3>2. w.spawns = [Attributed(s) EXCEPT ![n] = SpawnAt(u, n)]
      BY <1>8, <2>3, <2>7, <3>1
    <3>3. n \in 1..n
      BY <1>4
    <3>4. QED
      BY ONLY <2>2, <2>8, <3>2, <3>3
  <2>10. "message" \in u.said <=> "message" \in s.said
    BY <1>2
  <2>11. /\ t.started = (s.step # 0) /\ t.strangers = <<>> /\ t.ended = (Known(s) + 1)..Ready(s)
         /\ t.requests = Requests(s) /\ t.answers = HeardAll(s) /\ t.text = (IF "message" \in s.said THEN s.step ELSE 0)
         /\ t.over = Over(s) /\ t.end = "no" /\ t.broken = FALSE /\ t.waits = <<>>
    BY <1>1, <2>1 DEF Looks, Over
  <2>12. CASE ~Over(s)
    <3>1. TryFinalize(w) = w
      BY <1>7, <2>6, <2>11, <2>12 DEF TryFinalize
    <3>2. Looks(u, w)
      BY <1>1, <1>2, <1>3, <1>7, <1>8, <2>1, <2>6, <2>9, <2>10, <2>11, <2>12 DEF Looks
    <3>3. QED
      BY <1>9, <2>5, <3>1, <3>2 DEF u, e
  <2>13. CASE Over(s)
    <3> DEFINE v == [w EXCEPT !.over = FALSE, !.end = "resolved"]
    <3>1. Open(u) = {}
      BY <1>1, <1>2, <1>11 DEF Open
    <3>2. ~w.broken /\ w.over /\ w.pending = {} /\ w.strangers = <<>> /\ w.waits = <<>> /\ w.end = "no"
      BY <1>7, <1>8, <2>6, <2>11, <2>13, <3>1
    <3>3. TryFinalize(w) = v
      BY <3>2 DEF TryFinalize
    <3>4. /\ IsTurn(v) /\ v.started = w.started /\ v.spawns = w.spawns /\ v.pending = w.pending
          /\ v.strangers = w.strangers /\ v.ended = w.ended /\ v.waits = w.waits /\ v.requests = w.requests
          /\ v.answers = w.answers /\ v.text = w.text /\ v.over = FALSE /\ v.end = "resolved" /\ v.broken = w.broken
      BY <2>6 DEF IsTurn, TurnFields
    <3> HIDE DEF v
    <3>5. Looks(u, v)
      <4>1. (Over(u) /\ ~Finished(u)) = FALSE /\ Finished(u) /\ t.started = (u.step # 0)
        BY <1>1, <1>2, <1>3, <2>11, <2>13
      <4>2. /\ v.started = (u.step # 0) /\ v.spawns = Attributed(u) /\ v.pending = Open(u) /\ v.strangers = Unattributed(u)
            /\ v.ended = (Known(u) + 1)..Ready(u) /\ v.waits = Deferred(u)
        BY <1>3, <1>7, <1>8, <2>1, <2>6, <2>9, <2>11, <3>4, <4>1
      <4>3. /\ v.requests = Requests(u) /\ v.answers = HeardAll(u) /\ v.text = (IF "message" \in u.said THEN u.step ELSE 0)
            /\ v.over = FALSE /\ v.end = "resolved" /\ v.broken = FALSE
        BY <1>2, <1>3, <1>7, <2>6, <2>10, <2>11, <3>4
      <4>4. QED
        BY ONLY <3>4, <4>1, <4>2, <4>3 DEF Looks
    <3>6. QED
      BY <1>9, <2>5, <3>3, <3>5 DEF u, e
  <2>14. QED
    BY <2>12, <2>13
<1>12. QED
  BY <1>10, <1>11

\* A turn that was rejected, as it should have been.
Lost(s, t) ==
    /\ t.broken = TRUE /\ t.end = "rejected"
    /\ Over(s) /\ s.step # 0 /\ ~s.answers[s.step].ok

\* What the completion of the turn finds.
LEMMA CompletionFinds ==
    ASSUME NEW s, Server(s), Admits(s, "turn_completed")
    PROVE  /\ "turn_completed" \in Kinds /\ "turn_completed" \notin s.said /\ s.step # 0 /\ "message" \in s.said
           /\ "start" \in s.said /\ "answer" \in s.said /\ "waiting" \in s.said /\ "done" \in s.said
           /\ ~Finished(s) /\ ~Over(s) /\ Over(Noted(s, "turn_completed"))
           /\ Finished(Noted(s, "turn_completed")) <=> "waited" \in s.said
           /\ "waited" \in s.said /\ s.order # "direct" => "spawned" \in s.said
           /\ s.order = "direct" => "waited" \in s.said
           /\ "waited" \notin s.said => Required > 1
           /\ s.step < Required => ~s.answers[s.step].ok
<1>1. "turn_completed" \in Kinds /\ "turn_completed" # "turn_started"
  BY DEF Kinds, Ending
<1>2. "turn_completed" \notin s.said /\ s.step # 0 /\ Awaits(s, "turn_completed") \subseteq s.said /\ Ends(s)
  BY <1>1, ServerNoted DEF Ending
<1>3. "message" \in s.said
  BY <1>2 DEF Awaits
<1>4. /\ "start" \in s.said /\ "answer" \in s.said /\ "waiting" \in s.said /\ "done" \in s.said
      /\ s.order = "late" \/ Course(s) \subseteq s.said
  BY <1>3, WhatWasSaid
<1>5. "waited" \in Course(s)
  BY DEF Course
<1>6. Noted(s, "turn_completed").step = s.step /\ Noted(s, "turn_completed").order = s.order
      /\ Noted(s, "turn_completed").said = s.said \cup {"turn_completed"}
  BY NoteFields
<1>7. "waited" \in s.said /\ s.order # "direct" => "spawned" \in s.said /\ "spawning" \in s.said
  BY WhatWasSaid
<1>8. "waited" \in s.said => Course(s) \subseteq s.said
  BY <1>4, <1>7 DEF Course
<1>9. Finished(Noted(s, "turn_completed")) <=> "waited" \in s.said
  <2>1. Course(Noted(s, "turn_completed")) = Course(s)
    BY <1>6 DEF Course
  <2>2. "waited" \in s.said => Finished(Noted(s, "turn_completed"))
    BY <1>2, <1>3, <1>6, <1>8, <2>1 DEF Finished, Ending
  <2>3. Finished(Noted(s, "turn_completed")) => "waited" \in s.said
    BY <1>5, <1>6, <2>1 DEF Finished
  <2>4. QED
    BY <2>2, <2>3
<1>10. ~Finished(s) /\ ~Over(s) /\ Over(Noted(s, "turn_completed"))
  BY <1>2, <1>6 DEF Finished, Over, Ending
<1>11. "waited" \notin s.said => Required > 1
  BY <1>4, <1>5 DEF Server
<1>12. s.order = "direct" => "waited" \in s.said
  BY <1>4, <1>5
<1>13. ASSUME s.step < Required PROVE ~s.answers[s.step].ok
  <2>1. ~PreparesNext(s.step, s.answers[s.step])
    BY <1>2 DEF Ends
  <2>2. s.step < Steps /\ ~Repaired(s.step)
    BY <1>13, AnswerTypes DEF Repaired
  <2>3. s.answers[s.step].ok \in BOOLEAN
    BY <1>2, <1>4, AnswerTypes DEF HeardBy
  <2>4. QED
    BY <2>1, <2>2, <2>3 DEF PreparesNext
<1>14. QED
  BY <1>1, <1>2, <1>3, <1>4, <1>7, <1>9, <1>10, <1>11, <1>12, <1>13

\* A turn that is over is resolved as soon as nothing is outstanding.
LEMMA FinalizeLooks ==
    ASSUME NEW u, Over(u), u.step # 0, NEW w, IsTurn(w), w.started = TRUE, w.spawns = Attributed(u), w.pending = Open(u),
           w.strangers = Unattributed(u), w.ended = (Known(u) + 1)..Ready(u), w.waits = Deferred(u), w.requests = Requests(u),
           w.answers = HeardAll(u), w.text = (IF "message" \in u.said THEN u.step ELSE 0), w.over = TRUE, w.end = "no",
           w.broken = FALSE,
           Finished(u) <=> Open(u) = {}, Finished(u) => Unattributed(u) = <<>> /\ Deferred(u) = <<>>
    PROVE  Looks(u, TryFinalize(w))
<1>1. CASE Finished(u)
  <2> DEFINE v == [w EXCEPT !.over = FALSE, !.end = "resolved"]
  <2>1. TryFinalize(w) = v
    BY <1>1 DEF TryFinalize
  <2>2. /\ IsTurn(v) /\ v.started = w.started /\ v.spawns = w.spawns /\ v.pending = w.pending
        /\ v.strangers = w.strangers /\ v.ended = w.ended /\ v.waits = w.waits /\ v.requests = w.requests
        /\ v.answers = w.answers /\ v.text = w.text /\ v.over = FALSE /\ v.end = "resolved" /\ v.broken = w.broken
    BY DEF IsTurn, TurnFields
  <2> HIDE DEF v
  <2>3. v.over = (Over(u) /\ ~Finished(u)) /\ v.started = (u.step # 0)
    BY <1>1, <2>2
  <2>4. Looks(u, v)
    BY <1>1, <2>2, <2>3 DEF Looks
  <2>5. QED
    BY <2>1, <2>4
<1>2. CASE ~Finished(u)
  <2>1. TryFinalize(w) = w
    BY <1>2 DEF TryFinalize
  <2>2. w.over = (Over(u) /\ ~Finished(u)) /\ w.started = (u.step # 0)
    BY <1>2
  <2>3. Looks(u, w)
    BY <1>2, <2>2 DEF Looks
  <2>4. QED
    BY <2>1, <2>3
<1>3. QED
  BY <1>1, <1>2

LEMMA ThrowIsLost ==
    ASSUME NEW s, Over(s), s.step # 0, ~s.answers[s.step].ok, NEW t, t.end = "no"
    PROVE  Lost(s, Throw(t)) /\ Throw(t).broken
<1>1. IsTurn(NewTurn)
  <2>1. Looks(NewServer("timely"), NewTurn)
    BY NewTurnLooks
  <2>2. QED
    BY <2>1 DEF Looks
<1>2. Throw(t).broken = TRUE /\ Throw(t).end = "rejected"
  BY <1>1 DEF Throw, IsTurn, TurnFields
<1>3. QED
  BY <1>2 DEF Lost

LEMMA TurnCompletedLooks ==
    ASSUME NEW s, Server(s), Admits(s, "turn_completed"), NEW t, Looks(s, t)
    PROVE  LET u == Noted(s, "turn_completed")
               v == Consume(t, Notice("turn_completed", s.step))
           IN Looks(u, v) \/ Lost(u, v)
<1> DEFINE u == Noted(s, "turn_completed")
           e == Notice("turn_completed", s.step)
<1>1. /\ "turn_completed" \notin s.said /\ s.step # 0 /\ "message" \in s.said
      /\ "start" \in s.said /\ "answer" \in s.said /\ "waiting" \in s.said /\ "done" \in s.said
      /\ ~Finished(s) /\ ~Over(s) /\ Over(u)
      /\ Finished(u) <=> "waited" \in s.said
      /\ "waited" \in s.said /\ s.order # "direct" => "spawned" \in s.said
      /\ s.order = "direct" => "waited" \in s.said
      /\ "waited" \notin s.said => Required > 1
      /\ s.step < Required => ~s.answers[s.step].ok
  BY CompletionFinds
<1>2. u.order = s.order /\ u.step = s.step /\ u.answers = s.answers /\ u.said = s.said \cup {"turn_completed"}
  BY NoteFields
<1>3. /\ Met(u) = Met(s) /\ Ready(u) = Ready(s) /\ Awaited(u) = Awaited(s)
      /\ Known(u) = IF s.order = "direct" THEN s.step ELSE Known(s)
      /\ Requests(u) = Requests(s) /\ HeardAll(u) = HeardAll(s)
  BY NotedCounts
<1> HIDE DEF u
<1>4. PICK n \in Nat : /\ n = s.step /\ n # 0 /\ n <= Steps /\ Steps \in Nat /\ Required \in Nat /\ Met(s) = n /\ Ready(s) = n
                       /\ Awaited(s) = (IF "waited" \in s.said THEN n ELSE n - 1)
  BY <1>1, AnswerTypes DEF Met, Ready, Awaited
<1>5. e.kind = "turn_completed" /\ e.ok = TRUE
  BY DEF Notice
<1> HIDE DEF e
<1>6. /\ IsTurn(t) /\ t.started = TRUE /\ t.spawns = Attributed(s) /\ t.pending = Open(s) /\ t.strangers = Unattributed(s)
      /\ t.ended = (Known(s) + 1)..n /\ t.waits = Deferred(s) /\ t.requests = Requests(s)
      /\ t.answers = HeardAll(s) /\ t.text = n /\ t.over = FALSE /\ t.end = "no" /\ t.broken = FALSE
  <2>1. (s.step # 0) = TRUE /\ (Over(s) /\ ~Finished(s)) = FALSE
    BY <1>1
  <2>2. QED
    BY <1>1, <1>4, <2>1 DEF Looks
<1>7. Consume(t, e) = TurnCompleted(t, e)
  BY <1>5, <1>6 DEF Consume
<1>8. Open(u) = Open(s) /\ Deferred(u) = <<>> /\ "message" \in u.said
  BY <1>1, <1>2 DEF Open, Deferred
<1>9. "waited" \notin s.said => Open(s) # {}
  BY <1>1 DEF Open
<1>10. (Lost(u, Throw(t)) /\ Throw(t).broken) \/ s.step >= Required
  <2>1. s.step < Required \/ s.step >= Required
    BY <1>4
  <2>2. CASE s.step < Required
    <3>1. ~u.answers[u.step].ok /\ u.step # 0
      BY <1>1, <1>2, <2>2
    <3>2. QED
      BY <1>1, <1>6, <3>1, ThrowIsLost
  <2>3. QED
    BY <2>1, <2>2
<1> DEFINE w(d) == [d EXCEPT !.over = TRUE]
<1>11. ASSUME Synthesize(t).broken PROVE Consume(t, e) = Synthesize(t)
  BY <1>4, <1>5, <1>6, <1>7, <1>11 DEF TurnCompleted, Require
<1>12. ASSUME ~Synthesize(t).broken PROVE Consume(t, e) = TryFinalize(w(Synthesize(t)))
  BY <1>4, <1>5, <1>6, <1>7, <1>12 DEF TurnCompleted, Require
<1>13. CASE s.order # "direct" /\ Known(s) # 0
  <2>1. Known(s) \in Nat /\ Known(s) = (IF "spawned" \in s.said THEN n ELSE n - 1)
    BY <1>1, <1>4, <1>13, Counts DEF Known
  <2>2. t.spawns # <<>>
    <3>1. Len(Attributed(s)) = Known(s)
      BY <1>1, ListLengths
    <3>2. QED
      BY <1>6, <1>13, <2>1, <3>1
  <2>3. Synthesize(t) = t
    BY <2>2 DEF Synthesize
  <2> DEFINE v == w(t)
  <2>4. Consume(t, e) = TryFinalize(v)
    BY <1>6, <1>12, <2>3
  <2>5. /\ IsTurn(v) /\ v.started = t.started /\ v.spawns = t.spawns /\ v.pending = t.pending
        /\ v.strangers = t.strangers /\ v.ended = t.ended /\ v.waits = t.waits /\ v.requests = t.requests
        /\ v.answers = t.answers /\ v.text = t.text /\ v.over = TRUE /\ v.end = t.end /\ v.broken = t.broken
    BY <1>6 DEF IsTurn, TurnFields
  <2> HIDE DEF v
  <2>6. Attributed(u) = Attributed(s) /\ Unattributed(u) = Unattributed(s) /\ Deferred(s) = <<>>
    BY <1>3, <1>13 DEF Attributed, Unattributed, SpawnAt, Deferred
  <2>7. Finished(u) <=> Open(u) = {}
    <3>1. "waited" \in s.said => Open(s) = {}
      BY <1>1, <1>13 DEF Open
    <3>2. QED
      BY <1>1, <1>8, <1>9, <3>1
  <2>8. Finished(u) => Unattributed(u) = <<>>
    <3>1. Finished(u) => Known(u) = n /\ Met(u) = n
      BY <1>1, <1>3, <1>4, <1>13, <2>1
    <3>2. QED
      BY <1>4, <3>1 DEF Unattributed
  <2>9. v.ended = (Known(u) + 1)..Ready(u) /\ v.text = (IF "message" \in u.said THEN u.step ELSE 0)
    BY <1>2, <1>3, <1>4, <1>6, <1>8, <1>13, <2>5
  <2>10. Looks(u, TryFinalize(v))
    <3>1. u.step # 0 /\ Over(u)
      BY <1>1, <1>2
    <3>2. /\ v.started = TRUE /\ v.spawns = Attributed(u) /\ v.pending = Open(u) /\ v.strangers = Unattributed(u)
          /\ v.waits = Deferred(u) /\ v.requests = Requests(u) /\ v.answers = HeardAll(u) /\ v.over = TRUE /\ v.end = "no"
          /\ v.broken = FALSE /\ IsTurn(v)
      BY <1>3, <1>6, <1>8, <2>5, <2>6
    <3>3. QED
      BY <2>7, <2>8, <2>9, <3>1, <3>2, <1>8, FinalizeLooks
  <2>11. QED
    BY <2>4, <2>10 DEF u, e
<1>14. CASE s.order # "direct" /\ Known(s) = 0
  <2>1. n = 1 /\ "spawned" \notin s.said /\ Required > 1
    BY <1>1, <1>4, <1>14 DEF Known
  <2>2. t.spawns = <<>> /\ t.strangers = [p \in 1..1 |-> 0 + p]
    BY <1>4, <1>6, <1>14, <2>1 DEF Attributed, Unattributed
  <2>3. Len(t.strangers) = 1
    BY <2>2
  <2>4. Synthesize(t) = Throw(t)
    BY <1>4, <2>1, <2>2, <2>3 DEF Synthesize, Require
  <2>5. ~(s.step >= Required)
    BY <1>4, <2>1
  <2>6. QED
    BY <1>10, <1>11, <2>4, <2>5 DEF u, e
<1>15. CASE s.order = "direct"
  <2>1. Known(s) = 0 /\ "waited" \in s.said /\ Awaited(s) = n /\ Known(u) = n
    BY <1>1, <1>3, <1>4, <1>15 DEF Known
  <2>2. /\ t.spawns = <<>> /\ t.strangers = [p \in 1..n |-> p] /\ Len(t.strangers) = n /\ t.ended = 1..n
        /\ t.waits = [j \in 1..n |-> j] /\ Len(t.waits) = n
    <3>1. Attributed(s) = <<>>
      BY <2>1 DEF Attributed
    <3>2. Unattributed(s) = [p \in 1..n |-> p]
      <4>1. Met(s) - Known(s) = n /\ \A p \in 1..n : 0 + p = p
        BY <1>4, <2>1
      <4>2. Unattributed(s) = [p \in 1..n |-> 0 + p]
        BY <2>1, <4>1 DEF Unattributed
      <4>3. QED
        BY <4>1, <4>2
    <3>3. Deferred(s) = [j \in 1..n |-> j]
      BY <1>1, <1>15, <2>1 DEF Deferred
    <3>4. QED
      BY <1>4, <1>6, <2>1, <3>1, <3>2, <3>3
  <2>3. ToSet(t.strangers) \subseteq t.ended
    BY <2>2 DEF ToSet
  <2>4. \A i \in 1..n : t.requests[i] # Unset
    BY <1>1, <1>4, <1>6, RequestIsThere
  <2>5. n # 0 /\ t.strangers # <<>>
    BY <1>4, <2>2
  <2>6. CASE s.step < Required
    <3>1. n \notin Required..Steps
      BY <1>4, <2>6
    <3>2. Synthesize(t) = Throw(t)
      BY <1>4, <2>2, <3>1 DEF Synthesize, Require
    <3>3. ~(s.step >= Required)
      BY <1>4, <2>6
    <3>4. QED
      BY <1>10, <1>11, <3>2, <3>3 DEF u, e
  <2>7. CASE ~(s.step < Required)
    <3> DEFINE list == [i \in 1..n |-> [child |-> t.strangers[i], request |-> t.requests[i], waited |-> TRUE]]
               d == [t EXCEPT !.spawns = list, !.strangers = <<>>, !.ended = {}, !.waits = <<>>]
               v == w(d)
    <3>1. n \in Required..Steps
      BY <1>4, <2>7
    <3>2. Synthesize(t) = d
      BY <1>4, <2>2, <2>3, <2>4, <3>1 DEF Synthesize, Require
    <3>3. list = Attributed(u)
      <4>1. \A i \in 1..n : (i <= Awaited(u)) = TRUE
        BY <1>3, <1>4, <2>1
      <4>2. \A i \in 1..n : SpawnAt(u, i) = [child |-> t.strangers[i], request |-> t.requests[i], waited |-> TRUE]
        BY <1>3, <1>6, <2>2, <4>1 DEF SpawnAt
      <4>3. Attributed(u) = [i \in 1..n |-> SpawnAt(u, i)]
        BY <2>1 DEF Attributed
      <4>4. QED
        BY <4>2, <4>3
    <3> HIDE DEF list
    <3>4. /\ IsTurn(d) /\ d.started = t.started /\ d.spawns = list /\ d.pending = t.pending
          /\ d.strangers = <<>> /\ d.ended = {} /\ d.waits = <<>> /\ d.requests = t.requests
          /\ d.answers = t.answers /\ d.text = t.text /\ d.over = t.over /\ d.end = t.end /\ d.broken = t.broken
      BY <1>6 DEF IsTurn, TurnFields
    <3> HIDE DEF d
    <3>5. /\ IsTurn(v) /\ v.started = d.started /\ v.spawns = d.spawns /\ v.pending = d.pending
          /\ v.strangers = d.strangers /\ v.ended = d.ended /\ v.waits = d.waits /\ v.requests = d.requests
          /\ v.answers = d.answers /\ v.text = d.text /\ v.over = TRUE /\ v.end = d.end /\ v.broken = d.broken
      BY <3>4 DEF IsTurn, TurnFields
    <3> HIDE DEF v
    <3>6. Consume(t, e) = TryFinalize(v)
      <4>1. ~Synthesize(t).broken
        BY <1>6, <3>2, <3>4
      <4>2. Consume(t, e) = TryFinalize(w(Synthesize(t)))
        BY <1>12, <4>1
      <4>3. QED
        BY <3>2, <4>2 DEF v
    <3>7. Open(u) = {} /\ Finished(u) /\ Unattributed(u) = <<>>
      <4>1. Open(u) = {}
        BY <1>1, <1>2, <1>8, <1>15, <2>1, WhatWasSaid DEF Open
      <4>2. Unattributed(u) = <<>>
        BY <1>3, <1>4, <2>1 DEF Unattributed
      <4>3. QED
        BY <1>1, <2>1, <4>1, <4>2
    <3>8. (Known(u) + 1)..Ready(u) = {}
      BY <1>3, <1>4, <2>1
    <3>9. /\ v.started = TRUE /\ v.spawns = Attributed(u) /\ v.pending = Open(u) /\ v.strangers = Unattributed(u)
          /\ v.waits = Deferred(u) /\ v.requests = Requests(u) /\ v.answers = HeardAll(u) /\ v.over = TRUE /\ v.end = "no"
          /\ v.broken = FALSE /\ IsTurn(v) /\ v.ended = (Known(u) + 1)..Ready(u)
          /\ v.text = (IF "message" \in u.said THEN u.step ELSE 0)
      BY <1>2, <1>3, <1>4, <1>6, <1>8, <3>3, <3>4, <3>5, <3>7, <3>8
    <3>10. u.step # 0 /\ Over(u)
      BY <1>1, <1>2
    <3>11. Looks(u, TryFinalize(v))
      BY <1>8, <3>7, <3>9, <3>10, FinalizeLooks
    <3>12. QED
      BY <3>6, <3>11 DEF u, e
  <2>8. QED
    BY <2>6, <2>7
<1>16. QED
  BY <1>13, <1>14, <1>15

\* A host has followed a server, or has rejected its turn.
Seen(s, t) == Looks(s, t) \/ Lost(s, t)

LEMMA NothingMoreIsAnswered ==
    ASSUME NEW s, Server(s), Over(s), s.step # 0, NEW e, NEW u, Tells(s, e, u)
    PROVE  Over(u) /\ u.step = s.step /\ u.answers = s.answers
<1>1. "turn_completed" \in s.said
  BY DEF Over
<1>2. ~Admits(s, "answer")
  BY <1>1, ServerAnswers DEF Ending, Server, SaidInOrder, Admits, Ends, Awaits
<1>3. PICK kind \in Kinds : Admits(s, kind) /\ u = After(s, kind)
  BY <1>2 DEF Tells
<1>4. kind # "turn_started"
  BY <1>3 DEF Admits, Course, Ending
<1>5. Noted(s, kind).said = s.said \cup {kind} /\ Noted(s, kind).step = s.step /\ Noted(s, kind).answers = s.answers
  BY NoteFields
<1>6. Noted(s, kind).said # Course(s)
  BY <1>1, <1>5 DEF Course
<1>7. u = Noted(s, kind)
  BY <1>3, <1>4, <1>6, AfterIsNoted
<1>8. QED
  BY <1>1, <1>5, <1>7 DEF Over

\* The host goes where the server went.
LEMMA KindLooks ==
    ASSUME NEW s, Server(s), NEW t, Looks(s, t), NEW kind \in Kinds, Admits(s, kind), kind # "turn_started"
    PROVE  \/ Looks(Noted(s, kind), Consume(t, Notice(kind, s.step)))
           \/ kind = "turn_completed" /\ Lost(Noted(s, kind), Consume(t, Notice(kind, s.step)))
<1>1. CASE kind = "spawning"
  BY <1>1, BeginLooks
<1>2. CASE kind = "waiting"
  BY <1>2, BeginLooks
<1>3. CASE kind = "spawned"
  BY <1>3, SpawnedLooks
<1>4. CASE kind = "start"
  BY <1>4, StartLooks
<1>5. CASE kind = "done"
  BY <1>5, DoneLooks
<1>6. CASE kind = "waited"
  BY <1>6, WaitedLooks
<1>7. CASE kind = "message"
  BY <1>7, MessageLooks
<1>8. CASE kind = "turn_completed"
  BY <1>8, TurnCompletedLooks
<1>9. QED
  BY <1>1, <1>2, <1>3, <1>4, <1>5, <1>6, <1>7, <1>8 DEF Kinds, Ending

LEMMA ConsumeSeen ==
    ASSUME NEW s, Server(s), NEW t, Seen(s, t), NEW e, NEW u, Tells(s, e, u)
    PROVE  Seen(u, Consume(t, e))
<1>1. CASE Lost(s, t)
  <2>1. Over(u) /\ u.step = s.step /\ u.answers = s.answers
    BY <1>1, NothingMoreIsAnswered DEF Lost
  <2>2. Consume(t, e) = t
    BY <1>1 DEF Lost, Consume
  <2>3. QED
    BY <1>1, <2>1, <2>2 DEF Lost, Seen
<1>2. CASE Looks(s, t)
  <2>1. CASE \E kind \in Kinds : Admits(s, kind) /\ e = Notice(kind, s.step) /\ u = After(s, kind)
    <3>1. PICK kind \in Kinds : Admits(s, kind) /\ e = Notice(kind, s.step) /\ u = After(s, kind)
      BY <2>1
    <3>2. CASE kind = "turn_started"
      <4>1. u = NextPage(s)
        BY <3>1, <3>2, ServerBegins
      <4>2. Looks(NextPage(s), Consume(t, Notice("turn_started", s.step)))
        BY <1>2, <3>1, <3>2, TurnStartedLooks
      <4>3. QED
        BY <3>1, <3>2, <4>1, <4>2 DEF Seen
    <3>3. CASE kind # "turn_started"
      <4> DEFINE w == Noted(s, kind)
                 v == Consume(t, Notice(kind, s.step))
      <4>1. Looks(w, v) \/ (kind = "turn_completed" /\ Lost(w, v))
        BY <1>2, <3>1, <3>3, KindLooks
      <4>2. u = w \/ (u = NextPage(w) /\ w.said = Course(s))
        BY <3>1, <3>3, AfterIsNoted
      <4>3. CASE u = w
        BY <3>1, <4>1, <4>3 DEF Seen
      <4>4. CASE u = NextPage(w) /\ w.said = Course(s)
        <5>1. DOMAIN w = ServerFields /\ w.step = s.step /\ w.order = s.order /\ w.said = s.said \cup {kind}
          BY NoteFields
        <5>2. s.step \in Nat \ {0}
          BY <3>1, <3>3, ServerNoted, AnswerTypes
        <5>3. Course(w) = Course(s)
          BY <5>1 DEF Course
        <5>4. kind # "turn_completed"
          BY <4>4, <5>1 DEF Course
        <5> HIDE DEF w, v
        <5>5. Looks(w, v)
          BY <4>1, <5>4
        <5>6. Looks(NextPage(w), v)
          BY <4>4, <5>1, <5>2, <5>3, <5>5, PageLooks
        <5>7. QED
          BY <3>1, <4>4, <5>6 DEF Seen, v
      <4>5. QED
        BY <4>2, <4>3, <4>4
    <3>4. QED
      BY <3>2, <3>3
  <2>2. CASE \E ok \in BOOLEAN, value \in Values :
                 Admits(s, "answer") /\ e = AnswerNotice(s.step, ok, value) /\ u = AfterAnswer(s, ok, value)
    <3>1. PICK ok \in BOOLEAN, value \in Values :
              Admits(s, "answer") /\ e = AnswerNotice(s.step, ok, value) /\ u = AfterAnswer(s, ok, value)
      BY <2>2
    <3>2. Looks(AfterAnswer(s, ok, value), Consume(t, AnswerNotice(s.step, ok, value)))
      BY <1>2, <3>1, AnswerLooks
    <3>3. QED
      BY <3>1, <3>2 DEF Seen
  <2>3. QED
    BY <2>1, <2>2 DEF Tells
<1>3. QED
  BY <1>1, <1>2 DEF Seen

-------------------------------------------------------------------------------
(* What is on its way leads from the state the host has followed to that of the server. *)

\* What a server may say.
Words == {Notice(kind, i) : kind \in Kinds, i \in 0..Steps}
         \cup {AnswerNotice(i, ok, value) : i \in 0..Steps, ok \in BOOLEAN, value \in Values}

\* P goes from s to u, saying q.
Trail(P, s, q, u) ==
    /\ DOMAIN P = 1..(Len(q) + 1)
    /\ P[1] = s /\ P[Len(q) + 1] = u
    /\ \A j \in 1..Len(q) : Tells(P[j], q[j], P[j + 1])

Leads(s, q, u) == \E P : Trail(P, s, q, u)

LEMMA SaidAreWords ==
    ASSUME NEW s, Server(s), NEW e, NEW u, Tells(s, e, u)
    PROVE  e \in Words
BY DEF Server, Tells, Words

LEMMA LeadsNowhere ==
    ASSUME NEW s, NEW u
    PROVE  Leads(s, <<>>, u) <=> s = u
<1>1. ASSUME s = u PROVE Leads(s, <<>>, u)
  <2>1. Trail(<<s>>, s, <<>>, u)
    BY <1>1 DEF Trail
  <2>2. QED
    BY <2>1 DEF Leads
<1>2. ASSUME Leads(s, <<>>, u) PROVE s = u
  BY <1>2 DEF Leads, Trail
<1>3. QED
  BY <1>1, <1>2

LEMMA LeadsFurther ==
    ASSUME NEW s, NEW q \in Seq(Words), NEW u, Leads(s, q, u), NEW e \in Words, NEW v, Tells(u, e, v)
    PROVE  Leads(s, Append(q, e), v)
<1>1. PICK n \in Nat : n = Len(q) /\ DOMAIN q = 1..n
  BY LenProperties
<1>2. PICK P : Trail(P, s, q, u)
  BY DEF Leads
<1> DEFINE R == [j \in 1..(n + 2) |-> IF j = n + 2 THEN v ELSE P[j]]
           r == Append(q, e)
<1>3. Len(r) = n + 1 /\ r[n + 1] = e /\ \A j \in 1..n : r[j] = q[j]
  BY <1>1, AppendProperties
<1> HIDE DEF r
<1>4. R[1] = s /\ R[n + 1] = u /\ R[n + 2] = v /\ DOMAIN R = 1..(n + 2) /\ \A j \in 1..(n + 1) : R[j] = P[j]
  BY <1>1, <1>2 DEF Trail
<1> HIDE DEF R
<1>5. \A j \in 1..(n + 1) : Tells(R[j], r[j], R[j + 1])
  <2>1. TAKE j \in 1..(n + 1)
  <2>2. CASE j = n + 1
    BY <1>3, <1>4, <2>2
  <2>3. CASE j # n + 1
    <3>1. j \in 1..n /\ j + 1 \in 1..(n + 1)
      BY <1>1, <2>3
    <3>2. Tells(P[j], q[j], P[j + 1])
      BY <1>1, <1>2, <3>1 DEF Trail
    <3>3. QED
      BY <1>3, <1>4, <3>1, <3>2
  <2>4. QED
    BY <2>2, <2>3
<1>6. Trail(R, s, r, v)
  BY <1>1, <1>3, <1>4, <1>5 DEF Trail
<1>7. QED
  BY <1>6 DEF Leads, r

\* A trail is cut anywhere.
LEMMA LeadsApart ==
    ASSUME NEW s, NEW b \in Seq(Words), NEW w \in Seq(Words), NEW u, Leads(s, b \o w, u)
    PROVE  \E v : Leads(s, b, v) /\ Leads(v, w, u)
<1>1. PICK m \in Nat, n \in Nat : m = Len(b) /\ DOMAIN b = 1..m /\ n = Len(w) /\ DOMAIN w = 1..n
  BY LenProperties
<1>2. Len(b \o w) = m + n /\ (\A j \in 1..m : (b \o w)[j] = b[j]) /\ (\A j \in 1..n : (b \o w)[m + j] = w[j])
  BY <1>1, ConcatProperties
<1>3. PICK P : Trail(P, s, b \o w, u)
  BY DEF Leads
<1> DEFINE q == b \o w
<1> HIDE DEF q
<1>4. DOMAIN P = 1..(m + n + 1) /\ P[1] = s /\ P[m + n + 1] = u /\ \A j \in 1..(m + n) : Tells(P[j], q[j], P[j + 1])
  BY <1>2, <1>3 DEF Trail, q
<1> DEFINE A == [j \in 1..(m + 1) |-> P[j]]
           B == [j \in 1..(n + 1) |-> P[m + j]]
<1>5. Trail(A, s, b, P[m + 1])
  <2>1. \A j \in 1..m : Tells(A[j], b[j], A[j + 1])
    <3>1. TAKE j \in 1..m
    <3>2. j \in 1..(m + n) /\ A[j] = P[j] /\ A[j + 1] = P[j + 1]
      BY <1>1
    <3>3. QED
      BY <1>2, <1>4, <3>2 DEF q
  <2>2. A[1] = s /\ A[m + 1] = P[m + 1] /\ DOMAIN A = 1..(m + 1)
    BY <1>1, <1>4
  <2> HIDE DEF A
  <2>3. QED
    BY <1>1, <2>1, <2>2 DEF Trail
<1>6. Trail(B, P[m + 1], w, u)
  <2>1. \A j \in 1..n : Tells(B[j], w[j], B[j + 1])
    <3>1. TAKE j \in 1..n
    <3>2. m + j \in 1..(m + n) /\ B[j] = P[m + j] /\ B[j + 1] = P[m + j + 1]
      BY <1>1
    <3>3. QED
      BY <1>2, <1>4, <3>2 DEF q
  <2>2. B[1] = P[m + 1] /\ B[n + 1] = u /\ DOMAIN B = 1..(n + 1)
    BY <1>1, <1>4
  <2> HIDE DEF B
  <2>3. QED
    BY <1>1, <2>1, <2>2 DEF Trail
<1>7. QED
  BY <1>5, <1>6 DEF Leads

LEMMA LeadsOn ==
    ASSUME NEW s, NEW q \in Seq(Words), q # <<>>, NEW u, Leads(s, q, u)
    PROVE  \E v : Tells(s, Head(q), v) /\ Leads(v, Tail(q), u)
<1>1. PICK n \in Nat : n + 1 = Len(q) /\ DOMAIN q = 1..(n + 1)
  <2>1. Len(q) \in Nat /\ Len(q) # 0 /\ DOMAIN q = 1..Len(q)
    BY LenProperties, EmptySeq
  <2>2. Len(q) - 1 \in Nat /\ (Len(q) - 1) + 1 = Len(q)
    BY <2>1
  <2>3. QED
    BY <2>1, <2>2
<1>2. PICK P : Trail(P, s, q, u)
  BY DEF Leads
<1> DEFINE w == Tail(q)
           B == [j \in 1..(n + 1) |-> P[j + 1]]
<1>3. Len(w) = n /\ (\A j \in 1..n : w[j] = q[j + 1]) /\ Head(q) = q[1]
  BY <1>1
<1> HIDE DEF w
<1>4. Tells(s, Head(q), P[2])
  <2>1. 1 \in 1..Len(q)
    BY <1>1
  <2>2. QED
    BY <1>2, <1>3, <2>1 DEF Trail
<1>5. Trail(B, P[2], w, u)
  <2>1. \A j \in 1..n : Tells(B[j], w[j], B[j + 1])
    <3>1. TAKE j \in 1..n
    <3>2. j + 1 \in 1..Len(q) /\ B[j] = P[j + 1] /\ B[j + 1] = P[j + 1 + 1]
      BY <1>1
    <3>3. QED
      BY <1>2, <1>3, <3>2 DEF Trail
  <2>2. B[1] = P[2] /\ B[n + 1] = u /\ DOMAIN B = 1..(n + 1)
    BY <1>1, <1>2 DEF Trail
  <2> HIDE DEF B
  <2>3. QED
    BY <1>3, <2>1, <2>2 DEF Trail
<1>6. QED
  BY <1>4, <1>5 DEF Leads, w

\* The host follows what it replays.
LEMMA ReplaySeen ==
    ASSUME NEW s, Server(s), NEW t, Seen(s, t), NEW b \in Seq(Words), NEW u, Leads(s, b, u)
    PROVE  Server(u) /\ Seen(u, FoldLeft(Consume, t, b))
<1> DEFINE n == Len(b)
<1>1. n \in Nat /\ DOMAIN b = 1..n
  BY LenProperties
<1>2. PICK f : Unfolds(f, t, b, n) /\ FoldLeft(Consume, t, b) = f[1..n]
  BY <1>1, FoldIsUnfolded
<1>3. PICK P : Trail(P, s, b, u)
  BY DEF Leads
<1> DEFINE D == {k \in Nat : k <= n => Server(P[k + 1]) /\ Seen(P[k + 1], f[1..k])}
<1>4. 0 \in D
  <2>1. 1..0 = {} /\ {} \in SUBSET (1..n)
    BY <1>1
  <2>2. f[{}] = t
    BY <1>2, <2>1 DEF Unfolds
  <2>3. P[0 + 1] = s
    BY <1>3 DEF Trail
  <2>4. QED
    BY <2>1, <2>2, <2>3
<1>5. ASSUME NEW k \in Nat, k \in D PROVE k + 1 \in D
  <2> SUFFICES ASSUME k + 1 <= n PROVE Server(P[(k + 1) + 1]) /\ Seen(P[(k + 1) + 1], f[1..(k + 1)])
    OBVIOUS
  <2> DEFINE S == 1..(k + 1)
  <2>1. S \in SUBSET (1..n) /\ S # {} /\ S \in SUBSET (1..(k + 1)) /\ k + 1 \in S
    <3>1. k + 1 \in S
      OBVIOUS
    <3>2. \A i \in S : i \in 1..n
      BY <1>1
    <3>3. QED
      BY <3>1, <3>2
  <2>2. Max(S) = k + 1
    BY <2>1, LastOfPrefix
  <2>3. S \ {k + 1} = 1..k
    OBVIOUS
  <2>4. f[S] = Consume(f[S \ {Max(S)}], b[Max(S)])
    <3> HIDE DEF S
    <3>1. QED
      BY <1>2, <2>1 DEF Unfolds
  <2>5. Server(P[k + 1]) /\ Seen(P[k + 1], f[1..k]) /\ Tells(P[k + 1], b[k + 1], P[(k + 1) + 1])
    <3>1. k <= n /\ k + 1 \in 1..n
      BY <1>1
    <3>2. QED
      BY <1>3, <1>5, <3>1 DEF Trail
  <2>6. Server(P[(k + 1) + 1])
    BY <2>5, ServerTells
  <2>7. Seen(P[(k + 1) + 1], Consume(f[1..k], b[k + 1]))
    BY <2>5, ConsumeSeen
  <2>8. QED
    BY <2>2, <2>3, <2>4, <2>6, <2>7
<1>6. n \in D
  <2> HIDE DEF D
  <2>1. QED
    BY <1>1, <1>4, <1>5, Induction
<1>7. QED
  BY <1>1, <1>2, <1>3, <1>6 DEF Trail

-------------------------------------------------------------------------------
(* The turn of a server that does what it was told. *)

OnItsWay ==
    phase \in {"starting", "awaiting"} =>
        /\ results = <<>> /\ (phase = "awaiting" => buffer = <<>>)
        /\ \E s : Server(s) /\ Seen(s, turn) /\ Leads(s, buffer \o wire, server)

ReadBack ==
    phase = "validating" =>
        /\ Finished(server) /\ Looks(server, turn) /\ buffer = <<>> /\ wire = <<>>
        /\ server.step >= Required
        /\ results \in Seq(Replies) /\ Len(results) < server.step
        /\ \A i \in 1..Len(results) : results[i] = server.answers[i]

\* Once a run is settled no child answers any more.
Settled ==
    phase \in {"returned", "failed"} =>
        /\ Over(server) /\ server.step # 0
        /\ phase = "returned" => results = server.answers /\ server.answers[server.step].ok
        /\ phase = "failed" => ~server.answers[server.step].ok

DeliveryInv ==
    /\ phase \in {"starting", "awaiting", "validating", "returned", "failed"}
    /\ Server(server) /\ buffer \in Seq(Words) /\ wire \in Seq(Words)
    /\ OnItsWay /\ ReadBack /\ Settled

LEMMA DeliveryInvInit ==
    ASSUME OrdersAreKept
    PROVE  DeliveryInit => DeliveryInv
<1> SUFFICES ASSUME DeliveryInit PROVE DeliveryInv
  OBVIOUS
<1>1. PICK order \in Orders : server = NewServer(order)
  BY DEF DeliveryInit
<1>2. phase = "starting" /\ turn = NewTurn /\ buffer = <<>> /\ results = <<>> /\ wire = <<>>
  BY DEF DeliveryInit, HostInit
<1>3. DOMAIN server = ServerFields /\ server.order = order /\ server.step = 0 /\ server.said = {} /\ server.answers = <<>>
  BY <1>1 DEF NewServer, ServerFields
<1>4. order # "early_wait" /\ (order = "late" => Required > 1)
  BY DEF OrdersAreKept
<1>5. AnswersFit(server) /\ SaidInOrder(server)
  BY <1>3 DEF AnswersFit, SaidInOrder, Course, HeardBy
<1>6. Server(server)
  BY <1>3, <1>4, <1>5, StepsAssumption DEF Server
<1>7. Seen(server, turn)
  BY <1>1, <1>2, NewTurnLooks DEF Seen
<1>8. buffer \o wire = <<>> /\ buffer \in Seq(Words) /\ wire \in Seq(Words)
  BY <1>2
<1>9. Leads(server, buffer \o wire, server)
  BY <1>8, LeadsNowhere
<1>10. QED
  BY <1>2, <1>6, <1>7, <1>8, <1>9 DEF DeliveryInv, OnItsWay, ReadBack, Settled

\* The server says something, or a child answers.
LEMMA DeliveryInvTells ==
    ASSUME DeliveryInv, NEW e, Tells(server, e, server'), wire' = Append(wire, e), UNCHANGED hostVars
    PROVE  DeliveryInv'
<1>1. Server(server) /\ wire \in Seq(Words) /\ buffer \in Seq(Words) /\ phase' = phase /\ buffer' = buffer /\ results' = results /\ turn' = turn
  BY DEF DeliveryInv, hostVars
<1>2. Server(server') /\ e \in Words
  BY <1>1, ServerTells, SaidAreWords
<1>3. wire' \in Seq(Words)
  BY <1>1, <1>2, AppendProperties
<1>4. OnItsWay'
  <2> SUFFICES ASSUME phase \in {"starting", "awaiting"}
               PROVE  /\ results = <<>> /\ (phase = "awaiting" => buffer = <<>>)
                      /\ \E s : Server(s) /\ Seen(s, turn) /\ Leads(s, buffer \o Append(wire, e), server')
    BY <1>1 DEF OnItsWay
  <2>1. PICK s : Server(s) /\ Seen(s, turn) /\ Leads(s, buffer \o wire, server)
    BY DEF DeliveryInv, OnItsWay
  <2>2. buffer \o wire \in Seq(Words) /\ buffer \o Append(wire, e) = Append(buffer \o wire, e)
    BY <1>1, <1>2
  <2>3. Leads(s, buffer \o Append(wire, e), server')
    BY <1>2, <2>1, <2>2, LeadsFurther
  <2>4. QED
    BY <2>1, <2>3 DEF DeliveryInv, OnItsWay
<1>5. ReadBack'
  <2>1. phase # "validating"
    BY NothingAfter DEF DeliveryInv, ReadBack
  <2>2. QED
    BY <1>1, <2>1 DEF ReadBack
<1>6. Settled'
  <2>1. CASE phase \in {"returned", "failed"}
    <3>1. Over(server) /\ server.step # 0
      BY <2>1 DEF DeliveryInv, Settled
    <3>2. Over(server') /\ server'.step = server.step /\ server'.answers = server.answers
      BY <1>1, <3>1, NothingMoreIsAnswered
    <3>3. QED
      BY <1>1, <2>1, <3>1, <3>2 DEF DeliveryInv, Settled
  <2>2. CASE phase \notin {"returned", "failed"}
    BY <1>1, <2>2 DEF Settled
  <2>3. QED
    BY <2>1, <2>2
<1>7. QED
  BY <1>1, <1>2, <1>3, <1>4, <1>5, <1>6 DEF DeliveryInv

LEMMA DeliveryInvDeliver ==
    ASSUME DeliveryInv, Deliver
    PROVE  DeliveryInv'
<1>1. wire # <<>> /\ Notify(Head(wire)) /\ wire' = Tail(wire) /\ server' = server
  BY DEF Deliver
<1>2. wire \in Seq(Words) /\ buffer \in Seq(Words)
  BY DEF DeliveryInv
<1>3. Tail(wire) \in Seq(Words) /\ Head(wire) \in Words
  BY <1>1, <1>2
<1>4. CASE Hold(Head(wire))
  <2>1. phase = "starting" /\ phase' = phase /\ buffer' = Append(buffer, Head(wire)) /\ turn' = turn /\ results' = results
    BY <1>4 DEF Hold
  <2>2. buffer' \in Seq(Words) /\ buffer' \o wire' = buffer \o wire
    BY <1>1, <1>2, <1>3, <2>1
  <2>3. OnItsWay'
    BY <1>1, <2>1, <2>2 DEF DeliveryInv, OnItsWay
  <2>4. QED
    BY <1>1, <1>3, <2>1, <2>2, <2>3 DEF DeliveryInv, ReadBack, Settled
<1>5. CASE Handle(Head(wire))
  <2>1. phase \in {"awaiting", "validating"} /\ phase' = phase /\ turn' = Consume(turn, Head(wire)) /\ buffer' = buffer /\ results' = results
    BY <1>5 DEF Handle
  <2>2. phase = "awaiting"
    BY <1>1, <2>1 DEF DeliveryInv, ReadBack
  <2>3. buffer = <<>> /\ results = <<>>
    BY <2>2 DEF DeliveryInv, OnItsWay
  <2>4. buffer \o wire = wire /\ buffer \o Tail(wire) = Tail(wire)
    BY <1>2, <1>3, <2>3
  <2>5. PICK s : Server(s) /\ Seen(s, turn) /\ Leads(s, wire, server)
    BY <2>2, <2>4 DEF DeliveryInv, OnItsWay
  <2>6. PICK v : Tells(s, Head(wire), v) /\ Leads(v, Tail(wire), server)
    BY <1>1, <1>2, <2>5, LeadsOn
  <2>7. Server(v) /\ Seen(v, Consume(turn, Head(wire)))
    BY <2>5, <2>6, ServerTells, ConsumeSeen
  <2>8. OnItsWay'
    BY <1>1, <2>1, <2>2, <2>3, <2>4, <2>6, <2>7 DEF OnItsWay
  <2>9. QED
    BY <1>1, <1>2, <1>3, <2>1, <2>2, <2>3, <2>8 DEF DeliveryInv, ReadBack, Settled
<1>6. QED
  BY <1>1, <1>4, <1>5 DEF Notify

LEMMA DeliveryInvRespond ==
    ASSUME DeliveryInv, Respond, UNCHANGED serverVars
    PROVE  DeliveryInv'
<1>1. /\ phase = "starting" /\ phase' = "awaiting" /\ turn' = FoldLeft(Consume, turn, buffer) /\ buffer' = <<>>
      /\ results' = results /\ wire' = wire /\ server' = server
  BY DEF Respond, serverVars
<1>2. wire \in Seq(Words) /\ buffer \in Seq(Words) /\ buffer' \in Seq(Words)
  BY <1>1 DEF DeliveryInv
<1>3. PICK s : Server(s) /\ Seen(s, turn) /\ Leads(s, buffer \o wire, server)
  BY <1>1 DEF DeliveryInv, OnItsWay
<1>4. PICK v : Leads(s, buffer, v) /\ Leads(v, wire, server)
  BY <1>2, <1>3, LeadsApart
<1>5. Server(v) /\ Seen(v, turn')
  BY <1>1, <1>2, <1>3, <1>4, ReplaySeen
<1>6. buffer' \o wire' = wire
  BY <1>1, <1>2
<1>7. OnItsWay'
  BY <1>1, <1>4, <1>5, <1>6 DEF DeliveryInv, OnItsWay
<1>8. QED
  BY <1>1, <1>2, <1>7 DEF DeliveryInv, ReadBack, Settled

\* Nobody answers once the turn is over, so a trail from there keeps the answers.
LEMMA LeadsKeepsAnswers ==
    ASSUME NEW s, Server(s), Over(s), s.step # 0, NEW q \in Seq(Words), NEW u, Leads(s, q, u)
    PROVE  Over(u) /\ u.step = s.step /\ u.answers = s.answers
<1>1. PICK n \in Nat : n = Len(q) /\ DOMAIN q = 1..n
  BY LenProperties
<1>2. PICK P : Trail(P, s, q, u)
  BY DEF Leads
<1> DEFINE Kept(v) == Server(v) /\ Over(v) /\ v.step = s.step /\ v.answers = s.answers
           D == {k \in Nat : k <= n => Kept(P[k + 1])}
<1>3. P[1] = s /\ P[n + 1] = u /\ \A j \in 1..n : Tells(P[j], q[j], P[j + 1])
  BY <1>1, <1>2 DEF Trail
<1>4. 0 \in D
  BY <1>3
<1>5. ASSUME NEW k \in Nat, k \in D PROVE k + 1 \in D
  <2> SUFFICES ASSUME k + 1 <= n PROVE Kept(P[(k + 1) + 1])
    OBVIOUS
  <2>1. k <= n /\ k + 1 \in 1..n
    BY <1>1
  <2>2. Kept(P[k + 1]) /\ Tells(P[k + 1], q[k + 1], P[(k + 1) + 1])
    BY <1>3, <1>5, <2>1
  <2>3. Server(P[(k + 1) + 1])
    BY <2>2, ServerTells
  <2>4. Over(P[(k + 1) + 1]) /\ P[(k + 1) + 1].step = P[k + 1].step /\ P[(k + 1) + 1].answers = P[k + 1].answers
    BY <2>2, NothingMoreIsAnswered
  <2>5. QED
    BY <2>2, <2>3, <2>4
<1>6. n \in D
  <2> HIDE DEF D
  <2>1. QED
    BY <1>1, <1>4, <1>5, Induction
<1>7. QED
  BY <1>1, <1>3, <1>6

\* A server that has finished says nothing, so nothing is on its way from it.
LEMMA LeadsFromTheEnd ==
    ASSUME NEW s, Finished(s), NEW q \in Seq(Words), NEW u, Leads(s, q, u)
    PROVE  q = <<>> /\ u = s
<1>1. q = <<>>
  BY LeadsOn, NothingAfter
<1>2. QED
  BY <1>1, LeadsNowhere

\* A host that has followed a finished server knows every child and has waited for each.
LEMMA FinishedLooks ==
    ASSUME NEW s, Server(s), Finished(s), NEW t, Looks(s, t)
    PROVE  /\ Len(t.spawns) = s.step /\ DOMAIN t.spawns = 1..s.step /\ t.text = s.step /\ t.broken = FALSE
           /\ \A i \in 1..s.step : t.spawns[i] = [child |-> i, request |-> Requests(s)[i], waited |-> TRUE]
<1>1. PICK n \in Nat : n = s.step /\ n # 0
  BY AnswerTypes DEF Finished
<1>2. "turn_completed" \in s.said /\ "waited" \in s.said /\ "message" \in s.said
      /\ (s.order = "direct" \/ "spawned" \in s.said)
  BY DEF Finished, Course, Ending
<1>3. Known(s) = n /\ Awaited(s) = n
  BY <1>1, <1>2 DEF Known, Awaited
<1>4. t.spawns = [i \in 1..n |-> SpawnAt(s, i)] /\ t.text = n /\ t.broken = FALSE
  BY <1>1, <1>2, <1>3 DEF Looks, Attributed
<1>5. Len(t.spawns) = n /\ DOMAIN t.spawns = 1..n
  BY <1>1, <1>4
<1>6. \A i \in 1..n : t.spawns[i] = [child |-> i, request |-> Requests(s)[i], waited |-> TRUE]
  <2>1. TAKE i \in 1..n
  <2>2. t.spawns[i] = SpawnAt(s, i)
    BY <1>1, <1>4
  <2>3. (i <= Awaited(s)) = TRUE
    BY <1>1, <1>3
  <2>4. SpawnAt(s, i) = [child |-> i, request |-> Requests(s)[i], waited |-> TRUE]
    BY ONLY <2>3 DEF SpawnAt
  <2>5. QED
    BY ONLY <2>2, <2>4
<1>7. QED
  BY <1>1, <1>4, <1>5, <1>6

AllWaited(t) == \A i \in DOMAIN t.spawns : t.spawns[i].waited

LEMMA FinishedWaited ==
    ASSUME NEW s, Server(s), Finished(s), NEW t, Looks(s, t)
    PROVE  AllWaited(t)
<1>1. \A i \in 1..s.step : t.spawns[i] = [child |-> i, request |-> Requests(s)[i], waited |-> TRUE]
  BY FinishedLooks
<1>2. DOMAIN t.spawns = 1..s.step
  BY FinishedLooks
<1>3. ASSUME NEW i \in DOMAIN t.spawns PROVE t.spawns[i].waited
  <2> DEFINE r == [child |-> i, request |-> Requests(s)[i], waited |-> TRUE]
  <2>1. t.spawns[i] = r
    BY <1>1, <1>2
  <2>2. r.waited
    OBVIOUS
  <2> HIDE DEF r
  <2>3. QED
    BY ONLY <2>1, <2>2, Zenon
<1>4. QED
  BY <1>3 DEF AllWaited

\* A run with fewer children than it requires ended in a failure.
LEMMA ShortfallFails ==
    ASSUME NEW s, Server(s), Finished(s), s.step < Required
    PROVE  ~s.answers[s.step].ok
<1>1. ~PreparesNext(s.step, s.answers[s.step]) /\ Len(s.answers) = s.step /\ s.step \in 1..Steps
  BY FinishedEnds
<1>2. s.step < Steps /\ ~Repaired(s.step) /\ s.answers[s.step].ok \in BOOLEAN
  BY <1>1, AnswerTypes DEF Repaired
<1>3. QED
  BY <1>1, <1>2 DEF PreparesNext

LEMMA DeliveryInvContinue ==
    ASSUME DeliveryInv, Continue, UNCHANGED serverVars
    PROVE  DeliveryInv'
<1>1. /\ phase = "awaiting" /\ turn.end = "resolved" /\ turn' = turn /\ buffer' = buffer /\ results' = results
      /\ wire' = wire /\ server' = server
  BY DEF Continue, serverVars
<1>2. buffer = <<>> /\ results = <<>> /\ wire \in Seq(Words) /\ Server(server)
  BY <1>1 DEF DeliveryInv, OnItsWay
<1>3. buffer \o wire = wire
  BY <1>2
<1>4. PICK s : Server(s) /\ Seen(s, turn) /\ Leads(s, wire, server)
  BY <1>1, <1>3 DEF DeliveryInv, OnItsWay
<1>5. Looks(s, turn) /\ Finished(s)
  BY <1>1, <1>4 DEF Seen, Lost, Looks
<1>6. wire = <<>> /\ Looks(server, turn) /\ Finished(server)
  BY <1>2, <1>4, <1>5, LeadsFromTheEnd
<1>7. Len(turn.spawns) = server.step /\ \A i \in DOMAIN turn.spawns : turn.spawns[i].waited
  <2>1. /\ Len(turn.spawns) = server.step /\ DOMAIN turn.spawns = 1..server.step
        /\ \A i \in 1..server.step : turn.spawns[i] = [child |-> i, request |-> Requests(server)[i], waited |-> TRUE]
    BY <1>2, <1>6, FinishedLooks
  <2>2. AllWaited(turn)
    BY <1>2, <1>6, FinishedWaited
  <2>3. QED
    BY ONLY <2>1, <2>2, Zenon DEF AllWaited
<1>8. server.step \in 1..Steps /\ Len(server.answers) = server.step /\ Required \in Nat /\ Steps \in Nat
  BY <1>2, <1>6, FinishedEnds, AnswerTypes
<1>9. CASE server.step >= Required
  <2>1. phase' = "validating"
    BY <1>7, <1>8, <1>9 DEF Continue
  <2>2. results \in Seq(Replies) /\ Len(results) = 0
    BY <1>2
  <2>3. ReadBack'
    BY <1>1, <1>2, <1>6, <1>8, <1>9, <2>2 DEF ReadBack
  <2>4. QED
    BY <1>1, <1>2, <2>1, <2>3 DEF DeliveryInv, OnItsWay, Settled
<1>10. CASE server.step < Required
  <2>1. phase' = "failed"
    BY <1>7, <1>8, <1>10 DEF Continue
  <2>2. ~server.answers[server.step].ok
    BY <1>2, <1>6, <1>10, ShortfallFails
  <2>3. Over(server) /\ server.step # 0
    BY <1>6 DEF Over, Finished, Ending
  <2>4. Settled'
    BY <1>1, <2>1, <2>2, <2>3 DEF Settled
  <2>5. QED
    BY <1>1, <1>2, <2>1, <2>4 DEF DeliveryInv, OnItsWay, ReadBack
<1>11. QED
  BY <1>8, <1>9, <1>10

LEMMA DeliveryInvReject ==
    ASSUME DeliveryInv, Reject, UNCHANGED serverVars
    PROVE  DeliveryInv'
<1>1. /\ phase = "awaiting" /\ turn.end = "rejected" /\ phase' = "failed" /\ turn' = turn /\ buffer' = buffer
      /\ results' = results /\ wire' = wire /\ server' = server
  BY DEF Reject, serverVars
<1>2. buffer = <<>> /\ results = <<>> /\ wire \in Seq(Words) /\ Server(server)
  BY <1>1 DEF DeliveryInv, OnItsWay
<1>3. buffer \o wire = wire
  BY <1>2
<1>4. PICK s : Server(s) /\ Seen(s, turn) /\ Leads(s, wire, server)
  BY <1>1, <1>3 DEF DeliveryInv, OnItsWay
<1>5. Lost(s, turn)
  BY <1>1, <1>4 DEF Seen, Looks
<1>6. Over(server) /\ server.step # 0 /\ ~server.answers[server.step].ok
  BY <1>2, <1>4, <1>5, LeadsKeepsAnswers DEF Lost
<1>7. QED
  BY <1>1, <1>2, <1>6 DEF DeliveryInv, OnItsWay, ReadBack, Settled

LEMMA DeliveryInvShowChild ==
    ASSUME DeliveryInv, ShowChild
    PROVE  DeliveryInv'
<1> DEFINE c == turn.spawns[At].child
           child == [step |-> c, ok |-> server.answers[c].ok, value |-> server.answers[c].value, sound |-> TRUE]
<1>1. /\ At <= Len(turn.spawns) /\ ReadChild(child) /\ phase = "validating"
      /\ turn' = turn /\ buffer' = buffer /\ wire' = wire /\ server' = server
  BY DEF ShowChild, ReadChild, serverVars
<1>2. /\ Finished(server) /\ Looks(server, turn) /\ Server(server) /\ buffer = <<>> /\ wire = <<>> /\ server.step >= Required
      /\ results \in Seq(Replies) /\ \A i \in 1..Len(results) : results[i] = server.answers[i]
  BY <1>1 DEF DeliveryInv, ReadBack
<1>3. PICK n \in Nat, at \in Nat : /\ n = server.step /\ n \in 1..Steps /\ Required <= n /\ Len(server.answers) = n
                                  /\ at = At /\ at \in 1..n /\ Len(results) + 1 = at /\ Steps \in Nat /\ Required \in Nat
  <2>1. Len(results) \in Nat /\ Len(results) < server.step
    BY <1>1, <1>2, LenProperties DEF DeliveryInv, ReadBack
  <2>2. server.step \in 1..Steps /\ Len(server.answers) = server.step /\ Steps \in Nat /\ Required \in Nat
    BY <1>2, FinishedEnds, AnswerTypes
  <2>3. QED
    BY <1>2, <2>1, <2>2 DEF At
<1>4. /\ Len(turn.spawns) = n /\ turn.text = n /\ turn.broken = FALSE
      /\ turn.spawns[at].child = at /\ turn.spawns[at].request = Requests(server)[at]
  <2>1. /\ Len(turn.spawns) = server.step /\ turn.text = server.step /\ turn.broken = FALSE
        /\ \A i \in 1..server.step : turn.spawns[i] = [child |-> i, request |-> Requests(server)[i], waited |-> TRUE]
    <3>1. Server(server) /\ Finished(server) /\ Looks(server, turn)
      BY <1>2
    <3>2. QED
      BY ONLY <3>1, FinishedLooks
  <2>2. at \in 1..server.step /\ n = server.step
    BY <1>3
  <2>3. turn.spawns[at] = [child |-> at, request |-> Requests(server)[at], waited |-> TRUE]
    BY ONLY <2>1, <2>2
  <2>4. turn.spawns[at].child = at /\ turn.spawns[at].request = Requests(server)[at]
    BY ONLY <2>3
  <2>5. QED
    BY ONLY <2>1, <2>2, <2>4
<1>5. /\ server.answers[at] \in Replies /\ server.answers[at].child = at
      /\ server.answers[at].ok \in BOOLEAN /\ server.answers[at].value \in Values
  BY <1>2, <1>3, AnswerTypes
<1>6. c = at /\ child.step = at /\ child.ok = server.answers[at].ok /\ child.value = server.answers[at].value /\ child.sound = TRUE
  BY <1>3, <1>4
<1> HIDE DEF c, child
<1>7. turn.spawns[at].request = IF at = 1 THEN NoValue ELSE results[at - 1].value
  <2>1. CASE at = 1
    BY <1>3, <1>4, <2>1 DEF Requests
  <2>2. CASE at # 1
    <3>1. Requests(server)[at] = server.answers[at - 1].value
      BY <1>2, <1>3, <2>2, RequestIsThere
    <3>2. at - 1 \in 1..Len(results)
      BY <1>2, <1>3, <2>2, LenProperties
    <3>3. QED
      BY <1>2, <1>4, <2>2, <3>1, <3>2
  <2>3. QED
    BY <2>1, <2>2
<1>8. Acceptable(child) <=> (IF Repaired(at) THEN child.ok # (n > at) ELSE child.ok)
  BY <1>3, <1>4, <1>6, <1>7 DEF Acceptable
<1>9. CASE at < n
  <2>1. PreparesNext(at, server.answers[at])
    BY <1>2, <1>3, <1>9 DEF Server, AnswersFit
  <2>2. server.answers[at].ok # Repaired(at)
    BY <2>1 DEF PreparesNext
  <2>3. Repaired(at) \in BOOLEAN /\ (n > at) = TRUE
    BY <1>3, <1>9 DEF Repaired
  <2>4. Acceptable(child)
    BY <1>5, <1>6, <1>8, <2>2, <2>3
  <2> DEFINE r == [child |-> turn.spawns[At].child, ok |-> child.ok, value |-> child.value]
  <2>5. phase' = "validating" /\ results' = Append(results, r)
    BY <1>1, <1>3, <1>4, <1>9, <2>4 DEF ReadChild, Accepted
  <2>6. r = server.answers[at]
    BY <1>3, <1>4, <1>5, <1>6 DEF Replies
  <2> HIDE DEF r
  <2>7. /\ results' \in Seq(Replies) /\ Len(results') = at /\ results'[at] = server.answers[at]
        /\ \A i \in 1..(at - 1) : results'[i] = results[i]
    BY <1>2, <1>3, <1>5, <2>5, <2>6, AppendProperties
  <2>8. \A i \in 1..Len(results') : results'[i] = server.answers[i]
    BY <1>2, <1>3, <2>7
  <2>9. ReadBack'
    BY <1>1, <1>2, <1>3, <1>9, <2>7, <2>8 DEF ReadBack
  <2>10. QED
    BY <1>1, <1>2, <2>5, <2>9 DEF DeliveryInv, OnItsWay, Settled
<1>10. CASE at = n
  <2>1. ~PreparesNext(n, server.answers[n])
    BY <1>2, <1>3, FinishedEnds
  <2>2. Over(server) /\ server.step # 0
    BY <1>2 DEF Over, Finished, Ending
  <2>3. (n > at) = FALSE
    BY <1>3, <1>10
  <2>4. Acceptable(child) <=> server.answers[n].ok
    <3>1. Repaired(at) \in BOOLEAN
      BY DEF Repaired
    <3>2. QED
      BY <1>5, <1>6, <1>8, <1>10, <2>3, <3>1
  <2>5. CASE server.answers[n].ok
    <3> DEFINE r == [child |-> turn.spawns[At].child, ok |-> child.ok, value |-> child.value]
    <3>1. phase' = "returned" /\ results' = Append(results, r)
      BY <1>1, <1>3, <1>4, <1>10, <2>4, <2>5 DEF ReadChild, Accepted
    <3>2. r = server.answers[at]
      BY <1>3, <1>4, <1>5, <1>6 DEF Replies
    <3> HIDE DEF r
    <3>3. /\ results' \in Seq(Replies) /\ Len(results') = at /\ results'[at] = server.answers[at]
          /\ \A i \in 1..(at - 1) : results'[i] = results[i]
      BY <1>2, <1>3, <1>5, <3>1, <3>2, AppendProperties
    <3>4. \A i \in 1..Len(results') : results'[i] = server.answers[i]
      BY <1>2, <1>3, <3>3
    <3>5. results' = server.answers
      <4>1. server.answers \in Seq(Replies)
        BY <1>2 DEF Server, AnswersFit
      <4>2. QED
        BY <1>3, <1>10, <3>3, <3>4, <4>1, SeqEqual
    <3>6. Settled'
      BY <1>1, <1>3, <2>2, <2>5, <3>1, <3>5 DEF Settled
    <3>7. QED
      BY <1>1, <1>2, <3>1, <3>6 DEF DeliveryInv, OnItsWay, ReadBack
  <2>6. CASE ~server.answers[n].ok
    <3>1. phase' = "failed"
      BY <1>1, <2>4, <2>6 DEF ReadChild
    <3>2. Settled'
      BY <1>1, <1>3, <2>2, <2>6, <3>1 DEF Settled
    <3>3. QED
      BY <1>1, <1>2, <3>1, <3>2 DEF DeliveryInv, OnItsWay, ReadBack
  <2>7. QED
    BY <2>5, <2>6
<1>11. QED
  BY <1>3, <1>9, <1>10

LEMMA DeliveryInvNext ==
    ASSUME DeliveryInv, [DeliveryNext]_deliveryVars
    PROVE  DeliveryInv'
<1>1. CASE LoadRequest \/ UNCHANGED deliveryVars
  <2>1. UNCHANGED <<server, wire, hostVars>>
    BY <1>1 DEF LoadRequest, deliveryVars, serverVars
  <2>2. QED
    BY <2>1 DEF hostVars, DeliveryInv, OnItsWay, ReadBack, Settled
<1>2. CASE Deliver
  BY <1>2, DeliveryInvDeliver
<1>3. CASE ShowChild
  BY <1>3, DeliveryInvShowChild
<1>4. CASE Host
  BY <1>4, DeliveryInvRespond, DeliveryInvContinue, DeliveryInvReject DEF Host
<1>5. CASE \E kind \in Kinds : Say(kind)
  <2>1. PICK kind \in Kinds : Say(kind)
    BY <1>5
  <2> DEFINE e == Notice(kind, server.step)
  <2>2. Tells(server, e, server') /\ wire' = Append(wire, e) /\ UNCHANGED hostVars
    BY <2>1 DEF Say, Tells
  <2> HIDE DEF e
  <2>3. QED
    BY <2>2, DeliveryInvTells
<1>6. CASE \E ok \in BOOLEAN, value \in Values : Answer(ok, value)
  <2>1. PICK ok \in BOOLEAN, value \in Values : Answer(ok, value)
    BY <1>6
  <2> DEFINE e == AnswerNotice(server.step, ok, value)
  <2>2. Tells(server, e, server') /\ wire' = Append(wire, e) /\ UNCHANGED hostVars
    BY <2>1 DEF Answer, Tells
  <2> HIDE DEF e
  <2>3. QED
    BY <2>2, DeliveryInvTells
<1>7. QED
  BY <1>1, <1>2, <1>3, <1>4, <1>5, <1>6 DEF DeliveryNext

LEMMA DeliveryInvEarns ==
    ASSUME DeliveryInv
    PROVE  OutcomeIsEarned
<1>1. CASE phase \in {"returned", "failed"}
  <2>1. Over(server) /\ server.step # 0 /\ Server(server)
    BY <1>1 DEF DeliveryInv, Settled
  <2>2. "answer" \in server.said
    BY <2>1, WhatWasSaid DEF Over
  <2>3. Len(server.answers) = server.step /\ server.answers # <<>>
    BY <2>1, <2>2, AnswerTypes DEF HeardBy
  <2>4. Last(server.answers) = server.answers[server.step]
    BY <2>3 DEF Last
  <2>5. QED
    BY <1>1, <2>3, <2>4 DEF DeliveryInv, Settled, OutcomeIsEarned, RejectedOnlyForCause, ReturnedWhatWasAnswered, EndedWell
<1>2. CASE phase \notin {"returned", "failed"}
  BY <1>2 DEF OutcomeIsEarned, RejectedOnlyForCause, ReturnedWhatWasAnswered
<1>3. QED
  BY <1>1, <1>2

\* A turn of an app-server that does what the driver prompt asks returns exactly what its children
\* answered, and is rejected only when the last of them failed, whatever the order in which the
\* notifications of a step reach the host and however many of them overtake the answer to
\* turn/start (onNotification, onCollabItem, synthesizeDirectCollaboration, validateChildren).
THEOREM OutcomesAreEarned ==
    ASSUME OrdersAreKept
    PROVE  DeliverySpec => []OutcomeIsEarned
<1>1. DeliveryInit => DeliveryInv
  BY DeliveryInvInit
<1>2. DeliveryInv /\ [DeliveryNext]_deliveryVars => DeliveryInv'
  BY DeliveryInvNext
<1>3. DeliveryInv => OutcomeIsEarned
  BY DeliveryInvEarns
<1>4. QED
  BY <1>1, <1>2, <1>3, PTL DEF DeliverySpec
===============================================================================
