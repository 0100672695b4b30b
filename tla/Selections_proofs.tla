---------------------------- MODULE Selections_proofs ----------------------------
(***************************************************************************)
(* Facts about naturals, recursive functions and selections that the proofs   *)
(* of several components need.  Induction takes a set and not a formula: what  *)
(* the prover cannot instantiate is an operator.                             *)
(***************************************************************************)
EXTENDS Selections, SequencesExt, SequenceTheorems, FiniteSetTheorems, WellFoundedInduction, TLAPS

-------------------------------------------------------------------------------
(* Naturals.                                                                 *)

\* A set of naturals that is not empty has a least element.
LEMMA LeastNatural ==
    ASSUME NEW S \in SUBSET Nat, S # {}
    PROVE  \E m \in S : \A n \in S : m <= n
<1> DEFINE Less == {p \in Nat \X Nat : p[1] < p[2]}
<1>1. IsWellFoundedOn(Less, Nat)
  BY NatLessThanWellFounded DEF OpToRel
<1>2. \A m, n \in Nat : <<n, m>> \in Less <=> n < m
  OBVIOUS
<1> HIDE DEF Less
<1>3. \E m \in S : \A n \in S : ~(<<n, m>> \in Less)
  BY <1>1, WFMin, Zenon
<1>4. PICK m \in S : \A n \in S : ~(<<n, m>> \in Less)
  BY <1>3
<1>5. \A n \in S : n \in Nat /\ m \in Nat /\ ~(n < m)
  BY <1>2, <1>4
<1>6. QED
  BY <1>5

\* One that is bounded has a greatest one.
LEMMA GreatestNatural ==
    ASSUME NEW n \in Nat, NEW S \in SUBSET (1..n), S # {}
    PROVE  \E m \in S : \A k \in S : k <= m
<1> DEFINE D == {n - k : k \in S}
<1>1. D \in SUBSET Nat /\ D # {}
  <2>1. \A k \in S : n - k \in Nat
    <3>1. \A k \in 1..n : n - k \in Nat
      OBVIOUS
    <3>2. QED
      BY <3>1
  <2>2. QED
    BY <2>1, Zenon
<1>2. PICK d \in D : \A c \in D : d <= c
  BY <1>1, LeastNatural
<1>3. PICK m \in S : d = n - m
  BY <1>2
<1>4. ASSUME NEW k \in S PROVE k <= m
  <2>1. d <= n - k /\ k \in Nat /\ m \in Nat
    BY <1>2
  <2>2. QED
    BY <1>3, <2>1
<1>5. QED
  BY <1>4

\* A set that has 0, and n + 1 with every n, has every natural.
LEMMA Induction ==
    ASSUME NEW S, 0 \in S, \A n \in Nat : n \in S => n + 1 \in S
    PROVE  Nat \subseteq S
<1>1. SUFFICES ASSUME Nat \ S # {} PROVE FALSE
  OBVIOUS
<1>2. PICK m \in Nat \ S : \A n \in Nat \ S : m <= n
  BY <1>1, LeastNatural
<1>3. m - 1 \in Nat /\ m - 1 \in S
  BY <1>2
<1>4. QED
  BY <1>2, <1>3

\* The same up to a bound.
LEMMA InductionUpTo ==
    ASSUME NEW N \in Nat, NEW S, 0 \in S, \A k \in 1..N : k - 1 \in S => k \in S
    PROVE  0..N \subseteq S
<1> DEFINE D == {n \in Nat : n <= N => n \in S}
<1>1. 0 \in D
  OBVIOUS
<1>2. ASSUME NEW n \in Nat, n \in D PROVE n + 1 \in D
  <2>1. n + 1 <= N => n + 1 \in 1..N /\ (n + 1) - 1 = n /\ n \in S
    BY <1>2
  <2>2. QED
    BY <2>1
<1> HIDE DEF D
<1>3. Nat \subseteq D
  BY <1>1, <1>2, Induction
<1>4. QED
  BY <1>3 DEF D

\* A recursion whose step stays in T has a solution.
Unrolls(f, t, step, N) ==
    /\ f[0] = t
    /\ \A k \in 1..N : f[k] = step[<<f[k - 1], k>>]

LEMMA RecursionExists ==
    ASSUME NEW N \in Nat, NEW T, NEW t \in T, NEW step \in [T \X (1..N) -> T]
    PROVE  \E f \in [0..N -> T] : Unrolls(f, t, step, N)
<1> DEFINE D == {n \in 0..N : \E f \in [0..n -> T] : Unrolls(f, t, step, n)}
<1>1. 0 \in D
  <2>1. [i \in 0..0 |-> t] \in [0..0 -> T] /\ Unrolls([i \in 0..0 |-> t], t, step, 0)
    BY DEF Unrolls
  <2>2. QED
    BY <2>1
<1>2. ASSUME NEW k \in 1..N, k - 1 \in D PROVE k \in D
  <2>1. PICK g \in [0..(k - 1) -> T] : Unrolls(g, t, step, k - 1)
    BY <1>2
  <2> DEFINE f == [i \in 0..k |-> IF i = k THEN step[<<g[k - 1], k>>] ELSE g[i]]
  <2>2. g[k - 1] \in T /\ step[<<g[k - 1], k>>] \in T
    <3>1. k - 1 \in 0..(k - 1)
      OBVIOUS
    <3>2. g[k - 1] \in T
      BY <3>1
    <3>3. <<g[k - 1], k>> \in T \X (1..N)
      BY <3>2
    <3>4. QED
      BY <3>2, <3>3
  <2>3. \A i \in 0..(k - 1) : i # k /\ i \in 0..k /\ f[i] = g[i] /\ g[i] \in T
    OBVIOUS
  <2>4. f \in [0..k -> T]
    BY <2>2, <2>3
  <2>5. f[0] = t
    BY <2>1, <2>3 DEF Unrolls
  <2>6. ASSUME NEW j \in 1..k PROVE f[j] = step[<<f[j - 1], j>>]
    <3>1. CASE j = k
      <4>1. k \in 0..k /\ k - 1 \in 0..(k - 1)
        OBVIOUS
      <4>2. f[k] = step[<<g[k - 1], k>>] /\ f[k - 1] = g[k - 1]
        BY <4>1, <2>3
      <4>3. QED
        BY <3>1, <4>2
    <3>2. CASE j # k
      <4>1. j \in 1..(k - 1) /\ j \in 0..(k - 1) /\ j - 1 \in 0..(k - 1)
        BY <3>2
      <4>2. g[j] = step[<<g[j - 1], j>>]
        BY <4>1, <2>1 DEF Unrolls
      <4>3. QED
        BY <4>1, <4>2, <2>3
    <3>3. QED
      BY <3>1, <3>2
  <2> HIDE DEF f
  <2>7. Unrolls(f, t, step, k)
    BY <2>5, <2>6 DEF Unrolls
  <2>8. QED
    BY <2>4, <2>7
<1> HIDE DEF D
<1>3. 0..N \subseteq D
  BY <1>1, <1>2, InductionUpTo
<1>4. N \in D
  BY <1>3
<1>5. QED
  BY <1>4 DEF D

-------------------------------------------------------------------------------
(* The elements at some positions.                                           *)

\* The selection is built from left to right.
PicksUpTo(f, s, I) ==
    /\ f[0] = <<>>
    /\ \A n \in 1..Len(s) : f[n] = IF n \in I THEN Append(f[n - 1], s[n]) ELSE f[n - 1]

LEMMA PickedUnrolls ==
    ASSUME NEW S, NEW s \in Seq(S), NEW I
    PROVE  \E f : PicksUpTo(f, s, I) /\ Picked(s, I) = f[Len(s)]
<1> DEFINE N == Len(s)
           step == [p \in Seq(S) \X (1..N) |-> IF p[2] \in I THEN Append(p[1], s[p[2]]) ELSE p[1]]
           Eq(f) == f = [n \in 0..N |-> IF n = 0 THEN <<>>
                                        ELSE IF n \in I THEN Append(f[n - 1], s[n]) ELSE f[n - 1]]
           upto == CHOOSE f : Eq(f)
<1>1. N \in Nat /\ <<>> \in Seq(S) /\ step \in [Seq(S) \X (1..N) -> Seq(S)]
  OBVIOUS
<1>2. PICK f \in [0..N -> Seq(S)] : Unrolls(f, <<>>, step, N)
  <2> HIDE DEF step, N
  <2>1. QED
    BY <1>1, RecursionExists
<1>3. \A n \in 1..N : f[n] = IF n \in I THEN Append(f[n - 1], s[n]) ELSE f[n - 1]
  <2> TAKE n \in 1..N
  <2>1. n - 1 \in 0..N
    OBVIOUS
  <2>2. f[n - 1] \in Seq(S)
    BY <2>1
  <2>3. <<f[n - 1], n>> \in Seq(S) \X (1..N)
    BY <2>2
  <2>4. f[n] = step[<<f[n - 1], n>>]
    BY <1>2 DEF Unrolls
  <2>5. QED
    BY <2>3, <2>4
<1>4. f[0] = <<>>
  BY <1>2 DEF Unrolls
<1>5. Eq(f)
  <2>1. \A n \in 0..N : f[n] = IF n = 0 THEN <<>>
                                ELSE IF n \in I THEN Append(f[n - 1], s[n]) ELSE f[n - 1]
    <3> TAKE n \in 0..N
    <3> HIDE DEF N, step
    <3>1. n = 0 \/ n \in 1..N
      BY <1>1
    <3>2. n \in 1..N => n # 0
      BY <1>1
    <3>3. QED
      BY <3>1, <3>2, <1>3, <1>4, Zenon
  <2>2. DOMAIN f = 0..N /\ f = [n \in DOMAIN f |-> f[n]]
    BY <1>2
  <2> HIDE DEF N, step
  <2>3. f = [n \in 0..N |-> f[n]]
    BY <2>2
  <2>4. QED
    BY <2>1, <2>3, Zenon
<1>6. Eq(upto)
  <2> HIDE DEF Eq
  <2>1. QED
    BY <1>5
<1>7. Picked(s, I) = upto[N]
  BY DEF Picked
<1> HIDE DEF upto
<1>8. upto[0] = <<>>
  BY <1>1, <1>6
<1>9. \A n \in 1..N : upto[n] = IF n \in I THEN Append(upto[n - 1], s[n]) ELSE upto[n - 1]
  <2> TAKE n \in 1..N
  <2> HIDE DEF N, step
  <2>1. n \in 0..N /\ n # 0
    BY <1>1
  <2>2. QED
    BY <1>6, <2>1, Zenon
<1> HIDE DEF step, Eq
<1>10. PicksUpTo(upto, s, I)
  BY <1>8, <1>9, Zenon DEF PicksUpTo
<1>11. QED
  BY <1>7, <1>10

\* What h says of where the selection comes from: its places, in order, and all of them.
Selects(h, s, I, n) ==
    /\ h \in Seq(I \cap (1..n))
    /\ \A i \in I \cap (1..n) : \E k \in DOMAIN h : h[k] = i
    /\ \A k, l \in DOMAIN h : k < l => h[k] < h[l]

Listed(h, s) == [k \in 1..Len(h) |-> s[h[k]]]

LEMMA PickedPlaces ==
    ASSUME NEW S, NEW s \in Seq(S), NEW I
    PROVE  \E h : Selects(h, s, I, Len(s)) /\ Picked(s, I) = Listed(h, s)
<1> DEFINE N == Len(s)
<1>0. PICK f : PicksUpTo(f, s, I) /\ Picked(s, I) = f[N]
  BY PickedUnrolls, Zenon
<1>1. /\ f[0] = <<>>
      /\ \A n \in 1..N : f[n] = IF n \in I THEN Append(f[n - 1], s[n]) ELSE f[n - 1]
  BY <1>0, Zenon DEF PicksUpTo
<1> DEFINE D == {n \in 0..N : \E h : Selects(h, s, I, n) /\ f[n] = Listed(h, s)}
<1>2. N \in Nat
  OBVIOUS
<1> HIDE DEF N
<1>3. 0 \in D
  <2>1. Selects(<<>>, s, I, 0)
    BY DEF Selects
  <2>2. f[0] = Listed(<<>>, s)
    BY <1>1 DEF Listed
  <2>3. QED
    BY <1>2, <2>1, <2>2
<1>4. ASSUME NEW n \in 1..N, n - 1 \in D PROVE n \in D
  <2>1. PICK h : Selects(h, s, I, n - 1) /\ f[n - 1] = Listed(h, s)
    BY <1>4
  <2>2. h \in Seq(I \cap (1..(n - 1))) /\ Len(h) \in Nat /\ DOMAIN h = 1..Len(h)
    BY <2>1 DEF Selects
  <2>3. CASE n \notin I
    <3>1. I \cap (1..(n - 1)) = I \cap (1..n)
      BY <2>3
    <3>2. Selects(h, s, I, n) /\ f[n] = f[n - 1]
      BY <1>1, <2>1, <2>3, <3>1 DEF Selects
    <3>3. QED
      BY <2>1, <3>2, <1>2
  <2>4. CASE n \in I
    <3> DEFINE g == Append(h, n)
    <3>1. /\ g \in Seq(I \cap (1..n)) /\ Len(g) = Len(h) + 1 /\ g[Len(h) + 1] = n
          /\ \A k \in 1..Len(h) : g[k] = h[k] /\ h[k] \in I \cap (1..(n - 1))
          /\ DOMAIN g = 1..(Len(h) + 1)
      <4>1. h \in Seq(I \cap (1..n))
        <5>1. I \cap (1..(n - 1)) \subseteq I \cap (1..n)
          OBVIOUS
        <5>2. QED
          BY <2>2, <5>1
      <4>2. \A k \in 1..Len(h) : h[k] \in I \cap (1..(n - 1))
        BY <2>2
      <4>3. n \in I \cap (1..n)
        BY <2>4
      <4>4. QED
        BY <4>1, <4>2, <4>3
    <3> HIDE DEF g
    <3>2. \A i \in I \cap (1..n) : \E k \in DOMAIN g : g[k] = i
      <4> TAKE i \in I \cap (1..n)
      <4>1. CASE i = n
        BY <2>2, <3>1, <4>1
      <4>2. CASE i # n
        <5>1. i \in I \cap (1..(n - 1))
          BY <4>2
        <5>2. PICK k \in DOMAIN h : h[k] = i
          BY <2>1, <5>1 DEF Selects
        <5>3. k \in 1..Len(h) /\ k \in DOMAIN g
          BY <2>2, <3>1
        <5>4. QED
          BY <3>1, <5>2, <5>3
      <4>3. QED
        BY <4>1, <4>2
    <3>3. \A k, l \in DOMAIN g : k < l => g[k] < g[l]
      <4> TAKE k, l \in DOMAIN g
      <4> HAVE k < l
      <4>1. k \in 1..Len(h) /\ g[k] = h[k] /\ h[k] \in 1..(n - 1)
        BY <2>2, <3>1
      <4>2. CASE l \in 1..Len(h)
        BY <2>1, <2>2, <3>1, <4>1, <4>2 DEF Selects
      <4>3. CASE l = Len(h) + 1
        BY <3>1, <4>1, <4>3
      <4>4. QED
        BY <2>2, <3>1, <4>2, <4>3
    <3>4. Selects(g, s, I, n)
      BY <3>1, <3>2, <3>3 DEF Selects
    <3>5. f[n] = Append(f[n - 1], s[n])
      BY <1>1, <2>4
    <3>6. f[n] = Listed(g, s)
      <4> DEFINE q == [k \in 1..Len(h) |-> s[h[k]]]
      <4>1. q \in Seq(S) /\ Len(q) = Len(h)
        <5>1. \A k \in 1..Len(h) : h[k] \in 1..N
          BY <2>2, <1>2
        <5>2. \A k \in 1..Len(h) : s[h[k]] \in S
          BY <5>1 DEF N
        <5>3. q \in [1..Len(h) -> S]
          BY <5>2
        <5> HIDE DEF q
        <5>4. QED
          BY <5>3, <2>2
      <4>2. Append(q, s[n]) = [k \in 1..(Len(h) + 1) |-> IF k = Len(h) + 1 THEN s[n] ELSE q[k]]
        <5> HIDE DEF q
        <5>1. QED
          BY <4>1, <2>2
      <4>3. \A k \in 1..(Len(h) + 1) : (IF k = Len(h) + 1 THEN s[n] ELSE q[k]) = s[g[k]]
        BY <2>2, <3>1
      <4>4. QED
        BY <2>1, <3>1, <3>5, <4>2, <4>3 DEF Listed
    <3>7. QED
      BY <3>4, <3>6
  <2>5. QED
    BY <2>3, <2>4
<1> HIDE DEF D
<1>5. 0..N \subseteq D
  BY <1>2, <1>3, <1>4, InductionUpTo
<1>6. N \in D
  BY <1>2, <1>5
<1>7. QED
  BY <1>0, <1>6 DEF D, N

\* A selection: the elements at its places and no others, in their order.
LEMMA PickedElements ==
    ASSUME NEW S, NEW s \in Seq(S), NEW I
    PROVE  /\ Picked(s, I) \in Seq(S)
           /\ \A k \in DOMAIN Picked(s, I) : \E i \in I \cap DOMAIN s : Picked(s, I)[k] = s[i]
           /\ \A i \in I \cap DOMAIN s : \E k \in DOMAIN Picked(s, I) : Picked(s, I)[k] = s[i]
<1>1. PICK h : Selects(h, s, I, Len(s)) /\ Picked(s, I) = Listed(h, s)
  BY PickedPlaces
<1>2. h \in Seq(I \cap (1..Len(s))) /\ Len(h) \in Nat /\ DOMAIN h = 1..Len(h) /\ DOMAIN s = 1..Len(s)
  BY <1>1 DEF Selects
<1>3. \A k \in 1..Len(h) : h[k] \in I \cap DOMAIN s
  BY <1>2
<1>4. DOMAIN Picked(s, I) = 1..Len(h) /\ \A k \in 1..Len(h) : Picked(s, I)[k] = s[h[k]]
  BY <1>1 DEF Listed
<1>5. Picked(s, I) \in Seq(S)
  <2>1. \A k \in 1..Len(h) : s[h[k]] \in S
    BY <1>3
  <2>2. Picked(s, I) \in [1..Len(h) -> S]
    BY <1>1, <2>1 DEF Listed
  <2>3. QED
    BY <1>2, <2>2
<1>6. \A i \in I \cap DOMAIN s : \E k \in 1..Len(h) : h[k] = i
  BY <1>1, <1>2 DEF Selects
<1>7. QED
  BY <1>3, <1>4, <1>5, <1>6

\* The first of a selection is at the first of its places.
LEMMA PickedFirst ==
    ASSUME NEW S, NEW s \in Seq(S), NEW I
    PROVE  /\ Picked(s, I) = <<>> <=> I \cap DOMAIN s = {}
           /\ \A j \in I \cap DOMAIN s : (\A i \in I \cap DOMAIN s : j <= i) => Picked(s, I)[1] = s[j]
<1>1. PICK h : Selects(h, s, I, Len(s)) /\ Picked(s, I) = Listed(h, s)
  BY PickedPlaces
<1>2. /\ h \in Seq(I \cap (1..Len(s))) /\ Len(h) \in Nat /\ DOMAIN h = 1..Len(h) /\ DOMAIN s = 1..Len(s)
      /\ \A i \in I \cap (1..Len(s)) : \E k \in DOMAIN h : h[k] = i
      /\ \A k, l \in DOMAIN h : k < l => h[k] < h[l]
  BY <1>1 DEF Selects
<1>3. /\ DOMAIN Picked(s, I) = 1..Len(h) /\ \A k \in 1..Len(h) : Picked(s, I)[k] = s[h[k]]
      /\ Picked(s, I) = <<>> <=> Len(h) = 0
  <2>1. Picked(s, I) = [k \in 1..Len(h) |-> s[h[k]]]
    BY <1>1 DEF Listed
  <2> DEFINE p == [k \in 1..Len(h) |-> s[h[k]]]
  <2>2. DOMAIN p = 1..Len(h) /\ (\A k \in 1..Len(h) : p[k] = s[h[k]]) /\ (Len(h) = 0 => p = <<>>)
    BY <1>2
  <2>3. Len(h) # 0 => p # <<>>
    <3>1. DOMAIN <<>> = {}
      OBVIOUS
    <3>2. Len(h) # 0 => 1 \in DOMAIN p
      BY <1>2, <2>2
    <3>3. QED
      BY <3>1, <3>2
  <2>4. QED
    BY <2>1, <2>2, <2>3
<1>4. ASSUME NEW j \in I \cap DOMAIN s, \A i \in I \cap DOMAIN s : j <= i PROVE Picked(s, I)[1] = s[j]
  <2>1. PICK k \in DOMAIN h : h[k] = j
    BY <1>2, <1>4
  <2>2. 1 \in DOMAIN h /\ 1 <= k /\ h[1] \in I \cap DOMAIN s
    BY <1>2, <2>1
  <2>3. h[1] = j
    <3>1. j <= h[1] /\ (1 < k => h[1] < j) /\ h[1] \in Nat /\ j \in Nat
      BY <1>2, <1>4, <2>1, <2>2
    <3>2. QED
      BY <2>1, <2>2, <3>1
  <2>4. QED
    BY <1>2, <1>3, <2>2, <2>3
<1>5. Len(h) = 0 <=> I \cap DOMAIN s = {}
  BY <1>2
<1>6. QED
  BY <1>3, <1>4, <1>5

\* To pick all is to leave nothing out.
LEMMA PickedAll ==
    ASSUME NEW S, NEW s \in Seq(S), NEW I, DOMAIN s \subseteq I
    PROVE  Picked(s, I) = s
<1> DEFINE N == Len(s)
           Prefix(n) == [i \in 1..n |-> s[i]]
<1>1. PICK f : PicksUpTo(f, s, I) /\ Picked(s, I) = f[N]
  BY PickedUnrolls, Zenon
<1>2. N \in Nat /\ \A i \in 1..N : s[i] \in S /\ i \in I
  OBVIOUS
<1>3. f[0] = <<>> /\ \A n \in 1..N : f[n] = IF n \in I THEN Append(f[n - 1], s[n]) ELSE f[n - 1]
  BY <1>1, Zenon DEF PicksUpTo
<1> DEFINE D == {n \in 0..N : f[n] = Prefix(n)}
<1> HIDE DEF N
<1>4. 0 \in D
  BY <1>2, <1>3
<1>5. ASSUME NEW n \in 1..N, n - 1 \in D PROVE n \in D
  <2>1. n - 1 \in Nat /\ n = (n - 1) + 1 /\ n - 1 \in 0..N
    BY <1>2
  <2>2. PICK m : m = n - 1
    OBVIOUS
  <2>3. m \in Nat /\ n = m + 1 /\ n \in 0..N /\ m <= N
    BY <1>2, <2>1, <2>2
  <2>4. f[m] = Prefix(m)
    BY <1>5, <2>2
  <2>5. f[n] = Append(f[m], s[n])
    BY <1>2, <1>3, <2>2
  <2>6. \A i \in 1..m : s[i] \in S
    <3>1. \A i \in 1..m : i \in 1..N
      BY <1>2, <2>3
    <3>2. QED
      BY <1>2, <3>1
  <2>7. Prefix(m) \in Seq(S) /\ Len(Prefix(m)) = m /\ s[n] \in S
    <3>1. Prefix(m) \in [1..m -> S]
      BY <2>6
    <3>2. QED
      BY <1>2, <2>3, <3>1
  <2>8. Append(Prefix(m), s[n]) = Prefix(n)
    BY <2>3, <2>7
  <2>9. QED
    BY <2>3, <2>4, <2>5, <2>8
<1> HIDE DEF D
<1>6. N \in D
  <2>1. 0..N \subseteq D
    BY <1>2, <1>4, <1>5, InductionUpTo
  <2>2. QED
    BY <1>2, <2>1
<1>7. f[N] = Prefix(N)
  BY <1>6 DEF D
<1>8. Prefix(N) = s
  BY DEF N
<1>9. QED
  BY <1>1, <1>7, <1>8

-------------------------------------------------------------------------------
(* How many of 1..n.                                                         *)

\* A cardinality says whether all of 1..n are in a set of them, some, or none.
LEMMA CountTells ==
    ASSUME NEW n \in Nat, NEW P \in SUBSET (1..n)
    PROVE  /\ Cardinality(P) \in Nat /\ Cardinality(P) <= n
           /\ Cardinality(P) = 0 <=> P = {}
           /\ Cardinality(P) = n <=> P = 1..n
<1>1. IsFiniteSet(1..n) /\ Cardinality(1..n) = n
  <2>1. 1 \in Int /\ n \in Int
    OBVIOUS
  <2>2. IsFiniteSet(1..n) /\ Cardinality(1..n) = IF 1 > n THEN 0 ELSE n - 1 + 1
    BY ONLY <2>1, FS_Interval
  <2>3. QED
    BY <2>2
<1>2. /\ IsFiniteSet(P) /\ Cardinality(P) <= Cardinality(1..n)
      /\ Cardinality(1..n) = Cardinality(P) => 1..n = P
  BY <1>1, FS_Subset
<1>3. Cardinality(P) \in Nat
  BY <1>2, FS_CardinalityType
<1>4. Cardinality(P) = 0 <=> P = {}
  BY <1>2, FS_EmptySet
<1>5. QED
  BY <1>1, <1>2, <1>3, <1>4

\* The images of 1..n are finitely many, and one alone if they are all the same.
LEMMA ImagesTell ==
    ASSUME NEW n \in Nat \ {0}, NEW f, DOMAIN f = 1..n, NEW R, R = {f[k] : k \in 1..n}
    PROVE  /\ IsFiniteSet(R) /\ Cardinality(R) \in Nat /\ Cardinality(R) # 0
           /\ Cardinality(R) = 1 <=> \A k, l \in 1..n : f[k] = f[l]
<1>1. IsFiniteSet(1..n)
  <2>1. 1 \in Int /\ n \in Int
    OBVIOUS
  <2>2. QED
    BY ONLY <2>1, FS_Interval
<1> DEFINE g == [k \in 1..n |-> f[k]]
<1>2. g \in Surjection(1..n, R)
  BY DEF Surjection
<1>3. IsFiniteSet(R)
  <2> HIDE DEF g
  <2>1. QED
    BY <1>1, <1>2, FS_Surjection
<1>4. 1 \in 1..n /\ f[1] \in R
  OBVIOUS
<1>5. Cardinality(R) \in Nat /\ Cardinality(R) # 0
  BY <1>3, <1>4, FS_CardinalityType, FS_EmptySet
<1>6. Cardinality(R) = 1 <=> \E x : R = {x}
  BY <1>3, FS_Singleton, Zenon
<1>7. (\E x : R = {x}) <=> \A k, l \in 1..n : f[k] = f[l]
  <2>1. ASSUME NEW x, R = {x} PROVE \A k, l \in 1..n : f[k] = f[l]
    <3>1. \A k \in 1..n : f[k] \in R
      OBVIOUS
    <3>2. QED
      BY <2>1, <3>1
  <2>2. ASSUME \A k, l \in 1..n : f[k] = f[l] PROVE R = {f[1]}
    BY <1>4, <2>2
  <2>3. QED
    BY <2>1, <2>2
<1>8. QED
  BY <1>3, <1>5, <1>6, <1>7, Zenon

\* A selection that leaves something out is shorter.
LEMMA PickedSome ==
    ASSUME NEW S, NEW s \in Seq(S), NEW I, NEW i \in DOMAIN s, i \notin I
    PROVE  Len(Picked(s, I)) \in Nat /\ Len(Picked(s, I)) < Len(s)
<1>1. PICK h : Selects(h, s, I, Len(s)) /\ Picked(s, I) = Listed(h, s)
  BY PickedPlaces
<1>2. PICK n \in Nat : n = Len(s) /\ DOMAIN s = 1..n
  OBVIOUS
<1>3. /\ h \in Seq(I \cap (1..n)) /\ Len(h) \in Nat /\ DOMAIN h = 1..Len(h)
      /\ \A k, l \in DOMAIN h : k < l => h[k] < h[l]
  BY <1>1, <1>2 DEF Selects
<1>4. Len(Picked(s, I)) = Len(h)
  BY <1>1, <1>3 DEF Listed
<1>5. PICK m \in Nat : m = Len(h)
  BY <1>3
<1> DEFINE P == I \cap (1..n)
<1>6. P \in SUBSET (1..n) /\ P # 1..n
  BY <1>2
<1>7. h \in Injection(1..m, P)
  <2>1. h \in [1..m -> P]
    BY <1>3, <1>5
  <2>2. ASSUME NEW k \in 1..m, NEW l \in 1..m, h[k] = h[l] PROVE k = l
    <3>1. h[k] \in Nat /\ h[l] \in Nat
      BY <2>1
    <3>2. k \in DOMAIN h /\ l \in DOMAIN h
      BY <1>3, <1>5
    <3>3. (k < l => h[k] < h[l]) /\ (l < k => h[l] < h[k])
      BY <1>3, <3>2, Zenon
    <3>4. ~(k < l) /\ ~(l < k)
      BY <2>2, <3>1, <3>3
    <3>5. QED
      BY <3>4
  <2> HIDE DEF P
  <2>3. IsInjective(h)
    BY <2>1, <2>2 DEF IsInjective
  <2>4. QED
    BY <2>1, <2>3, Zenon DEF Injection
<1> HIDE DEF P
<1>8. Cardinality(P) \in Nat /\ Cardinality(P) <= n /\ Cardinality(P) # n
  BY <1>2, <1>6, CountTells
<1>9. IsFiniteSet(P) /\ IsFiniteSet(1..m) /\ Cardinality(1..m) = m
  <2>1. 1 \in Int /\ n \in Int /\ m \in Int
    BY <1>2, <1>5
  <2>2. IsFiniteSet(1..m) /\ Cardinality(1..m) = IF 1 > m THEN 0 ELSE m - 1 + 1
    BY ONLY <2>1, FS_Interval
  <2>3. IsFiniteSet(1..n)
    BY ONLY <2>1, FS_Interval
  <2>4. IsFiniteSet(P)
    BY ONLY <1>6, <2>3, FS_Subset
  <2>5. QED
    BY <1>5, <2>2, <2>4
<1>10. m <= Cardinality(P)
  BY <1>7, <1>9, FS_Injection
<1>11. QED
  BY <1>2, <1>4, <1>5, <1>8, <1>10

-------------------------------------------------------------------------------
(* A sequence of sequences put end to end.                                   *)

JoinsUpTo(f, seqs, S) ==
    /\ f[0] = <<>>
    /\ \A i \in 1..Len(seqs) : f[i] = f[i - 1] \o seqs[i]
    /\ \A i \in 0..Len(seqs) : f[i] \in Seq(S)

LEMMA FlattenUnrolls ==
    ASSUME NEW S, NEW seqs \in Seq(Seq(S))
    PROVE  \E f : JoinsUpTo(f, seqs, S) /\ FlattenSeq(seqs) = f[Len(seqs)]
<1> DEFINE N == Len(seqs)
           step == [p \in Seq(S) \X (1..N) |-> p[1] \o seqs[p[2]]]
           Eq(f) == f = [i \in 1..N |-> IF i = 1 THEN seqs[i] ELSE f[i - 1] \o seqs[i]]
           flatten == CHOOSE f : Eq(f)
<1>1. N \in Nat /\ <<>> \in Seq(S) /\ (\A i \in 1..N : seqs[i] \in Seq(S))
  OBVIOUS
<1>2. step \in [Seq(S) \X (1..N) -> Seq(S)]
  <2>1. \A p \in Seq(S) \X (1..N) : p[1] \in Seq(S) /\ seqs[p[2]] \in Seq(S)
    BY <1>1
  <2>2. \A p \in Seq(S) \X (1..N) : p[1] \o seqs[p[2]] \in Seq(S)
    BY <2>1
  <2>3. QED
    BY <2>2
<1>3. PICK f \in [0..N -> Seq(S)] : Unrolls(f, <<>>, step, N)
  <2> HIDE DEF step, N
  <2>1. QED
    BY <1>1, <1>2, RecursionExists
<1>4. \A i \in 1..N : f[i] = f[i - 1] \o seqs[i]
  <2> TAKE i \in 1..N
  <2>1. i - 1 \in 0..N
    OBVIOUS
  <2>2. f[i - 1] \in Seq(S)
    BY <2>1
  <2>3. <<f[i - 1], i>> \in Seq(S) \X (1..N)
    BY <2>2
  <2>4. f[i] = step[<<f[i - 1], i>>]
    BY <1>3 DEF Unrolls
  <2>5. QED
    BY <2>3, <2>4
<1>5. f[0] = <<>>
  BY <1>3 DEF Unrolls
<1>16. 1 \in 1..N => f[1] = <<>> \o seqs[1]
  <2>1. 1 - 1 = 0
    OBVIOUS
  <2>2. 1 \in 1..N => f[1] = f[1 - 1] \o seqs[1]
    BY <1>4, Zenon
  <2>3. QED
    BY <1>5, <2>1, <2>2
<1>6. JoinsUpTo(f, seqs, S)
  <2>1. \A i \in 0..N : f[i] \in Seq(S)
    BY <1>3
  <2>2. QED
    BY <1>4, <1>5, <2>1 DEF JoinsUpTo
<1> DEFINE g == [i \in 1..N |-> f[i]]
<1>7. Eq(g)
  <2>1. \A i \in 1..N : f[i] = IF i = 1 THEN seqs[i] ELSE f[i - 1] \o seqs[i]
    <3> TAKE i \in 1..N
    <3>1. CASE i = 1
      <4>1. f[1] = <<>> \o seqs[1] /\ seqs[1] \in Seq(S)
        BY <1>1, <1>16, <3>1
      <4>2. QED
        BY <3>1, <4>1
    <3>2. CASE i # 1
      BY <1>4, <3>2
    <3>3. QED
      BY <3>1, <3>2
  <2> HIDE DEF step, N
  <2>2. \A i \in 1..N : i # 1 => i - 1 \in 1..N
    BY <1>1
  <2>3. \A i \in 1..N : f[i] = IF i = 1 THEN seqs[i] ELSE g[i - 1] \o seqs[i]
    BY <2>1, <2>2, Zenon
  <2>4. QED
    BY <2>3, Zenon
<1>8. Eq(flatten)
  <2> HIDE DEF Eq, g
  <2>1. QED
    BY <1>7
<1> HIDE DEF g, step
<1>9. N # 0 => FlattenSeq(seqs) = flatten[N]
  <2> HIDE DEF flatten, Eq
  <2>1. QED
    BY Zenon DEF FlattenSeq, flatten, Eq
<1> HIDE DEF flatten
<1>10. \A i \in 1..N : flatten[i] = IF i = 1 THEN seqs[i] ELSE flatten[i - 1] \o seqs[i]
  <2> TAKE i \in 1..N
  <2> HIDE DEF N
  <2>1. QED
    BY <1>8, Zenon
<1> DEFINE E == {n \in 0..N : n # 0 => flatten[n] = f[n]}
<1>11. 0 \in E
  BY <1>1
<1>12. ASSUME NEW i \in 1..N, i - 1 \in E PROVE i \in E
  <2> SUFFICES flatten[i] = f[i]
    BY <1>1
  <2>1. CASE i = 1
    <3>1. flatten[1] = seqs[1] /\ f[1] = <<>> \o seqs[1] /\ seqs[1] \in Seq(S)
      BY <1>1, <1>10, <1>16, <2>1
    <3>2. QED
      BY <2>1, <3>1
  <2>2. CASE i # 1
    <3>1. i - 1 # 0 /\ flatten[i - 1] = f[i - 1]
      BY <1>12, <2>2
    <3>2. flatten[i] = flatten[i - 1] \o seqs[i] /\ f[i] = f[i - 1] \o seqs[i]
      BY <1>4, <1>10, <2>2
    <3>3. QED
      BY <3>1, <3>2
  <2>3. QED
    BY <2>1, <2>2
<1> HIDE DEF E
<1>13. 0..N \subseteq E
  BY <1>1, <1>11, <1>12, InductionUpTo
<1>14. CASE N # 0
  <2>1. N \in E
    BY <1>1, <1>13
  <2>2. flatten[N] = f[N]
    BY <2>1, <1>14 DEF E
  <2>3. QED
    BY <1>6, <1>9, <1>14, <2>2
<1>15. CASE N = 0
  <2>1. FlattenSeq(seqs) = seqs /\ seqs = <<>>
    BY <1>15 DEF FlattenSeq
  <2>2. QED
    BY <1>5, <1>6, <1>15, <2>1
<1>17. QED
  BY <1>14, <1>15

\* Its elements are those of the sequences it is made of.
LEMMA FlattenElements ==
    ASSUME NEW S, NEW seqs \in Seq(Seq(S))
    PROVE  /\ FlattenSeq(seqs) \in Seq(S)
           /\ \A k \in DOMAIN FlattenSeq(seqs) :
                  \E i \in DOMAIN seqs : \E j \in DOMAIN seqs[i] : FlattenSeq(seqs)[k] = seqs[i][j]
           /\ \A i \in DOMAIN seqs : \A j \in DOMAIN seqs[i] :
                  \E k \in DOMAIN FlattenSeq(seqs) : FlattenSeq(seqs)[k] = seqs[i][j]
<1> DEFINE N == Len(seqs)
           Within(t, n) == \A k \in DOMAIN t : \E i \in 1..n : \E j \in DOMAIN seqs[i] : t[k] = seqs[i][j]
           Covers(t, n) == \A i \in 1..n : \A j \in DOMAIN seqs[i] : \E k \in DOMAIN t : t[k] = seqs[i][j]
<1>1. PICK f : JoinsUpTo(f, seqs, S) /\ FlattenSeq(seqs) = f[N]
  BY FlattenUnrolls, Zenon
<1> DEFINE D == {n \in 0..N : Within(f[n], n) /\ Covers(f[n], n)}
<1>2. N \in Nat /\ DOMAIN seqs = 1..N /\ \A i \in 1..N : seqs[i] \in Seq(S)
  OBVIOUS
<1>3. 0 \in D
  <2>1. f[0] = <<>>
    BY <1>1 DEF JoinsUpTo
  <2>2. QED
    BY <1>2, <2>1
<1>4. ASSUME NEW n \in 1..N, n - 1 \in D PROVE n \in D
  <2>1. PICK t, u : t = f[n - 1] /\ u = f[n]
    OBVIOUS
  <2>2. u = t \o seqs[n] /\ t \in Seq(S) /\ seqs[n] \in Seq(S)
    <3>1. n - 1 \in 0..N
      BY <1>2
    <3>2. QED
      BY <1>1, <1>2, <2>1, <3>1 DEF JoinsUpTo
  <2>3. /\ Len(t) \in Nat /\ Len(seqs[n]) \in Nat
        /\ DOMAIN t = 1..Len(t) /\ DOMAIN seqs[n] = 1..Len(seqs[n]) /\ DOMAIN u = 1..(Len(t) + Len(seqs[n]))
        /\ \A k \in 1..Len(t) : u[k] = t[k]
        /\ \A j \in 1..Len(seqs[n]) : u[Len(t) + j] = seqs[n][j]
    <3>1. PICK v : v = seqs[n]
      OBVIOUS
    <3>2. u = t \o v /\ t \in Seq(S) /\ v \in Seq(S)
      BY <2>2, <3>1
    <3>3. /\ Len(t) \in Nat /\ Len(v) \in Nat
          /\ DOMAIN t = 1..Len(t) /\ DOMAIN v = 1..Len(v) /\ DOMAIN u = 1..(Len(t) + Len(v))
          /\ \A k \in 1..Len(t) : u[k] = t[k]
          /\ \A j \in 1..Len(v) : u[Len(t) + j] = v[j]
      BY <3>2
    <3>4. QED
      BY <3>1, <3>3
  <2>4. Within(t, n - 1) /\ Covers(t, n - 1)
    BY <1>4, <2>1
  <2>5. Within(u, n)
    <3> SUFFICES ASSUME NEW k \in DOMAIN u
                 PROVE  \E i \in 1..n : \E j \in DOMAIN seqs[i] : u[k] = seqs[i][j]
      OBVIOUS
    <3>1. CASE k \in 1..Len(t)
      <4>1. PICK i \in 1..(n - 1) : \E j \in DOMAIN seqs[i] : t[k] = seqs[i][j]
        BY <2>3, <2>4, <3>1
      <4>2. i \in 1..n /\ u[k] = t[k]
        BY <2>3, <3>1
      <4>3. QED
        BY <4>1, <4>2
    <3>2. CASE k \notin 1..Len(t)
      <4>1. k - Len(t) \in 1..Len(seqs[n]) /\ k = Len(t) + (k - Len(t))
        BY <2>3, <3>2
      <4>2. k - Len(t) \in DOMAIN seqs[n] /\ u[k] = seqs[n][k - Len(t)] /\ n \in 1..n
        BY <2>3, <4>1
      <4>3. QED
        BY <4>2
    <3>3. QED
      BY <3>1, <3>2
  <2>6. Covers(u, n)
    <3> SUFFICES ASSUME NEW i \in 1..n, NEW j \in DOMAIN seqs[i]
                 PROVE  \E k \in DOMAIN u : u[k] = seqs[i][j]
      OBVIOUS
    <3>1. CASE i = n
      <4>1. j \in 1..Len(seqs[n]) /\ Len(t) + j \in DOMAIN u
        BY <2>3, <3>1
      <4>2. QED
        BY <2>3, <3>1, <4>1
    <3>2. CASE i # n
      <4>1. i \in 1..(n - 1)
        BY <3>2
      <4>2. PICK k \in DOMAIN t : t[k] = seqs[i][j]
        BY <2>4, <4>1
      <4>3. k \in DOMAIN u /\ u[k] = t[k]
        BY <2>3
      <4>4. QED
        BY <4>2, <4>3
    <3>3. QED
      BY <3>1, <3>2
  <2> HIDE DEF Within, Covers
  <2>7. QED
    BY <1>2, <2>1, <2>5, <2>6
<1> HIDE DEF D
<1>5. 0..N \subseteq D
  BY <1>2, <1>3, <1>4, InductionUpTo
<1>6. N \in D
  BY <1>2, <1>5
<1>7. Within(f[N], N) /\ Covers(f[N], N)
  BY <1>6 DEF D
<1>8. f[N] \in Seq(S)
  BY <1>1, <1>2 DEF JoinsUpTo
<1>9. PICK t : t = FlattenSeq(seqs)
  OBVIOUS
<1>10. Within(t, N) /\ Covers(t, N) /\ t \in Seq(S)
  BY <1>1, <1>7, <1>8, <1>9
<1>11. \A k \in DOMAIN t : \E i \in DOMAIN seqs : \E j \in DOMAIN seqs[i] : t[k] = seqs[i][j]
  BY <1>2, <1>10
<1>12. \A i \in DOMAIN seqs : \A j \in DOMAIN seqs[i] : \E k \in DOMAIN t : t[k] = seqs[i][j]
  BY <1>2, <1>10
<1>13. QED
  BY <1>9, <1>10, <1>11, <1>12, Zenon

-------------------------------------------------------------------------------
(* Selections of selections, of joined lists and of lists of one length.     *)

Ascends(h) == \A k, l \in DOMAIN h : k < l => h[k] < h[l]

\* Two ascending lists of the same numbers: the one is the other as far as it goes.
LEMMA AscendingAgree ==
    ASSUME NEW h \in Seq(Nat), NEW g \in Seq(Nat), Ascends(h), Ascends(g),
           \A k \in DOMAIN h : \E l \in DOMAIN g : g[l] = h[k],
           \A k \in DOMAIN g : \E l \in DOMAIN h : h[l] = g[k]
    PROVE  \A k \in 1..Len(h) : k <= Len(g) /\ h[k] = g[k]
<1>1. PICK m \in Nat, n \in Nat : m = Len(h) /\ n = Len(g) /\ DOMAIN h = 1..m /\ DOMAIN g = 1..n
  OBVIOUS
<1>2. (\A k \in 1..m : h[k] \in Nat) /\ (\A k \in 1..n : g[k] \in Nat)
  BY <1>1
<1>3. (\A k, l \in 1..m : k < l => h[k] < h[l]) /\ (\A k, l \in 1..n : k < l => g[k] < g[l])
  BY <1>1 DEF Ascends
<1>4. (\A k \in 1..m : \E l \in 1..n : g[l] = h[k]) /\ (\A k \in 1..n : \E l \in 1..m : h[l] = g[k])
  BY <1>1
<1> DEFINE D == {k \in 1..m : ~(k <= n /\ h[k] = g[k])}
<1>5. SUFFICES ASSUME D # {} PROVE FALSE
  BY <1>1
<1>6. D \in SUBSET Nat
  OBVIOUS
<1>7. PICK k \in D : \A i \in D : k <= i
  BY ONLY <1>5, <1>6, LeastNatural
<1>8. k \in 1..m /\ \A i \in 1..m : i < k => i <= n /\ h[i] = g[i]
  BY <1>7
<1>9. ~(k > n)
  <2>1. SUFFICES ASSUME k > n PROVE FALSE
    OBVIOUS
  <2>2. PICK l \in 1..n : g[l] = h[k]
    BY <1>4, <1>8
  <2>3. l \in 1..m /\ l < k
    BY <1>8, <2>1
  <2>4. QED
    BY <1>2, <1>3, <1>8, <2>2, <2>3
<1>10. ~(h[k] < g[k])
  <2>1. SUFFICES ASSUME h[k] < g[k] PROVE FALSE
    OBVIOUS
  <2>2. PICK l \in 1..n : g[l] = h[k]
    BY <1>4, <1>8
  <2>3. l < k
    <3>1. k \in 1..n /\ g[l] < g[k] /\ g[l] \in Nat /\ g[k] \in Nat
      BY <1>2, <1>8, <1>9, <2>1, <2>2
    <3>2. ~(k < l)
      <4>1. k < l => g[k] < g[l]
        BY <1>3, <2>2, <3>1
      <4>2. QED
        BY ONLY <3>1, <4>1
    <3>4. l # k
      <4>1. l = k => g[l] = g[k]
        OBVIOUS
      <4>2. QED
        BY ONLY <3>1, <4>1
    <3>3. QED
      BY <2>2, <3>1, <3>2, <3>4
  <2>4. QED
    BY <1>2, <1>3, <1>8, <2>2, <2>3
<1>11. ~(g[k] < h[k])
  <2>1. SUFFICES ASSUME g[k] < h[k] PROVE FALSE
    OBVIOUS
  <2>2. PICK l \in 1..m : h[l] = g[k]
    BY <1>4, <1>8, <1>9
  <2>3. l < k
    <3>1. k \in 1..m /\ h[l] < h[k] /\ h[l] \in Nat /\ h[k] \in Nat
      BY <1>2, <1>8, <2>1, <2>2
    <3>2. ~(k < l)
      <4>1. k < l => h[k] < h[l]
        BY <1>3, <2>2, <3>1
      <4>2. QED
        BY ONLY <3>1, <4>1
    <3>4. l # k
      <4>1. l = k => h[l] = h[k]
        OBVIOUS
      <4>2. QED
        BY ONLY <3>1, <4>1
    <3>3. QED
      BY <2>2, <3>1, <3>2, <3>4
  <2>4. QED
    BY <1>2, <1>3, <1>8, <1>9, <2>2, <2>3
<1>12. k \in 1..n /\ h[k] \in Nat /\ g[k] \in Nat
  BY <1>2, <1>8, <1>9
<1>13. h[k] = g[k]
  BY <1>10, <1>11, <1>12
<1>14. QED
  BY <1>7, <1>9, <1>12, <1>13

\* Two ascending lists of the same numbers are one list.
LEMMA AscendingOnce ==
    ASSUME NEW h \in Seq(Nat), NEW g \in Seq(Nat), Ascends(h), Ascends(g),
           \A k \in DOMAIN h : \E l \in DOMAIN g : g[l] = h[k],
           \A k \in DOMAIN g : \E l \in DOMAIN h : h[l] = g[k]
    PROVE  h = g
<1>1. \A k \in 1..Len(h) : k <= Len(g) /\ h[k] = g[k]
  BY AscendingAgree
<1>2. \A k \in 1..Len(g) : k <= Len(h) /\ g[k] = h[k]
  BY AscendingAgree
<1>3. PICK m \in Nat, n \in Nat : m = Len(h) /\ n = Len(g) /\ DOMAIN h = 1..m /\ DOMAIN g = 1..n
  OBVIOUS
<1>4. m <= n
  <2>1. m = 0 \/ m \in 1..m
    BY <1>3
  <2>2. QED
    BY <1>1, <1>3, <2>1
<1>5. n <= m
  <2>1. n = 0 \/ n \in 1..n
    BY <1>3
  <2>2. QED
    BY <1>2, <1>3, <2>1
<1>6. m = n
  BY <1>3, <1>4, <1>5
<1>7. DOMAIN h = 1..m /\ DOMAIN g = 1..m /\ \A k \in 1..m : h[k] = g[k]
  <2>1. DOMAIN h = 1..m /\ DOMAIN g = 1..m
    BY <1>3, <1>6
  <2>2. QED
    BY <1>1, <1>3, <2>1, Zenon
<1>8. h = [k \in 1..m |-> h[k]] /\ g = [k \in 1..m |-> g[k]]
  BY <1>7
<1>9. QED
  BY <1>7, <1>8, Zenon

\* A list of a set is a list of a larger set.
LEMMA LargerLists ==
    ASSUME NEW P, NEW Q, P \subseteq Q, NEW h \in Seq(P)
    PROVE  h \in Seq(Q) /\ \A k \in DOMAIN h : h[k] \in P
<1>1. PICK n \in Nat : h \in [1..n -> P] /\ DOMAIN h = 1..n
  OBVIOUS
<1>2. h \in [1..n -> Q]
  BY ONLY <1>1, P \subseteq Q
<1>3. h \in Seq(Q)
  BY ONLY <1>2, n \in Nat
<1>4. QED
  BY <1>1, <1>3

\* A selection is what any ascending list of its places gives.
LEMMA PickedIsListed ==
    ASSUME NEW S, NEW s \in Seq(S), NEW I, NEW h, Selects(h, s, I, Len(s))
    PROVE  Picked(s, I) = Listed(h, s)
<1>1. PICK g : Selects(g, s, I, Len(s)) /\ Picked(s, I) = Listed(g, s)
  BY PickedPlaces
<1> DEFINE P == I \cap (1..Len(s))
<1>2. Len(s) \in Nat /\ P \in SUBSET Nat
  OBVIOUS
<1>3. g \in Seq(P) /\ (\A i \in P : \E k \in DOMAIN g : g[k] = i) /\ Ascends(g)
  BY <1>1 DEF Selects, Ascends
<1>4. h \in Seq(P) /\ (\A i \in P : \E k \in DOMAIN h : h[k] = i) /\ Ascends(h)
  BY DEF Selects, Ascends
<1> HIDE DEF P
<1>5. g \in Seq(Nat) /\ (\A k \in DOMAIN g : g[k] \in P)
  BY ONLY <1>2, <1>3, LargerLists
<1>6. h \in Seq(Nat) /\ (\A k \in DOMAIN h : h[k] \in P)
  BY ONLY <1>2, <1>4, LargerLists
<1>7. h = g
  BY ONLY <1>3, <1>4, <1>5, <1>6, AscendingOnce
<1>8. QED
  BY <1>1, <1>7

\* Two lists of one length are selected from alike.
LEMMA PickedAlike ==
    ASSUME NEW S, NEW s \in Seq(S), NEW T, NEW t \in Seq(T), Len(s) = Len(t), NEW I
    PROVE  \E h : Selects(h, s, I, Len(s)) /\ Picked(s, I) = Listed(h, s) /\ Picked(t, I) = Listed(h, t)
<1>1. PICK h : Selects(h, s, I, Len(s)) /\ Picked(s, I) = Listed(h, s)
  BY PickedPlaces
<1>2. Selects(h, t, I, Len(t))
  BY <1>1 DEF Selects
<1>3. QED
  BY <1>1, <1>2, PickedIsListed

\* What a list of places says, place by place.
LEMMA SelectsTells ==
    ASSUME NEW n \in Nat, NEW h, NEW s, NEW I, Selects(h, s, I, n)
    PROVE  \E m \in Nat : /\ m = Len(h) /\ DOMAIN h = 1..m
                          /\ \A k \in 1..m : h[k] \in I /\ h[k] \in 1..n
                          /\ \A i \in I \cap (1..n) : \E k \in 1..m : h[k] = i
                          /\ \A k, l \in 1..m : k < l => h[k] < h[l]
<1> DEFINE P == I \cap (1..n)
<1>1. h \in Seq(P) /\ (\A i \in P : \E k \in DOMAIN h : h[k] = i) /\ (\A k, l \in DOMAIN h : k < l => h[k] < h[l])
  BY DEF Selects
<1>2. P \subseteq I /\ P \subseteq 1..n
  OBVIOUS
<1> HIDE DEF P
<1>3. PICK m \in Nat : m = Len(h) /\ DOMAIN h = 1..m /\ \A k \in 1..m : h[k] \in P
  BY <1>1
<1>4. (\A i \in P : \E k \in 1..m : h[k] = i) /\ (\A k, l \in 1..m : k < l => h[k] < h[l])
  BY ONLY <1>1, <1>3
<1>5. \A i \in I \cap (1..n) : \E k \in 1..m : h[k] = i
  BY ONLY <1>4 DEF P
<1>6. \A k \in 1..m : h[k] \in I /\ h[k] \in 1..n
  BY ONLY <1>2, <1>3
<1>7. QED
  BY ONLY <1>3, <1>4, <1>5, <1>6

\* The places among I with one of the values V.
Having(s, I, V) == {i \in I \cap DOMAIN s : s[i] \in V}

\* What is selected of a selection that has one of the values V.
LEMMA PickedTwice ==
    ASSUME NEW S, NEW s \in Seq(S), NEW I, NEW V, NEW p, p = Picked(s, I)
    PROVE  Picked(p, Having(p, DOMAIN p, V)) = Picked(s, Having(s, I, V))
<1> DEFINE J == {k \in DOMAIN p : p[k] \in V}
           K == {i \in I \cap DOMAIN s : s[i] \in V}
<1>1. PICK h : Selects(h, s, I, Len(s)) /\ p = Listed(h, s)
  BY PickedPlaces
<1>2. p \in Seq(S)
  BY PickedElements
<1>3. PICK g : Selects(g, p, J, Len(p)) /\ Picked(p, J) = Listed(g, p)
  BY <1>2, PickedPlaces
<1>4. PICK n \in Nat : n = Len(s) /\ DOMAIN s = 1..n
  OBVIOUS
<1>5. PICK m \in Nat :
          /\ m = Len(h) /\ DOMAIN h = 1..m
          /\ \A k \in 1..m : h[k] \in I /\ h[k] \in 1..n
          /\ \A i \in I \cap (1..n) : \E k \in 1..m : h[k] = i
          /\ \A k, l \in 1..m : k < l => h[k] < h[l]
  <2>1. Selects(h, s, I, n)
    BY <1>1, <1>4
  <2>2. QED
    BY ONLY <2>1, n \in Nat, SelectsTells
<1>6. Len(p) = m /\ DOMAIN p = 1..m /\ (\A k \in 1..m : p[k] = s[h[k]])
  BY <1>1, <1>5 DEF Listed
<1>8. PICK q \in Nat :
          /\ q = Len(g) /\ DOMAIN g = 1..q
          /\ \A k \in 1..q : g[k] \in J /\ g[k] \in 1..m
          /\ \A j \in J \cap (1..m) : \E k \in 1..q : g[k] = j
          /\ \A k, l \in 1..q : k < l => g[k] < g[l]
  <2>1. Selects(g, p, J, m)
    BY <1>3, <1>6
  <2> HIDE DEF J
  <2>2. QED
    BY ONLY <2>1, m \in Nat, SelectsTells
<1> DEFINE hg == [k \in 1..q |-> h[g[k]]]
<1>9. \A k \in 1..q : h[g[k]] \in K \cap (1..n)
  <2> TAKE k \in 1..q
  <2>1. g[k] \in 1..m /\ p[g[k]] \in V
    BY <1>8
  <2>2. s[h[g[k]]] \in V /\ h[g[k]] \in I /\ h[g[k]] \in 1..n
    BY <1>5, <1>6, <2>1
  <2>3. QED
    BY <1>4, <2>2
<1>10. hg \in Seq(K \cap (1..n)) /\ DOMAIN hg = 1..q /\ Len(hg) = q
  <2>1. hg \in [1..q -> K \cap (1..n)]
    BY <1>9
  <2> HIDE DEF K
  <2>2. QED
    BY <2>1, <1>8
<1>11. \A i \in K \cap (1..n) : \E k \in DOMAIN hg : hg[k] = i
  <2> TAKE i \in K \cap (1..n)
  <2>1. PICK j \in 1..m : h[j] = i
    BY <1>5
  <2>2. j \in J \cap (1..m)
    BY <1>6, <2>1
  <2>3. PICK k \in 1..q : g[k] = j
    BY <1>8, <2>2
  <2>4. QED
    BY <1>10, <2>1, <2>3
<1>12. \A k, l \in DOMAIN hg : k < l => hg[k] < hg[l]
  <2> TAKE k, l \in DOMAIN hg
  <2> HAVE k < l
  <2>1. k \in 1..q /\ l \in 1..q
    BY <1>10
  <2>2. g[k] < g[l] /\ g[k] \in 1..m /\ g[l] \in 1..m
    BY <1>8, <2>1
  <2>3. h[g[k]] < h[g[l]]
    BY <1>5, <2>2
  <2>4. QED
    BY <2>1, <2>3
<1>13. Selects(hg, s, K, Len(s))
  <2> HIDE DEF hg, K, J
  <2>1. QED
    BY <1>4, <1>10, <1>11, <1>12 DEF Selects
<1>14. Picked(s, K) = Listed(hg, s)
  <2> HIDE DEF hg, K, J
  <2>1. QED
    BY <1>13, PickedIsListed
<1>15. Listed(hg, s) = Listed(g, p)
  <2>1. \A k \in 1..q : s[hg[k]] = p[g[k]]
    BY <1>6, <1>8
  <2>2. Len(hg) = q /\ Len(g) = q
    BY <1>8, <1>10
  <2> HIDE DEF hg, J, K
  <2>3. QED
    BY <2>1, <2>2 DEF Listed
<1>16. QED
  <2>1. J = Having(p, DOMAIN p, V) /\ K = Having(s, I, V)
    BY DEF Having
  <2>2. QED
    BY <1>3, <1>14, <1>15, <2>1, Zenon

\* Joining lists of one element and of none is a selection.
LEMMA FlattenOfFew ==
    ASSUME NEW S, NEW seqs \in Seq(Seq(S)), NEW r \in Seq(S), Len(r) = Len(seqs), NEW I,
           \A i \in 1..Len(seqs) : seqs[i] = IF i \in I THEN <<r[i]>> ELSE <<>>
    PROVE  FlattenSeq(seqs) = Picked(r, I)
<1>1. PICK f : JoinsUpTo(f, seqs, S) /\ FlattenSeq(seqs) = f[Len(seqs)]
  BY FlattenUnrolls
<1>2. PICK g : PicksUpTo(g, r, I) /\ Picked(r, I) = g[Len(r)]
  BY PickedUnrolls
<1>3. PICK n \in Nat : n = Len(seqs) /\ n = Len(r) /\ \A i \in 1..n : r[i] \in S
  OBVIOUS
<1>4. /\ f[0] = <<>> /\ \A i \in 1..n : f[i] = f[i - 1] \o seqs[i]
      /\ \A i \in 0..n : f[i] \in Seq(S)
  BY <1>1, <1>3 DEF JoinsUpTo
<1>5. g[0] = <<>> /\ \A k \in 1..n : g[k] = IF k \in I THEN Append(g[k - 1], r[k]) ELSE g[k - 1]
  BY <1>2, <1>3 DEF PicksUpTo
<1> DEFINE D == {k \in 0..n : f[k] = g[k]}
<1>6. 0 \in D
  BY <1>4, <1>5
<1>7. ASSUME NEW k \in 1..n, k - 1 \in D PROVE k \in D
  <2>1. f[k - 1] = g[k - 1] /\ k - 1 \in 0..n /\ f[k - 1] \in Seq(S)
    BY <1>4, <1>7
  <2>2. PICK t \in Seq(S) : t = f[k - 1]
    BY <2>1
  <2>3. r[k] \in S /\ f[k] = t \o seqs[k]
    BY <1>3, <1>4, <2>2
  <2>4. CASE k \in I
    <3>1. seqs[k] = <<r[k]>>
      BY <1>3, <2>4
    <3>2. t \o <<r[k]>> = Append(t, r[k])
      BY <2>3
    <3>3. g[k] = Append(t, r[k])
      BY <1>5, <2>1, <2>2, <2>4
    <3>4. f[k] = g[k]
      BY <2>3, <3>1, <3>2, <3>3
    <3>5. QED
      BY <3>4
  <2>5. CASE k \notin I
    <3>1. seqs[k] = <<>>
      BY <1>3, <2>5
    <3>2. t \o <<>> = t
      OBVIOUS
    <3>3. g[k] = t
      BY <1>5, <2>1, <2>2, <2>5
    <3>4. f[k] = g[k]
      BY <2>3, <3>1, <3>2, <3>3
    <3>5. QED
      BY <3>4
  <2>6. QED
    BY <2>4, <2>5
<1> HIDE DEF D
<1>8. 0..n \subseteq D
  BY ONLY <1>6, <1>7, n \in Nat, InductionUpTo
<1>9. f[n] = g[n]
  BY <1>8 DEF D
<1>10. QED
  BY <1>1, <1>2, <1>3, <1>9

\* The elements of s with one of the values V.
OfThese(s, V) == Picked(s, Having(s, DOMAIN s, V))

\* What is selected of joined lists is what is selected of the one and then of the other.
LEMMA PickedJoined ==
    ASSUME NEW S, NEW s \in Seq(S), NEW t \in Seq(S), NEW V
    PROVE  OfThese(s \o t, V) = OfThese(s, V) \o OfThese(t, V)
<1> DEFINE u == s \o t
           I == Having(u, DOMAIN u, V)
           J == Having(s, DOMAIN s, V)
           K == Having(t, DOMAIN t, V)
<1>1. PICK n \in Nat, m \in Nat : n = Len(s) /\ m = Len(t) /\ DOMAIN s = 1..n /\ DOMAIN t = 1..m
  OBVIOUS
<1>2. /\ u \in Seq(S) /\ Len(u) = n + m /\ DOMAIN u = 1..(n + m)
      /\ \A k \in 1..n : u[k] = s[k] /\ s[k] \in S
      /\ \A k \in 1..m : u[n + k] = t[k] /\ t[k] \in S
  BY <1>1
<1>3. (\A k \in 1..n : k \in I <=> k \in J) /\ (\A k \in 1..m : n + k \in I <=> k \in K)
  <2> HIDE DEF u
  <2>1. \A k \in 1..n : k \in 1..(n + m)
    BY <1>1
  <2>2. \A k \in 1..m : n + k \in 1..(n + m)
    BY <1>1
  <2>3. QED
    BY <1>1, <1>2, <2>1, <2>2 DEF Having
<1> HIDE DEF u, I, J, K
<1>4. PICK f : PicksUpTo(f, u, I) /\ Picked(u, I) = f[n + m]
  BY <1>2, PickedUnrolls
<1>5. PICK g : PicksUpTo(g, s, J) /\ Picked(s, J) = g[n]
  BY <1>1, PickedUnrolls
<1>6. PICK h : PicksUpTo(h, t, K) /\ Picked(t, K) = h[m]
  BY <1>1, PickedUnrolls
<1>7. f[0] = <<>> /\ \A k \in 1..(n + m) : f[k] = IF k \in I THEN Append(f[k - 1], u[k]) ELSE f[k - 1]
  BY <1>2, <1>4 DEF PicksUpTo
<1>8. g[0] = <<>> /\ \A k \in 1..n : g[k] = IF k \in J THEN Append(g[k - 1], s[k]) ELSE g[k - 1]
  BY <1>1, <1>5 DEF PicksUpTo
<1>9. h[0] = <<>> /\ \A k \in 1..m : h[k] = IF k \in K THEN Append(h[k - 1], t[k]) ELSE h[k - 1]
  BY <1>1, <1>6 DEF PicksUpTo
<1> DEFINE D == {k \in 0..n : f[k] = g[k]}
<1>10. 0 \in D
  BY <1>7, <1>8
<1>11. ASSUME NEW k \in 1..n, k - 1 \in D PROVE k \in D
  <2>1. f[k - 1] = g[k - 1] /\ k \in 1..(n + m)
    BY <1>11
  <2>2. f[k] = IF k \in I THEN Append(f[k - 1], u[k]) ELSE f[k - 1]
    BY <1>7, <2>1
  <2>3. g[k] = IF k \in J THEN Append(g[k - 1], s[k]) ELSE g[k - 1]
    BY <1>8
  <2>4. f[k] = g[k]
    <3>1. u[k] = s[k] /\ (k \in I <=> k \in J)
      BY <1>2, <1>3
    <3>2. QED
      BY <2>1, <2>2, <2>3, <3>1
  <2>5. QED
    BY <2>4
<1> HIDE DEF D
<1>12. 0..n \subseteq D
  BY ONLY <1>10, <1>11, n \in Nat, InductionUpTo
<1>13. f[n] = g[n] /\ g[n] \in Seq(S)
  <2>1. f[n] = g[n]
    BY <1>12 DEF D
  <2>2. g[n] \in Seq(S)
    BY <1>5, PickedElements
  <2>3. QED
    BY <2>1, <2>2
<1> DEFINE E == {k \in 0..m : h[k] \in Seq(S) /\ f[n + k] = g[n] \o h[k]}
<1>14. 0 \in E
  <2>1. PICK x \in Seq(S) : x = g[n]
    BY <1>13
  <2>2. x \o <<>> = x /\ n + 0 = n /\ <<>> \in Seq(S)
    OBVIOUS
  <2>3. h[0] \in Seq(S) /\ f[n + 0] = g[n] \o h[0]
    BY <1>9, <1>13, <2>1, <2>2
  <2>4. 0 \in 0..m
    OBVIOUS
  <2>5. QED
    BY <2>3, <2>4, Zenon
<1>15. ASSUME NEW k \in 1..m, k - 1 \in E PROVE k \in E
  <2>1. h[k - 1] \in Seq(S) /\ f[n + (k - 1)] = g[n] \o h[k - 1]
    BY <1>15
  <2>2. n + k \in 1..(n + m) /\ (n + k) - 1 = n + (k - 1)
    OBVIOUS
  <2>3. f[n + k] = IF n + k \in I THEN Append(f[n + (k - 1)], u[n + k]) ELSE f[n + (k - 1)]
    BY <1>7, <2>2
  <2>4. PICK x \in Seq(S), y \in Seq(S), e \in S : x = g[n] /\ y = h[k - 1] /\ e = t[k]
    BY <1>2, <1>13, <2>1
  <2>5. Append(x \o y, e) = x \o Append(y, e) /\ Append(y, e) \in Seq(S)
    <3>1. <<e>> \in Seq(S) /\ Append(y, e) = y \o <<e>> /\ x \o y \in Seq(S) /\ y \o <<e>> \in Seq(S)
      BY ONLY x \in Seq(S), y \in Seq(S), e \in S
    <3>2. Append(x \o y, e) = (x \o y) \o <<e>>
      BY ONLY <3>1, e \in S
    <3>3. (x \o y) \o <<e>> = x \o (y \o <<e>>)
      BY ONLY <3>1, x \in Seq(S), y \in Seq(S), ConcatAssociative
    <3>4. QED
      BY <3>1, <3>2, <3>3, Zenon
  <2>6. n + k \in I <=> k \in K
    BY <1>3
  <2>7. u[n + k] = e
    BY <1>2, <2>4
  <2>8. CASE k \in K
    <3>1. h[k] = Append(y, e)
      BY <1>9, <2>4, <2>8
    <3>2. f[n + k] = Append(x \o y, e)
      BY <2>1, <2>3, <2>4, <2>6, <2>7, <2>8, Zenon
    <3>3. f[n + k] = g[n] \o h[k] /\ h[k] \in Seq(S)
      BY <2>4, <2>5, <3>1, <3>2, Zenon
    <3>4. k \in 0..m
      OBVIOUS
    <3>5. QED
      BY <3>3, <3>4, Zenon
  <2>9. CASE k \notin K
    <3>1. h[k] = h[k - 1]
      BY <1>9, <2>9
    <3>2. f[n + k] = f[n + (k - 1)]
      BY <2>3, <2>6, <2>9, Zenon
    <3>3. f[n + k] = g[n] \o h[k] /\ h[k] \in Seq(S)
      BY <2>1, <3>1, <3>2, Zenon
    <3>4. k \in 0..m
      OBVIOUS
    <3>5. QED
      BY <3>3, <3>4, Zenon
  <2>10. QED
    BY <2>8, <2>9
<1> HIDE DEF E
<1>16. 0..m \subseteq E
  BY ONLY <1>14, <1>15, m \in Nat, InductionUpTo
<1>17. f[n + m] = g[n] \o h[m]
  <2>1. m \in 0..m
    OBVIOUS
  <2>2. m \in E
    BY <1>16, <2>1, Zenon
  <2>3. QED
    BY <2>2, Zenon DEF E
<1>18. QED
  BY <1>4, <1>5, <1>6, <1>17, Zenon DEF OfThese, u, I, J, K

\* Of a list without such values nothing is selected.
LEMMA PickedNone ==
    ASSUME NEW S, NEW s \in Seq(S), NEW V, \A i \in DOMAIN s : s[i] \notin V
    PROVE  OfThese(s, V) = <<>>
<1>1. PICK I : I = Having(s, DOMAIN s, V)
  OBVIOUS
<1>2. I \cap DOMAIN s = {}
  BY <1>1 DEF Having
<1>3. Picked(s, I) = <<>>
  BY ONLY s \in Seq(S), <1>2, PickedFirst
<1>4. QED
  BY <1>1, <1>3, Zenon DEF OfThese

\* A list without repetitions is as long as it has elements, and no other is.
LEMMA DistinctCount ==
    ASSUME NEW n \in Nat, NEW f, DOMAIN f = 1..n, NEW R, R = {f[k] : k \in 1..n}
    PROVE  IsFiniteSet(R) /\ (Cardinality(R) = n <=> \A k, l \in 1..n : f[k] = f[l] => k = l)
<1> DEFINE g == [k \in 1..n |-> f[k]]
<1>1. IsFiniteSet(1..n) /\ Cardinality(1..n) = n
  <2>1. 1 \in Int /\ n \in Int
    OBVIOUS
  <2>2. IsFiniteSet(1..n) /\ Cardinality(1..n) = IF 1 > n THEN 0 ELSE n - 1 + 1
    BY ONLY <2>1, FS_Interval
  <2>3. QED
    BY <2>2
<1>2. g \in Surjection(1..n, R)
  BY DEF Surjection
<1>3. g \in Injection(1..n, R) <=> \A k, l \in 1..n : f[k] = f[l] => k = l
  <2>1. g \in [1..n -> R] /\ \A k \in 1..n : g[k] = f[k]
    OBVIOUS
  <2> HIDE DEF g
  <2>2. DOMAIN g = 1..n
    BY <2>1
  <2>3. QED
    BY <2>1, <2>2 DEF Injection, IsInjective
<1> HIDE DEF g
<1>4. IsFiniteSet(R) /\ (Cardinality(R) = Cardinality(1..n) <=> g \in Injection(1..n, R))
  BY ONLY <1>1, <1>2, FS_Surjection
<1>5. QED
  BY <1>1, <1>3, <1>4
===============================================================================
