--------------------------- MODULE SequenceFacts ---------------------------
(***************************************************************************)
(* Lemmas about lists that a loop builds, for the modules that prove       *)
(* something about them: induction over the rounds of a loop, the prefixes *)
(* of a concatenation (FlattenSeq) and of a list without repetitions.      *)
(* Predicates are sets here, so that every lemma is a first-order fact.    *)
(***************************************************************************)
EXTENDS Naturals, SequencesExt, WellFoundedInduction, SequenceTheorems, TLAPS

-----------------------------------------------------------------------------
(* Induction.                                                              *)

\* A set of natural numbers has a least element.
LEMMA LeastNat ==
    ASSUME NEW T \in SUBSET Nat, T # {}
    PROVE  \E n \in T : \A m \in T : n <= m
<1> DEFINE R == OpToRel(<, Nat)
<1>1. IsWellFoundedOn(R, Nat)
  BY NatLessThanWellFounded
<1>2. \A x, y \in Nat : <<x, y>> \in R <=> x < y
  BY DEF OpToRel
<1> HIDE DEF R
<1>3. PICK n \in T : \A m \in T : ~(<<m, n>> \in R)
  BY <1>1, WFMin
<1>4. \A m \in T : ~(m < n)
  BY <1>2, <1>3
<1>5. QED BY <1>4

\* A set with zero that is closed under the successor has every number.
LEMMA SetInduction ==
    ASSUME NEW T, 0 \in T, \A n \in Nat : n \in T => n + 1 \in T
    PROVE  \A n \in Nat : n \in T
<1> DEFINE U == Nat \ T
<1>1. SUFFICES ASSUME U # {} PROVE FALSE
  OBVIOUS
<1>2. PICK n \in U : \A m \in U : n <= m
  BY <1>1, LeastNat
<1>3. n # 0 /\ n - 1 \in Nat
  OBVIOUS
<1>4. n - 1 \in T
  BY <1>2, <1>3
<1>5. (n - 1) + 1 \in T
  BY <1>3, <1>4
<1>6. QED BY <1>5

\* A value carried through the rounds of a loop: F is what a round does.
Rounds(f, n, F, s0) == f[0] = s0 /\ \A i \in 1..n : f[i] = F[<<i, f[i - 1]>>]

\* A loop of n rounds has a value after each.
LEMMA RoundsExist ==
    ASSUME NEW S, NEW s0 \in S, NEW n \in Nat, NEW F \in [(1..n) \X S -> S]
    PROVE  \E f \in [0..n -> S] : Rounds(f, n, F, s0)
<1> DEFINE T == {k \in Nat : k <= n => \E f \in [0..k -> S] : Rounds(f, k, F, s0)}
<1>1. 0 \in T
  <2> DEFINE f == [i \in 0..0 |-> s0]
  <2>1. f \in [0..0 -> S] /\ Rounds(f, 0, F, s0)
    BY DEF Rounds
  <2>2. QED BY <2>1
<1>2. ASSUME NEW k \in Nat, k \in T PROVE k + 1 \in T
  <2>1. CASE k + 1 <= n
    <3>1. PICK f \in [0..k -> S] : Rounds(f, k, F, s0)
      BY <1>2, <2>1
    <3> DEFINE g == [i \in 0..(k + 1) |->
                       IF i = k + 1 THEN F[<<k + 1, f[k]>>] ELSE f[i]]
    <3>2. F[<<k + 1, f[k]>>] \in S
      BY <2>1
    <3>3. g \in [0..(k + 1) -> S]
      BY <3>2
    <3>4. Rounds(g, k + 1, F, s0)
      <4>1. g[0] = s0
        <5>1. g[0] = f[0]
          BY <2>1
        <5>2. f[0] = s0
          BY <3>1 DEF Rounds
        <5>3. QED BY <5>1, <5>2
      <4>2. ASSUME NEW i \in 1..(k + 1) PROVE g[i] = F[<<i, g[i - 1]>>]
        <5>1. i - 1 \in 0..k /\ g[i - 1] = f[i - 1]
          OBVIOUS
        <5>2. CASE i = k + 1
          <6>1. g[i] = F[<<k + 1, f[k]>>]
            BY <5>2
          <6>2. i - 1 = k
            BY <5>2
          <6>3. g[i - 1] = f[k]
            BY <5>1, <6>2
          <6>4. QED
            <7> HIDE DEF g
            <7> QED BY <5>2, <6>1, <6>3
        <5>3. CASE i \in 1..k
          <6>1. f[i] = F[<<i, f[i - 1]>>] /\ g[i] = f[i]
            BY <3>1, <5>3 DEF Rounds
          <6>2. QED BY <5>1, <6>1
        <5>4. QED BY <5>2, <5>3
      <4> HIDE DEF g
      <4>3. QED BY <4>1, <4>2 DEF Rounds
    <3>5. QED BY <3>3, <3>4
  <2>2. CASE ~(k + 1 <= n)
    BY <2>2
  <2>3. QED BY <2>1, <2>2
<1> HIDE DEF T
<1>3. \A k \in Nat : k \in T
  BY <1>1, <1>2, SetInduction
<1>4. QED BY <1>3 DEF T

-----------------------------------------------------------------------------
(* FlattenSeq.                                                             *)

\* A concatenation is what appending the lists one by one comes to.
LEMMA FlattenRounds ==
    ASSUME NEW S, NEW ss \in Seq(Seq(S))
    PROVE  \E f \in [0..Len(ss) -> Seq(S)] :
             /\ f[0] = <<>>
             /\ \A i \in 1..Len(ss) : f[i] = f[i - 1] \o ss[i]
             /\ FlattenSeq(ss) = f[Len(ss)]
<1> DEFINE n == Len(ss)
           body(g) == [i \in 1..n |-> IF i = 1 THEN ss[i] ELSE g[i - 1] \o ss[i]]
           flatten == CHOOSE g : g = body(g)
           F == [x \in (1..n) \X Seq(S) |-> x[2] \o ss[x[1]]]
<1>1. n \in Nat /\ \A i \in 1..n : ss[i] \in Seq(S)
  OBVIOUS
<1>2. F \in [(1..n) \X Seq(S) -> Seq(S)]
  BY <1>1
<1>3. <<>> \in Seq(S)
  OBVIOUS
<1>4. PICK f \in [0..n -> Seq(S)] : Rounds(f, n, F, <<>>)
  <2> HIDE DEF F, n
  <2>1. QED BY <1>1, <1>2, <1>3, RoundsExist
<1>5. f[0] = <<>> /\ \A i \in 1..n : f[i] = f[i - 1] \o ss[i]
  <2>1. f[0] = <<>> /\ \A i \in 1..n : f[i] = F[<<i, f[i - 1]>>]
    BY <1>4 DEF Rounds
  <2>2. ASSUME NEW i \in 1..n PROVE <<i, f[i - 1]>> \in (1..n) \X Seq(S)
    <3>1. i - 1 \in 0..n
      BY <1>1
    <3>2. QED BY <3>1
  <2>3. QED BY <2>1, <2>2
<1>6. CASE n = 0
  <2>1. FlattenSeq(ss) = ss /\ ss = <<>>
    BY <1>6 DEF FlattenSeq
  <2>2. QED BY <1>5, <1>6, <2>1
<1>7. CASE n # 0
  <2>1. FlattenSeq(ss) = flatten[n]
    BY <1>7 DEF FlattenSeq
  <2> DEFINE g == [i \in 1..n |-> f[i]]
  <2>2. g = body(g)
    <3>1. ASSUME NEW i \in 1..n
          PROVE  g[i] = IF i = 1 THEN ss[i] ELSE g[i - 1] \o ss[i]
      <4>1. g[i] = f[i - 1] \o ss[i]
        BY <1>5
      <4>2. CASE i = 1
        <5>1. 1 \in 1..n /\ 1 - 1 = 0 /\ ss[1] \in Seq(S)
          BY <1>1, <4>2
        <5>2. f[1] = f[1 - 1] \o ss[1]
          BY <1>5, <5>1
        <5>3. f[1] = <<>> \o ss[1]
          BY <1>5, <5>1, <5>2
        <5>4. g[i] = ss[i]
          BY <4>2, <5>1, <5>3, ConcatEmptySeq
        <5>5. QED BY <4>2, <5>4
      <4>3. CASE i # 1
        <5>1. i - 1 \in 1..n /\ g[i - 1] = f[i - 1]
          BY <1>1, <4>3
        <5>2. QED BY <4>1, <4>3, <5>1
      <4>4. QED BY <4>2, <4>3
    <3>2. QED BY <3>1
  <2>3. flatten = body(flatten)
    <3>1. \E h : h = body(h)
      <4> HIDE DEF body, g
      <4>1. QED BY <2>2
    <3> HIDE DEF body
    <3>2. QED BY <3>1
  <2> HIDE DEF flatten, g, F
  <2>4. \A i \in 1..n : flatten[i] = IF i = 1 THEN ss[i] ELSE flatten[i - 1] \o ss[i]
    BY <2>3
  <2> DEFINE T == {i \in Nat : i + 1 <= n => flatten[i + 1] = f[i + 1]}
  <2>5. 0 \in T
    <3>1. 1 \in 1..n /\ ss[1] \in Seq(S)
      BY <1>1, <1>7
    <3>2. flatten[1] = ss[1]
      BY <2>4, <3>1
    <3>3. f[1] = f[1 - 1] \o ss[1]
      <4> HIDE DEF T
      <4> QED BY <1>5, <3>1
    <3>4. f[1] = <<>> \o ss[1]
      <4>1. 1 - 1 = 0
        OBVIOUS
      <4>2. f[1 - 1] = <<>>
        BY <1>5, <4>1
      <4>3. QED BY <3>3, <4>2
    <3>5. f[1] = ss[1]
      BY <3>1, <3>4, ConcatEmptySeq
    <3>6. 0 + 1 = 1
      OBVIOUS
    <3>7. QED BY <3>2, <3>5, <3>6
  <2>6. ASSUME NEW i \in Nat, i \in T PROVE i + 1 \in T
    <3>1. CASE i + 2 <= n
      <4>1. /\ i + 2 \in 1..n /\ i + 2 # 1 /\ (i + 2) - 1 = i + 1
            /\ flatten[i + 1] = f[i + 1]
        BY <2>6, <3>1, <1>1
      <4>2. flatten[i + 2] = flatten[i + 1] \o ss[i + 2]
        BY <2>4, <4>1
      <4>3. f[i + 2] = f[i + 1] \o ss[i + 2]
        BY <1>5, <4>1
      <4>4. i + 1 \in Nat /\ (i + 1) + 1 = i + 2 /\ flatten[i + 2] = f[i + 2]
        BY <4>1, <4>2, <4>3
      <4>5. QED BY <4>4
    <3>2. CASE ~(i + 2 <= n)
      BY <3>2, <1>1
    <3>3. QED BY <3>1, <3>2
  <2> HIDE DEF T
  <2>7. \A i \in Nat : i \in T
    BY <2>5, <2>6, SetInduction
  <2>8. n - 1 \in T
    BY <1>1, <1>7, <2>7
  <2>9. flatten[n] = f[n]
    BY <1>1, <1>7, <2>8 DEF T
  <2>10. QED BY <1>5, <2>1, <2>9
<1>8. QED BY <1>6, <1>7

\* No element occurs twice in a list; no element of lists does in all of them.
Distinct(l) == \A i, j \in 1..Len(l) : l[i] = l[j] => i = j
Separate(ss) == \A m, m2 \in 1..Len(ss) : \A q \in 1..Len(ss[m]) :
                  \A q2 \in 1..Len(ss[m2]) :
                    ss[m][q] = ss[m2][q2] => m = m2 /\ q = q2

\* List l has all elements of the first k lists, and each of its elements has
\* a place in them such that all that comes before it is before it in l.
Covers(l, ss, k) == \A m \in 1..k : \A q \in 1..Len(ss[m]) :
                      \E i \in 1..Len(l) : l[i] = ss[m][q]
InPlace(l, i, ss, k) ==
    \E m \in 1..k : \E q \in 1..Len(ss[m]) :
      /\ l[i] = ss[m][q]
      /\ \A m2 \in 1..m : \A q2 \in 1..Len(ss[m2]) :
           m2 < m \/ q2 < q => \E j \in 1..(i - 1) : l[j] = ss[m2][q2]
Ordered(l, ss, k) == \A i \in 1..Len(l) : InPlace(l, i, ss, k)

\* One more list appended to those before it.
LEMMA FlattenStep ==
    ASSUME NEW S, NEW ss \in Seq(Seq(S)), NEW k \in Nat, k + 1 <= Len(ss),
           NEW l \in Seq(S), Covers(l, ss, k), Ordered(l, ss, k)
    PROVE  /\ Covers(l \o ss[k + 1], ss, k + 1)
           /\ Ordered(l \o ss[k + 1], ss, k + 1)
           /\ Separate(ss) /\ Distinct(l) => Distinct(l \o ss[k + 1])
<1> DEFINE r == ss[k + 1]
           t == l \o r
<1>1. k + 1 \in 1..Len(ss) /\ r \in Seq(S) /\ Len(l) \in Nat /\ Len(r) \in Nat
  OBVIOUS
<1>2. /\ t \in Seq(S) /\ Len(t) = Len(l) + Len(r)
      /\ \A i \in 1..Len(l) : t[i] = l[i]
      /\ \A q \in 1..Len(r) : t[Len(l) + q] = r[q]
  <2> HIDE DEF r
  <2>1. t \in Seq(S) /\ Len(t) = Len(l) + Len(r)
    BY <1>1, ConcatProperties
  <2>2. \A i \in 1..(Len(l) + Len(r)) :
          t[i] = IF i <= Len(l) THEN l[i] ELSE r[i - Len(l)]
    BY <1>1, ConcatProperties
  <2> HIDE DEF t
  <2>3. ASSUME NEW i \in 1..Len(l) PROVE t[i] = l[i]
    <3>1. i \in 1..(Len(l) + Len(r)) /\ i <= Len(l)
      BY <1>1
    <3>2. QED BY <2>2, <3>1
  <2>4. ASSUME NEW q \in 1..Len(r) PROVE t[Len(l) + q] = r[q]
    <3>1. /\ Len(l) + q \in 1..(Len(l) + Len(r)) /\ ~(Len(l) + q <= Len(l))
          /\ (Len(l) + q) - Len(l) = q
      BY <1>1
    <3>2. QED BY <2>2, <3>1
  <2>5. QED BY <2>1, <2>3, <2>4
<1>3. \A m \in 1..(k + 1) : m # k + 1 => m \in 1..k
  OBVIOUS
<1>4. k + 1 \in 1..(k + 1) /\ \A m \in 1..k : m \in 1..(k + 1)
  OBVIOUS
<1>5. ss[k + 1] = r
  OBVIOUS
<1>6. \A m \in 1..(k + 1) : ss[m] \in Seq(S) /\ Len(ss[m]) \in Nat
  OBVIOUS
<1> HIDE DEF r, t
<1>7. Covers(t, ss, k + 1)
  <2> SUFFICES ASSUME NEW m \in 1..(k + 1), NEW q \in 1..Len(ss[m])
               PROVE  \E i \in 1..Len(t) : t[i] = ss[m][q]
    BY DEF Covers
  <2>1. CASE m = k + 1
    <3>1. q \in 1..Len(r) /\ Len(l) + q \in 1..Len(t)
      BY <1>1, <1>2, <1>5, <2>1
    <3>2. t[Len(l) + q] = ss[m][q]
      BY <1>2, <1>5, <2>1, <3>1
    <3>3. QED BY <3>1, <3>2
  <2>2. CASE m # k + 1
    <3>1. PICK i \in 1..Len(l) : l[i] = ss[m][q]
      BY <1>3, <2>2 DEF Covers
    <3>2. i \in 1..Len(t) /\ t[i] = ss[m][q]
      BY <1>1, <1>2, <3>1
    <3>3. QED BY <3>2
  <2>3. QED BY <2>1, <2>2
<1>8. \A i \in 1..Len(l) : InPlace(t, i, ss, k + 1)
  <2> SUFFICES ASSUME NEW i \in 1..Len(l) PROVE InPlace(t, i, ss, k + 1)
    OBVIOUS
  <2>1. PICK m \in 1..k : \E q \in 1..Len(ss[m]) :
          /\ l[i] = ss[m][q]
          /\ \A m2 \in 1..m : \A q2 \in 1..Len(ss[m2]) :
               m2 < m \/ q2 < q => \E j \in 1..(i - 1) : l[j] = ss[m2][q2]
    BY DEF Ordered, InPlace
  <2>2. \A j \in 1..(i - 1) : j \in 1..Len(l)
    BY <1>1
  <2>3. PICK q \in 1..Len(ss[m]) :
          /\ l[i] = ss[m][q]
          /\ \A m2 \in 1..m : \A q2 \in 1..Len(ss[m2]) :
               m2 < m \/ q2 < q => \E j \in 1..(i - 1) : l[j] = ss[m2][q2]
    BY <2>1
  <2>4. t[i] = ss[m][q]
    BY <1>2, <2>3
  <2>5. ASSUME NEW m2 \in 1..m, NEW q2 \in 1..Len(ss[m2]), m2 < m \/ q2 < q
        PROVE  \E j \in 1..(i - 1) : t[j] = ss[m2][q2]
    <3>1. PICK j \in 1..(i - 1) : l[j] = ss[m2][q2]
      BY <2>3, <2>5
    <3>2. t[j] = l[j]
      BY <1>2, <2>2
    <3>3. QED BY <3>1, <3>2
  <2>6. m \in 1..(k + 1)
    BY <1>4
  <2>7. QED BY <2>4, <2>5, <2>6 DEF InPlace
<1>9. \A q \in 1..Len(r) : InPlace(t, Len(l) + q, ss, k + 1)
  <2> SUFFICES ASSUME NEW q \in 1..Len(r)
               PROVE  InPlace(t, Len(l) + q, ss, k + 1)
    OBVIOUS
  <2>1. t[Len(l) + q] = ss[k + 1][q] /\ q \in 1..Len(ss[k + 1])
    BY <1>2, <1>5
  <2>2. ASSUME NEW m2 \in 1..(k + 1), NEW q2 \in 1..Len(ss[m2]),
               m2 < k + 1 \/ q2 < q
        PROVE  \E j \in 1..((Len(l) + q) - 1) : t[j] = ss[m2][q2]
    <3>1. CASE m2 = k + 1
      <4>1. q2 \in 1..Len(r) /\ q2 < q
        BY <1>5, <2>2, <3>1
      <4>2. Len(l) + q2 \in 1..((Len(l) + q) - 1)
        BY <1>1, <4>1
      <4>3. t[Len(l) + q2] = ss[m2][q2]
        BY <1>2, <1>5, <3>1, <4>1
      <4>4. QED BY <4>2, <4>3
    <3>2. CASE m2 # k + 1
      <4>1. PICK j \in 1..Len(l) : l[j] = ss[m2][q2]
        BY <1>3, <3>2 DEF Covers
      <4>2. j \in 1..((Len(l) + q) - 1) /\ t[j] = ss[m2][q2]
        BY <1>1, <1>2, <4>1
      <4>3. QED BY <4>2
    <3>3. QED BY <3>1, <3>2
  <2>3. QED BY <1>4, <2>1, <2>2 DEF InPlace
<1>10. \A i \in 1..Len(t) : i \in 1..Len(l) \/ \E q \in 1..Len(r) : i = Len(l) + q
  <2> SUFFICES ASSUME NEW i \in 1..Len(t), i \notin 1..Len(l)
               PROVE  \E q \in 1..Len(r) : i = Len(l) + q
    OBVIOUS
  <2>1. i - Len(l) \in 1..Len(r) /\ i = Len(l) + (i - Len(l))
    BY <1>1, <1>2
  <2>2. QED BY <2>1
<1>11. Ordered(t, ss, k + 1)
  BY <1>8, <1>9, <1>10 DEF Ordered
<1>12. ASSUME Separate(ss), Distinct(l) PROVE Distinct(t)
  <2>1. \A i \in 1..Len(l) : \A q \in 1..Len(r) : t[i] # t[Len(l) + q]
    <3> SUFFICES ASSUME NEW i \in 1..Len(l), NEW q \in 1..Len(r) PROVE l[i] # r[q]
      BY <1>2
    <3>1. PICK m \in 1..k : \E p \in 1..Len(ss[m]) : l[i] = ss[m][p]
      BY DEF Ordered, InPlace
    <3>2. m \in 1..Len(ss) /\ m # k + 1
      BY <1>1
    <3>3. QED BY <1>1, <1>5, <1>12, <3>1, <3>2 DEF Separate
  <2>2. \A i, j \in 1..Len(l) : t[i] = t[j] => i = j
    BY <1>2, <1>12 DEF Distinct
  <2>3. \A p, q \in 1..Len(r) : t[Len(l) + p] = t[Len(l) + q] => p = q
    <3> SUFFICES ASSUME NEW p \in 1..Len(r), NEW q \in 1..Len(r),
                        t[Len(l) + p] = t[Len(l) + q]
                 PROVE  p = q
      OBVIOUS
    <3>1. t[Len(l) + p] = r[p] /\ t[Len(l) + q] = r[q]
      BY <1>2
    <3>2. r[p] = r[q]
      BY <3>1
    <3>3. /\ p \in 1..Len(ss[k + 1]) /\ q \in 1..Len(ss[k + 1])
          /\ ss[k + 1][p] = ss[k + 1][q]
      BY <1>5, <3>2
    <3>4. QED BY <1>1, <1>12, <3>3 DEF Separate
  <2> SUFFICES ASSUME NEW i \in 1..Len(t), NEW j \in 1..Len(t), t[i] = t[j]
               PROVE  i = j
    BY DEF Distinct
  <2>4. QED BY <1>10, <2>1, <2>2, <2>3
<1>13. QED BY <1>7, <1>11, <1>12 DEF t, r

\* FlattenSeq keeps every element of the lists, and their order.
LEMMA FlattenFacts ==
    ASSUME NEW S, NEW ss \in Seq(Seq(S))
    PROVE  /\ FlattenSeq(ss) \in Seq(S)
           /\ Covers(FlattenSeq(ss), ss, Len(ss))
           /\ Ordered(FlattenSeq(ss), ss, Len(ss))
           /\ Separate(ss) => Distinct(FlattenSeq(ss))
<1>1. Len(ss) \in Nat
  OBVIOUS
<1>2. PICK f \in [0..Len(ss) -> Seq(S)] :
        /\ f[0] = <<>>
        /\ \A i \in 1..Len(ss) : f[i] = f[i - 1] \o ss[i]
        /\ FlattenSeq(ss) = f[Len(ss)]
  BY FlattenRounds
<1> DEFINE T == {k \in Nat : k <= Len(ss) =>
                   /\ Covers(f[k], ss, k) /\ Ordered(f[k], ss, k)
                   /\ Separate(ss) => Distinct(f[k])}
<1>3. 0 \in T
  <2>1. f[0] = <<>> /\ Len(<<>>) = 0 /\ 1..0 = {}
    BY <1>2
  <2>2. Covers(<<>>, ss, 0) /\ Ordered(<<>>, ss, 0) /\ Distinct(<<>>)
    BY <2>1 DEF Covers, Ordered, Distinct
  <2>3. QED BY <2>1, <2>2
<1>4. ASSUME NEW k \in Nat, k \in T PROVE k + 1 \in T
  <2>1. CASE k + 1 <= Len(ss)
    <3>1. k <= Len(ss) /\ k \in 0..Len(ss) /\ k + 1 \in 1..Len(ss)
          /\ (k + 1) - 1 = k
      BY <1>1, <2>1
    <3>2. /\ f[k] \in Seq(S) /\ Covers(f[k], ss, k) /\ Ordered(f[k], ss, k)
          /\ Separate(ss) => Distinct(f[k])
      BY <1>4, <3>1
    <3>3. f[k + 1] = f[(k + 1) - 1] \o ss[k + 1]
      <4> HIDE DEF T
      <4> QED BY <1>2, <3>1
    <3>4. f[k + 1] = f[k] \o ss[k + 1]
      BY <3>1, <3>3
    <3>5. /\ Covers(f[k + 1], ss, k + 1) /\ Ordered(f[k + 1], ss, k + 1)
          /\ Separate(ss) => Distinct(f[k + 1])
      <4> HIDE DEF T
      <4> QED BY <2>1, <3>2, <3>4, FlattenStep
    <3>6. QED BY <3>5
  <2>2. CASE ~(k + 1 <= Len(ss))
    BY <2>2
  <2>3. QED BY <2>1, <2>2
<1> HIDE DEF T
<1>5. Len(ss) \in T
  BY <1>1, <1>3, <1>4, SetInduction
<1>6. /\ Covers(f[Len(ss)], ss, Len(ss)) /\ Ordered(f[Len(ss)], ss, Len(ss))
      /\ Separate(ss) => Distinct(f[Len(ss)])
  BY <1>1, <1>5 DEF T
<1>7. f[Len(ss)] \in Seq(S)
  BY <1>1
<1>8. QED BY <1>2, <1>6, <1>7
=============================================================================
