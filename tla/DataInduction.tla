--------------------------- MODULE DataInduction ---------------------------
(***************************************************************************)
(* Induction over the natural numbers, stated of a set of numbers and not  *)
(* of an operator: a set that is not empty has a least element.  The       *)
(* proofs about data that the code builds step by step rest on it.  After  *)
(* it, what two kinds of such data are good for: sequences joined end to   *)
(* end, and trees that grow at the end of a path of last children, so that *)
(* a walk of them from the root only ever gets longer.                     *)
(***************************************************************************)
EXTENDS Integers, FiniteSets, SequencesExt, WellFoundedInduction, FiniteSetTheorems,
        SequenceTheorems, TLAPS

LEMMA Least ==
  ASSUME NEW S, S \subseteq Nat, S # {}
  PROVE  \E m \in S : \A n \in S : m <= n
<1>1. \E R : IsWellFoundedOn(R, Nat) /\ \A n, m \in Nat : n < m => <<n, m>> \in R
  <2>1. \A n, m \in Nat : n < m => <<n, m>> \in OpToRel(<, Nat)
    BY DEF OpToRel
  <2> QED
    BY <2>1, NatLessThanWellFounded
<1>2. PICK R : IsWellFoundedOn(R, Nat) /\ \A n, m \in Nat : n < m => <<n, m>> \in R
  BY <1>1
<1>3. \E m \in S : \A n \in S : ~ (<<n, m>> \in R)
  <2> HIDE <1>1
  <2>1. IsWellFoundedOn(R, Nat)
    BY <1>2
  <2> QED
    BY <2>1, WFMin
<1>4. PICK m \in S : \A n \in S : ~ (<<n, m>> \in R)
  BY <1>3
<1>5. ASSUME NEW n \in S PROVE m <= n
  <2>1. m \in Nat /\ n \in Nat
    OBVIOUS
  <2>2. ~ (n < m)
    BY <2>1, <1>2, <1>4
  <2> QED
    BY <2>1, <2>2
<1> QED
  BY <1>5

(* A set of numbers that has 0, and with a number the next, has them all.  *)
LEMMA Induction ==
  ASSUME NEW S, S \subseteq Nat, 0 \in S, \A n \in S : n + 1 \in S
  PROVE  S = Nat
<1> SUFFICES ASSUME Nat \ S # {} PROVE FALSE
  OBVIOUS
<1>1. PICK m \in Nat \ S : \A n \in Nat \ S : m <= n
  BY Least
<1>2. m # 0 /\ m - 1 \in Nat
  BY <1>1
<1>3. m - 1 \in S
  BY <1>1, <1>2
<1> QED
  BY <1>1, <1>2, <1>3

(* The same up to a bound.                                                 *)
LEMMA InductionUpTo ==
  ASSUME NEW n \in Nat, NEW S, 0 \in S, \A k \in 0..(n - 1) : k \in S => k + 1 \in S
  PROVE  0..n \subseteq S
<1> SUFFICES ASSUME (0..n) \ S # {} PROVE FALSE
  OBVIOUS
<1>1. (0..n) \ S \subseteq Nat
  OBVIOUS
<1>2. PICK m \in (0..n) \ S : \A k \in (0..n) \ S : m <= k
  BY <1>1, Least
<1>3. m - 1 \in 0..(n - 1)
  BY <1>2
<1>4. m - 1 \in S
  BY <1>2, <1>3
<1> QED
  BY <1>2, <1>3, <1>4

(* A bounded set of numbers has a greatest element.                        *)
LEMMA Greatest ==
  ASSUME NEW S, S \subseteq Nat, S # {}, NEW b \in Nat, \A n \in S : n <= b
  PROVE  \E m \in S : \A n \in S : n <= m
<1> DEFINE Above == {k \in Nat : \A n \in S : n <= k}
<1>1. b \in Above /\ Above \subseteq Nat
  OBVIOUS
<1>2. PICK m \in Above : \A k \in Above : m <= k
  <2> HIDE DEF Above
  <2> QED
    BY <1>1, Least
<1>3. m \in S
  <2> SUFFICES ASSUME m \notin S PROVE FALSE
    OBVIOUS
  <2>1. m \in Nat /\ \A n \in S : n <= m
    BY <1>2
  <2>2. \A n \in S : n <= m - 1 /\ n \in Nat
    BY <2>1
  <2>3. m - 1 \in Nat
    <3>1. PICK n \in S : TRUE
      OBVIOUS
    <3> QED
      BY <2>1, <2>2, <3>1
  <2>4. m - 1 \in Above
    BY <2>2, <2>3
  <2> QED
    BY <2>1, <2>4, <1>2
<1> QED
  BY <1>2, <1>3

-----------------------------------------------------------------------------
(* Sequences joined end to end.                                            *)

(* f[i] is the first i of s joined. *)
Joins(s, f, S) ==
  /\ f \in [0..Len(s) -> Seq(S)] /\ f[0] = <<>>
  /\ \A i \in 1..Len(s) : f[i] = f[i - 1] \o s[i]

LEMMA JoinsExists ==
  ASSUME NEW S, NEW s \in Seq(Seq(S))
  PROVE  \E f : Joins(s, f, S)
PROOF
<1> DEFINE Part(k, f) == /\ f \in [0..k -> Seq(S)] /\ f[0] = <<>>
                         /\ \A i \in 1..k : f[i] = f[i - 1] \o s[i]
           K == {k \in 0..Len(s) : \E f : Part(k, f)}
<1>1. Len(s) \in Nat /\ \A i \in 1..Len(s) : s[i] \in Seq(S)
  OBVIOUS
<1>2. 0 \in K
  <2> DEFINE f == [i \in 0..0 |-> <<>>]
  <2>1. Part(0, f)
    <3>1. f \in [0..0 -> Seq(S)] /\ f[0] = <<>>
      OBVIOUS
    <3> QED
      BY <3>1
  <2> HIDE DEF f
  <2>2. \E g : Part(0, g)
    BY <2>1
  <2>3. 0 \in 0..Len(s)
    BY <1>1
  <2> HIDE DEF Part
  <2> QED
    BY <2>2, <2>3
<1>3. ASSUME NEW k \in 0..(Len(s) - 1), k \in K PROVE k + 1 \in K
  <2>1. PICK f : Part(k, f)
    BY <1>3
  <2> DEFINE g == [i \in 0..(k + 1) |-> IF i = k + 1 THEN f[k] \o s[k + 1] ELSE f[i]]
  <2>2. f[k] \in Seq(S) /\ s[k + 1] \in Seq(S) /\ k \in Nat
    BY <1>1, <2>1
  <2>3. f[k] \o s[k + 1] \in Seq(S)
    BY <2>2, ConcatProperties
  <2>4. /\ g[k + 1] = f[k] \o s[k + 1] /\ \A i \in 0..k : g[i] = f[i] /\ f[i] \in Seq(S)
        /\ DOMAIN g = 0..(k + 1)
    <3>1. \A i \in 0..k : i # k + 1 /\ i \in 0..(k + 1) /\ f[i] \in Seq(S)
      BY <2>1, <2>2
    <3>2. k + 1 \in 0..(k + 1)
      BY <2>2
    <3> QED
      BY <3>1, <3>2
  <2>5. g \in [0..(k + 1) -> Seq(S)]
    BY <2>1, <2>2, <2>3
  <2> HIDE DEF g
  <2>6. ASSUME NEW i \in 1..(k + 1) PROVE g[i] = g[i - 1] \o s[i]
    <3>1. CASE i = k + 1
      <4>1. g[i - 1] = f[k]
        <5>1. i - 1 = k /\ k \in 0..k
          BY <2>2, <3>1
        <5>2. \A j \in 0..k : g[j] = f[j]
          BY <2>4
        <5> QED
          BY <5>1, <5>2
      <4> QED
        BY <2>4, <3>1, <4>1
    <3>2. CASE i # k + 1
      <4>1. i \in 1..k /\ i \in 0..k /\ i - 1 \in 0..k
        BY <2>2, <3>2
      <4>2. g[i] = f[i] /\ g[i - 1] = f[i - 1]
        BY <2>4, <4>1
      <4>3. f[i] = f[i - 1] \o s[i]
        BY <2>1, <4>1
      <4> QED
        BY <4>2, <4>3
    <3> QED
      BY <3>1, <3>2
  <2>7. g[0] = <<>>
    BY <2>1, <2>2, <2>4
  <2>8. Part(k + 1, g)
    BY <2>5, <2>6, <2>7
  <2>9. k + 1 \in 0..Len(s)
    BY <1>1
  <2> QED
    BY <2>8, <2>9
<1> HIDE DEF K
<1>4. 0..Len(s) \subseteq K
  BY <1>1, <1>2, <1>3, InductionUpTo
<1>5. Len(s) \in K
  BY <1>1, <1>4
<1> QED
  BY <1>5 DEF K, Joins

(* What FlattenSeq computes, by the recursion of its definition. *)
LEMMA FlattenIs ==
  ASSUME NEW S, NEW s \in Seq(Seq(S)), NEW f, Joins(s, f, S)
  PROVE  FlattenSeq(s) = f[Len(s)]
PROOF
<1> DEFINE n == Len(s)
           Rule(g) == [i \in 1..n |-> IF i = 1 THEN s[i] ELSE g[i - 1] \o s[i]]
           flatten == CHOOSE g : g = Rule(g)
<1>1. n \in Nat /\ \A i \in 1..n : s[i] \in Seq(S)
  OBVIOUS
<1>2. CASE n = 0
  <2>1. s = <<>> /\ FlattenSeq(s) = s
    BY <1>2 DEF FlattenSeq
  <2> QED
    BY <1>2, <2>1 DEF Joins
<1>3. CASE n # 0
  <2> DEFINE h == [i \in 1..n |-> f[i]]
  <2>1. FlattenSeq(s) = flatten[n]
    BY <1>3 DEF FlattenSeq
  <2>2. h = Rule(h)
    <3> SUFFICES ASSUME NEW i \in 1..n
                 PROVE  h[i] = IF i = 1 THEN s[i] ELSE h[i - 1] \o s[i]
      OBVIOUS
    <3>1. h[i] = f[i] /\ f[i] = f[i - 1] \o s[i] /\ s[i] \in Seq(S)
      BY <1>1 DEF Joins
    <3>2. CASE i = 1
      <4>1. f[i - 1] = <<>>
        BY <3>2 DEF Joins
      <4> QED
        BY <3>1, <3>2, <4>1, ConcatEmptySeq
    <3>3. CASE i # 1
      <4>1. i - 1 \in 1..n
        BY <1>1, <3>3
      <4>2. h[i - 1] = f[i - 1]
        BY <4>1
      <4> HIDE DEF h
      <4> QED
        BY <3>1, <3>3, <4>2
    <3> QED
      BY <3>2, <3>3
  <2> HIDE DEF h
  <2>3. flatten = Rule(flatten)
    <3> HIDE DEF Rule
    <3> QED
      BY <2>2
  <2>4. \A i \in 1..n : flatten[i] = IF i = 1 THEN s[i] ELSE flatten[i - 1] \o s[i]
    <3> DEFINE g == flatten
    <3>1. g = Rule(g)
      BY <2>3
    <3> HIDE DEF g
    <3>2. \A i \in 1..n : g[i] = IF i = 1 THEN s[i] ELSE g[i - 1] \o s[i]
      BY <3>1
    <3> QED
      BY <3>2 DEF g
  <2> HIDE DEF flatten, Rule
  <2> DEFINE Same == {k \in 0..n : k = 0 \/ flatten[k] = f[k]}
  <2>5. 0 \in Same
    BY <1>1
  <2>6. ASSUME NEW k \in 0..(n - 1), k \in Same PROVE k + 1 \in Same
    <3>1. k + 1 \in 1..n /\ k + 1 \in 0..n /\ k \in Nat
      BY <1>1
    <3> DEFINE i == k + 1
    <3>5. i \in 1..n /\ i - 1 = k
      BY <3>1
    <3>2. f[k + 1] = f[k] \o s[k + 1] /\ s[k + 1] \in Seq(S)
      <4>1. f[i] = f[i - 1] \o s[i] /\ s[i] \in Seq(S)
        <5> HIDE DEF i
        <5> QED
          BY <1>1, <3>5 DEF Joins
      <4> QED
        BY <3>5, <4>1
    <3>3. CASE k = 0
      <4>1. f[k] = <<>> /\ flatten[k + 1] = s[k + 1]
        BY <2>4, <3>1, <3>3 DEF Joins
      <4> QED
        BY <3>1, <3>2, <4>1, ConcatEmptySeq
    <3>4. CASE k # 0
      <4>1. flatten[k] = f[k]
        BY <2>6, <3>4
      <4>2. flatten[k + 1] = flatten[k] \o s[k + 1]
        <5>1. flatten[i] = flatten[i - 1] \o s[i] /\ i - 1 = k
          <6> HIDE DEF i
          <6>1. i # 1
            BY <3>4, <3>5, k \in Nat
          <6> HIDE DEF n
          <6> QED
            BY ONLY <2>4, <3>5, <6>1
        <5> QED
          BY <5>1
      <4> QED
        BY <3>1, <3>2, <4>1, <4>2
    <3> QED
      BY <3>3, <3>4
  <2> HIDE DEF Same
  <2>7. 0..n \subseteq Same
    <3> HIDE DEF n
    <3> QED
      BY <1>1, <2>5, <2>6, InductionUpTo
  <2>8. n \in Same
    BY <1>1, <2>7
  <2>9. flatten[n] = f[n]
    BY <1>3, <2>8 DEF Same
  <2> QED
    BY <2>1, <2>9
<1> QED
  BY <1>2, <1>3

LEMMA FlattenEmpty ==
  ASSUME NEW s, s = <<>> PROVE FlattenSeq(s) = <<>>
  BY DEF FlattenSeq

(* What is joined is a sequence, no shorter than any of its parts. *)
LEMMA FlattenFacts ==
  ASSUME NEW S, NEW s \in Seq(Seq(S))
  PROVE  /\ FlattenSeq(s) \in Seq(S)
         /\ \A i \in 1..Len(s) : Len(s[i]) <= Len(FlattenSeq(s))
PROOF
<1> DEFINE n == Len(s)
<1>1. n \in Nat /\ \A i \in 1..n : s[i] \in Seq(S) /\ Len(s[i]) \in Nat
  OBVIOUS
<1>2. PICK f : Joins(s, f, S)
  BY JoinsExists
<1>3. FlattenSeq(s) = f[n]
  BY <1>2, FlattenIs
<1>4. /\ \A i \in 0..n : f[i] \in Seq(S) /\ Len(f[i]) \in Nat
      /\ \A i \in 1..n : f[i] = f[i - 1] \o s[i]
  <2>1. f \in [0..n -> Seq(S)] /\ \A i \in 1..n : f[i] = f[i - 1] \o s[i]
    BY <1>2 DEF Joins
  <2>2. \A i \in 0..n : f[i] \in Seq(S)
    BY <2>1
  <2>3. \A z \in Seq(S) : Len(z) \in Nat
    OBVIOUS
  <2> QED
    BY <2>1, <2>2, <2>3
<1> HIDE DEF n
<1> DEFINE K == {k \in 0..n : \A i \in 1..k : Len(s[i]) <= Len(f[k])}
<1>5. 0 \in K
  BY <1>1
<1>6. ASSUME NEW k \in 0..(n - 1), k \in K PROVE k + 1 \in K
  <2> DEFINE j == k + 1
  <2>1. j \in 1..n /\ j \in 0..n /\ j - 1 = k /\ k \in 0..n /\ k \in Nat
    BY <1>1
  <2> HIDE DEF j
  <2>2. f[j] = f[k] \o s[j] /\ f[k] \in Seq(S) /\ s[j] \in Seq(S)
    <3>1. f[j] = f[j - 1] \o s[j]
      BY <1>4, <2>1
    <3> QED
      BY <1>1, <1>4, <2>1, <3>1
  <2>3. Len(f[j]) = Len(f[k]) + Len(s[j]) /\ Len(f[k]) \in Nat /\ Len(s[j]) \in Nat
    <3>1. Len(f[k] \o s[j]) = Len(f[k]) + Len(s[j])
      BY <2>2, ConcatProperties
    <3> QED
      BY <1>1, <1>4, <2>1, <2>2, <3>1
  <2>4. ASSUME NEW i \in 1..j PROVE Len(s[i]) <= Len(f[j])
    <3> DEFINE a == Len(f[k])
               b == Len(s[j])
               c == Len(s[i])
    <3>3. a \in Nat /\ b \in Nat /\ Len(f[j]) = a + b
      BY <2>3
    <3>1. CASE i = j
      <4>1. c = b
        BY <3>1
      <4> HIDE DEF a, b, c
      <4>2. c <= Len(f[j])
        BY ONLY <3>3, <4>1
      <4> QED
        BY <4>2 DEF c
    <3>2. CASE i # j
      <4>1. i \in 1..k /\ i \in 1..n
        BY ONLY <1>1, <2>1, <3>2, i \in 1..j
      <4>2. c <= a /\ c \in Nat
        BY <1>1, <1>6, <4>1
      <4> HIDE DEF a, b, c
      <4>3. c <= Len(f[j])
        BY ONLY <3>3, <4>2
      <4> QED
        BY <4>3 DEF c
    <3> QED
      BY <3>1, <3>2
  <2> QED
    BY <2>1, <2>4 DEF j
<1> HIDE DEF K
<1>7. 0..n \subseteq K
  BY <1>1, <1>5, <1>6, InductionUpTo
<1>8. n \in K /\ n \in 0..n
  BY <1>1, <1>7
<1> QED
  BY <1>3, <1>4, <1>8 DEF K, n

(* One more is joined at the end. *)
LEMMA FlattenAppend ==
  ASSUME NEW S, NEW s \in Seq(Seq(S)), NEW x \in Seq(S)
  PROVE  FlattenSeq(Append(s, x)) = FlattenSeq(s) \o x
PROOF
<1> DEFINE n == Len(s)
           t == Append(s, x)
<1>1. /\ n \in Nat /\ t \in Seq(Seq(S)) /\ Len(t) = n + 1 /\ t[n + 1] = x
      /\ \A i \in 1..n : t[i] = s[i] /\ s[i] \in Seq(S)
  OBVIOUS
<1>2. PICK f : Joins(s, f, S)
  BY JoinsExists
<1>3. FlattenSeq(s) = f[n]
  BY <1>2, FlattenIs
<1>4. /\ \A i \in 0..n : f[i] \in Seq(S)
      /\ \A i \in 1..n : f[i] = f[i - 1] \o s[i]
      /\ f[0] = <<>>
  BY <1>2 DEF Joins
<1> HIDE DEF n, t
<1> DEFINE m == n + 1
           g == [i \in 0..m |-> IF i = m THEN f[n] \o x ELSE f[i]]
<1>5. /\ m \in Nat /\ n \in 0..n /\ m \in 0..m /\ m - 1 = n /\ m # 0
      /\ \A i \in 0..m : i = m \/ (i \in 0..n /\ i # m)
      /\ \A i \in 0..n : i \in 0..m /\ i # m
      /\ \A i \in 1..m : i = m \/ (i \in 1..n /\ i \in 0..n /\ i - 1 \in 0..n)
  BY <1>1
<1> HIDE DEF m
<1>6. f[n] \o x \in Seq(S)
  BY <1>4, <1>5, ConcatProperties
<1>7. /\ DOMAIN g = 0..m /\ g[m] = f[n] \o x /\ \A i \in 0..n : g[i] = f[i]
      /\ g \in [0..m -> Seq(S)]
  BY <1>4, <1>5, <1>6
<1> HIDE DEF g
<1>8. ASSUME NEW i \in 1..m PROVE g[i] = g[i - 1] \o t[i]
  <2>1. CASE i = m
    <3>1. g[i - 1] = f[n] /\ t[i] = x
      BY <1>1, <1>5, <1>7, <2>1 DEF m
    <3> QED
      BY <1>7, <2>1, <3>1
  <2>2. CASE i # m
    <3>1. i \in 1..n /\ i \in 0..n /\ i - 1 \in 0..n
      BY <1>5, <2>2
    <3>2. g[i] = f[i] /\ g[i - 1] = f[i - 1] /\ t[i] = s[i]
      BY <1>1, <1>7, <3>1
    <3> QED
      BY <1>4, <3>1, <3>2
  <2> QED
    BY <2>1, <2>2
<1>9. Joins(t, g, S)
  <2>1. Len(t) = m /\ g[0] = <<>>
    BY <1>1, <1>4, <1>5, <1>7 DEF m
  <2> QED
    BY <1>7, <1>8, <2>1 DEF Joins
<1>10. FlattenSeq(t) = g[m]
  <2>1. Len(t) = m
    BY <1>1 DEF m
  <2> QED
    BY <1>1, <1>9, <2>1, FlattenIs
<1> QED
  BY <1>3, <1>7, <1>10 DEF t

(* Sequences joined by threes may be joined in either order. *)
LEMMA Regrouped ==
  ASSUME NEW S
  PROVE  \A a, b, c \in Seq(S) : (a \o b) \o c = a \o (b \o c)
BY ConcatAssociative

(* What is added to the last part is added to the whole. *)
LEMMA FlattenLast ==
  ASSUME NEW S, NEW s \in Seq(Seq(S)), NEW t \in Seq(Seq(S)), NEW x \in Seq(S),
         Len(t) = Len(s), Len(s) > 0, t[Len(s)] = s[Len(s)] \o x,
         \A i \in 1..(Len(s) - 1) : t[i] = s[i]
  PROVE  FlattenSeq(t) = FlattenSeq(s) \o x
PROOF
<1> DEFINE n == Len(s)
           k == n - 1
           init == SubSeq(s, 1, k)
<1>1. /\ n \in Nat /\ k \in Nat /\ n = k + 1 /\ n \in 1..n
      /\ \A i \in 1..n : s[i] \in Seq(S)
      /\ \A i \in 1..k : i \in 1..n
  <2>1. n \in Nat /\ n > 0 /\ \A i \in 1..n : s[i] \in Seq(S)
    OBVIOUS
  <2> HIDE DEF n
  <2> QED
    BY <2>1
<1>2. /\ init \in Seq(Seq(S)) /\ Len(init) = k /\ \A i \in 1..k : init[i] = s[i]
  <2>1. \A i \in 1..k : s[i] \in Seq(S)
    BY <1>1
  <2>2. k \in Int /\ 1 \in Int
    BY <1>1
  <2>3. /\ SubSeq(s, 1, k) \in Seq(Seq(S))
        /\ Len(SubSeq(s, 1, k)) = (IF 1 <= k THEN k - 1 + 1 ELSE 0)
        /\ \A i \in 1..(k - 1 + 1) : SubSeq(s, 1, k)[i] = s[1 + i - 1]
    <3> HIDE DEF k
    <3> QED
      BY ONLY <2>1, <2>2, SubSeqProperties
  <2> HIDE DEF n, k
  <2> QED
    BY <1>1, <2>3
<1> HIDE DEF init
<1>3. s = Append(init, s[n])
  <2> DEFINE a == Append(init, s[n])
  <2>1. a \in Seq(Seq(S)) /\ Len(a) = n /\ a[n] = s[n] /\ \A i \in 1..k : a[i] = s[i]
    BY <1>1, <1>2
  <2>2. \A i \in 1..n : a[i] = s[i]
    <3>1. \A i \in 1..n : i = n \/ i \in 1..k
      BY <1>1
    <3> HIDE DEF a, n, k
    <3> QED
      BY <2>1, <3>1
  <2> HIDE DEF a
  <2>3. s = a
    BY <2>1, <2>2, SeqEqual
  <2> QED
    BY <2>3 DEF a
<1>4. t = Append(init, s[n] \o x)
  <2> DEFINE y == s[n] \o x
             a == Append(init, y)
  <2>1. y \in Seq(S)
    BY <1>1, ConcatProperties
  <2> HIDE DEF y
  <2>2. a \in Seq(Seq(S)) /\ Len(a) = n /\ a[n] = y /\ \A i \in 1..k : a[i] = s[i]
    BY <1>1, <1>2, <2>1
  <2>3. t[n] = y /\ Len(t) = n /\ \A i \in 1..k : t[i] = s[i]
    BY DEF y
  <2>4. \A i \in 1..n : a[i] = t[i]
    <3>1. \A i \in 1..n : i = n \/ i \in 1..k
      BY <1>1
    <3> HIDE DEF a, n, k
    <3> QED
      BY ONLY <2>2, <2>3, <3>1
  <2> HIDE DEF a
  <2>5. t = a
    BY <2>2, <2>3, <2>4, SeqEqual
  <2> QED
    BY <2>5 DEF a, y
<1> DEFINE whole == FlattenSeq(init)
<1>5. whole \in Seq(S)
  BY <1>2, FlattenFacts
<1>6. s[n] \in Seq(S) /\ s[n] \o x \in Seq(S)
  BY <1>1, ConcatProperties
<1>7. FlattenSeq(Append(init, s[n])) = whole \o s[n]
  BY <1>2, <1>6, FlattenAppend
<1>8. FlattenSeq(Append(init, s[n] \o x)) = whole \o (s[n] \o x)
  BY <1>2, <1>6, FlattenAppend
<1>9. (whole \o s[n]) \o x = whole \o (s[n] \o x)
  <2> DEFINE y == s[n]
  <2>1. y \in Seq(S)
    BY <1>6
  <2> HIDE DEF whole, y
  <2>2. (whole \o y) \o x = whole \o (y \o x)
    <3>1. \A a, b, c \in Seq(S) : (a \o b) \o c = a \o (b \o c)
      BY ONLY Regrouped
    <3> QED
      BY ONLY <1>5, <2>1, x \in Seq(S), <3>1, Zenon
  <2> QED
    BY <2>2 DEF y
<1> QED
  BY <1>3, <1>4, <1>7, <1>8, <1>9

-----------------------------------------------------------------------------
(* Walking down a grove: trees that their roots lead to.                   *)

Parts(kids, w, r) == [i \in DOMAIN kids[r] |-> w[kids[r][i]]]

(* f[r] is the walk from r, as `seen' says it. *)
Walked(A, kids, seen, f) ==
  \A r \in A : f[r] = <<seen[r]>> \o FlattenSeq(Parts(kids, f, r))

Walks(A, kids, seen, w, V) ==
  /\ kids \in [A -> Seq(A)] /\ \A r \in A : seen[r] \in V
  /\ w \in [A -> Seq(V)] /\ Walked(A, kids, seen, w)

(* Nothing is listed twice, and no root at all. *)
Grove(A, kids, roots) ==
  /\ kids \in [A -> Seq(A)] /\ roots \subseteq A
  /\ \A q, r \in A : \A i \in DOMAIN kids[q] : \A j \in DOMAIN kids[r] :
       kids[q][i] = kids[r][j] => q = r /\ i = j
  /\ \A r \in A : \A i \in DOMAIN kids[r] : kids[r][i] \notin roots

(* From a root down, always to the last that is listed. *)
Spine(A, kids, roots, s) ==
  /\ s \in Seq(A) /\ Len(s) > 0 /\ s[1] \in roots
  /\ \A i, j \in 1..Len(s) : s[i] = s[j] => i = j
  /\ \A i \in 1..(Len(s) - 1) :
       Len(kids[s[i]]) > 0 /\ kids[s[i]][Len(kids[s[i]])] = s[i + 1]

(* `more' is `kids' with one listed last under the last of a spine. *)
Planted(A, kids, s, new, more) ==
  /\ new \notin A /\ more \in [A \cup {new} -> Seq(A \cup {new})]
  /\ more[new] = <<>> /\ more[s[Len(s)]] = Append(kids[s[Len(s)]], new)
  /\ \A r \in A : r # s[Len(s)] => more[r] = kids[r]

(* `saw' says of A what `seen' does. *)
Agree(A, seen, saw, new, V) ==
  saw[new] \in V /\ \A r \in A : seen[r] \in V /\ saw[r] = seen[r]

GrownWalk(A, roots, s, w, new, more, saw, x, V) ==
  /\ Walks(A \cup {new}, more, saw, x, V)
  /\ x[s[1]] = Append(w[s[1]], saw[new])
  /\ \A r \in roots : r # s[1] => x[r] = w[r]

PartsKnown(A, kids, w, V, r) ==
  /\ Parts(kids, w, r) \in Seq(Seq(V)) /\ Len(kids[r]) \in Nat
  /\ DOMAIN kids[r] = 1..Len(kids[r])
  /\ Len(Parts(kids, w, r)) = Len(kids[r])
  /\ \A i \in 1..Len(kids[r]) :
       /\ kids[r][i] \in A /\ w[kids[r][i]] \in Seq(V)
       /\ Parts(kids, w, r)[i] = w[kids[r][i]]

LEMMA PartsFacts ==
  ASSUME NEW A, NEW kids \in [A -> Seq(A)], NEW V, NEW w \in [A -> Seq(V)], NEW r \in A
  PROVE  PartsKnown(A, kids, w, V, r)
PROOF
<1> DEFINE n == Len(kids[r])
<1>1. n \in Nat /\ DOMAIN kids[r] = 1..n /\ \A i \in 1..n : kids[r][i] \in A
  <2>1. kids[r] \in Seq(A)
    OBVIOUS
  <2> QED
    BY <2>1
<1> HIDE DEF n
<1>2. \A i \in 1..n : w[kids[r][i]] \in Seq(V)
  BY <1>1
<1>3. Parts(kids, w, r) = [i \in 1..n |-> w[kids[r][i]]]
  BY <1>1 DEF Parts
<1> DEFINE p == [i \in 1..n |-> w[kids[r][i]]]
<1>4. p \in [1..n -> Seq(V)]
  BY <1>2
<1>5. p \in Seq(Seq(V)) /\ Len(p) = n /\ \A i \in 1..n : p[i] = w[kids[r][i]]
  BY <1>1, <1>4
<1> HIDE DEF p
<1> QED
  BY <1>1, <1>2, <1>3, <1>5 DEF PartsKnown, n, p

(* A walk is longer than those it is made of. *)
LEMMA WalksShrink ==
  ASSUME NEW A, NEW kids, NEW V, NEW seen, NEW w, Walks(A, kids, seen, w, V),
         NEW r \in A, NEW i \in DOMAIN kids[r]
  PROVE  Len(w[r]) \in Nat /\ Len(w[kids[r][i]]) \in Nat /\ Len(w[kids[r][i]]) < Len(w[r])
PROOF
<1> DEFINE p == Parts(kids, w, r)
           c == kids[r][i]
<1>1. /\ w \in [A -> Seq(V)] /\ w[r] = <<seen[r]>> \o FlattenSeq(p)
      /\ kids \in [A -> Seq(A)] /\ seen[r] \in V
  BY DEF Walks, Walked
<1>2. p \in Seq(Seq(V)) /\ i \in 1..Len(p) /\ p[i] = w[c] /\ c \in A
  <2>1. w \in [A -> Seq(V)] /\ kids \in [A -> Seq(A)]
    BY <1>1
  <2>2. PartsKnown(A, kids, w, V, r)
    BY <2>1, PartsFacts
  <2> QED
    BY <2>2 DEF PartsKnown
<1> HIDE DEF p
<1>3. FlattenSeq(p) \in Seq(V) /\ Len(p[i]) <= Len(FlattenSeq(p))
  BY <1>2, FlattenFacts
<1>4. <<seen[r]>> \in Seq(V) /\ Len(<<seen[r]>>) = 1
  BY <1>1
<1>5. Len(w[r]) = 1 + Len(FlattenSeq(p))
  BY <1>1, <1>3, <1>4, ConcatProperties
<1>6. w[r] \in Seq(V) /\ w[c] \in Seq(V)
  BY <1>1, <1>2
<1>7. Len(w[r]) \in Nat /\ Len(w[c]) \in Nat /\ Len(FlattenSeq(p)) \in Nat
  BY <1>3, <1>6
<1>8. Len(w[c]) <= Len(FlattenSeq(p))
  BY <1>2, <1>3
<1> HIDE DEF c
<1>9. Len(w[c]) < Len(w[r])
  BY ONLY <1>5, <1>7, <1>8
<1> QED
  BY <1>7, <1>9 DEF c

(* There is one walk from each: another that goes by the same rule is it.  *)
LEMMA WalksOne ==
  ASSUME NEW A, NEW kids, NEW V, NEW seen, NEW w, Walks(A, kids, seen, w, V),
         NEW f, Walked(A, kids, seen, f)
  PROVE  \A r \in A : f[r] = w[r]
PROOF
<1> DEFINE D == {r \in A : f[r] # w[r]}
           N == {Len(w[r]) : r \in D}
<1> SUFFICES ASSUME D # {} PROVE FALSE
  OBVIOUS
<1>1. \A r \in A : Len(w[r]) \in Nat
  <2>1. \A r \in A : w[r] \in Seq(V)
    BY DEF Walks, Walked
  <2> QED
    BY <2>1
<1>2. N \subseteq Nat /\ N # {}
  BY <1>1
<1>3. PICK m \in N : \A k \in N : m <= k
  <2> HIDE DEF N
  <2> QED
    BY <1>2, Least
<1>4. PICK r \in D : m = Len(w[r])
  BY <1>3
<1>5. r \in A /\ f[r] # w[r]
  BY <1>4
<1>6. ASSUME NEW i \in DOMAIN kids[r] PROVE f[kids[r][i]] = w[kids[r][i]]
  <2> DEFINE c == kids[r][i]
  <2>1. Len(w[c]) \in Nat /\ Len(w[c]) < m /\ m \in Nat
    BY <1>4, <1>5, WalksShrink
  <2>2. c \in A
    <3>1. kids[r] \in Seq(A)
      BY <1>5 DEF Walks
    <3> QED
      BY <3>1
  <2> HIDE DEF c
  <2>3. Len(w[c]) \notin N
    <3> HIDE DEF N
    <3> QED
      BY ONLY <1>3, <2>1
  <2>4. c \notin D
    <3> HIDE DEF D
    <3> QED
      BY <2>3
  <2> QED
    BY <2>2, <2>4 DEF c
<1>7. Parts(kids, f, r) = Parts(kids, w, r)
  BY <1>6 DEF Parts
<1>8. f[r] = <<seen[r]>> \o FlattenSeq(Parts(kids, f, r))
  BY <1>5 DEF Walked
<1>9. w[r] = <<seen[r]>> \o FlattenSeq(Parts(kids, w, r))
  BY <1>5 DEF Walks, Walked
<1> QED
  BY <1>5, <1>7, <1>8, <1>9

(* What on a spine is listed where: only by the one above it, and last.    *)
LEMMA SpineListed ==
  ASSUME NEW A, NEW kids, NEW roots, Grove(A, kids, roots), NEW s,
         Spine(A, kids, roots, s), NEW r \in A, NEW i \in DOMAIN kids[r],
         NEW k \in 1..Len(s), kids[r][i] = s[k]
  PROVE  k - 1 \in 1..(Len(s) - 1) /\ r = s[k - 1] /\ i = Len(kids[r])
PROOF
<1>1. kids \in [A -> Seq(A)] /\ s \in Seq(A) /\ s[1] \in roots /\ Len(s) \in Nat
  BY DEF Grove, Spine
<1>2. k # 1
  BY <1>1 DEF Grove
<1> DEFINE j == k - 1
<1>3. j \in 1..(Len(s) - 1) /\ j \in 1..Len(s) /\ j + 1 = k
  BY ONLY <1>1, <1>2, k \in 1..Len(s)
<1> HIDE DEF j
<1> DEFINE q == s[j]
           n == Len(kids[q])
<1>4. q \in A /\ kids[q] \in Seq(A)
  BY <1>1, <1>3
<1>5. n > 0 /\ kids[q][n] = s[k]
  BY <1>3 DEF Spine
<1>6. n \in DOMAIN kids[q]
  BY <1>4, <1>5
<1> HIDE DEF q, n
<1>7. q = r /\ n = i
  BY <1>4, <1>5, <1>6 DEF Grove
<1> QED
  BY <1>3, <1>7 DEF q, n, j

(* One more, listed last under the last of a spine: the walk from each of  *)
(* the spine gets it at the end, the other walks stay.                     *)
LEMMA WalksGrow ==
  ASSUME NEW A, NEW kids, NEW roots, Grove(A, kids, roots),
         NEW s, Spine(A, kids, roots, s), NEW V, NEW seen, NEW w,
         Walks(A, kids, seen, w, V), NEW new, NEW more, Planted(A, kids, s, new, more),
         NEW saw, Agree(A, seen, saw, new, V)
  PROVE  \E x : GrownWalk(A, roots, s, w, new, more, saw, x, V)
PROOF
<1> DEFINE B == A \cup {new}
           n == Len(s)
           p == s[n]
           C == {s[i] : i \in 1..n}
           one == <<saw[new]>>
           x == [r \in B |-> IF r = new THEN one ELSE IF r \in C THEN w[r] \o one ELSE w[r]]
<1>0. /\ new \notin A /\ more \in [B -> Seq(B)] /\ more[new] = <<>>
      /\ more[p] = Append(kids[p], new) /\ \A r \in A : r # p => more[r] = kids[r]
      /\ saw[new] \in V /\ \A r \in A : seen[r] \in V /\ saw[r] = seen[r]
  BY DEF Planted, Agree
<1>1. /\ kids \in [A -> Seq(A)] /\ roots \subseteq A /\ w \in [A -> Seq(V)]
      /\ s \in Seq(A) /\ n \in Nat /\ n > 0 /\ s[1] \in roots
      /\ \A r \in A : w[r] = <<seen[r]>> \o FlattenSeq(Parts(kids, w, r))
  <2>1. kids \in [A -> Seq(A)] /\ roots \subseteq A
    BY DEF Grove
  <2>2. s \in Seq(A) /\ n > 0 /\ s[1] \in roots
    BY DEF Spine
  <2>3. n \in Nat
    BY <2>2
  <2> QED
    BY <2>1, <2>2, <2>3 DEF Walks, Walked
<1>2. one \in Seq(V)
  BY <1>0
<1>3. /\ C \subseteq A /\ s[1] \in C /\ p \in C /\ p \in A /\ new \notin C
      /\ \A r \in roots : r \in C => r = s[1]
  <2>1. \A i \in 1..n : s[i] \in A
    BY <1>1
  <2>2. ASSUME NEW i \in 1..n, s[i] \in roots PROVE i = 1
    <3> SUFFICES ASSUME i # 1 PROVE FALSE
      OBVIOUS
    <3> DEFINE j == i - 1
    <3>1. j \in 1..(n - 1) /\ j \in 1..n /\ j + 1 = i
      BY <1>1
    <3> HIDE DEF j
    <3> DEFINE q == s[j]
               l == Len(kids[q])
    <3>2. q \in A /\ kids[q] \in Seq(A)
      BY <1>1, <2>1, <3>1
    <3>3. l > 0 /\ kids[q][l] = s[i]
      BY <3>1 DEF Spine
    <3>4. l \in DOMAIN kids[q]
      BY <3>2, <3>3
    <3> HIDE DEF q, l
    <3> QED
      BY <2>2, <3>2, <3>3, <3>4 DEF Grove
  <2>3. 1 \in 1..n /\ n \in 1..n
    BY <1>1
  <2>4. C \subseteq A /\ s[1] \in C /\ p \in C
    BY <2>1, <2>3
  <2>5. ASSUME NEW r \in roots, r \in C PROVE r = s[1]
    <3>1. PICK i \in 1..n : r = s[i]
      BY <2>5
    <3> HIDE DEF n
    <3> QED
      BY <2>2, <3>1
  <2> HIDE DEF C, p
  <2> QED
    BY <1>0, <2>4, <2>5
<1>4. \A r \in C : w[r] \o one \in Seq(V)
  <2> SUFFICES ASSUME NEW r \in C PROVE w[r] \o one \in Seq(V)
    OBVIOUS
  <2>1. w[r] \in Seq(V)
    BY <1>1, <1>3
  <2> HIDE DEF one
  <2> QED
    BY <1>2, <2>1, ConcatProperties
<1> HIDE DEF C
<1>5. /\ x \in [B -> Seq(V)] /\ x[new] = one
      /\ \A r \in C : x[r] = w[r] \o one
      /\ \A r \in A : r \notin C => x[r] = w[r]
  <2> HIDE DEF one
  <2>1. \A r \in B : r = new \/ (r # new /\ r \in A)
    OBVIOUS
  <2> QED
    BY <1>0, <1>1, <1>2, <1>3, <1>4, <2>1
<1> HIDE DEF x
(* Who lists one of the spine.                                             *)
<1>6. ASSUME NEW r \in A, NEW i \in DOMAIN kids[r], kids[r][i] \in C
      PROVE  r \in C /\ r # p /\ i = Len(kids[r])
  <2>1. PICK k \in 1..n : kids[r][i] = s[k]
    BY <1>6 DEF C
  <2>2. k - 1 \in 1..(n - 1) /\ r = s[k - 1] /\ i = Len(kids[r])
    BY <2>1, SpineListed
  <2>3. k - 1 \in 1..n /\ k - 1 # n /\ n \in 1..n
    <3> HIDE DEF n
    <3> QED
      BY ONLY <1>1, <2>2
  <2>4. r # p
    BY <2>2, <2>3 DEF Spine
  <2> QED
    BY <2>2, <2>3, <2>4 DEF C
<1>7. ASSUME NEW r \in A
      PROVE  /\ PartsKnown(A, kids, w, V, r)
             /\ FlattenSeq(Parts(kids, w, r)) \in Seq(V) /\ <<seen[r]>> \in Seq(V)
  <2>1. PartsKnown(A, kids, w, V, r)
    BY <1>1, PartsFacts
  <2>2. FlattenSeq(Parts(kids, w, r)) \in Seq(V)
    BY <2>1, FlattenFacts DEF PartsKnown
  <2>3. seen[r] \in V
    BY <1>0
  <2>4. <<seen[r]>> \in Seq(V)
    BY <2>3
  <2> QED
    BY <2>1, <2>2, <2>4
<1>8. ASSUME NEW r \in B PROVE PartsKnown(B, more, x, V, r)
  <2>1. x \in [B -> Seq(V)]
    BY <1>5
  <2>2. more \in [B -> Seq(B)] /\ r \in B
    BY <1>0
  <2> HIDE DEF B
  <2> QED
    BY <2>1, <2>2, PartsFacts
(* What is joined at each. *)
<1>9. ASSUME NEW r \in A, r # p
      PROVE  /\ more[r] = kids[r]
             /\ Len(Parts(more, x, r)) = Len(Parts(kids, w, r))
             /\ \A i \in 1..Len(kids[r]) : kids[r][i] \notin C =>
                  Parts(more, x, r)[i] = Parts(kids, w, r)[i]
  <2>1. more[r] = kids[r] /\ r \in B
    BY <1>0, <1>9
  <2>2. PartsKnown(A, kids, w, V, r) /\ PartsKnown(B, more, x, V, r)
    BY <1>7, <1>8, <2>1
  <2>3. Len(Parts(more, x, r)) = Len(Parts(kids, w, r))
    BY <2>1, <2>2 DEF PartsKnown
  <2>4. ASSUME NEW i \in 1..Len(kids[r]), kids[r][i] \notin C
        PROVE  Parts(more, x, r)[i] = Parts(kids, w, r)[i]
    <3>1. Parts(kids, w, r)[i] = w[kids[r][i]] /\ kids[r][i] \in A
      BY <2>2 DEF PartsKnown
    <3>2. Parts(more, x, r)[i] = x[kids[r][i]]
      BY <2>1, <2>2 DEF PartsKnown
    <3> QED
      BY <1>5, <2>4, <3>1, <3>2
  <2> QED
    BY <2>1, <2>3, <2>4
<1>10. ASSUME NEW r \in A, r \notin C
       PROVE  FlattenSeq(Parts(more, x, r)) = FlattenSeq(Parts(kids, w, r))
  <2>1. r # p
    BY <1>3, <1>10
  <2>2. \A i \in 1..Len(kids[r]) : kids[r][i] \notin C
    <3>1. DOMAIN kids[r] = 1..Len(kids[r])
      BY <1>7 DEF PartsKnown
    <3> QED
      BY <1>6, <1>10, <3>1
  <2> DEFINE a == Parts(kids, w, r)
             b == Parts(more, x, r)
  <2>3. a \in Seq(Seq(V)) /\ b \in Seq(Seq(V)) /\ Len(a) = Len(kids[r])
    BY <1>7, <1>8 DEF PartsKnown
  <2>4. Len(a) = Len(b) /\ \A i \in 1..Len(a) : a[i] = b[i]
    BY <1>9, <2>1, <2>2, <2>3
  <2> HIDE DEF a, b
  <2>5. a = b
    BY <2>3, <2>4, SeqEqual
  <2> QED
    BY <2>5 DEF a, b
<1>11. ASSUME NEW r \in C, r # p
       PROVE  FlattenSeq(Parts(more, x, r)) = FlattenSeq(Parts(kids, w, r)) \o one
  <2> DEFINE a == Parts(kids, w, r)
             b == Parts(more, x, r)
             l == Len(kids[r])
  <2>1. r \in A
    BY <1>3
  <2>2. PICK i \in 1..n : r = s[i]
    BY DEF C
  <2>3. i \in 1..(n - 1) /\ i + 1 \in 1..n
    <3>1. i # n
      BY <1>11, <2>2
    <3> HIDE DEF n
    <3> QED
      BY ONLY <1>1, <2>2, <3>1
  <2>4. l > 0 /\ kids[r][l] = s[i + 1]
    BY <2>2, <2>3 DEF Spine
  <2>5. kids[r][l] \in C
    BY <2>3, <2>4 DEF C
  <2>6. PartsKnown(A, kids, w, V, r) /\ PartsKnown(B, more, x, V, r)
    BY <1>7, <1>8, <2>1
  <2>7. l \in Nat /\ l \in 1..l /\ a \in Seq(Seq(V)) /\ b \in Seq(Seq(V)) /\ Len(a) = l
    BY <2>4, <2>6 DEF PartsKnown
  <2>8. more[r] = kids[r] /\ Len(b) = Len(a)
    BY <1>9, <1>11, <2>1
  <2>9. b[l] = a[l] \o one
    <3>1. a[l] = w[kids[r][l]] /\ b[l] = x[kids[r][l]]
      BY <2>6, <2>7, <2>8 DEF PartsKnown
    <3> QED
      BY <1>5, <2>5, <3>1
  <2>10. ASSUME NEW k \in 1..(l - 1) PROVE b[k] = a[k]
    <3>1. k \in 1..l /\ k # l
      BY <2>7
    <3>2. kids[r][k] \notin C
      BY <1>6, <2>1, <2>6, <3>1 DEF PartsKnown
    <3> QED
      BY <1>9, <1>11, <2>1, <3>1, <3>2
  <2> HIDE DEF a, b, l
  <2>11. FlattenSeq(b) = FlattenSeq(a) \o one
    <3> HIDE DEF one
    <3> QED
      BY <1>2, <2>4, <2>7, <2>8, <2>9, <2>10, FlattenLast
  <2> QED
    BY <2>11 DEF a, b
<1>12. FlattenSeq(Parts(more, x, p)) = FlattenSeq(Parts(kids, w, p)) \o one
  <2> DEFINE a == Parts(kids, w, p)
             b == Parts(more, x, p)
             l == Len(kids[p])
  <2>1. PartsKnown(A, kids, w, V, p) /\ PartsKnown(B, more, x, V, p)
    BY <1>3, <1>7, <1>8
  <2>2. l \in Nat /\ a \in Seq(Seq(V)) /\ b \in Seq(Seq(V)) /\ Len(a) = l
        /\ kids[p] \in Seq(A)
    BY <1>1, <1>3, <2>1 DEF PartsKnown
  <2>3. /\ Len(more[p]) = l + 1 /\ more[p][l + 1] = new
        /\ \A i \in 1..l : more[p][i] = kids[p][i]
    <3>1. more[p] = Append(kids[p], new)
      BY <1>0
    <3> HIDE DEF p
    <3> QED
      BY <2>2, <3>1
  <2>4. Len(b) = l + 1
    BY <2>1, <2>3 DEF PartsKnown
  <2>5. b[l + 1] = one
    <3>1. l + 1 \in 1..(l + 1)
      BY <2>2
    <3>2. b[l + 1] = x[more[p][l + 1]]
      BY <2>1, <2>3, <3>1 DEF PartsKnown
    <3> QED
      BY <1>5, <2>3, <3>2
  <2>6. ASSUME NEW i \in 1..l PROVE b[i] = a[i]
    <3>1. i \in 1..(l + 1)
      BY <2>2
    <3>2. b[i] = x[more[p][i]] /\ a[i] = w[kids[p][i]] /\ kids[p][i] \in A
      BY <2>1, <2>3, <3>1 DEF PartsKnown
    <3>3. kids[p][i] \notin C
      <4>1. DOMAIN kids[p] = 1..l
        BY <2>1 DEF PartsKnown
      <4> QED
        BY <1>3, <1>6, <4>1
    <3> QED
      BY <1>5, <2>3, <3>2, <3>3
  <2> HIDE DEF a, b, l
  <2>7. b = Append(a, one)
    <3> HIDE DEF one
    <3>1. Append(a, one) \in Seq(Seq(V)) /\ Len(Append(a, one)) = l + 1
      BY <1>2, <2>2
    <3>2. \A i \in 1..(l + 1) : Append(a, one)[i] = b[i]
      BY <1>2, <2>2, <2>5, <2>6
    <3> QED
      BY <2>2, <2>4, <3>1, <3>2, SeqEqual
  <2>8. FlattenSeq(Append(a, one)) = FlattenSeq(a) \o one
    <3> HIDE DEF one
    <3> QED
      BY <1>2, <2>2, FlattenAppend
  <2> QED
    BY <2>7, <2>8 DEF a, b
<1>13. ASSUME NEW r \in B
       PROVE  x[r] = <<saw[r]>> \o FlattenSeq(Parts(more, x, r))
  <2>1. CASE r = new
    <3>1. Len(Parts(more, x, r)) = 0 /\ Parts(more, x, r) \in Seq(Seq(V))
      <4>1. Len(more[r]) = 0
        BY <1>0, <2>1
      <4> QED
        BY <1>8, <4>1 DEF PartsKnown
    <3>2. Parts(more, x, r) = <<>>
      BY <3>1, EmptySeq
    <3>3. FlattenSeq(Parts(more, x, r)) = <<>>
      BY <3>2, FlattenEmpty
    <3>4. one \o <<>> = one
      <4> HIDE DEF one
      <4> QED
        BY <1>2, ConcatEmptySeq
    <3> QED
      BY <1>5, <2>1, <3>3, <3>4
  <2>2. CASE r \in C
    <3>1. r \in A
      BY <1>3, <2>2
    <3>2. FlattenSeq(Parts(more, x, r)) = FlattenSeq(Parts(kids, w, r)) \o one
      BY <1>11, <1>12, <2>2
    <3> DEFINE t == FlattenSeq(Parts(kids, w, r))
               h == <<seen[r]>>
    <3>3. w[r] = h \o t /\ t \in Seq(V) /\ h \in Seq(V)
      BY <1>1, <1>7, <3>1
    <3>4. x[r] = w[r] \o one
      BY <1>5, <2>2
    <3>5. saw[r] = seen[r]
      BY <1>0, <3>1
    <3> HIDE DEF t, h, one
    <3>6. (h \o t) \o one = h \o (t \o one)
      BY ONLY <1>2, <3>3, ConcatAssociative
    <3> QED
      BY <3>2, <3>3, <3>4, <3>5, <3>6 DEF t, h
  <2>3. CASE r \in A /\ r \notin C
    <3>1. x[r] = w[r] /\ saw[r] = seen[r]
      BY <1>0, <1>5, <2>3
    <3>2. w[r] = <<seen[r]>> \o FlattenSeq(Parts(kids, w, r))
      BY <1>1, <2>3
    <3> QED
      BY <1>10, <2>3, <3>1, <3>2
  <2> QED
    BY <2>1, <2>2, <2>3
<1>14. Walks(B, more, saw, x, V)
  BY <1>0, <1>1, <1>5, <1>13 DEF Walks, Walked
<1>15. x[s[1]] = Append(w[s[1]], saw[new])
  <2>1. w[s[1]] \in Seq(V)
    BY <1>1, <1>3
  <2>2. Append(w[s[1]], saw[new]) = w[s[1]] \o one
    BY <2>1, AppendIsConcat
  <2> QED
    BY <1>3, <1>5, <2>2
<1>16. \A r \in roots : r # s[1] => x[r] = w[r]
  BY <1>1, <1>3, <1>5
<1> QED
  BY <1>14, <1>15, <1>16 DEF GrownWalk

-----------------------------------------------------------------------------
Walkable(A, kids) ==
  \A V, seen : (\A r \in A : seen[r] \in V) => \E w : Walks(A, kids, seen, w, V)

LEMMA SpineFacts ==
  ASSUME NEW A, NEW kids, NEW roots, NEW s, Spine(A, kids, roots, s)
  PROVE  /\ Len(s) \in Nat /\ Len(s) \in 1..Len(s) /\ 1 \in 1..Len(s)
         /\ \A i \in 1..Len(s) : s[i] \in A
PROOF
<1>1. s \in Seq(A) /\ Len(s) > 0
  BY DEF Spine
<1>2. Len(s) \in Nat /\ \A i \in 1..Len(s) : s[i] \in A
  BY <1>1
<1> DEFINE n == Len(s)
<1> HIDE DEF n
<1>3. n \in 1..n /\ 1 \in 1..n
  BY <1>1, <1>2 DEF n
<1> QED
  BY <1>2, <1>3 DEF n

(* A root is not on a spine, but for the top. *)
LEMMA SpineRoots ==
  ASSUME NEW A, NEW kids, NEW roots, Grove(A, kids, roots), NEW s,
         Spine(A, kids, roots, s), NEW i \in 1..Len(s), s[i] \in roots
  PROVE  i = 1
PROOF
<1> SUFFICES ASSUME i # 1 PROVE FALSE
  OBVIOUS
<1> DEFINE j == i - 1
           n == Len(s)
<1>1. n \in Nat /\ \A k \in 1..n : s[k] \in A
  BY SpineFacts
<1>2. j \in 1..(n - 1) /\ j \in 1..n /\ j + 1 = i
  BY <1>1
<1> DEFINE q == s[j]
           l == Len(kids[q])
<1>3. l > 0 /\ kids[q][l] = s[i]
  BY <1>2 DEF Spine
<1>4. q \in A /\ kids \in [A -> Seq(A)]
  BY <1>1, <1>2 DEF Grove
<1> HIDE DEF q
<1>5. kids[q] \in Seq(A)
  BY <1>4
<1>6. l \in DOMAIN kids[q]
  BY <1>3, <1>5
<1> QED
  BY <1>3, <1>4, <1>6 DEF Grove

(* The first of a spine are one. *)
LEMMA SpineTop ==
  ASSUME NEW A, NEW kids, NEW roots, NEW s, Spine(A, kids, roots, s), NEW n \in 1..Len(s)
  PROVE  Spine(A, kids, roots, SubSeq(s, 1, n))
PROOF
<1> DEFINE t == SubSeq(s, 1, n)
<1>1. s \in Seq(A) /\ Len(s) \in Nat /\ n \in 1..Len(s) /\ n \in Nat
  BY SpineFacts DEF Spine
<1>2. t \in Seq(A) /\ Len(t) = n /\ \A i \in 1..n : t[i] = s[i]
  BY <1>1
<1>3. 1 \in 1..n /\ 1..n \subseteq 1..Len(s) /\ 1..(n - 1) \subseteq 1..(Len(s) - 1)
      /\ \A i \in 1..(n - 1) : i \in 1..n /\ i + 1 \in 1..n
  BY <1>1
<1> HIDE DEF t
<1>4. t[1] \in roots /\ Len(t) > 0
  BY <1>1, <1>2, <1>3 DEF Spine
<1>5. \A i, j \in 1..Len(t) : t[i] = t[j] => i = j
  BY <1>2, <1>3 DEF Spine
<1>6. \A i \in 1..(Len(t) - 1) :
        Len(kids[t[i]]) > 0 /\ kids[t[i]][Len(kids[t[i]])] = t[i + 1]
  BY <1>2, <1>3 DEF Spine
<1>7. Spine(A, kids, roots, t)
  BY <1>2, <1>4, <1>5, <1>6 DEF Spine
<1> QED
  BY <1>7 DEF t

LEMMA SpineAlone ==
  ASSUME NEW A, NEW kids, NEW roots, NEW r \in roots, r \in A
  PROVE  Spine(A, kids, roots, <<r>>)
PROOF
<1>1. <<r>> \in Seq(A) /\ Len(<<r>>) = 1 /\ <<r>>[1] = r
  OBVIOUS
<1>2. \A i, j \in 1..1 : i = j
  OBVIOUS
<1>3. 1..(1 - 1) = {}
  OBVIOUS
<1> QED
  BY <1>1, <1>2, <1>3 DEF Spine

LEMMA GroveGrows ==
  ASSUME NEW A, NEW kids, NEW roots, Grove(A, kids, roots),
         NEW s, Spine(A, kids, roots, s), NEW new, NEW more, Planted(A, kids, s, new, more)
  PROVE  /\ Grove(A \cup {new}, more, roots)
         /\ Spine(A \cup {new}, more, roots, s)
         /\ Spine(A \cup {new}, more, roots, Append(s, new))
PROOF
<1> DEFINE B == A \cup {new}
           n == Len(s)
           p == s[n]
<1>1. /\ kids \in [A -> Seq(A)] /\ roots \subseteq A /\ s \in Seq(A) /\ n \in Nat
      /\ n > 0 /\ n \in 1..n /\ 1 \in 1..n /\ p \in A /\ \A i \in 1..n : s[i] \in A
  <2>1. s \in Seq(A) /\ n > 0
    BY DEF Spine
  <2>2. n \in Nat /\ n \in 1..n /\ 1 \in 1..n /\ \A i \in 1..n : s[i] \in A
    BY SpineFacts
  <2> QED
    BY <2>1, <2>2 DEF Grove
<1>2. /\ new \notin A /\ more \in [B -> Seq(B)] /\ more[new] = <<>>
      /\ more[p] = Append(kids[p], new) /\ \A r \in A : r # p => more[r] = kids[r]
  BY DEF Planted
<1>3. ASSUME NEW q \in B, NEW i \in DOMAIN more[q]
      PROVE  \/ q \in A /\ i \in DOMAIN kids[q] /\ more[q][i] = kids[q][i] /\ kids[q][i] \in A
             \/ q = p /\ i = Len(kids[p]) + 1 /\ more[q][i] = new
  <2>1. CASE q = new
    <3>1. DOMAIN more[q] = {}
      BY <1>2, <2>1
    <3> QED
      BY <3>1
  <2>2. CASE q \in A /\ q # p
    <3>1. more[q] = kids[q] /\ kids[q] \in Seq(A)
      BY <1>1, <1>2, <2>2
    <3> QED
      BY <2>2, <3>1
  <2>3. CASE q = p
    <3>1. more[q] = Append(kids[p], new) /\ kids[p] \in Seq(A)
      BY <1>1, <1>2, <2>3
    <3> HIDE DEF p
    <3> QED
      BY <1>1, <2>3, <3>1
  <2> QED
    BY <2>1, <2>2, <2>3
<1> HIDE DEF p
<1>4. Grove(B, more, roots)
  <2>1. ASSUME NEW q \in B, NEW r \in B, NEW i \in DOMAIN more[q], NEW j \in DOMAIN more[r],
               more[q][i] = more[r][j]
        PROVE  q = r /\ i = j
    <3>1. CASE more[q][i] = new
      BY <1>2, <1>3, <2>1, <3>1
    <3>2. CASE more[q][i] # new
      <4>1. q \in A /\ i \in DOMAIN kids[q] /\ more[q][i] = kids[q][i]
        BY <1>3, <3>2
      <4>2. r \in A /\ j \in DOMAIN kids[r] /\ more[r][j] = kids[r][j]
        BY <1>3, <2>1, <3>2
      <4>3. kids[q][i] = kids[r][j]
        BY <2>1, <4>1, <4>2
      <4> QED
        BY <4>1, <4>2, <4>3 DEF Grove
    <3> QED
      BY <3>1, <3>2
  <2>2. ASSUME NEW r \in B, NEW i \in DOMAIN more[r] PROVE more[r][i] \notin roots
    <3>1. CASE more[r][i] = new
      BY <1>1, <1>2, <3>1
    <3>2. CASE more[r][i] # new
      <4>1. r \in A /\ i \in DOMAIN kids[r] /\ more[r][i] = kids[r][i]
        BY <1>3, <3>2
      <4> QED
        BY <4>1 DEF Grove
    <3> QED
      BY <3>1, <3>2
  <2>3. roots \subseteq B
    BY <1>1
  <2> HIDE DEF B
  <2> QED
    BY <1>2, <2>1, <2>2, <2>3 DEF Grove
<1>5. ASSUME NEW i \in 1..(n - 1)
      PROVE  /\ Len(more[s[i]]) > 0 /\ more[s[i]][Len(more[s[i]])] = s[i + 1]
             /\ i \in 1..n /\ i + 1 \in 1..n
  <2>1. i \in 1..n /\ i # n /\ i + 1 \in 1..n
    BY <1>1
  <2>2. s[i] # p
    <3>1. s[i] = s[n] => i = n
      BY <1>1, <2>1 DEF Spine
    <3> QED
      BY <2>1, <3>1 DEF p
  <2>3. more[s[i]] = kids[s[i]]
    BY <1>1, <1>2, <2>1, <2>2
  <2> QED
    BY <2>1, <2>3 DEF Spine
<1>6. Spine(B, more, roots, s)
  <2>1. s \in Seq(B)
    BY <1>1
  <2> QED
    BY <1>5, <2>1 DEF Spine
<1>7. Spine(B, more, roots, Append(s, new))
  <2> DEFINE t == Append(s, new)
  <2>1. /\ t \in Seq(B) /\ Len(t) = n + 1 /\ t[n + 1] = new
        /\ \A i \in 1..n : t[i] = s[i]
    BY <1>1
  <2> HIDE DEF t
  <2>2. t[1] \in roots /\ Len(t) > 0
    BY <1>1, <2>1 DEF Spine
  <2>3. ASSUME NEW i \in 1..(n + 1), NEW j \in 1..(n + 1), t[i] = t[j] PROVE i = j
    <3>1. \A k \in 1..(n + 1) : k = n + 1 \/ k \in 1..n
      BY <1>1
    <3>2. \A k \in 1..n : t[k] \in A /\ t[k] # new
      BY <1>1, <1>2, <2>1
    <3>3. CASE i \in 1..n /\ j \in 1..n
      BY <2>1, <2>3, <3>3 DEF Spine
    <3> QED
      BY <2>1, <2>3, <3>1, <3>2, <3>3
  <2>4. ASSUME NEW i \in 1..n
        PROVE  Len(more[t[i]]) > 0 /\ more[t[i]][Len(more[t[i]])] = t[i + 1]
    <3>1. CASE i = n
      <4>1. t[i] = p /\ more[t[i]] = Append(kids[p], new) /\ t[i + 1] = new
        BY <1>1, <1>2, <2>1, <3>1 DEF p
      <4>2. kids[p] \in Seq(A)
        BY <1>1
      <4> QED
        BY <4>1, <4>2
    <3>2. CASE i # n
      <4>1. i \in 1..(n - 1)
        BY <1>1, <3>2
      <4>2. t[i] = s[i] /\ t[i + 1] = s[i + 1]
        BY <1>5, <2>1, <4>1
      <4> QED
        BY <1>5, <4>1, <4>2
    <3> QED
      BY <3>1, <3>2
  <2>5. (n + 1) - 1 = n
    BY <1>1
  <2>6. Spine(B, more, roots, t)
    BY <2>1, <2>2, <2>3, <2>4, <2>5 DEF Spine
  <2> QED
    BY <2>6 DEF t
<1> QED
  BY <1>4, <1>6, <1>7

(* The spine of another root stays one, too, when the new one is right     *)
(* under a root.                                                           *)
LEMMA OtherSpine ==
  ASSUME NEW A, NEW kids, NEW roots, Grove(A, kids, roots), NEW root \in roots,
         NEW new, NEW more, Planted(A, kids, <<root>>, new, more),
         NEW t, Spine(A, kids, roots, t), t[1] # root
  PROVE  Spine(A \cup {new}, more, roots, t)
PROOF
<1> DEFINE n == Len(t)
<1>1. n \in Nat /\ \A i \in 1..n : t[i] \in A
  BY SpineFacts
<1>2. \A r \in A : r # root => more[r] = kids[r]
  BY DEF Planted
<1>3. ASSUME NEW i \in 1..n PROVE t[i] # root
  <2>1. t[i] \in roots => i = 1
    BY SpineRoots
  <2> QED
    BY <2>1
<1>4. ASSUME NEW i \in 1..(n - 1)
      PROVE  Len(more[t[i]]) > 0 /\ more[t[i]][Len(more[t[i]])] = t[i + 1]
  <2>1. i \in 1..n
    BY <1>1
  <2>2. more[t[i]] = kids[t[i]]
    BY <1>1, <1>2, <1>3, <2>1
  <2> QED
    BY <2>2 DEF Spine
<1>5. t \in Seq(A \cup {new})
  <2>1. t \in Seq(A)
    BY DEF Spine
  <2> QED
    BY <2>1
<1> QED
  BY <1>4, <1>5 DEF Spine

(* What the walks say when one more is planted. *)
LEMMA WalkableGrows ==
  ASSUME NEW A, NEW kids, NEW roots, Grove(A, kids, roots), Walkable(A, kids),
         NEW s, Spine(A, kids, roots, s), NEW new, NEW more, Planted(A, kids, s, new, more)
  PROVE  Walkable(A \cup {new}, more)
PROOF
<1> SUFFICES ASSUME NEW V, NEW saw, \A r \in A \cup {new} : saw[r] \in V
             PROVE  \E x : Walks(A \cup {new}, more, saw, x, V)
  BY DEF Walkable
<1>1. Agree(A, saw, saw, new, V)
  BY DEF Agree
<1>2. PICK w : Walks(A, kids, saw, w, V)
  BY DEF Walkable
<1>3. PICK x : GrownWalk(A, roots, s, w, new, more, saw, x, V)
  BY <1>1, <1>2, WalksGrow
<1> QED
  BY <1>3 DEF GrownWalk

=============================================================================
