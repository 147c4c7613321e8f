--------------------------- MODULE TableGridProofs ---------------------------
(***************************************************************************)
(* The grids of a document's tables, for any number of rows and any spans: *)
(* each cell has the first column it could have, and what the spans claim  *)
(* is what was counted off the budget.                                     *)
(***************************************************************************)
EXTENDS DocumentFoldProofs, DataInduction

-----------------------------------------------------------------------------
(* Sums.                                                                   *)

Additive(sum, h) ==
  /\ sum \in [SUBSET DOMAIN h -> Nat] /\ sum[{}] = 0
  /\ \A s \in SUBSET DOMAIN h : \A x \in s : sum[s] = h[x] + sum[s \ {x}]

LEMMA AdditiveStep ==
  ASSUME NEW n \in Nat, NEW g \in [1..(n + 1) -> Nat], NEW h \in [1..n -> Nat],
         \A i \in 1..n : g[i] = h[i], NEW sum, Additive(sum, h)
  PROVE  \E total : Additive(total, g)
PROOF
<1> DEFINE m == n + 1
           total == [s \in SUBSET (1..m) |-> IF m \in s THEN g[m] + sum[s \ {m}] ELSE sum[s]]
<1>1. DOMAIN g = 1..m /\ DOMAIN h = 1..n /\ m \notin 1..n /\ m \in 1..m /\ g[m] \in Nat
      /\ \A i \in 1..m : i = m \/ i \in 1..n
  OBVIOUS
<1>2. \A s \in SUBSET (1..m) :
        s \ {m} \in SUBSET (1..n) /\ (m \notin s => s \in SUBSET (1..n))
  BY <1>1
<1>3. \A s \in SUBSET (1..n) :
        /\ sum[s] \in Nat /\ total[s] = sum[s]
        /\ \A x \in s : sum[s] = g[x] + sum[s \ {x}] /\ g[x] \in Nat
  <2> SUFFICES ASSUME NEW s \in SUBSET (1..n)
               PROVE  /\ sum[s] \in Nat /\ total[s] = sum[s]
                      /\ \A x \in s : sum[s] = g[x] + sum[s \ {x}] /\ g[x] \in Nat
    OBVIOUS
  <2>1. s \in SUBSET (1..m) /\ m \notin s
    BY <1>1
  <2>2. sum[s] \in Nat /\ \A x \in s : sum[s] = h[x] + sum[s \ {x}]
    BY <1>1 DEF Additive
  <2>3. \A x \in s : h[x] = g[x] /\ g[x] \in Nat
    OBVIOUS
  <2> QED
    BY <2>1, <2>2, <2>3
<1>4. {} \in SUBSET (1..m) /\ total[{}] = 0
  BY DEF Additive
<1> HIDE DEF m
<1>5. ASSUME NEW s \in SUBSET (1..m), NEW x \in s
      PROVE  total[s] = g[x] + total[s \ {x}]
  <2>1. s \ {x} \in SUBSET (1..m)
    OBVIOUS
  <2>2. CASE m \notin s
    BY <2>1, <2>2, <1>2, <1>3
  <2>3. CASE x = m
    BY <2>1, <2>3, <1>2, <1>3
  <2>4. CASE m \in s /\ x # m
    <3>1. x \in s \ {m} /\ (s \ {m}) \ {x} = (s \ {x}) \ {m} /\ m \in s \ {x}
      BY <2>4
    <3>2. sum[s \ {m}] = g[x] + sum[(s \ {x}) \ {m}] /\ g[x] \in Nat
      <4>1. s \ {m} \in SUBSET (1..n)
        BY <1>2
      <4>2. sum[s \ {m}] = g[x] + sum[(s \ {m}) \ {x}] /\ g[x] \in Nat
        BY <4>1, <3>1, <1>3
      <4> QED
        BY <4>2, <3>1
    <3>3. total[s] = g[m] + sum[s \ {m}] /\ total[s \ {x}] = g[m] + sum[(s \ {x}) \ {m}]
      BY <2>1, <2>4, <3>1
    <3>4. sum[(s \ {x}) \ {m}] \in Nat
      BY <2>1, <1>2, <1>3
    <3> QED
      BY <3>2, <3>3, <3>4, <1>1
  <2> QED
    BY <2>2, <2>3, <2>4
<1>6. \A s \in SUBSET (1..m) : total[s] \in Nat
  <2> SUFFICES ASSUME NEW s \in SUBSET (1..m) PROVE total[s] \in Nat
    OBVIOUS
  <2>1. sum[s \ {m}] \in Nat
    BY <1>2, <1>3
  <2>2. m \notin s => sum[s] \in Nat
    BY <1>2, <1>3
  <2> QED
    BY <2>1, <2>2, <1>1
<1>7. total \in [SUBSET (1..m) -> Nat]
  BY <1>6
<1> HIDE DEF total
<1>8. Additive(total, g)
  BY <1>1, <1>4, <1>5, <1>6, <1>7 DEF Additive
<1> QED
  BY <1>8

LEMMA AdditiveExists ==
  ASSUME NEW h \in Seq(Nat)
  PROVE  \E sum : Additive(sum, h)
PROOF
<1> DEFINE A == {n \in Nat : \A g \in [1..n -> Nat] : \E sum : Additive(sum, g)}
<1>1. 0 \in A
  <2> SUFFICES ASSUME NEW g \in [1..0 -> Nat] PROVE \E sum : Additive(sum, g)
    OBVIOUS
  <2> DEFINE sum == [s \in SUBSET DOMAIN g |-> 0]
  <2>1. \A s \in SUBSET DOMAIN g : \A x \in s : FALSE
    OBVIOUS
  <2>2. sum \in [SUBSET DOMAIN g -> Nat] /\ sum[{}] = 0
    OBVIOUS
  <2> HIDE DEF sum
  <2>3. Additive(sum, g)
    BY <2>1, <2>2 DEF Additive
  <2> QED
    BY <2>3
<1>2. ASSUME NEW n \in A PROVE n + 1 \in A
  <2> SUFFICES ASSUME NEW g \in [1..(n + 1) -> Nat] PROVE \E sum : Additive(sum, g)
    OBVIOUS
  <2> DEFINE f == [i \in 1..n |-> g[i]]
  <2>1. f \in [1..n -> Nat] /\ \A i \in 1..n : g[i] = f[i]
    OBVIOUS
  <2>2. PICK sum : Additive(sum, f)
    BY <2>1
  <2> HIDE DEF f
  <2> QED
    BY <2>1, <2>2, AdditiveStep
<1> HIDE DEF A
<1>3. A = Nat
  <2>1. A \subseteq Nat
    BY DEF A
  <2> QED
    BY <2>1, <1>1, <1>2, Induction
<1>4. Len(h) \in Nat /\ h \in [1..Len(h) -> Nat]
  OBVIOUS
<1> QED
  BY <1>3, <1>4 DEF A

(* What SumFunction computes, in whatever order it takes the elements.     *)
LEMMA SumIs ==
  ASSUME NEW h \in Seq(Nat), NEW sum, Additive(sum, h)
  PROVE  SumFunction(h) = sum[DOMAIN h]
PROOF
<1> DEFINE D == DOMAIN h
           pick(s) == CHOOSE x \in s : TRUE
           Folded(iter) == [s \in SUBSET D |->
                              IF s = {} THEN 0 ELSE h[pick(s)] + iter[s \ {pick(s)}]]
           folded == CHOOSE iter : iter = Folded(iter)
<1>1. SumFunction(h) = folded[D]
  BY DEF SumFunction, SumFunctionOnSet, FoldFunctionOnSet, MapThenFoldSet
<1>2. \A s \in SUBSET D : s # {} => pick(s) \in s
  OBVIOUS
<1>3. D = 1..Len(h) /\ Len(h) \in Nat /\ IsFiniteSet(D)
  BY FS_Interval
<1> HIDE DEF D, pick
<1>4. sum = Folded(sum)
  <2>1. sum \in [SUBSET D -> Nat]
    BY DEF Additive, D
  <2>2. \A s \in SUBSET D : sum[s] = IF s = {} THEN 0 ELSE h[pick(s)] + sum[s \ {pick(s)}]
    BY <1>2 DEF Additive, D
  <2> QED
    BY <2>1, <2>2
<1>5. folded = Folded(folded)
  BY <1>4
<1> HIDE DEF folded
<1> DEFINE A == {n \in Nat : \A s \in SUBSET D : Cardinality(s) = n => folded[s] = sum[s]}
<1>6. \A s \in SUBSET D : IsFiniteSet(s) /\ Cardinality(s) \in Nat
  BY <1>3, FS_Subset, FS_CardinalityType
<1>7. \A s \in SUBSET D :
        folded[s] = IF s = {} THEN 0 ELSE h[pick(s)] + folded[s \ {pick(s)}]
  BY <1>5
<1>8. 0 \in A
  <2>1. \A s \in SUBSET D : Cardinality(s) = 0 => s = {}
    BY <1>6, FS_EmptySet
  <2> QED
    BY <2>1, <1>7 DEF Additive
<1>9. ASSUME NEW n \in A PROVE n + 1 \in A
  <2> SUFFICES ASSUME NEW s \in SUBSET D, Cardinality(s) = n + 1 PROVE folded[s] = sum[s]
    OBVIOUS
  <2>1. s # {}
    <3>1. n \in Nat
      BY DEF A
    <3>2. s = {} => Cardinality(s) = 0
      BY FS_EmptySet
    <3>3. n + 1 # 0
      BY <3>1
    <3> QED
      BY <3>2, <3>3
  <2>2. pick(s) \in s /\ s \ {pick(s)} \in SUBSET D
    BY <2>1, <1>2
  <2>3. Cardinality(s \ {pick(s)}) = n
    BY <2>2, <1>6, FS_RemoveElement
  <2>4. folded[s \ {pick(s)}] = sum[s \ {pick(s)}]
    BY <2>2, <2>3
  <2> QED
    BY <2>1, <2>2, <2>4, <1>7 DEF Additive, D
<1> HIDE DEF A
<1>10. A = Nat
  <2>1. A \subseteq Nat
    BY DEF A
  <2> QED
    BY <2>1, <1>8, <1>9, Induction
<1>11. Cardinality(D) \in A /\ D \in SUBSET D
  BY <1>3, <1>6, <1>10
<1>12. folded[D] = sum[D]
  BY <1>11 DEF A
<1> QED
  BY <1>1, <1>12 DEF D

LEMMA SumEmpty == SumFunction(<<>>) = 0
PROOF
<1>1. <<>> \in Seq(Nat) /\ DOMAIN <<>> = {}
  OBVIOUS
<1>2. PICK sum : Additive(sum, <<>>)
  BY <1>1, AdditiveExists
<1> QED
  BY <1>1, <1>2, SumIs DEF Additive

LEMMA SumAppend ==
  ASSUME NEW h \in Seq(Nat), NEW v \in Nat
  PROVE  SumFunction(Append(h, v)) = SumFunction(h) + v /\ SumFunction(h) \in Nat
PROOF
<1> DEFINE g == Append(h, v)
           n == Len(h)
<1>1. g \in Seq(Nat) /\ DOMAIN g = 1..(n + 1) /\ DOMAIN h = 1..n /\ n \in Nat
      /\ g[n + 1] = v /\ \A i \in 1..n : g[i] = h[i]
  OBVIOUS
<1> HIDE DEF g, n
<1>2. PICK sum : Additive(sum, g)
  BY <1>1, AdditiveExists
<1> DEFINE part == [s \in SUBSET (1..n) |-> sum[s]]
<1>3. \A s \in SUBSET (1..n) : s \in SUBSET (1..(n + 1))
  BY <1>1
<1>4. Additive(part, h)
  <2>1. part \in [SUBSET (1..n) -> Nat] /\ \A s \in SUBSET (1..n) : part[s] = sum[s]
    BY <1>1, <1>2, <1>3 DEF Additive
  <2> HIDE DEF part
  <2>3. \A s \in SUBSET (1..n) : \A x \in s : part[s] = h[x] + part[s \ {x}]
    <3> SUFFICES ASSUME NEW s \in SUBSET (1..n), NEW x \in s
                 PROVE  part[s] = h[x] + part[s \ {x}]
      OBVIOUS
    <3>1. s \ {x} \in SUBSET (1..n) /\ h[x] = g[x]
      BY <1>1
    <3>2. sum[s] = g[x] + sum[s \ {x}]
      BY <1>1, <1>2, <1>3 DEF Additive
    <3> QED
      BY <2>1, <3>1, <3>2
  <2>4. part[{}] = 0
    BY <2>1, <1>2 DEF Additive
  <2> QED
    BY <2>1, <2>3, <2>4, <1>1 DEF Additive
<1>5. SumFunction(g) = sum[1..(n + 1)]
  BY <1>1, <1>2, SumIs
<1>6. SumFunction(h) = sum[1..n]
  BY <1>1, <1>4, SumIs
<1>7. sum[1..(n + 1)] = v + sum[1..n] /\ sum[1..n] \in Nat
  <2>1. n + 1 \in 1..(n + 1) /\ (1..(n + 1)) \ {n + 1} = 1..n
    BY <1>1
  <2>2. sum \in [SUBSET (1..(n + 1)) -> Nat]
        /\ \A s \in SUBSET (1..(n + 1)) : \A x \in s : sum[s] = g[x] + sum[s \ {x}]
    BY <1>1, <1>2 DEF Additive
  <2>3. sum[1..(n + 1)] = g[n + 1] + sum[(1..(n + 1)) \ {n + 1}]
    BY <2>1, <2>2
  <2>4. (1..n) \in SUBSET (1..(n + 1))
    BY <1>1
  <2>5. sum[1..n] \in Nat
    BY <2>2, <2>4
  <2> QED
    BY <2>1, <2>3, <2>5, <1>1
<1> QED
  BY <1>5, <1>6, <1>7 DEF g


-----------------------------------------------------------------------------
(* The fold over a row's cells, as the states it goes through.             *)

LEMMA MaxIs ==
  ASSUME NEW n \in Nat, NEW s \in SUBSET (1..n), s # {}
  PROVE  Max(s) \in s /\ \A y \in s : Max(s) >= y
PROOF
<1>1. s \subseteq Nat /\ \A x \in s : x <= n
  OBVIOUS
<1>2. \E x \in s : \A y \in s : y <= x
  BY <1>1, Greatest
<1>3. \E x \in s : \A y \in s : x >= y
  BY <1>1, <1>2
<1> QED
  BY <1>3 DEF Max

(* What FoldLeft looks up, for any set of positions, and a function that   *)
(* answers it.                                                             *)
Laying(base, cells, n, iter) ==
  [s \in SUBSET (1..n) |->
     IF s = {} THEN base ELSE LayCell(iter[s \ {Max(s)}], cells[Max(s)])]

LEMMA LayingStep ==
  ASSUME NEW n \in Nat, NEW base, NEW cells, NEW f, f = Laying(base, cells, n, f)
  PROVE  \E g : g = Laying(base, cells, n + 1, g)
PROOF
<1> DEFINE m == n + 1
           g == [s \in SUBSET (1..m) |->
                   IF m \in s THEN LayCell(f[s \ {m}], cells[m]) ELSE f[s]]
           law(s) == IF s = {} THEN base ELSE LayCell(g[s \ {Max(s)}], cells[Max(s)])
<1>1. m \in Nat /\ m \notin 1..n /\ \A i \in 1..m : i <= m /\ (i # m => i \in 1..n)
  OBVIOUS
<1>2. \A s \in SUBSET (1..n) :
        f[s] = IF s = {} THEN base ELSE LayCell(f[s \ {Max(s)}], cells[Max(s)])
  BY DEF Laying
<1> HIDE DEF m
<1>3. \A s \in SUBSET (1..m) : s \ {m} \in SUBSET (1..n) /\ (m \notin s => s \in SUBSET (1..n))
  BY <1>1
<1>4. \A s \in SUBSET (1..n) : s \in SUBSET (1..m) /\ g[s] = f[s]
  <2> SUFFICES ASSUME NEW s \in SUBSET (1..n)
               PROVE  s \in SUBSET (1..m) /\ g[s] = f[s]
    OBVIOUS
  <2>1. s \in SUBSET (1..m) /\ m \notin s
    BY <1>1 DEF m
  <2> QED
    BY <2>1
<1>5. ASSUME NEW s \in SUBSET (1..m) PROVE g[s] = law(s)
  <2>1. CASE m \in s
    <3>1. Max(s) \in s /\ \A y \in s : Max(s) >= y
      BY <2>1, <1>1, MaxIs
    <3>2. Max(s) = m
      <4>1. Max(s) \in 1..m /\ Max(s) >= m
        BY <3>1, <2>1
      <4> QED
        BY <4>1, <1>1
    <3>3. g[s \ {m}] = f[s \ {m}]
      BY <1>3, <1>4
    <3> HIDE DEF g
    <3>4. law(s) = LayCell(f[s \ {m}], cells[m])
      BY <3>2, <3>3, <2>1
    <3> QED
      BY <3>4, <2>1 DEF g
  <2>2. CASE m \notin s /\ s # {}
    <3>1. s \in SUBSET (1..n)
      BY <2>2, <1>3
    <3>2. Max(s) \in s
      BY <3>1, <2>2, MaxIs
    <3>3. s \ {Max(s)} \in SUBSET (1..n)
      BY <3>1
    <3>4. g[s] = f[s] /\ g[s \ {Max(s)}] = f[s \ {Max(s)}]
      BY <3>1, <3>3, <1>4
    <3> HIDE DEF g
    <3> QED
      BY <3>1, <3>4, <2>2, <1>2
  <2>3. CASE s = {}
    <3>1. {} \in SUBSET (1..n)
      OBVIOUS
    <3>2. g[{}] = f[{}] /\ f[{}] = base
      BY <3>1, <1>2, <1>4
    <3> HIDE DEF g
    <3> QED
      BY <3>2, <2>3
  <2> QED
    BY <2>1, <2>2, <2>3
<1>6. g = [s \in SUBSET (1..m) |-> law(s)]
  <2>1. DOMAIN g = SUBSET (1..m) /\ g = [s \in SUBSET (1..m) |-> g[s]]
    OBVIOUS
  <2> HIDE DEF g
  <2> QED
    BY <2>1, <1>5
<1> HIDE DEF g
<1>7. g = Laying(base, cells, n + 1, g)
  BY <1>6 DEF Laying, m
<1> QED
  BY <1>7

LEMMA LayingExists ==
  ASSUME NEW n \in Nat, NEW base, NEW cells
  PROVE  \E f : f = Laying(base, cells, n, f)
PROOF
<1> DEFINE A == {k \in Nat : \E f : f = Laying(base, cells, k, f)}
<1>1. 0 \in A
  <2> DEFINE f == [s \in SUBSET (1..0) |-> base]
  <2>1. \A s \in SUBSET (1..0) : s = {}
    OBVIOUS
  <2>2. f = Laying(base, cells, 0, f)
    BY <2>1 DEF Laying
  <2> QED
    BY <2>2
<1>2. ASSUME NEW k \in A PROVE k + 1 \in A
  <2>1. k \in Nat /\ \E f : f = Laying(base, cells, k, f)
    OBVIOUS
  <2>2. \E f : f = Laying(base, cells, k + 1, f)
    BY <2>1, LayingStep
  <2> QED
    BY <2>1, <2>2
<1> HIDE DEF A
<1>3. A = Nat
  <2>1. A \subseteq Nat
    BY DEF A
  <2> QED
    BY <2>1, <1>1, <1>2, Induction
<1> QED
  BY <1>3 DEF A

(* Path: the loop's states, before the first cell and after each.          *)
LEMMA LayRowPath ==
  ASSUME NEW grid, NEW occupied, NEW width, NEW left, NEW cells \in Seq(WireCell)
  PROVE  \E path :
           /\ path[0] = [row |-> Len(grid), column |-> 0,
                         occupied |-> Pruned(occupied, Len(grid)),
                         width |-> width, left |-> left, cells |-> <<>>]
           /\ \A i \in 1..Len(cells) : path[i] = LayCell(path[i - 1], cells[i])
           /\ path[Len(cells)] = LayRow(grid, occupied, width, left, cells)
PROOF
<1> DEFINE base == [row |-> Len(grid), column |-> 0,
                    occupied |-> Pruned(occupied, Len(grid)),
                    width |-> width, left |-> left, cells |-> <<>>]
           n == Len(cells)
           iter == CHOOSE iter : iter = Laying(base, cells, n, iter)
           path == [i \in 0..n |-> iter[1..i]]
<1>1. n \in Nat /\ DOMAIN cells = 1..n
  OBVIOUS
<1> HIDE DEF base
<1>2. LayRow(grid, occupied, width, left, cells) = iter[DOMAIN cells]
  <2>1. LayRow(grid, occupied, width, left, cells) = FoldLeft(LayCell, base, cells)
    BY DEF LayRow, base
  <2>2. FoldLeft(LayCell, base, cells)
          = (CHOOSE f : f = [s \in SUBSET DOMAIN cells |->
               IF s = {} THEN base ELSE LayCell(f[s \ {Max(s)}], cells[Max(s)])])[DOMAIN cells]
    BY DEF FoldLeft, MapThenFoldSet
  <2> QED
    BY <2>1, <2>2, <1>1 DEF Laying
<1>3. iter = Laying(base, cells, n, iter)
  BY <1>1, LayingExists
<1> HIDE DEF n, iter
<1>4. \A s \in SUBSET (1..n) :
        iter[s] = IF s = {} THEN base ELSE LayCell(iter[s \ {Max(s)}], cells[Max(s)])
  BY <1>3 DEF Laying
<1>5. path[0] = base
  <2>1. 1..0 = {} /\ 0 \in 0..n /\ (1..0) \in SUBSET (1..n)
    BY <1>1
  <2> QED
    BY <2>1, <1>4
<1>6. ASSUME NEW i \in 1..n PROVE path[i] = LayCell(path[i - 1], cells[i])
  <2>1. (1..i) \in SUBSET (1..n) /\ i \in 1..i /\ i \in 0..n /\ i - 1 \in 0..n
        /\ (1..i) \ {i} = 1..(i - 1)
    <3>1. i \in Nat /\ i >= 1 /\ i <= n
      BY <1>1
    <3>2. (1..i) \in SUBSET (1..n) /\ i \in 1..i /\ i \in 0..n /\ i - 1 \in 0..n
      BY <3>1, <1>1
    <3>3. \A x : x \in (1..i) \ {i} <=> x \in 1..(i - 1)
      BY <3>1
    <3> QED
      BY <3>2, <3>3
  <2>2. Max(1..i) = i
    <3>1. i \in Nat /\ (1..i) \in SUBSET (1..i)
      BY <1>1
    <3>2. Max(1..i) \in 1..i /\ \A y \in 1..i : Max(1..i) >= y
      BY <3>1, <2>1, MaxIs
    <3>3. Max(1..i) >= i
      BY <2>1, <3>2
    <3> QED
      BY <3>1, <3>2, <3>3
  <2>3. iter[1..i] = LayCell(iter[1..(i - 1)], cells[i])
    BY <2>1, <2>2, <1>4
  <2> QED
    BY <2>1, <2>3
<1>7. path[n] = iter[DOMAIN cells]
  BY <1>1
<1> HIDE DEF path
<1> QED
  BY <1>2, <1>5, <1>6, <1>7 DEF n, base

(* The first free column is free, not before the column asked for, and     *)
(* nothing between the two is free: there is one, because more columns are *)
(* looked at than slots are taken.                                         *)
LEMMA FirstFreeIs ==
  ASSUME NEW occupied, IsFiniteSet(occupied), NEW row \in Nat, NEW column \in Nat
  PROVE  /\ FirstFree(occupied, row, column) \in Nat
         /\ FirstFree(occupied, row, column) >= column
         /\ <<row, FirstFree(occupied, row, column)>> \notin occupied
         /\ \A c \in column..(FirstFree(occupied, row, column) - 1) : <<row, c>> \in occupied
PROOF
<1> DEFINE n == Cardinality(occupied)
           C == column..(column + n)
           F == {c \in C : <<row, c>> \notin occupied}
<1>1. n \in Nat
  BY FS_CardinalityType
<1> HIDE DEF n
<1>2. IsFiniteSet(C) /\ Cardinality(C) = n + 1 /\ C \subseteq Nat
  <2>1. column \in Int /\ column + n \in Int /\ ~(column > column + n)
        /\ (column + n) - column + 1 = n + 1
    BY <1>1
  <2>2. IsFiniteSet(C) /\ Cardinality(C) = (column + n) - column + 1
    BY <2>1, FS_Interval
  <2> QED
    BY <2>1, <2>2, <1>1
<1>3. F # {}
  <2> SUFFICES ASSUME F = {} PROVE FALSE
    OBVIOUS
  <2> DEFINE f == [c \in C |-> <<row, c>>]
  <2>1. f \in [C -> occupied]
    OBVIOUS
  <2>2. \A x, y \in C : f[x] = f[y] => x = y
    OBVIOUS
  <2> HIDE DEF f, C, F
  <2>3. Cardinality(occupied) < Cardinality(C)
    BY <1>1, <1>2 DEF n
  <2>4. \E x, y \in C : x # y /\ f[x] = f[y]
    BY <2>1, <2>3, <1>2, FS_PigeonHole
  <2> QED
    BY <2>2, <2>4
<1>4. F \subseteq Nat
  BY <1>2
<1>5. \E x \in F : \A y \in F : x <= y
  <2> HIDE DEF F
  <2> QED
    BY <1>3, <1>4, Least
<1>6. FirstFree(occupied, row, column) = Min(F)
  BY DEF FirstFree, n
<1>7. Min(F) \in F /\ \A y \in F : Min(F) <= y
  <2> HIDE DEF F
  <2> QED
    BY <1>5 DEF Min
<1> DEFINE start == Min(F)
<1>8. start \in C /\ <<row, start>> \notin occupied
  BY <1>7
<1>9. ASSUME NEW c \in column..(start - 1) PROVE <<row, c>> \in occupied
  <2>1. c \in C /\ ~ (start <= c)
    <3> HIDE DEF F
    <3> QED
      BY <1>1, <1>8
  <2> QED
    BY <2>1, <1>7
<1> HIDE DEF start, F
<1>10. start \in Nat /\ start >= column
  BY <1>1, <1>8
<1> QED
  BY <1>6, <1>8, <1>9, <1>10 DEF start


-----------------------------------------------------------------------------
(* Grids, cell by cell.                                                    *)

Boxes ==
  {cell \in [row : Nat, column : Nat, endRow : Nat, endColumn : Nat] :
     cell.row < cell.endRow /\ cell.column < cell.endColumn}
Grids == Seq(Seq(Boxes))

Covers(grid, row, column) ==
  \E k \in DOMAIN grid : \E l \in DOMAIN grid[k] : CoversSlot(grid[k][l], row, column)

(* Fits, without the set of the columns where cells end.                   *)
Reaches(grid, width) ==
  /\ width \in Nat
  /\ \A k \in DOMAIN grid : \A l \in DOMAIN grid[k] : grid[k][l].endColumn <= width
  /\ width = 0 \/ \E k \in DOMAIN grid : \E l \in DOMAIN grid[k] :
                     grid[k][l].endColumn = width

RowSlots(row) == SumFunction([j \in DOMAIN row |-> ExtraSlots(row[j])])

(* next is grid with one more cell at the end of its last row, the n+1st.  *)
OneMore(grid, next, n, m, cell) ==
  /\ n \in Nat /\ m \in Nat
  /\ DOMAIN grid = 1..(n + 1) /\ DOMAIN next = 1..(n + 1)
  /\ \A k \in 1..n : next[k] = grid[k]
  /\ DOMAIN grid[n + 1] = 1..m /\ DOMAIN next[n + 1] = 1..(m + 1)
  /\ \A l \in 1..m : next[n + 1][l] = grid[n + 1][l]
  /\ next[n + 1][m + 1] = cell

LEMMA OneMoreIs ==
  ASSUME NEW grid \in Grids, NEW cells \in Seq(Boxes), NEW cell \in Boxes
  PROVE  OneMore(Append(grid, cells), Append(grid, Append(cells, cell)),
                 Len(grid), Len(cells), cell)
PROOF
<1> DEFINE longer == Append(cells, cell)
           n == Len(grid)
           m == Len(cells)
<1>1. /\ m \in Nat /\ longer \in Seq(Boxes) /\ DOMAIN cells = 1..m
      /\ DOMAIN longer = 1..(m + 1) /\ longer[m + 1] = cell
      /\ \A l \in 1..m : longer[l] = cells[l]
  OBVIOUS
<1> HIDE DEF longer, m
<1>2. /\ n \in Nat
      /\ DOMAIN Append(grid, cells) = 1..(n + 1) /\ DOMAIN Append(grid, longer) = 1..(n + 1)
      /\ Append(grid, cells)[n + 1] = cells /\ Append(grid, longer)[n + 1] = longer
      /\ \A k \in 1..n : Append(grid, cells)[k] = grid[k] /\ Append(grid, longer)[k] = grid[k]
  BY DEF Grids
<1> HIDE DEF n
<1> QED
  BY <1>1, <1>2 DEF OneMore, longer, m, n

LEMMA OneMoreCells ==
  ASSUME NEW F, NEW G, NEW n, NEW m, NEW cell, OneMore(F, G, n, m, cell)
  PROVE  /\ \A k \in DOMAIN F : \A l \in DOMAIN F[k] : l \in DOMAIN G[k] /\ G[k][l] = F[k][l]
         /\ \A k \in DOMAIN G : \A l \in DOMAIN G[k] :
              l \in DOMAIN F[k] \/ (k = n + 1 /\ l = m + 1)
         /\ n + 1 \in DOMAIN G /\ m + 1 \in DOMAIN G[n + 1] /\ DOMAIN F = DOMAIN G
         /\ m + 1 \notin DOMAIN F[n + 1]
PROOF
<1>1. n \in Nat /\ m \in Nat /\ DOMAIN F = 1..(n + 1) /\ DOMAIN G = 1..(n + 1)
  BY DEF OneMore
<1>2. n + 1 \in 1..(n + 1) /\ m + 1 \in 1..(m + 1) /\ m + 1 \notin 1..m
      /\ (\A k \in 1..(n + 1) : k = n + 1 \/ k \in 1..n)
      /\ (\A l \in 1..(m + 1) : l = m + 1 \/ l \in 1..m)
      /\ (\A l \in 1..m : l \in 1..(m + 1))
  BY <1>1
<1>3. ASSUME NEW k \in DOMAIN F, NEW l \in DOMAIN F[k]
      PROVE  l \in DOMAIN G[k] /\ G[k][l] = F[k][l]
  <2>1. CASE k \in 1..n
    BY <2>1 DEF OneMore
  <2>2. CASE k = n + 1
    BY <2>2, <1>2 DEF OneMore
  <2> QED
    BY <1>1, <1>2, <2>1, <2>2
<1>4. ASSUME NEW k \in DOMAIN G, NEW l \in DOMAIN G[k]
      PROVE  l \in DOMAIN F[k] \/ (k = n + 1 /\ l = m + 1)
  <2>1. CASE k \in 1..n
    BY <2>1 DEF OneMore
  <2>2. CASE k = n + 1
    BY <2>2, <1>2 DEF OneMore
  <2> QED
    BY <1>1, <1>2, <2>1, <2>2
<1> QED
  BY <1>1, <1>2, <1>3, <1>4 DEF OneMore

LEMMA OneMoreCovers ==
  ASSUME NEW F, NEW G, NEW n, NEW m, NEW cell, OneMore(F, G, n, m, cell),
         NEW row, NEW column
  PROVE  /\ Covers(G, row, column) <=> Covers(F, row, column) \/ CoversSlot(cell, row, column)
         /\ CoveredBefore(G, n + 1, m + 1, row, column) <=> Covers(F, row, column)
         /\ \A i \in DOMAIN F : \A j \in DOMAIN F[i] :
              CoveredBefore(G, i, j, row, column) <=> CoveredBefore(F, i, j, row, column)
PROOF
<1> DEFINE Hit(c) == CoversSlot(c, row, column)
<1>1. n \in Nat /\ m \in Nat /\ DOMAIN F = 1..(n + 1) /\ DOMAIN G = 1..(n + 1)
      /\ DOMAIN F[n + 1] = 1..m /\ DOMAIN G[n + 1] = 1..(m + 1) /\ G[n + 1][m + 1] = cell
  BY DEF OneMore
<1>2. /\ \A k \in DOMAIN F : \A l \in DOMAIN F[k] : l \in DOMAIN G[k] /\ G[k][l] = F[k][l]
      /\ \A k \in DOMAIN G : \A l \in DOMAIN G[k] :
           l \in DOMAIN F[k] \/ (k = n + 1 /\ l = m + 1)
      /\ n + 1 \in DOMAIN G /\ m + 1 \in DOMAIN G[n + 1] /\ DOMAIN F = DOMAIN G
  BY OneMoreCells
<1>3. Covers(G, row, column) <=> Covers(F, row, column) \/ Hit(cell)
  <2>1. ASSUME Covers(G, row, column) PROVE Covers(F, row, column) \/ Hit(cell)
    <3>1. PICK k \in DOMAIN G : \E l \in DOMAIN G[k] : Hit(G[k][l])
      BY <2>1 DEF Covers
    <3>2. PICK l \in DOMAIN G[k] : Hit(G[k][l])
      BY <3>1
    <3> HIDE DEF Hit
    <3>3. CASE l \in DOMAIN F[k]
      BY <3>2, <3>3, <1>2 DEF Covers, Hit
    <3>4. CASE k = n + 1 /\ l = m + 1
      BY <3>2, <3>4, <1>1
    <3> QED
      BY <3>3, <3>4, <1>2
  <2>2. ASSUME Covers(F, row, column) PROVE Covers(G, row, column)
    BY <2>2, <1>2 DEF Covers
  <2>3. ASSUME Hit(cell) PROVE Covers(G, row, column)
    BY <2>3, <1>1, <1>2 DEF Covers
  <2> QED
    BY <2>1, <2>2, <2>3
<1>4. CoveredBefore(G, n + 1, m + 1, row, column) <=> Covers(F, row, column)
  <2>1. ASSUME CoveredBefore(G, n + 1, m + 1, row, column) PROVE Covers(F, row, column)
    <3>1. PICK k \in 1..(n + 1) :
            \E l \in DOMAIN G[k] : Earlier(k, l, n + 1, m + 1) /\ Hit(G[k][l])
      BY <2>1 DEF CoveredBefore
    <3>2. PICK l \in DOMAIN G[k] : Earlier(k, l, n + 1, m + 1) /\ Hit(G[k][l])
      BY <3>1
    <3> HIDE DEF Hit
    <3>3. ~(k = n + 1 /\ l = m + 1)
      BY <3>2, <1>1 DEF Earlier
    <3>4. l \in DOMAIN F[k]
      BY <3>3, <1>1, <1>2
    <3> QED
      BY <3>2, <3>4, <1>1, <1>2 DEF Covers, Hit
  <2>2. ASSUME Covers(F, row, column) PROVE CoveredBefore(G, n + 1, m + 1, row, column)
    <3>1. PICK k \in DOMAIN F : \E l \in DOMAIN F[k] : Hit(F[k][l])
      BY <2>2 DEF Covers
    <3>2. PICK l \in DOMAIN F[k] : Hit(F[k][l])
      BY <3>1
    <3> HIDE DEF Hit
    <3>3. l \in DOMAIN G[k] /\ Hit(G[k][l])
      BY <3>2, <1>2
    <3>4. Earlier(k, l, n + 1, m + 1)
      BY <1>1 DEF Earlier
    <3> QED
      BY <3>3, <3>4, <1>1 DEF CoveredBefore, Hit
  <2> QED
    BY <2>1, <2>2
<1>5. ASSUME NEW i \in DOMAIN F, NEW j \in DOMAIN F[i]
      PROVE  CoveredBefore(G, i, j, row, column) <=> CoveredBefore(F, i, j, row, column)
  <2>1. i \in 1..(n + 1) /\ \A k \in 1..i : k \in DOMAIN F
    BY <1>1
  <2>2. ASSUME NEW k \in 1..i, NEW l \in DOMAIN G[k], Earlier(k, l, i, j)
        PROVE  l \in DOMAIN F[k]
    <3>1. ~(k = n + 1 /\ l = m + 1)
      <4> SUFFICES ASSUME k = n + 1, l = m + 1 PROVE FALSE
        OBVIOUS
      <4>1. i = n + 1
        BY <2>1, <1>1
      <4>2. j \in 1..m
        BY <4>1, <1>1
      <4> QED
        BY <4>1, <4>2, <2>2, <1>1 DEF Earlier
    <3> QED
      BY <3>1, <2>1, <1>2
  <2>3. ASSUME CoveredBefore(G, i, j, row, column) PROVE CoveredBefore(F, i, j, row, column)
    <3>1. PICK k \in 1..i : \E l \in DOMAIN G[k] : Earlier(k, l, i, j) /\ Hit(G[k][l])
      BY <2>3 DEF CoveredBefore
    <3>2. PICK l \in DOMAIN G[k] : Earlier(k, l, i, j) /\ Hit(G[k][l])
      BY <3>1
    <3>3. l \in DOMAIN F[k] /\ G[k][l] = F[k][l]
      BY <3>2, <2>1, <2>2, <1>2
    <3> HIDE DEF Hit
    <3>4. Hit(F[k][l])
      BY <3>2, <3>3
    <3> QED
      BY <3>2, <3>3, <3>4 DEF CoveredBefore, Hit
  <2>4. ASSUME CoveredBefore(F, i, j, row, column) PROVE CoveredBefore(G, i, j, row, column)
    <3>1. PICK k \in 1..i : \E l \in DOMAIN F[k] : Earlier(k, l, i, j) /\ Hit(F[k][l])
      BY <2>4 DEF CoveredBefore
    <3>2. PICK l \in DOMAIN F[k] : Earlier(k, l, i, j) /\ Hit(F[k][l])
      BY <3>1
    <3>3. l \in DOMAIN G[k] /\ G[k][l] = F[k][l]
      BY <3>2, <2>1, <1>2
    <3> HIDE DEF Hit
    <3>4. Hit(G[k][l])
      BY <3>2, <3>3
    <3> QED
      BY <3>2, <3>3, <3>4 DEF CoveredBefore, Hit
  <2> QED
    BY <2>3, <2>4
<1> QED
  BY <1>3, <1>4, <1>5

(* A cell in the first slot of its row that nothing covers packs the grid. *)
LEMMA OneMorePacked ==
  ASSUME NEW F, NEW G, NEW n, NEW m, NEW cell \in Boxes, OneMore(F, G, n, m, cell),
         Packed(F), cell.row = n, ~Covers(F, n, cell.column),
         \A column \in 0..(cell.column - 1) : Covers(F, n, column)
  PROVE  Packed(G)
PROOF
<1>1. n \in Nat /\ G[n + 1][m + 1] = cell
  BY DEF OneMore
<1>2. /\ \A k \in DOMAIN F : \A l \in DOMAIN F[k] : l \in DOMAIN G[k] /\ G[k][l] = F[k][l]
      /\ \A k \in DOMAIN G : \A l \in DOMAIN G[k] :
           l \in DOMAIN F[k] \/ (k = n + 1 /\ l = m + 1)
      /\ n + 1 \in DOMAIN G /\ m + 1 \in DOMAIN G[n + 1] /\ DOMAIN F = DOMAIN G
  BY OneMoreCells
<1>3. \A row, column :
        /\ CoveredBefore(G, n + 1, m + 1, row, column) <=> Covers(F, row, column)
        /\ \A i \in DOMAIN F : \A j \in DOMAIN F[i] :
             CoveredBefore(G, i, j, row, column) <=> CoveredBefore(F, i, j, row, column)
  BY OneMoreCovers
<1>4. ASSUME NEW i \in DOMAIN G, NEW j \in DOMAIN G[i]
      PROVE  /\ G[i][j].row = i - 1
             /\ ~CoveredBefore(G, i, j, G[i][j].row, G[i][j].column)
             /\ \A column \in 0..(G[i][j].column - 1) :
                  CoveredBefore(G, i, j, G[i][j].row, column)
  <2>1. CASE j \in DOMAIN F[i]
    <3>1. i \in DOMAIN F /\ G[i][j] = F[i][j]
      BY <2>1, <1>2
    <3>2. /\ F[i][j].row = i - 1
          /\ ~CoveredBefore(F, i, j, F[i][j].row, F[i][j].column)
          /\ \A column \in 0..(F[i][j].column - 1) :
               CoveredBefore(F, i, j, F[i][j].row, column)
      BY <2>1, <3>1 DEF Packed
    <3> QED
      BY <2>1, <3>1, <3>2, <1>3
  <2>2. CASE i = n + 1 /\ j = m + 1
    <3>1. G[i][j] = cell /\ cell.row = i - 1
      BY <2>2, <1>1
    <3> QED
      BY <2>2, <3>1, <1>3
  <2> QED
    BY <2>1, <2>2, <1>2
<1> QED
  BY <1>4 DEF Packed

LEMMA OneMoreReaches ==
  ASSUME NEW F, NEW G, NEW n, NEW m, NEW cell \in Boxes, OneMore(F, G, n, m, cell),
         NEW width, Reaches(F, width),
         F \in Grids
  PROVE  Reaches(G, IF cell.endColumn > width THEN cell.endColumn ELSE width)
PROOF
<1> DEFINE w == IF cell.endColumn > width THEN cell.endColumn ELSE width
<1>1. G[n + 1][m + 1] = cell /\ cell.endColumn \in Nat /\ width \in Nat
  BY DEF OneMore, Boxes, Reaches
<1>2. /\ \A k \in DOMAIN F : \A l \in DOMAIN F[k] : l \in DOMAIN G[k] /\ G[k][l] = F[k][l]
      /\ \A k \in DOMAIN G : \A l \in DOMAIN G[k] :
           l \in DOMAIN F[k] \/ (k = n + 1 /\ l = m + 1)
      /\ n + 1 \in DOMAIN G /\ m + 1 \in DOMAIN G[n + 1] /\ DOMAIN F = DOMAIN G
  BY OneMoreCells
<1>3. w \in Nat /\ width <= w /\ cell.endColumn <= w /\ (w = width \/ w = cell.endColumn)
  BY <1>1
<1> HIDE DEF w
<1>4. ASSUME NEW k \in DOMAIN G, NEW l \in DOMAIN G[k] PROVE G[k][l].endColumn <= w
  <2>1. CASE l \in DOMAIN F[k]
    <3>1. G[k][l] = F[k][l] /\ F[k][l].endColumn <= width
      BY <2>1, <1>2 DEF Reaches
    <3>2. F[k][l] \in Boxes
      <4>1. F[k] \in Seq(Boxes)
        BY <1>2 DEF Grids
      <4> QED
        BY <4>1, <2>1
    <3>3. F[k][l].endColumn \in Nat
      BY <3>2 DEF Boxes
    <3> QED
      BY <3>1, <3>3, <1>1, <1>3
  <2>2. CASE k = n + 1 /\ l = m + 1
    BY <2>2, <1>1, <1>3
  <2> QED
    BY <2>1, <2>2, <1>2
<1>5. w = 0 \/ \E k \in DOMAIN G : \E l \in DOMAIN G[k] : G[k][l].endColumn = w
  <2>1. CASE w = cell.endColumn
    BY <2>1, <1>1, <1>2
  <2>2. CASE w = width
    BY <2>2, <1>2 DEF Reaches
  <2> QED
    BY <2>1, <2>2, <1>3
<1>6. Reaches(G, w)
  BY <1>3, <1>4, <1>5 DEF Reaches
<1> QED
  BY <1>6 DEF w


-----------------------------------------------------------------------------
(* What spans claim.                                                       *)

LEMMA AtLeastOneEach ==
  ASSUME NEW a \in Nat, NEW b \in Nat, a >= 1, b >= 1
  PROVE  a * b \in Nat /\ a * b >= 1
PROOF
<1>1. a * b >= a
  <2>1. a * b = a + a * (b - 1) /\ b - 1 \in Nat
    OBVIOUS
  <2>2. a * (b - 1) \in Nat
    BY <2>1
  <2> QED
    BY <2>1, <2>2
<1> QED
  BY <1>1

LEMMA ExtraIsNat ==
  ASSUME NEW cell \in Boxes
  PROVE  ExtraSlots(cell) \in Nat
PROOF
<1> DEFINE a == cell.endRow - cell.row
           b == cell.endColumn - cell.column
<1>1. a \in Nat /\ b \in Nat /\ a >= 1 /\ b >= 1
  BY DEF Boxes
<1>2. ExtraSlots(cell) = a * b - 1
  BY DEF ExtraSlots
<1> HIDE DEF a, b
<1>3. a * b \in Nat /\ a * b >= 1
  BY <1>1, AtLeastOneEach
<1> QED
  BY <1>2, <1>3

LEMMA NumberAppended ==
  ASSUME NEW h \in Seq(Nat), NEW v \in Nat
  PROVE  /\ Append(h, v) \in [1..(Len(h) + 1) -> Nat] /\ Append(h, v)[Len(h) + 1] = v
         /\ \A i \in 1..Len(h) : Append(h, v)[i] = h[i]
PROOF
<1> DEFINE g == Append(h, v)
<1>1. g \in Seq(Nat) /\ Len(g) = Len(h) + 1
  OBVIOUS
<1>2. g[Len(h) + 1] = v /\ \A i \in 1..Len(h) : g[i] = h[i]
  OBVIOUS
<1> HIDE DEF g
<1>3. g \in [1..Len(g) -> Nat]
  BY <1>1
<1> QED
  BY <1>1, <1>2, <1>3 DEF g

LEMMA RowSlotsAppend ==
  ASSUME NEW cells \in Seq(Boxes), NEW cell \in Boxes
  PROVE  /\ RowSlots(cells) \in Nat
         /\ RowSlots(Append(cells, cell)) = RowSlots(cells) + ExtraSlots(cell)
PROOF
<1> DEFINE h == [j \in DOMAIN cells |-> ExtraSlots(cells[j])]
           longer == Append(cells, cell)
           g == [j \in DOMAIN longer |-> ExtraSlots(longer[j])]
           m == Len(cells)
<1>1. /\ m \in Nat /\ DOMAIN cells = 1..m /\ \A j \in 1..m : cells[j] \in Boxes
      /\ DOMAIN longer = 1..(m + 1) /\ longer[m + 1] = cell
      /\ \A j \in 1..m : longer[j] = cells[j]
  OBVIOUS
<1> HIDE DEF longer, m
<1>2. ExtraSlots(cell) \in Nat /\ \A j \in 1..m : ExtraSlots(cells[j]) \in Nat
  BY <1>1, ExtraIsNat
<1>3. h \in Seq(Nat) /\ Len(h) = m /\ \A j \in 1..m : h[j] = ExtraSlots(cells[j])
  <2>1. h \in [1..m -> Nat]
    BY <1>1, <1>2
  <2> QED
    BY <2>1, <1>1
<1>4. g = Append(h, ExtraSlots(cell))
  <2> DEFINE f == Append(h, ExtraSlots(cell))
  <2>1. /\ f \in [1..(m + 1) -> Nat] /\ f[m + 1] = ExtraSlots(cell)
        /\ \A j \in 1..m : f[j] = h[j]
    <3> HIDE DEF h
    <3> QED
      BY <1>2, <1>3, NumberAppended
  <2>2. /\ g[m + 1] = ExtraSlots(cell) /\ DOMAIN g = 1..(m + 1)
        /\ \A j \in 1..m : j \in 1..(m + 1) /\ g[j] = ExtraSlots(cells[j])
    BY <1>1
  <2>3. g = [j \in 1..(m + 1) |-> g[j]]
    BY <1>1
  <2> HIDE DEF f, g, h
  <2>4. \A j \in 1..(m + 1) : g[j] = f[j]
    <3>1. \A j \in 1..(m + 1) : j = m + 1 \/ j \in 1..m
      BY <1>1
    <3> QED
      BY <3>1, <2>1, <2>2, <1>3
  <2> QED
    BY <2>1, <2>3, <2>4 DEF f
<1>5. RowSlots(cells) = SumFunction(h) /\ RowSlots(longer) = SumFunction(g)
  BY DEF RowSlots
<1> HIDE DEF g, h
<1> QED
  BY <1>2, <1>3, <1>4, <1>5, SumAppend DEF longer

LEMMA SlotsOfAppend ==
  ASSUME NEW grid \in Grids, NEW row \in Seq(Boxes), RowSlots(row) \in Nat,
         \A i \in DOMAIN grid : RowSlots(grid[i]) \in Nat
  PROVE  /\ SlotsOf(grid) \in Nat
         /\ SlotsOf(Append(grid, row)) = SlotsOf(grid) + RowSlots(row)
PROOF
<1> DEFINE h == [i \in DOMAIN grid |-> RowSlots(grid[i])]
           longer == Append(grid, row)
           g == [i \in DOMAIN longer |-> RowSlots(longer[i])]
           n == Len(grid)
<1>1. /\ n \in Nat /\ DOMAIN grid = 1..n
      /\ DOMAIN longer = 1..(n + 1) /\ longer[n + 1] = row
      /\ \A i \in 1..n : longer[i] = grid[i]
  BY DEF Grids
<1> HIDE DEF longer, n
<1>2. h \in Seq(Nat) /\ Len(h) = n /\ \A i \in 1..n : h[i] = RowSlots(grid[i])
  <2>1. h \in [1..n -> Nat]
    BY <1>1
  <2> QED
    BY <2>1, <1>1
<1>3. g = Append(h, RowSlots(row))
  <2> DEFINE f == Append(h, RowSlots(row))
  <2>1. /\ f \in [1..(n + 1) -> Nat] /\ f[n + 1] = RowSlots(row)
        /\ \A i \in 1..n : f[i] = h[i]
    <3> HIDE DEF h
    <3>1. RowSlots(row) \in Nat
      OBVIOUS
    <3> QED
      BY <3>1, <1>2, NumberAppended
  <2>2. /\ g[n + 1] = RowSlots(row) /\ DOMAIN g = 1..(n + 1)
        /\ \A i \in 1..n : i \in 1..(n + 1) /\ g[i] = RowSlots(grid[i])
    BY <1>1
  <2>3. g = [i \in 1..(n + 1) |-> g[i]]
    BY <1>1
  <2> HIDE DEF f, g, h
  <2>4. \A i \in 1..(n + 1) : g[i] = f[i]
    <3>1. \A i \in 1..(n + 1) : i = n + 1 \/ i \in 1..n
      BY <1>1
    <3> QED
      BY <3>1, <2>1, <2>2, <1>2
  <2> QED
    BY <2>1, <2>3, <2>4 DEF f
<1>4. SlotsOf(grid) = SumFunction(h) /\ SlotsOf(longer) = SumFunction(g)
  BY DEF SlotsOf, RowSlots
<1> HIDE DEF g, h
<1> QED
  BY <1>2, <1>3, <1>4, SumAppend DEF longer

LEMMA RowSlotsIsNat ==
  ASSUME NEW cells \in Seq(Boxes)
  PROVE  RowSlots(cells) \in Nat
PROOF
<1> DEFINE h == [j \in DOMAIN cells |-> ExtraSlots(cells[j])]
<1>1. \A j \in DOMAIN cells : ExtraSlots(cells[j]) \in Nat
  BY ExtraIsNat
<1>2. h \in Seq(Nat)
  <2>1. DOMAIN cells = 1..Len(cells) /\ Len(cells) \in Nat
    OBVIOUS
  <2>2. h \in [1..Len(cells) -> Nat]
    BY <1>1, <2>1
  <2> QED
    BY <2>1, <2>2
<1>3. RowSlots(cells) = SumFunction(h)
  BY DEF RowSlots
<1> HIDE DEF h
<1> QED
  BY <1>2, <1>3, SumAppend

LEMMA NoSlots == RowSlots(<<>>) = 0 /\ SlotsOf(<<>>) = 0
PROOF
<1>1. [j \in DOMAIN <<>> |-> ExtraSlots(<<>>[j])] = <<>>
  OBVIOUS
<1>2. [i \in DOMAIN <<>> |-> SumFunction([j \in DOMAIN <<>>[i] |-> ExtraSlots(<<>>[i][j])])]
        = <<>>
  OBVIOUS
<1> QED
  BY <1>1, <1>2, SumEmpty DEF RowSlots, SlotsOf

(* A row more claims what its own cells claim.                             *)
LEMMA SlotsOfRow ==
  ASSUME NEW grid \in Grids, NEW row \in Seq(Boxes)
  PROVE  /\ SlotsOf(grid) \in Nat /\ RowSlots(row) \in Nat
         /\ SlotsOf(Append(grid, row)) = SlotsOf(grid) + RowSlots(row)
PROOF
<1>1. \A i \in DOMAIN grid : grid[i] \in Seq(Boxes)
  BY DEF Grids
<1>2. RowSlots(row) \in Nat /\ \A i \in DOMAIN grid : RowSlots(grid[i]) \in Nat
  BY <1>1, RowSlotsIsNat
<1> QED
  BY <1>2, SlotsOfAppend


-----------------------------------------------------------------------------
(* One row.  Of the slots from this row on, exactly those that a cell      *)
(* covers are kept as occupied: pruning forgets none that matters, and     *)
(* Packed alone would not be inductive without it.                         *)

Met(grid, occupied, from) ==
  \A row, column \in Nat :
    row >= from => (<<row, column>> \in occupied <=> Covers(grid, row, column))

RowType(grid, laid) ==
  /\ laid \in [row : Nat, column : Nat, occupied : SUBSET (Nat \X Nat), width : Nat,
               left : Nat, cells : Seq(Boxes)]
  /\ laid.row = Len(grid) /\ IsFiniteSet(laid.occupied)

RowInv(grid, laid, total) ==
  /\ RowType(grid, laid)
  /\ Met(Append(grid, laid.cells), laid.occupied, Len(grid))
  /\ \A column \in 0..(laid.column - 1) : <<laid.row, column>> \in laid.occupied
  /\ Packed(Append(grid, laid.cells)) /\ Reaches(Append(grid, laid.cells), laid.width)
  /\ SlotsOf(grid) + RowSlots(laid.cells) + laid.left = total

LEMMA LayCellStep ==
  ASSUME NEW grid \in Grids, NEW laid, NEW total \in Nat, RowInv(grid, laid, total),
         NEW wire \in WireCell
  PROVE  RowInv(grid, LayCell(laid, wire), total)
PROOF
<1> DEFINE n == Len(grid)
           start == FirstFree(laid.occupied, laid.row, laid.column)
           extra == SpanSlots(AtLeastOne(wire.rows), AtLeastOne(wire.cols))
           affordable == extra <= laid.left
           rows == IF affordable THEN AtLeastOne(wire.rows) ELSE 1
           cols == IF affordable THEN AtLeastOne(wire.cols) ELSE 1
           endRow == laid.row + rows
           endCol == start + cols
           claim == IF affordable THEN extra ELSE 0
           slots == (laid.row..(endRow - 1)) \X (start..(endCol - 1))
           width == IF endCol > laid.width THEN endCol ELSE laid.width
           cell == [row |-> laid.row, column |-> start, endRow |-> endRow,
                    endColumn |-> endCol]
           next == LayCell(laid, wire)
           F == Append(grid, laid.cells)
           G == Append(grid, Append(laid.cells, cell))
           m == Len(laid.cells)
<1>1. /\ laid \in [row : Nat, column : Nat, occupied : SUBSET (Nat \X Nat), width : Nat,
                   left : Nat, cells : Seq(Boxes)]
      /\ laid.row = n /\ IsFiniteSet(laid.occupied)
  BY DEF RowInv, RowType
<1>2. /\ n \in Nat /\ laid.row \in Nat /\ laid.column \in Nat /\ laid.width \in Nat
      /\ laid.left \in Nat /\ laid.cells \in Seq(Boxes)
      /\ laid.occupied \subseteq Nat \X Nat
  BY <1>1
<1>3. /\ start \in Nat /\ start >= laid.column /\ <<laid.row, start>> \notin laid.occupied
      /\ \A c \in laid.column..(start - 1) : <<laid.row, c>> \in laid.occupied
  BY <1>1, <1>2, FirstFreeIs
<1>4. /\ AtLeastOne(wire.rows) \in Nat /\ AtLeastOne(wire.rows) >= 1
      /\ AtLeastOne(wire.cols) \in Nat /\ AtLeastOne(wire.cols) >= 1
  BY DEF WireCell, AtLeastOne
<1>5. extra = AtLeastOne(wire.rows) * AtLeastOne(wire.cols) - 1 /\ extra \in Nat
  <2>1. extra = AtLeastOne(wire.rows) * AtLeastOne(wire.cols) - 1
    BY DEF SpanSlots
  <2>2. /\ AtLeastOne(wire.rows) * AtLeastOne(wire.cols) \in Nat
        /\ AtLeastOne(wire.rows) * AtLeastOne(wire.cols) >= 1
    BY <1>4, AtLeastOneEach
  <2> HIDE DEF extra
  <2> QED
    BY <2>1, <2>2
<1>6. /\ rows \in Nat /\ rows >= 1 /\ cols \in Nat /\ cols >= 1
      /\ claim = rows * cols - 1 /\ claim \in Nat /\ claim <= laid.left
  <2>1. CASE affordable
    <3>1. rows = AtLeastOne(wire.rows) /\ cols = AtLeastOne(wire.cols) /\ claim = extra
      BY <2>1
    <3> HIDE DEF extra, rows, cols, claim
    <3> QED
      BY <2>1, <3>1, <1>4, <1>5
  <2>2. CASE ~affordable
    <3>1. rows = 1 /\ cols = 1 /\ claim = 0
      BY <2>2
    <3> HIDE DEF rows, cols, claim
    <3> QED
      BY <3>1, <1>2
  <2> QED
    BY <2>1, <2>2
<1>7. /\ next.row = laid.row /\ next.column = endCol
      /\ next.occupied = laid.occupied \cup slots /\ next.width = width
      /\ next.left = laid.left - claim /\ next.cells = Append(laid.cells, cell)
      /\ DOMAIN next = {"row", "column", "occupied", "width", "left", "cells"}
      /\ next = [next EXCEPT !.row = next.row]
  <2>1. laid.left - claim = IF affordable THEN laid.left - extra ELSE laid.left
    BY <1>2
  <2>2. next = [laid EXCEPT
          !.occupied = laid.occupied \cup slots, !.column = endCol,
          !.left = IF affordable THEN laid.left - extra ELSE laid.left,
          !.width = width, !.cells = Append(laid.cells, cell)]
    BY <1>1 DEF LayCell
  <2> HIDE DEF next, cell, slots, endCol, claim, affordable, extra, width
  <2> QED
    BY <2>1, <2>2, <1>1
<1> HIDE DEF next, n, start, extra, affordable, rows, cols, claim, m
<1>8. /\ endRow \in Nat /\ laid.row < endRow /\ endCol \in Nat /\ start < endCol
      /\ endRow - laid.row = rows /\ endCol - start = cols
  BY <1>2, <1>3, <1>6
<1> HIDE DEF endRow, endCol
<1>9. cell \in Boxes /\ cell.row = laid.row /\ cell.column = start
      /\ cell.endRow = endRow /\ cell.endColumn = endCol
  BY <1>2, <1>3, <1>8 DEF Boxes
<1>10. ExtraSlots(cell) = claim
  BY <1>6, <1>8, <1>9 DEF ExtraSlots
<1>11. width \in Nat
  BY <1>2, <1>8
<1> HIDE DEF cell
<1>12. RowType(grid, next)
  <2>1. slots \in SUBSET (Nat \X Nat) /\ IsFiniteSet(slots)
    <3>1. laid.row..(endRow - 1) \subseteq Nat /\ start..(endCol - 1) \subseteq Nat
      BY <1>2, <1>3, <1>8
    <3>2. IsFiniteSet(laid.row..(endRow - 1)) /\ IsFiniteSet(start..(endCol - 1))
      <4>1. laid.row \in Int /\ endRow - 1 \in Int /\ start \in Int /\ endCol - 1 \in Int
        BY <1>2, <1>3, <1>8
      <4> QED
        BY <4>1, FS_Interval
    <3> QED
      BY <3>1, <3>2, FS_Product
  <2> HIDE DEF slots, width
  <2>2. next.occupied \in SUBSET (Nat \X Nat) /\ IsFiniteSet(next.occupied)
    <3>1. IsFiniteSet(laid.occupied \cup slots)
      BY <2>1, <1>1, FS_Union
    <3> QED
      BY <3>1, <2>1, <1>2, <1>7
  <2>3. Append(laid.cells, cell) \in Seq(Boxes)
    BY <1>2, <1>9
  <2>4. laid.left - claim \in Nat
    BY <1>2, <1>6
  <2> QED
    BY <2>2, <2>3, <2>4, <1>1, <1>2, <1>7, <1>8, <1>11 DEF RowType, n
<1>13. OneMore(F, G, n, m, cell)
  BY <1>2, <1>9, OneMoreIs DEF n, m
<1>14. F \in Grids /\ Append(grid, next.cells) = G
  BY <1>2, <1>7 DEF Grids
<1> HIDE DEF F, G
<1>15. \A row, column : Covers(G, row, column) <=>
         Covers(F, row, column) \/ CoversSlot(cell, row, column)
  BY <1>13, OneMoreCovers
<1>16. \A row, column \in Nat : CoversSlot(cell, row, column) <=> <<row, column>> \in slots
  <2> SUFFICES ASSUME NEW row \in Nat, NEW column \in Nat
               PROVE  CoversSlot(cell, row, column) <=> <<row, column>> \in slots
    OBVIOUS
  <2>1. /\ row \in laid.row..(endRow - 1) <=> laid.row <= row /\ row < endRow
        /\ column \in start..(endCol - 1) <=> start <= column /\ column < endCol
    BY <1>2, <1>3, <1>8
  <2> QED
    BY <2>1, <1>9 DEF CoversSlot
<1>17. Met(F, laid.occupied, n)
  BY DEF RowInv, F, n
<1>18. Met(G, next.occupied, n)
  BY <1>7, <1>15, <1>16, <1>17 DEF Met
<1>19. \A column \in 0..(next.column - 1) : <<next.row, column>> \in next.occupied
  <2> SUFFICES ASSUME NEW column \in 0..(endCol - 1)
               PROVE  <<laid.row, column>> \in laid.occupied \cup slots
    BY <1>7
  <2>1. \A c \in 0..(laid.column - 1) : <<laid.row, c>> \in laid.occupied
    BY DEF RowInv
  <2>2. CASE column < laid.column
    BY <2>1, <2>2, <1>2, <1>8
  <2>3. CASE column >= laid.column /\ column < start
    BY <2>3, <1>2, <1>3, <1>8
  <2>4. CASE column >= start
    BY <2>4, <1>2, <1>3, <1>8
  <2> QED
    BY <2>2, <2>3, <2>4, <1>2, <1>3, <1>8
<1>20. Packed(G)
  <2>1. Packed(F)
    BY DEF RowInv, F
  <2>2. ~Covers(F, n, cell.column)
    BY <1>1, <1>2, <1>3, <1>9, <1>17 DEF Met
  <2>3. \A column \in 0..(cell.column - 1) : Covers(F, n, column)
    <3> SUFFICES ASSUME NEW column \in 0..(start - 1) PROVE Covers(F, n, column)
      BY <1>9
    <3>1. column \in Nat
      BY <1>3
    <3>2. \A c \in 0..(laid.column - 1) : <<laid.row, c>> \in laid.occupied
      BY DEF RowInv
    <3>3. <<laid.row, column>> \in laid.occupied
      <4>1. CASE column < laid.column
        BY <3>1, <3>2, <4>1, <1>2
      <4>2. CASE column >= laid.column
        BY <3>1, <4>2, <1>2, <1>3
      <4> QED
        BY <4>1, <4>2, <3>1, <1>2
    <3> QED
      BY <3>1, <3>3, <1>1, <1>2, <1>17 DEF Met
  <2>4. cell.row = n
    BY <1>1, <1>9
  <2> QED
    BY <2>1, <2>2, <2>3, <2>4, <1>9, <1>13, OneMorePacked
<1>21. Reaches(G, next.width)
  <2>1. Reaches(F, laid.width)
    BY DEF RowInv, F
  <2>2. Reaches(G, IF cell.endColumn > laid.width THEN cell.endColumn ELSE laid.width)
    BY <2>1, <1>9, <1>13, <1>14, OneMoreReaches
  <2> QED
    BY <2>2, <1>7, <1>9
<1>22. SlotsOf(grid) + RowSlots(next.cells) + next.left = total
  <2>1. SlotsOf(grid) + RowSlots(laid.cells) + laid.left = total
    BY DEF RowInv
  <2>2. SlotsOf(grid) \in Nat /\ RowSlots(laid.cells) \in Nat
    BY <1>2, SlotsOfRow
  <2>3. RowSlots(next.cells) = RowSlots(laid.cells) + claim
    BY <1>2, <1>7, <1>9, <1>10, RowSlotsAppend
  <2>4. claim \in Nat /\ laid.left \in Nat /\ next.left = laid.left - claim
    BY <1>2, <1>6, <1>7
  <2> QED
    BY <2>1, <2>2, <2>3, <2>4
<1> HIDE DEF width, slots
<1> QED
  BY <1>12, <1>14, <1>18, <1>19, <1>20, <1>21, <1>22 DEF RowInv, next, n


(* A grid as it stands between two rows.                                   *)
LaidInv(laid) ==
  /\ laid \in [grid : Grids, occupied : SUBSET (Nat \X Nat), width : Nat]
  /\ IsFiniteSet(laid.occupied)
  /\ Met(laid.grid, laid.occupied, Len(laid.grid))
  /\ Packed(laid.grid) /\ Reaches(laid.grid, laid.width)

(* An empty row changes nothing that is said of the cells.                 *)
LEMMA EmptyRowKeeps ==
  ASSUME NEW grid \in Grids, NEW width, Packed(grid), Reaches(grid, width)
  PROVE  /\ \A row, column : Covers(Append(grid, <<>>), row, column)
                               <=> Covers(grid, row, column)
         /\ Packed(Append(grid, <<>>)) /\ Reaches(Append(grid, <<>>), width)
PROOF
<1> DEFINE F == Append(grid, <<>>)
           n == Len(grid)
<1>1. /\ n \in Nat /\ DOMAIN grid = 1..n /\ DOMAIN F = 1..(n + 1) /\ F[n + 1] = <<>>
      /\ \A k \in 1..n : F[k] = grid[k]
  BY DEF Grids
<1>2. /\ \A k \in 1..(n + 1) : k \in 1..n \/ k = n + 1
      /\ \A k \in 1..n : k \in 1..(n + 1) /\ \A i \in 1..k : i \in 1..n
  BY <1>1
<1> HIDE DEF F, n
<1>3. /\ \A k \in DOMAIN grid : k \in DOMAIN F /\ F[k] = grid[k]
      /\ \A k \in DOMAIN F : \A l \in DOMAIN F[k] : k \in DOMAIN grid
  <2>1. ASSUME NEW k \in DOMAIN F, NEW l \in DOMAIN F[k] PROVE k \in DOMAIN grid
    <3>1. k # n + 1
      <4>1. DOMAIN <<>> = {}
        OBVIOUS
      <4> QED
        BY <2>1, <4>1, <1>1
    <3> QED
      BY <3>1, <1>1, <1>2
  <2> QED
    BY <2>1, <1>1, <1>2
<1>4. \A row, column : Covers(F, row, column) <=> Covers(grid, row, column)
  BY <1>3 DEF Covers
<1>5. \A i \in DOMAIN grid : \A j, row, column :
        CoveredBefore(F, i, j, row, column) <=> CoveredBefore(grid, i, j, row, column)
  <2> SUFFICES ASSUME NEW i \in DOMAIN grid, NEW j, NEW row, NEW column
               PROVE  CoveredBefore(F, i, j, row, column)
                        <=> CoveredBefore(grid, i, j, row, column)
    OBVIOUS
  <2>1. \A k \in 1..i : F[k] = grid[k]
    BY <1>1, <1>2
  <2> QED
    BY <2>1 DEF CoveredBefore
<1>6. Packed(F)
  <2> SUFFICES ASSUME NEW i \in DOMAIN F, NEW j \in DOMAIN F[i]
               PROVE  /\ F[i][j].row = i - 1
                      /\ ~CoveredBefore(F, i, j, F[i][j].row, F[i][j].column)
                      /\ \A column \in 0..(F[i][j].column - 1) :
                           CoveredBefore(F, i, j, F[i][j].row, column)
    BY DEF Packed
  <2>1. i \in DOMAIN grid /\ F[i] = grid[i]
    BY <1>3
  <2>2. /\ grid[i][j].row = i - 1
        /\ ~CoveredBefore(grid, i, j, grid[i][j].row, grid[i][j].column)
        /\ \A column \in 0..(grid[i][j].column - 1) :
             CoveredBefore(grid, i, j, grid[i][j].row, column)
    BY <2>1 DEF Packed
  <2> QED
    BY <2>1, <2>2, <1>5
<1>7. Reaches(F, width)
  BY <1>3 DEF Reaches
<1> QED
  BY <1>4, <1>6, <1>7 DEF F

LEMMA RowStarts ==
  ASSUME NEW laid, LaidInv(laid), NEW left \in Nat
  PROVE  RowInv(laid.grid,
                [row |-> Len(laid.grid), column |-> 0,
                 occupied |-> Pruned(laid.occupied, Len(laid.grid)),
                 width |-> laid.width, left |-> left, cells |-> <<>>],
                SlotsOf(laid.grid) + left)
PROOF
<1> DEFINE grid == laid.grid
           n == Len(grid)
           pruned == Pruned(laid.occupied, n)
           base == [row |-> n, column |-> 0, occupied |-> pruned,
                    width |-> laid.width, left |-> left, cells |-> <<>>]
           F == Append(grid, <<>>)
<1>1. /\ grid \in Grids /\ n \in Nat /\ laid.occupied \subseteq Nat \X Nat
      /\ laid.width \in Nat /\ IsFiniteSet(laid.occupied)
      /\ Met(grid, laid.occupied, n) /\ Packed(grid) /\ Reaches(grid, laid.width)
  BY DEF LaidInv, Grids
<1>2. base.row = n /\ base.column = 0 /\ base.occupied = pruned
      /\ base.width = laid.width /\ base.left = left /\ base.cells = <<>>
  OBVIOUS
<1>3. pruned \subseteq laid.occupied
      /\ \A row, column \in Nat : <<row, column>> \in pruned
                                    <=> <<row, column>> \in laid.occupied /\ row >= n
  BY DEF Pruned
<1>4. IsFiniteSet(pruned)
  BY <1>1, <1>3, FS_Subset
<1>5. pruned \in SUBSET (Nat \X Nat) /\ <<>> \in Seq(Boxes)
  BY <1>1, <1>3
<1> HIDE DEF n, pruned, grid
<1>6. RowType(grid, base)
  BY <1>1, <1>4, <1>5 DEF RowType, n
<1> HIDE DEF base
<1>7. /\ \A row, column : Covers(F, row, column) <=> Covers(grid, row, column)
      /\ Packed(F) /\ Reaches(F, laid.width)
  BY <1>1, EmptyRowKeeps
<1> HIDE DEF F
<1>8. Met(F, pruned, n)
  BY <1>1, <1>3, <1>7 DEF Met
<1>9. \A column \in 0..(base.column - 1) : <<base.row, column>> \in base.occupied
  BY <1>2
<1>10. SlotsOf(grid) + RowSlots(base.cells) + base.left = SlotsOf(grid) + left
  <2>1. SlotsOf(grid) \in Nat
    BY <1>1, <1>5, SlotsOfRow
  <2> QED
    BY <2>1, <1>2, NoSlots
<1>11. RowInv(grid, base, SlotsOf(grid) + left)
  BY <1>2, <1>6, <1>7, <1>8, <1>9, <1>10 DEF RowInv, F, n
<1> QED
  BY <1>11 DEF base, grid, n, pruned

(* A row, from the first of its cells to the last.                         *)
LEMMA LayRowStep ==
  ASSUME NEW laid, LaidInv(laid), NEW left \in Nat, NEW cells \in Seq(WireCell)
  PROVE  RowInv(laid.grid,
                LayRow(laid.grid, laid.occupied, laid.width, left, cells),
                SlotsOf(laid.grid) + left)
PROOF
<1> DEFINE grid == laid.grid
           total == SlotsOf(grid) + left
           n == Len(cells)
<1>1. PICK path :
        /\ path[0] = [row |-> Len(grid), column |-> 0,
                      occupied |-> Pruned(laid.occupied, Len(grid)),
                      width |-> laid.width, left |-> left, cells |-> <<>>]
        /\ \A i \in 1..Len(cells) : path[i] = LayCell(path[i - 1], cells[i])
        /\ path[Len(cells)] = LayRow(grid, laid.occupied, laid.width, left, cells)
  BY LayRowPath
<1>2. grid \in Grids /\ total \in Nat
  <2>1. grid \in Grids /\ <<>> \in Seq(Boxes)
    BY DEF LaidInv
  <2>2. SlotsOf(grid) \in Nat
    BY <2>1, SlotsOfRow
  <2> QED
    BY <2>1, <2>2
<1>3. RowInv(grid, path[0], total)
  BY <1>1, RowStarts
<1>4. n \in Nat /\ \A i \in 1..n : cells[i] \in WireCell
  OBVIOUS
<1> HIDE DEF grid, total, n
<1> DEFINE S == {i \in 0..n : RowInv(grid, path[i], total)}
<1>5. 0 \in S
  BY <1>3, <1>4
<1>6. ASSUME NEW k \in 0..(n - 1), k \in S PROVE k + 1 \in S
  <2>1. k + 1 \in 1..n /\ (k + 1) - 1 = k /\ k + 1 \in 0..n
    BY <1>4
  <2>2. path[k + 1] = LayCell(path[k], cells[k + 1])
    BY <2>1, <1>1 DEF n
  <2>3. RowInv(grid, LayCell(path[k], cells[k + 1]), total)
    BY <2>1, <1>2, <1>4, <1>6, LayCellStep
  <2> QED
    BY <2>1, <2>2, <2>3
<1>7. n \in S
  <2> HIDE DEF S
  <2>1. 0..n \subseteq S
    BY <1>4, <1>5, <1>6, InductionUpTo
  <2> QED
    BY <2>1, <1>4
<1> QED
  BY <1>1, <1>7 DEF grid, total, n

(* The grid with the row laid, and what is left of the budget.             *)
LEMMA LaidRow ==
  ASSUME NEW laid, LaidInv(laid), NEW left \in Nat, NEW cells \in Seq(WireCell)
  PROVE  LET row == LayRow(laid.grid, laid.occupied, laid.width, left, cells)
             next == [grid |-> Append(laid.grid, row.cells),
                      occupied |-> row.occupied, width |-> row.width]
         IN /\ LaidInv(next) /\ row.left \in Nat
            /\ SlotsOf(next.grid) + row.left = SlotsOf(laid.grid) + left
PROOF
<1> DEFINE grid == laid.grid
           row == LayRow(laid.grid, laid.occupied, laid.width, left, cells)
           G == Append(grid, row.cells)
           next == [grid |-> G, occupied |-> row.occupied, width |-> row.width]
<1>1. RowInv(grid, row, SlotsOf(grid) + left)
  BY LayRowStep
<1>2. grid \in Grids
  BY DEF LaidInv
<1> HIDE DEF row, grid
<1>3. /\ row.occupied \in SUBSET (Nat \X Nat) /\ row.width \in Nat /\ row.left \in Nat
      /\ row.cells \in Seq(Boxes) /\ IsFiniteSet(row.occupied)
  BY <1>1 DEF RowInv, RowType
<1>4. G \in Grids /\ Len(G) = Len(grid) + 1 /\ Len(grid) \in Nat
  BY <1>2, <1>3 DEF Grids
<1>5. Met(G, row.occupied, Len(grid)) /\ Packed(G) /\ Reaches(G, row.width)
  BY <1>1 DEF RowInv
<1>6. SlotsOf(G) + row.left = SlotsOf(grid) + left
  <2>1. SlotsOf(grid) + RowSlots(row.cells) + row.left = SlotsOf(grid) + left
    BY <1>1 DEF RowInv
  <2>2. SlotsOf(G) = SlotsOf(grid) + RowSlots(row.cells)
    BY <1>2, <1>3, SlotsOfRow
  <2> QED
    BY <2>1, <2>2
<1> HIDE DEF G
<1>7. Met(G, row.occupied, Len(G))
  <2>1. \A r \in Nat : r >= Len(G) => r >= Len(grid)
    BY <1>4
  <2> QED
    BY <2>1, <1>5 DEF Met
<1>8. next.grid = G /\ next.occupied = row.occupied /\ next.width = row.width
      /\ next \in [grid : Grids, occupied : SUBSET (Nat \X Nat), width : Nat]
  BY <1>3, <1>4
<1> HIDE DEF next
<1>9. LaidInv(next)
  BY <1>3, <1>5, <1>7, <1>8 DEF LaidInv
<1> QED
  BY <1>3, <1>6, <1>8, <1>9 DEF row, next, grid, G


LEMMA ReachesFits ==
  ASSUME NEW grid \in Grids, NEW width, Reaches(grid, width)
  PROVE  Fits(grid, width)
PROOF
<1> DEFINE ends == {0} \cup UNION {{grid[i][j].endColumn : j \in DOMAIN grid[i]}
                                   : i \in DOMAIN grid}
<1>1. \A x : x \in ends <=>
        x = 0 \/ \E i \in DOMAIN grid : \E j \in DOMAIN grid[i] : x = grid[i][j].endColumn
  OBVIOUS
<1>2. ends \subseteq Nat
  <2>1. ASSUME NEW i \in DOMAIN grid, NEW j \in DOMAIN grid[i]
        PROVE  grid[i][j].endColumn \in Nat
    <3>1. grid[i] \in Seq(Boxes)
      BY DEF Grids
    <3>2. grid[i][j] \in Boxes
      BY <3>1
    <3> QED
      BY <3>2 DEF Boxes
  <2> QED
    BY <2>1
<1> HIDE DEF ends
<1>3. width \in Nat /\ width \in ends /\ \A y \in ends : width >= y
  BY <1>1 DEF Reaches
<1>4. Max(ends) \in ends /\ \A y \in ends : Max(ends) >= y
  BY <1>3 DEF Max
<1>5. Max(ends) = width
  <2>1. Max(ends) \in Nat /\ Max(ends) >= width /\ width >= Max(ends)
    BY <1>2, <1>3, <1>4
  <2> QED
    BY <2>1, <1>3
<1> QED
  BY <1>5 DEF Fits, ends

-----------------------------------------------------------------------------
(* The fold's tables.                                                      *)

Laids == [grid : Grids, occupied : SUBSET (Nat \X Nat), width : Nat]
DataSlots(laids) == SumFunction([i \in DOMAIN laids |-> SlotsOf(laids[i].grid)])

(* Every grid, finished or open, is laid; and what is left of the budget   *)
(* is what no span has claimed.                                            *)
TablesInv ==
  /\ data \in Seq(Laids) /\ \A i \in DOMAIN data : LaidInv(data[i])
  /\ LaidInv(laying)
  /\ Len(data) = Len(doc["tables"])
  /\ spanSlots \in Nat
  /\ SlotsOf(laying.grid) + DataSlots(data) + spanSlots <= MaxSpanSlots

LEMMA NothingLaidInv == LaidInv(NothingLaid) /\ SlotsOf(NothingLaid.grid) = 0
PROOF
<1>1. NothingLaid.grid = <<>> /\ NothingLaid.occupied = {} /\ NothingLaid.width = 0
  BY DEF NothingLaid
<1>2. <<>> \in Grids /\ DOMAIN <<>> = {}
  BY DEF Grids
<1>3. NothingLaid \in [grid : Grids, occupied : SUBSET (Nat \X Nat), width : Nat]
  BY <1>2 DEF NothingLaid
<1>4. Met(<<>>, {}, Len(<<>>)) /\ Packed(<<>>) /\ Reaches(<<>>, 0)
  BY <1>2 DEF Met, Covers, Packed, Reaches
<1>5. IsFiniteSet({})
  BY FS_EmptySet
<1> QED
  BY <1>1, <1>3, <1>4, <1>5, NoSlots DEF LaidInv

LEMMA DataAppended ==
  ASSUME NEW laids \in Seq(Laids), \A i \in DOMAIN laids : LaidInv(laids[i]),
         NEW laid, LaidInv(laid)
  PROVE  /\ Append(laids, laid) \in Seq(Laids) /\ Len(Append(laids, laid)) = Len(laids) + 1
         /\ \A i \in DOMAIN Append(laids, laid) : LaidInv(Append(laids, laid)[i])
         /\ DataSlots(laids) \in Nat /\ SlotsOf(laid.grid) \in Nat
         /\ DataSlots(Append(laids, laid)) = DataSlots(laids) + SlotsOf(laid.grid)
PROOF
<1> DEFINE h == [i \in DOMAIN laids |-> SlotsOf(laids[i].grid)]
           longer == Append(laids, laid)
           g == [i \in DOMAIN longer |-> SlotsOf(longer[i].grid)]
           n == Len(laids)
           slots == SlotsOf(laid.grid)
<1>1. laid \in Laids
  BY DEF LaidInv, Laids
<1>2. /\ n \in Nat /\ DOMAIN laids = 1..n /\ longer \in Seq(Laids) /\ Len(longer) = n + 1
      /\ DOMAIN longer = 1..(n + 1) /\ longer[n + 1] = laid
      /\ \A i \in 1..n : longer[i] = laids[i]
  BY <1>1
<1> HIDE DEF longer, n
<1>3. \A i \in 1..(n + 1) : i = n + 1 \/ i \in 1..n
  BY <1>2
<1>4. \A i \in DOMAIN longer : LaidInv(longer[i])
  BY <1>2, <1>3
<1>5. slots \in Nat /\ \A i \in 1..n : SlotsOf(laids[i].grid) \in Nat
  <2>1. <<>> \in Seq(Boxes)
    OBVIOUS
  <2>2. laid.grid \in Grids /\ \A i \in 1..n : laids[i].grid \in Grids
    BY <1>2 DEF LaidInv
  <2> QED
    BY <2>1, <2>2, SlotsOfRow
<1> HIDE DEF slots
<1>6. h \in Seq(Nat) /\ Len(h) = n /\ \A i \in 1..n : h[i] = SlotsOf(laids[i].grid)
  <2>1. h \in [1..n -> Nat]
    BY <1>2, <1>5
  <2> QED
    BY <2>1, <1>2
<1>7. g = Append(h, slots)
  <2> DEFINE f == Append(h, slots)
  <2>1. /\ f \in [1..(n + 1) -> Nat] /\ f[n + 1] = slots
        /\ \A i \in 1..n : f[i] = h[i]
    <3> HIDE DEF h
    <3> QED
      BY <1>5, <1>6, NumberAppended
  <2>2. /\ g[n + 1] = slots
        /\ \A i \in 1..n : i \in 1..(n + 1) /\ g[i] = SlotsOf(laids[i].grid)
    BY <1>2 DEF slots
  <2>3. g = [i \in 1..(n + 1) |-> g[i]]
    BY <1>2
  <2> HIDE DEF f, g, h
  <2>4. \A i \in 1..(n + 1) : g[i] = f[i]
    BY <1>3, <2>1, <2>2, <1>6
  <2> QED
    BY <2>1, <2>3, <2>4 DEF f
<1>8. DataSlots(laids) = SumFunction(h) /\ DataSlots(longer) = SumFunction(g)
  BY DEF DataSlots
<1> HIDE DEF g, h
<1>9. DataSlots(laids) \in Nat /\ DataSlots(longer) = DataSlots(laids) + slots
  BY <1>5, <1>6, <1>7, <1>8, SumAppend
<1> QED
  BY <1>2, <1>4, <1>5, <1>9 DEF longer, n, slots

(* How many tables a tree has, of whatever its items are.                  *)
Counts(d, k) ==
  DOMAIN d = Arenas /\ k \in Nat /\ \E S : d["tables"] \in Seq(S) /\ Len(d["tables"]) = k

LEMMA AppendCounts ==
  ASSUME NEW d, NEW k, Counts(d, k), NEW arena \in Arenas, NEW item
  PROVE  Counts([d EXCEPT ![arena] = Append(@, item)],
                IF arena = "tables" THEN k + 1 ELSE k)
PROOF
<1> DEFINE b == [d EXCEPT ![arena] = Append(@, item)]
<1>1. PICK S : d["tables"] \in Seq(S) /\ Len(d["tables"]) = k
  BY DEF Counts
<1>2. DOMAIN b = Arenas /\ k \in Nat /\ "tables" \in Arenas
  BY DEF Counts, Arenas
<1>3. CASE arena = "tables"
  <2>1. d["tables"] \in Seq(S \cup {item})
    BY <1>1
  <2>2. Append(d["tables"], item) \in Seq(S \cup {item})
        /\ Len(Append(d["tables"], item)) = k + 1
    BY <2>1, <1>1
  <2>3. b["tables"] = Append(d["tables"], item)
    BY <1>2, <1>3
  <2> HIDE DEF b
  <2>4. \E T : b["tables"] \in Seq(T) /\ Len(b["tables"]) = k + 1
    BY <2>2, <2>3
  <2>5. Counts(b, k + 1)
    BY <2>4, <1>2 DEF Counts
  <2> QED
    BY <2>5, <1>3 DEF b
<1>4. CASE arena # "tables"
  <2>1. b["tables"] = d["tables"]
    BY <1>2, <1>4
  <2> HIDE DEF b
  <2>2. Counts(b, k)
    BY <2>1, <1>1, <1>2 DEF Counts
  <2> QED
    BY <2>2, <1>4 DEF b
<1> QED
  BY <1>3, <1>4

LEMMA ChangeCounts ==
  ASSUME NEW d, NEW k, Counts(d, k), NEW arena, NEW n, NEW item
  PROVE  Counts([d EXCEPT ![arena] = [d[arena] EXCEPT ![n] = item]], k)
PROOF
<1> DEFINE list == [d[arena] EXCEPT ![n] = item]
           b == [d EXCEPT ![arena] = list]
<1>1. PICK S : d["tables"] \in Seq(S) /\ Len(d["tables"]) = k
  BY DEF Counts
<1>2. DOMAIN b = Arenas /\ k \in Nat /\ "tables" \in Arenas
  BY DEF Counts, Arenas
<1>3. CASE arena = "tables"
  <2>1. d["tables"] \in Seq(S \cup {item})
    BY <1>1
  <2>2. list \in Seq(S \cup {item}) /\ Len(list) = k
    <3> DEFINE t == d["tables"]
    <3>1. t \in [1..k -> S \cup {item}] /\ k \in Nat
      BY <2>1, <1>1, <1>2
    <3>2. list = [t EXCEPT ![n] = item]
      BY <1>3
    <3> HIDE DEF t
    <3>3. [t EXCEPT ![n] = item] \in [1..k -> S \cup {item}]
      BY <3>1
    <3> HIDE DEF list
    <3>4. list \in [1..k -> S \cup {item}]
      BY <3>2, <3>3
    <3> QED
      BY <3>1, <3>4
  <2>3. b["tables"] = list
    BY <1>2, <1>3
  <2> HIDE DEF b, list
  <2>4. Counts(b, k)
    BY <2>2, <2>3, <1>2 DEF Counts
  <2> QED
    BY <2>4 DEF b, list
<1>4. CASE arena # "tables"
  <2>1. b["tables"] = d["tables"]
    BY <1>2, <1>4
  <2> HIDE DEF b
  <2>2. Counts(b, k)
    BY <2>1, <1>1, <1>2 DEF Counts
  <2> QED
    BY <2>2 DEF b
<1> QED
  BY <1>3, <1>4

LEMMA AddCounts ==
  ASSUME NEW d, NEW k, Counts(d, k), NEW arena \in Arenas, NEW item
  PROVE  Counts(AddItem(d, arena, item), IF arena = "tables" THEN k + 1 ELSE k)
PROOF
<1> DEFINE b == [d EXCEPT ![arena] = Append(@, item)]
           l == IF arena = "tables" THEN k + 1 ELSE k
           a == item.parent[1]
           n == item.parent[2]
           new == [b[a][n] EXCEPT !.children = Append(@, item.self)]
<1>1. Counts(b, l)
  BY AppendCounts
<1> HIDE DEF b, l
<1>2. CASE CanHold(b, item.parent)
  <2>1. AddItem(d, arena, item) = [b EXCEPT ![a] = [b[a] EXCEPT ![n] = new]]
    BY <1>2 DEF AddItem, LinkChild, b
  <2> HIDE DEF new, a, n
  <2>2. Counts([b EXCEPT ![a] = [b[a] EXCEPT ![n] = new]], l)
    BY <1>1, ChangeCounts
  <2>3. Counts(AddItem(d, arena, item), l)
    BY <2>1, <2>2
  <2> QED
    BY <2>3 DEF l
<1>3. CASE ~CanHold(b, item.parent)
  <2>1. AddItem(d, arena, item) = b
    BY <1>3 DEF AddItem, LinkChild, b
  <2> QED
    BY <2>1, <1>1 DEF l
<1> QED
  BY <1>2, <1>3


-----------------------------------------------------------------------------
(* The steps.                                                              *)

(* A step that touches no table.                                           *)
Elsewhere ==
  UNCHANGED <<data, laying, spanSlots>> /\ Counts(doc', Len(doc["tables"]))

LEMMA CountsLen ==
  ASSUME NEW d, NEW k, Counts(d, k)
  PROVE  Len(d["tables"]) = k
  BY DEF Counts

LEMMA DocCounts ==
  ASSUME FoldInv
  PROVE  Counts(doc, Len(doc["tables"])) /\ Len(doc["tables"]) \in Nat
PROOF
<1>1. doc \in [Arenas -> Seq(Item)] /\ "tables" \in Arenas
  BY InvFacts DEF Arenas
<1>2. doc["tables"] \in Seq(Item)
  BY <1>1
<1>3. Len(doc["tables"]) \in Nat
  BY <1>2
<1> QED
  BY <1>1, <1>2, <1>3 DEF Counts

LEMMA ElsewhereStep ==
  ASSUME TablesInv, Elsewhere
  PROVE  TablesInv'
PROOF
<1>1. data' = data /\ laying' = laying /\ spanSlots' = spanSlots
      /\ Len(doc'["tables"]) = Len(doc["tables"])
  BY CountsLen DEF Elsewhere
<1> QED
  BY <1>1 DEF TablesInv

LEMMA OneAdded ==
  ASSUME FoldInv, NEW arena \in Arenas \ {"tables"}, NEW item, doc' = AddItem(doc, arena, item)
  PROVE  Counts(doc', Len(doc["tables"]))
PROOF
<1>1. Counts(AddItem(doc, arena, item),
             IF arena = "tables" THEN Len(doc["tables"]) + 1 ELSE Len(doc["tables"]))
  BY DocCounts, AddCounts
<1> QED
  BY <1>1

LEMMA TwoAdded ==
  ASSUME FoldInv, NEW first \in Arenas \ {"tables"}, NEW item,
         NEW second \in Arenas \ {"tables"}, NEW other,
         doc' = AddItem(AddItem(doc, first, item), second, other)
  PROVE  Counts(doc', Len(doc["tables"]))
PROOF
<1> DEFINE d == AddItem(doc, first, item)
<1>1. Counts(d, IF first = "tables" THEN Len(doc["tables"]) + 1 ELSE Len(doc["tables"]))
  BY DocCounts, AddCounts
<1> HIDE DEF d
<1>2. Counts(d, Len(doc["tables"]))
  BY <1>1
<1>3. Counts(AddItem(d, second, other),
             IF second = "tables" THEN Len(doc["tables"]) + 1 ELSE Len(doc["tables"]))
  BY <1>2, AddCounts
<1> QED
  BY <1>3 DEF d

LEMMA PlainArenas ==
  /\ "texts" \in Arenas \ {"tables"} /\ "groups" \in Arenas \ {"tables"}
  /\ "pictures" \in Arenas \ {"tables"} /\ "key_values" \in Arenas \ {"tables"}
  /\ "tables" \in Arenas
  BY DEF Arenas

LEMMA PushTextElsewhere ==
  ASSUME FoldInv, NEW e, PushText(e)
  PROVE  Elsewhere
PROOF
<1>1. ASSUME PushHeading(e) PROVE Counts(doc', Len(doc["tables"]))
  <2>1. \E item : doc' = AddItem(doc, "texts", item)
    BY <1>1 DEF PushHeading
  <2> QED
    BY <2>1, PlainArenas, OneAdded
<1>2. ASSUME PushChrome(e) PROVE Counts(doc', Len(doc["tables"]))
  <2>1. \E item : doc' = AddItem(doc, "texts", item)
    BY <1>2 DEF PushChrome
  <2> QED
    BY <2>1, PlainArenas, OneAdded
<1>3. ASSUME PushListItem(e) PROVE Counts(doc', Len(doc["tables"]))
  <2>1. \/ \E item : doc' = AddItem(doc, "texts", item)
        \/ \E group, item : doc' = AddItem(AddItem(doc, "groups", group), "texts", item)
    BY <1>3 DEF PushListItem
  <2>2. CASE \E item : doc' = AddItem(doc, "texts", item)
    BY <2>2, PlainArenas, OneAdded
  <2>3. CASE \E group, item : doc' = AddItem(AddItem(doc, "groups", group), "texts", item)
    BY <2>3, PlainArenas, TwoAdded
  <2> QED
    BY <2>1, <2>2, <2>3
<1>4. ASSUME PushParagraph(e) PROVE Counts(doc', Len(doc["tables"]))
  <2>1. \E item : doc' = AddItem(doc, "texts", item)
    BY <1>4 DEF PushParagraph
  <2> QED
    BY <2>1, PlainArenas, OneAdded
<1>5. UNCHANGED <<data, laying, spanSlots>>
  BY DEF PushText
<1> QED
  BY <1>1, <1>2, <1>3, <1>4, <1>5 DEF PushText, Elsewhere

LEMMA IgnoredElsewhere ==
  ASSUME FoldInv, Ignored
  PROVE  Elsewhere
PROOF
<1>1. doc' = doc
  BY DEF Ignored
<1> QED
  BY <1>1, DocCounts DEF Ignored, Elsewhere

LEMMA OtherEventsElsewhere ==
  ASSUME FoldInv, NEW e,
         OnText(e) \/ OnNote(e) \/ OnCitation(e) \/ OnPicture(e) \/ OnIsland(e) \/ OnOther(e)
  PROVE  Elsewhere
PROOF
<1>1. CASE OnText(e) \/ OnNote(e) \/ OnCitation(e) \/ OnOther(e)
  BY <1>1, PushTextElsewhere, IgnoredElsewhere DEF OnText, OnNote, OnCitation, OnOther
<1>2. CASE OnPicture(e)
  <2>1. \E item : doc' = AddItem(doc, "pictures", item)
    BY <1>2 DEF OnPicture
  <2>2. Counts(doc', Len(doc["tables"]))
    BY <2>1, PlainArenas, OneAdded
  <2> QED
    BY <2>2, <1>2 DEF OnPicture, Elsewhere
<1>3. CASE OnIsland(e)
  <2>1. \E group, item : doc' = AddItem(AddItem(doc, "groups", group), "texts", item)
    BY <1>3 DEF OnIsland
  <2>2. Counts(doc', Len(doc["tables"]))
    BY <2>1, PlainArenas, TwoAdded
  <2> QED
    BY <2>2, <1>3 DEF OnIsland, Elsewhere
<1> QED
  BY <1>1, <1>2, <1>3

(* The finished tables, the one put away now included.                     *)
LEMMA WithDataInv ==
  ASSUME FoldInv, TablesInv
  PROVE  /\ WithData \in Seq(Laids) /\ \A i \in DOMAIN WithData : LaidInv(WithData[i])
         /\ Counts(WithTable(doc), Len(WithData))
         /\ DataSlots(WithData) \in Nat /\ DataSlots(WithData) + spanSlots <= MaxSpanSlots
PROOF
<1>1. /\ data \in Seq(Laids) /\ \A i \in DOMAIN data : LaidInv(data[i])
      /\ LaidInv(laying) /\ Len(data) = Len(doc["tables"]) /\ spanSlots \in Nat
      /\ SlotsOf(laying.grid) + DataSlots(data) + spanSlots <= MaxSpanSlots
  BY DEF TablesInv
<1>2. /\ Append(data, laying) \in Seq(Laids)
      /\ Len(Append(data, laying)) = Len(data) + 1
      /\ \A i \in DOMAIN Append(data, laying) : LaidInv(Append(data, laying)[i])
      /\ DataSlots(data) \in Nat /\ SlotsOf(laying.grid) \in Nat
      /\ DataSlots(Append(data, laying)) = DataSlots(data) + SlotsOf(laying.grid)
  BY <1>1, DataAppended
<1>3. MaxSpanSlots \in Nat
  BY DocumentFoldAssumption
<1>4. CASE table.open
  <2>1. WithData = Append(data, laying)
        /\ WithTable(doc) = AddItem(doc, "tables", TableItem(doc, table))
    BY <1>4 DEF WithData, WithTable
  <2>2. Counts(AddItem(doc, "tables", TableItem(doc, table)),
               IF "tables" = "tables" THEN Len(doc["tables"]) + 1 ELSE Len(doc["tables"]))
    BY DocCounts, AddCounts, PlainArenas
  <2>3. Counts(WithTable(doc), Len(WithData))
    BY <2>1, <2>2, <1>1, <1>2
  <2>4. DataSlots(WithData) \in Nat /\ DataSlots(WithData) + spanSlots <= MaxSpanSlots
    BY <2>1, <1>1, <1>2, <1>3
  <2> QED
    BY <2>1, <2>3, <2>4, <1>2
<1>5. CASE ~table.open
  <2>1. WithData = data /\ WithTable(doc) = doc
    BY <1>5 DEF WithData, WithTable
  <2>2. Counts(WithTable(doc), Len(WithData))
    BY <2>1, <1>1, DocCounts
  <2>3. DataSlots(WithData) \in Nat /\ DataSlots(WithData) + spanSlots <= MaxSpanSlots
    BY <2>1, <1>1, <1>2, <1>3
  <2> QED
    BY <2>1, <2>2, <2>3, <1>1
<1> QED
  BY <1>4, <1>5

LEMMA PutAway ==
  ASSUME FoldInv, TablesInv, data' = WithData, laying' = NothingLaid, spanSlots' = spanSlots,
         Counts(doc', Len(WithData))
  PROVE  TablesInv'
PROOF
<1>1. /\ WithData \in Seq(Laids) /\ \A i \in DOMAIN WithData : LaidInv(WithData[i])
      /\ DataSlots(WithData) \in Nat /\ DataSlots(WithData) + spanSlots <= MaxSpanSlots
  BY WithDataInv
<1>2. LaidInv(NothingLaid) /\ SlotsOf(NothingLaid.grid) = 0
  BY NothingLaidInv
<1>3. Len(doc'["tables"]) = Len(WithData)
  BY CountsLen
<1>4. spanSlots \in Nat
  BY DEF TablesInv
<1>5. SlotsOf(laying'.grid) + DataSlots(data') + spanSlots' <= MaxSpanSlots
  BY <1>1, <1>2, <1>4
<1> HIDE DEF WithData
<1>6. data' \in Seq(Laids) /\ (\A i \in DOMAIN data' : LaidInv(data'[i])) /\ LaidInv(laying')
      /\ Len(data') = Len(doc'["tables"]) /\ spanSlots' \in Nat
  BY <1>1, <1>2, <1>3, <1>4
<1> QED
  BY <1>5, <1>6 DEF TablesInv

LEMMA TableStartTables ==
  ASSUME FoldInv, TablesInv, NEW e, OnTableStart(e)
  PROVE  TablesInv'
PROOF
<1>1. data' = WithData /\ laying' = NothingLaid /\ spanSlots' = spanSlots
      /\ (doc' = WithTable(doc) \/ \E item : doc' = AddItem(WithTable(doc), "texts", item))
  BY DEF OnTableStart
<1>2. Counts(WithTable(doc), Len(WithData))
  BY WithDataInv
<1>3. \A item : Counts(AddItem(WithTable(doc), "texts", item), Len(WithData))
  <2> SUFFICES ASSUME NEW item
               PROVE  Counts(AddItem(WithTable(doc), "texts", item), Len(WithData))
    OBVIOUS
  <2>1. Counts(AddItem(WithTable(doc), "texts", item),
               IF "texts" = "tables" THEN Len(WithData) + 1 ELSE Len(WithData))
    BY <1>2, AddCounts, PlainArenas
  <2> QED
    BY <2>1
<1>4. Counts(doc', Len(WithData))
  BY <1>1, <1>2, <1>3
<1> QED
  BY <1>1, <1>4, PutAway

LEMMA TableEndTables ==
  ASSUME FoldInv, TablesInv, NEW e, OnTableEnd(e)
  PROVE  TablesInv'
PROOF
<1>1. CASE Theirs(e)
  <2>1. data' = WithData /\ laying' = NothingLaid /\ spanSlots' = spanSlots
        /\ doc' = WithTable(doc)
    BY <1>1 DEF OnTableEnd
  <2>2. Counts(doc', Len(WithData))
    BY <2>1, WithDataInv
  <2> QED
    BY <2>1, <2>2, PutAway
<1>2. CASE ~Theirs(e)
  BY <1>2, IgnoredElsewhere, ElsewhereStep DEF OnTableEnd
<1> QED
  BY <1>1, <1>2

LEMMA TableRowTables ==
  ASSUME FoldInv, TablesInv, NEW e \in Events, OnTableRow(e)
  PROVE  TablesInv'
PROOF
<1>1. CASE Theirs(e)
  <2> DEFINE row == LayRow(laying.grid, laying.occupied, laying.width, spanSlots, e.cells)
             next == [grid |-> Append(laying.grid, row.cells),
                      occupied |-> row.occupied, width |-> row.width]
  <2>1. laying' = next /\ spanSlots' = row.left /\ data' = data /\ doc' = doc
    BY <1>1 DEF OnTableRow
  <2>2. e.cells \in Seq(WireCell)
    <3>1. e.event = "table_row"
      BY DEF OnTableRow
    <3>2. e \in RowEvents
      BY <3>1 DEF Events, TextEvents, CitationEvents, PictureEvents, StartEvents,
                  EndEvents, FactEvents, NoteEvents, IslandEvents, OtherEvents
    <3> QED
      BY <3>2 DEF RowEvents
  <2>3. LaidInv(laying) /\ spanSlots \in Nat
    BY DEF TablesInv
  <2>4. LaidInv(next) /\ row.left \in Nat
        /\ SlotsOf(next.grid) + row.left = SlotsOf(laying.grid) + spanSlots
    BY <2>2, <2>3, LaidRow
  <2> HIDE DEF next, row
  <2>5. /\ data \in Seq(Laids) /\ \A i \in DOMAIN data : LaidInv(data[i])
        /\ Len(data) = Len(doc["tables"])
        /\ SlotsOf(laying.grid) + DataSlots(data) + spanSlots <= MaxSpanSlots
    BY DEF TablesInv
  <2>6. SlotsOf(next.grid) + DataSlots(data) + row.left <= MaxSpanSlots
    <3>1. DataSlots(data) \in Nat /\ SlotsOf(laying.grid) \in Nat /\ SlotsOf(next.grid) \in Nat
      BY <2>3, <2>4, <2>5, DataAppended
    <3>2. MaxSpanSlots \in Nat
      BY DocumentFoldAssumption
    <3> QED
      BY <2>3, <2>4, <2>5, <3>1, <3>2
  <2> QED
    BY <2>1, <2>4, <2>5, <2>6 DEF TablesInv
<1>2. CASE ~Theirs(e)
  BY <1>2, IgnoredElsewhere, ElsewhereStep DEF OnTableRow
<1> QED
  BY <1>1, <1>2

LEMMA FactTables ==
  ASSUME FoldInv, TablesInv, NEW e, OnFact(e)
  PROVE  TablesInv'
PROOF
<1> DEFINE parent == CurrentParent(headings)
           new == NewItem(NextRef(doc, "tables"), parent, "table")
           opened == IF factsTable = 0 THEN AddItem(doc, "tables", new) ELSE doc
           index == IF factsTable = 0 THEN new.self[2] ELSE factsTable
           pairs == NewItem(NextRef(doc, "key_values"), parent, "key_values")
           graphed == AddItem(opened, "key_values", pairs)
           pointed == [graphed["tables"][index] EXCEPT !.points = @ \cup {pairs.self}]
           k == IF factsTable = 0 THEN Len(doc["tables"]) + 1 ELSE Len(doc["tables"])
           known == IF factsTable = 0 THEN Append(data, NothingLaid) ELSE data
<1>1. /\ doc' = IF e.dimensions
                THEN [graphed EXCEPT !["tables"] =
                        [graphed["tables"] EXCEPT ![index] = pointed]]
                ELSE opened
      /\ data' = known /\ laying' = laying /\ spanSlots' = spanSlots
  BY DEF OnFact
<1> HIDE DEF pairs, pointed, index, new
<1>2. Counts(opened, k)
  <2>1. Counts(AddItem(doc, "tables", new),
               IF "tables" = "tables" THEN Len(doc["tables"]) + 1 ELSE Len(doc["tables"]))
    BY DocCounts, AddCounts, PlainArenas
  <2> QED
    BY <2>1, DocCounts
<1>3. /\ data \in Seq(Laids) /\ \A i \in DOMAIN data : LaidInv(data[i])
      /\ LaidInv(laying) /\ Len(data) = Len(doc["tables"]) /\ spanSlots \in Nat
      /\ SlotsOf(laying.grid) + DataSlots(data) + spanSlots <= MaxSpanSlots
  BY DEF TablesInv
<1>4. /\ known \in Seq(Laids) /\ \A i \in DOMAIN known : LaidInv(known[i])
      /\ Len(known) = k /\ DataSlots(known) = DataSlots(data)
  <2>1. CASE factsTable = 0
    <3>1. /\ Append(data, NothingLaid) \in Seq(Laids)
          /\ Len(Append(data, NothingLaid)) = Len(data) + 1
          /\ \A i \in DOMAIN Append(data, NothingLaid) : LaidInv(Append(data, NothingLaid)[i])
          /\ DataSlots(data) \in Nat
          /\ DataSlots(Append(data, NothingLaid))
               = DataSlots(data) + SlotsOf(NothingLaid.grid)
      BY <1>3, NothingLaidInv, DataAppended
    <3>2. known = Append(data, NothingLaid) /\ k = Len(doc["tables"]) + 1
      BY <2>1
    <3> HIDE DEF known, k
    <3> QED
      BY <3>1, <3>2, <1>3, NothingLaidInv
  <2>2. CASE factsTable # 0
    BY <2>2, <1>3
  <2> QED
    BY <2>1, <2>2
<1> HIDE DEF opened, k, known
<1>5. Counts(graphed, k)
  <2>1. Counts(graphed, IF "key_values" = "tables" THEN k + 1 ELSE k)
    BY <1>2, AddCounts, PlainArenas
  <2> QED
    BY <2>1
<1> HIDE DEF graphed
<1>6. Counts([graphed EXCEPT !["tables"] = [graphed["tables"] EXCEPT ![index] = pointed]], k)
  BY <1>5, ChangeCounts
<1>7. Counts(doc', k)
  BY <1>1, <1>2, <1>6
<1>8. Len(doc'["tables"]) = k
  BY <1>7, CountsLen
<1> QED
  BY <1>1, <1>3, <1>4, <1>8 DEF TablesInv

LEMMA NoData == <<>> \in Seq(Laids) /\ Len(<<>>) = 0 /\ DOMAIN <<>> = {}
                /\ DataSlots(<<>>) = 0
PROOF
<1>1. [i \in DOMAIN <<>> |-> SlotsOf(<<>>[i].grid)] = <<>>
  OBVIOUS
<1> QED
  BY <1>1, SumEmpty DEF DataSlots

LEMMA EmptyDocCounts == Len(EmptyDoc["tables"]) = 0
  BY DEF EmptyDoc, Arenas

LEMMA TakeTables ==
  ASSUME FoldInv, TablesInv, Take
  PROVE  TablesInv'
PROOF
<1>1. doc' = EmptyDoc /\ data' = <<>> /\ laying' = NothingLaid /\ spanSlots' = spanSlots
  BY DEF Take
<1>2. spanSlots \in Nat /\ spanSlots <= MaxSpanSlots
  BY WithDataInv, DocumentFoldAssumption DEF TablesInv
<1>3. LaidInv(laying') /\ SlotsOf(laying'.grid) = 0
  BY <1>1, NothingLaidInv
<1>4. SlotsOf(laying'.grid) + DataSlots(data') + spanSlots' <= MaxSpanSlots
  BY <1>1, <1>2, <1>3, NoData
<1>5. data' \in Seq(Laids) /\ Len(data') = Len(doc'["tables"])
      /\ (\A i \in DOMAIN data' : LaidInv(data'[i])) /\ spanSlots' \in Nat
  BY <1>1, <1>2, NoData, EmptyDocCounts
<1> QED
  BY <1>3, <1>4, <1>5 DEF TablesInv

LEMMA InitTables == Init => TablesInv
PROOF
<1> SUFFICES ASSUME Init PROVE TablesInv
  OBVIOUS
<1>1. doc = EmptyDoc /\ data = <<>> /\ laying = NothingLaid /\ spanSlots = MaxSpanSlots
  BY DEF Init
<1>2. spanSlots \in Nat /\ MaxSpanSlots \in Nat
  BY <1>1, DocumentFoldAssumption
<1>3. LaidInv(laying) /\ SlotsOf(laying.grid) = 0
  BY <1>1, NothingLaidInv
<1>4. SlotsOf(laying.grid) + DataSlots(data) + spanSlots <= MaxSpanSlots
  BY <1>1, <1>2, <1>3, NoData
<1>5. data \in Seq(Laids) /\ Len(data) = Len(doc["tables"])
      /\ (\A i \in DOMAIN data : LaidInv(data[i]))
  BY <1>1, NoData, EmptyDocCounts
<1> QED
  BY <1>2, <1>3, <1>4, <1>5 DEF TablesInv

LEMMA TablesStep ==
  ASSUME FoldInv, TablesInv, [Next]_foldVars
  PROVE  TablesInv'
PROOF
<1>1. ASSUME NEW e \in vocabulary, Consume(e) PROVE TablesInv'
  <2>1. e \in Events
    BY DEF FoldInv
  <2>2. CASE OnText(e) \/ OnNote(e) \/ OnCitation(e) \/ OnPicture(e) \/ OnIsland(e)
             \/ OnOther(e)
    BY <2>2, OtherEventsElsewhere, ElsewhereStep
  <2>3. CASE OnTableStart(e)
    BY <2>3, TableStartTables
  <2>4. CASE OnTableRow(e)
    BY <2>1, <2>4, TableRowTables
  <2>5. CASE OnTableEnd(e)
    BY <2>5, TableEndTables
  <2>6. CASE OnFact(e)
    BY <2>6, FactTables
  <2> QED
    BY <1>1, <2>2, <2>3, <2>4, <2>5, <2>6 DEF Consume
<1>2. ASSUME UNCHANGED foldVars PROVE TablesInv'
  BY <1>2 DEF foldVars, TablesInv
<1> QED
  BY <1>1, <1>2, TakeTables DEF Next

(* Whatever rows come, for however many tables and Documents, the grids    *)
(* are laid and the budget is kept (mod.rs:1103-1159).                     *)
THEOREM TablesCorrect == Spec => []TablesInv
<1>1. (FoldInv /\ TablesInv) /\ [Next]_foldVars => (FoldInv /\ TablesInv)'
  BY ConsumeStep, TakeStep, StutterStep, TablesStep DEF Next
<1> QED
  BY <1>1, InitInv, InitTables, PTL DEF Spec


(* No cell starts in a slot of an earlier one and no free slot is skipped, *)
(* in any table of any number of rows, and the width is where the cells    *)
(* end: the slots forgotten on the way are never missed (mod.rs:1110-1120).*)
THEOREM GridsPackedCorrect == Spec => []GridsPacked
<1>1. TablesInv => GridsPacked
  <2> SUFFICES ASSUME TablesInv, NEW laid \in Laid
               PROVE  Packed(laid.grid) /\ Fits(laid.grid, laid.width)
    BY DEF GridsPacked
  <2>1. LaidInv(laid)
    BY DEF TablesInv, Laid, ToSet
  <2>2. laid.grid \in Grids
    BY <2>1 DEF LaidInv
  <2> QED
    BY <2>1, <2>2, ReachesFits DEF LaidInv
<1> QED
  BY <1>1, TablesCorrect, PTL

(* What all spans of a Document claim is within the one budget of the      *)
(* fold, however its rows and tables share it (mod.rs:76-84, 1123).        *)
THEOREM SpansWithinBudgetCorrect == Spec => []SpansWithinBudget
<1>1. TablesInv => SpansWithinBudget
  BY DEF TablesInv, SpansWithinBudget, DataSlots
<1> QED
  BY <1>1, TablesCorrect, PTL

(* Arenas, stacks, names, grids and the budget keep to their ranges, and   *)
(* each table has its data (mod.rs:121-178, 1077-1092).                    *)
THEOREM FoldTypes == Spec => []TypeOK
<1>1. FoldInv /\ TablesInv /\ TreeType => TypeOK
  <2> SUFFICES ASSUME FoldInv, TablesInv, TreeType PROVE TypeOK
    OBVIOUS
  <2>1. laying.occupied \subseteq Nat \X Nat /\ laying.width \in Nat
    BY DEF TablesInv, LaidInv
  <2>2. spanSlots \in 0..MaxSpanSlots
    <3>1. spanSlots \in Nat /\ spanSlots <= MaxSpanSlots
      BY WithDataInv, DocumentFoldAssumption DEF TablesInv
    <3> QED
      BY <3>1, DocumentFoldAssumption
  <2> QED
    BY <2>1, <2>2 DEF TypeOK, TablesInv
<1> QED
  BY <1>1, InvCorrect, TablesCorrect, TreeTypeCorrect, PTL

=============================================================================
