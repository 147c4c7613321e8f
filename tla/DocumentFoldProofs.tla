------------------------- MODULE DocumentFoldProofs -------------------------
(***************************************************************************)
(* The merge contract of the fold, for every vocabulary and every number   *)
(* of events: at every moment, and in every Document taken, positions and  *)
(* references agree and every reference resolves.                          *)
(***************************************************************************)
EXTENDS DocumentFold, TLAPS

(* What can have children is found, and stays; what a stack holds of it.   *)
HoldsAll(d, open) == \A i \in DOMAIN open : CanHold(d, open[i].ref)

Grown(d, e) ==
  /\ \A ref \in Refs : Resolves(d, ref) => Resolves(e, ref)
  /\ \A ref \in Refs : CanHold(d, ref) => CanHold(e, ref)
  /\ Len(d["tables"]) <= Len(e["tables"])

SoundTree(d) == d \in [Arenas -> Seq(Item)] /\ SoundDoc(d)

(* Nothing changes but pointers and targets. *)
SameTree(d, e) ==
  \A ref \in Refs :
    /\ Resolves(e, ref) <=> Resolves(d, ref)
    /\ Resolves(d, ref) => /\ At(e, ref).children = At(d, ref).children
                          /\ At(e, ref).from = At(d, ref).from

(* An item that is about to be added at the end of an arena. *)
Addable(d, arena, item) ==
  /\ arena \in Arenas /\ item \in Item
  /\ item.self = NextRef(d, arena) /\ item.children = <<>>
  /\ CanHold(d, item.parent)
  /\ \A target \in item.points : Resolves(d, target)

LEMMA RefsAreRefs == Body \in Refs /\ Furniture \in Refs /\ NoRef \notin Refs
  BY DEF Body, Furniture, NoRef, Refs, Arenas, RootArenas

LEMMA ItemsAreItems ==
  ASSUME NEW d, d \in [Arenas -> Seq(Item)], NEW ref \in Refs, Resolves(d, ref)
  PROVE  At(d, ref) \in Item
<1>1. ref[1] \in Arenas /\ ref[2] \in DOMAIN d[ref[1]]
  BY DEF Resolves
<1>2. d[ref[1]] \in Seq(Item)
  BY <1>1
<1>3. \A i \in DOMAIN d[ref[1]] : d[ref[1]][i] \in Item
  BY <1>2
<1> QED
  BY <1>1, <1>3 DEF At

(* An item appended without its parent's half of the link: everything that *)
(* was there is as before.                                                 *)
LEMMA AppendKeeps ==
  ASSUME NEW d, d \in [Arenas -> Seq(Item)], NEW arena \in Arenas, NEW item \in Item
  PROVE  LET e == [d EXCEPT ![arena] = Append(@, item)] IN
         /\ e \in [Arenas -> Seq(Item)]
         /\ \A ref \in Refs : Resolves(d, ref) =>
              Resolves(e, ref) /\ At(e, ref) = At(d, ref)
         /\ \A ref \in Refs : CanHold(d, ref) => CanHold(e, ref)
         /\ \A ref \in Refs : Resolves(e, ref) =>
              Resolves(d, ref) \/ ref = NextRef(d, arena)
         /\ Resolves(e, NextRef(d, arena)) /\ At(e, NextRef(d, arena)) = item
         /\ NextRef(d, arena) \in Refs /\ ~Resolves(d, NextRef(d, arena))
         /\ Len(d["tables"]) <= Len(e["tables"])
PROOF
<1> DEFINE e == [d EXCEPT ![arena] = Append(@, item)]
<1>1. /\ d[arena] \in Seq(Item) /\ Append(d[arena], item) \in Seq(Item)
      /\ Len(Append(d[arena], item)) = Len(d[arena]) + 1
      /\ Append(d[arena], item)[Len(d[arena]) + 1] = item
      /\ \A i \in 1..Len(d[arena]) : Append(d[arena], item)[i] = d[arena][i]
  OBVIOUS
<1>2. e \in [Arenas -> Seq(Item)] /\ e[arena] = Append(d[arena], item)
      /\ \A a \in Arenas : a # arena => e[a] = d[a]
  BY <1>1
<1>3. \A a \in Arenas : d[a] \in Seq(Item) /\ DOMAIN d[a] = 1..Len(d[a]) /\ Len(d[a]) \in Nat
  OBVIOUS
<1>4. \A a \in Arenas : DOMAIN e[a] = 1..Len(e[a])
  BY <1>2
<1> HIDE DEF e
<1>5. \A a \in Arenas : \A i \in DOMAIN d[a] : i \in DOMAIN e[a] /\ e[a][i] = d[a][i]
  <2> SUFFICES ASSUME NEW a \in Arenas, NEW i \in DOMAIN d[a]
               PROVE  i \in DOMAIN e[a] /\ e[a][i] = d[a][i]
    OBVIOUS
  <2>1. CASE a = arena
    BY <2>1, <1>1, <1>2, <1>3, <1>4
  <2>2. CASE a # arena
    BY <2>2, <1>2
  <2> QED
    BY <2>1, <2>2
<1>6. \A a \in Arenas : \A i \in DOMAIN e[a] :
        i \in DOMAIN d[a] \/ (a = arena /\ i = Len(d[arena]) + 1)
  <2> SUFFICES ASSUME NEW a \in Arenas, NEW i \in DOMAIN e[a]
               PROVE  i \in DOMAIN d[a] \/ (a = arena /\ i = Len(d[arena]) + 1)
    OBVIOUS
  <2>1. CASE a = arena
    BY <2>1, <1>1, <1>2, <1>3, <1>4
  <2>2. CASE a # arena
    BY <2>2, <1>2
  <2> QED
    BY <2>1, <2>2
<1>7. \A ref \in Refs : Resolves(d, ref) =>
        Resolves(e, ref) /\ At(e, ref) = At(d, ref)
  BY <1>5 DEF Resolves, At
<1>8. \A ref \in Refs : CanHold(d, ref) => CanHold(e, ref)
  BY <1>7 DEF CanHold
<1>9. \A ref \in Refs : Resolves(e, ref) =>
        Resolves(d, ref) \/ ref = NextRef(d, arena)
  <2> SUFFICES ASSUME NEW ref \in Refs, Resolves(e, ref)
               PROVE  Resolves(d, ref) \/ ref = NextRef(d, arena)
    OBVIOUS
  <2>1. ref = <<ref[1], ref[2]>> /\ ref[1] \in Arenas
    BY DEF Refs
  <2>2. ref[2] \in DOMAIN d[ref[1]] \/ (ref[1] = arena /\ ref[2] = Len(d[arena]) + 1)
    BY <1>6 DEF Resolves
  <2> QED
    BY <2>1, <2>2 DEF Resolves, NextRef
<1>10. /\ Resolves(e, NextRef(d, arena)) /\ At(e, NextRef(d, arena)) = item
       /\ NextRef(d, arena) \in Refs /\ ~Resolves(d, NextRef(d, arena))
  <2>1. NextRef(d, arena)[1] = arena /\ NextRef(d, arena)[2] = Len(d[arena]) + 1
    BY DEF NextRef
  <2>2. NextRef(d, arena) \in Refs
    BY <1>3 DEF NextRef, Refs
  <2>3. Len(d[arena]) + 1 \in DOMAIN e[arena] /\ Len(d[arena]) + 1 \notin DOMAIN d[arena]
    BY <1>1, <1>2, <1>3, <1>4
  <2> QED
    BY <2>1, <2>2, <2>3, <1>1, <1>2 DEF Resolves, At
<1>11. Len(d["tables"]) <= Len(e["tables"])
  <2>1. "tables" \in Arenas
    BY DEF Arenas
  <2>2. Len(d["tables"]) \in Nat
    BY <2>1, <1>3
  <2>3. CASE arena = "tables"
    BY <2>2, <2>3, <1>1, <1>2
  <2>4. CASE arena # "tables"
    BY <2>1, <2>2, <2>4, <1>2
  <2> QED
    BY <2>3, <2>4
<1> QED
  BY <1>2, <1>7, <1>8, <1>9, <1>10, <1>11 DEF e

(* The other half of the link: only the parent's list of children changes. *)
LEMMA LinkKeeps ==
  ASSUME NEW d, d \in [Arenas -> Seq(Item)],
         NEW parent \in Refs, NEW child \in Refs, CanHold(d, parent)
  PROVE  LET e == LinkChild(d, parent, child) IN
         /\ e \in [Arenas -> Seq(Item)]
         /\ \A ref \in Refs : Resolves(e, ref) <=> Resolves(d, ref)
         /\ \A ref \in Refs : CanHold(d, ref) => CanHold(e, ref)
         /\ \A ref \in Refs : Resolves(d, ref) /\ ref # parent => At(e, ref) = At(d, ref)
         /\ At(e, parent).self = At(d, parent).self
         /\ At(e, parent).parent = At(d, parent).parent
         /\ At(e, parent).kind = At(d, parent).kind
         /\ At(e, parent).points = At(d, parent).points
         /\ At(e, parent).children = Append(At(d, parent).children, child)
         /\ At(e, parent) = [At(d, parent) EXCEPT !.children = Append(@, child)]
         /\ Len(e["tables"]) = Len(d["tables"])
PROOF
<1> DEFINE a == parent[1]
           n == parent[2]
           old == d[a][n]
           new == [old EXCEPT !.children = Append(@, child)]
           arena == [d[a] EXCEPT ![n] = new]
           e == [d EXCEPT ![a] = arena]
<1>1. a \in Arenas /\ n \in DOMAIN d[a] /\ parent = <<a, n>>
  BY DEF CanHold, Resolves, Refs
<1>2. d[a] \in Seq(Item) /\ old \in Item
  BY <1>1
<1>3. LinkChild(d, parent, child) = e
  BY DEF LinkChild
<1>4. old.children \in Seq(Refs) /\ Append(old.children, child) \in Seq(Refs)
  BY <1>2 DEF Item
<1>5. /\ new \in Item
      /\ new.self = old.self /\ new.parent = old.parent /\ new.kind = old.kind
      /\ new.points = old.points /\ new.children = Append(old.children, child)
  BY <1>2, <1>4 DEF Item
<1> HIDE DEF new, old
<1>6. /\ arena \in Seq(Item) /\ Len(arena) = Len(d[a]) /\ DOMAIN arena = DOMAIN d[a]
      /\ arena[n] = new /\ \A i \in DOMAIN d[a] : i # n => arena[i] = d[a][i]
  BY <1>1, <1>2, <1>5
<1> HIDE DEF arena
<1>7. /\ e \in [Arenas -> Seq(Item)] /\ e[a] = arena
      /\ \A b \in Arenas : b # a => e[b] = d[b]
  BY <1>1, <1>6
<1> HIDE DEF e
<1>8. \A b \in Arenas : DOMAIN e[b] = DOMAIN d[b] /\ Len(e[b]) = Len(d[b])
  <2> SUFFICES ASSUME NEW b \in Arenas PROVE DOMAIN e[b] = DOMAIN d[b] /\ Len(e[b]) = Len(d[b])
    OBVIOUS
  <2>1. CASE b = a
    BY <2>1, <1>6, <1>7
  <2>2. CASE b # a
    BY <2>2, <1>7
  <2> QED
    BY <2>1, <2>2
<1>9. \A ref \in Refs : Resolves(e, ref) <=> Resolves(d, ref)
  BY <1>8 DEF Resolves
<1>10. \A ref \in Refs : Resolves(d, ref) /\ ref # parent => At(e, ref) = At(d, ref)
  <2> SUFFICES ASSUME NEW ref \in Refs, Resolves(d, ref), ref # parent
               PROVE  At(e, ref) = At(d, ref)
    OBVIOUS
  <2>1. ref = <<ref[1], ref[2]>> /\ ref[1] \in Arenas /\ ref[2] \in DOMAIN d[ref[1]]
    BY DEF Refs, Resolves
  <2>2. ref[1] # a \/ ref[2] # n
    BY <2>1, <1>1
  <2>3. CASE ref[1] # a
    BY <2>1, <2>3, <1>7 DEF At
  <2>4. CASE ref[1] = a
    BY <2>1, <2>2, <2>4, <1>6, <1>7 DEF At
  <2> QED
    BY <2>3, <2>4
<1>11. At(e, parent) = new /\ At(d, parent) = old
  BY <1>6, <1>7 DEF At, old
<1>12. \A ref \in Refs : CanHold(d, ref) => CanHold(e, ref)
  <2> SUFFICES ASSUME NEW ref \in Refs, CanHold(d, ref) PROVE CanHold(e, ref)
    OBVIOUS
  <2>1. Resolves(e, ref) /\ Resolves(d, ref)
    BY <1>9 DEF CanHold
  <2>2. At(e, ref).kind = At(d, ref).kind
    BY <2>1, <1>10, <1>11, <1>5
  <2> QED
    BY <2>1, <2>2 DEF CanHold
<1>13. Len(e["tables"]) = Len(d["tables"])
  BY <1>8 DEF Arenas
<1>14. At(e, parent) = [At(d, parent) EXCEPT !.children = Append(@, child)]
  BY <1>11 DEF new
<1> QED
  BY <1>3, <1>5, <1>7, <1>9, <1>10, <1>11, <1>12, <1>13, <1>14

(* Adding an item with both halves of its link keeps a tree sound.         *)
LEMMA AddKeeps ==
  ASSUME NEW d, SoundTree(d), NEW arena, NEW item, Addable(d, arena, item)
  PROVE  LET e == AddItem(d, arena, item) IN
         /\ SoundTree(e) /\ Grown(d, e)
         /\ item.self \in Refs /\ Resolves(e, item.self)
         /\ arena = "groups" \/ (arena = "texts" /\ item.kind = "heading")
              => CanHold(e, item.self)
         /\ arena = "tables" => Len(e["tables"]) = Len(d["tables"]) + 1
PROOF
<1> DEFINE b == [d EXCEPT ![arena] = Append(@, item)]
           e == LinkChild(b, item.parent, item.self)
           self == item.self
           parent == item.parent
<1>1. /\ d \in [Arenas -> Seq(Item)] /\ arena \in Arenas /\ item \in Item
      /\ self = NextRef(d, arena) /\ item.children = <<>> /\ CanHold(d, parent)
      /\ \A target \in item.points : Resolves(d, target)
  BY DEF SoundTree, Addable
<1>2. self \in Refs /\ parent \in Refs /\ item.points \subseteq Refs
  <2>1. Resolves(d, NoRef) => FALSE
    BY DEF Resolves, NoRef, Arenas, RootArenas
  <2> QED
    BY <1>1, <2>1 DEF Item, CanHold
<1>3. /\ b \in [Arenas -> Seq(Item)]
      /\ \A ref \in Refs : Resolves(d, ref) => Resolves(b, ref) /\ At(b, ref) = At(d, ref)
      /\ \A ref \in Refs : CanHold(d, ref) => CanHold(b, ref)
      /\ \A ref \in Refs : Resolves(b, ref) => Resolves(d, ref) \/ ref = self
      /\ Resolves(b, self) /\ At(b, self) = item /\ ~Resolves(d, self)
      /\ Len(d["tables"]) <= Len(b["tables"])
  <2> HIDE DEF b
  <2>1. b = [d EXCEPT ![arena] = Append(@, item)]
    BY DEF b
  <2>2. LET f == [d EXCEPT ![arena] = Append(@, item)] IN
         /\ f \in [Arenas -> Seq(Item)]
         /\ \A ref \in Refs : Resolves(d, ref) =>
              Resolves(f, ref) /\ At(f, ref) = At(d, ref)
         /\ \A ref \in Refs : CanHold(d, ref) => CanHold(f, ref)
         /\ \A ref \in Refs : Resolves(f, ref) =>
              Resolves(d, ref) \/ ref = NextRef(d, arena)
         /\ Resolves(f, NextRef(d, arena)) /\ At(f, NextRef(d, arena)) = item
         /\ NextRef(d, arena) \in Refs /\ ~Resolves(d, NextRef(d, arena))
         /\ Len(d["tables"]) <= Len(f["tables"])
    BY ONLY <1>1, AppendKeeps
  <2> QED
    BY <1>1, <2>1, <2>2
<1>4. CanHold(b, parent)
  BY <1>1, <1>2, <1>3
<1> HIDE DEF b
<1>5. /\ e \in [Arenas -> Seq(Item)]
      /\ \A ref \in Refs : Resolves(e, ref) <=> Resolves(b, ref)
      /\ \A ref \in Refs : CanHold(b, ref) => CanHold(e, ref)
      /\ \A ref \in Refs : Resolves(b, ref) /\ ref # parent => At(e, ref) = At(b, ref)
      /\ At(e, parent).self = At(b, parent).self
      /\ At(e, parent).parent = At(b, parent).parent
      /\ At(e, parent).kind = At(b, parent).kind
      /\ At(e, parent).points = At(b, parent).points
      /\ At(e, parent).children = Append(At(b, parent).children, self)
      /\ Len(e["tables"]) = Len(b["tables"])
  BY <1>2, <1>3, <1>4, LinkKeeps
<1> HIDE DEF e
<1>6. self # parent
  BY <1>1, <1>3 DEF CanHold
<1>7. At(b, parent) = At(d, parent) /\ At(d, parent) \in Item
  <2>1. Resolves(d, parent)
    BY <1>1 DEF CanHold
  <2> QED
    BY <2>1, <1>1, <1>2, <1>3, ItemsAreItems
<1>8. /\ At(d, parent).children \in Seq(Refs)
      /\ DOMAIN Append(At(d, parent).children, self)
           = 1..(Len(At(d, parent).children) + 1)
      /\ Append(At(d, parent).children, self)[Len(At(d, parent).children) + 1] = self
      /\ \A i \in DOMAIN At(d, parent).children :
           /\ i \in DOMAIN Append(At(d, parent).children, self)
           /\ Append(At(d, parent).children, self)[i] = At(d, parent).children[i]
  BY <1>2, <1>7 DEF Item
<1>9. SoundDoc(e)
  <2> SUFFICES ASSUME NEW ref \in Refs, Resolves(e, ref) PROVE SoundItem(e, ref)
    BY DEF SoundDoc
  <2>1. Resolves(d, ref) \/ ref = self
    BY <1>3, <1>5
  <2>2. CASE ref = self
    <3>1. At(e, ref) = item
      BY <2>2, <1>2, <1>3, <1>5, <1>6
    <3>2. Resolves(e, parent) /\ At(e, parent).children[Len(At(d, parent).children) + 1] = self
          /\ Len(At(d, parent).children) + 1 \in DOMAIN At(e, parent).children
      BY <1>2, <1>4, <1>5, <1>7, <1>8 DEF CanHold
    <3>3. \A target \in item.points : Resolves(e, target)
      BY <1>1, <1>2, <1>3, <1>5
    <3> QED
      BY <2>2, <3>1, <3>2, <3>3, <1>1 DEF SoundItem
  <2>3. CASE Resolves(d, ref) /\ ref = parent
    <3>1. SoundItem(d, ref) /\ At(d, ref) = At(b, ref)
      BY <2>3, <1>7 DEF SoundTree, SoundDoc
    <3>2. /\ At(e, ref).self = ref /\ At(e, ref).parent = At(d, ref).parent
          /\ At(e, ref).points = At(d, ref).points
      BY <2>3, <3>1, <1>5 DEF SoundItem
    <3>3. \A i \in DOMAIN At(e, ref).children : Resolves(e, At(e, ref).children[i])
      <4> SUFFICES ASSUME NEW i \in DOMAIN At(e, ref).children
                   PROVE  Resolves(e, At(e, ref).children[i])
        OBVIOUS
      <4>1. i = Len(At(d, parent).children) + 1 \/ i \in DOMAIN At(d, parent).children
        BY <2>3, <1>5, <1>7, <1>8
      <4>2. CASE i = Len(At(d, parent).children) + 1
        BY <2>3, <4>2, <1>2, <1>3, <1>5, <1>7, <1>8
      <4>3. CASE i \in DOMAIN At(d, parent).children
        <5>1. At(e, ref).children[i] = At(d, parent).children[i]
              /\ At(d, parent).children[i] \in Refs
          BY <2>3, <4>3, <1>5, <1>7, <1>8
        <5>2. Resolves(d, At(d, parent).children[i])
          BY <2>3, <4>3, <3>1 DEF SoundItem
        <5> QED
          BY <5>1, <5>2, <1>3, <1>5
      <4> QED
        BY <4>1, <4>2, <4>3
    <3>4. At(d, ref).parent # NoRef =>
            /\ Resolves(e, At(d, ref).parent)
            /\ \E i \in DOMAIN At(e, At(d, ref).parent).children :
                 At(e, At(d, ref).parent).children[i] = ref
      <4> SUFFICES ASSUME At(d, ref).parent # NoRef
                   PROVE  /\ Resolves(e, At(d, ref).parent)
                          /\ \E i \in DOMAIN At(e, At(d, ref).parent).children :
                               At(e, At(d, ref).parent).children[i] = ref
        OBVIOUS
      <4> DEFINE up == At(d, ref).parent
      <4>1. up \in Refs
        BY <2>3, <1>7 DEF Item
      <4>2. Resolves(d, up) /\ \E i \in DOMAIN At(d, up).children : At(d, up).children[i] = ref
        BY <3>1 DEF SoundItem
      <4> HIDE DEF up
      <4>3. CASE up = parent
        BY <4>2, <4>3, <1>5, <1>7, <1>8, <1>3, <1>2 DEF up
      <4>4. CASE up # parent
        <5>1. At(e, up) = At(d, up)
          BY <4>1, <4>2, <4>4, <1>3, <1>5
        <5> QED
          BY <5>1, <4>1, <4>2, <1>3, <1>5 DEF up
      <4> QED
        BY <4>3, <4>4
    <3>5. \A target \in At(d, ref).points : Resolves(e, target)
      <4>1. At(d, ref).points \subseteq Refs
        BY <2>3, <1>7 DEF Item
      <4> QED
        BY <4>1, <3>1, <1>3, <1>5 DEF SoundItem
    <3> QED
      BY <3>2, <3>3, <3>4, <3>5 DEF SoundItem
  <2>4. CASE Resolves(d, ref) /\ ref # parent
    <3>1. SoundItem(d, ref) /\ At(e, ref) = At(d, ref) /\ At(d, ref) \in Item
      <4>1. SoundItem(d, ref)
        BY <2>4 DEF SoundTree, SoundDoc
      <4>2. At(e, ref) = At(d, ref)
        BY <2>4, <1>3, <1>5
      <4>3. At(d, ref) \in Item
        BY <2>4, <1>1, ItemsAreItems
      <4> QED
        BY <4>1, <4>2, <4>3
    <3>2. \A i \in DOMAIN At(e, ref).children : Resolves(e, At(e, ref).children[i])
      <4>1. \A i \in DOMAIN At(e, ref).children : At(e, ref).children[i] \in Refs
        <5>1. At(d, ref).children \in Seq(Refs)
          BY <3>1 DEF Item
        <5> QED
          BY <5>1, <3>1
      <4> QED
        BY <4>1, <3>1, <1>3, <1>5 DEF SoundItem
    <3>3. At(d, ref).parent # NoRef =>
            /\ Resolves(e, At(d, ref).parent)
            /\ \E i \in DOMAIN At(e, At(d, ref).parent).children :
                 At(e, At(d, ref).parent).children[i] = ref
      <4> SUFFICES ASSUME At(d, ref).parent # NoRef
                   PROVE  /\ Resolves(e, At(d, ref).parent)
                          /\ \E i \in DOMAIN At(e, At(d, ref).parent).children :
                               At(e, At(d, ref).parent).children[i] = ref
        OBVIOUS
      <4> DEFINE up == At(d, ref).parent
      <4>1. up \in Refs
        BY <3>1 DEF Item
      <4>2. Resolves(d, up) /\ \E i \in DOMAIN At(d, up).children : At(d, up).children[i] = ref
        BY <3>1 DEF SoundItem
      <4> HIDE DEF up
      <4>3. CASE up = parent
        BY <4>2, <4>3, <1>5, <1>7, <1>8, <1>3, <1>2 DEF up
      <4>4. CASE up # parent
        <5>1. At(e, up) = At(d, up)
          BY <4>1, <4>2, <4>4, <1>3, <1>5
        <5> QED
          BY <5>1, <4>1, <4>2, <1>3, <1>5 DEF up
      <4> QED
        BY <4>3, <4>4
    <3>4. \A target \in At(d, ref).points : Resolves(e, target)
      <4>1. At(d, ref).points \subseteq Refs
        BY <3>1 DEF Item
      <4> QED
        BY <4>1, <3>1, <1>3, <1>5 DEF SoundItem
    <3> QED
      BY <3>1, <3>2, <3>3, <3>4 DEF SoundItem
  <2> QED
    BY <2>1, <2>2, <2>3, <2>4
<1>10. Grown(d, e)
  BY <1>3, <1>5 DEF Grown
<1>11. arena = "groups" \/ (arena = "texts" /\ item.kind = "heading") => CanHold(e, self)
  <2>1. Resolves(e, self) /\ At(e, self) = item
    BY <1>2, <1>3, <1>5, <1>6
  <2>2. self[1] = arena
    BY <1>1 DEF NextRef
  <2> QED
    BY <2>1, <2>2 DEF CanHold
<1>12. arena = "tables" => Len(e["tables"]) = Len(d["tables"]) + 1
  <2> SUFFICES ASSUME arena = "tables" PROVE Len(e["tables"]) = Len(d["tables"]) + 1
    OBVIOUS
  <2>1. b["tables"] = Append(d["tables"], item) /\ d["tables"] \in Seq(Item)
    BY <1>1 DEF b
  <2> QED
    BY <2>1, <1>1, <1>5
<1>13. AddItem(d, arena, item) = e
  BY DEF AddItem, e, b
<1> QED
  BY <1>2, <1>3, <1>5, <1>9, <1>10, <1>11, <1>12, <1>13 DEF SoundTree

(* Only the arena the item goes to gets longer.                            *)
LEMMA OtherArena ==
  ASSUME NEW d, d \in [Arenas -> Seq(Item)], NEW arena \in Arenas, NEW item \in Item,
         NEW other \in Arenas, other # arena
  PROVE  Len(AddItem(d, arena, item)[other]) = Len(d[other])
PROOF
<1> DEFINE b == [d EXCEPT ![arena] = Append(@, item)]
           a == item.parent[1]
           n == item.parent[2]
           new == [b[a][n] EXCEPT !.children = Append(@, item.self)]
           list == [b[a] EXCEPT ![n] = new]
           e == [b EXCEPT ![a] = list]
<1>1. b \in [Arenas -> Seq(Item)] /\ b[other] = d[other]
  <2>1. Append(d[arena], item) \in Seq(Item)
    OBVIOUS
  <2> QED
    BY <2>1
<1> HIDE DEF b
<1>2. CASE CanHold(b, item.parent)
  <2>1. AddItem(d, arena, item) = e
    BY <1>2 DEF AddItem, LinkChild, b
  <2>2. a \in Arenas /\ n \in DOMAIN b[a]
    BY <1>2 DEF CanHold, Resolves
  <2>3. b[a] \in Seq(Item)
    BY <1>1, <2>2
  <2> HIDE DEF new
  <2>4. Len(list) = Len(b[a])
    BY <2>2, <2>3
  <2> HIDE DEF list
  <2>5. e[a] = list /\ (other # a => e[other] = b[other])
    BY <1>1, <2>2
  <2> QED
    BY <2>1, <2>4, <2>5, <1>1
<1>3. CASE ~CanHold(b, item.parent)
  BY <1>1, <1>3 DEF AddItem, LinkChild, b
<1> QED
  BY <1>2, <1>3

-----------------------------------------------------------------------------
(* Items as the handlers make them.                                        *)

LEMMA NewItemIs ==
  ASSUME given \in Nat, NEW self \in Refs, NEW parent \in Refs, NEW kind \in Kinds
  PROVE  LET item == NewItem(self, parent, kind) IN
         /\ item \in Item /\ item.self = self /\ item.parent = parent
         /\ item.kind = kind /\ item.children = <<>> /\ item.points = {}
PROOF
<1>1. [name \in Names |-> NoRef] \in [Names -> Refs \cup {NoRef}]
  OBVIOUS
<1>2. << >> \in Seq(Refs)
  OBVIOUS
<1> QED
  BY <1>1, <1>2 DEF NewItem, ItemFrom, Item

LEMMA NewTextIs ==
  ASSUME given \in Nat, NEW e \in TextEvents,
         NEW self \in Refs, NEW parent \in Refs, NEW kind \in Kinds
  PROVE  LET item == NewText(e, self, parent, kind) IN
         /\ item \in Item /\ item.self = self /\ item.parent = parent
         /\ item.kind = kind /\ item.children = <<>> /\ item.points = {}
PROOF
<1> DEFINE item == NewItem(self, parent, kind)
<1>1. /\ item \in Item /\ item.self = self /\ item.parent = parent
      /\ item.kind = kind /\ item.children = <<>> /\ item.points = {}
  BY NewItemIs
<1>2. e.id \in Names \cup {NoName} /\ e.cites \in SUBSET Names
  BY DEF TextEvents
<1> HIDE DEF item
<1>3. LET text == [item EXCEPT !.id = e.id, !.cites = e.cites] IN
      /\ text \in Item /\ text.self = self /\ text.parent = parent
      /\ text.kind = kind /\ text.children = <<>> /\ text.points = {}
  BY <1>1, <1>2 DEF Item
<1> QED
  BY <1>3 DEF NewText, item

LEMMA WithLevel ==
  ASSUME NEW item \in Item, NEW level \in Nat, NEW ordered \in BOOLEAN
  PROVE  /\ LET new == [item EXCEPT !.level = level] IN
            /\ new \in Item /\ new.self = item.self /\ new.parent = item.parent
            /\ new.kind = item.kind /\ new.children = item.children
            /\ new.points = item.points
         /\ LET new == [item EXCEPT !.level = level, !.ordered = ordered] IN
            /\ new \in Item /\ new.self = item.self /\ new.parent = item.parent
            /\ new.kind = item.kind /\ new.children = item.children
            /\ new.points = item.points
  BY DEF Item

LEMMA NextRefIsRef ==
  ASSUME NEW d, d \in [Arenas -> Seq(Item)], NEW arena \in Arenas
  PROVE  NextRef(d, arena) \in Refs
<1>1. Len(d[arena]) \in Nat
  OBVIOUS
<1> QED
  BY <1>1 DEF NextRef, Refs

-----------------------------------------------------------------------------
(* Stacks.                                                                 *)

OpenSections == [level : Nat, ref : Refs]
OpenLists == [depth : Nat, ordered : BOOLEAN, ref : Refs]

LEMMA StackRefs ==
  ASSUME NEW S, \A open \in S : open.ref \in Refs, NEW stack \in Seq(S)
  PROVE  \A i \in DOMAIN stack : stack[i].ref \in Refs
<1>1. \A i \in DOMAIN stack : stack[i] \in S
  OBVIOUS
<1> QED
  BY <1>1

LEMMA Kept ==
  ASSUME NEW S, NEW open \in Seq(S), NEW n \in 0..Len(open)
  PROVE  /\ SubSeq(open, 1, n) \in Seq(S) /\ Len(SubSeq(open, 1, n)) = n
         /\ \A i \in 1..n : SubSeq(open, 1, n)[i] = open[i] /\ i \in DOMAIN open
  OBVIOUS

LEMMA KeptHolds ==
  ASSUME NEW d, NEW S, NEW open \in Seq(S), NEW n \in 0..Len(open), HoldsAll(d, open)
  PROVE  HoldsAll(d, SubSeq(open, 1, n))
<1>1. DOMAIN SubSeq(open, 1, n) = 1..n
  BY Kept
<1> QED
  BY <1>1, Kept DEF HoldsAll

LEMMA PushedHolds ==
  ASSUME NEW d, NEW S, NEW open \in Seq(S), NEW top \in S, HoldsAll(d, open),
         CanHold(d, top.ref)
  PROVE  Append(open, top) \in Seq(S) /\ HoldsAll(d, Append(open, top))
<1>1. Append(open, top) \in Seq(S) /\ DOMAIN Append(open, top) = 1..(Len(open) + 1)
  OBVIOUS
<1>2. \A i \in 1..(Len(open) + 1) :
        \/ i \in DOMAIN open /\ Append(open, top)[i] = open[i]
        \/ Append(open, top)[i] = top
  OBVIOUS
<1> QED
  BY <1>1, <1>2 DEF HoldsAll

LEMMA CurrentParentHolds ==
  ASSUME NEW d, CanHold(d, Body), NEW open \in Seq(OpenSections), HoldsAll(d, open)
  PROVE  CurrentParent(open) \in Refs /\ CanHold(d, CurrentParent(open))
<1>1. CASE open = <<>>
  BY <1>1, RefsAreRefs DEF CurrentParent
<1>2. CASE open # <<>>
  <2>1. Len(open) \in DOMAIN open /\ open[Len(open)] \in OpenSections
    BY <1>2
  <2> QED
    BY <2>1, <1>2 DEF CurrentParent, HoldsAll, OpenSections
<1> QED
  BY <1>1, <1>2

LEMMA GrownHolds ==
  ASSUME NEW d, NEW e, Grown(d, e), NEW open, HoldsAll(d, open),
         \A i \in DOMAIN open : open[i].ref \in Refs
  PROVE  HoldsAll(e, open)
  BY DEF Grown, HoldsAll

LEMMA GrownTwice ==
  ASSUME NEW c, NEW d, NEW e, c \in [Arenas -> Seq(Item)], d \in [Arenas -> Seq(Item)],
         e \in [Arenas -> Seq(Item)], Grown(c, d), Grown(d, e)
  PROVE  Grown(c, e)
<1>1. \A f \in {c, d, e} : Len(f["tables"]) \in Nat
  BY DEF Arenas
<1> QED
  BY <1>1 DEF Grown

LEMMA GrownItself ==
  ASSUME NEW d, d \in [Arenas -> Seq(Item)]
  PROVE  Grown(d, d)
<1>1. Len(d["tables"]) \in Nat
  BY DEF Arenas
<1> QED
  BY <1>1 DEF Grown

-----------------------------------------------------------------------------
(* The inductive invariant.  Sound alone is not inductive: an item is put  *)
(* under whatever a stack or the open table says, so what they hold must   *)
(* be able to have children, at every moment.                              *)

TreeInv == SoundTree(doc) /\ CanHold(doc, Body) /\ CanHold(doc, Furniture)

StacksInv ==
  /\ headings \in Seq(OpenSections) /\ HoldsAll(doc, headings)
  /\ lists \in Seq(OpenLists) /\ HoldsAll(doc, lists)

TableInv ==
  /\ table \in OpenTable /\ CanHold(doc, table.parent)
  /\ \A target \in table.points : Resolves(doc, target)
  /\ factsTable \in 0..Len(doc["tables"])

AttachedInv == attachments \in Seq(Refs) /\ AttachedIn(doc, attachments)

AnchorsType ==
  DOMAIN anchors \subseteq Names /\ \A name \in DOMAIN anchors : anchors[name] \in Refs

TakenInv == SoundTree(taken.doc) /\ AttachedIn(taken.doc, taken.attachments)

FoldInv ==
  /\ TreeInv /\ StacksInv /\ TableInv /\ AttachedInv /\ AnchorsType /\ TakenInv
  /\ vocabulary \subseteq Events /\ given \in 0..MaxEvents

(* What a step that only adds leaves as it was. *)
LEMMA Carried ==
  ASSUME FoldInv, NEW e, SoundTree(e), Grown(doc, e)
  PROVE  /\ CanHold(e, Body) /\ CanHold(e, Furniture)
         /\ HoldsAll(e, headings) /\ HoldsAll(e, lists)
         /\ CanHold(e, table.parent) /\ \A target \in table.points : Resolves(e, target)
         /\ factsTable \in 0..Len(e["tables"])
         /\ AttachedIn(e, attachments)
PROOF
<1>1. CanHold(e, Body) /\ CanHold(e, Furniture)
  BY RefsAreRefs DEF FoldInv, TreeInv, Grown
<1>2. HoldsAll(e, headings)
  <2>1. \A i \in DOMAIN headings : headings[i].ref \in Refs
    <3>1. headings \in Seq(OpenSections)
      BY DEF FoldInv, StacksInv
    <3>2. \A open \in OpenSections : open.ref \in Refs
      BY DEF OpenSections
    <3> QED
      BY <3>1, <3>2, StackRefs
  <2> QED
    BY <2>1, GrownHolds DEF FoldInv, StacksInv
<1>3. HoldsAll(e, lists)
  <2>1. \A i \in DOMAIN lists : lists[i].ref \in Refs
    <3>1. lists \in Seq(OpenLists)
      BY DEF FoldInv, StacksInv
    <3>2. \A open \in OpenLists : open.ref \in Refs
      BY DEF OpenLists
    <3> QED
      BY <3>1, <3>2, StackRefs
  <2> QED
    BY <2>1, GrownHolds DEF FoldInv, StacksInv
<1>4. CanHold(e, table.parent) /\ \A target \in table.points : Resolves(e, target)
  <2>1. table.parent \in Refs /\ table.points \subseteq Refs
    BY DEF FoldInv, TableInv, OpenTable
  <2> QED
    BY <2>1 DEF FoldInv, TableInv, Grown
<1>5. factsTable \in 0..Len(e["tables"])
  <2>1. e \in [Arenas -> Seq(Item)] /\ doc \in [Arenas -> Seq(Item)] /\ "tables" \in Arenas
    BY DEF FoldInv, TreeInv, SoundTree, Arenas
  <2>2. Len(e["tables"]) \in Nat /\ Len(doc["tables"]) \in Nat
    BY <2>1
  <2> QED
    BY <2>2 DEF FoldInv, TableInv, Grown
<1>6. AttachedIn(e, attachments)
  <2>1. \A i \in DOMAIN attachments : attachments[i] \in Refs
    BY DEF FoldInv, AttachedInv
  <2> QED
    BY <2>1 DEF FoldInv, AttachedInv, AttachedIn, Grown
<1> QED
  BY <1>1, <1>2, <1>3, <1>4, <1>5, <1>6

LEMMA ClaimedType ==
  ASSUME AnchorsType, NEW id \in Names \cup {NoName}, NEW ref \in Refs
  PROVE  LET known == Claimed(anchors, id, ref) IN
         DOMAIN known \subseteq Names /\ \A name \in DOMAIN known : known[name] \in Refs
PROOF
<1>1. CASE id = NoName \/ id \in DOMAIN anchors
  BY <1>1 DEF Claimed, AnchorsType
<1>2. CASE id # NoName /\ id \notin DOMAIN anchors
  <2> DEFINE known == [name \in DOMAIN anchors \cup {id} |->
                         IF name = id THEN ref ELSE anchors[name]]
  <2>1. Claimed(anchors, id, ref) = known
    BY <1>2 DEF Claimed
  <2>2. DOMAIN known \subseteq Names /\ \A name \in DOMAIN known : known[name] \in Refs
    BY <1>2 DEF AnchorsType
  <2> QED
    BY <2>1, <2>2
<1> QED
  BY <1>1, <1>2

(* An item without pointers, at the end of an arena and under a parent.    *)
LEMMA AddNew ==
  ASSUME NEW d, SoundTree(d), NEW arena \in Arenas, NEW item \in Item,
         item.self = NextRef(d, arena), item.children = <<>>, item.points = {},
         CanHold(d, item.parent)
  PROVE  LET e == AddItem(d, arena, item) IN
         /\ SoundTree(e) /\ Grown(d, e)
         /\ item.self \in Refs /\ Resolves(e, item.self)
         /\ arena = "groups" \/ (arena = "texts" /\ item.kind = "heading")
              => CanHold(e, item.self)
         /\ arena = "tables" => Len(e["tables"]) = Len(d["tables"]) + 1
PROOF
<1>1. Addable(d, arena, item)
  BY DEF Addable
<1> QED
  BY <1>1, AddKeeps

-----------------------------------------------------------------------------
(* The steps.                                                              *)

TextStep ==
  SoundTree(doc') /\ Grown(doc, doc') /\ StacksInv' /\ AnchorsType'

LEMMA InvFacts ==
  ASSUME FoldInv
  PROVE  /\ SoundTree(doc) /\ doc \in [Arenas -> Seq(Item)] /\ given \in Nat
         /\ CanHold(doc, Body) /\ CanHold(doc, Furniture)
         /\ headings \in Seq(OpenSections) /\ HoldsAll(doc, headings)
         /\ lists \in Seq(OpenLists) /\ HoldsAll(doc, lists)
         /\ CurrentParent(headings) \in Refs /\ CanHold(doc, CurrentParent(headings))
         /\ AnchorsType
         /\ \A arena \in Arenas : NextRef(doc, arena) \in Refs
PROOF
<1>1. /\ SoundTree(doc) /\ doc \in [Arenas -> Seq(Item)]
      /\ CanHold(doc, Body) /\ CanHold(doc, Furniture)
      /\ headings \in Seq(OpenSections) /\ HoldsAll(doc, headings)
      /\ lists \in Seq(OpenLists) /\ HoldsAll(doc, lists)
      /\ AnchorsType /\ given \in 0..MaxEvents
  BY DEF FoldInv, TreeInv, StacksInv, SoundTree
<1>2. given \in Nat
  BY <1>1, DocumentFoldAssumption
<1>3. CurrentParent(headings) \in Refs /\ CanHold(doc, CurrentParent(headings))
  BY <1>1, CurrentParentHolds
<1>4. \A arena \in Arenas : NextRef(doc, arena) \in Refs
  BY <1>1, NextRefIsRef
<1> QED
  BY <1>1, <1>2, <1>3, <1>4

LEMMA EmptyStack ==
  ASSUME NEW d, NEW S PROVE <<>> \in Seq(S) /\ HoldsAll(d, <<>>)
  BY DEF HoldsAll

LEMMA HeadingStep ==
  ASSUME FoldInv, NEW e \in TextEvents, PushHeading(e)
  PROVE  TextStep
PROOF
<1>1. PICK n \in 0..Len(headings) :
        LET kept == SubSeq(headings, 1, n)
            self == NextRef(doc, "texts")
            item == [NewText(e, self, CurrentParent(kept), "heading")
                       EXCEPT !.level = e.level]
        IN /\ doc' = AddItem(doc, "texts", item)
           /\ headings' = Append(kept, [level |-> e.level, ref |-> self])
           /\ anchors' = Claimed(anchors, e.id, self)
  BY DEF PushHeading
<1> DEFINE kept == SubSeq(headings, 1, n)
           self == NextRef(doc, "texts")
           parent == CurrentParent(kept)
           text == NewText(e, self, parent, "heading")
           item == [text EXCEPT !.level = e.level]
<1>2. kept \in Seq(OpenSections) /\ HoldsAll(doc, kept)
  BY InvFacts, Kept, KeptHolds
<1>3. parent \in Refs /\ CanHold(doc, parent)
  BY <1>2, InvFacts, CurrentParentHolds
<1>4. self \in Refs /\ e.level \in Nat /\ e.id \in Names \cup {NoName}
  BY InvFacts DEF TextEvents, Arenas
<1>5. /\ text \in Item /\ text.self = self /\ text.parent = parent
      /\ text.kind = "heading" /\ text.children = <<>> /\ text.points = {}
  BY <1>3, <1>4, InvFacts, NewTextIs DEF Kinds
<1> HIDE DEF text, parent, kept
<1>6. /\ item \in Item /\ item.self = self /\ item.parent = parent
      /\ item.kind = "heading" /\ item.children = <<>> /\ item.points = {}
  BY <1>4, <1>5, WithLevel
<1> HIDE DEF item
<1>7. /\ doc' = AddItem(doc, "texts", item)
      /\ headings' = Append(kept, [level |-> e.level, ref |-> self])
      /\ anchors' = Claimed(anchors, e.id, self) /\ lists' = <<>>
  BY <1>1 DEF item, text, parent, kept, PushHeading, EndListRun
<1>8. SoundTree(doc') /\ Grown(doc, doc') /\ CanHold(doc', self)
  BY <1>3, <1>6, <1>7, InvFacts, AddNew DEF Arenas
<1>9. headings' \in Seq(OpenSections) /\ HoldsAll(doc', headings')
  <2>1. [level |-> e.level, ref |-> self] \in OpenSections
    BY <1>4 DEF OpenSections
  <2>2. \A i \in DOMAIN kept : kept[i].ref \in Refs
    <3>1. \A open \in OpenSections : open.ref \in Refs
      BY DEF OpenSections
    <3> QED
      BY <1>2, <3>1, StackRefs
  <2>3. HoldsAll(doc', kept)
    BY <1>2, <1>8, <2>2, GrownHolds
  <2> QED
    BY <1>2, <1>7, <1>8, <2>1, <2>3, PushedHolds
<1>10. AnchorsType'
  BY <1>4, <1>7, InvFacts, ClaimedType DEF AnchorsType
<1> QED
  BY <1>7, <1>8, <1>9, <1>10, EmptyStack DEF TextStep, StacksInv

LEMMA ChromeStep ==
  ASSUME FoldInv, NEW e \in TextEvents, PushChrome(e)
  PROVE  TextStep
PROOF
<1> DEFINE self == NextRef(doc, "texts")
           item == NewText(e, self, Furniture, "text")
<1>1. self \in Refs /\ e.id \in Names \cup {NoName}
  BY InvFacts DEF TextEvents, Arenas
<1>2. /\ item \in Item /\ item.self = self /\ item.parent = Furniture
      /\ item.kind = "text" /\ item.children = <<>> /\ item.points = {}
  BY <1>1, InvFacts, RefsAreRefs, NewTextIs DEF Kinds
<1> HIDE DEF item
<1>3. /\ doc' = AddItem(doc, "texts", item) /\ anchors' = Claimed(anchors, e.id, self)
      /\ headings' = headings /\ lists' = lists
  BY DEF item, PushChrome
<1>4. SoundTree(doc') /\ Grown(doc, doc')
  BY <1>2, <1>3, InvFacts, AddNew DEF Arenas
<1>5. HoldsAll(doc', headings) /\ HoldsAll(doc', lists)
  BY <1>4, Carried
<1>6. AnchorsType'
  BY <1>1, <1>3, InvFacts, ClaimedType DEF AnchorsType
<1> QED
  BY <1>3, <1>4, <1>5, <1>6, InvFacts DEF TextStep, StacksInv

LEMMA ParagraphStep ==
  ASSUME FoldInv, NEW e \in TextEvents, PushParagraph(e)
  PROVE  TextStep
PROOF
<1> DEFINE self == NextRef(doc, "texts")
           parent == CurrentParent(headings)
           item == NewText(e, self, parent, "text")
<1>1. self \in Refs /\ e.id \in Names \cup {NoName} /\ parent \in Refs /\ CanHold(doc, parent)
  BY InvFacts DEF TextEvents, Arenas
<1>2. /\ item \in Item /\ item.self = self /\ item.parent = parent
      /\ item.kind = "text" /\ item.children = <<>> /\ item.points = {}
  BY <1>1, InvFacts, NewTextIs DEF Kinds
<1> HIDE DEF item
<1>3. /\ doc' = AddItem(doc, "texts", item) /\ anchors' = Claimed(anchors, e.id, self)
      /\ headings' = headings /\ lists' = <<>>
  BY DEF item, PushParagraph, EndListRun
<1>4. SoundTree(doc') /\ Grown(doc, doc')
  BY <1>1, <1>2, <1>3, InvFacts, AddNew DEF Arenas
<1>5. HoldsAll(doc', headings)
  BY <1>4, Carried
<1>6. AnchorsType'
  BY <1>1, <1>3, InvFacts, ClaimedType DEF AnchorsType
<1> QED
  BY <1>3, <1>4, <1>5, <1>6, InvFacts, EmptyStack DEF TextStep, StacksInv

LEMMA ListItemStep ==
  ASSUME FoldInv, NEW e \in TextEvents, PushListItem(e)
  PROVE  TextStep
PROOF
<1> DEFINE depth == DepthOf(e)
           self == NextRef(doc, "texts")
           newGroup(above) == NewItem(NextRef(doc, "groups"), above, "list")
           group(above) == [newGroup(above) EXCEPT !.level = depth, !.ordered = e.ordered]
           text(parent) == NewText(e, self, parent, "text")
           item(parent) == [text(parent) EXCEPT !.level = depth, !.ordered = e.ordered]
<1>1. PICK n \in 0..Len(lists) :
        LET kept == SubSeq(lists, 1, n)
            opens == n = 0 \/ lists[n].depth < depth
            above == IF n = 0 THEN CurrentParent(headings) ELSE lists[n].ref
            grouped == IF opens THEN AddItem(doc, "groups", group(above)) ELSE doc
            parent == IF opens THEN group(above).self ELSE lists[n].ref
        IN /\ doc' = AddItem(grouped, "texts", item(parent))
           /\ lists' = IF opens
                       THEN Append(kept, [depth |-> depth, ordered |-> e.ordered,
                                          ref |-> group(above).self])
                       ELSE kept
           /\ anchors' = Claimed(anchors, e.id, self)
  BY DEF PushListItem
<1> DEFINE kept == SubSeq(lists, 1, n)
           opens == n = 0 \/ lists[n].depth < depth
           above == IF n = 0 THEN CurrentParent(headings) ELSE lists[n].ref
           ref == NextRef(doc, "groups")
           grouped == IF opens THEN AddItem(doc, "groups", group(above)) ELSE doc
           parent == IF opens THEN ref ELSE lists[n].ref
<1>2. /\ depth \in Nat /\ e.ordered \in BOOLEAN /\ e.id \in Names \cup {NoName}
      /\ self \in Refs /\ ref \in Refs
  BY InvFacts DEF TextEvents, Arenas, DepthOf
<1> HIDE DEF depth
<1>3. /\ kept \in Seq(OpenLists) /\ HoldsAll(doc, kept)
      /\ n # 0 => lists[n].ref \in Refs /\ CanHold(doc, lists[n].ref)
  <2>1. kept \in Seq(OpenLists) /\ HoldsAll(doc, kept)
    BY InvFacts, Kept, KeptHolds
  <2>2. n # 0 => n \in DOMAIN lists /\ lists[n] \in OpenLists
    BY InvFacts
  <2> QED
    BY <2>1, <2>2, InvFacts DEF HoldsAll, OpenLists
<1>4. above \in Refs /\ CanHold(doc, above)
  BY <1>3, InvFacts
<1> HIDE DEF kept, above
<1>5. /\ group(above) \in Item /\ group(above).self = ref /\ group(above).parent = above
      /\ group(above).children = <<>> /\ group(above).points = {}
  <2>1. /\ newGroup(above) \in Item /\ newGroup(above).self = ref
        /\ newGroup(above).parent = above /\ newGroup(above).children = <<>>
        /\ newGroup(above).points = {}
    BY <1>2, <1>4, InvFacts, NewItemIs DEF Kinds
  <2> HIDE DEF newGroup
  <2>2. LET new == [newGroup(above) EXCEPT !.level = depth, !.ordered = e.ordered]
        IN  /\ new \in Item /\ new.self = newGroup(above).self
            /\ new.parent = newGroup(above).parent
            /\ new.children = newGroup(above).children
            /\ new.points = newGroup(above).points
    BY ONLY <1>2, <2>1, WithLevel
  <2> QED
    BY ONLY <2>1, <2>2
<1> HIDE DEF group
<1>6. /\ SoundTree(grouped) /\ Grown(doc, grouped)
      /\ parent \in Refs /\ CanHold(grouped, parent)
  <2>1. CASE opens
    <3>1. LET f == AddItem(doc, "groups", group(above)) IN
            SoundTree(f) /\ Grown(doc, f) /\ CanHold(f, group(above).self)
      BY <1>4, <1>5, InvFacts, AddNew DEF Arenas
    <3> QED
      BY <2>1, <3>1, <1>2, <1>5
  <2>2. CASE ~opens
    <3>1. Grown(doc, doc)
      BY InvFacts, GrownItself
    <3> QED
      BY <2>2, <3>1, <1>3, InvFacts
  <2> QED
    BY <2>1, <2>2
<1>7. self = NextRef(grouped, "texts")
  <2>1. CASE opens
    <3>1. Len(AddItem(doc, "groups", group(above))["texts"]) = Len(doc["texts"])
      <4>1. /\ "groups" \in Arenas /\ "texts" \in Arenas /\ "texts" # "groups"
            /\ doc \in [Arenas -> Seq(Item)] /\ group(above) \in Item
        BY <1>5, InvFacts DEF Arenas
      <4> QED
        BY ONLY <4>1, OtherArena
    <3> QED
      BY <2>1, <3>1 DEF NextRef
  <2>2. CASE ~opens
    BY <2>2
  <2> QED
    BY <2>1, <2>2
<1> HIDE DEF grouped, parent
<1>8. /\ item(parent) \in Item /\ item(parent).self = self /\ item(parent).parent = parent
      /\ item(parent).children = <<>> /\ item(parent).points = {}
  <2>1. /\ text(parent) \in Item /\ text(parent).self = self
        /\ text(parent).parent = parent /\ text(parent).children = <<>>
        /\ text(parent).points = {}
    BY <1>2, <1>6, InvFacts, NewTextIs DEF Kinds
  <2> HIDE DEF text
  <2>2. LET new == [text(parent) EXCEPT !.level = depth, !.ordered = e.ordered]
        IN  /\ new \in Item /\ new.self = text(parent).self
            /\ new.parent = text(parent).parent
            /\ new.children = text(parent).children
            /\ new.points = text(parent).points
    BY ONLY <1>2, <2>1, WithLevel
  <2> QED
    BY ONLY <2>1, <2>2
<1> HIDE DEF item
<1>9. /\ doc' = AddItem(grouped, "texts", item(parent))
      /\ lists' = IF opens
                  THEN Append(kept, [depth |-> depth, ordered |-> e.ordered, ref |-> ref])
                  ELSE kept
      /\ anchors' = Claimed(anchors, e.id, self) /\ headings' = headings
  BY <1>1, <1>5 DEF grouped, parent, kept, above, PushListItem
<1>10. SoundTree(doc') /\ Grown(grouped, doc')
  BY <1>6, <1>7, <1>8, <1>9, AddNew DEF Arenas
<1>11. Grown(doc, doc')
  BY <1>6, <1>10, InvFacts, GrownTwice DEF SoundTree
<1>12. HoldsAll(doc', headings)
  BY <1>10, <1>11, Carried
<1>13. lists' \in Seq(OpenLists) /\ HoldsAll(doc', lists')
  <2>1. HoldsAll(doc', kept)
    <3>1. \A open \in OpenLists : open.ref \in Refs
      BY DEF OpenLists
    <3>2. \A i \in DOMAIN kept : kept[i].ref \in Refs
      BY <1>3, <3>1, StackRefs
    <3> QED
      BY <1>3, <1>11, <3>2, GrownHolds
  <2>2. CASE opens
    <3>1. [depth |-> depth, ordered |-> e.ordered, ref |-> ref] \in OpenLists
      BY <1>2 DEF OpenLists
    <3>2. CanHold(doc', ref)
      BY <2>2, <1>6, <1>10, <1>2 DEF Grown, parent
    <3> QED
      BY <2>1, <2>2, <3>1, <3>2, <1>3, <1>9, PushedHolds
  <2>3. CASE ~opens
    BY <2>1, <2>3, <1>3, <1>9
  <2> QED
    BY <2>2, <2>3
<1>14. AnchorsType'
  BY <1>2, <1>9, InvFacts, ClaimedType DEF AnchorsType
<1> QED
  BY <1>9, <1>10, <1>11, <1>12, <1>13, <1>14, InvFacts DEF TextStep, StacksInv

StepInv == TreeInv' /\ StacksInv' /\ TableInv' /\ AttachedInv' /\ AnchorsType'

(* A step that only adds to the tree has to look after what it changes.    *)
LEMMA OnlyAdds ==
  ASSUME FoldInv, SoundTree(doc'), Grown(doc, doc'), StacksInv', AnchorsType',
         UNCHANGED <<attachments, table, factsTable>>
  PROVE  StepInv
PROOF
<1>1. TreeInv'
  BY Carried DEF TreeInv
<1>2. TableInv'
  BY Carried DEF FoldInv, TableInv
<1>3. AttachedInv'
  BY Carried DEF FoldInv, AttachedInv
<1> QED
  BY <1>1, <1>2, <1>3 DEF StepInv

LEMMA PushTextStep ==
  ASSUME FoldInv, NEW e \in TextEvents, PushText(e)
  PROVE  StepInv
PROOF
<1>1. TextStep
  BY HeadingStep, ChromeStep, ListItemStep, ParagraphStep DEF PushText
<1>2. UNCHANGED <<attachments, table, factsTable>>
  BY DEF PushText
<1> QED
  BY <1>1, <1>2, OnlyAdds DEF TextStep

LEMMA IgnoredStep ==
  ASSUME FoldInv, Ignored
  PROVE  StepInv
PROOF
<1>1. SoundTree(doc') /\ Grown(doc, doc')
  BY InvFacts, GrownItself DEF Ignored
<1>2. StacksInv' /\ AnchorsType'
  BY DEF FoldInv, StacksInv, AnchorsType, Ignored
<1> QED
  BY <1>1, <1>2, OnlyAdds DEF Ignored

LEMMA PlainIsText ==
  ASSUME NEW label \in TextLabels, NEW id \in Names \cup {NoName}
  PROVE  Plain(label, id) \in TextEvents
  BY DEF Plain, TextEvents

LEMMA NoteStep ==
  ASSUME FoldInv, NEW e \in Events, OnNote(e)
  PROVE  StepInv
PROOF
<1>1. e.id \in Names \cup {NoName}
  <2>1. e.event = "xbrl_note"
    BY DEF OnNote
  <2>2. e \in NoteEvents
    BY <2>1 DEF Events, TextEvents, PictureEvents, StartEvents, RowEvents, EndEvents,
                FactEvents, CitationEvents, IslandEvents, OtherEvents
  <2> QED
    BY <2>2 DEF NoteEvents
<1>2. "footnote" \in TextLabels
  BY DEF TextLabels
<1>3. Plain("footnote", e.id) \in TextEvents
  BY <1>1, <1>2, PlainIsText
<1>4. CASE e.footnote /\ ~e.empty
  BY <1>3, <1>4, PushTextStep DEF OnNote
<1>5. CASE ~(e.footnote /\ ~e.empty)
  BY <1>5, IgnoredStep DEF OnNote
<1> QED
  BY <1>4, <1>5

LEMMA CitationStep ==
  ASSUME FoldInv, NEW e \in Events, OnCitation(e)
  PROVE  StepInv
PROOF
<1>1. e.id \in Names \cup {NoName}
  <2>1. e.event = "citation"
    BY DEF OnCitation
  <2>2. e \in CitationEvents
    BY <2>1 DEF Events, TextEvents, PictureEvents, StartEvents, RowEvents, EndEvents,
                FactEvents, NoteEvents, IslandEvents, OtherEvents
  <2> QED
    BY <2>2 DEF CitationEvents
<1>2. "reference" \in TextLabels
  BY DEF TextLabels
<1>3. Plain("reference", e.id) \in TextEvents
  BY <1>1, <1>2, PlainIsText
<1>4. CASE e.empty
  BY <1>4, IgnoredStep DEF OnCitation
<1>5. CASE ~e.empty
  BY <1>3, <1>5, PushTextStep DEF OnCitation
<1> QED
  BY <1>4, <1>5

LEMMA PictureStep ==
  ASSUME FoldInv, NEW e \in Events, OnPicture(e)
  PROVE  StepInv
PROOF
<1> DEFINE self == NextRef(doc, "pictures")
           parent == CurrentParent(headings)
           new == NewItem(self, parent, "picture")
           item == [new EXCEPT !.id = e.id]
<1>1. e.id \in Names \cup {NoName}
  <2>1. e.event = "picture"
    BY DEF OnPicture
  <2>2. e \in PictureEvents
    BY <2>1 DEF Events, TextEvents, CitationEvents, StartEvents, RowEvents, EndEvents,
                FactEvents, NoteEvents, IslandEvents, OtherEvents
  <2> QED
    BY <2>2 DEF PictureEvents
<1>2. self \in Refs /\ parent \in Refs /\ CanHold(doc, parent)
  BY InvFacts DEF Arenas
<1>3. /\ new \in Item /\ new.self = self /\ new.parent = parent
      /\ new.children = <<>> /\ new.points = {}
  BY <1>2, InvFacts, NewItemIs DEF Kinds
<1> HIDE DEF new
<1>4. /\ item \in Item /\ item.self = self /\ item.parent = parent
      /\ item.children = <<>> /\ item.points = {}
  BY <1>1, <1>3 DEF Item
<1> HIDE DEF item
<1>5. /\ doc' = AddItem(doc, "pictures", item) /\ anchors' = Claimed(anchors, e.id, self)
      /\ headings' = headings /\ lists' = <<>>
      /\ UNCHANGED <<attachments, table, factsTable>>
  BY DEF item, new, OnPicture, EndListRun
<1>6. SoundTree(doc') /\ Grown(doc, doc')
  BY <1>2, <1>4, <1>5, InvFacts, AddNew DEF Arenas
<1>7. HoldsAll(doc', headings)
  BY <1>6, Carried
<1>8. AnchorsType'
  BY <1>1, <1>2, <1>5, InvFacts, ClaimedType DEF AnchorsType
<1>9. StacksInv'
  BY <1>5, <1>7, InvFacts, EmptyStack DEF StacksInv
<1> QED
  BY <1>5, <1>6, <1>8, <1>9, OnlyAdds

LEMMA IslandStep ==
  ASSUME FoldInv, NEW e \in Events, OnIsland(e)
  PROVE  StepInv
PROOF
<1> DEFINE ref == NextRef(doc, "groups")
           parent == CurrentParent(headings)
           new == NewItem(ref, parent, "island")
           group == [new EXCEPT !.id = e.id]
           marked == AddItem(doc, "groups", group)
           self == NextRef(marked, "texts")
           text == NewItem(self, ref, "text")
<1>1. e.id \in Names \cup {NoName}
  <2>1. e.event = "html_island"
    BY DEF OnIsland
  <2>2. e \in IslandEvents
    BY <2>1 DEF Events, TextEvents, CitationEvents, StartEvents, RowEvents, EndEvents,
                FactEvents, NoteEvents, PictureEvents, OtherEvents
  <2> QED
    BY <2>2 DEF IslandEvents
<1>2. ref \in Refs /\ parent \in Refs /\ CanHold(doc, parent)
  BY InvFacts DEF Arenas
<1>3. /\ new \in Item /\ new.self = ref /\ new.parent = parent
      /\ new.children = <<>> /\ new.points = {}
  BY <1>2, InvFacts, NewItemIs DEF Kinds
<1> HIDE DEF new
<1>4. /\ group \in Item /\ group.self = ref /\ group.parent = parent
      /\ group.children = <<>> /\ group.points = {}
  BY <1>1, <1>3 DEF Item
<1> HIDE DEF group
<1>5. SoundTree(marked) /\ Grown(doc, marked) /\ CanHold(marked, ref)
  BY <1>2, <1>4, InvFacts, AddNew DEF Arenas
<1> HIDE DEF marked
<1>6. self \in Refs
  BY <1>5, NextRefIsRef DEF SoundTree, Arenas
<1>7. /\ text \in Item /\ text.self = self /\ text.parent = ref
      /\ text.children = <<>> /\ text.points = {}
  BY <1>2, <1>6, InvFacts, NewItemIs DEF Kinds
<1> HIDE DEF text
<1>8. /\ doc' = AddItem(marked, "texts", text) /\ attachments' = Append(attachments, ref)
      /\ headings' = headings /\ lists' = <<>> /\ anchors' = anchors
      /\ UNCHANGED <<table, factsTable>>
  BY <1>4 DEF marked, group, new, text, OnIsland, EndListRun
<1>9. SoundTree(doc') /\ Grown(marked, doc')
  BY <1>5, <1>7, <1>8, AddNew DEF Arenas
<1>10. Grown(doc, doc')
  BY <1>5, <1>9, InvFacts, GrownTwice DEF SoundTree
<1>11. /\ CanHold(doc', Body) /\ CanHold(doc', Furniture) /\ HoldsAll(doc', headings)
       /\ AttachedIn(doc', attachments) /\ Resolves(doc', ref)
  BY <1>2, <1>5, <1>9, <1>10, Carried DEF Grown, CanHold
<1>12. TableInv'
  BY <1>8, <1>9, <1>10, Carried DEF FoldInv, TableInv
<1>13. AttachedInv'
  <2>1. attachments \in Seq(Refs)
    BY DEF FoldInv, AttachedInv
  <2>2. /\ Append(attachments, ref) \in Seq(Refs)
        /\ \A i \in DOMAIN Append(attachments, ref) :
             \/ i \in DOMAIN attachments /\ Append(attachments, ref)[i] = attachments[i]
             \/ Append(attachments, ref)[i] = ref
    BY <1>2, <2>1
  <2> QED
    BY <1>8, <1>11, <2>2 DEF AttachedInv, AttachedIn
<1>14. StacksInv' /\ AnchorsType'
  BY <1>8, <1>11, InvFacts, EmptyStack DEF StacksInv, AnchorsType
<1> QED
  BY <1>9, <1>11, <1>12, <1>13, <1>14 DEF StepInv, TreeInv

(* The open table goes into the tree, with what its captions point at.     *)
LEMMA WithTableKeeps ==
  ASSUME FoldInv
  PROVE  /\ SoundTree(WithTable(doc)) /\ Grown(doc, WithTable(doc))
         /\ LET known == TableClaimed(doc) IN
            /\ DOMAIN known \subseteq Names
            /\ \A name \in DOMAIN known : known[name] \in Refs
PROOF
<1> DEFINE self == NextRef(doc, "tables")
           new == NewItem(self, table.parent, "table")
           item == [new EXCEPT !.from = table.from, !.id = table.id,
                               !.points = table.points, !.cites = table.cites]
<1>1. /\ table.parent \in Refs /\ table.from \in Nat /\ table.id \in Names \cup {NoName}
      /\ table.points \in SUBSET Refs /\ table.cites \in SUBSET Names
      /\ CanHold(doc, table.parent) /\ \A target \in table.points : Resolves(doc, target)
  BY DEF FoldInv, TableInv, OpenTable
<1>2. self \in Refs /\ "tables" \in Arenas
  BY InvFacts DEF Arenas
<1>3. /\ new \in Item /\ new.self = self /\ new.parent = table.parent
      /\ new.children = <<>>
  BY <1>1, <1>2, InvFacts, NewItemIs DEF Kinds
<1> HIDE DEF new
<1>4. /\ item \in Item /\ item.self = self /\ item.parent = table.parent
      /\ item.children = <<>> /\ item.points = table.points
  BY <1>1, <1>3 DEF Item
<1>5. item = TableItem(doc, table)
  BY DEF TableItem, new
<1> HIDE DEF item
<1>6. Addable(doc, "tables", item)
  BY <1>1, <1>2, <1>4 DEF Addable
<1>7. LET f == AddItem(doc, "tables", item) IN SoundTree(f) /\ Grown(doc, f)
  BY <1>6, InvFacts, AddKeeps
<1>8. SoundTree(WithTable(doc)) /\ Grown(doc, WithTable(doc))
  <2>1. CASE table.open
    BY <2>1, <1>5, <1>7 DEF WithTable
  <2>2. CASE ~table.open
    BY <2>2, InvFacts, GrownItself DEF WithTable
  <2> QED
    BY <2>1, <2>2
<1>9. LET known == TableClaimed(doc) IN
      DOMAIN known \subseteq Names /\ \A name \in DOMAIN known : known[name] \in Refs
  <2>1. CASE table.open
    BY <2>1, <1>1, <1>2, InvFacts, ClaimedType DEF TableClaimed
  <2>2. CASE ~table.open
    BY <2>2, InvFacts DEF TableClaimed, AnchorsType
  <2> QED
    BY <2>1, <2>2
<1> QED
  BY <1>8, <1>9

LEMMA NoTableIsOpenTable ==
  NoTable \in OpenTable /\ NoTable.parent = Body /\ NoTable.points = {}
  BY RefsAreRefs DEF NoTable, OpenTable

LEMMA TableStartStep ==
  ASSUME FoldInv, NEW e \in Events, OnTableStart(e)
  PROVE  StepInv
PROOF
<1> DEFINE before == WithTable(doc)
           parent == CurrentParent(headings)
           self == NextRef(before, "texts")
           caption == NewItem(self, parent, "text")
<1>1. e.id \in Names \cup {NoName} /\ e.ref \in TableRefs /\ e.captioned \in BOOLEAN
  <2>1. e.event = "table_start"
    BY DEF OnTableStart
  <2>2. e \in StartEvents
    BY <2>1 DEF Events, TextEvents, CitationEvents, PictureEvents, RowEvents, EndEvents,
                FactEvents, NoteEvents, IslandEvents, OtherEvents
  <2> QED
    BY <2>2 DEF StartEvents
<1>2. SoundTree(before) /\ Grown(doc, before)
  BY WithTableKeeps
<1>3. parent \in Refs /\ CanHold(before, parent)
  BY <1>2, InvFacts DEF Grown
<1> HIDE DEF before, parent
<1>4. self \in Refs
  BY <1>2, NextRefIsRef DEF SoundTree, Arenas
<1>5. /\ caption \in Item /\ caption.self = self /\ caption.parent = parent
      /\ caption.children = <<>> /\ caption.points = {}
  BY <1>3, <1>4, InvFacts, NewItemIs DEF Kinds
<1> HIDE DEF caption
<1>6. /\ doc' = IF e.captioned THEN AddItem(before, "texts", caption) ELSE before
      /\ table' = [open |-> TRUE, ref |-> e.ref, parent |-> parent,
                   from |-> given + 1, id |-> e.id,
                   points |-> IF e.captioned THEN {self} ELSE {}, cites |-> {}]
      /\ anchors' = TableClaimed(doc) /\ lists' = <<>> /\ headings' = headings
      /\ UNCHANGED <<attachments, factsTable>>
  BY <1>5 DEF before, parent, caption, OnTableStart, EndListRun
<1>7. /\ SoundTree(doc') /\ Grown(before, doc')
      /\ e.captioned => Resolves(doc', self)
  <2>1. CASE e.captioned
    BY <2>1, <1>2, <1>3, <1>5, <1>6, AddNew DEF Arenas
  <2>2. CASE ~e.captioned
    BY <2>2, <1>2, <1>6, GrownItself DEF SoundTree
  <2> QED
    BY <2>1, <2>2
<1>8. Grown(doc, doc')
  BY <1>2, <1>7, InvFacts, GrownTwice DEF SoundTree
<1>9. TreeInv' /\ AttachedInv' /\ HoldsAll(doc', headings)
      /\ factsTable' \in 0..Len(doc'["tables"])
  BY <1>6, <1>7, <1>8, Carried DEF TreeInv, FoldInv, AttachedInv
<1>10. TableInv'
  <2>1. table' \in OpenTable
    <3>1. given + 1 \in Nat
      BY InvFacts
    <3>2. (IF e.captioned THEN {self} ELSE {}) \in SUBSET Refs
      BY <1>4
    <3> QED
      BY <3>1, <3>2, <1>1, <1>3, <1>6 DEF OpenTable
  <2>2. CanHold(doc', table'.parent)
    BY <1>3, <1>6, <1>7 DEF Grown
  <2>3. \A target \in table'.points : Resolves(doc', target)
    BY <1>6, <1>7
  <2> QED
    BY <2>1, <2>2, <2>3, <1>9 DEF TableInv
<1>11. StacksInv'
  BY <1>6, <1>9, InvFacts, EmptyStack DEF StacksInv
<1>12. AnchorsType'
  BY <1>6, WithTableKeeps DEF AnchorsType
<1> QED
  BY <1>9, <1>10, <1>11, <1>12 DEF StepInv

LEMMA TableRowStep ==
  ASSUME FoldInv, NEW e \in Events, OnTableRow(e)
  PROVE  StepInv
PROOF
<1>1. CASE ~Theirs(e)
  BY <1>1, IgnoredStep DEF OnTableRow
<1>2. CASE Theirs(e)
  <2>1. e.cites \subseteq Names
    <3>1. e.event = "table_row"
      BY DEF OnTableRow
    <3>2. e \in RowEvents
      BY <3>1 DEF Events, TextEvents, CitationEvents, PictureEvents, StartEvents,
                  EndEvents, FactEvents, NoteEvents, IslandEvents, OtherEvents
    <3> QED
      BY <3>2 DEF RowEvents
  <2>2. /\ table' = [table EXCEPT !.cites = @ \cup e.cites]
        /\ UNCHANGED <<doc, attachments, factsTable, headings, lists, anchors>>
    BY <1>2 DEF OnTableRow
  <2>3. table \in OpenTable
    BY DEF FoldInv, TableInv
  <2>4. /\ table' \in OpenTable /\ table'.parent = table.parent
        /\ table'.points = table.points
    BY <2>1, <2>2, <2>3 DEF OpenTable
  <2>5. TableInv'
    BY <2>2, <2>4 DEF FoldInv, TableInv
  <2> QED
    BY <2>2, <2>5 DEF StepInv, FoldInv, TreeInv, StacksInv, AttachedInv, AnchorsType
<1> QED
  BY <1>1, <1>2

LEMMA TableEndStep ==
  ASSUME FoldInv, NEW e \in Events, OnTableEnd(e)
  PROVE  StepInv
PROOF
<1>1. CASE ~Theirs(e)
  BY <1>1, IgnoredStep DEF OnTableEnd
<1>2. CASE Theirs(e)
  <2>1. /\ doc' = WithTable(doc) /\ anchors' = TableClaimed(doc) /\ table' = NoTable
        /\ UNCHANGED <<attachments, factsTable, headings, lists>>
    BY <1>2 DEF OnTableEnd
  <2>2. SoundTree(doc') /\ Grown(doc, doc')
    BY <2>1, WithTableKeeps
  <2>3. /\ TreeInv' /\ StacksInv' /\ AttachedInv'
        /\ factsTable' \in 0..Len(doc'["tables"])
    BY <2>1, <2>2, Carried, InvFacts DEF TreeInv, StacksInv, FoldInv, AttachedInv
  <2>4. TableInv'
    BY <2>1, <2>3, NoTableIsOpenTable DEF TreeInv, TableInv
  <2>5. AnchorsType'
    BY <2>1, WithTableKeeps DEF AnchorsType
  <2> QED
    BY <2>3, <2>4, <2>5 DEF StepInv
<1> QED
  BY <1>1, <1>2

(* A cell of the fact table comes to point at a graph that is there.       *)
LEMMA PointKeeps ==
  ASSUME NEW d, SoundTree(d), NEW n \in DOMAIN d["tables"],
         NEW target \in Refs, Resolves(d, target)
  PROVE  LET e == [d EXCEPT !["tables"][n].points = @ \cup {target}] IN
         SoundTree(e) /\ Grown(d, e) /\ SameTree(d, e)
PROOF
<1> DEFINE t == "tables"
           old == d[t][n]
           new == [old EXCEPT !.points = @ \cup {target}]
           list == [d[t] EXCEPT ![n] = new]
           e == [d EXCEPT ![t] = list]
           here == <<t, n>>
<1>1. t \in Arenas /\ d \in [Arenas -> Seq(Item)] /\ d[t] \in Seq(Item) /\ old \in Item
  BY DEF Arenas, SoundTree
<1>2. n \in Nat \ {0} /\ here \in Refs
  <2>1. n \in Nat \ {0}
    BY <1>1
  <2> QED
    BY <1>1, <2>1 DEF Refs
<1>3. /\ new \in Item /\ new.self = old.self /\ new.parent = old.parent
      /\ new.kind = old.kind /\ new.children = old.children
      /\ new.points = old.points \cup {target} /\ new.from = old.from
  BY <1>1 DEF Item
<1> HIDE DEF new, old
<1>4. /\ list \in Seq(Item) /\ Len(list) = Len(d[t]) /\ DOMAIN list = DOMAIN d[t]
      /\ list[n] = new /\ \A i \in DOMAIN d[t] : i # n => list[i] = d[t][i]
  BY <1>1, <1>3
<1> HIDE DEF list
<1>5. /\ e \in [Arenas -> Seq(Item)] /\ e[t] = list
      /\ \A b \in Arenas : b # t => e[b] = d[b]
  BY <1>1, <1>4
<1>6. e = [d EXCEPT !["tables"][n].points = @ \cup {target}]
  BY <1>1 DEF list, new, old
<1> HIDE DEF e
<1>7. \A ref \in Refs : Resolves(e, ref) <=> Resolves(d, ref)
  <2> SUFFICES ASSUME NEW ref \in Refs PROVE Resolves(e, ref) <=> Resolves(d, ref)
    OBVIOUS
  <2>1. CASE ref[1] = t
    BY <2>1, <1>4, <1>5 DEF Resolves
  <2>2. CASE ref[1] # t
    BY <2>2, <1>5 DEF Resolves
  <2> QED
    BY <2>1, <2>2
<1>8. \A ref \in Refs : Resolves(d, ref) =>
        \/ At(e, ref) = At(d, ref)
        \/ ref = here /\ At(e, ref) = new /\ At(d, ref) = old
  <2> SUFFICES ASSUME NEW ref \in Refs, Resolves(d, ref)
               PROVE  \/ At(e, ref) = At(d, ref)
                      \/ ref = here /\ At(e, ref) = new /\ At(d, ref) = old
    OBVIOUS
  <2>1. ref = <<ref[1], ref[2]>> /\ ref[1] \in Arenas /\ ref[2] \in DOMAIN d[ref[1]]
    BY DEF Refs, Resolves
  <2>2. CASE ref[1] # t
    BY <2>1, <2>2, <1>5 DEF At
  <2>3. CASE ref[1] = t /\ ref[2] # n
    BY <2>1, <2>3, <1>4, <1>5 DEF At
  <2>4. CASE ref[1] = t /\ ref[2] = n
    BY <2>1, <2>4, <1>4, <1>5 DEF At, old
  <2> QED
    BY <2>2, <2>3, <2>4
<1>9. \A ref \in Refs : Resolves(d, ref) =>
        /\ At(e, ref).self = At(d, ref).self /\ At(e, ref).parent = At(d, ref).parent
        /\ At(e, ref).kind = At(d, ref).kind /\ At(e, ref).children = At(d, ref).children
        /\ At(e, ref).from = At(d, ref).from
        /\ \A p \in At(e, ref).points : p \in At(d, ref).points \/ p = target
  BY <1>8, <1>3
<1>10. \A ref \in Refs : CanHold(d, ref) => CanHold(e, ref)
  BY <1>7, <1>9 DEF CanHold
<1>11. SoundDoc(e)
  <2> SUFFICES ASSUME NEW ref \in Refs, Resolves(e, ref) PROVE SoundItem(e, ref)
    BY DEF SoundDoc
  <2>1. Resolves(d, ref) /\ SoundItem(d, ref) /\ At(d, ref) \in Item
    BY <1>1, <1>7, ItemsAreItems DEF SoundTree, SoundDoc
  <2>2. \A i \in DOMAIN At(e, ref).children : Resolves(e, At(e, ref).children[i])
    <3>1. \A i \in DOMAIN At(d, ref).children : At(d, ref).children[i] \in Refs
      <4>1. At(d, ref).children \in Seq(Refs)
        BY <2>1 DEF Item
      <4> QED
        BY <4>1
    <3> QED
      BY <2>1, <3>1, <1>7, <1>9 DEF SoundItem
  <2>3. At(e, ref).parent # NoRef =>
          /\ Resolves(e, At(e, ref).parent)
          /\ \E i \in DOMAIN At(e, At(e, ref).parent).children :
               At(e, At(e, ref).parent).children[i] = ref
    <3>1. At(d, ref).parent # NoRef =>
            At(d, ref).parent \in Refs /\ Resolves(d, At(d, ref).parent)
      BY <2>1 DEF Item, SoundItem
    <3> QED
      BY <2>1, <3>1, <1>7, <1>9 DEF SoundItem
  <2>4. \A p \in At(e, ref).points : Resolves(e, p)
    <3>1. \A p \in At(d, ref).points : p \in Refs /\ Resolves(d, p)
      BY <2>1 DEF Item, SoundItem
    <3> QED
      BY <2>1, <3>1, <1>7, <1>9
  <2>5. At(e, ref).self = ref
    BY <2>1, <1>9 DEF SoundItem
  <2> QED
    BY <2>2, <2>3, <2>4, <2>5 DEF SoundItem
<1>12. Len(d["tables"]) <= Len(e["tables"])
  BY <1>1, <1>4, <1>5
<1>13. Grown(d, e)
  BY <1>7, <1>10, <1>12 DEF Grown
<1>14. SameTree(d, e)
  BY <1>7, <1>9 DEF SameTree
<1> QED
  BY <1>5, <1>6, <1>11, <1>13, <1>14 DEF SoundTree

LEMMA FactStep ==
  ASSUME FoldInv, NEW e \in Events, OnFact(e)
  PROVE  StepInv
PROOF
<1> DEFINE parent == CurrentParent(headings)
           ref == NextRef(doc, "tables")
           new == NewItem(ref, parent, "table")
           opened == IF factsTable = 0 THEN AddItem(doc, "tables", new) ELSE doc
           index == IF factsTable = 0 THEN ref[2] ELSE factsTable
           self == NextRef(doc, "key_values")
           pairs == NewItem(self, parent, "key_values")
           graphed == AddItem(opened, "key_values", pairs)
           pointed == [graphed EXCEPT !["tables"][index].points = @ \cup {self}]
<1>1. /\ parent \in Refs /\ CanHold(doc, parent) /\ ref \in Refs /\ self \in Refs
      /\ "tables" \in Arenas /\ "key_values" \in Arenas /\ Len(doc["tables"]) \in Nat
  BY InvFacts DEF Arenas
<1> HIDE DEF parent
<1>2. /\ new \in Item /\ new.self = ref /\ new.parent = parent
      /\ new.children = <<>> /\ new.points = {}
  BY <1>1, InvFacts, NewItemIs DEF Kinds
<1>3. /\ pairs \in Item /\ pairs.self = self /\ pairs.parent = parent
      /\ pairs.children = <<>> /\ pairs.points = {}
  BY <1>1, InvFacts, NewItemIs DEF Kinds
<1> HIDE DEF new, pairs
<1>4. /\ SoundTree(opened) /\ Grown(doc, opened) /\ index \in 1..Len(opened["tables"])
  <2>1. CASE factsTable = 0
    <3>1. LET f == AddItem(doc, "tables", new) IN
            SoundTree(f) /\ Grown(doc, f) /\ Len(f["tables"]) = Len(doc["tables"]) + 1
      BY <1>1, <1>2, InvFacts, AddNew
    <3>2. ref[2] = Len(doc["tables"]) + 1
      BY DEF NextRef
    <3> QED
      BY <2>1, <3>1, <3>2, <1>1
  <2>2. CASE factsTable # 0
    <3>1. factsTable \in 1..Len(doc["tables"])
      BY <2>2, <1>1 DEF FoldInv, TableInv
    <3> QED
      BY <2>2, <3>1, InvFacts, GrownItself
  <2> QED
    BY <2>1, <2>2
<1>5. self = NextRef(opened, "key_values")
  <2>1. CASE factsTable = 0
    <3>1. Len(AddItem(doc, "tables", new)["key_values"]) = Len(doc["key_values"])
      <4>1. "key_values" # "tables" /\ doc \in [Arenas -> Seq(Item)]
        BY InvFacts
      <4> QED
        BY <4>1, <1>1, <1>2, OtherArena
    <3> QED
      BY <2>1, <3>1 DEF NextRef
  <2>2. CASE factsTable # 0
    BY <2>2
  <2> QED
    BY <2>1, <2>2
<1>6. /\ doc' = IF e.dimensions THEN pointed ELSE opened
      /\ factsTable' = index /\ headings' = headings /\ lists' = <<>>
      /\ UNCHANGED <<attachments, table, anchors>>
  BY <1>2, <1>3 DEF parent, new, pairs, OnFact, EndListRun
<1> HIDE DEF opened, index
<1>7. SoundTree(graphed) /\ Grown(opened, graphed) /\ Resolves(graphed, self)
  <2>1. CanHold(opened, parent)
    BY <1>1, <1>4 DEF Grown
  <2> QED
    BY <2>1, <1>1, <1>3, <1>4, <1>5, AddNew
<1> HIDE DEF graphed
<1>8. index \in DOMAIN graphed["tables"]
  <2>1. Len(opened["tables"]) <= Len(graphed["tables"])
    BY <1>7 DEF Grown
  <2>2. /\ DOMAIN graphed["tables"] = 1..Len(graphed["tables"])
        /\ Len(graphed["tables"]) \in Nat /\ Len(opened["tables"]) \in Nat
    BY <1>1, <1>4, <1>7 DEF SoundTree
  <2> QED
    BY <2>1, <2>2, <1>4
<1>9. SoundTree(pointed) /\ Grown(graphed, pointed)
  BY <1>1, <1>7, <1>8, PointKeeps
<1> HIDE DEF pointed
<1>10. SoundTree(doc') /\ Grown(opened, doc')
  <2>1. Grown(opened, pointed)
    BY <1>4, <1>7, <1>9, GrownTwice DEF SoundTree
  <2>2. Grown(opened, opened)
    BY <1>4, GrownItself DEF SoundTree
  <2> QED
    BY <2>1, <2>2, <1>4, <1>6, <1>9
<1>11. Grown(doc, doc')
  BY <1>4, <1>10, InvFacts, GrownTwice DEF SoundTree
<1>12. TreeInv' /\ AttachedInv' /\ HoldsAll(doc', headings)
  BY <1>6, <1>10, <1>11, Carried DEF TreeInv, FoldInv, AttachedInv
<1>13. factsTable' \in 0..Len(doc'["tables"])
  <2>1. Len(opened["tables"]) <= Len(doc'["tables"])
    BY <1>10 DEF Grown
  <2>2. Len(opened["tables"]) \in Nat /\ Len(doc'["tables"]) \in Nat
    BY <1>1, <1>4, <1>10 DEF SoundTree
  <2> QED
    BY <2>1, <2>2, <1>4, <1>6
<1>14. TableInv'
  BY <1>6, <1>10, <1>11, <1>13, Carried DEF FoldInv, TableInv
<1>15. StacksInv' /\ AnchorsType'
  BY <1>6, <1>12, InvFacts, EmptyStack DEF StacksInv, AnchorsType
<1> QED
  BY <1>12, <1>14, <1>15 DEF StepInv

-----------------------------------------------------------------------------
(* Beginnings and endings.                                                 *)

LEMMA EmptyTree ==
  /\ \A ref \in Refs : Resolves(EmptyDoc, ref) <=> ref = Body \/ ref = Furniture
  /\ At(EmptyDoc, Body) = Root(Body) /\ At(EmptyDoc, Furniture) = Root(Furniture)
PROOF
<1>1. /\ EmptyDoc["body"] = <<Root(Body)>> /\ EmptyDoc["furniture"] = <<Root(Furniture)>>
      /\ \A a \in Arenas : a \notin RootArenas => EmptyDoc[a] = <<>>
  BY DEF EmptyDoc, Arenas, RootArenas
<1>2. \A ref \in Refs : Resolves(EmptyDoc, ref) => ref = Body \/ ref = Furniture
  <2> SUFFICES ASSUME NEW ref \in Refs, Resolves(EmptyDoc, ref)
               PROVE  ref = Body \/ ref = Furniture
    OBVIOUS
  <2>1. ref = <<ref[1], ref[2]>> /\ ref[1] \in Arenas /\ ref[2] \in DOMAIN EmptyDoc[ref[1]]
    BY DEF Refs, Resolves
  <2>2. CASE ref[1] = "body"
    <3>1. ref[2] = 1
      BY <2>1, <2>2, <1>1
    <3> QED
      BY <2>1, <2>2, <3>1 DEF Body
  <2>3. CASE ref[1] = "furniture"
    <3>1. ref[2] = 1
      BY <2>1, <2>3, <1>1
    <3> QED
      BY <2>1, <2>3, <3>1 DEF Furniture
  <2>4. CASE ref[1] \notin RootArenas
    BY <2>1, <2>4, <1>1
  <2> QED
    BY <2>2, <2>3, <2>4 DEF RootArenas
<1>3. At(EmptyDoc, Body) = Root(Body) /\ At(EmptyDoc, Furniture) = Root(Furniture)
  BY <1>1 DEF At, Body, Furniture
<1>4. Resolves(EmptyDoc, Body) /\ Resolves(EmptyDoc, Furniture)
  BY <1>1 DEF Resolves, Body, Furniture, Arenas, RootArenas
<1> QED
  BY <1>2, <1>3, <1>4

LEMMA EmptyIsSound ==
  SoundTree(EmptyDoc) /\ CanHold(EmptyDoc, Body) /\ CanHold(EmptyDoc, Furniture)
PROOF
<1>1. Root(Body) \in Item /\ Root(Furniture) \in Item
  <2> SUFFICES ASSUME NEW self \in Refs PROVE Root(self) \in Item
    BY RefsAreRefs
  <2>1. [name \in Names |-> NoRef] \in [Names -> Refs \cup {NoRef}] /\ <<>> \in Seq(Refs)
    OBVIOUS
  <2>2. "root" \in Kinds
    BY DEF Kinds
  <2> QED
    BY <2>1, <2>2 DEF Root, ItemFrom, Item
<1>2. /\ EmptyDoc["body"] = <<Root(Body)>> /\ EmptyDoc["furniture"] = <<Root(Furniture)>>
      /\ \A a \in Arenas : a \notin RootArenas => EmptyDoc[a] = <<>>
  BY DEF EmptyDoc, Arenas, RootArenas
<1>3. EmptyDoc \in [Arenas -> Seq(Item)]
  <2> SUFFICES ASSUME NEW a \in Arenas PROVE EmptyDoc[a] \in Seq(Item)
    BY DEF EmptyDoc
  <2>1. CASE a = "body"
    BY <2>1, <1>1, <1>2
  <2>2. CASE a = "furniture"
    BY <2>2, <1>1, <1>2
  <2>3. CASE a \notin RootArenas
    <3>1. <<>> \in Seq(Item)
      OBVIOUS
    <3>2. EmptyDoc[a] = <<>>
      BY <2>3, <1>2
    <3> QED
      BY ONLY <3>1, <3>2
  <2> QED
    BY <2>1, <2>2, <2>3 DEF RootArenas
<1>4. /\ \A ref \in Refs : Resolves(EmptyDoc, ref) <=> ref = Body \/ ref = Furniture
      /\ At(EmptyDoc, Body) = Root(Body) /\ At(EmptyDoc, Furniture) = Root(Furniture)
  BY EmptyTree
<1>5. \A self : /\ Root(self).self = self /\ Root(self).children = <<>>
                /\ Root(self).parent = NoRef /\ Root(self).points = {}
  BY DEF Root, ItemFrom
<1>6. SoundDoc(EmptyDoc)
  BY <1>4, <1>5 DEF SoundDoc, SoundItem
<1>7. CanHold(EmptyDoc, Body) /\ CanHold(EmptyDoc, Furniture)
  BY <1>4, RefsAreRefs DEF CanHold, Body, Furniture, RootArenas
<1> QED
  BY <1>3, <1>6, <1>7 DEF SoundTree

(* publish_anchors fills in targets and touches nothing else.              *)
LEMMA PublishedKeeps ==
  ASSUME NEW d, SoundTree(d), NEW known, DOMAIN known \subseteq Names,
         \A name \in DOMAIN known : known[name] \in Refs
  PROVE  /\ SoundTree(Published(d, known)) /\ SameTree(d, Published(d, known))
         /\ \A ref \in Refs : Resolves(d, ref) => Resolves(Published(d, known), ref)
PROOF
<1> DEFINE e == Published(d, known)
<1>1. d \in [Arenas -> Seq(Item)]
  BY DEF SoundTree
<1>2. \A item \in Item :
        /\ Linked(item, known) \in Item
        /\ Linked(item, known).self = item.self
        /\ Linked(item, known).parent = item.parent
        /\ Linked(item, known).children = item.children
        /\ Linked(item, known).points = item.points
        /\ Linked(item, known).from = item.from
  <2> SUFFICES ASSUME NEW item \in Item
               PROVE  /\ Linked(item, known) \in Item
                      /\ Linked(item, known).self = item.self
                      /\ Linked(item, known).parent = item.parent
                      /\ Linked(item, known).children = item.children
                      /\ Linked(item, known).points = item.points
                      /\ Linked(item, known).from = item.from
    OBVIOUS
  <2> DEFINE targets == [name \in Names |-> IF name \in item.cites \cap DOMAIN known
                                            THEN known[name] ELSE NoRef]
  <2>1. targets \in [Names -> Refs \cup {NoRef}]
    OBVIOUS
  <2>2. Linked(item, known) = [item EXCEPT !.targets = targets]
    BY DEF Linked
  <2> HIDE DEF targets
  <2> QED
    BY <2>1, <2>2 DEF Item
<1>3. \A a \in Arenas :
        /\ e[a] \in Seq(Item) /\ DOMAIN e[a] = DOMAIN d[a]
        /\ \A i \in DOMAIN d[a] : e[a][i] = d[a][i] \/ e[a][i] = Linked(d[a][i], known)
  <2> SUFFICES ASSUME NEW a \in Arenas
               PROVE  /\ e[a] \in Seq(Item) /\ DOMAIN e[a] = DOMAIN d[a]
                      /\ \A i \in DOMAIN d[a] :
                           e[a][i] = d[a][i] \/ e[a][i] = Linked(d[a][i], known)
    OBVIOUS
  <2>1. d[a] \in Seq(Item) /\ \A i \in DOMAIN d[a] : d[a][i] \in Item
    BY <1>1
  <2>2. CASE a \in {"texts", "tables"}
    <3>1. e[a] = [i \in DOMAIN d[a] |-> Linked(d[a][i], known)]
      BY <2>2 DEF Published
    <3>2. DOMAIN d[a] = 1..Len(d[a]) /\ Len(d[a]) \in Nat
      BY <2>1
    <3>3. \A i \in DOMAIN d[a] : Linked(d[a][i], known) \in Item
      BY <2>1, <1>2
    <3>4. e[a] \in [1..Len(d[a]) -> Item]
      BY <3>1, <3>2, <3>3
    <3>5. e[a] \in Seq(Item)
      BY <3>2, <3>4
    <3> QED
      BY <3>1, <3>5
  <2>3. CASE a \notin {"texts", "tables"}
    BY <2>1, <2>3 DEF Published
  <2> QED
    BY <2>2, <2>3
<1>4. e \in [Arenas -> Seq(Item)]
  <2>1. DOMAIN e = Arenas /\ e = [a \in Arenas |-> e[a]]
    BY DEF Published
  <2> QED
    BY <2>1, <1>3
<1> HIDE DEF e
<1>5. \A ref \in Refs : Resolves(e, ref) <=> Resolves(d, ref)
  BY <1>3 DEF Resolves
<1>6. \A ref \in Refs : Resolves(d, ref) =>
        /\ At(e, ref).self = At(d, ref).self /\ At(e, ref).parent = At(d, ref).parent
        /\ At(e, ref).children = At(d, ref).children
        /\ At(e, ref).points = At(d, ref).points /\ At(e, ref).from = At(d, ref).from
  <2> SUFFICES ASSUME NEW ref \in Refs, Resolves(d, ref)
               PROVE  /\ At(e, ref).self = At(d, ref).self
                      /\ At(e, ref).parent = At(d, ref).parent
                      /\ At(e, ref).children = At(d, ref).children
                      /\ At(e, ref).points = At(d, ref).points
                      /\ At(e, ref).from = At(d, ref).from
    OBVIOUS
  <2>1. At(d, ref) \in Item
    BY <1>1, ItemsAreItems
  <2>2. At(e, ref) = At(d, ref) \/ At(e, ref) = Linked(At(d, ref), known)
    BY <1>3 DEF Resolves, At
  <2> QED
    BY <2>1, <2>2, <1>2
<1>7. SoundDoc(e)
  <2> SUFFICES ASSUME NEW ref \in Refs, Resolves(e, ref) PROVE SoundItem(e, ref)
    BY DEF SoundDoc
  <2>1. Resolves(d, ref) /\ SoundItem(d, ref) /\ At(d, ref) \in Item
    BY <1>1, <1>5, ItemsAreItems DEF SoundTree, SoundDoc
  <2>2. \A i \in DOMAIN At(e, ref).children : Resolves(e, At(e, ref).children[i])
    <3>1. At(d, ref).children \in Seq(Refs)
      BY <2>1 DEF Item
    <3>2. \A i \in DOMAIN At(d, ref).children : At(d, ref).children[i] \in Refs
      BY <3>1
    <3> QED
      BY <2>1, <3>2, <1>5, <1>6 DEF SoundItem
  <2>3. At(e, ref).parent # NoRef =>
          /\ Resolves(e, At(e, ref).parent)
          /\ \E i \in DOMAIN At(e, At(e, ref).parent).children :
               At(e, At(e, ref).parent).children[i] = ref
    <3>1. At(d, ref).parent # NoRef =>
            At(d, ref).parent \in Refs /\ Resolves(d, At(d, ref).parent)
      BY <2>1 DEF Item, SoundItem
    <3> QED
      BY <2>1, <3>1, <1>5, <1>6 DEF SoundItem
  <2>4. \A p \in At(e, ref).points : Resolves(e, p)
    <3>1. \A p \in At(d, ref).points : p \in Refs /\ Resolves(d, p)
      BY <2>1 DEF Item, SoundItem
    <3> QED
      BY <2>1, <3>1, <1>5, <1>6
  <2>5. At(e, ref).self = ref
    BY <2>1, <1>6 DEF SoundItem
  <2> QED
    BY <2>2, <2>3, <2>4, <2>5 DEF SoundItem
<1>8. SameTree(d, e)
  BY <1>5, <1>6 DEF SameTree
<1> QED
  BY <1>4, <1>5, <1>7, <1>8 DEF SoundTree, e

LEMMA NothingTakenIsSound ==
  SoundTree(NothingTaken.doc) /\ AttachedIn(NothingTaken.doc, NothingTaken.attachments)
<1>1. NothingTaken.doc = EmptyDoc /\ NothingTaken.attachments = <<>>
  BY DEF NothingTaken
<1> QED
  BY <1>1, EmptyIsSound DEF AttachedIn

LEMMA InitInv == Init => FoldInv
PROOF
<1> SUFFICES ASSUME Init PROVE FoldInv
  OBVIOUS
<1>1. TreeInv
  BY EmptyIsSound DEF Init, TreeInv
<1>2. StacksInv
  BY EmptyStack DEF Init, StacksInv
<1>3. Len(doc["tables"]) \in Nat
  BY <1>1 DEF TreeInv, SoundTree, Arenas
<1>4. TableInv
  BY <1>1, <1>3, NoTableIsOpenTable DEF Init, TableInv, TreeInv
<1>5. AttachedInv
  BY DEF Init, AttachedInv, AttachedIn
<1>6. AnchorsType
  BY DEF Init, AnchorsType
<1>7. TakenInv
  BY NothingTakenIsSound DEF Init, TakenInv
<1>8. vocabulary \subseteq Events /\ given \in 0..MaxEvents
  BY DocumentFoldAssumption DEF Init
<1> QED
  BY <1>1, <1>2, <1>4, <1>5, <1>6, <1>7, <1>8 DEF FoldInv

LEMMA ConsumeStep ==
  ASSUME FoldInv, NEW e \in vocabulary, Consume(e)
  PROVE  FoldInv'
PROOF
<1>1. e \in Events
  BY DEF FoldInv
<1>2. ASSUME OnText(e) PROVE StepInv
  <2>1. e \in TextEvents
    BY <1>1, <1>2 DEF OnText, Events, PictureEvents, StartEvents, RowEvents, EndEvents,
                      FactEvents, NoteEvents, CitationEvents, IslandEvents, OtherEvents
  <2> QED
    BY <1>2, <2>1, PushTextStep DEF OnText
<1>3. StepInv
  BY <1>1, <1>2, NoteStep, CitationStep, PictureStep, IslandStep, TableStartStep,
     TableRowStep, TableEndStep, FactStep, IgnoredStep DEF Consume, OnOther
<1>4. TakenInv'
  BY NothingTakenIsSound DEF Consume, TakenInv
<1>5. given' \in 0..MaxEvents /\ vocabulary' \subseteq Events
  BY DocumentFoldAssumption DEF Consume, FoldInv
<1> QED
  BY <1>3, <1>4, <1>5 DEF StepInv, FoldInv

LEMMA TakeStep ==
  ASSUME FoldInv, Take
  PROVE  FoldInv'
PROOF
<1>1. /\ doc' = EmptyDoc /\ attachments' = <<>> /\ table' = NoTable /\ factsTable' = 0
      /\ headings' = <<>> /\ lists' = <<>> /\ anchors' = <<>>
      /\ UNCHANGED <<given, vocabulary>>
      /\ taken'.doc = Published(WithTable(doc), TableClaimed(doc))
      /\ taken'.attachments = attachments
  BY DEF Take, CloseSections, EndListRun
<1>2. TreeInv'
  BY <1>1, EmptyIsSound DEF TreeInv
<1>3. StacksInv'
  BY <1>1, EmptyStack DEF StacksInv
<1>4. Len(doc'["tables"]) \in Nat
  BY <1>2 DEF TreeInv, SoundTree, Arenas
<1>5. TableInv'
  BY <1>1, <1>2, <1>4, NoTableIsOpenTable DEF TableInv, TreeInv
<1>6. AttachedInv' /\ AnchorsType'
  BY <1>1 DEF AttachedInv, AttachedIn, AnchorsType
<1>7. TakenInv'
  <2>1. /\ SoundTree(WithTable(doc)) /\ Grown(doc, WithTable(doc))
    BY WithTableKeeps
  <2>2. /\ SoundTree(taken'.doc)
        /\ \A ref \in Refs : Resolves(WithTable(doc), ref) => Resolves(taken'.doc, ref)
    BY <1>1, WithTableKeeps, PublishedKeeps
  <2>3. AttachedIn(WithTable(doc), attachments)
    BY <2>1, Carried
  <2>4. \A i \in DOMAIN attachments : attachments[i] \in Refs
    BY DEF FoldInv, AttachedInv
  <2> QED
    BY <1>1, <2>2, <2>3, <2>4 DEF TakenInv, AttachedIn
<1> QED
  BY <1>1, <1>2, <1>3, <1>5, <1>6, <1>7 DEF FoldInv

LEMMA StutterStep ==
  ASSUME FoldInv, UNCHANGED foldVars
  PROVE  FoldInv'
BY DEF FoldInv, TreeInv, StacksInv, TableInv, AttachedInv, AnchorsType, TakenInv, foldVars

THEOREM InvCorrect == Spec => []FoldInv
<1>1. FoldInv /\ [Next]_foldVars => FoldInv'
  BY ConsumeStep, TakeStep, StutterStep DEF Next
<1> QED
  BY <1>1, InitInv, PTL DEF Spec

(* Arenas, stacks, the open table and the names keep to their ranges,      *)
(* whatever events come and in whatever order (mod.rs:121-178).            *)
THEOREM TreeTypeCorrect == Spec => []TreeType
<1>1. FoldInv => TreeType
  BY DEF FoldInv, TreeInv, SoundTree, StacksInv, TableInv, AttachedInv, AnchorsType,
         TreeType, OpenSections, OpenLists
<1> QED
  BY <1>1, InvCorrect, PTL

LEMMA SoundHere ==
  ASSUME NEW d, SoundTree(d)
  PROVE  \A ref \in AllRefs(d) : SoundItem(d, ref)
PROOF
<1> SUFFICES ASSUME NEW ref \in AllRefs(d) PROVE SoundItem(d, ref)
  OBVIOUS
<1>1. PICK a \in Arenas : ref \in {a} \X DOMAIN d[a]
  BY DEF AllRefs
<1>2. ref[1] = a /\ ref[2] \in DOMAIN d[a] /\ ref = <<a, ref[2]>>
  BY <1>1
<1>3. d[a] \in Seq(Item)
  BY DEF SoundTree
<1>4. ref \in Refs /\ Resolves(d, ref)
  BY <1>2, <1>3 DEF Refs, Resolves
<1> QED
  BY <1>4 DEF SoundTree, SoundDoc

(* The merge contract holds of the tree being built and of every Document  *)
(* taken: positions and self references agree, every reference resolves    *)
(* and who names a parent is among its children (integrity.rs:12-26).      *)
THEOREM SoundCorrect == Spec => []Sound
<1>1. FoldInv => Sound
  BY SoundHere DEF FoldInv, TreeInv, AttachedInv, TakenInv, Sound
<1> QED
  BY <1>1, InvCorrect, PTL

=============================================================================
