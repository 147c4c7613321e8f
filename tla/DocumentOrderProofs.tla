-------------------------- MODULE DocumentOrderProofs --------------------------
(***************************************************************************)
(* Where the fold puts things, for every vocabulary and every number of    *)
(* events: sections nest by level, a list is contiguous, a name stands for *)
(* the first item that carries it, every item is met once from the roots,  *)
(* and in the order the events came in.                                    *)
(***************************************************************************)
EXTENDS DocumentFoldProofs, DataInduction

-----------------------------------------------------------------------------
(* What of an item stays as it was made.  Its children and the cells that  *)
(* point elsewhere are added to, and its targets filled in, and nothing    *)
(* below is about those.                                                   *)

Shape(x) ==
  [self |-> x.self, parent |-> x.parent, kind |-> x.kind, from |-> x.from,
   level |-> x.level, ordered |-> x.ordered, id |-> x.id, cites |-> x.cites]
Shapes(d) == {Shape(x) : x \in AllItems(d)}

IsHeading(x) == x.kind = "heading"
IsListItem(x) == x.kind = "text" /\ x.level > 0

(* What comes before a table that is open, whatever is added meanwhile. *)
Marked(x) == x.id # NoName \/ IsHeading(x) \/ IsListItem(x)

Dated(S, now) == \A x \in S : x.from \in 0..now

-----------------------------------------------------------------------------
(* Names.                                                                  *)

(* Only what publish_anchors looks at has references. *)
Cited(S) ==
  \A x \in S : x.cites \subseteq Names
               /\ (x.cites # {} => x.self[1] \in {"texts", "tables"})

Homes(S, name) == {x \in S : x.id = name /\ x.kind # "island"}

(* A name stands for the first of its homes, and for one if it has any. *)
Answered(S, known) ==
  \A name \in Names :
    \/ name \notin DOMAIN known /\ Homes(S, name) = {}
    \/ /\ name \in DOMAIN known
       /\ \E x \in Homes(S, name) :
            /\ x.self = known[name]
            /\ \A y \in Homes(S, name) : y = x \/ x.from < y.from

-----------------------------------------------------------------------------
(* Sections.                                                               *)

Opens(S, open, h) ==
  h \in S /\ IsHeading(h) /\ h.self = open.ref /\ h.level = open.level

HeadingPlaces(S) == \A h \in S : IsHeading(h) => h.self[1] = "texts"
HeadingsDiffer(S) ==
  \A h, k \in S : IsHeading(h) /\ IsHeading(k) /\ h.from = k.from => h = k
HeadingsFound(S, open) == \A i \in DOMAIN open : \E h \in S : Opens(S, open[i], h)
LevelsRise(open) == \A i, j \in DOMAIN open : i < j => open[i].level < open[j].level
HeadingsRise(S, open) ==
  \A i, j \in DOMAIN open : \A h, k \in S :
    i < j /\ Opens(S, open[i], h) /\ Opens(S, open[j], k) => h.from < k.from
HeadingsReach(S, open) ==
  \A h \in S : IsHeading(h) =>
    \E i \in DOMAIN open : \E k \in S :
      Opens(S, open[i], k) /\ h.from <= k.from /\ k.level <= h.level

(* The open headings are in the tree, in the order of their levels and of  *)
(* the stream, and after every heading one is open that it does not end.   *)
SectionsOpen(S, open) ==
  /\ HeadingPlaces(S) /\ HeadingsDiffer(S) /\ HeadingsFound(S, open)
  /\ LevelsRise(open) /\ HeadingsRise(S, open) /\ HeadingsReach(S, open)

Above(S, x) ==
  {h \in S : IsHeading(h) /\ h.from < x.from /\ (IsHeading(x) => h.level < x.level)}

Placed(S, x) ==
  \/ Above(S, x) = {} /\ x.parent = Body
  \/ \E h \in Above(S, x) : x.parent = h.self /\ \A k \in Above(S, x) : k.from <= h.from

Nested(S) == \A x \in S : x.parent[1] \in {"body", "texts"} => Placed(S, x)

-----------------------------------------------------------------------------
(* Lists.                                                                  *)

(* z goes on with the list that x is in, or with one inside it. *)
GoesOn(x, z) ==
  IsListItem(z) /\ (z.level > x.level \/ (z.level = x.level /\ z.ordered = x.ordered))

Interrupts(z) == z.parent # Furniture /\ z.kind # "list"

Unbroken(S, x) == \A z \in S : x.from < z.from /\ Interrupts(z) => GoesOn(x, z)

RunTo(S, x, y) ==
  \A z \in S : x.from < z.from /\ z.from < y.from /\ Interrupts(z) => GoesOn(x, z)

(* A list item is in a group. *)
Grouped(S) == \A x \in S : IsListItem(x) => x.parent[1] = "groups"

DepthsRise(open) == \A i, j \in DOMAIN open : i < j => open[i].depth < open[j].depth
ListsInside(S, open) ==
  \A i \in DOMAIN open : i > 1 =>
    \E g \in S : g.self = open[i].ref /\ g.parent = open[i - 1].ref
ItemsGoOn(S, open) ==
  \A x \in S : IsListItem(x) => \A i \in DOMAIN open : x.parent = open[i].ref =>
    Unbroken(S, x) /\ x.level = open[i].depth /\ x.ordered = open[i].ordered
RunsOpen(S, open) ==
  \A x \in S : IsListItem(x) /\ Unbroken(S, x) => \E i \in DOMAIN open : open[i].ref = x.parent
ListsFilled(S, open) ==
  \A i \in DOMAIN open : \E x \in S : IsListItem(x) /\ x.parent = open[i].ref
ItemsRise(S, open) ==
  \A i, j \in DOMAIN open : \A x, y \in S :
    /\ i < j /\ IsListItem(x) /\ IsListItem(y)
    /\ x.parent = open[i].ref /\ y.parent = open[j].ref
    => x.from < y.from

(* The open lists are nested by depth, each in the one before it; what is  *)
(* in them goes on, what goes on is in them unless something ended it that *)
(* the tree does not show (`calm'), and none is without an item.           *)
ListsOpen(S, open, calm) ==
  /\ DepthsRise(open) /\ ListsInside(S, open) /\ ItemsGoOn(S, open)
  /\ ListsFilled(S, open) /\ ItemsRise(S, open)
  /\ calm => RunsOpen(S, open)

(* What ListsContiguous says, of shapes; `facts' when there is a fact table. *)
PairApart(S, x, y) == x.parent = y.parent =>
  RunTo(S, x, y) /\ x.level = y.level /\ x.ordered = y.ordered
PairTogether(S, x, y) ==
  RunTo(S, x, y) /\ x.level = y.level /\ x.ordered = y.ordered => x.parent = y.parent
PairNested(S, x, y) ==
  /\ RunTo(S, x, y) /\ x.level < y.level
  /\ \A z \in S : IsListItem(z) /\ x.from < z.from /\ z.from < y.from => z.level >= y.level
  => \E g \in S : g.self = y.parent /\ g.parent = x.parent

Pairwise(S, facts) ==
  \A x, y \in S : IsListItem(x) /\ IsListItem(y) /\ x.from < y.from =>
    /\ PairApart(S, x, y)
    /\ ~facts => PairTogether(S, x, y) /\ PairNested(S, x, y)

-----------------------------------------------------------------------------
(* While a table is open the sections stay as they were when it began, and *)
(* nothing that has a name, opens a section or is in a list comes.         *)
TableWaits(S) ==
  table.open =>
    /\ table.from \in 1..given /\ table.parent = CurrentParent(headings)
    /\ \A x \in S : Marked(x) => x.from < table.from
    /\ lists = <<>>

Calm == ~table.open /\ factsTable = 0

OrderOf(S) ==
  /\ Dated(S, given) /\ Cited(S) /\ Answered(S, anchors)
  /\ SectionsOpen(S, headings) /\ Nested(S) /\ Grouped(S)
  /\ ListsOpen(S, lists, Calm) /\ Pairwise(S, factsTable # 0)
  /\ TableWaits(S)

OrderInv == OrderOf(Shapes(doc))

-----------------------------------------------------------------------------
(* The shapes of a tree that an item is added to.                          *)

ShapeType ==
  [self : Refs, parent : Refs \cup {NoRef}, kind : Kinds, from : Nat, level : Nat,
   ordered : BOOLEAN, id : Names \cup {NoName}, cites : SUBSET Names]

LEMMA RefsFound ==
  ASSUME NEW d, d \in [Arenas -> Seq(Item)]
  PROVE  \A ref : ref \in AllRefs(d) <=> ref \in Refs /\ Resolves(d, ref)
PROOF
<1>1. ASSUME NEW ref \in Refs, Resolves(d, ref) PROVE ref \in AllRefs(d)
  <2>1. ref = <<ref[1], ref[2]>> /\ ref[1] \in Arenas /\ ref[2] \in DOMAIN d[ref[1]]
    BY <1>1 DEF Refs, Resolves
  <2>2. ref \in {ref[1]} \X DOMAIN d[ref[1]]
    BY <2>1
  <2> QED
    BY <2>1, <2>2 DEF AllRefs
<1>2. ASSUME NEW ref \in AllRefs(d) PROVE ref \in Refs /\ Resolves(d, ref)
  <2>1. PICK a \in Arenas : ref \in {a} \X DOMAIN d[a]
    BY <1>2 DEF AllRefs
  <2>2. ref[1] = a /\ ref[2] \in DOMAIN d[a] /\ ref = <<a, ref[2]>>
    BY <2>1
  <2>3. d[a] \in Seq(Item)
    OBVIOUS
  <2> QED
    BY <2>2, <2>3 DEF Refs, Resolves
<1> QED
  BY <1>1, <1>2

LEMMA ShapesByRef ==
  ASSUME NEW d, d \in [Arenas -> Seq(Item)]
  PROVE  /\ \A ref \in Refs : Resolves(d, ref) => Shape(At(d, ref)) \in Shapes(d)
         /\ \A x \in Shapes(d) : \E ref \in Refs : Resolves(d, ref) /\ x = Shape(At(d, ref))
  BY RefsFound DEF Shapes, AllItems

LEMMA ShapesTyped ==
  ASSUME NEW d, d \in [Arenas -> Seq(Item)]
  PROVE  Shapes(d) \subseteq ShapeType
PROOF
<1> SUFFICES ASSUME NEW x \in Shapes(d) PROVE x \in ShapeType
  OBVIOUS
<1>1. PICK ref \in Refs : Resolves(d, ref) /\ x = Shape(At(d, ref))
  BY ShapesByRef
<1>2. At(d, ref) \in Item
  BY <1>1, ItemsAreItems
<1> QED
  BY <1>1, <1>2 DEF Shape, Item, ShapeType

(* A sound tree has one item to a reference. *)
LEMMA ShapesKeyed ==
  ASSUME NEW d, SoundTree(d)
  PROVE  /\ \A x, y \in Shapes(d) : x.self = y.self => x = y
         /\ \A x \in Shapes(d) : Resolves(d, x.self) /\ x.self \in Refs
                                 /\ x = Shape(At(d, x.self))
PROOF
<1>1. ASSUME NEW x \in Shapes(d)
      PROVE  Resolves(d, x.self) /\ x.self \in Refs /\ x = Shape(At(d, x.self))
  <2>1. PICK ref \in Refs : Resolves(d, ref) /\ x = Shape(At(d, ref))
    BY ShapesByRef DEF SoundTree
  <2>2. At(d, ref).self = ref
    BY <2>1 DEF SoundTree, SoundDoc, SoundItem
  <2>3. x.self = ref
    BY <2>1, <2>2 DEF Shape
  <2> QED
    BY <2>1, <2>3
<1> QED
  BY <1>1

(* The new shape and those there were, and no other. *)
LEMMA AddShapes ==
  ASSUME NEW d, d \in [Arenas -> Seq(Item)], NEW arena \in Arenas, NEW item \in Item,
         item.self = NextRef(d, arena), CanHold(d, item.parent)
  PROVE  Shapes(AddItem(d, arena, item)) = Shapes(d) \cup {Shape(item)}
PROOF
<1> DEFINE b == [d EXCEPT ![arena] = Append(@, item)]
           e == LinkChild(b, item.parent, item.self)
           self == item.self
           parent == item.parent
<1>0. d \in [Arenas -> Seq(Item)] /\ arena \in Arenas /\ item \in Item
  OBVIOUS
<1>1. self \in Refs /\ parent \in Refs
  <2>1. Resolves(d, NoRef) => FALSE
    BY DEF Resolves, NoRef, Arenas, RootArenas
  <2> QED
    BY <2>1 DEF Item, CanHold
<1>2. /\ b \in [Arenas -> Seq(Item)]
      /\ \A ref \in Refs : Resolves(d, ref) => Resolves(b, ref) /\ At(b, ref) = At(d, ref)
      /\ \A ref \in Refs : CanHold(d, ref) => CanHold(b, ref)
      /\ \A ref \in Refs : Resolves(b, ref) => Resolves(d, ref) \/ ref = self
      /\ Resolves(b, self) /\ At(b, self) = item
  <2> HIDE DEF b
  <2>1. LET f == [d EXCEPT ![arena] = Append(@, item)] IN
         /\ f \in [Arenas -> Seq(Item)]
         /\ \A ref \in Refs : Resolves(d, ref) =>
              Resolves(f, ref) /\ At(f, ref) = At(d, ref)
         /\ \A ref \in Refs : CanHold(d, ref) => CanHold(f, ref)
         /\ \A ref \in Refs : Resolves(f, ref) =>
              Resolves(d, ref) \/ ref = NextRef(d, arena)
         /\ Resolves(f, NextRef(d, arena)) /\ At(f, NextRef(d, arena)) = item
         /\ NextRef(d, arena) \in Refs /\ ~Resolves(d, NextRef(d, arena))
         /\ Len(d["tables"]) <= Len(f["tables"])
    BY ONLY <1>0, AppendKeeps
  <2> QED
    BY <2>1 DEF b
<1>3. CanHold(b, parent)
  BY <1>1, <1>2
<1> HIDE DEF b
<1>4. /\ e \in [Arenas -> Seq(Item)]
      /\ \A ref \in Refs : Resolves(e, ref) <=> Resolves(b, ref)
      /\ \A ref \in Refs : Resolves(b, ref) /\ ref # parent => At(e, ref) = At(b, ref)
      /\ At(e, parent) = [At(b, parent) EXCEPT !.children = Append(@, self)]
  <2> HIDE DEF e, parent, self
  <2>1. b \in [Arenas -> Seq(Item)] /\ parent \in Refs /\ self \in Refs
    BY <1>1, <1>2
  <2>2. LET f == LinkChild(b, parent, self) IN
         /\ f \in [Arenas -> Seq(Item)]
         /\ \A ref \in Refs : Resolves(f, ref) <=> Resolves(b, ref)
         /\ \A ref \in Refs : CanHold(b, ref) => CanHold(f, ref)
         /\ \A ref \in Refs : Resolves(b, ref) /\ ref # parent => At(f, ref) = At(b, ref)
         /\ At(f, parent).self = At(b, parent).self
         /\ At(f, parent).parent = At(b, parent).parent
         /\ At(f, parent).kind = At(b, parent).kind
         /\ At(f, parent).points = At(b, parent).points
         /\ At(f, parent).children = Append(At(b, parent).children, self)
         /\ At(f, parent) = [At(b, parent) EXCEPT !.children = Append(@, self)]
         /\ Len(f["tables"]) = Len(b["tables"])
    BY ONLY <2>1, <1>3, LinkKeeps
  <2> QED
    BY <2>2 DEF e, parent, self
<1> HIDE DEF e
<1>5. \A ref \in Refs : Resolves(b, ref) => Shape(At(e, ref)) = Shape(At(b, ref))
  <2> SUFFICES ASSUME NEW ref \in Refs, Resolves(b, ref)
               PROVE  Shape(At(e, ref)) = Shape(At(b, ref))
    OBVIOUS
  <2>1. CASE ref # parent
    BY <2>1, <1>4
  <2>2. CASE ref = parent
    <3>1. At(b, ref) \in Item
      BY <1>2, ItemsAreItems
    <3>2. \A x \in Item : Shape([x EXCEPT !.children = Append(@, self)]) = Shape(x)
      BY DEF Shape, Item
    <3> QED
      BY <2>2, <3>1, <3>2, <1>4
  <2> QED
    BY <2>1, <2>2
<1>6. Shapes(e) = Shapes(d) \cup {Shape(item)}
  <2>1. ASSUME NEW x \in Shapes(e) PROVE x \in Shapes(d) \cup {Shape(item)}
    <3>1. PICK ref \in Refs : Resolves(e, ref) /\ x = Shape(At(e, ref))
      BY <2>1, <1>4, ShapesByRef
    <3>2. Resolves(b, ref) /\ x = Shape(At(b, ref))
      BY <3>1, <1>4, <1>5
    <3>3. CASE ref = self
      BY <3>2, <3>3, <1>2
    <3>4. CASE Resolves(d, ref)
      BY <3>2, <3>4, <1>2, ShapesByRef
    <3> QED
      BY <3>2, <3>3, <3>4, <1>2
  <2>2. ASSUME NEW x \in Shapes(d) PROVE x \in Shapes(e)
    <3>1. PICK ref \in Refs : Resolves(d, ref) /\ x = Shape(At(d, ref))
      BY <2>2, ShapesByRef
    <3>2. Resolves(b, ref) /\ x = Shape(At(b, ref))
      BY <3>1, <1>2
    <3>3. Resolves(e, ref) /\ x = Shape(At(e, ref))
      BY <3>2, <1>4, <1>5
    <3> QED
      BY <3>3, <1>4, ShapesByRef
  <2>3. Shape(item) \in Shapes(e)
    <3>1. Resolves(e, self) /\ Shape(At(e, self)) = Shape(item)
      BY <1>1, <1>2, <1>4, <1>5
    <3>2. Shape(At(e, self)) \in Shapes(e)
      BY <3>1, <1>1, <1>4, ShapesByRef
    <3> QED
      BY <3>1, <3>2
  <2> QED
    BY <2>1, <2>2, <2>3
<1> QED
  BY <1>6 DEF AddItem, e, b

-----------------------------------------------------------------------------
(* One item to a reference.                                                *)
Keyed(S) == \A x, y \in S : x.self = y.self => x = y

(* Names: the first to carry one keeps it.                                 *)

LEMMA NamesSkip ==
  ASSUME NEW S, NEW a, a.id = NoName \/ a.kind = "island",
         NEW known, Answered(S, known)
  PROVE  Answered(S \cup {a}, known)
PROOF
<1>1. \A name \in Names : Homes(S \cup {a}, name) = Homes(S, name)
  BY DocumentFoldAssumption DEF Homes
<1> QED
  BY <1>1 DEF Answered

LEMMA NamesClaim ==
  ASSUME NEW S, S \subseteq ShapeType, NEW a \in ShapeType, a.kind # "island",
         \A x \in S : x.id # NoName => x.from < a.from,
         NEW known, Answered(S, known)
  PROVE  Answered(S \cup {a}, Claimed(known, a.id, a.self))
PROOF
<1> DEFINE new == Claimed(known, a.id, a.self)
<1>1. CASE a.id = NoName
  BY <1>1, NamesSkip DEF Claimed
<1>2. CASE a.id # NoName
  <2> SUFFICES ASSUME NEW name \in Names
               PROVE  \/ name \notin DOMAIN new /\ Homes(S \cup {a}, name) = {}
                      \/ /\ name \in DOMAIN new
                         /\ \E x \in Homes(S \cup {a}, name) :
                              /\ x.self = new[name]
                              /\ \A y \in Homes(S \cup {a}, name) : y = x \/ x.from < y.from
    BY DEF Answered
  <2>1. CASE name # a.id
    <3>1. Homes(S \cup {a}, name) = Homes(S, name)
      BY <2>1 DEF Homes
    <3>2. (name \in DOMAIN new <=> name \in DOMAIN known)
          /\ (name \in DOMAIN known => new[name] = known[name])
      BY <2>1 DEF Claimed
    <3> QED
      BY <3>1, <3>2 DEF Answered
  <2>2. CASE name = a.id /\ name \in DOMAIN known
    <3>1. new = known
      BY <2>2 DEF Claimed
    <3>2. PICK x \in Homes(S, name) :
            x.self = known[name] /\ \A y \in Homes(S, name) : y = x \/ x.from < y.from
      BY <2>2 DEF Answered
    <3>3. x.from < a.from /\ x \in Homes(S \cup {a}, name)
      BY <2>2, <1>2, <3>2 DEF Homes
    <3>4. \A y \in Homes(S \cup {a}, name) : y = a \/ y \in Homes(S, name)
      BY DEF Homes
    <3> QED
      BY <2>2, <3>1, <3>2, <3>3, <3>4
  <2>3. CASE name = a.id /\ name \notin DOMAIN known
    <3>1. name \in DOMAIN new /\ new[name] = a.self
      BY <2>3, <1>2 DEF Claimed
    <3>2. Homes(S, name) = {}
      BY <2>3 DEF Answered
    <3>3. a \in Homes(S \cup {a}, name) /\ \A y \in Homes(S \cup {a}, name) : y = a
      BY <2>3, <3>2 DEF Homes
    <3> QED
      BY <3>1, <3>3
  <2> QED
    BY <2>1, <2>2, <2>3
<1> QED
  BY <1>1, <1>2

-----------------------------------------------------------------------------
(* Sections: what is added stands under the last heading it can.           *)

LEMMA NestedAdd ==
  ASSUME NEW S, S \subseteq ShapeType, NEW a \in ShapeType, Nested(S),
         IsHeading(a) => \A x \in S : x.from <= a.from,
         a.parent[1] \in {"body", "texts"} => Placed(S, a)
  PROVE  Nested(S \cup {a})
PROOF
<1>0. a.from \in Nat /\ \A x \in S : x.from \in Nat
  BY DEF ShapeType
<1>1. \A x \in S \cup {a} : Above(S \cup {a}, x) = Above(S, x)
  BY <1>0 DEF Above
<1>2. \A x \in S \cup {a} : Placed(S, x) => Placed(S \cup {a}, x)
  BY <1>1 DEF Placed
<1> QED
  BY <1>2 DEF Nested

LEMMA SectionsKeep ==
  ASSUME NEW S, NEW a, ~IsHeading(a), NEW open, SectionsOpen(S, open)
  PROVE  SectionsOpen(S \cup {a}, open)
PROOF
<1>1. \A h \in S \cup {a} : IsHeading(h) => h \in S
  OBVIOUS
<1>2. \A i, h : Opens(S \cup {a}, open[i], h) <=> Opens(S, open[i], h)
  BY <1>1 DEF Opens
<1>3. HeadingPlaces(S \cup {a}) /\ HeadingsDiffer(S \cup {a})
  BY <1>1 DEF SectionsOpen, HeadingPlaces, HeadingsDiffer
<1>4. HeadingsFound(S \cup {a}, open) /\ LevelsRise(open)
  BY <1>2 DEF SectionsOpen, HeadingsFound
<1>5. HeadingsRise(S \cup {a}, open)
  BY <1>2 DEF SectionsOpen, HeadingsRise, Opens
<1>6. HeadingsReach(S \cup {a}, open)
  BY <1>1, <1>2 DEF SectionsOpen, HeadingsReach
<1> QED
  BY <1>3, <1>4, <1>5, <1>6 DEF SectionsOpen

(* The first n of the open headings are those of a level below `level'.    *)
KeepsFirst(open, n, level) ==
  /\ \A i \in (n + 1)..Len(open) : open[i].level >= level
  /\ n > 0 => open[n].level < level

LEMMA LevelsKept ==
  ASSUME NEW S, NEW open \in Seq(OpenSections), SectionsOpen(S, open),
         NEW n \in 0..Len(open), NEW level \in Nat, KeepsFirst(open, n, level)
  PROVE  /\ \A i \in 1..n : i \in DOMAIN open /\ open[i].level < level
         /\ \A i \in DOMAIN open : open[i].level < level => i \in 1..n
PROOF
<1>1. \A i \in DOMAIN open : open[i].level \in Nat
  <2>1. \A i \in DOMAIN open : open[i] \in OpenSections
    OBVIOUS
  <2> QED
    BY <2>1 DEF OpenSections
<1>2. DOMAIN open = 1..Len(open) /\ Len(open) \in Nat
  OBVIOUS
<1>3. ASSUME NEW i \in 1..n PROVE open[i].level < level
  <2>1. n \in DOMAIN open /\ i \in DOMAIN open /\ open[n].level < level
    BY <1>2, <1>3 DEF KeepsFirst
  <2>2. CASE i = n
    BY <2>1, <2>2
  <2>3. CASE i < n
    <3>1. open[i].level < open[n].level
      BY <2>1, <2>3 DEF SectionsOpen, LevelsRise
    <3> QED
      BY <2>1, <3>1, <1>1
  <2> QED
    BY <2>2, <2>3, <1>3
<1>4. ASSUME NEW i \in DOMAIN open, open[i].level < level PROVE i \in 1..n
  <2>1. ~(i \in (n + 1)..Len(open))
    BY <1>1, <1>4 DEF KeepsFirst
  <2> QED
    BY <1>2, <2>1
<1> QED
  BY <1>2, <1>3, <1>4

(* The last of the first n is the last heading of a level below `level'.   *)
LEMMA LastOpen ==
  ASSUME NEW S, S \subseteq ShapeType, Keyed(S),
         NEW open \in Seq(OpenSections), SectionsOpen(S, open),
         NEW n \in 0..Len(open), NEW h \in S, IsHeading(h),
         \A i \in DOMAIN open : open[i].level <= h.level => i \in 1..n
  PROVE  /\ n > 0
         /\ \A k \in S : Opens(S, open[n], k) => h.from <= k.from
PROOF
<1>1. PICK i \in DOMAIN open : \E k \in S :
        Opens(S, open[i], k) /\ h.from <= k.from /\ k.level <= h.level
  BY DEF SectionsOpen, HeadingsReach
<1>2. PICK k \in S : Opens(S, open[i], k) /\ h.from <= k.from /\ k.level <= h.level
  BY <1>1
<1>3. i \in 1..n /\ n \in DOMAIN open
  BY <1>2 DEF Opens
<1>4. ASSUME NEW m \in S, Opens(S, open[n], m) PROVE h.from <= m.from
  <2>1. h.from \in Nat /\ k.from \in Nat /\ m.from \in Nat
    BY DEF ShapeType
  <2>2. CASE i = n
    <3>1. k.self = m.self
      BY <2>2, <1>2, <1>4 DEF Opens
    <3>2. k = m
      BY <3>1 DEF Keyed
    <3> QED
      BY <3>2, <1>2
  <2>3. CASE i < n
    <3>1. k.from < m.from
      BY <2>3, <1>2, <1>3, <1>4 DEF SectionsOpen, HeadingsRise
    <3> QED
      BY <2>1, <3>1, <1>2
  <2> QED
    BY <2>2, <2>3, <1>3
<1> QED
  BY <1>3, <1>4

(* An item goes under the heading that is left on top when it is added.    *)
LEMMA PlacedOnTop ==
  ASSUME NEW S, S \subseteq ShapeType, Keyed(S), NEW a \in ShapeType,
         \A h \in S : IsHeading(h) => h.from < a.from,
         NEW open \in Seq(OpenSections), SectionsOpen(S, open), NEW n \in 0..Len(open),
         IsHeading(a) => KeepsFirst(open, n, a.level), ~IsHeading(a) => n = Len(open),
         a.parent = CurrentParent(SubSeq(open, 1, n))
  PROVE  Placed(S, a)
PROOF
<1>0. a.level \in Nat
  BY DEF ShapeType
<1>1. n = 0 => a.parent = Body
  <2>1. n = 0 => SubSeq(open, 1, n) = <<>>
    OBVIOUS
  <2> QED
    BY <2>1 DEF CurrentParent
<1>2. n > 0 => n \in DOMAIN open /\ a.parent = open[n].ref
  <2> SUFFICES ASSUME n > 0 PROVE n \in DOMAIN open /\ a.parent = open[n].ref
    OBVIOUS
  <2>1. /\ Len(SubSeq(open, 1, n)) = n /\ SubSeq(open, 1, n) # <<>>
        /\ SubSeq(open, 1, n)[n] = open[n] /\ n \in DOMAIN open
    OBVIOUS
  <2> QED
    BY <2>1 DEF CurrentParent
<1>3. ASSUME n > 0 PROVE \E k \in Above(S, a) : Opens(S, open[n], k)
  <2>1. PICK k \in S : Opens(S, open[n], k)
    BY <1>2, <1>3 DEF SectionsOpen, HeadingsFound
  <2>2. IsHeading(a) => k.level < a.level
    BY <2>1, <1>3 DEF KeepsFirst, Opens
  <2>3. k \in Above(S, a)
    BY <2>1, <2>2 DEF Above, Opens
  <2> QED
    BY <2>1, <2>3
<1>4. ASSUME NEW h \in Above(S, a)
      PROVE  n > 0 /\ \A k \in S : Opens(S, open[n], k) => h.from <= k.from
  <2>1. h \in S /\ IsHeading(h) /\ h.level \in Nat /\ (IsHeading(a) => h.level < a.level)
    BY DEF Above, ShapeType
  <2>2. \A i \in DOMAIN open : open[i].level \in Nat
    <3>1. \A i \in DOMAIN open : open[i] \in OpenSections
      OBVIOUS
    <3> QED
      BY <3>1 DEF OpenSections
  <2>3. \A i \in DOMAIN open : open[i].level <= h.level => i \in 1..n
    <3>1. CASE IsHeading(a)
      <4>1. \A i \in DOMAIN open : open[i].level < a.level => i \in 1..n
        BY <3>1, <1>0, LevelsKept
      <4> QED
        BY <4>1, <3>1, <2>1, <2>2, <1>0
    <3>2. CASE ~IsHeading(a)
      BY <3>2
    <3> QED
      BY <3>1, <3>2
  <2> QED
    BY <2>1, <2>3, LastOpen
<1>5. CASE n = 0
  BY <1>1, <1>4, <1>5 DEF Placed
<1>6. CASE n > 0
  <2>1. PICK k \in Above(S, a) : Opens(S, open[n], k)
    BY <1>3, <1>6
  <2>2. k \in S /\ a.parent = k.self
    BY <2>1, <1>2, <1>6 DEF Opens
  <2>3. \A h \in Above(S, a) : h.from <= k.from
    BY <2>1, <2>2, <1>4
  <2> QED
    BY <2>1, <2>2, <2>3 DEF Placed
<1> QED
  BY <1>5, <1>6

(* A heading opens a level, and is what is last of its level and below.    *)
LEMMA SectionsPush ==
  ASSUME NEW S, S \subseteq ShapeType, Keyed(S), NEW a \in ShapeType, IsHeading(a),
         a.self[1] = "texts", \A x \in S : x.self # a.self,
         \A h \in S : IsHeading(h) => h.from < a.from,
         NEW open \in Seq(OpenSections), SectionsOpen(S, open), NEW n \in 0..Len(open),
         KeepsFirst(open, n, a.level),
         NEW top, top.level = a.level, top.ref = a.self
  PROVE  SectionsOpen(S \cup {a}, Append(SubSeq(open, 1, n), top))
PROOF
<1> DEFINE new == Append(SubSeq(open, 1, n), top)
           T == S \cup {a}
<1>0. a.from \in Nat /\ a.level \in Nat /\ \A x \in S : x.from \in Nat /\ x.level \in Nat
  BY DEF ShapeType
<1>1. DOMAIN new = 1..(n + 1) /\ new[n + 1] = top
      /\ \A i \in 1..n : new[i] = open[i] /\ i \in DOMAIN open
  OBVIOUS
<1>2. /\ \A i \in 1..n : open[i].level < a.level
      /\ \A i \in DOMAIN open : open[i].level < a.level => i \in 1..n
  BY <1>0, LevelsKept
<1> HIDE DEF new
<1>3. Opens(T, top, a) /\ \A h \in T : Opens(T, top, h) => h = a
  BY DEF Opens
<1>4. ASSUME NEW i \in 1..n, NEW h \in T PROVE Opens(T, new[i], h) <=> h \in S /\ Opens(S, open[i], h)
  <2>1. PICK k \in S : Opens(S, open[i], k)
    BY <1>1 DEF SectionsOpen, HeadingsFound
  <2>2. open[i].ref # a.self
    BY <2>1 DEF Opens
  <2> QED
    BY <2>2, <1>1 DEF Opens
<1>5. HeadingPlaces(T)
  BY DEF SectionsOpen, HeadingPlaces
<1>6. HeadingsDiffer(T)
  BY <1>0 DEF SectionsOpen, HeadingsDiffer
<1>7. HeadingsFound(T, new)
  <2> SUFFICES ASSUME NEW i \in 1..(n + 1) PROVE \E h \in T : Opens(T, new[i], h)
    BY <1>1 DEF HeadingsFound
  <2>1. CASE i = n + 1
    BY <2>1, <1>1, <1>3
  <2>2. CASE i # n + 1
    <3>1. i \in 1..n
      BY <2>2
    <3>2. PICK h \in S : Opens(S, open[i], h)
      BY <3>1, <1>1 DEF SectionsOpen, HeadingsFound
    <3> QED
      BY <3>1, <3>2, <1>4
  <2> QED
    BY <2>1, <2>2
<1>8. LevelsRise(new)
  <2> SUFFICES ASSUME NEW i \in 1..(n + 1), NEW j \in 1..(n + 1), i < j
               PROVE  new[i].level < new[j].level
    BY <1>1 DEF LevelsRise
  <2>1. i \in 1..n
    OBVIOUS
  <2>2. CASE j = n + 1
    BY <2>1, <2>2, <1>1, <1>2
  <2>3. CASE j # n + 1
    <3>1. j \in 1..n
      BY <2>3
    <3> QED
      BY <2>1, <3>1, <1>1 DEF SectionsOpen, LevelsRise
  <2> QED
    BY <2>2, <2>3
<1>9. HeadingsRise(T, new)
  <2> SUFFICES ASSUME NEW i \in 1..(n + 1), NEW j \in 1..(n + 1), NEW h \in T, NEW k \in T,
                      i < j, Opens(T, new[i], h), Opens(T, new[j], k)
               PROVE  h.from < k.from
    BY <1>1 DEF HeadingsRise
  <2>1. i \in 1..n
    OBVIOUS
  <2>2. h \in S /\ Opens(S, open[i], h)
    BY <2>1, <1>4
  <2>3. CASE j = n + 1
    BY <2>2, <2>3, <1>1, <1>3 DEF Opens
  <2>4. CASE j # n + 1
    <3>1. j \in 1..n
      BY <2>4
    <3>2. k \in S /\ Opens(S, open[j], k)
      BY <3>1, <1>4
    <3> QED
      BY <2>1, <2>2, <3>1, <3>2, <1>1 DEF SectionsOpen, HeadingsRise
  <2> QED
    BY <2>3, <2>4
<1>10. HeadingsReach(T, new)
  <2> SUFFICES ASSUME NEW h \in T, IsHeading(h)
               PROVE  \E i \in 1..(n + 1) : \E k \in T :
                        Opens(T, new[i], k) /\ h.from <= k.from /\ k.level <= h.level
    BY <1>1 DEF HeadingsReach
  <2>1. CASE h = a \/ a.level <= h.level
    <3>1. h.from <= a.from /\ a.level <= h.level
      BY <2>1, <1>0
    <3>2. n + 1 \in 1..(n + 1) /\ Opens(T, new[n + 1], a)
      BY <1>1, <1>3
    <3> QED
      BY <3>1, <3>2
  <2>2. CASE h \in S /\ h.level < a.level
    <3>1. PICK i \in DOMAIN open : \E k \in S :
            Opens(S, open[i], k) /\ h.from <= k.from /\ k.level <= h.level
      BY <2>2 DEF SectionsOpen, HeadingsReach
    <3>2. PICK k \in S : Opens(S, open[i], k) /\ h.from <= k.from /\ k.level <= h.level
      BY <3>1
    <3>3. open[i].level < a.level
      BY <2>2, <3>2, <1>0 DEF Opens
    <3>4. i \in 1..n
      BY <3>3, <1>2
    <3>5. Opens(T, new[i], k) /\ k \in T
      <4>1. k \in T
        OBVIOUS
      <4> QED
        BY <4>1, <3>2, <3>4, <1>4
    <3>6. i \in 1..(n + 1)
      BY <3>4
    <3> QED
      BY <3>2, <3>5, <3>6
  <2>3. h = a \/ a.level <= h.level \/ (h \in S /\ h.level < a.level)
    BY <1>0
  <2> QED
    BY <2>1, <2>2, <2>3
<1> QED
  BY <1>5, <1>6, <1>7, <1>8, <1>9, <1>10 DEF SectionsOpen, new

-----------------------------------------------------------------------------
(* Lists: what is added to a list is the last of it.                       *)

LEMMA PairwiseKeep ==
  ASSUME NEW S, S \subseteq ShapeType, NEW a \in ShapeType, ~IsListItem(a),
         \A x \in S : IsListItem(x) => x.from < a.from,
         NEW facts \in BOOLEAN, Pairwise(S, facts)
  PROVE  Pairwise(S \cup {a}, facts)
PROOF
<1> DEFINE T == S \cup {a}
<1>0. a.from \in Nat /\ \A x \in S : x.from \in Nat
  BY DEF ShapeType
<1> SUFFICES ASSUME NEW x \in T, NEW y \in T, IsListItem(x), IsListItem(y), x.from < y.from
             PROVE  PairApart(T, x, y) /\ (~facts => PairTogether(T, x, y) /\ PairNested(T, x, y))
  BY DEF Pairwise
<1>1. x \in S /\ y \in S /\ y.from < a.from
  OBVIOUS
<1>2. RunTo(T, x, y) <=> RunTo(S, x, y)
  BY <1>0, <1>1 DEF RunTo
<1>3. PairApart(S, x, y) /\ (~facts => PairTogether(S, x, y) /\ PairNested(S, x, y))
  BY <1>1 DEF Pairwise
<1>4. PairApart(T, x, y) /\ (~facts => PairTogether(T, x, y))
  BY <1>2, <1>3 DEF PairApart, PairTogether
<1>5. PairNested(S, x, y) => PairNested(T, x, y)
  BY <1>2 DEF PairNested
<1> QED
  BY <1>3, <1>4, <1>5

(* What stands outside the body leaves the lists as they are. *)
LEMMA ListsKeep ==
  ASSUME NEW S, NEW a, ~IsListItem(a), ~Interrupts(a),
         NEW open, NEW calm \in BOOLEAN, ListsOpen(S, open, calm)
  PROVE  ListsOpen(S \cup {a}, open, calm)
PROOF
<1> DEFINE T == S \cup {a}
<1>1. \A x \in T : IsListItem(x) => x \in S
  OBVIOUS
<1>2. \A x : Unbroken(T, x) <=> Unbroken(S, x)
  BY DEF Unbroken
<1>3. DepthsRise(open) /\ ListsInside(T, open)
  BY DEF ListsOpen, ListsInside
<1>4. ItemsGoOn(T, open)
  BY <1>1, <1>2 DEF ListsOpen, ItemsGoOn
<1>5. ListsFilled(T, open)
  BY DEF ListsOpen, ListsFilled
<1>6. ItemsRise(T, open)
  BY <1>1 DEF ListsOpen, ItemsRise
<1>7. calm => RunsOpen(T, open)
  BY <1>1, <1>2 DEF ListsOpen, RunsOpen
<1> QED
  BY <1>3, <1>4, <1>5, <1>6, <1>7 DEF ListsOpen

(* No list is open, and something after every list item says so. *)
LEMMA ListsEnd ==
  ASSUME NEW S, NEW calm \in BOOLEAN,
         calm => \E z \in S : /\ Interrupts(z) /\ ~IsListItem(z)
                              /\ \A x \in S : IsListItem(x) => x.from < z.from
  PROVE  ListsOpen(S, <<>>, calm)
PROOF
<1>1. calm => \A x \in S : ~(IsListItem(x) /\ Unbroken(S, x))
  BY DEF Unbroken, GoesOn
<1>2. calm => RunsOpen(S, <<>>)
  BY <1>1 DEF RunsOpen
<1>3. DOMAIN <<>> = {}
  OBVIOUS
<1>4. DepthsRise(<<>>) /\ ListsInside(S, <<>>) /\ ItemsGoOn(S, <<>>)
  BY <1>3 DEF DepthsRise, ListsInside, ItemsGoOn
<1>5. ListsFilled(S, <<>>) /\ ItemsRise(S, <<>>)
  BY <1>3 DEF ListsFilled, ItemsRise
<1> QED
  BY <1>2, <1>4, <1>5 DEF ListsOpen

(* The first n of the open lists are those an item of this depth and kind  *)
(* leaves open, and it goes into the last of them or opens another.        *)
StaysOpen(open, n, y) ==
  /\ \A i \in (n + 1)..Len(open) : ClosesList(open[i], y.level, y.ordered)
  /\ n > 0 => ~ClosesList(open[n], y.level, y.ordered)
OpensList(open, n, y) == n = 0 \/ open[n].depth < y.level
AfterItem(open, n, y) ==
  IF OpensList(open, n, y)
  THEN Append(SubSeq(open, 1, n), [depth |-> y.level, ordered |-> y.ordered, ref |-> y.parent])
  ELSE SubSeq(open, 1, n)

SizeAfter(open, n, y) == IF OpensList(open, n, y) THEN n + 1 ELSE n

(* The groups G that come with the item: the list it opens, if it does.    *)
Adds(S, open, n, y, G) ==
  /\ \A g \in G : g.kind = "list"
  /\ OpensList(open, n, y) =>
       /\ \A x \in S : x.parent # y.parent
       /\ \A i \in DOMAIN open : open[i].ref # y.parent
       /\ n > 0 => \E g \in G : g.self = y.parent /\ g.parent = open[n].ref
  /\ ~OpensList(open, n, y) => y.parent = open[n].ref

(* The lists open after an item: it is in the last, and it alone at its    *)
(* depth.                                                                  *)
OnTop(open, new, n, m, y) ==
  /\ DOMAIN new = 1..m /\ m > 0 /\ \A i \in 1..n : new[i] = open[i] /\ i \in DOMAIN open
  /\ new[m].ref = y.parent /\ new[m].depth = y.level /\ new[m].ordered = y.ordered
  /\ \A i \in 1..m : i # m => new[i].ref # y.parent /\ new[i].depth < y.level
  /\ \A i \in DOMAIN open : i \in 1..n <=>
       \/ open[i].depth < y.level
       \/ open[i].depth = y.level /\ open[i].ordered = y.ordered

LEMMA OpenAfterItem ==
  ASSUME NEW S, S \subseteq ShapeType, NEW y \in ShapeType, IsListItem(y),
         NEW open \in Seq(OpenLists), NEW n \in 0..Len(open),
         NEW calm \in BOOLEAN, ListsOpen(S, open, calm),
         StaysOpen(open, n, y), NEW G, Adds(S, open, n, y, G)
  PROVE  OnTop(open, AfterItem(open, n, y), n, SizeAfter(open, n, y), y)
PROOF
<1> DEFINE new == AfterItem(open, n, y)
           m == IF OpensList(open, n, y) THEN n + 1 ELSE n
           top == [depth |-> y.level, ordered |-> y.ordered, ref |-> y.parent]
<1>0. y.level \in Nat /\ \A x \in S : x.level \in Nat
  BY DEF ShapeType
<1>1. \A i \in DOMAIN open : open[i].depth \in Nat
  <2>1. \A i \in DOMAIN open : open[i] \in OpenLists
    OBVIOUS
  <2> QED
    BY <2>1 DEF OpenLists
<1>2. /\ DOMAIN new = 1..m /\ \A i \in 1..n : new[i] = open[i] /\ i \in DOMAIN open
      /\ OpensList(open, n, y) => new[m] = top
  <2>1. \A i \in 1..n : i \in DOMAIN open /\ SubSeq(open, 1, n)[i] = open[i]
    OBVIOUS
  <2>2. DOMAIN SubSeq(open, 1, n) = 1..n
    OBVIOUS
  <2>3. CASE OpensList(open, n, y)
    <3>1. new = Append(SubSeq(open, 1, n), top) /\ m = n + 1
      BY <2>3 DEF AfterItem
    <3> HIDE DEF new, m, top
    <3>2. DOMAIN new = 1..(n + 1) /\ new[n + 1] = top /\ \A i \in 1..n : new[i] = open[i]
      BY <3>1
    <3> QED
      BY <2>1, <3>1, <3>2
  <2>4. CASE ~OpensList(open, n, y)
    BY <2>1, <2>2, <2>4 DEF AfterItem
  <2> QED
    BY <2>3, <2>4
<1> HIDE DEF new
<1>3. ~OpensList(open, n, y) =>
        n \in 1..n /\ n \in DOMAIN open /\ open[n].depth = y.level /\ open[n].ordered = y.ordered
  <2> SUFFICES ASSUME ~OpensList(open, n, y)
               PROVE  n \in 1..n /\ n \in DOMAIN open /\ open[n].depth = y.level
                      /\ open[n].ordered = y.ordered
    OBVIOUS
  <2>1. n \in 1..n /\ n \in DOMAIN open /\ ~(open[n].depth < y.level)
    BY DEF OpensList
  <2>2. ~ClosesList(open[n], y.level, y.ordered)
    BY <2>1 DEF StaysOpen
  <2> QED
    BY <2>1, <2>2, <1>0, <1>1 DEF ClosesList
<1>4. m > 0 /\ new[m].ref = y.parent /\ new[m].depth = y.level /\ new[m].ordered = y.ordered
  <2>1. CASE OpensList(open, n, y)
    BY <2>1, <1>2
  <2>2. CASE ~OpensList(open, n, y)
    BY <2>2, <1>2, <1>3 DEF Adds
  <2> QED
    BY <2>1, <2>2
<1>5. ASSUME NEW i \in 1..m, i # m PROVE new[i].ref # y.parent /\ new[i].depth < y.level
  <2>1. i \in 1..n /\ new[i] = open[i] /\ i \in DOMAIN open
    BY <1>2, <1>5
  <2>2. CASE OpensList(open, n, y)
    <3>1. open[i].ref # y.parent
      BY <2>1, <2>2 DEF Adds
    <3>2. n \in DOMAIN open /\ open[n].depth < y.level
      BY <2>1, <2>2 DEF OpensList
    <3>3. i = n \/ open[i].depth < open[n].depth
      BY <2>1, <3>2 DEF ListsOpen, DepthsRise
    <3> QED
      BY <2>1, <3>1, <3>2, <3>3, <1>0, <1>1
  <2>3. CASE ~OpensList(open, n, y)
    <3>1. open[i].depth < open[n].depth
      BY <2>1, <2>3, <1>3, <1>5 DEF ListsOpen, DepthsRise
    <3>2. PICK w \in S : IsListItem(w) /\ w.parent = open[n].ref
      BY <2>3, <1>3 DEF ListsOpen, ListsFilled
    <3>3. w.level = open[n].depth
      BY <2>3, <3>2, <1>3 DEF ListsOpen, ItemsGoOn
    <3>4. open[i].ref = w.parent => w.level = open[i].depth
      BY <2>1, <3>2 DEF ListsOpen, ItemsGoOn
    <3> QED
      BY <2>1, <2>3, <3>1, <3>2, <3>3, <3>4, <1>0, <1>1, <1>3 DEF Adds
  <2> QED
    BY <2>2, <2>3
<1>6. ASSUME NEW i \in DOMAIN open
      PROVE  i \in 1..n <=> \/ open[i].depth < y.level
                            \/ open[i].depth = y.level /\ open[i].ordered = y.ordered
  <2>1. i \in Nat \ {0} /\ i <= Len(open)
    OBVIOUS
  <2>2. CASE i \in 1..n
    <3>1. i \in 1..m /\ new[i] = open[i]
      BY <2>2, <1>2
    <3> QED
      BY <2>2, <3>1, <1>4, <1>5
  <2>3. CASE i \notin 1..n
    <3>1. ClosesList(open[i], y.level, y.ordered)
      BY <2>1, <2>3 DEF StaysOpen
    <3> QED
      BY <2>3, <3>1, <1>0, <1>1 DEF ClosesList
  <2> QED
    BY <2>2, <2>3
<1> QED
  BY <1>2, <1>4, <1>5, <1>6 DEF new, OnTop, SizeAfter

(* The item that is added: after all there is, where it can be seen. *)
ComesLast(S, y) == IsListItem(y) /\ y.parent # Furniture /\ \A x \in S : x.from < y.from

LEMMA RunsAfterItem ==
  ASSUME NEW S, S \subseteq ShapeType, NEW y \in ShapeType, ComesLast(S, y),
         NEW G, \A g \in G : g.kind = "list"
  PROVE  LET T == S \cup G \cup {y} IN
         /\ \A x \in T : IsListItem(x) => x \in S \/ x = y
         /\ \A x \in S : Unbroken(T, x) <=> Unbroken(S, x) /\ GoesOn(x, y)
         /\ \A x \in S : RunTo(T, x, y) <=> Unbroken(S, x)
         /\ \A x, z \in S : RunTo(T, x, z) <=> RunTo(S, x, z)
         /\ Unbroken(T, y)
PROOF
<1> DEFINE T == S \cup G \cup {y}
<1>0. y.from \in Nat /\ \A x \in S : x.from \in Nat /\ x.from < y.from
  BY DEF ShapeType, ComesLast
<1>1. IsListItem(y) /\ Interrupts(y)
  BY DEF ComesLast, Interrupts, IsListItem
<1>2. \A g \in G : ~IsListItem(g) /\ ~Interrupts(g)
  BY DEF IsListItem, Interrupts
<1>3. \A x \in T : IsListItem(x) => x \in S \/ x = y
  BY <1>2
<1>4. \A x \in S : Unbroken(T, x) <=> Unbroken(S, x) /\ GoesOn(x, y)
  BY <1>0, <1>1, <1>2 DEF Unbroken
<1>5. \A x \in S : RunTo(T, x, y) <=> Unbroken(S, x)
  BY <1>0, <1>2 DEF Unbroken, RunTo
<1>6. \A x, z \in S : RunTo(T, x, z) <=> RunTo(S, x, z)
  BY <1>0, <1>2 DEF RunTo
<1>7. Unbroken(T, y)
  BY <1>0, <1>2 DEF Unbroken
<1> QED
  BY <1>3, <1>4, <1>5, <1>6, <1>7

LEMMA ListsPush ==
  ASSUME NEW S, S \subseteq ShapeType, NEW y \in ShapeType, ComesLast(S, y),
         NEW open \in Seq(OpenLists), NEW n \in 0..Len(open),
         NEW calm \in BOOLEAN, ListsOpen(S, open, calm),
         StaysOpen(open, n, y), NEW G, Adds(S, open, n, y, G)
  PROVE  ListsOpen(S \cup G \cup {y}, AfterItem(open, n, y), calm)
PROOF
<1> DEFINE T == S \cup G \cup {y}
           new == AfterItem(open, n, y)
           m == IF OpensList(open, n, y) THEN n + 1 ELSE n
<1>0. IsListItem(y) /\ y.level \in Nat /\ (\A x \in S : x.level \in Nat /\ x.from < y.from)
      /\ (\A g \in G : g.kind = "list")
  BY DEF ComesLast, ShapeType, Adds
<1>1. /\ \A x \in T : IsListItem(x) => x \in S \/ x = y
      /\ \A x \in S : Unbroken(T, x) <=> Unbroken(S, x) /\ GoesOn(x, y)
      /\ Unbroken(T, y)
  BY <1>0, RunsAfterItem
<1>2. /\ DOMAIN new = 1..m /\ m > 0 /\ \A i \in 1..n : new[i] = open[i] /\ i \in DOMAIN open
      /\ new[m].ref = y.parent /\ new[m].depth = y.level /\ new[m].ordered = y.ordered
      /\ \A i \in 1..m : i # m => new[i].ref # y.parent /\ new[i].depth < y.level
      /\ \A i \in DOMAIN open : i \in 1..n <=>
           \/ open[i].depth < y.level
           \/ open[i].depth = y.level /\ open[i].ordered = y.ordered
  <2>1. OnTop(open, AfterItem(open, n, y), n, SizeAfter(open, n, y), y)
    BY <1>0, OpenAfterItem
  <2> QED
    BY <2>1 DEF OnTop, SizeAfter
<1>3. /\ m \in Nat /\ n \in Nat
      /\ \A i \in 1..m : i # m => i \in 1..n /\ i \in DOMAIN open /\ new[i] = open[i]
      /\ OpensList(open, n, y) => m = n + 1
      /\ ~OpensList(open, n, y) => m = n
  BY <1>2
<1>4. ASSUME NEW i \in 1..m, NEW x \in S, IsListItem(x), x.parent = new[i].ref
      PROVE  i \in 1..n /\ i \in DOMAIN open /\ new[i] = open[i]
  <2>1. CASE OpensList(open, n, y)
    <3>1. x.parent # y.parent
      BY <2>1 DEF Adds
    <3> QED
      BY <3>1, <1>2, <1>3, <1>4
  <2>2. CASE ~OpensList(open, n, y)
    BY <2>2, <1>2, <1>3
  <2> QED
    BY <2>1, <2>2
<1>5. ~OpensList(open, n, y) => y.parent = open[n].ref
  BY DEF Adds
<1>6. OpensList(open, n, y) /\ n > 0 => \E g \in G : g.self = y.parent /\ g.parent = open[n].ref
  BY DEF Adds
<1> HIDE DEF new, m
<1>7. DepthsRise(new)
  <2> SUFFICES ASSUME NEW i \in 1..m, NEW j \in 1..m, i < j PROVE new[i].depth < new[j].depth
    BY <1>2 DEF DepthsRise
  <2>1. i # m
    BY <1>3
  <2>2. CASE j = m
    BY <2>1, <2>2, <1>2
  <2>3. CASE j # m
    BY <2>1, <2>3, <1>3 DEF ListsOpen, DepthsRise
  <2> QED
    BY <2>2, <2>3
<1>8. ListsInside(T, new)
  <2> SUFFICES ASSUME NEW i \in 1..m, i > 1
               PROVE  \E g \in T : g.self = new[i].ref /\ g.parent = new[i - 1].ref
    BY <1>2 DEF ListsInside
  <2>1. i - 1 \in 1..m /\ i - 1 # m
    BY <1>3
  <2>2. i - 1 \in 1..n /\ new[i - 1] = open[i - 1]
    BY <2>1, <1>3
  <2>3. CASE i \in 1..n
    <3>1. i \in DOMAIN open /\ new[i] = open[i]
      BY <2>3, <1>2
    <3>2. PICK g \in S : g.self = open[i].ref /\ g.parent = open[i - 1].ref
      BY <3>1 DEF ListsOpen, ListsInside
    <3> QED
      BY <3>1, <3>2, <2>2
  <2>4. CASE i \notin 1..n
    <3>1. OpensList(open, n, y) /\ i = m /\ i - 1 = n /\ n > 0
      BY <2>2, <2>4, <1>3
    <3>2. PICK g \in G : g.self = y.parent /\ g.parent = open[n].ref
      BY <3>1, <1>6
    <3> QED
      BY <3>1, <3>2, <2>2, <1>2
  <2> QED
    BY <2>3, <2>4
<1>9. ItemsGoOn(T, new)
  <2> SUFFICES ASSUME NEW x \in T, IsListItem(x), NEW i \in 1..m, x.parent = new[i].ref
               PROVE  Unbroken(T, x) /\ x.level = new[i].depth /\ x.ordered = new[i].ordered
    BY <1>2 DEF ItemsGoOn
  <2>1. CASE x = y
    BY <2>1, <1>1, <1>2
  <2>2. CASE x \in S
    <3>1. i \in 1..n /\ i \in DOMAIN open /\ new[i] = open[i]
      BY <2>2, <1>4
    <3>2. Unbroken(S, x) /\ x.level = open[i].depth /\ x.ordered = open[i].ordered
      BY <2>2, <3>1 DEF ListsOpen, ItemsGoOn
    <3>3. GoesOn(x, y)
      <4>1. \/ open[i].depth < y.level
            \/ open[i].depth = y.level /\ open[i].ordered = y.ordered
        BY <3>1, <1>2
      <4> QED
        BY <4>1, <2>2, <3>2, <1>0 DEF GoesOn
    <3> QED
      BY <2>2, <3>1, <3>2, <3>3, <1>1
  <2> QED
    BY <2>1, <2>2, <1>1
<1>10. ListsFilled(T, new)
  <2> SUFFICES ASSUME NEW i \in 1..m
               PROVE  \E x \in T : IsListItem(x) /\ x.parent = new[i].ref
    BY <1>2 DEF ListsFilled
  <2>1. CASE i = m
    BY <2>1, <1>0, <1>2
  <2>2. CASE i # m
    <3>1. PICK x \in S : IsListItem(x) /\ x.parent = open[i].ref
      BY <2>2, <1>3 DEF ListsOpen, ListsFilled
    <3> QED
      BY <2>2, <3>1, <1>3
  <2> QED
    BY <2>1, <2>2
<1>11. ItemsRise(T, new)
  <2> SUFFICES ASSUME NEW i \in 1..m, NEW j \in 1..m, NEW x \in T, NEW z \in T, i < j,
                      IsListItem(x), IsListItem(z),
                      x.parent = new[i].ref, z.parent = new[j].ref
               PROVE  x.from < z.from
    BY <1>2 DEF ItemsRise
  <2>1. i # m /\ x # y /\ x \in S
    BY <1>1, <1>2, <1>3
  <2>2. CASE z = y
    BY <2>1, <2>2, <1>0
  <2>3. CASE z \in S
    <3>1. /\ i \in DOMAIN open /\ new[i] = open[i] /\ j \in DOMAIN open /\ new[j] = open[j]
      BY <2>1, <2>3, <1>4
    <3> QED
      BY <2>1, <2>3, <3>1 DEF ListsOpen, ItemsRise
  <2> QED
    BY <2>2, <2>3, <1>1
<1>12. calm => RunsOpen(T, new)
  <2> SUFFICES ASSUME calm, NEW x \in T, IsListItem(x), Unbroken(T, x)
               PROVE  \E i \in 1..m : new[i].ref = x.parent
    BY <1>2 DEF RunsOpen
  <2>1. CASE x = y
    <3>1. m \in 1..m
      BY <1>2, <1>3
    <3> QED
      BY <2>1, <3>1, <1>2
  <2>2. CASE x \in S
    <3>1. Unbroken(S, x) /\ GoesOn(x, y)
      BY <2>2, <1>1
    <3>2. PICK i \in DOMAIN open : open[i].ref = x.parent
      BY <2>2, <3>1 DEF ListsOpen, RunsOpen
    <3>3. x.level = open[i].depth /\ x.ordered = open[i].ordered
      BY <2>2, <3>2 DEF ListsOpen, ItemsGoOn
    <3>4. i \in 1..n
      BY <2>2, <3>1, <3>3, <1>0, <1>2 DEF GoesOn
    <3>5. i \in 1..m /\ new[i] = open[i]
      BY <3>4, <1>2, <1>3
    <3> QED
      BY <3>2, <3>5
  <2> QED
    BY <2>1, <2>2, <1>1
<1> QED
  BY <1>7, <1>8, <1>9, <1>10, <1>11, <1>12 DEF ListsOpen, new

LEMMA PairwisePush ==
  ASSUME NEW S, S \subseteq ShapeType, NEW y \in ShapeType, ComesLast(S, y),
         NEW open \in Seq(OpenLists), NEW n \in 0..Len(open),
         NEW facts \in BOOLEAN, ListsOpen(S, open, ~facts), Pairwise(S, facts),
         StaysOpen(open, n, y), NEW G, Adds(S, open, n, y, G)
  PROVE  Pairwise(S \cup G \cup {y}, facts)
PROOF
<1> DEFINE T == S \cup G \cup {y}
<1>0. IsListItem(y) /\ y.level \in Nat /\ y.from \in Nat
      /\ (\A x \in S : x.level \in Nat /\ x.from \in Nat /\ x.from < y.from)
      /\ (\A g \in G : g.kind = "list")
  BY DEF ComesLast, ShapeType, Adds
<1>1. /\ \A x \in T : IsListItem(x) => x \in S \/ x = y
      /\ \A x \in S : RunTo(T, x, y) <=> Unbroken(S, x)
      /\ \A x, z \in S : RunTo(T, x, z) <=> RunTo(S, x, z)
  BY <1>0, RunsAfterItem
<1>2. \A i \in DOMAIN open : open[i].depth \in Nat /\ i \in Nat \ {0}
  <2>1. \A i \in DOMAIN open : open[i] \in OpenLists /\ i \in Nat \ {0}
    OBVIOUS
  <2> QED
    BY <2>1 DEF OpenLists
<1>3. \A i \in DOMAIN open : i \in 1..n <=>
        \/ open[i].depth < y.level
        \/ open[i].depth = y.level /\ open[i].ordered = y.ordered
  <2>1. OnTop(open, AfterItem(open, n, y), n, SizeAfter(open, n, y), y)
    BY <1>0, OpenAfterItem
  <2> QED
    BY <2>1 DEF OnTop
<1>4. n > 0 => n \in DOMAIN open /\ n \in 1..n
  OBVIOUS
<1>5. ASSUME NEW x \in S, NEW z \in S, IsListItem(x), IsListItem(z), x.from < z.from
      PROVE  PairApart(T, x, z) /\ (~facts => PairTogether(T, x, z) /\ PairNested(T, x, z))
  <2>1. PairApart(S, x, z) /\ (~facts => PairTogether(S, x, z) /\ PairNested(S, x, z))
    BY <1>5 DEF Pairwise
  <2>2. RunTo(T, x, z) <=> RunTo(S, x, z)
    BY <1>1
  <2>3. PairApart(T, x, z) /\ (~facts => PairTogether(T, x, z))
    BY <2>1, <2>2 DEF PairApart, PairTogether
  <2>4. PairNested(S, x, z) => PairNested(T, x, z)
    BY <2>2 DEF PairNested
  <2> QED
    BY <2>1, <2>3, <2>4
<1>6. ASSUME NEW x \in S, IsListItem(x)
      PROVE  PairApart(T, x, y)
  <2> SUFFICES ASSUME x.parent = y.parent
               PROVE  RunTo(T, x, y) /\ x.level = y.level /\ x.ordered = y.ordered
    BY DEF PairApart
  <2>1. ~OpensList(open, n, y) /\ y.parent = open[n].ref
    BY DEF Adds
  <2>2. n \in DOMAIN open /\ n \in 1..n /\ ~(open[n].depth < y.level)
    BY <2>1, <1>4 DEF OpensList
  <2>3. Unbroken(S, x) /\ x.level = open[n].depth /\ x.ordered = open[n].ordered
    BY <1>6, <2>1, <2>2 DEF ListsOpen, ItemsGoOn
  <2>4. open[n].depth = y.level /\ open[n].ordered = y.ordered
    BY <2>2, <1>3
  <2> QED
    BY <2>3, <2>4, <1>1
<1>7. ASSUME NEW x \in S, IsListItem(x), ~facts, Unbroken(S, x)
      PROVE  \E i \in DOMAIN open : open[i].ref = x.parent /\ x.level = open[i].depth
                                    /\ x.ordered = open[i].ordered
  <2>1. PICK i \in DOMAIN open : open[i].ref = x.parent
    BY <1>7 DEF ListsOpen, RunsOpen
  <2>2. x.level = open[i].depth /\ x.ordered = open[i].ordered
    BY <1>7, <2>1 DEF ListsOpen, ItemsGoOn
  <2> QED
    BY <2>1, <2>2
<1>8. ASSUME NEW x \in S, IsListItem(x), ~facts
      PROVE  PairTogether(T, x, y)
  <2> SUFFICES ASSUME Unbroken(S, x), x.level = y.level, x.ordered = y.ordered
               PROVE  x.parent = y.parent
    BY <1>1 DEF PairTogether
  <2>1. PICK i \in DOMAIN open : open[i].ref = x.parent /\ x.level = open[i].depth
                                 /\ x.ordered = open[i].ordered
    BY <1>7, <1>8
  <2>2. i \in 1..n /\ n \in DOMAIN open /\ n \in 1..n
    BY <2>1, <1>3
  <2>3. ~(open[i].depth < open[n].depth)
    BY <2>1, <2>2, <1>0, <1>2, <1>3
  <2>4. i = n
    BY <2>2, <2>3 DEF ListsOpen, DepthsRise
  <2>5. ~OpensList(open, n, y)
    BY <2>1, <2>4, <1>0, <1>2 DEF OpensList
  <2> QED
    BY <2>1, <2>4, <2>5 DEF Adds
<1>9. ASSUME NEW x \in S, IsListItem(x), ~facts
      PROVE  PairNested(T, x, y)
  <2> SUFFICES ASSUME Unbroken(S, x), x.level < y.level,
                      \A z \in T : IsListItem(z) /\ x.from < z.from /\ z.from < y.from
                                   => z.level >= y.level
               PROVE  \E g \in T : g.self = y.parent /\ g.parent = x.parent
    BY <1>1 DEF PairNested
  <2>1. PICK i \in DOMAIN open : open[i].ref = x.parent /\ x.level = open[i].depth
                                 /\ x.ordered = open[i].ordered
    BY <1>7, <1>9
  <2>2. i \in 1..n /\ n \in DOMAIN open /\ n \in 1..n
    BY <2>1, <1>3
  <2>3. ASSUME NEW j \in DOMAIN open, i < j PROVE open[j].depth >= y.level
    <3>1. PICK z \in S : IsListItem(z) /\ z.parent = open[j].ref
      BY <2>3 DEF ListsOpen, ListsFilled
    <3>2. x.from < z.from
      BY <2>1, <2>3, <3>1, <1>9 DEF ListsOpen, ItemsRise
    <3>3. z.level = open[j].depth
      BY <2>3, <3>1 DEF ListsOpen, ItemsGoOn
    <3> QED
      BY <3>1, <3>2, <3>3, <1>0
  <2>4. CASE OpensList(open, n, y)
    <3>1. open[n].depth < y.level
      BY <2>2, <2>4 DEF OpensList
    <3>2. i = n
      BY <2>2, <2>3, <3>1, <1>0, <1>2
    <3>3. PICK g \in G : g.self = y.parent /\ g.parent = open[n].ref
      BY <2>2, <2>4 DEF Adds
    <3> QED
      BY <2>1, <3>2, <3>3
  <2>5. CASE ~OpensList(open, n, y)
    <3>1. open[n].depth = y.level /\ y.parent = open[n].ref
      BY <2>2, <2>5, <1>0, <1>2, <1>3 DEF OpensList, Adds
    <3>2. i < n
      <4>1. i # n
        BY <2>1, <3>1, <1>0
      <4> QED
        BY <4>1, <2>2
    <3>3. i = n - 1
      <4> SUFFICES ASSUME i # n - 1 PROVE FALSE
        OBVIOUS
      <4>1. n - 1 \in DOMAIN open /\ i < n - 1 /\ n - 1 < n
        BY <2>2, <3>2
      <4>2. open[n - 1].depth >= y.level
        BY <4>1, <2>3
      <4>3. open[n - 1].depth < open[n].depth
        BY <4>1, <2>2 DEF ListsOpen, DepthsRise
      <4> QED
        BY <4>1, <4>2, <4>3, <2>2, <3>1, <1>0, <1>2
    <3>4. PICK g \in S : g.self = open[n].ref /\ g.parent = open[n - 1].ref
      BY <2>2, <3>2 DEF ListsOpen, ListsInside
    <3> QED
      BY <2>1, <3>1, <3>3, <3>4
  <2> QED
    BY <2>4, <2>5
<1> SUFFICES ASSUME NEW x \in T, NEW z \in T, IsListItem(x), IsListItem(z), x.from < z.from
             PROVE  PairApart(T, x, z) /\ (~facts => PairTogether(T, x, z) /\ PairNested(T, x, z))
  BY DEF Pairwise
<1>10. x \in S
  BY <1>0, <1>1
<1>11. CASE z \in S
  BY <1>5, <1>10, <1>11
<1>12. CASE z = y
  BY <1>6, <1>8, <1>9, <1>10, <1>12
<1> QED
  BY <1>11, <1>12, <1>1

-----------------------------------------------------------------------------
(* One item that opens no section and is in no list.                       *)

(* What such an item leaves as it was; the event that gives it is the next. *)
Still(S) ==
  /\ S \subseteq ShapeType /\ Keyed(S) /\ Dated(S, given + 1) /\ Cited(S)
  /\ SectionsOpen(S, headings) /\ Nested(S) /\ Grouped(S) /\ Pairwise(S, factsTable # 0)

(* Every heading and every list item came before. *)
Settled(S, from) == \A x \in S : IsHeading(x) \/ IsListItem(x) => x.from < from

Quiet(a) ==
  /\ ~IsHeading(a) /\ ~IsListItem(a) /\ a.from <= given + 1
  /\ a.parent[1] \in {"body", "texts"} => a.parent = CurrentParent(headings)
  /\ a.cites # {} => a.self[1] \in {"texts", "tables"}

LEMMA WholeStack ==
  ASSUME NEW T, NEW open \in Seq(T)
  PROVE  SubSeq(open, 1, Len(open)) = open /\ Len(open) \in 0..Len(open)
  OBVIOUS

LEMMA QuietShape ==
  ASSUME headings \in Seq(OpenSections), given \in Nat,
         NEW S, Still(S), NEW a \in ShapeType, Quiet(a), Settled(S, a.from),
         \A x \in S : x.self # a.self
  PROVE  Still(S \cup {a}) /\ \A from \in Nat : Settled(S, from) => Settled(S \cup {a}, from)
PROOF
<1> DEFINE T == S \cup {a}
           facts == factsTable # 0
<1>0. /\ S \subseteq ShapeType /\ Keyed(S) /\ Dated(S, given + 1) /\ Cited(S)
      /\ SectionsOpen(S, headings) /\ Nested(S) /\ Grouped(S) /\ Pairwise(S, facts)
  BY DEF Still
<1>1. /\ a.from \in Nat /\ a.from <= given + 1 /\ ~IsHeading(a) /\ ~IsListItem(a)
      /\ a.cites \subseteq Names
  BY DEF Quiet, ShapeType
<1>2. T \subseteq ShapeType /\ Keyed(T) /\ Grouped(T)
  BY <1>0, <1>1 DEF Keyed, Grouped
<1>3. Dated(T, given + 1) /\ Cited(T)
  BY <1>0, <1>1 DEF Dated, Cited, Quiet
<1>4. SectionsOpen(T, headings)
  BY <1>0, <1>1, SectionsKeep
<1>5. a.parent[1] \in {"body", "texts"} => Placed(S, a)
  <2> SUFFICES ASSUME a.parent[1] \in {"body", "texts"} PROVE Placed(S, a)
    OBVIOUS
  <2>1. a.parent = CurrentParent(SubSeq(headings, 1, Len(headings)))
    BY WholeStack DEF Quiet
  <2>2. \A h \in S : IsHeading(h) => h.from < a.from
    BY DEF Settled
  <2>3. Len(headings) \in 0..Len(headings)
    BY WholeStack
  <2> QED
    BY <2>1, <2>2, <2>3, <1>0, <1>1, PlacedOnTop
<1>6. Nested(T)
  BY <1>0, <1>1, <1>5, NestedAdd
<1>7. Pairwise(T, facts)
  <2>1. \A x \in S : IsListItem(x) => x.from < a.from
    BY DEF Settled
  <2>2. facts \in BOOLEAN
    OBVIOUS
  <2> QED
    BY <2>1, <2>2, <1>0, <1>1, PairwiseKeep
<1>8. \A from \in Nat : Settled(S, from) => Settled(T, from)
  BY <1>1 DEF Settled
<1> QED
  BY <1>2, <1>3, <1>4, <1>6, <1>7, <1>8 DEF Still

(* The same, of the tree. *)
LEMMA QuietItem ==
  ASSUME FoldInv, NEW d, SoundTree(d), Still(Shapes(d)), NEW arena \in Arenas,
         NEW item \in Item, item.self = NextRef(d, arena), CanHold(d, item.parent),
         Quiet(item), Settled(Shapes(d), item.from)
  PROVE  LET e == AddItem(d, arena, item) IN
         /\ Shapes(e) = Shapes(d) \cup {Shape(item)} /\ Still(Shapes(e))
         /\ \A from \in Nat : Settled(Shapes(d), from) => Settled(Shapes(e), from)
PROOF
<1> DEFINE a == Shape(item)
           S == Shapes(d)
<1>1. /\ a.self = item.self /\ a.parent = item.parent /\ a.kind = item.kind
      /\ a.from = item.from /\ a.level = item.level /\ a.cites = item.cites
      /\ a \in ShapeType
  BY DEF Shape, Item, ShapeType
<1>2. Quiet(a) /\ Settled(S, a.from)
  BY <1>1 DEF Quiet, IsHeading, IsListItem
<1>3. \A x \in S : x.self # a.self
  <2>1. \A x \in S : Resolves(d, x.self)
    BY ShapesKeyed
  <2>2. ~Resolves(d, NextRef(d, arena))
    <3>1. d[arena] \in Seq(Item)
      BY DEF SoundTree
    <3> QED
      BY <3>1 DEF Resolves, NextRef
  <2> QED
    BY <2>1, <2>2, <1>1
<1>4. headings \in Seq(OpenSections) /\ given \in Nat
  BY InvFacts
<1> HIDE DEF a
<1>5. Still(S \cup {a}) /\ \A from \in Nat : Settled(S, from) => Settled(S \cup {a}, from)
  BY <1>1, <1>2, <1>3, <1>4, QuietShape
<1>6. Shapes(AddItem(d, arena, item)) = S \cup {a}
  BY AddShapes DEF SoundTree, a
<1> QED
  BY <1>5, <1>6 DEF a

LEMMA ShapeFields ==
  ASSUME NEW x \in Item
  PROVE  /\ Shape(x) \in ShapeType
         /\ Shape(x).self = x.self /\ Shape(x).parent = x.parent /\ Shape(x).kind = x.kind
         /\ Shape(x).from = x.from /\ Shape(x).level = x.level /\ Shape(x).ordered = x.ordered
         /\ Shape(x).id = x.id /\ Shape(x).cites = x.cites
  BY DEF Shape, Item, ShapeType

-----------------------------------------------------------------------------
(* The invariant before an event.                                          *)

LEMMA OrderFacts ==
  ASSUME FoldInv, OrderInv
  PROVE  /\ Still(Shapes(doc)) /\ Settled(Shapes(doc), given + 1)
         /\ \A x \in Shapes(doc) : x.from < given + 1
         /\ CurrentParent(headings) # Furniture
PROOF
<1>1. /\ Dated(Shapes(doc), given) /\ Cited(Shapes(doc)) /\ SectionsOpen(Shapes(doc), headings)
      /\ Nested(Shapes(doc)) /\ Grouped(Shapes(doc)) /\ Pairwise(Shapes(doc), factsTable # 0)
  BY DEF OrderInv, OrderOf
<1>2. given \in Nat /\ SoundTree(doc) /\ doc \in [Arenas -> Seq(Item)]
      /\ headings \in Seq(OpenSections)
  BY InvFacts
<1>3. Shapes(doc) \subseteq ShapeType /\ Keyed(Shapes(doc))
  BY <1>2, ShapesTyped, ShapesKeyed DEF Keyed
<1>4. \A x \in Shapes(doc) : x.from \in Nat /\ x.from \in 0..(given + 1) /\ x.from < given + 1
  BY <1>1, <1>2 DEF Dated
<1>5. Still(Shapes(doc)) /\ Settled(Shapes(doc), given + 1)
  BY <1>1, <1>3, <1>4 DEF Still, Settled, Dated
<1>6. CurrentParent(headings) # Furniture
  <2>1. CASE headings = <<>>
    BY <2>1 DEF CurrentParent, Body, Furniture
  <2>2. CASE headings # <<>>
    <3>1. Len(headings) \in DOMAIN headings
      BY <2>2, <1>2
    <3>2. PICK h \in Shapes(doc) : Opens(Shapes(doc), headings[Len(headings)], h)
      BY <3>1, <1>1 DEF SectionsOpen, HeadingsFound
    <3>3. headings[Len(headings)].ref[1] = "texts"
      BY <3>2, <1>1 DEF SectionsOpen, HeadingPlaces, Opens
    <3> QED
      BY <2>2, <3>3 DEF CurrentParent, Furniture
  <2> QED
    BY <2>1, <2>2
<1> QED
  BY <1>4, <1>5, <1>6

(* What is left to show of a step that opens no section and adds to none   *)
(* of the lists.                                                           *)
LEMMA Assembled ==
  ASSUME FoldInv, Still(Shapes(doc')), headings' = headings, given' = given + 1,
         factsTable # 0 => factsTable' # 0,
         Answered(Shapes(doc'), anchors'), ListsOpen(Shapes(doc'), lists', Calm'),
         TableWaits(Shapes(doc))'
  PROVE  OrderInv'
PROOF
<1>1. Pairwise(Shapes(doc'), factsTable # 0) => Pairwise(Shapes(doc'), factsTable' # 0)
  BY DEF Pairwise
<1> QED
  BY <1>1 DEF Still, OrderInv, OrderOf

-----------------------------------------------------------------------------
(* The steps.                                                              *)

(* Only what a table is made of comes while one is open. *)
NextEvent(e) == given' = given + 1 /\ Expected(e)

LEMMA NoTableWaits ==
  ASSUME ~table.open, table' = table
  PROVE  \A S : TableWaits(S)'
  BY DEF TableWaits

(* A text, and a picture, that ends the run of list items. *)
LEMMA BodyItem ==
  ASSUME FoldInv, OrderInv, NEW arena \in {"texts", "pictures"}, NEW item \in Item,
         item.self = NextRef(doc, arena), item.parent = CurrentParent(headings),
         item.kind \in {"text", "picture"}, item.level = 0, item.from = given + 1,
         item.cites # {} => arena = "texts",
         doc' = AddItem(doc, arena, item),
         anchors' = Claimed(anchors, item.id, item.self),
         headings' = headings, lists' = <<>>, given' = given + 1,
         UNCHANGED <<table, factsTable>>, ~table.open
  PROVE  OrderInv'
PROOF
<1> DEFINE S == Shapes(doc)
           a == Shape(item)
<1>1. /\ a \in ShapeType
      /\ a.self = item.self /\ a.parent = item.parent /\ a.kind = item.kind
      /\ a.from = item.from /\ a.level = item.level /\ a.id = item.id
  BY ShapeFields
<1>2. /\ Still(S) /\ Settled(S, given + 1) /\ (\A x \in S : x.from < given + 1)
      /\ CurrentParent(headings) # Furniture
  BY OrderFacts
<1>3. SoundTree(doc) /\ CanHold(doc, CurrentParent(headings)) /\ given \in Nat
  BY InvFacts
<1>4. Quiet(item)
  BY <1>3 DEF Quiet, IsHeading, IsListItem, NextRef
<1>5. Shapes(doc') = S \cup {a} /\ Still(Shapes(doc'))
  <2>1. arena \in Arenas
    BY DEF Arenas
  <2> QED
    BY <2>1, <1>2, <1>3, <1>4, QuietItem
<1> HIDE DEF a
<1>6. Answered(Shapes(doc'), anchors')
  <2>1. Answered(S, anchors) /\ S \subseteq ShapeType
    BY <1>2 DEF OrderInv, OrderOf, Still
  <2>2. a.kind # "island" /\ \A x \in S : x.id # NoName => x.from < a.from
    BY <1>1, <1>2
  <2>3. Answered(S \cup {a}, Claimed(anchors, a.id, a.self))
    BY <2>1, <2>2, <1>1, NamesClaim
  <2> QED
    BY <2>3, <1>1, <1>5
<1>7. ListsOpen(Shapes(doc'), lists', Calm')
  <2>1. Interrupts(a) /\ ~IsListItem(a) /\ \A x \in S : x.from < a.from
    BY <1>1, <1>2 DEF Interrupts, IsListItem
  <2>2. Calm' \in BOOLEAN
    BY DEF Calm
  <2>3. ListsOpen(Shapes(doc'), <<>>, Calm')
    <3> HIDE DEF S
    <3>1. \A x \in S \cup {a} : IsListItem(x) => x.from < a.from
      BY <2>1
    <3>2. a \in S \cup {a}
      OBVIOUS
    <3> QED
      BY <2>1, <2>2, <3>1, <3>2, <1>5, ListsEnd
  <2> QED
    BY <2>3
<1> QED
  BY <1>5, <1>6, <1>7, NoTableWaits, Assembled

LEMMA ParagraphOrder ==
  ASSUME FoldInv, OrderInv, NEW e \in TextEvents, PushParagraph(e), NextEvent(e),
         ~table.open, UNCHANGED <<table, factsTable>>
  PROVE  OrderInv'
PROOF
<1> DEFINE self == NextRef(doc, "texts")
           parent == CurrentParent(headings)
           item == NewText(e, self, parent, "text")
<1>1. self \in Refs /\ parent \in Refs
  BY InvFacts DEF Arenas
<1>2. item \in Item
  BY <1>1, InvFacts, NewTextIs DEF Kinds
<1>3. /\ item.self = self /\ item.parent = parent /\ item.kind = "text" /\ item.level = 0
      /\ item.from = given + 1 /\ item.id = e.id
  BY DEF NewText, NewItem, ItemFrom
<1>4. /\ doc' = AddItem(doc, "texts", item) /\ anchors' = Claimed(anchors, e.id, self)
      /\ headings' = headings /\ lists' = <<>> /\ given' = given + 1
  BY DEF PushParagraph, EndListRun, NextEvent
<1> HIDE DEF item
<1> QED
  BY <1>2, <1>3, <1>4, BodyItem

LEMMA PictureOrder ==
  ASSUME FoldInv, OrderInv, NEW e \in Events, OnPicture(e), NextEvent(e)
  PROVE  OrderInv'
PROOF
<1> DEFINE self == NextRef(doc, "pictures")
           parent == CurrentParent(headings)
           new == NewItem(self, parent, "picture")
           item == [new EXCEPT !.id = e.id]
<1>1. e.id \in Names \cup {NoName}
  <2>1. e.event = "picture"
    BY DEF OnPicture
  <2>2. e \in PictureEvents
    BY <2>1 DEF Events, TextEvents, CitationEvents, StartEvents, RowEvents, EndEvents,
                FactEvents, NoteEvents, IslandEvents, OtherEvents
  <2> QED
    BY <2>2 DEF PictureEvents
<1>2. self \in Refs /\ parent \in Refs
  BY InvFacts DEF Arenas
<1>3. new \in Item
  BY <1>2, InvFacts, NewItemIs DEF Kinds
<1>4. /\ new.self = self /\ new.parent = parent /\ new.kind = "picture" /\ new.level = 0
      /\ new.from = given + 1 /\ new.cites = {}
  BY DEF NewText, NewItem, ItemFrom
<1> HIDE DEF new
<1>5. /\ item \in Item /\ item.self = self /\ item.parent = parent /\ item.kind = "picture"
      /\ item.level = 0 /\ item.from = given + 1 /\ item.id = e.id /\ item.cites = {}
  BY <1>1, <1>3, <1>4 DEF Item
<1>6. /\ doc' = AddItem(doc, "pictures", item) /\ anchors' = Claimed(anchors, e.id, self)
      /\ headings' = headings /\ lists' = <<>> /\ given' = given + 1
      /\ UNCHANGED <<table, factsTable>>
  BY DEF new, OnPicture, EndListRun, NextEvent
<1>7. ~table.open
  BY DEF OnPicture, NextEvent, Expected
<1> HIDE DEF item
<1> QED
  BY <1>5, <1>6, <1>7, BodyItem

LEMMA ChromeOrder ==
  ASSUME FoldInv, OrderInv, NEW e \in TextEvents, PushChrome(e), NextEvent(e),
         ~table.open, UNCHANGED <<table, factsTable>>
  PROVE  OrderInv'
PROOF
<1> DEFINE S == Shapes(doc)
           self == NextRef(doc, "texts")
           item == NewText(e, self, Furniture, "text")
           a == Shape(item)
<1>1. self \in Refs /\ self[1] = "texts" /\ Furniture[1] = "furniture"
  BY InvFacts DEF Arenas, NextRef, Furniture
<1>2. item \in Item
  BY <1>1, InvFacts, RefsAreRefs, NewTextIs DEF Kinds
<1>3. /\ item.self = self /\ item.parent = Furniture /\ item.kind = "text" /\ item.level = 0
      /\ item.from = given + 1 /\ item.id = e.id
  BY DEF NewText, NewItem, ItemFrom
<1>4. /\ doc' = AddItem(doc, "texts", item) /\ anchors' = Claimed(anchors, e.id, self)
      /\ headings' = headings /\ lists' = lists /\ given' = given + 1
  BY DEF PushChrome, NextEvent
<1> HIDE DEF item
<1>5. /\ a \in ShapeType
      /\ a.self = self /\ a.parent = Furniture /\ a.kind = "text" /\ a.level = 0
      /\ a.from = given + 1 /\ a.id = e.id
  BY <1>2, <1>3, ShapeFields
<1>6. /\ Still(S) /\ Settled(S, given + 1) /\ (\A x \in S : x.from < given + 1)
  BY OrderFacts
<1>7. SoundTree(doc) /\ CanHold(doc, Furniture) /\ given \in Nat
  BY InvFacts
<1>8. Quiet(item)
  BY <1>1, <1>3, <1>7 DEF Quiet, IsHeading, IsListItem
<1>9. Shapes(doc') = S \cup {a} /\ Still(Shapes(doc'))
  <2>1. "texts" \in Arenas
    BY DEF Arenas
  <2> QED
    BY <2>1, <1>2, <1>3, <1>4, <1>6, <1>7, <1>8, QuietItem
<1> HIDE DEF a
<1>10. Answered(Shapes(doc'), anchors')
  <2>1. Answered(S, anchors) /\ S \subseteq ShapeType
    BY <1>6 DEF OrderInv, OrderOf, Still
  <2>2. a.kind # "island" /\ \A x \in S : x.id # NoName => x.from < a.from
    BY <1>5, <1>6
  <2>3. Answered(S \cup {a}, Claimed(anchors, a.id, a.self))
    BY <2>1, <2>2, <1>5, NamesClaim
  <2> QED
    BY <2>3, <1>4, <1>5, <1>9
<1>11. ListsOpen(Shapes(doc'), lists', Calm')
  <2>1. ~Interrupts(a) /\ ~IsListItem(a)
    BY <1>5 DEF Interrupts, IsListItem
  <2>2. Calm' = Calm /\ Calm \in BOOLEAN /\ ListsOpen(S, lists, Calm)
    BY DEF Calm, OrderInv, OrderOf
  <2> QED
    BY <2>1, <2>2, <1>4, <1>9, ListsKeep
<1> QED
  BY <1>4, <1>9, <1>10, <1>11, NoTableWaits, Assembled

LEMMA IslandOrder ==
  ASSUME FoldInv, OrderInv, NEW e \in Events, OnIsland(e), NextEvent(e)
  PROVE  OrderInv'
PROOF
<1> DEFINE S == Shapes(doc)
           ref == NextRef(doc, "groups")
           parent == CurrentParent(headings)
           new == NewItem(ref, parent, "island")
           group == [new EXCEPT !.id = e.id]
           marked == AddItem(doc, "groups", group)
           self == NextRef(marked, "texts")
           text == NewItem(self, ref, "text")
           g == Shape(group)
           t == Shape(text)
<1>1. e.id \in Names \cup {NoName}
  <2>1. e.event = "html_island"
    BY DEF OnIsland
  <2>2. e \in IslandEvents
    BY <2>1 DEF Events, TextEvents, CitationEvents, StartEvents, RowEvents, EndEvents,
                FactEvents, NoteEvents, PictureEvents, OtherEvents
  <2> QED
    BY <2>2 DEF IslandEvents
<1>2. /\ ref \in Refs /\ parent \in Refs /\ CanHold(doc, parent) /\ ref[1] = "groups"
      /\ SoundTree(doc) /\ given \in Nat
  BY InvFacts DEF Arenas, NextRef
<1>3. new \in Item
  BY <1>2, InvFacts, NewItemIs DEF Kinds
<1>4. /\ new.self = ref /\ new.parent = parent /\ new.kind = "island" /\ new.level = 0
      /\ new.from = given + 1 /\ new.cites = {} /\ new.children = <<>> /\ new.points = {}
  BY DEF NewItem, ItemFrom
<1> HIDE DEF new
<1>5. /\ group \in Item /\ group.self = ref /\ group.parent = parent /\ group.kind = "island"
      /\ group.level = 0 /\ group.from = given + 1 /\ group.cites = {}
      /\ group.children = <<>> /\ group.points = {}
  BY <1>1, <1>3, <1>4 DEF Item
<1> HIDE DEF group
<1>6. /\ Still(S) /\ Settled(S, given + 1) /\ (\A x \in S : x.from < given + 1)
      /\ parent # Furniture
  BY OrderFacts
<1>7. Quiet(group)
  BY <1>2, <1>5 DEF Quiet, IsHeading, IsListItem
<1> HIDE DEF parent, ref
<1>8. /\ Shapes(marked) = S \cup {g} /\ Still(Shapes(marked))
      /\ Settled(Shapes(marked), given + 1)
  <2>1. "groups" \in Arenas /\ group.self = NextRef(doc, "groups") /\ CanHold(doc, group.parent)
        /\ Settled(S, group.from) /\ given + 1 \in Nat
    BY <1>2, <1>5, <1>6 DEF Arenas, ref
  <2> HIDE DEF marked
  <2>2. LET f == AddItem(doc, "groups", group) IN
         /\ Shapes(f) = Shapes(doc) \cup {Shape(group)} /\ Still(Shapes(f))
         /\ \A from \in Nat : Settled(Shapes(doc), from) => Settled(Shapes(f), from)
    BY <2>1, <1>2, <1>5, <1>6, <1>7, QuietItem
  <2> QED
    BY <2>1, <2>2, <1>6 DEF marked
<1>9. SoundTree(marked) /\ CanHold(marked, ref)
  BY <1>2, <1>5, InvFacts, AddNew DEF Arenas, ref
<1> HIDE DEF marked
<1>10. self \in Refs
  BY <1>9, NextRefIsRef DEF SoundTree, Arenas
<1>11. text \in Item
  BY <1>2, <1>10, InvFacts, NewItemIs DEF Kinds
<1>12. /\ text.self = self /\ text.parent = ref /\ text.kind = "text" /\ text.level = 0
       /\ text.from = given + 1 /\ text.cites = {} /\ text.id = NoName
  BY DEF NewItem, ItemFrom
<1>13. /\ doc' = AddItem(marked, "texts", text)
       /\ headings' = headings /\ lists' = <<>> /\ anchors' = anchors
       /\ UNCHANGED <<table, factsTable>> /\ given' = given + 1 /\ ~table.open
  BY <1>5 DEF marked, group, new, parent, ref, OnIsland, EndListRun, NextEvent, Expected
<1> HIDE DEF text
<1>14. Quiet(text)
  BY <1>2, <1>12 DEF Quiet, IsHeading, IsListItem
<1>15. Shapes(doc') = S \cup {g} \cup {t} /\ Still(Shapes(doc'))
  <2>1. "texts" \in Arenas /\ Settled(Shapes(marked), text.from)
    BY <1>8, <1>12 DEF Arenas
  <2> QED
    BY <2>1, <1>8, <1>9, <1>11, <1>12, <1>13, <1>14, QuietItem
<1>16. /\ g.kind = "island" /\ g.from = given + 1 /\ t.id = NoName /\ t.kind = "text"
       /\ t.level = 0 /\ t.parent = ref /\ t.from = given + 1
  BY <1>5, <1>11, <1>12, ShapeFields
<1> HIDE DEF g, t
<1>17. Answered(Shapes(doc'), anchors')
  <2>1. Answered(S \cup {g}, anchors)
    BY <1>16, NamesSkip DEF OrderInv, OrderOf
  <2>2. Answered((S \cup {g}) \cup {t}, anchors)
    BY <2>1, <1>16, NamesSkip
  <2> QED
    BY <2>2, <1>13, <1>15
<1>18. ListsOpen(Shapes(doc'), lists', Calm')
  <2>1. Interrupts(t) /\ ~IsListItem(t) /\ ~IsListItem(g)
    BY <1>2, <1>16 DEF Interrupts, IsListItem, Furniture
  <2>2. \A x \in S \cup {g} \cup {t} : IsListItem(x) => x.from < t.from
    BY <2>1, <1>6, <1>16
  <2>3. t \in S \cup {g} \cup {t} /\ Calm' \in BOOLEAN
    BY DEF Calm
  <2> QED
    BY <2>1, <2>2, <2>3, <1>13, <1>15, ListsEnd
<1> QED
  BY <1>13, <1>15, <1>17, <1>18, NoTableWaits, Assembled

(* An event that leaves the tree as it is. *)
LEMMA IgnoredOrder ==
  ASSUME FoldInv, OrderInv, given' = given + 1,
         UNCHANGED <<doc, factsTable, headings, lists, anchors>>,
         table'.open = table.open, table'.from = table.from, table'.parent = table.parent
  PROVE  OrderInv'
PROOF
<1>1. given \in Nat
  BY InvFacts
<1>2. Dated(Shapes(doc), given) => Dated(Shapes(doc), given + 1)
  BY <1>1 DEF Dated
<1>3. TableWaits(Shapes(doc)) => TableWaits(Shapes(doc))'
  BY <1>1 DEF TableWaits
<1>4. Calm' = Calm
  BY DEF Calm
<1> QED
  BY <1>2, <1>3, <1>4 DEF OrderInv, OrderOf

LEMMA TableRowOrder ==
  ASSUME FoldInv, OrderInv, NEW e \in Events, OnTableRow(e), NextEvent(e)
  PROVE  OrderInv'
PROOF
<1>1. CASE ~Theirs(e)
  BY <1>1, IgnoredOrder DEF OnTableRow, Ignored, NextEvent
<1>2. CASE Theirs(e)
  <2>1. /\ table' = [table EXCEPT !.cites = @ \cup e.cites]
        /\ UNCHANGED <<doc, factsTable, headings, lists, anchors>> /\ given' = given + 1
    BY <1>2 DEF OnTableRow, NextEvent
  <2>2. table \in OpenTable
    BY DEF FoldInv, TableInv
  <2>3. /\ table'.open = table.open /\ table'.from = table.from
        /\ table'.parent = table.parent
    BY <2>1, <2>2 DEF OpenTable
  <2> QED
    BY <2>1, <2>3, IgnoredOrder
<1> QED
  BY <1>1, <1>2

-----------------------------------------------------------------------------
(* A table that goes into the tree stands where it began.                  *)

LEMMA TableShape ==
  ASSUME FoldInv, OrderInv, table.open
  PROVE  \E a \in ShapeType :
           /\ Shapes(WithTable(doc)) = Shapes(doc) \cup {a}
           /\ a.kind = "table" /\ a.from = table.from /\ a.parent = CurrentParent(headings)
           /\ a.id = table.id /\ a.self = NextRef(doc, "tables") /\ a.level = 0
           /\ Still(Shapes(WithTable(doc))) /\ Settled(Shapes(WithTable(doc)), given + 1)
PROOF
<1> DEFINE S == Shapes(doc)
           self == NextRef(doc, "tables")
           new == NewItem(self, table.parent, "table")
           item == [new EXCEPT !.from = table.from, !.id = table.id,
                               !.points = table.points, !.cites = table.cites]
           a == Shape(item)
<1>1. /\ table.parent \in Refs /\ table.from \in Nat /\ table.id \in Names \cup {NoName}
      /\ table.points \in SUBSET Refs /\ table.cites \in SUBSET Names
      /\ CanHold(doc, table.parent)
  BY DEF FoldInv, TableInv, OpenTable
<1>2. self \in Refs /\ "tables" \in Arenas /\ SoundTree(doc) /\ self[1] = "tables"
      /\ given \in Nat
  BY InvFacts DEF Arenas, NextRef
<1>3. new \in Item
  BY <1>1, <1>2, InvFacts, NewItemIs DEF Kinds
<1>4. new.self = self /\ new.parent = table.parent /\ new.kind = "table" /\ new.level = 0
  BY DEF NewItem, ItemFrom
<1> HIDE DEF new
<1>5. /\ item \in Item /\ item.self = self /\ item.parent = table.parent
      /\ item.kind = "table" /\ item.level = 0 /\ item.from = table.from
      /\ item.id = table.id /\ item.cites = table.cites
  BY <1>1, <1>3, <1>4 DEF Item
<1>6. WithTable(doc) = AddItem(doc, "tables", item)
  BY DEF WithTable, TableItem, new
<1> HIDE DEF item
<1>7. /\ table.from \in 1..given /\ table.parent = CurrentParent(headings)
      /\ \A x \in S : Marked(x) => x.from < table.from
  BY DEF OrderInv, OrderOf, TableWaits
<1>8. Still(S) /\ Settled(S, given + 1)
  BY OrderFacts
<1>9. Quiet(item) /\ Settled(S, item.from)
  BY <1>2, <1>5, <1>7 DEF Quiet, Settled, Marked, IsHeading, IsListItem
<1>10. Shapes(WithTable(doc)) = S \cup {a} /\ Still(Shapes(WithTable(doc)))
       /\ Settled(Shapes(WithTable(doc)), given + 1)
  <2>1. given + 1 \in Nat
    BY <1>2
  <2>2. LET f == AddItem(doc, "tables", item) IN
         /\ Shapes(f) = Shapes(doc) \cup {Shape(item)} /\ Still(Shapes(f))
         /\ \A from \in Nat : Settled(Shapes(doc), from) => Settled(Shapes(f), from)
    BY <1>1, <1>2, <1>5, <1>8, <1>9, QuietItem
  <2> QED
    BY <2>1, <2>2, <1>6, <1>8
<1>11. /\ a \in ShapeType /\ a.kind = "table" /\ a.from = table.from
       /\ a.parent = CurrentParent(headings) /\ a.id = table.id /\ a.self = self
       /\ a.level = 0
  BY <1>5, <1>7, ShapeFields
<1> QED
  BY <1>10, <1>11

LEMMA WithTableOrder ==
  ASSUME FoldInv, OrderInv
  PROVE  LET T == Shapes(WithTable(doc)) IN
         /\ Still(T) /\ Settled(T, given + 1) /\ Answered(T, TableClaimed(doc))
         /\ \A x \in T : x.from < given + 1
         /\ table.open => \E z \in T : /\ Interrupts(z) /\ ~IsListItem(z)
                                       /\ \A x \in T : IsListItem(x) => x.from < z.from
PROOF
<1> DEFINE S == Shapes(doc)
           T == Shapes(WithTable(doc))
<1>1. /\ Still(S) /\ Settled(S, given + 1) /\ (\A x \in S : x.from < given + 1)
      /\ CurrentParent(headings) # Furniture /\ Answered(S, anchors) /\ S \subseteq ShapeType
  BY OrderFacts DEF OrderInv, OrderOf, Still
<1>2. CASE ~table.open
  <2>1. WithTable(doc) = doc /\ TableClaimed(doc) = anchors
    BY <1>2 DEF WithTable, TableClaimed
  <2> QED
    BY <2>1, <1>1, <1>2
<1>3. CASE table.open
  <2>1. PICK a \in ShapeType :
          /\ T = S \cup {a}
          /\ a.kind = "table" /\ a.from = table.from /\ a.parent = CurrentParent(headings)
          /\ a.id = table.id /\ a.self = NextRef(doc, "tables") /\ a.level = 0
          /\ Still(T) /\ Settled(T, given + 1)
    BY <1>3, TableShape
  <2>2. /\ table.from \in 1..given
        /\ \A x \in S : Marked(x) => x.from < table.from
    BY <1>3 DEF OrderInv, OrderOf, TableWaits
  <2>3. TableClaimed(doc) = Claimed(anchors, a.id, a.self)
    BY <1>3, <2>1 DEF TableClaimed
  <2> HIDE DEF T, S
  <2>4. Answered(T, TableClaimed(doc))
    <3>1. a.kind # "island" /\ \A x \in S : x.id # NoName => x.from < a.from
      BY <2>1, <2>2 DEF Marked
    <3> QED
      BY <2>1, <2>3, <3>1, <1>1, NamesClaim
  <2>5. Interrupts(a) /\ ~IsListItem(a)
    BY <2>1, <1>1 DEF Interrupts, IsListItem
  <2>6. \A x \in T : IsListItem(x) => x.from < a.from
    BY <2>1, <2>2, <2>5 DEF Marked
  <2>7. \A x \in T : x.from < given + 1
    <3>1. given \in Nat
      BY InvFacts
    <3> QED
      BY <3>1, <2>1, <2>2, <1>1
  <2>8. a \in T
    BY <2>1
  <2> QED
    BY <2>1, <2>4, <2>5, <2>6, <2>7, <2>8 DEF T
<1> QED
  BY <1>2, <1>3

LEMMA TableEndOrder ==
  ASSUME FoldInv, OrderInv, NEW e \in Events, OnTableEnd(e), NextEvent(e)
  PROVE  OrderInv'
PROOF
<1>1. CASE ~Theirs(e)
  BY <1>1, IgnoredOrder DEF OnTableEnd, Ignored, NextEvent
<1>2. CASE Theirs(e)
  <2> DEFINE T == Shapes(WithTable(doc))
  <2>1. /\ Still(T) /\ Answered(T, TableClaimed(doc))
        /\ table.open => \E z \in T : /\ Interrupts(z) /\ ~IsListItem(z)
                                      /\ \A x \in T : IsListItem(x) => x.from < z.from
    BY WithTableOrder
  <2>2. /\ doc' = WithTable(doc) /\ anchors' = TableClaimed(doc) /\ table' = NoTable
        /\ UNCHANGED <<factsTable, headings, lists>> /\ given' = given + 1
        /\ table.open
    BY <1>2 DEF OnTableEnd, NextEvent, Theirs
  <2>3. lists' = <<>>
    BY <2>2 DEF OrderInv, OrderOf, TableWaits
  <2>4. ListsOpen(T, <<>>, Calm')
    <3>1. Calm' \in BOOLEAN
      BY DEF Calm
    <3> HIDE DEF T
    <3> QED
      BY <3>1, <2>1, <2>2, ListsEnd
  <2>5. ~table'.open
    BY <2>2 DEF NoTable
  <2>6. TableWaits(Shapes(doc))'
    BY <2>5 DEF TableWaits
  <2> QED
    BY <2>1, <2>2, <2>3, <2>4, <2>6, Assembled
<1> QED
  BY <1>1, <1>2

LEMMA TableStartOrder ==
  ASSUME FoldInv, OrderInv, NEW e \in Events, OnTableStart(e), NextEvent(e)
  PROVE  OrderInv'
PROOF
<1> DEFINE before == WithTable(doc)
           T == Shapes(before)
           parent == CurrentParent(headings)
           self == NextRef(before, "texts")
           caption == NewItem(self, parent, "text")
           c == Shape(caption)
<1>1. /\ Still(T) /\ Settled(T, given + 1) /\ Answered(T, TableClaimed(doc))
      /\ \A x \in T : x.from < given + 1
  BY WithTableOrder
<1>2. SoundTree(before) /\ Grown(doc, before)
  BY WithTableKeeps
<1>3. parent \in Refs /\ CanHold(before, parent) /\ given \in Nat
  BY <1>2, InvFacts DEF Grown
<1> HIDE DEF before, parent
<1>4. self \in Refs /\ self[1] = "texts"
  BY <1>2, NextRefIsRef DEF SoundTree, Arenas, NextRef
<1>5. caption \in Item
  BY <1>3, <1>4, InvFacts, NewItemIs DEF Kinds
<1>6. /\ caption.self = self /\ caption.parent = parent /\ caption.kind = "text"
      /\ caption.level = 0 /\ caption.from = given + 1 /\ caption.cites = {}
      /\ caption.id = NoName
  BY DEF NewItem, ItemFrom
<1>7. /\ doc' = IF e.captioned THEN AddItem(before, "texts", caption) ELSE before
      /\ table'.open /\ table'.from = given + 1 /\ table'.parent = parent
      /\ anchors' = TableClaimed(doc) /\ lists' = <<>> /\ headings' = headings
      /\ factsTable' = factsTable /\ given' = given + 1
  BY DEF before, parent, caption, self, OnTableStart, EndListRun, NextEvent
<1> HIDE DEF caption
<1>8. Quiet(caption)
  BY <1>4, <1>6, <1>3 DEF Quiet, IsHeading, IsListItem, parent
<1>9. /\ Still(Shapes(doc')) /\ Answered(Shapes(doc'), anchors')
      /\ \A x \in Shapes(doc') : x \in T \/ ~Marked(x)
  <2>1. CASE e.captioned
    <3>1. Shapes(doc') = T \cup {c} /\ Still(Shapes(doc'))
      <4>1. "texts" \in Arenas /\ Settled(T, caption.from)
        BY <1>1, <1>6 DEF Arenas
      <4> QED
        BY <2>1, <4>1, <1>1, <1>2, <1>3, <1>5, <1>6, <1>7, <1>8, QuietItem
    <3>2. c.id = NoName /\ c.kind = "text" /\ c.level = 0
      BY <1>5, <1>6, ShapeFields
    <3> HIDE DEF c, T
    <3>3. Answered(T \cup {c}, TableClaimed(doc))
      BY <3>2, <1>1, NamesSkip
    <3>4. ~Marked(c)
      BY <3>2 DEF Marked, IsHeading, IsListItem
    <3> QED
      BY <3>1, <3>3, <3>4, <1>7
  <2>2. CASE ~e.captioned
    BY <2>2, <1>1, <1>7
  <2> QED
    BY <2>1, <2>2
<1>10. ListsOpen(Shapes(doc'), lists', Calm')
  <2>1. Calm' = FALSE
    BY <1>7 DEF Calm
  <2>2. ListsOpen(Shapes(doc'), <<>>, FALSE)
    BY ListsEnd
  <2> QED
    BY <2>1, <2>2, <1>7
<1>11. TableWaits(Shapes(doc))'
  <2>1. given + 1 \in 1..(given + 1)
    BY <1>3
  <2>2. \A x \in Shapes(doc') : Marked(x) => x.from < given + 1
    BY <1>1, <1>9
  <2> QED
    BY <2>1, <2>2, <1>7 DEF TableWaits, parent
<1> QED
  BY <1>7, <1>9, <1>10, <1>11, Assembled

(* A cell that comes to point somewhere changes no shape. *)
LEMMA PointShapes ==
  ASSUME NEW d, d \in [Arenas -> Seq(Item)], NEW n \in DOMAIN d["tables"],
         NEW target \in Refs
  PROVE  Shapes([d EXCEPT !["tables"][n].points = @ \cup {target}]) = Shapes(d)
PROOF
<1> DEFINE t == "tables"
           old == d[t][n]
           new == [old EXCEPT !.points = @ \cup {target}]
           list == [d[t] EXCEPT ![n] = new]
           e == [d EXCEPT ![t] = list]
<1>1. t \in Arenas /\ d[t] \in Seq(Item) /\ old \in Item
  BY DEF Arenas
<1>2. new \in Item /\ Shape(new) = Shape(old)
  BY <1>1 DEF Item, Shape
<1> HIDE DEF new, old
<1>3. /\ list \in Seq(Item) /\ DOMAIN list = DOMAIN d[t]
      /\ list[n] = new /\ \A i \in DOMAIN d[t] : i # n => list[i] = d[t][i]
  BY <1>1, <1>2
<1> HIDE DEF list
<1>4. /\ e \in [Arenas -> Seq(Item)] /\ e[t] = list
      /\ \A b \in Arenas : b # t => e[b] = d[b]
  BY <1>1, <1>3
<1>5. e = [d EXCEPT !["tables"][n].points = @ \cup {target}]
  BY <1>1 DEF list, new, old
<1> HIDE DEF e
<1>6. \A ref \in Refs : Resolves(e, ref) <=> Resolves(d, ref)
  <2> SUFFICES ASSUME NEW ref \in Refs PROVE Resolves(e, ref) <=> Resolves(d, ref)
    OBVIOUS
  <2>1. CASE ref[1] = t
    BY <2>1, <1>3, <1>4 DEF Resolves
  <2>2. CASE ref[1] # t
    BY <2>2, <1>4 DEF Resolves
  <2> QED
    BY <2>1, <2>2
<1>7. \A ref \in Refs : Resolves(d, ref) => Shape(At(e, ref)) = Shape(At(d, ref))
  <2> SUFFICES ASSUME NEW ref \in Refs, Resolves(d, ref)
               PROVE  Shape(At(e, ref)) = Shape(At(d, ref))
    OBVIOUS
  <2>1. ref[1] \in Arenas /\ ref[2] \in DOMAIN d[ref[1]]
    BY DEF Resolves
  <2>2. CASE ref[1] # t
    BY <2>1, <2>2, <1>4 DEF At
  <2>3. CASE ref[1] = t /\ ref[2] # n
    BY <2>1, <2>3, <1>3, <1>4 DEF At
  <2>4. CASE ref[1] = t /\ ref[2] = n
    BY <2>1, <2>4, <1>2, <1>3, <1>4 DEF At, old
  <2> QED
    BY <2>2, <2>3, <2>4
<1>8. ASSUME NEW x \in Shapes(e) PROVE x \in Shapes(d)
  <2>1. PICK ref \in Refs : Resolves(e, ref) /\ x = Shape(At(e, ref))
    BY <1>4, <1>8, ShapesByRef
  <2> QED
    BY <2>1, <1>6, <1>7, ShapesByRef
<1>9. ASSUME NEW x \in Shapes(d) PROVE x \in Shapes(e)
  <2>1. PICK ref \in Refs : Resolves(d, ref) /\ x = Shape(At(d, ref))
    BY <1>9, ShapesByRef
  <2>2. Resolves(e, ref) /\ x = Shape(At(e, ref))
    BY <2>1, <1>6, <1>7
  <2> QED
    BY <2>2, <1>4, ShapesByRef
<1>10. Shapes(e) = Shapes(d)
  BY <1>8, <1>9
<1> QED
  BY <1>5, <1>10

(* An item without a name that no event but a fact gives. *)
LEMMA FactItem ==
  ASSUME FoldInv, OrderInv, NEW d, SoundTree(d), Still(Shapes(d)),
         Settled(Shapes(d), given + 1), Answered(Shapes(d), anchors),
         NEW arena \in {"tables", "key_values"}, NEW kind \in {"table", "key_values"},
         NEW parent \in Refs, parent = CurrentParent(headings), CanHold(d, parent)
  PROVE  LET e == AddItem(d, arena, NewItem(NextRef(d, arena), parent, kind)) IN
         Still(Shapes(e)) /\ Settled(Shapes(e), given + 1) /\ Answered(Shapes(e), anchors)
PROOF
<1> DEFINE self == NextRef(d, arena)
           item == NewItem(self, parent, kind)
           a == Shape(item)
           e == AddItem(d, arena, item)
<1>1. arena \in Arenas /\ kind \in Kinds /\ given \in Nat /\ given + 1 \in Nat
  BY InvFacts DEF Arenas, Kinds
<1>2. self \in Refs
  BY <1>1, NextRefIsRef DEF SoundTree
<1>3. item \in Item
  BY <1>1, <1>2, NewItemIs
<1>4. /\ item.self = self /\ item.parent = parent /\ item.kind = kind /\ item.level = 0
      /\ item.from = given + 1 /\ item.cites = {} /\ item.id = NoName
  BY DEF NewItem, ItemFrom
<1> HIDE DEF item, self
<1>5. Quiet(item)
  BY <1>1, <1>4 DEF Quiet, IsHeading, IsListItem
<1>6. /\ Shapes(e) = Shapes(d) \cup {a} /\ Still(Shapes(e))
      /\ \A from \in Nat : Settled(Shapes(d), from) => Settled(Shapes(e), from)
  <2>1. item.self = NextRef(d, arena) /\ CanHold(d, item.parent) /\ Settled(Shapes(d), item.from)
    BY <1>4 DEF self
  <2> HIDE DEF a, e
  <2>2. LET f == AddItem(d, arena, item) IN
         /\ Shapes(f) = Shapes(d) \cup {Shape(item)} /\ Still(Shapes(f))
         /\ \A from \in Nat : Settled(Shapes(d), from) => Settled(Shapes(f), from)
    BY <2>1, <1>1, <1>3, <1>5, QuietItem
  <2> QED
    BY <2>2 DEF a, e
<1>7. a.id = NoName
  BY <1>3, <1>4, ShapeFields
<1> HIDE DEF a, e
<1>8. Answered(Shapes(d) \cup {a}, anchors)
  BY <1>7, NamesSkip
<1>9. Settled(Shapes(e), given + 1)
  BY <1>1, <1>6
<1>10. Still(Shapes(e)) /\ Settled(Shapes(e), given + 1) /\ Answered(Shapes(e), anchors)
  BY <1>6, <1>8, <1>9
<1> QED
  BY <1>10 DEF e, item, self

LEMMA FactOrder ==
  ASSUME FoldInv, OrderInv, NEW e \in Events, OnFact(e), NextEvent(e)
  PROVE  OrderInv'
PROOF
<1> DEFINE parent == CurrentParent(headings)
           ref == NextRef(doc, "tables")
           new == NewItem(ref, parent, "table")
           opened == IF factsTable = 0 THEN AddItem(doc, "tables", new) ELSE doc
           index == IF factsTable = 0 THEN ref[2] ELSE factsTable
           self == NextRef(doc, "key_values")
           pairs == NewItem(self, parent, "key_values")
           graphed == AddItem(opened, "key_values", pairs)
           pointed == [graphed EXCEPT !["tables"][index].points = @ \cup {self}]
<1>1. /\ parent \in Refs /\ CanHold(doc, parent) /\ ref \in Refs /\ self \in Refs
      /\ "tables" \in Arenas /\ "key_values" \in Arenas /\ Len(doc["tables"]) \in Nat
      /\ SoundTree(doc) /\ doc \in [Arenas -> Seq(Item)]
  BY InvFacts DEF Arenas
<1>2. /\ Still(Shapes(doc)) /\ Settled(Shapes(doc), given + 1)
      /\ Answered(Shapes(doc), anchors)
  BY OrderFacts DEF OrderInv, OrderOf
<1>3. new \in Item /\ new.self = ref /\ new.parent = parent
      /\ new.children = <<>> /\ new.points = {}
  BY <1>1, InvFacts, NewItemIs DEF Kinds
<1>4. pairs \in Item /\ pairs.self = self /\ pairs.parent = parent
      /\ pairs.children = <<>> /\ pairs.points = {}
  BY <1>1, InvFacts, NewItemIs DEF Kinds
<1>5. /\ factsTable' = index
      /\ doc' = IF e.dimensions THEN pointed ELSE opened
      /\ headings' = headings /\ lists' = <<>> /\ anchors' = anchors /\ table' = table
      /\ given' = given + 1 /\ ~table.open
  <2>1. new.self[2] = ref[2]
    BY <1>3
  <2>2. /\ factsTable' = (IF factsTable = 0 THEN new.self[2] ELSE factsTable)
        /\ doc' = IF e.dimensions
                  THEN [graphed EXCEPT
                          !["tables"][IF factsTable = 0 THEN new.self[2] ELSE factsTable].points
                            = @ \cup {pairs.self}]
                  ELSE opened
    BY DEF OnFact
  <2>3. /\ headings' = headings /\ lists' = <<>> /\ anchors' = anchors /\ table' = table
        /\ given' = given + 1 /\ ~table.open
    BY DEF OnFact, EndListRun, NextEvent, Expected
  <2> HIDE DEF new, pairs, graphed, opened
  <2> QED
    BY <2>1, <2>2, <2>3, <1>4
<1>6. /\ SoundTree(opened) /\ Grown(doc, opened) /\ index \in 1..Len(opened["tables"])
      /\ Still(Shapes(opened)) /\ Settled(Shapes(opened), given + 1)
      /\ Answered(Shapes(opened), anchors)
  <2>1. CASE factsTable = 0
    <3>1. LET f == AddItem(doc, "tables", new) IN
            SoundTree(f) /\ Grown(doc, f) /\ Len(f["tables"]) = Len(doc["tables"]) + 1
      BY <1>1, <1>3, AddNew
    <3>2. ref[2] = Len(doc["tables"]) + 1
      BY DEF NextRef
    <3>3. LET f == AddItem(doc, "tables", NewItem(NextRef(doc, "tables"), parent, "table")) IN
            Still(Shapes(f)) /\ Settled(Shapes(f), given + 1) /\ Answered(Shapes(f), anchors)
      BY <1>1, <1>2, FactItem
    <3> QED
      BY <2>1, <3>1, <3>2, <3>3, <1>1
  <2>2. CASE factsTable # 0
    <3>1. factsTable \in 1..Len(doc["tables"])
      BY <2>2, <1>1 DEF FoldInv, TableInv
    <3> QED
      BY <2>2, <3>1, <1>1, <1>2, GrownItself
  <2> QED
    BY <2>1, <2>2
<1>7. self = NextRef(opened, "key_values")
  <2>1. CASE factsTable = 0
    <3>1. Len(AddItem(doc, "tables", new)["key_values"]) = Len(doc["key_values"])
      <4>1. "key_values" # "tables"
        OBVIOUS
      <4> HIDE DEF new
      <4> QED
        BY <4>1, <1>1, <1>3, OtherArena
    <3> QED
      BY <2>1, <3>1 DEF NextRef
  <2>2. CASE factsTable # 0
    BY <2>2
  <2> QED
    BY <2>1, <2>2
<1>8. index > 0
  BY <1>6
<1> HIDE DEF new, opened, index, parent
<1>9. CanHold(opened, parent)
  BY <1>1, <1>6 DEF Grown
<1>10. /\ SoundTree(graphed) /\ Grown(opened, graphed)
       /\ Still(Shapes(graphed)) /\ Answered(Shapes(graphed), anchors)
  <2>1. LET f == AddItem(opened, "key_values", pairs) IN SoundTree(f) /\ Grown(opened, f)
    <3> HIDE DEF pairs
    <3> QED
      BY <1>1, <1>4, <1>6, <1>7, <1>9, AddNew
  <2>2. LET f == AddItem(opened, "key_values",
                         NewItem(NextRef(opened, "key_values"), parent, "key_values")) IN
          Still(Shapes(f)) /\ Settled(Shapes(f), given + 1) /\ Answered(Shapes(f), anchors)
    BY <1>1, <1>6, <1>9, FactItem DEF parent
  <2>3. graphed = AddItem(opened, "key_values",
                          NewItem(NextRef(opened, "key_values"), parent, "key_values"))
    BY <1>7
  <2> HIDE DEF graphed, self
  <2>4. Still(Shapes(graphed)) /\ Answered(Shapes(graphed), anchors)
    BY <2>2, <2>3
  <2> QED
    BY <2>1, <2>4 DEF graphed
<1> HIDE DEF graphed, pairs, self
<1>11. index \in DOMAIN graphed["tables"]
  <2>1. Len(opened["tables"]) <= Len(graphed["tables"])
    BY <1>10 DEF Grown
  <2>2. /\ DOMAIN graphed["tables"] = 1..Len(graphed["tables"])
        /\ Len(graphed["tables"]) \in Nat /\ Len(opened["tables"]) \in Nat
    BY <1>1, <1>6, <1>10 DEF SoundTree
  <2> QED
    BY <2>1, <2>2, <1>6
<1> HIDE DEF pointed
<1>12. Shapes(pointed) = Shapes(graphed)
  <2>1. graphed \in [Arenas -> Seq(Item)]
    BY <1>10 DEF SoundTree
  <2>2. self \in Refs
    BY <1>1
  <2>3. Shapes([graphed EXCEPT !["tables"][index].points = @ \cup {self}]) = Shapes(graphed)
    BY ONLY <2>1, <2>2, <1>11, PointShapes
  <2> QED
    BY ONLY <2>3 DEF pointed
<1>13. Still(Shapes(doc')) /\ Answered(Shapes(doc'), anchors')
  <2>1. CASE e.dimensions
    BY <2>1, <1>5, <1>10, <1>12
  <2>2. CASE ~e.dimensions
    BY <2>2, <1>5, <1>6
  <2> QED
    BY <2>1, <2>2
<1>14. factsTable' # 0
  BY <1>5, <1>8
<1>15. ListsOpen(Shapes(doc'), lists', Calm')
  <2>1. Calm' = FALSE
    BY <1>14 DEF Calm
  <2>2. ListsOpen(Shapes(doc'), <<>>, FALSE)
    BY ListsEnd
  <2> QED
    BY <2>1, <2>2, <1>5
<1> QED
  BY <1>5, <1>13, <1>14, <1>15, NoTableWaits, Assembled

-----------------------------------------------------------------------------
(* A heading.                                                              *)

LEMMA FreshShape ==
  ASSUME NEW d, SoundTree(d), NEW arena \in Arenas
  PROVE  /\ ~Resolves(d, NextRef(d, arena))
         /\ \A x \in Shapes(d) : x.self # NextRef(d, arena)
PROOF
<1>1. ~Resolves(d, NextRef(d, arena))
  <2>1. d[arena] \in Seq(Item)
    BY DEF SoundTree
  <2> QED
    BY <2>1 DEF Resolves, NextRef
<1> QED
  BY <1>1, ShapesKeyed

LEMMA HeadingOrder ==
  ASSUME FoldInv, OrderInv, NEW e \in TextEvents, PushHeading(e), NextEvent(e),
         ~table.open, UNCHANGED <<table, factsTable>>
  PROVE  OrderInv'
PROOF
<1>1. PICK n \in 0..Len(headings) :
        LET Closes(open) == ClosesHeading(open, e.level)
            kept == SubSeq(headings, 1, n)
            self == NextRef(doc, "texts")
            item == [NewText(e, self, CurrentParent(kept), "heading")
                       EXCEPT !.level = e.level]
        IN /\ PoppedTo(headings, n, Closes)
           /\ doc' = AddItem(doc, "texts", item)
           /\ headings' = Append(kept, [level |-> e.level, ref |-> self])
           /\ anchors' = Claimed(anchors, e.id, self)
  BY DEF PushHeading
<1> DEFINE S == Shapes(doc)
           kept == SubSeq(headings, 1, n)
           self == NextRef(doc, "texts")
           parent == CurrentParent(kept)
           text == NewText(e, self, parent, "heading")
           item == [text EXCEPT !.level = e.level]
           a == Shape(item)
           top == [level |-> e.level, ref |-> self]
<1>2. /\ SoundTree(doc) /\ given \in Nat /\ "texts" \in Arenas
      /\ headings \in Seq(OpenSections) /\ self \in Refs /\ self[1] = "texts"
  BY InvFacts DEF Arenas, NextRef
<1>3. parent \in Refs /\ CanHold(doc, parent)
  <2>1. kept \in Seq(OpenSections) /\ HoldsAll(doc, kept)
    BY InvFacts, Kept, KeptHolds
  <2> QED
    BY <2>1, InvFacts, CurrentParentHolds
<1>4. e.level \in Nat /\ e.id \in Names \cup {NoName} /\ e.cites \subseteq Names
  BY DEF TextEvents
<1>5. /\ text \in Item /\ text.self = self /\ text.parent = parent /\ text.kind = "heading"
      /\ text.from = given + 1 /\ text.id = e.id
  <2>1. text \in Item
    BY <1>2, <1>3, <1>4, InvFacts, NewTextIs DEF Kinds
  <2> QED
    BY <2>1 DEF NewText, NewItem, ItemFrom
<1> HIDE DEF text
<1>6. /\ item \in Item /\ item.self = self /\ item.parent = parent /\ item.kind = "heading"
      /\ item.from = given + 1 /\ item.id = e.id /\ item.level = e.level
  BY <1>4, <1>5 DEF Item
<1>7. /\ doc' = AddItem(doc, "texts", item) /\ headings' = Append(kept, top)
      /\ anchors' = Claimed(anchors, e.id, self) /\ lists' = <<>> /\ given' = given + 1
  BY <1>1 DEF text, PushHeading, EndListRun, NextEvent
<1>8. KeepsFirst(headings, n, e.level)
  <2>1. /\ \A i \in (n + 1)..Len(headings) : ClosesHeading(headings[i], e.level)
        /\ n > 0 => ~ClosesHeading(headings[n], e.level)
    BY <1>1 DEF PoppedTo
  <2>2. n > 0 => headings[n].level \in Nat
    <3>1. n > 0 => headings[n] \in OpenSections
      BY <1>2
    <3> QED
      BY <3>1 DEF OpenSections
  <2> QED
    BY <2>1, <2>2, <1>4 DEF ClosesHeading, KeepsFirst
<1> HIDE DEF item, kept
<1>9. /\ a \in ShapeType /\ a.self = self /\ a.parent = parent /\ a.kind = "heading"
      /\ a.from = given + 1 /\ a.id = e.id /\ a.level = e.level
  BY <1>6, ShapeFields
<1>10. Shapes(doc') = S \cup {a}
  <2>1. doc \in [Arenas -> Seq(Item)] /\ item.self = NextRef(doc, "texts")
        /\ CanHold(doc, item.parent)
    BY <1>2, <1>3, <1>6 DEF SoundTree
  <2>2. Shapes(AddItem(doc, "texts", item)) = S \cup {a}
    BY <2>1, <1>2, <1>6, AddShapes
  <2> QED
    BY <2>2, <1>7
<1>11. /\ S \subseteq ShapeType /\ Keyed(S) /\ Dated(S, given + 1) /\ Cited(S)
       /\ SectionsOpen(S, headings) /\ Nested(S) /\ Grouped(S) /\ Pairwise(S, factsTable # 0)
       /\ (\A x \in S : x.from < given + 1) /\ Answered(S, anchors)
  BY OrderFacts DEF Still, OrderInv, OrderOf
<1>12. \A x \in S : x.self # a.self
  BY <1>2, <1>9, FreshShape
<1> HIDE DEF a, top, self, S, parent
<1> DEFINE T == S \cup {a}
<1>13. IsHeading(a) /\ ~IsListItem(a) /\ \A x \in S : x.from < a.from
  BY <1>9, <1>11 DEF IsHeading, IsListItem
<1>14. Placed(S, a)
  <2>1. KeepsFirst(headings, n, a.level) /\ a.parent = CurrentParent(SubSeq(headings, 1, n))
    BY <1>8, <1>9 DEF parent, kept
  <2> QED
    BY <2>1, <1>2, <1>9, <1>11, <1>13, PlacedOnTop
<1>15. Nested(T)
  <2>1. a.from \in Nat /\ \A x \in S : x.from \in Nat /\ x.from < a.from
    BY <1>2, <1>9, <1>11, <1>13 DEF ShapeType
  <2>2. \A x \in S : x.from <= a.from
    BY <2>1
  <2> QED
    BY <2>2, <1>9, <1>11, <1>14, NestedAdd
<1>16. SectionsOpen(T, headings')
  <2>1. SectionsOpen(S \cup {a}, Append(SubSeq(headings, 1, n), top))
    <3>1. top.level = a.level /\ top.ref = a.self
      BY <1>9 DEF top
    <3>2. KeepsFirst(headings, n, a.level) /\ a.self[1] = "texts"
      BY <1>2, <1>8, <1>9
    <3> QED
      BY <3>1, <3>2, <1>2, <1>9, <1>11, <1>12, <1>13, SectionsPush
  <2> QED
    BY <2>1, <1>7 DEF kept
<1>17. Dated(T, given') /\ Cited(T) /\ Grouped(T)
  <2>1. a.from \in 0..(given + 1)
    BY <1>2, <1>9
  <2>2. Dated(T, given')
    BY <2>1, <1>7, <1>11 DEF Dated
  <2>3. Cited(T)
    BY <1>2, <1>9, <1>11 DEF Cited, ShapeType
  <2> QED
    BY <2>2, <2>3, <1>11, <1>13 DEF Grouped
<1>18. Answered(T, anchors')
  <2>1. a.kind # "island" /\ \A x \in S : x.id # NoName => x.from < a.from
    BY <1>9, <1>13
  <2>2. Answered(S \cup {a}, Claimed(anchors, a.id, a.self))
    BY <2>1, <1>9, <1>11, NamesClaim
  <2> QED
    BY <2>2, <1>7, <1>9
<1>19. Pairwise(T, factsTable' # 0)
  <2>1. (factsTable # 0) \in BOOLEAN /\ \A x \in S : IsListItem(x) => x.from < a.from
    BY <1>13
  <2>2. Pairwise(S \cup {a}, factsTable # 0)
    BY <2>1, <1>9, <1>11, <1>13, PairwiseKeep
  <2> QED
    BY <2>2
<1>20. ListsOpen(T, lists', Calm')
  <2>1. Interrupts(a)
    <3>1. a.parent = Body \/ a.parent[1] = "texts"
      BY <1>11, <1>14 DEF Placed, Above, SectionsOpen, HeadingPlaces
    <3> QED
      BY <3>1, <1>9 DEF Interrupts, Body, Furniture
  <2>2. a \in T /\ \A x \in T : IsListItem(x) => x.from < a.from
    BY <1>13
  <2>3. Calm' \in BOOLEAN
    BY DEF Calm
  <2>4. ListsOpen(T, <<>>, Calm')
    <3> HIDE DEF T
    <3> QED
      BY <2>1, <2>2, <2>3, <1>13, ListsEnd
  <2> QED
    BY <2>4, <1>7
<1> QED
  BY <1>10, <1>15, <1>16, <1>17, <1>18, <1>19, <1>20, NoTableWaits DEF OrderInv, OrderOf

-----------------------------------------------------------------------------
(* A list item.                                                            *)

(* What an item in a list, and the groups G that come with it, leave. *)
LEMMA ItemShapes ==
  ASSUME FoldInv, OrderInv, NEW G, Still(Shapes(doc) \cup G),
         \A g \in G : g.kind = "list" /\ g.id = NoName,
         NEW y \in ShapeType, y.kind = "text" /\ y.level > 0, y.from = given + 1,
         y.parent[1] = "groups", y.self[1] = "texts",
         \A x \in Shapes(doc) \cup G : x.self # y.self,
         NEW n \in 0..Len(lists), StaysOpen(lists, n, y), Adds(Shapes(doc), lists, n, y, G),
         Shapes(doc') = Shapes(doc) \cup G \cup {y},
         lists' = AfterItem(lists, n, y), anchors' = Claimed(anchors, y.id, y.self),
         headings' = headings, given' = given + 1,
         ~table.open, UNCHANGED <<table, factsTable>>
  PROVE  OrderInv'
PROOF
<1> DEFINE S == Shapes(doc)
           R == S \cup G
           T == R \cup {y}
           facts == factsTable # 0
<1>1. /\ R \subseteq ShapeType /\ Keyed(R) /\ Dated(R, given + 1) /\ Cited(R)
      /\ SectionsOpen(R, headings) /\ Nested(R) /\ Grouped(R)
  BY DEF Still
<1>2. /\ S \subseteq ShapeType /\ Answered(S, anchors) /\ ListsOpen(S, lists, Calm)
      /\ Pairwise(S, facts) /\ \A x \in S : x.from < given + 1
  BY OrderFacts DEF Still, OrderInv, OrderOf
<1>3. given \in Nat /\ lists \in Seq(OpenLists)
  BY InvFacts
<1> HIDE DEF S
<1>4. IsListItem(y) /\ ~IsHeading(y) /\ \A g \in G : ~IsListItem(g)
  BY DEF IsListItem, IsHeading
<1>5. ComesLast(S, y)
  BY <1>2, <1>4 DEF ComesLast, Furniture
<1>6. T \subseteq ShapeType /\ Keyed(T) /\ Grouped(T)
  BY <1>1, <1>4 DEF Keyed, Grouped, S
<1>7. Dated(T, given + 1) /\ Cited(T)
  <2>1. y.from \in 0..(given + 1) /\ y.cites \subseteq Names
    BY <1>3 DEF ShapeType
  <2> QED
    BY <2>1, <1>1 DEF Dated, Cited
<1>8. SectionsOpen(T, headings)
  BY <1>1, <1>4, SectionsKeep
<1>9. Nested(T)
  BY <1>1, <1>4, NestedAdd
<1>10. ListsOpen(T, lists', Calm')
  <2>1. Calm' = Calm /\ Calm \in BOOLEAN
    BY DEF Calm
  <2>2. ListsOpen(S \cup G \cup {y}, AfterItem(lists, n, y), Calm)
    BY <2>1, <1>2, <1>3, <1>5, ListsPush DEF S
  <2> QED
    BY <2>1, <2>2
<1>11. Pairwise(T, facts)
  <2>1. facts \in BOOLEAN /\ ListsOpen(S, lists, ~facts)
    BY <1>2 DEF Calm
  <2> HIDE DEF facts
  <2>2. Pairwise(S \cup G \cup {y}, facts)
    BY <2>1, <1>2, <1>3, <1>5, PairwisePush DEF S
  <2> QED
    BY <2>2
<1>12. Answered(T, anchors')
  <2>1. \A name \in Names : Homes(R, name) = Homes(S, name)
    BY DocumentFoldAssumption DEF Homes
  <2>2. Answered(R, anchors)
    BY <2>1, <1>2 DEF Answered
  <2>3. \A x \in R : x.id # NoName => x.from < y.from
    BY <1>2
  <2>4. Answered(R \cup {y}, Claimed(anchors, y.id, y.self))
    BY <2>2, <2>3, <1>1, NamesClaim
  <2> QED
    BY <2>4
<1>13. Still(T)
  BY <1>6, <1>7, <1>8, <1>9, <1>11 DEF Still
<1>14. Shapes(doc') = T
  BY DEF S
<1> QED
  BY <1>10, <1>12, <1>13, <1>14, NoTableWaits, Assembled

LEMMA ListItemOrder ==
  ASSUME FoldInv, OrderInv, NEW e \in TextEvents, PushListItem(e), NextEvent(e),
         ~table.open, UNCHANGED <<table, factsTable>>
  PROVE  OrderInv'
PROOF
<1> DEFINE depth == DepthOf(e)
           self == NextRef(doc, "texts")
           newGroup(above) == NewItem(NextRef(doc, "groups"), above, "list")
           group(above) == [newGroup(above) EXCEPT !.level = depth, !.ordered = e.ordered]
           text(parent) == NewText(e, self, parent, "text")
           item(parent) == [text(parent) EXCEPT !.level = depth, !.ordered = e.ordered]
<1>1. PICK n \in 0..Len(lists) :
        LET Closes(open) == ClosesList(open, depth, e.ordered)
            kept == SubSeq(lists, 1, n)
            opens == n = 0 \/ lists[n].depth < depth
            above == IF n = 0 THEN CurrentParent(headings) ELSE lists[n].ref
            grouped == IF opens THEN AddItem(doc, "groups", group(above)) ELSE doc
            parent == IF opens THEN group(above).self ELSE lists[n].ref
        IN /\ PoppedTo(lists, n, Closes)
           /\ doc' = AddItem(grouped, "texts", item(parent))
           /\ lists' = IF opens
                       THEN Append(kept, [depth |-> depth, ordered |-> e.ordered,
                                          ref |-> group(above).self])
                       ELSE kept
           /\ anchors' = Claimed(anchors, e.id, self)
  BY DEF PushListItem
<1> DEFINE S == Shapes(doc)
           kept == SubSeq(lists, 1, n)
           opens == n = 0 \/ lists[n].depth < depth
           above == IF n = 0 THEN CurrentParent(headings) ELSE lists[n].ref
           ref == NextRef(doc, "groups")
           grouped == IF opens THEN AddItem(doc, "groups", group(above)) ELSE doc
           parent == IF opens THEN ref ELSE lists[n].ref
           g == Shape(group(above))
           G == IF opens THEN {g} ELSE {}
           y == Shape(item(parent))
<1>2. /\ depth \in Nat /\ depth > 0 /\ e.ordered \in BOOLEAN /\ e.id \in Names \cup {NoName}
      /\ self \in Refs /\ ref \in Refs /\ self[1] = "texts" /\ ref[1] = "groups"
      /\ "texts" \in Arenas /\ "groups" \in Arenas
      /\ SoundTree(doc) /\ doc \in [Arenas -> Seq(Item)]
      /\ given \in Nat /\ given + 1 \in Nat /\ lists \in Seq(OpenLists)
  BY InvFacts DEF TextEvents, Arenas, DepthOf, NextRef
<1> HIDE DEF depth
<1>3. /\ n # 0 => n \in DOMAIN lists
      /\ \A i \in DOMAIN lists : lists[i].ref \in Refs /\ CanHold(doc, lists[i].ref)
  <2>1. \A i \in DOMAIN lists : lists[i] \in OpenLists
    BY <1>2
  <2> QED
    BY <2>1, <1>2, InvFacts DEF HoldsAll, OpenLists
<1>4. above \in Refs /\ CanHold(doc, above)
  BY <1>3, InvFacts
<1>5. n # 0 => lists[n].ref[1] = "groups"
  <2> SUFFICES ASSUME n # 0 PROVE lists[n].ref[1] = "groups"
    OBVIOUS
  <2>1. PICK x \in S : IsListItem(x) /\ x.parent = lists[n].ref
    BY <1>3 DEF OrderInv, OrderOf, ListsOpen, ListsFilled
  <2> QED
    BY <2>1 DEF OrderInv, OrderOf, Grouped
<1>6. /\ Still(S) /\ Settled(S, given + 1) /\ \A x \in S : x.from < given + 1
  BY OrderFacts
<1>7. above[1] \in {"body", "texts"} => above = CurrentParent(headings)
  BY <1>5
<1> HIDE DEF kept, above
<1>8. /\ group(above) \in Item /\ group(above).self = ref /\ group(above).parent = above
      /\ group(above).children = <<>> /\ group(above).points = {}
      /\ group(above).kind = "list" /\ group(above).from = given + 1
      /\ group(above).id = NoName /\ group(above).cites = {}
  <2>1. newGroup(above) \in Item
    BY <1>2, <1>4, InvFacts, NewItemIs DEF Kinds
  <2>2. /\ newGroup(above).self = ref /\ newGroup(above).parent = above
        /\ newGroup(above).children = <<>> /\ newGroup(above).points = {}
        /\ newGroup(above).kind = "list" /\ newGroup(above).from = given + 1
        /\ newGroup(above).id = NoName /\ newGroup(above).cites = {}
    BY DEF NewItem, ItemFrom
  <2> HIDE DEF newGroup
  <2> QED
    BY <1>2, <2>1, <2>2 DEF Item
<1> HIDE DEF group
<1>9. Quiet(group(above))
  BY <1>2, <1>7, <1>8 DEF Quiet, IsHeading, IsListItem
<1>10. /\ g.kind = "list" /\ g.id = NoName /\ g.self = ref /\ g.parent = above
  BY <1>8, ShapeFields
<1> HIDE DEF g
<1>11. /\ SoundTree(grouped) /\ parent \in Refs /\ CanHold(grouped, parent)
       /\ Shapes(grouped) = S \cup G /\ Still(Shapes(grouped))
  <2>1. CASE opens
    <3>1. LET f == AddItem(doc, "groups", group(above)) IN
            SoundTree(f) /\ Grown(doc, f) /\ CanHold(f, group(above).self)
      BY <1>2, <1>4, <1>8, AddNew
    <3>2. LET f == AddItem(doc, "groups", group(above)) IN
           /\ Shapes(f) = Shapes(doc) \cup {Shape(group(above))} /\ Still(Shapes(f))
           /\ \A from \in Nat : Settled(Shapes(doc), from) => Settled(Shapes(f), from)
      BY <1>2, <1>4, <1>6, <1>8, <1>9, QuietItem
    <3> QED
      BY <2>1, <3>1, <3>2, <1>2, <1>8 DEF g
  <2>2. CASE ~opens
    BY <2>2, <1>2, <1>3, <1>6
  <2> QED
    BY <2>1, <2>2
<1>12. self = NextRef(grouped, "texts")
  <2>1. CASE opens
    <3>1. Len(AddItem(doc, "groups", group(above))["texts"]) = Len(doc["texts"])
      <4>1. /\ "groups" \in Arenas /\ "texts" \in Arenas /\ "texts" # "groups"
            /\ doc \in [Arenas -> Seq(Item)] /\ group(above) \in Item
        BY <1>2, <1>8
      <4> QED
        BY ONLY <4>1, OtherArena
    <3> QED
      BY <2>1, <3>1 DEF NextRef
  <2>2. CASE ~opens
    BY <2>2
  <2> QED
    BY <2>1, <2>2
<1>13. parent[1] = "groups"
  BY <1>2, <1>5
<1>14. /\ doc' = AddItem(grouped, "texts", item(parent))
       /\ lists' = IF opens
                   THEN Append(kept, [depth |-> depth, ordered |-> e.ordered, ref |-> ref])
                   ELSE kept
       /\ anchors' = Claimed(anchors, e.id, self) /\ headings' = headings
       /\ given' = given + 1
  BY <1>1, <1>8 DEF kept, above, PushListItem, NextEvent
<1>15. /\ \A i \in (n + 1)..Len(lists) : ClosesList(lists[i], depth, e.ordered)
       /\ n > 0 => ~ClosesList(lists[n], depth, e.ordered)
  BY <1>1 DEF PoppedTo
<1> HIDE DEF grouped
<1>16. /\ item(parent) \in Item /\ item(parent).self = self /\ item(parent).parent = parent
       /\ item(parent).kind = "text" /\ item(parent).level = depth
       /\ item(parent).ordered = e.ordered /\ item(parent).from = given + 1
       /\ item(parent).id = e.id
  <2>1. text(parent) \in Item
    BY <1>2, <1>11, InvFacts, NewTextIs DEF Kinds
  <2>2. /\ text(parent).self = self /\ text(parent).parent = parent
        /\ text(parent).kind = "text" /\ text(parent).from = given + 1
        /\ text(parent).id = e.id
    BY <2>1 DEF NewText, NewItem, ItemFrom
  <2> HIDE DEF text
  <2> QED
    BY <1>2, <2>1, <2>2 DEF Item
<1> HIDE DEF item
<1>17. /\ y \in ShapeType /\ y.self = self /\ y.parent = parent /\ y.kind = "text"
       /\ y.level = depth /\ y.ordered = e.ordered /\ y.from = given + 1 /\ y.id = e.id
  BY <1>16, ShapeFields
<1>18. Shapes(doc') = S \cup G \cup {y}
  <2>1. Shapes(AddItem(grouped, "texts", item(parent))) = Shapes(grouped) \cup {y}
    <3>1. grouped \in [Arenas -> Seq(Item)] /\ item(parent).self = NextRef(grouped, "texts")
          /\ CanHold(grouped, item(parent).parent)
      BY <1>11, <1>12, <1>16 DEF SoundTree
    <3>2. "texts" \in Arenas /\ item(parent) \in Item
      BY <1>16 DEF Arenas
    <3> QED
      BY ONLY <3>1, <3>2, AddShapes
  <2> QED
    BY <2>1, <1>11, <1>14
<1>19. \A x \in S \cup G : x.self # y.self
  BY <1>2, <1>11, <1>12, <1>17, FreshShape
<1> HIDE DEF y
<1>20. StaysOpen(lists, n, y)
  BY <1>15, <1>17 DEF StaysOpen
<1>21. opens <=> OpensList(lists, n, y)
  BY <1>17 DEF OpensList
<1>22. Adds(S, lists, n, y, G)
  <2>1. ASSUME opens, NEW x \in S PROVE x.parent # ref
    <3>1. Resolves(doc, x.self) /\ x.self \in Refs /\ x = Shape(At(doc, x.self))
      BY <1>2, ShapesKeyed
    <3>2. At(doc, x.self) \in Item /\ SoundItem(doc, x.self)
      BY <3>1, <1>2, ItemsAreItems DEF SoundTree, SoundDoc
    <3>3. x.parent = At(doc, x.self).parent
      BY <3>1, <3>2, ShapeFields
    <3>4. x.parent = NoRef \/ Resolves(doc, x.parent)
      BY <3>2, <3>3 DEF SoundItem
    <3>5. ~Resolves(doc, ref)
      BY <1>2, FreshShape
    <3> QED
      BY <3>4, <3>5, <1>2, RefsAreRefs
  <2>2. ASSUME opens, NEW i \in DOMAIN lists PROVE lists[i].ref # ref
    <3>1. ~Resolves(doc, ref)
      BY <1>2, FreshShape
    <3> QED
      BY <3>1, <1>3 DEF CanHold
  <2>3. opens /\ n > 0 => g \in G /\ g.self = ref /\ g.parent = lists[n].ref
    BY <1>10 DEF above
  <2>4. opens => y.parent = ref
    BY <1>17
  <2>5. ~opens => y.parent = lists[n].ref
    BY <1>17
  <2>6. \A z \in G : z.kind = "list"
    BY <1>10
  <2> HIDE DEF opens, G, ref
  <2> QED
    BY <2>1, <2>2, <2>3, <2>4, <2>5, <2>6, <1>21 DEF Adds
<1>23. lists' = AfterItem(lists, n, y)
  <2>1. opens => y.parent = ref
    BY <1>17
  <2> HIDE DEF opens
  <2> QED
    BY <2>1, <1>14, <1>17, <1>21 DEF AfterItem, kept
<1>24. \A z \in G : z.kind = "list" /\ z.id = NoName
  BY <1>10
<1>25. y.kind = "text" /\ y.level > 0 /\ y.parent[1] = "groups" /\ y.self[1] = "texts"
  BY <1>2, <1>13, <1>17
<1> HIDE DEF G, parent, opens, self, ref
<1>26. Still(S \cup G)
  BY <1>11
<1>27. anchors' = Claimed(anchors, y.id, y.self)
  BY <1>14, <1>17
<1> QED
  BY <1>14, <1>17, <1>18, <1>19, <1>20, <1>22, <1>23, <1>24, <1>25, <1>26, <1>27, ItemShapes

-----------------------------------------------------------------------------
(* Every step.                                                             *)

LEMMA TextOrder ==
  ASSUME FoldInv, OrderInv, NEW e \in TextEvents, PushText(e), given' = given + 1,
         ~table.open
  PROVE  OrderInv'
PROOF
<1>1. UNCHANGED <<table, factsTable>>
  BY DEF PushText
<1>2. NextEvent(e)
  BY DEF NextEvent, Expected
<1>3. PushHeading(e) \/ PushChrome(e) \/ PushListItem(e) \/ PushParagraph(e)
  BY DEF PushText
<1> QED
  BY <1>1, <1>2, <1>3, HeadingOrder, ChromeOrder, ListItemOrder, ParagraphOrder

LEMMA IgnoredEventOrder ==
  ASSUME FoldInv, OrderInv, given' = given + 1, Ignored
  PROVE  OrderInv'
  BY IgnoredOrder DEF Ignored

LEMMA NoteOrder ==
  ASSUME FoldInv, OrderInv, NEW e \in Events, OnNote(e), NextEvent(e)
  PROVE  OrderInv'
PROOF
<1>1. e.event = "xbrl_note" /\ given' = given + 1 /\ ~table.open
  BY DEF OnNote, NextEvent, Expected
<1>2. e \in NoteEvents
  BY <1>1 DEF Events, TextEvents, PictureEvents, StartEvents, RowEvents, EndEvents,
              FactEvents, CitationEvents, IslandEvents, OtherEvents
<1>3. e.id \in Names \cup {NoName} /\ "footnote" \in TextLabels
  BY <1>2 DEF NoteEvents, TextLabels
<1>4. Plain("footnote", e.id) \in TextEvents
  BY <1>3, PlainIsText
<1>5. CASE e.footnote /\ ~e.empty
  BY <1>1, <1>4, <1>5, TextOrder DEF OnNote
<1>6. CASE ~(e.footnote /\ ~e.empty)
  BY <1>1, <1>6, IgnoredEventOrder DEF OnNote
<1> QED
  BY <1>5, <1>6

LEMMA CitationOrder ==
  ASSUME FoldInv, OrderInv, NEW e \in Events, OnCitation(e), NextEvent(e)
  PROVE  OrderInv'
PROOF
<1>1. e.event = "citation" /\ given' = given + 1 /\ ~table.open
  BY DEF OnCitation, NextEvent, Expected
<1>2. e \in CitationEvents
  BY <1>1 DEF Events, TextEvents, PictureEvents, StartEvents, RowEvents, EndEvents,
              FactEvents, NoteEvents, IslandEvents, OtherEvents
<1>3. e.id \in Names \cup {NoName} /\ "reference" \in TextLabels
  BY <1>2 DEF CitationEvents, TextLabels
<1>4. Plain("reference", e.id) \in TextEvents
  BY <1>3, PlainIsText
<1>5. CASE e.empty
  BY <1>1, <1>5, IgnoredEventOrder DEF OnCitation
<1>6. CASE ~e.empty
  BY <1>1, <1>4, <1>6, TextOrder DEF OnCitation
<1> QED
  BY <1>5, <1>6

LEMMA ConsumeOrder ==
  ASSUME FoldInv, OrderInv, NEW e \in vocabulary, Consume(e)
  PROVE  OrderInv'
PROOF
<1>1. e \in Events /\ given' = given + 1 /\ NextEvent(e)
  BY DEF FoldInv, Consume, NextEvent
<1>2. ASSUME OnText(e) PROVE OrderInv'
  <2>1. e.event = "text" /\ PushText(e) /\ ~table.open
    BY <1>1, <1>2 DEF OnText, NextEvent, Expected
  <2>2. e \in TextEvents
    BY <1>1, <2>1 DEF Events, PictureEvents, StartEvents, RowEvents, EndEvents,
                      FactEvents, NoteEvents, CitationEvents, IslandEvents, OtherEvents
  <2> QED
    BY <1>1, <2>1, <2>2, TextOrder
<1>3. ASSUME OnOther(e) PROVE OrderInv'
  BY <1>1, <1>3, IgnoredEventOrder DEF OnOther
<1>4. \/ OnText(e) \/ OnNote(e) \/ OnCitation(e) \/ OnPicture(e) \/ OnIsland(e)
      \/ OnTableStart(e) \/ OnTableRow(e) \/ OnTableEnd(e) \/ OnFact(e) \/ OnOther(e)
  BY DEF Consume
<1> QED
  BY <1>1, <1>2, <1>3, <1>4, NoteOrder, CitationOrder, PictureOrder, IslandOrder,
     TableStartOrder, TableRowOrder, TableEndOrder, FactOrder

LEMMA EmptyShapes ==
  \A x \in Shapes(EmptyDoc) :
    x.kind = "root" /\ x.parent = NoRef /\ x.from = 0 /\ x.level = 0 /\ x.id = NoName
    /\ x.cites = {}
PROOF
<1>1. EmptyDoc \in [Arenas -> Seq(Item)]
  BY EmptyIsSound DEF SoundTree
<1>2. /\ EmptyDoc["body"] = <<Root(Body)>> /\ EmptyDoc["furniture"] = <<Root(Furniture)>>
      /\ \A a \in Arenas : a \notin RootArenas => EmptyDoc[a] = <<>>
  BY DEF EmptyDoc, Arenas, RootArenas
<1> SUFFICES ASSUME NEW x \in Shapes(EmptyDoc)
             PROVE  x.kind = "root" /\ x.parent = NoRef /\ x.from = 0 /\ x.level = 0
                    /\ x.id = NoName /\ x.cites = {}
  OBVIOUS
<1>3. PICK ref \in Refs : Resolves(EmptyDoc, ref) /\ x = Shape(At(EmptyDoc, ref))
  BY <1>1, ShapesByRef
<1>4. ref[1] \in Arenas /\ ref[2] \in DOMAIN EmptyDoc[ref[1]]
  BY <1>3 DEF Resolves
<1>5. ref[1] \in RootArenas
  BY <1>2, <1>4
<1>6. \E root : EmptyDoc[ref[1]] = <<Root(root)>>
  BY <1>2, <1>5 DEF RootArenas
<1>7. \E root : At(EmptyDoc, ref) = Root(root)
  BY <1>4, <1>6 DEF At
<1> QED
  BY <1>3, <1>7 DEF Shape, Root, ItemFrom

LEMMA EmptyOrder ==
  ASSUME doc = EmptyDoc, table = NoTable, factsTable = 0, headings = <<>>, lists = <<>>,
         anchors = <<>>, given \in Nat
  PROVE  OrderInv
PROOF
<1> DEFINE S == Shapes(doc)
<1>1. \A x \in S : x.kind = "root" /\ x.parent = NoRef /\ x.from = 0 /\ x.level = 0
                   /\ x.id = NoName /\ x.cites = {}
  BY EmptyShapes
<1> HIDE DEF S
<1>2. /\ \A x \in S : ~IsHeading(x) /\ ~IsListItem(x)
      /\ \A x \in S : x.parent[1] \notin {"body", "texts"}
      /\ DOMAIN <<>> = {}
  BY <1>1 DEF IsHeading, IsListItem, NoRef
<1>3. Dated(S, given) /\ Cited(S)
  BY <1>1 DEF Dated, Cited
<1>4. Answered(S, anchors)
  BY <1>1, <1>2, DocumentFoldAssumption DEF Answered, Homes
<1>5. SectionsOpen(S, headings)
  BY <1>2 DEF SectionsOpen, HeadingPlaces, HeadingsDiffer, HeadingsFound, LevelsRise,
              HeadingsRise, HeadingsReach
<1>6. Nested(S) /\ Grouped(S)
  BY <1>2 DEF Nested, Grouped
<1>7. ListsOpen(S, lists, Calm)
  BY <1>2 DEF ListsOpen, DepthsRise, ListsInside, ItemsGoOn, ListsFilled, ItemsRise, RunsOpen
<1>8. Pairwise(S, factsTable # 0)
  BY <1>2 DEF Pairwise
<1>9. TableWaits(S)
  BY DEF TableWaits, NoTable
<1> QED
  BY <1>3, <1>4, <1>5, <1>6, <1>7, <1>8, <1>9 DEF OrderInv, OrderOf, S

LEMMA TakeOrder ==
  ASSUME FoldInv, Take
  PROVE  OrderInv'
PROOF
<1>1. /\ doc' = EmptyDoc /\ table' = NoTable /\ factsTable' = 0
      /\ headings' = <<>> /\ lists' = <<>> /\ anchors' = <<>> /\ given' = given
  BY DEF Take, CloseSections, EndListRun
<1>2. given \in Nat
  BY InvFacts
<1>3. (/\ doc = EmptyDoc /\ table = NoTable /\ factsTable = 0 /\ headings = <<>>
       /\ lists = <<>> /\ anchors = <<>> /\ given \in Nat
       => OrderInv)'
  BY EmptyOrder, PTL
<1> QED
  BY <1>1, <1>2, <1>3

(* At every moment the open headings and lists are those the tree says are *)
(* open, by level, depth and order of coming, and what is known of names   *)
(* is who carried them first: push_text, push_table and the like keep the  *)
(* stacks and the tree together (mod.rs:801-893, 1083-1084, 1419-1437).    *)
THEOREM OrderCorrect == Spec => []OrderInv
PROOF
<1>1. Init => OrderInv
  BY EmptyOrder, InitInv, InvFacts DEF Init
<1>2. FoldInv /\ OrderInv /\ [Next]_foldVars => OrderInv'
  <2> SUFFICES ASSUME FoldInv, OrderInv, [Next]_foldVars PROVE OrderInv'
    OBVIOUS
  <2>1. CASE \E e \in vocabulary : Consume(e)
    BY <2>1, ConsumeOrder
  <2>2. CASE Take
    BY <2>2, TakeOrder
  <2>3. CASE UNCHANGED foldVars
    BY <2>3 DEF foldVars, OrderInv, OrderOf, TableWaits, Calm
  <2> QED
    BY <2>1, <2>2, <2>3 DEF Next
<1> QED
  BY <1>1, <1>2, InvCorrect, PTL DEF Spec

-----------------------------------------------------------------------------
(* What the runs check, from the shapes.                                   *)

LEMMA ShapesOfItems ==
  ASSUME NEW d, SoundTree(d)
  PROVE  /\ \A x \in AllItems(d) : x \in Item /\ Shape(x) \in Shapes(d)
         /\ \A s \in Shapes(d) : \E x \in AllItems(d) : s = Shape(x)
PROOF
<1>1. ASSUME NEW x \in AllItems(d) PROVE x \in Item
  <2>1. PICK ref \in AllRefs(d) : x = At(d, ref)
    BY <1>1 DEF AllItems
  <2>2. PICK a \in Arenas : ref \in {a} \X DOMAIN d[a]
    BY DEF AllRefs
  <2>3. ref[1] = a /\ ref[2] \in DOMAIN d[a] /\ d[a] \in Seq(Item)
    BY <2>2 DEF SoundTree
  <2> QED
    BY <2>1, <2>3 DEF At
<1> QED
  BY <1>1 DEF Shapes

LEMMA ParentHere ==
  ASSUME FoldInv, OrderInv
  PROVE  ParentByLevel
PROOF
<1> DEFINE S == Shapes(doc)
<1>1. SoundTree(doc)
  BY InvFacts
<1>2. HeadingsDiffer(S) /\ Nested(S)
  BY DEF OrderInv, OrderOf, SectionsOpen
<1>3. S \subseteq ShapeType
  BY <1>1, ShapesTyped DEF SoundTree
<1> SUFFICES ASSUME NEW x \in AllItems(doc), x.parent[1] \in {"body", "texts"}
             PROVE  LET above == {h \in AllItems(doc) :
                                    /\ h.kind = "heading" /\ h.from < x.from
                                    /\ x.kind = "heading" => h.level < x.level}
                    IN x.parent = IF above = {} THEN Body ELSE Latest(above).self
  BY DEF ParentByLevel
<1> DEFINE above == {h \in AllItems(doc) :
                       /\ h.kind = "heading" /\ h.from < x.from
                       /\ x.kind = "heading" => h.level < x.level}
           X == Shape(x)
<1>4. x \in Item /\ X \in S /\ X.parent = x.parent /\ X.from = x.from
      /\ X.kind = x.kind /\ X.level = x.level
  BY <1>1, ShapesOfItems, ShapeFields
<1>5. ASSUME NEW h \in above
      PROVE  h \in Item /\ Shape(h) \in Above(S, X) /\ Shape(h).self = h.self
             /\ Shape(h).from = h.from
  <2>1. h \in Item /\ Shape(h) \in S
    BY <1>1, ShapesOfItems
  <2> QED
    BY <2>1, <1>4, ShapeFields DEF Above, IsHeading
<1>6. ASSUME NEW s \in Above(S, X) PROVE \E h \in above : s = Shape(h)
  <2>1. PICK h \in AllItems(doc) : s = Shape(h)
    BY <1>1, ShapesOfItems DEF Above
  <2>2. h \in Item
    BY <1>1, ShapesOfItems
  <2> QED
    BY <2>1, <2>2, <1>4, ShapeFields DEF Above, IsHeading
<1>7. Placed(S, X)
  BY <1>2, <1>4 DEF Nested
<1>8. CASE above = {}
  BY <1>4, <1>6, <1>7, <1>8 DEF Placed
<1>9. CASE above # {}
  <2>1. Above(S, X) # {}
    BY <1>5, <1>9
  <2>2. PICK s \in Above(S, X) : X.parent = s.self /\ \A k \in Above(S, X) : k.from <= s.from
    BY <2>1, <1>7 DEF Placed
  <2>3. PICK h \in above : s = Shape(h)
    BY <1>6
  <2>4. h.self = s.self /\ h.from = s.from
    BY <2>3, <1>5
  <2>5. \A k \in above : k.from <= h.from
    BY <2>2, <2>4, <1>5
  <2> DEFINE last == Latest(above)
  <2>6. last \in above /\ \A k \in above : k.from <= last.from
    BY <2>5 DEF Latest
  <2> HIDE DEF last, above
  <2>7. Shape(last) \in Above(S, X) /\ Shape(last).from = last.from
        /\ Shape(last).self = last.self
    BY <2>6, <1>5
  <2>8. last.from = h.from
    <3>1. Shape(last).from \in Nat /\ s.from \in Nat
      BY <2>7, <1>3 DEF Above, ShapeType
    <3> QED
      BY <3>1, <2>4, <2>5, <2>6, <2>7
  <2>9. Shape(last) = s
    BY <2>4, <2>7, <2>8, <1>2 DEF HeadingsDiffer, Above
  <2> QED
    BY <2>2, <2>7, <2>9, <1>4, <1>9 DEF above, last
<1> QED
  BY <1>8, <1>9

(* Whatever came in between, a heading is under the last heading before it *)
(* of a lower level and other content under the last heading before it, in *)
(* a stream of any length (mod.rs:1419-1437).                              *)
THEOREM ParentByLevelCorrect == Spec => []ParentByLevel
  BY ParentHere, InvCorrect, OrderCorrect, PTL

LEMMA ListsHere ==
  ASSUME FoldInv, OrderInv
  PROVE  ListsContiguous
PROOF
<1> DEFINE S == Shapes(doc)
<1>1. SoundTree(doc) /\ doc \in [Arenas -> Seq(Item)]
  BY InvFacts
<1>2. Pairwise(S, factsTable # 0) /\ S \subseteq ShapeType
  BY <1>1, ShapesTyped DEF OrderInv, OrderOf
<1>3. \A z \in AllItems(doc) :
        /\ z \in Item /\ Shape(z) \in S /\ z.from \in Nat
        /\ Shape(z).parent = z.parent /\ Shape(z).kind = z.kind /\ Shape(z).from = z.from
        /\ Shape(z).level = z.level /\ Shape(z).ordered = z.ordered
        /\ z \in ListItems(doc) <=> IsListItem(Shape(z))
  <2> SUFFICES ASSUME NEW z \in AllItems(doc)
               PROVE  /\ z \in Item /\ Shape(z) \in S /\ z.from \in Nat
                      /\ Shape(z).parent = z.parent /\ Shape(z).kind = z.kind
                      /\ Shape(z).from = z.from
                      /\ Shape(z).level = z.level /\ Shape(z).ordered = z.ordered
                      /\ z \in ListItems(doc) <=> IsListItem(Shape(z))
    OBVIOUS
  <2>1. z \in Item /\ Shape(z) \in S
    BY <1>1, ShapesOfItems
  <2>2. z.from \in Nat
    BY <2>1 DEF Item
  <2> QED
    BY <2>1, <2>2, ShapeFields DEF ListItems, IsListItem
<1>4. \A s \in S : \E z \in AllItems(doc) : s = Shape(z)
  BY <1>1, ShapesOfItems
<1> HIDE DEF S
<1>5. ASSUME NEW x \in AllItems(doc), NEW y \in AllItems(doc)
      PROVE  SameRun(doc, x, y) <=> RunTo(S, Shape(x), Shape(y))
  <2>1. \A z \in AllItems(doc) :
          /\ z.from \in (x.from + 1)..(y.from - 1) <=>
               Shape(x).from < Shape(z).from /\ Shape(z).from < Shape(y).from
          /\ z.parent # Furniture /\ z.kind # "list" <=> Interrupts(Shape(z))
          /\ (/\ z \in ListItems(doc)
              /\ z.level > x.level \/ (z.level = x.level /\ z.ordered = x.ordered))
             <=> GoesOn(Shape(x), Shape(z))
    BY <1>3 DEF Interrupts, GoesOn
  <2>2. SameRun(doc, x, y) => RunTo(S, Shape(x), Shape(y))
    BY <2>1, <1>4 DEF SameRun, RunTo
  <2>3. RunTo(S, Shape(x), Shape(y)) => SameRun(doc, x, y)
    BY <2>1, <1>3 DEF SameRun, RunTo
  <2> QED
    BY <2>2, <2>3
<1> SUFFICES ASSUME NEW x \in ListItems(doc), NEW y \in ListItems(doc), x.from < y.from
             PROVE  LET run == SameRun(doc, x, y)
                        alike == x.level = y.level /\ x.ordered = y.ordered
                    IN /\ x.parent = y.parent => run /\ alike
                       /\ run /\ alike /\ factsTable = 0 => x.parent = y.parent
                       /\ (/\ run /\ x.level < y.level /\ factsTable = 0
                           /\ \A z \in ListItems(doc) :
                                z.from \in (x.from + 1)..(y.from - 1) => z.level >= y.level)
                          => At(doc, y.parent).parent = x.parent
  BY DEF ListsContiguous
<1>6. x \in AllItems(doc) /\ y \in AllItems(doc)
  BY DEF ListItems
<1>7. /\ PairApart(S, Shape(x), Shape(y))
      /\ factsTable = 0 => PairTogether(S, Shape(x), Shape(y)) /\ PairNested(S, Shape(x), Shape(y))
  BY <1>2, <1>3, <1>6 DEF Pairwise
<1>8. SameRun(doc, x, y) <=> RunTo(S, Shape(x), Shape(y))
  BY <1>5, <1>6
<1>9. x.parent = y.parent => SameRun(doc, x, y) /\ x.level = y.level /\ x.ordered = y.ordered
  BY <1>3, <1>6, <1>7, <1>8 DEF PairApart
<1>10. SameRun(doc, x, y) /\ x.level = y.level /\ x.ordered = y.ordered /\ factsTable = 0
         => x.parent = y.parent
  BY <1>3, <1>6, <1>7, <1>8 DEF PairTogether
<1>11. ASSUME SameRun(doc, x, y), x.level < y.level, factsTable = 0,
              \A z \in ListItems(doc) :
                z.from \in (x.from + 1)..(y.from - 1) => z.level >= y.level
       PROVE  At(doc, y.parent).parent = x.parent
  <2>1. ASSUME NEW s \in S, IsListItem(s), Shape(x).from < s.from, s.from < Shape(y).from
        PROVE  s.level >= Shape(y).level
    <3>1. PICK z \in AllItems(doc) : s = Shape(z)
      BY <1>4
    <3>2. z \in ListItems(doc) /\ z.from \in (x.from + 1)..(y.from - 1)
      BY <3>1, <2>1, <1>3, <1>6
    <3> QED
      BY <3>1, <3>2, <1>3, <1>6, <1>11
  <2>2. PICK g \in S : g.self = Shape(y).parent /\ g.parent = Shape(x).parent
    BY <2>1, <1>3, <1>6, <1>7, <1>8, <1>11 DEF PairNested
  <2>3. Resolves(doc, g.self) /\ g.self \in Refs /\ g = Shape(At(doc, g.self))
    BY <1>1, ShapesKeyed DEF S
  <2>4. g.parent = At(doc, g.self).parent
    <3>1. At(doc, g.self) \in Item
      BY <2>3, <1>1, ItemsAreItems
    <3> QED
      BY <3>1, <2>3, ShapeFields
  <2> QED
    BY <2>2, <2>4, <1>3, <1>6
<1> QED
  BY <1>9, <1>10, <1>11

(* Two list items are in one group exactly when they agree in depth and    *)
(* kind and nothing in between ended the list, and a nested list is in the *)
(* group of the last item before it that is less deep, however the stream  *)
(* goes (mod.rs:822-828, 846-849).                                         *)
THEOREM ListsContiguousCorrect == Spec => []ListsContiguous
  BY ListsHere, InvCorrect, OrderCorrect, PTL

-----------------------------------------------------------------------------
(* Names, in the Document taken.                                           *)

LEMMA PublishedShapes ==
  ASSUME NEW d, SoundTree(d), NEW known, DOMAIN known \subseteq Names,
         \A name \in DOMAIN known : known[name] \in Refs
  PROVE  /\ Shapes(Published(d, known)) = Shapes(d)
         /\ \A x \in AllItems(Published(d, known)) :
              x.self[1] \in {"texts", "tables"} =>
                x.targets = [name \in Names |-> IF name \in x.cites \cap DOMAIN known
                                                THEN known[name] ELSE NoRef]
PROOF
<1> DEFINE e == Published(d, known)
<1>1. d \in [Arenas -> Seq(Item)] /\ SoundTree(e) /\ e \in [Arenas -> Seq(Item)]
  BY PublishedKeeps DEF SoundTree
<1>2. \A x \in Item :
        /\ Shape(Linked(x, known)) = Shape(x)
        /\ Linked(x, known).targets = [name \in Names |-> IF name \in x.cites \cap DOMAIN known
                                                          THEN known[name] ELSE NoRef]
        /\ Linked(x, known).cites = x.cites
  <2> SUFFICES ASSUME NEW x \in Item
               PROVE  /\ Shape(Linked(x, known)) = Shape(x)
                      /\ Linked(x, known).targets =
                           [name \in Names |-> IF name \in x.cites \cap DOMAIN known
                                               THEN known[name] ELSE NoRef]
                      /\ Linked(x, known).cites = x.cites
    OBVIOUS
  <2> DEFINE targets == [name \in Names |-> IF name \in x.cites \cap DOMAIN known
                                            THEN known[name] ELSE NoRef]
  <2>1. Linked(x, known) = [x EXCEPT !.targets = targets]
    BY DEF Linked
  <2> HIDE DEF targets
  <2>2. /\ Shape([x EXCEPT !.targets = targets]) = Shape(x)
        /\ [x EXCEPT !.targets = targets].targets = targets
        /\ [x EXCEPT !.targets = targets].cites = x.cites
    BY DEF Item, Shape
  <2> QED
    BY <2>1, <2>2 DEF targets
<1>3. \A a \in Arenas :
        /\ DOMAIN e[a] = DOMAIN d[a]
        /\ \A i \in DOMAIN d[a] :
             e[a][i] = IF a \in {"texts", "tables"} THEN Linked(d[a][i], known) ELSE d[a][i]
  BY DEF Published
<1> HIDE DEF e
<1>4. \A ref \in Refs : Resolves(e, ref) <=> Resolves(d, ref)
  BY <1>3 DEF Resolves
<1>5. \A ref \in Refs : Resolves(d, ref) =>
        /\ At(e, ref) = IF ref[1] \in {"texts", "tables"}
                        THEN Linked(At(d, ref), known) ELSE At(d, ref)
        /\ At(d, ref) \in Item
  BY <1>1, <1>3, ItemsAreItems DEF Resolves, At
<1>6. \A ref \in Refs : Resolves(d, ref) => Shape(At(e, ref)) = Shape(At(d, ref))
  BY <1>2, <1>5
<1>7. Shapes(e) = Shapes(d)
  <2>1. ASSUME NEW x \in Shapes(e) PROVE x \in Shapes(d)
    <3>1. PICK ref \in Refs : Resolves(e, ref) /\ x = Shape(At(e, ref))
      BY <1>1, <2>1, ShapesByRef
    <3> QED
      BY <3>1, <1>1, <1>4, <1>6, ShapesByRef
  <2>2. ASSUME NEW x \in Shapes(d) PROVE x \in Shapes(e)
    <3>1. PICK ref \in Refs : Resolves(d, ref) /\ x = Shape(At(d, ref))
      BY <1>1, <2>2, ShapesByRef
    <3>2. Resolves(e, ref) /\ x = Shape(At(e, ref))
      BY <3>1, <1>4, <1>6
    <3> QED
      BY <3>2, <1>1, ShapesByRef
  <2> QED
    BY <2>1, <2>2
<1>8. ASSUME NEW x \in AllItems(e), x.self[1] \in {"texts", "tables"}
      PROVE  x.targets = [name \in Names |-> IF name \in x.cites \cap DOMAIN known
                                             THEN known[name] ELSE NoRef]
  <2>1. PICK ref \in AllRefs(e) : x = At(e, ref)
    BY DEF AllItems
  <2>2. PICK a \in Arenas : ref \in {a} \X DOMAIN e[a]
    BY DEF AllRefs
  <2>3. /\ ref[1] = a /\ ref[2] \in DOMAIN e[a] /\ ref = <<a, ref[2]>>
        /\ e[a] \in Seq(Item)
    BY <2>2, <1>1
  <2>4. ref \in Refs /\ Resolves(e, ref)
    BY <2>3 DEF Refs, Resolves
  <2>5. x.self = ref
    BY <2>1, <2>4, <1>1 DEF SoundTree, SoundDoc, SoundItem
  <2>6. At(d, ref) \in Item /\ x = Linked(At(d, ref), known)
    BY <2>1, <2>4, <2>5, <1>4, <1>5, <1>8
  <2> QED
    BY <2>6, <1>2
<1> QED
  BY <1>7, <1>8 DEF e

(* NamesAnswered, of the Document d and the names it was published with.   *)
AnsweredIn(d, known) ==
  LET homes(name) == {x \in AllItems(d) : x.id = name /\ x.kind # "island"}
      answer(name) ==
        IF homes(name) = {} THEN NoRef
        ELSE (CHOOSE x \in homes(name) : \A y \in homes(name) : x.from <= y.from).self
  IN /\ \A name \in Names : answer(name) = IF name \in DOMAIN known THEN known[name] ELSE NoRef
     /\ \A x \in AllItems(d) : \A name \in x.cites : x.targets[name] = answer(name)

LEMMA ShapesAnswer ==
  ASSUME NEW d, SoundTree(d), NEW known, Answered(Shapes(d), known), Cited(Shapes(d)),
         \A x \in AllItems(d) :
           x.self[1] \in {"texts", "tables"} =>
             x.targets = [name \in Names |-> IF name \in x.cites \cap DOMAIN known
                                             THEN known[name] ELSE NoRef]
  PROVE  AnsweredIn(d, known)
PROOF
<1> DEFINE homes(name) == {x \in AllItems(d) : x.id = name /\ x.kind # "island"}
           first(name) == CHOOSE x \in homes(name) : \A y \in homes(name) : x.from <= y.from
           answer(name) == IF homes(name) = {} THEN NoRef ELSE first(name).self
<1>1. \A x \in AllItems(d) :
        /\ x \in Item /\ Shape(x) \in Shapes(d) /\ x.from \in Nat
        /\ Shape(x).self = x.self /\ Shape(x).kind = x.kind /\ Shape(x).from = x.from
        /\ Shape(x).id = x.id /\ Shape(x).cites = x.cites
  <2> SUFFICES ASSUME NEW x \in AllItems(d)
               PROVE  /\ x \in Item /\ Shape(x) \in Shapes(d) /\ x.from \in Nat
                      /\ Shape(x).self = x.self /\ Shape(x).kind = x.kind
                      /\ Shape(x).from = x.from
                      /\ Shape(x).id = x.id /\ Shape(x).cites = x.cites
    OBVIOUS
  <2>1. x \in Item /\ Shape(x) \in Shapes(d)
    BY ShapesOfItems
  <2>2. x.from \in Nat
    BY <2>1 DEF Item
  <2> QED
    BY <2>1, <2>2, ShapeFields
<1>2. ASSUME NEW name \in Names
      PROVE  answer(name) = IF name \in DOMAIN known THEN known[name] ELSE NoRef
  <2>1. \A x \in homes(name) : x \in AllItems(d) /\ Shape(x) \in Homes(Shapes(d), name)
    BY <1>1 DEF Homes
  <2>2. ASSUME NEW s \in Homes(Shapes(d), name) PROVE \E x \in homes(name) : s = Shape(x)
    <3>1. PICK x \in AllItems(d) : s = Shape(x)
      BY ShapesOfItems DEF Homes
    <3> QED
      BY <3>1, <1>1 DEF Homes
  <2>3. CASE name \notin DOMAIN known /\ Homes(Shapes(d), name) = {}
    BY <2>1, <2>3
  <2>4. CASE name \in DOMAIN known
    <3>1. PICK s \in Homes(Shapes(d), name) :
            /\ s.self = known[name]
            /\ \A y \in Homes(Shapes(d), name) : y = s \/ s.from < y.from
      BY <2>4 DEF Answered
    <3>2. PICK x \in homes(name) : s = Shape(x)
      BY <2>2
    <3> DEFINE f == first(name)
    <3>3. \A y \in homes(name) : x.from <= y.from
      BY <2>1, <3>1, <3>2, <1>1
    <3>4. f \in homes(name) /\ \A y \in homes(name) : f.from <= y.from
      BY <3>3
    <3> HIDE DEF f
    <3>5. Shape(f) = s
      BY <2>1, <3>1, <3>2, <3>4, <1>1
    <3>6. f.self = known[name]
      BY <2>1, <3>1, <3>4, <3>5, <1>1
    <3> QED
      BY <2>4, <3>2, <3>6 DEF f
  <2> QED
    BY <2>3, <2>4 DEF Answered
<1> HIDE DEF answer
<1>3. ASSUME NEW x \in AllItems(d), NEW name \in x.cites
      PROVE  x.targets[name] = answer(name)
  <2>1. x.self[1] \in {"texts", "tables"} /\ name \in Names
    BY <1>1, <1>3 DEF Cited
  <2>2. x.targets[name] = IF name \in DOMAIN known THEN known[name] ELSE NoRef
    BY <2>1
  <2> QED
    BY <2>1, <2>2, <1>2
<1> QED
  BY <1>2, <1>3 DEF AnsweredIn, answer

(* In every Document taken a name stands for the first item that carried   *)
(* it, a cross-reference to it points there, before or after, and a name   *)
(* nothing answers to stays a name, however many events there were         *)
(* (mod.rs:511-521, 553-555).                                              *)
THEOREM NamesCorrect == Spec => []NamesAnswered
PROOF
<1>1. AnsweredIn(taken.doc, taken.anchors) => NamesAnswered
  BY DEF AnsweredIn, NamesAnswered
<1>2. AnsweredIn(EmptyDoc, <<>>)
  <2>1. SoundTree(EmptyDoc)
    BY EmptyIsSound
  <2>2. DOMAIN <<>> = {} /\ \A name \in Names : Homes(Shapes(EmptyDoc), name) = {}
    BY EmptyShapes, DocumentFoldAssumption DEF Homes
  <2>3. Answered(Shapes(EmptyDoc), <<>>)
    BY <2>2 DEF Answered
  <2>4. Cited(Shapes(EmptyDoc))
    BY EmptyShapes DEF Cited
  <2>5. \A x \in AllItems(EmptyDoc) : x.self[1] \notin {"texts", "tables"}
    <3> SUFFICES ASSUME NEW x \in AllItems(EmptyDoc) PROVE x.self[1] \notin {"texts", "tables"}
      OBVIOUS
    <3>1. PICK ref \in AllRefs(EmptyDoc) : x = At(EmptyDoc, ref)
      BY DEF AllItems
    <3>2. PICK a \in Arenas : ref \in {a} \X DOMAIN EmptyDoc[a]
      BY DEF AllRefs
    <3>3. ref[1] = a /\ ref[2] \in DOMAIN EmptyDoc[a]
      BY <3>2
    <3>4. /\ EmptyDoc["body"] = <<Root(Body)>> /\ EmptyDoc["furniture"] = <<Root(Furniture)>>
          /\ \A b \in Arenas : b \notin RootArenas => EmptyDoc[b] = <<>>
      BY DEF EmptyDoc, Arenas, RootArenas
    <3>5. x = Root(Body) \/ x = Root(Furniture)
      BY <3>1, <3>3, <3>4 DEF At, RootArenas
    <3> QED
      BY <3>5 DEF Root, ItemFrom, Body, Furniture
  <2> QED
    BY <2>1, <2>3, <2>4, <2>5, ShapesAnswer
<1>3. AnsweredIn(NothingTaken.doc, NothingTaken.anchors)
  BY <1>2 DEF NothingTaken
<1>4. Init => AnsweredIn(taken.doc, taken.anchors)
  BY <1>3 DEF Init
<1>5. ASSUME FoldInv, OrderInv, Take PROVE AnsweredIn(taken.doc, taken.anchors)'
  <2> DEFINE W == WithTable(doc)
             K == TableClaimed(doc)
  <2>1. Still(Shapes(W)) /\ Answered(Shapes(W), K)
    BY <1>5, WithTableOrder
  <2>2. SoundTree(W) /\ DOMAIN K \subseteq Names /\ \A name \in DOMAIN K : K[name] \in Refs
    BY <1>5, WithTableKeeps
  <2>3. taken'.doc = Published(W, K) /\ taken'.anchors = K
    BY <1>5 DEF Take
  <2> HIDE DEF W, K
  <2>4. SoundTree(Published(W, K))
    BY <2>2, PublishedKeeps
  <2>5. /\ Shapes(Published(W, K)) = Shapes(W)
        /\ \A x \in AllItems(Published(W, K)) :
             x.self[1] \in {"texts", "tables"} =>
               x.targets = [name \in Names |-> IF name \in x.cites \cap DOMAIN K
                                               THEN K[name] ELSE NoRef]
    BY <2>2, PublishedShapes
  <2>6. AnsweredIn(Published(W, K), K)
    BY <2>1, <2>4, <2>5, ShapesAnswer DEF Still
  <2> QED
    BY <2>3, <2>6
<1>6. /\ AnsweredIn(taken.doc, taken.anchors) /\ FoldInv /\ OrderInv /\ [Next]_foldVars
      => AnsweredIn(taken.doc, taken.anchors)'
  <2> SUFFICES ASSUME AnsweredIn(taken.doc, taken.anchors), FoldInv, OrderInv, [Next]_foldVars
               PROVE  AnsweredIn(taken.doc, taken.anchors)'
    OBVIOUS
  <2>1. CASE \E e \in vocabulary : Consume(e)
    BY <2>1, <1>3 DEF Consume
  <2>2. CASE Take
    BY <2>2, <1>5
  <2>3. CASE UNCHANGED foldVars
    <3>1. taken' = taken
      BY <2>3 DEF foldVars
    <3> QED
      BY <3>1
  <2> QED
    BY <2>1, <2>2, <2>3 DEF Next
<1> QED
  BY <1>1, <1>4, <1>6, InvCorrect, OrderCorrect, PTL DEF Spec

-----------------------------------------------------------------------------
(* The fragment as a grove.                                                *)

Tops == {Body, Furniture}
KidsOf(d) == [ref \in AllRefs(d) |-> At(d, ref).children]
GroveOf(d) == Grove(AllRefs(d), KidsOf(d), Tops) /\ Walkable(AllRefs(d), KidsOf(d))
SpineOf(d, s) == Spine(AllRefs(d), KidsOf(d), Tops, s)

LEMMA KidsTyped ==
  ASSUME NEW d, SoundTree(d)
  PROVE  KidsOf(d) \in [AllRefs(d) -> Seq(AllRefs(d))]
PROOF
<1> SUFFICES ASSUME NEW ref \in AllRefs(d) PROVE At(d, ref).children \in Seq(AllRefs(d))
  BY DEF KidsOf
<1>1. ref \in Refs /\ Resolves(d, ref) /\ d \in [Arenas -> Seq(Item)]
  BY RefsFound DEF SoundTree
<1>2. At(d, ref).children \in Seq(Refs)
  <2>1. At(d, ref) \in Item
    BY <1>1, ItemsAreItems
  <2> QED
    BY <2>1 DEF Item
<1>3. \A i \in DOMAIN At(d, ref).children : Resolves(d, At(d, ref).children[i])
  BY <1>1 DEF SoundTree, SoundDoc, SoundItem
<1> DEFINE c == At(d, ref).children
<1>4. c \in Seq(Refs) /\ \A i \in DOMAIN c : Resolves(d, c[i])
  BY <1>2, <1>3
<1> HIDE DEF c
<1>5. \A i \in DOMAIN c : c[i] \in AllRefs(d)
  <2>1. \A i \in DOMAIN c : c[i] \in Refs
    BY <1>4
  <2> QED
    BY <1>1, <1>4, <2>1, RefsFound
<1>6. c \in Seq(AllRefs(d))
  BY <1>4, <1>5
<1> QED
  BY <1>6 DEF c

(* The tree as LinkChild leaves it: one leaf more.                         *)
Gains(d, e, item) ==
  /\ item.self \notin AllRefs(d) /\ AllRefs(e) = AllRefs(d) \cup {item.self}
  /\ item.parent \in AllRefs(d)
  /\ At(e, item.self).children = <<>> /\ At(e, item.self).from = item.from
  /\ At(e, item.parent).children = Append(At(d, item.parent).children, item.self)
  /\ \A ref \in AllRefs(d) :
       /\ At(e, ref).from = At(d, ref).from
       /\ ref # item.parent => At(e, ref).children = At(d, ref).children

LEMMA ItemAdds ==
  ASSUME NEW d, SoundTree(d), NEW arena, NEW item, Addable(d, arena, item)
  PROVE  Gains(d, AddItem(d, arena, item), item)
PROOF
<1> DEFINE b == [d EXCEPT ![arena] = Append(@, item)]
           e == LinkChild(b, item.parent, item.self)
           self == item.self
           parent == item.parent
<1>1. /\ d \in [Arenas -> Seq(Item)] /\ arena \in Arenas /\ item \in Item
      /\ self = NextRef(d, arena) /\ item.children = <<>> /\ CanHold(d, parent)
  BY DEF SoundTree, Addable
<1>2. self \in Refs /\ parent \in Refs
  <2>1. Resolves(d, NoRef) => FALSE
    BY DEF Resolves, NoRef, Arenas, RootArenas
  <2> QED
    BY <1>1, <2>1 DEF Item, CanHold
<1>3. /\ b \in [Arenas -> Seq(Item)]
      /\ \A ref \in Refs : Resolves(d, ref) => Resolves(b, ref) /\ At(b, ref) = At(d, ref)
      /\ \A ref \in Refs : CanHold(d, ref) => CanHold(b, ref)
      /\ \A ref \in Refs : Resolves(b, ref) => Resolves(d, ref) \/ ref = self
      /\ Resolves(b, self) /\ At(b, self) = item /\ ~Resolves(d, self)
  <2> HIDE DEF b
  <2>1. LET f == [d EXCEPT ![arena] = Append(@, item)] IN
         /\ f \in [Arenas -> Seq(Item)]
         /\ \A ref \in Refs : Resolves(d, ref) =>
              Resolves(f, ref) /\ At(f, ref) = At(d, ref)
         /\ \A ref \in Refs : CanHold(d, ref) => CanHold(f, ref)
         /\ \A ref \in Refs : Resolves(f, ref) =>
              Resolves(d, ref) \/ ref = NextRef(d, arena)
         /\ Resolves(f, NextRef(d, arena)) /\ At(f, NextRef(d, arena)) = item
         /\ NextRef(d, arena) \in Refs /\ ~Resolves(d, NextRef(d, arena))
         /\ Len(d["tables"]) <= Len(f["tables"])
    BY ONLY <1>1, AppendKeeps
  <2> QED
    BY ONLY <1>1, <2>1 DEF b
<1> HIDE DEF b
<1>4. /\ e \in [Arenas -> Seq(Item)]
      /\ \A ref \in Refs : Resolves(e, ref) <=> Resolves(b, ref)
      /\ \A ref \in Refs : Resolves(b, ref) /\ ref # parent => At(e, ref) = At(b, ref)
      /\ At(e, parent) = [At(b, parent) EXCEPT !.children = Append(@, self)]
  <2> HIDE DEF e, self, parent
  <2>1. b \in [Arenas -> Seq(Item)] /\ parent \in Refs /\ self \in Refs /\ CanHold(b, parent)
    BY <1>1, <1>2, <1>3
  <2>2. LET f == LinkChild(b, parent, self) IN
         /\ f \in [Arenas -> Seq(Item)]
         /\ \A ref \in Refs : Resolves(f, ref) <=> Resolves(b, ref)
         /\ \A ref \in Refs : CanHold(b, ref) => CanHold(f, ref)
         /\ \A ref \in Refs : Resolves(b, ref) /\ ref # parent => At(f, ref) = At(b, ref)
         /\ At(f, parent).self = At(b, parent).self
         /\ At(f, parent).parent = At(b, parent).parent
         /\ At(f, parent).kind = At(b, parent).kind
         /\ At(f, parent).points = At(b, parent).points
         /\ At(f, parent).children = Append(At(b, parent).children, self)
         /\ At(f, parent) = [At(b, parent) EXCEPT !.children = Append(@, self)]
         /\ Len(f["tables"]) = Len(b["tables"])
    BY ONLY <2>1, LinkKeeps
  <2>3. e = LinkChild(b, parent, self)
    BY DEF e, self, parent
  <2> QED
    BY ONLY <2>2, <2>3
<1> HIDE DEF e
<1>5. Resolves(d, parent) /\ self # parent
  BY <1>1, <1>3 DEF CanHold
<1>6. /\ At(e, parent).children = Append(At(d, parent).children, self)
      /\ At(e, parent).from = At(d, parent).from
  <2>1. At(b, parent) = At(d, parent) /\ At(d, parent) \in Item
    BY <1>1, <1>2, <1>3, <1>5, ItemsAreItems
  <2> QED
    BY <1>4, <2>1 DEF Item
<1>7. At(e, self) = item
  BY <1>2, <1>3, <1>4, <1>5
<1>8. \A ref : ref \in AllRefs(d) <=> ref \in Refs /\ Resolves(d, ref)
  BY <1>1, RefsFound
<1>9. \A ref : ref \in AllRefs(e) <=> ref \in Refs /\ Resolves(e, ref)
  BY <1>4, RefsFound
<1> HIDE DEF self, parent
<1>10. AllRefs(e) = AllRefs(d) \cup {self} /\ self \notin AllRefs(d) /\ parent \in AllRefs(d)
  BY <1>2, <1>3, <1>4, <1>5, <1>8, <1>9
<1>11. ASSUME NEW ref \in AllRefs(d)
       PROVE  /\ At(e, ref).from = At(d, ref).from
              /\ ref # parent => At(e, ref).children = At(d, ref).children
  <2>1. CASE ref = parent
    BY <1>6, <2>1
  <2>2. CASE ref # parent
    BY <1>3, <1>4, <1>8, <2>2
  <2> QED
    BY <2>1, <2>2
<1>12. AddItem(d, arena, item) = e
  BY DEF AddItem, e, b, self, parent
<1>13. Gains(d, e, item)
  BY <1>1, <1>6, <1>7, <1>10, <1>11 DEF Gains, self, parent
<1> QED
  BY <1>12, <1>13

LEMMA GainsPlants ==
  ASSUME NEW d, SoundTree(d), NEW e, SoundTree(e), NEW item, Gains(d, e, item),
         NEW s, s[Len(s)] = item.parent
  PROVE  Planted(AllRefs(d), KidsOf(d), s, item.self, KidsOf(e))
PROOF
<1>1. KidsOf(e) \in [AllRefs(d) \cup {item.self} -> Seq(AllRefs(d) \cup {item.self})]
  BY KidsTyped DEF Gains
<1>2. \A ref \in AllRefs(d) : KidsOf(d)[ref] = At(d, ref).children
  BY DEF KidsOf
<1>3. \A ref \in AllRefs(d) \cup {item.self} : KidsOf(e)[ref] = At(e, ref).children
  BY DEF KidsOf, Gains
<1> QED
  BY <1>1, <1>2, <1>3 DEF Gains, Planted

(* Walk is what the rule says it is.                                       *)
LEMMA WalkIs ==
  ASSUME NEW d, NEW V, NEW seen, NEW w,
         Walks(AllRefs(d), KidsOf(d), seen, w, V), NEW root \in AllRefs(d)
  PROVE  Walk(d, root, seen) = w[root]
PROOF
<1> DEFINE A == AllRefs(d)
           Rule(f) == [ref \in A |->
             <<seen[ref]>> \o FlattenSeq([i \in DOMAIN At(d, ref).children |->
                                            f[At(d, ref).children[i]]])]
           walk == CHOOSE f : f = Rule(f)
<1>1. ASSUME NEW f, NEW ref \in A
      PROVE  Rule(f)[ref] = <<seen[ref]>> \o FlattenSeq(Parts(KidsOf(d), f, ref))
  <2>1. KidsOf(d)[ref] = At(d, ref).children
    BY DEF KidsOf
  <2>2. Parts(KidsOf(d), f, ref) = [i \in DOMAIN At(d, ref).children |->
                                      f[At(d, ref).children[i]]]
    BY <2>1 DEF Parts
  <2> QED
    BY <2>2
<1>2. DOMAIN Rule(w) = A /\ Rule(w) = [ref \in A |-> Rule(w)[ref]]
  OBVIOUS
<1>3. w = [ref \in A |-> w[ref]] /\ \A ref \in A : w[ref] = Rule(w)[ref]
  <2>1. w = [ref \in A |-> w[ref]]
    BY DEF Walks
  <2>2. \A ref \in A : w[ref] = <<seen[ref]>> \o FlattenSeq(Parts(KidsOf(d), w, ref))
    BY DEF Walks, Walked
  <2> HIDE DEF Rule
  <2> QED
    BY <1>1, <2>1, <2>2
<1>4. w = Rule(w)
  <2> HIDE DEF Rule
  <2> QED
    BY <1>2, <1>3
<1>5. walk = Rule(walk)
  <2> HIDE DEF Rule
  <2> QED
    BY <1>4
<1>6. Walked(A, KidsOf(d), seen, walk)
  <2> HIDE DEF Rule, walk
  <2> QED
    BY <1>1, <1>5 DEF Walked
<1>7. walk[root] = w[root]
  <2>1. Walks(A, KidsOf(d), seen, w, V) /\ root \in A
    OBVIOUS
  <2> HIDE DEF Rule, walk, A
  <2>2. \A ref \in A : walk[ref] = w[ref]
    BY ONLY <1>6, <2>1, WalksOne
  <2> QED
    BY <2>1, <2>2
<1>8. Walk(d, root, seen) = walk[root]
  BY DEF Walk
<1> QED
  BY <1>7, <1>8

LEMMA WalkTyped ==
  ASSUME NEW d, GroveOf(d), NEW V, NEW seen, \A ref \in AllRefs(d) : seen[ref] \in V,
         NEW root \in AllRefs(d)
  PROVE  Walk(d, root, seen) \in Seq(V) /\ Walk(d, root, seen) # <<>>
PROOF
<1>1. PICK w : Walks(AllRefs(d), KidsOf(d), seen, w, V)
  BY DEF GroveOf, Walkable
<1>2. Walk(d, root, seen) = w[root]
  BY <1>1, WalkIs
<1>3. w[root] \in Seq(V) /\ w \in [AllRefs(d) -> Seq(V)] /\ KidsOf(d) \in [AllRefs(d) -> Seq(AllRefs(d))]
  BY <1>1 DEF Walks
<1> DEFINE p == Parts(KidsOf(d), w, root)
<1>4. w[root] = <<seen[root]>> \o FlattenSeq(p) /\ seen[root] \in V
  BY <1>1 DEF Walks, Walked
<1>5. p \in Seq(Seq(V))
  <2>1. PartsKnown(AllRefs(d), KidsOf(d), w, V, root)
    BY <1>3, PartsFacts
  <2> QED
    BY <2>1 DEF PartsKnown
<1> HIDE DEF p
<1>6. FlattenSeq(p) \in Seq(V) /\ <<seen[root]>> \in Seq(V) /\ Len(<<seen[root]>>) = 1
  BY <1>4, <1>5, FlattenFacts
<1>7. Len(w[root]) = 1 + Len(FlattenSeq(p)) /\ Len(FlattenSeq(p)) \in Nat
  BY <1>4, <1>6, ConcatProperties
<1> QED
  BY <1>2, <1>3, <1>7

(* e is d with an item at the end of a spine. *)
Grows(d, e, item, s) ==
  /\ SoundTree(d) /\ GroveOf(d) /\ SoundTree(e) /\ Gains(d, e, item)
  /\ SpineOf(d, s) /\ s[Len(s)] = item.parent

LEMMA GroveOfGrows ==
  ASSUME NEW d, NEW e, NEW item, NEW s, Grows(d, e, item, s)
  PROVE  GroveOf(e) /\ SpineOf(e, s) /\ SpineOf(e, Append(s, item.self))
PROOF
<1> DEFINE A == AllRefs(d)
           B == A \cup {item.self}
<1>1. Grove(A, KidsOf(d), Tops) /\ Walkable(A, KidsOf(d)) /\ Spine(A, KidsOf(d), Tops, s)
  BY DEF Grows, GroveOf, SpineOf
<1>2. Planted(A, KidsOf(d), s, item.self, KidsOf(e)) /\ AllRefs(e) = B
  BY GainsPlants DEF Grows, Gains
<1> HIDE DEF A
<1>3. /\ Grove(B, KidsOf(e), Tops) /\ Spine(B, KidsOf(e), Tops, s)
      /\ Spine(B, KidsOf(e), Tops, Append(s, item.self))
  BY ONLY <1>1, <1>2, GroveGrows
<1>4. Walkable(B, KidsOf(e))
  BY ONLY <1>1, <1>2, WalkableGrows
<1> QED
  BY <1>2, <1>3, <1>4 DEF GroveOf, SpineOf

WalksOn(d, e, item, s, seen, saw) ==
  /\ Walk(e, s[1], saw) = Append(Walk(d, s[1], seen), saw[item.self])
  /\ \A root \in Tops : root # s[1] => Walk(e, root, saw) = Walk(d, root, seen)

LEMMA WalkGrows ==
  ASSUME NEW d, NEW e, NEW item, NEW s, Grows(d, e, item, s),
         NEW V, NEW seen, NEW saw, Agree(AllRefs(d), seen, saw, item.self, V)
  PROVE  WalksOn(d, e, item, s, seen, saw)
PROOF
<1> DEFINE A == AllRefs(d)
           B == A \cup {item.self}
<1>1. /\ Grove(A, KidsOf(d), Tops) /\ Spine(A, KidsOf(d), Tops, s)
      /\ s[1] \in Tops /\ Tops \subseteq A
  BY DEF Grows, GroveOf, SpineOf, Grove, Spine
<1>2. Planted(A, KidsOf(d), s, item.self, KidsOf(e)) /\ AllRefs(e) = B
  BY GainsPlants DEF Grows, Gains
<1>3. PICK w : Walks(A, KidsOf(d), seen, w, V)
  <2>1. \A r \in A : seen[r] \in V
    BY DEF Agree
  <2> QED
    BY <2>1 DEF Grows, GroveOf, Walkable
<1>4. PICK x : GrownWalk(A, Tops, s, w, item.self, KidsOf(e), saw, x, V)
  <2> HIDE DEF A
  <2>1. Agree(A, seen, saw, item.self, V)
    BY DEF A
  <2> QED
    BY ONLY <1>1, <1>2, <1>3, <2>1, WalksGrow
<1>5. Walks(AllRefs(e), KidsOf(e), saw, x, V)
  BY <1>2, <1>4 DEF GrownWalk
<1>6. \A root \in Tops : Walk(d, root, seen) = w[root] /\ Walk(e, root, saw) = x[root]
  <2> SUFFICES ASSUME NEW root \in Tops
               PROVE  Walk(d, root, seen) = w[root] /\ Walk(e, root, saw) = x[root]
    OBVIOUS
  <2>1. root \in AllRefs(d) /\ root \in AllRefs(e)
    BY <1>1, <1>2
  <2>2. Walk(d, root, seen) = w[root]
    BY <1>3, <2>1, WalkIs
  <2>3. Walk(e, root, saw) = x[root]
    BY <1>5, <2>1, WalkIs
  <2> QED
    BY <2>2, <2>3
<1> QED
  BY <1>1, <1>4, <1>6 DEF GrownWalk, WalksOn

LEMMA TailAppend ==
  ASSUME NEW V, NEW s \in Seq(V), s # <<>>, NEW v \in V
  PROVE  Tail(Append(s, v)) = Append(Tail(s), v)
PROOF
<1> DEFINE a == Tail(Append(s, v))
           b == Append(Tail(s), v)
           n == Len(s)
<1>1. n \in Nat /\ n > 0 /\ Append(s, v) \in Seq(V) /\ Len(Append(s, v)) = n + 1
  OBVIOUS
<1>2. a \in Seq(V) /\ Len(a) = n /\ \A i \in 1..n : a[i] = Append(s, v)[i + 1]
  BY <1>1
<1>3. Tail(s) \in Seq(V) /\ Len(Tail(s)) = n - 1 /\ \A i \in 1..(n - 1) : Tail(s)[i] = s[i + 1]
  BY <1>1
<1>4. b \in Seq(V) /\ Len(b) = n
  BY <1>1, <1>3
<1>5. ASSUME NEW i \in 1..n PROVE a[i] = b[i]
  <2>1. CASE i = n
    BY <1>1, <1>2, <1>3, <2>1
  <2>2. CASE i # n
    <3>1. i \in 1..(n - 1)
      BY <1>1, <2>2
    <3>2. b[i] = s[i + 1]
      BY <1>3, <3>1
    <3>3. a[i] = s[i + 1]
      BY <1>1, <1>2, <3>1
    <3> QED
      BY <3>2, <3>3
  <2> QED
    BY <2>1, <2>2
<1> HIDE DEF a, b
<1>6. a = b
  BY <1>2, <1>4, <1>5, SeqEqual
<1> QED
  BY <1>6 DEF a, b

FromOf(d) == [ref \in Refs |-> At(d, ref).from]

LEMMA EventsGrow ==
  ASSUME NEW d, NEW e, NEW item, NEW s, Grows(d, e, item, s),
         item.from \in Nat, item.self \in Refs
  PROVE  /\ EventsOf(e, s[1]) = Append(EventsOf(d, s[1]), item.from)
         /\ \A root \in Tops : root # s[1] => EventsOf(e, root) = EventsOf(d, root)
PROOF
<1>1. \A ref \in AllRefs(d) : ref \in Refs /\ At(d, ref).from \in Nat
  <2> SUFFICES ASSUME NEW ref \in AllRefs(d) PROVE ref \in Refs /\ At(d, ref).from \in Nat
    OBVIOUS
  <2>1. ref \in Refs /\ Resolves(d, ref)
    BY RefsFound DEF Grows, SoundTree
  <2>2. At(d, ref) \in Item
    BY <2>1, ItemsAreItems DEF Grows, SoundTree
  <2> QED
    BY <2>1, <2>2 DEF Item
<1>2. Agree(AllRefs(d), FromOf(d), FromOf(e), item.self, Nat) /\ FromOf(e)[item.self] = item.from
  BY <1>1 DEF Agree, FromOf, Grows, Gains
<1>3. /\ Walk(e, s[1], FromOf(e)) = Append(Walk(d, s[1], FromOf(d)), item.from)
      /\ \A root \in Tops : root # s[1] => Walk(e, root, FromOf(e)) = Walk(d, root, FromOf(d))
  <2>1. /\ Walk(e, s[1], FromOf(e)) = Append(Walk(d, s[1], FromOf(d)), FromOf(e)[item.self])
        /\ \A root \in Tops : root # s[1] => Walk(e, root, FromOf(e)) = Walk(d, root, FromOf(d))
    <3>1. WalksOn(d, e, item, s, FromOf(d), FromOf(e))
      BY <1>2, WalkGrows
    <3> QED
      BY <3>1 DEF WalksOn
  <2> QED
    BY <1>2, <2>1
<1>4. Walk(d, s[1], FromOf(d)) \in Seq(Nat) /\ Walk(d, s[1], FromOf(d)) # <<>>
  <2>1. s[1] \in AllRefs(d)
    BY DEF Grows, SpineOf, Spine, GroveOf, Grove
  <2>2. \A ref \in AllRefs(d) : FromOf(d)[ref] \in Nat
    BY <1>1 DEF FromOf
  <2> QED
    BY <2>1, <2>2, WalkTyped DEF Grows
<1>5. Tail(Walk(e, s[1], FromOf(e))) = Append(Tail(Walk(d, s[1], FromOf(d))), item.from)
  BY <1>3, <1>4, TailAppend
<1>6. \A root : EventsOf(d, root) = Tail(Walk(d, root, FromOf(d)))
                /\ EventsOf(e, root) = Tail(Walk(e, root, FromOf(e)))
  BY DEF EventsOf, FromOf
<1> QED
  BY <1>3, <1>5, <1>6

-----------------------------------------------------------------------------
(* Every item once.                                                        *)

Itself == [ref \in Refs |-> ref]
Once(A, over, under) ==
  ToSet(over) \cup ToSet(under) = A /\ Len(over) + Len(under) = Cardinality(A)
MetOnce(d) == Once(AllRefs(d), Walk(d, Body, Itself), Walk(d, Furniture, Itself))

Tidy(d) == GroveOf(d) /\ IsFiniteSet(AllRefs(d)) /\ MetOnce(d)

LEMMA ItselfWalk ==
  ASSUME NEW d, SoundTree(d), GroveOf(d), NEW root \in Tops
  PROVE  Walk(d, root, Itself) \in Seq(Refs)
PROOF
<1>1. \A ref \in AllRefs(d) : Itself[ref] \in Refs
  BY RefsFound DEF Itself, SoundTree
<1>2. root \in AllRefs(d)
  BY DEF GroveOf, Grove
<1> QED
  BY <1>1, <1>2, WalkTyped

LEMMA OnceMore ==
  ASSUME NEW A, IsFiniteSet(A), NEW S, NEW over \in Seq(S), NEW under \in Seq(S),
         Once(A, over, under), NEW new \in S, new \notin A
  PROVE  /\ Once(A \cup {new}, Append(over, new), under)
         /\ Once(A \cup {new}, over, Append(under, new))
PROOF
<1>1. /\ IsFiniteSet(A) /\ Cardinality(A) \in Nat
      /\ Cardinality(A \cup {new}) = Cardinality(A) + 1
  BY FS_CardinalityType, FS_AddElement
<1>2. ASSUME NEW s \in Seq(S)
      PROVE  ToSet(Append(s, new)) = ToSet(s) \cup {new} /\ Len(Append(s, new)) = Len(s) + 1
             /\ Len(s) \in Nat
  <2> DEFINE t == Append(s, new)
             n == Len(s)
  <2>1. /\ n \in Nat /\ Len(t) = n + 1 /\ DOMAIN t = 1..(n + 1) /\ DOMAIN s = 1..n
        /\ t[n + 1] = new /\ \A i \in 1..n : t[i] = s[i]
    OBVIOUS
  <2> HIDE DEF t, n
  <2>2. ToSet(t) = ToSet(s) \cup {new}
    <3>1. \A i \in 1..(n + 1) : i \in 1..n \/ i = n + 1
      BY <2>1
    <3>2. \A i \in 1..n : i \in 1..(n + 1)
      BY <2>1
    <3>3. n + 1 \in 1..(n + 1)
      BY <2>1
    <3> QED
      BY <2>1, <3>1, <3>2, <3>3 DEF ToSet
  <2> QED
    BY <2>1, <2>2 DEF t, n
<1> QED
  BY <1>1, <1>2 DEF Once

LEMMA TidyGrows ==
  ASSUME NEW d, NEW e, NEW item, NEW s, Grows(d, e, item, s), Tidy(d), item.self \in Refs
  PROVE  Tidy(e)
PROOF
<1>1. GroveOf(e)
  BY GroveOfGrows
<1>2. Agree(AllRefs(d), Itself, Itself, item.self, Refs) /\ Itself[item.self] = item.self
  BY RefsFound DEF Agree, Itself, Grows, SoundTree
<1>3. WalksOn(d, e, item, s, Itself, Itself)
  BY <1>2, WalkGrows
<1> DEFINE over == Walk(d, Body, Itself)
           under == Walk(d, Furniture, Itself)
<1>4. over \in Seq(Refs) /\ under \in Seq(Refs)
  BY ItselfWalk DEF Tops, Grows
<1>5. AllRefs(e) = AllRefs(d) \cup {item.self} /\ item.self \notin AllRefs(d) /\ s[1] \in Tops
  BY DEF Grows, Gains, SpineOf, Spine
<1>6. IsFiniteSet(AllRefs(e))
  BY <1>5, FS_AddElement DEF Tidy
<1>7. /\ Once(AllRefs(d) \cup {item.self}, Append(over, item.self), under)
      /\ Once(AllRefs(d) \cup {item.self}, over, Append(under, item.self))
  <2>1. IsFiniteSet(AllRefs(d)) /\ Once(AllRefs(d), over, under)
    BY DEF Tidy, MetOnce
  <2> HIDE DEF over, under
  <2> QED
    BY <2>1, <1>4, <1>5, OnceMore
<1>8. Body # Furniture
  BY DEF Body, Furniture
<1>9. CASE s[1] = Body
  <2>1. /\ Walk(e, Body, Itself) = Append(over, item.self)
        /\ Walk(e, Furniture, Itself) = under
    BY <1>2, <1>3, <1>8, <1>9 DEF WalksOn, Tops
  <2> QED
    BY <2>1, <1>1, <1>5, <1>6, <1>7 DEF Tidy, MetOnce
<1>10. CASE s[1] = Furniture
  <2>1. /\ Walk(e, Furniture, Itself) = Append(under, item.self)
        /\ Walk(e, Body, Itself) = over
    BY <1>2, <1>3, <1>8, <1>10 DEF WalksOn, Tops
  <2> QED
    BY <2>1, <1>1, <1>5, <1>6, <1>7 DEF Tidy, MetOnce
<1> QED
  BY <1>5, <1>9, <1>10 DEF Tops

-----------------------------------------------------------------------------
(* Reading order.                                                          *)

Follow(order, longer, n) ==
  /\ Len(order) <= Len(longer) /\ SubSeq(longer, 1, Len(order)) = order
  /\ \A i \in (Len(order) + 1)..Len(longer) :
       longer[i] <= n /\ (i > 1 => longer[i - 1] <= longer[i])

Reads(d, e, root, n) ==
  /\ Follow(EventsOf(d, root), EventsOf(e, root), n)
  /\ \A other \in Tops : other # root => EventsOf(e, other) = EventsOf(d, other)

FromsTo(d, n) == \A ref \in AllRefs(d) : At(d, ref).from \in 0..n

LEMMA FollowItself ==
  ASSUME NEW S, NEW s \in Seq(S), NEW n
  PROVE  Follow(s, s, n)
PROOF
<1>1. Len(s) \in Nat /\ SubSeq(s, 1, Len(s)) = s
  OBVIOUS
<1>2. (Len(s) + 1)..Len(s) = {}
  BY <1>1
<1> QED
  BY <1>1, <1>2 DEF Follow

LEMMA FollowMore ==
  ASSUME NEW a \in Seq(Nat), NEW b \in Seq(Nat), NEW n \in Nat, Follow(a, b, n),
         NEW v \in Nat, v <= n, \A i \in DOMAIN b : b[i] <= v
  PROVE  Follow(a, Append(b, v), n)
PROOF
<1> DEFINE c == Append(b, v)
           l == Len(a)
           m == Len(b)
<1>1. /\ l \in Nat /\ m \in Nat /\ Len(c) = m + 1 /\ c \in Seq(Nat) /\ c[m + 1] = v
      /\ \A i \in 1..m : c[i] = b[i] /\ b[i] <= v
  OBVIOUS
<1>2. /\ l <= m /\ SubSeq(b, 1, l) = a
      /\ \A i \in (l + 1)..m : b[i] <= n /\ (i > 1 => b[i - 1] <= b[i])
  BY DEF Follow
<1> HIDE DEF c
<1>3. SubSeq(c, 1, l) = a
  <2>1. SubSeq(c, 1, l) \in Seq(Nat) /\ Len(SubSeq(c, 1, l)) = l
        /\ \A i \in 1..l : SubSeq(c, 1, l)[i] = c[i]
    <3>1. l \in 0..Len(c) /\ c \in Seq(Nat)
      BY <1>1, <1>2
    <3> QED
      BY ONLY <3>1, Kept
  <2>2. \A i \in 1..l : c[i] = a[i]
    <3>1. \A i \in 1..l : i \in 1..m /\ SubSeq(b, 1, l)[i] = b[i]
      BY <1>1, <1>2
    <3> QED
      BY <1>1, <1>2, <3>1
  <2> QED
    BY <2>1, <2>2, SeqEqual
<1>4. ASSUME NEW i \in (l + 1)..(m + 1)
      PROVE  c[i] <= n /\ (i > 1 => c[i - 1] <= c[i])
  <2>1. CASE i = m + 1
    <3>1. i > 1 => i - 1 \in 1..m
      BY <1>1, <2>1
    <3> QED
      BY <1>1, <2>1, <3>1
  <2>2. CASE i # m + 1
    <3>1. i \in (l + 1)..m /\ i \in 1..m /\ (i > 1 => i - 1 \in 1..m)
      BY <1>1, <2>2
    <3> QED
      BY <1>1, <1>2, <3>1
  <2> QED
    BY <2>1, <2>2
<1>5. l <= Len(c)
  BY <1>1, <1>2
<1>6. Follow(a, c, n)
  BY <1>1, <1>3, <1>4, <1>5 DEF Follow
<1> QED
  BY <1>6 DEF c

LEMMA EventsTyped ==
  ASSUME NEW d, SoundTree(d), GroveOf(d), NEW n \in Nat, FromsTo(d, n), NEW root \in Tops
  PROVE  EventsOf(d, root) \in Seq(0..n)
PROOF
<1>1. \A ref \in AllRefs(d) : FromOf(d)[ref] \in 0..n
  BY RefsFound DEF FromOf, FromsTo, SoundTree
<1>2. root \in AllRefs(d)
  BY DEF GroveOf, Grove
<1>3. Walk(d, root, FromOf(d)) \in Seq(0..n) /\ Walk(d, root, FromOf(d)) # <<>>
  BY <1>1, <1>2, WalkTyped
<1>4. Tail(Walk(d, root, FromOf(d))) \in Seq(0..n)
  BY <1>3
<1>5. EventsOf(d, root) = Tail(Walk(d, root, FromOf(d)))
  BY DEF EventsOf, FromOf
<1> QED
  BY <1>4, <1>5

(* One more item, from an event not before any other. *)
LEMMA ReadsMore ==
  ASSUME NEW c, SoundTree(c), GroveOf(c), NEW m \in Nat, FromsTo(c, m),
         NEW d, NEW e, NEW item, NEW s, Grows(d, e, item, s),
         item.self \in Refs, item.from \in Nat, FromsTo(d, item.from),
         NEW n \in Nat, item.from <= n, Reads(c, d, s[1], n)
  PROVE  Reads(c, e, s[1], n) /\ FromsTo(e, item.from)
PROOF
<1>1. s[1] \in Tops
  BY DEF Grows, SpineOf, Spine
<1> DEFINE a == EventsOf(c, s[1])
           b == EventsOf(d, s[1])
           v == item.from
<1>2. /\ EventsOf(e, s[1]) = Append(b, v)
      /\ \A root \in Tops : root # s[1] => EventsOf(e, root) = EventsOf(d, root)
  BY EventsGrow
<1>3. a \in Seq(0..m) /\ b \in Seq(0..v)
  BY <1>1, EventsTyped DEF Grows
<1>4. Follow(a, b, n)
  BY DEF Reads
<1> HIDE DEF a, b
<1>5. a \in Seq(Nat) /\ b \in Seq(Nat) /\ \A i \in DOMAIN b : b[i] <= v
  BY <1>3
<1>6. Follow(a, Append(b, v), n)
  BY <1>4, <1>5, FollowMore
<1>7. Reads(c, e, s[1], n)
  BY <1>2, <1>6 DEF Reads, a, b
<1>8. FromsTo(e, item.from)
  <2>1. v \in 0..v
    OBVIOUS
  <2> QED
    BY <2>1 DEF FromsTo, Grows, Gains
<1> QED
  BY <1>7, <1>8

-----------------------------------------------------------------------------
(* Pointers and targets are not walked.                                    *)
LEMMA SameReads ==
  ASSUME NEW d, SoundTree(d), NEW e, SoundTree(e), SameTree(d, e)
  PROVE  /\ AllRefs(e) = AllRefs(d) /\ KidsOf(e) = KidsOf(d)
         /\ Tidy(d) => Tidy(e) /\ \A root \in Tops : EventsOf(e, root) = EventsOf(d, root)
         /\ \A s : SpineOf(d, s) => SpineOf(e, s)
         /\ \A n : FromsTo(d, n) => FromsTo(e, n)
PROOF
<1>1. AllRefs(e) = AllRefs(d) /\ \A ref \in AllRefs(d) : ref \in Refs /\ Resolves(d, ref)
  BY RefsFound DEF SoundTree, SameTree
<1>2. KidsOf(e) = KidsOf(d)
  BY <1>1 DEF KidsOf, SameTree
<1> DEFINE Same(V, seen, saw) ==
             \A ref \in AllRefs(d) : seen[ref] \in V /\ saw[ref] = seen[ref]
<1>3. ASSUME GroveOf(d), NEW V, NEW seen, NEW saw, NEW root \in Tops, Same(V, seen, saw)
      PROVE  Walk(e, root, saw) = Walk(d, root, seen)
  <2>1. PICK w : Walks(AllRefs(d), KidsOf(d), seen, w, V)
    BY <1>3 DEF GroveOf, Walkable
  <2>2. Walks(AllRefs(e), KidsOf(e), saw, w, V)
    BY <1>1, <1>2, <1>3, <2>1 DEF Walks, Walked
  <2>3. root \in AllRefs(d)
    BY <1>3 DEF GroveOf, Grove
  <2>4. Walk(d, root, seen) = w[root]
    BY <2>1, <2>3, WalkIs
  <2>5. Walk(e, root, saw) = w[root]
    BY <1>1, <2>2, <2>3, WalkIs
  <2> QED
    BY <2>4, <2>5
<1>4. ASSUME Tidy(d) PROVE Tidy(e) /\ \A root \in Tops : EventsOf(e, root) = EventsOf(d, root)
  <2>1. GroveOf(d) /\ GroveOf(e)
    BY <1>1, <1>2, <1>4 DEF Tidy, GroveOf
  <2> DEFINE V == {At(d, r).from : r \in Refs}
  <2>2. Same(Refs, Itself, Itself)
    BY <1>1 DEF Itself
  <2>3. Same(V, FromOf(d), FromOf(e))
    BY <1>1 DEF FromOf, SameTree
  <2> HIDE DEF Same, V
  <2>4. \A root \in Tops : Walk(e, root, Itself) = Walk(d, root, Itself)
    BY <1>3, <2>1, <2>2
  <2>5. \A root \in Tops : Walk(e, root, FromOf(e)) = Walk(d, root, FromOf(d))
    BY <1>3, <2>1, <2>3
  <2>6. Tidy(e)
    BY <1>1, <1>4, <2>1, <2>4 DEF Tidy, MetOnce, Tops
  <2>7. ASSUME NEW root \in Tops PROVE EventsOf(e, root) = EventsOf(d, root)
    <3>1. Tail(Walk(e, root, FromOf(e))) = Tail(Walk(d, root, FromOf(d)))
      BY <2>5
    <3> QED
      BY <3>1 DEF EventsOf, FromOf
  <2> QED
    BY <2>6, <2>7
<1>5. \A s : SpineOf(d, s) => SpineOf(e, s)
  BY <1>1, <1>2 DEF SpineOf
<1>6. \A n : FromsTo(d, n) => FromsTo(e, n)
  BY <1>1 DEF FromsTo, SameTree
<1> QED
  BY <1>1, <1>2, <1>4, <1>5, <1>6

LEMMA EmptyIsTidy ==
  /\ Tidy(EmptyDoc) /\ \A root \in Tops : EventsOf(EmptyDoc, root) = <<>>
  /\ SpineOf(EmptyDoc, <<Body>>) /\ \A n \in Nat : FromsTo(EmptyDoc, n)
PROOF
<1> DEFINE A == {Body, Furniture}
           kids == KidsOf(EmptyDoc)
<1>1. /\ AllRefs(EmptyDoc) = A /\ A = Tops /\ Body # Furniture /\ A \subseteq Refs
      /\ SoundTree(EmptyDoc)
  <2>1. SoundTree(EmptyDoc) /\ Body # Furniture /\ A \subseteq Refs
    BY EmptyIsSound, RefsAreRefs DEF Body, Furniture
  <2> QED
    BY <2>1, EmptyTree, RefsFound DEF Tops, SoundTree
<1>2. \A ref \in A : /\ kids[ref] = <<>> /\ At(EmptyDoc, ref).children = <<>>
                     /\ At(EmptyDoc, ref).from = 0
  <2>1. \A ref : Root(ref).children = <<>> /\ Root(ref).from = 0
    BY DEF Root, ItemFrom
  <2> QED
    BY <1>1, <2>1, EmptyTree DEF KidsOf
<1>3. kids \in [A -> Seq(A)]
  BY <1>1, KidsTyped
<1> HIDE DEF kids
<1>4. Grove(A, kids, Tops)
  BY <1>1, <1>2, <1>3 DEF Grove
<1>5. ASSUME NEW V, NEW seen, \A ref \in A : seen[ref] \in V
      PROVE  Walks(A, kids, seen, [ref \in A |-> <<seen[ref]>>], V)
  <2> DEFINE w == [ref \in A |-> <<seen[ref]>>]
  <2>1. w \in [A -> Seq(V)]
    BY <1>5
  <2>2. ASSUME NEW ref \in A
        PROVE  w[ref] = <<seen[ref]>> \o FlattenSeq(Parts(kids, w, ref))
    <3>1. PartsKnown(A, kids, w, V, ref)
      <4> HIDE DEF w, A
      <4> QED
        BY <1>3, <2>1, PartsFacts
    <3>2. Parts(kids, w, ref) = <<>>
      <4>1. Parts(kids, w, ref) \in Seq(Seq(V)) /\ Len(Parts(kids, w, ref)) = 0
        BY <1>2, <3>1 DEF PartsKnown
      <4> QED
        BY <4>1, EmptySeq
    <3>3. FlattenSeq(Parts(kids, w, ref)) = <<>>
      BY <3>2, FlattenEmpty
    <3>4. <<seen[ref]>> \o <<>> = <<seen[ref]>>
      <4>1. <<seen[ref]>> \in Seq(V)
        BY <1>5
      <4> QED
        BY <4>1, ConcatEmptySeq
    <3> QED
      BY <3>3, <3>4
  <2> HIDE DEF w
  <2>3. Walks(A, kids, seen, w, V)
    BY <1>3, <1>5, <2>1, <2>2 DEF Walks, Walked
  <2> QED
    BY <2>3 DEF w
<1>6. GroveOf(EmptyDoc)
  BY <1>1, <1>4, <1>5 DEF GroveOf, Walkable, kids
<1>7. ASSUME NEW V, NEW seen, \A ref \in A : seen[ref] \in V, NEW root \in Tops
      PROVE  Walk(EmptyDoc, root, seen) = <<seen[root]>>
  <2> DEFINE w == [ref \in A |-> <<seen[ref]>>]
  <2>1. Walks(AllRefs(EmptyDoc), KidsOf(EmptyDoc), seen, w, V)
    BY <1>1, <1>5, <1>7 DEF kids
  <2>2. w[root] = <<seen[root]>> /\ root \in AllRefs(EmptyDoc)
    BY <1>1
  <2> HIDE DEF w
  <2>3. Walk(EmptyDoc, root, seen) = w[root]
    BY <2>1, <2>2, WalkIs
  <2> QED
    BY <2>2, <2>3
<1>8. Walk(EmptyDoc, Body, Itself) = <<Body>> /\ Walk(EmptyDoc, Furniture, Itself) = <<Furniture>>
  <2>1. Itself[Body] = Body /\ Itself[Furniture] = Furniture
    BY <1>1 DEF Itself
  <2>2. \A ref \in A : Itself[ref] \in Refs
    BY <1>1, <2>1
  <2> QED
    BY <1>7, <2>1, <2>2 DEF Tops
<1>9. IsFiniteSet(A) /\ Cardinality(A) = 2
  <2>1. IsFiniteSet({Body}) /\ Cardinality({Body}) = 1
    BY FS_Singleton
  <2>2. Furniture \notin {Body} /\ A = {Body} \cup {Furniture}
    BY <1>1
  <2> HIDE DEF A
  <2>3. IsFiniteSet(A) /\ Cardinality(A) = Cardinality({Body}) + 1
    BY <2>1, <2>2, FS_AddElement
  <2> QED
    BY <2>1, <2>3
<1>10. MetOnce(EmptyDoc)
  <2>1. /\ ToSet(<<Body>>) = {Body} /\ ToSet(<<Furniture>>) = {Furniture}
        /\ Len(<<Body>>) = 1 /\ Len(<<Furniture>>) = 1
    <3>1. ASSUME NEW x PROVE ToSet(<<x>>) = {x} /\ Len(<<x>>) = 1
      <4>1. DOMAIN <<x>> = {1} /\ <<x>>[1] = x
        OBVIOUS
      <4> QED
        BY <4>1 DEF ToSet
    <3> QED
      BY <3>1
  <2> QED
    BY <1>1, <1>8, <1>9, <2>1 DEF MetOnce, Once
<1>11. ASSUME NEW root \in Tops PROVE EventsOf(EmptyDoc, root) = <<>>
  <2>1. \A ref \in A : FromOf(EmptyDoc)[ref] = 0
    BY <1>1, <1>2 DEF FromOf
  <2>2. \A ref \in A : FromOf(EmptyDoc)[ref] \in Nat
    BY <2>1
  <2>3. Walk(EmptyDoc, root, FromOf(EmptyDoc)) = <<FromOf(EmptyDoc)[root]>>
    BY <1>7, <2>2
  <2>4. Tail(Walk(EmptyDoc, root, FromOf(EmptyDoc))) = <<>>
    BY <2>3
  <2> QED
    BY <2>4 DEF EventsOf, FromOf
<1>12. SpineOf(EmptyDoc, <<Body>>)
  BY <1>1, SpineAlone DEF SpineOf, Tops
<1>13. \A n \in Nat : FromsTo(EmptyDoc, n)
  BY <1>1, <1>2 DEF FromsTo
<1> QED
  BY <1>1, <1>6, <1>9, <1>10, <1>11, <1>12, <1>13 DEF Tidy

-----------------------------------------------------------------------------
(* From the body down to where content goes: the open headings, then the   *)
(* open lists.                                                             *)
Path(hs, ls) ==
  [i \in 1..(1 + Len(hs) + Len(ls)) |->
     IF i = 1 THEN Body
     ELSE IF i <= 1 + Len(hs) THEN hs[i - 1].ref ELSE ls[i - 1 - Len(hs)].ref]

PathKnown(hs, ls) ==
  /\ Path(hs, ls) \in Seq(Refs) /\ Len(Path(hs, ls)) = 1 + Len(hs) + Len(ls)
  /\ Len(hs) \in Nat /\ Len(ls) \in Nat /\ Path(hs, ls)[1] = Body
  /\ \A i \in 1..Len(hs) : Path(hs, ls)[1 + i] = hs[i].ref
  /\ \A i \in 1..Len(ls) : Path(hs, ls)[1 + Len(hs) + i] = ls[i].ref

LEMMA PathIs ==
  ASSUME NEW hs \in Seq(OpenSections), NEW ls \in Seq(OpenLists)
  PROVE  PathKnown(hs, ls)
PROOF
<1> DEFINE m == Len(hs)
           n == Len(ls)
<1>1. /\ m \in Nat /\ n \in Nat /\ \A i \in 1..m : hs[i].ref \in Refs
      /\ \A i \in 1..n : ls[i].ref \in Refs
  <2>1. /\ \A open \in OpenSections : open.ref \in Refs
        /\ \A open \in OpenLists : open.ref \in Refs
    BY DEF OpenSections, OpenLists
  <2>2. DOMAIN hs = 1..m /\ DOMAIN ls = 1..n /\ m \in Nat /\ n \in Nat
    OBVIOUS
  <2> QED
    BY <2>1, <2>2, StackRefs
<1>2. Body \in Refs
  BY RefsAreRefs
<1> HIDE DEF m, n
<1>3. Path(hs, ls) = [i \in 1..(1 + m + n) |->
                        IF i = 1 THEN Body
                        ELSE IF i <= 1 + m THEN hs[i - 1].ref ELSE ls[i - 1 - m].ref]
  BY DEF Path, m, n
<1>4. \A i \in 1..(1 + m + n) : Path(hs, ls)[i] \in Refs
  <2>1. TAKE i \in 1..(1 + m + n)
  <2>2. CASE i = 1
    BY <1>1, <1>2, <1>3, <2>2
  <2>3. CASE i # 1 /\ i <= 1 + m
    <3>1. i - 1 \in 1..m /\ Path(hs, ls)[i] = hs[i - 1].ref
      BY <1>1, <1>3, <2>3
    <3> QED
      BY <1>1, <3>1
  <2>4. CASE i # 1 /\ ~(i <= 1 + m)
    <3>1. i - 1 - m \in 1..n /\ Path(hs, ls)[i] = ls[i - 1 - m].ref
      BY <1>1, <1>3, <2>4
    <3> QED
      BY <1>1, <3>1
  <2> QED
    BY <2>2, <2>3, <2>4
<1>5. Path(hs, ls) \in Seq(Refs) /\ Len(Path(hs, ls)) = 1 + m + n
  <2> DEFINE p == Path(hs, ls)
             k == 1 + m + n
  <2>1. k \in Nat /\ p = [i \in 1..k |-> p[i]] /\ \A i \in 1..k : p[i] \in Refs
    BY <1>1, <1>3, <1>4
  <2> HIDE DEF p, k
  <2>2. p \in [1..k -> Refs] /\ DOMAIN p = 1..k
    BY <2>1
  <2>3. p \in Seq(Refs)
    BY <2>1, <2>2
  <2>4. Len(p) = k
    BY <2>1, <2>2, <2>3
  <2> QED
    BY <2>3, <2>4 DEF p, k
<1>6. Path(hs, ls)[1] = Body
  BY <1>1, <1>3
<1>7. \A i \in 1..m : Path(hs, ls)[1 + i] = hs[i].ref
  BY <1>1, <1>3
<1>8. \A i \in 1..n : Path(hs, ls)[1 + m + i] = ls[i].ref
  BY <1>1, <1>3
<1> QED
  BY <1>1, <1>5, <1>6, <1>7, <1>8 DEF PathKnown, m, n

(* Where it ends. *)
LEMMA PathEnds ==
  ASSUME NEW hs \in Seq(OpenSections), NEW ls \in Seq(OpenLists)
  PROVE  /\ LET s == Path(hs, <<>>) IN s[Len(s)] = CurrentParent(hs)
         /\ ls # <<>> => LET s == Path(hs, ls) IN s[Len(s)] = ls[Len(ls)].ref
PROOF
<1>1. <<>> \in Seq(OpenLists) /\ Len(<<>>) = 0
  OBVIOUS
<1>2. PathKnown(hs, <<>>) /\ PathKnown(hs, ls)
  BY <1>1, PathIs
<1>3. LET s == Path(hs, <<>>) IN s[Len(s)] = CurrentParent(hs)
  <2>1. CASE hs = <<>>
    BY <1>1, <1>2, <2>1 DEF PathKnown, CurrentParent
  <2>2. CASE hs # <<>>
    <3>1. Len(hs) \in 1..Len(hs)
      BY <2>2
    <3> QED
      BY <1>1, <1>2, <2>2, <3>1 DEF PathKnown, CurrentParent
  <2> QED
    BY <2>1, <2>2
<1>4. ASSUME ls # <<>> PROVE LET s == Path(hs, ls) IN s[Len(s)] = ls[Len(ls)].ref
  <2>1. Len(ls) \in 1..Len(ls)
    BY <1>4
  <2> QED
    BY <1>2, <2>1 DEF PathKnown
<1> QED
  BY <1>3, <1>4

(* Closing headings or lists takes them off its end. *)
LEMMA PathKept ==
  ASSUME NEW hs \in Seq(OpenSections), NEW ls \in Seq(OpenLists)
  PROVE  /\ \A n \in 0..Len(hs) :
              Path(SubSeq(hs, 1, n), <<>>) = SubSeq(Path(hs, ls), 1, 1 + n)
         /\ \A n \in 0..Len(ls) :
              Path(hs, SubSeq(ls, 1, n)) = SubSeq(Path(hs, ls), 1, 1 + Len(hs) + n)
PROOF
<1>1. PathKnown(hs, ls) /\ <<>> \in Seq(OpenLists) /\ Len(<<>>) = 0
  BY PathIs
<1>2. ASSUME NEW n \in 0..Len(hs)
      PROVE  Path(SubSeq(hs, 1, n), <<>>) = SubSeq(Path(hs, ls), 1, 1 + n)
  <2> DEFINE kept == SubSeq(hs, 1, n)
             s == Path(kept, <<>>)
             t == SubSeq(Path(hs, ls), 1, 1 + n)
  <2>1. kept \in Seq(OpenSections) /\ Len(kept) = n /\ \A i \in 1..n : kept[i] = hs[i]
    BY Kept
  <2>2. PathKnown(kept, <<>>)
    BY <1>1, <2>1, PathIs
  <2>3. 1 + n \in 0..Len(Path(hs, ls)) /\ n \in Nat /\ n <= Len(hs)
    BY <1>1 DEF PathKnown
  <2>4. t \in Seq(Refs) /\ Len(t) = 1 + n /\ \A i \in 1..(1 + n) : t[i] = Path(hs, ls)[i]
    BY <1>1, <2>3, Kept DEF PathKnown
  <2>5. s \in Seq(Refs) /\ Len(s) = 1 + n
    BY <1>1, <2>1, <2>2, <2>3 DEF PathKnown
  <2> HIDE DEF s, t
  <2>6. \A i \in 1..Len(s) : s[i] = t[i]
    <3>1. TAKE i \in 1..Len(s)
    <3>2. CASE i = 1
      BY <1>1, <2>2, <2>3, <2>4, <3>2 DEF PathKnown, s
    <3>3. CASE i # 1
      <4>1. i - 1 \in 1..n /\ i - 1 \in 1..Len(hs) /\ i = 1 + (i - 1) /\ i \in 1..(1 + n)
        BY <2>3, <2>5, <3>3
      <4>2. s[i] = kept[i - 1].ref
        BY <2>1, <2>2, <4>1 DEF PathKnown, s
      <4>3. t[i] = hs[i - 1].ref
        BY <1>1, <2>4, <4>1 DEF PathKnown
      <4> QED
        BY <2>1, <4>1, <4>2, <4>3
    <3> QED
      BY <3>2, <3>3
  <2>7. s = t
    BY <2>4, <2>5, <2>6, SeqEqual
  <2> QED
    BY <2>7 DEF s, t
<1>3. ASSUME NEW n \in 0..Len(ls)
      PROVE  Path(hs, SubSeq(ls, 1, n)) = SubSeq(Path(hs, ls), 1, 1 + Len(hs) + n)
  <2> DEFINE kept == SubSeq(ls, 1, n)
             m == Len(hs)
             s == Path(hs, kept)
             t == SubSeq(Path(hs, ls), 1, 1 + m + n)
  <2>1. kept \in Seq(OpenLists) /\ Len(kept) = n /\ \A i \in 1..n : kept[i] = ls[i]
    BY Kept
  <2>2. PathKnown(hs, kept)
    BY <2>1, PathIs
  <2>3. 1 + m + n \in 0..Len(Path(hs, ls)) /\ n \in Nat /\ n <= Len(ls) /\ m \in Nat
    BY <1>1 DEF PathKnown
  <2>4. t \in Seq(Refs) /\ Len(t) = 1 + m + n
        /\ \A i \in 1..(1 + m + n) : t[i] = Path(hs, ls)[i]
    BY <1>1, <2>3, Kept DEF PathKnown
  <2>5. s \in Seq(Refs) /\ Len(s) = 1 + m + n
    BY <2>1, <2>2, <2>3 DEF PathKnown
  <2> HIDE DEF s, t
  <2>6. \A i \in 1..Len(s) : s[i] = t[i]
    <3>1. TAKE i \in 1..Len(s)
    <3>2. CASE i = 1
      BY <1>1, <2>2, <2>3, <2>4, <3>2 DEF PathKnown, s
    <3>3. CASE i # 1 /\ i <= 1 + m
      <4>1. i - 1 \in 1..m /\ i = 1 + (i - 1) /\ i \in 1..(1 + m + n)
        BY <2>3, <2>5, <3>3
      <4>2. s[i] = hs[i - 1].ref
        BY <2>2, <4>1 DEF PathKnown, s
      <4>3. t[i] = hs[i - 1].ref
        BY <1>1, <2>4, <4>1 DEF PathKnown
      <4> QED
        BY <4>2, <4>3
    <3>4. CASE ~(i <= 1 + m)
      <4>1. i - 1 - m \in 1..n /\ i - 1 - m \in 1..Len(ls) /\ i = 1 + m + (i - 1 - m)
            /\ i \in 1..(1 + m + n)
        BY <2>3, <2>5, <3>4
      <4>2. s[i] = kept[i - 1 - m].ref
        BY <2>1, <2>2, <4>1 DEF PathKnown, s
      <4>3. t[i] = ls[i - 1 - m].ref
        BY <1>1, <2>4, <4>1 DEF PathKnown
      <4> QED
        BY <2>1, <4>1, <4>2, <4>3
    <3> QED
      BY <3>2, <3>3, <3>4
  <2>7. s = t
    BY <2>4, <2>5, <2>6, SeqEqual
  <2> QED
    BY <2>7 DEF s, t
<1> QED
  BY <1>2, <1>3

(* Opening one puts it at the end. *)
LEMMA PathPushed ==
  ASSUME NEW hs \in Seq(OpenSections), NEW ls \in Seq(OpenLists)
  PROVE  /\ \A h \in OpenSections : Path(Append(hs, h), <<>>) = Append(Path(hs, <<>>), h.ref)
         /\ \A l \in OpenLists : Path(hs, Append(ls, l)) = Append(Path(hs, ls), l.ref)
PROOF
<1>1. <<>> \in Seq(OpenLists) /\ Len(<<>>) = 0
  OBVIOUS
<1>2. ASSUME NEW h \in OpenSections
      PROVE  Path(Append(hs, h), <<>>) = Append(Path(hs, <<>>), h.ref)
  <2> DEFINE more == Append(hs, h)
             m == Len(hs)
             s == Path(more, <<>>)
             p == Path(hs, <<>>)
             t == Append(p, h.ref)
  <2>1. /\ more \in Seq(OpenSections) /\ Len(more) = m + 1 /\ m \in Nat
        /\ more[m + 1] = h /\ \A i \in 1..m : more[i] = hs[i]
    OBVIOUS
  <2>2. PathKnown(more, <<>>) /\ PathKnown(hs, <<>>) /\ h.ref \in Refs
    BY <1>1, <2>1, PathIs DEF OpenSections
  <2>3. p \in Seq(Refs) /\ Len(p) = 1 + m
    BY <1>1, <2>1, <2>2 DEF PathKnown
  <2> HIDE DEF p, more
  <2>4. t \in Seq(Refs) /\ Len(t) = 2 + m /\ t[2 + m] = h.ref
        /\ \A i \in 1..(1 + m) : t[i] = p[i]
    BY <2>1, <2>2, <2>3
  <2>5. s \in Seq(Refs) /\ Len(s) = 2 + m
    BY <1>1, <2>1, <2>2 DEF PathKnown
  <2> HIDE DEF s, t
  <2>6. \A i \in 1..Len(s) : s[i] = t[i]
    <3>1. TAKE i \in 1..Len(s)
    <3>2. CASE i = 1
      BY <2>1, <2>2, <2>4, <3>2 DEF PathKnown, s, p
    <3>3. CASE i # 1
      <4>1. i - 1 \in 1..(m + 1) /\ i = 1 + (i - 1)
        BY <2>1, <2>5, <3>3
      <4>2. s[i] = more[i - 1].ref
        BY <2>1, <2>2, <4>1 DEF PathKnown, s
      <4>3. t[i] = more[i - 1].ref
        <5>1. CASE i = 2 + m
          BY <2>1, <2>4, <5>1
        <5>2. CASE i # 2 + m
          <6>1. i - 1 \in 1..m /\ i \in 1..(1 + m)
            BY <2>1, <4>1, <5>2
          <6>2. p[i] = hs[i - 1].ref
            BY <2>2, <4>1, <6>1 DEF PathKnown, p
          <6> QED
            BY <2>1, <2>4, <6>1, <6>2
        <5> QED
          BY <5>1, <5>2
      <4> QED
        BY <4>2, <4>3
    <3> QED
      BY <3>2, <3>3
  <2>7. s = t
    BY <2>4, <2>5, <2>6, SeqEqual
  <2> QED
    BY <2>7 DEF s, t, p, more
<1>3. ASSUME NEW l \in OpenLists
      PROVE  Path(hs, Append(ls, l)) = Append(Path(hs, ls), l.ref)
  <2> DEFINE more == Append(ls, l)
             m == Len(hs)
             n == Len(ls)
             s == Path(hs, more)
             p == Path(hs, ls)
             t == Append(p, l.ref)
  <2>1. /\ more \in Seq(OpenLists) /\ Len(more) = n + 1 /\ n \in Nat /\ m \in Nat
        /\ more[n + 1] = l /\ \A i \in 1..n : more[i] = ls[i]
    OBVIOUS
  <2>2. PathKnown(hs, more) /\ PathKnown(hs, ls) /\ l.ref \in Refs
    BY <2>1, PathIs DEF OpenLists
  <2>3. p \in Seq(Refs) /\ Len(p) = 1 + m + n
    BY <2>1, <2>2 DEF PathKnown
  <2> HIDE DEF p, more
  <2>4. t \in Seq(Refs) /\ Len(t) = 2 + m + n /\ t[2 + m + n] = l.ref
        /\ \A i \in 1..(1 + m + n) : t[i] = p[i]
    BY <2>1, <2>2, <2>3
  <2>5. s \in Seq(Refs) /\ Len(s) = 2 + m + n
    BY <2>1, <2>2 DEF PathKnown
  <2> HIDE DEF s, t
  <2>6. \A i \in 1..Len(s) : s[i] = t[i]
    <3>1. TAKE i \in 1..Len(s)
    <3>2. CASE i = 1
      BY <2>1, <2>2, <2>4, <3>2 DEF PathKnown, s, p
    <3>3. CASE i # 1 /\ i <= 1 + m
      <4>1. i - 1 \in 1..m /\ i = 1 + (i - 1) /\ i \in 1..(1 + m + n)
        BY <2>1, <2>5, <3>3
      <4>2. s[i] = hs[i - 1].ref /\ p[i] = hs[i - 1].ref
        BY <2>2, <4>1 DEF PathKnown, s, p
      <4> QED
        BY <2>4, <4>1, <4>2
    <3>4. CASE ~(i <= 1 + m)
      <4>1. i - 1 - m \in 1..(n + 1) /\ i = 1 + m + (i - 1 - m)
        BY <2>1, <2>5, <3>4
      <4>2. s[i] = more[i - 1 - m].ref
        BY <2>1, <2>2, <4>1 DEF PathKnown, s
      <4>3. t[i] = more[i - 1 - m].ref
        <5>1. CASE i = 2 + m + n
          BY <2>1, <2>4, <5>1
        <5>2. CASE i # 2 + m + n
          <6>1. i - 1 - m \in 1..n /\ i \in 1..(1 + m + n)
            BY <2>1, <4>1, <5>2
          <6>2. p[i] = ls[i - 1 - m].ref
            BY <2>2, <4>1, <6>1 DEF PathKnown, p
          <6> QED
            BY <2>1, <2>4, <6>1, <6>2
        <5> QED
          BY <5>1, <5>2
      <4> QED
        BY <4>2, <4>3
    <3> QED
      BY <3>2, <3>3, <3>4
  <2>7. s = t
    BY <2>4, <2>5, <2>6, SeqEqual
  <2> QED
    BY <2>7 DEF s, t, p, more
<1> QED
  BY <1>2, <1>3

-----------------------------------------------------------------------------
(* A tree on the way from c to what the n-th event leaves: content goes to *)
(* the end of s, and nothing in it is later than `from'.                   *)
Ready(c, d, s, from, n) ==
  /\ SoundTree(d) /\ Tidy(d) /\ SpineOf(d, s) /\ FromsTo(d, from) /\ Reads(c, d, s[1], n)

LEMMA ReadyAdd ==
  ASSUME NEW c, SoundTree(c), Tidy(c), NEW m \in Nat, FromsTo(c, m), NEW n \in Nat,
         NEW d, NEW s, NEW from \in Nat, Ready(c, d, s, from, n),
         NEW arena, NEW item, Addable(d, arena, item), s[Len(s)] = item.parent,
         from <= item.from, item.from <= n
  PROVE  LET e == AddItem(d, arena, item) IN
         Ready(c, e, s, item.from, n) /\ Ready(c, e, Append(s, item.self), item.from, n)
PROOF
<1> DEFINE e == AddItem(d, arena, item)
<1>1. SoundTree(d) /\ Tidy(d) /\ GroveOf(d) /\ SpineOf(d, s) /\ FromsTo(d, from)
      /\ Reads(c, d, s[1], n) /\ GroveOf(c)
  BY DEF Ready, Tidy
<1>2. SoundTree(e) /\ item.self \in Refs
  BY <1>1, AddKeeps
<1>3. Gains(d, e, item)
  BY <1>1, ItemAdds
<1>4. item.from \in Nat
  BY DEF Addable, Item
<1> HIDE DEF e
<1>5. Grows(d, e, item, s)
  BY <1>1, <1>2, <1>3 DEF Grows
<1>6. FromsTo(d, item.from)
  BY <1>1, <1>4 DEF FromsTo
<1>7. SpineOf(e, s) /\ SpineOf(e, Append(s, item.self))
  BY <1>5, GroveOfGrows
<1>8. Tidy(e)
  BY <1>1, <1>2, <1>5, TidyGrows
<1>9. Reads(c, e, s[1], n) /\ FromsTo(e, item.from)
  BY <1>1, <1>2, <1>4, <1>5, <1>6, ReadsMore
<1>10. Append(s, item.self)[1] = s[1]
  <2>1. s \in Seq(AllRefs(d)) /\ Len(s) > 0
    BY <1>1 DEF SpineOf, Spine
  <2> QED
    BY <2>1
<1> QED
  BY <1>2, <1>7, <1>8, <1>9, <1>10 DEF Ready, e

LEMMA ReadyTop ==
  ASSUME NEW c, NEW d, NEW s, NEW from, NEW n, Ready(c, d, s, from, n), NEW k \in 1..Len(s)
  PROVE  Ready(c, d, SubSeq(s, 1, k), from, n)
PROOF
<1>1. SpineOf(d, s)
  BY DEF Ready
<1>2. SpineOf(d, SubSeq(s, 1, k))
  BY <1>1, SpineTop DEF SpineOf
<1>3. SubSeq(s, 1, k)[1] = s[1]
  <2>1. s \in Seq(AllRefs(d))
    BY <1>1 DEF SpineOf, Spine
  <2> QED
    BY <2>1
<1> QED
  BY <1>2, <1>3 DEF Ready

LEMMA ReadyPath ==
  ASSUME NEW hs \in Seq(OpenSections), NEW ls \in Seq(OpenLists),
         NEW c, NEW d, NEW from, NEW n, Ready(c, d, Path(hs, ls), from, n)
  PROVE  /\ \A k \in 0..Len(hs) : Ready(c, d, Path(SubSeq(hs, 1, k), <<>>), from, n)
         /\ \A k \in 0..Len(ls) : Ready(c, d, Path(hs, SubSeq(ls, 1, k)), from, n)
         /\ Ready(c, d, Path(hs, <<>>), from, n)
PROOF
<1>1. PathKnown(hs, ls)
  BY PathIs
<1>2. ASSUME NEW k \in 0..Len(hs) PROVE Ready(c, d, Path(SubSeq(hs, 1, k), <<>>), from, n)
  <2>1. 1 + k \in 1..Len(Path(hs, ls))
    BY <1>1 DEF PathKnown
  <2>2. Path(SubSeq(hs, 1, k), <<>>) = SubSeq(Path(hs, ls), 1, 1 + k)
    BY PathKept
  <2> QED
    BY <2>1, <2>2, ReadyTop
<1>3. ASSUME NEW k \in 0..Len(ls) PROVE Ready(c, d, Path(hs, SubSeq(ls, 1, k)), from, n)
  <2>1. 1 + Len(hs) + k \in 1..Len(Path(hs, ls))
    BY <1>1 DEF PathKnown
  <2>2. Path(hs, SubSeq(ls, 1, k)) = SubSeq(Path(hs, ls), 1, 1 + Len(hs) + k)
    BY PathKept
  <2> QED
    BY <2>1, <2>2, ReadyTop
<1>4. SubSeq(ls, 1, 0) = <<>> /\ 0 \in 0..Len(ls)
  OBVIOUS
<1> QED
  BY <1>2, <1>3, <1>4

LEMMA ReadyLater ==
  ASSUME NEW c, NEW d, NEW s, NEW from \in Nat, NEW n, Ready(c, d, s, from, n),
         NEW now \in Nat, from <= now
  PROVE  Ready(c, d, s, now, n)
PROOF
<1>1. FromsTo(d, now)
  BY DEF Ready, FromsTo
<1> QED
  BY <1>1 DEF Ready

(* Pointers and targets do not matter. *)
LEMMA ReadySame ==
  ASSUME NEW c, NEW d, NEW e, NEW s, NEW from, NEW n, Ready(c, d, s, from, n),
         SoundTree(e), SameTree(d, e)
  PROVE  Ready(c, e, s, from, n)
PROOF
<1>1. SoundTree(d) /\ Tidy(d) /\ SpineOf(d, s) /\ FromsTo(d, from) /\ Reads(c, d, s[1], n)
  BY DEF Ready
<1>2. Tidy(e) /\ SpineOf(e, s) /\ FromsTo(e, from)
      /\ \A root \in Tops : EventsOf(e, root) = EventsOf(d, root)
  BY <1>1, SameReads
<1>3. s[1] \in Tops
  BY <1>1 DEF SpineOf, Spine
<1>4. Reads(c, e, s[1], n)
  BY <1>1, <1>2, <1>3 DEF Reads
<1> QED
  BY <1>2, <1>4 DEF Ready

-----------------------------------------------------------------------------
(* The invariant.  A tree in which each is met once; from the body down    *)
(* through what is open always to the last child, so that what is added    *)
(* there comes last of all; and what is late in it is what came late.      *)
ReadInv ==
  /\ Tidy(doc) /\ SpineOf(doc, Path(headings, lists)) /\ FromsTo(doc, given)
  /\ table.open => FromsTo(doc, table.from)
  /\ Tidy(taken.doc)

(* What an event that adds to the tree leaves. *)
ReadStep ==
  /\ Tidy(doc') /\ SpineOf(doc', Path(headings', lists')) /\ FromsTo(doc', given + 1)
  /\ \E root \in Tops : Reads(doc, doc', root, given + 1)

LEMMA ReadsItself ==
  ASSUME NEW d, SoundTree(d), Tidy(d), NEW m \in Nat, FromsTo(d, m), NEW n,
         NEW root \in Tops
  PROVE  Reads(d, d, root, n)
PROOF
<1>1. EventsOf(d, root) \in Seq(0..m)
  BY EventsTyped DEF Tidy
<1> QED
  BY <1>1, FollowItself DEF Reads

LEMMA ReadFacts ==
  ASSUME FoldInv, ReadInv
  PROVE  /\ SoundTree(doc) /\ Tidy(doc) /\ FromsTo(doc, given)
         /\ given \in Nat /\ given + 1 \in Nat
         /\ headings \in Seq(OpenSections) /\ lists \in Seq(OpenLists)
         /\ Ready(doc, doc, Path(headings, lists), given + 1, given + 1)
         /\ Ready(doc, doc, Path(headings, <<>>), given + 1, given + 1)
         /\ Ready(doc, doc, <<Furniture>>, given + 1, given + 1)
PROOF
<1>1. SoundTree(doc) /\ given \in Nat /\ headings \in Seq(OpenSections) /\ lists \in Seq(OpenLists)
  BY InvFacts
<1>2. Tidy(doc) /\ FromsTo(doc, given) /\ SpineOf(doc, Path(headings, lists))
  BY DEF ReadInv
<1>3. FromsTo(doc, given + 1)
  BY <1>1, <1>2 DEF FromsTo
<1>4. \A root \in Tops : Reads(doc, doc, root, given + 1)
  BY <1>1, <1>2, ReadsItself
<1>5. Path(headings, lists)[1] \in Tops
  BY <1>2 DEF SpineOf, Spine
<1>6. Ready(doc, doc, Path(headings, lists), given + 1, given + 1)
  BY <1>1, <1>2, <1>3, <1>4, <1>5 DEF Ready
<1>7. Ready(doc, doc, Path(headings, <<>>), given + 1, given + 1)
  BY <1>1, <1>6, ReadyPath
<1>8. Ready(doc, doc, <<Furniture>>, given + 1, given + 1)
  <2>1. Furniture \in Tops /\ Tops \subseteq AllRefs(doc)
    BY <1>2 DEF Tops, Tidy, GroveOf, Grove
  <2>2. SpineOf(doc, <<Furniture>>)
    BY <2>1, SpineAlone DEF SpineOf
  <2>3. <<Furniture>>[1] \in Tops
    BY <2>1
  <2> QED
    BY <1>1, <1>2, <1>3, <1>4, <2>2, <2>3 DEF Ready
<1> QED
  BY <1>1, <1>2, <1>6, <1>7, <1>8

(* One more item at the end of what is ready. *)
LEMMA ReadyNext ==
  ASSUME FoldInv, ReadInv, NEW d, NEW s, Ready(doc, d, s, given + 1, given + 1),
         NEW arena, NEW item, Addable(d, arena, item), s[Len(s)] = item.parent,
         item.from = given + 1
  PROVE  LET e == AddItem(d, arena, item) IN
         /\ Ready(doc, e, s, given + 1, given + 1)
         /\ Ready(doc, e, Append(s, item.self), given + 1, given + 1)
PROOF
<1>1. /\ SoundTree(doc) /\ Tidy(doc) /\ FromsTo(doc, given)
      /\ given \in Nat /\ given + 1 \in Nat /\ given + 1 <= given + 1
  BY ReadFacts
<1> QED
  BY <1>1, ReadyAdd

LEMMA ReadyDone ==
  ASSUME FoldInv, ReadInv, Ready(doc, doc', Path(headings', lists'), given + 1, given + 1)
  PROVE  ReadStep
PROOF
<1>1. Path(headings', lists')[1] \in Tops
  BY DEF Ready, SpineOf, Spine
<1> QED
  BY <1>1 DEF Ready, ReadStep

-----------------------------------------------------------------------------
(* What an event makes of itself: the next item of an arena, for a parent. *)
Joining(d, arena, item, parent) ==
  /\ Addable(d, arena, item) /\ item.self = NextRef(d, arena)
  /\ item.parent = parent /\ item.from = given + 1

LEMMA NewJoins ==
  ASSUME FoldInv, NEW d, SoundTree(d), NEW arena \in Arenas, NEW parent \in Refs,
         CanHold(d, parent), NEW kind \in Kinds
  PROVE  Joining(d, arena, NewItem(NextRef(d, arena), parent, kind), parent)
PROOF
<1> DEFINE self == NextRef(d, arena)
           item == NewItem(self, parent, kind)
<1>1. self \in Refs /\ given \in Nat
  BY InvFacts, NextRefIsRef DEF SoundTree
<1>2. item.from = given + 1
  BY DEF NewItem, ItemFrom
<1>3. /\ item \in Item /\ item.self = self /\ item.parent = parent
      /\ item.children = <<>> /\ item.points = {}
  BY <1>1, NewItemIs
<1> HIDE DEF item
<1>4. Addable(d, arena, item)
  BY <1>3 DEF Addable
<1>5. Joining(d, arena, item, parent)
  BY <1>2, <1>3, <1>4 DEF Joining
<1> QED
  BY <1>5 DEF item

LEMMA JoinsStill ==
  ASSUME NEW d, NEW arena, NEW item, NEW parent, Joining(d, arena, item, parent),
         NEW level \in Nat, NEW ordered \in BOOLEAN,
         NEW id \in Names \cup {NoName}, NEW cites \in SUBSET Names
  PROVE  /\ Joining(d, arena, [item EXCEPT !.level = level], parent)
         /\ Joining(d, arena, [item EXCEPT !.level = level, !.ordered = ordered], parent)
         /\ Joining(d, arena, [item EXCEPT !.id = id], parent)
         /\ Joining(d, arena, [item EXCEPT !.id = id, !.cites = cites], parent)
PROOF
<1> DEFINE Alike(new) ==
             /\ new \in Item /\ new.self = item.self /\ new.parent = item.parent
             /\ new.children = item.children /\ new.points = item.points
             /\ new.from = item.from
<1>1. item \in Item
  BY DEF Joining, Addable
<1>2. ASSUME NEW new, Alike(new) PROVE Joining(d, arena, new, parent)
  BY <1>2 DEF Joining, Addable
<1>3. Alike([item EXCEPT !.level = level])
  BY <1>1 DEF Item
<1>4. Alike([item EXCEPT !.level = level, !.ordered = ordered])
  BY <1>1 DEF Item
<1>5. Alike([item EXCEPT !.id = id])
  BY <1>1 DEF Item
<1>6. Alike([item EXCEPT !.id = id, !.cites = cites])
  BY <1>1 DEF Item
<1> HIDE DEF Alike
<1> QED
  BY <1>2, <1>3, <1>4, <1>5, <1>6

LEMMA TextJoins ==
  ASSUME FoldInv, NEW d, SoundTree(d), NEW parent \in Refs, CanHold(d, parent),
         NEW kind \in Kinds, NEW e \in TextEvents
  PROVE  Joining(d, "texts", NewText(e, NextRef(d, "texts"), parent, kind), parent)
PROOF
<1> DEFINE item == NewItem(NextRef(d, "texts"), parent, kind)
<1>1. Joining(d, "texts", item, parent)
  BY NewJoins DEF Arenas
<1>2. e.id \in Names \cup {NoName} /\ e.cites \in SUBSET Names
  BY DEF TextEvents
<1>3. 0 \in Nat /\ FALSE \in BOOLEAN
  OBVIOUS
<1> HIDE DEF item
<1>4. Joining(d, "texts", [item EXCEPT !.id = e.id, !.cites = e.cites], parent)
  BY <1>1, <1>2, <1>3, JoinsStill
<1> QED
  BY <1>4 DEF NewText, item

(* It goes to the end, and what is under it next goes after it.            *)
LEMMA ReadyJoin ==
  ASSUME FoldInv, ReadInv, NEW d, NEW s, Ready(doc, d, s, given + 1, given + 1),
         NEW arena, NEW item, Joining(d, arena, item, s[Len(s)])
  PROVE  LET e == AddItem(d, arena, item) IN
         /\ Ready(doc, e, s, given + 1, given + 1)
         /\ Ready(doc, e, Append(s, NextRef(d, arena)), given + 1, given + 1)
         /\ SoundTree(e) /\ Grown(d, e)
         /\ arena = "groups" => CanHold(e, NextRef(d, arena))
PROOF
<1>1. /\ Addable(d, arena, item) /\ item.parent = s[Len(s)]
      /\ item.from = given + 1 /\ item.self = NextRef(d, arena)
  BY DEF Joining
<1>2. SoundTree(d)
  BY DEF Ready
<1>3. LET e == AddItem(d, arena, item) IN
      /\ Ready(doc, e, s, given + 1, given + 1)
      /\ Ready(doc, e, Append(s, item.self), given + 1, given + 1)
  BY <1>1, ReadyNext
<1>4. LET e == AddItem(d, arena, item) IN
      /\ SoundTree(e) /\ Grown(d, e)
      /\ arena = "groups" => CanHold(e, item.self)
  BY <1>1, <1>2, AddKeeps
<1> QED
  BY <1>1, <1>3, <1>4

LEMMA HeadingRead ==
  ASSUME FoldInv, ReadInv, NEW e \in TextEvents, PushHeading(e)
  PROVE  ReadStep
PROOF
<1>1. PICK n \in 0..Len(headings) :
        LET kept == SubSeq(headings, 1, n)
            self == NextRef(doc, "texts")
            item == [NewText(e, self, CurrentParent(kept), "heading")
                       EXCEPT !.level = e.level]
        IN /\ doc' = AddItem(doc, "texts", item)
           /\ headings' = Append(kept, [level |-> e.level, ref |-> self])
  BY DEF PushHeading
<1> DEFINE kept == SubSeq(headings, 1, n)
           self == NextRef(doc, "texts")
           parent == CurrentParent(kept)
           text == NewText(e, self, parent, "heading")
           item == [text EXCEPT !.level = e.level]
           open == [level |-> e.level, ref |-> self]
           s == Path(kept, <<>>)
<1>2. kept \in Seq(OpenSections) /\ HoldsAll(doc, kept)
  BY InvFacts, Kept, KeptHolds
<1>3. parent \in Refs /\ CanHold(doc, parent)
  BY <1>2, InvFacts, CurrentParentHolds
<1>4. /\ self \in Refs /\ e.level \in Nat /\ e.id \in Names \cup {NoName}
      /\ FALSE \in BOOLEAN /\ {} \in SUBSET Names
  BY InvFacts DEF TextEvents, Arenas
<1>5. doc' = AddItem(doc, "texts", item) /\ headings' = Append(kept, open) /\ lists' = <<>>
  BY <1>1 DEF PushHeading, EndListRun
<1>6. Ready(doc, doc, s, given + 1, given + 1) /\ s[Len(s)] = parent
  <2>1. Ready(doc, doc, Path(headings, lists), given + 1, given + 1)
    BY ReadFacts
  <2>2. Ready(doc, doc, s, given + 1, given + 1)
    BY <2>1, InvFacts, ReadyPath
  <2>3. <<>> \in Seq(OpenLists)
    OBVIOUS
  <2> QED
    BY <2>2, <2>3, <1>2, PathEnds
<1> HIDE DEF kept, parent, text
<1>7. Joining(doc, "texts", item, parent)
  <2>1. Joining(doc, "texts", text, parent)
    BY <1>3, InvFacts, TextJoins DEF text, Kinds
  <2> QED
    BY <1>4, <2>1, JoinsStill
<1> HIDE DEF item, s
<1>8. Ready(doc, doc', Append(s, self), given + 1, given + 1)
  BY <1>5, <1>6, <1>7, ReadyJoin
<1>9. Path(headings', lists') = Append(s, self)
  <2>1. open \in OpenSections /\ open.ref = self
    BY <1>4 DEF OpenSections
  <2>2. <<>> \in Seq(OpenLists)
    OBVIOUS
  <2> QED
    BY <1>2, <1>5, <2>1, <2>2, PathPushed DEF s
<1> QED
  BY <1>8, <1>9, ReadyDone

LEMMA ParagraphRead ==
  ASSUME FoldInv, ReadInv, NEW e \in TextEvents, PushParagraph(e)
  PROVE  ReadStep
PROOF
<1> DEFINE parent == CurrentParent(headings)
           item == NewText(e, NextRef(doc, "texts"), parent, "text")
           s == Path(headings, <<>>)
<1>1. parent \in Refs /\ CanHold(doc, parent)
  BY InvFacts
<1>2. Joining(doc, "texts", item, parent)
  BY <1>1, InvFacts, TextJoins DEF Kinds
<1>3. doc' = AddItem(doc, "texts", item) /\ headings' = headings /\ lists' = <<>>
  BY DEF PushParagraph, EndListRun
<1>4. Ready(doc, doc, s, given + 1, given + 1) /\ s[Len(s)] = parent
  BY ReadFacts, PathEnds
<1> HIDE DEF item, s
<1>5. Ready(doc, doc', s, given + 1, given + 1)
  BY <1>2, <1>3, <1>4, ReadyJoin
<1> QED
  BY <1>3, <1>5, ReadyDone DEF s

LEMMA PictureRead ==
  ASSUME FoldInv, ReadInv, NEW e \in Events, OnPicture(e)
  PROVE  ReadStep
PROOF
<1> DEFINE parent == CurrentParent(headings)
           new == NewItem(NextRef(doc, "pictures"), parent, "picture")
           item == [new EXCEPT !.id = e.id]
           s == Path(headings, <<>>)
<1>1. e.id \in Names \cup {NoName}
  <2>1. e.event = "picture"
    BY DEF OnPicture
  <2>2. e \in PictureEvents
    BY <2>1 DEF Events, TextEvents, CitationEvents, StartEvents, RowEvents, EndEvents,
                FactEvents, NoteEvents, IslandEvents, OtherEvents
  <2> QED
    BY <2>2 DEF PictureEvents
<1>2. parent \in Refs /\ CanHold(doc, parent)
  BY InvFacts
<1>3. doc' = AddItem(doc, "pictures", item) /\ headings' = headings /\ lists' = <<>>
  BY DEF OnPicture, EndListRun
<1>4. Ready(doc, doc, s, given + 1, given + 1) /\ s[Len(s)] = parent
  BY ReadFacts, PathEnds
<1>5. Joining(doc, "pictures", item, parent)
  <2>1. Joining(doc, "pictures", new, parent)
    BY <1>2, InvFacts, NewJoins DEF Kinds, Arenas
  <2>2. 0 \in Nat /\ FALSE \in BOOLEAN /\ {} \in SUBSET Names
    OBVIOUS
  <2> HIDE DEF new
  <2> QED
    BY <1>1, <2>1, <2>2, JoinsStill
<1> HIDE DEF item, s
<1>6. Ready(doc, doc', s, given + 1, given + 1)
  BY <1>3, <1>4, <1>5, ReadyJoin
<1> QED
  BY <1>3, <1>6, ReadyDone DEF s

LEMMA IslandRead ==
  ASSUME FoldInv, ReadInv, NEW e \in Events, OnIsland(e)
  PROVE  ReadStep
PROOF
<1> DEFINE ref == NextRef(doc, "groups")
           parent == CurrentParent(headings)
           new == NewItem(ref, parent, "island")
           group == [new EXCEPT !.id = e.id]
           marked == AddItem(doc, "groups", group)
           text == NewItem(NextRef(marked, "texts"), ref, "text")
           s == Path(headings, <<>>)
           t == Append(s, ref)
<1>1. e.id \in Names \cup {NoName}
  <2>1. e.event = "html_island"
    BY DEF OnIsland
  <2>2. e \in IslandEvents
    BY <2>1 DEF Events, TextEvents, CitationEvents, StartEvents, RowEvents, EndEvents,
                FactEvents, NoteEvents, PictureEvents, OtherEvents
  <2> QED
    BY <2>2 DEF IslandEvents
<1>2. parent \in Refs /\ CanHold(doc, parent) /\ ref \in Refs
  BY InvFacts DEF Arenas
<1>3. Joining(doc, "groups", group, parent)
  <2>1. Joining(doc, "groups", new, parent)
    BY <1>2, InvFacts, NewJoins DEF Kinds, Arenas
  <2>2. 0 \in Nat /\ FALSE \in BOOLEAN /\ {} \in SUBSET Names
    OBVIOUS
  <2> HIDE DEF new
  <2> QED
    BY <1>1, <2>1, <2>2, JoinsStill
<1>4. group.self = ref
  BY <1>3 DEF Joining
<1>5. doc' = AddItem(marked, "texts", text) /\ headings' = headings /\ lists' = <<>>
  BY <1>4 DEF OnIsland, EndListRun
<1>6. Ready(doc, doc, s, given + 1, given + 1) /\ s[Len(s)] = parent
  BY ReadFacts, PathEnds
<1>7. s \in Seq(Refs) /\ Len(s) \in Nat
  <2>1. <<>> \in Seq(OpenLists)
    OBVIOUS
  <2>2. PathKnown(headings, <<>>)
    BY <2>1, InvFacts, PathIs
  <2> QED
    BY <2>2 DEF PathKnown
<1> HIDE DEF group, s, ref
<1>8. /\ Ready(doc, marked, t, given + 1, given + 1)
      /\ SoundTree(marked) /\ CanHold(marked, ref)
  BY <1>3, <1>6, ReadyJoin DEF ref
<1> HIDE DEF marked
<1>9. Joining(marked, "texts", text, ref)
  BY <1>2, <1>8, NewJoins DEF Kinds, Arenas
<1>10. t[Len(t)] = ref /\ SubSeq(t, 1, Len(s)) = s
  BY <1>2, <1>7
<1> HIDE DEF text, t
<1>11. Ready(doc, doc', t, given + 1, given + 1)
  BY <1>5, <1>8, <1>9, <1>10, ReadyJoin
<1>12. Ready(doc, doc', s, given + 1, given + 1)
  <2>1. Len(s) \in 1..Len(t)
    BY <1>7, <1>2, <1>6 DEF t, Ready, SpineOf, Spine
  <2> QED
    BY <1>10, <1>11, <2>1, ReadyTop
<1> QED
  BY <1>5, <1>12, ReadyDone DEF s

(* Chrome goes to the furniture, and what is open in the body stays so.    *)
LEMMA ChromeRead ==
  ASSUME FoldInv, ReadInv, NEW e \in TextEvents, PushChrome(e)
  PROVE  ReadStep
PROOF
<1> DEFINE self == NextRef(doc, "texts")
           item == NewText(e, self, Furniture, "text")
           s == <<Furniture>>
           t == Path(headings, lists)
<1>1. Furniture \in Refs /\ CanHold(doc, Furniture) /\ SoundTree(doc)
  BY RefsAreRefs, InvFacts
<1>2. Joining(doc, "texts", item, Furniture)
  BY <1>1, TextJoins DEF Kinds
<1>3. doc' = AddItem(doc, "texts", item) /\ headings' = headings /\ lists' = lists
  BY DEF PushChrome
<1>4. Ready(doc, doc, s, given + 1, given + 1) /\ s[Len(s)] = Furniture /\ s[1] = Furniture
  BY ReadFacts
<1> HIDE DEF item, s
<1>5. Ready(doc, doc', s, given + 1, given + 1) /\ SoundTree(doc')
  BY <1>2, <1>3, <1>4, ReadyJoin
<1>6. SpineOf(doc', t)
  <2>1. Gains(doc, doc', item)
    BY <1>1, <1>2, <1>3, ItemAdds DEF Joining
  <2>2. s[Len(s)] = item.parent
    BY <1>2, <1>4 DEF Joining
  <2>3. Planted(AllRefs(doc), KidsOf(doc), s, item.self, KidsOf(doc'))
    BY <1>1, <1>5, <2>1, <2>2, GainsPlants
  <2>4. AllRefs(doc') = AllRefs(doc) \cup {item.self}
    BY <2>1 DEF Gains
  <2>5. SpineOf(doc, t) /\ GroveOf(doc)
    BY DEF ReadInv, Tidy
  <2>6. t[1] # Furniture
    <3>1. t[1] = Body
      BY InvFacts, PathIs DEF PathKnown
    <3> QED
      BY <3>1 DEF Body, Furniture
  <2>7. Furniture \in Tops
    BY DEF Tops
  <2> HIDE DEF t
  <2>8. Planted(AllRefs(doc), KidsOf(doc), <<Furniture>>, item.self, KidsOf(doc'))
    BY <2>3 DEF s
  <2>9. Spine(AllRefs(doc) \cup {item.self}, KidsOf(doc'), Tops, t)
    BY <2>5, <2>6, <2>7, <2>8, OtherSpine DEF SpineOf, GroveOf
  <2> QED
    BY <2>4, <2>9 DEF SpineOf
<1>7. Furniture \in Tops
  BY DEF Tops
<1> QED
  BY <1>3, <1>4, <1>5, <1>6, <1>7 DEF ReadStep, Ready

(* The end of the lists may be where it was, or a group further in.        *)
LEMMA ListItemRead ==
  ASSUME FoldInv, ReadInv, NEW e \in TextEvents, PushListItem(e)
  PROVE  ReadStep
PROOF
<1> DEFINE depth == DepthOf(e)
           self == NextRef(doc, "texts")
           newGroup(above) == NewItem(NextRef(doc, "groups"), above, "list")
           group(above) == [newGroup(above) EXCEPT !.level = depth, !.ordered = e.ordered]
           text(parent) == NewText(e, self, parent, "text")
           item(parent) == [text(parent) EXCEPT !.level = depth, !.ordered = e.ordered]
<1>1. PICK n \in 0..Len(lists) :
        LET kept == SubSeq(lists, 1, n)
            opens == n = 0 \/ lists[n].depth < depth
            above == IF n = 0 THEN CurrentParent(headings) ELSE lists[n].ref
            grouped == IF opens THEN AddItem(doc, "groups", group(above)) ELSE doc
            parent == IF opens THEN group(above).self ELSE lists[n].ref
        IN /\ doc' = AddItem(grouped, "texts", item(parent))
           /\ lists' = IF opens
                       THEN Append(kept, [depth |-> depth, ordered |-> e.ordered,
                                          ref |-> group(above).self])
                       ELSE kept
  BY DEF PushListItem
<1> DEFINE kept == SubSeq(lists, 1, n)
           opens == n = 0 \/ lists[n].depth < depth
           above == IF n = 0 THEN CurrentParent(headings) ELSE lists[n].ref
           ref == NextRef(doc, "groups")
           grouped == IF opens THEN AddItem(doc, "groups", group(above)) ELSE doc
           parent == IF opens THEN ref ELSE lists[n].ref
           open == [depth |-> depth, ordered |-> e.ordered, ref |-> ref]
           s == Path(headings, kept)
           t == IF opens THEN Append(s, ref) ELSE s
<1>2. /\ depth \in Nat /\ e.ordered \in BOOLEAN /\ e.id \in Names \cup {NoName}
      /\ self \in Refs /\ ref \in Refs /\ {} \in SUBSET Names
  BY InvFacts DEF TextEvents, Arenas, DepthOf
<1> HIDE DEF depth
<1>3. /\ kept \in Seq(OpenLists) /\ Len(kept) = n
      /\ n # 0 => kept # <<>> /\ kept[n] = lists[n]
      /\ n = 0 => kept = <<>>
  BY InvFacts, Kept
<1>4. n # 0 => lists[n].ref \in Refs /\ CanHold(doc, lists[n].ref)
  <2>1. n # 0 => n \in DOMAIN lists /\ lists[n] \in OpenLists
    BY InvFacts
  <2> QED
    BY <2>1, InvFacts DEF HoldsAll, OpenLists
<1>5. above \in Refs /\ CanHold(doc, above)
  BY <1>4, InvFacts
<1>6. Ready(doc, doc, s, given + 1, given + 1)
  <2>1. Ready(doc, doc, Path(headings, lists), given + 1, given + 1)
    BY ReadFacts
  <2> QED
    BY <2>1, InvFacts, ReadyPath
<1>7. s \in Seq(Refs) /\ s[Len(s)] = above
  <2>1. s \in Seq(Refs)
    BY <1>3, InvFacts, PathIs DEF PathKnown
  <2>2. CASE n = 0
    BY <1>3, <2>1, <2>2, InvFacts, PathEnds
  <2>3. CASE n # 0
    BY <1>3, <2>1, <2>3, InvFacts, PathEnds
  <2> QED
    BY <2>1, <2>2, <2>3
<1> HIDE DEF kept, s
<1>8. Joining(doc, "groups", group(above), above)
  <2>1. Joining(doc, "groups", newGroup(above), above)
    BY <1>5, InvFacts, NewJoins DEF Kinds, Arenas
  <2> HIDE DEF newGroup, above
  <2>2. Joining(doc, "groups",
                [newGroup(above) EXCEPT !.level = depth, !.ordered = e.ordered], above)
    BY ONLY <1>2, <2>1, JoinsStill
  <2> QED
    BY <2>2
<1>9. group(above).self = ref
  BY <1>8 DEF Joining
<1> HIDE DEF group, item, newGroup, text
<1>10. /\ doc' = AddItem(grouped, "texts", item(parent)) /\ headings' = headings
       /\ lists' = IF opens THEN Append(kept, open) ELSE kept
  BY <1>1, <1>9 DEF PushListItem, kept
<1>11. /\ Ready(doc, grouped, t, given + 1, given + 1) /\ t[Len(t)] = parent
       /\ SoundTree(grouped) /\ parent \in Refs /\ CanHold(grouped, parent)
       /\ NextRef(grouped, "texts") = self
  <2>1. CASE opens
    <3>1. LET f == AddItem(doc, "groups", group(above)) IN
          /\ Ready(doc, f, Append(s, ref), given + 1, given + 1)
          /\ SoundTree(f) /\ CanHold(f, ref)
      BY <1>6, <1>7, <1>8, ReadyJoin
    <3>2. Len(AddItem(doc, "groups", group(above))["texts"]) = Len(doc["texts"])
      <4>1. /\ "groups" \in Arenas /\ "texts" \in Arenas /\ "texts" # "groups"
            /\ doc \in [Arenas -> Seq(Item)] /\ group(above) \in Item
        BY <1>8, InvFacts DEF Arenas, Joining, Addable
      <4> QED
        BY ONLY <4>1, OtherArena
    <3>3. Append(s, ref)[Len(Append(s, ref))] = ref
      BY <1>2, <1>7
    <3> QED
      BY <2>1, <3>1, <3>2, <3>3, <1>2 DEF NextRef
  <2>2. CASE ~opens
    <3>1. n # 0
      BY <2>2
    <3>2. SoundTree(doc)
      BY InvFacts
    <3> QED
      BY <2>2, <3>1, <3>2, <1>4, <1>6, <1>7
  <2> QED
    BY <2>1, <2>2
<1> HIDE DEF grouped, parent
<1>12. Joining(grouped, "texts", item(parent), parent)
  <2>1. Joining(grouped, "texts", text(parent), parent)
    BY <1>11, TextJoins DEF Kinds, text
  <2>2. Joining(grouped, "texts",
                [text(parent) EXCEPT !.level = depth, !.ordered = e.ordered], parent)
    BY ONLY <1>2, <2>1, JoinsStill
  <2> QED
    BY <2>2 DEF item
<1>13. Ready(doc, doc', t, given + 1, given + 1)
  <2> HIDE DEF t
  <2> QED
    BY <1>10, <1>11, <1>12, ReadyJoin
<1>14. Path(headings', lists') = t
  <2>1. CASE opens
    <3>1. open \in OpenLists /\ open.ref = ref
      BY <1>2 DEF OpenLists
    <3>2. Path(headings, Append(kept, open)) = Append(Path(headings, kept), open.ref)
      <4> HIDE DEF open
      <4> QED
        BY <1>3, <3>1, InvFacts, PathPushed
    <3> QED
      BY <1>10, <2>1, <3>1, <3>2 DEF s
  <2>2. CASE ~opens
    BY <1>10, <2>2 DEF s
  <2> QED
    BY <2>1, <2>2
<1> QED
  BY <1>13, <1>14, ReadyDone

-----------------------------------------------------------------------------
(* The open table comes after all that came before it, and no list is open *)
(* around it.                                                              *)
LEMMA WithTableReady ==
  ASSUME FoldInv, OrderInv, ReadInv
  PROVE  /\ Ready(doc, WithTable(doc), Path(headings, <<>>), given + 1, given + 1)
         /\ table.open => lists = <<>>
PROOF
<1> DEFINE self == NextRef(doc, "tables")
           new == NewItem(self, table.parent, "table")
           item == [new EXCEPT !.from = table.from, !.id = table.id,
                               !.points = table.points, !.cites = table.cites]
           s == Path(headings, <<>>)
<1>1. /\ Ready(doc, doc, s, given + 1, given + 1) /\ s[Len(s)] = CurrentParent(headings)
      /\ SoundTree(doc) /\ Tidy(doc) /\ FromsTo(doc, given) /\ given \in Nat
  BY ReadFacts, PathEnds
<1>2. CASE ~table.open
  BY <1>1, <1>2 DEF WithTable
<1>3. CASE table.open
  <2>1. /\ table.parent \in Refs /\ table.from \in Nat /\ table.id \in Names \cup {NoName}
        /\ table.points \in SUBSET Refs /\ table.cites \in SUBSET Names
        /\ CanHold(doc, table.parent) /\ \A target \in table.points : Resolves(doc, target)
    BY DEF FoldInv, TableInv, OpenTable
  <2>2. /\ table.from \in 1..given /\ table.parent = CurrentParent(headings)
        /\ lists = <<>> /\ FromsTo(doc, table.from)
    BY <1>3 DEF OrderInv, OrderOf, TableWaits, ReadInv
  <2>3. self \in Refs /\ "tables" \in Arenas
    BY InvFacts DEF Arenas
  <2>4. /\ new \in Item /\ new.self = self /\ new.parent = table.parent
        /\ new.children = <<>>
    BY <2>1, <2>3, InvFacts, NewItemIs DEF Kinds
  <2> HIDE DEF new
  <2>5. /\ item \in Item /\ item.self = self /\ item.parent = table.parent
        /\ item.children = <<>> /\ item.points = table.points /\ item.from = table.from
    BY <2>1, <2>4 DEF Item
  <2>6. WithTable(doc) = AddItem(doc, "tables", item)
    BY <1>3 DEF WithTable, TableItem, new
  <2> HIDE DEF item, s
  <2>7. Addable(doc, "tables", item)
    BY <2>1, <2>3, <2>5 DEF Addable
  <2>8. Ready(doc, doc, s, table.from, given + 1)
    BY <1>1, <2>2 DEF Ready
  <2>9. /\ s[Len(s)] = item.parent /\ table.from <= item.from /\ item.from <= given + 1
        /\ given + 1 \in Nat
    BY <1>1, <2>1, <2>2, <2>5
  <2>10. Ready(doc, WithTable(doc), s, item.from, given + 1)
    BY <1>1, <2>1, <2>6, <2>7, <2>8, <2>9, ReadyAdd
  <2>11. Ready(doc, WithTable(doc), s, given + 1, given + 1)
    BY <2>1, <2>5, <2>9, <2>10, ReadyLater
  <2> QED
    BY <2>2, <2>11 DEF s
<1> QED
  BY <1>2, <1>3

LEMMA TableStartRead ==
  ASSUME FoldInv, OrderInv, ReadInv, NEW e \in Events, OnTableStart(e)
  PROVE  ReadStep /\ table'.from = given + 1
PROOF
<1> DEFINE before == WithTable(doc)
           parent == CurrentParent(headings)
           caption == NewItem(NextRef(before, "texts"), parent, "text")
           s == Path(headings, <<>>)
<1>1. /\ Ready(doc, before, s, given + 1, given + 1)
      /\ SoundTree(before) /\ Grown(doc, before)
  BY WithTableReady, WithTableKeeps
<1>2. parent \in Refs /\ CanHold(before, parent)
  BY <1>1, InvFacts DEF Grown
<1>3. s[Len(s)] = parent
  BY ReadFacts, PathEnds
<1> HIDE DEF before, s
<1>4. Joining(before, "texts", caption, parent)
  BY <1>1, <1>2, NewJoins DEF Kinds, Arenas
<1>5. /\ doc' = IF e.captioned THEN AddItem(before, "texts", caption) ELSE before
      /\ table'.from = given + 1 /\ headings' = headings /\ lists' = <<>>
  BY DEF OnTableStart, EndListRun, before
<1> HIDE DEF caption, parent
<1>6. Ready(doc, doc', s, given + 1, given + 1)
  BY <1>1, <1>3, <1>4, <1>5, ReadyJoin
<1> QED
  BY <1>5, <1>6, ReadyDone DEF s

LEMMA SameDocRead ==
  ASSUME FoldInv, ReadInv, UNCHANGED <<doc, headings, lists>>
  PROVE  ReadStep
  BY ReadFacts, ReadyDone

LEMMA TableEndRead ==
  ASSUME FoldInv, OrderInv, ReadInv, NEW e \in Events, OnTableEnd(e)
  PROVE  ReadStep /\ (table'.open => table' = table)
PROOF
<1>1. CASE ~Theirs(e)
  BY <1>1, SameDocRead DEF OnTableEnd, Ignored
<1>2. CASE Theirs(e)
  <2>1. /\ doc' = WithTable(doc) /\ table' = NoTable /\ headings' = headings /\ lists' = lists
        /\ table.open
    BY <1>2 DEF OnTableEnd, Theirs
  <2>2. Ready(doc, doc', Path(headings', lists'), given + 1, given + 1)
    BY <2>1, WithTableReady
  <2> QED
    BY <2>1, <2>2, ReadyDone DEF NoTable
<1> QED
  BY <1>1, <1>2

LEMMA TableRowRead ==
  ASSUME FoldInv, ReadInv, NEW e \in Events, OnTableRow(e)
  PROVE  ReadStep /\ table'.open = table.open /\ table'.from = table.from
PROOF
<1>1. UNCHANGED <<doc, headings, lists>>
  BY DEF OnTableRow, Ignored
<1>2. table'.open = table.open /\ table'.from = table.from
  <2>1. table \in OpenTable
    BY DEF FoldInv, TableInv
  <2>2. table' = table \/ \E cites : table' = [table EXCEPT !.cites = cites]
    BY DEF OnTableRow, Ignored
  <2> QED
    BY <2>1, <2>2 DEF OpenTable
<1> QED
  BY <1>1, <1>2, SameDocRead

LEMMA FactRead ==
  ASSUME FoldInv, ReadInv, NEW e \in Events, OnFact(e)
  PROVE  ReadStep
PROOF
<1> DEFINE parent == CurrentParent(headings)
           ref == NextRef(doc, "tables")
           new == NewItem(ref, parent, "table")
           opened == IF factsTable = 0 THEN AddItem(doc, "tables", new) ELSE doc
           index == IF factsTable = 0 THEN ref[2] ELSE factsTable
           self == NextRef(doc, "key_values")
           pairs == NewItem(self, parent, "key_values")
           graphed == AddItem(opened, "key_values", pairs)
           pointed == [graphed EXCEPT !["tables"][index].points = @ \cup {self}]
           s == Path(headings, <<>>)
<1>1. /\ parent \in Refs /\ CanHold(doc, parent) /\ ref \in Refs /\ self \in Refs
      /\ "tables" \in Arenas /\ "key_values" \in Arenas /\ Len(doc["tables"]) \in Nat
      /\ SoundTree(doc) /\ doc \in [Arenas -> Seq(Item)]
  BY InvFacts DEF Arenas
<1>2. Ready(doc, doc, s, given + 1, given + 1) /\ s[Len(s)] = parent
  BY ReadFacts, PathEnds
<1> HIDE DEF parent, s
<1>3. Joining(doc, "tables", new, parent)
  BY <1>1, NewJoins DEF Kinds
<1>4. new.self = ref /\ new \in Item
  BY <1>3 DEF Joining, Addable
<1> HIDE DEF new
<1>5. LET f == AddItem(doc, "tables", new) IN
      /\ Ready(doc, f, s, given + 1, given + 1) /\ SoundTree(f) /\ Grown(doc, f)
      /\ Len(f["tables"]) = Len(doc["tables"]) + 1
      /\ Len(f["key_values"]) = Len(doc["key_values"])
  <2>1. LET f == AddItem(doc, "tables", new) IN
        /\ Ready(doc, f, s, given + 1, given + 1) /\ SoundTree(f) /\ Grown(doc, f)
    BY <1>2, <1>3, ReadyJoin
  <2>2. LET f == AddItem(doc, "tables", new) IN Len(f["tables"]) = Len(doc["tables"]) + 1
    BY <1>1, <1>3, AddKeeps DEF Joining
  <2>3. "key_values" # "tables"
    OBVIOUS
  <2>4. LET f == AddItem(doc, "tables", new) IN Len(f["key_values"]) = Len(doc["key_values"])
    BY <1>1, <1>4, <2>3, OtherArena
  <2> QED
    BY <2>1, <2>2, <2>4
<1>6. /\ Ready(doc, opened, s, given + 1, given + 1) /\ SoundTree(opened)
      /\ CanHold(opened, parent) /\ index \in 1..Len(opened["tables"])
      /\ NextRef(opened, "key_values") = self
  <2>1. CASE factsTable = 0
    <3>1. ref[2] = Len(doc["tables"]) + 1
      BY DEF NextRef
    <3> QED
      BY <2>1, <3>1, <1>1, <1>5 DEF Grown, NextRef
  <2>2. CASE factsTable # 0
    <3>1. factsTable \in 1..Len(doc["tables"])
      BY <2>2, <1>1 DEF FoldInv, TableInv
    <3> QED
      BY <2>2, <3>1, <1>1, <1>2
  <2> QED
    BY <2>1, <2>2
<1>7. /\ doc' = IF e.dimensions THEN pointed ELSE opened
      /\ headings' = headings /\ lists' = <<>>
  <2>1. pairs.self = self
    BY DEF NewItem, ItemFrom
  <2> QED
    BY <1>4, <2>1 DEF parent, new, pairs, OnFact, EndListRun
<1> HIDE DEF opened, index
<1>8. Joining(opened, "key_values", pairs, parent)
  BY <1>1, <1>6, NewJoins DEF Kinds
<1> HIDE DEF pairs
<1>9. /\ Ready(doc, graphed, s, given + 1, given + 1) /\ SoundTree(graphed)
      /\ Grown(opened, graphed) /\ Resolves(graphed, self)
  <2>1. /\ Ready(doc, graphed, s, given + 1, given + 1) /\ SoundTree(graphed)
        /\ Grown(opened, graphed)
    BY <1>2, <1>6, <1>8, ReadyJoin
  <2>2. Resolves(graphed, self)
    BY <1>6, <1>8, AddKeeps DEF Joining
  <2> QED
    BY <2>1, <2>2
<1> HIDE DEF graphed
<1>10. index \in DOMAIN graphed["tables"]
  <2>1. Len(opened["tables"]) <= Len(graphed["tables"])
    BY <1>9 DEF Grown
  <2>2. /\ DOMAIN graphed["tables"] = 1..Len(graphed["tables"])
        /\ Len(graphed["tables"]) \in Nat /\ Len(opened["tables"]) \in Nat
    BY <1>1, <1>6, <1>9 DEF SoundTree
  <2> QED
    BY <2>1, <2>2, <1>6
<1>11. SoundTree(pointed) /\ SameTree(graphed, pointed)
  BY <1>1, <1>9, <1>10, PointKeeps
<1> HIDE DEF pointed
<1>12. Ready(doc, pointed, s, given + 1, given + 1)
  BY <1>9, <1>11, ReadySame
<1>13. Ready(doc, doc', s, given + 1, given + 1)
  BY <1>6, <1>7, <1>12
<1> QED
  BY <1>7, <1>13, ReadyDone DEF s

LEMMA TextRead ==
  ASSUME FoldInv, ReadInv, NEW e \in TextEvents, PushText(e)
  PROVE  ReadStep
  BY HeadingRead, ChromeRead, ListItemRead, ParagraphRead DEF PushText

LEMMA NoteRead ==
  ASSUME FoldInv, ReadInv, NEW e \in Events, OnNote(e)
  PROVE  ReadStep
PROOF
<1>1. e.event = "xbrl_note"
  BY DEF OnNote
<1>2. e \in NoteEvents
  BY <1>1 DEF Events, TextEvents, PictureEvents, StartEvents, RowEvents, EndEvents,
              FactEvents, CitationEvents, IslandEvents, OtherEvents
<1>3. e.id \in Names \cup {NoName} /\ "footnote" \in TextLabels
  BY <1>2 DEF NoteEvents, TextLabels
<1>4. Plain("footnote", e.id) \in TextEvents
  BY <1>3, PlainIsText
<1>5. CASE e.footnote /\ ~e.empty
  BY <1>4, <1>5, TextRead DEF OnNote
<1>6. CASE ~(e.footnote /\ ~e.empty)
  BY <1>6, SameDocRead DEF OnNote, Ignored
<1> QED
  BY <1>5, <1>6

LEMMA CitationRead ==
  ASSUME FoldInv, ReadInv, NEW e \in Events, OnCitation(e)
  PROVE  ReadStep
PROOF
<1>1. e.event = "citation"
  BY DEF OnCitation
<1>2. e \in CitationEvents
  BY <1>1 DEF Events, TextEvents, PictureEvents, StartEvents, RowEvents, EndEvents,
              FactEvents, NoteEvents, IslandEvents, OtherEvents
<1>3. e.id \in Names \cup {NoName} /\ "reference" \in TextLabels
  BY <1>2 DEF CitationEvents, TextLabels
<1>4. Plain("reference", e.id) \in TextEvents
  BY <1>3, PlainIsText
<1>5. CASE e.empty
  BY <1>5, SameDocRead DEF OnCitation, Ignored
<1>6. CASE ~e.empty
  BY <1>4, <1>6, TextRead DEF OnCitation
<1> QED
  BY <1>5, <1>6

LEMMA ConsumeRead ==
  ASSUME FoldInv, OrderInv, ReadInv, NEW e \in vocabulary, Consume(e)
  PROVE  ReadStep /\ (table'.open => FromsTo(doc', table'.from))
PROOF
<1> DEFINE Waits == table'.open => FromsTo(doc', table'.from)
<1>1. e \in Events /\ Expected(e)
  BY DEF FoldInv, Consume
<1>2. ASSUME e.event \notin {"table_start", "table_row", "table_end"}, table' = table
      PROVE  Waits
  BY <1>1, <1>2 DEF Expected
<1>3. ASSUME OnText(e) PROVE ReadStep /\ Waits
  <2>1. e.event = "text" /\ PushText(e) /\ table' = table
    BY <1>3 DEF OnText, PushText
  <2>2. e \in TextEvents
    BY <1>1, <2>1 DEF Events, PictureEvents, StartEvents, RowEvents, EndEvents,
                      FactEvents, NoteEvents, CitationEvents, IslandEvents, OtherEvents
  <2> QED
    BY <2>1, <2>2, <1>2, TextRead
<1>4. ASSUME OnNote(e) PROVE ReadStep /\ Waits
  BY <1>1, <1>2, <1>4, NoteRead DEF OnNote, PushText, Ignored
<1>5. ASSUME OnCitation(e) PROVE ReadStep /\ Waits
  BY <1>1, <1>2, <1>5, CitationRead DEF OnCitation, PushText, Ignored
<1>6. ASSUME OnPicture(e) PROVE ReadStep /\ Waits
  BY <1>1, <1>2, <1>6, PictureRead DEF OnPicture
<1>7. ASSUME OnIsland(e) PROVE ReadStep /\ Waits
  BY <1>1, <1>2, <1>7, IslandRead DEF OnIsland
<1>8. ASSUME OnTableStart(e) PROVE ReadStep /\ Waits
  BY <1>1, <1>8, TableStartRead DEF ReadStep
<1>9. ASSUME OnTableRow(e) PROVE ReadStep /\ Waits
  <2>1. doc' = doc
    BY <1>9 DEF OnTableRow, Ignored
  <2> QED
    BY <1>1, <1>9, <2>1, TableRowRead DEF ReadInv
<1>10. ASSUME OnTableEnd(e) PROVE ReadStep /\ Waits
  <2>1. table'.open => doc' = doc
    BY <1>10 DEF OnTableEnd, Ignored, NoTable
  <2> QED
    BY <1>1, <1>10, <2>1, TableEndRead DEF ReadInv
<1>11. ASSUME OnFact(e) PROVE ReadStep /\ Waits
  BY <1>1, <1>2, <1>11, FactRead DEF OnFact
<1>12. ASSUME OnOther(e) PROVE ReadStep /\ Waits
  <2>1. UNCHANGED <<doc, headings, lists, table>> /\ e.event \notin {"table_start", "table_row", "table_end"}
    BY <1>12 DEF OnOther, Ignored, OtherEvents
  <2> QED
    BY <2>1, <1>2, SameDocRead
<1>13. \/ OnText(e) \/ OnNote(e) \/ OnCitation(e) \/ OnPicture(e) \/ OnIsland(e)
       \/ OnTableStart(e) \/ OnTableRow(e) \/ OnTableEnd(e) \/ OnFact(e) \/ OnOther(e)
  BY DEF Consume
<1> QED
  BY <1>3, <1>4, <1>5, <1>6, <1>7, <1>8, <1>9, <1>10, <1>11, <1>12, <1>13

LEMMA EmptyRead ==
  /\ Tidy(EmptyDoc) /\ SpineOf(EmptyDoc, Path(<<>>, <<>>))
  /\ \A n \in Nat : FromsTo(EmptyDoc, n)
PROOF
<1>1. Path(<<>>, <<>>) = <<Body>>
  <2>1. <<>> \in Seq(OpenSections) /\ <<>> \in Seq(OpenLists) /\ Len(<<>>) = 0
    OBVIOUS
  <2>2. PathKnown(<<>>, <<>>)
    BY <2>1, PathIs
  <2>3. /\ Path(<<>>, <<>>) \in Seq(Refs) /\ Len(Path(<<>>, <<>>)) = 1
        /\ Path(<<>>, <<>>)[1] = Body
    BY <2>1, <2>2 DEF PathKnown
  <2>4. <<Body>> \in Seq(Refs) /\ Len(<<Body>>) = 1 /\ <<Body>>[1] = Body
    BY RefsAreRefs
  <2> QED
    BY <2>3, <2>4, SeqEqual
<1> QED
  BY <1>1, EmptyIsTidy

LEMMA ConsumeReads ==
  ASSUME FoldInv, OrderInv, ReadInv, NEW e \in vocabulary, Consume(e)
  PROVE  ReadInv'
PROOF
<1>1. given' = given + 1 /\ taken' = NothingTaken
  BY DEF Consume
<1>2. ReadStep /\ (table'.open => FromsTo(doc', table'.from))
  BY ConsumeRead
<1>3. Tidy(taken'.doc)
  BY <1>1, EmptyIsTidy DEF NothingTaken
<1> QED
  BY <1>1, <1>2, <1>3 DEF ReadInv, ReadStep

LEMMA TakeReads ==
  ASSUME FoldInv, OrderInv, ReadInv, Take
  PROVE  ReadInv'
PROOF
<1>1. /\ doc' = EmptyDoc /\ headings' = <<>> /\ lists' = <<>> /\ given' = given
      /\ table' = NoTable /\ taken'.doc = Published(WithTable(doc), TableClaimed(doc))
  BY DEF Take, CloseSections, EndListRun
<1>2. given \in Nat
  BY InvFacts
<1>3. SoundTree(WithTable(doc)) /\ Tidy(WithTable(doc))
  BY WithTableReady DEF Ready
<1>4. LET e == Published(WithTable(doc), TableClaimed(doc)) IN
      SoundTree(e) /\ SameTree(WithTable(doc), e)
  BY <1>3, WithTableKeeps, PublishedKeeps
<1>5. Tidy(taken'.doc)
  BY <1>1, <1>3, <1>4, SameReads
<1> QED
  BY <1>1, <1>2, <1>5, EmptyRead DEF ReadInv, NoTable

(* Whatever the events, each item is under one parent and met once from    *)
(* the roots, and what is open is the last of what is in the tree: the     *)
(* sections, lists and groups the code leaves are left for good            *)
(* (mod.rs:801-893, 1083-1084).                                            *)
THEOREM ReadCorrect == Spec => []ReadInv
PROOF
<1>1. Init => ReadInv
  BY EmptyRead, InitInv, InvFacts DEF Init, ReadInv, NoTable, NothingTaken
<1>2. FoldInv /\ OrderInv /\ ReadInv /\ [Next]_foldVars => ReadInv'
  <2> SUFFICES ASSUME FoldInv, OrderInv, ReadInv, [Next]_foldVars PROVE ReadInv'
    OBVIOUS
  <2>1. CASE \E e \in vocabulary : Consume(e)
    BY <2>1, ConsumeReads
  <2>2. CASE Take
    BY <2>2, TakeReads
  <2>3. CASE UNCHANGED foldVars
    BY <2>3 DEF foldVars, ReadInv
  <2> QED
    BY <2>1, <2>2, <2>3 DEF Next
<1> QED
  BY <1>1, <1>2, InvCorrect, OrderCorrect, PTL DEF Spec

LEMMA MetHere ==
  ASSUME NEW d, SoundTree(d), Tidy(d)
  PROVE  LET itself == [ref \in Refs |-> ref]
             met == Walk(d, Body, itself) \o Walk(d, Furniture, itself)
         IN ToSet(met) = AllRefs(d) /\ Len(met) = Cardinality(AllRefs(d))
PROOF
<1> DEFINE over == Walk(d, Body, Itself)
           under == Walk(d, Furniture, Itself)
<1>1. over \in Seq(Refs) /\ under \in Seq(Refs)
  BY ItselfWalk DEF Tops, Tidy
<1>2. ToSet(over) \cup ToSet(under) = AllRefs(d)
      /\ Len(over) + Len(under) = Cardinality(AllRefs(d))
  BY DEF Tidy, MetOnce, Once
<1> HIDE DEF over, under
<1>3. Len(over \o under) = Len(over) + Len(under)
  BY <1>1
<1>4. ToSet(over \o under) = ToSet(over) \cup ToSet(under)
  <2> DEFINE both == over \o under
             m == Len(over)
             n == Len(under)
  <2>1. /\ m \in Nat /\ n \in Nat /\ DOMAIN over = 1..m /\ DOMAIN under = 1..n
        /\ DOMAIN both = 1..(m + n)
        /\ \A i \in 1..m : both[i] = over[i]
        /\ \A i \in 1..n : both[m + i] = under[i]
    BY <1>1
  <2> HIDE DEF both, m, n
  <2>2. \A i \in DOMAIN both : \/ i \in DOMAIN over /\ both[i] = over[i]
                               \/ i - m \in DOMAIN under /\ both[i] = under[i - m]
    <3>1. TAKE i \in DOMAIN both
    <3>2. CASE i <= m
      BY <2>1, <3>2
    <3>3. CASE ~(i <= m)
      <4>1. i - m \in 1..n /\ i = m + (i - m)
        BY <2>1, <3>3
      <4> QED
        BY <2>1, <4>1
    <3> QED
      BY <3>2, <3>3
  <2>3. ToSet(both) \subseteq ToSet(over) \cup ToSet(under)
    BY <2>2 DEF ToSet
  <2>4. ToSet(over) \subseteq ToSet(both)
    <3>1. \A i \in DOMAIN over : i \in DOMAIN both /\ both[i] = over[i]
      BY <2>1
    <3> QED
      BY <3>1 DEF ToSet
  <2>5. ToSet(under) \subseteq ToSet(both)
    <3>1. \A i \in DOMAIN under : m + i \in DOMAIN both /\ both[m + i] = under[i]
      BY <2>1
    <3> QED
      BY <3>1 DEF ToSet
  <2> QED
    BY <2>3, <2>4, <2>5 DEF both
<1> QED
  BY <1>2, <1>3, <1>4 DEF over, under, Itself

(* The fragment, and the Document taken, is a tree: walking the body and   *)
(* the furniture meets every item, and each once.  integrity_errors        *)
(* gathers the children in sets and would not notice (integrity.rs).       *)
THEOREM EveryItemOnceCorrect == Spec => []EveryItemOnce
PROOF
<1>1. FoldInv /\ ReadInv => EveryItemOnce
  <2> SUFFICES ASSUME FoldInv, ReadInv PROVE EveryItemOnce
    OBVIOUS
  <2>1. SoundTree(doc) /\ Tidy(doc) /\ SoundTree(taken.doc) /\ Tidy(taken.doc)
    BY DEF FoldInv, TreeInv, TakenInv, ReadInv
  <2> QED
    BY <2>1, MetHere DEF EveryItemOnce
<1> QED
  BY <1>1, InvCorrect, ReadCorrect, PTL

-----------------------------------------------------------------------------
LEMMA ReadingStep ==
  ASSUME FoldInv, ReadInv, ReadStep, given' = given + 1
  PROVE  Reading!Content \/ Reading!Chrome
PROOF
<1>1. PICK root \in Tops : Reads(doc, doc', root, given + 1)
  BY DEF ReadStep
<1>2. /\ Follow(EventsOf(doc, root), EventsOf(doc', root), given + 1)
      /\ \A other \in Tops : other # root => EventsOf(doc', other) = EventsOf(doc, other)
  BY <1>1 DEF Reads
<1>3. Body \in Tops /\ Furniture \in Tops /\ Body # Furniture
  BY DEF Tops, Body, Furniture
<1>4. CASE root = Body
  <2>1. Reading!Follows(EventsOf(doc, Body), EventsOf(doc', Body))
    BY <1>2, <1>4 DEF Follow, Reading!Follows
  <2>2. EventsOf(doc', Furniture) = EventsOf(doc, Furniture)
    BY <1>2, <1>3, <1>4
  <2> QED
    BY <2>1, <2>2 DEF Reading!Content
<1>5. CASE root = Furniture
  <2>1. Reading!Follows(EventsOf(doc, Furniture), EventsOf(doc', Furniture))
    BY <1>2, <1>5 DEF Follow, Reading!Follows
  <2>2. EventsOf(doc', Body) = EventsOf(doc, Body)
    BY <1>2, <1>3, <1>5
  <2> QED
    BY <2>1, <2>2 DEF Reading!Chrome
<1> QED
  BY <1>1, <1>4, <1>5 DEF Tops

(* The Document reads in the order the events came in: the fold implements *)
(* the reading order, for every vocabulary and every number of events.     *)
(* Content is only ever added at the end of the body or of the furniture,  *)
(* never in a section or list already left (mod.rs:892-893, 1083-1084).    *)
THEOREM ReadsInOrderCorrect == Spec => ReadsInOrder
PROOF
<1> DEFINE readVars == <<EventsOf(doc, Body), EventsOf(doc, Furniture), given>>
<1>1. Init => Reading!Init
  BY EmptyIsTidy DEF Init, Reading!Init, Tops
<1>2. FoldInv /\ OrderInv /\ ReadInv /\ [Next]_foldVars => [Reading!Next]_readVars
  <2> SUFFICES ASSUME FoldInv, OrderInv, ReadInv, [Next]_foldVars
               PROVE  [Reading!Next]_readVars
    OBVIOUS
  <2>1. ASSUME NEW e \in vocabulary, Consume(e) PROVE Reading!Next
    <3>1. given' = given + 1 /\ ReadStep
      BY <2>1, ConsumeRead DEF Consume
    <3> QED
      BY <3>1, ReadingStep DEF Reading!Next
  <2>2. CASE Take
    <3>1. doc' = EmptyDoc /\ given' = given
      BY <2>2 DEF Take
    <3>2. EventsOf(doc', Body) = <<>> /\ EventsOf(doc', Furniture) = <<>>
      BY <3>1, EmptyIsTidy DEF Tops
    <3> QED
      BY <3>1, <3>2 DEF Reading!Next, Reading!Take
  <2>3. CASE UNCHANGED foldVars
    BY <2>3 DEF foldVars
  <2> QED
    BY <2>1, <2>2, <2>3 DEF Next
<1> HIDE DEF readVars
<1>3. Spec => Reading!Init /\ [][Reading!Next]_readVars
  BY <1>1, <1>2, InvCorrect, OrderCorrect, ReadCorrect, PTL DEF Spec
<1> QED
  BY <1>3 DEF ReadsInOrder, Reading!Spec, readVars

=============================================================================
