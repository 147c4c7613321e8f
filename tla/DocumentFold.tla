---------------------------- MODULE DocumentFold ----------------------------
(***************************************************************************)
(* The fold of a parse's events into one Document (document_fold): a tree  *)
(* kept in arenas, whose items name their parent and whose parents list    *)
(* their children, both by reference.                                      *)
(*                                                                         *)
(* A reference is <<arena, position>>; the code's count from zero, these   *)
(* from one, and the body and the furniture are arenas of one group each.  *)
(* Of an event the model keeps what decides the shape of the Document:     *)
(* label, heading level, list depth and kind, spans, identifiers and the   *)
(* identifiers it cites.  Words, metadata, pages and provenance carry no   *)
(* reference into the tree and are left out.                               *)
(***************************************************************************)
EXTENDS TableGrid

CONSTANTS
  Names,          \* identifiers a source may give its elements
  TableRefs,      \* what the stream calls its tables
  Vocabularies,   \* the sets of events a document may be made of
  MaxSpanSlots,   \* MAX_SPAN_SLOTS
  MaxEvents       \* bound on the events of a behaviour

NoName == "no name"
NoRef == <<"none", 0>>

RootArenas == {"body", "furniture"}
Arenas == RootArenas \cup {"groups", "texts", "pictures", "tables", "key_values"}
Refs == Arenas \X (Nat \ {0})
Body == <<"body", 1>>
Furniture == <<"furniture", 1>>

TextLabels == {"paragraph", "section_header", "list_item", "page_header",
               "reference", "footnote", "caption"}

TextEvents ==
  [event : {"text"}, label : TextLabels, level : Nat, depth : Nat,
   ordered : BOOLEAN, id : Names \cup {NoName}, cites : SUBSET Names]
PictureEvents == [event : {"picture"}, id : Names \cup {NoName}]
StartEvents == [event : {"table_start"}, ref : TableRefs, captioned : BOOLEAN,
                id : Names \cup {NoName}]
RowEvents == [event : {"table_row"}, ref : TableRefs, cells : Seq(WireCell),
              cites : SUBSET Names]
EndEvents == [event : {"table_end"}, ref : TableRefs]
FactEvents == [event : {"fact"}, dimensions : BOOLEAN]
NoteEvents == [event : {"xbrl_note"}, footnote : BOOLEAN, empty : BOOLEAN,
               id : Names \cup {NoName}]
CitationEvents == [event : {"citation"}, empty : BOOLEAN,
                   id : Names \cup {NoName}]
IslandEvents == [event : {"html_island"}, id : Names \cup {NoName}]
OtherEvents == [event : {"info", "page", "outline", "meta", "status"}]

Events == TextEvents \cup PictureEvents \cup StartEvents \cup RowEvents
  \cup EndEvents \cup FactEvents \cup NoteEvents \cup CitationEvents
  \cup IslandEvents \cup OtherEvents

ASSUME DocumentFoldAssumption ==
  /\ NoName \notin Names
  /\ \A vocabulary \in Vocabularies : vocabulary \subseteq Events
  /\ MaxSpanSlots \in Nat /\ MaxEvents \in Nat

VARIABLES
  doc,          \* the arenas: [Arenas -> Seq(Item)]
  data,         \* the grid and the width of each item of the tables' arena
  attachments,  \* what the Document's attachments point at
  table,        \* the table being assembled, or NoTable
  laying,       \* its grid so far, the slots its spans occupy, its width
  factsTable,   \* position of the fact table among the tables, or 0
  headings,     \* the open section headers, outermost first
  lists,        \* the open list groups, outermost first
  anchors,      \* identifier -> reference, for those with a home
  spanSlots,    \* span_slots_left
  taken,        \* the Document just taken, until the next event
  given,        \* events consumed so far
  vocabulary    \* the events this behaviour's documents are made of

foldVars == <<doc, data, attachments, table, laying, factsTable, headings, lists,
              anchors, spanSlots, taken, given, vocabulary>>

Kinds == {"root", "heading", "text", "list", "island", "picture", "table",
          "key_values"}

(* from: the event that gave it.  level: a heading's level, a list item's  *)
(* or list group's depth.  points: what captions and cells point at.       *)
(* cites: the names its spans refer to; targets: where they point.         *)
Item ==
  [self : Refs, parent : Refs \cup {NoRef}, children : Seq(Refs), kind : Kinds,
   from : Nat, level : Nat, ordered : BOOLEAN, id : Names \cup {NoName},
   points : SUBSET Refs, cites : SUBSET Names,
   targets : [Names -> Refs \cup {NoRef}]]

ItemFrom(event, self, parent, kind) ==
  [self |-> self, parent |-> parent, children |-> <<>>, kind |-> kind,
   from |-> event, level |-> 0, ordered |-> FALSE, id |-> NoName,
   points |-> {}, cites |-> {}, targets |-> [name \in Names |-> NoRef]]

NewItem(self, parent, kind) == ItemFrom(given + 1, self, parent, kind)

Root(self) == ItemFrom(0, self, NoRef, "root")

EmptyDoc ==
  [a \in Arenas |->
     CASE a = "body" -> <<Root(Body)>>
       [] a = "furniture" -> <<Root(Furniture)>>
       [] OTHER -> <<>>]

Resolves(d, ref) == ref[1] \in Arenas /\ ref[2] \in DOMAIN d[ref[1]]
At(d, ref) == d[ref[1]][ref[2]]

-----------------------------------------------------------------------------
(* Primitives.                                                             *)

NextRef(d, arena) == <<arena, Len(d[arena]) + 1>>

(* Fault: a group in the arena is not found as a parent. *)
CanHoldNoGroup(d, ref) ==
  /\ Resolves(d, ref)
  /\ \/ ref[1] \in RootArenas
     \/ ref[1] = "texts" /\ At(d, ref).kind = "heading"

(* The body, the furniture, groups and section headers have children. *)
CanHold(d, ref) ==
  /\ Resolves(d, ref)
  /\ \/ ref[1] \in RootArenas \cup {"groups"}
     \/ ref[1] = "texts" /\ At(d, ref).kind = "heading"

LinkChild(d, parent, child) ==
  IF CanHold(d, parent)
  THEN [d EXCEPT ![parent[1]][parent[2]].children = Append(@, child)]
  ELSE d

(* Both halves of the link: the item goes to the end of its arena, and its *)
(* parent lists it.                                                        *)
AddItem(d, arena, item) ==
  LinkChild([d EXCEPT ![arena] = Append(@, item)], item.parent, item.self)

CurrentParent(open) == IF open = <<>> THEN Body ELSE open[Len(open)].ref

(* Fault: the last item to claim a name keeps it. *)
ClaimedLast(known, id, ref) ==
  IF id = NoName THEN known
  ELSE [name \in DOMAIN known \cup {id} |-> IF name = id THEN ref ELSE known[name]]

(* Fault: an empty identifier is claimed like any other. *)
ClaimedEmpty(known, id, ref) ==
  IF id \in DOMAIN known THEN known
  ELSE [name \in DOMAIN known \cup {id} |-> IF name = id THEN ref ELSE known[name]]

(* The first item to claim a name keeps it. *)
Claimed(known, id, ref) ==
  IF id = NoName \/ id \in DOMAIN known THEN known
  ELSE [name \in DOMAIN known \cup {id} |-> IF name = id THEN ref ELSE known[name]]

(* `open' is popped to its first n entries by a loop that closes the last  *)
(* entry as long as Closes says so.                                        *)
PoppedTo(open, n, Closes(_)) ==
  /\ \A i \in (n + 1)..Len(open) : Closes(open[i])
  /\ n > 0 => ~Closes(open[n])

(* Fault: what comes between two list items does not part them. *)
KeepListRun == UNCHANGED lists

EndListRun == lists' = <<>>

-----------------------------------------------------------------------------
(* Text items.                                                             *)

NewText(e, self, parent, kind) ==
  [NewItem(self, parent, kind) EXCEPT !.id = e.id, !.cites = e.cites]

(* Fault: a heading does not end the one of its own level before it. *)
ClosesDeeper(open, level) == open.level > level

ClosesHeading(open, level) == open.level >= level

(* A section header closes the headers its level ends, then opens a level. *)
PushHeading(e) ==
  /\ e.label = "section_header"
  /\ \E n \in 0..Len(headings) :
       LET Closes(open) == ClosesHeading(open, e.level)
           kept == SubSeq(headings, 1, n)
           self == NextRef(doc, "texts")
           item == [NewText(e, self, CurrentParent(kept), "heading")
                      EXCEPT !.level = e.level]
       IN /\ PoppedTo(headings, n, Closes)
          /\ doc' = AddItem(doc, "texts", item)
          /\ headings' = Append(kept, [level |-> e.level, ref |-> self])
          /\ anchors' = Claimed(anchors, e.id, self)
  /\ EndListRun

(* Page chrome interrupts neither a section nor a list. *)
PushChrome(e) ==
  /\ e.label = "page_header"
  /\ LET self == NextRef(doc, "texts")
     IN /\ doc' = AddItem(doc, "texts", NewText(e, self, Furniture, "text"))
        /\ anchors' = Claimed(anchors, e.id, self)
  /\ UNCHANGED <<headings, lists>>

(* Fault: a list of the other kind at the same depth goes on. *)
ClosesAnyKind(open, depth, ordered) == open.depth > depth

ClosesList(open, depth, ordered) ==
  open.depth > depth \/ (open.depth = depth /\ open.ordered # ordered)

DepthOf(e) == IF e.depth = 0 THEN 1 ELSE e.depth

(* A list item closes the lists deeper than it and one of the other kind   *)
(* at its depth, and opens a group when none at its depth is left.         *)
PushListItem(e) ==
  /\ e.label = "list_item"
  /\ \E n \in 0..Len(lists) :
       LET depth == DepthOf(e)
           Closes(open) == ClosesList(open, depth, e.ordered)
           kept == SubSeq(lists, 1, n)
           opens == n = 0 \/ lists[n].depth < depth
           above == IF n = 0 THEN CurrentParent(headings) ELSE lists[n].ref
           group == [NewItem(NextRef(doc, "groups"), above, "list")
                       EXCEPT !.level = depth, !.ordered = e.ordered]
           grouped == IF opens THEN AddItem(doc, "groups", group) ELSE doc
           parent == IF opens THEN group.self ELSE lists[n].ref
           self == NextRef(doc, "texts")
           item == [NewText(e, self, parent, "text")
                      EXCEPT !.level = depth, !.ordered = e.ordered]
       IN /\ PoppedTo(lists, n, Closes)
          /\ doc' = AddItem(grouped, "texts", item)
          /\ lists' = IF opens
                      THEN Append(kept, [depth |-> depth, ordered |-> e.ordered,
                                         ref |-> group.self])
                      ELSE kept
          /\ anchors' = Claimed(anchors, e.id, self)
  /\ UNCHANGED headings

(* Anything else ends the run of list items. *)
PushParagraph(e) ==
  /\ e.label \in TextLabels \ {"section_header", "page_header", "list_item"}
  /\ LET self == NextRef(doc, "texts")
     IN /\ doc' = AddItem(doc, "texts",
                          NewText(e, self, CurrentParent(headings), "text"))
        /\ anchors' = Claimed(anchors, e.id, self)
  /\ EndListRun
  /\ UNCHANGED headings

PushText(e) ==
  /\ PushHeading(e) \/ PushChrome(e) \/ PushListItem(e) \/ PushParagraph(e)
  /\ UNCHANGED <<data, attachments, table, laying, factsTable, spanSlots>>

Plain(label, id) ==
  [event |-> "text", label |-> label, level |-> 1, depth |-> 0,
   ordered |-> FALSE, id |-> id, cites |-> {}]

Ignored == UNCHANGED <<doc, data, attachments, table, laying, factsTable,
                       headings, lists, anchors, spanSlots>>

OnText(e) == e.event = "text" /\ PushText(e)

(* A footnote is a text item that answers to its label; a label is not. *)
OnNote(e) ==
  /\ e.event = "xbrl_note"
  /\ IF e.footnote /\ ~e.empty THEN PushText(Plain("footnote", e.id)) ELSE Ignored

OnCitation(e) ==
  /\ e.event = "citation"
  /\ IF e.empty THEN Ignored ELSE PushText(Plain("reference", e.id))

OnPicture(e) ==
  /\ e.event = "picture"
  /\ LET self == NextRef(doc, "pictures")
     IN /\ doc' = AddItem(doc, "pictures",
                          [NewItem(self, CurrentParent(headings), "picture")
                             EXCEPT !.id = e.id])
        /\ anchors' = Claimed(anchors, e.id, self)
  /\ EndListRun
  /\ UNCHANGED <<data, attachments, table, laying, factsTable, headings, spanSlots>>

(* A group that marks the place, a text with the markup, an attachment. *)
OnIsland(e) ==
  /\ e.event = "html_island"
  /\ LET group == [NewItem(NextRef(doc, "groups"), CurrentParent(headings), "island")
                    EXCEPT !.id = e.id]
         marked == AddItem(doc, "groups", group)
         text == NewItem(NextRef(marked, "texts"), group.self, "text")
     IN /\ doc' = AddItem(marked, "texts", text)
        /\ attachments' = Append(attachments, group.self)
  /\ EndListRun
  /\ UNCHANGED <<data, table, laying, factsTable, headings, anchors, spanSlots>>

-----------------------------------------------------------------------------
(* Tables.                                                                 *)

NoTable ==
  [open |-> FALSE, ref |-> NoName, parent |-> Body, from |-> 0, id |-> NoName,
   points |-> {}, cites |-> {}]
NothingLaid == [grid |-> <<>>, occupied |-> {}, width |-> 0]

TableItem(d, pending) ==
  [NewItem(NextRef(d, "tables"), pending.parent, "table") EXCEPT
     !.from = pending.from, !.id = pending.id, !.points = pending.points,
     !.cites = pending.cites]

(* append_table, when there is one to append. *)
WithTable(d) ==
  IF table.open THEN AddItem(d, "tables", TableItem(d, table)) ELSE d
WithData == IF table.open THEN Append(data, laying) ELSE data
TableClaimed(d) ==
  IF table.open THEN Claimed(anchors, table.id, NextRef(d, "tables")) ELSE anchors

OnTableStart(e) ==
  /\ e.event = "table_start"
  /\ LET before == WithTable(doc)
         parent == CurrentParent(headings)
         caption == NewItem(NextRef(before, "texts"), parent, "text")
     IN /\ doc' = IF e.captioned THEN AddItem(before, "texts", caption) ELSE before
        /\ table' = [open |-> TRUE, ref |-> e.ref, parent |-> parent,
                     from |-> given + 1, id |-> e.id,
                     points |-> IF e.captioned THEN {caption.self} ELSE {},
                     cites |-> {}]
  /\ data' = WithData /\ laying' = NothingLaid
  /\ anchors' = TableClaimed(doc)
  /\ EndListRun
  /\ UNCHANGED <<attachments, factsTable, headings, spanSlots>>

(* Rows and ends name their table; those of another one are ignored. *)
Theirs(e) == table.open /\ table.ref = e.ref

OnTableRow(e) ==
  /\ e.event = "table_row"
  /\ IF Theirs(e)
     THEN LET laid == LayRow(laying.grid, laying.occupied, laying.width,
                             spanSlots, e.cells)
          IN /\ laying' = [grid |-> Append(laying.grid, laid.cells),
                           occupied |-> laid.occupied, width |-> laid.width]
             /\ table' = [table EXCEPT !.cites = @ \cup e.cites]
             /\ spanSlots' = laid.left
             /\ UNCHANGED <<doc, data, attachments, factsTable, headings, lists,
                            anchors>>
     ELSE Ignored

OnTableEnd(e) ==
  /\ e.event = "table_end"
  /\ IF Theirs(e)
     THEN /\ doc' = WithTable(doc)
          /\ anchors' = TableClaimed(doc)
          /\ table' = NoTable /\ data' = WithData /\ laying' = NothingLaid
          /\ UNCHANGED <<attachments, factsTable, headings, lists, spanSlots>>
     ELSE Ignored

(* Facts are rows of one table, made when the first one comes; their cells *)
(* never span, so the grid is left out.  A fact's dimensions are an item   *)
(* of their own, and its context cell points at it.                        *)
OnFact(e) ==
  /\ e.event = "fact"
  /\ LET parent == CurrentParent(headings)
         new == NewItem(NextRef(doc, "tables"), parent, "table")
         opened == IF factsTable = 0 THEN AddItem(doc, "tables", new) ELSE doc
         index == IF factsTable = 0 THEN new.self[2] ELSE factsTable
         pairs == NewItem(NextRef(doc, "key_values"), parent, "key_values")
         graphed == AddItem(opened, "key_values", pairs)
     IN /\ doc' = IF e.dimensions
                  THEN [graphed EXCEPT !["tables"][index].points = @ \cup {pairs.self}]
                  ELSE opened
        /\ factsTable' = index
        /\ data' = IF factsTable = 0 THEN Append(data, NothingLaid) ELSE data
  /\ EndListRun
  /\ UNCHANGED <<attachments, table, laying, headings, anchors, spanSlots>>

OnOther(e) == e \in OtherEvents /\ Ignored

-----------------------------------------------------------------------------
(* The stream gives nothing but rows between a table's start and its end   *)
(* (EventStream); a second start may come, because the code provides for   *)
(* it, and rows of another table, which it ignores.                        *)
Expected(e) ==
  ~table.open \/ e.event \in {"table_start", "table_row", "table_end"}

NothingTaken == [doc |-> EmptyDoc, anchors |-> <<>>, attachments |-> <<>>]

Consume(e) ==
  /\ given < MaxEvents
  /\ Expected(e)
  /\ given' = given + 1
  /\ \/ OnText(e) \/ OnNote(e) \/ OnCitation(e) \/ OnPicture(e) \/ OnIsland(e)
     \/ OnTableStart(e) \/ OnTableRow(e) \/ OnTableEnd(e) \/ OnFact(e)
     \/ OnOther(e)
  /\ taken' = NothingTaken
  /\ UNCHANGED vocabulary

(* publish_anchors: a cross-reference whose name has a home points there;  *)
(* any other keeps the name.                                               *)
Linked(item, known) ==
  [item EXCEPT !.targets =
     [name \in Names |-> IF name \in item.cites \cap DOMAIN known
                         THEN known[name] ELSE NoRef]]

Published(d, known) ==
  [arena \in Arenas |->
     IF arena \in {"texts", "tables"}
     THEN [i \in DOMAIN d[arena] |-> Linked(d[arena][i], known)]
     ELSE d[arena]]

(* Fault: the sections of the Document taken stay open. *)
LeaveSections == EndListRun /\ UNCHANGED headings

CloseSections == EndListRun /\ headings' = <<>>

(* The Document is taken, with what is there of an open table.  What the   *)
(* spans of this document claimed stays claimed.                           *)
Take ==
  /\ taken' = [doc |-> Published(WithTable(doc), TableClaimed(doc)),
               anchors |-> TableClaimed(doc), attachments |-> attachments]
  /\ doc' = EmptyDoc /\ data' = <<>> /\ attachments' = <<>>
  /\ table' = NoTable /\ laying' = NothingLaid /\ factsTable' = 0
  /\ CloseSections /\ anchors' = <<>>
  /\ UNCHANGED <<spanSlots, given, vocabulary>>

Init ==
  /\ vocabulary \in Vocabularies
  /\ doc = EmptyDoc /\ data = <<>> /\ attachments = <<>>
  /\ table = NoTable /\ laying = NothingLaid /\ factsTable = 0
  /\ headings = <<>> /\ lists = <<>> /\ anchors = <<>>
  /\ spanSlots = MaxSpanSlots
  /\ given = 0
  /\ taken = NothingTaken

Next == (\E e \in vocabulary : Consume(e)) \/ Take

Spec == Init /\ [][Next]_foldVars

-----------------------------------------------------------------------------
(* Properties.                                                             *)

AllRefs(d) == UNION {{arena} \X DOMAIN d[arena] : arena \in Arenas}
AllItems(d) == {At(d, ref) : ref \in AllRefs(d)}

OpenTable ==
  [open : BOOLEAN, ref : TableRefs \cup {NoName}, parent : Refs, from : Nat,
   id : Names \cup {NoName}, points : SUBSET Refs, cites : SUBSET Names]

(* Arenas, stacks and names keep to their ranges. *)
TreeType ==
  /\ doc \in [Arenas -> Seq(Item)]
  /\ attachments \in Seq(Refs)
  /\ table \in OpenTable
  /\ factsTable \in 0..Len(doc["tables"])
  /\ headings \in Seq([level : Nat, ref : Refs])
  /\ lists \in Seq([depth : Nat, ordered : BOOLEAN, ref : Refs])
  /\ DOMAIN anchors \subseteq Names /\ \A name \in DOMAIN anchors : anchors[name] \in Refs
  /\ given \in 0..MaxEvents

(* So do the slots of the open table and the budget; each table has data. *)
TypeOK ==
  /\ TreeType
  /\ laying.occupied \subseteq Nat \X Nat /\ laying.width \in Nat
  /\ Len(data) = Len(doc["tables"])
  /\ spanSlots \in 0..MaxSpanSlots

(* The merge contract (integrity.rs): positions and self references agree, *)
(* every reference resolves, and who names a parent is listed by it.       *)
SoundItem(d, ref) ==
  LET item == At(d, ref)
  IN /\ item.self = ref
     /\ \A i \in DOMAIN item.children : Resolves(d, item.children[i])
     /\ item.parent # NoRef =>
          /\ Resolves(d, item.parent)
          /\ \E i \in DOMAIN At(d, item.parent).children :
               At(d, item.parent).children[i] = ref
     /\ \A target \in item.points : Resolves(d, target)

SoundDoc(d) == \A ref \in Refs : Resolves(d, ref) => SoundItem(d, ref)

AttachedIn(d, attached) == \A i \in DOMAIN attached : Resolves(d, attached[i])

(* A fragment is sound at every moment, and so is the one taken, whatever  *)
(* headings, lists, tables and facts opened and closed before              *)
(* (integrity.rs:12-26; mod.rs:1440-1444).                                 *)
Sound ==
  /\ \A ref \in AllRefs(doc) : SoundItem(doc, ref)
  /\ AttachedIn(doc, attachments)
  /\ \A ref \in AllRefs(taken.doc) : SoundItem(taken.doc, ref)
  /\ AttachedIn(taken.doc, taken.attachments)

(* What walking the children down from `root' meets, as `seen' says it. *)
Walk(d, root, seen) ==
  LET walk[ref \in AllRefs(d)] ==
        <<seen[ref]>> \o FlattenSeq([i \in DOMAIN At(d, ref).children |->
                                  walk[At(d, ref).children[i]]])
  IN walk[root]

(* The fragment is a tree: walking the body and the furniture meets every  *)
(* item, and each once.  integrity_errors gathers the children in sets and *)
(* would not notice an item listed twice, or one no root leads to.         *)
EveryItemOnce ==
  \A d \in {doc, taken.doc} :
    LET itself == [ref \in Refs |-> ref]
        met == Walk(d, Body, itself) \o Walk(d, Furniture, itself)
    IN ToSet(met) = AllRefs(d) /\ Len(met) = Cardinality(AllRefs(d))

EventsOf(d, root) == Tail(Walk(d, root, [ref \in Refs |-> At(d, ref).from]))

Reading == INSTANCE ReadingOrder WITH
  body <- EventsOf(doc, Body), furniture <- EventsOf(doc, Furniture),
  events <- given

(* The Document reads in the order the events came in: content is only     *)
(* ever added at the end of the body or of the furniture, never in a       *)
(* section or list already left (mod.rs:892-893, 1083-1084).               *)
ReadsInOrder == Reading!Spec

Latest(items) == CHOOSE x \in items : \A y \in items : y.from <= x.from

(* Sections nest by their levels alone: whatever came in between, a        *)
(* heading is under the last heading before it of a lower level, and other *)
(* content under the last heading before it (mod.rs:1419-1437).            *)
ParentByLevel ==
  \A x \in AllItems(doc) :
    x.parent[1] \in {"body", "texts"} =>
      LET above == {h \in AllItems(doc) :
                      /\ h.kind = "heading" /\ h.from < x.from
                      /\ x.kind = "heading" => h.level < x.level}
      IN x.parent = IF above = {} THEN Body ELSE Latest(above).self

ListItems(d) == {x \in AllItems(d) : x.kind = "text" /\ x.level > 0}

(* Nothing between x and y ends the list that x is in. *)
SameRun(d, x, y) ==
  \A z \in AllItems(d) :
    z.from \in (x.from + 1)..(y.from - 1) /\ z.parent # Furniture /\ z.kind # "list"
      => /\ z \in ListItems(d)
         /\ z.level > x.level \/ (z.level = x.level /\ z.ordered = x.ordered)

(* A group is one contiguous list: two items share it exactly when they    *)
(* agree in depth and kind and nothing in between ended it (a fact that    *)
(* leaves no item of its own may), and a nested list is in the group of    *)
(* the last item before it that is less deep (mod.rs:822-828, 846-849).    *)
ListsContiguous ==
  \A x \in ListItems(doc), y \in ListItems(doc) :
    x.from < y.from =>
      LET run == SameRun(doc, x, y)
          alike == x.level = y.level /\ x.ordered = y.ordered
      IN /\ x.parent = y.parent => run /\ alike
         /\ run /\ alike /\ factsTable = 0 => x.parent = y.parent
         /\ (/\ run /\ x.level < y.level /\ factsTable = 0
             /\ \A z \in ListItems(doc) :
                  z.from \in (x.from + 1)..(y.from - 1) => z.level >= y.level)
            => At(doc, y.parent).parent = x.parent

(* In the Document taken a name stands for the first item that carried it, *)
(* and every cross-reference to it points there, wherever the reference is *)
(* and whether it came before the item or after; a name nothing answers to *)
(* stays a name (mod.rs:511-521, 553-555).                                 *)
NamesAnswered ==
  LET d == taken.doc
      homes(name) == {x \in AllItems(d) : x.id = name /\ x.kind # "island"}
      answer(name) ==
        IF homes(name) = {} THEN NoRef
        ELSE (CHOOSE x \in homes(name) : \A y \in homes(name) : x.from <= y.from).self
  IN /\ \A name \in Names :
          answer(name) = IF name \in DOMAIN taken.anchors
                         THEN taken.anchors[name] ELSE NoRef
     /\ \A x \in AllItems(d) : \A name \in x.cites :
          x.targets[name] = answer(name)

Laid == ToSet(data) \cup {laying}

(* In every table each cell has the first column it could have: none       *)
(* starts where an earlier cell already is, across any number of rows, and *)
(* nothing is skipped; the table is as wide as its cells reach.  The slots *)
(* the fold forgets as it goes are never missed (mod.rs:1110-1120).        *)
GridsPacked ==
  \A laid \in Laid : Packed(laid.grid) /\ Fits(laid.grid, laid.width)

SlotsOf(grid) ==
  SumFunction([i \in DOMAIN grid |->
                 SumFunction([j \in DOMAIN grid[i] |-> ExtraSlots(grid[i][j])])])

(* What the spans of a document claim, its open table's included, is what  *)
(* was counted off the budget, and never more than there was: no row, no   *)
(* table and no document gets the same slots again (mod.rs:76-84, 1123).   *)
SpansWithinBudget ==
  SlotsOf(laying.grid)
    + SumFunction([i \in DOMAIN data |-> SlotsOf(data[i].grid)])
    + spanSlots <= MaxSpanSlots

=============================================================================
