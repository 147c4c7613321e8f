---------------------------- MODULE MetsManifest ----------------------------
(***************************************************************************)
(* The walk over the manifest of a Google Books export (archive/mets.rs,   *)
(* ManifestWalk).  The reader checks that tags pair up; the walk keeps     *)
(* what it needs of the open elements as counts, depths and one stack, and *)
(* builds the page map, the outline and the descriptive records.           *)
(*                                                                         *)
(* Of an element the model keeps its tag and the attributes the walk       *)
(* branches on; titles and texts are only there or not.  The document says *)
(* which start tags come; where the end tags come is free.                 *)
(***************************************************************************)
EXTENDS Integers, Sequences, SequencesExt

CONSTANTS
  Elements,      \* the elements a manifest may be made of
  MaxRecords     \* MAX_MANIFEST_RECORDS

Nothing == "nothing"   \* a USE that is missing or not known
NoRef == <<>>          \* an ID or a path that is missing
Uses == {"image", "OCR", "coordOCR"}

(* ref: ID of a file, href of an FLocat, FILEID of an fptr; a path is the  *)
(* sequence of its parts, and an ID has one.  order: ORDER of a div of     *)
(* TYPE page, or -1.  labelled: a div's LABEL, or that a descriptive       *)
(* element is one descriptive_field knows.                                 *)
Tags == {"mets", "fileGrp", "file", "FLocat", "structMap", "dmdSec", "div",
         "fptr", "field"}

ASSUME MetsManifestAssumption ==
  /\ \A e \in Elements :
       /\ e.tag \in Tags /\ e.use \in Uses \cup {Nothing} /\ e.labelled \in BOOLEAN
       /\ e.order \in Int /\ (e.order >= 0 => e.tag = "div") /\ Len(e.ref) \in Nat
  /\ MaxRecords \in Nat

VARIABLES
  tangled,    \* a structMap has been opened inside another
  open,       \* the reader's open elements, the root first
  starts,     \* start tags read
  walk,       \* ManifestWalk
  pages,      \* the page map: ORDER -> use -> path, or NoRef
  outline,    \* the labelled divisions, with the divisions around each
  records     \* descriptive records kept

manifestVars == <<tangled, open, starts, walk, pages, outline, records>>

NoPage == [depth |-> 0, order |-> -1]
NoField == [depth |-> 0, text |-> FALSE]
NewWalk ==
  [files |-> <<>>, uses |-> <<>>, depth |-> 0, page |-> NoPage, file |-> NoRef,
   map |-> 0, divs |-> 0, dmd |-> 0, field |-> NoField]

ManifestInit ==
  /\ tangled = FALSE /\ open = <<>> /\ starts = 0 /\ walk = NewWalk
  /\ pages = <<>> /\ outline = <<>> /\ records = 0

(* The function f with x mapped to y. *)
With(f, x, y) == [z \in DOMAIN f \cup {x} |-> IF z = x THEN y ELSE f[z]]

-----------------------------------------------------------------------------
(* Start tags.  `w' is the walk, one level deeper.                         *)

(* A group of a use that is not known, or without one, is of the use of    *)
(* the group around it.                                                    *)
UseOf(uses) ==
  LET known == {i \in DOMAIN uses : uses[i] # Nothing}
  IN IF known = {} THEN Nothing ELSE uses[Max(known)]

(* Fault: only a group of a known use is remembered. *)
PushKnownUse(uses, use) == IF use = Nothing THEN uses ELSE Append(uses, use)

PushUse(uses, use) == Append(uses, use)

Kept == UNCHANGED <<pages, outline, records>>

(* Fault: one more is kept than there is room for. *)
HasRoomForOneMore(kept) == kept <= MaxRecords

HasRoom(kept) == kept < MaxRecords

OnGroup(e, w) ==
  /\ e.tag = "fileGrp" /\ walk' = [w EXCEPT !.uses = PushUse(@, e.use)] /\ Kept

OnFile(e, w) ==
  /\ e.tag = "file" /\ walk' = [w EXCEPT !.file = e.ref] /\ Kept

OnLocation(e, w) ==
  /\ e.tag = "FLocat"
  /\ walk' = IF w.file # NoRef /\ e.ref # NoRef /\ UseOf(w.uses) # Nothing
             THEN [w EXCEPT !.files =
                     With(@, w.file, [path |-> e.ref, use |-> UseOf(w.uses)])]
             ELSE w
  /\ Kept

OnMap(e, w) ==
  /\ e.tag = "structMap" /\ walk' = [w EXCEPT !.map = w.depth] /\ Kept

OnDmd(e, w) ==
  /\ e.tag = "dmdSec" /\ walk' = [w EXCEPT !.dmd = w.depth] /\ Kept

NoFiles == [use \in Uses |-> NoRef]
IsPage(e) == e.order >= 0

(* The divisions open inside a structMap. *)
DivsAround ==
  {i \in DOMAIN open : open[i].tag = "div" /\ \E j \in 1..i : open[j].tag = "structMap"}

(* Fault: a division without a label is not counted. *)
CountLabelled(w, e) == IF w.map = 0 \/ ~e.labelled THEN w.divs ELSE w.divs + 1

CountDiv(w, e) == IF w.map = 0 THEN w.divs ELSE w.divs + 1

(* A page opens wherever the div is; an entry only inside the structMap.   *)
OnDiv(e, w) ==
  /\ e.tag = "div"
  /\ walk' = [w EXCEPT !.page = IF IsPage(e)
                                THEN [depth |-> w.depth, order |-> e.order] ELSE @,
                       !.divs = CountDiv(w, e)]
  /\ pages' = IF IsPage(e) /\ e.order \notin DOMAIN pages
              THEN With(pages, e.order, NoFiles) ELSE pages
  /\ outline' = IF w.map # 0 /\ e.labelled /\ HasRoom(Len(outline))
                THEN Append(outline, [level |-> CountDiv(w, e), around |-> Cardinality(DivsAround)])
                ELSE outline
  /\ UNCHANGED records

(* A file goes to the page that is open, if the manifest has given both. *)
OnPointer(e, w) ==
  /\ e.tag = "fptr"
  /\ walk' = w
  /\ pages' = IF w.page # NoPage /\ e.ref \in DOMAIN w.files
              THEN LET file == w.files[e.ref]
                   IN [pages EXCEPT ![w.page.order][file.use] = file.path]
              ELSE pages
  /\ UNCHANGED <<outline, records>>

(* The innermost element that states a field is the statement. *)
OnField(e, w) ==
  /\ e.tag = "field"
  /\ walk' = IF w.dmd # 0 /\ e.labelled
             THEN [w EXCEPT !.field = [depth |-> w.depth, text |-> FALSE]] ELSE w
  /\ Kept

OnRoot(e, w) == e.tag = "mets" /\ walk' = w /\ Kept

StartElement(e) ==
  /\ LET w == [walk EXCEPT !.depth = @ + 1]
     IN \/ OnRoot(e, w) \/ OnGroup(e, w) \/ OnFile(e, w) \/ OnLocation(e, w)
        \/ OnMap(e, w) \/ OnDmd(e, w) \/ OnDiv(e, w) \/ OnPointer(e, w)
        \/ OnField(e, w)
  /\ starts' = starts + 1 /\ open' = Append(open, e)
  /\ tangled' = (tangled \/ (e.tag = "structMap" /\ walk.map # 0))

-----------------------------------------------------------------------------
(* Text and end tags.                                                      *)

(* A reference is not text to this walk: it is passed over.                *)
ManifestText ==
  /\ walk' = IF walk.field # NoField THEN [walk EXCEPT !.field.text = TRUE] ELSE walk
  /\ UNCHANGED <<tangled, open, starts, pages, outline, records>>

PageAfter == IF walk.page.depth = walk.depth THEN NoPage ELSE walk.page

EndElement ==
  /\ open # <<>>
  /\ LET e == Last(open)
         closes(depth) == depth = walk.depth
     IN /\ walk' = [walk EXCEPT
             !.uses = IF e.tag = "fileGrp" /\ @ # <<>> THEN Front(@) ELSE @,
             !.file = IF e.tag = "file" THEN NoRef ELSE @,
             !.page = PageAfter,
             !.field = IF closes(@.depth) THEN NoField ELSE @,
             !.map = IF closes(@) THEN 0 ELSE @,
             !.divs = IF e.tag = "div" /\ walk.map # 0 /\ ~closes(walk.map) /\ @ > 0
                      THEN @ - 1 ELSE @,
             !.dmd = IF closes(@) THEN 0 ELSE @,
             !.depth = @ - 1]
        /\ records' = IF closes(walk.field.depth) /\ walk.field.text
                         /\ HasRoom(records)
                      THEN records + 1 ELSE records
  /\ open' = Front(open)
  /\ UNCHANGED <<tangled, starts, pages, outline>>

-----------------------------------------------------------------------------
(* What the walk should know of the document.                              *)

GroupsOpen == {i \in DOMAIN open : open[i].tag = "fileGrp"}

(* The n-th use on the stack is that of the n-th group open.               *)
UsesOpen ==
  /\ Len(walk.uses) = Cardinality(GroupsOpen)
  /\ \A i \in GroupsOpen :
       walk.uses[Cardinality({j \in GroupsOpen : j <= i})] = open[i].use

(* What the walk takes to be open is open in the document: every group     *)
(* with its use, the page with its number and no page further in, the file *)
(* a location belongs to, the section of records and the field in it.      *)
WalkMatchesReader ==
  /\ walk.depth = Len(open)
  /\ UsesOpen
  /\ walk.page # NoPage =>
       /\ walk.page.depth \in DOMAIN open
       /\ open[walk.page.depth].order = walk.page.order
       /\ \A i \in (walk.page.depth + 1)..Len(open) : ~IsPage(open[i])
  /\ walk.file # NoRef =>
       \E i \in DOMAIN open : open[i].tag = "file" /\ open[i].ref = walk.file
  /\ walk.map # 0 => walk.map \in DOMAIN open /\ open[walk.map].tag = "structMap"
  /\ walk.dmd # 0 => walk.dmd \in DOMAIN open /\ open[walk.dmd].tag = "dmdSec"
  /\ walk.field # NoField =>
       walk.field.depth \in DOMAIN open /\ open[walk.field.depth].labelled

(* An entry of the contents page has the level the volume gives it: one    *)
(* more than the divisions around it, in every structMap (METS puts none   *)
(* inside another; the walk would lose count after one that is).           *)
LevelsCount ==
  ~tangled => \A i \in DOMAIN outline : outline[i].level = outline[i].around + 1

=============================================================================
