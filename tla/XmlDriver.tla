------------------------------ MODULE XmlDriver ------------------------------
(***************************************************************************)
(* The forward pass of src/parse: driver.rs with the shapes of table.rs    *)
(* and island.rs and the subtree readers of meta.rs and xbrl.rs.  It reads *)
(* one XML event after another, keeps the open elements on a stack, and at *)
(* each start tag does what the dialect says of the element.               *)
(*                                                                         *)
(* The document is whatever the reader may bring next: it checks that tags *)
(* pair up, and may stop or fail anywhere.  What an element is (a capture, *)
(* a table, a cell, ...) is chosen with its start tag, where the code asks *)
(* dialect.rs.  Text is only blank or not.  Names, paths, offsets,         *)
(* attributes, inline runs, list depths and warnings are left out.         *)
(*                                                                         *)
(* The client going away, the deadline and bytes that are not XML end the  *)
(* parse wherever it is; the driver is dropped, and what it had given      *)
(* stays given.                                                            *)
(***************************************************************************)
EXTENDS Naturals, Sequences, FiniteSets

CONSTANTS
  Families,     \* of the dialects a document may have
  Islands,      \* emit_html_islands
  Metadata,     \* emit_source_metadata
  MaxDepth,     \* MAX_DEPTH
  MaxElements   \* bound: start tags in one document

ASSUME XmlDriverAssumption ==
  /\ Families \subseteq {"generic", "xbrl", "doclang", "mapped"}
  /\ Islands \in BOOLEAN /\ Metadata \in BOOLEAN
  /\ MaxDepth \in Nat \ {0} /\ MaxElements \in Nat

VARIABLES
  family,    \* of the dialect: "mapped" is JATS or USPTO
  mode,      \* which loop reads the next event, or what is still to be sent
  elements,  \* start tags read
  open,      \* open_elements: start tags read and not yet closed
  stack,     \* the frames of the open elements
  depth,     \* depth inside a subtree that is read or skipped whole
  note,      \* depth of the note being read inside a link, or 0
  notes,     \* notes of the link read and not yet sent
  island,    \* stack length of the open island, or 0
  capture,   \* the open capture
  fact,      \* the open fact
  table,     \* the open table
  caption,   \* wrapper_depth of the caption waiting for a table, or 0
  index,     \* the next item's index
  tables,    \* tables begun
  last       \* the last event sent

docVars == <<family, elements, open>>
shapeVars == <<island, capture, fact, table>>
sentVars == <<index, tables, last>>
readVars   == <<depth, note, notes>>

driverVars == <<docVars, mode, stack, readVars, shapeVars, caption, sentVars>>

NoCapture == [depth |-> 0, text |-> FALSE, caption |-> FALSE]
NoFact    == [depth |-> 0, index |-> 0]
NoTable   == [depth |-> 0, ref |-> 0, rows |-> 0, headers |-> 0, row |-> "none",
              cell |-> 0]

Tags == {"thead", "row", "cell", "other"}

(* A frame: what its name means inside a table, and the element's own text *)
(* if the dialect collects it.                                             *)
Frame(tag, own, attributes) ==
  [tag |-> tag, own |-> own, sent |-> FALSE, attributes |-> attributes]

Plain(tag) == Frame(tag, "none", FALSE)

(* own_text: every element of a generic document collects its own. *)
Descended(of, attributes) ==
  IF of = "generic" THEN Frame("other", "blank", attributes)
  ELSE Plain("other")

Top == stack[Len(stack)]
Pop == SubSeq(stack, 1, Len(stack) - 1)

-----------------------------------------------------------------------------
(* Sending. *)

Quiet == UNCHANGED sentVars

(* A text item, an island, or a fact that took its index when it opened.   *)
SendItem(i) ==
  /\ last' = [kind |-> "item", index |-> i]
  /\ UNCHANGED tables

SendNext == SendItem(index) /\ index' = index + 1

SendRecord == last' = [kind |-> "record"] /\ UNCHANGED <<index, tables>>

-----------------------------------------------------------------------------
Init ==
  /\ family = "generic" /\ mode = "prolog" /\ elements = 0 /\ open = 0 /\ stack = <<>>
  /\ depth = 0 /\ note = 0 /\ notes = 0
  /\ island = 0 /\ capture = NoCapture /\ fact = NoFact /\ table = NoTable
  /\ caption = 0 /\ index = 0 /\ tables = 0 /\ last = [kind |-> "none"]

(* next_step on a start tag and on an end tag.  The reader lets an end tag *)
(* through only where it closes something.                                 *)
NextStart ==
  /\ elements < MaxElements /\ open < MaxDepth
  /\ elements' = elements + 1 /\ open' = open + 1

ReadStart == NextStart /\ UNCHANGED family

ReadEnd ==
  /\ open > 0 /\ open' = open - 1
  /\ UNCHANGED <<family, elements>>

(* The root resolves the dialect; it is walked into whatever it is, and    *)
(* XmlInfo goes out.                                                       *)
RootStart(of, attributes) ==
  /\ mode = "prolog" /\ NextStart
  /\ family' = of
  /\ stack' = <<Descended(of, attributes)>>
  /\ mode' = "content"
  /\ last' = [kind |-> "info"]
  /\ UNCHANGED <<readVars, shapeVars, caption, index, tables>>

-----------------------------------------------------------------------------
(* on_start.  An open island, capture, fact or cell takes in everything    *)
(* below it; an open table reads its own structure.                        *)

Flattening == island > 0 \/ capture.depth > 0 \/ fact.depth > 0
Tabulating == ~Flattening /\ table.depth > 0
Mapping    == ~Flattening /\ table.depth = 0

Push(frame) ==
  /\ ReadStart
  /\ stack' = Append(stack, frame)
  /\ UNCHANGED readVars

Flattened == Flattening \/ (Tabulating /\ table.cell > 0)

(* Fault: a header section inside a cell is counted like any other. *)
FlattenedCounting(tag) ==
  /\ mode = "content" /\ Flattened
  /\ Push(Plain(tag))
  /\ table' = [table EXCEPT !.headers = IF tag = "thead" THEN @ + 1 ELSE @]
  /\ UNCHANGED <<mode, island, capture, fact, caption>> /\ Quiet

FlattenedStart(tag) ==
  /\ mode = "content" /\ Flattened
  /\ Push(Plain(tag))
  /\ UNCHANGED <<mode, shapeVars, caption>> /\ Quiet

(* table_start outside a cell.  A cell remembers the length the stack will *)
(* have with the cell on it; a row inside a row takes its place.           *)
TableStart(tag) ==
  /\ mode = "content" /\ Tabulating /\ table.cell = 0
  /\ Push(Plain(tag))
  /\ table' = [table EXCEPT
                 !.headers = IF tag = "thead" THEN @ + 1 ELSE @,
                 !.row     = IF tag = "row" THEN "empty" ELSE @,
                 !.cell    = IF tag = "cell" THEN Len(stack) + 1 ELSE @]
  /\ UNCHANGED <<mode, island, capture, fact, caption>> /\ Quiet

(* An element of an XBRL instance. *)
XbrlStart(what) ==
  /\ mode = "content" /\ Mapping /\ family = "xbrl"
  /\ \/ /\ what \in {"record", "infrastructure"} (* a context or unit is read *)
        /\ ReadStart                             (* whole, the rest skipped   *)
        /\ mode' = "subtree" /\ depth' = 1
        /\ UNCHANGED <<stack, note, notes, fact>> /\ Quiet
     \/ /\ what = "link" (* a footnoteLink or labelLink, on the stack *)
        /\ ReadStart
        /\ stack' = Append(stack, Plain("other"))
        /\ mode' = "link" /\ depth' = 1
        /\ UNCHANGED <<note, notes, fact>> /\ Quiet
     \/ /\ what = "fact" (* takes its index now and is sent when it closes *)
        /\ Push(Plain("other"))
        /\ fact' = [depth |-> Len(stack) + 1, index |-> index]
        /\ index' = index + 1
        /\ UNCHANGED <<mode, tables, last>>
     \/ /\ what = "other"
        /\ Push(Plain("other"))
        /\ UNCHANGED <<mode, fact>> /\ Quiet
  /\ UNCHANGED <<island, capture, table, caption>>

(* Fault: a run is only sent where the element has given none before.      *)
FlushesOnce(frame, closing) ==
  /\ frame.own # "none" /\ ~frame.sent
  /\ frame.own = "text" \/ (closing /\ frame.attributes)

(* flush_own_text: the innermost element's run of text becomes an item. An *)
(* element that closes without having given any gives its attributes.      *)
Flushes(frame, closing) ==
  \/ frame.own = "text"
  \/ closing /\ frame.own = "blank" /\ ~frame.sent /\ frame.attributes

Flushed(frame) == [frame EXCEPT !.own = "blank", !.sent = TRUE]

(* The stack with the parent's run flushed, under a child's start tag. *)
Interrupted ==
  IF Flushes(Top, FALSE) THEN [stack EXCEPT ![Len(stack)] = Flushed(@)] ELSE stack

SendRun(closing) == IF Flushes(Top, closing) THEN SendNext ELSE Quiet

(* An XHTML element under emit_html_islands.  Its frame collects no text.  *)
IslandStart ==
  /\ mode = "content" /\ Mapping /\ family # "xbrl" /\ Islands
  /\ ReadStart
  /\ stack' = Append(Interrupted, Plain("other"))
  /\ island' = Len(stack) + 1
  /\ SendRun(FALSE)
  /\ UNCHANGED <<mode, readVars, capture, fact, table, caption>>

(* Fault: the parent's run is not flushed under a child. *)
DescendUnflushed(attributes) ==
  /\ mode = "content" /\ Mapping /\ family # "xbrl"
  /\ Push(Descended(family, attributes))
  /\ UNCHANGED <<mode, shapeVars, caption>> /\ Quiet

(* Action::Descend. *)
Descend(attributes) ==
  /\ mode = "content" /\ Mapping /\ family # "xbrl"
  /\ ReadStart
  /\ stack' = Append(Interrupted, Descended(family, attributes))
  /\ SendRun(FALSE)
  /\ UNCHANGED <<mode, readVars, shapeVars, caption>>

Mapped == mode = "content" /\ Mapping /\ family \in {"doclang", "mapped"}

(* Action::Skip, and Action::Meta when metadata was not asked for. *)
Skip ==
  /\ Mapped /\ ReadStart
  /\ mode' = "subtree" /\ depth' = 1
  /\ UNCHANGED <<stack, note, notes, shapeVars, caption>> /\ Quiet

(* Action::Meta: the element is on the stack while its subtree is read. *)
Meta ==
  /\ Mapped /\ family = "mapped" /\ Metadata /\ ReadStart
  /\ stack' = Append(stack, Plain("other"))
  /\ mode' = "meta" /\ depth' = 1
  /\ UNCHANGED <<note, notes, shapeVars, caption>> /\ Quiet

(* begin_table: the table takes the caption that waits. *)
BeginTable ==
  /\ Mapped /\ Push(Plain("other"))
  /\ table' = [NoTable EXCEPT !.depth = Len(stack) + 1, !.ref = tables + 1]
  /\ caption' = 0
  /\ last' = [kind |-> "table", index |-> index, ref |-> tables + 1]
  /\ index' = index + 1 /\ tables' = tables + 1
  /\ UNCHANGED <<mode, island, capture, fact>>

(* Action::Capture and Action::Caption. *)
BeginCapture(isCaption) ==
  /\ Mapped /\ Push(Plain("other"))
  /\ capture' = [depth |-> Len(stack) + 1, text |-> FALSE, caption |-> isCaption]
  /\ UNCHANGED <<mode, island, fact, table, caption>> /\ Quiet

(* Action::AttrText.  Under DocLang a picture sends the caption that waits *)
(* ahead of itself; an element without the attribute sends nothing.        *)
PictureStart(attributed) ==
  /\ Mapped /\ Push(Plain("other"))
  /\ IF family = "doclang" /\ caption > 0
     THEN /\ caption' = 0 /\ SendNext
          /\ mode' = IF attributed THEN "picture" ELSE "content"
     ELSE /\ IF attributed THEN SendNext ELSE Quiet
          /\ UNCHANGED <<mode, caption>>
  /\ UNCHANGED shapeVars

SendPicture ==
  /\ mode = "picture"
  /\ mode' = "content" /\ SendNext
  /\ UNCHANGED <<docVars, stack, readVars, shapeVars, caption>>

-----------------------------------------------------------------------------
(* Text that is not blank.  An island, a fact and a cell keep it too; what *)
(* has no place is warned about.                                           *)
Text ==
  /\ mode = "content" /\ island = 0
  /\ \/ /\ capture.depth > 0
        /\ capture' = [capture EXCEPT !.text = TRUE]
        /\ UNCHANGED stack
     \/ /\ ~Flattened /\ Top.own # "none"
        /\ stack' = [stack EXCEPT ![Len(stack)].own = "text"]
        /\ UNCHANGED capture
  /\ UNCHANGED <<docVars, mode, readVars, island, fact, table, caption>>
  /\ Quiet

-----------------------------------------------------------------------------
(* on_end.  Whatever is open decides what the end tag closes. *)

Close ==
  /\ mode = "content" /\ ReadEnd
  /\ stack' = Pop
  /\ mode' = IF Len(stack) = 1 THEN "trailer" ELSE "content"
  /\ UNCHANGED readVars

FlattenedEnd ==
  /\ \/ island > 0 /\ Len(stack) # island
     \/ island = 0 /\ capture.depth > 0 /\ Len(stack) # capture.depth
     \/ island = 0 /\ capture.depth = 0 /\ fact.depth > 0
          /\ Len(stack) # fact.depth
     \/ Tabulating /\ table.cell > 0 /\ Len(stack) # table.cell
  /\ Close
  /\ UNCHANGED <<shapeVars, caption>> /\ Quiet

IslandEnd ==
  /\ island > 0 /\ Len(stack) = island
  /\ Close
  /\ island' = 0 /\ SendNext
  /\ UNCHANGED <<capture, fact, table, caption>>

(* Fault: the caption waits for the wrong end tag. *)
CaptionEndDeep ==
  /\ island = 0 /\ capture.depth > 0 /\ Len(stack) = capture.depth
  /\ capture.text /\ capture.caption
  /\ Close
  /\ capture' = NoCapture /\ caption' = capture.depth
  /\ IF caption > 0 THEN SendNext ELSE Quiet
  /\ UNCHANGED <<island, fact, table>>

(* finish_capture of a caption: it waits inside its wrapper for a table,   *)
(* and one that already waits is sent first.                               *)
CaptionEnd ==
  /\ island = 0 /\ capture.depth > 0 /\ Len(stack) = capture.depth
  /\ capture.text /\ capture.caption
  /\ Close
  /\ capture' = NoCapture /\ caption' = capture.depth - 1
  /\ IF caption > 0 THEN SendNext ELSE Quiet
  /\ UNCHANGED <<island, fact, table>>

(* finish_capture of an item; one without text comes to nothing. *)
CaptureEnd ==
  /\ island = 0 /\ capture.depth > 0 /\ Len(stack) = capture.depth
  /\ ~(capture.text /\ capture.caption)
  /\ Close
  /\ capture' = NoCapture
  /\ IF capture.text THEN SendNext ELSE Quiet
  /\ UNCHANGED <<island, fact, table, caption>>

(* Fault: the fact takes its index again when it is sent. *)
FactEndReindexed ==
  /\ island = 0 /\ capture.depth = 0 /\ fact.depth > 0
  /\ Len(stack) = fact.depth
  /\ Close
  /\ fact' = NoFact
  /\ SendNext
  /\ UNCHANGED <<island, capture, table, caption>>

FactEnd ==
  /\ island = 0 /\ capture.depth = 0 /\ fact.depth > 0
  /\ Len(stack) = fact.depth
  /\ Close
  /\ fact' = NoFact
  /\ SendItem(fact.index) /\ UNCHANGED index
  /\ UNCHANGED <<island, capture, table, caption>>

(* A cell goes to the row that is open, if one is. *)
CellEnd ==
  /\ Tabulating /\ table.cell > 0 /\ Len(stack) = table.cell
  /\ Close
  /\ table' = [table EXCEPT !.cell = 0, !.row = IF @ = "none" THEN @ ELSE "cells"]
  /\ UNCHANGED <<island, capture, fact, caption>> /\ Quiet

HeaderSectionEnd ==
  /\ Tabulating /\ table.cell = 0 /\ Top.tag = "thead"
  /\ Close
  /\ table' = [table EXCEPT !.headers = IF @ > 0 THEN @ - 1 ELSE 0]
  /\ UNCHANGED <<island, capture, fact, caption>> /\ Quiet

(* A row without cells is dropped. *)
RowEnd ==
  /\ Tabulating /\ table.cell = 0 /\ Top.tag = "row" /\ table.row # "none"
  /\ Close
  /\ IF table.row = "cells"
     THEN /\ table' = [table EXCEPT !.row = "none", !.rows = @ + 1]
          /\ last' = [kind |-> "row", ref |-> table.ref, row |-> table.rows]
          /\ UNCHANGED <<index, tables>>
     ELSE table' = [table EXCEPT !.row = "none"] /\ Quiet
  /\ UNCHANGED <<island, capture, fact, caption>>

Unstructured ==
  Tabulating /\ table.cell = 0 /\ Top.tag # "thead"
             /\ ~(Top.tag = "row" /\ table.row # "none")

OtherTableEnd ==
  /\ Unstructured /\ Len(stack) # table.depth
  /\ Close
  /\ UNCHANGED <<shapeVars, caption>> /\ Quiet

(* Fault: the table is not forgotten when its end is sent. *)
TableEndStays ==
  /\ Unstructured /\ Len(stack) = table.depth
  /\ Close
  /\ last' = [kind |-> "end", ref |-> table.ref, rows |-> table.rows]
  /\ UNCHANGED <<island, capture, fact, table, caption, index, tables>>

TableEnd ==
  /\ Unstructured /\ Len(stack) = table.depth
  /\ Close
  /\ table' = NoTable
  /\ last' = [kind |-> "end", ref |-> table.ref, rows |-> table.rows]
  /\ UNCHANGED <<island, capture, fact, caption, index, tables>>

(* Fault: a caption nothing took is forgotten with its wrapper. *)
ElementEndForgets ==
  /\ Mapping /\ stack # <<>>
  /\ Close
  /\ caption' = IF Len(stack) = caption THEN 0 ELSE caption
  /\ SendRun(TRUE)
  /\ UNCHANGED shapeVars

(* A caption nothing took is sent when its wrapper closes. *)
ElementEnd ==
  /\ Mapping /\ stack # <<>>
  /\ Close
  /\ IF Len(stack) = caption
     THEN caption' = 0 /\ SendNext
     ELSE SendRun(TRUE) /\ UNCHANGED caption
  /\ UNCHANGED shapeVars

-----------------------------------------------------------------------------
(* The subtree readers: consume_subtree, read_context, read_unit,          *)
(* read_meta_tree and read_note_link_body.                                 *)

Reading == mode \in {"subtree", "meta", "link"}

(* A link's note takes in what is below it, other notes included. *)
SubtreeStart ==
  /\ Reading /\ ReadStart
  /\ depth' = depth + 1
  /\ \/ UNCHANGED note
     \/ mode = "link" /\ note = 0 /\ note' = depth + 1
  /\ UNCHANGED <<mode, stack, notes, shapeVars, caption>> /\ Quiet

SubtreeEnd ==
  /\ Reading /\ ReadEnd
  /\ depth' = depth - 1
  /\ IF note = depth THEN note' = 0 /\ notes' = notes + 1
     ELSE UNCHANGED <<note, notes>>
  /\ \/ /\ depth > 1 /\ UNCHANGED <<mode, stack>> /\ Quiet
     \/ /\ depth = 1 /\ mode = "subtree"
        /\ mode' = "content" /\ UNCHANGED stack /\ Quiet
     \/ /\ depth = 1 /\ mode = "meta"
        /\ mode' = "content" /\ stack' = Pop /\ SendRecord
     \/ /\ depth = 1 /\ mode = "link"
        /\ mode' = "notes" /\ UNCHANGED stack /\ Quiet
  /\ UNCHANGED <<shapeVars, caption>>

(* Fault: the notes are sent before they are counted. *)
SendNoteFirst ==
  /\ mode = "notes"
  /\ notes' = notes - 1 /\ SendRecord
  /\ UNCHANGED <<docVars, mode, stack, depth, note, shapeVars, caption>>

SendNote ==
  /\ mode = "notes" /\ notes > 0
  /\ notes' = notes - 1 /\ SendRecord
  /\ UNCHANGED <<docVars, mode, stack, depth, note, shapeVars, caption>>

(* Fault: the link's frame is left on the stack. *)
NotesSentUnpopped ==
  /\ mode = "notes" /\ notes = 0
  /\ mode' = "content"
  /\ UNCHANGED <<docVars, stack, readVars, shapeVars, caption>> /\ Quiet

NotesSent ==
  /\ mode = "notes" /\ notes = 0
  /\ mode' = "content" /\ stack' = Pop
  /\ UNCHANGED <<docVars, readVars, shapeVars, caption>> /\ Quiet

-----------------------------------------------------------------------------
(* emit_status. *)
SendStatus ==
  /\ mode = "trailer"
  /\ mode' = "done" /\ last' = [kind |-> "status"]
  /\ UNCHANGED <<docVars, stack, readVars, shapeVars, caption, index,
                 tables>>

(* The element of a metadata item or a link is on the stack while it is    *)
(* read, and comes off however the reading ends.                           *)
OnStackToo == mode \in {"meta", "link", "notes"}

(* A refusal of the input (truncated, malformed, nested too deep), or an   *)
(* event that could not be sent.                                           *)
Fail ==
  /\ mode \notin {"done", "failed"}
  /\ mode' = "failed"
  /\ stack' = IF OnStackToo THEN Pop ELSE stack
  /\ UNCHANGED <<docVars, readVars, shapeVars, caption>> /\ Quiet

Starts ==
  \/ \E of \in Families, attributes \in BOOLEAN : RootStart(of, attributes)
  \/ \E attributes \in BOOLEAN : Descend(attributes)
  \/ \E tag \in Tags : FlattenedStart(tag) \/ TableStart(tag)
  \/ \E what \in {"record", "infrastructure", "link", "fact", "other"} :
       XbrlStart(what)
  \/ IslandStart \/ Skip \/ Meta \/ BeginTable
  \/ \E isCaption \in BOOLEAN : BeginCapture(isCaption)
  \/ \E attributed \in BOOLEAN : PictureStart(attributed)
  \/ SubtreeStart

Ends ==
  \/ FlattenedEnd \/ IslandEnd \/ CaptionEnd \/ CaptureEnd \/ FactEnd
  \/ CellEnd \/ HeaderSectionEnd \/ RowEnd \/ OtherTableEnd \/ TableEnd
  \/ ElementEnd \/ SubtreeEnd

Sends == SendPicture \/ SendNote \/ NotesSent \/ SendStatus

Over == mode \in {"done", "failed"} /\ UNCHANGED driverVars

Next == Starts \/ Text \/ Ends \/ Sends \/ Fail \/ Over

Spec == Init /\ [][Next]_driverVars

-----------------------------------------------------------------------------
(* Properties *)

Modes == {"prolog", "content", "picture", "subtree", "meta", "link", "notes",
          "trailer", "done", "failed"}

Frames == [tag : Tags, own : {"none", "blank", "text"}, sent : BOOLEAN,
           attributes : BOOLEAN]

Events ==
       [kind : {"none", "info", "record", "status"}]
  \cup [kind : {"item"}, index : Nat]
  \cup [kind : {"table"}, index : Nat, ref : Nat]
  \cup [kind : {"row"}, ref : Nat, row : Nat]
  \cup [kind : {"end"}, ref : Nat, rows : Nat]

(* The driver's state has its declared types; the counters that the code   *)
(* decrements or compares with a stack length stay natural numbers.        *)
TypeOK ==
  /\ family \in {"generic", "xbrl", "doclang", "mapped"} /\ mode \in Modes
  /\ elements \in Nat /\ open \in Nat
  /\ stack \in Seq(Frames)
  /\ depth \in Nat /\ note \in Nat /\ notes \in Nat
  /\ island \in Nat
  /\ capture \in [depth : Nat, text : BOOLEAN, caption : BOOLEAN]
  /\ fact \in [depth : Nat, index : Nat]
  /\ table \in [depth : Nat, ref : Nat, rows : Nat, headers : Nat,
                row : {"none", "empty", "cells"}, cell : Nat]
  /\ caption \in Nat /\ index \in Nat /\ tables \in Nat
  /\ last \in Events

(* The frames say where the reader is: every element the reader has open   *)
(* is either on the stack or inside the subtree being read whole, so that  *)
(* the depths the shapes compare with the stack mean elements, and no      *)
(* document makes the stack longer than MAX_DEPTH (next_step bounds        *)
(* open_elements; read_meta_tree, consume_subtree and the note reader      *)
(* count for themselves).                                                  *)
StackMatchesReader ==
  /\ open + (IF OnStackToo THEN 1 ELSE 0) = Len(stack) + depth
  /\ Len(stack) <= MaxDepth
  /\ mode \in {"content", "picture"} => open > 0

(* Of island, capture, fact and table at most one is open, its element is  *)
(* still on the stack, and an open cell lies strictly inside its table.    *)
(* on_end compares depths for equality only: a shape whose element is gone *)
(* would stay open for the rest of the document and swallow it.            *)
Shapes == <<island, capture.depth, fact.depth, table.depth>>

ShapesOnStack ==
  /\ \A i, j \in 1..4 : Shapes[i] > 0 /\ Shapes[j] > 0 => i = j
  /\ \A i \in 1..4 : Shapes[i] <= Len(stack)
  /\ table.cell > 0 => table.depth < table.cell /\ table.cell <= Len(stack)
  /\ \A i \in 1..4 : Shapes[i] > 0 => mode \in {"content", "failed"}

(* A caption waits no longer than its wrapper is open, so that it never    *)
(* reaches a table outside it (finish_capture, on_end).                    *)
CaptionInWrapper == caption <= Len(stack)

(* The table's count of open header sections is the number of header       *)
(* sections open in it outside a cell, and a row is only open inside a row *)
(* element: the flag of a row says "the row sits inside thead" (xml.proto) *)
(* however sections, rows and cells nest.                                  *)
Inside == {i \in 1..Len(stack) :
             table.depth < i /\ (table.cell = 0 \/ i < table.cell)}

TableMatchesStack ==
  table.depth > 0 =>
    /\ table.headers = Cardinality({i \in Inside : stack[i].tag = "thead"})
    /\ table.row # "none" => \E i \in Inside : stack[i].tag = "row"

(* Only the innermost element holds text not yet given: a run of text ends *)
(* at the start tag of a child, so no item mixes the text before a child   *)
(* with the text after it (flush_own_text).                                *)
TextOnTop == \A i \in 1..Len(stack) : stack[i].own = "text" => i = Len(stack)

(* A caption that waits goes out, with a table or as an item of its own,   *)
(* in the step in which it stops waiting or another one takes its place.   *)
CaptionAnswered ==
  [][ /\ caption > 0
      /\ \/ caption' # caption
         \/ capture.caption /\ capture.text /\ capture' # capture
      => index' = index + 1 ]_driverVars

(* What README.md says of the stream: "content events in document order".  *)
(* A caption that waits was read before whatever is sent next, so it is    *)
(* what is sent next.                                                      *)
CaptionInOrder ==
  [][ caption > 0 /\ index' > index =>
        \/ caption' # caption
        \/ capture.caption /\ capture' # capture ]_driverVars

(* Text of a generic document leaves its element only as an item, whatever *)
(* follows it: a child, an island, the end tag.  dialect.rs: the generic   *)
(* rules keep everything.                                                  *)
OwnTextGiven ==
  [][ \A i \in DOMAIN stack :
        stack[i].own = "text" =>
          \/ index' = index + 1
          \/ i \in DOMAIN stack' /\ stack'[i].own = "text" ]_driverVars

(* Whatever the document, what is sent is an EventStream: indexes without  *)
(* gap or repetition, tables that do not overlap or nest, rows numbered    *)
(* from zero and counted at the end, nothing between, and a trailer only   *)
(* with no table open.                                                     *)
Stream == INSTANCE EventStream WITH
  stage <- IF mode = "prolog" THEN "start"
           ELSE IF mode = "done" THEN "done"
           ELSE IF mode = "failed" THEN "cut" ELSE "open",
  next  <- IF fact.depth > 0 THEN fact.index ELSE index,
  table <- table.ref,
  rows  <- table.rows

GivesStream == Stream!Spec

=============================================================================
