--------------------------- MODULE XmlDriverProofs ---------------------------
(***************************************************************************)
(* The driver's frames, shapes and captions, for any bound on depth and    *)
(* any document, and that what it sends is an EventStream.                 *)
(***************************************************************************)
EXTENDS XmlDriver, FiniteSetTheorems, SequenceTheorems, TLAPS

(* Where the driver reads says how much is on the stack and in a subtree.  *)
Placed ==
  /\ mode \in {"prolog", "trailer", "done"} => Len(stack) = 0
  /\ mode \in {"content", "picture", "subtree"} => Len(stack) > 0
  /\ OnStackToo => Len(stack) > 1 /\ caption < Len(stack)
  /\ Reading => depth > 0
  /\ ~Reading /\ mode # "failed" => depth = 0

Held(d) == d <= Len(stack) /\ (d > 0 => mode \in {"content", "failed"} /\ caption < d)

(* ShapesOnStack, and what its steps rest on: a caption that waits belongs *)
(* to an element outside every shape, and a shape that is not open is      *)
(* empty.                                                                  *)
ShapesHeld ==
  /\ Held(island) /\ Held(capture.depth) /\ Held(fact.depth) /\ Held(table.depth)
  /\ island > 0 => capture.depth = 0 /\ fact.depth = 0 /\ table.depth = 0
  /\ capture.depth > 0 => fact.depth = 0 /\ table.depth = 0
  /\ fact.depth > 0 => table.depth = 0 /\ index = fact.index + 1
  /\ table.cell > 0 => table.depth < table.cell /\ table.cell <= Len(stack)
  /\ table.depth > 0 => table.ref > 0
  /\ table.depth = 0 => table = NoTable

DriverInv ==
  TypeOK /\ StackMatchesReader /\ CaptionInWrapper /\ Placed /\ ShapesHeld

-----------------------------------------------------------------------------
(* What pushing and popping do to the stack.                               *)
LEMMA Pushed ==
  ASSUME stack \in Seq(Frames), NEW f \in Frames
  PROVE  Append(stack, f) \in Seq(Frames) /\ Len(Append(stack, f)) = Len(stack) + 1
OBVIOUS

LEMMA Popped ==
  ASSUME stack \in Seq(Frames), Len(stack) > 0
  PROVE  /\ Pop \in Seq(Frames) /\ Len(Pop) = Len(stack) - 1
         /\ \A i \in 1..(Len(stack) - 1) : Pop[i] = stack[i]
<1> DEFINE n == Len(stack) - 1
<1>1. n \in Nat /\ \A i \in 1..n : stack[i] \in Frames
  OBVIOUS
<1>2. Pop = SubSeq(stack, 1, n)
  BY DEF Pop
<1> HIDE DEF n
<1>3. /\ SubSeq(stack, 1, n) \in Seq(Frames)
      /\ Len(SubSeq(stack, 1, n)) = IF 1 <= n THEN n - 1 + 1 ELSE 0
      /\ \A i \in 1..(n - 1 + 1) : SubSeq(stack, 1, n)[i] = stack[1 + i - 1]
  BY <1>1, SubSeqProperties
<1>4. Len(Pop) = n /\ \A i \in 1..n : Pop[i] = stack[i]
  BY <1>1, <1>2, <1>3
<1> QED
  BY <1>2, <1>3, <1>4 DEF n

LEMMA PlainFrame == \A tag \in Tags : Plain(tag) \in Frames
BY DEF Plain, Frame, Frames

LEMMA DescendedFrame == \A of : \A a \in BOOLEAN : Descended(of, a) \in Frames
BY DEF Descended, Plain, Frame, Frames, Tags

(* Flushing the innermost run changes one frame and no length.             *)
LEMMA InterruptedStack ==
  ASSUME stack \in Seq(Frames), Len(stack) > 0
  PROVE  Interrupted \in Seq(Frames) /\ Len(Interrupted) = Len(stack)
<1>1. stack[Len(stack)] \in Frames
  OBVIOUS
<1>2. Flushed(stack[Len(stack)]) \in Frames
  BY <1>1 DEF Flushed, Frames
<1>3. Interrupted = stack
        \/ Interrupted = [stack EXCEPT ![Len(stack)] = Flushed(stack[Len(stack)])]
  BY DEF Interrupted
<1>4. ASSUME NEW f \in Frames
      PROVE  /\ [stack EXCEPT ![Len(stack)] = f] \in Seq(Frames)
             /\ Len([stack EXCEPT ![Len(stack)] = f]) = Len(stack)
  OBVIOUS
<1> QED
  BY <1>2, <1>3, <1>4

LEMMA EventTypes ==
  /\ \A i \in Nat : [kind |-> "item", index |-> i] \in Events
  /\ \A i, r \in Nat : [kind |-> "table", index |-> i, ref |-> r] \in Events
  /\ \A r, n \in Nat : [kind |-> "row", ref |-> r, row |-> n] \in Events
  /\ \A r, n \in Nat : [kind |-> "end", ref |-> r, rows |-> n] \in Events
  /\ \A k \in {"none", "info", "record", "status"} : [kind |-> k] \in Events
BY DEF Events

(* Sending keeps the types of what was sent.                               *)
SentOK == index \in Nat /\ tables \in Nat /\ last \in Events

LEMMA Sending ==
  ASSUME SentOK
  PROVE  /\ Quiet => SentOK'
         /\ SendNext => SentOK' /\ index' = index + 1
         /\ SendRecord => SentOK'
         /\ \A closing \in BOOLEAN : SendRun(closing) => SentOK'
         /\ \A i \in Nat : SendItem(i) /\ index' = index => SentOK'
BY EventTypes DEF SentOK, Quiet, SendNext, SendRecord, SendRun, SendItem, sentVars

-----------------------------------------------------------------------------
LEMMA InitInv == Init => DriverInv
<1> SUFFICES ASSUME Init PROVE DriverInv
  OBVIOUS
<1>1. stack \in Seq(Frames) /\ Len(stack) = 0
  BY DEF Init
<1>2. last \in Events
  BY EventTypes DEF Init
<1> QED
  BY <1>1, <1>2, XmlDriverAssumption
     DEF Init, DriverInv, TypeOK, Modes, StackMatchesReader, CaptionInWrapper,
         Placed, ShapesHeld, Held, OnStackToo, Reading, NoCapture, NoFact, NoTable

TableType ==
  [depth : Nat, ref : Nat, rows : Nat, headers : Nat,
   row : {"none", "empty", "cells"}, cell : Nat]

ShapeTypes ==
  /\ island \in Nat
  /\ capture \in [depth : Nat, text : BOOLEAN, caption : BOOLEAN]
  /\ fact \in [depth : Nat, index : Nat]
  /\ table \in TableType
  /\ caption \in Nat

(* The part of the invariant that most steps only have to keep.            *)
ShapesOK == ShapeTypes /\ ShapesHeld /\ CaptionInWrapper /\ SentOK

LEMMA InvParts ==
  ASSUME DriverInv
  PROVE  /\ ShapesOK /\ stack \in Seq(Frames) /\ Len(stack) \in Nat
         /\ elements \in Nat /\ open \in Nat
         /\ depth \in Nat /\ note \in Nat /\ notes \in Nat
         /\ mode = "content" => open = Len(stack) /\ depth = 0 /\ Len(stack) > 0
BY DEF DriverInv, TypeOK, ShapesOK, ShapeTypes, TableType, SentOK,
       StackMatchesReader, Placed, OnStackToo, Reading

(* The shapes one by one, and that none is open away from "content".       *)
LEMMA ShapesAre ==
  ASSUME DriverInv
  PROVE  /\ island \in Nat /\ capture.depth \in Nat /\ fact.depth \in Nat
         /\ table.depth \in Nat /\ table.cell \in Nat /\ table.headers \in Nat
         /\ table.row \in {"none", "empty", "cells"}
         /\ table.depth = 0 => table = NoTable
         /\ mode \notin {"content", "failed"} =>
              island = 0 /\ capture.depth = 0 /\ fact.depth = 0 /\ table = NoTable
<1>1. ShapeTypes /\ ShapesHeld
  BY InvParts DEF ShapesOK
<1>2. /\ island \in Nat /\ capture.depth \in Nat /\ fact.depth \in Nat
      /\ table.depth \in Nat /\ table.cell \in Nat /\ table.headers \in Nat
      /\ table.row \in {"none", "empty", "cells"}
  BY ONLY <1>1 DEF ShapeTypes, TableType
<1>3. table.depth = 0 => table = NoTable
  BY ONLY <1>1 DEF ShapesHeld
<1>4. \A d \in {island, capture.depth, fact.depth, table.depth} :
        d > 0 => mode \in {"content", "failed"}
  BY ONLY <1>1 DEF ShapesHeld, Held
<1> QED
  BY ONLY <1>2, <1>3, <1>4

(* A start tag whose element goes on the stack.                            *)
LEMMA PushKeeps ==
  ASSUME DriverInv, mode = "content", ReadStart, UNCHANGED readVars,
         mode' \in {"content", "picture"},
         stack' \in Seq(Frames), Len(stack') = Len(stack) + 1, ShapesOK'
  PROVE  DriverInv'
<1>1. /\ open = Len(stack) /\ open \in Nat /\ elements \in Nat
      /\ depth = 0 /\ note \in Nat /\ notes \in Nat
      /\ family \in {"generic", "xbrl", "doclang", "mapped"}
  BY InvParts DEF DriverInv, TypeOK
<1>2. /\ open' = open + 1 /\ open < MaxDepth /\ elements' \in Nat
      /\ family' = family
  BY <1>1 DEF ReadStart, NextStart
<1>3. depth' = 0 /\ note' = note /\ notes' = notes
  BY <1>1 DEF readVars
<1>4. StackMatchesReader'
  BY <1>1, <1>2, <1>3, XmlDriverAssumption DEF StackMatchesReader, OnStackToo
<1>5. Placed'
  BY <1>1, <1>3 DEF Placed, OnStackToo, Reading
<1>6. TypeOK'
  BY <1>1, <1>2, <1>3 DEF TypeOK, Modes, ShapesOK, ShapeTypes, TableType, SentOK
<1> QED
  BY <1>4, <1>5, <1>6 DEF DriverInv, ShapesOK

(* An end tag that takes an element off the stack.                         *)
LEMMA PopKeeps ==
  ASSUME DriverInv, Close, ShapesOK'
  PROVE  /\ DriverInv' /\ Len(stack') = Len(stack) - 1
         /\ mode' \in {"content", "trailer"}
<1>1. /\ mode = "content" /\ open = Len(stack) /\ open > 0 /\ open \in Nat
      /\ elements \in Nat /\ depth = 0 /\ note \in Nat /\ notes \in Nat
      /\ stack \in Seq(Frames) /\ Len(stack) <= MaxDepth
      /\ family \in {"generic", "xbrl", "doclang", "mapped"}
  BY InvParts DEF DriverInv, TypeOK, Close, StackMatchesReader
<1>2. /\ open' = open - 1 /\ elements' = elements /\ family' = family
      /\ depth' = 0 /\ note' = note /\ notes' = notes
      /\ mode' = IF Len(stack) = 1 THEN "trailer" ELSE "content"
      /\ stack' = Pop
  BY <1>1 DEF Close, ReadEnd, readVars
<1>3. stack' \in Seq(Frames) /\ Len(stack') = Len(stack) - 1
  BY <1>1, <1>2, Popped
<1>4. StackMatchesReader'
  BY <1>1, <1>2, <1>3, XmlDriverAssumption DEF StackMatchesReader, OnStackToo
<1>5. Placed'
  BY <1>1, <1>2, <1>3 DEF Placed, OnStackToo, Reading
<1>6. TypeOK'
  BY <1>1, <1>2, <1>3 DEF TypeOK, Modes, ShapesOK, ShapeTypes, TableType, SentOK
<1> QED
  BY <1>2, <1>3, <1>4, <1>5, <1>6 DEF DriverInv, ShapesOK

(* A step that leaves shapes and caption alone and does not shorten the    *)
(* stack.                                                                  *)
LEMMA ShapesStay ==
  ASSUME ShapesOK, UNCHANGED <<shapeVars, caption>>, SentOK',
         Len(stack) \in Nat, Len(stack') \in Nat, Len(stack) <= Len(stack'),
         mode' = mode \/ mode' = "failed"
           \/ (island = 0 /\ capture.depth = 0 /\ fact.depth = 0 /\ table.depth = 0),
         index' = index \/ fact.depth = 0
  PROVE  ShapesOK'
<1>1. /\ island' = island /\ capture' = capture /\ fact' = fact
      /\ table' = table /\ caption' = caption
  BY DEF shapeVars
<1>2. ShapeTypes' /\ CaptionInWrapper'
  BY <1>1 DEF ShapesOK, ShapeTypes, CaptionInWrapper
<1>3. ASSUME NEW d \in Nat, Held(d), mode' = mode \/ mode' = "failed" \/ d = 0
      PROVE  d <= Len(stack') /\ (d > 0 => mode' \in {"content", "failed"} /\ caption' < d)
  BY <1>1, <1>3 DEF Held
<1>4. ShapesHeld'
  BY <1>1, <1>3 DEF ShapesOK, ShapesHeld, ShapeTypes, TableType, Held
<1> QED
  BY <1>2, <1>4 DEF ShapesOK

(* No shape is open where the dialect maps an element.                     *)
LEMMA NoShape ==
  ASSUME DriverInv, Mapping
  PROVE  island = 0 /\ capture.depth = 0 /\ fact.depth = 0 /\ table.depth = 0
BY InvParts DEF Mapping, Flattening, ShapesOK, ShapeTypes, TableType

LEMMA FlattenedStartKeeps ==
  ASSUME DriverInv, NEW tag \in Tags, FlattenedStart(tag)
  PROVE  DriverInv'
<1>1. /\ mode = "content" /\ mode' = mode /\ ReadStart /\ UNCHANGED readVars
      /\ stack' = Append(stack, Plain(tag)) /\ UNCHANGED <<shapeVars, caption>>
      /\ Quiet
  BY DEF FlattenedStart, Push
<1>2. stack' \in Seq(Frames) /\ Len(stack') = Len(stack) + 1
  BY <1>1, InvParts, Pushed, PlainFrame
<1>3. SentOK' /\ index' = index
  BY <1>1, InvParts, Sending DEF ShapesOK, Quiet, sentVars
<1>4. ShapesOK'
  BY <1>1, <1>2, <1>3, InvParts, ShapesStay
<1> QED
  BY <1>1, <1>2, <1>4, PushKeeps

LEMMA TableStartKeeps ==
  ASSUME DriverInv, NEW tag \in Tags, TableStart(tag)
  PROVE  DriverInv'
<1>1. /\ mode = "content" /\ mode' = mode /\ ReadStart /\ UNCHANGED readVars
      /\ stack' = Append(stack, Plain(tag)) /\ Quiet
      /\ table.depth > 0 /\ table.cell = 0
      /\ island' = island /\ capture' = capture /\ fact' = fact
      /\ caption' = caption
  BY DEF TableStart, Push, Tabulating
<1>2. stack' \in Seq(Frames) /\ Len(stack') = Len(stack) + 1
  BY <1>1, InvParts, Pushed, PlainFrame
<1>3. SentOK' /\ index' = index
  BY <1>1, InvParts, Sending DEF ShapesOK, Quiet, sentVars
<1>4. /\ table' \in TableType
      /\ table'.depth = table.depth /\ table'.ref = table.ref
      /\ table'.cell \in {0, Len(stack) + 1}
  <2> DEFINE h == IF tag = "thead" THEN table.headers + 1 ELSE table.headers
             w == IF tag = "row" THEN "empty" ELSE table.row
             c == IF tag = "cell" THEN Len(stack) + 1 ELSE table.cell
  <2>1. table' = [table EXCEPT !.headers = h, !.row = w, !.cell = c]
    BY DEF TableStart
  <2>2. table \in TableType /\ Len(stack) \in Nat
    BY InvParts DEF ShapesOK, ShapeTypes
  <2>3. /\ h \in Nat /\ w \in {"none", "empty", "cells"}
        /\ c \in Nat /\ c \in {0, Len(stack) + 1}
    BY <1>1, <2>2 DEF TableType
  <2> HIDE DEF h, w, c
  <2> QED
    BY <2>1, <2>2, <2>3 DEF TableType
<1>5. ShapesOK /\ Len(stack) \in Nat /\ table.depth \in Nat
  BY InvParts DEF ShapesOK, ShapeTypes, TableType
<1>6. ShapeTypes' /\ CaptionInWrapper'
  BY <1>1, <1>2, <1>4, <1>5 DEF ShapesOK, ShapeTypes, CaptionInWrapper
<1>7. ShapesHeld'
  BY <1>1, <1>2, <1>3, <1>4, <1>5 DEF ShapesOK, ShapeTypes, ShapesHeld, Held
<1> QED
  BY <1>1, <1>2, <1>3, <1>6, <1>7, PushKeeps DEF ShapesOK

LEMMA DescendKeeps ==
  ASSUME DriverInv, NEW attributes \in BOOLEAN, Descend(attributes)
  PROVE  DriverInv'
<1>1. /\ mode = "content" /\ mode' = mode /\ ReadStart /\ UNCHANGED readVars
      /\ stack' = Append(Interrupted, Descended(family, attributes))
      /\ UNCHANGED <<shapeVars, caption>> /\ SendRun(FALSE) /\ Mapping
  BY DEF Descend
<1>2. Interrupted \in Seq(Frames) /\ Len(Interrupted) = Len(stack)
  BY <1>1, InvParts, InterruptedStack
<1>3. stack' \in Seq(Frames) /\ Len(stack') = Len(stack) + 1
  BY <1>1, <1>2, DescendedFrame
<1>4. SentOK'
  BY <1>1, InvParts, Sending DEF ShapesOK
<1>5. ShapesOK'
  BY <1>1, <1>3, <1>4, InvParts, NoShape, ShapesStay
<1> QED
  BY <1>1, <1>3, <1>5, PushKeeps

(* Where a shape opens nothing else was open, and the caption that waits   *)
(* belongs to an element further out.                                      *)
LEMMA ShapeOpens ==
  ASSUME DriverInv, mode = "content", Mapping, ReadStart, UNCHANGED readVars,
         mode' = "content", stack' \in Seq(Frames), Len(stack') = Len(stack) + 1,
         SentOK', ShapeTypes', caption' = caption \/ caption' = 0,
         NEW d \in {0, Len(stack) + 1},
         \/ /\ island' = d
            /\ UNCHANGED <<capture, fact, table>>
         \/ /\ capture'.depth = d
            /\ UNCHANGED <<island, fact, table>>
         \/ /\ fact'.depth = d /\ (d > 0 => index' = fact'.index + 1)
            /\ UNCHANGED <<island, capture, table>>
         \/ /\ table'.depth = d /\ d > 0 /\ table'.cell = 0 /\ table'.ref > 0
            /\ UNCHANGED <<island, capture, fact>>
  PROVE  DriverInv'
<1>1. island = 0 /\ capture.depth = 0 /\ fact.depth = 0 /\ table.depth = 0
  BY NoShape
<1>2. /\ ShapesOK /\ Len(stack) \in Nat /\ Len(stack) > 0 /\ caption \in Nat
      /\ caption <= Len(stack) /\ table = NoTable
  BY <1>1, InvParts DEF ShapesOK, ShapeTypes, CaptionInWrapper, ShapesHeld
<1>3. CaptionInWrapper'
  BY <1>2 DEF CaptionInWrapper
<1>4. ShapesHeld'
  BY <1>1, <1>2 DEF ShapesHeld, Held, NoTable
<1> QED
  BY <1>3, <1>4, PushKeeps DEF ShapesOK

LEMMA IslandStartKeeps ==
  ASSUME DriverInv, IslandStart
  PROVE  DriverInv'
<1>1. /\ mode = "content" /\ mode' = mode /\ ReadStart /\ UNCHANGED readVars
      /\ stack' = Append(Interrupted, Plain("other")) /\ island' = Len(stack) + 1
      /\ capture' = capture /\ fact' = fact /\ table' = table /\ caption' = caption
      /\ SendRun(FALSE) /\ Mapping
  BY DEF IslandStart
<1>2. Interrupted \in Seq(Frames) /\ Len(Interrupted) = Len(stack)
  BY <1>1, InvParts, InterruptedStack
<1>3. stack' \in Seq(Frames) /\ Len(stack') = Len(stack) + 1
  BY <1>1, <1>2, PlainFrame DEF Tags
<1>4. SentOK'
  BY <1>1, InvParts, Sending DEF ShapesOK
<1>5. ShapeTypes'
  BY <1>1, InvParts DEF ShapesOK, ShapeTypes
<1> QED
  BY <1>1, <1>3, <1>4, <1>5, ShapeOpens

LEMMA PushedPlain ==
  ASSUME DriverInv, Push(Plain("other"))
  PROVE  /\ ReadStart /\ UNCHANGED readVars
         /\ stack' \in Seq(Frames) /\ Len(stack') = Len(stack) + 1
BY InvParts, Pushed, PlainFrame DEF Push, Tags

LEMMA BeginTableKeeps ==
  ASSUME DriverInv, BeginTable
  PROVE  DriverInv'
<1>1. /\ mode = "content" /\ mode' = mode /\ Mapping /\ Push(Plain("other"))
      /\ table' = [NoTable EXCEPT !.depth = Len(stack) + 1, !.ref = tables + 1]
      /\ island' = island /\ capture' = capture /\ fact' = fact /\ caption' = 0
      /\ last' = [kind |-> "table", index |-> index, ref |-> tables + 1]
      /\ index' = index + 1 /\ tables' = tables + 1
  BY DEF BeginTable, Mapped
<1>2. /\ Len(stack) \in Nat /\ index \in Nat /\ tables \in Nat /\ ShapeTypes
      /\ tables + 1 \in Nat
  BY InvParts DEF ShapesOK, SentOK
<1>3. SentOK'
  BY <1>1, <1>2, EventTypes DEF SentOK
<1>4. /\ table' \in TableType /\ table'.depth = Len(stack) + 1
      /\ table'.cell = 0 /\ table'.ref = tables + 1
  <2>1. table' = [depth |-> Len(stack) + 1, ref |-> tables + 1, rows |-> 0,
                  headers |-> 0, row |-> "none", cell |-> 0]
    BY <1>1 DEF NoTable
  <2> QED
    BY <1>2, <2>1 DEF TableType
<1>5. ShapeTypes' /\ table'.ref > 0
  BY <1>1, <1>2, <1>4 DEF ShapeTypes
<1> QED
  BY <1>1, <1>2, <1>3, <1>4, <1>5, PushedPlain, ShapeOpens

LEMMA BeginCaptureKeeps ==
  ASSUME DriverInv, NEW isCaption \in BOOLEAN, BeginCapture(isCaption)
  PROVE  DriverInv'
<1>1. /\ mode = "content" /\ mode' = mode /\ Mapping /\ Push(Plain("other"))
      /\ capture' = [depth |-> Len(stack) + 1, text |-> FALSE, caption |-> isCaption]
      /\ island' = island /\ fact' = fact /\ table' = table /\ caption' = caption
      /\ Quiet
  BY DEF BeginCapture, Mapped
<1>2. SentOK'
  BY <1>1, InvParts, Sending DEF ShapesOK
<1>3. ShapeTypes' /\ capture'.depth = Len(stack) + 1
  BY <1>1, InvParts DEF ShapesOK, ShapeTypes
<1> QED
  BY <1>1, <1>2, <1>3, PushedPlain, ShapeOpens

LEMMA PictureStartKeeps ==
  ASSUME DriverInv, NEW attributed \in BOOLEAN, PictureStart(attributed)
  PROVE  DriverInv'
<1>1. /\ mode = "content" /\ Mapping /\ Push(Plain("other"))
      /\ UNCHANGED shapeVars /\ (SendNext \/ Quiet)
      /\ mode' \in {"content", "picture"} /\ caption' \in {caption, 0}
  BY DEF PictureStart, Mapped
<1>2. /\ island = 0 /\ capture.depth = 0 /\ fact.depth = 0 /\ table.depth = 0
      /\ ShapesOK /\ Len(stack) \in Nat /\ caption \in Nat
      /\ caption <= Len(stack)
  BY <1>1, NoShape, InvParts DEF ShapesOK, ShapeTypes, CaptionInWrapper
<1>3. SentOK'
  BY <1>1, <1>2, Sending DEF ShapesOK
<1>4. /\ stack' \in Seq(Frames) /\ Len(stack') = Len(stack) + 1 /\ ReadStart
      /\ UNCHANGED readVars
  BY <1>1, PushedPlain
<1>5. /\ ShapeTypes' /\ CaptionInWrapper'
  BY <1>1, <1>2, <1>4 DEF ShapesOK, ShapeTypes, shapeVars, CaptionInWrapper
<1>6. ShapesHeld'
  BY <1>1, <1>2, <1>4 DEF ShapesOK, ShapesHeld, shapeVars, Held, NoTable
<1> QED
  BY <1>1, <1>3, <1>4, <1>5, <1>6, PushKeeps DEF ShapesOK

(* A start tag of a subtree that is read whole: the element goes on the    *)
(* stack or not, and is counted by the reader.                             *)
LEMMA SubtreeBegins ==
  ASSUME DriverInv, mode = "content", Mapping, ReadStart, Quiet,
         UNCHANGED <<note, notes, shapeVars, caption>>, depth' = 1,
         \/ mode' = "subtree" /\ UNCHANGED stack
         \/ mode' \in {"meta", "link"} /\ stack' = Append(stack, Plain("other"))
  PROVE  DriverInv'
<1>1. /\ open = Len(stack) /\ open \in Nat /\ elements \in Nat /\ Len(stack) > 0
      /\ note \in Nat /\ notes \in Nat /\ stack \in Seq(Frames)
      /\ family \in {"generic", "xbrl", "doclang", "mapped"}
      /\ caption <= Len(stack) /\ caption \in Nat /\ Len(stack) <= MaxDepth
  BY InvParts DEF DriverInv, TypeOK, CaptionInWrapper, StackMatchesReader
<1>2. /\ open' = open + 1 /\ open < MaxDepth /\ elements' \in Nat
      /\ family' = family
  BY <1>1 DEF ReadStart, NextStart
<1>3. /\ stack' \in Seq(Frames)
      /\ Len(stack') = IF mode' = "subtree" THEN Len(stack) ELSE Len(stack) + 1
  BY <1>1, Pushed, PlainFrame DEF Tags
<1>4. ShapesOK'
  <2>1. SentOK' /\ index' = index
    BY InvParts, Sending DEF ShapesOK, Quiet, sentVars
  <2> QED
    BY <1>1, <1>3, <2>1, NoShape, InvParts, ShapesStay
<1>5. StackMatchesReader'
  BY <1>1, <1>2, <1>3, XmlDriverAssumption DEF StackMatchesReader, OnStackToo
<1>6. Placed'
  BY <1>1, <1>3 DEF Placed, OnStackToo, Reading
<1>7. TypeOK'
  <2>1. ShapeTypes' /\ SentOK'
    BY <1>4 DEF ShapesOK
  <2>2. /\ mode' \in Modes /\ family' \in {"generic", "xbrl", "doclang", "mapped"}
        /\ elements' \in Nat /\ open' \in Nat /\ depth' \in Nat /\ note' \in Nat
        /\ notes' \in Nat /\ stack' \in Seq(Frames)
    BY <1>1, <1>2, <1>3 DEF Modes
  <2> QED
    BY ONLY <2>1, <2>2 DEF TypeOK, ShapeTypes, TableType, SentOK
<1> QED
  BY <1>4, <1>5, <1>6, <1>7 DEF DriverInv, ShapesOK

LEMMA SkipKeeps == ASSUME DriverInv, Skip PROVE DriverInv'
BY SubtreeBegins DEF Skip, Mapped

LEMMA MetaKeeps == ASSUME DriverInv, Meta PROVE DriverInv'
BY SubtreeBegins DEF Meta, Mapped

LEMMA XbrlStartKeeps ==
  ASSUME DriverInv, NEW what, XbrlStart(what)
  PROVE  DriverInv'
<1> USE DEF XbrlStart
<1>1. CASE what \in {"record", "infrastructure"}
  BY <1>1, SubtreeBegins DEF shapeVars
<1>2. CASE what = "link"
  BY <1>2, SubtreeBegins DEF shapeVars
<1>3. CASE what = "fact"
  <2>1. /\ mode = "content" /\ mode' = mode /\ Mapping /\ Push(Plain("other"))
        /\ fact' = [depth |-> Len(stack) + 1, index |-> index]
        /\ index' = index + 1 /\ tables' = tables /\ last' = last
        /\ island' = island /\ capture' = capture /\ table' = table
        /\ caption' = caption
    BY <1>3
  <2>2. SentOK'
    BY <2>1, InvParts DEF ShapesOK, SentOK
  <2>3. ShapeTypes' /\ fact'.depth = Len(stack) + 1 /\ fact'.index = index
    BY <2>1, InvParts DEF ShapesOK, ShapeTypes, SentOK
  <2> QED
    BY <2>1, <2>2, <2>3, PushedPlain, ShapeOpens
<1>4. CASE what = "other"
  <2>1. /\ mode = "content" /\ mode' = mode /\ Push(Plain("other"))
        /\ UNCHANGED <<shapeVars, caption>> /\ Quiet
    BY <1>4 DEF shapeVars
  <2>2. SentOK' /\ index' = index
    BY <2>1, InvParts, Sending DEF ShapesOK, Quiet, sentVars
  <2>3. /\ stack' \in Seq(Frames) /\ Len(stack') = Len(stack) + 1 /\ ReadStart
        /\ UNCHANGED readVars
    BY <2>1, PushedPlain
  <2>4. ShapesOK'
    BY <2>1, <2>2, <2>3, InvParts, ShapesStay
  <2> QED
    BY <2>1, <2>3, <2>4, PushKeeps
<1> QED
  BY <1>1, <1>2, <1>3, <1>4

LEMMA RootStartKeeps ==
  ASSUME DriverInv, NEW of \in Families, NEW attributes \in BOOLEAN,
         RootStart(of, attributes)
  PROVE  DriverInv'
<1>1. /\ mode = "prolog" /\ Len(stack) = 0 /\ depth = 0 /\ open = 0
      /\ elements \in Nat /\ note \in Nat /\ notes \in Nat
      /\ of \in {"generic", "xbrl", "doclang", "mapped"}
  BY InvParts, XmlDriverAssumption
     DEF RootStart, DriverInv, Placed, StackMatchesReader, OnStackToo, Reading
<1>2. /\ open' = open + 1 /\ elements' \in Nat /\ family' = of
      /\ mode' = "content" /\ depth' = 0 /\ note' = note /\ notes' = notes
      /\ stack' = <<Descended(of, attributes)>> /\ index' = index
      /\ UNCHANGED <<shapeVars, caption>>
  BY <1>1 DEF RootStart, NextStart, readVars
<1>3. stack' \in Seq(Frames) /\ Len(stack') = 1
  BY <1>2, DescendedFrame
<1>4. SentOK'
  BY InvParts, EventTypes DEF RootStart, ShapesOK, SentOK
<1>5. island = 0 /\ capture.depth = 0 /\ fact.depth = 0 /\ table.depth = 0
  BY <1>1, InvParts DEF ShapesOK, ShapesHeld, Held, ShapeTypes, TableType
<1>6. ShapesOK'
  BY <1>1, <1>2, <1>3, <1>4, <1>5, InvParts, ShapesStay
<1>7. StackMatchesReader'
  BY <1>1, <1>2, <1>3, XmlDriverAssumption DEF StackMatchesReader, OnStackToo
<1>8. Placed'
  BY <1>2, <1>3 DEF Placed, OnStackToo, Reading
<1>9. TypeOK'
  BY <1>1, <1>2, <1>3, <1>6
     DEF TypeOK, Modes, ShapesOK, ShapeTypes, TableType, SentOK
<1> QED
  BY <1>6, <1>7, <1>8, <1>9 DEF DriverInv, ShapesOK

LEMMA TextKeeps == ASSUME DriverInv, Text PROVE DriverInv'
<1>1. /\ mode = "content" /\ mode' = mode /\ UNCHANGED docVars
      /\ UNCHANGED readVars /\ Quiet
      /\ island' = island /\ fact' = fact /\ table' = table /\ caption' = caption
      /\ \/ capture' = [capture EXCEPT !.text = TRUE] /\ stack' = stack
         \/ /\ stack' = [stack EXCEPT ![Len(stack)].own = "text"]
            /\ capture' = capture
  BY DEF Text
<1>2. ShapesOK /\ stack \in Seq(Frames) /\ Len(stack) \in Nat /\ Len(stack) > 0
  BY <1>1, InvParts
<1>3. stack' \in Seq(Frames) /\ Len(stack') = Len(stack)
  <2>1. stack[Len(stack)] \in Frames
    BY <1>2
  <2>2. [stack[Len(stack)] EXCEPT !.own = "text"] \in Frames
    BY <2>1 DEF Frames
  <2>3. ASSUME NEW f \in Frames
        PROVE  /\ [stack EXCEPT ![Len(stack)] = f] \in Seq(Frames)
               /\ Len([stack EXCEPT ![Len(stack)] = f]) = Len(stack)
    BY <1>2
  <2> QED
    BY <1>1, <1>2, <2>2, <2>3
<1>4. SentOK' /\ index' = index
  BY <1>1, <1>2, Sending DEF ShapesOK, Quiet, sentVars
<1>5. capture' \in [depth : Nat, text : BOOLEAN, caption : BOOLEAN]
      /\ capture'.depth = capture.depth
  BY <1>1, <1>2 DEF ShapesOK, ShapeTypes
<1>6. ShapeTypes' /\ CaptionInWrapper'
  BY <1>1, <1>2, <1>3, <1>5 DEF ShapesOK, ShapeTypes, CaptionInWrapper
<1>7. ShapesHeld'
  BY <1>1, <1>2, <1>3, <1>4, <1>5
     DEF ShapesOK, ShapesHeld, ShapeTypes, TableType, Held
<1>8. StackMatchesReader' /\ Placed'
  BY <1>1, <1>2, <1>3
     DEF DriverInv, StackMatchesReader, Placed, OnStackToo, Reading, docVars, readVars
<1>9. TypeOK'
  BY <1>1, <1>3, <1>4, <1>6
     DEF DriverInv, TypeOK, ShapesOK, ShapeTypes, TableType, SentOK, docVars, readVars
<1> QED
  BY <1>4, <1>6, <1>7, <1>8, <1>9 DEF DriverInv, ShapesOK

(* An end tag that closes what opened with its start tag, or nothing.      *)
(* Whatever shape is left is open further out, or none is.                 *)
LEMMA ShapeCloses ==
  ASSUME DriverInv, Close, SentOK', ShapeTypes',
         \/ caption' <= Len(stack) - 1
              /\ island' = 0 /\ capture'.depth = 0 /\ fact'.depth = 0
              /\ table' = NoTable
         \/ /\ UNCHANGED caption
            /\ island' = island /\ fact' = fact
            /\ capture' = capture
            /\ \/ island > 0 \/ capture.depth > 0 \/ fact.depth > 0
               \/ table.depth > 0
            /\ index' = index
            /\ island # Len(stack) /\ capture.depth # Len(stack)
            /\ fact.depth # Len(stack) /\ table.depth # Len(stack)
            /\ table'.depth = table.depth /\ table'.ref = table.ref
            /\ table.depth = 0 => table' = table
            /\ table'.cell \in {0, table.cell} /\ table'.cell # Len(stack)
  PROVE  DriverInv'
<1>1. /\ mode = "content" /\ stack' = Pop /\ Len(stack) \in Nat /\ Len(stack) > 0
      /\ mode' = IF Len(stack) = 1 THEN "trailer" ELSE "content"
      /\ ShapesOK /\ stack \in Seq(Frames)
  BY InvParts DEF Close
<1>2. Len(stack') = Len(stack) - 1
  BY <1>1, Popped
<1>3. CASE /\ caption' <= Len(stack) - 1
           /\ island' = 0 /\ capture'.depth = 0 /\ fact'.depth = 0
           /\ table' = NoTable
  <2>1. CaptionInWrapper'
    BY <1>2, <1>3 DEF CaptionInWrapper
  <2>2. ShapesHeld'
    BY <1>1, <1>2, <1>3 DEF ShapesHeld, Held, NoTable
  <2> QED
    BY <2>1, <2>2, PopKeeps DEF ShapesOK
<1>4. CASE ~(/\ caption' <= Len(stack) - 1
             /\ island' = 0 /\ capture'.depth = 0 /\ fact'.depth = 0
             /\ table' = NoTable)
  <2>1. /\ caption' = caption /\ island' = island /\ fact' = fact
        /\ capture' = capture /\ index' = index
        /\ island > 0 \/ capture.depth > 0 \/ fact.depth > 0 \/ table.depth > 0
        /\ island # Len(stack) /\ capture.depth # Len(stack)
        /\ fact.depth # Len(stack) /\ table.depth # Len(stack)
        /\ table'.depth = table.depth /\ table'.ref = table.ref
        /\ table.depth = 0 => table' = table
        /\ table'.cell \in {0, table.cell} /\ table'.cell # Len(stack)
    BY <1>4
  <2>2. /\ island \in Nat /\ capture.depth \in Nat /\ fact.depth \in Nat
        /\ table.depth \in Nat /\ table.cell \in Nat /\ caption \in Nat
    BY <1>1 DEF ShapesOK, ShapeTypes, TableType
  <2>3. ASSUME NEW d \in Nat, Held(d), d # Len(stack), d > 0
        PROVE  /\ d <= Len(stack') /\ mode' = "content" /\ caption' < d
    BY <1>1, <1>2, <2>1, <2>3 DEF Held
  <2>4. ShapesHeld'
    BY <1>1, <1>2, <2>1, <2>2, <2>3 DEF ShapesOK, ShapesHeld, Held
  <2>5. CaptionInWrapper'
    BY <1>1, <1>2, <2>1, <2>2, <2>3 DEF ShapesOK, ShapesHeld, CaptionInWrapper
  <2> QED
    BY <2>4, <2>5, PopKeeps DEF ShapesOK
<1> QED
  BY <1>3, <1>4

(* What an end tag in content may rest on.                                 *)
LEMMA AtEnd ==
  ASSUME DriverInv, Close
  PROVE  /\ ShapesOK /\ Len(stack) \in Nat /\ Len(stack) > 0
         /\ island \in Nat /\ capture.depth \in Nat /\ fact.depth \in Nat
         /\ table.depth \in Nat /\ table.cell \in Nat /\ caption \in Nat
         /\ fact.index \in Nat /\ table \in TableType
         /\ table.depth = 0 => table = NoTable /\ table.cell = 0
         /\ ~Flattening => island = 0 /\ capture.depth = 0 /\ fact.depth = 0
BY InvParts
   DEF Close, ShapesOK, ShapesHeld, ShapeTypes, TableType, NoTable, Flattening

LEMMA FlattenedEndKeeps == ASSUME DriverInv, FlattenedEnd PROVE DriverInv'
<1>1. /\ Close /\ island' = island /\ capture' = capture /\ fact' = fact
      /\ table' = table /\ caption' = caption /\ Quiet
  BY DEF FlattenedEnd, shapeVars
<1>2. /\ ShapesOK /\ Len(stack) \in Nat /\ Len(stack) > 0
      /\ island \in Nat /\ capture.depth \in Nat /\ fact.depth \in Nat
      /\ table.depth \in Nat /\ table.cell \in Nat
      /\ table.depth = 0 => table.cell = 0
      /\ ~Flattening => island = 0 /\ capture.depth = 0 /\ fact.depth = 0
  BY <1>1, AtEnd
<1>3. SentOK' /\ index' = index
  BY <1>1, <1>2, Sending DEF ShapesOK, Quiet, sentVars
<1>4. ShapeTypes'
  BY <1>1, <1>2 DEF ShapesOK, ShapeTypes
<1>5. /\ island > 0 \/ capture.depth > 0 \/ fact.depth > 0 \/ table.depth > 0
      /\ island # Len(stack) /\ capture.depth # Len(stack)
      /\ fact.depth # Len(stack) /\ table.depth # Len(stack)
      /\ table.cell # Len(stack)
  BY <1>2 DEF FlattenedEnd, ShapesOK, ShapesHeld, Tabulating
<1> QED
  BY <1>1, <1>2, <1>3, <1>4, <1>5, ShapeCloses

LEMMA IslandEndKeeps == ASSUME DriverInv, IslandEnd PROVE DriverInv'
<1>1. /\ Close /\ island > 0 /\ island = Len(stack) /\ island' = 0 /\ SendNext
      /\ capture' = capture /\ fact' = fact /\ table' = table /\ caption' = caption
  BY DEF IslandEnd
<1>2. SentOK' /\ ShapeTypes'
  BY <1>1, AtEnd, Sending DEF ShapesOK, ShapeTypes
<1>3. /\ capture.depth = 0 /\ fact.depth = 0 /\ table = NoTable
      /\ caption <= Len(stack) - 1
  BY <1>1, AtEnd DEF ShapesOK, ShapesHeld, Held
<1> QED
  BY <1>1, <1>2, <1>3, ShapeCloses

LEMMA CaptureEnds ==
  ASSUME DriverInv, Close, island = 0, capture.depth > 0,
         Len(stack) = capture.depth, capture' = NoCapture,
         caption' \in {caption, capture.depth - 1}, SendNext \/ Quiet,
         UNCHANGED <<island, fact, table>>
  PROVE  DriverInv'
<1>1. /\ fact.depth = 0 /\ table = NoTable /\ caption <= Len(stack) - 1
      /\ capture.depth - 1 \in Nat /\ capture'.depth = 0
  BY AtEnd DEF ShapesOK, ShapesHeld, Held, NoCapture
<1>2. SentOK'
  BY AtEnd, Sending DEF ShapesOK
<1>3. ShapeTypes'
  BY <1>1, AtEnd DEF ShapesOK, ShapeTypes, NoCapture
<1> QED
  BY <1>1, <1>2, <1>3, AtEnd, ShapeCloses

LEMMA CaptionEndKeeps == ASSUME DriverInv, CaptionEnd PROVE DriverInv'
BY CaptureEnds DEF CaptionEnd

LEMMA CaptureEndKeeps == ASSUME DriverInv, CaptureEnd PROVE DriverInv'
BY CaptureEnds DEF CaptureEnd

LEMMA FactEndKeeps == ASSUME DriverInv, FactEnd PROVE DriverInv'
<1>1. /\ Close /\ island = 0 /\ capture.depth = 0 /\ fact.depth > 0
      /\ Len(stack) = fact.depth /\ fact' = NoFact
      /\ SendItem(fact.index) /\ index' = index
      /\ island' = island /\ capture' = capture /\ table' = table
      /\ caption' = caption
  BY DEF FactEnd
<1>2. SentOK'
  BY <1>1, AtEnd, Sending DEF ShapesOK
<1>3. ShapeTypes' /\ fact'.depth = 0
  BY <1>1, AtEnd DEF ShapesOK, ShapeTypes, NoFact
<1>4. table = NoTable /\ caption <= Len(stack) - 1
  BY <1>1, AtEnd DEF ShapesOK, ShapesHeld, Held
<1> QED
  BY <1>1, <1>2, <1>3, <1>4, ShapeCloses

(* An end tag inside a table that leaves it open.                          *)
LEMMA TableGoesOn ==
  ASSUME DriverInv, Close, Tabulating, SentOK', index' = index,
         table' \in TableType, table'.depth = table.depth,
         table'.ref = table.ref, table'.cell = 0, table.depth # Len(stack),
         UNCHANGED <<island, capture, fact, caption>>
  PROVE  DriverInv'
<1>1. ShapeTypes'
  BY AtEnd DEF ShapesOK, ShapeTypes
<1>2. /\ island = 0 /\ capture.depth = 0 /\ fact.depth = 0 /\ table.depth > 0
      /\ Len(stack) > 0
  BY AtEnd DEF Tabulating
<1> QED
  BY <1>1, <1>2, ShapeCloses

LEMMA CellEndKeeps == ASSUME DriverInv, CellEnd PROVE DriverInv'
<1>1. /\ Close /\ Tabulating /\ table.cell > 0 /\ Len(stack) = table.cell
      /\ table' = [table EXCEPT !.cell = 0,
                                !.row = IF table.row = "none" THEN table.row
                                        ELSE "cells"]
      /\ UNCHANGED <<island, capture, fact, caption>> /\ Quiet
  BY DEF CellEnd
<1>2. SentOK' /\ index' = index
  BY <1>1, AtEnd, Sending DEF ShapesOK, Quiet, sentVars
<1>3. table.depth # Len(stack)
  BY <1>1, AtEnd DEF ShapesOK, ShapesHeld
<1>4. /\ table' \in TableType /\ table'.depth = table.depth
      /\ table'.ref = table.ref /\ table'.cell = 0
  <2> DEFINE w == IF table.row = "none" THEN table.row ELSE "cells"
  <2>1. w \in {"none", "empty", "cells"} /\ table \in TableType
    BY <1>1, AtEnd DEF TableType
  <2>2. table' = [table EXCEPT !.cell = 0, !.row = w]
    BY <1>1
  <2> HIDE DEF w
  <2> QED
    BY <2>1, <2>2 DEF TableType
<1> QED
  BY <1>1, <1>2, <1>3, <1>4, TableGoesOn

(* The element of a table is none of the names that mean something in one. *)
TableRoot == table.depth > 0 => stack[table.depth].tag = "other"

LEMMA HeaderSectionEndKeeps ==
  ASSUME DriverInv, TableRoot, HeaderSectionEnd PROVE DriverInv'
<1>1. /\ Close /\ Tabulating /\ table.cell = 0 /\ Top.tag = "thead"
      /\ table' = [table EXCEPT !.headers = IF table.headers > 0
                                            THEN table.headers - 1 ELSE 0]
      /\ UNCHANGED <<island, capture, fact, caption>> /\ Quiet
  BY DEF HeaderSectionEnd
<1>2. SentOK' /\ index' = index
  BY <1>1, AtEnd, Sending DEF ShapesOK, Quiet, sentVars
<1>3. table.depth # Len(stack)
  BY <1>1 DEF TableRoot, Top, Tabulating
<1>4. /\ table' \in TableType /\ table'.depth = table.depth
      /\ table'.ref = table.ref /\ table'.cell = 0
  <2> DEFINE h == IF table.headers > 0 THEN table.headers - 1 ELSE 0
  <2>1. h \in Nat /\ table \in TableType
    BY <1>1, AtEnd DEF TableType
  <2>2. table' = [table EXCEPT !.headers = h]
    BY <1>1
  <2> HIDE DEF h
  <2> QED
    BY <1>1, <2>1, <2>2 DEF TableType
<1> QED
  BY <1>1, <1>2, <1>3, <1>4, TableGoesOn

LEMMA RowEndKeeps ==
  ASSUME DriverInv, TableRoot, RowEnd PROVE DriverInv'
<1>1. /\ Close /\ Tabulating /\ table.cell = 0 /\ Top.tag = "row"
      /\ \/ /\ table' = [table EXCEPT !.row = "none", !.rows = table.rows + 1]
            /\ last' = [kind |-> "row", ref |-> table.ref, row |-> table.rows]
            /\ UNCHANGED <<index, tables>>
         \/ table' = [table EXCEPT !.row = "none"] /\ Quiet
      /\ UNCHANGED <<island, capture, fact, caption>>
  BY DEF RowEnd
<1>2. table \in TableType /\ SentOK
  BY <1>1, AtEnd DEF ShapesOK
<1>3. SentOK' /\ index' = index
  BY <1>1, <1>2, EventTypes DEF SentOK, Quiet, sentVars, TableType
<1>4. table.depth # Len(stack)
  BY <1>1 DEF TableRoot, Top, Tabulating
<1>5. /\ table' \in TableType /\ table'.depth = table.depth
      /\ table'.ref = table.ref /\ table'.cell = 0
  <2>1. PICK n \in {table.rows, table.rows + 1} :
          table' = [table EXCEPT !.row = "none", !.rows = n]
    <3>1. CASE table' = [table EXCEPT !.row = "none", !.rows = table.rows + 1]
      BY <3>1
    <3>2. CASE table' = [table EXCEPT !.row = "none"]
      <4>1. table' = [table EXCEPT !.row = "none", !.rows = table.rows]
        BY <1>2, <3>2 DEF TableType
      <4> QED
        BY <4>1
    <3> QED
      BY <1>1, <3>1, <3>2
  <2>2. n \in Nat
    BY <1>2 DEF TableType
  <2> QED
    BY <1>1, <1>2, <2>1, <2>2 DEF TableType
<1> QED
  BY <1>1, <1>3, <1>4, <1>5, TableGoesOn

LEMMA OtherTableEndKeeps == ASSUME DriverInv, OtherTableEnd PROVE DriverInv'
<1>1. /\ Close /\ Tabulating /\ table.cell = 0 /\ Len(stack) # table.depth
      /\ UNCHANGED <<shapeVars, caption>> /\ Quiet
  BY DEF OtherTableEnd, Unstructured
<1>2. SentOK' /\ index' = index
  BY <1>1, AtEnd, Sending DEF ShapesOK, Quiet, sentVars
<1>3. table \in TableType /\ table' = table
  BY <1>1, AtEnd DEF shapeVars
<1> QED
  BY <1>1, <1>2, <1>3, TableGoesOn DEF shapeVars

LEMMA TableEndKeeps == ASSUME DriverInv, TableEnd PROVE DriverInv'
<1>1. /\ Close /\ Tabulating /\ Len(stack) = table.depth /\ table' = NoTable
      /\ last' = [kind |-> "end", ref |-> table.ref, rows |-> table.rows]
      /\ UNCHANGED <<island, capture, fact, caption, index, tables>>
  BY DEF TableEnd, Unstructured
<1>2. SentOK'
  BY <1>1, AtEnd, EventTypes DEF ShapesOK, SentOK, TableType
<1>3. /\ island = 0 /\ capture.depth = 0 /\ fact.depth = 0
      /\ caption <= Len(stack) - 1
  BY <1>1, AtEnd DEF Tabulating, ShapesOK, ShapesHeld, Held
<1>4. NoTable \in TableType
  BY DEF NoTable, TableType
<1>5. ShapeTypes'
  BY <1>1, <1>4, AtEnd DEF ShapesOK, ShapeTypes
<1> QED
  BY <1>1, <1>2, <1>3, <1>5, ShapeCloses

LEMMA ElementEndKeeps == ASSUME DriverInv, ElementEnd PROVE DriverInv'
<1>1. /\ Close /\ Mapping /\ UNCHANGED shapeVars
      /\ \/ Len(stack) = caption /\ caption' = 0 /\ SendNext
         \/ Len(stack) # caption /\ caption' = caption /\ SendRun(TRUE)
  BY DEF ElementEnd
<1>2. SentOK'
  BY <1>1, AtEnd, Sending DEF ShapesOK
<1>3. /\ island = 0 /\ capture.depth = 0 /\ fact.depth = 0 /\ table = NoTable
  BY <1>1, NoShape, AtEnd
<1>4. caption' \in Nat /\ caption' <= Len(stack) - 1
  <2>1. /\ Len(stack) \in Nat /\ Len(stack) > 0 /\ caption \in Nat
        /\ caption <= Len(stack)
    BY <1>1, AtEnd DEF ShapesOK, CaptionInWrapper
  <2>2. caption' = 0 \/ (Len(stack) # caption /\ caption' = caption)
    BY <1>1
  <2> QED
    BY <2>1, <2>2
<1>5. ShapeTypes'
  BY <1>1, <1>4, AtEnd DEF ShapesOK, ShapeTypes, shapeVars
<1> QED
  BY <1>1, <1>2, <1>3, <1>4, <1>5, ShapeCloses DEF shapeVars

(* Steps that leave the shapes and the caption alone outside content, with *)
(* nothing open but what the reader reads whole.                           *)
LEMMA OutsideKeeps ==
  ASSUME DriverInv, mode # "content", UNCHANGED <<shapeVars, caption>>,
         mode' \in {"content", "subtree", "meta", "link", "notes", "done"},
         SentOK', StackMatchesReader', Placed', stack' \in Seq(Frames),
         caption <= Len(stack'),
         family' = family, elements' \in Nat, open' \in Nat,
         depth' \in Nat, note' \in Nat, notes' \in Nat, mode # "failed"
  PROVE  DriverInv'
<1>1. /\ island = 0 /\ capture.depth = 0 /\ fact.depth = 0 /\ table = NoTable
      /\ ShapesOK /\ family \in {"generic", "xbrl", "doclang", "mapped"}
  <2>1. island = 0 /\ capture.depth = 0 /\ fact.depth = 0 /\ table = NoTable
    BY ShapesAre
  <2>2. ShapesOK
    BY InvParts
  <2>3. family \in {"generic", "xbrl", "doclang", "mapped"}
    BY DEF DriverInv, TypeOK
  <2> QED
    BY <2>1, <2>2, <2>3
<1>2. ShapeTypes' /\ CaptionInWrapper'
  BY <1>1 DEF ShapesOK, ShapeTypes, shapeVars, CaptionInWrapper
<1>3. Len(stack') \in Nat
  OBVIOUS
<1>4. ShapesHeld'
  BY <1>1, <1>3 DEF ShapesHeld, Held, NoTable, shapeVars
<1>5. TypeOK'
  BY <1>1, <1>2 DEF TypeOK, Modes, ShapeTypes, TableType, SentOK
<1> QED
  BY <1>2, <1>4, <1>5 DEF DriverInv

(* What the readers of a whole subtree may rest on.                        *)
LEMMA AtRead ==
  ASSUME DriverInv
  PROVE  /\ stack \in Seq(Frames) /\ Len(stack) \in Nat /\ Len(stack) <= MaxDepth
         /\ open + (IF OnStackToo THEN 1 ELSE 0) = Len(stack) + depth
         /\ open \in Nat /\ elements \in Nat /\ depth \in Nat /\ note \in Nat
         /\ notes \in Nat /\ caption \in Nat /\ caption <= Len(stack) /\ SentOK
         /\ Reading => depth > 0 /\ Len(stack) > 0
         /\ OnStackToo => Len(stack) > 1 /\ caption < Len(stack)
BY InvParts
   DEF DriverInv, StackMatchesReader, Placed, CaptionInWrapper, ShapesOK,
       ShapeTypes, Reading, OnStackToo

LEMMA SubtreeStartKeeps == ASSUME DriverInv, SubtreeStart PROVE DriverInv'
<1>1. /\ Reading /\ NextStart /\ family' = family /\ depth' = depth + 1
      /\ note' \in {note, depth + 1} /\ mode' = mode /\ stack' = stack
      /\ notes' = notes /\ UNCHANGED <<shapeVars, caption>> /\ Quiet
  BY DEF SubtreeStart, ReadStart
<1>2. /\ mode \in {"subtree", "meta", "link"} /\ open' = open + 1
      /\ elements' = elements + 1
  BY <1>1 DEF Reading, NextStart
<1>3. /\ open \in Nat /\ elements \in Nat /\ depth \in Nat /\ note \in Nat
      /\ open + (IF OnStackToo THEN 1 ELSE 0) = Len(stack) + depth
      /\ Len(stack) \in Nat /\ Len(stack) <= MaxDepth
  BY AtRead
<1>4. StackMatchesReader'
  <2>1. /\ mode' = mode /\ mode \notin {"content", "picture"} /\ stack' = stack
        /\ open' = open + 1 /\ depth' = depth + 1
    BY <1>1, <1>2
  <2>2. open' + (IF OnStackToo THEN 1 ELSE 0) = Len(stack) + depth'
    BY ONLY <2>1, <1>3
  <2> QED
    BY ONLY <1>3, <2>1, <2>2 DEF StackMatchesReader, OnStackToo
<1>5. Placed'
  BY <1>1, <1>2, AtRead DEF Placed, OnStackToo, Reading
<1>6. SentOK'
  BY <1>1, AtRead, Sending
<1>7. depth' \in Nat /\ note' \in Nat /\ open' \in Nat /\ elements' \in Nat
  <2>1. note' \in {note, depth + 1} /\ depth' = depth + 1
    BY <1>1
  <2> QED
    BY ONLY <1>2, <1>3, <2>1
<1> QED
  BY <1>1, <1>2, <1>4, <1>5, <1>6, <1>7, AtRead, OutsideKeeps

LEMMA SubtreeEndKeeps == ASSUME DriverInv, SubtreeEnd PROVE DriverInv'
<1>1. /\ mode \in {"subtree", "meta", "link"} /\ open > 0 /\ open' = open - 1
      /\ family' = family /\ elements' = elements /\ depth' = depth - 1
      /\ note' \in {note, 0} /\ notes' \in {notes, notes + 1}
      /\ UNCHANGED <<shapeVars, caption>>
      /\ \/ depth > 1 /\ mode' = mode /\ stack' = stack /\ Quiet
         \/ /\ depth = 1 /\ mode = "subtree" /\ mode' = "content"
            /\ stack' = stack /\ Quiet
         \/ depth = 1 /\ mode = "meta" /\ mode' = "content" /\ stack' = Pop /\ SendRecord
         \/ depth = 1 /\ mode = "link" /\ mode' = "notes" /\ stack' = stack /\ Quiet
  BY DEF SubtreeEnd, Reading, ReadEnd
<1>2. /\ stack \in Seq(Frames) /\ Len(stack) \in Nat /\ Len(stack) <= MaxDepth
      /\ Len(stack) > 0 /\ depth \in Nat /\ depth > 0 /\ open \in Nat
      /\ open + (IF mode = "subtree" THEN 0 ELSE 1) = Len(stack) + depth
      /\ mode # "subtree" => Len(stack) > 1 /\ caption < Len(stack)
      /\ caption \in Nat /\ caption <= Len(stack)
      /\ note \in Nat /\ notes \in Nat /\ elements \in Nat /\ SentOK
  <2>1. Reading /\ (OnStackToo <=> mode # "subtree")
    BY <1>1 DEF Reading, OnStackToo
  <2> QED
    BY <2>1, AtRead
<1>3. /\ stack' \in Seq(Frames)
      /\ Len(stack') = IF mode = "meta" /\ depth = 1 THEN Len(stack) - 1 ELSE Len(stack)
  BY <1>1, <1>2, Popped
<1>4. StackMatchesReader' /\ Placed' /\ caption <= Len(stack')
  <2> USE DEF StackMatchesReader, Placed, OnStackToo, Reading
  <2>1. caption' = caption
    BY <1>1
  <2>2. CASE depth > 1 /\ mode' = mode /\ stack' = stack
    BY <1>1, <1>2, <2>1, <2>2
  <2>3. CASE depth = 1 /\ mode = "subtree" /\ mode' = "content" /\ stack' = stack
    BY <1>1, <1>2, <2>1, <2>3
  <2>4. CASE depth = 1 /\ mode = "meta" /\ mode' = "content"
    <3>1. Len(stack') = Len(stack) - 1 /\ depth' = 0 /\ open' = Len(stack) - 1
      BY <1>1, <1>2, <1>3, <2>4
    <3>2. Len(stack') > 0 /\ Len(stack') <= MaxDepth /\ caption <= Len(stack')
      BY <1>2, <2>4, <3>1, XmlDriverAssumption
    <3>3. StackMatchesReader'
      BY <1>2, <2>4, <3>1, <3>2
    <3>4. Placed'
      BY <1>2, <2>4, <3>1, <3>2
    <3> QED
      BY <3>2, <3>3, <3>4
  <2>5. CASE depth = 1 /\ mode = "link" /\ mode' = "notes" /\ stack' = stack
    BY <1>1, <1>2, <2>1, <2>5
  <2> QED
    BY <1>1, <2>2, <2>3, <2>4, <2>5
<1>5. SentOK'
  BY <1>1, <1>2, Sending
<1>6. /\ depth' \in Nat /\ note' \in Nat /\ notes' \in Nat /\ open' \in Nat
      /\ elements' \in Nat
  BY <1>1, <1>2
<1> QED
  BY <1>1, <1>3, <1>4, <1>5, <1>6, OutsideKeeps

LEMMA SendPictureKeeps == ASSUME DriverInv, SendPicture PROVE DriverInv'
<1>1. /\ mode = "picture" /\ mode' = "content" /\ SendNext
      /\ UNCHANGED <<docVars, stack, readVars, shapeVars, caption>>
  BY DEF SendPicture
<1>2. SentOK'
  BY <1>1, AtRead, Sending
<1>3. StackMatchesReader' /\ Placed'
  BY <1>1 DEF DriverInv, StackMatchesReader, Placed, OnStackToo, Reading, docVars,
              readVars
<1> QED
  BY <1>1, <1>2, <1>3, AtRead, OutsideKeeps DEF docVars, readVars

LEMMA SendNoteKeeps == ASSUME DriverInv, SendNote PROVE DriverInv'
<1>1. /\ mode = "notes" /\ mode' = mode /\ SendRecord /\ notes > 0
      /\ notes' = notes - 1
      /\ UNCHANGED <<docVars, stack, depth, note, shapeVars, caption>>
  BY DEF SendNote
<1>2. SentOK' /\ notes' \in Nat
  BY <1>1, AtRead, Sending
<1>3. StackMatchesReader' /\ Placed'
  BY <1>1 DEF DriverInv, StackMatchesReader, Placed, OnStackToo, Reading, docVars
<1> QED
  BY <1>1, <1>2, <1>3, AtRead, OutsideKeeps DEF docVars

LEMMA NotesSentKeeps == ASSUME DriverInv, NotesSent PROVE DriverInv'
<1>1. /\ mode = "notes" /\ mode' = "content" /\ stack' = Pop /\ Quiet
      /\ UNCHANGED <<docVars, readVars, shapeVars, caption>>
  BY DEF NotesSent
<1>2. /\ stack \in Seq(Frames) /\ Len(stack) \in Nat /\ Len(stack) <= MaxDepth
      /\ Len(stack) > 1 /\ caption \in Nat /\ caption < Len(stack)
      /\ open \in Nat /\ depth = 0 /\ open + 1 = Len(stack) + depth /\ SentOK
  BY <1>1, AtRead DEF OnStackToo, DriverInv, Placed, Reading
<1>3. stack' \in Seq(Frames) /\ Len(stack') = Len(stack) - 1
  BY <1>1, <1>2, Popped
<1>4. SentOK'
  BY <1>1, <1>2, Sending
<1>5. StackMatchesReader' /\ Placed' /\ caption <= Len(stack')
  BY <1>1, <1>2, <1>3, XmlDriverAssumption
     DEF StackMatchesReader, Placed, OnStackToo, Reading, docVars, readVars
<1> QED
  BY <1>1, <1>3, <1>4, <1>5, AtRead, OutsideKeeps DEF docVars, readVars

LEMMA SendStatusKeeps == ASSUME DriverInv, SendStatus PROVE DriverInv'
<1>1. /\ mode = "trailer" /\ mode' = "done" /\ last' = [kind |-> "status"]
      /\ UNCHANGED <<docVars, stack, readVars, shapeVars, caption, index, tables>>
  BY DEF SendStatus
<1>2. SentOK'
  BY <1>1, AtRead, EventTypes DEF SentOK
<1>3. StackMatchesReader' /\ Placed'
  BY <1>1 DEF DriverInv, StackMatchesReader, Placed, OnStackToo, Reading, docVars,
              readVars
<1> QED
  BY <1>1, <1>2, <1>3, AtRead, OutsideKeeps DEF docVars, readVars

LEMMA FailKeeps == ASSUME DriverInv, Fail PROVE DriverInv'
<1>1. /\ mode' = "failed" /\ mode # "failed" /\ Quiet
      /\ stack' = IF OnStackToo THEN Pop ELSE stack
      /\ UNCHANGED <<docVars, readVars, shapeVars, caption>>
  BY DEF Fail
<1>2. /\ stack \in Seq(Frames) /\ Len(stack) \in Nat /\ Len(stack) <= MaxDepth
      /\ OnStackToo => Len(stack) > 1 /\ caption < Len(stack)
      /\ open \in Nat /\ depth \in Nat /\ SentOK /\ caption \in Nat
      /\ caption <= Len(stack)
      /\ open + (IF OnStackToo THEN 1 ELSE 0) = Len(stack) + depth
  BY AtRead
<1>3. /\ stack' \in Seq(Frames)
      /\ Len(stack') = IF OnStackToo THEN Len(stack) - 1 ELSE Len(stack)
  BY <1>1, <1>2, Popped
<1>4. SentOK' /\ index' = index
  BY <1>1, <1>2, Sending DEF Quiet, sentVars
<1>5. ~OnStackToo'
  BY <1>1 DEF OnStackToo
<1>6. open' = open /\ depth' = depth /\ caption' = caption
  BY <1>1 DEF docVars, readVars
<1>7. Placed' /\ TypeOK'
  <2>1. Placed'
    BY <1>1, <1>5 DEF Placed, Reading
  <2>2. TypeOK'
    BY <1>1, <1>3, <1>4 DEF DriverInv, TypeOK, Modes, SentOK, docVars, readVars, shapeVars
  <2> QED
    BY <2>1, <2>2
<1> SUFFICES StackMatchesReader' /\ CaptionInWrapper' /\ ShapesHeld'
  BY <1>7 DEF DriverInv
<1>8. CASE OnStackToo
  <2>1. StackMatchesReader'
    BY <1>1, <1>2, <1>3, <1>5, <1>6, <1>8, XmlDriverAssumption DEF StackMatchesReader
  <2>2. CaptionInWrapper'
    BY <1>2, <1>3, <1>6, <1>8 DEF CaptionInWrapper
  <2>3. island = 0 /\ capture.depth = 0 /\ fact.depth = 0 /\ table = NoTable
    BY <1>8, ShapesAre DEF OnStackToo
  <2>4. ShapesHeld'
    BY <1>1, <1>2, <1>3, <1>8, <2>3 DEF ShapesHeld, Held, NoTable, shapeVars
  <2> QED
    BY <2>1, <2>2, <2>4
<1>9. CASE ~OnStackToo
  <2>1. stack' = stack
    BY <1>1, <1>9
  <2>2. StackMatchesReader'
    BY <1>1, <1>2, <1>5, <1>6, <1>9, <2>1, XmlDriverAssumption DEF StackMatchesReader
  <2>3. ShapesOK'
    BY <1>1, <1>2, <1>4, <2>1, InvParts, ShapesStay
  <2> QED
    BY <2>2, <2>3 DEF ShapesOK
<1> QED
  BY <1>8, <1>9

-----------------------------------------------------------------------------
(* The frame under an open table is the table's own until it closes.       *)
LEMMA RootKept ==
  ASSUME DriverInv, DriverInv', TableRoot, table'.depth = table.depth,
         \/ UNCHANGED stack
         \/ stack' = Pop
         \/ \E frame : stack' = Append(stack, frame)
         \/ stack' = [stack EXCEPT ![Len(stack)].own = "text"]
  PROVE  TableRoot'
<1> SUFFICES ASSUME table.depth > 0 PROVE stack'[table.depth].tag = "other"
  BY DEF TableRoot
<1>1. /\ stack \in Seq(Frames) /\ Len(stack) \in Nat /\ table.depth \in Nat
      /\ table.depth <= Len(stack) /\ stack[table.depth].tag = "other"
  BY InvParts DEF TableRoot, ShapesOK, ShapeTypes, ShapesHeld, Held, TableType
<1>2. stack' \in Seq(Frames) /\ table.depth <= Len(stack')
  BY DEF DriverInv, TypeOK, ShapesHeld, Held
<1>3. CASE UNCHANGED stack
  BY <1>1, <1>3
<1>4. CASE stack' = Pop
  <2>1. Len(stack) > 0
    BY <1>1
  <2> QED
    BY <1>1, <1>2, <1>4, <2>1, Popped
<1>5. CASE \E frame : stack' = Append(stack, frame)
  BY <1>1, <1>5
<1>6. CASE stack' = [stack EXCEPT ![Len(stack)].own = "text"]
  <2>1. stack[Len(stack)] \in Frames /\ stack[table.depth] \in Frames
    BY <1>1
  <2> QED
    BY <1>1, <1>6, <2>1 DEF Frames
<1> QED
  BY <1>3, <1>4, <1>5, <1>6

LEMMA TableRootKeeps ==
  ASSUME DriverInv, DriverInv', TableRoot, Next PROVE TableRoot'
<1> USE DEF Push, shapeVars
<1>1. CASE UNCHANGED table /\ Mapping
  BY <1>1, NoShape DEF TableRoot
<1>2. CASE \/ \E attributes \in BOOLEAN : Descend(attributes)
           \/ IslandStart
  BY <1>1, <1>2 DEF Descend, IslandStart
<1>3. CASE Skip \/ Meta \/ (\E isCaption \in BOOLEAN : BeginCapture(isCaption))
  BY <1>1, <1>3 DEF Skip, Meta, BeginCapture, Mapped
<1>4. CASE \/ \E what \in {"record", "infrastructure", "link", "fact", "other"} :
                XbrlStart(what)
           \/ \E attributed \in BOOLEAN : PictureStart(attributed)
           \/ ElementEnd
  BY <1>1, <1>4 DEF XbrlStart, PictureStart, ElementEnd, Mapped
<1>5. CASE \E of \in Families, attributes \in BOOLEAN : RootStart(of, attributes)
  <2>1. table' = table /\ mode = "prolog"
    BY <1>5 DEF RootStart
  <2>2. table.depth = 0
    BY <2>1, ShapesAre DEF NoTable
  <2> QED
    BY <2>1, <2>2 DEF TableRoot
<1>6. CASE \E tag \in Tags : FlattenedStart(tag) \/ TableStart(tag)
  <2>1. PICK tag \in Tags : FlattenedStart(tag) \/ TableStart(tag)
    BY <1>6
  <2>2. stack' = Append(stack, Plain(tag))
    BY <2>1 DEF FlattenedStart, TableStart
  <2>3. table'.depth = table.depth
    BY <2>1, InvParts DEF FlattenedStart, TableStart, ShapesOK, ShapeTypes, TableType
  <2> QED
    BY <2>2, <2>3, RootKept
<1>7. CASE BeginTable
  <2>1. /\ stack' = Append(stack, Plain("other")) /\ stack \in Seq(Frames)
        /\ table' = [NoTable EXCEPT !.depth = Len(stack) + 1, !.ref = tables + 1]
        /\ Len(stack) \in Nat
    BY <1>7, InvParts DEF BeginTable
  <2>2. table'.depth = Len(stack) + 1 /\ Plain("other") \in Frames
    BY <2>1, PlainFrame DEF NoTable, Tags
  <2>3. stack'[Len(stack) + 1] = Plain("other")
    BY <2>1, <2>2
  <2> QED
    BY <2>2, <2>3 DEF TableRoot, Plain, Frame
<1>8. CASE TableEnd
  BY <1>8 DEF TableEnd, TableRoot, NoTable
<1>9. CASE FlattenedEnd \/ IslandEnd \/ CaptionEnd \/ CaptureEnd \/ FactEnd
           \/ OtherTableEnd
  BY <1>9, RootKept
     DEF FlattenedEnd, IslandEnd, CaptionEnd, CaptureEnd, FactEnd, OtherTableEnd, Close
<1>10. CASE CellEnd \/ HeaderSectionEnd \/ RowEnd
  <2>1. stack' = Pop
    BY <1>10 DEF CellEnd, HeaderSectionEnd, RowEnd, Close
  <2>2. table'.depth = table.depth
    BY <1>10, InvParts
       DEF CellEnd, HeaderSectionEnd, RowEnd, ShapesOK, ShapeTypes, TableType
  <2> QED
    BY <2>1, <2>2, RootKept
<1>11. CASE SubtreeStart \/ SubtreeEnd \/ SendPicture \/ SendNote \/ NotesSent
            \/ SendStatus \/ Fail
  BY <1>11, RootKept
     DEF SubtreeStart, SubtreeEnd, SendPicture, SendNote, NotesSent, SendStatus, Fail
<1>12. CASE Text
  BY <1>12, RootKept DEF Text
<1>13. CASE Over
  BY <1>13, RootKept DEF Over, driverVars
<1> QED
  BY <1>2, <1>3, <1>4, <1>5, <1>6, <1>7, <1>8, <1>9, <1>10, <1>11, <1>12, <1>13
     DEF Next, Starts, Ends, Sends

-----------------------------------------------------------------------------
LEMMA NextKeeps == ASSUME DriverInv, TableRoot, Next PROVE DriverInv'
<1>1. CASE Starts
  BY <1>1, RootStartKeeps, DescendKeeps, FlattenedStartKeeps, TableStartKeeps,
     XbrlStartKeeps, IslandStartKeeps, SkipKeeps, MetaKeeps, BeginTableKeeps,
     BeginCaptureKeeps, PictureStartKeeps, SubtreeStartKeeps DEF Starts
<1>2. CASE Text
  BY <1>2, TextKeeps
<1>3. CASE Ends
  BY <1>3, FlattenedEndKeeps, IslandEndKeeps, CaptionEndKeeps, CaptureEndKeeps,
     FactEndKeeps, CellEndKeeps, HeaderSectionEndKeeps, RowEndKeeps,
     OtherTableEndKeeps, TableEndKeeps, ElementEndKeeps, SubtreeEndKeeps DEF Ends
<1>4. CASE Sends
  BY <1>4, SendPictureKeeps, SendNoteKeeps, NotesSentKeeps, SendStatusKeeps DEF Sends
<1>5. CASE Fail
  BY <1>5, FailKeeps
<1>6. CASE Over
  BY <1>6 DEF Over, DriverInv, TypeOK, StackMatchesReader, CaptionInWrapper, Placed,
              ShapesHeld, Held, OnStackToo, Reading, driverVars, docVars, readVars,
              shapeVars, sentVars
<1> QED
  BY <1>1, <1>2, <1>3, <1>4, <1>5, <1>6 DEF Next

(* The inductive invariant of the driver, for any bounds and any set of    *)
(* families: every later theorem about a state or a step rests on it.      *)
THEOREM DriverCorrect == Spec => [](DriverInv /\ TableRoot)
<1>1. Init => DriverInv /\ TableRoot
  BY InitInv DEF Init, TableRoot, NoTable
<1>2. DriverInv /\ TableRoot /\ [Next]_driverVars => (DriverInv /\ TableRoot)'
  <2> SUFFICES ASSUME DriverInv, TableRoot, [Next]_driverVars
               PROVE  (DriverInv /\ TableRoot)'
    OBVIOUS
  <2>1. CASE Next
    BY <2>1, NextKeeps, TableRootKeeps
  <2>2. CASE UNCHANGED driverVars
    BY <2>2
       DEF DriverInv, TypeOK, StackMatchesReader, CaptionInWrapper, Placed,
           ShapesHeld, Held, OnStackToo, Reading, TableRoot, driverVars, docVars,
           readVars, shapeVars, sentVars
  <2> QED
    BY <2>1, <2>2
<1> QED
  BY <1>1, <1>2, PTL DEF Spec

(* The driver's state keeps its types: no counter goes below zero.         *)
THEOREM DriverTypeCorrect == Spec => []TypeOK
<1>1. DriverInv => TypeOK
  BY DEF DriverInv
<1> QED
  BY <1>1, DriverCorrect, PTL

(* The stack and the subtree readers together account for every element    *)
(* the reader has open, and the stack is never longer than MAX_DEPTH.      *)
THEOREM StackCorrect == Spec => []StackMatchesReader
<1>1. DriverInv => StackMatchesReader
  BY DEF DriverInv
<1> QED
  BY <1>1, DriverCorrect, PTL

(* At most one shape is open, and the element it waits for is on the stack.*)
THEOREM ShapesCorrect == Spec => []ShapesOnStack
<1>1. DriverInv => ShapesOnStack
  <2> SUFFICES ASSUME DriverInv PROVE ShapesOnStack
    OBVIOUS
  <2>1. /\ Shapes[1] = island /\ Shapes[2] = capture.depth
        /\ Shapes[3] = fact.depth /\ Shapes[4] = table.depth
    BY DEF Shapes
  <2>2. \A i \in 1..4 : i = 1 \/ i = 2 \/ i = 3 \/ i = 4
    OBVIOUS
  <2>3. /\ island \in Nat /\ capture.depth \in Nat /\ fact.depth \in Nat
        /\ table.depth \in Nat /\ ShapesHeld
    BY InvParts DEF ShapesOK, ShapeTypes, TableType
  <2>4. ASSUME NEW i \in 1..4, NEW j \in 1..4, Shapes[i] > 0, Shapes[j] > 0
        PROVE  i = j
    BY <2>1, <2>2, <2>3, <2>4 DEF ShapesHeld
  <2>5. ASSUME NEW i \in 1..4
        PROVE  Shapes[i] <= Len(stack) /\ (Shapes[i] > 0 => mode \in {"content", "failed"})
    BY <2>1, <2>2, <2>3 DEF ShapesHeld, Held
  <2> QED
    BY <2>3, <2>4, <2>5 DEF ShapesOnStack, ShapesHeld
<1> QED
  BY <1>1, DriverCorrect, PTL

(* A caption that waits waits inside its wrapper.                          *)
THEOREM CaptionCorrect == Spec => []CaptionInWrapper
<1>1. DriverInv => CaptionInWrapper
  BY DEF DriverInv
<1> QED
  BY <1>1, DriverCorrect, PTL

-----------------------------------------------------------------------------
(* Header sections and rows open in a table, outside its cells.            *)
Headers == {i \in Inside : stack[i].tag = "thead"}

LEMMA HeadersFinite ==
  ASSUME DriverInv
  PROVE  IsFiniteSet(Headers) /\ Cardinality(Headers) \in Nat /\ Headers \subseteq Inside
<1>1. Len(stack) \in Nat
  BY InvParts
<1>2. IsFiniteSet(1..Len(stack))
  BY <1>1, FS_Interval
<1>3. Headers \in SUBSET (1..Len(stack)) /\ Headers \subseteq Inside
  BY DEF Headers, Inside
<1>4. IsFiniteSet(Headers)
  BY <1>2, <1>3, FS_Subset
<1> QED
  BY <1>3, <1>4, FS_CardinalityType

(* What is open in the table stays as it is.                               *)
LEMMA TableAlike ==
  ASSUME TableMatchesStack, table'.depth > 0 => table.depth > 0,
         table.depth > 0 =>
           /\ Inside' = Inside
           /\ \A i \in Inside : stack'[i].tag = stack[i].tag
           /\ table'.headers = table.headers
           /\ table'.row \in {table.row, "none"} \/ (table.row = "empty" /\ table'.row = "cells")
  PROVE  TableMatchesStack'
<1> SUFFICES ASSUME table'.depth > 0
             PROVE  /\ table'.headers = Cardinality(Headers')
                    /\ table'.row # "none" => \E i \in Inside' : stack'[i].tag = "row"
  BY DEF TableMatchesStack, Headers
<1>1. /\ Inside' = Inside
      /\ \A i \in Inside : stack'[i].tag = stack[i].tag
      /\ table'.headers = table.headers
      /\ table.headers = Cardinality(Headers)
      /\ table.row # "none" => \E i \in Inside : stack[i].tag = "row"
  BY DEF TableMatchesStack, Headers
<1>2. Headers' = Headers
  BY <1>1 DEF Headers
<1> QED
  BY <1>1, <1>2

LEMMA NoTableMatches == table'.depth = 0 => TableMatchesStack'
BY DEF TableMatchesStack

LEMMA TableHere ==
  ASSUME DriverInv, TableRoot
  PROVE  /\ stack \in Seq(Frames) /\ Len(stack) \in Nat
         /\ table.depth \in Nat /\ table.cell \in Nat /\ table.headers \in Nat
         /\ table.row \in {"none", "empty", "cells"}
         /\ table.depth > 0 => table.depth <= Len(stack) /\ stack[table.depth].tag = "other"
         /\ table.cell > 0 => table.depth < table.cell /\ table.cell <= Len(stack)
         /\ table.depth > 0 /\ ~Mapping => Tabulating
         /\ table.depth > 0 => mode \in {"content", "failed"}
<1>1. ShapesHeld /\ stack \in Seq(Frames) /\ Len(stack) \in Nat
  BY InvParts DEF ShapesOK
<1>2. /\ table.depth > 0 => table.depth <= Len(stack) /\ mode \in {"content", "failed"}
      /\ table.cell > 0 => table.depth < table.cell /\ table.cell <= Len(stack)
  BY ONLY <1>1 DEF ShapesHeld, Held
<1>3. table.depth > 0 => stack[table.depth].tag = "other"
  BY DEF TableRoot
<1>4. table.depth > 0 /\ ~Mapping => Tabulating
  <2>1. table.depth > 0 => island = 0 /\ capture.depth = 0 /\ fact.depth = 0
    <3>1. /\ island > 0 => table.depth = 0
          /\ capture.depth > 0 => table.depth = 0
          /\ fact.depth > 0 => table.depth = 0
      BY ONLY <1>1 DEF ShapesHeld
    <3> QED
      BY ONLY <3>1, ShapesAre, DriverInv
  <2> QED
    BY <2>1 DEF Mapping, Tabulating, Flattening
<1> QED
  BY ONLY <1>1, <1>2, <1>3, <1>4, ShapesAre, DriverInv

(* A start tag in a table: a cell is not counted, nor what is in one.      *)
LEMMA StartsMatch ==
  ASSUME DriverInv, TableRoot, TableMatchesStack, NEW tag \in Tags,
         FlattenedStart(tag) \/ TableStart(tag)
  PROVE  TableMatchesStack'
<1> SUFFICES ASSUME table.depth > 0 PROVE TableMatchesStack'
  BY TableHere, NoTableMatches, InvParts
     DEF FlattenedStart, TableStart, shapeVars, Tabulating, Flattened
<1>1. /\ stack \in Seq(Frames) /\ Len(stack) \in Nat /\ Tabulating
      /\ table.depth \in Nat /\ table.cell \in Nat /\ table.headers \in Nat
      /\ table.depth <= Len(stack)
      /\ table.cell > 0 => table.depth < table.cell /\ table.cell <= Len(stack)
  BY TableHere DEF FlattenedStart, TableStart, Flattened, Tabulating, Flattening, Mapping
<1>2. /\ stack' = Append(stack, Plain(tag)) /\ Len(stack') = Len(stack) + 1
      /\ \A i \in 1..Len(stack) : stack'[i] = stack[i]
      /\ stack'[Len(stack) + 1].tag = tag
  <2>1. stack' = Append(stack, Plain(tag))
    BY DEF FlattenedStart, TableStart, Push
  <2> QED
    BY <1>1, <2>1, PlainFrame DEF Plain, Frame
<1>3. Inside \subseteq 1..Len(stack)
  BY DEF Inside
<1>4. CASE FlattenedStart(tag)
  <2>1. table' = table /\ table.cell > 0
    BY <1>1, <1>4 DEF FlattenedStart, shapeVars, Flattened, Tabulating
  <2>2. Inside' = Inside
    BY <1>1, <1>2, <2>1 DEF Inside
  <2> QED
    BY <1>2, <1>3, <2>1, <2>2, TableAlike
<1>5. CASE TableStart(tag) /\ tag = "cell"
  <2>1. /\ table'.depth = table.depth /\ table'.headers = table.headers
        /\ table'.row = table.row /\ table'.cell = Len(stack) + 1 /\ table.cell = 0
    BY <1>5, InvParts DEF TableStart, ShapesOK, ShapeTypes, TableType
  <2>2. Inside' = Inside
    BY <1>1, <1>2, <2>1 DEF Inside
  <2> QED
    BY <1>2, <1>3, <2>1, <2>2, TableAlike
<1>6. CASE TableStart(tag) /\ tag # "cell"
  <2>1. /\ table'.depth = table.depth /\ table.cell = 0 /\ table'.cell = 0
        /\ table'.headers = (IF tag = "thead" THEN table.headers + 1 ELSE table.headers)
        /\ table'.row = (IF tag = "row" THEN "empty" ELSE table.row)
    BY <1>6, InvParts DEF TableStart, ShapesOK, ShapeTypes, TableType
  <2>2. Inside' = Inside \cup {Len(stack) + 1} /\ Len(stack) + 1 \notin Inside
    BY <1>1, <1>2, <2>1 DEF Inside
  <2>3. Headers' = IF tag = "thead" THEN Headers \cup {Len(stack) + 1} ELSE Headers
    BY <1>2, <1>3, <2>2 DEF Headers
  <2>4. Len(stack) + 1 \notin Headers
    BY <2>2 DEF Headers
  <2>5. Cardinality(Headers') = IF tag = "thead" THEN Cardinality(Headers) + 1
                                ELSE Cardinality(Headers)
    BY <2>3, <2>4, HeadersFinite, FS_AddElement
  <2>6. table'.headers = Cardinality(Headers')
    BY <2>1, <2>5 DEF TableMatchesStack, Headers
  <2>7. table'.row # "none" => \E i \in Inside' : stack'[i].tag = "row"
    <3>1. CASE tag = "row"
      BY <3>1, <1>2, <2>2
    <3>2. CASE tag # "row"
      BY <3>2, <1>2, <1>3, <2>1, <2>2 DEF TableMatchesStack
    <3> QED
      BY <3>1, <3>2
  <2> QED
    BY <2>6, <2>7 DEF TableMatchesStack, Headers
<1> QED
  BY <1>4, <1>5, <1>6

(* An end tag in a table, the table's own aside.                           *)
LEMMA EndsMatch ==
  ASSUME DriverInv, TableRoot, TableMatchesStack,
         \/ FlattenedEnd \/ CellEnd \/ HeaderSectionEnd \/ RowEnd \/ OtherTableEnd
  PROVE  TableMatchesStack'
<1> SUFFICES ASSUME table.depth > 0 PROVE TableMatchesStack'
  <2>1. table.depth = 0 => FlattenedEnd
    BY DEF CellEnd, HeaderSectionEnd, RowEnd, OtherTableEnd, Unstructured, Tabulating
  <2>2. FlattenedEnd => table' = table
    BY DEF FlattenedEnd, shapeVars
  <2> QED
    BY <2>1, <2>2, TableHere, NoTableMatches
<1>1. mode = "content" /\ stack' = Pop
  BY DEF FlattenedEnd, CellEnd, HeaderSectionEnd, RowEnd, OtherTableEnd, Close
<1>2. /\ stack \in Seq(Frames) /\ Len(stack) \in Nat /\ Tabulating
      /\ table.depth \in Nat /\ table.cell \in Nat /\ table.headers \in Nat
      /\ table.row \in {"none", "empty", "cells"}
      /\ table.depth <= Len(stack) /\ stack[table.depth].tag = "other"
      /\ table.cell > 0 => table.depth < table.cell /\ table.cell <= Len(stack)
  BY TableHere DEF Mapping
<1>3. /\ Len(stack) > 0 /\ Len(stack') = Len(stack) - 1
      /\ \A i \in 1..(Len(stack) - 1) : stack'[i] = stack[i]
      /\ Top = stack[Len(stack)]
  BY <1>1, <1>2, Popped DEF Top
<1>4. Inside \subseteq 1..Len(stack)
  BY DEF Inside
<1>5. CASE FlattenedEnd
  <2>1. table' = table /\ table.cell > 0 /\ Len(stack) # table.cell
    BY <1>2, <1>5 DEF FlattenedEnd, shapeVars, Tabulating, Flattening
  <2>2. Inside' = Inside /\ Inside \subseteq 1..(Len(stack) - 1)
    BY <1>2, <1>3, <2>1 DEF Inside
  <2> QED
    BY <1>3, <2>1, <2>2, TableAlike
<1>6. CASE CellEnd
  <2>1. /\ table'.depth = table.depth /\ table'.headers = table.headers
        /\ table'.row = (IF table.row = "none" THEN table.row ELSE "cells")
        /\ table'.cell = 0 /\ table.cell > 0 /\ table.cell = Len(stack)
    BY <1>6, InvParts DEF CellEnd, ShapesOK, ShapeTypes, TableType
  <2>2. Inside' = Inside /\ Inside \subseteq 1..(Len(stack) - 1)
    BY <1>2, <1>3, <2>1 DEF Inside
  <2> QED
    BY <1>2, <1>3, <2>1, <2>2, TableAlike
<1>7. CASE HeaderSectionEnd \/ RowEnd \/ OtherTableEnd
  <2>1. /\ table'.depth = table.depth /\ table.cell = 0 /\ table'.cell = 0
        /\ table'.headers = (IF HeaderSectionEnd THEN (IF table.headers > 0 THEN table.headers - 1 ELSE 0)
                             ELSE table.headers)
    BY <1>7, InvParts
       DEF HeaderSectionEnd, RowEnd, OtherTableEnd, Unstructured, ShapesOK, ShapeTypes,
           TableType, shapeVars
  <2>2. table.depth < Len(stack)
    <3>1. Len(stack) = table.depth => FALSE
      BY <1>2, <1>3, <1>7 DEF HeaderSectionEnd, RowEnd, OtherTableEnd
    <3> QED
      BY <1>2, <3>1
  <2>3. Inside' = Inside \ {Len(stack)} /\ Len(stack) \in Inside
    BY <1>2, <1>3, <2>1, <2>2 DEF Inside
  <2>4. \A i \in Inside' : stack'[i] = stack[i]
    BY <1>2, <1>3, <1>4, <2>3
  <2>5. Headers' = IF Top.tag = "thead" THEN Headers \ {Len(stack)} ELSE Headers
    BY <1>3, <2>3, <2>4 DEF Headers
  <2>6. Top.tag = "thead" <=> Len(stack) \in Headers
    BY <1>3, <2>3 DEF Headers
  <2>7. table.headers = Cardinality(Headers)
    BY DEF TableMatchesStack, Headers
  <2>8. CASE HeaderSectionEnd
    <3>1. Top.tag = "thead" /\ table'.row = table.row
      BY <2>8, InvParts DEF HeaderSectionEnd, ShapesOK, ShapeTypes, TableType
    <3>2. Cardinality(Headers') = Cardinality(Headers) - 1
      BY <2>5, <2>6, <3>1, HeadersFinite, FS_RemoveElement
    <3>3. Cardinality(Headers) # 0
      BY <2>6, <3>1, HeadersFinite, FS_EmptySet
    <3>4. table'.headers = Cardinality(Headers')
      BY <2>1, <2>7, <2>8, <3>2, <3>3, HeadersFinite
    <3>5. table'.row # "none" => \E i \in Inside' : stack'[i].tag = "row"
      BY <1>3, <2>3, <2>4, <3>1 DEF TableMatchesStack
    <3> QED
      BY <3>4, <3>5 DEF TableMatchesStack, Headers
  <2>9. CASE RowEnd
    <3>1. Top.tag = "row" /\ table'.row = "none" /\ ~HeaderSectionEnd
      BY <2>9, InvParts DEF RowEnd, HeaderSectionEnd, ShapesOK, ShapeTypes, TableType
    <3> QED
      BY <2>1, <2>5, <2>7, <3>1 DEF TableMatchesStack, Headers
  <2>10. CASE OtherTableEnd
    <3>1. Top.tag # "thead" /\ table' = table /\ ~HeaderSectionEnd
      BY <2>10 DEF OtherTableEnd, Unstructured, HeaderSectionEnd, shapeVars
    <3>2. table.row # "none" => Top.tag # "row"
      BY <2>10 DEF OtherTableEnd, Unstructured
    <3>3. table'.row # "none" => \E i \in Inside' : stack'[i].tag = "row"
      BY <1>3, <2>3, <2>4, <3>1, <3>2 DEF TableMatchesStack
    <3> QED
      BY <2>1, <2>5, <2>7, <3>1, <3>3 DEF TableMatchesStack, Headers
  <2> QED
    BY <1>7, <2>8, <2>9, <2>10
<1> QED
  BY <1>5, <1>6, <1>7

(* Text may come between a table's rows; it changes no tag.                *)
LEMMA TextMatches ==
  ASSUME DriverInv, TableRoot, TableMatchesStack, Text PROVE TableMatchesStack'
<1>1. table' = table /\ stack \in Seq(Frames) /\ Len(stack) \in Nat
  BY TableHere DEF Text
<1>2. \/ stack' = stack
      \/ Len(stack) > 0 /\ stack' = [stack EXCEPT ![Len(stack)].own = "text"]
  BY InvParts DEF Text, DriverInv, Placed
<1>3. Len(stack') = Len(stack) /\ \A i \in 1..Len(stack) : stack'[i].tag = stack[i].tag
  <2>1. CASE stack' = stack
    BY <2>1
  <2>2. CASE Len(stack) > 0 /\ stack' = [stack EXCEPT ![Len(stack)].own = "text"]
    <3>1. \A i \in 1..Len(stack) : stack[i] \in Frames
      BY <1>1
    <3> QED
      BY <1>1, <2>2, <3>1 DEF Frames
  <2> QED
    BY <1>2, <2>1, <2>2
<1>4. Inside' = Inside /\ Inside \subseteq 1..Len(stack)
  BY <1>1, <1>3 DEF Inside
<1> QED
  BY <1>1, <1>3, <1>4, TableAlike

LEMMA TableMatchKeeps ==
  ASSUME DriverInv, TableRoot, TableMatchesStack, Next PROVE TableMatchesStack'
<1> USE DEF shapeVars
<1>1. CASE UNCHANGED table /\ table.depth = 0
  BY <1>1, NoTableMatches
<1>2. Mapping \/ mode \notin {"content", "failed"} => table.depth = 0
  BY TableHere DEF Mapping
<1>3. CASE \/ \E of \in Families, attributes \in BOOLEAN : RootStart(of, attributes)
           \/ \E attributes \in BOOLEAN : Descend(attributes)
           \/ \E what \in {"record", "infrastructure", "link", "fact", "other"} :
                XbrlStart(what)
           \/ IslandStart \/ Skip \/ Meta
           \/ \E isCaption \in BOOLEAN : BeginCapture(isCaption)
           \/ \E attributed \in BOOLEAN : PictureStart(attributed)
           \/ SubtreeStart \/ ElementEnd \/ SubtreeEnd \/ SendPicture \/ SendNote
           \/ NotesSent \/ SendStatus
  BY <1>1, <1>2, <1>3
     DEF RootStart, Descend, XbrlStart, IslandStart, Skip, Meta, BeginCapture,
         PictureStart, SubtreeStart, ElementEnd, SubtreeEnd, SendPicture, SendNote,
         NotesSent, SendStatus, Mapped, Reading
<1>4. CASE \E tag \in Tags : FlattenedStart(tag) \/ TableStart(tag)
  BY <1>4, StartsMatch
<1>5. CASE BeginTable
  <2>1. /\ stack' = Append(stack, Plain("other")) /\ stack \in Seq(Frames)
        /\ table' = [NoTable EXCEPT !.depth = Len(stack) + 1, !.ref = tables + 1]
        /\ Len(stack) \in Nat
    BY <1>5, InvParts DEF BeginTable, Push
  <2>2. table'.depth = Len(stack) + 1 /\ table'.headers = 0 /\ table'.row = "none"
        /\ table'.cell = 0
    BY <2>1 DEF NoTable
  <2>3. Len(stack') = Len(stack) + 1
    BY <2>1, PlainFrame DEF Tags
  <2>4. Inside' = {}
    BY <2>1, <2>2, <2>3 DEF Inside
  <2>5. Headers' = {}
    BY <2>4 DEF Headers
  <2> QED
    BY <2>2, <2>4, <2>5, FS_EmptySet DEF TableMatchesStack, Headers
<1>6. CASE Text
  BY <1>6, TextMatches
<1>7. CASE FlattenedEnd \/ CellEnd \/ HeaderSectionEnd \/ RowEnd \/ OtherTableEnd
  BY <1>7, EndsMatch
<1>8. CASE TableEnd
  BY <1>8, NoTableMatches DEF TableEnd, NoTable
<1>9. CASE IslandEnd \/ CaptionEnd \/ CaptureEnd \/ FactEnd
  <2>1. Flattening => table.depth = 0
    BY InvParts DEF Flattening, ShapesOK, ShapeTypes, ShapesHeld, Held, TableType, NoTable
  <2>2. UNCHANGED table /\ Flattening
    BY <1>9 DEF IslandEnd, CaptionEnd, CaptureEnd, FactEnd, Flattening
  <2> QED
    BY <1>1, <2>1, <2>2
<1>10. CASE Fail
  <2>1. CASE OnStackToo
    BY <1>1, <1>2, <1>10, <2>1 DEF Fail, OnStackToo
  <2>2. CASE ~OnStackToo
    BY <1>10, <2>2, TableAlike DEF Fail, Inside
  <2> QED
    BY <2>1, <2>2
<1>11. CASE Over
  BY <1>11, TableAlike DEF Over, driverVars, Inside
<1> QED
  BY <1>3, <1>4, <1>5, <1>6, <1>7, <1>8, <1>9, <1>10, <1>11
     DEF Next, Starts, Ends, Sends

(* However sections, rows and cells nest, the table's count of open header *)
(* sections is how many are open, and a row is open only in a row element  *)
(* (table.rs: table_start, table_end).                                     *)
THEOREM TableMatchesCorrect == Spec => []TableMatchesStack
<1>1. Init => TableMatchesStack
  BY DEF Init, TableMatchesStack, NoTable
<1>2. /\ DriverInv /\ TableRoot /\ TableMatchesStack /\ [Next]_driverVars
      => TableMatchesStack'
  <2> SUFFICES ASSUME DriverInv, TableRoot, TableMatchesStack, [Next]_driverVars
               PROVE  TableMatchesStack'
    OBVIOUS
  <2>1. CASE Next
    BY <2>1, TableMatchKeeps
  <2>2. CASE UNCHANGED driverVars
    BY <2>2, TableAlike DEF driverVars, shapeVars, Inside
  <2> QED
    BY <2>1, <2>2
<1> QED
  BY <1>1, <1>2, DriverCorrect, PTL DEF Spec

-----------------------------------------------------------------------------
(* What the driver sends.  Seen from the stream, a step gives one event or *)
(* none.                                                                   *)
Going == mode \notin {"prolog", "done", "failed"}

LEMMA Unseen ==
  ASSUME Quiet, fact' = fact, table'.ref = table.ref, table'.rows = table.rows,
         Going, Going'
  PROVE  UNCHANGED Stream!streamVars
BY DEF Quiet, sentVars, Going, Stream!streamVars

LEMMA ItemGiven ==
  ASSUME fact.depth = 0, fact'.depth = 0, table.ref = 0, table'.ref = 0,
         table.rows = table'.rows, Going, Going', SendNext
  PROVE  Stream!Item
BY DEF Going, SendNext, SendItem, Stream!Item, Stream!Outside

LEMMA RecordGiven ==
  ASSUME fact' = fact, table' = table, table.ref = 0, Going, Going', SendRecord
  PROVE  Stream!Record
BY DEF Going, SendRecord, Stream!Record, Stream!Outside

(* Away from "content", and where the dialect maps, no shape is open.      *)
LEMMA NothingOpen ==
  ASSUME DriverInv, mode \notin {"content", "failed"} \/ Mapping
  PROVE  island = 0 /\ capture.depth = 0 /\ fact.depth = 0 /\ table = NoTable
BY ShapesAre DEF Mapping, Flattening

LEMMA StartsGive ==
  ASSUME DriverInv, Starts
  PROVE  Stream!Next \/ UNCHANGED Stream!streamVars
<1> USE DEF Push, shapeVars, Stream!Next
<1>1. CASE \E of \in Families, attributes \in BOOLEAN : RootStart(of, attributes)
  <2>1. Stream!Info
    BY <1>1, NothingOpen DEF RootStart, Stream!Info
  <2> QED
    BY <2>1
<1>2. CASE \/ \E attributes \in BOOLEAN : Descend(attributes)
           \/ IslandStart
  <2>1. /\ mode = "content" /\ mode' = mode /\ Mapping
        /\ fact' = fact /\ table' = table /\ SendRun(FALSE)
    BY <1>2 DEF Descend, IslandStart
  <2>2. fact.depth = 0 /\ table.ref = 0
    BY <2>1, NothingOpen DEF NoTable
  <2>3. Going /\ Going'
    BY <2>1 DEF Going
  <2>4. CASE SendNext
    BY <2>1, <2>2, <2>3, <2>4, ItemGiven
  <2>5. CASE Quiet
    BY <2>1, <2>3, <2>5, Unseen
  <2> QED
    BY <2>1, <2>4, <2>5 DEF SendRun
<1>3. CASE \E tag \in Tags : FlattenedStart(tag) \/ TableStart(tag)
  <2>1. /\ mode = "content" /\ mode' = mode /\ Quiet /\ fact' = fact
    BY <1>3 DEF FlattenedStart, TableStart
  <2>2. table'.ref = table.ref /\ table'.rows = table.rows
    BY <1>3, InvParts DEF FlattenedStart, TableStart, ShapesOK, ShapeTypes, TableType
  <2> QED
    BY <2>1, <2>2, Unseen DEF Going
<1>4. CASE \E what \in {"record", "infrastructure", "link", "fact", "other"} :
             XbrlStart(what)
  <2>1. PICK what \in {"record", "infrastructure", "link", "fact", "other"} :
             XbrlStart(what)
    BY <1>4
  <2>2. /\ mode = "content" /\ mode' \in {"content", "subtree", "link"}
        /\ table' = table
    BY <2>1 DEF XbrlStart
  <2>3. CASE what = "fact"
    <3>1. /\ fact' = [depth |-> Len(stack) + 1, index |-> index]
          /\ UNCHANGED <<tables, last>>
      BY <2>1, <2>3 DEF XbrlStart
    <3>2. fact.depth = 0 /\ Len(stack) \in Nat
      BY <2>1, NothingOpen, InvParts DEF XbrlStart
    <3> QED
      BY <2>2, <3>1, <3>2 DEF Stream!streamVars
  <2>4. CASE what # "fact"
    <3>1. fact' = fact /\ Quiet
      BY <2>1, <2>4 DEF XbrlStart
    <3> QED
      BY <2>2, <3>1, Unseen DEF Going
  <2> QED
    BY <2>3, <2>4
<1>5. CASE Skip \/ Meta \/ (\E isCaption \in BOOLEAN : BeginCapture(isCaption))
  <2>1. /\ mode = "content" /\ mode' \in {"content", "subtree", "meta"} /\ Quiet
        /\ fact' = fact /\ table' = table
    BY <1>5 DEF Skip, Meta, BeginCapture, Mapped
  <2> QED
    BY <2>1, Unseen DEF Going
<1>6. CASE BeginTable
  <2>1. Mapping
    BY <1>6 DEF BeginTable, Mapped
  <2>2. fact.depth = 0 /\ table = NoTable
    BY <2>1, NothingOpen
  <2>3. table'.ref = tables + 1 /\ table'.rows = 0
    BY <1>6 DEF BeginTable, NoTable
  <2>4. Stream!TableStart
    BY <1>6, <2>2, <2>3
       DEF BeginTable, Mapped, NoTable, Stream!TableStart, Stream!Outside
  <2> QED
    BY <2>4
<1>7. CASE \E attributed \in BOOLEAN : PictureStart(attributed)
  <2>1. /\ mode = "content" /\ mode' \in {"content", "picture"} /\ Mapping
        /\ fact' = fact /\ table' = table /\ (SendNext \/ Quiet)
    BY <1>7 DEF PictureStart, Mapped
  <2>2. fact.depth = 0 /\ table.ref = 0 /\ Going /\ Going'
    BY <2>1, NothingOpen DEF NoTable, Going
  <2> QED
    BY <2>1, <2>2, ItemGiven, Unseen
<1>8. CASE SubtreeStart
  <2>1. /\ mode \in {"subtree", "meta", "link"} /\ mode' = mode /\ Quiet
        /\ fact' = fact /\ table' = table
    BY <1>8 DEF SubtreeStart, Reading
  <2> QED
    BY <2>1, Unseen DEF Going
<1> QED
  BY <1>1, <1>2, <1>3, <1>4, <1>5, <1>6, <1>7, <1>8 DEF Starts

LEMMA EndsGive ==
  ASSUME DriverInv, DriverInv', Ends
  PROVE  Stream!Next \/ UNCHANGED Stream!streamVars
<1> USE DEF shapeVars, Stream!Next
<1>0. Close => Going /\ Going' /\ mode = "content" /\ mode' \in {"content", "trailer"}
  BY DEF Close, Going
<1>1. CASE FlattenedEnd \/ HeaderSectionEnd \/ CellEnd \/ OtherTableEnd
  <2>1. Close /\ Quiet /\ fact' = fact
    BY <1>1 DEF FlattenedEnd, HeaderSectionEnd, CellEnd, OtherTableEnd
  <2>2. table'.ref = table.ref /\ table'.rows = table.rows
    BY <1>1, InvParts
       DEF FlattenedEnd, HeaderSectionEnd, CellEnd, OtherTableEnd, ShapesOK,
           ShapeTypes, TableType
  <2> QED
    BY <1>0, <2>1, <2>2, Unseen
<1>2. CASE IslandEnd \/ CaptionEnd \/ CaptureEnd
  <2>1. /\ Close /\ (SendNext \/ Quiet) /\ fact' = fact /\ table' = table
        /\ (island > 0 \/ capture.depth > 0)
    BY <1>2 DEF IslandEnd, CaptionEnd, CaptureEnd
  <2>2. fact.depth = 0 /\ table = NoTable
    BY <2>1, InvParts DEF ShapesOK, ShapeTypes, ShapesHeld
  <2> QED
    BY <1>0, <2>1, <2>2, ItemGiven, Unseen DEF NoTable
<1>3. CASE FactEnd
  <2>1. Close /\ SendItem(fact.index) /\ index' = index /\ fact' = NoFact
        /\ table' = table /\ fact.depth > 0
    BY <1>3 DEF FactEnd
  <2>2. index = fact.index + 1 /\ table = NoTable
    BY <2>1, InvParts DEF ShapesOK, ShapeTypes, ShapesHeld, TableType
  <2>3. Stream!Item
    BY <1>0, <2>1, <2>2 DEF Going, SendItem, NoFact, NoTable, Stream!Item, Stream!Outside
  <2> QED
    BY <2>3
<1>4. CASE RowEnd
  <2>1. /\ Close /\ table.depth > 0 /\ fact' = fact
    BY <1>4 DEF RowEnd, Tabulating
  <2>2. /\ table \in TableType /\ fact.depth = 0 /\ table.ref > 0
    BY <2>1, InvParts DEF ShapesOK, ShapeTypes, ShapesHeld
  <2>3. CASE table.row = "cells"
    <3>1. /\ table' = [table EXCEPT !.row = "none", !.rows = @ + 1]
          /\ last' = [kind |-> "row", ref |-> table.ref, row |-> table.rows]
          /\ UNCHANGED <<index, tables>>
      BY <1>4, <2>3 DEF RowEnd
    <3>2. table'.ref = table.ref /\ table'.rows = table.rows + 1
      BY <2>2, <3>1 DEF TableType
    <3>3. Stream!TableRow
      BY <1>0, <2>1, <2>2, <3>1, <3>2 DEF Going, Stream!TableRow, TableType
    <3> QED
      BY <3>3
  <2>4. CASE table.row # "cells"
    <3>1. table' = [table EXCEPT !.row = "none"] /\ Quiet
      BY <1>4, <2>4 DEF RowEnd
    <3>2. table'.ref = table.ref /\ table'.rows = table.rows
      BY <2>2, <3>1 DEF TableType
    <3> QED
      BY <1>0, <2>1, <3>1, <3>2, Unseen
  <2> QED
    BY <2>3, <2>4
<1>5. CASE TableEnd
  <2>1. /\ Close /\ table.depth > 0 /\ fact' = fact /\ table' = NoTable
        /\ last' = [kind |-> "end", ref |-> table.ref, rows |-> table.rows]
        /\ UNCHANGED <<index, tables>>
    BY <1>5 DEF TableEnd, Unstructured, Tabulating
  <2>2. fact.depth = 0 /\ table.ref > 0 /\ table.ref \in Nat
    BY <2>1, InvParts DEF ShapesOK, ShapeTypes, ShapesHeld, TableType
  <2>3. Stream!TableEnd
    BY <1>0, <2>1, <2>2 DEF Going, NoTable, Stream!TableEnd
  <2> QED
    BY <2>3
<1>6. CASE ElementEnd
  <2>1. /\ Close /\ Mapping /\ fact' = fact /\ table' = table /\ (SendNext \/ Quiet)
    BY <1>6 DEF ElementEnd, SendRun
  <2>2. fact.depth = 0 /\ table = NoTable
    BY <2>1, NothingOpen
  <2> QED
    BY <1>0, <2>1, <2>2, ItemGiven, Unseen DEF NoTable
<1>7. CASE SubtreeEnd
  <2>1. /\ mode \in {"subtree", "meta", "link"}
        /\ mode' \in {mode, "content", "notes"}
        /\ fact' = fact /\ table' = table /\ (SendRecord \/ Quiet)
    BY <1>7 DEF SubtreeEnd, Reading
  <2>2. table.ref = 0 /\ Going /\ Going'
    BY <2>1, NothingOpen DEF NoTable, Going
  <2> QED
    BY <2>1, <2>2, RecordGiven, Unseen
<1> QED
  BY <1>1, <1>2, <1>3, <1>4, <1>5, <1>6, <1>7 DEF Ends

LEMMA SendsGive ==
  ASSUME DriverInv, Sends
  PROVE  Stream!Next \/ UNCHANGED Stream!streamVars
<1> USE DEF shapeVars, Stream!Next
<1>1. CASE SendPicture
  <2>1. /\ mode = "picture" /\ mode' = "content" /\ SendNext
        /\ fact' = fact /\ table' = table
    BY <1>1 DEF SendPicture
  <2>2. fact.depth = 0 /\ table = NoTable
    BY <2>1, NothingOpen
  <2> QED
    BY <2>1, <2>2, ItemGiven DEF NoTable, Going
<1>2. CASE SendNote \/ NotesSent
  <2>1. /\ mode = "notes" /\ mode' \in {"notes", "content"}
        /\ fact' = fact /\ table' = table /\ (SendRecord \/ Quiet)
    BY <1>2 DEF SendNote, NotesSent
  <2>2. table = NoTable
    BY <2>1, NothingOpen
  <2> QED
    BY <2>1, <2>2, RecordGiven, Unseen DEF NoTable, Going
<1>3. CASE SendStatus
  <2>1. table = NoTable /\ fact.depth = 0
    BY <1>3, NothingOpen DEF SendStatus
  <2>2. Stream!Status
    BY <1>3, <2>1 DEF SendStatus, NoTable, Stream!Status, Stream!Outside
  <2> QED
    BY <2>2
<1> QED
  BY <1>1, <1>2, <1>3 DEF Sends

(* The driver implements EventStream for every document: each step sends   *)
(* one event of it, cuts it short, or changes nothing a reader can tell.   *)
THEOREM StreamGiven == Spec => GivesStream
<1>1. Init => Stream!Init
  BY DEF Init, Stream!Init, NoFact, NoTable
<1>2. DriverInv /\ DriverInv' /\ [Next]_driverVars => [Stream!Next]_Stream!streamVars
  <2> SUFFICES ASSUME DriverInv, DriverInv', [Next]_driverVars
               PROVE  Stream!Next \/ UNCHANGED Stream!streamVars
    OBVIOUS
  <2>1. CASE Text
    <3>1. mode = "content" /\ mode' = mode /\ Quiet /\ fact' = fact /\ table' = table
      BY <2>1 DEF Text
    <3> QED
      BY <3>1, Unseen DEF Going
  <2>2. CASE Fail
    <3>1. /\ mode \notin {"done", "failed"} /\ mode' = "failed" /\ Quiet
          /\ fact' = fact /\ table' = table
      BY <2>2 DEF Fail, shapeVars
    <3>2. Stream!Cut
      BY <3>1 DEF Stream!Cut, Quiet, sentVars
    <3> QED
      BY <3>2 DEF Stream!Next
  <2>3. CASE Over \/ UNCHANGED driverVars
    BY <2>3 DEF Over, driverVars, sentVars, shapeVars, Stream!streamVars
  <2> QED
    BY <2>1, <2>2, <2>3, StartsGive, EndsGive, SendsGive DEF Next
<1>3. DriverInv /\ TableRoot => DriverInv
  OBVIOUS
<1> QED
  BY <1>1, <1>2, <1>3, DriverCorrect, PTL DEF Spec, GivesStream, Stream!Spec

-----------------------------------------------------------------------------
(* Text an element has not given yet.  Only a generic document collects it,*)
(* only the innermost element has any, and none has while an island is     *)
(* open.                                                                   *)
GenericHeld ==
  family = "generic" =>
    /\ capture.depth = 0 /\ fact.depth = 0 /\ table.depth = 0
    /\ mode \in {"prolog", "content", "trailer", "done", "failed"}

NoText == \A i \in 1..Len(stack) : stack[i].own # "text"

FramesHeld ==
  /\ \A i \in 1..Len(stack) : stack[i].own # "none" => family = "generic"
  /\ TextOnTop
  /\ island > 0 => NoText

TextInv == GenericHeld /\ FramesHeld

LEMMA GenericKeeps == ASSUME DriverInv, GenericHeld, Next PROVE GenericHeld'
<1> USE DEF GenericHeld, Push, ReadStart, docVars, shapeVars
<1>1. CASE \E of \in Families, attributes \in BOOLEAN : RootStart(of, attributes)
  BY <1>1, NothingOpen DEF RootStart, NoTable
<1>2. CASE \/ \E attributes \in BOOLEAN : Descend(attributes)
           \/ IslandStart
           \/ \E tag \in Tags : FlattenedStart(tag)
  BY <1>2 DEF Descend, IslandStart, FlattenedStart
<1>3. CASE \/ Skip \/ Meta \/ BeginTable
           \/ \E tag \in Tags : TableStart(tag)
           \/ \E isCaption \in BOOLEAN : BeginCapture(isCaption)
           \/ \E attributed \in BOOLEAN : PictureStart(attributed)
           \/ \E what \in {"record", "infrastructure", "link", "fact", "other"} :
                XbrlStart(what)
  <2>1. CASE \E tag \in Tags : TableStart(tag)
    <3>1. family' = family /\ table.depth > 0
      BY <2>1 DEF TableStart, Tabulating
    <3>2. family # "generic"
      BY <3>1, InvParts DEF ShapesOK, ShapeTypes, TableType
    <3> QED
      BY <3>1, <3>2
  <2>2. CASE ~\E tag \in Tags : TableStart(tag)
    <3>1. family # "generic" /\ family' = family
      BY <1>3, <2>2
         DEF Skip, Meta, BeginTable, BeginCapture, PictureStart, XbrlStart, Mapped
    <3> QED
      BY <3>1
  <2> QED
    BY <2>1, <2>2
<1>4. CASE SubtreeStart \/ SubtreeEnd \/ SendPicture \/ SendNote \/ NotesSent
  <2>1. family # "generic" /\ family' = family
    BY <1>4 DEF SubtreeStart, SubtreeEnd, SendPicture, SendNote, NotesSent, Reading,
                ReadEnd
  <2> QED
    BY <2>1
<1>5. CASE Ends /\ ~SubtreeEnd
  <2> SUFFICES ASSUME family' = "generic"
               PROVE  /\ capture'.depth = 0 /\ fact'.depth = 0 /\ table'.depth = 0
                      /\ mode' \in {"content", "trailer"}
    OBVIOUS
  <2>1. Close
    BY <1>5 DEF Ends, FlattenedEnd, IslandEnd, CaptionEnd, CaptureEnd, FactEnd, CellEnd,
                HeaderSectionEnd, RowEnd, OtherTableEnd, TableEnd, ElementEnd
  <2>2. mode' \in {"content", "trailer"} /\ family = "generic"
    BY <2>1 DEF Close, ReadEnd
  <2>3. ~Tabulating
    BY <2>2 DEF Tabulating
  <2>4. /\ capture' = capture \/ capture' = NoCapture
        /\ fact' = fact \/ fact' = NoFact
        /\ table' = table
    BY <1>5, <2>3
       DEF Ends, FlattenedEnd, IslandEnd, CaptionEnd, CaptureEnd, FactEnd, CellEnd,
           HeaderSectionEnd, RowEnd, OtherTableEnd, TableEnd, ElementEnd, Unstructured
  <2> QED
    BY <2>2, <2>4 DEF NoCapture, NoFact
<1>6. CASE Text
  <2>1. /\ family' = family /\ mode' = mode /\ fact' = fact /\ table' = table
        /\ capture'.depth = capture.depth
    BY <1>6, InvParts DEF Text, ShapesOK, ShapeTypes
  <2> QED
    BY <2>1
<1>7. CASE SendStatus \/ Fail \/ Over
  BY <1>7 DEF SendStatus, Fail, Over, driverVars
<1> QED
  BY <1>1, <1>2, <1>3, <1>4, <1>5, <1>6, <1>7 DEF Next, Starts, Ends, Sends

LEMMA FramesPushed ==
  ASSUME DriverInv, FramesHeld, NEW tag \in Tags, stack' = Append(stack, Plain(tag)),
         family' = family, family # "generic" \/ island > 0
  PROVE  FramesHeld'
<1>1. stack \in Seq(Frames) /\ Plain(tag).own = "none" /\ Len(stack) \in Nat
  BY InvParts DEF Plain, Frame
<1>2. \A i \in 1..Len(stack) : stack[i].own # "text"
  BY <1>1 DEF FramesHeld, NoText
<1>3. /\ Len(stack') = Len(stack) + 1 /\ stack'[Len(stack) + 1] = Plain(tag)
      /\ \A i \in 1..Len(stack) : stack'[i] = stack[i]
  BY <1>1, PlainFrame
<1>4. \A i \in 1..Len(stack') : i \in 1..Len(stack) \/ i = Len(stack) + 1
  BY <1>1, <1>3
<1> QED
  BY <1>1, <1>2, <1>3, <1>4 DEF FramesHeld, TextOnTop, NoText

LEMMA FramesPopped ==
  ASSUME DriverInv, FramesHeld, Len(stack) > 0, stack' = Pop, family' = family
  PROVE  FramesHeld' /\ NoText'
<1>1. /\ stack \in Seq(Frames) /\ Len(stack) \in Nat /\ Len(stack') = Len(stack) - 1
      /\ \A i \in 1..(Len(stack) - 1) : stack'[i] = stack[i]
  BY InvParts, Popped
<1>2. \A i \in 1..Len(stack') : i \in 1..Len(stack) /\ i # Len(stack) /\ stack'[i] = stack[i]
  BY <1>1
<1> QED
  BY <1>2 DEF FramesHeld, TextOnTop, NoText

LEMMA FramesInterrupted ==
  ASSUME DriverInv, FramesHeld, Len(stack) > 0, family' = family,
         NEW f \in Frames, stack' = Append(Interrupted, f), f.own # "text",
         f.own # "none" => family = "generic"
  PROVE  FramesHeld' /\ NoText'
<1> DEFINE s == Interrupted
<1>1. s \in Seq(Frames) /\ Len(s) = Len(stack) /\ stack \in Seq(Frames)
  BY InvParts, InterruptedStack
<1>2. \A i \in 1..Len(stack) : s[i].own # "text" /\ (s[i].own # "none" => family = "generic")
  <2>1. CASE Flushes(Top, FALSE)
    <3>1. /\ s = [stack EXCEPT ![Len(stack)] = Flushed(stack[Len(stack)])]
          /\ stack[Len(stack)].own = "text"
      BY <2>1 DEF Interrupted, Flushes, Top
    <3>2. Flushed(stack[Len(stack)]).own = "blank"
      <4>1. stack[Len(stack)] \in Frames
        BY <1>1
      <4> QED
        BY <4>1 DEF Flushed, Frames
    <3>3. \A i \in 1..Len(stack) :
             s[i] = IF i = Len(stack) THEN Flushed(stack[Len(stack)]) ELSE stack[i]
      BY <1>1, <3>1
    <3>4. Len(stack) \in 1..Len(stack)
      BY <1>1
    <3> QED
      BY <3>1, <3>2, <3>3, <3>4 DEF FramesHeld, TextOnTop
  <2>2. CASE ~Flushes(Top, FALSE)
    <3>1. s = stack /\ stack[Len(stack)].own # "text"
      BY <2>2 DEF Interrupted, Flushes, Top
    <3> QED
      BY <3>1 DEF FramesHeld, TextOnTop
  <2> QED
    BY <2>1, <2>2
<1> HIDE DEF s
<1>3. stack' = Append(s, f)
  BY DEF s
<1>4. /\ Len(stack') = Len(stack) + 1 /\ stack'[Len(stack) + 1] = f
      /\ \A i \in 1..Len(stack) : stack'[i] = s[i]
  BY <1>1, <1>3
<1>5. \A i \in 1..Len(stack') : i \in 1..Len(stack) \/ i = Len(stack) + 1
  BY <1>1, <1>4
<1> QED
  BY <1>2, <1>4, <1>5 DEF FramesHeld, TextOnTop, NoText

LEMMA FramesKeep ==
  ASSUME DriverInv, DriverInv', TextInv, Next PROVE FramesHeld'
<1> USE DEF Push, ReadStart, docVars, shapeVars
<1>0. /\ GenericHeld /\ FramesHeld /\ stack \in Seq(Frames) /\ Len(stack) \in Nat
      /\ mode = "content" => Len(stack) > 0
  BY InvParts DEF TextInv
<1>1. CASE \E of \in Families, attributes \in BOOLEAN : RootStart(of, attributes)
  <2>1. PICK of \in Families, attributes \in BOOLEAN : RootStart(of, attributes)
    BY <1>1
  <2>2. /\ stack' = <<Descended(of, attributes)>> /\ family' = of /\ island' = 0
        /\ Descended(of, attributes).own # "text"
        /\ Descended(of, attributes).own # "none" => of = "generic"
    BY <2>1, NothingOpen DEF RootStart, Descended, Plain, Frame
  <2>3. Len(stack') = 1 /\ stack'[1] = Descended(of, attributes)
    BY <2>2
  <2>4. \A i \in 1..Len(stack') : i = 1
    BY <2>3
  <2> QED
    BY <2>2, <2>3, <2>4 DEF FramesHeld, TextOnTop, NoText
<1>2. CASE \E attributes \in BOOLEAN : Descend(attributes)
  <2>1. PICK attributes \in BOOLEAN : Descend(attributes)
    BY <1>2
  <2>2. /\ stack' = Append(Interrupted, Descended(family, attributes))
        /\ family' = family /\ mode = "content"
    BY <2>1 DEF Descend
  <2>3. /\ Descended(family, attributes) \in Frames
        /\ Descended(family, attributes).own # "text"
        /\ Descended(family, attributes).own # "none" => family = "generic"
    BY DescendedFrame DEF Descended, Plain, Frame
  <2> QED
    BY <1>0, <2>2, <2>3, FramesInterrupted
<1>3. CASE IslandStart
  <2>1. /\ stack' = Append(Interrupted, Plain("other"))
        /\ family' = family /\ mode = "content"
    BY <1>3 DEF IslandStart
  <2>2. Plain("other") \in Frames /\ Plain("other").own = "none"
    BY PlainFrame DEF Plain, Frame, Tags
  <2> QED
    BY <1>0, <2>1, <2>2, FramesInterrupted
<1>4. CASE \E tag \in Tags : FlattenedStart(tag) \/ TableStart(tag)
  <2>1. PICK tag \in Tags : FlattenedStart(tag) \/ TableStart(tag)
    BY <1>4
  <2>2. stack' = Append(stack, Plain(tag)) /\ family' = family
    BY <2>1 DEF FlattenedStart, TableStart
  <2>3. island > 0 \/ capture.depth > 0 \/ fact.depth > 0 \/ table.depth > 0
    BY <2>1 DEF FlattenedStart, TableStart, Flattened, Flattening, Tabulating
  <2>4. family # "generic" \/ island > 0
    BY <1>0, <2>3 DEF GenericHeld
  <2> QED
    BY <1>0, <2>2, <2>4, FramesPushed
<1>5. CASE \/ Meta \/ BeginTable
           \/ \E isCaption \in BOOLEAN : BeginCapture(isCaption)
           \/ \E attributed \in BOOLEAN : PictureStart(attributed)
  <2>1. stack' = Append(stack, Plain("other")) /\ family' = family /\ family # "generic"
    BY <1>5 DEF Meta, BeginTable, BeginCapture, PictureStart, Mapped
  <2> QED
    BY <1>0, <2>1, FramesPushed DEF Tags
<1>6. CASE \E what \in {"record", "infrastructure", "link", "fact", "other"} :
             XbrlStart(what)
  <2>1. /\ family' = family /\ family # "generic" /\ island' = island
        /\ (stack' = stack \/ stack' = Append(stack, Plain("other")))
    BY <1>6 DEF XbrlStart
  <2>2. CASE stack' = stack
    BY <1>0, <2>1, <2>2 DEF FramesHeld, TextOnTop, NoText
  <2>3. CASE stack' = Append(stack, Plain("other"))
    BY <1>0, <2>1, <2>3, FramesPushed DEF Tags
  <2> QED
    BY <2>1, <2>2, <2>3
<1>7. CASE Ends /\ ~SubtreeEnd
  <2>1. Close
    BY <1>7 DEF Ends, FlattenedEnd, IslandEnd, CaptionEnd, CaptureEnd, FactEnd, CellEnd,
                HeaderSectionEnd, RowEnd, OtherTableEnd, TableEnd, ElementEnd
  <2>2. stack' = Pop /\ family' = family /\ mode = "content"
    BY <2>1 DEF Close, ReadEnd
  <2> QED
    BY <1>0, <2>2, FramesPopped
<1>8. CASE \/ Skip \/ SubtreeStart \/ SendPicture \/ SendNote \/ SendStatus \/ Over
  <2>1. stack' = stack /\ family' = family /\ island' = island
    BY <1>8 DEF Skip, SubtreeStart, SendPicture, SendNote, SendStatus, Over, driverVars
  <2> QED
    BY <1>0, <2>1 DEF FramesHeld, TextOnTop, NoText
<1>9. CASE SubtreeEnd \/ NotesSent \/ Fail
  <2>1. /\ family' = family /\ island' = island
        /\ stack' = stack \/ (OnStackToo /\ stack' = Pop)
    BY <1>9 DEF SubtreeEnd, NotesSent, Fail, OnStackToo, ReadEnd
  <2>2. CASE stack' = stack
    BY <1>0, <2>1, <2>2 DEF FramesHeld, TextOnTop, NoText
  <2>3. CASE OnStackToo /\ stack' = Pop
    BY <1>0, <2>1, <2>3, AtRead, FramesPopped
  <2> QED
    BY <2>1, <2>2, <2>3
<1>10. CASE Text
  <2>1. family' = family /\ island' = island /\ island = 0
    BY <1>10 DEF Text
  <2>2. CASE stack' = stack
    BY <1>0, <2>1, <2>2 DEF FramesHeld, TextOnTop, NoText
  <2>3. CASE /\ Top.own # "none"
             /\ stack' = [stack EXCEPT ![Len(stack)].own = "text"]
    <3>1. Len(stack) > 0
      BY <1>0, <1>10 DEF Text
    <3>2. /\ Len(stack') = Len(stack)
          /\ \A i \in 1..Len(stack) : i # Len(stack) => stack'[i] = stack[i]
      BY <1>0, <2>3
    <3>3. family = "generic"
      BY <1>0, <2>3, <3>1 DEF FramesHeld, Top
    <3> QED
      BY <1>0, <2>1, <3>2, <3>3 DEF FramesHeld, TextOnTop
  <2> QED
    BY <1>10, <2>2, <2>3 DEF Text
<1> QED
  BY <1>1, <1>2, <1>3, <1>4, <1>5, <1>6, <1>7, <1>8, <1>9, <1>10
     DEF Next, Starts, Ends, Sends

(* Where text that is not given yet may be, and when: the invariant the    *)
(* next two theorems rest on.                                              *)
THEOREM TextCorrect == Spec => [](DriverInv /\ TextInv)
<1>1. Init => TextInv
  <2> SUFFICES ASSUME Init PROVE TextInv
    OBVIOUS
  <2>1. Len(stack) = 0
    BY DEF Init
  <2>2. \A i \in 1..Len(stack) : FALSE
    BY <2>1
  <2> QED
    BY <2>2 DEF Init, TextInv, GenericHeld, FramesHeld, TextOnTop, NoCapture, NoFact,
                NoTable
<1>2. DriverInv /\ DriverInv' /\ TextInv /\ [Next]_driverVars => TextInv'
  <2> SUFFICES ASSUME DriverInv, DriverInv', TextInv, [Next]_driverVars PROVE TextInv'
    OBVIOUS
  <2>1. CASE Next
    BY <2>1, GenericKeeps, FramesKeep DEF TextInv
  <2>2. CASE UNCHANGED driverVars
    BY <2>2 DEF driverVars, docVars, shapeVars, TextInv, GenericHeld, FramesHeld,
                TextOnTop, NoText
  <2> QED
    BY <2>1, <2>2
<1>3. DriverInv /\ TableRoot => DriverInv
  OBVIOUS
<1> QED
  BY <1>1, <1>2, <1>3, DriverCorrect, PTL DEF Spec

(* Text not yet given is the innermost element's: no item mixes the text   *)
(* before a child with the text behind it.                                 *)
THEOREM TextOnTopCorrect == Spec => []TextOnTop
<1>1. DriverInv /\ TextInv => TextOnTop
  BY DEF TextInv, FramesHeld
<1> QED
  BY <1>1, TextCorrect, PTL

(* Text that waits in an element leaves it as an item, whatever comes.     *)
THEOREM OwnTextCorrect == Spec => OwnTextGiven
<1> DEFINE Given == \A i \in DOMAIN stack :
                      stack[i].own = "text" =>
                        \/ index' = index + 1
                        \/ i \in DOMAIN stack' /\ stack'[i].own = "text"
<1>1. DriverInv /\ TextInv /\ [Next]_driverVars => Given
  <2> SUFFICES ASSUME DriverInv, TextInv, [Next]_driverVars, NEW i \in DOMAIN stack,
                      stack[i].own = "text", index' # index + 1
               PROVE  i \in DOMAIN stack' /\ stack'[i].own = "text"
    OBVIOUS
  <2>1. /\ stack \in Seq(Frames) /\ Len(stack) > 0 /\ i = Len(stack) /\ Top.own = "text"
        /\ family = "generic" /\ island = 0
    <3>1. /\ stack \in Seq(Frames) /\ Len(stack) \in Nat /\ island \in Nat
          /\ i \in 1..Len(stack)
      BY InvParts DEF ShapesOK, ShapeTypes
    <3>2. i = Len(stack) /\ family = "generic" /\ ~(island > 0)
      BY <3>1 DEF TextInv, FramesHeld, NoText, TextOnTop
    <3> QED
      BY <3>1, <3>2 DEF Top
  <2>2. /\ capture.depth = 0 /\ fact.depth = 0 /\ table.depth = 0
        /\ ~Flattening /\ ~Tabulating /\ ~Mapped
        /\ mode \in {"prolog", "content", "trailer", "done", "failed"}
    BY <2>1 DEF TextInv, GenericHeld, Flattening, Tabulating, Mapped
  <2>3. mode \in {"content", "failed"}
    BY <2>1, <2>2, AtRead DEF DriverInv, Placed
  <2>4. ~SendRun(TRUE) /\ ~SendRun(FALSE) /\ ~SendNext
    BY <2>1 DEF SendRun, Flushes, SendNext
  <2>5. ~Starts
    BY <2>1, <2>2, <2>3, <2>4
       DEF Starts, RootStart, Descend, FlattenedStart, Flattened, TableStart, XbrlStart,
           IslandStart, Skip, Meta, BeginTable, BeginCapture, PictureStart, SubtreeStart,
           Reading
  <2>6. ~Ends
    <3>1. ~FlattenedEnd /\ ~IslandEnd /\ ~CaptionEnd /\ ~CaptureEnd /\ ~FactEnd
      BY <2>1, <2>2 DEF FlattenedEnd, IslandEnd, CaptionEnd, CaptureEnd, FactEnd
    <3>2. ~CellEnd /\ ~HeaderSectionEnd /\ ~RowEnd /\ ~OtherTableEnd /\ ~TableEnd
      BY <2>2 DEF CellEnd, HeaderSectionEnd, RowEnd, OtherTableEnd, Unstructured, TableEnd
    <3>3. ~ElementEnd /\ ~SubtreeEnd
      BY <2>3, <2>4 DEF ElementEnd, SubtreeEnd, Reading
    <3> QED
      BY <3>1, <3>2, <3>3 DEF Ends
  <2>7. ~Sends
    BY <2>3 DEF Sends, SendPicture, SendNote, NotesSent, SendStatus
  <2>8. CASE Text
    <3>1. stack' = [stack EXCEPT ![Len(stack)].own = "text"]
      BY <2>2, <2>8 DEF Text
    <3>2. stack[Len(stack)] \in Frames
      BY <2>1
    <3> QED
      BY <2>1, <3>1, <3>2 DEF Frames
  <2>9. CASE Fail \/ Over \/ UNCHANGED driverVars
    BY <2>3, <2>9 DEF Fail, Over, driverVars, OnStackToo
  <2> QED
    BY <2>5, <2>6, <2>7, <2>8, <2>9 DEF Next
<1>2. DriverInv /\ TextInv /\ [Next]_driverVars => [Given]_driverVars
  BY <1>1
<1> QED
  BY <1>2, TextCorrect, PTL DEF Spec, OwnTextGiven

-----------------------------------------------------------------------------
(* No capture is open but its depth says so: what a capture left behind    *)
(* cannot be taken for a caption later.                                    *)
CaptureHeld == capture.depth = 0 => capture = NoCapture

(* A caption that waits goes out when it stops waiting, or when another    *)
(* one is read.                                                            *)
Answered ==
  /\ caption > 0
  /\ \/ caption' # caption
     \/ capture.caption /\ capture.text /\ capture' # capture
  => index' = index + 1

LEMMA CaptionStep ==
  ASSUME DriverInv, CaptureHeld, [Next]_driverVars
  PROVE  CaptureHeld' /\ Answered
<1> USE DEF shapeVars
<1>1. /\ Len(stack) \in Nat /\ caption \in Nat
      /\ capture \in [depth : Nat, text : BOOLEAN, caption : BOOLEAN]
      /\ caption <= Len(stack)
  BY InvParts DEF ShapesOK, ShapeTypes, CaptionInWrapper
<1>2. CASE capture' = capture /\ caption' = caption
  BY <1>2 DEF CaptureHeld, Answered
<1>3. CASE BeginTable
  BY <1>3 DEF BeginTable, CaptureHeld, Answered
<1>4. CASE \E isCaption \in BOOLEAN : BeginCapture(isCaption)
  <2>1. capture'.depth > 0 /\ caption' = caption /\ Mapping
    BY <1>1, <1>4 DEF BeginCapture, Mapped
  <2>2. capture = NoCapture
    BY <2>1, NothingOpen DEF CaptureHeld
  <2> QED
    BY <2>1, <2>2, <1>1 DEF CaptureHeld, Answered, NoCapture
<1>5. CASE \E attributed \in BOOLEAN : PictureStart(attributed)
  <2>1. /\ capture' = capture
        /\ caption' # caption => SendNext
    BY <1>5 DEF PictureStart
  <2> QED
    BY <2>1 DEF CaptureHeld, Answered, SendNext
<1>6. CASE Text
  <2>1. CASE capture' = capture
    BY <1>6, <2>1, <1>2 DEF Text
  <2>2. CASE /\ capture.depth > 0 /\ capture' = [capture EXCEPT !.text = TRUE]
             /\ caption' = caption
    <3>1. capture'.depth = capture.depth /\ (capture.text => capture' = capture)
      BY <1>1, <2>2
    <3> QED
      BY <2>2, <3>1, <1>1 DEF CaptureHeld, Answered
  <2> QED
    BY <1>6, <2>1, <2>2 DEF Text
<1>7. CASE CaptionEnd
  <2>1. capture' = NoCapture /\ (caption > 0 => SendNext)
    BY <1>7 DEF CaptionEnd
  <2> QED
    BY <2>1 DEF CaptureHeld, Answered, SendNext
<1>8. CASE CaptureEnd
  <2>1. capture' = NoCapture /\ caption' = caption /\ ~(capture.text /\ capture.caption)
    BY <1>8 DEF CaptureEnd
  <2> QED
    BY <2>1 DEF CaptureHeld, Answered
<1>9. CASE ElementEnd
  <2>1. capture' = capture /\ (caption' # caption => SendNext)
    BY <1>9 DEF ElementEnd
  <2> QED
    BY <2>1 DEF CaptureHeld, Answered, SendNext
<1>10. CASE \/ \E of \in Families, attributes \in BOOLEAN : RootStart(of, attributes)
            \/ \E attributes \in BOOLEAN : Descend(attributes)
            \/ \E tag \in Tags : FlattenedStart(tag) \/ TableStart(tag)
            \/ \E what \in {"record", "infrastructure", "link", "fact", "other"} :
                 XbrlStart(what)
            \/ IslandStart \/ Skip \/ Meta \/ SubtreeStart
  BY <1>2, <1>10 DEF RootStart, Descend, FlattenedStart, TableStart, XbrlStart, IslandStart,
                     Skip, Meta, SubtreeStart
<1>11. CASE \/ FlattenedEnd \/ IslandEnd \/ FactEnd \/ CellEnd \/ HeaderSectionEnd
            \/ RowEnd \/ OtherTableEnd \/ TableEnd \/ SubtreeEnd
  BY <1>2, <1>11 DEF FlattenedEnd, IslandEnd, FactEnd, CellEnd, HeaderSectionEnd, RowEnd,
                     OtherTableEnd, TableEnd, SubtreeEnd
<1>12. CASE Sends \/ Fail \/ Over \/ UNCHANGED driverVars
  BY <1>2, <1>12 DEF Sends, SendPicture, SendNote, NotesSent, SendStatus, Fail, Over,
                     driverVars
<1> QED
  BY <1>3, <1>4, <1>5, <1>6, <1>7, <1>8, <1>9, <1>10, <1>11, <1>12
     DEF Next, Starts, Ends

(* No caption is lost, whatever stands between it and a table.             *)
THEOREM CaptionAnsweredCorrect == Spec => CaptionAnswered
<1>1. Init => CaptureHeld
  BY DEF Init, CaptureHeld
<1>2. DriverInv /\ CaptureHeld /\ [Next]_driverVars => CaptureHeld' /\ [Answered]_driverVars
  BY CaptionStep
<1>3. DriverInv /\ TableRoot => DriverInv
  OBVIOUS
<1> QED
  BY <1>1, <1>2, <1>3, DriverCorrect, PTL DEF Spec, CaptionAnswered, Answered
=============================================================================
