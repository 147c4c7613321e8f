-------------------------- MODULE MetsArchiveProofs --------------------------
(***************************************************************************)
(* The promises of the archive parse, for every payload, limit and bound:  *)
(* the budget is what decides whether a payload is too large, a line of an *)
(* hOCR page is captured from its start tag to the end tag that matches    *)
(* it, what is emitted is an EventStream, the walk over the manifest knows *)
(* of the document what is open in it, and the pages come by ORDER, none   *)
(* with text left out.                                                     *)
(***************************************************************************)
EXTENDS MetsArchive, DataInduction

-----------------------------------------------------------------------------
(* The budget.  It is inductive with what the parse returned: a parse that *)
(* is over has nothing more to read.                                       *)

BudgetInv ==
  /\ given \in Payloads
  /\ fed \in Nat /\ budget \in Nat /\ capped \in BOOLEAN
  /\ result # "none" => phase \in {"failed", "done"}
  /\ result # "too_large" => fed + budget = BudgetFor(given.limit) /\ ~capped
  /\ result = "too_large" => capped \/ fed > BudgetFor(given.limit)

BudgetVars == <<given, phase, result, fed, budget, capped>>

LEMMA LimitIsNatural ==
  ASSUME NEW p \in Payloads
  PROVE  p.limit \in Nat /\ BudgetFor(p.limit) \in Nat
  BY MetsArchiveAssumption DEF BudgetFor

(* Blocks that the budget has room for, and blocks that end the parse. *)
LEMMA MeteringKeepsBudget ==
  ASSUME BudgetInv, NEW n \in Nat, Metered(n), result = "none",
         given' = given, capped' = capped,
         IF Over(n) THEN Fail("too_large")
         ELSE \/ UNCHANGED result
              \/ phase' = "failed" /\ result' \in {"malformed", "unsupported"}
  PROVE  BudgetInv'
<1> USE DEF BudgetInv, Metered, Over, Charged
<1>0. BudgetFor(given.limit) \in Nat
  BY LimitIsNatural
<1>1. CASE Over(n)
  <2>1. fed' = fed + n /\ result' = "too_large" /\ phase' = "failed"
    BY <1>1 DEF Fail
  <2> QED
    BY <1>0, <1>1, <2>1
<1>2. CASE ~Over(n)
  <2>1. fed' = fed + n /\ budget' = budget - n /\ n <= budget
    BY <1>2
  <2>2. result' # "too_large" /\ (result' # "none" => phase' = "failed")
    BY <1>2
  <2> QED
    BY <1>0, <2>1, <2>2
<1> QED
  BY <1>1, <1>2

(* Whatever reads nothing from the decompressor. *)
LEMMA NotMeteringKeepsBudget ==
  ASSUME BudgetInv, result = "none", UNCHANGED <<given, fed, budget, capped>>,
         result' # "none" => phase' \in {"failed", "done"}, result' # "too_large"
  PROVE  BudgetInv'
  BY DEF BudgetInv

LEMMA BudgetStep == BudgetInv /\ [Next]_vars => BudgetInv'
<1> SUFFICES ASSUME BudgetInv, [Next]_vars PROVE BudgetInv'
  OBVIOUS
<1> USE DEF NotThatKind
<1>0. phase \notin {"failed", "done"} => result = "none"
  BY DEF BudgetInv
<1>1. CASE NextEntry
  BY <1>0, <1>1, MeteringKeepsBudget DEF NextEntry, Fail
<1>2. CASE ReadBody
  BY <1>0, <1>2, MeteringKeepsBudget DEF ReadBody, Fail
<1>3. CASE EndBody
  BY <1>0, <1>3, NotMeteringKeepsBudget DEF EndBody
<1>4. ASSUME NEW n \in {0, 1}, EndTar(n) PROVE BudgetInv'
  BY <1>0, <1>4, MeteringKeepsBudget DEF EndTar, Fail
<1>5. CASE TarBroken
  BY <1>0, <1>5, NotMeteringKeepsBudget DEF TarBroken, Fail
<1>6. CASE UploadCapped
  <2>1. result' = "too_large" /\ phase' = "failed" /\ capped'
    BY <1>6 DEF UploadCapped, Fail
  <2>2. UNCHANGED <<given, fed, budget>> /\ capped' \in BOOLEAN
    BY <1>6 DEF UploadCapped
  <2> QED
    BY <2>1, <2>2 DEF BudgetInv
<1>7. CASE Uploaded
  BY <1>0, <1>7, NotMeteringKeepsBudget DEF Uploaded, Fail
<1>8. CASE Inflate
  <2>1. result = "none" /\ UNCHANGED <<given, capped>>
    BY <1>0, <1>8 DEF Inflate
  <2>2. CASE /\ left > 0 /\ Metered(1)
             /\ IF Over(1) THEN Fail("too_large") ELSE UNCHANGED <<phase, result>>
    BY <2>1, <2>2, MeteringKeepsBudget
  <2>3. CASE /\ UNCHANGED <<fed, budget>>
             /\ (UNCHANGED result \/ Fail("malformed"))
    BY <2>1, <2>3, NotMeteringKeepsBudget DEF Fail
  <2> QED
    BY <1>8, <2>2, <2>3 DEF Inflate
<1>9. CASE ReadManifest
  BY <1>0, <1>9, NotMeteringKeepsBudget DEF ReadManifest, Reading
<1>10. CASE EndManifest
  BY <1>0, <1>10, NotMeteringKeepsBudget DEF EndManifest, Reading
<1>11. CASE MemberFails
  BY <1>0, <1>11, NotMeteringKeepsBudget DEF MemberFails, Fail
<1>12. CASE SendInfo
  BY <1>0, <1>12, NotMeteringKeepsBudget DEF SendInfo, Reading
<1>13. CASE SendOutline
  BY <1>0, <1>13, NotMeteringKeepsBudget DEF SendOutline, Reading
<1>14. CASE SendRecords
  BY <1>0, <1>14, NotMeteringKeepsBudget DEF SendRecords, Reading
<1>15. CASE NextPage
  BY <1>0, <1>15, NotMeteringKeepsBudget DEF NextPage, Reading
<1>16. CASE ReadHocr
  BY <1>0, <1>16, NotMeteringKeepsBudget DEF ReadHocr, Reading
<1>17. CASE SendPage
  BY <1>0, <1>17, NotMeteringKeepsBudget DEF SendPage, Reading
<1>18. CASE SendLine
  BY <1>0, <1>18, NotMeteringKeepsBudget DEF SendLine, Reading
<1>19. CASE SendStatus
  BY <1>0, <1>19, NotMeteringKeepsBudget DEF SendStatus
<1>20. CASE Stopped
  BY <1>0, <1>20, NotMeteringKeepsBudget DEF Stopped, Running, Fail
<1>21. CASE UNCHANGED vars
  BY <1>21 DEF vars, archiveVars, BudgetInv
<1> QED
  BY <1>1, <1>2, <1>3, <1>4, <1>5, <1>6, <1>7, <1>8, <1>9, <1>10, <1>11, <1>12,
     <1>13, <1>14, <1>15, <1>16, <1>17, <1>18, <1>19, <1>20, <1>21 DEF Next

LEMMA BudgetStart == Init => BudgetInv
<1> SUFFICES ASSUME Init PROVE BudgetInv
  OBVIOUS
<1>1. given \in Payloads /\ BudgetFor(given.limit) \in Nat
  BY LimitIsNatural DEF Init
<1>2. result = "none" /\ fed = 0 /\ budget = BudgetFor(given.limit) /\ capped = FALSE
  BY DEF Init
<1>3. capped \in BOOLEAN /\ ~capped
  BY <1>2
<1>4. fed \in Nat /\ budget \in Nat /\ fed + budget = BudgetFor(given.limit)
  BY <1>1, <1>2
<1> QED
  BY <1>1, <1>2, <1>3, <1>4 DEF BudgetInv

(* The metered reader and read_inflated: a payload is refused for its size *)
(* exactly when it gave more than its limit, headers, skipped bodies and   *)
(* dropped members included, and with no limit never for that.             *)
THEOREM BudgetCorrect == Spec => []BudgetKept
<1>1. BudgetInv => BudgetKept
  BY LimitIsNatural DEF BudgetInv, BudgetKept, BudgetFor
<1> QED
  BY <1>1, BudgetStart, BudgetStep, PTL DEF Spec

-----------------------------------------------------------------------------
(* The capture of a line.                                                  *)

Captures == [on : BOOLEAN, depth : Nat, boxed : BOOLEAN, text : BOOLEAN,
             words : Nat, word : BOOLEAN]

HocrInv == spans \in Seq(Classes) /\ capture \in Captures /\ CaptureMatchesSpans

LEMMA NoCaptureKeeps ==
  ASSUME spans' \in Seq(Classes), capture' = NoCapture
  PROVE  HocrInv'
  BY DEF HocrInv, Captures, NoCapture, CaptureMatchesSpans

(* A span inside a line, or a line of its own. *)
LEMMA OpenSpanKeeps ==
  ASSUME HocrInv, NEW class \in Classes, NEW boxed \in BOOLEAN, OpenSpan(class, boxed)
  PROVE  HocrInv'
<1>1. /\ spans \in Seq(Classes) /\ spans' = Append(spans, class)
      /\ spans' \in Seq(Classes) /\ Len(spans') = Len(spans) + 1
      /\ \A i \in DOMAIN spans : i \in DOMAIN spans' /\ spans'[i] = spans[i]
      /\ spans'[Len(spans) + 1] = class /\ Len(spans) + 1 \in DOMAIN spans'
  BY DEF HocrInv, OpenSpan
<1>2. CASE capture.on
  <2>1. capture' = [capture EXCEPT !.word = @ \/ StartsWord(capture, class, boxed),
                                   !.depth = capture.depth + 1]
    BY <1>2 DEF OpenSpan, Deeper
  <2>a. capture \in Captures /\ StartsWord(capture, class, boxed) \in BOOLEAN
    BY DEF HocrInv, StartsWord
  <2> DEFINE word == capture.word \/ StartsWord(capture, class, boxed)
  <2>b. /\ word \in BOOLEAN /\ capture.depth + 1 \in Nat
        /\ capture' = [capture EXCEPT !.word = word, !.depth = capture.depth + 1]
    BY <2>1, <2>a DEF Captures
  <2>c. /\ capture' \in Captures /\ capture'.word = word
        /\ capture'.depth = capture.depth + 1 /\ capture'.words = capture.words
    <3> HIDE DEF word
    <3> QED
      BY <2>a, <2>b DEF Captures
  <2>2. /\ capture \in Captures /\ capture' \in Captures
        /\ capture'.word <=> (capture.word \/ StartsWord(capture, class, boxed))
        /\ capture'.depth = capture.depth + 1 /\ capture'.words = capture.words
    BY <2>a, <2>c
  <2> HIDE DEF word
  <2> DEFINE line == Len(spans) - capture.depth
  <2>3. line \in DOMAIN spans /\ spans[line] = "ocr_line"
    BY <1>2 DEF HocrInv, CaptureMatchesSpans
  <2>4. Len(spans') - capture'.depth = line /\ line \in Nat
    BY <1>1, <2>2, <2>3 DEF Captures
  <2>5. CASE capture.word
    BY <1>1, <1>2, <2>2, <2>3, <2>4, <2>5 DEF HocrInv, CaptureMatchesSpans, StartsWord
  <2>6. CASE StartsWord(capture, class, boxed)
    <3>1. capture.depth = 0 /\ class = "ocrx_word" /\ capture.words < MaxWords
      BY <2>6 DEF StartsWord
    <3>2. line + 1 = Len(spans) + 1
      BY <3>1, <1>1
    <3>3. capture.words + 1 <= MaxWords
      BY <3>1, <2>2, HocrPageAssumption DEF Captures
    <3>4. line + 1 \in DOMAIN spans' /\ spans'[line + 1] = "ocrx_word"
      BY <1>1, <3>1, <3>2
    <3>5. line \in DOMAIN spans' /\ spans'[line] = "ocr_line"
      BY <1>1, <2>3
    <3>6. capture'.word /\ capture'.words + 1 <= MaxWords
      BY <2>2, <2>6, <3>3
    <3> HIDE DEF line
    <3> QED
      BY <1>1, <2>2, <2>4, <3>4, <3>5, <3>6 DEF HocrInv, CaptureMatchesSpans
  <2>7. CASE ~capture.word /\ ~StartsWord(capture, class, boxed)
    <3>1. capture.words + 0 <= MaxWords
      BY <1>2, <2>7 DEF HocrInv, CaptureMatchesSpans
    <3> QED
      BY <1>1, <2>2, <2>3, <2>4, <2>7, <3>1 DEF HocrInv, CaptureMatchesSpans
  <2> QED
    BY <2>5, <2>6, <2>7
<1>3. CASE ~capture.on /\ class = "ocr_line"
  <2>1. capture' = [NoCapture EXCEPT !.on = TRUE, !.boxed = boxed]
    BY <1>3 DEF OpenSpan
  <2>2. capture' \in Captures /\ capture'.depth = 0 /\ ~capture'.word /\ capture'.words = 0
    BY <2>1 DEF NoCapture, Captures
  <2>3. Len(spans') - capture'.depth = Len(spans) + 1
    BY <1>1, <2>2
  <2> QED
    BY <1>1, <1>3, <2>2, <2>3, HocrPageAssumption DEF HocrInv, CaptureMatchesSpans
<1>4. CASE ~capture.on /\ class # "ocr_line"
  BY <1>1, <1>4, NoCaptureKeeps DEF OpenSpan
<1> QED
  BY <1>2, <1>3, <1>4

(* The end of a span inside the line, or of the line. *)
LEMMA CloseSpanKeeps ==
  ASSUME HocrInv, CloseSpan
  PROVE  HocrInv'
<1>1. spans \in Seq(Classes) /\ capture \in Captures
  BY DEF HocrInv
<1>2. spans' \in Seq(Classes)
  <2>1. CASE spans = <<>>
    BY <2>1 DEF CloseSpan
  <2>2. CASE spans # <<>>
    BY <1>1, <2>2 DEF CloseSpan, Front
  <2> QED
    BY <2>1, <2>2
<1>3. CASE ~(capture.on /\ capture.depth > 0)
  BY <1>2, <1>3, NoCaptureKeeps DEF CloseSpan
<1>4. CASE capture.on /\ capture.depth > 0
  <2> DEFINE line == Len(spans) - capture.depth
             done == capture.depth = 1 /\ capture.word
  <2>1. line \in DOMAIN spans /\ spans[line] = "ocr_line"
    BY <1>4 DEF HocrInv, CaptureMatchesSpans
  <2>2. line \in 1..(Len(spans) - 1) /\ Len(spans) \in Nat
    BY <1>1, <1>4, <2>1 DEF Captures
  <2>3. spans # <<>>
    BY <1>1, <2>2
  <2>4. /\ Len(spans') = Len(spans) - 1
        /\ \A i \in 1..(Len(spans) - 1) : i \in DOMAIN spans' /\ spans'[i] = spans[i]
    BY <1>1, <2>2, <2>3 DEF CloseSpan, Front
  <2>5. capture' = [capture EXCEPT !.depth = @ - 1, !.word = @ /\ ~done,
                                   !.words = IF done THEN @ + 1 ELSE @]
    BY <1>4 DEF CloseSpan
  <2> DEFINE word == capture.word /\ ~done
             words == IF done THEN capture.words + 1 ELSE capture.words
  <2>a. /\ word \in BOOLEAN /\ words \in Nat /\ capture.depth - 1 \in Nat
        /\ capture' = [capture EXCEPT !.depth = capture.depth - 1, !.word = word,
                                       !.words = words]
    BY <1>1, <1>4, <2>5 DEF Captures
  <2>b. /\ capture' \in Captures /\ capture'.depth = capture.depth - 1
        /\ capture'.word = word /\ capture'.words = words
    <3> HIDE DEF word, words
    <3> QED
      BY <1>1, <2>a DEF Captures
  <2>6. /\ capture' \in Captures /\ capture'.depth = capture.depth - 1
        /\ capture'.word <=> (capture.word /\ ~done)
        /\ capture'.words = IF done THEN capture.words + 1 ELSE capture.words
    BY <2>b
  <2> HIDE DEF word, words
  <2>7. Len(spans') - capture'.depth = line
    BY <1>1, <2>2, <2>4, <2>6 DEF Captures
  <2>8. line \in DOMAIN spans' /\ spans'[line] = "ocr_line"
    BY <2>1, <2>2, <2>4
  <2>9. capture'.words + (IF capture'.word THEN 1 ELSE 0) <= MaxWords
    <3>1. capture.words + (IF capture.word THEN 1 ELSE 0) <= MaxWords
      BY <1>4 DEF HocrInv, CaptureMatchesSpans
    <3>2. capture.words \in Nat /\ MaxWords \in Nat
      BY <1>1, HocrPageAssumption DEF Captures
    <3>3. CASE done
      <4>1. capture.word /\ ~capture'.word /\ capture'.words = capture.words + 1
        BY <2>6, <3>3
      <4> QED
        BY <3>1, <3>2, <4>1
    <3>4. CASE ~done
      BY <2>6, <3>1, <3>2, <3>4
    <3> QED
      BY <3>3, <3>4
  <2>10. capture'.word => line + 1 \in DOMAIN spans' /\ spans'[line + 1] = "ocrx_word"
    <3> SUFFICES ASSUME capture.word, capture.depth # 1
                 PROVE  line + 1 \in DOMAIN spans' /\ spans'[line + 1] = "ocrx_word"
      BY <2>6
    <3>1. line + 1 \in DOMAIN spans /\ spans[line + 1] = "ocrx_word"
      BY <1>4 DEF HocrInv, CaptureMatchesSpans
    <3>2. line + 1 \in 1..(Len(spans) - 1)
      BY <1>1, <1>4, <2>2 DEF Captures
    <3> QED
      BY <2>4, <3>1, <3>2
  <2> HIDE DEF line, done
  <2> QED
    BY <1>2, <2>6, <2>7, <2>8, <2>9, <2>10 DEF HocrInv, CaptureMatchesSpans
<1> QED
  BY <1>3, <1>4

LEMMA HocrTextKeeps ==
  ASSUME HocrInv, HocrText
  PROVE  HocrInv'
<1>1. /\ capture' \in Captures /\ capture'.on = capture.on
      /\ capture'.depth = capture.depth /\ capture'.word = capture.word
      /\ capture'.words = capture.words /\ spans' = spans
  BY DEF HocrInv, HocrText, Captures
<1> QED
  BY <1>1 DEF HocrInv, CaptureMatchesSpans

LEMMA HocrUnchangedKeeps ==
  ASSUME HocrInv, UNCHANGED hocrVars
  PROVE  HocrInv'
  BY DEF HocrInv, CaptureMatchesSpans, hocrVars

LEMMA HocrStep == HocrInv /\ [Next]_vars => HocrInv'
<1> SUFFICES ASSUME HocrInv, [Next]_vars PROVE HocrInv'
  OBVIOUS
<1>1. CASE ReadHocr
  <2>1. CASE \E class \in Classes, boxed \in BOOLEAN : OpenSpan(class, boxed)
    BY <2>1, OpenSpanKeeps
  <2>2. CASE CloseSpan
    BY <2>2, CloseSpanKeeps
  <2>3. CASE HocrText
    BY <2>3, HocrTextKeeps
  <2> QED
    BY <1>1, <2>1, <2>2, <2>3 DEF ReadHocr
<1>2. CASE NextPage
  BY <1>2, NoCaptureKeeps DEF NextPage
<1>3. CASE UNCHANGED hocrVars
  BY <1>3, HocrUnchangedKeeps
<1>4. ASSUME Next, ~ReadHocr, ~NextPage PROVE UNCHANGED hocrVars
  BY <1>4 DEF Next, NextEntry, ReadBody, EndBody, EndTar, TarBroken, UploadCapped,
       Uploaded, Inflate, ReadManifest, EndManifest, MemberFails, SendInfo,
       SendOutline, SendRecords, SendPage, SendLine, SendStatus, Stopped, Unread
<1> QED
  BY <1>1, <1>2, <1>3, <1>4 DEF vars

(* read_hocr follows spans by counting, with no stack and no names: still  *)
(* a line ends with its own end tag, a word is the span right under it,    *)
(* and a line never has more words than the bound.                         *)
THEOREM CaptureCorrect == Spec => []CaptureMatchesSpans
<1>1. Init => HocrInv
  BY DEF Init, HocrInit, HocrInv, Captures, NoCapture, CaptureMatchesSpans
<1>2. HocrInv => CaptureMatchesSpans
  BY DEF HocrInv
<1> QED
  BY <1>1, <1>2, HocrStep, PTL DEF Spec

-----------------------------------------------------------------------------
(* The stream of events.  No event has been sent before XmlInfo is.        *)

Before == {"upload", "inflate", "handed", "tar", "manifest", "info"}
Sending == {"outline", "records", "pages", "hocr", "lines"}

StreamInv ==
  /\ phase \in Before => last.kind = "none"
  /\ phase \in Sending => last.kind # "none"
  /\ phase \in Before \cup Sending \cup {"failed", "done"}

StreamStep == [Stream!Next]_(Stream!streamVars)

LEMMA Stages ==
  /\ phase \in Before /\ last.kind = "none" => Stage = "start"
  /\ phase \in Sending /\ last.kind # "none" => Stage = "open"
  /\ phase = "done" => Stage = "done"
  /\ phase = "failed" => Stage = "cut"
  BY DEF Stage, Before, Sending

LEMMA StagesNext ==
  /\ phase' \in Before /\ last'.kind = "none" => Stage' = "start"
  /\ phase' \in Sending /\ last'.kind # "none" => Stage' = "open"
  /\ phase' = "done" => Stage' = "done"
  /\ phase' = "failed" => Stage' = "cut"
  BY DEF Stage, Before, Sending

(* A step that sends nothing and stays on its side of XmlInfo. *)
LEMMA SilentStep ==
  ASSUME StreamInv, UNCHANGED <<last, index>>,
         \/ phase \in Before /\ phase' \in Before
         \/ phase \in Sending /\ phase' \in Sending
  PROVE  StreamInv' /\ StreamStep
<1>1. Stage' = Stage
  BY Stages, StagesNext DEF StreamInv
<1>2. UNCHANGED Stream!streamVars
  BY <1>1 DEF Stream!streamVars
<1>3. StreamInv'
  BY DEF StreamInv, Before, Sending
<1> QED
  BY <1>2, <1>3 DEF StreamStep

LEMMA FailingStep ==
  ASSUME StreamInv, UNCHANGED <<last, index>>, phase \in Before \cup Sending,
         phase' = "failed"
  PROVE  StreamInv' /\ StreamStep
<1>1. Stage \in {"start", "open"} /\ Stage' = "cut"
  BY Stages, StagesNext DEF StreamInv
<1>2. Stream!Cut
  BY <1>1 DEF Stream!Cut
<1>3. StreamInv'
  BY DEF StreamInv, Before, Sending
<1> QED
  BY <1>2, <1>3 DEF StreamStep, Stream!Next

LEMMA RecordStep ==
  ASSUME StreamInv, phase \in Sending, phase' \in Sending, Emit("record")
  PROVE  StreamInv' /\ StreamStep
<1>1. last' = [kind |-> "record"] /\ index' = index /\ last'.kind # "none"
  BY DEF Emit
<1>2. Stage = "open" /\ Stage' = "open"
  BY <1>1, Stages, StagesNext DEF StreamInv
<1>3. Stream!Record
  BY <1>1, <1>2 DEF Stream!Record, Stream!Outside
<1>4. StreamInv'
  BY <1>1 DEF StreamInv, Before, Sending
<1> QED
  BY <1>3, <1>4 DEF StreamStep, Stream!Next

LEMMA ItemStep ==
  ASSUME StreamInv, phase \in Sending, phase' = phase,
         last' = [kind |-> "item", index |-> index], index' = index + 1
  PROVE  StreamInv' /\ StreamStep
<1>1. last'.kind # "none"
  OBVIOUS
<1>2. Stage = "open" /\ Stage' = "open"
  BY <1>1, Stages, StagesNext DEF StreamInv
<1>3. Stream!Item
  BY <1>2 DEF Stream!Item, Stream!Outside
<1>4. StreamInv'
  BY <1>1 DEF StreamInv, Before, Sending
<1> QED
  BY <1>3, <1>4 DEF StreamStep, Stream!Next

LEMMA InfoStep == ASSUME StreamInv, SendInfo PROVE StreamInv' /\ StreamStep
<1>1. /\ phase = "info" /\ phase' = "outline" /\ index' = index
      /\ last' = [kind |-> "info"] /\ last'.kind # "none"
  BY DEF SendInfo, Emit
<1>2. Stage = "start" /\ Stage' = "open"
  BY <1>1, Stages, StagesNext DEF StreamInv, Before, Sending
<1>3. Stream!Info
  BY <1>1, <1>2 DEF Stream!Info
<1>4. StreamInv'
  BY <1>1 DEF StreamInv, Before, Sending
<1> QED
  BY <1>3, <1>4 DEF StreamStep, Stream!Next

LEMMA StatusStep == ASSUME StreamInv, SendStatus PROVE StreamInv' /\ StreamStep
<1>1. /\ phase = "pages" /\ phase' = "done" /\ index' = index
      /\ last' = [kind |-> "status"]
  BY DEF SendStatus, Emit
<1>2. Stage = "open" /\ Stage' = "done"
  BY <1>1, Stages, StagesNext DEF StreamInv, Sending
<1>3. Stream!Status
  BY <1>1, <1>2 DEF Stream!Status, Stream!Outside
<1>4. StreamInv'
  BY <1>1 DEF StreamInv, Before, Sending
<1> QED
  BY <1>3, <1>4 DEF StreamStep, Stream!Next

LEMMA NextStreams == StreamInv /\ [Next]_vars => StreamInv' /\ StreamStep
<1> SUFFICES ASSUME StreamInv, [Next]_vars PROVE StreamInv' /\ StreamStep
  OBVIOUS
<1>1. CASE NextEntry
  BY <1>1, SilentStep, FailingStep DEF NextEntry, Fail, Unsent, Before
<1>2. CASE ReadBody
  BY <1>2, SilentStep, FailingStep DEF ReadBody, Fail, Unsent, Before
<1>3. CASE EndBody
  BY <1>3, SilentStep DEF EndBody, Unsent, Before
<1>4. ASSUME NEW n \in {0, 1}, EndTar(n) PROVE StreamInv' /\ StreamStep
  BY <1>4, SilentStep, FailingStep DEF EndTar, Fail, Unsent, Before
<1>5. CASE TarBroken \/ UploadCapped
  BY <1>5, FailingStep DEF TarBroken, UploadCapped, Fail, Unsent, Before
<1>6. CASE Uploaded
  BY <1>6, SilentStep, FailingStep DEF Uploaded, Fail, Unsent, Before
<1>7. CASE Inflate
  BY <1>7, SilentStep, FailingStep DEF Inflate, Fail, Unsent, Before
<1>8. CASE ReadManifest
  BY <1>8, SilentStep DEF ReadManifest, Unsent, Before
<1>9. CASE EndManifest
  BY <1>9, SilentStep DEF EndManifest, Before
<1>10. CASE MemberFails
  BY <1>10, FailingStep DEF MemberFails, Fail, Unsent, Before, Sending
<1>11. CASE SendInfo
  BY <1>11, InfoStep
<1>12. CASE SendOutline
  BY <1>12, SilentStep, RecordStep DEF SendOutline, Sending
<1>13. CASE SendRecords
  BY <1>13, SilentStep, RecordStep DEF SendRecords, Sending
<1>14. CASE NextPage
  BY <1>14, SilentStep DEF NextPage, Quiet, Sending
<1>15. CASE ReadHocr
  BY <1>15, SilentStep DEF ReadHocr, Unsent, Sending
<1>16. CASE SendPage
  BY <1>16, RecordStep DEF SendPage, Sending
<1>17. CASE SendLine
  BY <1>17, SilentStep, ItemStep DEF SendLine, Index, Sending
<1>18. CASE SendStatus
  BY <1>18, StatusStep
<1>19. CASE Stopped
  <2>1. phase \in Before \cup Sending
    BY <1>19 DEF Stopped, Running, StreamInv
  <2> QED
    BY <1>19, <2>1, FailingStep DEF Stopped, Fail, Unsent
<1>20. CASE UNCHANGED vars
  <2>1. UNCHANGED <<phase, last, index>>
    BY <1>20 DEF vars, archiveVars
  <2>2. UNCHANGED Stream!streamVars
    BY <2>1 DEF Stream!streamVars, Stage
  <2> QED
    BY <2>1, <2>2 DEF StreamInv, StreamStep
<1> QED
  BY <1>1, <1>2, <1>3, <1>4, <1>5, <1>6, <1>7, <1>8, <1>9, <1>10, <1>11, <1>12,
     <1>13, <1>14, <1>15, <1>16, <1>17, <1>18, <1>19, <1>20 DEF Next

(* MetsDriver.run and emit_page implement the stream of events: whatever   *)
(* the volume and wherever it fails, XmlInfo comes first, the lines of all *)
(* its pages are numbered as one document's, and the trailer comes last.   *)
THEOREM StreamCorrect == Spec => GivesStream
<1>1. Init => StreamInv /\ Stream!Init
  <2> SUFFICES ASSUME Init PROVE StreamInv /\ Stream!Init
    OBVIOUS
  <2>1. phase \in {"upload", "tar"} /\ last = [kind |-> "none"] /\ index = 0
    BY DEF Init
  <2>2. Stage = "start"
    BY <2>1, Stages DEF Before
  <2> QED
    BY <2>1, <2>2 DEF StreamInv, Before, Sending, Stream!Init
<1>2. StreamInv /\ [Next]_vars => StreamInv' /\ [Stream!Next]_(Stream!streamVars)
  BY NextStreams DEF StreamStep
<1> QED
  BY <1>1, <1>2, PTL DEF Spec, GivesStream, Stream!Spec

-----------------------------------------------------------------------------
(* The walk over the manifest.                                             *)

WalkIsRecord ==
  walk = [files |-> walk.files, uses |-> walk.uses, depth |-> walk.depth,
          page |-> walk.page, file |-> walk.file, map |-> walk.map,
          divs |-> walk.divs, dmd |-> walk.dmd, field |-> walk.field]

WalkTypes ==
  /\ open \in Seq(Elements)
  /\ starts \in Nat
  /\ WalkIsRecord
  /\ walk.uses \in Seq(Uses \cup {Nothing})
  /\ walk.depth \in Nat /\ walk.map \in Nat /\ walk.divs \in Nat /\ walk.dmd \in Nat
  /\ walk.page \in [depth : Nat, order : Int]
  /\ walk.field \in [depth : Nat, text : BOOLEAN]
  /\ outline \in Seq([level : Nat, around : Nat])

(* Outside tangled manifests: the one structMap that can be open is the    *)
(* one the walk remembers, and divs counts the divisions open in it.       *)
MapCounts ==
  ~tangled =>
    /\ \A j \in DOMAIN open : open[j].tag = "structMap" => j = walk.map
    /\ walk.divs = Cardinality(DivsAround)

WalkInv == WalkTypes /\ WalkMatchesReader /\ MapCounts /\ LevelsCount

LEMMA ElementFacts ==
  ASSUME NEW e \in Elements
  PROVE  /\ e.tag \in Tags /\ e.use \in Uses \cup {Nothing} /\ e.labelled \in BOOLEAN
         /\ e.order \in Int /\ (IsPage(e) => e.tag = "div")
  BY MetsManifestAssumption DEF IsPage

LEMMA OpenFinite ==
  ASSUME WalkTypes
  PROVE  /\ IsFiniteSet(GroupsOpen) /\ Cardinality(GroupsOpen) \in Nat
         /\ IsFiniteSet(DivsAround) /\ Cardinality(DivsAround) \in Nat
         /\ \A i \in Nat : LET G == {j \in GroupsOpen : j <= i}
                           IN  IsFiniteSet(G) /\ Cardinality(G) \in Nat
                               /\ Cardinality(G) <= Cardinality(GroupsOpen)
<1>1. IsFiniteSet(1..Len(open)) /\ DOMAIN open = 1..Len(open)
  BY FS_Interval DEF WalkTypes
<1>2. GroupsOpen \in SUBSET (1..Len(open)) /\ DivsAround \in SUBSET (1..Len(open))
  BY <1>1 DEF GroupsOpen, DivsAround
<1>3. IsFiniteSet(GroupsOpen) /\ IsFiniteSet(DivsAround)
  BY <1>1, <1>2, FS_Subset
<1>4. ASSUME NEW i \in Nat
      PROVE  LET G == {j \in GroupsOpen : j <= i}
             IN  IsFiniteSet(G) /\ Cardinality(G) \in Nat
                 /\ Cardinality(G) <= Cardinality(GroupsOpen)
  <2> DEFINE G == {j \in GroupsOpen : j <= i}
  <2>1. G \in SUBSET GroupsOpen
    OBVIOUS
  <2> HIDE DEF G
  <2>2. IsFiniteSet(G) /\ Cardinality(G) <= Cardinality(GroupsOpen)
    BY <1>3, <2>1, FS_Subset
  <2>3. Cardinality(G) \in Nat
    BY <2>2, FS_CardinalityType
  <2> QED
    BY <2>2, <2>3 DEF G
<1> QED
  BY <1>3, <1>4, FS_CardinalityType

-----------------------------------------------------------------------------
(* A start tag.                                                            *)

(* What each kind of element makes of the walk, field by field; w is the   *)
(* walk one level deeper.                                                  *)
LEMMA StartWalk ==
  ASSUME WalkTypes, NEW e \in Elements, StartElement(e)
  PROVE  /\ WalkIsRecord'
         /\ walk'.depth = walk.depth + 1
         /\ e.tag = "fileGrp" => walk'.uses = Append(walk.uses, e.use)
         /\ e.tag # "fileGrp" => walk'.uses = walk.uses
         /\ IsPage(e) => walk'.page = [depth |-> walk.depth + 1, order |-> e.order]
         /\ ~IsPage(e) => walk'.page = walk.page
         /\ e.tag = "file" => walk'.file = e.ref
         /\ e.tag # "file" => walk'.file = walk.file
         /\ e.tag = "structMap" => walk'.map = walk.depth + 1
         /\ e.tag # "structMap" => walk'.map = walk.map
         /\ e.tag = "div" /\ walk.map # 0 => walk'.divs = walk.divs + 1
         /\ ~(e.tag = "div" /\ walk.map # 0) => walk'.divs = walk.divs
         /\ e.tag = "dmdSec" => walk'.dmd = walk.depth + 1
         /\ e.tag # "dmdSec" => walk'.dmd = walk.dmd
         /\ \/ walk'.field = walk.field
            \/ e.labelled /\ walk'.field = [depth |-> walk.depth + 1, text |-> FALSE]
<1> DEFINE w == [walk EXCEPT !.depth = @ + 1]
<1>0. w = [files |-> walk.files, uses |-> walk.uses, depth |-> walk.depth + 1,
           page |-> walk.page, file |-> walk.file, map |-> walk.map,
           divs |-> walk.divs, dmd |-> walk.dmd, field |-> walk.field]
  <2> DEFINE deeper == walk.depth + 1
  <2> HIDE DEF deeper
  <2>1. [walk EXCEPT !.depth = deeper] =
           [files |-> walk.files, uses |-> walk.uses, depth |-> deeper,
            page |-> walk.page, file |-> walk.file, map |-> walk.map,
            divs |-> walk.divs, dmd |-> walk.dmd, field |-> walk.field]
    <3>1. WalkIsRecord
      BY DEF WalkTypes
    <3> QED
      BY ONLY <3>1 DEF WalkIsRecord
  <2> QED
    BY <2>1 DEF deeper
<1>1. \/ OnRoot(e, w) \/ OnGroup(e, w) \/ OnFile(e, w) \/ OnLocation(e, w)
      \/ OnMap(e, w) \/ OnDmd(e, w) \/ OnDiv(e, w) \/ OnPointer(e, w)
      \/ OnField(e, w)
  BY DEF StartElement
<1> HIDE DEF w
<1>2. IsPage(e) => e.tag = "div"
  BY ElementFacts
<1>3. CASE OnRoot(e, w)
  BY <1>0, <1>2, <1>3 DEF OnRoot, WalkIsRecord
<1>4. CASE OnGroup(e, w)
  BY <1>0, <1>2, <1>4 DEF OnGroup, PushUse, WalkIsRecord
<1>5. CASE OnFile(e, w)
  BY <1>0, <1>2, <1>5 DEF OnFile, WalkIsRecord
<1>6. CASE OnLocation(e, w)
  <2>1. e.tag = "FLocat"
    BY <1>6 DEF OnLocation
  <2>2. CASE walk' = w
    BY <1>0, <1>2, <2>1, <2>2 DEF WalkIsRecord
  <2>3. CASE walk' # w
    <3>1. \E f : walk' = [w EXCEPT !.files = f]
      BY <1>0, <1>6, <2>3 DEF OnLocation
    <3> QED
      BY <1>0, <1>2, <2>1, <3>1 DEF WalkIsRecord
  <2> QED
    BY <2>2, <2>3
<1>7. CASE OnMap(e, w)
  BY <1>0, <1>2, <1>7 DEF OnMap, WalkIsRecord
<1>8. CASE OnDmd(e, w)
  BY <1>0, <1>2, <1>8 DEF OnDmd, WalkIsRecord
<1>9. CASE OnDiv(e, w)
  BY <1>0, <1>2, <1>9 DEF OnDiv, CountDiv, WalkIsRecord
<1>10. CASE OnPointer(e, w)
  BY <1>0, <1>2, <1>10 DEF OnPointer, WalkIsRecord
<1>11. CASE OnField(e, w)
  BY <1>0, <1>2, <1>11 DEF OnField, WalkIsRecord
<1> QED
  BY <1>1, <1>3, <1>4, <1>5, <1>6, <1>7, <1>8, <1>9, <1>10, <1>11

LEMMA StartTypes ==
  ASSUME WalkTypes, NEW e \in Elements, StartElement(e), outline' \in Seq([level : Nat, around : Nat])
  PROVE  WalkTypes'
<1>1. open' \in Seq(Elements) /\ starts' \in Nat
  BY DEF WalkTypes, StartElement
<1>0. walk.depth \in Nat /\ e.order \in Int /\ e.use \in Uses \cup {Nothing}
  BY ElementFacts DEF WalkTypes
<1>2. walk'.uses \in Seq(Uses \cup {Nothing})
  <2> DEFINE known == Uses \cup {Nothing}
  <2>1. walk.uses \in Seq(known) /\ e.use \in known
    BY <1>0 DEF WalkTypes
  <2>2. walk'.uses = walk.uses \/ walk'.uses = Append(walk.uses, e.use)
    BY StartWalk
  <2>3. walk'.uses \in Seq(known)
    <3> HIDE DEF known
    <3>1. Append(walk.uses, e.use) \in Seq(known)
      BY <2>1
    <3> QED
      BY <2>1, <2>2, <3>1
  <2> QED
    BY <2>3
<1>3. /\ walk'.depth \in Nat /\ walk'.map \in Nat /\ walk'.divs \in Nat /\ walk'.dmd \in Nat
  <2>1. walk.map \in Nat /\ walk.divs \in Nat /\ walk.dmd \in Nat
    BY DEF WalkTypes
  <2>2. /\ walk'.depth = walk.depth + 1
        /\ walk'.map = walk.map \/ walk'.map = walk.depth + 1
        /\ walk'.divs = walk.divs \/ walk'.divs = walk.divs + 1
        /\ walk'.dmd = walk.dmd \/ walk'.dmd = walk.depth + 1
    BY StartWalk
  <2> QED
    BY <1>0, <2>1, <2>2
<1>4. walk'.page \in [depth : Nat, order : Int] /\ walk'.field \in [depth : Nat, text : BOOLEAN]
  <2>1. walk.page \in [depth : Nat, order : Int] /\ walk.field \in [depth : Nat, text : BOOLEAN]
    BY DEF WalkTypes
  <2>2. /\ \/ walk'.page = walk.page
           \/ walk'.page = [depth |-> walk.depth + 1, order |-> e.order]
        /\ \/ walk'.field = walk.field
           \/ walk'.field = [depth |-> walk.depth + 1, text |-> FALSE]
    BY StartWalk
  <2>3. walk'.page \in [depth : Nat, order : Int]
    BY <1>0, <2>1, <2>2
  <2>4. walk'.field \in [depth : Nat, text : BOOLEAN]
    <3>1. [depth |-> walk.depth + 1, text |-> FALSE] \in [depth : Nat, text : BOOLEAN]
      BY <1>0
    <3> QED
      BY <2>1, <2>2, <3>1
  <2> QED
    BY <2>3, <2>4
<1> QED
  BY <1>1, <1>2, <1>3, <1>4, StartWalk DEF WalkTypes

LEMMA StartOpens ==
  ASSUME WalkTypes, NEW e \in Elements, StartElement(e)
  PROVE  /\ Len(open) \in Nat /\ Len(open') = Len(open) + 1
         /\ DOMAIN open = 1..Len(open) /\ DOMAIN open' = 1..(Len(open) + 1)
         /\ \A i \in DOMAIN open : open'[i] = open[i]
         /\ open'[Len(open) + 1] = e
<1>1. open \in Seq(Elements)
  BY DEF WalkTypes
<1>2. open' = Append(open, e)
  BY DEF StartElement
<1> QED
  BY ONLY <1>1, <1>2, e \in Elements

LEMMA StartUses ==
  ASSUME WalkTypes, UsesOpen, NEW e \in Elements, StartElement(e)
  PROVE  UsesOpen'
<1> DEFINE n == Len(open) + 1
           Upto(G, i) == {j \in G : j <= i}
<1>1. n \notin GroupsOpen /\ n \in Nat /\ \A i \in GroupsOpen : i \in 1..Len(open)
  BY StartOpens DEF GroupsOpen
<1>2. CASE e.tag = "fileGrp"
  <2>1. GroupsOpen' = GroupsOpen \cup {n}
    BY <1>2, StartOpens DEF GroupsOpen
  <2>2. Cardinality(GroupsOpen') = Cardinality(GroupsOpen) + 1
    BY <1>1, <2>1, OpenFinite, FS_AddElement
  <2>3. walk'.uses = Append(walk.uses, e.use) /\ walk.uses \in Seq(Uses \cup {Nothing})
    BY <1>2, StartWalk DEF WalkTypes
  <2>4. Len(walk'.uses) = Cardinality(GroupsOpen')
    BY <2>2, <2>3 DEF UsesOpen
  <2>5. ASSUME NEW i \in GroupsOpen
        PROVE  walk'.uses[Cardinality(Upto(GroupsOpen', i))] = open'[i].use
    <3>1. Upto(GroupsOpen', i) = Upto(GroupsOpen, i)
      BY <1>1, <2>1
    <3>2. i \in Upto(GroupsOpen, i) /\ i \in Nat
      BY <1>1
    <3>3. Cardinality(Upto(GroupsOpen, i)) # 0
      BY <3>2, OpenFinite, FS_EmptySet
    <3>4. Cardinality(Upto(GroupsOpen, i)) \in 1..Len(walk.uses)
      <4>1. /\ Cardinality(Upto(GroupsOpen, i)) \in Nat
            /\ Cardinality(Upto(GroupsOpen, i)) <= Cardinality(GroupsOpen)
        BY <3>2, OpenFinite
      <4>2. Len(walk.uses) = Cardinality(GroupsOpen)
        BY DEF UsesOpen
      <4> QED
        BY ONLY <3>3, <4>1, <4>2
    <3>5. walk.uses[Cardinality(Upto(GroupsOpen, i))] = open[i].use
      BY DEF UsesOpen
    <3>6. open'[i] = open[i]
      BY <1>1, StartOpens
    <3> HIDE DEF Upto
    <3> QED
      BY <2>3, <3>1, <3>4, <3>5, <3>6
  <2>6. walk'.uses[Cardinality(Upto(GroupsOpen', n))] = open'[n].use
    <3>1. Upto(GroupsOpen', n) = GroupsOpen'
      BY <1>1, <2>1
    <3>2. Cardinality(GroupsOpen') = Len(walk.uses) + 1
      BY <2>2 DEF UsesOpen
    <3>3. walk'.uses[Len(walk.uses) + 1] = e.use
      BY <2>3, ElementFacts
    <3>4. open'[n] = e
      BY StartOpens
    <3> HIDE DEF Upto, n
    <3> QED
      BY <3>1, <3>2, <3>3, <3>4
  <2> QED
    BY <2>1, <2>4, <2>5, <2>6 DEF UsesOpen
<1>3. CASE e.tag # "fileGrp"
  <2>1. GroupsOpen' = GroupsOpen
    BY <1>3, StartOpens DEF GroupsOpen
  <2>2. \A i \in GroupsOpen : open'[i] = open[i]
    BY <1>1, StartOpens
  <2>3. walk'.uses = walk.uses
    BY <1>3, StartWalk
  <2> QED
    BY <2>1, <2>2, <2>3 DEF UsesOpen
<1> QED
  BY <1>2, <1>3

LEMMA StartMatches ==
  ASSUME WalkTypes, WalkMatchesReader, NEW e \in Elements, StartElement(e)
  PROVE  WalkMatchesReader'
<1> DEFINE n == Len(open) + 1
<1>0. walk.depth = Len(open)
  BY DEF WalkMatchesReader
<1>8. /\ n \in DOMAIN open' /\ open'[n] = e
      /\ \A i \in DOMAIN open : i \in DOMAIN open' /\ open'[i] = open[i]
  BY StartOpens
<1>1. walk'.depth = Len(open')
  BY <1>0, StartWalk, StartOpens
<1>2. UsesOpen'
  BY StartUses DEF WalkMatchesReader
<1>3. walk'.page # NoPage =>
       /\ walk'.page.depth \in DOMAIN open'
       /\ open'[walk'.page.depth].order = walk'.page.order
       /\ \A i \in (walk'.page.depth + 1)..Len(open') : ~IsPage(open'[i])
  <2>1. CASE IsPage(e)
    <3>1. walk'.page = [depth |-> n, order |-> e.order]
      BY <1>0, <2>1, StartWalk
    <3>2. open'[n] = e /\ n \in DOMAIN open' /\ Len(open') = n /\ n \in Nat
      BY StartOpens
    <3> HIDE DEF n
    <3> QED
      BY <3>1, <3>2
  <2>2. CASE ~IsPage(e)
    <3> SUFFICES ASSUME walk.page # NoPage
                 PROVE  /\ walk.page.depth \in DOMAIN open'
                        /\ open'[walk.page.depth].order = walk.page.order
                        /\ \A i \in (walk.page.depth + 1)..Len(open') : ~IsPage(open'[i])
      BY <2>2, StartWalk
    <3>1. /\ walk.page.depth \in DOMAIN open
          /\ open[walk.page.depth].order = walk.page.order
          /\ \A i \in (walk.page.depth + 1)..Len(open) : ~IsPage(open[i])
      BY DEF WalkMatchesReader
    <3>2. ASSUME NEW i \in (walk.page.depth + 1)..Len(open') PROVE ~IsPage(open'[i])
      <4>1. CASE i = Len(open) + 1
        BY <2>2, <4>1, StartOpens
      <4>2. CASE i # Len(open) + 1
        BY <3>1, <4>2, StartOpens
      <4> QED
        BY <4>1, <4>2
    <3> QED
      BY <3>1, <3>2, StartOpens
  <2> QED
    BY <2>1, <2>2
<1>4. walk'.file # NoRef =>
       \E i \in DOMAIN open' : open'[i].tag = "file" /\ open'[i].ref = walk'.file
  <2>1. CASE e.tag = "file"
    <3>1. walk'.file = e.ref
      BY <2>1, StartWalk
    <3> QED
      BY <1>8, <2>1, <3>1
  <2>2. CASE e.tag # "file"
    <3>1. walk'.file = walk.file
      BY <2>2, StartWalk
    <3> QED
      BY <1>8, <3>1 DEF WalkMatchesReader
  <2> QED
    BY <2>1, <2>2
<1>5. walk'.map # 0 => walk'.map \in DOMAIN open' /\ open'[walk'.map].tag = "structMap"
  <2>1. CASE e.tag = "structMap"
    <3>1. walk'.map = n
      BY <1>0, <2>1, StartWalk
    <3> QED
      BY <1>8, <2>1, <3>1
  <2>2. CASE e.tag # "structMap"
    <3>1. walk'.map = walk.map
      BY <2>2, StartWalk
    <3> QED
      BY <1>8, <3>1 DEF WalkMatchesReader
  <2> QED
    BY <2>1, <2>2
<1>6. walk'.dmd # 0 => walk'.dmd \in DOMAIN open' /\ open'[walk'.dmd].tag = "dmdSec"
  <2>1. CASE e.tag = "dmdSec"
    <3>1. walk'.dmd = n
      BY <1>0, <2>1, StartWalk
    <3> QED
      BY <1>8, <2>1, <3>1
  <2>2. CASE e.tag # "dmdSec"
    <3>1. walk'.dmd = walk.dmd
      BY <2>2, StartWalk
    <3> QED
      BY <1>8, <3>1 DEF WalkMatchesReader
  <2> QED
    BY <2>1, <2>2
<1>7. walk'.field # NoField =>
       walk'.field.depth \in DOMAIN open' /\ open'[walk'.field.depth].labelled
  <2>1. \/ walk'.field = walk.field
        \/ e.labelled /\ walk'.field = [depth |-> n, text |-> FALSE]
    BY <1>0, StartWalk
  <2> QED
    BY <1>8, <2>1 DEF WalkMatchesReader
<1> QED
  BY <1>1, <1>2, <1>3, <1>4, <1>5, <1>6, <1>7 DEF WalkMatchesReader

(* No division is around a structMap that is not in another. *)
LEMMA StartDivs ==
  ASSUME WalkTypes, WalkMatchesReader, MapCounts, ~tangled', NEW e \in Elements,
         StartElement(e)
  PROVE  /\ MapCounts'
         /\ walk.divs = Cardinality(DivsAround)
<1> DEFINE n == Len(open) + 1
<1>1. /\ ~tangled /\ (e.tag = "structMap" => walk.map = 0)
  BY DEF StartElement
<1>2. /\ walk.divs = Cardinality(DivsAround)
      /\ \A j \in DOMAIN open : open[j].tag = "structMap" => j = walk.map
  BY <1>1 DEF MapCounts
<1>3. walk.map # 0 => walk.map \in DOMAIN open /\ open[walk.map].tag = "structMap"
  BY DEF WalkMatchesReader
<1>4. /\ n \in Nat /\ n \notin DOMAIN open /\ DOMAIN open' = DOMAIN open \cup {n}
      /\ open'[n] = e
      /\ \A i \in DOMAIN open : i \in Nat \ {0} /\ i < n /\ open'[i] = open[i]
  <2>1. /\ Len(open) \in Nat /\ DOMAIN open = 1..Len(open)
        /\ DOMAIN open' = 1..(Len(open) + 1) /\ open'[Len(open) + 1] = e
        /\ \A i \in DOMAIN open : open'[i] = open[i]
    BY StartOpens
  <2>2. DOMAIN open' = DOMAIN open \cup {n}
    BY <2>1
  <2> QED
    BY <2>1, <2>2
<1>5. walk.depth + 1 = n
  BY DEF WalkMatchesReader
<1> HIDE DEF n
<1>6. ASSUME NEW j \in DOMAIN open', open'[j].tag = "structMap" PROVE j = walk'.map
  <2>1. CASE e.tag = "structMap"
    <3>1. walk'.map = n
      BY <1>5, <2>1, StartWalk
    <3>2. j \notin DOMAIN open
      BY <1>1, <1>2, <1>4, <1>6, <2>1
    <3> QED
      BY <1>4, <3>1, <3>2
  <2>2. CASE e.tag # "structMap"
    <3>1. walk'.map = walk.map
      BY <2>2, StartWalk
    <3> QED
      BY <1>2, <1>4, <1>6, <2>2, <3>1
  <2> QED
    BY <2>1, <2>2
<1>7. DivsAround' = {i \in DOMAIN open \cup {n} :
                       open'[i].tag = "div" /\ \E j \in 1..i : open'[j].tag = "structMap"}
  BY <1>4 DEF DivsAround
<1>8. ASSUME NEW i \in DOMAIN open
      PROVE  i \in DivsAround' <=> i \in DivsAround
  <2>1. \A j \in 1..i : j \in DOMAIN open /\ open'[j] = open[j]
    BY <1>4, StartOpens
  <2> QED
    BY <1>4, <1>7, <2>1 DEF DivsAround
<1>9. n \in DivsAround' <=> e.tag = "div" /\ walk.map # 0
  <2>1. ASSUME e.tag = "div" PROVE n \in DivsAround' <=> walk.map # 0
    <3>1. n \in DivsAround' <=> \E j \in 1..n : open'[j].tag = "structMap"
      BY <1>4, <1>7, <2>1
    <3>2. (\E j \in 1..n : open'[j].tag = "structMap")
             <=> \E j \in DOMAIN open : open[j].tag = "structMap"
      <4>1. 1..n = DOMAIN open \cup {n}
        BY StartOpens DEF n
      <4> QED
        BY <1>4, <2>1, <4>1
    <3>3. (\E j \in DOMAIN open : open[j].tag = "structMap") <=> walk.map # 0
      BY <1>2, <1>3, <1>4, StartOpens
    <3> QED
      BY <3>1, <3>2, <3>3
  <2> QED
    BY <1>4, <1>7, <2>1
<1>10. n \notin DivsAround /\ DivsAround \subseteq DOMAIN open
       /\ DivsAround' \subseteq DOMAIN open \cup {n}
  BY <1>4, <1>7 DEF DivsAround
<1>11. CASE e.tag = "div" /\ walk.map # 0
  <2>1. DivsAround' = DivsAround \cup {n}
    BY <1>8, <1>9, <1>10, <1>11
  <2>2. Cardinality(DivsAround') = Cardinality(DivsAround) + 1
    BY <1>10, <2>1, OpenFinite, FS_AddElement
  <2>3. walk'.divs = walk.divs + 1
    BY <1>11, StartWalk
  <2> QED
    BY <1>2, <1>6, <2>2, <2>3 DEF MapCounts
<1>12. CASE ~(e.tag = "div" /\ walk.map # 0)
  <2>1. DivsAround' = DivsAround
    BY <1>8, <1>9, <1>10, <1>12
  <2>2. walk'.divs = walk.divs
    BY <1>12, StartWalk
  <2> QED
    BY <1>2, <1>6, <2>1, <2>2 DEF MapCounts
<1> QED
  BY <1>11, <1>12

(* An entry of the outline has the level of its division. *)
LEMMA StartOutline ==
  ASSUME WalkInv, NEW e \in Elements, StartElement(e)
  PROVE  outline' \in Seq([level : Nat, around : Nat]) /\ LevelsCount'
<1> DEFINE w == [walk EXCEPT !.depth = @ + 1]
           entry == [level |-> CountDiv(w, e), around |-> Cardinality(DivsAround)]
<1>0. WalkTypes /\ outline \in Seq([level : Nat, around : Nat])
  BY DEF WalkInv, WalkTypes
<1>1. tangled => tangled'
  BY DEF StartElement
<1>2. CASE outline' = outline
  BY <1>0, <1>1, <1>2 DEF WalkInv, LevelsCount
<1>3. CASE outline' # outline
  <2>0. w.map = walk.map /\ w.divs = walk.divs
    BY DEF WalkInv, WalkTypes, WalkIsRecord
  <2>1. OnDiv(e, w) /\ outline' = Append(outline, entry) /\ w.map # 0
    <3> HIDE DEF w, entry
    <3>1. \/ OnRoot(e, w) \/ OnGroup(e, w) \/ OnFile(e, w) \/ OnLocation(e, w)
          \/ OnMap(e, w) \/ OnDmd(e, w) \/ OnDiv(e, w) \/ OnPointer(e, w)
          \/ OnField(e, w)
      BY DEF StartElement, w
    <3>2. OnDiv(e, w)
      BY <1>3, <3>1 DEF OnRoot, OnGroup, OnFile, OnLocation, OnMap, OnDmd, OnPointer,
           OnField, Kept
    <3> QED
      BY <1>3, <3>2 DEF OnDiv, entry
  <2>2. CountDiv(w, e) = walk.divs + 1
    BY <2>0, <2>1 DEF CountDiv
  <2>3. entry \in [level : Nat, around : Nat]
    BY <2>2, <1>0, OpenFinite DEF WalkTypes
  <2>4. outline' \in Seq([level : Nat, around : Nat])
    <3> HIDE DEF entry
    <3> QED
      BY <1>0, <2>1, <2>3
  <2>5. ~tangled' => entry.level = entry.around + 1
    BY <2>2, StartDivs DEF WalkInv
  <2>6. LevelsCount'
    <3> HIDE DEF entry
    <3> SUFFICES ASSUME ~tangled', NEW i \in DOMAIN outline'
                 PROVE  outline'[i].level = outline'[i].around + 1
      BY DEF LevelsCount
    <3>1. CASE i \in DOMAIN outline
      <4>1. outline'[i] = outline[i]
        BY <1>0, <2>1, <2>3, <3>1
      <4> QED
        BY <1>1, <3>1, <4>1 DEF WalkInv, LevelsCount
    <3>2. CASE i \notin DOMAIN outline
      <4>1. outline'[i] = entry
        BY <1>0, <2>1, <2>3, <3>2
      <4> QED
        BY <2>5, <4>1
    <3> QED
      BY <3>1, <3>2
  <2> QED
    BY <2>4, <2>6
<1> QED
  BY <1>2, <1>3

LEMMA StartKeepsWalk ==
  ASSUME WalkInv, NEW e \in Elements, StartElement(e)
  PROVE  WalkInv'
<1>1. outline' \in Seq([level : Nat, around : Nat]) /\ LevelsCount'
  BY StartOutline
<1>2. WalkTypes' /\ WalkMatchesReader'
  BY <1>1, StartTypes, StartMatches DEF WalkInv
<1>3. MapCounts'
  <2>1. CASE tangled'
    BY <2>1 DEF MapCounts
  <2>2. CASE ~tangled'
    BY <2>2, StartDivs DEF WalkInv
  <2> QED
    BY <2>1, <2>2
<1> QED
  BY <1>1, <1>2, <1>3 DEF WalkInv

-----------------------------------------------------------------------------
(* Text, and an end tag.                                                   *)

LEMMA TextKeepsWalk ==
  ASSUME WalkInv, ManifestText
  PROVE  WalkInv'
<1>1. UNCHANGED <<open, starts, outline, tangled>>
  BY DEF ManifestText
<1>2. CASE walk' = walk
  BY <1>1, <1>2 DEF WalkInv, WalkTypes, WalkIsRecord, WalkMatchesReader, UsesOpen, GroupsOpen,
       MapCounts, DivsAround, LevelsCount
<1>3. CASE walk' # walk
  <2>1. walk.field # NoField /\ walk' = [walk EXCEPT !.field.text = TRUE]
    BY <1>3 DEF ManifestText
  <2>2. walk.field \in [depth : Nat, text : BOOLEAN] /\ WalkIsRecord
    BY DEF WalkInv, WalkTypes
  <2>3. /\ WalkIsRecord' /\ walk'.uses = walk.uses /\ walk'.depth = walk.depth
        /\ walk'.page = walk.page /\ walk'.file = walk.file /\ walk'.map = walk.map
        /\ walk'.divs = walk.divs /\ walk'.dmd = walk.dmd
        /\ walk'.field = [walk.field EXCEPT !.text = TRUE]
    BY <2>1, <2>2 DEF WalkIsRecord
  <2>4. walk'.field \in [depth : Nat, text : BOOLEAN] /\ walk'.field.depth = walk.field.depth
    BY <2>2, <2>3
  <2>5. WalkTypes'
    BY <1>1, <2>3, <2>4 DEF WalkInv, WalkTypes
  <2>6. WalkMatchesReader'
    BY <1>1, <2>1, <2>3, <2>4 DEF WalkInv, WalkMatchesReader, UsesOpen, GroupsOpen
  <2>7. MapCounts' /\ LevelsCount'
    BY <1>1, <2>3 DEF WalkInv, MapCounts, DivsAround, LevelsCount
  <2> QED
    BY <2>5, <2>6, <2>7 DEF WalkInv
<1> QED
  BY <1>2, <1>3

LEMMA EndOpens ==
  ASSUME WalkInv, EndElement
  PROVE  /\ Len(open) \in Nat \ {0} /\ Len(open') = Len(open) - 1
         /\ DOMAIN open = 1..Len(open) /\ DOMAIN open' = 1..(Len(open) - 1)
         /\ \A i \in DOMAIN open' : open'[i] = open[i]
         /\ Last(open) = open[Len(open)] /\ Last(open) \in Elements
         /\ walk.depth = Len(open) /\ open' \in Seq(Elements)
<1>1. open \in Seq(Elements) /\ open # <<>> /\ open' = Front(open) /\ walk.depth = Len(open)
  BY DEF WalkInv, WalkTypes, WalkMatchesReader, EndElement
<1>2. /\ Len(open) \in Nat \ {0}
      /\ Front(open) \in Seq(Elements) /\ Len(Front(open)) = Len(open) - 1
      /\ \A i \in 1..(Len(open) - 1) : Front(open)[i] = open[i]
  <2>1. Len(open) \in Nat \ {0}
    BY <1>1
  <2>2. Front(open) = SubSeq(open, 1, Len(open) - 1) /\ open \in Seq(Elements)
    BY <1>1 DEF Front
  <2>3. Front(open) \in Seq(Elements)
    BY <2>1, <2>2
  <2>4. Len(Front(open)) = Len(open) - 1
    <3> DEFINE m == Len(open) - 1
    <3>1. m \in Nat /\ m <= Len(open) /\ Front(open) = SubSeq(open, 1, m)
      BY <2>1, <2>2
    <3> HIDE DEF m
    <3>2. Len(SubSeq(open, 1, m)) = m
      BY <2>1, <2>2, <3>1
    <3> QED
      BY <3>1, <3>2 DEF m
  <2>5. \A i \in 1..(Len(open) - 1) : Front(open)[i] = open[i]
    BY <2>1, <2>2
  <2> QED
    BY <2>1, <2>3, <2>4, <2>5
<1> QED
  BY <1>1, <1>2 DEF Last

LEMMA EndWalk ==
  ASSUME WalkInv, EndElement
  PROVE  LET e == Last(open)
         IN  /\ WalkIsRecord'
             /\ walk'.depth = walk.depth - 1
             /\ e.tag = "fileGrp" /\ walk.uses # <<>> => walk'.uses = Front(walk.uses)
             /\ e.tag # "fileGrp" => walk'.uses = walk.uses
             /\ walk.page.depth = walk.depth => walk'.page = NoPage
             /\ walk.page.depth # walk.depth => walk'.page = walk.page
             /\ e.tag = "file" => walk'.file = NoRef
             /\ e.tag # "file" => walk'.file = walk.file
             /\ walk.map = walk.depth => walk'.map = 0
             /\ walk.map # walk.depth => walk'.map = walk.map
             /\ walk.dmd = walk.depth => walk'.dmd = 0
             /\ walk.dmd # walk.depth => walk'.dmd = walk.dmd
             /\ walk.field.depth = walk.depth => walk'.field = NoField
             /\ walk.field.depth # walk.depth => walk'.field = walk.field
             /\ e.tag = "div" /\ walk.map # 0 /\ walk.map # walk.depth /\ walk.divs > 0
                  => walk'.divs = walk.divs - 1
             /\ ~(e.tag = "div" /\ walk.map # 0 /\ walk.map # walk.depth /\ walk.divs > 0)
                  => walk'.divs = walk.divs
<1> DEFINE e == Last(open)
           uses == IF e.tag = "fileGrp" /\ walk.uses # <<>> THEN Front(walk.uses) ELSE walk.uses
           file == IF e.tag = "file" THEN NoRef ELSE walk.file
           field == IF walk.field.depth = walk.depth THEN NoField ELSE walk.field
           map == IF walk.map = walk.depth THEN 0 ELSE walk.map
           divs == IF e.tag = "div" /\ walk.map # 0 /\ ~(walk.map = walk.depth) /\ walk.divs > 0
                   THEN walk.divs - 1 ELSE walk.divs
           dmd == IF walk.dmd = walk.depth THEN 0 ELSE walk.dmd
           depth == walk.depth - 1
<1>1. walk' = [walk EXCEPT !.uses = uses, !.file = file, !.page = PageAfter, !.field = field,
                           !.map = map, !.divs = divs, !.dmd = dmd, !.depth = depth]
  BY DEF EndElement
<1>2. WalkIsRecord
  BY DEF WalkInv, WalkTypes
<1>3. walk' = [files |-> walk.files, uses |-> uses, depth |-> depth, page |-> PageAfter,
               file |-> file, map |-> map, divs |-> divs, dmd |-> dmd, field |-> field]
  <2> HIDE DEF uses, file, field, map, divs, dmd, depth
  <2> QED
    BY <1>1, <1>2 DEF WalkIsRecord
<1>4. /\ WalkIsRecord' /\ walk'.uses = uses /\ walk'.depth = depth /\ walk'.page = PageAfter
      /\ walk'.file = file /\ walk'.map = map /\ walk'.divs = divs /\ walk'.dmd = dmd
      /\ walk'.field = field
  <2> HIDE DEF uses, file, field, map, divs, dmd, depth
  <2> QED
    BY <1>3 DEF WalkIsRecord
<1> HIDE DEF e
<1> QED
  BY <1>4 DEF e, PageAfter

LEMMA EndUsesThere ==
  ASSUME WalkInv, EndElement, Last(open).tag = "fileGrp"
  PROVE  walk.uses # <<>>
<1>1. WalkTypes /\ UsesOpen
  BY DEF WalkInv, WalkMatchesReader
<1>2. Len(open) \in GroupsOpen
  BY EndOpens DEF GroupsOpen
<1>3. Cardinality(GroupsOpen) # 0
  BY <1>1, <1>2, OpenFinite, FS_EmptySet
<1>4. Len(walk.uses) # 0 /\ walk.uses \in Seq(Uses \cup {Nothing})
  BY <1>1, <1>3 DEF UsesOpen, WalkTypes
<1> QED
  BY <1>4

LEMMA EndTypes ==
  ASSUME WalkInv, EndElement
  PROVE  WalkTypes'
<1>0. WalkTypes
  BY DEF WalkInv
<1>1. open' \in Seq(Elements) /\ starts' \in Nat /\ outline' \in Seq([level : Nat, around : Nat])
  BY <1>0, EndOpens DEF WalkTypes, EndElement
<1>2. walk'.uses \in Seq(Uses \cup {Nothing})
  <2> DEFINE known == Uses \cup {Nothing}
  <2>1. walk.uses \in Seq(known)
    BY <1>0 DEF WalkTypes
  <2>2. walk'.uses = walk.uses \/ (walk.uses # <<>> /\ walk'.uses = Front(walk.uses))
    <3>1. CASE Last(open).tag = "fileGrp"
      BY <1>0, <3>1, EndUsesThere, EndWalk
    <3>2. CASE Last(open).tag # "fileGrp"
      BY <3>2, EndWalk
    <3> QED
      BY <3>1, <3>2
  <2> HIDE DEF known
  <2>3. walk'.uses \in Seq(known)
    BY <2>1, <2>2 DEF Front
  <2> QED
    BY <2>3 DEF known
<1>3. /\ walk'.depth \in Nat /\ walk'.map \in Nat /\ walk'.divs \in Nat /\ walk'.dmd \in Nat
  <2>1. walk.depth \in Nat \ {0} /\ walk.map \in Nat /\ walk.divs \in Nat /\ walk.dmd \in Nat
    BY <1>0, EndOpens DEF WalkTypes
  <2>2. /\ walk'.depth = walk.depth - 1
        /\ walk'.map = walk.map \/ walk'.map = 0
        /\ walk'.divs = walk.divs \/ (walk.divs > 0 /\ walk'.divs = walk.divs - 1)
        /\ walk'.dmd = walk.dmd \/ walk'.dmd = 0
    BY EndWalk
  <2> QED
    BY <2>1, <2>2
<1>4. walk'.page \in [depth : Nat, order : Int]
  <2>1. walk'.page = walk.page \/ walk'.page = NoPage
    BY EndWalk
  <2> QED
    BY <1>0, <2>1 DEF WalkTypes, NoPage
<1>5. walk'.field \in [depth : Nat, text : BOOLEAN]
  <2>1. walk'.field = walk.field \/ walk'.field = NoField
    BY EndWalk
  <2>2. NoField \in [depth : Nat, text : BOOLEAN]
    BY DEF NoField
  <2> QED
    BY <1>0, <2>1, <2>2 DEF WalkTypes
<1> QED
  BY <1>1, <1>2, <1>3, <1>4, <1>5, EndWalk DEF WalkTypes

LEMMA EndUses ==
  ASSUME WalkInv, EndElement
  PROVE  UsesOpen'
<1> DEFINE n == Len(open)
           Upto(G, i) == {j \in G : j <= i}
<1>0. WalkTypes /\ UsesOpen
  BY DEF WalkInv, WalkMatchesReader
<1>1. CASE Last(open).tag = "fileGrp"
  <2>1. GroupsOpen' = GroupsOpen \ {n} /\ n \in GroupsOpen /\ n \in Nat
        /\ \A i \in GroupsOpen : i \in 1..n
    BY <1>1, EndOpens DEF GroupsOpen
  <2>2. Cardinality(GroupsOpen') = Cardinality(GroupsOpen) - 1
        /\ Cardinality(GroupsOpen) \in Nat \ {0}
    BY <1>0, <2>1, OpenFinite, FS_RemoveElement, FS_EmptySet
  <2>3. walk.uses \in Seq(Uses \cup {Nothing}) /\ Len(walk.uses) = Cardinality(GroupsOpen)
    BY <1>0 DEF WalkTypes, UsesOpen
  <2>4. walk.uses # <<>>
    BY <2>2, <2>3
  <2>5. /\ Len(walk'.uses) = Len(walk.uses) - 1
        /\ \A k \in 1..(Len(walk.uses) - 1) : walk'.uses[k] = walk.uses[k]
    <3>1. walk'.uses = Front(walk.uses)
      BY <1>1, <2>4, EndWalk
    <3> QED
      BY <2>2, <2>3, <3>1 DEF Front
  <2>6. ASSUME NEW i \in GroupsOpen'
        PROVE  walk'.uses[Cardinality(Upto(GroupsOpen', i))] = open'[i].use
    <3>1. Upto(GroupsOpen', i) = Upto(GroupsOpen, i) /\ i \in GroupsOpen /\ i \in Nat
      BY <2>1
    <3>2. Upto(GroupsOpen, i) \in SUBSET (GroupsOpen \ {n}) /\ i \in Upto(GroupsOpen, i)
      BY <2>1
    <3>3. /\ Cardinality(Upto(GroupsOpen, i)) \in Nat \ {0}
          /\ Cardinality(Upto(GroupsOpen, i)) <= Cardinality(GroupsOpen) - 1
      <4>1. IsFiniteSet(Upto(GroupsOpen, i)) /\ Cardinality(Upto(GroupsOpen, i)) \in Nat
        BY <1>0, <3>1, OpenFinite
      <4>2. IsFiniteSet(GroupsOpen') /\ Upto(GroupsOpen, i) \in SUBSET GroupsOpen'
        BY <1>0, <2>1, <3>2, OpenFinite, FS_RemoveElement
      <4>3. Cardinality(Upto(GroupsOpen, i)) <= Cardinality(GroupsOpen')
        <5> HIDE DEF Upto
        <5> QED
          BY <4>2, FS_Subset
      <4>4. Cardinality(Upto(GroupsOpen, i)) # 0
        BY <3>2, <4>1, FS_EmptySet
      <4> QED
        BY <2>2, <4>1, <4>3, <4>4
    <3>4. walk.uses[Cardinality(Upto(GroupsOpen, i))] = open[i].use
      BY <1>0, <3>1 DEF UsesOpen
    <3>5. open'[i] = open[i]
      BY <2>1, EndOpens DEF GroupsOpen
    <3> HIDE DEF Upto
    <3>6. Cardinality(Upto(GroupsOpen, i)) \in 1..(Len(walk.uses) - 1)
      BY <2>2, <2>3, <3>3
    <3> QED
      BY <2>5, <3>1, <3>4, <3>5, <3>6
  <2> QED
    BY <2>2, <2>3, <2>5, <2>6 DEF UsesOpen
<1>2. CASE Last(open).tag # "fileGrp"
  <2>1. GroupsOpen' = GroupsOpen
    BY <1>2, EndOpens DEF GroupsOpen
  <2>2. \A i \in GroupsOpen' : open'[i] = open[i]
    BY EndOpens DEF GroupsOpen
  <2>3. walk'.uses = walk.uses
    BY <1>2, EndWalk
  <2> QED
    BY <1>0, <2>1, <2>2, <2>3 DEF UsesOpen
<1> QED
  BY <1>1, <1>2

LEMMA EndMatches ==
  ASSUME WalkInv, EndElement
  PROVE  WalkMatchesReader'
<1>0. WalkMatchesReader /\ WalkTypes
  BY DEF WalkInv
<1> DEFINE n == Len(open)
<1>1. /\ n \in Nat \ {0} /\ walk.depth = n /\ Len(open') = n - 1
      /\ DOMAIN open = 1..n /\ DOMAIN open' = 1..(n - 1)
      /\ \A i \in DOMAIN open : i # n => i \in DOMAIN open' /\ open'[i] = open[i]
      /\ Last(open) = open[n]
  BY EndOpens
<1> HIDE DEF n
<1>2. walk'.depth = Len(open') /\ UsesOpen'
  BY <1>1, EndWalk, EndUses
<1>3. walk'.page # NoPage =>
       /\ walk'.page.depth \in DOMAIN open'
       /\ open'[walk'.page.depth].order = walk'.page.order
       /\ \A i \in (walk'.page.depth + 1)..Len(open') : ~IsPage(open'[i])
  <2> SUFFICES ASSUME walk.page # NoPage, walk.page.depth # n, walk'.page = walk.page
               PROVE  /\ walk.page.depth \in DOMAIN open'
                      /\ open'[walk.page.depth].order = walk.page.order
                      /\ \A i \in (walk.page.depth + 1)..Len(open') : ~IsPage(open'[i])
    BY <1>1, EndWalk
  <2>1. /\ walk.page.depth \in DOMAIN open
        /\ open[walk.page.depth].order = walk.page.order
        /\ \A i \in (walk.page.depth + 1)..n : ~IsPage(open[i])
    BY <1>0 DEF WalkMatchesReader, n
  <2>2. \A i \in (walk.page.depth + 1)..Len(open') :
           i \in (walk.page.depth + 1)..n /\ open'[i] = open[i]
    BY <1>1, <2>1
  <2> QED
    BY <1>1, <2>1, <2>2
<1>4. walk'.file # NoRef =>
       \E i \in DOMAIN open' : open'[i].tag = "file" /\ open'[i].ref = walk'.file
  <2> SUFFICES ASSUME walk.file # NoRef, Last(open).tag # "file", walk'.file = walk.file
               PROVE  \E i \in DOMAIN open' : open'[i].tag = "file" /\ open'[i].ref = walk.file
    BY EndWalk
  <2>1. PICK i \in DOMAIN open : open[i].tag = "file" /\ open[i].ref = walk.file
    BY <1>0 DEF WalkMatchesReader
  <2> QED
    BY <1>1, <2>1
<1>5. walk'.map # 0 => walk'.map \in DOMAIN open' /\ open'[walk'.map].tag = "structMap"
  <2>1. walk'.map = 0 \/ (walk'.map = walk.map /\ walk.map # n)
    BY <1>1, EndWalk
  <2> QED
    BY <1>0, <1>1, <2>1 DEF WalkMatchesReader
<1>6. walk'.dmd # 0 => walk'.dmd \in DOMAIN open' /\ open'[walk'.dmd].tag = "dmdSec"
  <2>1. walk'.dmd = 0 \/ (walk'.dmd = walk.dmd /\ walk.dmd # n)
    BY <1>1, EndWalk
  <2> QED
    BY <1>0, <1>1, <2>1 DEF WalkMatchesReader
<1>7. walk'.field # NoField =>
       walk'.field.depth \in DOMAIN open' /\ open'[walk'.field.depth].labelled
  <2>1. walk'.field = NoField \/ (walk'.field = walk.field /\ walk.field.depth # n)
    BY <1>1, EndWalk
  <2> QED
    BY <1>0, <1>1, <2>1 DEF WalkMatchesReader
<1> QED
  BY <1>2, <1>3, <1>4, <1>5, <1>6, <1>7 DEF WalkMatchesReader

LEMMA EndDivs ==
  ASSUME WalkInv, EndElement
  PROVE  MapCounts'
<1>0. WalkMatchesReader /\ WalkTypes /\ MapCounts
  BY DEF WalkInv
<1> SUFFICES ASSUME ~tangled
             PROVE  /\ \A j \in DOMAIN open' : open'[j].tag = "structMap" => j = walk'.map
                    /\ walk'.divs = Cardinality(DivsAround')
  BY DEF MapCounts, EndElement
<1> DEFINE n == Len(open)
           e == Last(open)
<1>1. /\ n \in Nat \ {0} /\ walk.depth = n /\ n \notin DOMAIN open'
      /\ DOMAIN open = 1..n /\ DOMAIN open' = 1..(n - 1)
      /\ \A i \in DOMAIN open' : open'[i] = open[i]
      /\ e = open[n]
  BY EndOpens
<1> HIDE DEF n, e
<1>2. /\ walk.divs = Cardinality(DivsAround)
      /\ \A j \in DOMAIN open : open[j].tag = "structMap" => j = walk.map
  BY <1>0 DEF MapCounts
<1>3. walk.map # 0 => walk.map \in DOMAIN open /\ open[walk.map].tag = "structMap"
  BY <1>0 DEF WalkMatchesReader
<1>4. ASSUME NEW j \in DOMAIN open', open'[j].tag = "structMap" PROVE j = walk'.map
  <2>1. j \in DOMAIN open /\ open[j].tag = "structMap" /\ j # n
    BY <1>1, <1>4
  <2>2. j = walk.map
    BY <1>2, <2>1
  <2> QED
    BY <1>1, <2>1, <2>2, EndWalk
<1>5. ASSUME NEW i \in DOMAIN open'
      PROVE  i \in DivsAround' <=> i \in DivsAround
  <2>1. \A j \in 1..i : open'[j] = open[j]
    BY <1>1
  <2> QED
    BY <1>1, <2>1 DEF DivsAround
<1>6. DivsAround' \subseteq DOMAIN open' /\ DivsAround \subseteq DOMAIN open' \cup {n}
  BY <1>1 DEF DivsAround
<1>7. DivsAround' = DivsAround \ {n}
  BY <1>1, <1>5, <1>6
<1>8. n \in DivsAround <=> e.tag = "div" /\ walk.map # 0
  <2>1. n \in DivsAround <=> e.tag = "div" /\ \E j \in 1..n : open[j].tag = "structMap"
    BY <1>1 DEF DivsAround
  <2>2. (\E j \in 1..n : open[j].tag = "structMap") <=> walk.map # 0
    BY <1>1, <1>2, <1>3
  <2> QED
    BY <2>1, <2>2
<1>9. IsFiniteSet(DivsAround) /\ Cardinality(DivsAround) \in Nat
  BY <1>0, OpenFinite
<1>10. CASE n \in DivsAround
  <2>1. walk.map # n
    BY <1>1, <1>3, <1>8, <1>10
  <2>2. Cardinality(DivsAround) > 0
    BY <1>9, <1>10, FS_EmptySet
  <2>3. walk'.divs = walk.divs - 1
    BY <1>1, <1>2, <1>8, <1>10, <2>1, <2>2, EndWalk DEF e
  <2>4. Cardinality(DivsAround') = Cardinality(DivsAround) - 1
    BY <1>7, <1>9, <1>10, FS_RemoveElement
  <2> QED
    BY <1>2, <1>4, <2>3, <2>4
<1>11. CASE n \notin DivsAround
  <2>1. walk'.divs = walk.divs
    BY <1>8, <1>11, EndWalk DEF e
  <2>2. DivsAround' = DivsAround
    BY <1>7, <1>11
  <2> QED
    BY <1>2, <1>4, <2>1, <2>2
<1> QED
  BY <1>10, <1>11

LEMMA EndKeepsWalk ==
  ASSUME WalkInv, EndElement
  PROVE  WalkInv'
<1>1. LevelsCount'
  BY DEF WalkInv, LevelsCount, EndElement
<1> QED
  BY <1>1, EndTypes, EndMatches, EndDivs DEF WalkInv

-----------------------------------------------------------------------------
(* The walk in the parse of an archive: it starts once, the tags come in   *)
(* the order the manifest has them, and at the end nothing of it is left.  *)

LEMMA NewWalkHolds ==
  walk = NewWalk /\ open = <<>> /\ starts = 0 =>
    /\ WalkMatchesReader /\ MapCounts
    /\ (outline \in Seq([level : Nat, around : Nat]) => WalkTypes)
<1> SUFFICES ASSUME walk = NewWalk, open = <<>>, starts = 0
             PROVE  /\ WalkMatchesReader /\ MapCounts
                    /\ (outline \in Seq([level : Nat, around : Nat]) => WalkTypes)
  OBVIOUS
<1>1. /\ walk.files = <<>> /\ walk.uses = <<>> /\ walk.depth = 0 /\ walk.page = NoPage
      /\ walk.file = NoRef /\ walk.map = 0 /\ walk.divs = 0 /\ walk.dmd = 0
      /\ walk.field = NoField /\ WalkIsRecord
  BY DEF NewWalk, WalkIsRecord
<1>2. GroupsOpen = {} /\ DivsAround = {} /\ DOMAIN open = {} /\ Len(open) = 0
  BY DEF GroupsOpen, DivsAround
<1>3. UsesOpen
  BY <1>1, <1>2, FS_EmptySet DEF UsesOpen
<1>4. WalkMatchesReader
  BY <1>1, <1>2, <1>3 DEF WalkMatchesReader
<1>5. MapCounts
  BY <1>1, <1>2, FS_EmptySet DEF MapCounts
<1>6. ASSUME outline \in Seq([level : Nat, around : Nat]) PROVE WalkTypes
  <2>1. /\ walk.page \in [depth : Nat, order : Int]
        /\ walk.field \in [depth : Nat, text : BOOLEAN]
        /\ walk.uses \in Seq(Uses \cup {Nothing}) /\ open \in Seq(Elements)
    BY <1>1 DEF NoPage, NoField
  <2> QED
    BY <1>1, <1>6, <2>1 DEF WalkTypes
<1> QED
  BY <1>4, <1>5, <1>6

ManifestInv == given \in Payloads /\ WalkInv

LEMMA ManifestStep == ManifestInv /\ [Next]_vars => ManifestInv'
<1> SUFFICES ASSUME ManifestInv, [Next]_vars PROVE ManifestInv'
  OBVIOUS
<1>0. given' = given
  BY DEF Next, vars, archiveVars, NextEntry, ReadBody, EndBody, EndTar, TarBroken,
       UploadCapped, Uploaded, Inflate, ReadManifest, EndManifest, MemberFails, SendInfo,
       SendOutline, SendRecords, NextPage, ReadHocr, SendPage, SendLine, SendStatus,
       Stopped, Reading
<1>1. CASE ReadManifest
  <2>1. CASE starts < Len(given.manifest) /\ StartElement(given.manifest[starts + 1])
    <3>1. given.manifest \in Seq(Elements) /\ starts \in Nat
      BY MetsArchiveAssumption DEF ManifestInv, WalkInv, WalkTypes
    <3>2. given.manifest[starts + 1] \in Elements
      BY <2>1, <3>1
    <3> QED
      BY <1>0, <2>1, <3>2, StartKeepsWalk DEF ManifestInv
  <2>2. CASE ManifestText
    BY <1>0, <2>2, TextKeepsWalk DEF ManifestInv
  <2>3. CASE EndElement
    BY <1>0, <2>3, EndKeepsWalk DEF ManifestInv
  <2> QED
    BY <1>1, <2>1, <2>2, <2>3 DEF ReadManifest
<1>2. CASE EndManifest
  <2>1. walk' = NewWalk /\ open' = <<>> /\ starts' = 0 /\ UNCHANGED <<outline, tangled>>
    BY <1>2 DEF EndManifest
  <2>2. outline' \in Seq([level : Nat, around : Nat]) /\ LevelsCount'
    BY <2>1 DEF ManifestInv, WalkInv, WalkTypes, LevelsCount
  <2>3. WalkMatchesReader' /\ MapCounts'
        /\ (outline' \in Seq([level : Nat, around : Nat]) => WalkTypes')
    <3>1. (walk = NewWalk /\ open = <<>> /\ starts = 0 =>
             /\ WalkMatchesReader /\ MapCounts
             /\ (outline \in Seq([level : Nat, around : Nat]) => WalkTypes))'
      BY NewWalkHolds, PTL
    <3> QED
      BY <2>1, <3>1
  <2> QED
    BY <1>0, <2>2, <2>3 DEF ManifestInv, WalkInv
<1>3. CASE UNCHANGED manifestVars
  BY <1>0, <1>3 DEF ManifestInv, WalkInv, WalkTypes, WalkIsRecord, WalkMatchesReader, UsesOpen,
       GroupsOpen, MapCounts, DivsAround, LevelsCount, manifestVars
<1>4. ASSUME Next, ~ReadManifest, ~EndManifest PROVE UNCHANGED manifestVars
  BY <1>4 DEF Next, NextEntry, ReadBody, EndBody, EndTar, TarBroken, UploadCapped,
       Uploaded, Inflate, MemberFails, SendInfo, SendOutline, SendRecords, NextPage,
       ReadHocr, SendPage, SendLine, SendStatus, Stopped, Unread
<1> QED
  BY <1>1, <1>2, <1>3, <1>4 DEF vars

LEMMA ManifestStart == Init => ManifestInv
<1> SUFFICES ASSUME Init PROVE ManifestInv
  OBVIOUS
<1>1. given \in Payloads /\ walk = NewWalk /\ open = <<>> /\ starts = 0 /\ outline = <<>>
  BY DEF Init, ManifestInit
<1>2. outline \in Seq([level : Nat, around : Nat]) /\ LevelsCount
  BY <1>1 DEF LevelsCount
<1> QED
  BY <1>1, <1>2, NewWalkHolds DEF ManifestInv, WalkInv

(* ManifestWalk keeps counts, depths and one stack where the reader keeps  *)
(* the open elements: whatever the manifest holds and wherever its end     *)
(* tags come, what the walk takes to be open is what is open.              *)
THEOREM WalkCorrect == Spec => []WalkMatchesReader
<1>1. ManifestInv => WalkMatchesReader
  BY DEF ManifestInv, WalkInv
<1> QED
  BY <1>1, ManifestStart, ManifestStep, PTL DEF Spec

(* The level of a contents entry is one more than the divisions around it  *)
(* in its structMap, in every manifest that does not nest structMaps.      *)
THEOREM LevelsCorrect == Spec => []LevelsCount
<1>1. ManifestInv => LevelsCount
  BY DEF ManifestInv, WalkInv
<1> QED
  BY <1>1, ManifestStart, ManifestStep, PTL DEF Spec

-----------------------------------------------------------------------------
(* Types and bounds of the whole parse.                                    *)

Phases == {"upload", "inflate", "handed", "tar", "manifest", "info", "outline",
           "records", "pages", "hocr", "lines", "done", "failed"}
Results == {"none", "ok", "malformed", "unsupported", "refused", "too_large", "stopped"}

Orders == {told[i][1] : i \in DOMAIN told}

(* The tar: a header over the bound on members ends the parse. *)
TarBounds ==
  /\ phase \in Phases /\ result \in Results
  /\ count \in 0..(MaxMembers + 1) /\ (phase = "tar" => count <= MaxMembers)
  /\ left \in Int /\ left >= -1
  /\ sent \in Nat /\ index \in Nat

(* The manifest: pages are numbered, the lists keep to their bound. *)
ManifestBounds ==
  /\ DOMAIN pages \subseteq Nat
  /\ records \in Nat /\ records <= MaxRecords
  /\ Len(outline) <= MaxRecords

LEMMA NaturalConstants == MaxMembers \in Nat /\ MaxRecords \in Nat
  BY MetsArchiveAssumption, MetsManifestAssumption

LEMMA TarBoundsStep ==
  ASSUME BudgetInv, TarBounds, [Next]_vars
  PROVE  TarBounds'
<1> USE NaturalConstants DEF TarBounds, Phases, Results
<1>0. \A error \in Results \ {"none", "ok"} :
         Fail(error) => phase' = "failed" /\ result' \in Results
  BY DEF Fail
<1>a. NotThatKind \in {"malformed", "unsupported"}
  BY DEF NotThatKind
<1>b. /\ Len(given.tar) \in Nat /\ \A i \in 1..Len(given.tar) : given.tar[i].size \in Nat
      /\ given.document \in Int
  BY MetsArchiveAssumption DEF BudgetInv
<1>1. CASE NextEntry
  <2>1. count + 1 \in 1..Len(given.tar)
    BY <1>1, <1>b DEF NextEntry
  <2>2. given.tar[count + 1].size \in Nat
    BY <1>b, <2>1
  <2>3. count' = count + 1 /\ count <= MaxMembers /\ UNCHANGED <<sent, index>>
    BY <1>1 DEF NextEntry, Unsent
  <2>4. \/ phase' = "failed" /\ result' \in Results /\ left' = left
        \/ count + 1 <= MaxMembers /\ left' = given.tar[count + 1].size
           /\ UNCHANGED <<phase, result>>
    BY <1>1, <2>3 DEF NextEntry, Fail
  <2> QED
    BY <2>2, <2>3, <2>4
<1>2. CASE ReadBody
  <2>1. left' = left - 1 /\ left > 0 /\ UNCHANGED <<sent, index, count>>
    BY <1>2 DEF ReadBody, Unsent
  <2>2. \/ phase' = "failed" /\ result' \in Results
        \/ UNCHANGED <<phase, result>>
    BY <1>2 DEF ReadBody, Fail
  <2> QED
    BY <2>1, <2>2
<1>3. CASE EndBody
  BY <1>3 DEF EndBody, Unsent
<1>4. ASSUME NEW n \in {0, 1}, EndTar(n) PROVE TarBounds'
  BY <1>a, <1>4 DEF EndTar, Unsent, Fail
<1>5. CASE TarBroken \/ UploadCapped
  BY <1>a, <1>5 DEF TarBroken, UploadCapped, Unsent, Fail
<1>6. CASE Uploaded
  BY <1>a, <1>b, <1>6 DEF Uploaded, Unsent, Fail
<1>7. CASE Inflate
  BY <1>7 DEF Inflate, Unsent, Fail
<1>8. CASE ReadManifest
  BY <1>8 DEF ReadManifest, Reading, Unsent
<1>9. CASE EndManifest
  BY <1>9 DEF EndManifest, Reading
<1>10. CASE MemberFails
  BY <1>10 DEF MemberFails, Unsent, Fail
<1>11. CASE SendInfo \/ SendOutline \/ SendRecords
  BY <1>11 DEF SendInfo, SendOutline, SendRecords, Reading, Emit
<1>12. CASE NextPage
  BY <1>12 DEF NextPage, Reading, Quiet
<1>13. CASE ReadHocr
  BY <1>13 DEF ReadHocr, Reading, Unsent
<1>14. CASE SendPage
  BY <1>14 DEF SendPage, Reading, Emit
<1>15. CASE SendLine
  BY <1>15 DEF SendLine, Reading, Index
<1>16. CASE SendStatus
  BY <1>16 DEF SendStatus, Emit
<1>17. CASE Stopped
  BY <1>17 DEF Stopped, Unsent, Fail
<1>18. CASE UNCHANGED vars
  BY <1>18 DEF vars, archiveVars
<1> QED
  BY <1>1, <1>2, <1>3, <1>4, <1>5, <1>6, <1>7, <1>8, <1>9, <1>10, <1>11, <1>12, <1>13,
     <1>14, <1>15, <1>16, <1>17, <1>18 DEF Next

(* A start tag adds at most a page and an entry. *)
LEMMA StartBounds ==
  ASSUME WalkTypes, ManifestBounds, NEW e \in Elements, StartElement(e)
  PROVE  ManifestBounds' /\ DOMAIN pages \subseteq DOMAIN pages'
<1> DEFINE w == [walk EXCEPT !.depth = @ + 1]
           entry == [level |-> CountDiv(w, e), around |-> Cardinality(DivsAround)]
<1>0. outline \in Seq([level : Nat, around : Nat]) /\ Len(outline) \in Nat
  BY DEF WalkTypes
<1>1. \/ OnRoot(e, w) \/ OnGroup(e, w) \/ OnFile(e, w) \/ OnLocation(e, w)
      \/ OnMap(e, w) \/ OnDmd(e, w) \/ OnDiv(e, w) \/ OnPointer(e, w)
      \/ OnField(e, w)
  BY DEF StartElement
<1> HIDE DEF w
<1>2. CASE UNCHANGED <<pages, outline, records>>
  BY <1>2 DEF ManifestBounds
<1>3. CASE OnDiv(e, w)
  <2>1. records' = records
    BY <1>3 DEF OnDiv
  <2>2. DOMAIN pages \subseteq DOMAIN pages' /\ DOMAIN pages' \subseteq Nat
    <3>1. CASE pages' = pages
      BY <3>1 DEF ManifestBounds
    <3>2. CASE pages' # pages
      <4>1. IsPage(e) /\ pages' = With(pages, e.order, NoFiles)
        BY <1>3, <3>2 DEF OnDiv
      <4>2. DOMAIN pages' = DOMAIN pages \cup {e.order} /\ e.order \in Nat
        BY <4>1, ElementFacts DEF With, IsPage
      <4> QED
        BY <4>2 DEF ManifestBounds
    <3> QED
      BY <3>1, <3>2
  <2>3. Len(outline') <= MaxRecords
    <3>1. CASE outline' = outline
      BY <3>1 DEF ManifestBounds
    <3>2. CASE outline' # outline
      <4>1. outline' = Append(outline, entry) /\ HasRoom(Len(outline))
        BY <1>3, <3>2 DEF OnDiv
      <4>2. Len(outline') = Len(outline) + 1
        <5> HIDE DEF entry
        <5> QED
          BY <1>0, <4>1
      <4> QED
        BY <1>0, <4>1, <4>2, NaturalConstants DEF HasRoom
    <3> QED
      BY <3>1, <3>2
  <2> QED
    BY <2>1, <2>2, <2>3 DEF ManifestBounds
<1>4. CASE OnPointer(e, w)
  BY <1>4 DEF OnPointer, ManifestBounds
<1> QED
  BY <1>1, <1>2, <1>3, <1>4 DEF OnRoot, OnGroup, OnFile, OnLocation, OnMap, OnDmd, OnField, Kept

LEMMA ManifestBoundsStep ==
  ASSUME ManifestInv, ManifestBounds, [Next]_vars
  PROVE  ManifestBounds' /\ DOMAIN pages \subseteq DOMAIN pages'
<1>1. CASE ReadManifest
  <2>1. CASE starts < Len(given.manifest) /\ StartElement(given.manifest[starts + 1])
    <3>1. given.manifest \in Seq(Elements) /\ starts \in Nat
      BY MetsArchiveAssumption DEF ManifestInv, WalkInv, WalkTypes
    <3>2. given.manifest[starts + 1] \in Elements
      BY <2>1, <3>1
    <3> QED
      BY <2>1, <3>2, StartBounds DEF ManifestInv, WalkInv
  <2>2. CASE ManifestText
    BY <2>2 DEF ManifestText, ManifestBounds
  <2>3. CASE EndElement
    <3>1. UNCHANGED <<pages, outline>> /\ (records' = records \/
            (HasRoom(records) /\ records' = records + 1))
      BY <2>3 DEF EndElement
    <3> QED
      BY <3>1, NaturalConstants DEF ManifestBounds, HasRoom
  <2> QED
    BY <1>1, <2>1, <2>2, <2>3 DEF ReadManifest
<1>2. CASE EndManifest
  BY <1>2 DEF EndManifest, ManifestBounds
<1>3. CASE UNCHANGED manifestVars
  BY <1>3 DEF manifestVars, ManifestBounds
<1>4. ASSUME Next, ~ReadManifest, ~EndManifest PROVE UNCHANGED manifestVars
  BY <1>4 DEF Next, NextEntry, ReadBody, EndBody, EndTar, TarBroken, UploadCapped,
       Uploaded, Inflate, MemberFails, SendInfo, SendOutline, SendRecords, NextPage,
       ReadHocr, SendPage, SendLine, SendStatus, Stopped, Unread
<1> QED
  BY <1>1, <1>2, <1>3, <1>4 DEF vars

-----------------------------------------------------------------------------
(* The pages.  While they are sent, those told of are exactly the ones of  *)
(* the manifest that have been come to and have a text member, and every   *)
(* page still to come has a greater ORDER.                                 *)

WithText(orders) == {order \in orders : HasText(order)}

ToldInOrder ==
  /\ told # <<>> => told[1][2] = 0
  /\ \A i \in 1..(Len(told) - 1) :
       \/ told[i + 1][1] = told[i][1] /\ told[i + 1][2] = told[i][2] + 1
       \/ told[i + 1][1] > told[i][1] /\ told[i + 1][2] = 0

PagesInv ==
  /\ told \in Seq(Nat \X Nat) /\ ToldInOrder
  /\ todo \subseteq DOMAIN pages /\ Orders \subseteq DOMAIN pages
  /\ phase \in Before \cup {"outline", "records"} => told = <<>> /\ todo = {}
  /\ phase \in {"pages", "hocr", "lines"} =>
       \A order \in todo : \A o \in Orders : o < order
  /\ phase \in {"pages", "lines"} => Orders = WithText(DOMAIN pages \ todo)
  /\ phase = "hocr" =>
       /\ page \in DOMAIN pages \ todo /\ HasText(page)
       /\ Orders = WithText(DOMAIN pages \ (todo \cup {page}))
       /\ (\A o \in Orders : o < page) /\ \A order \in todo : page < order
  /\ phase = "lines" =>
       page \in DOMAIN pages /\ told # <<>> /\ told[Len(told)] = <<page, sent>>
  /\ phase = "done" => Orders = WithText(DOMAIN pages)

LEMMA TextStays ==
  ASSUME UNCHANGED <<pages, members>>, NEW orders
  PROVE  WithText(orders)' = WithText(orders)
  BY DEF WithText, HasText, MemberByHref

(* One more is told. *)
LEMMA TellOne ==
  ASSUME told \in Seq(Nat \X Nat), ToldInOrder, NEW o \in Nat, NEW line \in Nat,
         told' = Append(told, <<o, line>>),
         \/ told # <<>> /\ told[Len(told)][1] = o /\ line = told[Len(told)][2] + 1
         \/ line = 0 /\ \A p \in Orders : p < o
  PROVE  /\ told' \in Seq(Nat \X Nat) /\ ToldInOrder' /\ Orders' = Orders \cup {o}
         /\ told' # <<>> /\ told'[Len(told')] = <<o, line>>
<1> DEFINE one == <<o, line>>
<1>1. one \in Nat \X Nat /\ one[1] = o /\ one[2] = line
  OBVIOUS
<1> HIDE DEF one
<1>2. /\ told' = Append(told, one) /\ told' \in Seq(Nat \X Nat) /\ told' # <<>>
      /\ Len(told) \in Nat /\ Len(told') = Len(told) + 1
      /\ DOMAIN told = 1..Len(told) /\ DOMAIN told' = 1..(Len(told) + 1)
      /\ told'[Len(told) + 1] = one
      /\ \A i \in 1..Len(told) : told'[i] = told[i]
  BY <1>1 DEF one
<1>3. told'[1][2] = 0
  <2>1. CASE told = <<>>
    BY <1>1, <1>2, <2>1
  <2>2. CASE told # <<>>
    BY <1>2, <2>2 DEF ToldInOrder
  <2> QED
    BY <2>1, <2>2
<1>4. ASSUME NEW i \in 1..(Len(told') - 1)
      PROVE  \/ told'[i + 1][1] = told'[i][1] /\ told'[i + 1][2] = told'[i][2] + 1
             \/ told'[i + 1][1] > told'[i][1] /\ told'[i + 1][2] = 0
  <2>1. CASE i < Len(told)
    <3>1. told'[i] = told[i] /\ told'[i + 1] = told[i + 1] /\ i \in 1..(Len(told) - 1)
      BY <1>2, <2>1
    <3> QED
      BY <3>1 DEF ToldInOrder
  <2>2. CASE i = Len(told)
    <3>1. told'[i] = told[i] /\ told'[i + 1] = one /\ i \in DOMAIN told
      BY <1>2, <2>2
    <3>2. told[i][1] \in Nat /\ told[i][2] \in Nat
      <4>1. told[i] \in Nat \X Nat
        BY <3>1
      <4> QED
        BY <4>1
    <3>3. told[i][1] \in Orders
      BY <3>1 DEF Orders
    <3> QED
      BY <1>1, <2>2, <3>1, <3>2, <3>3
  <2>3. i < Len(told) \/ i = Len(told)
    <3>1. Len(told) \in Nat /\ Len(told') = Len(told) + 1
      BY <1>2
    <3> DEFINE n == Len(told)
    <3>2. n \in Nat /\ i \in 1..((n + 1) - 1)
      BY <3>1
    <3> HIDE DEF n
    <3>3. i < n \/ i = n
      BY ONLY <3>2
    <3> QED
      BY <3>3 DEF n
  <2> QED
    BY <2>1, <2>2, <2>3
<1>5. Orders' = Orders \cup {o}
  BY <1>1, <1>2 DEF Orders
<1> QED
  BY <1>2, <1>3, <1>4, <1>5 DEF ToldInOrder, one

LEMMA LeastIsMin ==
  ASSUME NEW S, S \subseteq Nat, S # {}
  PROVE  Min(S) \in S /\ \A x \in S \ {Min(S)} : Min(S) < x
<1>1. \E m \in S : \A x \in S : m <= x
  BY Least
<1>2. Min(S) \in S /\ \A x \in S : Min(S) <= x
  BY <1>1 DEF Min
<1> DEFINE m == Min(S)
<1>3. m \in S /\ \A x \in S : m <= x
  BY <1>2
<1> HIDE DEF m
<1>4. \A x \in S \ {m} : m < x
  BY <1>3
<1> QED
  BY <1>3, <1>4 DEF m

(* Before the pages: nothing is told, whatever grows. *)
LEMMA NothingTold ==
  ASSUME PagesInv, told = <<>>, todo = {}, UNCHANGED <<told, todo>>,
         phase' \in Before \cup {"outline", "records", "failed"}
  PROVE  PagesInv'
<1>1. Orders' = {} /\ told' = <<>> /\ todo' = {}
  BY DEF Orders
<1>2. told' \in Seq(Nat \X Nat) /\ ToldInOrder'
  BY <1>1 DEF ToldInOrder
<1> QED
  BY <1>1, <1>2 DEF PagesInv, Before

(* Among the pages: what only reads leaves the invariant as it is. *)
LEMMA ToldStays ==
  ASSUME PagesInv, UNCHANGED <<told, todo, page, pages, members>>,
         \/ phase' = "failed"
         \/ phase' = phase /\ sent' = sent
         \/ phase = "lines" /\ phase' = "pages"
  PROVE  PagesInv'
<1>1. Orders' = Orders /\ ToldInOrder' = ToldInOrder
  BY DEF Orders, ToldInOrder
<1>2. \A orders : WithText(orders)' = WithText(orders)
  BY TextStays
<1>3. HasText(page)' = HasText(page)
  BY DEF HasText, MemberByHref
<1>4. /\ told' \in Seq(Nat \X Nat) /\ ToldInOrder'
      /\ todo' \subseteq DOMAIN pages' /\ Orders' \subseteq DOMAIN pages'
  BY <1>1 DEF PagesInv
<1>5. CASE phase' = "failed"
  BY <1>4, <1>5 DEF PagesInv, Before
<1>6. CASE phase' = phase /\ sent' = sent
  BY <1>1, <1>2, <1>3, <1>4, <1>6 DEF PagesInv
<1>7. CASE phase = "lines" /\ phase' = "pages"
  BY <1>1, <1>2, <1>4, <1>7 DEF PagesInv, Before
<1> QED
  BY <1>5, <1>6, <1>7

LEMMA NextPageKeeps ==
  ASSUME PagesInv, ManifestBounds, NextPage
  PROVE  PagesInv'
<1> PICK order : order = Min(todo)
  OBVIOUS
<1>1. /\ todo \subseteq Nat /\ todo # {} /\ phase = "pages"
      /\ UNCHANGED <<told, pages, members>>
  BY DEF PagesInv, ManifestBounds, NextPage, Quiet, Reading, manifestVars
<1>2. order \in todo /\ \A o \in todo \ {order} : order < o
  BY <1>1, LeastIsMin
<1>3. todo' = todo \ {order}
  BY <1>1 DEF NextPage, AfterSkip
<1>4. /\ Orders' = Orders /\ ToldInOrder' = ToldInOrder
      /\ Orders = WithText(DOMAIN pages \ todo)
      /\ \A o \in Orders : o < order
      /\ \A o \in Orders, p \in todo' : o < p
  BY <1>1, <1>2, <1>3 DEF Orders, ToldInOrder, PagesInv
<1>5. \A orders : WithText(orders)' = WithText(orders)
  BY <1>1, TextStays
<1>6. order \in DOMAIN pages' /\ order \notin todo' /\ HasText(order)' = HasText(order)
  BY <1>1, <1>2, <1>3 DEF PagesInv, HasText, MemberByHref
<1>7. /\ told' \in Seq(Nat \X Nat) /\ ToldInOrder'
      /\ todo' \subseteq DOMAIN pages' /\ Orders' \subseteq DOMAIN pages'
  BY <1>1, <1>3, <1>4 DEF PagesInv
<1>8. CASE HasText(order)
  <2>1. phase' = "hocr" /\ page' = order
    BY <1>8 DEF NextPage
  <2>2. DOMAIN pages \ todo = DOMAIN pages' \ (todo' \cup {order})
    BY <1>1, <1>2, <1>3
  <2> QED
    BY <1>1, <1>2, <1>3, <1>4, <1>5, <1>6, <1>7, <1>8, <2>1, <2>2 DEF PagesInv, Before
<1>9. CASE ~HasText(order)
  <2>1. phase' = "pages"
    BY <1>1, <1>9 DEF NextPage
  <2>2. WithText(DOMAIN pages' \ todo') = WithText(DOMAIN pages \ todo)
    BY <1>1, <1>2, <1>3, <1>9 DEF WithText
  <2>3. Orders' = WithText(DOMAIN pages \ todo)'
    BY <1>1, <1>4, <1>5, <2>2
  <2> QED
    BY <1>4, <1>7, <2>1, <2>3 DEF PagesInv, Before
<1> QED
  BY <1>8, <1>9

LEMMA SendPageKeeps ==
  ASSUME PagesInv, ManifestBounds, SendPage
  PROVE  PagesInv'
<1>1. /\ phase = "hocr" /\ phase' = "lines" /\ sent' = 0 /\ told' = Append(told, <<page, 0>>)
      /\ UNCHANGED <<todo, page, pages, members>>
  BY DEF SendPage, Reading, Unread, manifestVars
<1>2. /\ page \in DOMAIN pages \ todo /\ page \in Nat /\ HasText(page)
      /\ Orders = WithText(DOMAIN pages \ (todo \cup {page}))
      /\ (\A o \in Orders : o < page) /\ \A order \in todo : page < order
      /\ told \in Seq(Nat \X Nat) /\ ToldInOrder
      /\ \A order \in todo : \A o \in Orders : o < order
  BY <1>1 DEF PagesInv, ManifestBounds
<1>3. /\ told' \in Seq(Nat \X Nat) /\ ToldInOrder' /\ Orders' = Orders \cup {page}
      /\ told' # <<>> /\ told'[Len(told')] = <<page, 0>>
  BY <1>1, <1>2, TellOne
<1>4. Orders' = WithText(DOMAIN pages \ todo)
  BY <1>2, <1>3 DEF WithText
<1>5. \A orders : WithText(orders)' = WithText(orders)
  BY <1>1, TextStays
<1>6. todo' \subseteq DOMAIN pages' /\ Orders' \subseteq DOMAIN pages'
  BY <1>1, <1>2, <1>3 DEF PagesInv
<1> QED
  BY <1>1, <1>2, <1>3, <1>4, <1>5, <1>6 DEF PagesInv, Before

LEMMA SendLineKeeps ==
  ASSUME PagesInv, ManifestBounds, TarBounds, SendLine
  PROVE  PagesInv'
<1>0. phase = "lines" /\ UNCHANGED <<todo, page, pages, members>>
  BY DEF SendLine, Reading, Unread, manifestVars
<1>1. CASE sent < Len(lines)
  <2>1. phase' = phase /\ sent' = sent + 1 /\ told' = Append(told, <<page, sent + 1>>)
    BY <1>1 DEF SendLine
  <2>2. /\ page \in DOMAIN pages /\ page \in Nat /\ sent + 1 \in Nat /\ told # <<>>
        /\ told[Len(told)] = <<page, sent>> /\ told \in Seq(Nat \X Nat) /\ ToldInOrder
    BY <1>0 DEF PagesInv, ManifestBounds, TarBounds
  <2>3. told[Len(told)][1] = page /\ sent + 1 = told[Len(told)][2] + 1
    BY <2>2
  <2>4. /\ told' \in Seq(Nat \X Nat) /\ ToldInOrder' /\ Orders' = Orders \cup {page}
        /\ told' # <<>> /\ told'[Len(told')] = <<page, sent + 1>>
    BY <2>1, <2>2, <2>3, TellOne
  <2>5. page \in Orders
    <3>1. Len(told) \in DOMAIN told
      BY <2>2
    <3> QED
      BY <2>3, <3>1 DEF Orders
  <2>6. Orders' = Orders
    BY <2>4, <2>5
  <2>7. \A orders : WithText(orders)' = WithText(orders)
    BY <1>0, TextStays
  <2> QED
    BY <1>0, <2>1, <2>2, <2>4, <2>6, <2>7 DEF PagesInv, Before
<1>2. CASE ~(sent < Len(lines))
  <2>1. phase' = "pages" /\ told' = told
    BY <1>2 DEF SendLine
  <2> QED
    BY <1>0, <2>1, ToldStays
<1> QED
  BY <1>1, <1>2

LEMMA PagesStep ==
  ASSUME PagesInv, TarBounds, ManifestInv, ManifestBounds, [Next]_vars
  PROVE  PagesInv'
<1> USE DEF Unread, manifestVars, Unsent, Reading
<1>0. phase \in Before \cup {"outline", "records"} => told = <<>> /\ todo = {}
  BY DEF PagesInv
<1>1. CASE NextEntry \/ ReadBody \/ EndBody \/ TarBroken \/ UploadCapped
  BY <1>0, <1>1, NothingTold DEF NextEntry, ReadBody, EndBody, TarBroken, UploadCapped, Fail,
       Before
<1>2. ASSUME NEW n \in {0, 1}, EndTar(n) PROVE PagesInv'
  BY <1>0, <1>2, NothingTold DEF EndTar, Fail, Before
<1>3. CASE Uploaded \/ Inflate
  BY <1>0, <1>3, NothingTold DEF Uploaded, Inflate, Fail, Before
<1>4. CASE ReadManifest \/ EndManifest
  BY <1>0, <1>4, NothingTold DEF ReadManifest, EndManifest, Before
<1>5. CASE MemberFails
  BY <1>5, ToldStays DEF MemberFails, Fail
<1>6. CASE SendInfo \/ SendOutline
  BY <1>0, <1>6, NothingTold DEF SendInfo, SendOutline, Before
<1>7. CASE SendRecords
  <2>1. CASE phase' = "records" /\ todo' = todo
    BY <1>0, <1>7, <2>1, NothingTold DEF SendRecords
  <2>2. CASE phase' = "pages" /\ todo' = DOMAIN pages
    <3>1. told' = told /\ told = <<>> /\ pages' = pages
      BY <1>0, <1>7 DEF SendRecords
    <3>2. Orders' = {} /\ told' \in Seq(Nat \X Nat) /\ ToldInOrder'
      BY <3>1 DEF Orders, ToldInOrder
    <3>3. WithText(DOMAIN pages \ todo)' = {}
      BY <2>2, <3>1 DEF WithText
    <3> QED
      BY <2>2, <3>1, <3>2, <3>3 DEF PagesInv, Before
  <2> QED
    BY <1>7, <2>1, <2>2 DEF SendRecords
<1>8. CASE NextPage
  BY <1>8, NextPageKeeps
<1>9. CASE ReadHocr
  BY <1>9, ToldStays DEF ReadHocr
<1>10. CASE SendPage
  BY <1>10, SendPageKeeps
<1>11. CASE SendLine
  BY <1>11, SendLineKeeps
<1>12. CASE SendStatus
  <2>1. phase = "pages" /\ todo = {} /\ phase' = "done"
        /\ UNCHANGED <<told, todo, page, pages, members>>
    BY <1>12 DEF SendStatus
  <2>2. Orders' = Orders /\ ToldInOrder' = ToldInOrder /\ Orders = WithText(DOMAIN pages \ todo)
    BY <2>1 DEF Orders, ToldInOrder, PagesInv
  <2>3. WithText(DOMAIN pages)' = WithText(DOMAIN pages \ todo)
    <3>1. WithText(DOMAIN pages)' = WithText(DOMAIN pages)
      BY <2>1 DEF WithText, HasText, MemberByHref
    <3>2. DOMAIN pages \ todo = DOMAIN pages
      BY <2>1
    <3> QED
      BY <2>1, <3>1, <3>2
  <2> QED
    BY <2>1, <2>2, <2>3 DEF PagesInv, Before
<1>13. CASE Stopped
  BY <1>13, ToldStays DEF Stopped, Fail
<1>14. CASE UNCHANGED vars
  BY <1>14, ToldStays DEF vars, archiveVars
<1> QED
  BY <1>1, <1>2, <1>3, <1>4, <1>5, <1>6, <1>7, <1>8, <1>9, <1>10, <1>11, <1>12, <1>13, <1>14
  DEF Next

ArchiveInv == BudgetInv /\ ManifestInv /\ TarBounds /\ ManifestBounds /\ PagesInv

LEMMA ArchiveStep == ArchiveInv /\ [Next]_vars => ArchiveInv'
  BY BudgetStep, ManifestStep, TarBoundsStep, ManifestBoundsStep, PagesStep DEF ArchiveInv

LEMMA ArchiveStart == Init => ArchiveInv
<1> SUFFICES ASSUME Init PROVE ArchiveInv
  OBVIOUS
<1>1. BudgetInv
  BY BudgetStart
<1>2. ManifestInv
  BY ManifestStart
<1>3. TarBounds
  BY NaturalConstants DEF Init, TarBounds, Phases, Results
<1>4. ManifestBounds
  <2>1. pages = <<>> /\ records = 0 /\ outline = <<>>
    BY DEF Init, ManifestInit
  <2>2. DOMAIN pages = {} /\ Len(outline) = 0
    BY <2>1
  <2> QED
    BY <2>1, <2>2, NaturalConstants DEF ManifestBounds
<1>5. PagesInv
  <2>1. told = <<>> /\ todo = {} /\ phase \in {"upload", "tar"}
    BY DEF Init
  <2>2. Orders = {} /\ ToldInOrder /\ told \in Seq(Nat \X Nat)
    BY <2>1 DEF Orders, ToldInOrder
  <2> QED
    BY <2>1, <2>2 DEF PagesInv, Before
<1> QED
  BY <1>1, <1>2, <1>3, <1>4, <1>5 DEF ArchiveInv

(* What the parse keeps of an archive is what its declarations say, and    *)
(* the lists of a manifest keep to MAX_MANIFEST_RECORDS, the members read  *)
(* to MAX_ARCHIVE_MEMBERS and one header more.                             *)
THEOREM ArchiveTypes == Spec => []TypeOK
<1>1. ArchiveInv => TypeOK
  <2> SUFFICES ASSUME ArchiveInv PROVE TypeOK
    OBVIOUS
  <2>1. \A i \in DOMAIN told : told[i][1] \in DOMAIN pages /\ told[i][2] \in Nat
    <3> SUFFICES ASSUME NEW i \in DOMAIN told
                 PROVE  told[i][1] \in DOMAIN pages /\ told[i][2] \in Nat
      OBVIOUS
    <3>1. told[i] \in Nat \X Nat /\ told[i][1] \in Orders
      BY DEF ArchiveInv, PagesInv, Orders
    <3> QED
      BY <3>1 DEF ArchiveInv, PagesInv
  <2> QED
    BY <2>1 DEF ArchiveInv, BudgetInv, TarBounds, ManifestBounds, PagesInv, Phases, Results,
         TypeOK
<1> QED
  BY <1>1, ArchiveStart, ArchiveStep, PTL DEF Spec

(* MetsDriver.run goes through the pages by ORDER, whatever order the      *)
(* manifest lists them in: each is announced before its lines, the lines   *)
(* come as they stand, and none that has text is left out at the trailer.  *)
THEOREM PagesCorrect == Spec => []PagesInOrder
<1>1. ArchiveInv => PagesInOrder
  BY DEF ArchiveInv, PagesInv, ToldInOrder, PagesInOrder, Orders, WithText
<1> QED
  BY <1>1, ArchiveStart, ArchiveStep, PTL DEF Spec

=============================================================================
