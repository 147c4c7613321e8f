------------------------------ MODULE HocrPage ------------------------------
(***************************************************************************)
(* Reading one hOCR page of a Google Books export (archive/mets.rs,        *)
(* read_hocr).  hOCR is HTML: end tags need not match, so the reader keeps *)
(* no stack and only spans are followed, by counting.  A line is a span of *)
(* class ocr_line; the first level of spans in it may be words.            *)
(***************************************************************************)
EXTENDS Integers, Sequences, SequencesExt

CONSTANTS
  MaxSpans,   \* bound: span tags, start and end, in one page
  MaxWords    \* MAX_INLINE_SPANS

ASSUME HocrPageAssumption == MaxSpans \in Nat /\ MaxWords \in Nat

VARIABLES
  spans,      \* the classes of the spans whose end tags have not come
  tags,       \* span tags read
  capture,    \* the line being captured
  lines       \* the lines kept, each with its words

hocrVars == <<spans, tags, capture, lines>>

Classes == {"ocr_line", "ocrx_word", "other"}

NoCapture == [on |-> FALSE, depth |-> 0, boxed |-> FALSE, text |-> FALSE,
              words |-> 0, word |-> FALSE]

HocrInit == spans = <<>> /\ tags = 0 /\ capture = NoCapture /\ lines = <<>>

(* Fault: a span is counted only while there is room for words. *)
DeeperAsWord(c) == IF c.words < MaxWords THEN c.depth + 1 ELSE c.depth

Deeper(c) == c.depth + 1

(* Fault: any span may be the word, however deep. *)
StartsAnyWord(c, class, boxed) ==
  ~c.word /\ class = "ocrx_word" /\ boxed /\ c.words < MaxWords

StartsWord(c, class, boxed) ==
  c.depth = 0 /\ ~c.word /\ class = "ocrx_word" /\ boxed /\ c.words < MaxWords

(* A span opens: a word or a nested span of the line, or a line.  A line   *)
(* and a word state a box or do not.                                       *)
OpenSpan(class, boxed) ==
  /\ tags < MaxSpans /\ tags' = tags + 1
  /\ spans' = Append(spans, class)
  /\ capture' =
       IF capture.on
       THEN [capture EXCEPT !.word = @ \/ StartsWord(capture, class, boxed),
                            !.depth = Deeper(capture)]
       ELSE IF class = "ocr_line"
       THEN [NoCapture EXCEPT !.on = TRUE, !.boxed = boxed]
       ELSE NoCapture
  /\ UNCHANGED lines

(* An end tag: of a span inside the line, which may be the word, or of the *)
(* line, which is kept if it has a box and text.  Outside a line it is     *)
(* passed over, whether or not it matches anything.                        *)
CloseSpan ==
  /\ tags < MaxSpans /\ tags' = tags + 1
  /\ spans' = IF spans = <<>> THEN <<>> ELSE Front(spans)
  /\ IF capture.on /\ capture.depth > 0
     THEN LET done == capture.depth = 1 /\ capture.word
          IN capture' = [capture EXCEPT !.depth = @ - 1,
                                        !.word = @ /\ ~done,
                                        !.words = IF done THEN @ + 1 ELSE @]
     ELSE capture' = NoCapture
  /\ lines' = IF capture.on /\ capture.depth = 0 /\ capture.boxed /\ capture.text
              THEN Append(lines, capture.words) ELSE lines

(* Text, or a reference, which is text resolved or not. *)
HocrText ==
  /\ capture' = [capture EXCEPT !.text = capture.on]
  /\ UNCHANGED <<spans, tags, lines>>

(* A line is captured from its own start tag to the end tag that matches   *)
(* it, through whatever spans come inside; the word open in it is the span *)
(* right under the line, and words are no more than the bound.             *)
CaptureMatchesSpans ==
  capture.on =>
    LET line == Len(spans) - capture.depth
    IN /\ line \in DOMAIN spans /\ spans[line] = "ocr_line"
       /\ capture.word =>
            line + 1 \in DOMAIN spans /\ spans[line + 1] = "ocrx_word"
       /\ capture.words + (IF capture.word THEN 1 ELSE 0) <= MaxWords

=============================================================================
