----------------------------- MODULE EventStream -----------------------------
(***************************************************************************)
(* What the event stream of one document looks like to whoever reads       *)
(* it (the client, or document_fold): XmlInfo, content, ParseStatus.       *)
(* Indexed events count up from zero in the order they come; a table is    *)
(* its start, its rows in order and its end, with nothing in between; the  *)
(* trailer comes with no table open.  It is what xml.proto says of         *)
(* TextItem.index, TableStart, TableRow and TableEnd.                      *)
(***************************************************************************)
EXTENDS Naturals

VARIABLES
  stage,   \* "start", "open", "done" or "cut"
  last,    \* the last event given
  next,    \* the index the next indexed event has
  tables,  \* tables started so far; each is known by its number
  table,   \* the table that is open, or 0
  rows     \* rows of it so far

streamVars == <<stage, last, next, tables, table, rows>>

Init ==
  /\ stage = "start" /\ last = [kind |-> "none"]
  /\ next = 0 /\ tables = 0 /\ table = 0 /\ rows = 0

Info ==
  /\ stage = "start"
  /\ stage' = "open" /\ last' = [kind |-> "info"]
  /\ UNCHANGED <<next, tables, table, rows>>

Outside == stage = "open" /\ table = 0

(* A text item, an island or a fact. *)
Item ==
  /\ Outside
  /\ last' = [kind |-> "item", index |-> next]
  /\ next' = next + 1
  /\ UNCHANGED <<stage, tables, table, rows>>

(* A metadata item, an XBRL note, an entry of the outline or a page:       *)
(* content without an index.                                               *)
Record ==
  /\ Outside
  /\ last' = [kind |-> "record"]
  /\ UNCHANGED <<stage, next, tables, table, rows>>

TableStart ==
  /\ Outside
  /\ last' = [kind |-> "table", index |-> next, ref |-> tables + 1]
  /\ next' = next + 1 /\ tables' = tables + 1
  /\ table' = tables + 1 /\ rows' = 0
  /\ UNCHANGED stage

TableRow ==
  /\ stage = "open" /\ table # 0
  /\ last' = [kind |-> "row", ref |-> table, row |-> rows]
  /\ rows' = rows + 1
  /\ UNCHANGED <<stage, next, tables, table>>

TableEnd ==
  /\ stage = "open" /\ table # 0
  /\ last' = [kind |-> "end", ref |-> table, rows |-> rows]
  /\ table' = 0 /\ rows' = 0
  /\ UNCHANGED <<stage, next, tables>>

Status ==
  /\ Outside
  /\ stage' = "done" /\ last' = [kind |-> "status"]
  /\ UNCHANGED <<next, tables, table, rows>>

(* A parse that fails gives nothing more. *)
Cut ==
  /\ stage \in {"start", "open"}
  /\ stage' = "cut"
  /\ UNCHANGED <<last, next, tables, table, rows>>

Next ==
  \/ Info \/ Item \/ Record \/ TableStart \/ TableRow \/ TableEnd \/ Status
  \/ Cut

Spec == Init /\ [][Next]_streamVars

=============================================================================
