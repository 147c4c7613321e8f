--------------------------- MODULE MCDocumentFold ---------------------------
EXTENDS DocumentFold

Text(label, level, id, cites) ==
  [event |-> "text", label |-> label, level |-> level, depth |-> 0,
   ordered |-> FALSE, id |-> id, cites |-> cites]
ListItem(depth, ordered) ==
  [event |-> "text", label |-> "list_item", level |-> 1, depth |-> depth,
   ordered |-> ordered, id |-> NoName, cites |-> {}]
Start(captioned, id) ==
  [event |-> "table_start", ref |-> "t", captioned |-> captioned, id |-> id]
Row(ref, cells, cites) ==
  [event |-> "table_row", ref |-> ref, cells |-> cells, cites |-> cites]
End(ref) == [event |-> "table_end", ref |-> ref]
Picture(id) == [event |-> "picture", id |-> id]
Island(id) == [event |-> "html_island", id |-> id]
Cell(rows, cols) == [rows |-> rows, cols |-> cols]
Note(footnote, empty, id) ==
  [event |-> "xbrl_note", footnote |-> footnote, empty |-> empty, id |-> id]

Paragraph == Text("paragraph", 1, NoName, {})

Chrome == Text("page_header", 1, NoName, {})
Heading(level) == Text("section_header", level, NoName, {})

(* Sections, chrome and what stands in them. *)
Sections ==
  {Heading(level) : level \in 1..3} \cup {Paragraph, Chrome, Island(NoName)}

(* Lists of two depths and kinds, one of them by default, and what ends    *)
(* them or does not.                                                       *)
Lists ==
  {ListItem(depth, ordered) : depth \in {0, 2}, ordered \in BOOLEAN}
  \cup {ListItem(3, FALSE), Heading(1), Chrome}

(* One table after another, with spans both ways, and stray rows. *)
Tables ==
  {Start(TRUE, NoName), End("t"), Row("u", <<>>, {}),
   Row("t", <<Cell(2, 0), Cell(1, 1)>>, {}), Row("t", <<Cell(1, 1), Cell(2, 2)>>, {}),
   Row("t", <<Cell(3, 1)>>, {}), Row("t", <<>>, {}), Heading(1)}

(* Names carried twice, cited before and after, and never. *)
Citing ==
  {Text("paragraph", 1, "a", {"b"}), Text("section_header", 1, "b", {}),
   Text("page_header", 1, NoName, {"a", "b"}), Picture("a"), Island("b"),
   Start(FALSE, "a"), Row("t", <<Cell(1, 1)>>, {"b"}), End("u"),
   [event |-> "citation", empty |-> FALSE, id |-> "b"],
   [event |-> "citation", empty |-> TRUE, id |-> "a"]}

(* An XBRL instance, and the headings and lists no such dialect has. *)
Instance ==
  {[event |-> "fact", dimensions |-> dimensions] : dimensions \in BOOLEAN}
  \cup {Note(TRUE, FALSE, "a"), Note(FALSE, FALSE, "a"), Note(TRUE, TRUE, "b"),
        [event |-> "info"], ListItem(1, FALSE), Heading(1)}

MCVocabularies == {Sections, Lists, Tables, Citing, Instance}

=============================================================================
