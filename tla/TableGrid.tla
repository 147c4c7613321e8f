------------------------------ MODULE TableGrid ------------------------------
(***************************************************************************)
(* How document_fold lays one wire row into a table's grid (on_table_row). *)
(* The wire has each cell once, with its spans; the fold finds the columns *)
(* from the slots that cells of earlier rows span into.  A table's grid is *)
(* the sequence of its rows, each the sequence of its cells; rows and      *)
(* columns count from zero, as in the code.                                *)
(***************************************************************************)
EXTENDS Integers, Sequences, SequencesExt

WireCell == [rows : Nat, cols : Nat]   \* a span of 0 is a span the source left out

AtLeastOne(span) == IF span = 0 THEN 1 ELSE span

(* The first column from `column' on that no earlier cell spans into. *)
FirstFree(occupied, row, column) ==
  Min({c \in column..(column + Cardinality(occupied)) : <<row, c>> \notin occupied})

(* Fault: a cell that spans both ways is charged for neither arm. *)
CornerSlots(rows, cols) == (rows - 1) * (cols - 1)

(* The slots a cell takes beyond its own. *)
SpanSlots(rows, cols) == rows * cols - 1

(* Lay one cell: `laid' is what the loop over a row's cells carries. *)
LayCell(laid, cell) ==
  LET start == FirstFree(laid.occupied, laid.row, laid.column)
      extra == SpanSlots(AtLeastOne(cell.rows), AtLeastOne(cell.cols))
      affordable == extra <= laid.left
      rows == IF affordable THEN AtLeastOne(cell.rows) ELSE 1
      cols == IF affordable THEN AtLeastOne(cell.cols) ELSE 1
      endRow == laid.row + rows
      endCol == start + cols
  IN [laid EXCEPT
        !.occupied = @ \cup ((laid.row..(endRow - 1)) \X (start..(endCol - 1))),
        !.column = endCol,
        !.left = IF affordable THEN @ - extra ELSE @,
        !.width = IF endCol > @ THEN endCol ELSE @,
        !.cells = Append(@, [row |-> laid.row, column |-> start,
                             endRow |-> endRow, endColumn |-> endCol])]

(* Fault: the row about to be laid is forgotten with those before it. *)
PrunedEarly(occupied, row) == {slot \in occupied : slot[1] > row}

(* The slots that rows from `row' on may still meet. *)
Pruned(occupied, row) == {slot \in occupied : slot[1] >= row}

(* Lay a row of wire cells under the rows of `grid'; `left' is what the    *)
(* document's spans may still claim.                                       *)
LayRow(grid, occupied, width, left, cells) ==
  FoldLeft(LayCell,
           [row |-> Len(grid), column |-> 0,
            occupied |-> Pruned(occupied, Len(grid)),
            width |-> width, left |-> left, cells |-> <<>>],
           cells)

-----------------------------------------------------------------------------
(* What a grid should be, said of the cells alone.                         *)

CoversSlot(cell, row, column) ==
  /\ cell.row <= row /\ row < cell.endRow
  /\ cell.column <= column /\ column < cell.endColumn

(* Cell j of row i comes after cell l of row k. *)
Earlier(k, l, i, j) == k < i \/ (k = i /\ l < j)

CoveredBefore(grid, i, j, row, column) ==
  \E k \in 1..i : \E l \in DOMAIN grid[k] :
    Earlier(k, l, i, j) /\ CoversSlot(grid[k][l], row, column)

ExtraSlots(cell) ==
  (cell.endRow - cell.row) * (cell.endColumn - cell.column) - 1

(* No cell starts in a slot an earlier one covers, and every slot to the   *)
(* left of a cell is covered: each cell has the first column it could have.*)
Packed(grid) ==
  \A i \in DOMAIN grid : \A j \in DOMAIN grid[i] :
    LET cell == grid[i][j]
    IN /\ cell.row = i - 1
       /\ ~CoveredBefore(grid, i, j, cell.row, cell.column)
       /\ \A column \in 0..(cell.column - 1) :
            CoveredBefore(grid, i, j, cell.row, column)

(* The width a reader allots holds every cell, and some cell reaches it. *)
Fits(grid, width) ==
  LET ends == {0} \cup UNION {{grid[i][j].endColumn : j \in DOMAIN grid[i]}
                              : i \in DOMAIN grid}
  IN width = Max(ends)

=============================================================================
