------------------------------ MODULE CellRow -------------------------------
(***************************************************************************)
(* A line of the terminal (src/internal/xterm/bufferline.go): a row of     *)
(* cells and whether it continues the line above.  A cell is its           *)
(* characters (the base one and those combined with it), its width -- 2    *)
(* for a wide character, 0 for the place beside it -- and whether it is    *)
(* protected.  Colours and styles are left out here.  Positions count from *)
(* 0.                                                                      *)
(***************************************************************************)
EXTENDS BoundedList

Blank(p) == [ch |-> <<>>, w |-> 1, p |-> p]
Half(p) == [ch |-> <<>>, w |-> 0, p |-> p]

Blanks(n, p) == Listed([i \in 1..n |-> Blank(p)])

BlankLine(n, wr) == [cells |-> Blanks(n, FALSE), wr |-> wr]

IsHalf(c) == c.w = 0 /\ c.ch = <<>>

\* A wide character at i loses its second cell: a blank takes its place.
Halved(cells, i, p) ==
  IF i >= 0 /\ cells[i + 1].w = 2 THEN [cells EXCEPT ![i + 1] = Blank(p)] ELSE cells

InsertCells(cells, pos, n, p) ==
  LET size == Len(cells)
      at == pos % size
      left == Halved(cells, at - 1, p)
      moved == SubSeq(left, 1, at) \o Blanks(n, p) \o SubSeq(left, at + 1, size)
  IN Halved(SubSeq(moved, 1, size), size - 1, p)

DeleteCells(cells, pos, n) ==
  LET size == Len(cells)
      at == pos % size
      kept == SubSeq(cells, 1, at) \o SubSeq(cells, at + n + 1, size)
      whole == Halved(kept \o Blanks(size - Len(kept), FALSE), at - 1, FALSE)
  IN IF IsHalf(whole[at + 1]) THEN [whole EXCEPT ![at + 1] = Blank(FALSE)] ELSE whole

\* Mutant of ReplaceCells: a wide character cut at the start keeps its first cell.
ReplaceCellsCutting(cells, start, end, respect) ==
  Listed([i \in DOMAIN cells |->
    IF i - 1 \in start..(end - 1) /\ (~respect \/ ~cells[i].p) THEN Blank(FALSE) ELSE cells[i]])

\* Cells start..end-1 are erased, the protected ones not if the caller respects
\* them; a wide character cut at either end goes as a whole.
ReplaceCells(cells, start, end, respect) ==
  LET free(i) == ~respect \/ ~cells[i + 1].p
      first == IF start > 0 /\ free(start - 1) THEN Halved(cells, start - 1, FALSE) ELSE cells
      both == IF end < Len(cells) /\ first[end].w = 2 /\ free(end)
                THEN [first EXCEPT ![end + 1] = Blank(FALSE)] ELSE first
  IN Listed([i \in DOMAIN cells |->
       IF i - 1 \in start..(end - 1) /\ free(i - 1) THEN Blank(FALSE) ELSE both[i]])

Fill(cells, cell, respect) ==
  Listed([i \in DOMAIN cells |-> IF respect /\ cells[i].p THEN cells[i] ELSE cell])

\* A further character of a cell; an empty cell becomes it.
AddCodepointToCell(cells, i, ch, w) ==
  LET cell == cells[i + 1] IN [cells EXCEPT ![i + 1] = [cell EXCEPT !.ch = Append(@, ch), !.w = w]]

ResizeCells(cells, n) ==
  IF n <= Len(cells) THEN SubSeq(cells, 1, n) ELSE cells \o Blanks(n - Len(cells), FALSE)

\* Columns up to the last character, its second cell included.
TrimmedLength(cells) ==
  LET used == {i \in DOMAIN cells : cells[i].ch # <<>>}
      last == CHOOSE i \in used : \A j \in used : j <= i
  IN IF used = {} THEN 0 ELSE last - 1 + cells[last].w
=============================================================================
