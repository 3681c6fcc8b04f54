------------------------------- MODULE Reflow -------------------------------
(***************************************************************************)
(* A buffer of the terminal is given another size (src/internal/xterm/     *)
(* buffer.go, bufferreflow.go): rows are added or given up, lines that     *)
(* were broken at the right margin are broken again at the new one.  A     *)
(* buffer b is a record: lines, their greatest number max, the first line  *)
(* of the screen ybase and of the view ydisp, the cursor x y, the scroll   *)
(* region top bot, the saved cursor sx sy, and back, the lines of history  *)
(* it may keep (no buffer without history reflows).                        *)
(***************************************************************************)
EXTENDS CellRow

LeastOf(m, n) == IF m < n THEN m ELSE n
MostOf(m, n) == IF m > n THEN m ELSE n

\* A loop of n rounds, and one over the elements of s.
Times(n, f(_), v) ==
  LET at[k \in 0..n] == IF k = 0 THEN v ELSE f(at[k - 1]) IN IF n > 0 THEN at[n] ELSE v
Along(s, f(_, _), v) ==
  LET at[k \in 0..Len(s)] == IF k = 0 THEN v ELSE f(at[k - 1], s[k]) IN at[Len(s)]

SetCells(row, cells) == [row EXCEPT !.cells = cells]

\* The columns of line i of a wrapped group w that belong to its text: one less
\* where a wide character did not fit and went to the next line.
WrappedTrimmedLength(w, i, cols) ==
  LET c == w[i].cells IN
  IF i = Len(w) THEN TrimmedLength(c)
  ELSE IF c[cols] = [Blank(FALSE) EXCEPT !.p = c[cols].p] /\ w[i + 1].cells[1].w = 2
    THEN cols - 1 ELSE cols

\* The text of a group as one run of cells.
Run(w, cols) ==
  LET add(run, i) == run \o SubSeq(w[i].cells, 1, WrappedTrimmedLength(w, i, cols))
  IN Along([i \in 1..Len(w) |-> i], add, <<>>)

\* The lines, each with those that continue it.
Groups(lines) ==
  LET add(g, r) == IF g # <<>> /\ r.wr THEN Append(Front(g), Append(Last(g), r)) ELSE Append(g, <<r>>)
  IN Along(lines, add, <<>>)

----------------------------------------------------------------------------
(* More columns. *)

\* Cell by cell into lines of cols; a wide character does not straddle two.
LayCell(acc, c, cols) ==
  LET row == Append(acc.row, c) IN
  IF Len(row) < cols THEN [acc EXCEPT !.row = row]
  ELSE IF c.w = 2
    THEN [rows |-> Append(acc.rows, Append(Front(row), Blank(FALSE))), row |-> <<c>>]
    ELSE [rows |-> Append(acc.rows, row), row |-> <<>>]

\* What a group becomes: as many of its lines as its text still fills.
Joined(w, old, cols) ==
  LET lay(acc, c) == LayCell(acc, c, cols)
      laid == Along(Run(w, old), lay, [rows |-> <<>>, row |-> <<>>])
      last == ReplaceCells(ResizeCells(laid.row, cols), Len(laid.row), cols, FALSE)
      rows == Append(laid.rows, last)
      needed == {i \in DOMAIN rows : i = 1 \/ TrimmedLength(rows[i]) > 0}
      n == CHOOSE i \in needed : \A j \in needed : j <= i
  IN Listed([i \in 1..n |-> SetCells(w[i], rows[i])])

\* One line fewer: the view moves up, or a line is added below.
OneRemoved(b, cols, rows) ==
  IF b.ybase = 0
    THEN [b EXCEPT !.y = MostOf(@ - 1, 0),
                   !.lines = IF Len(@) < rows THEN Append(@, BlankLine(cols, FALSE)) ELSE @]
    ELSE [b EXCEPT !.ybase = @ - 1, !.ydisp = IF @ = b.ybase THEN @ - 1 ELSE @]

\* The cursor's own group stays as it is.
ReflowLarger(b, old, cols, rows) ==
  LET cursor == b.ybase + b.y
      step(acc, w) ==
        LET here == cursor \in acc.at..(acc.at + Len(w) - 1)
        IN [at |-> acc.at + Len(w),
            out |-> acc.out \o (IF Len(w) = 1 \/ here THEN w ELSE Joined(w, old, cols))]
      out == Along(Groups(b.lines), step, [at |-> 0, out |-> <<>>]).out
      removed == Len(b.lines) - Len(out)
      one(v) == OneRemoved(v, cols, rows)
      after == Times(removed, one, [b EXCEPT !.lines = out])
  IN [after EXCEPT !.sy = MostOf(@ - removed, 0)]

----------------------------------------------------------------------------
(* Fewer columns. *)

\* How long each new line of a group is: one less where it would end inside a
\* wide character.  left is the text still to be placed.
NewLineLengths(run, cols) ==
  LET place(acc, i) ==
        IF acc.at >= Len(run) THEN acc
        ELSE IF Len(run) - acc.at < cols
          THEN [at |-> Len(run), lens |-> Append(acc.lens, Len(run) - acc.at)]
          ELSE LET n == IF run[acc.at + cols].w = 2 THEN cols - 1 ELSE cols
               IN [at |-> acc.at + n, lens |-> Append(acc.lens, n)]
  IN Along(run, place, [at |-> 0, lens |-> <<>>]).lens

\* What a group becomes.  Where a line is not filled one cell is blanked; what
\* the line held beyond stays.
Broken(w, run, lens, old, cols) ==
  LET upto[k \in 0..Len(lens)] == IF k = 0 THEN 0 ELSE upto[k - 1] + lens[k]
      line(k) == IF k <= Len(w) THEN w[k] ELSE BlankLine(old, TRUE)
      cell(k, i) == IF i <= lens[k] THEN run[upto[k - 1] + i]
                    ELSE IF i = lens[k] + 1 /\ lens[k] < cols THEN Blank(FALSE)
                    ELSE line(k).cells[i]
  IN Listed([k \in DOMAIN lens |-> SetCells(line(k), Listed([i \in DOMAIN line(k).cells |-> cell(k, i)]))])

\* One line more: the cursor moves down and the last line is given up, or the
\* screen moves down in the list.  len is the list's length and added what will
\* be inserted.
OneAdded(v, max, rows) ==
  IF v.ybase = 0 /\ v.y < rows - 1 THEN [v EXCEPT !.y = @ + 1, !.len = @ - 1]
  ELSE IF v.ybase = 0 THEN [v EXCEPT !.ybase = 1, !.ydisp = @ + 1]
  ELSE IF v.ybase < LeastOf(max, v.len + v.added) - rows
    THEN [v EXCEPT !.ybase = @ + 1, !.ydisp = IF @ = v.ybase THEN @ + 1 ELSE @]
  ELSE v

\* The groups from the last to the first.  A group that breaks keeps its lines
\* and is followed by new ones; ok says that no index went out of a line and no
\* negative number of lines was asked for, as of a group without text.
BreakGroup(v, w, old, cols, rows, max) ==
  LET y == v.at - Len(w)
      run == Run(w, old)
      skip == \/ ~w[1].wr /\ Len(w) = 1 /\ TrimmedLength(w[1].cells) <= cols
              \/ v.ybase + v.y \in y..(v.at - 1)
      lens == NewLineLengths(run, cols)
      more == Len(lens) - Len(w)
      trimmed == MostOf(0, more - max + (IF v.ybase = 0 /\ v.y # v.len - 1 THEN v.y ELSE v.len))
      one(u) == OneAdded(u, max, rows)
      moved == Times(more - trimmed, one, [v EXCEPT !.added = @ + more])
  IN IF skip THEN [v EXCEPT !.at = y, !.out = <<[old |-> w, new |-> <<>>]>> \o @]
     ELSE IF TrimmedLength(Last(w).cells) > old \/ more < 0
       THEN [v EXCEPT !.ok = FALSE]
     ELSE LET rowsOf == Broken(w, run, lens, old, cols) IN
          [moved EXCEPT !.at = y, !.sy = LeastOf(@ + more, moved.ybase + rows - 1),
             !.out = <<[old |-> SubSeq(rowsOf, 1, Len(w)), new |-> SubSeq(rowsOf, Len(w) + 1, Len(lens))]>> \o @]

\* The lines that were given up come off the end of the old ones, whatever they
\* hold; the new ones are inserted where their group was.
Inserted(b, v) ==
  LET place(acc, g) == [at |-> acc.at + Len(g.old),
                        out |-> acc.out \o ListAtMost(g.old, MostOf(v.len - acc.at, 0)) \o g.new]
      all == Along(v.out, place, [at |-> 0, out |-> <<>>]).out
  IN [ok |-> v.ok,
      b |-> [b EXCEPT !.lines = Newest(all, b.max), !.y = v.y, !.ybase = v.ybase,
                      !.ydisp = v.ydisp, !.sy = v.sy]]

ReflowSmaller(b, old, cols, rows) ==
  LET start == [at |-> Len(b.lines), len |-> Len(b.lines), added |-> 0, out |-> <<>>, ok |-> TRUE,
                y |-> b.y, ybase |-> b.ybase, ydisp |-> b.ydisp, sy |-> b.sy]
      break(acc, w) == IF acc.ok THEN BreakGroup(acc, w, old, cols, rows, b.max) ELSE acc
  IN Inserted(b, Along(Reverse(Groups(b.lines)), break, start))

----------------------------------------------------------------------------
(* Rows, then columns. *)

\* One row more: history comes back below the cursor, or a line is added.
OneRowMore(b, cols, rows) ==
  IF Len(b.lines) >= rows + b.ybase THEN b
  ELSE IF b.ybase > 0 /\ Len(b.lines) <= b.ybase + b.y + b.down + 1
    THEN [b EXCEPT !.ybase = @ - 1, !.down = @ + 1, !.ydisp = MostOf(@ - 1, 0)]
    ELSE [b EXCEPT !.lines = ListPush(@, b.max, BlankLine(cols, FALSE))]

\* One row less: a line below the cursor is given up, or the screen moves down.
OneRowLess(b, rows) ==
  IF Len(b.lines) <= rows + b.ybase THEN b
  ELSE IF Len(b.lines) > b.ybase + b.y + 1 THEN [b EXCEPT !.lines = Front(@)]
  ELSE [b EXCEPT !.ybase = @ + 1, !.ydisp = @ + 1]

\* b.down counts the rows by which the cursor moves down.
ResizeRows(b, oldRows, cols, rows) ==
  LET more(v) == OneRowMore(v, cols, rows)
      less(v) == OneRowLess(v, rows)
  IN IF oldRows < rows THEN Times(rows - oldRows, more, b) ELSE Times(oldRows - rows, less, b)

\* A shorter list gives up its oldest lines.
ResizeList(b, rows) ==
  LET max == rows + b.back
      cut == MostOf(Len(b.lines) - max, 0)
  IN [b EXCEPT !.lines = ListTrim(@, cut), !.max = max, !.ybase = MostOf(@ - cut, 0),
               !.ydisp = MostOf(@ - cut, 0), !.sy = MostOf(@ - cut, 0)]

\* Mutant of Clamped: the scroll region stays as it is.
ClampedKeepsRegion(b, cols, rows) ==
  [b EXCEPT !.x = LeastOf(@, cols - 1), !.y = LeastOf(@, rows - 1) + b.down,
            !.sx = LeastOf(@, cols - 1), !.down = 0]

\* Cursor, saved cursor and scroll region on the new screen.
Clamped(b, cols, rows) ==
  [b EXCEPT !.x = LeastOf(@, cols - 1), !.y = LeastOf(@, rows - 1) + b.down,
            !.sx = LeastOf(@, cols - 1), !.top = 0, !.bot = rows - 1, !.down = 0]

Reflowed(b, old, cols, rows) ==
  IF b.back = 0 \/ cols = old THEN [ok |-> TRUE, b |-> b]
  ELSE IF cols > old THEN [ok |-> TRUE, b |-> ReflowLarger(b, old, cols, rows)]
  ELSE ReflowSmaller(b, old, cols, rows)

\* The last of it: rows are cut to the new columns, the cursor to the list.
Settled(flowed, old, cols) ==
  LET b == flowed.b
      cut(r) == IF b.back > 0 /\ cols < old THEN SetCells(r, ResizeCells(r.cells, cols)) ELSE r
  IN [flowed EXCEPT !.b.lines = Listed([i \in DOMAIN @ |-> cut(@[i])]),
                    !.b.y = LeastOf(@, MostOf(0, Len(b.lines) - b.ybase - 1))]

\* The whole of Buffer.Resize.  A buffer without lines only learns its size.
ResizeBuffer(b, old, oldRows, cols, rows) ==
  LET wide(r) == IF old < cols THEN SetCells(r, ResizeCells(r.cells, cols)) ELSE r
      room == [b EXCEPT !.max = MostOf(@, rows + b.back),
                        !.lines = Listed([i \in DOMAIN @ |-> wide(@[i])])]
      sized == ResizeList(ResizeRows(room, oldRows, cols, rows), rows)
  IN IF b.lines = <<>> THEN [ok |-> TRUE, b |-> [b EXCEPT !.bot = rows - 1, !.max = rows + b.back]]
     ELSE Settled(Reflowed(Clamped(sized, cols, rows), old, cols, rows), old, cols)
=============================================================================
