------------------------------- MODULE Screen -------------------------------
(***************************************************************************)
(* What the terminal does with text and control sequences                  *)
(* (src/internal/xterm/inputhandler.go and its _c0, _csi, _esc parts,      *)
(* bufferservice.go, bufferset.go, buffer.go).  A terminal t is a record:  *)
(* its size, whether the user has scrolled up (usr), the two buffers and   *)
(* which one is shown, the modes that move text, whether characters are    *)
(* written protected, the width of the character a combining one would     *)
(* join (join, 0 after any control sequence), and panic: an index went out of a  *)
(* line, which nothing recovers while text is printed and its caller       *)
(* recovers, half done, while the size changes.                            *)
(***************************************************************************)
EXTENDS Reflow, FiniteSets

CONSTANTS
  Wide, Combining,  \* characters of two columns and of none; all others take one
  Scrollback,       \* lines of history of the normal buffer
  TabStopWidth,
  Aligned           \* the character that fills the screen in a screen alignment

ASSUME ScreenAssumption == Scrollback \in Nat /\ TabStopWidth \in Nat \ {0}

Width(c) == IF c \in Wide THEN 2 ELSE IF c \in Combining THEN 0 ELSE 1

Stops(cols) == {i \in 0..(cols - 1) : i % TabStopWidth = 0}

\* A buffer before its rows are filled in.
EmptyBuffer(cols, rows, back) ==
  [lines |-> <<>>, max |-> rows + back, ybase |-> 0, ydisp |-> 0, x |-> 0, y |-> 0,
   top |-> 0, bot |-> rows - 1, tabs |-> Stops(cols), back |-> back, down |-> 0,
   sx |-> 0, sy |-> 0, so |-> FALSE, sw |-> TRUE, sp |-> FALSE]

FillRows(b, cols, rows) ==
  IF b.lines = <<>> THEN [b EXCEPT !.lines = Listed([i \in 1..rows |-> BlankLine(cols, FALSE)])] ELSE b

Fresh(cols, rows) ==
  [cols |-> cols, rows |-> rows, usr |-> FALSE, alt |-> FALSE,
   nb |-> FillRows(EmptyBuffer(cols, rows, Scrollback), cols, rows),
   ab |-> EmptyBuffer(cols, rows, 0),
   ins |-> FALSE, wrap |-> TRUE, origin |-> FALSE, rev |-> FALSE, eol |-> FALSE,
   prot |-> FALSE, join |-> 0, panic |-> "none"]

Buf(t) == IF t.alt THEN t.ab ELSE t.nb
Put(t, b) == IF t.alt THEN [t EXCEPT !.ab = b] ELSE [t EXCEPT !.nb = b]

Row(b, y) == b.lines[b.ybase + y + 1]
SetRow(b, y, row) == [b EXCEPT !.lines[b.ybase + y + 1] = row]
Rewrite(b, y, cells) == SetRow(b, y, SetCells(Row(b, y), cells))

\* The list is asked for line i counted from its start; past its end it answers
\* with a line from its start once it is full.
Unwrap(b, i) ==
  LET k == i % b.max IN
  IF k < Len(b.lines) THEN [b EXCEPT !.lines[k + 1] = [@ EXCEPT !.wr = FALSE]] ELSE b

----------------------------------------------------------------------------
(* The cursor. *)

Clamp(n, low, high) == MostOf(LeastOf(n, high), low)

Restricted(t, b, right) ==
  [b EXCEPT !.x = Clamp(@, 0, right),
            !.y = IF t.origin THEN Clamp(@, b.top, b.bot) ELSE Clamp(@, 0, t.rows - 1)]

Here(t) == Restricted(t, Buf(t), t.cols - 1)

Placed(t, b, x, y) ==
  Restricted(t, [b EXCEPT !.x = x, !.y = IF t.origin THEN b.top + y ELSE y], t.cols - 1)

SetCursor(t, x, y) == Put(t, Placed(t, Buf(t), x, y))
MoveCursor(t, dx, dy) == LET b == Here(t) IN Put(t, Placed(t, b, b.x + dx, b.y + dy))

CursorUp(t, n) ==
  LET room == Buf(t).y - Buf(t).top IN MoveCursor(t, 0, -(IF room >= 0 THEN LeastOf(room, n) ELSE n))
CursorDown(t, n) ==
  LET room == Buf(t).bot - Buf(t).y IN MoveCursor(t, 0, IF room >= 0 THEN LeastOf(room, n) ELSE n)
CursorForward(t, n) == MoveCursor(t, n, 0)
CursorBackward(t, n) == MoveCursor(t, -n, 0)
CursorCharAbsolute(t, n) == SetCursor(t, n - 1, Buf(t).y)
LinePosAbsolute(t, n) == SetCursor(t, Buf(t).x, n - 1)
VPositionRelative(t, n) == MoveCursor(t, 0, n)
CarriageReturn(t) == Put(t, [Buf(t) EXCEPT !.x = 0])

NextStop(b, x, cols) ==
  LET ahead == {i \in (x + 1)..(cols - 1) : i \in b.tabs}
  IN IF ahead = {} THEN cols - 1 ELSE CHOOSE i \in ahead : \A j \in ahead : i <= j
PrevStop(b, x, cols) ==
  LET behind == {i \in 1..(x - 1) : i \in b.tabs}
      at == IF behind = {} THEN 0 ELSE CHOOSE i \in behind : \A j \in behind : j <= i
  IN LeastOf(at, cols - 1)

\* Neither tab moves a cursor that waits beyond the right margin.
ForwardTab(t) ==
  LET b == Buf(t) IN IF b.x >= t.cols THEN t ELSE Put(t, [b EXCEPT !.x = NextStop(b, @, t.cols)])
BackwardTab(t) ==
  LET b == Buf(t) IN IF b.x >= t.cols THEN t ELSE Put(t, [b EXCEPT !.x = PrevStop(b, @, t.cols)])
TabSet(t) == Put(t, [Buf(t) EXCEPT !.tabs = @ \cup {Buf(t).x}])
TabClear(t) == Put(t, [Buf(t) EXCEPT !.tabs = @ \ {Buf(t).x}])
TabClearAll(t) == Put(t, [Buf(t) EXCEPT !.tabs = {}])

SaveCursor(t) ==
  LET b == Buf(t) IN
  Put(t, [b EXCEPT !.sx = b.x, !.sy = b.ybase + b.y, !.so = t.origin, !.sw = t.wrap, !.sp = t.prot])

RestoreCursor(t) ==
  LET b == Buf(t)
      m == [t EXCEPT !.origin = b.so, !.wrap = b.sw, !.prot = b.sp]
  IN Put(m, Restricted(m, [b EXCEPT !.x = b.sx, !.y = MostOf(b.sy - b.ybase, 0)], t.cols - 1))

----------------------------------------------------------------------------
(* Scrolling. *)

\* One line up.  From the top of the screen a line goes to the history, which
\* gives up its oldest one when it is full; elsewhere it is lost.  A user who has
\* scrolled up keeps the lines in view.
Scrolled(t, b, wr) ==
  LET new == BlankLine(t.cols, wr)
      bottom == b.ybase + b.bot
      full == Len(b.lines) = b.max
      base == IF b.top = 0 /\ ~full THEN b.ybase + 1 ELSE b.ybase
      lines ==
        IF b.top > 0 THEN [ListShift(b.lines, b.ybase + b.top + 1, b.bot - b.top, -1)
                             EXCEPT ![bottom + 1] = new]
        ELSE IF bottom = Len(b.lines) - 1 THEN ListPush(b.lines, b.max, new)
        ELSE ListSplice(b.lines, b.max, bottom + 1, 0, <<new>>)
  IN [b EXCEPT !.lines = lines, !.ybase = base,
               !.ydisp = IF ~t.usr THEN base ELSE IF b.top = 0 /\ full THEN MostOf(@ - 1, 0) ELSE @]

\* The cursor one line down: text goes on there ("wraps"), a line feed ends the
\* wrapping of the line ("ends"), an index leaves it alone ("keeps").
Down(t, b, mark) ==
  LET next == [b EXCEPT !.y = LeastOf(@ + 1, t.rows - 1)] IN
  CASE b.y = b.bot -> Scrolled(t, b, mark = "wraps")
    [] b.y # b.bot /\ mark = "wraps" -> SetRow(next, next.y, [Row(next, next.y) EXCEPT !.wr = TRUE])
    [] b.y # b.bot /\ mark = "ends" -> IF b.y + 1 < t.rows THEN Unwrap(next, next.ybase + next.y) ELSE next
    [] b.y # b.bot /\ mark = "keeps" -> next

LineFeed(t) ==
  LET b == [Buf(t) EXCEPT !.x = IF t.eol THEN 0 ELSE @] IN
  Put(t, [Down(t, b, "ends") EXCEPT !.x = IF @ >= t.cols THEN @ - 1 ELSE @])

Index(t) == Put(t, Restricted(t, Down(t, Here(t), "keeps"), t.cols - 1))
NextLine(t) == Index(CarriageReturn(t))

ReverseIndex(t) ==
  LET b == Here(t) IN
  IF b.y # b.top THEN Put(t, Restricted(t, [b EXCEPT !.y = @ - 1], t.cols - 1))
  ELSE Put(t, SetRow([b EXCEPT !.lines = ListShift(@, b.ybase + b.y, b.bot - b.top, 1)],
                     b.y, BlankLine(t.cols, FALSE)))

\* Mutant of MoveLines: the rows are counted from the start of the history.
MoveLinesOfHistory(t, b, n, from, to) ==
  LET one(lines) == ListSplice(ListSplice(lines, b.max, from, 1, <<>>),
                               b.max, to, 0, <<BlankLine(t.cols, FALSE)>>)
  IN [b EXCEPT !.lines = Times(n, one, @)]

\* n times, the line at row from is taken out and a blank one put in at row to.
MoveLines(t, b, n, from, to) ==
  LET one(lines) == ListSplice(ListSplice(lines, b.max, b.ybase + from, 1, <<>>),
                               b.max, b.ybase + to, 0, <<BlankLine(t.cols, FALSE)>>)
  IN [b EXCEPT !.lines = Times(n, one, @)]

InRegion(b) == b.y \in b.top..b.bot

InsertLines(t, n) ==
  LET b == Here(t) IN
  Put(t, IF InRegion(b) THEN [MoveLines(t, b, n, b.bot, b.y) EXCEPT !.x = 0] ELSE b)
DeleteLines(t, n) ==
  LET b == Here(t) IN
  Put(t, IF InRegion(b) THEN [MoveLines(t, b, n, b.y, b.bot) EXCEPT !.x = 0] ELSE b)
ScrollUp(t, n) == LET b == Buf(t) IN Put(t, MoveLines(t, b, n, b.top, b.bot))
ScrollDown(t, n) == LET b == Buf(t) IN Put(t, MoveLines(t, b, n, b.bot, b.top))

\* Every line of the scroll region gets its cells from rows, if the cursor is inside.
ShiftColumns(t, rows) ==
  LET b == Buf(t)
      region == (b.ybase + b.top + 1)..(b.ybase + b.bot + 1)
  IN IF ~InRegion(b) THEN t
     ELSE Put(t, [b EXCEPT !.lines = Listed([i \in DOMAIN @ |->
            IF i \in region THEN [cells |-> rows[i], wr |-> FALSE] ELSE @[i]])])

RowsDeleting(b, at, n) == [i \in DOMAIN b.lines |-> DeleteCells(b.lines[i].cells, at, n)]
RowsInserting(b, at, n) == [i \in DOMAIN b.lines |-> InsertCells(b.lines[i].cells, at, n, FALSE)]

ScrollLeft(t, n) == ShiftColumns(t, RowsDeleting(Buf(t), 0, n))
ScrollRight(t, n) == ShiftColumns(t, RowsInserting(Buf(t), 0, n))
InsertColumns(t, n) == ShiftColumns(t, RowsInserting(Buf(t), Buf(t).x, n))
DeleteColumns(t, n) == ShiftColumns(t, RowsDeleting(Buf(t), Buf(t).x, n))

\* The view of a user who scrolls.
ScrollLines(t, d) ==
  LET b == Buf(t) IN
  IF d < 0 /\ b.ydisp = 0 THEN t
  ELSE Put([t EXCEPT !.usr = IF d < 0 THEN TRUE ELSE IF d + b.ydisp >= b.ybase THEN FALSE ELSE @],
           [b EXCEPT !.ydisp = Clamp(@ + d, 0, b.ybase)])
ScrollReset(t) == Put([t EXCEPT !.usr = FALSE], [Buf(t) EXCEPT !.ydisp = Buf(t).ybase])

----------------------------------------------------------------------------
(* Erasing and shifting inside a line. *)

EraseCells(b, y, start, end, clear, respect) ==
  SetRow(b, y, [cells |-> ReplaceCells(Row(b, y).cells, start, end, respect),
                wr |-> Row(b, y).wr /\ ~clear])

ResetRows(b, rows, respect) ==
  [b EXCEPT !.lines = Listed([i \in DOMAIN @ |->
     IF i - 1 - b.ybase \in rows
       THEN [cells |-> Fill(@[i].cells, Blank(FALSE), respect), wr |-> FALSE] ELSE @[i]])]

\* Both leave the cursor beyond the right margin if it is there.
Erasable(t) == Restricted(t, Buf(t), t.cols)

EraseBelow(t, respect) ==
  LET b == Erasable(t) IN
  Put(t, ResetRows(EraseCells(b, b.y, b.x, t.cols, b.x = 0, respect), (b.y + 1)..(t.rows - 1), respect))
EraseAbove(t, respect) ==
  LET b == Erasable(t)
      left == EraseCells(b, b.y, 0, b.x + 1, TRUE, respect)
      next == IF b.x + 1 >= t.cols THEN Unwrap(left, b.ybase + b.y + 1) ELSE left
  IN Put(t, ResetRows(next, 0..(b.y - 1), respect))
EraseAll(t, respect) == Put(t, ResetRows(Erasable(t), 0..(t.rows - 1), respect))
EraseScrollback(t) ==
  LET b == Erasable(t)
      cut == MostOf(Len(b.lines) - t.rows, 0)
  IN Put(t, [b EXCEPT !.lines = ListTrim(@, cut), !.ybase = MostOf(@ - cut, 0),
                      !.ydisp = MostOf(@ - cut, 0)])

EraseRight(t, respect) ==
  LET b == Erasable(t) IN Put(t, EraseCells(b, b.y, b.x, t.cols, b.x = 0, respect))
EraseLeft(t, respect) ==
  LET b == Erasable(t) IN Put(t, EraseCells(b, b.y, 0, b.x + 1, FALSE, respect))
EraseLine(t, respect) ==
  LET b == Erasable(t) IN Put(t, EraseCells(b, b.y, 0, t.cols, TRUE, respect))

EraseChars(t, n) ==
  LET b == Here(t) IN
  Put(t, Rewrite(b, b.y, ReplaceCells(Row(b, b.y).cells, b.x, b.x + n, FALSE)))
InsertChars(t, n) ==
  LET b == Here(t) IN Put(t, Rewrite(b, b.y, InsertCells(Row(b, b.y).cells, b.x, n, FALSE)))
DeleteChars(t, n) ==
  LET b == Here(t) IN Put(t, Rewrite(b, b.y, DeleteCells(Row(b, b.y).cells, b.x, n)))

\* Rows are counted from the cursor, which origin mode has put at the top of the
\* scroll region: there the last ones are past the list's end.
AlignScreen(t) ==
  LET b == Buf(SetCursor(t, 0, 0))
      rows == {(b.ybase + b.y + i) % b.max : i \in 0..(t.rows - 1)}
      filled == [b EXCEPT !.lines = Listed([i \in DOMAIN @ |->
                  IF i - 1 \in rows
                    THEN [cells |-> Fill(@[i].cells, [ch |-> <<Aligned>>, w |-> 1, p |-> t.prot], FALSE),
                          wr |-> FALSE]
                    ELSE @[i]])]
  IN SetCursor(Put(t, filled), 0, 0)

----------------------------------------------------------------------------
(* Text. *)

\* The line below continues this one.
WrapRow(t, b) == Down(t, [b EXCEPT !.x = 0], "wraps")

\* A combining character goes into the cell before the cursor, or beside a wide
\* one's second cell into its first.
Combine(t, b, c, w) ==
  LET cells == Row(b, b.y).cells
      at == IF cells[b.x].w = 0 THEN b.x - 2 ELSE b.x - 1
  IN IF at < 0 THEN [t EXCEPT !.panic = "print"]
     ELSE Put(t, Rewrite(b, b.y, AddCodepointToCell(cells, at, c, w)))

\* (A row of the alternate buffer keeps its cells when the screen narrows.)
WriteChar(t, b, c, w) ==
  LET cells == Row(b, b.y).cells
      room == IF t.ins THEN Halved(InsertCells(cells, b.x, w, t.prot), t.cols - 1, t.prot) ELSE cells
      one == [room EXCEPT ![b.x + 1] = [ch |-> <<c>>, w |-> w, p |-> t.prot]]
      both == IF w = 2 THEN [one EXCEPT ![b.x + 2] = Half(t.prot)] ELSE one
  IN IF b.x >= Len(cells) THEN [t EXCEPT !.panic = "print"]
     ELSE Put(t, [Rewrite(b, b.y, both) EXCEPT !.x = @ + MostOf(w, 1)])

\* Mutant of PrintChar: a wide character is written at the margin.
PrintCharAtMargin(t, c) ==
  LET b == IF Buf(t).x >= t.cols THEN WrapRow(t, Buf(t)) ELSE Buf(t)
      cells == Row(b, b.y).cells
  IN Put([t EXCEPT !.join = Width(c)],
         [Rewrite(b, b.y, [cells EXCEPT ![b.x + 1] = [ch |-> <<c>>, w |-> Width(c), p |-> t.prot]])
            EXCEPT !.x = @ + 1])

\* Without wrap-around a wide character at the margin is dropped.
PrintChar(t, c) ==
  LET joins == Width(c) = 0 /\ t.join > 0
      w == IF joins THEN t.join ELSE Width(c)
      over == ~joins /\ Buf(t).x + w > t.cols
      b == IF ~over THEN Buf(t)
           ELSE IF t.wrap THEN WrapRow(t, Buf(t)) ELSE [Buf(t) EXCEPT !.x = t.cols - 1]
      m == [t EXCEPT !.join = w]
  IN IF t.panic # "none" THEN t
     ELSE IF over /\ ~t.wrap /\ w = 2 THEN Put(m, b)
     ELSE IF joins /\ b.x > 0 THEN Combine(m, b, c, w)
     ELSE WriteChar(m, b, c, w)

\* A run of text; a wide character it starts or ends inside of is blanked.  On a
\* line that is longer than the screen the cursor may have come two cells beyond
\* the margin, and a scroll may have put a line under it that is not longer.
StartWhole(t) ==
  LET b == Buf(t) cells == Row(b, b.y).cells IN
  IF b.x = 0 THEN t
  ELSE IF b.x > Len(cells) THEN [t EXCEPT !.panic = "print"]
  ELSE Put(t, Rewrite(b, b.y, Halved(cells, b.x - 1, t.prot)))
EndWhole(t) ==
  LET b == Buf(t) cells == Row(b, b.y).cells IN
  IF t.panic = "none" /\ b.x < t.cols /\ IsHalf(cells[b.x + 1])
    THEN Put(t, Rewrite(b, b.y, [cells EXCEPT ![b.x + 1] = Blank(t.prot)])) ELSE t

PrintText(t, text) ==
  IF text = <<>> THEN t ELSE EndWhole(Along(text, PrintChar, StartWhole(t)))

\* What stands where the last character began is printed n times.
RepeatChar(t, n) ==
  LET b == Buf(t)
      text == Row(b, b.y).cells[MostOf(b.x - t.join, 0) + 1].ch
  IN IF t.join = 0 THEN t ELSE PrintText(t, [i \in 1..(n * Len(text)) |-> text[((i - 1) % Len(text)) + 1]])

\* With reverse wrap-around the cursor goes back over a soft line break, and over
\* the cell that an early wrap left empty.
Backspace(t) ==
  LET b == Restricted(t, Buf(t), IF t.rev THEN t.cols ELSE t.cols - 1)
      up == [Unwrap(b, b.ybase + b.y) EXCEPT !.y = @ - 1, !.x = t.cols - 1]
      last == Row(up, up.y).cells[t.cols]
      back == IF b.x > 0 THEN [b EXCEPT !.x = @ - 1]
              ELSE IF t.rev /\ b.y > b.top /\ b.y <= b.bot /\ Row(b, b.y).wr
                THEN [up EXCEPT !.x = IF last.w # 0 /\ last.ch = <<>> THEN @ - 1 ELSE @]
              ELSE b
  IN Put(t, IF t.rev THEN Restricted(t, back, t.cols - 1) ELSE back)

----------------------------------------------------------------------------
(* Modes, buffers, size. *)

SetScrollRegion(t, top, bottom) ==
  LET bot == IF bottom \in 1..t.rows THEN bottom ELSE t.rows IN
  IF bot > top THEN SetCursor(Put(t, [Buf(t) EXCEPT !.top = top - 1, !.bot = bot - 1]), 0, 0) ELSE t

SelectProtected(t, on) == [t EXCEPT !.prot = on]
InsertMode(t, on) == [t EXCEPT !.ins = on]
ConvertEol(t, on) == [t EXCEPT !.eol = on]
Wraparound(t, on) == [t EXCEPT !.wrap = on]
ReverseWraparound(t, on) == [t EXCEPT !.rev = on]
OriginMode(t, on) == SetCursor([t EXCEPT !.origin = on], 0, 0)

\* The cursor goes along; the alternate buffer is empty whenever it is not shown.
ActivateAlt(t) ==
  IF t.alt THEN t
  ELSE [t EXCEPT !.alt = TRUE,
                 !.ab = [FillRows(@, t.cols, t.rows) EXCEPT !.x = t.nb.x, !.y = t.nb.y]]

ActivateNormal(t) ==
  IF ~t.alt THEN t
  ELSE [t EXCEPT !.alt = FALSE, !.nb.x = t.ab.x, !.nb.y = t.ab.y,
                 !.ab = [EmptyBuffer(t.cols, t.rows, 0) EXCEPT !.sx = t.ab.sx, !.sy = t.ab.sy,
                           !.so = t.ab.so, !.sw = t.ab.sw, !.sp = t.ab.sp]]

AltScreen(t) == ActivateAlt(SaveCursor(t))
NormalScreen(t) == RestoreCursor(ActivateNormal(t))

Defaults(t) ==
  [t EXCEPT !.ins = FALSE, !.wrap = TRUE, !.origin = FALSE, !.rev = FALSE, !.prot = FALSE]

\* The saved modes stay.
SoftReset(t) ==
  Put(Defaults(t), [Buf(t) EXCEPT !.top = 0, !.bot = t.rows - 1, !.sx = 0, !.sy = Buf(t).ybase,
                                  !.sp = FALSE])
FullReset(t) == [Fresh(t.cols, t.rows) EXCEPT !.eol = t.eol]

\* Stops are added from the last one on; those beyond the margin are kept.
ExtendStops(b, cols) ==
  LET from == IF cols \in b.tabs THEN cols ELSE PrevStop(b, cols, cols)
  IN [b EXCEPT !.tabs = @ \cup {i \in from..(cols - 1) : (i - from) % TabStopWidth = 0}]

\* The terminal with its buffers resized, unless one of them could not be.
Resized(t, n, a, cols, rows) ==
  IF ~n.ok \/ ~a.ok THEN [t EXCEPT !.panic = "resize"]
  ELSE [t EXCEPT !.cols = cols, !.rows = rows, !.nb = ExtendStops(n.b, cols), !.ab = ExtendStops(a.b, cols)]

Resize(t, cols, rows) ==
  IF cols = t.cols /\ rows = t.rows THEN t
  ELSE Resized(t, ResizeBuffer(t.nb, t.cols, t.rows, cols, rows),
               ResizeBuffer(t.ab, t.cols, t.rows, cols, rows), cols, rows)
=============================================================================
