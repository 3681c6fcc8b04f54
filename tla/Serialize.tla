----------------------------- MODULE Serialize ------------------------------
(***************************************************************************)
(* The screen written out as text and control sequences that draw it again *)
(* (src/internal/xterm/serialize_addon.go), as the daemon does for a       *)
(* client that wants the history (src/cmd/claw/terminal.go).  A sequence   *)
(* is a record of its name op and its numbers n, m, or the characters s.   *)
(* Everything has the default style here.                                  *)
(***************************************************************************)
EXTENDS Screen

CONSTANT Dash  \* the character a forced line break is written with

Tok(op, n) == <<[op |-> op, s |-> <<>>, n |-> n, m |-> 0]>>
TextTok(s) == <<[op |-> "text", s |-> s, n |-> 0, m |-> 0]>>
Break == <<[op |-> "return", s |-> <<>>, n |-> 0, m |-> 0], [op |-> "feed", s |-> <<>>, n |-> 0, m |-> 0]>>

\* h is the serializer: out, the rows written with their separators; row, the
\* current one; nulls, the blanks not written yet; and where the last thing
\* written leaves the cursor, <<row, column>>: content, the last that is text or
\* a forced break, and at, the last of all.
NextCell(h, y, col, c) ==
  IF c.w = 0 THEN h
  ELSE IF c.ch = <<>> THEN [h EXCEPT !.nulls = @ + c.w]
  ELSE LET gap == IF h.nulls > 0 THEN Tok("forward", h.nulls) ELSE <<>>
           end == <<y, col + c.w>>
       IN [h EXCEPT !.row = @ \o gap \o TextTok(c.ch), !.nulls = 0, !.content = end, !.at = end]

\* Whether the text by itself goes on in the next row: it does unless the margin
\* is blank, but for the one blank before a wide character.
WrapsItself(line, next, nulls) ==
  LET c == line.cells n == Len(c) wide == next.cells[1].w > 1
      filled(i) == c[i].ch # <<>> \/ c[i].w = 0
  IN /\ next.cells[1].ch # <<>>
     /\ nulls <= (IF wide THEN 1 ELSE 0)
     /\ filled(n) \/ (wide /\ filled(n - 1))

\* A break that is forced: dashes up to the next row, all erased again.
ForceWrap(n, nulls) ==
  TextTok([i \in 1..(nulls + 1) |-> Dash]) \o Tok("backward", 1) \o Tok("erase", 1) \o
  IF nulls = 0 THEN <<>>
  ELSE Tok("up", 1) \o Tok("forward", n - nulls) \o Tok("erase", nulls) \o
       Tok("backward", n - nulls) \o Tok("down", 1)

\* Mutant of RowEnd: every row ends in a line break.
RowEndBreaks(h, b, y) ==
  [h EXCEPT !.out = Append(@, [row |-> h.row, sep |-> Break]), !.row = <<>>, !.nulls = 0, !.at = <<y + 1, 0>>]

RowEnd(h, b, y) ==
  LET line == b.lines[y + 1] next == b.lines[y + 2] end == <<y + 1, 0>>
      forced == y + 1 < Len(b.lines) /\ next.wr /\ ~WrapsItself(line, next, h.nulls)
      broken == y + 1 < Len(b.lines) /\ ~next.wr
      sep == IF broken THEN Break ELSE IF forced THEN ForceWrap(Len(line.cells), h.nulls) ELSE <<>>
  IN [h EXCEPT !.out = Append(@, [row |-> h.row, sep |-> sep]), !.row = <<>>, !.nulls = 0,
               !.at = IF broken \/ forced THEN end ELSE @,
               !.content = IF forced THEN end ELSE @]

\* How the cursor gets from where the text left it to where it is.
CursorToks(b, at) ==
  LET dy == b.ybase + b.y - at[1]
      dx == b.x - at[2]
  IN (IF dy > 0 THEN Tok("down", dy) ELSE IF dy < 0 THEN Tok("up", -dy) ELSE <<>>) \o
     (IF dx > 0 THEN Tok("forward", dx) ELSE IF dx < 0 THEN Tok("backward", -dx) ELSE <<>>)

\* The lines from the one at first on.
RowsFrom(t, b, first) ==
  LET start == [out |-> <<>>, row |-> <<>>, nulls |-> 0, content |-> <<0, 0>>, at |-> <<0, 0>>]
      cells(h, y) == FoldLeft(LAMBDA g, i : NextCell(g, y, i - 1, b.lines[y + 1].cells[i]), h,
                              [i \in 1..LeastOf(t.cols, Len(b.lines[y + 1].cells)) |-> i])
  IN FoldLeft(LAMBDA g, y : RowEnd(cells(g, y - 1), b, y - 1), start,
              [i \in 1..(Len(b.lines) - first) |-> first + i])

\* Mutant of SerializeRows: only the screen.
SerializeScreen(t, b) == RowsFrom(t, b, b.ybase)
SerializeRows(t, b) == RowsFrom(t, b, 0)

\* Without history the blank rows at the end are left out.
SerializeString(h, b, short) ==
  LET rows == IF short THEN LeastOf(h.content[1] + 1, Len(h.out)) ELSE Len(h.out)
      part(i) == h.out[i].row \o (IF i < rows THEN h.out[i].sep ELSE <<>>)
  IN FlattenSeq([i \in 1..rows |-> part(i)]) \o CursorToks(b, IF short THEN h.content ELSE h.at)

SerializeBuffer(t, b) == SerializeString(SerializeRows(t, b), b, Len(b.lines) <= t.rows)

SerializeModes(t) ==
  LET mode(on, op) == IF on THEN Tok(op, 0) ELSE <<>> IN
  mode(t.ins, "insert") \o mode(t.origin, "origin") \o mode(t.rev, "reverse") \o mode(~t.wrap, "nowrap")

SerializeScrollRegion(t) ==
  LET b == Buf(t) IN
  IF b.top = 0 /\ b.bot = t.rows - 1 THEN <<>>
  ELSE <<[op |-> "region", s |-> <<>>, n |-> b.top + 1, m |-> b.bot + 1]>>

\* Serialize with no options, as the daemon calls it.
SerializeTerm(t) ==
  SerializeBuffer(t, t.nb) \o
  (IF t.alt THEN Tok("alt", 0) \o Tok("home", 0) \o SerializeBuffer(t, t.ab) ELSE <<>>) \o
  SerializeModes(t) \o SerializeScrollRegion(t)

----------------------------------------------------------------------------

\* What a terminal does with one of them; each one but text is dispatched.
RunTok(t, k) ==
  LET done == CASE k.op = "forward" -> CursorForward(t, k.n)
                [] k.op = "backward" -> CursorBackward(t, k.n)
                [] k.op = "up" -> CursorUp(t, k.n)
                [] k.op = "down" -> CursorDown(t, k.n)
                [] k.op = "erase" -> EraseChars(t, k.n)
                [] k.op = "return" -> CarriageReturn(t)
                [] k.op = "feed" -> LineFeed(t)
                [] k.op = "alt" -> AltScreen(t)
                [] k.op = "home" -> SetCursor(t, 0, 0)
                [] k.op = "insert" -> InsertMode(t, TRUE)
                [] k.op = "origin" -> OriginMode(t, TRUE)
                [] k.op = "reverse" -> ReverseWraparound(t, TRUE)
                [] k.op = "nowrap" -> Wraparound(t, FALSE)
                [] k.op = "region" -> SetScrollRegion(t, k.n, k.m)
  IN IF k.op = "text" THEN PrintText(t, k.s) ELSE [done EXCEPT !.join = 0]

\* The text of neighbouring cells is printed cell by cell here, and as one run in
\* the code: RunsJoin says that this leaves the same screen.
Replay(toks, cols, rows) == FoldLeft(RunTok, Fresh(cols, rows), toks)

\* ReadAt: through a terminal of the client's size.
ReadAt(t, cols, rows) == SerializeTerm(Replay(SerializeTerm(t), cols, rows))
=============================================================================
