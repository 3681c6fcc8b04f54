---------------------------- MODULE ScreenSteps -----------------------------
(***************************************************************************)
(* A program writes to the terminal: runs of text, and between them        *)
(* control sequences, each of which ends what a combining character could  *)
(* join.  The client may give the terminal another size or scroll its view *)
(* at any time.                                                            *)
(***************************************************************************)
EXTENDS Serialize

CONSTANTS
  Texts,        \* runs of characters that are printed at once
  Counts,       \* the numbers control sequences carry
  Sizes,        \* <<columns, rows>> the terminal is given
  TextSteps,    \* bound on runs, carriage returns and line feeds
  ControlSteps  \* bound on the other sequences

\* A screen has two columns and a row at least (bufferservice.go:7): a resize to
\* less gets that (terminal.go:103).  A number that is left out or 0 counts as 1.
ASSUME ScreenStepsAssumption ==
  /\ \A s \in Sizes : s[1] \in Nat \ {0, 1} /\ s[2] \in Nat \ {0}
  /\ Counts \subseteq Nat \ {0}
  /\ \A s \in Texts : s \in Seq({s[i] : i \in DOMAIN s})

VARIABLES
  term,
  texts, controls  \* steps so far, at most TextSteps and ControlSteps

screenVars == <<term, texts, controls>>

ScreenInit ==
  /\ \E s \in Sizes : term = Fresh(s[1], s[2])
  /\ texts = 0 /\ controls = 0

Runs == term.panic = "none"

Plain(t) == Runs /\ texts < TextSteps /\ term' = t /\ texts' = texts + 1 /\ UNCHANGED controls

\* A step without effect is not taken, lest it only use up the bound.
Control(t) ==
  /\ Runs /\ controls < ControlSteps
  /\ [t EXCEPT !.join = 0] # term
  /\ term' = [t EXCEPT !.join = 0] /\ controls' = controls + 1 /\ UNCHANGED texts

\* The client's doing; the text goes on as if nothing had happened.
Client(t) ==
  /\ Runs /\ controls < ControlSteps /\ t # term
  /\ term' = t /\ controls' = controls + 1 /\ UNCHANGED texts

Text == \E s \in Texts : Plain(PrintText(term, s))
Line == \/ Plain([LineFeed(term) EXCEPT !.join = 0])
        \/ Plain([CarriageReturn(term) EXCEPT !.join = 0])

\* Sequences that print or go to another line as text does.
Feeds ==
  \/ \E n \in Counts : Control(RepeatChar(term, n))
  \/ Control(Index(term)) \/ Control(NextLine(term))

Moves ==
  \E n \in Counts :
    \/ Control(CursorUp(term, n)) \/ Control(CursorDown(term, n))
    \/ Control(CursorForward(term, n)) \/ Control(CursorBackward(term, n))
    \/ Control(CarriageReturn(CursorUp(term, n))) \/ Control(CarriageReturn(CursorDown(term, n)))
    \/ Control(CursorCharAbsolute(term, n)) \/ Control(LinePosAbsolute(term, n))
    \/ Control(VPositionRelative(term, n))
    \/ \E m \in Counts : Control(SetCursor(term, n - 1, m - 1))

Stepwise ==
  \/ Control(ForwardTab(term)) \/ Control(BackwardTab(term)) \/ Control(Backspace(term))
  \/ Control(TabSet(term)) \/ Control(TabClear(term)) \/ Control(TabClearAll(term))
  \/ Control(ReverseIndex(term)) \/ Control(SaveCursor(term)) \/ Control(RestoreCursor(term))

Erases ==
  \E respect \in BOOLEAN :
    \/ Control(EraseBelow(term, respect)) \/ Control(EraseAbove(term, respect))
    \/ Control(EraseAll(term, respect)) \/ Control(EraseRight(term, respect))
    \/ Control(EraseLeft(term, respect)) \/ Control(EraseLine(term, respect))

Edits ==
  \E n \in Counts :
    \/ Control(EraseChars(term, n)) \/ Control(InsertChars(term, n)) \/ Control(DeleteChars(term, n))
    \/ Control(InsertLines(term, n)) \/ Control(DeleteLines(term, n))
    \/ Control(ScrollUp(term, n)) \/ Control(ScrollDown(term, n))
    \/ Control(ScrollLeft(term, n)) \/ Control(ScrollRight(term, n))
    \/ Control(InsertColumns(term, n)) \/ Control(DeleteColumns(term, n))

Sets ==
  \/ \E on \in BOOLEAN :
       \/ Control(SelectProtected(term, on)) \/ Control(InsertMode(term, on))
       \/ Control(ConvertEol(term, on)) \/ Control(Wraparound(term, on))
       \/ Control(ReverseWraparound(term, on)) \/ Control(OriginMode(term, on))
  \/ \E n \in Counts, m \in Counts \cup {0} : Control(SetScrollRegion(term, n, m))
  \/ Control(ActivateAlt(term)) \/ Control(ActivateNormal(term))
  \/ Control(AltScreen(term)) \/ Control(NormalScreen(term))
  \/ Control(SoftReset(term))

\* Steps that give up history or rewrite it, as they are meant to -- except the
\* alignment in origin mode, which is.
Resizes == \E s \in Sizes : Client(Resize(term, s[1], s[2]))
Aligns == Control(AlignScreen(term))
Clears == Control(EraseScrollback(term)) \/ Control(FullReset(term))

\* The view only.
Scrolls ==
  \/ \E d \in {-1, 1} : Client(ScrollLines(term, d))
  \/ Client(ScrollReset(term))

ScreenNext ==
  Text \/ Line \/ Feeds \/ Moves \/ Stepwise \/ Erases \/ Edits \/ Sets \/ Resizes \/ Aligns \/ Clears \/ Scrolls

ScreenMoves == ScreenInit /\ [][ScreenNext]_screenVars

----------------------------------------------------------------------------

BufferOK(b) ==
  /\ b.x \in 0..(term.cols + 1) /\ b.y \in 0..(term.rows - 1) /\ b.ydisp \in 0..b.ybase
  /\ 0 <= b.top /\ b.top <= b.bot /\ b.bot < term.rows
  /\ b.max = term.rows + b.back /\ Len(b.lines) <= b.max
  /\ b.lines # <<>> => Len(b.lines) >= b.ybase + term.rows
  /\ \A i \in DOMAIN b.lines : Len(b.lines[i].cells) >= term.cols

\* The cursor and the scroll region lie on the screen, the cursor's column at most
\* one beyond the margin -- two after a combining character at the margin of a
\* line that is longer than the screen -- and the view on the list; the list has a
\* line for each row of the screen and a line has a cell for each column: but for
\* a print beyond the margin no index of the next call goes out of either.
ScreenTypes == Runs => BufferOK(term.nb) /\ BufferOK(term.ab)

History(b) == [i \in 1..b.ybase |-> b.lines[i].cells]

\* What has scrolled off the screen stays in the history as it is and in its
\* order: nothing that erases, inserts, deletes or scrolls inside the screen, and
\* nothing on the alternate screen, gets at it; only text and line feeds do, and
\* only the oldest lines of a full list.  A change of size rewrites the history,
\* a clear drops it, the alignment in origin mode overwrites it.
HistoryKept ==
  [][ \/ Resizes \/ Aligns \/ Clears
      \/ LET old == History(term.nb) new == History(term'.nb) IN
         \E d \in 0..Len(old) :
           /\ d > 0 => (Text \/ Line \/ Feeds) /\ ~term.alt /\ Len(term'.nb.lines) = term'.nb.max
           /\ Len(new) >= Len(old) - d
           /\ SubSeq(new, 1, Len(old) - d) = SubSeq(old, d + 1, Len(old)) ]_screenVars

WideWhole(cells) ==
  \A i \in DOMAIN cells : cells[i].w = 2 => i < Len(cells) /\ cells[i + 1] = Half(cells[i].p)

AllWide(t) ==
  \A b \in {t.nb, t.ab} : \A i \in DOMAIN b.lines : WideWhole(b.lines[i].cells)

\* A combining character that would join finds a character of the width it is to
\* have before the cursor.
Joinable(t) ==
  LET b == Buf(t) cells == Row(b, b.y).cells IN
  /\ t.join = 1 => b.x \in 1..Len(cells) /\ cells[b.x].w = 1
  /\ t.join = 2 => b.x \in 2..Len(cells) /\ cells[b.x - 1].w = 2

\* While text wraps, no sequence and no text leaves a wide character without its
\* second cell, or protects one of them only: whatever it erases, inserts, deletes
\* or writes over, both cells stay or both go; and what a combining character
\* would join is there.  (A change of size may cut one or put the cursor elsewhere.)
WideKept ==
  [][ term'.panic = "none" /\ AllWide(term) /\ Joinable(term) /\ term.wrap =>
        Resizes \/ (AllWide(term') /\ Joinable(term')) ]_screenVars

\* "this._activeBuffer.x should never be 0 for a combining char since they always
\* follow a cell consuming char": printing never indexes a cell outside its line.
NoPanic == term.panic # "print"

\* What the user sees: a second cell without its first shows as a blank,
\* protected or not.
Shown(t) ==
  LET cell(cells, i) == IF cells[i].ch = <<>> /\ ~(i > 1 /\ cells[i - 1].w = 2)
                          THEN Blank(FALSE) ELSE cells[i]
      b == Buf(t)
  IN Put(t, [b EXCEPT !.lines = Listed([i \in DOMAIN @ |->
               SetCells(@[i], Listed([j \in DOMAIN @[i].cells |-> cell(@[i].cells, j)]))])])

\* The shell's output comes in reads, cut anywhere: a text in two runs leaves the
\* screen that it leaves in one.
RunsJoin ==
  term.wrap /\ AllWide(term) /\ Joinable(term) /\ Runs =>
    \A s1 \in Texts :
      LET one == PrintText(term, s1) IN
      \A s2 \in Texts : Shown(PrintText(one, s2)) = Shown(PrintText(term, s1 \o s2))

\* The characters on the screen, and where.
Chars(b) ==
  [i \in DOMAIN b.lines |-> LET c == b.lines[i].cells IN
     [j \in 1..LeastOf(term.cols, Len(c)) |-> <<c[j].ch, c[j].w>>]]

\* Every cell holds a character that takes its columns, is beside one, or blank:
\* the serializer does not know how to write the others.
Plainly(b) ==
  \A i \in DOMAIN b.lines : LET c == b.lines[i].cells IN
    /\ Len(c) = term.cols /\ WideWhole(c)
    /\ \A j \in DOMAIN c :
         /\ c[j].ch # <<>> => c[j].w > 0 /\ c[j].w = Width(c[j].ch[1])
         /\ c[j].w = 0 => IsHalf(c[j]) /\ j > 1 /\ c[j - 1].w = 2

\* The cursor comes back where it was or, if the last text ended at the margin,
\* one column to its left; a scroll region or origin mode sends it home.
CursorBack(b, c) ==
  \/ c.y = b.y /\ c.x \in {b.x, MostOf(0, b.x - 1)}
  \/ term.origin \/ b.top # 0 \/ b.bot # term.rows - 1

\* Two terminals: the lines of both buffers with the history, and the state.
SameText(t, r) == Chars(t.nb) = Chars(r.nb) /\ Chars(t.ab) = Chars(r.ab)
SameState(t, r) ==
  /\ \A i \in 2..Len(t.nb.lines) : t.nb.lines[i].wr = r.nb.lines[i].wr
  /\ <<r.alt, r.ins, r.wrap, r.origin, r.rev>> = <<t.alt, t.ins, t.wrap, t.origin, t.rev>>
  /\ <<Buf(r).top, Buf(r).bot>> = <<Buf(t).top, Buf(t).bot>>
  /\ CursorBack(Buf(t), Buf(r))
Same(t, r) == SameText(Shown(t), Shown(r)) /\ SameState(t, r)

\* What the daemon writes for a client draws the same screen again: the lines of
\* both buffers with the history, which of them continue the line above, the
\* buffer shown, the modes, the scroll region and the cursor.  (On a screen of
\* one row a forced break leaves its dashes.)
Replays ==
  Runs /\ Plainly(term.nb) /\ Plainly(term.ab) /\ term.rows > 1 =>
    Same(term, Replay(SerializeTerm(term), term.cols, term.rows))

TextOf(b) ==
  FlattenSeq([i \in DOMAIN b.lines |->
    FlattenSeq([j \in DOMAIN b.lines[i].cells |-> b.lines[i].cells[j].ch])])

\* Text without gaps, whose broken lines are full.
Solid(b) ==
  \A i \in DOMAIN b.lines : LET line == b.lines[i] n == TrimmedLength(line.cells) IN
    /\ \A j \in 1..n : line.cells[j].ch # <<>> \/ line.cells[j].w = 0
    /\ i < Len(b.lines) /\ b.lines[i + 1].wr => WrapsItself(line, b.lines[i + 1], Len(line.cells) - n)

\* All of the text or, if the list is full, the newest.
Keeps(old, b, new) ==
  /\ Len(new) <= Len(old) /\ new = Newest(old, Len(new))
  /\ new = old \/ Len(b.lines) = b.max
KeepsText(old, b) == Keeps(old, b, TextOf(b))

\* A client of another size reads the same text: all of it or, when its terminal
\* has no room left, the newest.
ReadAtKeeps ==
  Runs /\ Plainly(term.nb) /\ Solid(term.nb) /\ ~term.alt =>
    LET toks == SerializeTerm(term) IN
    \A s \in Sizes : KeepsText(TextOf(term.nb), Replay(toks, s[1], s[2]).nb)
=============================================================================
