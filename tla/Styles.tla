------------------------------- MODULE Styles -------------------------------
(***************************************************************************)
(* Colours and styles of the terminal's cells: what SGR sequences make of  *)
(* the pen (src/internal/xterm/inputhandler_sgr.go), and how the           *)
(* serializer writes cells out so that they can be drawn again             *)
(* (serialize_addon.go).  Characters, their widths and soft line breaks    *)
(* are Serialize's; here a cell is written or blank and has a style.  An   *)
(* underline's kind and colour, which the serializer does not write, are   *)
(* left out.                                                               *)
(***************************************************************************)
EXTENDS BoundedList

CONSTANTS
  Columns, Heights,  \* of the screen
  Codes,             \* SGR items: <<n>>, <<38, 5, n>>, <<48, 2, rgb>>
  Strokes            \* bound on steps

ASSUME StylesAssumption == Columns \in Nat \ {0} /\ Heights \subseteq Nat \ {0} /\ Strokes \in Nat

VARIABLES
  page,    \* a terminal: its height, rows of cells, cursor y x, and the pen
  strokes  \* steps so far, at most Strokes

styleVars == <<page, strokes>>

----------------------------------------------------------------------------
(* Styles. *)

NoColor == <<"default", 0>>

\* prot: protected from selective erasing; link: part of a hyperlink.
NoStyle == [fg |-> NoColor, bg |-> NoColor, flags |-> {}, prot |-> FALSE, link |-> FALSE]

On == 1 :> "bold" @@ 2 :> "dim" @@ 3 :> "italic" @@ 4 :> "underline" @@ 5 :> "blink" @@
      7 :> "inverse" @@ 8 :> "invisible" @@ 9 :> "strike" @@ 21 :> "underline" @@ 53 :> "overline"
Off == 22 :> {"bold", "dim"} @@ 23 :> {"italic"} @@ 24 :> {"underline"} @@ 25 :> {"blink"} @@
       27 :> {"inverse"} @@ 28 :> {"invisible"} @@ 29 :> {"strike"} @@ 55 :> {"overline"}

\* 38 and 48: a palette entry or red, green and blue as one number.
ExtendedColor(old, item) ==
  CASE item[2] = 2 -> <<"rgb", item[3]>>
    [] item[2] = 5 -> <<"p256", item[3] % 256>>
    [] OTHER -> old

\* One item of an SGR sequence.  A reset ends the protection and keeps the link.
Sgr(p, item) ==
  LET n == item[1] IN
  CASE n = 0 -> [NoStyle EXCEPT !.link = p.link]
    [] n \in DOMAIN On -> [p EXCEPT !.flags = @ \cup {On[n]}]
    [] n \in DOMAIN Off -> [p EXCEPT !.flags = @ \ Off[n]]
    [] n \in 30..37 -> [p EXCEPT !.fg = <<"p16", n - 30>>]
    [] n \in 40..47 -> [p EXCEPT !.bg = <<"p16", n - 40>>]
    [] n \in 90..97 -> [p EXCEPT !.fg = <<"p16", n - 82>>]
    [] n \in 100..107 -> [p EXCEPT !.bg = <<"p16", n - 92>>]
    [] n = 38 -> [p EXCEPT !.fg = ExtendedColor(@, item)]
    [] n = 48 -> [p EXCEPT !.bg = ExtendedColor(@, item)]
    [] n = 39 -> [p EXCEPT !.fg = NoColor]
    [] n = 49 -> [p EXCEPT !.bg = NoColor]
    [] OTHER -> p

----------------------------------------------------------------------------
(* The terminal. *)

\* An erased cell has the pen's background and nothing else.
Erased(p) == [text |-> FALSE, style |-> [NoStyle EXCEPT !.bg = p.bg]]
ErasedRow(p) == Listed([i \in 1..Columns |-> Erased(p)])

NewPage(height) ==
  [height |-> height, rows |-> Listed([i \in 1..height |-> ErasedRow(NoStyle)]), y |-> 1, x |-> 1,
   pen |-> NoStyle]

Write(g) ==
  [g EXCEPT !.rows[g.y] = [@ EXCEPT ![g.x] = [text |-> TRUE, style |-> g.pen]], !.x = @ + 1]
Erase(g, n) ==
  [g EXCEPT !.rows[g.y] = Listed([i \in 1..Columns |->
     IF i \in g.x..(g.x + n - 1) THEN Erased(g.pen) ELSE @[i]])]
Forward(g, n) == [g EXCEPT !.x = IF @ + n > Columns THEN Columns ELSE @ + n]

\* The row that scrolls in at the bottom has the pen's background.
NextRow(g) ==
  [g EXCEPT !.rows = IF g.y = Len(@) THEN Append(@, ErasedRow(g.pen)) ELSE @, !.y = @ + 1, !.x = 1]

----------------------------------------------------------------------------
(* The serializer. *)

\* What diffStyle compares.
Underlined(s) == s.link \/ "underline" \in s.flags
Look(s) ==
  [fg |-> s.fg, bg |-> s.bg,
   flags |-> s.flags \cup (IF Underlined(s) THEN {"underline"} ELSE {})]

ColorItem(c, base) ==
  CASE c[1] = "rgb" -> <<base + 8, 2, c[2]>>
    [] c[1] = "default" -> <<base + 9>>
    [] c[2] >= 16 -> <<base + 8, 5, c[2]>>
    [] c[2] >= 8 -> <<base + 52 + c[2]>>
    [] OTHER -> <<base + c[2]>>

\* The flags in the order they are compared, with the codes that change them.
FlagCodes ==
  <<<<"inverse", 7, 27>>, <<"bold", 1, 22>>, <<"underline", 4, 24>>, <<"overline", 53, 55>>,
    <<"blink", 5, 25>>, <<"invisible", 8, 28>>, <<"italic", 3, 23>>, <<"dim", 2, 22>>,
    <<"strike", 9, 29>>>>

\* The items that lead from the style old to the style new.
DiffStyle(new, old) ==
  LET n == Look(new) o == Look(old)
      flag(f) == IF f[1] \in n.flags \/ f[1] \in o.flags
                   THEN IF f[1] \notin o.flags THEN <<<<f[2]>>>>
                        ELSE IF f[1] \notin n.flags THEN <<<<f[3]>>>> ELSE <<>>
                   ELSE <<>>
  IN IF n = o THEN <<>>
     ELSE IF new = NoStyle THEN <<<<0>>>>
     ELSE (IF n.fg # o.fg THEN <<ColorItem(n.fg, 30)>> ELSE <<>>) \o
          (IF n.bg # o.bg THEN <<ColorItem(n.bg, 40)>> ELSE <<>>) \o
          FlattenSeq([i \in DOMAIN FlagCodes |-> flag(FlagCodes[i])])

Step(op, n, items) == <<[op |-> op, n |-> n, items |-> items]>>

\* Mutant of Gap: blanks are skipped, whatever their background.
GapForward(h) == IF h.nulls = 0 THEN <<>> ELSE Step("forward", h.nulls, <<>>)

\* The blanks before a cell: erased with the background they have, and skipped.
Gap(h) ==
  IF h.nulls = 0 THEN <<>>
  ELSE (IF h.style.bg # h.back THEN Step("erase", h.nulls, <<>>) ELSE <<>>) \o
       Step("forward", h.nulls, <<>>)

\* h is the serializer: what it has written, the style of the last cell it wrote
\* one for, the background that blanks are known to have, the blanks not written
\* yet and the last row with text or a change of style.  Only a new background
\* counts as a change of a blank's style.
StyleCell(h, y, c) ==
  LET items == DiffStyle(c.style, h.style)
      changed == IF c.text THEN items # <<>> ELSE c.style.bg # h.style.bg
      new == IF ~changed THEN h
             ELSE [h EXCEPT !.out[y] = @ \o Gap(h) \o Step("sgr", 0, items), !.nulls = 0,
                            !.style = c.style, !.last = y]
  IN IF c.text THEN [new EXCEPT !.out[y] = @ \o Gap(new) \o Step("text", 1, <<>>), !.nulls = 0, !.last = y]
     ELSE [new EXCEPT !.nulls = @ + 1]

\* From the second screenful on a new row scrolls in with the background of the
\* style it follows.
StyleRow(h, g, y) ==
  LET done == FoldLeft(LAMBDA k, c : StyleCell(k, y, c), [h EXCEPT !.out = Append(@, <<>>)], g.rows[y])
      rest == IF done.nulls > 0 /\ done.style.bg # done.back THEN Step("erase", done.nulls, <<>>) ELSE <<>>
  IN [done EXCEPT !.out[y] = @ \o rest, !.nulls = 0,
                  !.back = IF y > g.height THEN done.style.bg ELSE @]

Serialized(g, n) ==
  FoldLeft(LAMBDA k, y : StyleRow(k, g, y),
           [out |-> <<>>, style |-> NoStyle, back |-> NoColor, nulls |-> 0, last |-> 1],
           [y \in 1..n |-> y])

\* The last item sets the pen, whose link is not known there.
SerializeStyles(g) ==
  LET h == Serialized(g, Len(g.rows))
      n == IF Len(g.rows) <= g.height THEN h.last ELSE Len(g.rows)
      row(y) == h.out[y] \o (IF y < n THEN Step("break", 0, <<>>) ELSE <<>>)
      known == [g.pen EXCEPT !.link = FALSE]
      pen == IF g.pen = NoStyle \/ known # NoStyle THEN DiffStyle(known, h.style) ELSE <<>>
  IN FlattenSeq([y \in 1..n |-> row(y)]) \o Step("sgr", 0, pen)

Perform(g, k) ==
  CASE k.op = "text" -> Write(g)
    [] k.op = "erase" -> Erase(g, k.n)
    [] k.op = "forward" -> Forward(g, k.n)
    [] k.op = "break" -> NextRow(g)
    [] k.op = "sgr" -> [g EXCEPT !.pen = FoldLeft(Sgr, @, k.items)]

----------------------------------------------------------------------------

StylesInit == \E n \in Heights : page = NewPage(n) /\ strokes = 0

Draw(g) == strokes < Strokes /\ page' = g /\ strokes' = strokes + 1

StylesNext ==
  \/ \E item \in Codes : Draw([page EXCEPT !.pen = Sgr(@, item)])
  \/ page.x <= Columns /\ Draw(Write(page))
  \/ \E n \in 1..Columns : page.x <= Columns /\ Draw(Erase(page, n))
  \/ page.x < Columns /\ Draw(Forward(page, 1))
  \/ Draw(NextRow(page))
  \/ \E on \in BOOLEAN : Draw([page EXCEPT !.pen.prot = on])
  \/ \E on \in BOOLEAN : Draw([page EXCEPT !.pen.link = on])

StylesMoves == StylesInit /\ [][StylesNext]_styleVars

----------------------------------------------------------------------------

\* What a reader sees of a style, a row or a pen.
Visible(s) ==
  LET color(c) == IF c[1] \in {"p16", "p256"} THEN <<"palette", c[2]>> ELSE c
  IN [fg |-> color(s.fg), bg |-> color(s.bg), flags |-> Look(s).flags]
VisibleRow(row) == [i \in DOMAIN row |-> <<row[i].text, Visible(row[i].style)>>]

SameLook(g, r, rows) ==
  /\ \A y \in rows : VisibleRow(r.rows[y]) = VisibleRow(g.rows[y])
  /\ ~g.pen.link => Visible(r.pen) = Visible(g.pen)

\* The two styles that share the code which ends them.
Uses(g, flag) ==
  flag \in g.pen.flags \/ \E y \in DOMAIN g.rows : \E i \in 1..Columns : flag \in g.rows[y][i].style.flags

\* Drawn again from the serializer's output, every cell has its colours and
\* styles and the next character would have them too: whatever SGR sequences
\* the program sent, in cells it wrote, erased or never touched, in rows that
\* scrolled in with a background.  Three things are lost, and left out: one of
\* bold and dim where a text uses both (22 ends both); the background of blank
\* rows below the last change; and that of the first row that scrolls in after
\* a screenful that ends in a colour, which then gets that colour.
StylesReplay ==
  LET short == Len(page.rows) <= page.height
      rows == IF short THEN 1..Serialized(page, Len(page.rows)).last ELSE DOMAIN page.rows
  IN ~(Uses(page, "bold") /\ Uses(page, "dim")) /\
     (short \/ Serialized(page, page.height).style.bg = NoColor) =>
       SameLook(page, FoldLeft(Perform, NewPage(page.height), SerializeStyles(page)), rows)
=============================================================================
