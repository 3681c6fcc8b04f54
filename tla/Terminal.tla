------------------------------ MODULE Terminal ------------------------------
(***************************************************************************)
(* The terminal emulator.  Its parts share nothing but what is modelled as *)
(* operators: the parser hands over characters and sequences, the screen   *)
(* is made of lines, the lines lie in the ring, the styles of the cells    *)
(* say nothing of where the cells are.  So each is taken by itself, and a  *)
(* behaviour is about one of them: side says which.                        *)
(***************************************************************************)
EXTENDS ScreenSteps, CircularList, Styles, Escapes

VARIABLE side

terminalVars == <<screenVars, listVars, styleVars, escapeVars, side>>

\* What the parts are that a behaviour is not about: the screen one that no
\* longer runs, of which nothing is claimed.
ScreenStill == term = [Fresh(2, 2) EXCEPT !.panic = "resize"] /\ texts = 0 /\ controls = 0
ListStill == ListInit /\ maxLen = CHOOSE m \in MaxLengths : TRUE
StylesStill == page = NewPage(1) /\ strokes = 0
EscapesStill == parser = FreshParser /\ fed = <<>> /\ ahead = <<>>

Init ==
  \/ side = "screen" /\ ScreenInit /\ ListStill /\ StylesStill /\ EscapesStill
  \/ side = "list" /\ ScreenStill /\ ListInit /\ StylesStill /\ EscapesStill
  \/ side = "styles" /\ ScreenStill /\ ListStill /\ StylesInit /\ EscapesStill
  \/ side = "escapes" /\ ScreenStill /\ ListStill /\ StylesStill /\ EscapesInit

Next ==
  \/ side = "screen" /\ ScreenNext /\ UNCHANGED <<listVars, styleVars, escapeVars, side>>
  \/ side = "list" /\ ListNext /\ UNCHANGED <<screenVars, styleVars, escapeVars, side>>
  \/ side = "styles" /\ StylesNext /\ UNCHANGED <<screenVars, listVars, escapeVars, side>>
  \/ side = "escapes" /\ EscapesNext /\ UNCHANGED <<screenVars, listVars, styleVars, side>>

Spec == Init /\ [][Next]_terminalVars
=============================================================================
