---------------------------- MODULE MCTerminal ----------------------------
\* Values for model checking Terminal.
EXTENDS Terminal

CONSTANTS NarrowChar, WideChar, CombiningChar

TextsDef ==
  {<<NarrowChar>>, <<WideChar>>, <<CombiningChar>>, <<WideChar, NarrowChar, NarrowChar>>}
SizesDef == {<<2, 3>>, <<3, 2>>, <<4, 1>>}

\* Each way a style or a colour begins and ends; the two palettes.
CodesDef ==
  {<<0>>, <<1>>, <<2>>, <<22>>, <<4>>, <<24>>, <<7>>, <<31>>, <<39>>, <<44>>, <<49>>, <<104>>,
   <<48, 5, 12>>, <<38, 2, 7>>}

\* a, LF, DEL, ESC, CAN, the euro sign, an 8-bit CSI and ST, and the beginnings,
\* parameters and ends of sequences and string commands.
PiecesDef ==
  {<<\h61>>, <<\h0a>>, <<\h7f>>, <<\h1b>>, <<\h18>>, <<\he2, \h82, \hac>>, <<\hc2, \h9b>>, <<\hc2, \h9c>>,
   <<\h1b, \h5b>>, <<\h31, \h32, \h3b>>, <<\h3a, \h33>>, <<\h3f>>, <<\h24, \h71>>,
   <<\h1b, \h5d>>, <<\h30, \h3b>>, <<\h07>>, <<\h1b, \h50>>, <<\h1b, \h5f>>, <<\h1b, \h5c>>,
   <<\h1b, \h5b, \h33, \h4a>>}
=============================================================================
