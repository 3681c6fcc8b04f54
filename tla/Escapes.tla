------------------------------- MODULE Escapes -------------------------------
(***************************************************************************)
(* From the bytes a shell writes to the calls that change the terminal     *)
(* (src/internal/xterm/textdecoder.go, parser.go, parser_table.go,         *)
(* parser_params.go, parser_osc.go, parser_dcs.go, parser_apc.go, fed by   *)
(* src/cmd/claw/terminal.go).  The bytes come in reads of any length, cut  *)
(* anywhere.  calls collects the calls in their order: a character         *)
(* printed, a control character executed, a sequence dispatched with its   *)
(* parameters, a string command with its payload.                          *)
(***************************************************************************)
EXTENDS Integers, Sequences, SequencesExt

CONSTANTS
  Pieces,        \* what a shell writes is up to PieceCount of these
  PieceCount,
  MaxParam,      \* greatest parameter, in the code 2^31 - 1
  MaxParams,     \* parameters of a sequence, and sub-parameters, in the code 32
  PayloadLimit   \* bytes of a string command

ASSUME EscapesAssumption == PieceCount \in Nat /\ MaxParam \in Nat /\ MaxParams \in Nat \ {0}

VARIABLES
  parser,
  fed, ahead     \* the bytes read so far, and those to come

escapeVars == <<parser, fed, ahead>>

----------------------------------------------------------------------------
(* Parameters. *)

NoParams == [list |-> <<[n |-> 0, subs |-> <<>>]>>, sub |-> FALSE, full |-> FALSE, subFull |-> FALSE]

AddParam(q) ==
  IF Len(q.list) >= MaxParams THEN [q EXCEPT !.full = TRUE, !.sub = FALSE]
  ELSE [q EXCEPT !.list = Append(@, [n |-> 0, subs |-> <<>>]), !.sub = FALSE]

SubCount(q) == FoldLeft(LAMBDA n, e : n + Len(e.subs), 0, q.list)

\* A sub-parameter without digits is -1.
AddSubParam(q) ==
  LET k == Len(q.list) IN
  IF q.full \/ SubCount(q) >= MaxParams THEN [q EXCEPT !.sub = TRUE, !.subFull = TRUE]
  ELSE [q EXCEPT !.sub = TRUE, !.list = Append(Front(@), [Last(@) EXCEPT !.subs = Append(@, -1)])]

\* The product wraps around before it is compared with the greatest value.
Digits(n, d) ==
  LET wide == MaxParam + 1 IN
  IF n = -1 THEN d ELSE ((n * 10 + d + wide) % (2 * wide)) - wide

AddDigit(q, d) ==
  LET e == Last(q.list) IN
  IF q.full \/ (q.sub /\ (q.subFull \/ e.subs = <<>>)) THEN q
  ELSE [q EXCEPT !.list = Append(Front(@),
         IF q.sub THEN [e EXCEPT !.subs = Append(Front(@), Digits(Last(@), d))]
         ELSE [e EXCEPT !.n = Digits(@, d)])]

Param(q, c) ==
  CASE c = \h3b -> AddParam(q) [] c = \h3a -> AddSubParam(q) [] OTHER -> AddDigit(q, c - \h30)

----------------------------------------------------------------------------
(* The parser: its state, what it has collected, the string command it is  *)
(* in, and what it reads ahead, which ends with the read.                  *)

NoString == [state |-> "start", id |-> -1, data |-> <<>>, over |-> FALSE]

FreshParser ==
  [state |-> <<"ground">>, collect |-> <<>>, params |-> NoParams, interim |-> <<>>,
   osc |-> NoString, dcs |-> NoString, apc |-> NoString, hook |-> <<>>, ahead |-> "none",
   calls |-> <<>>]

To(p, state) == [p EXCEPT !.state = state]
Ground(p) == To(p, <<"ground">>)
Call(p, call) == [p EXCEPT !.calls = Append(@, call)]
Collect(p, c) == [p EXCEPT !.collect = Append(@, c)]
Clear(p) == [p EXCEPT !.params = NoParams, !.collect = <<>>]

\* The payload is given up once it is too long.
Longer(s, c) ==
  IF s.over THEN s
  ELSE IF Len(s.data) >= PayloadLimit THEN [s EXCEPT !.data = <<>>, !.over = TRUE]
  ELSE [s EXCEPT !.data = Append(@, c)]

\* An operating system command: digits, a semicolon, its payload.
OscPut(s, c) ==
  CASE s.state = "abort" -> s
    [] s.state = "id" /\ c = \h3b -> [s EXCEPT !.state = "payload"]
    [] s.state = "id" /\ c \in \h30..\h39 -> [s EXCEPT !.id = (IF @ = -1 THEN 0 ELSE @ * 10) + c - \h30]
    [] s.state = "id" -> [s EXCEPT !.state = "abort"]
    [] OTHER -> Longer(s, c)

\* An application program command: the first character tells which.
ApcPut(s, c) == IF s.state = "id" THEN [s EXCEPT !.id = c, !.state = "payload"] ELSE Longer(s, c)

\* The end of a string command; one that was aborted or grew too long is not
\* called.  ESC ends it and begins a sequence.
EndString(p, c) ==
  LET kind == p.state[1]
      s == IF kind = "osc" THEN p.osc ELSE IF kind = "apc" THEN p.apc ELSE p.dcs
      good == c \notin {\h18, \h1a} /\ ~s.over /\ s.state # "abort" /\ ~(kind = "apc" /\ s.state = "id")
      done == IF good THEN Call(p, <<kind, s.id, p.hook, s.data>>) ELSE p
  IN To([Clear(done) EXCEPT !.osc = IF kind = "osc" THEN NoString ELSE @,
                            !.apc = IF kind = "apc" THEN NoString ELSE @,
                            !.dcs = IF kind = "dcs" THEN NoString ELSE @, !.hook = <<>>],
        IF c = \h1b THEN <<"escape">> ELSE <<"ground">>)

OscStart(p) == To([p EXCEPT !.osc = [NoString EXCEPT !.state = "id"]], <<"osc">>)
ApcStart(p) == To([p EXCEPT !.apc = [NoString EXCEPT !.state = "id"]], <<"apc">>)

\* A device control string: its head is like a control sequence's.
DcsHook(p, c) ==
  To([p EXCEPT !.dcs = [NoString EXCEPT !.state = "payload"], !.hook = <<p.collect, c, p.params.list>>],
     <<"dcs">>)

C0 == (0..\h17) \cup {\h19} \cup (\h1c..\h1f)
Execute(p, c) == Call(p, <<"execute", c>>)

\* The head of a control sequence or a device control string, in its four
\* stages; control characters take effect in the midst of the former.
Header(p, c) ==
  LET kind == p.state[1] stage == p.state[2] IN
  CASE c \in C0 -> IF kind = "csi" THEN Execute(p, c) ELSE p
    [] c = \h7f -> p
    [] stage = "ignore" -> IF kind = "csi" /\ c \in \h40..\h7e THEN Ground(p) ELSE p
    [] c >= \ha0 -> Ground(p)
    [] c \in \h20..\h2f -> To(Collect(p, c), <<kind, "inter">>)
    [] c \in \h30..\h3b /\ stage # "inter" -> To([p EXCEPT !.params = Param(@, c)], <<kind, "param">>)
    [] c \in \h3c..\h3f /\ stage = "entry" -> To(Collect(p, c), <<kind, "param">>)
    [] c \in \h30..\h3f -> To(p, <<kind, "ignore">>)
    [] OTHER -> IF kind = "csi" THEN Ground(Call(p, <<"csi", p.collect, c, p.params.list>>)) ELSE DcsHook(p, c)

\* After ESC; inter: an intermediate character has been collected.
Escape(p, c, inter) ==
  CASE c \in C0 -> Execute(p, c)
    [] c = \h7f -> p
    [] c >= \ha0 -> Ground(p)
    [] c \in \h20..\h2f -> To(Collect(p, c), <<"escape", "inter">>)
    [] ~inter /\ c = \h5b -> To(Clear(p), <<"csi", "entry">>)
    [] ~inter /\ c = \h50 -> To(Clear(p), <<"dcs", "entry">>)
    [] ~inter /\ c = \h5d -> OscStart(p)
    [] ~inter /\ c = \h5f -> ApcStart(p)
    [] ~inter /\ c \in {\h58, \h5e} -> To(p, <<"sospm">>)
    [] OTHER -> Ground(Call(p, <<"esc", p.collect, c>>))

\* An 8-bit control character begins a sequence wherever it comes.
C1(p, c) ==
  CASE c = \h9d -> OscStart(p)
    [] c = \h9f -> ApcStart(p)
    [] c \in {\h98, \h9e} -> To(p, <<"sospm">>)
    [] c = \h9b -> To(Clear(p), <<"csi", "entry">>)
    [] c = \h90 -> To(Clear(p), <<"dcs", "entry">>)
    [] OTHER -> Ground(p)

Enders(state) ==
  CASE state = <<"osc">> -> {\h07, \h18, \h1a, \h1b, \h9c}
    [] state \in {<<"dcs">>, <<"apc">>} -> {\h18, \h1a, \h1b, \h9c}
    [] OTHER -> {}

\* The transition table.
Transition(p, c) ==
  LET text == c \in \h20..\h7e \/ c >= \ha0 IN
  CASE c \in Enders(p.state) -> EndString(p, c)
    [] c \in {\h18, \h1a} \ Enders(p.state) -> Ground(Execute(p, c))
    [] c = \h1b /\ c \notin Enders(p.state) -> To(Clear(p), <<"escape">>)
    [] c \in (\h80..\h9f) \ Enders(p.state) -> C1(p, c)
    [] OTHER ->
         CASE p.state = <<"ground">> ->
                IF text THEN Call(p, <<"print", c>>) ELSE IF c \in C0 THEN Execute(p, c) ELSE p
           [] p.state = <<"escape">> -> Escape(p, c, FALSE)
           [] p.state = <<"escape", "inter">> -> Escape(p, c, TRUE)
           [] Len(p.state) = 2 /\ p.state[1] # "escape" -> Header(p, c)
           [] p.state = <<"osc">> -> IF text \/ c = \h7f THEN [p EXCEPT !.osc = OscPut(@, c)] ELSE p
           [] p.state = <<"dcs">> ->
                IF c # \h7f THEN [p EXCEPT !.dcs = Longer(@, c), !.ahead = "dcs"] ELSE p
           [] p.state = <<"apc">> -> IF text THEN [p EXCEPT !.apc = ApcPut(@, c), !.ahead = "apc"] ELSE p
           [] p.state = <<"sospm">> -> IF c >= \ha0 THEN Ground(p) ELSE p

\* Once in a payload the parser reads ahead to its end, and takes with it some
\* characters that the table would ignore.  (Text and parameters it reads ahead
\* as the table would.)
Char(p, c) ==
  LET goes == c \notin {\h18, \h1a, \h1b} /\ c \notin \h80..\h9f IN
  CASE p.ahead = "dcs" /\ goes -> [p EXCEPT !.dcs = Longer(@, c)]
    [] p.ahead = "apc" /\ goes -> [p EXCEPT !.apc = ApcPut(@, c)]
    [] OTHER -> Transition([p EXCEPT !.ahead = "none"], c)

Parse(p, codes) == [FoldLeft(Char, p, codes) EXCEPT !.ahead = "none"]

----------------------------------------------------------------------------
(* Bytes to characters. *)

SeqLen(b) ==
  CASE b < \h80 -> 1 [] b \in \hc0..\hdf -> 2 [] b \in \he0..\hef -> 3 [] b \in \hf0..\hf7 -> 4 [] OTHER -> 0

Continues(b) == b \in \h80..\hbf

\* The character of a whole sequence, -1 if there is none: a byte that does not
\* continue it, a longer form than needed, a surrogate.
CodePoint(s) ==
  LET n == Len(s)
      first == s[1] % (IF n = 2 THEN 32 ELSE IF n = 3 THEN 16 ELSE 8)
      code == FoldLeft(LAMBDA v, b : v * 64 + (b % 64), first, Tail(s))
      least == IF n = 2 THEN \h80 ELSE IF n = 3 THEN \h800 ELSE \h10000
  IN IF (\A i \in 2..n : Continues(s[i])) /\ code \in least..\h10ffff /\ code \notin \hd800..\hdfff
       THEN code ELSE -1

\* Byte order marks are skipped.
Emit(code, rest) == IF code = \hfeff THEN rest ELSE [rest EXCEPT !.codes = <<code>> \o @]

\* What no character begins with is skipped; a character that the read cuts is
\* kept for the next.
DecodeWhole(bytes) ==
  LET n == Len(bytes)
      from[i \in 1..(n + 1)] ==
        LET len == SeqLen(bytes[i]) IN
        IF i > n THEN [codes |-> <<>>, interim |-> <<>>]
        ELSE IF len = 1 THEN Emit(bytes[i], from[i + 1])
        ELSE IF len = 0 THEN from[i + 1]
        ELSE IF i + len - 1 > n THEN [codes |-> <<>>, interim |-> SubSeq(bytes, i, n)]
        ELSE LET code == CodePoint(SubSeq(bytes, i, i + len - 1)) IN
             IF code = -1 THEN from[i + 1] ELSE Emit(code, from[i + len])
  IN from[1]

\* Mutant of Decode: what a read has cut is forgotten.
DecodeForgets(interim, bytes) == DecodeWhole(bytes)

\* The bytes that are missing come first, if they do: else what was kept is
\* dropped.
Decode(interim, bytes) ==
  LET needed == IF interim = <<>> THEN 0 ELSE SeqLen(interim[1]) - Len(interim)
      bad == {i \in DOMAIN bytes : i <= needed /\ ~Continues(bytes[i])}
      good == IF bad = {} THEN needed ELSE (CHOOSE i \in bad : \A j \in bad : i <= j) - 1
      code == CodePoint(interim \o SubSeq(bytes, 1, needed))
      rest == DecodeWhole(SubSeq(bytes, good + 1, Len(bytes)))
  IN IF needed = 0 \/ bad # {} THEN rest
     ELSE IF Len(bytes) < needed THEN [codes |-> <<>>, interim |-> interim \o bytes]
     ELSE IF code \in {-1, \hfffd} THEN rest ELSE Emit(code, rest)

\* Erasing the history is taken out of what the terminal gets.
EraseHistory == {<<\h1b, \h5b, \h33, \h4a>>, <<\h1b, \h5b, \h33, \h3b, \h4a>>}

HasAt(bytes, i, s) == IsPrefix(s, SubSeq(bytes, i, Len(bytes)))

Without(bytes, s) ==
  LET n == Len(bytes)
      from[i \in 1..(n + 1)] ==
        IF i > n THEN <<>>
        ELSE IF HasAt(bytes, i, s) THEN from[i + Len(s)]
        ELSE <<bytes[i]>> \o from[i + 1]
  IN from[1]

\* One read of the shell's output.
Feed(p, bytes) ==
  LET kept == Without(Without(bytes, <<\h1b, \h5b, \h33, \h4a>>), <<\h1b, \h5b, \h33, \h3b, \h4a>>)
      d == Decode(p.interim, kept)
  IN IF kept = <<>> THEN p ELSE Parse([p EXCEPT !.interim = d.interim], d.codes)

----------------------------------------------------------------------------

EscapesInit ==
  /\ parser = FreshParser /\ fed = <<>>
  /\ \E k \in 1..PieceCount : \E s \in [1..k -> Pieces] : ahead = FlattenSeq(s)

EscapesNext ==
  \E n \in 1..Len(ahead) :
    /\ parser' = Feed(parser, SubSeq(ahead, 1, n))
    /\ fed' = fed \o SubSeq(ahead, 1, n)
    /\ ahead' = SubSeq(ahead, n + 1, Len(ahead))

EscapesMoves == EscapesInit /\ [][EscapesNext]_escapeVars

----------------------------------------------------------------------------

Inside(bytes, s) == \E i \in DOMAIN bytes : HasAt(bytes, i, s)

\* A payload without the characters that count only within a read.
Counted(call) ==
  CASE call[1] = "dcs" -> [call EXCEPT ![4] = SelectSeq(@, LAMBDA c : c # \h7f)]
    [] call[1] = "apc" -> [call EXCEPT ![4] = SelectSeq(@, LAMBDA c : c \notin C0 \cup {\h7f})]
    [] OTHER -> call
Calls(p) == [i \in DOMAIN p.calls |-> Counted(p.calls[i])]

\* However the reads cut the shell's output -- inside a character, a sequence, a
\* parameter, a payload -- the terminal is called as if it had come in one.
\* Left out: output with a sequence that erases the history, which is only taken
\* out of a read that holds all of it; DEL in a device control string, C0 and DEL
\* in an application program command, which count unless a read begins with them.
ChunkFree ==
  (\A s \in EraseHistory : ~Inside(fed, s)) => Calls(parser) = Calls(Feed(FreshParser, fed))
=============================================================================
