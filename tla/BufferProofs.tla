---------------------------- MODULE BufferProofs ----------------------------
(***************************************************************************)
(* The buffers of a terminal of any size, from the inside out: cells of a  *)
(* line, a list of lines, a buffer, and what another size makes of it.     *)
(*                                                                         *)
(* A line is one of RowsOf(cols, exact, whole): it has a cell for each     *)
(* column, exactly so in a buffer that reflows, and, if whole is asked     *)
(* for, no wide character without its second cell.  A buffer is Framed by  *)
(* the screen whose rows it shows; Sizing says what is left of that        *)
(* between two sizes, and Settles what there is at the end of a resize.    *)
(***************************************************************************)
EXTENDS ScreenSteps, SequenceTheorems, NaturalsInduction, WellFoundedInduction, TLAPS

\* Characters that may stand in a cell.
Letters == (UNION {{s[i] : i \in DOMAIN s} : s \in Texts}) \cup {Aligned}

Cell == [ch : Seq(Letters), w : 0 .. 2, p : BOOLEAN]

\* d has the cells of a line like c.
Alike(c, d) == d \in Seq(Cell) /\ Len(d) = Len(c) /\ (WideWhole(c) => WideWhole(d))

----------------------------------------------------------------------------
(* Loops *)

\* Numbers from 0 on, step by step, are all: the least one left out has none
\* before it.
LEMMA Reached ==
  ASSUME NEW S \in SUBSET Nat, 0 \in S, \A n \in S : n + 1 \in S
  PROVE  \A n \in Nat : n \in S
<1> SUFFICES ASSUME NEW n \in Nat, n \notin S PROVE FALSE
  OBVIOUS
<1> DEFINE R == OpToRel(<, Nat)
           T == Nat \ S
<1>1. IsWellFoundedOn(R, Nat) /\ T \subseteq Nat /\ T # {}
  BY NatLessThanWellFounded
<1>2. \A x, y \in Nat : y < x => <<y, x>> \in R
  BY DEF OpToRel
<1> HIDE DEF R
<1>3. PICK x \in T : \A y \in T : ~ (<<y, x>> \in R)
  BY <1>1, WFMin
<1>4. x \in Nat /\ x # 0
  BY <1>3
<1>5. x - 1 \in Nat /\ <<x - 1, x>> \in R
  BY <1>2, <1>4
<1>6. x - 1 \in S
  BY <1>3, <1>5
<1>7. (x - 1) + 1 = x
  BY <1>4
<1> QED BY <1>3, <1>6, <1>7

\* So a loop of N rounds that begins in S[0] and goes from S[k] to S[k + 1] ends
\* in S[N].
LEMMA LoopHolds ==
  ASSUME NEW N \in Nat, NEW S, NEW f, f[0] \in S[0],
         \A k \in 1 .. N : f[k - 1] \in S[k - 1] => f[k] \in S[k]
  PROVE  f[N] \in S[N]
<1> DEFINE T == {n \in Nat : n > N \/ f[n] \in S[n]}
<1>1. 0 \in T
  OBVIOUS
<1>2. ASSUME NEW n \in T PROVE n + 1 \in T
  <2>1. CASE n + 1 > N
    BY <2>1
  <2>2. CASE n + 1 <= N
    <3>1. n + 1 \in 1 .. N /\ (n + 1) - 1 = n
      BY <2>2
    <3>2. f[n] \in S[n]
      BY <2>2
    <3> QED BY <3>1, <3>2
  <2> QED BY <2>1, <2>2
<1>3. T \in SUBSET Nat
  OBVIOUS
<1> HIDE DEF T
<1>4. N \in T
  BY <1>1, <1>2, <1>3, Reached
<1> QED BY <1>4 DEF T

\* What f says a loop of N rounds has at its beginning and after each of them.
Loops(f, N, base, step) == f = [k \in 0 .. N |-> IF k = 0 THEN base ELSE step[k][f[k - 1]]]

\* A loop has a state after each of its rounds.
LEMMA LoopRuns ==
  ASSUME NEW N \in Nat, NEW S, NEW base \in S[0], NEW step,
         \A k \in 1 .. N : \A a \in S[k - 1] : step[k][a] \in S[k]
  PROVE  \E f : Loops(f, N, base, step) /\ \A k \in 0 .. N : f[k] \in S[k]
<1> DEFINE Ran(n, f) == /\ f = [k \in 0 .. n |-> f[k]] /\ f[0] = base
                        /\ \A k \in 1 .. n : f[k] = step[k][f[k - 1]]
                        /\ \A k \in 0 .. n : f[k] \in S[k]
           T == {n \in Nat : n > N \/ \E f : Ran(n, f)}
<1>1. 0 \in T
  <2> DEFINE f == [k \in 0 .. 0 |-> base]
  <2>1. Ran(0, f)
    OBVIOUS
  <2> QED BY <2>1
<1>2. ASSUME NEW n \in T PROVE n + 1 \in T
  <2>1. CASE n + 1 > N
    BY <2>1
  <2>2. CASE n + 1 <= N
    <3>1. PICK f : Ran(n, f)
      BY <2>2
    <3> DEFINE g == [k \in 0 .. n + 1 |-> IF k = n + 1 THEN step[n + 1][f[n]] ELSE f[k]]
    <3>2. n + 1 \in 1 .. N /\ n \in 0 .. n /\ (n + 1) - 1 = n /\ n \in Nat
      BY <2>2
    <3>3. step[n + 1][f[n]] \in S[n + 1]
      BY <3>1, <3>2
    <3>4. ASSUME NEW k \in 0 .. n PROVE g[k] = f[k]
      BY <3>2
    <3>5. g[n + 1] = step[n + 1][f[n]]
      BY <3>2
    <3>6. g[0] = base
      BY <3>1, <3>2, <3>4
    <3>7. ASSUME NEW k \in 1 .. n + 1 PROVE g[k] = step[k][g[k - 1]]
      <4>1. CASE k = n + 1
        BY <3>2, <3>4, <3>5, <4>1
      <4>2. CASE k # n + 1
        <5>1. k \in 1 .. n /\ k - 1 \in 0 .. n /\ k \in 0 .. n
          BY <3>2, <4>2
        <5> QED BY <3>1, <3>4, <5>1
      <4> QED BY <4>1, <4>2
    <3>8. ASSUME NEW k \in 0 .. n + 1 PROVE g[k] \in S[k]
      <4>1. CASE k = n + 1
        BY <3>3, <3>5, <4>1
      <4>2. CASE k # n + 1
        <5>1. k \in 0 .. n
          BY <3>2, <4>2
        <5> QED BY <3>1, <3>4, <5>1
      <4> QED BY <4>1, <4>2
    <3>9. g = [k \in 0 .. n + 1 |-> g[k]]
      OBVIOUS
    <3>10. \E h : Ran(n + 1, h)
      <4> HIDE DEF g
      <4> QED BY <3>6, <3>7, <3>8, <3>9
    <3>11. n + 1 \in Nat
      BY <3>2
    <3> HIDE DEF Ran, g
    <3> QED BY <3>10, <3>11
  <2> QED BY <2>1, <2>2
<1>3. N \in T
  <2>1. T \in SUBSET Nat
    OBVIOUS
  <2> HIDE DEF T
  <2> QED BY <1>1, <1>2, <2>1, Reached
<1>4. PICK f : Ran(N, f)
  BY <1>3
<1>5. f = [k \in 0 .. N |-> IF k = 0 THEN base ELSE step[k][f[k - 1]]]
  <2>1. ASSUME NEW k \in 0 .. N PROVE f[k] = IF k = 0 THEN base ELSE step[k][f[k - 1]]
    <3>1. k = 0 \/ k \in 1 .. N
      OBVIOUS
    <3> QED BY <1>4, <3>1
  <2>2. f = [k \in 0 .. N |-> f[k]]
    BY <1>4
  <2> QED BY <2>1, <2>2
<1> QED BY <1>4, <1>5 DEF Loops

----------------------------------------------------------------------------
(* Cells *)

\* Writing a sequence out changes nothing.
LEMMA ListedIs ==
  ASSUME NEW S, NEW n \in Nat, NEW f \in [1 .. n -> S]
  PROVE  Listed(f) \in Seq(S) /\ Len(Listed(f)) = n /\ \A i \in 1 .. n : Listed(f)[i] = f[i]
<1>1. f \in Seq(S)
  BY SeqDef
<1>2. f \o <<>> = f
  BY <1>1, ConcatEmptySeq
<1>3. DOMAIN f = 1 .. n /\ DOMAIN f = 1 .. Len(f) /\ Len(f) \in Nat
  BY <1>1, LenProperties
<1>4. Len(f) = n
  BY <1>3
<1> QED BY <1>1, <1>2, <1>4 DEF Listed

\* Two sequences of known lengths, one behind the other.
LEMMA JoinedAt ==
  ASSUME NEW S, NEW s \in Seq(S), NEW t \in Seq(S), NEW m, NEW n, Len(s) = m, Len(t) = n
  PROVE  /\ s \o t \in Seq(S) /\ Len(s \o t) = m + n
         /\ \A i \in 1 .. m + n : (s \o t)[i] = IF i <= m THEN s[i] ELSE t[i - m]
BY ConcatProperties

\* One cell of a line written over.
LEMMA OneCell ==
  ASSUME NEW c \in Seq(Cell), NEW i \in 1 .. Len(c), NEW e \in Cell
  PROVE  /\ [c EXCEPT ![i] = e] \in Seq(Cell) /\ Len([c EXCEPT ![i] = e]) = Len(c)
         /\ \A j \in 1 .. Len(c) : [c EXCEPT ![i] = e][j] = IF j = i THEN e ELSE c[j]
BY ExceptSeq

\* The cells of a line, what they hold.
LEMMA CellsAre ==
  ASSUME NEW c \in Seq(Cell)
  PROVE  /\ Len(c) \in Nat /\ DOMAIN c = 1 .. Len(c)
         /\ \A i \in 1 .. Len(c) :
              /\ c[i] \in Cell /\ c[i].w \in 0 .. 2 /\ c[i].p \in BOOLEAN /\ c[i].ch \in Seq(Letters)
<1>1. Len(c) \in Nat /\ DOMAIN c = 1 .. Len(c)
  BY LenProperties
<1>2. ASSUME NEW i \in 1 .. Len(c) PROVE c[i] \in Cell
  BY ElementOfSeq
<1> QED BY <1>1, <1>2 DEF Cell

\* A blank and a second cell are cells.
LEMMA BlankIs ==
  ASSUME NEW p \in BOOLEAN
  PROVE  /\ Blank(p) \in Cell /\ Blank(p).w = 1 /\ Blank(p).p = p /\ Blank(p).ch = <<>>
         /\ Half(p) \in Cell /\ Half(p).w = 0 /\ Half(p).p = p /\ Half(p).ch = <<>>
<1>1. <<>> \in Seq(Letters) /\ 0 \in 0 .. 2 /\ 1 \in 0 .. 2
  BY EmptySeq
<1> QED BY <1>1 DEF Blank, Half, Cell

\* A row of blanks.
LEMMA BlanksAre ==
  ASSUME NEW n \in Nat, NEW p \in BOOLEAN
  PROVE  /\ Blanks(n, p) \in Seq(Cell) /\ Len(Blanks(n, p)) = n
         /\ \A i \in 1 .. n : Blanks(n, p)[i] = Blank(p)
<1> DEFINE f == [i \in 1 .. n |-> Blank(p)]
<1>1. f \in [1 .. n -> Cell]
  BY BlankIs
<1>2. Blanks(n, p) = Listed(f)
  BY DEF Blanks
<1>3. \A i \in 1 .. n : f[i] = Blank(p)
  OBVIOUS
<1> HIDE DEF f
<1> QED BY <1>1, <1>2, <1>3, ListedIs

\* What WideWhole says, cell by cell.
LEMMA WholeCells ==
  ASSUME NEW c \in Seq(Cell)
  PROVE  WideWhole(c) <=>
           \A i \in 1 .. Len(c) : c[i].w = 2 => i < Len(c) /\ c[i + 1] = Half(c[i].p)
BY CellsAre DEF WideWhole

\* A wide character that loses its second cell goes; nothing else does.
LEMMA HalvedIs ==
  ASSUME NEW c \in Seq(Cell), NEW i \in Int, i < Len(c), NEW p \in BOOLEAN
  PROVE  /\ Alike(c, Halved(c, i, p))
         /\ \A j \in 1 .. Len(c) : j # i + 1 => Halved(c, i, p)[j] = c[j]
         /\ i >= 0 => Halved(c, i, p)[i + 1].w # 2
<1> DEFINE h == Halved(c, i, p)
<1>0. Len(c) \in Nat /\ Blank(p) \in Cell /\ Blank(p).w = 1
  BY CellsAre, BlankIs
<1>1. CASE i >= 0 /\ c[i + 1].w = 2
  <2>1. i + 1 \in 1 .. Len(c)
    BY <1>0, <1>1
  <2>2. h = [c EXCEPT ![i + 1] = Blank(p)]
    BY <1>1 DEF Halved
  <2>3. /\ h \in Seq(Cell) /\ Len(h) = Len(c)
        /\ \A j \in 1 .. Len(c) : h[j] = IF j = i + 1 THEN Blank(p) ELSE c[j]
    BY <1>0, <2>1, <2>2, OneCell
  <2> HIDE DEF h
  <2>4. ASSUME WideWhole(c), NEW j \in 1 .. Len(h), h[j].w = 2
        PROVE  j < Len(h) /\ h[j + 1] = Half(h[j].p)
    <3>1. h[j] = c[j] /\ j # i + 1
      BY <1>0, <2>3, <2>4
    <3>2. j < Len(c) /\ c[j + 1] = Half(c[j].p)
      BY <2>3, <2>4, <3>1, WholeCells
    <3>3. c[j].p \in BOOLEAN
      BY <2>3, CellsAre
    <3>4. c[j + 1].w = 0
      BY <3>2, <3>3, BlankIs
    <3>5. j + 1 # i + 1 /\ j + 1 \in 1 .. Len(c)
      BY <1>1, <3>2, <3>4
    <3> QED BY <2>3, <3>1, <3>2, <3>5
  <2>5. WideWhole(c) => WideWhole(h)
    BY <2>3, <2>4, WholeCells
  <2>6. h[i + 1].w # 2
    BY <1>0, <2>1, <2>3
  <2> QED BY <2>3, <2>5, <2>6 DEF Alike, h
<1>2. CASE ~(i >= 0 /\ c[i + 1].w = 2)
  <2>1. h = c
    BY <1>2 DEF Halved
  <2> QED BY <1>2, <2>1 DEF Alike
<1> QED BY <1>1, <1>2

\* Cut at the margin, a line is whole if its last cell gets halved.
LEMMA CutIs ==
  ASSUME NEW c \in Seq(Cell), NEW d \in Seq(Cell), Len(d) = Len(c), Len(c) > 0, NEW p \in BOOLEAN,
         WideWhole(c) => \A i \in 1 .. Len(d) - 1 : d[i].w = 2 => d[i + 1] = Half(d[i].p)
  PROVE  Alike(c, Halved(d, Len(d) - 1, p))
<1> DEFINE n == Len(d)
           h == Halved(d, n - 1, p)
<1>1. n \in Nat /\ n > 0 /\ (n - 1) + 1 = n
  BY CellsAre
<1>2. /\ h \in Seq(Cell) /\ Len(h) = n
      /\ \A j \in 1 .. n : j # n => h[j] = d[j]
      /\ h[n].w # 2
  <2>1. n - 1 \in Int /\ n - 1 < Len(d) /\ n - 1 >= 0
    BY <1>1
  <2>2. /\ Alike(d, Halved(d, n - 1, p))
        /\ \A j \in 1 .. Len(d) : j # (n - 1) + 1 => Halved(d, n - 1, p)[j] = d[j]
        /\ n - 1 >= 0 => Halved(d, n - 1, p)[(n - 1) + 1].w # 2
    BY <2>1, HalvedIs
  <2> QED BY <1>1, <2>1, <2>2 DEF Alike
<1> HIDE DEF h
<1>3. ASSUME WideWhole(c), NEW j \in 1 .. n, h[j].w = 2 PROVE j < n /\ h[j + 1] = Half(h[j].p)
  <2>1. j # n /\ j \in 1 .. n - 1
    BY <1>1, <1>2, <1>3
  <2>2. h[j] = d[j] /\ d[j + 1] = Half(d[j].p)
    BY <1>2, <1>3, <2>1
  <2>3. CASE j + 1 = n
    <3>1. d[n].w = 0
      <4>1. d[j].p \in BOOLEAN
        BY <1>3, CellsAre
      <4> QED BY <2>2, <2>3, <4>1, BlankIs
    <3>2. h[n] = d[n]
      <4>1. Halved(d, n - 1, p) = d
        BY <1>1, <3>1 DEF Halved
      <4> QED BY <4>1 DEF h
    <3> QED BY <2>1, <2>2, <2>3, <3>2
  <2>4. CASE j + 1 # n
    <3>1. j + 1 \in 1 .. n
      BY <1>1, <2>1
    <3> QED BY <1>2, <2>1, <2>2, <2>4, <3>1
  <2> QED BY <2>3, <2>4
<1>4. WideWhole(c) => WideWhole(h)
  BY <1>2, <1>3, WholeCells
<1> QED BY <1>2, <1>4 DEF Alike, h

\* The remainder is one of the places.
LEMMA RestInside ==
  ASSUME NEW m \in Nat \ {0}, NEW a \in Nat
  PROVE  a % m \in 0 .. m - 1
OBVIOUS

\* Cells inserted: what is pushed over the margin is lost, and with it the rest of
\* a wide character.
LEMMA InsertCellsIs ==
  ASSUME NEW c \in Seq(Cell), Len(c) > 0, NEW pos \in Nat, NEW n \in Nat, NEW p \in BOOLEAN
  PROVE  /\ Alike(c, InsertCells(c, pos, n, p))
         /\ pos \in 1 .. Len(c) - 1 /\ c[pos].w # 2 => InsertCells(c, pos, n, p)[pos].w # 2
<1> DEFINE size == Len(c)
           at == pos % size
           left == Halved(c, at - 1, p)
           gap == Blanks(n, p)
           head == SubSeq(left, 1, at)
           tail == SubSeq(left, at + 1, size)
           moved == head \o gap \o tail
           d == SubSeq(moved, 1, size)
<1>1. size \in Nat \ {0} /\ at \in 0 .. size - 1
  <2>1. size \in Nat \ {0}
    BY CellsAre
  <2> HIDE DEF size
  <2> QED BY <2>1, RestInside
<1>2. InsertCells(c, pos, n, p) = Halved(d, size - 1, p)
  BY DEF InsertCells
<1>2a. pos \in 1 .. size - 1 => at = pos
  BY <1>1
<1> HIDE DEF at
<1>3. /\ left \in Seq(Cell) /\ Len(left) = size /\ (WideWhole(c) => WideWhole(left))
      /\ at > 0 => left[at].w # 2
  <2>1. at - 1 \in Int /\ at - 1 < size /\ (at > 0 => at - 1 >= 0) /\ (at - 1) + 1 = at
    BY <1>1
  <2> QED BY <2>1, HalvedIs DEF Alike
<1> HIDE DEF left, size
<1>4. \A i \in 1 .. size : left[i] \in Cell
  BY <1>3, CellsAre
<1>5. gap \in Seq(Cell) /\ Len(gap) = n /\ \A i \in 1 .. n : gap[i] = Blank(p)
  BY BlanksAre
<1>6. head \in Seq(Cell) /\ Len(head) = at /\ \A i \in 1 .. at : head[i] = left[i]
  <2>1. \A i \in 1 .. at : left[i] \in Cell
    BY <1>1, <1>4
  <2> QED BY <1>1, <2>1, SubSeqProperties
<1>7. tail \in Seq(Cell) /\ Len(tail) = size - at /\ \A i \in 1 .. size - at : tail[i] = left[at + i]
  <2>1. \A i \in at + 1 .. size : left[i] \in Cell
    BY <1>1, <1>4
  <2>2. /\ tail \in Seq(Cell) /\ Len(tail) = IF at + 1 <= size THEN size - (at + 1) + 1 ELSE 0
        /\ \A i \in 1 .. size - (at + 1) + 1 : tail[i] = left[at + 1 + i - 1]
    BY <1>1, <2>1, SubSeqProperties
  <2>3. size - (at + 1) + 1 = size - at /\ at + 1 <= size
    BY <1>1
  <2>4. ASSUME NEW i \in 1 .. size - at PROVE tail[i] = left[at + i]
    <3>1. at + 1 + i - 1 = at + i
      BY <1>1
    <3> QED BY <2>2, <2>3, <3>1
  <2> QED BY <2>2, <2>3, <2>4
<1> HIDE DEF head, gap, tail
<1>8. /\ head \o gap \in Seq(Cell) /\ Len(head \o gap) = at + n
      /\ \A i \in 1 .. at + n : (head \o gap)[i] = IF i <= at THEN head[i] ELSE gap[i - at]
  BY <1>5, <1>6, ConcatProperties
<1>9. /\ moved \in Seq(Cell) /\ Len(moved) = size + n
      /\ \A i \in 1 .. size + n : moved[i] = IF i <= at + n THEN (head \o gap)[i] ELSE tail[i - (at + n)]
  <2>1. (at + n) + (size - at) = size + n
    BY <1>1
  <2> DEFINE hg == head \o gap
  <2> HIDE DEF hg
  <2>2. /\ hg \o tail \in Seq(Cell) /\ Len(hg \o tail) = (at + n) + (size - at)
        /\ \A i \in 1 .. (at + n) + (size - at) :
             (hg \o tail)[i] = IF i <= at + n THEN hg[i] ELSE tail[i - (at + n)]
    BY <1>7, <1>8, ConcatProperties DEF hg
  <2> QED BY <2>1, <2>2 DEF hg
<1> HIDE DEF moved
<1>10. /\ d \in Seq(Cell) /\ Len(d) = size
       /\ \A i \in 1 .. size : d[i] = moved[i]
  <2>1. \A i \in 1 .. size : moved[i] \in Cell
    <3>1. \A i \in 1 .. size + n : moved[i] \in Cell
      BY <1>9, CellsAre
    <3> QED BY <1>1, <3>1
  <2>2. size - 1 + 1 = size /\ 1 <= size
    BY <1>1
  <2>3. \A i \in 1 .. size : moved[1 + i - 1] = moved[i]
    BY <1>1
  <2> QED BY <1>1, <2>1, <2>2, <2>3, SubSeqProperties
<1> HIDE DEF d
<1>11. ASSUME NEW i \in 1 .. size
       PROVE  d[i] = IF i <= at THEN left[i] ELSE IF i <= at + n THEN Blank(p) ELSE left[i - n]
  <2>1. d[i] = IF i <= at + n THEN (head \o gap)[i] ELSE tail[i - (at + n)]
    <3>1. i \in 1 .. size + n
      BY <1>1
    <3> QED BY <1>9, <1>10, <3>1
  <2> DEFINE hg == head \o gap
  <2>5. d[i] = (IF i <= at + n THEN hg[i] ELSE tail[i - (at + n)])
        /\ \A j \in 1 .. at + n : hg[j] = IF j <= at THEN head[j] ELSE gap[j - at]
    BY <1>8, <2>1
  <2> HIDE DEF hg
  <2>2. CASE i <= at
    <3>1. i \in 1 .. at + n /\ i \in 1 .. at /\ i <= at + n
      BY <1>1, <2>2
    <3> QED BY <1>6, <2>2, <2>5, <3>1
  <2>3. CASE i > at /\ i <= at + n
    <3>1. i - at \in 1 .. n /\ i \in 1 .. at + n
      BY <1>1, <2>3
    <3>2. hg[i] = gap[i - at] /\ d[i] = hg[i] /\ ~(i <= at)
      BY <1>1, <2>3, <2>5, <3>1
    <3> QED BY <1>5, <2>3, <3>1, <3>2
  <2>4. CASE i > at + n
    <3>1. i - (at + n) \in 1 .. size - at /\ at + (i - (at + n)) = i - n /\ ~(i <= at)
      BY <1>1, <2>4
    <3>2. d[i] = tail[i - (at + n)] /\ ~(i <= at + n)
      BY <1>1, <2>4, <2>5
    <3> QED BY <1>7, <3>1, <3>2
  <2> QED BY <1>1, <2>2, <2>3, <2>4
<1>12. ASSUME WideWhole(c), NEW i \in 1 .. size - 1, d[i].w = 2 PROVE d[i + 1] = Half(d[i].p)
  <2>0. /\ i \in 1 .. size /\ i + 1 \in 1 .. size /\ Blank(p).w = 1
        /\ \A j \in 1 .. size : left[j].w = 2 => j < size /\ left[j + 1] = Half(left[j].p)
    BY <1>1, <1>3, <1>12, BlankIs, WholeCells
  <2>1. CASE i <= at
    <3>1. d[i] = left[i] /\ i # at
      BY <1>3, <1>11, <1>12, <2>0, <2>1
    <3>2. i + 1 <= at
      BY <1>1, <2>1, <3>1
    <3> QED BY <1>11, <1>12, <2>0, <3>1, <3>2
  <2>2. CASE i > at
    <3>1. i > at + n /\ d[i] = left[i - n]
      BY <1>1, <1>11, <1>12, <2>0, <2>2
    <3>2. i - n \in 1 .. size /\ ~(i + 1 <= at) /\ ~(i + 1 <= at + n) /\ (i + 1) - n = (i - n) + 1
      BY <1>1, <3>1
    <3>3. left[(i - n) + 1] = Half(left[i - n].p)
      BY <1>12, <2>0, <3>1, <3>2
    <3> QED BY <1>11, <2>0, <3>1, <3>2, <3>3
  <2> QED BY <1>1, <2>1, <2>2
<1>13. Alike(c, InsertCells(c, pos, n, p))
  <2>1. size = Len(c)
    BY DEF size
  <2> QED BY <1>1, <1>2, <1>10, <1>12, <2>1, CutIs
<1>14. ASSUME pos \in 1 .. size - 1, c[pos].w # 2 PROVE InsertCells(c, pos, n, p)[pos].w # 2
  <2>1. at = pos /\ pos \in 1 .. size /\ pos # size
    BY <1>1, <1>2a, <1>14
  <2>2. left[pos].w # 2 /\ d[pos] = left[pos]
    BY <1>1, <1>3, <1>11, <2>1
  <2>3. size - 1 \in Int /\ size - 1 < Len(d) /\ pos # (size - 1) + 1 /\ pos \in 1 .. Len(d)
    BY <1>1, <1>10, <2>1
  <2>4. Halved(d, size - 1, p)[pos] = d[pos]
    BY <1>10, <2>3, HalvedIs
  <2> QED BY <1>2, <2>2, <2>4
<1> QED BY <1>13, <1>14 DEF size

\* Cells deleted: blanks come in at the margin, and what is left of a wide character
\* at either end of the gap goes.
LEMMA DeleteCellsIs ==
  ASSUME NEW c \in Seq(Cell), Len(c) > 0, NEW pos \in Nat, NEW n \in Nat
  PROVE  Alike(c, DeleteCells(c, pos, n))
<1> DEFINE size == Len(c)
           at == pos % size
           no == FALSE
           head == SubSeq(c, 1, at)
           tail == SubSeq(c, at + n + 1, size)
           kept == head \o tail
           pad == Blanks(size - Len(kept), no)
           d == kept \o pad
           whole == Halved(d, at - 1, no)
           gone == IF IsHalf(whole[at + 1]) THEN [whole EXCEPT ![at + 1] = Blank(no)] ELSE whole
<1>0. no \in BOOLEAN
  OBVIOUS
<1>1. DeleteCells(c, pos, n) = gone
  BY DEF DeleteCells
<1>2. size \in Nat \ {0} /\ at \in 0 .. size - 1
  <2>1. size \in Nat \ {0}
    BY CellsAre
  <2> HIDE DEF size
  <2> QED BY <2>1, RestInside
<1> HIDE DEF no, at
<1>3. \A i \in 1 .. size : c[i] \in Cell
  BY CellsAre
<1>4. size = Len(c)
  OBVIOUS
<1> HIDE DEF size
<1>5. head \in Seq(Cell) /\ Len(head) = at /\ \A i \in 1 .. at : head[i] = c[i]
  <2>1. \A i \in 1 .. at : c[i] \in Cell
    BY <1>2, <1>3
  <2> QED BY <1>2, <2>1, SubSeqProperties
<1> DEFINE rest == IF at + n < size THEN size - at - n ELSE 0
<1>6. /\ tail \in Seq(Cell) /\ Len(tail) = rest /\ rest \in Nat
      /\ \A i \in 1 .. rest : tail[i] = c[at + n + i]
  <2>1. \A i \in at + n + 1 .. size : c[i] \in Cell
    BY <1>2, <1>3
  <2>2. /\ tail \in Seq(Cell) /\ Len(tail) = IF at + n + 1 <= size THEN size - (at + n + 1) + 1 ELSE 0
        /\ \A i \in 1 .. size - (at + n + 1) + 1 : tail[i] = c[(at + n + 1) + i - 1]
    BY <1>2, <2>1, SubSeqProperties
  <2>3. Len(tail) = rest /\ rest \in Nat
    BY <1>2, <2>2
  <2>4. ASSUME NEW i \in 1 .. rest PROVE tail[i] = c[at + n + i]
    <3>1. i \in 1 .. size - (at + n + 1) + 1 /\ (at + n + 1) + i - 1 = at + n + i
      BY <1>2
    <3> QED BY <2>2, <3>1
  <2> QED BY <2>2, <2>3, <2>4
<1> HIDE DEF head, tail
<1>7. /\ kept \in Seq(Cell) /\ Len(kept) = at + rest
      /\ \A i \in 1 .. at + rest : kept[i] = IF i <= at THEN head[i] ELSE tail[i - at]
  <2>1. head \in Seq(Cell) /\ tail \in Seq(Cell) /\ Len(head) = at /\ Len(tail) = rest
    BY <1>5, <1>6
  <2> HIDE DEF rest
  <2> QED BY <2>1, JoinedAt
<1> HIDE DEF kept
<1> DEFINE m == size - (at + rest)
<1>8. m \in Nat /\ size - Len(kept) = m
  BY <1>2, <1>7
<1>9. pad \in Seq(Cell) /\ Len(pad) = m /\ \A i \in 1 .. m : pad[i] = Blank(no)
  <2> HIDE DEF m
  <2> QED BY <1>0, <1>8, BlanksAre
<1> HIDE DEF pad
<1>10. /\ d \in Seq(Cell) /\ Len(d) = size
       /\ \A i \in 1 .. size : d[i] = IF i <= at + rest THEN kept[i] ELSE pad[i - (at + rest)]
  <2>1. (at + rest) + m = size
    BY <1>2, <1>6
  <2> HIDE DEF m, rest
  <2>2. /\ d \in Seq(Cell) /\ Len(d) = (at + rest) + m
        /\ \A i \in 1 .. (at + rest) + m : d[i] = IF i <= at + rest THEN kept[i] ELSE pad[i - (at + rest)]
    BY <1>7, <1>9, JoinedAt
  <2> QED BY <2>1, <2>2
<1> HIDE DEF d
<1>11. ASSUME NEW i \in 1 .. size
       PROVE  d[i] = IF i <= at THEN c[i] ELSE IF i <= at + rest THEN c[i + n] ELSE Blank(no)
  <2>1. CASE i <= at
    <3>1. i <= at + rest /\ i \in 1 .. at /\ i \in 1 .. at + rest
      BY <1>2, <1>6, <2>1
    <3> QED BY <1>5, <1>7, <1>10, <2>1, <3>1
  <2>2. CASE i > at /\ i <= at + rest
    <3>1. i - at \in 1 .. rest /\ i \in 1 .. at + rest /\ at + n + (i - at) = i + n /\ ~(i <= at)
      BY <1>2, <1>6, <2>2
    <3>2. d[i] = kept[i] /\ kept[i] = tail[i - at] /\ tail[i - at] = c[at + n + (i - at)]
      BY <1>6, <1>7, <1>10, <2>2, <3>1
    <3> QED BY <2>2, <3>1, <3>2
  <2>3. CASE i > at + rest
    <3>1. i - (at + rest) \in 1 .. m /\ ~(i <= at) /\ ~(i <= at + rest)
      BY <1>2, <1>6, <2>3
    <3> QED BY <1>9, <1>10, <3>1
  <2> QED BY <1>2, <1>6, <2>1, <2>2, <2>3
<1>12. /\ Alike(d, whole) /\ \A j \in 1 .. size : j # at => whole[j] = d[j]
       /\ at > 0 => whole[at].w # 2
  <2>1. at - 1 \in Int /\ at - 1 < Len(d) /\ (at > 0 => at - 1 >= 0) /\ (at - 1) + 1 = at
    BY <1>2, <1>10
  <2> QED BY <1>0, <1>10, <2>1, HalvedIs
<1> HIDE DEF whole
<1>12a. whole \in Seq(Cell) /\ Len(whole) = size
  BY <1>10, <1>12 DEF Alike
<1>13. /\ gone \in Seq(Cell) /\ Len(gone) = size
       /\ \A i \in 1 .. size : gone[i] = whole[i] \/ (i = at + 1 /\ gone[i] = Blank(no))
  <2>1. at + 1 \in 1 .. Len(whole) /\ Blank(no) \in Cell
    BY <1>0, <1>2, <1>12a, BlankIs
  <2>2. CASE IsHalf(whole[at + 1])
    BY <1>12a, <2>1, <2>2, OneCell
  <2>3. CASE ~IsHalf(whole[at + 1])
    BY <1>12a, <2>3
  <2> QED BY <2>2, <2>3
<1> HIDE DEF gone
<1>14. ASSUME WideWhole(c), NEW i \in 1 .. size, gone[i].w = 2 PROVE i < size /\ gone[i + 1] = Half(gone[i].p)
  <2>0. /\ Blank(no).w = 1
        /\ \A j \in 1 .. size : c[j].w = 2 => j < size /\ c[j + 1] = Half(c[j].p)
    BY <1>0, <1>4, <1>14, BlankIs, WholeCells
  <2>1. gone[i] = whole[i] /\ whole[i].w = 2
    BY <1>13, <1>14, <2>0
  <2>2. i # at /\ whole[i] = d[i]
    <3>1. at > 0 => whole[at].w # 2
      BY <1>12
    <3>2. i # at
      BY <1>2, <2>1, <3>1
    <3> QED BY <1>12, <3>2
  <2>3. CASE i < at
    <3>1. i <= at /\ i + 1 <= at /\ i + 1 \in 1 .. size /\ i + 1 # at + 1 /\ i < size
      BY <1>2, <2>3
    <3>2. d[i] = c[i] /\ d[i + 1] = c[i + 1] /\ c[i + 1] = Half(c[i].p)
      BY <1>11, <2>0, <2>1, <2>2, <3>1
    <3>3. gone[i + 1] = whole[i + 1]
      BY <1>13, <3>1
    <3>4. i + 1 # at \/ i + 1 = at
      OBVIOUS
    <3>5. whole[i + 1] = d[i + 1]
      <4>1. CASE i + 1 # at
        BY <1>12, <3>1, <4>1
      <4>2. CASE i + 1 = at
        <5>1. c[i].p \in BOOLEAN
          BY <1>4, CellsAre
        <5>2. d[at].w = 0
          BY <3>2, <4>2, <5>1, BlankIs
        <5>3. whole = d
          <6>1. (at - 1) + 1 = at
            BY <1>2
          <6> QED BY <5>2, <6>1 DEF whole, Halved
        <5> QED BY <5>3
      <4> QED BY <4>1, <4>2
    <3> QED BY <2>1, <2>2, <3>1, <3>2, <3>3, <3>5
  <2>4. CASE i > at
    <3>1. i <= at + rest /\ ~(i <= at) /\ d[i] = c[i + n]
      <4>1. ~(i <= at)
        BY <1>2, <2>4
      <4> QED BY <1>11, <2>0, <2>1, <2>2, <4>1
    <3>2. rest > 0 /\ at + rest + n = size
      BY <1>2, <3>1
    <3>3. i + n \in 1 .. size
      BY <1>2, <3>1, <3>2
    <3>4. i + n < size /\ c[i + n + 1] = Half(c[i + n].p)
      BY <2>0, <2>1, <2>2, <3>1, <3>3
    <3>5. i + 1 <= at + rest /\ ~(i + 1 <= at) /\ i + 1 \in 1 .. size /\ (i + 1) + n = i + n + 1
          /\ i + 1 # at + 1 /\ i + 1 # at /\ i < size
      BY <1>2, <1>6, <2>4, <3>2, <3>4
    <3>6. d[i + 1] = c[i + n + 1]
      BY <1>11, <3>5
    <3>7. gone[i + 1] = whole[i + 1] /\ whole[i + 1] = d[i + 1]
      BY <1>12, <1>13, <3>5
    <3> QED BY <2>1, <2>2, <3>1, <3>4, <3>5, <3>6, <3>7
  <2> QED BY <1>2, <2>2, <2>3, <2>4
<1> QED BY <1>1, <1>4, <1>13, <1>14, WholeCells DEF Alike

\* Cells erased, the protected ones not if the caller respects them.
LEMMA ReplaceCellsIs ==
  ASSUME NEW c \in Seq(Cell), NEW start \in 0 .. Len(c), NEW end \in Nat \ {0}, start <= end,
         NEW respect \in BOOLEAN
  PROVE  Alike(c, ReplaceCells(c, start, end, respect))
<1> DEFINE size == Len(c)
           no == FALSE
           Free(i) == ~respect \/ ~c[i + 1].p
           first == IF start > 0 /\ Free(start - 1) THEN Halved(c, start - 1, no) ELSE c
           both == IF end < size /\ first[end].w = 2 /\ Free(end)
                     THEN [first EXCEPT ![end + 1] = Blank(no)] ELSE first
           f == [i \in DOMAIN c |-> IF i - 1 \in start .. (end - 1) /\ Free(i - 1) THEN Blank(no) ELSE both[i]]
           r == Listed(f)
<1>0. no \in BOOLEAN /\ Blank(no) \in Cell /\ Blank(no).w = 1
  BY BlankIs
<1>1. ReplaceCells(c, start, end, respect) = r
  BY DEF ReplaceCells
<1>2. size \in Nat /\ DOMAIN c = 1 .. size /\ \A i \in 1 .. size : c[i] \in Cell /\ c[i].p \in BOOLEAN
  BY CellsAre
<1> HIDE DEF no
<1>3. /\ Alike(c, first)
      /\ \A j \in 1 .. size : j # start => first[j] = c[j]
      /\ start > 0 /\ Free(start - 1) => first[start].w # 2
      /\ ~(start > 0 /\ Free(start - 1)) => first = c
  <2>1. CASE start > 0 /\ Free(start - 1)
    <3>1. start - 1 \in Int /\ start - 1 < Len(c) /\ start - 1 >= 0 /\ (start - 1) + 1 = start
      BY <1>2, <2>1
    <3> QED BY <1>0, <2>1, <3>1, HalvedIs
  <2>2. CASE ~(start > 0 /\ Free(start - 1))
    BY <2>2 DEF Alike
  <2> QED BY <2>1, <2>2
<1>4. first \in Seq(Cell) /\ Len(first) = size /\ (WideWhole(c) => WideWhole(first))
  BY <1>3 DEF Alike
<1>5. /\ both \in Seq(Cell) /\ Len(both) = size
      /\ \A j \in 1 .. size : j # end + 1 => both[j] = first[j]
      /\ end < size /\ first[end].w = 2 /\ Free(end) => both[end + 1] = Blank(no)
      /\ ~(end < size /\ first[end].w = 2 /\ Free(end)) => both = first
  <2> HIDE DEF first, Free
  <2>1. CASE end < size /\ first[end].w = 2 /\ Free(end)
    <3>1. end + 1 \in 1 .. Len(first)
      BY <1>2, <1>4, <2>1
    <3> QED BY <1>0, <1>4, <2>1, <3>1, OneCell
  <2>2. CASE ~(end < size /\ first[end].w = 2 /\ Free(end))
    BY <1>4, <2>2
  <2> QED BY <2>1, <2>2
<1> HIDE DEF first, both
<1>6. \A i \in 1 .. size : both[i] \in Cell
  BY <1>5, CellsAre
<1>7. f \in [1 .. size -> Cell] /\ \A i \in 1 .. size : f[i] =
        IF i - 1 \in start .. (end - 1) /\ Free(i - 1) THEN Blank(no) ELSE both[i]
  BY <1>0, <1>2, <1>6
<1> HIDE DEF f
<1>8. /\ r \in Seq(Cell) /\ Len(r) = size
      /\ \A i \in 1 .. size : r[i] = IF i - 1 \in start .. (end - 1) /\ Free(i - 1) THEN Blank(no) ELSE both[i]
  BY <1>2, <1>7, ListedIs
<1> HIDE DEF r
<1>9. \A i \in 1 .. size : Free(i - 1) <=> (~respect \/ ~c[i].p)
  <2>1. \A i \in 1 .. size : (i - 1) + 1 = i
    OBVIOUS
  <2> QED BY <2>1
<1> HIDE DEF Free
<1>10. ASSUME WideWhole(c), NEW i \in 1 .. size, r[i].w = 2 PROVE i < size /\ r[i + 1] = Half(r[i].p)
  <2>0. /\ \A j \in 1 .. size : c[j].w = 2 => j < size /\ c[j + 1] = Half(c[j].p)
        /\ \A j \in 1 .. size : first[j].w = 2 => j < size /\ first[j + 1] = Half(first[j].p)
    BY <1>4, <1>10, WholeCells
  <2>1. r[i] = both[i] /\ ~(i - 1 \in start .. (end - 1) /\ Free(i - 1))
    BY <1>0, <1>8, <1>10
  <2>2. r[i] = both[i] /\ both[i] = first[i] /\ ~(i - 1 \in start .. (end - 1) /\ Free(i - 1))
    BY <1>0, <1>5, <1>10, <2>1
  <2>3. i < size /\ first[i + 1] = Half(first[i].p)
    BY <1>10, <2>0, <2>2
  <2>4. first[i] = c[i]
    <3>1. CASE i # start
      BY <1>3, <3>1
    <3>2. CASE i = start
      <4>1. ~(start > 0 /\ Free(start - 1))
        BY <1>3, <1>10, <2>2, <3>2
      <4> QED BY <1>3, <4>1
    <3> QED BY <3>1, <3>2
  <2>5. i + 1 \in 1 .. size /\ (i + 1) - 1 = i /\ c[i].p \in BOOLEAN /\ c[i].w = 2
    BY <1>2, <1>10, <2>2, <2>3, <2>4
  <2>6. c[i + 1] = Half(c[i].p) /\ c[i + 1].p = c[i].p
    BY <2>0, <2>5, BlankIs
  <2>7. Free(i) <=> Free(i - 1)
    BY <1>9, <2>5, <2>6
  <2>8. first[i + 1] = c[i + 1]
    BY <2>3, <2>4, <2>6
  <2>9. r[i + 1] = both[i + 1]
    <3>1. ~(i \in start .. (end - 1) /\ Free(i))
      <4>1. CASE Free(i)
        <5>1. i - 1 \notin start .. (end - 1)
          BY <2>2, <2>7, <4>1
        <5>2. i <= start \/ i > end
          BY <5>1
        <5>3. i # start
          <6>1. ASSUME i = start PROVE FALSE
            <7>1. start > 0 /\ Free(start - 1)
              BY <2>7, <4>1, <6>1
            <7> QED BY <1>3, <1>10, <2>2, <6>1, <7>1
          <6> QED BY <6>1
        <5> QED BY <5>2, <5>3
      <4>2. CASE ~Free(i)
        BY <4>2
      <4> QED BY <4>1, <4>2
    <3> QED BY <1>8, <2>5, <3>1
  <2>10. both[i + 1] = first[i + 1]
    <3>1. CASE i # end
      <4>1. i + 1 # end + 1
        BY <3>1
      <4> QED BY <1>5, <2>5, <4>1
    <3>2. CASE i = end
      <4>1. ~Free(end)
        <5>1. ASSUME Free(end) PROVE FALSE
          <6>1. i - 1 \notin start .. (end - 1)
            BY <2>2, <2>7, <3>2, <5>1
          <6>2. start = end
            BY <3>2, <6>1
          <6>3. start > 0 /\ Free(start - 1)
            BY <2>7, <3>2, <5>1, <6>2
          <6> QED BY <1>3, <1>10, <2>2, <3>2, <6>2, <6>3
        <5> QED BY <5>1
      <4> QED BY <1>5, <4>1
    <3> QED BY <3>1, <3>2
  <2> QED BY <2>2, <2>3, <2>9, <2>10
<1> QED BY <1>1, <1>8, <1>10, WholeCells DEF Alike

\* A line filled with one cell of one column, but for its protected cells if they
\* are respected.
LEMMA FillIs ==
  ASSUME NEW c \in Seq(Cell), NEW e \in Cell, e.w = 1, NEW respect \in BOOLEAN
  PROVE  Alike(c, Fill(c, e, respect))
<1> DEFINE f == [i \in DOMAIN c |-> IF respect /\ c[i].p THEN c[i] ELSE e]
           r == Listed(f)
<1>1. Fill(c, e, respect) = r
  BY DEF Fill
<1>2. Len(c) \in Nat /\ DOMAIN c = 1 .. Len(c) /\ \A i \in 1 .. Len(c) : c[i] \in Cell /\ c[i].p \in BOOLEAN
  BY CellsAre
<1>3. f \in [1 .. Len(c) -> Cell] /\ \A i \in 1 .. Len(c) : f[i] = IF respect /\ c[i].p THEN c[i] ELSE e
  BY <1>2
<1> HIDE DEF f
<1>4. /\ r \in Seq(Cell) /\ Len(r) = Len(c)
      /\ \A i \in 1 .. Len(c) : r[i] = IF respect /\ c[i].p THEN c[i] ELSE e
  BY <1>2, <1>3, ListedIs
<1> HIDE DEF r
<1>5. ASSUME WideWhole(c), NEW i \in 1 .. Len(c), r[i].w = 2 PROVE i < Len(c) /\ r[i + 1] = Half(r[i].p)
  <2>1. r[i] = c[i] /\ respect /\ c[i].p
    BY <1>4, <1>5
  <2>2. i < Len(c) /\ c[i + 1] = Half(c[i].p) /\ i + 1 \in 1 .. Len(c)
    <3>1. \A j \in 1 .. Len(c) : c[j].w = 2 => j < Len(c) /\ c[j + 1] = Half(c[j].p)
      BY <1>5, WholeCells
    <3>2. c[i].w = 2
      BY <1>5, <2>1
    <3>3. i < Len(c) /\ c[i + 1] = Half(c[i].p)
      BY <3>1, <3>2
    <3> QED BY <1>2, <3>3
  <2>3. c[i + 1].p = c[i].p
    BY <1>2, <2>2, BlankIs
  <2> QED BY <1>4, <2>1, <2>2, <2>3
<1> QED BY <1>1, <1>4, <1>5, WholeCells DEF Alike

\* A further character of a cell: its width stays 2 if it was to be 2, and it is
\* nobody's second cell.
LEMMA AddCodepointIs ==
  ASSUME NEW c \in Seq(Cell), NEW i \in 0 .. Len(c) - 1, NEW ch \in Letters, NEW w \in 0 .. 2
  PROVE  LET r == AddCodepointToCell(c, i, ch, w) IN
         /\ r \in Seq(Cell) /\ Len(r) = Len(c) /\ r[i + 1].w = w
         /\ \A j \in 1 .. Len(c) : j # i + 1 => r[j] = c[j]
         /\ WideWhole(c) /\ (w = 2 => c[i + 1].w = 2) /\ c[i + 1].w # 0 => WideWhole(r)
<1> DEFINE k == i + 1
           cell == c[k]
           e == [cell EXCEPT !.ch = Append(@, ch), !.w = w]
           r == [c EXCEPT ![k] = e]
<1>1. AddCodepointToCell(c, i, ch, w) = r
  BY DEF AddCodepointToCell
<1>2. Len(c) \in Nat /\ k \in 1 .. Len(c)
  BY CellsAre
<1>3. cell \in Cell /\ cell.ch \in Seq(Letters)
  BY <1>2, CellsAre
<1> HIDE DEF k, cell
<1>4. Append(cell.ch, ch) \in Seq(Letters)
  BY <1>3, AppendProperties
<1>5. e \in Cell /\ e.w = w /\ e.p = cell.p
  BY <1>3, <1>4 DEF Cell
<1> HIDE DEF e
<1>6. /\ r \in Seq(Cell) /\ Len(r) = Len(c)
      /\ \A j \in 1 .. Len(c) : r[j] = IF j = k THEN e ELSE c[j]
  BY <1>2, <1>5, OneCell
<1> HIDE DEF r
<1>7. ASSUME WideWhole(c), w = 2 => c[k].w = 2, c[k].w # 0, NEW j \in 1 .. Len(c), r[j].w = 2
      PROVE  j < Len(c) /\ r[j + 1] = Half(r[j].p)
  <2>1. c[j].w = 2 /\ c[j].p = r[j].p
    <3>1. CASE j = k
      BY <1>5, <1>6, <1>7, <3>1 DEF cell
    <3>2. CASE j # k
      BY <1>6, <1>7, <3>2
    <3> QED BY <3>1, <3>2
  <2>2. j < Len(c) /\ c[j + 1] = Half(c[j].p) /\ c[j].p \in BOOLEAN
    BY <1>7, <2>1, CellsAre, WholeCells
  <2>3. c[j + 1].w = 0 /\ j + 1 \in 1 .. Len(c)
    BY <1>2, <2>2, BlankIs
  <2>4. j + 1 # k
    BY <1>7, <2>3
  <2> QED BY <1>6, <2>1, <2>2, <2>3, <2>4
<1>8. WideWhole(c) /\ (w = 2 => c[k].w = 2) /\ c[k].w # 0 => WideWhole(r)
  BY <1>6, <1>7, WholeCells
<1> QED BY <1>1, <1>2, <1>5, <1>6, <1>8 DEF k

\* A line of another length.
LEMMA ResizeCellsIs ==
  ASSUME NEW c \in Seq(Cell), NEW n \in Nat
  PROVE  /\ ResizeCells(c, n) \in Seq(Cell) /\ Len(ResizeCells(c, n)) = n
         /\ \A i \in 1 .. n : ResizeCells(c, n)[i] = IF i <= Len(c) THEN c[i] ELSE Blank(FALSE)
<1> DEFINE no == FALSE
           len == Len(c)
           m == n - len
<1>0. no \in BOOLEAN /\ len \in Nat /\ \A i \in 1 .. len : c[i] \in Cell
  BY CellsAre
<1>1. CASE n <= len
  <2>1. ResizeCells(c, n) = SubSeq(c, 1, n)
    BY <1>1 DEF ResizeCells
  <2>2. \A i \in 1 .. n : c[i] \in Cell
    BY <1>0, <1>1
  <2>3. /\ SubSeq(c, 1, n) \in Seq(Cell) /\ Len(SubSeq(c, 1, n)) = IF 1 <= n THEN n - 1 + 1 ELSE 0
        /\ \A i \in 1 .. n - 1 + 1 : SubSeq(c, 1, n)[i] = c[1 + i - 1]
    BY <2>2, SubSeqProperties
  <2>4. Len(SubSeq(c, 1, n)) = n /\ n - 1 + 1 = n /\ \A i \in 1 .. n : 1 + i - 1 = i /\ i <= len
    BY <1>0, <1>1, <2>3
  <2> QED BY <2>1, <2>3, <2>4
<1>2. CASE n > len
  <2>1. ResizeCells(c, n) = c \o Blanks(m, no)
    <3>1. ~(n <= Len(c))
      BY <1>0, <1>2
    <3> QED BY <3>1 DEF ResizeCells
  <2>2. m \in Nat /\ len + m = n
    BY <1>0, <1>2
  <2> HIDE DEF m, no
  <2>3. Blanks(m, no) \in Seq(Cell) /\ Len(Blanks(m, no)) = m /\ \A i \in 1 .. m : Blanks(m, no)[i] = Blank(no)
    BY <1>0, <2>2, BlanksAre
  <2> DEFINE g == Blanks(m, no)
             r == c \o g
  <2> HIDE DEF g
  <2>4. r \in Seq(Cell) /\ Len(r) = len + m /\ \A i \in 1 .. len + m : r[i] = IF i <= len THEN c[i] ELSE g[i - len]
    BY <2>3, JoinedAt DEF g
  <2> HIDE DEF r
  <2>5. ASSUME NEW i \in 1 .. n PROVE r[i] = IF i <= len THEN c[i] ELSE Blank(no)
    <3>1. CASE i <= len
      BY <2>2, <2>4, <3>1
    <3>2. CASE i > len
      <4>1. i - len \in 1 .. m /\ ~(i <= len) /\ i \in 1 .. len + m
        BY <1>0, <2>2, <3>2
      <4>2. r[i] = g[i - len] /\ g[i - len] = Blank(no)
        BY <2>3, <2>4, <4>1 DEF g
      <4> QED BY <4>1, <4>2
    <3> QED BY <1>0, <3>1, <3>2
  <2> QED BY <2>1, <2>2, <2>4, <2>5 DEF r, g, no
<1>3. n <= len \/ n > len
  BY <1>0
<1> QED BY <1>1, <1>2, <1>3

\* A character of w columns written into a line at x: a wide one takes the cell
\* beside it, the cell before must not be the first one of a wide character.
WrittenAs(c, x, ch, w, p) ==
  LET one == [c EXCEPT ![x + 1] = [ch |-> <<ch>>, w |-> w, p |-> p]]
  IN IF w = 2 THEN [one EXCEPT ![x + 2] = Half(p)] ELSE one

\* So both cells of every wide character stay or go.
LEMMA WrittenIs ==
  ASSUME NEW c \in Seq(Cell), NEW ch \in Letters, NEW w \in 0 .. 2, NEW p \in BOOLEAN,
         NEW x \in 0 .. Len(c) - 1, w = 2 => x + 2 <= Len(c)
  PROVE  LET r == WrittenAs(c, x, ch, w, p) IN
         /\ r \in Seq(Cell) /\ Len(r) = Len(c) /\ r[x + 1].w = w
         /\ w = 2 => r[x + 2].w = 0
         /\ WideWhole(c) /\ (x > 0 => c[x].w # 2) => WideWhole(r)
<1> DEFINE k == x + 1
           e == [ch |-> <<ch>>, w |-> w, p |-> p]
           one == [c EXCEPT ![k] = e]
           r == IF w = 2 THEN [one EXCEPT ![k + 1] = Half(p)] ELSE one
<1>1. WrittenAs(c, x, ch, w, p) = r
  <2>1. x + 2 = k + 1
    OBVIOUS
  <2> QED BY <2>1 DEF WrittenAs
<1>2. Len(c) \in Nat /\ k \in 1 .. Len(c) /\ (w = 2 => k + 1 \in 1 .. Len(c)) /\ k - 1 = x /\ k \in Nat
  BY CellsAre
<1>3. e \in Cell /\ e.w = w /\ e.p = p
  <2>1. <<ch>> \in Seq(Letters)
    OBVIOUS
  <2> QED BY <2>1 DEF Cell
<1>4. Half(p) \in Cell /\ Half(p).w = 0
  BY BlankIs
<1> HIDE DEF k, e
<1>5. /\ one \in Seq(Cell) /\ Len(one) = Len(c)
      /\ \A j \in 1 .. Len(c) : one[j] = IF j = k THEN e ELSE c[j]
  BY <1>2, <1>3, OneCell
<1> HIDE DEF one
<1>6. /\ r \in Seq(Cell) /\ Len(r) = Len(c)
      /\ \A j \in 1 .. Len(c) : r[j] = IF j = k THEN e ELSE IF w = 2 /\ j = k + 1 THEN Half(p) ELSE c[j]
  <2>1. CASE w = 2
    <3>1. k + 1 \in 1 .. Len(one) /\ k + 1 # k
      BY <1>2, <1>5, <2>1
    <3>2. /\ r \in Seq(Cell) /\ Len(r) = Len(one)
          /\ \A j \in 1 .. Len(one) : r[j] = IF j = k + 1 THEN Half(p) ELSE one[j]
      BY <1>4, <1>5, <2>1, <3>1, OneCell
    <3> HIDE DEF r
    <3> QED BY <1>2, <1>5, <2>1, <3>1, <3>2
  <2>2. CASE w # 2
    BY <1>5, <2>2
  <2> QED BY <2>1, <2>2
<1> HIDE DEF r
<1>7. r[k].w = w /\ (w = 2 => r[k + 1].w = 0)
  BY <1>2, <1>3, <1>4, <1>6
<1>8. ASSUME WideWhole(c), x > 0 => c[x].w # 2, NEW j \in 1 .. Len(c), r[j].w = 2
      PROVE  j < Len(c) /\ r[j + 1] = Half(r[j].p)
  <2>1. CASE j = k
    <3>1. w = 2 /\ r[j] = e
      BY <1>2, <1>6, <1>7, <1>8, <2>1
    <3> QED BY <1>2, <1>3, <1>6, <2>1, <3>1
  <2>2. CASE j # k
    <3>1. r[j] = c[j] /\ c[j].w = 2
      BY <1>4, <1>6, <1>8, <2>2
    <3>2. j < Len(c) /\ c[j + 1] = Half(c[j].p) /\ j + 1 \in 1 .. Len(c)
      BY <1>2, <1>8, <3>1, WholeCells
    <3>3. j + 1 # k
      BY <1>2, <1>8, <3>1
    <3>4. CASE w = 2 /\ j + 1 = k + 1
      BY <1>2, <2>2, <3>4
    <3>5. CASE ~(w = 2 /\ j + 1 = k + 1)
      BY <1>6, <3>1, <3>2, <3>3, <3>5
    <3> QED BY <3>4, <3>5
  <2> QED BY <2>1, <2>2
<1>9. WideWhole(c) /\ (x > 0 => c[x].w # 2) => WideWhole(r)
  BY <1>6, <1>8, WholeCells
<1> QED BY <1>1, <1>6, <1>7, <1>9 DEF k

----------------------------------------------------------------------------
(* Lists of lines *)

\* An element of a list written over.
LEMMA OneItem ==
  ASSUME NEW S, NEW s \in Seq(S), NEW i \in 1 .. Len(s), NEW e \in S
  PROVE  /\ [s EXCEPT ![i] = e] \in Seq(S) /\ Len([s EXCEPT ![i] = e]) = Len(s)
         /\ \A j \in 1 .. Len(s) : [s EXCEPT ![i] = e][j] = IF j = i THEN e ELSE s[j]
BY ExceptSeq

\* A list's length and items.
LEMMA ItemsAre ==
  ASSUME NEW S, NEW s \in Seq(S)
  PROVE  Len(s) \in Nat /\ DOMAIN s = 1 .. Len(s) /\ \A i \in 1 .. Len(s) : s[i] \in S
BY LenProperties, ElementOfSeq

\* A part of a list, up to where it ends.
LEMMA PartIs ==
  ASSUME NEW S, NEW s \in Seq(S), NEW m \in Nat, NEW n \in Nat, m <= n, n <= Len(s)
  PROVE  /\ SubSeq(s, m + 1, n) \in Seq(S) /\ Len(SubSeq(s, m + 1, n)) = n - m
         /\ \A i \in 1 .. n - m : SubSeq(s, m + 1, n)[i] = s[m + i]
<1>1. \A i \in m + 1 .. n : s[i] \in S
  BY ItemsAre
<1>2. m + 1 \in Int /\ n - (m + 1) + 1 = n - m
  OBVIOUS
<1> DEFINE k == m + 1
<1>3. /\ SubSeq(s, k, n) \in Seq(S) /\ Len(SubSeq(s, k, n)) = IF k <= n THEN n - k + 1 ELSE 0
      /\ \A i \in 1 .. n - k + 1 : SubSeq(s, k, n)[i] = s[k + i - 1]
  <2> HIDE DEF k
  <2> QED BY <1>1, <1>2, SubSeqProperties DEF k
<1>4. Len(SubSeq(s, k, n)) = n - m
  BY <1>3
<1>5. ASSUME NEW i \in 1 .. n - m PROVE SubSeq(s, k, n)[i] = s[m + i]
  <2>1. i \in 1 .. n - k + 1 /\ k + i - 1 = m + i
    OBVIOUS
  <2> QED BY <1>3, <2>1
<1> QED BY <1>3, <1>4, <1>5

\* The beginning of a list.
LEMMA FrontIs ==
  ASSUME NEW S, NEW s \in Seq(S), NEW n \in Nat, n <= Len(s)
  PROVE  /\ SubSeq(s, 1, n) \in Seq(S) /\ Len(SubSeq(s, 1, n)) = n
         /\ \A i \in 1 .. n : SubSeq(s, 1, n)[i] = s[i]
<1> DEFINE z == 0
<1>1. z \in Nat /\ z <= n /\ z + 1 = 1 /\ n - z = n /\ \A i \in 1 .. n : z + i = i
  OBVIOUS
<1> HIDE DEF z
<1>2. /\ SubSeq(s, z + 1, n) \in Seq(S) /\ Len(SubSeq(s, z + 1, n)) = n - z
      /\ \A i \in 1 .. n - z : SubSeq(s, z + 1, n)[i] = s[z + i]
  BY <1>1, PartIs
<1> QED BY <1>1, <1>2

\* The last n items.
LEMMA NewestIs ==
  ASSUME NEW S, NEW s \in Seq(S), NEW n \in Nat
  PROVE  LET m == IF Len(s) <= n THEN 0 ELSE Len(s) - n IN
         /\ Newest(s, n) \in Seq(S) /\ Len(Newest(s, n)) = Len(s) - m
         /\ \A i \in 1 .. Len(s) - m : Newest(s, n)[i] = s[m + i]
<1> DEFINE len == Len(s)
           m == len - n
<1>1. len \in Nat
  BY ItemsAre
<1>2. CASE len <= n
  <2>1. len - 0 = len /\ \A i \in 1 .. len : 0 + i = i
    BY <1>1
  <2> QED BY <1>2, <2>1 DEF Newest
<1>3. CASE len > n
  <2>1. m \in Nat /\ m <= len /\ len <= Len(s) /\ ~(len <= n) /\ len - n + 1 = m + 1
    BY <1>1, <1>3
  <2>2. Newest(s, n) = SubSeq(s, m + 1, len)
    BY <2>1 DEF Newest
  <2> HIDE DEF m
  <2>3. /\ SubSeq(s, m + 1, len) \in Seq(S) /\ Len(SubSeq(s, m + 1, len)) = len - m
        /\ \A i \in 1 .. len - m : SubSeq(s, m + 1, len)[i] = s[m + i]
    BY <1>1, <2>1, PartIs
  <2> QED BY <2>1, <2>2, <2>3 DEF m
<1>4. len <= n \/ len > n
  BY <1>1
<1> QED BY <1>2, <1>3, <1>4

\* An item pushed: a full list loses its first one.
LEMMA ListPushIs ==
  ASSUME NEW S, NEW s \in Seq(S), NEW max \in Nat \ {0}, Len(s) <= max, NEW v \in S
  PROVE  LET r == ListPush(s, max, v) full == Len(s) = max IN
         /\ r \in Seq(S) /\ Len(r) = IF full THEN max ELSE Len(s) + 1
         /\ \A i \in 1 .. Len(s) - 1 : r[i] = IF full THEN s[i + 1] ELSE s[i]
         /\ ~full /\ Len(s) > 0 => r[Len(s)] = s[Len(s)]
         /\ r[Len(r)] = v
<1> DEFINE a == Append(s, v)
           r == Newest(a, max)
           len == Len(s)
<1>0. ListPush(s, max, v) = r
  BY DEF ListPush
<1>1. len \in Nat /\ a \in Seq(S) /\ Len(a) = len + 1 /\ (\A i \in 1 .. len : a[i] = s[i]) /\ a[len + 1] = v
  BY ItemsAre, AppendProperties
<1> HIDE DEF a
<1> DEFINE m == IF Len(a) <= max THEN 0 ELSE Len(a) - max
<1>2. r \in Seq(S) /\ Len(r) = Len(a) - m /\ \A i \in 1 .. Len(a) - m : r[i] = a[m + i]
  <2>1. a \in Seq(S) /\ max \in Nat
    BY <1>1
  <2> QED BY ONLY <2>1, NewestIs
<1>3. m = (IF len = max THEN 1 ELSE 0)
  BY <1>1
<1> HIDE DEF m, r
<1>4. Len(r) = (IF len = max THEN max ELSE len + 1)
  BY <1>1, <1>2, <1>3
<1>5. ASSUME NEW i \in 1 .. len - 1 PROVE r[i] = IF len = max THEN s[i + 1] ELSE s[i]
  <2>1. i \in 1 .. Len(a) - m /\ i \in 1 .. len /\ i + 1 \in 1 .. len /\ m + i = (IF len = max THEN i + 1 ELSE i)
    BY <1>1, <1>3
  <2> QED BY <1>1, <1>2, <2>1
<1>6. r[Len(r)] = v
  <2>1. Len(r) \in 1 .. Len(a) - m /\ m + Len(r) = len + 1
    BY <1>1, <1>2, <1>3, <1>4
  <2> QED BY <1>1, <1>2, <2>1
<1>7. ASSUME len # max, len > 0 PROVE r[len] = s[len]
  <2>1. len \in 1 .. Len(a) - m /\ m + len = len /\ len \in 1 .. len
    BY <1>1, <1>3, <1>7
  <2> QED BY <1>1, <1>2, <2>1
<1> QED BY <1>0, <1>2, <1>4, <1>5, <1>6, <1>7

\* An item taken out of a list.
LEMMA ListDelete ==
  ASSUME NEW S, NEW s \in Seq(S), NEW max \in Nat, Len(s) <= max, NEW at \in 0 .. Len(s) - 1
  PROVE  LET r == ListSplice(s, max, at, 1, <<>>) IN
         /\ r \in Seq(S) /\ Len(r) = Len(s) - 1
         /\ \A i \in 1 .. Len(s) - 1 : r[i] = IF i <= at THEN s[i] ELSE s[i + 1]
<1> DEFINE len == Len(s)
           head == SubSeq(s, 1, at)
           tail == SubSeq(s, (at + 1) + 1, len)
           r == head \o tail
<1>1. len \in Nat /\ at \in Nat /\ at <= len /\ at + 1 \in Nat /\ at + 1 <= len /\ len <= Len(s)
  BY ItemsAre
<1>2. head \in Seq(S) /\ Len(head) = at /\ \A i \in 1 .. at : head[i] = s[i]
  BY <1>1, FrontIs
<1>3. tail \in Seq(S) /\ Len(tail) = len - (at + 1) /\ \A i \in 1 .. len - (at + 1) : tail[i] = s[(at + 1) + i]
  <2> HIDE DEF len
  <2> DEFINE k == at + 1
  <2> HIDE DEF k
  <2> QED BY <1>1, PartIs DEF k
<1>4. ListSplice(s, max, at, 1, <<>>) = Newest(r, max)
  <2>1. head \o <<>> = head
    BY <1>2, ConcatEmptySeq
  <2> QED BY <2>1 DEF ListSplice
<1> HIDE DEF head, tail
<1>5. /\ r \in Seq(S) /\ Len(r) = at + (len - (at + 1))
      /\ \A i \in 1 .. at + (len - (at + 1)) : r[i] = IF i <= at THEN head[i] ELSE tail[i - at]
  <2>1. Len(tail) = len - (at + 1) /\ Len(head) = at
    BY <1>2, <1>3
  <2> HIDE DEF len
  <2> QED BY <1>2, <1>3, <2>1, JoinedAt
<1>6. at + (len - (at + 1)) = len - 1
  BY <1>1
<1> HIDE DEF r
<1>7. Newest(r, max) = r
  BY <1>1, <1>5, <1>6 DEF Newest
<1>8. ASSUME NEW i \in 1 .. len - 1 PROVE r[i] = IF i <= at THEN s[i] ELSE s[i + 1]
  <2>1. CASE i <= at
    BY <1>1, <1>2, <1>5, <1>6, <2>1
  <2>2. CASE i > at
    <3>1. i - at \in 1 .. len - (at + 1) /\ (at + 1) + (i - at) = i + 1 /\ ~(i <= at)
      BY <1>1, <2>2
    <3>2. r[i] = tail[i - at] /\ tail[i - at] = s[(at + 1) + (i - at)]
      BY <1>3, <1>5, <1>6, <3>1
    <3> QED BY <3>1, <3>2
  <2> QED BY <1>1, <2>1, <2>2
<1> QED BY <1>4, <1>5, <1>6, <1>7, <1>8

\* An item put into a list: a full one loses its first item.
LEMMA ListInsert ==
  ASSUME NEW S, NEW s \in Seq(S), NEW max \in Nat \ {0}, Len(s) <= max, NEW at \in 0 .. Len(s), NEW v \in S
  PROVE  LET r == ListSplice(s, max, at, 0, <<v>>) full == Len(s) = max IN
         /\ r \in Seq(S) /\ Len(r) = IF full THEN max ELSE Len(s) + 1
         /\ \A i \in 1 .. Len(s) : i <= at /\ ~full => r[i] = s[i]
         /\ \A i \in 1 .. Len(s) : i < at /\ full => r[i] = s[i + 1]
<1> DEFINE len == Len(s)
           head == SubSeq(s, 1, at)
           tail == SubSeq(s, at + 1, len)
           one == <<v>>
           front == head \o one
           a == front \o tail
           r == Newest(a, max)
<1>1. len \in Nat /\ at \in Nat /\ at <= len /\ len <= Len(s)
  BY ItemsAre
<1>2. head \in Seq(S) /\ Len(head) = at /\ \A i \in 1 .. at : head[i] = s[i]
  BY <1>1, FrontIs
<1>3. tail \in Seq(S) /\ Len(tail) = len - at
  <2> HIDE DEF len
  <2> QED BY <1>1, PartIs
<1>4. ListSplice(s, max, at, 0, <<v>>) = r
  <2>1. at + 0 + 1 = at + 1
    BY <1>1
  <2> QED BY <2>1 DEF ListSplice
<1>5. one \in Seq(S) /\ Len(one) = 1
  OBVIOUS
<1> HIDE DEF head, tail, one
<1>6. front \in Seq(S) /\ Len(front) = at + 1 /\ \A i \in 1 .. at + 1 : front[i] = IF i <= at THEN head[i] ELSE one[i - at]
  <2> DEFINE k == 1
  <2>1. head \in Seq(S) /\ one \in Seq(S) /\ Len(head) = at /\ Len(one) = k
    BY <1>2, <1>5
  <2> HIDE DEF k
  <2>2. front \in Seq(S) /\ Len(front) = at + k /\ \A i \in 1 .. at + k : front[i] = IF i <= at THEN head[i] ELSE one[i - at]
    BY ONLY <2>1, JoinedAt
  <2> QED BY <2>2 DEF k
<1> HIDE DEF front
<1>7. /\ a \in Seq(S) /\ Len(a) = (at + 1) + (len - at)
      /\ \A i \in 1 .. (at + 1) + (len - at) : a[i] = IF i <= at + 1 THEN front[i] ELSE tail[i - (at + 1)]
  <2> DEFINE k == at + 1
             l == len - at
  <2>1. Len(front) = k /\ Len(tail) = l
    BY <1>3, <1>6
  <2>2. front \in Seq(S) /\ tail \in Seq(S) /\ Len(front) = k /\ Len(tail) = l
    BY <1>3, <1>6, <2>1
  <2> HIDE DEF k, l
  <2>3. a \in Seq(S) /\ Len(a) = k + l /\ \A i \in 1 .. k + l : a[i] = IF i <= k THEN front[i] ELSE tail[i - k]
    BY ONLY <2>2, JoinedAt
  <2> QED BY <2>3 DEF k, l
<1>8. (at + 1) + (len - at) = len + 1
  BY <1>1
<1> HIDE DEF a
<1>9. ASSUME NEW i \in 1 .. at PROVE a[i] = s[i]
  <2>1. i \in 1 .. (at + 1) + (len - at) /\ i <= at + 1 /\ i \in 1 .. at + 1 /\ i <= at
    BY <1>1
  <2>2. a[i] = front[i]
    BY ONLY <1>7, <2>1
  <2>3. front[i] = head[i]
    BY ONLY <1>6, <2>1
  <2> QED BY <1>2, <2>2, <2>3
<1> DEFINE m == IF Len(a) <= max THEN 0 ELSE Len(a) - max
<1>10. r \in Seq(S) /\ Len(r) = Len(a) - m /\ \A i \in 1 .. Len(a) - m : r[i] = a[m + i]
  BY <1>7, NewestIs
<1>11. m = (IF len = max THEN 1 ELSE 0)
  BY <1>1, <1>7, <1>8
<1> HIDE DEF m, r
<1>12. Len(r) = IF len = max THEN max ELSE len + 1
  <2>1. Len(a) = len + 1 /\ Len(r) = Len(a) - m
    BY <1>7, <1>8, <1>10
  <2>2. CASE len = max
    BY <1>1, <1>11, <2>1, <2>2
  <2>3. CASE len # max
    BY <1>1, <1>11, <2>1, <2>3
  <2> QED BY <2>2, <2>3
<1>13. ASSUME NEW i \in 1 .. len, i <= at, len # max PROVE r[i] = s[i]
  <2>1. i \in 1 .. Len(a) - m /\ m + i = i /\ i \in 1 .. at
    BY <1>1, <1>7, <1>8, <1>11, <1>13
  <2> QED BY <1>9, <1>10, <2>1
<1>14. ASSUME NEW i \in 1 .. len, i < at, len = max PROVE r[i] = s[i + 1]
  <2>1. i \in 1 .. Len(a) - m /\ m + i = i + 1 /\ i + 1 \in 1 .. at
    BY <1>1, <1>7, <1>8, <1>11, <1>14
  <2> QED BY <1>9, <1>10, <2>1
<1> QED BY <1>4, <1>10, <1>12, <1>13, <1>14

\* Items copied further along: those before and behind the copies stay.
LEMMA ListShiftIs ==
  ASSUME NEW S, NEW s \in Seq(S), NEW start \in Nat, NEW count \in Int, start + count <= Len(s),
         NEW offset \in Int
  PROVE  LET r == ListShift(s, start, count, offset) IN
         /\ r \in Seq(S) /\ Len(r) = Len(s)
         /\ \A i \in 1 .. Len(s) : i - 1 - offset \notin start .. (start + count - 1) => r[i] = s[i]
<1> DEFINE f == [i \in DOMAIN s |->
                   IF i - 1 - offset \in start .. (start + count - 1) THEN s[i - offset] ELSE s[i]]
           r == Listed(f)
<1>0. ListShift(s, start, count, offset) = r
  BY DEF ListShift
<1>1. Len(s) \in Nat /\ DOMAIN s = 1 .. Len(s) /\ \A i \in 1 .. Len(s) : s[i] \in S
  BY ItemsAre
<1>2. ASSUME NEW i \in 1 .. Len(s) PROVE f[i] \in S
  <2>1. CASE i - 1 - offset \in start .. (start + count - 1)
    <3>1. i - offset \in 1 .. Len(s)
      BY <1>1, <2>1
    <3> QED BY <1>1, <2>1, <3>1
  <2>2. CASE i - 1 - offset \notin start .. (start + count - 1)
    BY <1>1, <2>2
  <2> QED BY <2>1, <2>2
<1>3. f \in [1 .. Len(s) -> S]
  BY <1>1, <1>2
<1>4. \A i \in 1 .. Len(s) : i - 1 - offset \notin start .. (start + count - 1) => f[i] = s[i]
  BY <1>1
<1> HIDE DEF f
<1>5. r \in Seq(S) /\ Len(r) = Len(s) /\ \A i \in 1 .. Len(s) : r[i] = f[i]
  BY <1>1, <1>3, ListedIs
<1> QED BY <1>0, <1>4, <1>5

\* The first items given up.
LEMMA ListTrimIs ==
  ASSUME NEW S, NEW s \in Seq(S), NEW n \in Nat, n <= Len(s)
  PROVE  /\ ListTrim(s, n) \in Seq(S) /\ Len(ListTrim(s, n)) = Len(s) - n
         /\ \A i \in 1 .. Len(s) - n : ListTrim(s, n)[i] = s[n + i]
<1>1. Len(s) \in Nat /\ Len(s) <= Len(s)
  BY ItemsAre
<1> DEFINE len == Len(s)
<1>2. len \in Nat /\ len <= Len(s) /\ n <= len
  BY <1>1
<1>3. ListTrim(s, n) = SubSeq(s, n + 1, len)
  BY DEF ListTrim
<1>4. len = Len(s)
  OBVIOUS
<1> HIDE DEF len
<1> QED BY <1>2, <1>3, <1>4, PartIs

----------------------------------------------------------------------------
(* Numbers *)

\* A set of numbers that are at least m has a least one.
LEMMA LeastIs ==
  ASSUME NEW m \in Int, NEW T, T # {}, \A i \in T : i \in Int /\ i >= m
  PROVE  \E i \in T : \A j \in T : i <= j
<1> DEFINE R == OpToRel(<, Nat)
           U == {n \in Nat : n + m \in T}
<1>1. IsWellFoundedOn(R, Nat) /\ U \subseteq Nat
  BY NatLessThanWellFounded
<1>2. U # {}
  <2>1. PICK i \in T : TRUE
    OBVIOUS
  <2>2. i - m \in Nat /\ (i - m) + m = i
    BY <2>1
  <2>3. i - m \in U
    BY <2>1, <2>2
  <2> QED BY <2>3
<1>3. \A x, y \in Nat : y < x => <<y, x>> \in R
  BY DEF OpToRel
<1> HIDE DEF R
<1>4. PICK n \in U : \A k \in U : ~ (<<k, n>> \in R)
  BY <1>1, <1>2, WFMin
<1>5. n \in Nat /\ n + m \in T
  BY <1>4
<1>6. ASSUME NEW j \in T, j < n + m PROVE FALSE
  <2>1. j - m \in Nat /\ (j - m) + m = j /\ j - m < n
    BY <1>5, <1>6
  <2>2. j - m \in U /\ <<j - m, n>> \in R
    BY <1>3, <1>5, <1>6, <2>1
  <2> QED BY <1>4, <2>2
<1>7. \A j \in T : n + m <= j
  <2>1. ASSUME NEW j \in T PROVE n + m <= j
    <3>1. j \in Int /\ ~(j < n + m)
      BY <1>6
    <3> QED BY <1>5, <3>1
  <2> QED BY <2>1
<1> QED BY <1>5, <1>7

\* And one of numbers that are at most m a greatest one.
LEMMA GreatestIs ==
  ASSUME NEW m \in Int, NEW T, T # {}, \A i \in T : i \in Int /\ i <= m
  PROVE  \E i \in T : \A j \in T : j <= i
<1> DEFINE U == {m - i : i \in T}
<1>1. U # {} /\ \A u \in U : u \in Int /\ u >= 0
  OBVIOUS
<1>2. PICK u \in U : \A v \in U : u <= v
  <2> HIDE DEF U
  <2> DEFINE z == 0
  <2>1. z \in Int /\ \A k \in U : k \in Int /\ k >= z
    BY <1>1
  <2> HIDE DEF z
  <2> QED BY <1>1, <2>1, LeastIs
<1>3. PICK i \in T : u = m - i
  BY <1>2
<1>4. ASSUME NEW j \in T PROVE j <= i
  <2>1. u <= m - j
    BY <1>2
  <2> QED BY <1>3, <2>1
<1> QED BY <1>4

\* The greater and the smaller of two.
LEMMA OfTwo ==
  ASSUME NEW m \in Int, NEW n \in Int
  PROVE  /\ LeastOf(m, n) \in Int /\ LeastOf(m, n) <= m /\ LeastOf(m, n) <= n
         /\ LeastOf(m, n) = m \/ LeastOf(m, n) = n
         /\ MostOf(m, n) \in Int /\ MostOf(m, n) >= m /\ MostOf(m, n) >= n
         /\ MostOf(m, n) = m \/ MostOf(m, n) = n
BY DEF LeastOf, MostOf

\* A number brought between two bounds.
LEMMA ClampIs ==
  ASSUME NEW n \in Int, NEW low \in Int, NEW high \in Int, low <= high
  PROVE  Clamp(n, low, high) \in low .. high /\ (n \in low .. high => Clamp(n, low, high) = n)
BY DEF Clamp, LeastOf, MostOf

----------------------------------------------------------------------------
(* Buffers *)

TextLine == [cells : Seq(Cell), wr : BOOLEAN]

RowsOf(cols, exact, whole) ==
  {r \in TextLine : /\ Len(r.cells) >= cols /\ (exact => Len(r.cells) = cols)
                    /\ (whole => WideWhole(r.cells))}

BufRec(S) ==
  [lines : Seq(S), max : Int, ybase : Int, ydisp : Int, x : Int, y : Int, top : Int, bot : Int,
   tabs : SUBSET Int, back : Nat, down : Int, sx : Int, sy : Int, so : BOOLEAN, sw : BOOLEAN, sp : BOOLEAN]

\* The list has a line for each row of the screen and as many as it may, the view
\* lies on it and the scroll region on the screen.
Framed(b, S, rows, back) ==
  /\ b \in BufRec(S) /\ b.back = back /\ b.max = rows + back /\ b.down = 0
  /\ 0 <= b.ydisp /\ b.ydisp <= b.ybase
  /\ b.ybase + rows <= Len(b.lines) /\ Len(b.lines) <= b.max
  /\ 0 <= b.top /\ b.top <= b.bot /\ b.bot < rows

OnScreen(b, cols, rows) == b.x \in 0 .. cols + 1 /\ b.y \in 0 .. rows - 1

\* c keeps b's history, and shows the same part of a list as long.
Past(b, c) ==
  /\ c.ybase = b.ybase /\ Len(c.lines) = Len(b.lines)
  /\ \A i \in 1 .. b.ybase : c.lines[i].cells = b.lines[i].cells

\* And its scroll region.
Onto(b, c) == Past(b, c) /\ c.top = b.top /\ c.bot = b.bot

\* A line and its parts.
LEMMA LineIs ==
  ASSUME NEW cols, NEW exact, NEW whole, NEW r \in RowsOf(cols, exact, whole)
  PROVE  /\ r \in TextLine /\ r.cells \in Seq(Cell) /\ r.wr \in BOOLEAN /\ Len(r.cells) \in Nat
         /\ Len(r.cells) >= cols /\ (exact => Len(r.cells) = cols) /\ (whole => WideWhole(r.cells))
<1>1. r.cells \in Seq(Cell)
  BY DEF RowsOf, TextLine
<1>2. Len(r.cells) \in Nat
  BY <1>1, CellsAre
<1> QED BY <1>1, <1>2 DEF RowsOf, TextLine

\* A line that continues the one above, or not.
Marked(r, wr) == [r EXCEPT !.wr = wr]

\* It has the same cells.
LEMMA MarkedIs ==
  ASSUME NEW cols, NEW exact, NEW whole, NEW r \in RowsOf(cols, exact, whole), NEW wr \in BOOLEAN
  PROVE  /\ Marked(r, wr) \in RowsOf(cols, exact, whole) /\ Marked(r, wr).cells = r.cells
         /\ Marked(r, wr).wr = wr
<1>1. /\ r \in TextLine /\ r.cells \in Seq(Cell) /\ r.wr \in BOOLEAN
      /\ Len(r.cells) >= cols /\ (exact => Len(r.cells) = cols) /\ (whole => WideWhole(r.cells))
  BY LineIs
<1>2. Marked(r, wr) \in TextLine /\ Marked(r, wr).cells = r.cells /\ Marked(r, wr).wr = wr
  BY <1>1 DEF TextLine, Marked
<1> QED BY <1>1, <1>2 DEF RowsOf

\* A line with other cells, as many.
LEMMA CellsPut ==
  ASSUME NEW cols, NEW exact, NEW whole, NEW r \in RowsOf(cols, exact, whole),
         NEW c, Alike(r.cells, c), NEW wr \in BOOLEAN
  PROVE  /\ [cells |-> c, wr |-> wr] \in RowsOf(cols, exact, whole)
         /\ SetCells(r, c) \in RowsOf(cols, exact, whole) /\ SetCells(r, c).cells = c
         /\ SetCells(r, c).wr = r.wr
<1>1. /\ r \in TextLine /\ r.cells \in Seq(Cell) /\ r.wr \in BOOLEAN
      /\ Len(r.cells) >= cols /\ (exact => Len(r.cells) = cols) /\ (whole => WideWhole(r.cells))
  BY LineIs
<1>2. c \in Seq(Cell) /\ Len(c) = Len(r.cells) /\ (whole => WideWhole(c))
  BY <1>1 DEF Alike
<1>3. [cells |-> c, wr |-> wr] \in TextLine
  BY <1>2 DEF TextLine
<1>4. SetCells(r, c) \in TextLine /\ SetCells(r, c).cells = c /\ SetCells(r, c).wr = r.wr
  BY <1>1, <1>2 DEF SetCells, TextLine
<1> QED BY <1>1, <1>2, <1>3, <1>4 DEF RowsOf

\* A blank line.
LEMMA BlankLineIs ==
  ASSUME NEW cols \in Nat, NEW exact \in BOOLEAN, NEW whole \in BOOLEAN, NEW wr \in BOOLEAN
  PROVE  BlankLine(cols, wr) \in RowsOf(cols, exact, whole)
<1> DEFINE no == FALSE
           c == Blanks(cols, no)
<1>1. no \in BOOLEAN
  OBVIOUS
<1> HIDE DEF no
<1>2. c \in Seq(Cell) /\ Len(c) = cols /\ \A i \in 1 .. cols : c[i] = Blank(no)
  BY <1>1, BlanksAre
<1>3. Blank(no).w = 1
  BY <1>1, BlankIs
<1>4. BlankLine(cols, wr) = [cells |-> c, wr |-> wr]
  BY DEF BlankLine, no
<1> HIDE DEF c
<1>5. WideWhole(c)
  <2>1. \A i \in 1 .. Len(c) : c[i].w # 2
    BY <1>2, <1>3
  <2> QED BY <1>2, <2>1, WholeCells
<1>6. [cells |-> c, wr |-> wr] \in TextLine
  BY <1>2 DEF TextLine
<1> QED BY <1>2, <1>4, <1>5, <1>6 DEF RowsOf

\* The parts of a buffer.
LEMMA FrameIs ==
  ASSUME NEW S, NEW rows \in Nat \ {0}, NEW back \in Nat, NEW b, Framed(b, S, rows, back)
  PROVE  /\ b \in BufRec(S) /\ b.lines \in Seq(S) /\ Len(b.lines) \in Nat
         /\ b.max \in Nat \ {0} /\ b.ybase \in Nat /\ b.ydisp \in Nat /\ b.ydisp <= b.ybase
         /\ b.top \in Nat /\ b.bot \in Nat /\ b.top <= b.bot /\ b.bot < rows
         /\ b.ybase + rows <= Len(b.lines) /\ Len(b.lines) <= b.max
         /\ b.x \in Int /\ b.y \in Int /\ b.tabs \in SUBSET Int /\ b.sx \in Int /\ b.sy \in Int
         /\ b.so \in BOOLEAN /\ b.sw \in BOOLEAN /\ b.sp \in BOOLEAN
         /\ \A i \in 1 .. Len(b.lines) : b.lines[i] \in S
<1>1. b \in BufRec(S) /\ b.lines \in Seq(S)
  BY DEF Framed, BufRec
<1>2. Len(b.lines) \in Nat /\ \A i \in 1 .. Len(b.lines) : b.lines[i] \in S
  BY <1>1, ItemsAre
<1> QED BY <1>1, <1>2 DEF Framed, BufRec

\* Other lines, as many, of which those of the history have the same cells.
LEMMA LinesPut ==
  ASSUME NEW S, NEW rows \in Nat \ {0}, NEW back \in Nat, NEW b, Framed(b, S, rows, back),
         NEW l \in Seq(S), Len(l) = Len(b.lines)
  PROVE  LET c == [b EXCEPT !.lines = l] IN
         /\ Framed(c, S, rows, back) /\ c.lines = l /\ c.x = b.x /\ c.y = b.y /\ c.max = b.max
         /\ (\A i \in 1 .. b.ybase : l[i].cells = b.lines[i].cells) => Onto(b, c)
         /\ c.ybase = b.ybase /\ c.top = b.top /\ c.bot = b.bot
<1>1. b \in BufRec(S)
  BY DEF Framed
<1> DEFINE c == [b EXCEPT !.lines = l]
<1>2. c \in BufRec(S) /\ c.lines = l /\ c.x = b.x /\ c.y = b.y /\ c.ybase = b.ybase /\ c.top = b.top
      /\ c.bot = b.bot /\ c.max = b.max /\ c.back = b.back /\ c.down = b.down /\ c.ydisp = b.ydisp
  BY <1>1 DEF BufRec
<1> HIDE DEF c
<1>3. Framed(c, S, rows, back)
  BY <1>2 DEF Framed
<1>4. (\A i \in 1 .. b.ybase : l[i].cells = b.lines[i].cells) => Onto(b, c)
  BY <1>2 DEF Onto, Past
<1> QED BY <1>2, <1>3, <1>4 DEF c

\* A buffer with its cursor elsewhere, or only its column, or only its row.
AtPlace(b, x, y) == [b EXCEPT !.x = x, !.y = y]
AtColumn(b, x) == [b EXCEPT !.x = x]
AtRow(b, y) == [b EXCEPT !.y = y]

\* The cursor elsewhere.
LEMMA AtPlaceIs ==
  ASSUME NEW S, NEW rows \in Nat \ {0}, NEW back \in Nat, NEW b, Framed(b, S, rows, back),
         NEW x \in Int, NEW y \in Int
  PROVE  /\ Framed(AtPlace(b, x, y), S, rows, back) /\ Onto(b, AtPlace(b, x, y)) /\ AtPlace(b, x, y).x = x /\ AtPlace(b, x, y).y = y
         /\ AtPlace(b, x, y).lines = b.lines /\ AtPlace(b, x, y).max = b.max
<1> DEFINE c == AtPlace(b, x, y)
<1>1. b \in BufRec(S) /\ b.x \in Int /\ b.y \in Int
  BY DEF Framed, BufRec
<1>2. c \in BufRec(S) /\ c.lines = b.lines /\ c.x = x /\ c.y = y /\ c.ybase = b.ybase /\ c.top = b.top
      /\ c.bot = b.bot /\ c.max = b.max /\ c.back = b.back /\ c.down = b.down /\ c.ydisp = b.ydisp
  BY <1>1 DEF BufRec, AtPlace
<1> HIDE DEF c
<1>3. Framed(c, S, rows, back) /\ Onto(b, c) /\ c.x = x /\ c.y = y /\ c.lines = b.lines /\ c.max = b.max
  BY <1>2 DEF Framed, Onto, Past
<1> QED BY <1>3 DEF c

\* Its column only.
LEMMA AtColumnIs ==
  ASSUME NEW S, NEW rows \in Nat \ {0}, NEW back \in Nat, NEW b, Framed(b, S, rows, back),
         NEW x \in Int
  PROVE  /\ Framed(AtColumn(b, x), S, rows, back) /\ Onto(b, AtColumn(b, x)) /\ AtColumn(b, x).x = x /\ AtColumn(b, x).y = b.y
         /\ AtColumn(b, x).lines = b.lines /\ AtColumn(b, x).max = b.max
<1> DEFINE c == AtColumn(b, x)
<1>1. b \in BufRec(S) /\ b.x \in Int /\ b.y \in Int
  BY DEF Framed, BufRec
<1>2. c \in BufRec(S) /\ c.lines = b.lines /\ c.x = x /\ c.y = b.y /\ c.ybase = b.ybase /\ c.top = b.top
      /\ c.bot = b.bot /\ c.max = b.max /\ c.back = b.back /\ c.down = b.down /\ c.ydisp = b.ydisp
  BY <1>1 DEF BufRec, AtColumn
<1> HIDE DEF c
<1>3. Framed(c, S, rows, back) /\ Onto(b, c) /\ c.x = x /\ c.y = b.y /\ c.lines = b.lines /\ c.max = b.max
  BY <1>2 DEF Framed, Onto, Past
<1> QED BY <1>3 DEF c

\* Its row only.
LEMMA AtRowIs ==
  ASSUME NEW S, NEW rows \in Nat \ {0}, NEW back \in Nat, NEW b, Framed(b, S, rows, back),
         NEW y \in Int
  PROVE  /\ Framed(AtRow(b, y), S, rows, back) /\ Onto(b, AtRow(b, y)) /\ AtRow(b, y).x = b.x /\ AtRow(b, y).y = y
         /\ AtRow(b, y).lines = b.lines /\ AtRow(b, y).max = b.max
<1> DEFINE c == AtRow(b, y)
<1>1. b \in BufRec(S) /\ b.x \in Int /\ b.y \in Int
  BY DEF Framed, BufRec
<1>2. c \in BufRec(S) /\ c.lines = b.lines /\ c.x = b.x /\ c.y = y /\ c.ybase = b.ybase /\ c.top = b.top
      /\ c.bot = b.bot /\ c.max = b.max /\ c.back = b.back /\ c.down = b.down /\ c.ydisp = b.ydisp
  BY <1>1 DEF BufRec, AtRow
<1> HIDE DEF c
<1>3. Framed(c, S, rows, back) /\ Onto(b, c) /\ c.x = b.x /\ c.y = y /\ c.lines = b.lines /\ c.max = b.max
  BY <1>2 DEF Framed, Onto, Past
<1> QED BY <1>3 DEF c

\* One after the other.
LEMMA OntoBoth ==
  ASSUME NEW b, NEW c, NEW d, Onto(b, c), Onto(c, d)
  PROVE  Onto(b, d) /\ Past(b, d)
BY DEF Onto, Past

\* A buffer keeps its own history.
LEMMA OntoSelf ==
  ASSUME NEW b
  PROVE  Onto(b, b) /\ Past(b, b)
BY DEF Onto, Past

\* A row of the screen is a line behind the history.
LEMMA RowIs ==
  ASSUME NEW S, NEW rows \in Nat \ {0}, NEW back \in Nat, NEW b, Framed(b, S, rows, back), NEW y \in 0 .. rows - 1
  PROVE  /\ b.ybase + y + 1 \in 1 .. Len(b.lines) /\ b.ybase + y + 1 > b.ybase /\ Row(b, y) \in S
         /\ Row(b, y) = b.lines[b.ybase + y + 1]
<1>1. /\ b.ybase \in Nat /\ Len(b.lines) \in Nat /\ b.ybase + rows <= Len(b.lines)
      /\ \A i \in 1 .. Len(b.lines) : b.lines[i] \in S
  BY FrameIs
<1>2. b.ybase + y + 1 \in 1 .. Len(b.lines) /\ b.ybase + y + 1 > b.ybase
  BY <1>1
<1> QED BY <1>1, <1>2 DEF Row

\* A row written over.
LEMMA SetRowIs ==
  ASSUME NEW S, NEW rows \in Nat \ {0}, NEW back \in Nat, NEW b, Framed(b, S, rows, back),
         NEW y \in 0 .. rows - 1, NEW r \in S
  PROVE  /\ Framed(SetRow(b, y, r), S, rows, back) /\ Onto(b, SetRow(b, y, r))
         /\ SetRow(b, y, r).x = b.x /\ SetRow(b, y, r).y = b.y /\ SetRow(b, y, r).max = b.max
         /\ Row(SetRow(b, y, r), y) = r
<1> DEFINE k == b.ybase + y + 1
           l == [b.lines EXCEPT ![k] = r]
           c == [b EXCEPT !.lines = l]
<1>1. /\ b.ybase \in Nat /\ Len(b.lines) \in Nat /\ b.ybase + rows <= Len(b.lines) /\ b.lines \in Seq(S)
      /\ b \in BufRec(S)
  BY FrameIs
<1>2. k \in 1 .. Len(b.lines) /\ k > b.ybase
  BY RowIs
<1>3. SetRow(b, y, r) = c
  BY <1>1 DEF SetRow, BufRec
<1> HIDE DEF k
<1>4. l \in Seq(S) /\ Len(l) = Len(b.lines) /\ \A j \in 1 .. Len(b.lines) : l[j] = IF j = k THEN r ELSE b.lines[j]
  BY <1>1, <1>2, OneItem
<1> HIDE DEF l
<1>5. \A i \in 1 .. b.ybase : l[i].cells = b.lines[i].cells
  <2>1. ASSUME NEW i \in 1 .. b.ybase PROVE l[i] = b.lines[i]
    <3>1. i \in 1 .. Len(b.lines) /\ i # k
      BY <1>1, <1>2
    <3> QED BY <1>4, <3>1
  <2> QED BY <2>1
<1>6. Framed(c, S, rows, back) /\ c.lines = l /\ c.x = b.x /\ c.y = b.y /\ Onto(b, c) /\ c.ybase = b.ybase /\ c.max = b.max
  BY <1>4, <1>5, LinesPut
<1> HIDE DEF c
<1>7. Row(c, y) = r
  BY <1>2, <1>4, <1>6 DEF Row, k
<1> QED BY <1>3, <1>6, <1>7

----------------------------------------------------------------------------
(* Buffers whose size changes *)

\* Between the sizes: no more lines than max, and the view lies on them.
Sizing(b, S, max, back) ==
  /\ b \in BufRec(S) /\ b.back = back /\ b.max = max
  /\ 0 <= b.ydisp /\ b.ydisp <= b.ybase /\ Len(b.lines) <= max

\* A line that is continued below has m cells.
Chained(m, l) == \A i \in 1 .. Len(l) - 1 : l[i + 1].wr => Len(l[i].cells) = m

\* What a buffer has got, part by part.
LEMMA SizingIs ==
  ASSUME NEW S, NEW max, NEW back, NEW b, Sizing(b, S, max, back)
  PROVE  /\ b \in BufRec(S) /\ b.lines \in Seq(S) /\ Len(b.lines) \in Nat /\ b.max \in Int /\ b.max = max
         /\ b.back = back /\ b.back \in Nat
         /\ b.ybase \in Nat /\ b.ydisp \in Nat /\ b.ydisp <= b.ybase /\ Len(b.lines) <= max
         /\ b.x \in Int /\ b.y \in Int /\ b.down \in Int /\ b.sx \in Int /\ b.sy \in Int
         /\ b.top \in Int /\ b.bot \in Int /\ b.tabs \in SUBSET Int
<1>1. b \in BufRec(S) /\ b.lines \in Seq(S)
  BY DEF Sizing, BufRec
<1>2. Len(b.lines) \in Nat
  BY <1>1, ItemsAre
<1> QED BY <1>1, <1>2 DEF Sizing, BufRec

\* Some of its numbers changed.
Moved(b, base, down, disp) == [b EXCEPT !.ybase = base, !.down = down, !.ydisp = disp]

\* They are in its place.
LEMMA MovedIs ==
  ASSUME NEW S, NEW max, NEW back, NEW b, Sizing(b, S, max, back),
         NEW base \in Nat, NEW down \in Int, NEW disp \in 0 .. base
  PROVE  /\ Sizing(Moved(b, base, down, disp), S, max, back)
         /\ Moved(b, base, down, disp).ybase = base /\ Moved(b, base, down, disp).down = down
         /\ Moved(b, base, down, disp).lines = b.lines
         /\ Moved(b, base, down, disp).x = b.x /\ Moved(b, base, down, disp).y = b.y
<1> DEFINE c1 == [b EXCEPT !.ybase = base]
           c2 == [c1 EXCEPT !.down = down]
           c == [c2 EXCEPT !.ydisp = disp]
           Close(d) == /\ d \in BufRec(S) /\ d.lines = b.lines /\ d.max = b.max /\ d.back = b.back
                       /\ d.x = b.x /\ d.y = b.y /\ d.ybase = base
<1>1. b \in BufRec(S) /\ base \in Int /\ disp \in Int
  BY DEF Sizing
<1>2. Close(c1)
  BY <1>1 DEF BufRec
<1>3. Moved(b, base, down, disp) = c
  BY DEF Moved
<1> HIDE DEF c1
<1>4. Close(c2) /\ c2.down = down
  BY <1>1, <1>2 DEF BufRec
<1> HIDE DEF c2
<1>5. Close(c) /\ c.down = down /\ c.ydisp = disp
  BY <1>1, <1>4 DEF BufRec
<1> HIDE DEF c
<1>6. Sizing(c, S, max, back)
  BY <1>5 DEF Sizing
<1> QED BY <1>3, <1>5, <1>6

\* Its lines changed.
Lined(b, lines) == [b EXCEPT !.lines = lines]

\* They are in its place.
LEMMA LinedIs ==
  ASSUME NEW S, NEW T, NEW max, NEW back, NEW b, Sizing(b, S, max, back), NEW l \in Seq(T), Len(l) <= max
  PROVE  /\ Sizing(Lined(b, l), T, max, back) /\ Lined(b, l).lines = l
         /\ Lined(b, l).ybase = b.ybase /\ Lined(b, l).down = b.down
         /\ Lined(b, l).x = b.x /\ Lined(b, l).y = b.y
         /\ Lined(b, l).top = b.top /\ Lined(b, l).bot = b.bot
<1>1. b \in BufRec(S)
  BY DEF Sizing
<1> DEFINE c == Lined(b, l)
<1>2. c \in BufRec(T) /\ c.lines = l /\ c.ybase = b.ybase /\ c.down = b.down /\ c.x = b.x /\ c.y = b.y
      /\ c.max = b.max /\ c.back = b.back /\ c.ydisp = b.ydisp /\ c.top = b.top /\ c.bot = b.bot
  BY <1>1 DEF BufRec, Lined
<1> HIDE DEF c
<1>3. Sizing(c, T, max, back)
  BY <1>2 DEF Sizing
<1> QED BY <1>2, <1>3 DEF c

\* A blank line continues none.
LEMMA BlankLineEnds ==
  ASSUME NEW cols
  PROVE  BlankLine(cols, FALSE).wr = FALSE
BY DEF BlankLine

\* A line more at the end that continues none.
LEMMA ChainedMore ==
  ASSUME NEW S, NEW s \in Seq(S), NEW m, Chained(m, s), NEW r \in Seq(S), NEW v,
         Len(r) = Len(s) + 1, \A i \in 1 .. Len(s) : r[i] = s[i], r[Len(r)] = v, v.wr = FALSE
  PROVE  Chained(m, r)
<1>1. Len(s) \in Nat /\ Len(r) \in Nat
  BY ItemsAre
<1>2. ASSUME NEW i \in 1 .. Len(r) - 1, r[i + 1].wr PROVE Len(r[i].cells) = m
  <2>1. i \in 1 .. Len(s) /\ i + 1 # Len(r) /\ i \in 1 .. Len(s) - 1 /\ i + 1 \in 1 .. Len(s)
    <3>1. i + 1 # Len(r)
      BY <1>2
    <3> QED BY <1>1, <3>1
  <2>2. r[i] = s[i] /\ r[i + 1] = s[i + 1]
    BY <2>1
  <2> QED BY <1>2, <2>1, <2>2 DEF Chained
<1> QED BY <1>2 DEF Chained

\* Lines in a row of a list.
LEMMA ChainedPart ==
  ASSUME NEW S, NEW s \in Seq(S), NEW m, Chained(m, s), NEW r \in Seq(S), NEW d \in Nat,
         Len(r) + d <= Len(s), \A i \in 1 .. Len(r) : r[i] = s[d + i]
  PROVE  Chained(m, r)
<1>1. Len(s) \in Nat /\ Len(r) \in Nat
  BY ItemsAre
<1>2. ASSUME NEW i \in 1 .. Len(r) - 1, r[i + 1].wr PROVE Len(r[i].cells) = m
  <2>1. i \in 1 .. Len(r) /\ i + 1 \in 1 .. Len(r) /\ d + i \in 1 .. Len(s) - 1 /\ d + (i + 1) = (d + i) + 1
    BY <1>1
  <2>2. r[i] = s[d + i] /\ r[i + 1] = s[(d + i) + 1]
    BY <2>1
  <2> QED BY <1>2, <2>1, <2>2 DEF Chained
<1> QED BY <1>2 DEF Chained

\* One row more: need rows lie behind the history before, one more after.
LEMMA OneRowMoreIs ==
  ASSUME NEW S, NEW cols \in Nat, BlankLine(cols, FALSE) \in S, NEW rows \in Nat \ {0}, NEW back \in Nat,
         NEW max \in Nat \ {0}, rows + back <= max, NEW b, Sizing(b, S, max, back), b.ybase <= back,
         NEW need \in Int, need < rows, b.ybase + need <= Len(b.lines), NEW m
  PROVE  LET c == OneRowMore(b, cols, rows) IN
         /\ Sizing(c, S, max, back) /\ c.ybase <= back /\ c.ybase + need + 1 <= Len(c.lines)
         /\ c.x = b.x /\ c.y = b.y /\ c.down \in b.down .. b.down + 1
         /\ Chained(m, b.lines) => Chained(m, c.lines)
<1> DEFINE c == OneRowMore(b, cols, rows)
           v == BlankLine(cols, FALSE)
           l == ListPush(b.lines, b.max, v)
           base == b.ybase - 1
           down == b.down + 1
           disp == MostOf(b.ydisp - 1, 0)
           enough == Len(b.lines) >= rows + b.ybase
           takes == b.ybase > 0 /\ Len(b.lines) <= b.ybase + b.y + b.down + 1
<1>1. /\ b \in BufRec(S) /\ b.lines \in Seq(S) /\ Len(b.lines) \in Nat /\ b.max = max
      /\ b.ybase \in Nat /\ b.ydisp \in Nat /\ b.ydisp <= b.ybase /\ Len(b.lines) <= max /\ b.down \in Int
  BY SizingIs
<1>2. CASE enough
  <2>1. c = b
    BY <1>2 DEF OneRowMore
  <2>2. b.ybase + need + 1 <= Len(b.lines) /\ b.down \in b.down .. b.down + 1
    BY <1>1, <1>2
  <2> QED BY <2>1, <2>2
<1>3. CASE ~enough /\ takes
  <2>1. c = Moved(b, base, down, disp)
    BY <1>3 DEF OneRowMore, Moved
  <2>2. base \in Nat /\ down \in Int /\ disp \in 0 .. base /\ base <= back
    <3>1. base \in Nat /\ base <= back
      BY ONLY <1>1, <1>3, b.ybase <= back, back \in Nat DEF base, takes
    <3>2. disp \in 0 .. base
      <4> DEFINE x == b.ydisp
                 y == b.ybase
      <4>1. x \in Nat /\ y \in Nat /\ x <= y /\ y - 1 \in Nat
        BY ONLY <1>1, <3>1 DEF base
      <4> HIDE DEF x, y
      <4>2. MostOf(x - 1, 0) \in 0 .. y - 1
        BY ONLY <4>1 DEF MostOf
      <4> QED BY <4>2 DEF x, y
    <3>3. down \in Int
      BY ONLY <1>1 DEF down
    <3> QED BY ONLY <3>1, <3>2, <3>3
  <2>3. base + need + 1 <= Len(b.lines) /\ down \in b.down .. b.down + 1
    <3>1. base + need + 1 = b.ybase + need
      BY ONLY <1>1, need \in Int DEF base
    <3>2. down \in b.down .. b.down + 1
      BY ONLY <1>1 DEF down
    <3> QED BY ONLY <3>1, <3>2, b.ybase + need <= Len(b.lines)
  <2> HIDE DEF base, down, disp, c
  <2>4. /\ Sizing(c, S, max, back) /\ c.ybase = base /\ c.down = down /\ c.lines = b.lines
        /\ c.x = b.x /\ c.y = b.y
    BY <2>1, <2>2, MovedIs
  <2> QED BY <2>2, <2>3, <2>4 DEF c
<1>4. CASE ~enough /\ ~takes
  <2>1. c = Lined(b, l)
    BY <1>4 DEF OneRowMore, Lined
  <2>2. Len(b.lines) < max /\ b.max \in Nat \ {0} /\ Len(b.lines) <= b.max
    BY <1>1, <1>4
  <2>3. v \in S /\ v.wr = FALSE
    BY BlankLineEnds
  <2> HIDE DEF v
  <2>4. /\ l \in Seq(S) /\ Len(l) = Len(b.lines) + 1 /\ l[Len(l)] = v
        /\ \A i \in 1 .. Len(b.lines) : l[i] = b.lines[i]
    <3> DEFINE s == b.lines
               mx == b.max
    <3>1. s \in Seq(S) /\ mx \in Nat \ {0} /\ Len(s) <= mx /\ Len(s) # mx /\ Len(s) \in Nat /\ l = ListPush(s, mx, v)
      BY <1>1, <2>2
    <3> HIDE DEF s, mx, l
    <3>2. /\ l \in Seq(S) /\ Len(l) = Len(s) + 1 /\ l[Len(l)] = v
          /\ \A i \in 1 .. Len(s) - 1 : l[i] = s[i]
          /\ Len(s) > 0 => l[Len(s)] = s[Len(s)]
      BY <2>3, <3>1, ListPushIs
    <3>3. ASSUME NEW i \in 1 .. Len(s) PROVE l[i] = s[i]
      <4>1. i \in 1 .. Len(s) - 1 \/ (i = Len(s) /\ Len(s) > 0)
        BY <3>1
      <4> QED BY <3>2, <4>1
    <3> QED BY <3>2, <3>3 DEF s
  <2> HIDE DEF l, c
  <2>5. Len(l) <= max
    BY <1>1, <2>2, <2>4
  <2>6. /\ Sizing(c, S, max, back) /\ c.lines = l /\ c.ybase = b.ybase /\ c.down = b.down
        /\ c.x = b.x /\ c.y = b.y
    BY <2>1, <2>4, <2>5, LinedIs
  <2>7. ASSUME Chained(m, b.lines) PROVE Chained(m, l)
    BY <1>1, <2>3, <2>4, <2>7, ChainedMore
  <2>8. c.ybase + need + 1 <= Len(c.lines) /\ c.down \in b.down .. b.down + 1
    BY <1>1, <2>4, <2>6
  <2> QED BY <2>6, <2>7, <2>8 DEF c
<1> QED BY <1>2, <1>3, <1>4

\* One row less: behind the history there are rows lines, before and after.
LEMMA OneRowLessIs ==
  ASSUME NEW S, NEW rows \in Nat \ {0}, NEW back \in Nat, NEW max \in Nat, NEW b, Sizing(b, S, max, back),
         b.ybase + rows <= Len(b.lines), NEW m
  PROVE  LET c == OneRowLess(b, rows) IN
         /\ Sizing(c, S, max, back) /\ c.ybase + rows <= Len(c.lines)
         /\ c.x = b.x /\ c.y = b.y /\ c.down = b.down
         /\ Chained(m, b.lines) => Chained(m, c.lines)
<1> DEFINE c == OneRowLess(b, rows)
           l == Front(b.lines)
           base == b.ybase + 1
           disp == b.ydisp + 1
           down == b.down
           enough == Len(b.lines) <= rows + b.ybase
           pops == Len(b.lines) > b.ybase + b.y + 1
<1>1. /\ b \in BufRec(S) /\ b.lines \in Seq(S) /\ Len(b.lines) \in Nat /\ b.max = max
      /\ b.ybase \in Nat /\ b.ydisp \in Nat /\ b.ydisp <= b.ybase /\ Len(b.lines) <= max /\ b.down \in Int
  BY SizingIs
<1>2. CASE enough
  BY <1>2 DEF OneRowLess
<1>3. CASE ~enough /\ pops
  <2>1. c = Lined(b, l)
    BY <1>3 DEF OneRowLess, Lined
  <2>2. /\ l \in Seq(S) /\ Len(l) = Len(b.lines) - 1 /\ \A i \in 1 .. Len(l) : l[i] = b.lines[0 + i]
    <3> DEFINE s == b.lines
               n == Len(s) - 1
    <3>1. s \in Seq(S) /\ n \in Nat /\ n <= Len(s) /\ l = SubSeq(s, 1, n)
      BY <1>1, <1>3 DEF Front
    <3>4. n = Len(s) - 1
      OBVIOUS
    <3> HIDE DEF s, n, l
    <3>2. l \in Seq(S) /\ Len(l) = n /\ \A i \in 1 .. n : l[i] = s[i]
      BY <3>1, FrontIs
    <3>3. ASSUME NEW i \in 1 .. Len(l) PROVE l[i] = s[0 + i]
      <4>1. 0 + i = i
        BY <3>1, <3>2
      <4> QED BY <3>2, <4>1
    <3> QED BY <3>2, <3>3, <3>4 DEF s
  <2> HIDE DEF l, c
  <2>3. Len(l) <= max
    BY <1>1, <2>2
  <2>4. /\ Sizing(c, S, max, back) /\ c.lines = l /\ c.ybase = b.ybase /\ c.down = b.down
        /\ c.x = b.x /\ c.y = b.y
    BY <2>1, <2>2, <2>3, LinedIs
  <2>5. ASSUME Chained(m, b.lines) PROVE Chained(m, l)
    <3> DEFINE d == 0
    <3>1. d \in Nat /\ Len(l) + d <= Len(b.lines) /\ \A i \in 1 .. Len(l) : l[i] = b.lines[d + i]
      BY <1>1, <2>2
    <3> HIDE DEF d
    <3> QED BY <1>1, <2>2, <2>5, <3>1, ChainedPart
  <2>6. c.ybase + rows <= Len(c.lines)
    BY <1>1, <1>3, <2>2, <2>4
  <2> QED BY <2>4, <2>5, <2>6 DEF c
<1>4. CASE ~enough /\ ~pops
  <2>1. c = Moved(b, base, down, disp)
    <3>1. c = [b EXCEPT !.ybase = base, !.ydisp = disp]
      BY <1>4 DEF OneRowLess
    <3>2. [b EXCEPT !.ybase = base, !.ydisp = disp] = [b EXCEPT !.ybase = base, !.down = b.down, !.ydisp = disp]
      BY ONLY <1>1 DEF BufRec
    <3> QED BY <3>1, <3>2 DEF Moved
  <2>2. base \in Nat /\ down \in Int /\ disp \in 0 .. base
    BY <1>1
  <2>3. base + rows <= Len(b.lines)
    BY <1>1, <1>4
  <2> HIDE DEF base, disp, c
  <2>4. /\ Sizing(c, S, max, back) /\ c.ybase = base /\ c.down = down /\ c.lines = b.lines
        /\ c.x = b.x /\ c.y = b.y
    <3> HIDE DEF down
    <3> QED BY <2>1, <2>2, MovedIs
  <2> QED BY <2>3, <2>4 DEF c
<1> QED BY <1>2, <1>3, <1>4

\* c is what b becomes on the way to rows rows.
Rowed(b, c, S, max, back, rows, m) ==
  /\ Sizing(c, S, max, back) /\ c.ybase + rows <= Len(c.lines) /\ c.x = b.x /\ c.y = b.y
  /\ Chained(m, b.lines) => Chained(m, c.lines)

\* Rows more: the cursor moves down no further than they are.
LEMMA RowsMore ==
  ASSUME NEW S, NEW cols \in Nat, BlankLine(cols, FALSE) \in S, NEW rows \in Nat \ {0}, NEW back \in Nat,
         NEW max \in Nat \ {0}, rows + back <= max, NEW b, Sizing(b, S, max, back), b.ybase <= back,
         NEW old \in Nat, old < rows, b.ybase + old <= Len(b.lines), b.down = 0, NEW m
  PROVE  /\ Rowed(b, ResizeRows(b, old, cols, rows), S, max, back, rows, m)
         /\ ResizeRows(b, old, cols, rows).down \in 0 .. rows - old
<1> DEFINE n == rows - old
           v == b
           X == {a \in BufRec(S) : Sizing(a, S, max, back)}
           P(a, k) == /\ a.ybase <= back /\ a.ybase + old + k <= Len(a.lines)
                      /\ a.x = b.x /\ a.y = b.y /\ a.down \in 0 .. k
                      /\ Chained(m, b.lines) => Chained(m, a.lines)
           body(a, k) == OneRowMore(a, cols, rows)
           I == [k \in 0 .. n |-> {a \in X : P(a, k)}]
           stp == [k \in 1 .. n |-> [a \in X |-> body(a, k)]]
           Eq(g) == g = [k \in 0 .. n |-> IF k = 0 THEN v ELSE body(g[k - 1], k)]
           at == CHOOSE g : Eq(g)
<1>1. ResizeRows(b, old, cols, rows) = at[n]
  BY DEF ResizeRows, Times
<1>2. n \in Nat /\ n = rows - old
  OBVIOUS
<1>3. v \in X /\ P(v, 0)
  <2>1. b \in BufRec(S) /\ b.ybase \in Nat /\ Len(b.lines) \in Nat
    BY SizingIs
  <2> QED BY <2>1
<1>4. \A a \in X : \A k \in 1 .. n : P(a, k - 1) => body(a, k) \in X /\ P(body(a, k), k)
  <2>1. ASSUME NEW a \in X, NEW k \in 1 .. n, P(a, k - 1) PROVE body(a, k) \in X /\ P(body(a, k), k)
    <3> DEFINE need == old + (k - 1)
               c == OneRowMore(a, cols, rows)
    <3>1. need \in Int /\ need < rows /\ a.ybase \in Nat /\ a.ybase + need <= Len(a.lines) /\ a.down \in Int
          /\ Sizing(a, S, max, back) /\ a.ybase <= back /\ a.ybase \in Int /\ k \in Nat
      BY <2>1, SizingIs
    <3>2. need + 1 = old + k
      OBVIOUS
    <3> HIDE DEF need
    <3>3. /\ Sizing(c, S, max, back) /\ c.ybase <= back /\ c.ybase + need + 1 <= Len(c.lines)
          /\ c.x = a.x /\ c.y = a.y /\ c.down \in a.down .. a.down + 1
          /\ Chained(m, a.lines) => Chained(m, c.lines)
      BY <3>1, OneRowMoreIs
    <3> HIDE DEF c
    <3>4. c \in BufRec(S) /\ c.ybase \in Nat /\ Len(c.lines) \in Nat
      BY <3>3, SizingIs
    <3>5. c.ybase + old + k <= Len(c.lines)
      BY <3>1, <3>2, <3>3, <3>4
    <3>6. c.down \in 0 .. k
      <4>1. a.down \in 0 .. k - 1
        BY <2>1
      <4> QED BY ONLY <3>1, <3>3, <4>1
    <3> QED BY <2>1, <3>3, <3>4, <3>5, <3>6 DEF c
  <2> QED BY <2>1
<1>5. \A a \in X : P(a, n) => /\ Sizing(a, S, max, back) /\ a.ybase + rows <= Len(a.lines)
                              /\ a.x = b.x /\ a.y = b.y /\ a.down \in 0 .. rows - old
                              /\ Chained(m, b.lines) => Chained(m, a.lines)
  <2>1. ASSUME NEW a \in X, P(a, n) PROVE a.ybase + rows <= Len(a.lines)
    <3>1. a.ybase \in Nat /\ Len(a.lines) \in Nat
      BY SizingIs
    <3> QED BY <2>1, <3>1
  <2> QED BY <2>1
<1> HIDE DEF n, v, X, P, body
<1>6. /\ n \in Nat /\ v \in I[0] /\ n \in 0 .. n
      /\ \A k \in 1 .. n : k \in 0 .. n /\ k # 0 /\ \A e \in I[k - 1] : stp[k][e] \in I[k] /\ stp[k][e] = body(e, k)
  <2>1. 0 \in 0 .. n /\ n \in 0 .. n
    BY <1>2
  <2>2. ASSUME NEW k \in 1 .. n PROVE k - 1 \in 0 .. n /\ k \in 0 .. n /\ k # 0
    BY <1>2
  <2>3. ASSUME NEW k \in 1 .. n, NEW e \in I[k - 1] PROVE stp[k][e] \in I[k] /\ stp[k][e] = body(e, k)
    <3>1. e \in X /\ P(e, k - 1)
      BY <2>2
    <3>2. body(e, k) \in X /\ P(body(e, k), k)
      BY <1>4, <3>1
    <3> QED BY <2>2, <3>1, <3>2
  <2> QED BY <1>2, <1>3, <2>1, <2>2, <2>3
<1>7. \A e \in I[n] : e \in X /\ P(e, n)
  BY <1>6
<1> HIDE DEF I, stp
<1>8. PICK g : Loops(g, n, v, stp) /\ \A k \in 0 .. n : g[k] \in I[k]
  BY <1>6, LoopRuns
<1>9. Eq(g)
  <2>1. g = [k \in 0 .. n |-> IF k = 0 THEN v ELSE stp[k][g[k - 1]]]
    BY <1>8 DEF Loops
  <2>2. ASSUME NEW k \in 0 .. n
        PROVE (IF k = 0 THEN v ELSE stp[k][g[k - 1]]) = (IF k = 0 THEN v ELSE body(g[k - 1], k))
    <3>1. CASE k # 0
      <4>1. k \in 1 .. n /\ k - 1 \in 0 .. n
        BY <1>2, <3>1
      <4> QED BY <1>6, <1>8, <3>1, <4>1
    <3> QED BY <3>1
  <2> QED BY <2>1, <2>2
<1>10. Eq(at)
  <2> HIDE DEF Eq
  <2> QED BY <1>9
<1> HIDE DEF at
<1>11. at[0] = v /\ \A k \in 1 .. n : at[k] = body(at[k - 1], k)
  <2>1. 0 \in 0 .. n
    BY <1>2
  <2> QED BY <1>6, <1>10, <2>1
<1> HIDE DEF Eq
<1>12. at[n] \in X /\ P(at[n], n)
  <2>1. ASSUME NEW k \in 1 .. n, at[k - 1] \in I[k - 1] PROVE at[k] \in I[k]
    BY <1>6, <1>11, <2>1
  <2>2. at[n] \in I[n]
    BY <1>6, <1>11, <2>1, LoopHolds
  <2> QED BY <1>7, <2>2
<1> QED BY <1>1, <1>5, <1>12 DEF Rowed

\* d has the rows, and the cursor stays.
Lessened(b, d, S, max, back, rows, m) == Rowed(b, d, S, max, back, rows, m) /\ d.down = b.down

\* As many rows or fewer.
LEMMA RowsLess ==
  ASSUME NEW S, NEW cols \in Nat, NEW rows \in Nat \ {0}, NEW back \in Nat,
         NEW max \in Nat, NEW b, Sizing(b, S, max, back),
         NEW old \in Nat, old >= rows, b.ybase + rows <= Len(b.lines), NEW m
  PROVE  Lessened(b, ResizeRows(b, old, cols, rows), S, max, back, rows, m)
<1> DEFINE n == old - rows
           v == b
           X == {a \in BufRec(S) : Sizing(a, S, max, back)}
           P(a, k) == /\ a.ybase + rows <= Len(a.lines)
                      /\ a.x = b.x /\ a.y = b.y /\ a.down = b.down
                      /\ Chained(m, b.lines) => Chained(m, a.lines)
           body(a, k) == OneRowLess(a, rows)
           I == [k \in 0 .. n |-> {a \in X : P(a, k)}]
           stp == [k \in 1 .. n |-> [a \in X |-> body(a, k)]]
           Eq(g) == g = [k \in 0 .. n |-> IF k = 0 THEN v ELSE body(g[k - 1], k)]
           at == CHOOSE g : Eq(g)
<1>1. ResizeRows(b, old, cols, rows) = IF n > 0 THEN at[n] ELSE b
  BY DEF ResizeRows, Times
<1>2. n \in Nat
  OBVIOUS
<1>3. v \in X /\ P(v, 0)
  <2>1. b \in BufRec(S)
    BY SizingIs
  <2> QED BY <2>1
<1>4. \A a \in X : \A k \in 1 .. n : P(a, k - 1) => body(a, k) \in X /\ P(body(a, k), k)
  <2>1. ASSUME NEW a \in X, NEW k \in 1 .. n, P(a, k - 1) PROVE body(a, k) \in X /\ P(body(a, k), k)
    <3> DEFINE c == OneRowLess(a, rows)
    <3>1. Sizing(a, S, max, back) /\ a.ybase + rows <= Len(a.lines)
      BY <2>1
    <3>3. /\ Sizing(c, S, max, back) /\ c.ybase + rows <= Len(c.lines)
          /\ c.x = a.x /\ c.y = a.y /\ c.down = a.down
          /\ Chained(m, a.lines) => Chained(m, c.lines)
      BY <3>1, OneRowLessIs
    <3> HIDE DEF c
    <3>4. c \in BufRec(S)
      BY <3>3, SizingIs
    <3> QED BY <2>1, <3>3, <3>4 DEF c
  <2> QED BY <2>1
<1>5. \A a \in X : P(a, n) => /\ Sizing(a, S, max, back) /\ a.ybase + rows <= Len(a.lines)
                              /\ a.x = b.x /\ a.y = b.y /\ a.down = b.down
                              /\ Chained(m, b.lines) => Chained(m, a.lines)
  OBVIOUS
<1>6. P(v, n) /\ b = v
  BY <1>3
<1> HIDE DEF n, v, X, P, body
<1>7. /\ n \in Nat /\ v \in I[0] /\ n \in 0 .. n
      /\ \A k \in 1 .. n : k \in 0 .. n /\ k # 0 /\ \A e \in I[k - 1] : stp[k][e] \in I[k] /\ stp[k][e] = body(e, k)
  <2>1. 0 \in 0 .. n /\ n \in 0 .. n
    BY <1>2
  <2>2. ASSUME NEW k \in 1 .. n PROVE k - 1 \in 0 .. n /\ k \in 0 .. n /\ k # 0
    BY <1>2
  <2>3. ASSUME NEW k \in 1 .. n, NEW e \in I[k - 1] PROVE stp[k][e] \in I[k] /\ stp[k][e] = body(e, k)
    <3>1. e \in X /\ P(e, k - 1)
      BY <2>2
    <3>2. body(e, k) \in X /\ P(body(e, k), k)
      BY <1>4, <3>1
    <3> QED BY <2>2, <3>1, <3>2
  <2> QED BY <1>2, <1>3, <2>1, <2>2, <2>3
<1>8. \A e \in I[n] : e \in X /\ P(e, n)
  BY <1>7
<1> HIDE DEF I, stp
<1>9. PICK g : Loops(g, n, v, stp) /\ \A k \in 0 .. n : g[k] \in I[k]
  BY <1>7, LoopRuns
<1>10. Eq(g)
  <2>1. g = [k \in 0 .. n |-> IF k = 0 THEN v ELSE stp[k][g[k - 1]]]
    BY <1>9 DEF Loops
  <2>2. ASSUME NEW k \in 0 .. n
        PROVE (IF k = 0 THEN v ELSE stp[k][g[k - 1]]) = (IF k = 0 THEN v ELSE body(g[k - 1], k))
    <3>1. CASE k # 0
      <4>1. k \in 1 .. n /\ k - 1 \in 0 .. n
        BY <1>2, <3>1
      <4> QED BY <1>7, <1>9, <3>1, <4>1
    <3> QED BY <3>1
  <2> QED BY <2>1, <2>2
<1>11. Eq(at)
  <2> HIDE DEF Eq
  <2> QED BY <1>10
<1> HIDE DEF at
<1>12. at[0] = v /\ \A k \in 1 .. n : at[k] = body(at[k - 1], k)
  <2>1. 0 \in 0 .. n
    BY <1>2
  <2> QED BY <1>7, <1>11, <2>1
<1> HIDE DEF Eq
<1>13. at[n] \in X /\ P(at[n], n)
  <2>1. ASSUME NEW k \in 1 .. n, at[k - 1] \in I[k - 1] PROVE at[k] \in I[k]
    BY <1>7, <1>12, <2>1
  <2>2. at[n] \in I[n]
    BY <1>7, <1>12, <2>1, LoopHolds
  <2> QED BY <1>8, <2>2
<1> QED BY <1>1, <1>3, <1>5, <1>6, <1>13 DEF Rowed, Lessened

\* A list of another length, of which the oldest lines go.
Fewer(b, lines, max, base, disp, sy) ==
  [b EXCEPT !.lines = lines, !.max = max, !.ybase = base, !.ydisp = disp, !.sy = sy]

\* Its parts.
LEMMA FewerIs ==
  ASSUME NEW S, NEW max0, NEW back, NEW b, Sizing(b, S, max0, back),
         NEW l \in Seq(S), NEW max \in Int, Len(l) <= max, NEW base \in Nat, NEW disp \in 0 .. base, NEW sy \in Int
  PROVE  /\ Sizing(Fewer(b, l, max, base, disp, sy), S, max, back)
         /\ Fewer(b, l, max, base, disp, sy).ybase = base /\ Fewer(b, l, max, base, disp, sy).lines = l
         /\ Fewer(b, l, max, base, disp, sy).x = b.x /\ Fewer(b, l, max, base, disp, sy).y = b.y
         /\ Fewer(b, l, max, base, disp, sy).down = b.down
<1> DEFINE c1 == [b EXCEPT !.lines = l]
           c2 == [c1 EXCEPT !.max = max]
           c3 == [c2 EXCEPT !.ybase = base]
           c4 == [c3 EXCEPT !.ydisp = disp]
           c == [c4 EXCEPT !.sy = sy]
           Close(d) == /\ d \in BufRec(S) /\ d.lines = l /\ d.back = b.back
                       /\ d.x = b.x /\ d.y = b.y /\ d.down = b.down
<1>1. b \in BufRec(S) /\ base \in Int /\ disp \in Int
  BY DEF Sizing
<1>2. Close(c1)
  BY <1>1 DEF BufRec
<1>3. Fewer(b, l, max, base, disp, sy) = c
  BY DEF Fewer
<1> HIDE DEF c1
<1>4. Close(c2) /\ c2.max = max
  BY <1>1, <1>2 DEF BufRec
<1> HIDE DEF c2
<1>5. Close(c3) /\ c3.max = max /\ c3.ybase = base
  BY <1>1, <1>4 DEF BufRec
<1> HIDE DEF c3
<1>6. Close(c4) /\ c4.max = max /\ c4.ybase = base /\ c4.ydisp = disp
  BY <1>1, <1>5 DEF BufRec
<1> HIDE DEF c4
<1>7. Close(c) /\ c.max = max /\ c.ybase = base /\ c.ydisp = disp
  BY <1>1, <1>6 DEF BufRec
<1> HIDE DEF c
<1>8. Sizing(c, S, max, back)
  BY <1>7 DEF Sizing
<1> QED BY <1>3, <1>7, <1>8

\* The list as long as it may be.
LEMMA ResizeListIs ==
  ASSUME NEW S, NEW max0, NEW back \in Nat, NEW b, Sizing(b, S, max0, back), NEW rows \in Nat \ {0},
         b.ybase + rows <= Len(b.lines), NEW m
  PROVE  /\ Rowed(b, ResizeList(b, rows), S, rows + back, back, rows, m)
         /\ ResizeList(b, rows).down = b.down
<1> DEFINE c == ResizeList(b, rows)
           max == rows + b.back
           len == Len(b.lines)
           cut == MostOf(len - max, 0)
           l == ListTrim(b.lines, cut)
           base == MostOf(b.ybase - cut, 0)
           disp == MostOf(b.ydisp - cut, 0)
           sy == MostOf(b.sy - cut, 0)
           s == b.lines
<1>1. /\ s \in Seq(S) /\ len \in Nat /\ b.back = back /\ b.back \in Nat /\ b.sy \in Int
      /\ b.ybase \in Nat /\ b.ydisp \in Nat /\ b.ydisp <= b.ybase
  BY SizingIs
<1>2. c = Fewer(b, l, max, base, disp, sy)
  BY DEF ResizeList, Fewer
<1>3. cut \in Nat /\ cut <= len /\ len - cut <= max /\ max \in Nat /\ max = rows + back /\ max \in Int
      /\ (cut > 0 => len - cut = max)
  <2>1. max \in Nat /\ max = rows + back /\ max \in Int
    BY <1>1
  <2> HIDE DEF max, len
  <2>2. len \in Nat
    BY <1>1
  <2>3. cut = IF len - max > 0 THEN len - max ELSE 0
    BY DEF MostOf
  <2> HIDE DEF cut
  <2> QED BY <2>1, <2>2, <2>3
<1>4. base \in Nat /\ disp \in 0 .. base /\ sy \in Int /\ base + rows <= len - cut
  <2>1. base \in Nat /\ disp \in 0 .. base /\ sy \in Int
    <3>1. /\ base = IF b.ybase - cut > 0 THEN b.ybase - cut ELSE 0
          /\ disp = IF b.ydisp - cut > 0 THEN b.ydisp - cut ELSE 0
          /\ sy = IF b.sy - cut > 0 THEN b.sy - cut ELSE 0
      BY DEF MostOf
    <3>2. cut \in Nat /\ b.ybase \in Nat /\ b.ydisp \in Nat /\ b.ydisp <= b.ybase /\ b.sy \in Int
      BY <1>1, <1>3
    <3> HIDE DEF cut, base, disp, sy
    <3> QED BY ONLY <3>1, <3>2
  <2>2. base = IF b.ybase - cut > 0 THEN b.ybase - cut ELSE 0
    BY DEF MostOf
  <2>3. b.ybase + rows <= len
    OBVIOUS
  <2> HIDE DEF cut, max, base, len
  <2>4. base + rows <= len - cut
    BY <1>1, <1>3, <2>2, <2>3
  <2> QED BY <2>1, <2>4
<1> HIDE DEF cut, max, base, disp, sy, c
<1>5. l \in Seq(S) /\ Len(l) = len - cut /\ \A i \in 1 .. Len(l) : l[i] = s[cut + i]
  <2>1. l = ListTrim(s, cut) /\ len = Len(s)
    OBVIOUS
  <2> HIDE DEF s, len
  <2>2. cut <= Len(s) /\ Len(s) \in Nat
    BY <1>1, <1>3, <2>1
  <2>3. ListTrim(s, cut) \in Seq(S) /\ Len(ListTrim(s, cut)) = Len(s) - cut
        /\ \A i \in 1 .. Len(s) - cut : ListTrim(s, cut)[i] = s[cut + i]
    BY <1>1, <1>3, <2>2, ListTrimIs
  <2> HIDE DEF l
  <2> QED BY <2>1, <2>3
<1>6. ASSUME Chained(m, b.lines) PROVE Chained(m, l)
  <2>1. Chained(m, s) /\ Len(l) + cut <= Len(s)
    BY <1>1, <1>3, <1>5, <1>6
  <2> HIDE DEF s, l, len
  <2> QED BY <1>1, <1>3, <1>5, <2>1, ChainedPart
<1> HIDE DEF l
<1>7. Len(l) <= max /\ base + rows <= Len(l)
  BY <1>3, <1>4, <1>5
<1>8. /\ Sizing(c, S, max, back) /\ c.ybase = base /\ c.lines = l
      /\ c.x = b.x /\ c.y = b.y /\ c.down = b.down
  <2>1. /\ Sizing(Fewer(b, l, max, base, disp, sy), S, max, back)
        /\ Fewer(b, l, max, base, disp, sy).ybase = base /\ Fewer(b, l, max, base, disp, sy).lines = l
        /\ Fewer(b, l, max, base, disp, sy).x = b.x /\ Fewer(b, l, max, base, disp, sy).y = b.y
        /\ Fewer(b, l, max, base, disp, sy).down = b.down
    <3>1. /\ Sizing(b, S, max0, back) /\ l \in Seq(S) /\ Len(l) <= max /\ max \in Int /\ base \in Nat
          /\ disp \in 0 .. base /\ sy \in Int
      BY <1>3, <1>4, <1>5, <1>7
    <3> QED BY ONLY <3>1, FewerIs
  <2> QED BY <1>2, <2>1
<1> QED BY <1>3, <1>6, <1>7, <1>8 DEF c, Rowed

\* A buffer on the new screen, its cursor inside.
Settles(c, S, cols, rows, back) ==
  Framed(c, S, rows, back) /\ c.x \in 0 .. cols - 1 /\ c.y \in 0 .. rows - 1

\* A buffer that has the rows of the new screen.
Settling(b, S, rows, back) ==
  /\ Sizing(b, S, rows + back, back) /\ b.ybase + rows <= Len(b.lines)
  /\ b.x >= 0 /\ b.y >= 0 /\ b.down >= 0 /\ LeastOf(b.y, rows - 1) + b.down <= rows - 1

\* Cursor and scroll region on the new screen.
LEMMA ClampedIs ==
  ASSUME NEW S, NEW rows \in Nat \ {0}, NEW back \in Nat, NEW b, NEW cols \in Nat \ {0},
         Settling(b, S, rows, back)
  PROVE  /\ Settles(Clamped(b, cols, rows), S, cols, rows, back) /\ Clamped(b, cols, rows).lines = b.lines
<1> DEFINE x == LeastOf(b.x, cols - 1)
           y == LeastOf(b.y, rows - 1) + b.down
           sx == LeastOf(b.sx, cols - 1)
           zero == 0
           bot == rows - 1
           c1 == [b EXCEPT !.x = x]
           c2 == [c1 EXCEPT !.y = y]
           c3 == [c2 EXCEPT !.sx = sx]
           c4 == [c3 EXCEPT !.top = zero]
           c5 == [c4 EXCEPT !.bot = bot]
           c == [c5 EXCEPT !.down = zero]
           Close(d) == /\ d \in BufRec(S) /\ d.lines = b.lines /\ d.back = b.back /\ d.max = b.max
                       /\ d.ybase = b.ybase /\ d.ydisp = b.ydisp /\ d.x = x
<1> DEFINE max == rows + back
<1>0. /\ Sizing(b, S, max, back) /\ b.ybase + rows <= Len(b.lines) /\ b.x >= 0 /\ b.y >= 0 /\ b.down >= 0
      /\ LeastOf(b.y, rows - 1) + b.down <= rows - 1 /\ max = rows + back
  BY DEF Settling
<1> HIDE DEF max
<1>1. /\ b \in BufRec(S) /\ b.x \in Int /\ b.y \in Int /\ b.sx \in Int /\ b.down \in Int
  BY <1>0, SizingIs
<1>2. Clamped(b, cols, rows) = c
  BY DEF Clamped
<1>3. x \in 0 .. cols - 1 /\ y \in 0 .. rows - 1 /\ sx \in Int /\ x \in Int /\ y \in Int
  BY <1>0, <1>1 DEF LeastOf
<1>4. zero \in Int /\ bot \in Int /\ zero = 0 /\ bot = rows - 1
  OBVIOUS
<1> HIDE DEF x, y, sx, zero, bot
<1>5. Close(c1)
  BY <1>1, <1>3 DEF BufRec
<1> HIDE DEF c1
<1>6. Close(c2) /\ c2.y = y
  BY <1>3, <1>5 DEF BufRec
<1> HIDE DEF c2
<1>7. Close(c3) /\ c3.y = y
  BY <1>3, <1>6 DEF BufRec
<1> HIDE DEF c3
<1>8. Close(c4) /\ c4.y = y /\ c4.top = zero
  BY <1>4, <1>7 DEF BufRec
<1> HIDE DEF c4
<1>9. Close(c5) /\ c5.y = y /\ c5.top = zero /\ c5.bot = bot
  BY <1>4, <1>8 DEF BufRec
<1> HIDE DEF c5
<1>10. Close(c) /\ c.y = y /\ c.top = zero /\ c.bot = bot /\ c.down = zero
  BY <1>4, <1>9 DEF BufRec
<1> HIDE DEF c
<1>11. Framed(c, S, rows, back)
  BY <1>0, <1>4, <1>10 DEF Framed, Sizing
<1> QED BY <1>2, <1>3, <1>10, <1>11 DEF Settles

\* Before the columns: a list as long as it may be, the cursor on the screen.
LEMMA SizedIs ==
  ASSUME NEW S, NEW cols \in Nat \ {0}, BlankLine(cols, FALSE) \in S, NEW rows \in Nat \ {0},
         NEW old \in Nat \ {0}, NEW back \in Nat, NEW b, Sizing(b, S, MostOf(old + back, rows + back), back),
         b.down = 0, b.ybase + old <= Len(b.lines), Len(b.lines) <= old + back,
         b.x >= 0, b.y >= 0, b.y < old, NEW m
  PROVE  LET c == Clamped(ResizeList(ResizeRows(b, old, cols, rows), rows), cols, rows) IN
         /\ Settles(c, S, cols, rows, back)
         /\ Chained(m, b.lines) => Chained(m, c.lines)
<1> DEFINE max == MostOf(old + back, rows + back)
           d == ResizeRows(b, old, cols, rows)
           e == ResizeList(d, rows)
           c == Clamped(e, cols, rows)
<1>1. /\ b.ybase \in Nat /\ Len(b.lines) \in Nat /\ max \in Nat \ {0} /\ rows + back <= max /\ b.down \in Int
      /\ b.ybase <= back /\ cols \in Nat /\ old \in Nat
  <2>1. b.ybase \in Nat /\ Len(b.lines) \in Nat /\ b.down \in Int
    BY SizingIs
  <2> QED BY <2>1 DEF MostOf
<1> HIDE DEF max
<1>2. Rowed(b, d, S, max, back, rows, m) /\ d.down >= 0 /\ d.down <= (IF old < rows THEN rows - old ELSE 0)
  <2>0. Sizing(b, S, max, back)
    BY DEF max
  <2>1. CASE old < rows
    <3>1. /\ cols \in Nat /\ BlankLine(cols, FALSE) \in S /\ rows \in Nat \ {0} /\ back \in Nat
          /\ max \in Nat \ {0} /\ rows + back <= max /\ Sizing(b, S, max, back) /\ b.ybase <= back
          /\ old \in Nat /\ old < rows /\ b.ybase + old <= Len(b.lines) /\ b.down = 0
      BY <1>1, <2>0, <2>1
    <3>2. Rowed(b, d, S, max, back, rows, m) /\ d.down \in 0 .. rows - old
      BY ONLY <3>1, RowsMore
    <3> QED BY <2>1, <3>2
  <2>2. CASE ~(old < rows)
    <3>1. /\ cols \in Nat /\ rows \in Nat \ {0} /\ back \in Nat
          /\ max \in Nat /\ Sizing(b, S, max, back) /\ old \in Nat /\ old >= rows
          /\ b.ybase + rows <= Len(b.lines)
      BY <1>1, <2>0, <2>2
    <3>2. Lessened(b, d, S, max, back, rows, m)
      BY ONLY <3>1, RowsLess
    <3> QED BY <2>2, <3>2 DEF Lessened
  <2> QED BY <2>1, <2>2
<1> HIDE DEF d
<1>3. Rowed(d, e, S, rows + back, back, rows, m) /\ e.down = d.down
  <2>1. /\ back \in Nat /\ Sizing(d, S, max, back) /\ rows \in Nat \ {0} /\ d.ybase + rows <= Len(d.lines)
    BY <1>2 DEF Rowed
  <2> QED BY ONLY <2>1, ResizeListIs
<1> HIDE DEF e
<1>4. Settles(c, S, cols, rows, back) /\ c.lines = e.lines
  <2>1. e.x >= 0 /\ e.y >= 0 /\ e.y < old /\ e.down >= 0 /\ e.down <= (IF old < rows THEN rows - old ELSE 0)
    BY <1>2, <1>3 DEF Rowed
  <2>2. /\ rows \in Nat \ {0} /\ back \in Nat /\ Sizing(e, S, rows + back, back)
        /\ e.ybase + rows <= Len(e.lines) /\ cols \in Nat \ {0}
    BY <1>3 DEF Rowed
  <2>3. LeastOf(e.y, rows - 1) + e.down <= rows - 1
    <3>1. e.y \in Int /\ e.down \in Int
      BY <2>2, SizingIs
    <3> QED BY <2>1, <3>1 DEF LeastOf
  <2>4. Settling(e, S, rows, back)
    BY <2>1, <2>2, <2>3 DEF Settling
  <2> QED BY <2>4, ClampedIs
<1> QED BY <1>2, <1>3, <1>4 DEF d, e, Rowed

----------------------------------------------------------------------------
(* Text of lines *)

\* Up to where the cells of a line hold text.
LEMMA TrimmedIs ==
  ASSUME NEW c \in Seq(Cell), NEW n \in 0 .. Len(c), \A i \in n + 1 .. Len(c) : c[i].ch = <<>>
  PROVE  TrimmedLength(c) \in Nat /\ TrimmedLength(c) <= n + 1 /\ (n = 0 => TrimmedLength(c) = 0)
<1> DEFINE used == {i \in DOMAIN c : c[i].ch # <<>>}
           last == CHOOSE i \in used : \A j \in used : j <= i
<1>1. /\ Len(c) \in Nat /\ DOMAIN c = 1 .. Len(c)
      /\ \A i \in 1 .. Len(c) : c[i].w \in 0 .. 2
  BY CellsAre
<1>2. \A i \in used : i \in 1 .. n
  <2>1. ASSUME NEW i \in used PROVE i \in 1 .. n
    <3>1. i \in 1 .. Len(c) /\ ~(c[i].ch = <<>>)
      BY <1>1
    <3>2. ~(i \in n + 1 .. Len(c))
      BY <3>1
    <3> QED BY <1>1, <3>1, <3>2
  <2> QED BY <2>1
<1>3. TrimmedLength(c) = IF used = {} THEN 0 ELSE last - 1 + c[last].w
  BY Zenon DEF TrimmedLength
<1>4. CASE used = {}
  BY <1>1, <1>3, <1>4
<1>5. CASE used # {}
  <2>1. last \in used
    <3>1. n \in Int /\ \A i \in used : i \in Int /\ i <= n
      BY <1>1, <1>2
    <3> HIDE DEF used
    <3>2. \E i \in used : \A j \in used : j <= i
      BY <1>5, <3>1, GreatestIs
    <3> QED BY <3>2
  <2>2. last \in 1 .. n /\ last \in 1 .. Len(c)
    BY <1>1, <1>2, <2>1
  <2> HIDE DEF last, used
  <2>3. c[last].w \in 0 .. 2
    BY <1>1, <2>2
  <2>4. TrimmedLength(c) = last - 1 + c[last].w
    BY <1>3, <1>5
  <2> QED BY <1>1, <2>2, <2>3, <2>4
<1> QED BY <1>4, <1>5

\* At most a column beyond the line.
LEMMA TrimmedNat ==
  ASSUME NEW c \in Seq(Cell)
  PROVE  TrimmedLength(c) \in Nat /\ TrimmedLength(c) <= Len(c) + 1
<1> DEFINE n == Len(c)
<1>1. n \in 0 .. Len(c) /\ \A i \in n + 1 .. Len(c) : c[i].ch = <<>>
  <2>1. n \in Nat
    BY CellsAre
  <2> QED BY <2>1
<1> HIDE DEF n
<1>2. TrimmedLength(c) \in Nat /\ TrimmedLength(c) <= n + 1
  BY <1>1, TrimmedIs
<1> QED BY <1>2 DEF n

\* The text of a line is among its cells.
Texty(c) == TrimmedLength(c) <= Len(c)

\* A group's lines, but for the last, have m cells at least.
Group(w, m) ==
  /\ w \in Seq(TextLine) /\ Len(w) >= 1 /\ \A i \in 1 .. Len(w) - 1 : Len(w[i].cells) >= m
  /\ Texty(w[Len(w)].cells)

\* What a group's run of cells is: as many as fit its lines and, if its last line has text, that
\* line's last.
RunOf(run, w, m) ==
  LET last == w[Len(w)].cells trimmed == TrimmedLength(last) IN
  /\ run \in Seq(Cell) /\ Len(run) <= (Len(w) - 1) * m + trimmed
  /\ trimmed > 0 => Len(run) > 0 /\ run[Len(run)] = last[trimmed]

\* Cells added to others.
LEMMA CellsJoin ==
  ASSUME NEW a \in Seq(Cell), NEW c \in Seq(Cell), NEW n \in Nat, n <= Len(c)
  PROVE  LET r == a \o SubSeq(c, 1, n) IN
         /\ r \in Seq(Cell) /\ Len(r) = Len(a) + n /\ (n > 0 => r[Len(r)] = c[n])
<1> DEFINE p == SubSeq(c, 1, n)
           r == a \o p
           m == Len(a)
<1>1. p \in Seq(Cell) /\ Len(p) = n /\ \A i \in 1 .. n : p[i] = c[i]
  BY FrontIs
<1>2. m \in Nat /\ m = Len(a)
  BY CellsAre
<1> HIDE DEF p, m
<1>3. r \in Seq(Cell) /\ Len(r) = m + n /\ \A i \in 1 .. m + n : r[i] = IF i <= m THEN a[i] ELSE p[i - m]
  BY <1>1, <1>2, JoinedAt
<1> HIDE DEF r
<1>4. ASSUME n > 0 PROVE r[Len(r)] = c[n]
  <2>1. m + n \in 1 .. m + n /\ ~(m + n <= m) /\ (m + n) - m = n /\ n \in 1 .. n
    BY <1>2, <1>4
  <2> QED BY <1>1, <1>3, <2>1
<1> QED BY <1>2, <1>3, <1>4 DEF r, p

\* The text of a group.
LEMMA RunIs ==
  ASSUME NEW m \in Nat \ {0}, NEW w, Group(w, m)
  PROVE  RunOf(Run(w, m), w, m)
<1> DEFINE s == [i \in 1 .. Len(w) |-> i]
           n == Len(s)
           v == <<>>
           big == Len(w)
           last == w[Len(w)].cells
           trimmed == TrimmedLength(last)
           X == Seq(Cell)
           P(a, k) == IF k < big THEN Len(a) <= k * m ELSE RunOf(a, w, m)
           body(a, k) == a \o SubSeq(w[s[k]].cells, 1, WrappedTrimmedLength(w, s[k], m))
           I == [k \in 0 .. n |-> {a \in X : P(a, k)}]
           stp == [k \in 1 .. n |-> [a \in X |-> body(a, k)]]
           Eq(g) == g = [k \in 0 .. n |-> IF k = 0 THEN v ELSE body(g[k - 1], k)]
           at == CHOOSE g : Eq(g)
<1>1. Run(w, m) = at[n]
  BY DEF Run, Along
<1>2. n \in Nat /\ n = big /\ big >= 1 /\ big \in Nat /\ \A k \in 1 .. n : s[k] = k
  <2>1. Len(w) \in Nat /\ Len(w) >= 1
    BY LenProperties DEF Group
  <2>2. s \in Seq(Nat) /\ Len(s) = Len(w)
    <3>1. s \in [1 .. Len(w) -> Nat]
      BY <2>1
    <3> HIDE DEF s
    <3> QED BY <2>1, <3>1, IsASeq, LenProperties
  <2> QED BY <2>1, <2>2
<1>3. v \in X /\ P(v, 0)
  <2>1. v \in Seq(Cell) /\ Len(v) = 0
    BY EmptySeq
  <2> HIDE DEF v
  <2> QED BY <1>2, <2>1
<1>4. \A a \in X : \A k \in 1 .. n : P(a, k - 1) => body(a, k) \in X /\ P(body(a, k), k)
  <2>1. ASSUME NEW a \in X, NEW k \in 1 .. n, P(a, k - 1) PROVE body(a, k) \in X /\ P(body(a, k), k)
    <3> DEFINE c == w[k].cells
               t == WrappedTrimmedLength(w, k, m)
               r == a \o SubSeq(c, 1, t)
    <3>1. body(a, k) = r /\ k \in 1 .. big /\ k - 1 < big /\ k \in Nat
      <4>1. s[k] = k
        BY <1>2
      <4>2. k \in 1 .. big /\ k - 1 < big /\ k \in Nat
        <5> HIDE DEF n, big
        <5> QED BY <1>2
      <4> HIDE DEF s
      <4> QED BY <4>1, <4>2
    <3>2. w[k] \in TextLine /\ c \in Seq(Cell) /\ Len(c) \in Nat
      <4>1. w \in Seq(TextLine) /\ k \in 1 .. Len(w)
        BY <3>1 DEF Group
      <4>2. w[k] \in TextLine
        BY ONLY <4>1, ElementOfSeq
      <4>3. w[k].cells \in Seq(Cell)
        BY <4>2 DEF TextLine
      <4> QED BY <4>2, <4>3, CellsAre
    <3>3. a \in Seq(Cell) /\ Len(a) \in Nat /\ Len(a) <= (k - 1) * m
      BY <2>1, <3>1, CellsAre
    <3>4. CASE k < big
      <4>1. t \in Nat /\ t <= m /\ t <= Len(c)
        <5>1. t = m \/ t = m - 1
          <6>1. k # Len(w)
            <7>1. big \in Nat /\ k \in Nat
              BY ONLY <1>2, <3>1
            <7> HIDE DEF big
            <7>2. k # big
              BY ONLY <3>4, <7>1
            <7> QED BY <7>2 DEF big
          <6> HIDE DEF c
          <6> QED BY ONLY <6>1 DEF WrappedTrimmedLength, t
        <5>2. Len(c) >= m
          BY <1>2, <3>1, <3>4 DEF Group
        <5> HIDE DEF c, t
        <5> QED BY ONLY <3>2, <5>1, <5>2, m \in Nat \ {0}
      <4>2. (k - 1) * m + m = k * m
        BY <3>1
      <4>3. (k - 1) * m \in Int /\ k * m \in Int
        BY <3>1
      <4> DEFINE x == (k - 1) * m
                 y == k * m
      <4> HIDE DEF c, t
      <4>4. r \in Seq(Cell) /\ Len(r) = Len(a) + t
        BY <3>2, <3>3, <4>1, CellsJoin
      <4>5. x \in Int /\ y \in Int /\ x + m = y /\ Len(a) <= x
        BY <3>3, <4>2, <4>3
      <4> HIDE DEF x, y
      <4>6. Len(r) <= y
        BY <3>3, <4>1, <4>4, <4>5
      <4> QED BY <3>1, <3>4, <4>4, <4>6 DEF y
    <3>5. CASE ~(k < big)
      <4>1. k = big /\ c = last /\ t = trimmed
        <5>1. k = big
          <6> HIDE DEF n, big
          <6> QED BY <1>2, <3>1, <3>5
        <5> QED BY <5>1 DEF WrappedTrimmedLength
      <4>2. t \in Nat /\ t <= Len(c)
        <5>1. TrimmedLength(c) <= Len(c)
          BY <4>1 DEF Group, Texty
        <5> QED BY <3>2, <4>1, <5>1, TrimmedNat
      <4> HIDE DEF c, t
      <4>3. r \in Seq(Cell) /\ Len(r) = Len(a) + t /\ (t > 0 => r[Len(r)] = c[t])
        BY <3>2, <3>3, <4>2, CellsJoin
      <4> HIDE DEF r
      <4>4. Len(r) <= (Len(w) - 1) * m + t
        <5> DEFINE x == (big - 1) * m
        <5>1. x \in Int /\ Len(a) <= x
          BY <1>2, <3>3, <4>1
        <5> HIDE DEF x
        <5>2. Len(r) <= x + t
          BY <3>3, <4>2, <4>3, <5>1
        <5> QED BY <5>2 DEF x
      <4>5. t > 0 => Len(r) > 0
        BY <3>3, <4>2, <4>3
      <4>6. RunOf(r, w, m)
        BY <4>1, <4>3, <4>4, <4>5 DEF RunOf
      <4> QED BY <3>1, <3>5, <4>1, <4>3, <4>6
    <3> QED BY <3>4, <3>5
  <2> QED BY <2>1
<1>5. \A a \in X : P(a, n) => RunOf(a, w, m)
  BY <1>2
<1> HIDE DEF n, v, X, P, body, s
<1>6. /\ n \in Nat /\ v \in I[0] /\ n \in 0 .. n
      /\ \A k \in 1 .. n : k \in 0 .. n /\ k # 0 /\ \A e \in I[k - 1] : stp[k][e] \in I[k] /\ stp[k][e] = body(e, k)
  <2>1. 0 \in 0 .. n /\ n \in 0 .. n
    BY <1>2
  <2>2. ASSUME NEW k \in 1 .. n PROVE k - 1 \in 0 .. n /\ k \in 0 .. n /\ k # 0
    BY <1>2
  <2>3. ASSUME NEW k \in 1 .. n, NEW e \in I[k - 1] PROVE stp[k][e] \in I[k] /\ stp[k][e] = body(e, k)
    <3>1. e \in X /\ P(e, k - 1)
      BY <2>2
    <3>2. body(e, k) \in X /\ P(body(e, k), k)
      BY <1>4, <3>1
    <3> QED BY <2>2, <3>1, <3>2
  <2> QED BY <1>2, <1>3, <2>1, <2>2, <2>3
<1>7. \A e \in I[n] : e \in X /\ P(e, n)
  BY <1>6
<1> HIDE DEF I, stp
<1>8. PICK g : Loops(g, n, v, stp) /\ \A k \in 0 .. n : g[k] \in I[k]
  BY <1>6, LoopRuns
<1>9. Eq(g)
  <2>1. g = [k \in 0 .. n |-> IF k = 0 THEN v ELSE stp[k][g[k - 1]]]
    BY <1>8 DEF Loops
  <2>2. ASSUME NEW k \in 0 .. n
        PROVE (IF k = 0 THEN v ELSE stp[k][g[k - 1]]) = (IF k = 0 THEN v ELSE body(g[k - 1], k))
    <3>1. CASE k # 0
      <4>1. k \in 1 .. n /\ k - 1 \in 0 .. n
        BY <1>2, <3>1
      <4> QED BY <1>6, <1>8, <3>1, <4>1
    <3> QED BY <3>1
  <2> QED BY <2>1, <2>2
<1>10. Eq(at)
  <2> HIDE DEF Eq
  <2> QED BY <1>9
<1> HIDE DEF at
<1>11. at[0] = v /\ \A k \in 1 .. n : at[k] = body(at[k - 1], k)
  <2>1. 0 \in 0 .. n
    BY <1>2
  <2> QED BY <1>6, <1>10, <2>1
<1> HIDE DEF Eq
<1>12. at[n] \in X /\ P(at[n], n)
  <2>1. ASSUME NEW k \in 1 .. n, at[k - 1] \in I[k - 1] PROVE at[k] \in I[k]
    BY <1>6, <1>11, <2>1
  <2>2. at[n] \in I[n]
    BY <1>6, <1>11, <2>1, LoopHolds
  <2> QED BY <1>7, <2>2
<1> QED BY <1>1, <1>5, <1>12

----------------------------------------------------------------------------
(* Groups of lines *)

\* One item more at the end.
LEMMA AppendIs ==
  ASSUME NEW S, NEW s \in Seq(S), NEW e \in S
  PROVE  /\ Append(s, e) \in Seq(S) /\ Len(Append(s, e)) = Len(s) + 1 /\ Append(s, e)[Len(s) + 1] = e
         /\ \A i \in 1 .. Len(s) : Append(s, e)[i] = s[i]
BY AppendProperties

\* All items but the last, and the last.
LEMMA FrontLastIs ==
  ASSUME NEW S, NEW s \in Seq(S), s # <<>>
  PROVE  /\ Front(s) \in Seq(S) /\ Len(Front(s)) = Len(s) - 1 /\ Len(s) - 1 \in Nat
         /\ \A i \in 1 .. Len(s) - 1 : Front(s)[i] = s[i]
         /\ Last(s) = s[Len(s)] /\ Last(s) \in S
<1> DEFINE n == Len(s) - 1
<1>1. Len(s) \in Nat /\ Len(s) > 0 /\ \A i \in 1 .. Len(s) : s[i] \in S
  BY ItemsAre, EmptySeq
<1>2. n \in Nat /\ n <= Len(s) /\ Front(s) = SubSeq(s, 1, n) /\ n = Len(s) - 1
  BY <1>1 DEF Front
<1> HIDE DEF n
<1>3. SubSeq(s, 1, n) \in Seq(S) /\ Len(SubSeq(s, 1, n)) = n /\ \A i \in 1 .. n : SubSeq(s, 1, n)[i] = s[i]
  BY <1>2, FrontIs
<1> QED BY <1>1, <1>2, <1>3 DEF Last

\* Lines each of which continues the one above; but for the last they have m cells.
GroupsOf(S, m) == {w \in Seq(S) : Len(w) >= 1 /\ Chained(m, w) /\ \A i \in 2 .. Len(w) : w[i].wr}

\* Where the groups g begin, one after the other, and end: with line n.
LaidAt(g, n, st) ==
  /\ st \in [1 .. Len(g) + 1 -> Nat] /\ st[1] = 0 /\ st[Len(g) + 1] = n
  /\ \A k \in 1 .. Len(g) : st[k + 1] = st[k] + Len(g[k])
Laid(g, n) == \E st : LaidAt(g, n, st)

\* One group more.
LEMMA LaidMore ==
  ASSUME NEW S, NEW a \in Seq(S), NEW n \in Nat, Laid(a, n), NEW w \in S, Len(w) \in Nat
  PROVE  Laid(Append(a, w), n + Len(w))
<1> DEFINE m == Len(a)
           b == Append(a, w)
           l == Len(w)
           end == n + l
<1>1. PICK st : LaidAt(a, n, st)
  BY DEF Laid
<1>2. m \in Nat /\ m = Len(a) /\ b \in Seq(S) /\ Len(b) = m + 1 /\ b[m + 1] = w
      /\ (\A i \in 1 .. m : b[i] = a[i]) /\ end \in Nat /\ end = n + l /\ l = Len(w)
  BY AppendIs, ItemsAre
<1> HIDE DEF m, b, end, l
<1> DEFINE t == [k \in 1 .. (m + 1) + 1 |-> IF k = m + 2 THEN end ELSE st[k]]
<1>3. /\ st \in [1 .. m + 1 -> Nat] /\ st[1] = 0 /\ st[m + 1] = n
      /\ \A k \in 1 .. m : st[k + 1] = st[k] + Len(a[k])
  BY <1>1, <1>2 DEF LaidAt
<1>4. \A k \in 1 .. m + 1 : t[k] = st[k] /\ k \in 1 .. (m + 1) + 1
  BY <1>2
<1>5. t[m + 2] = end /\ t \in [1 .. (m + 1) + 1 -> Nat]
  BY <1>2, <1>3
<1> HIDE DEF t
<1>6. t[1] = 0
  BY <1>2, <1>3, <1>4
<1>7. ASSUME NEW k \in 1 .. m + 1 PROVE t[k + 1] = t[k] + Len(b[k])
  <2>1. CASE k = m + 1
    <3>1. k + 1 = m + 2 /\ m + 1 \in 1 .. m + 1
      BY <1>2, <2>1
    <3> QED BY <1>2, <1>3, <1>4, <1>5, <2>1, <3>1
  <2>2. CASE k # m + 1
    <3>1. k \in 1 .. m /\ k + 1 \in 1 .. m + 1
      BY <1>2, <2>2
    <3> QED BY <1>2, <1>3, <1>4, <3>1
  <2> QED BY <2>1, <2>2
<1>8. (m + 1) + 1 = m + 2
  BY <1>2
<1>9. LaidAt(b, end, t)
  BY <1>2, <1>5, <1>6, <1>7, <1>8 DEF LaidAt
<1> QED BY <1>2, <1>9 DEF Laid, b

\* The last group with a line more.
LEMMA LaidWider ==
  ASSUME NEW S, NEW a \in Seq(S), a # <<>>, NEW n \in Nat, Laid(a, n), NEW w \in S,
         Len(Last(a)) \in Nat, Len(w) = Len(Last(a)) + 1
  PROVE  Laid(Append(Front(a), w), n + 1)
<1> DEFINE m == Len(a) - 1
           f == Front(a)
           b == Append(f, w)
           l == Len(Last(a))
           end == n + 1
<1>1. PICK st : LaidAt(a, n, st)
  BY DEF Laid
<1>2. /\ m \in Nat /\ Len(a) = m + 1 /\ f \in Seq(S) /\ Len(f) = m /\ l = Len(a[m + 1])
      /\ \A i \in 1 .. m : f[i] = a[i]
  BY FrontLastIs
<1> HIDE DEF f
<1>3. /\ b \in Seq(S) /\ Len(b) = m + 1 /\ b[m + 1] = w /\ \A i \in 1 .. m : b[i] = f[i]
  <2>1. f \in Seq(S) /\ Len(f) = m
    BY <1>2
  <2> HIDE DEF m
  <2>2. /\ b \in Seq(S) /\ Len(b) = Len(f) + 1 /\ b[Len(f) + 1] = w /\ \A i \in 1 .. Len(f) : b[i] = f[i]
    BY <2>1, AppendIs
  <2> HIDE DEF b
  <2> QED BY <2>1, <2>2
<1>4. l \in Nat /\ Len(w) = l + 1 /\ end \in Nat /\ end = n + 1
  OBVIOUS
<1> HIDE DEF m, b, end, l
<1> DEFINE t == [k \in 1 .. (m + 1) + 1 |-> IF k = m + 2 THEN end ELSE st[k]]
<1>5. /\ st \in [1 .. (m + 1) + 1 -> Nat] /\ st[1] = 0 /\ st[(m + 1) + 1] = n
      /\ \A k \in 1 .. m + 1 : st[k + 1] = st[k] + Len(a[k])
  BY <1>1, <1>2 DEF LaidAt
<1>6. \A k \in 1 .. m + 1 : t[k] = st[k] /\ k \in 1 .. (m + 1) + 1
  BY <1>2
<1>7. t[m + 2] = end /\ t \in [1 .. (m + 1) + 1 -> Nat] /\ (m + 1) + 1 = m + 2
  BY <1>2, <1>4, <1>5
<1> HIDE DEF t
<1>8. t[1] = 0
  BY <1>2, <1>5, <1>6
<1>9. ASSUME NEW k \in 1 .. m + 1 PROVE t[k + 1] = t[k] + Len(b[k])
  <2>1. CASE k = m + 1
    <3>1. k + 1 = m + 2 /\ m + 1 \in 1 .. m + 1 /\ st[m + 1] \in Nat
      BY <1>2, <1>5, <2>1
    <3>2. n = st[m + 1] + l
      <4>1. st[(m + 1) + 1] = st[m + 1] + Len(a[m + 1])
        BY ONLY <1>5, <3>1
      <4> QED BY ONLY <1>2, <1>5, <4>1
    <3>3. t[k + 1] = n + 1
      BY ONLY <1>4, <1>7, <2>1, <3>1
    <3>4. t[k] = st[m + 1]
      BY ONLY <1>6, <2>1, <3>1
    <3>5. Len(b[k]) = l + 1
      BY ONLY <1>3, <1>4, <2>1
    <3> QED BY ONLY <1>4, <3>1, <3>2, <3>3, <3>4, <3>5
  <2>2. CASE k # m + 1
    <3>1. k \in 1 .. m /\ k + 1 \in 1 .. m + 1
      BY <1>2, <2>2
    <3> QED BY <1>2, <1>3, <1>5, <1>6, <3>1
  <2> QED BY <2>1, <2>2
<1>10. LaidAt(b, end, t)
  BY <1>3, <1>7, <1>8, <1>9 DEF LaidAt
<1> QED BY <1>4, <1>10 DEF Laid, b, f

\* The groups of the first k lines.
GroupsTo(lines, S, m, a, k) ==
  /\ a \in Seq(GroupsOf(S, m)) /\ Laid(a, k)
  /\ k > 0 => a # <<>> /\ Last(Last(a)) = lines[k]

\* A line alone is a group.
LEMMA GroupOfOne ==
  ASSUME NEW S, NEW m, NEW r \in S
  PROVE  <<r>> \in GroupsOf(S, m) /\ Len(<<r>>) = 1 /\ Last(<<r>>) = r
<1>1. <<r>> \in Seq(S) /\ Len(<<r>>) = 1 /\ <<r>>[1] = r
  OBVIOUS
<1> DEFINE w == <<r>>
<1>2. Last(w) = r
  BY <1>1 DEF Last
<1> HIDE DEF w
<1>3. w \in Seq(S) /\ Len(w) = 1
  BY <1>1 DEF w
<1>4. Chained(m, w) /\ \A i \in 2 .. Len(w) : w[i].wr
  BY <1>3 DEF Chained
<1> QED BY <1>2, <1>3, <1>4 DEF GroupsOf, w

\* So is a group with a line more that continues its last.
LEMMA GroupWider ==
  ASSUME NEW S, NEW m, NEW w \in GroupsOf(S, m), NEW r \in S, r.wr, Len(Last(w).cells) = m
  PROVE  /\ Append(w, r) \in GroupsOf(S, m) /\ Len(Append(w, r)) = Len(w) + 1 /\ Last(Append(w, r)) = r
         /\ Len(w) \in Nat
<1> DEFINE n == Len(w)
           v == Append(w, r)
<1>1. w \in Seq(S) /\ n >= 1 /\ Chained(m, w) /\ \A i \in 2 .. n : w[i].wr
  BY DEF GroupsOf
<1>2. n \in Nat
  BY <1>1, ItemsAre
<1>3. v \in Seq(S) /\ Len(v) = n + 1 /\ v[n + 1] = r /\ \A i \in 1 .. n : v[i] = w[i]
  BY <1>1, AppendIs
<1>4. Last(w) = w[n]
  BY DEF Last
<1>5. Last(v) = r
  BY <1>3 DEF Last
<1> HIDE DEF v
<1>6. ASSUME NEW i \in 1 .. Len(v) - 1, v[i + 1].wr PROVE Len(v[i].cells) = m
  <2>1. i \in 1 .. n
    BY <1>2, <1>3
  <2>2. CASE i = n
    BY <1>3, <1>4, <2>1, <2>2
  <2>3. CASE i # n
    <3>1. i + 1 \in 1 .. n /\ i \in 1 .. Len(w) - 1
      BY <1>2, <2>1, <2>3
    <3> QED BY <1>1, <1>3, <1>6, <2>1, <3>1 DEF Chained
  <2> QED BY <2>2, <2>3
<1>7. ASSUME NEW i \in 2 .. Len(v) PROVE v[i].wr
  <2>1. i = n + 1 \/ (i \in 2 .. n /\ i \in 1 .. n)
    BY <1>2, <1>3
  <2> QED BY <1>1, <1>3, <2>1
<1>8. Chained(m, v)
  BY <1>6 DEF Chained
<1>9. Len(v) >= 1
  BY <1>2, <1>3
<1> QED BY <1>2, <1>3, <1>5, <1>7, <1>8, <1>9 DEF GroupsOf, v

\* A line after others joins their last group or begins one.
LEMMA GroupsStep ==
  ASSUME NEW S, NEW m, NEW lines \in Seq(S), Chained(m, lines), NEW k \in 1 .. Len(lines),
         NEW a, GroupsTo(lines, S, m, a, k - 1)
  PROVE  GroupsTo(lines, S, m,
           IF a # <<>> /\ lines[k].wr THEN Append(Front(a), Append(Last(a), lines[k])) ELSE Append(a, <<lines[k]>>), k)
<1> DEFINE r == lines[k]
           G == GroupsOf(S, m)
           j == k - 1
           one == <<r>>
           w == Last(a)
           wider == Append(w, r)
<1>1. r \in S /\ k \in Nat /\ Len(lines) \in Nat /\ j \in Nat /\ k = j + 1 /\ k > 0
  BY ItemsAre
<1>2. a \in Seq(G) /\ Laid(a, j) /\ (j > 0 => a # <<>> /\ Last(w) = lines[j])
  BY DEF GroupsTo
<1>3. CASE a # <<>> /\ r.wr
  <2>1. w \in G /\ Front(a) \in Seq(G)
    BY <1>2, <1>3, FrontLastIs
  <2>2. j > 0
    <3>1. CASE j = 0
      <4>1. PICK st : LaidAt(a, j, st)
        BY <1>2 DEF Laid
      <4>2. Len(a) \in Nat \ {0} /\ a[1] \in G
        BY <1>2, <1>3, ItemsAre, EmptySeq
      <4> DEFINE n == Len(a)
                 T == [i \in 1 .. n + 1 |-> {x \in Nat : i > 1 => x >= 1}]
      <4>3. \A i \in 1 .. n : Len(a[i]) \in Nat /\ Len(a[i]) >= 1
        <5>1. ASSUME NEW i \in 1 .. n PROVE Len(a[i]) \in Nat /\ Len(a[i]) >= 1
          <6>1. a[i] \in G
            BY <1>2, ItemsAre
          <6>2. a[i] \in Seq(S) /\ Len(a[i]) >= 1
            BY <6>1 DEF GroupsOf
          <6> QED BY <6>2, ItemsAre
        <5> QED BY <5>1
      <4>4. /\ st \in [1 .. n + 1 -> Nat] /\ st[1] = 0 /\ st[n + 1] = 0
            /\ \A i \in 1 .. n : st[i + 1] = st[i] + Len(a[i])
        BY <3>1, <4>1 DEF LaidAt
      <4> HIDE DEF n
      <4>5. n \in Nat \ {0}
        BY <4>2 DEF n
      <4>6. n \in 1 .. n /\ n \in 1 .. n + 1 /\ st[n] \in Nat
        BY <4>4, <4>5
      <4>7. st[n + 1] = st[n] + Len(a[n]) /\ Len(a[n]) >= 1 /\ Len(a[n]) \in Nat
        BY <4>3, <4>4, <4>6
      <4> QED BY <4>4, <4>6, <4>7
    <3> QED BY <1>1, <3>1
  <2>3. Len(Last(w).cells) = m
    <3>1. Last(w) = lines[j] /\ j \in 1 .. Len(lines) - 1
      BY <1>1, <1>2, <2>2
    <3>2. lines[j + 1].wr
      BY <1>1, <1>3
    <3> HIDE DEF j, w
    <3> QED BY <3>1, <3>2 DEF Chained
  <2>4. wider \in G /\ Len(wider) = Len(w) + 1 /\ Last(wider) = r /\ Len(w) \in Nat
    <3> HIDE DEF r, w
    <3> QED BY <1>1, <1>3, <2>1, <2>3, GroupWider DEF G
  <2> DEFINE b == Append(Front(a), wider)
  <2>5. Laid(b, k)
    <3> HIDE DEF G, wider, j
    <3>1. Laid(b, j + 1)
      BY <1>1, <1>2, <1>3, <2>4, LaidWider DEF w
    <3> QED BY <1>1, <3>1
  <2>6. b \in Seq(G) /\ b # <<>> /\ Last(b) = wider
    <3> HIDE DEF G, wider
    <3> DEFINE f == Front(a)
    <3>1. f \in Seq(G) /\ wider \in G
      BY <2>1, <2>4
    <3> HIDE DEF f
    <3>2. Append(f, wider) \in Seq(G) /\ Append(f, wider) # <<>> /\ Len(Append(f, wider)) = Len(f) + 1
          /\ Append(f, wider)[Len(f) + 1] = wider
      BY <3>1, AppendProperties
    <3> QED BY <3>2 DEF f, Last
  <2> HIDE DEF b, w, wider, G, j
  <2>7. GroupsTo(lines, S, m, b, k)
    BY <1>1, <2>4, <2>5, <2>6 DEF GroupsTo, G, r
  <2> QED BY <1>3, <2>7 DEF b, w, wider
<1>4. CASE ~(a # <<>> /\ r.wr)
  <2>1. one \in G /\ Len(one) = 1 /\ Last(one) = r
    <3> HIDE DEF r
    <3> QED BY <1>1, GroupOfOne DEF G
  <2> DEFINE b == Append(a, one)
  <2> HIDE DEF one, G
  <2>2. Laid(b, k)
    <3>1. Laid(b, j + Len(one))
      <4>1. a \in Seq(G) /\ j \in Nat /\ Laid(a, j) /\ one \in G /\ Len(one) \in Nat
        BY <1>1, <1>2, <2>1
      <4> HIDE DEF j
      <4> QED BY ONLY <4>1, LaidMore
    <3> QED BY <1>1, <2>1, <3>1
  <2>3. b \in Seq(G) /\ b # <<>> /\ Last(b) = one
    <3>1. Append(a, one) \in Seq(G) /\ Append(a, one) # <<>> /\ Len(Append(a, one)) = Len(a) + 1
          /\ Append(a, one)[Len(a) + 1] = one
      BY <1>2, <2>1, AppendProperties
    <3> QED BY <3>1 DEF Last
  <2> HIDE DEF b
  <2>4. GroupsTo(lines, S, m, b, k)
    BY <1>1, <2>1, <2>2, <2>3 DEF GroupsTo, G, r
  <2> QED BY <1>4, <2>4 DEF b, one
<1> QED BY <1>3, <1>4

\* The groups of a buffer's lines.
LEMMA GroupsAre ==
  ASSUME NEW S, NEW m, NEW lines \in Seq(S), Chained(m, lines)
  PROVE  Groups(lines) \in Seq(GroupsOf(S, m)) /\ Laid(Groups(lines), Len(lines))
<1> DEFINE n == Len(lines)
           v == <<>>
           G == GroupsOf(S, m)
           X == Seq(G)
           P(a, k) == GroupsTo(lines, S, m, a, k)
           body(a, k) == IF a # <<>> /\ lines[k].wr
                           THEN Append(Front(a), Append(Last(a), lines[k])) ELSE Append(a, <<lines[k]>>)
           I == [k \in 0 .. n |-> {a \in X : P(a, k)}]
           stp == [k \in 1 .. n |-> [a \in X |-> body(a, k)]]
           Eq(g) == g = [k \in 0 .. n |-> IF k = 0 THEN v ELSE body(g[k - 1], k)]
           at == CHOOSE g : Eq(g)
<1>1. Groups(lines) = at[n]
  BY DEF Groups, Along
<1>2. n \in Nat
  BY ItemsAre
<1>3. v \in X /\ P(v, 0)
  <2>1. v \in Seq(G) /\ Len(v) = 0
    BY EmptySeq
  <2>2. Laid(v, 0)
    <3> DEFINE st == [k \in 1 .. 1 |-> 0]
    <3>1. LaidAt(v, 0, st)
      BY <2>1 DEF LaidAt
    <3> QED BY <3>1 DEF Laid
  <2> QED BY <2>1, <2>2 DEF GroupsTo
<1>4. \A a \in X : \A k \in 1 .. n : P(a, k - 1) => body(a, k) \in X /\ P(body(a, k), k)
  <2>1. ASSUME NEW a \in X, NEW k \in 1 .. n, P(a, k - 1) PROVE body(a, k) \in X /\ P(body(a, k), k)
    <3>1. P(body(a, k), k)
      BY <2>1, GroupsStep
    <3> HIDE DEF body
    <3> QED BY <3>1 DEF GroupsTo
  <2> QED BY <2>1
<1>5. \A a \in X : P(a, n) => a \in Seq(G) /\ Laid(a, n)
  BY DEF GroupsTo
<1> HIDE DEF n, v, X, P, body
<1>6. /\ n \in Nat /\ v \in I[0] /\ n \in 0 .. n
      /\ \A k \in 1 .. n : k \in 0 .. n /\ k # 0 /\ \A e \in I[k - 1] : stp[k][e] \in I[k] /\ stp[k][e] = body(e, k)
  <2>1. 0 \in 0 .. n /\ n \in 0 .. n
    BY <1>2
  <2>2. ASSUME NEW k \in 1 .. n PROVE k - 1 \in 0 .. n /\ k \in 0 .. n /\ k # 0
    BY <1>2
  <2>3. ASSUME NEW k \in 1 .. n, NEW e \in I[k - 1] PROVE stp[k][e] \in I[k] /\ stp[k][e] = body(e, k)
    <3>1. e \in X /\ P(e, k - 1)
      BY <2>2
    <3>2. body(e, k) \in X /\ P(body(e, k), k)
      BY <1>4, <3>1
    <3> QED BY <2>2, <3>1, <3>2
  <2> QED BY <1>2, <1>3, <2>1, <2>2, <2>3
<1>7. \A e \in I[n] : e \in X /\ P(e, n)
  BY <1>6
<1> HIDE DEF I, stp
<1>8. PICK g : Loops(g, n, v, stp) /\ \A k \in 0 .. n : g[k] \in I[k]
  BY <1>6, LoopRuns
<1>9. Eq(g)
  <2>1. g = [k \in 0 .. n |-> IF k = 0 THEN v ELSE stp[k][g[k - 1]]]
    BY <1>8 DEF Loops
  <2>2. ASSUME NEW k \in 0 .. n
        PROVE (IF k = 0 THEN v ELSE stp[k][g[k - 1]]) = (IF k = 0 THEN v ELSE body(g[k - 1], k))
    <3>1. CASE k # 0
      <4>1. k \in 1 .. n /\ k - 1 \in 0 .. n
        BY <1>2, <3>1
      <4> QED BY <1>6, <1>8, <3>1, <4>1
    <3> QED BY <3>1
  <2> QED BY <2>1, <2>2
<1>10. Eq(at)
  <2> HIDE DEF Eq
  <2> QED BY <1>9
<1> HIDE DEF at
<1>11. at[0] = v /\ \A k \in 1 .. n : at[k] = body(at[k - 1], k)
  <2>1. 0 \in 0 .. n
    BY <1>2
  <2> QED BY <1>6, <1>10, <2>1
<1> HIDE DEF Eq
<1>12. at[n] \in X /\ P(at[n], n)
  <2>1. ASSUME NEW k \in 1 .. n, at[k - 1] \in I[k - 1] PROVE at[k] \in I[k]
    BY <1>6, <1>11, <2>1
  <2>2. at[n] \in I[n]
    BY <1>6, <1>11, <2>1, LoopHolds
  <2> QED BY <1>7, <2>2
<1>13. at[n] \in Seq(G) /\ Laid(at[n], n)
  BY <1>5, <1>12
<1> QED BY <1>1, <1>13 DEF n

----------------------------------------------------------------------------
(* More columns *)

\* Multiplying keeps the order.
LEMMA TimesOrder ==
  ASSUME NEW a \in Nat, NEW b \in Nat, NEW m \in Nat
  PROVE  /\ a * m \in Nat /\ (a + 1) * m = a * m + m
         /\ a < b => a * m + m <= b * m
<1>1. a * m \in Nat /\ (a + 1) * m = a * m + m
  BY SMT
<1>2. ASSUME a < b PROVE a * m + m <= b * m
  <2> DEFINE d == b - (a + 1)
  <2>1. d \in Nat /\ b = (a + 1) + d
    BY <1>2
  <2>2. b * m = (a + 1) * m + d * m
    BY <2>1
  <2>3. d * m \in Nat
    <3>1. d \in Nat
      BY <2>1
    <3> HIDE DEF d
    <3> QED BY <3>1
  <2>4. (a + 1) * m \in Nat /\ b * m \in Nat
    OBVIOUS
  <2> DEFINE x == d * m
             y == (a + 1) * m
             z == b * m
             u == a * m
  <2>5. z = y + x /\ x \in Nat /\ y \in Nat /\ z \in Nat /\ y = u + m /\ u \in Nat
    BY <1>1, <2>2, <2>3, <2>4
  <2> HIDE DEF x, y, z, u
  <2>6. u + m <= z
    BY <2>5
  <2> QED BY <2>6 DEF u, z
<1> QED BY <1>1, <1>2

\* Lines of cols cells.
Full(cols) == {c \in Seq(Cell) : Len(c) = cols}

\* The first p cells of a run, laid in lines: there is room for them in lines of old
\* columns, and the line that is not full yet holds the last of them.
LaidCells(acc, run, old, cols, p) ==
  /\ acc \in [rows : Seq(Full(cols)), row : Seq(Cell)]
  /\ Len(acc.row) < cols /\ Len(acc.row) <= p /\ Len(acc.rows) * old + Len(acc.row) <= p
  /\ \A i \in 1 .. Len(acc.row) : acc.row[i] = run[p - Len(acc.row) + i]

\* One cell after others.
LEMMA LayCellIs ==
  ASSUME NEW run \in Seq(Cell), NEW p \in 1 .. Len(run), NEW old \in Nat \ {0}, NEW cols \in Nat, old < cols,
         NEW acc, LaidCells(acc, run, old, cols, p - 1)
  PROVE  LaidCells(LayCell(acc, run[p], cols), run, old, cols, p)
<1> DEFINE c == run[p]
           s == acc.row
           row == Append(s, c)
           l == Len(s)
           q == p - 1
           F == Full(cols)
           R == Len(acc.rows)
<1>1. /\ acc.rows \in Seq(F) /\ s \in Seq(Cell) /\ l < cols /\ l <= q /\ R * old + l <= q
      /\ \A i \in 1 .. l : s[i] = run[q - l + i]
      /\ acc \in [rows : Seq(F), row : Seq(Cell)]
  BY DEF LaidCells
<1>2. c \in Cell /\ c.w \in 0 .. 2 /\ p \in Nat /\ q \in Nat /\ p = q + 1 /\ l \in Nat /\ R \in Nat
  <2>1. l \in Nat /\ R \in Nat
    BY <1>1, ItemsAre
  <2> QED BY <2>1, CellsAre
<1>3. row \in Seq(Cell) /\ Len(row) = l + 1 /\ row[l + 1] = c /\ row # <<>> /\ \A i \in 1 .. l : row[i] = s[i]
  <2> HIDE DEF c
  <2>1. s \in Seq(Cell) /\ c \in Cell
    BY <1>1, <1>2
  <2> HIDE DEF s
  <2> QED BY <2>1, AppendProperties
<1>4. R * old \in Nat /\ (R + 1) * old = R * old + old
  BY <1>2, TimesOrder
<1>5. \A i \in 1 .. l + 1 : row[i] = run[p - (l + 1) + i]
  <2>1. ASSUME NEW i \in 1 .. l + 1 PROVE row[i] = run[p - (l + 1) + i]
    <3>1. p - (l + 1) + i = q - l + i
      BY <1>2
    <3>2. CASE i = l + 1
      <4>1. q - l + i = p
        BY <1>2, <3>2
      <4> QED BY <1>3, <3>1, <3>2, <4>1
    <3>3. CASE i # l + 1
      <4>1. i \in 1 .. l
        BY <1>2, <3>3
      <4> QED BY <1>1, <1>3, <3>1, <4>1
    <3> QED BY <3>2, <3>3
  <2> QED BY <2>1
<1> HIDE DEF row, F
<1> DEFINE prod == R * old
<1>6. CASE Len(row) < cols
  <2> DEFINE b == [acc EXCEPT !.row = row]
  <2>1. b \in [rows : Seq(F), row : Seq(Cell)] /\ b.row = row /\ b.rows = acc.rows
    BY <1>1, <1>3
  <2> HIDE DEF b
  <2>2. prod + (l + 1) <= p /\ l + 1 <= p
    <3>1. prod \in Nat /\ prod + l <= q
      BY <1>1, <1>4
    <3> HIDE DEF prod
    <3> QED BY <1>1, <1>2, <3>1
  <2>3. LaidCells(b, run, old, cols, p)
    BY <1>3, <1>5, <1>6, <2>1, <2>2 DEF LaidCells, F
  <2>4. LayCell(acc, c, cols) = b
    BY <1>6 DEF LayCell, row, b
  <2> QED BY <2>3, <2>4
<1>7. (l + 1 = cols /\ Len(row) = cols) \/ Len(row) < cols
  BY <1>1, <1>2, <1>3
<1>8. CASE ~(Len(row) < cols) /\ c.w # 2
  <2> DEFINE rows == Append(acc.rows, row)
             no == <<>>
             b == [rows |-> rows, row |-> no]
  <2>1. row \in F
    BY <1>3, <1>7, <1>8 DEF F, Full
  <2>2. rows \in Seq(F) /\ Len(rows) = R + 1
    BY <1>1, <2>1, AppendProperties
  <2>3. no \in Seq(Cell) /\ Len(no) = 0
    BY EmptySeq
  <2> HIDE DEF rows, no
  <2>4. (R + 1) * old + 0 <= p
    <3>1. prod \in Nat /\ prod + l <= q /\ (R + 1) * old = prod + old
      BY <1>1, <1>4
    <3> HIDE DEF prod
    <3>2. prod + old <= p
      BY <1>2, <1>7, <1>8, <3>1
    <3> QED BY <3>1, <3>2
  <2>5. b \in [rows : Seq(F), row : Seq(Cell)] /\ b.row = no /\ b.rows = rows
    BY <2>2, <2>3
  <2> HIDE DEF b
  <2>6. LaidCells(b, run, old, cols, p)
    <3>1. Len(b.rows) = R + 1 /\ Len(b.row) = 0
      BY <2>2, <2>3, <2>5
    <3> HIDE DEF R, l
    <3>2. Len(b.row) < cols /\ Len(b.row) <= p
      BY <1>2, <3>1
    <3>3. Len(b.rows) * old + Len(b.row) <= p
      BY <2>4, <3>1
    <3>4. \A i \in 1 .. Len(b.row) : b.row[i] = run[p - Len(b.row) + i]
      BY <2>2, <2>3, <2>5, <3>1
    <3>5. b \in [rows : Seq(Full(cols)), row : Seq(Cell)]
      BY <2>5 DEF F
    <3> QED BY ONLY <3>2, <3>3, <3>4, <3>5 DEF LaidCells
  <2>7. LayCell(acc, c, cols) = b
    BY <1>8 DEF LayCell, row, b, rows, no
  <2> QED BY <2>6, <2>7
<1>9. CASE ~(Len(row) < cols) /\ c.w = 2
  <2> DEFINE e == Blank(FALSE)
             f == Front(row)
             cut == Append(f, e)
             rows == Append(acc.rows, cut)
             one == <<c>>
             b == [rows |-> rows, row |-> one]
  <2>1. e \in Cell
    BY BlankIs
  <2>2. f \in Seq(Cell) /\ Len(f) = Len(row) - 1
    BY <1>3, FrontLastIs
  <2> HIDE DEF e, f
  <2>3. cut \in Seq(Cell) /\ Len(cut) = Len(f) + 1
    BY <2>1, <2>2, AppendProperties
  <2>4. cut \in F
    BY <1>2, <1>3, <1>7, <1>9, <2>2, <2>3 DEF F, Full
  <2> HIDE DEF cut
  <2>5. rows \in Seq(F) /\ Len(rows) = R + 1
    BY <1>1, <2>4, AppendProperties
  <2>6. one \in Seq(Cell) /\ Len(one) = 1 /\ one[1] = c
    <3> HIDE DEF c
    <3> QED BY <1>2
  <2> HIDE DEF rows, one
  <2>7. (R + 1) * old + 1 <= p
    <3>1. prod \in Nat /\ prod + l <= q /\ (R + 1) * old = prod + old
      BY <1>1, <1>4
    <3> HIDE DEF prod
    <3>2. prod + old + 1 <= p
      BY <1>2, <1>7, <1>9, <3>1
    <3> QED BY <3>1, <3>2
  <2>8. b \in [rows : Seq(F), row : Seq(Cell)] /\ b.row = one /\ b.rows = rows
    BY <2>5, <2>6
  <2> HIDE DEF b
  <2>9. \A i \in 1 .. 1 : one[i] = run[p - 1 + i]
    <3>1. ASSUME NEW i \in 1 .. 1 PROVE one[i] = run[p - 1 + i]
      <4>1. i = 1 /\ p - 1 + i = p
        BY <1>2
      <4> QED BY <2>6, <4>1
    <3> QED BY <3>1
  <2>10. LaidCells(b, run, old, cols, p)
    <3>1. Len(b.rows) = R + 1 /\ Len(b.row) = 1
      BY <2>5, <2>6, <2>8
    <3> HIDE DEF R, l
    <3>2. Len(b.row) < cols /\ Len(b.row) <= p
      BY <1>2, <3>1
    <3>3. Len(b.rows) * old + Len(b.row) <= p
      BY <2>7, <3>1
    <3>4. \A i \in 1 .. Len(b.row) : b.row[i] = run[p - Len(b.row) + i]
      BY <2>5, <2>6, <2>8, <2>9, <3>1
    <3>5. b \in [rows : Seq(Full(cols)), row : Seq(Cell)]
      BY <2>8 DEF F
    <3> QED BY ONLY <3>2, <3>3, <3>4, <3>5 DEF LaidCells
  <2>11. LayCell(acc, c, cols) = b
    BY <1>9 DEF LayCell, row, b, rows, one, cut, e, f
  <2> QED BY <2>10, <2>11
<1> QED BY <1>6, <1>8, <1>9

\* A run laid in lines of cols cells.
LaidOut(run, cols) ==
  LET lay(acc, c) == LayCell(acc, c, cols) IN Along(run, lay, [rows |-> <<>>, row |-> <<>>])

\* All of it.
LEMMA LaidOutIs ==
  ASSUME NEW run \in Seq(Cell), NEW old \in Nat \ {0}, NEW cols \in Nat, old < cols
  PROVE  LaidCells(LaidOut(run, cols), run, old, cols, Len(run))
<1> DEFINE n == Len(run)
           v == [rows |-> <<>>, row |-> <<>>]
           X == [rows : Seq(Full(cols)), row : Seq(Cell)]
           P(a, k) == LaidCells(a, run, old, cols, k)
           body(a, k) == LayCell(a, run[k], cols)
           I == [k \in 0 .. n |-> {a \in X : P(a, k)}]
           stp == [k \in 1 .. n |-> [a \in X |-> body(a, k)]]
           Eq(g) == g = [k \in 0 .. n |-> IF k = 0 THEN v ELSE body(g[k - 1], k)]
           at == CHOOSE g : Eq(g)
<1>1. LaidOut(run, cols) = at[n]
  BY DEF LaidOut, Along
<1>2. n \in Nat
  BY ItemsAre
<1>3. v \in X /\ P(v, 0)
  <2>1. <<>> \in Seq(Full(cols)) /\ <<>> \in Seq(Cell) /\ Len(<<>>) = 0
    BY EmptySeq
  <2> DEFINE e == <<>>
  <2>2. e \in Seq(Full(cols)) /\ e \in Seq(Cell) /\ Len(e) = 0 /\ v = [rows |-> e, row |-> e]
    BY <2>1
  <2> HIDE DEF e, v
  <2>3. v \in X /\ v.rows = e /\ v.row = e
    BY <2>2
  <2>4. 0 * old + 0 = 0
    OBVIOUS
  <2> QED BY <2>2, <2>3, <2>4 DEF LaidCells
<1>4. \A a \in X : \A k \in 1 .. n : P(a, k - 1) => body(a, k) \in X /\ P(body(a, k), k)
  <2>1. ASSUME NEW a \in X, NEW k \in 1 .. n, P(a, k - 1) PROVE body(a, k) \in X /\ P(body(a, k), k)
    <3>1. P(body(a, k), k)
      BY <2>1, LayCellIs
    <3> HIDE DEF body
    <3> QED BY <3>1 DEF LaidCells
  <2> QED BY <2>1
<1>5. \A a \in X : P(a, n) => LaidCells(a, run, old, cols, n)
  OBVIOUS
<1> HIDE DEF n, v, X, P, body
<1>6. /\ n \in Nat /\ v \in I[0] /\ n \in 0 .. n
      /\ \A k \in 1 .. n : k \in 0 .. n /\ k # 0 /\ \A e \in I[k - 1] : stp[k][e] \in I[k] /\ stp[k][e] = body(e, k)
  <2>1. 0 \in 0 .. n /\ n \in 0 .. n
    BY <1>2
  <2>2. ASSUME NEW k \in 1 .. n PROVE k - 1 \in 0 .. n /\ k \in 0 .. n /\ k # 0
    BY <1>2
  <2>3. ASSUME NEW k \in 1 .. n, NEW e \in I[k - 1] PROVE stp[k][e] \in I[k] /\ stp[k][e] = body(e, k)
    <3>1. e \in X /\ P(e, k - 1)
      BY <2>2
    <3>2. body(e, k) \in X /\ P(body(e, k), k)
      BY <1>4, <3>1
    <3> QED BY <2>2, <3>1, <3>2
  <2> QED BY <1>2, <1>3, <2>1, <2>2, <2>3
<1>7. \A e \in I[n] : e \in X /\ P(e, n)
  BY <1>6
<1> HIDE DEF I, stp
<1>8. PICK g : Loops(g, n, v, stp) /\ \A k \in 0 .. n : g[k] \in I[k]
  BY <1>6, LoopRuns
<1>9. Eq(g)
  <2>1. g = [k \in 0 .. n |-> IF k = 0 THEN v ELSE stp[k][g[k - 1]]]
    BY <1>8 DEF Loops
  <2>2. ASSUME NEW k \in 0 .. n
        PROVE (IF k = 0 THEN v ELSE stp[k][g[k - 1]]) = (IF k = 0 THEN v ELSE body(g[k - 1], k))
    <3>1. CASE k # 0
      <4>1. k \in 1 .. n /\ k - 1 \in 0 .. n
        BY <1>2, <3>1
      <4> QED BY <1>6, <1>8, <3>1, <4>1
    <3> QED BY <3>1
  <2> QED BY <2>1, <2>2
<1>10. Eq(at)
  <2> HIDE DEF Eq
  <2> QED BY <1>9
<1> HIDE DEF at
<1>11. at[0] = v /\ \A k \in 1 .. n : at[k] = body(at[k - 1], k)
  <2>1. 0 \in 0 .. n
    BY <1>2
  <2> QED BY <1>6, <1>10, <2>1
<1> HIDE DEF Eq
<1>12. at[n] \in X /\ P(at[n], n)
  <2>1. ASSUME NEW k \in 1 .. n, at[k - 1] \in I[k - 1] PROVE at[k] \in I[k]
    BY <1>6, <1>11, <2>1
  <2>2. at[n] \in I[n]
    BY <1>6, <1>11, <2>1, LoopHolds
  <2> QED BY <1>7, <2>2
<1>13. LaidCells(at[n], run, old, cols, n)
  BY <1>5, <1>12
<1> QED BY <1>1, <1>13 DEF n

\* Erasing keeps empty what is.
LEMMA ErasedIs ==
  ASSUME NEW c \in Seq(Cell), NEW start \in 0 .. Len(c), \A i \in 1 .. Len(c) : c[i].ch = <<>>
  PROVE  \A i \in 1 .. Len(c) : ReplaceCells(c, start, Len(c), FALSE)[i].ch = <<>>
<1> DEFINE n == Len(c)
           no == FALSE
           e == Blank(no)
           first == IF start > 0 THEN Halved(c, start - 1, no) ELSE c
           f == [i \in DOMAIN c |-> IF i - 1 \in start .. (n - 1) THEN e ELSE first[i]]
           r == Listed(f)
<1>1. n \in Nat /\ DOMAIN c = 1 .. n /\ \A i \in 1 .. n : c[i] \in Cell
  BY CellsAre
<1>2. ReplaceCells(c, start, Len(c), FALSE) = r
  <2>1. ~(n < Len(c)) /\ ~FALSE /\ start = start
    BY <1>1
  <2> QED BY <2>1 DEF ReplaceCells
<1>3. e \in Cell /\ e.ch = <<>>
  BY BlankIs
<1> HIDE DEF e
<1>4. \A i \in 1 .. n : first[i] \in Cell /\ first[i].ch = <<>>
  <2>1. CASE first = c
    <3> HIDE DEF first, n
    <3> QED BY <1>1, <2>1 DEF n
  <2>2. CASE first # c
    <3>1. start > 0 /\ first = [c EXCEPT ![(start - 1) + 1] = e]
      BY <2>2 DEF Halved, e
    <3> HIDE DEF first
    <3>2. ASSUME NEW i \in 1 .. n PROVE first[i] = e \/ first[i] = c[i]
      BY <1>1, <3>1
    <3> HIDE DEF n
    <3> QED BY <1>1, <1>3, <3>2 DEF n
  <2> QED BY <2>1, <2>2
<1> HIDE DEF first
<1>5. \A i \in 1 .. n : f[i] \in Cell /\ f[i].ch = <<>>
  BY <1>1, <1>3, <1>4
<1>6. f \in [1 .. n -> Cell]
  BY <1>1, <1>5
<1> HIDE DEF f
<1>7. \A i \in 1 .. n : r[i] = f[i]
  <2> HIDE DEF n
  <2> QED BY <1>1, <1>6, ListedIs
<1> HIDE DEF r
<1> QED BY <1>2, <1>5, <1>7

\* Lines of old cells that have been given blanks up to cols.
Widened(old, cols) ==
  {r \in RowsOf(cols, TRUE, FALSE) : \A i \in old + 1 .. cols : r.cells[i] = Blank(FALSE)}

\* Their cells.
LEMMA WidenedIs ==
  ASSUME NEW old, NEW cols, NEW r \in Widened(old, cols)
  PROVE  /\ r \in RowsOf(cols, TRUE, FALSE) /\ r \in TextLine /\ r.cells \in Seq(Cell) /\ Len(r.cells) = cols
         /\ \A i \in old + 1 .. cols : r.cells[i] = Blank(FALSE)
<1>1. r \in RowsOf(cols, TRUE, FALSE) /\ \A i \in old + 1 .. cols : r.cells[i] = Blank(FALSE)
  BY DEF Widened
<1>2. r \in TextLine /\ Len(r.cells) = cols
  BY <1>1 DEF RowsOf
<1> QED BY <1>1, <1>2 DEF TextLine

\* Such lines are a group whose text ends at most a column beyond the old margin, there with
\* the blank.
LEMMA WidenedGroup ==
  ASSUME NEW old \in Nat \ {0}, NEW cols \in Nat, old < cols, NEW w \in Seq(Widened(old, cols)), Len(w) >= 1
  PROVE  LET last == w[Len(w)].cells IN
         /\ Group(w, old) /\ TrimmedLength(last) \in Nat /\ TrimmedLength(last) <= old + 1
         /\ last[old + 1].ch = <<>> /\ Len(w) \in Nat
<1> DEFINE S == Widened(old, cols)
           L == Len(w)
           last == w[L].cells
<1>1. L \in Nat /\ \A i \in 1 .. L : w[i] \in S
  BY ItemsAre
<1>2. ASSUME NEW i \in 1 .. L
      PROVE  w[i] \in RowsOf(cols, TRUE, FALSE) /\ w[i].cells \in Seq(Cell) /\ Len(w[i].cells) = cols
             /\ w[i] \in TextLine
             /\ \A k \in old + 1 .. cols : w[i].cells[k] = Blank(FALSE)
  <2> DEFINE r == w[i]
  <2>1. r \in Widened(old, cols)
    BY <1>1
  <2> HIDE DEF r
  <2>2. /\ r \in RowsOf(cols, TRUE, FALSE) /\ r \in TextLine /\ r.cells \in Seq(Cell) /\ Len(r.cells) = cols
        /\ \A k \in old + 1 .. cols : r.cells[k] = Blank(FALSE)
    BY <2>1, WidenedIs
  <2> QED BY <2>2 DEF r
<1>3. L \in 1 .. L
  BY <1>1
<1>4. last \in Seq(Cell) /\ Len(last) = cols /\ \A k \in old + 1 .. cols : last[k] = Blank(FALSE)
  BY <1>2, <1>3
<1> HIDE DEF last
<1>5. Blank(FALSE).ch = <<>>
  BY BlankIs
<1>6. TrimmedLength(last) \in Nat /\ TrimmedLength(last) <= old + 1
  <2>0. old \in 0 .. cols
    OBVIOUS
  <2>1. old \in 0 .. Len(last) /\ \A i \in old + 1 .. Len(last) : last[i].ch = <<>>
    BY <1>4, <1>5, <2>0
  <2> QED BY <1>4, <2>1, TrimmedIs
<1>7. last[old + 1].ch = <<>>
  <2>1. old + 1 \in old + 1 .. cols
    OBVIOUS
  <2> QED BY <1>4, <1>5, <2>1
<1>8. Group(w, old)
  <2>1. w \in Seq(TextLine)
    <3>1. S \subseteq TextLine
      BY WidenedIs
    <3> HIDE DEF S
    <3> QED BY <3>1, SeqMonotonic DEF S
  <2>2. \A i \in 1 .. L - 1 : Len(w[i].cells) >= old
    <3>1. ASSUME NEW i \in 1 .. L - 1 PROVE Len(w[i].cells) >= old
      <4>1. i \in 1 .. L
        BY <1>1
      <4>2. Len(w[i].cells) = cols
        BY <1>2, <4>1
      <4> QED BY <4>2
    <3> QED BY <3>1
  <2>3. Texty(last)
    BY <1>4, <1>6 DEF Texty
  <2> QED BY <2>1, <2>2, <2>3 DEF Group, last
<1> QED BY <1>1, <1>6, <1>7, <1>8 DEF last

\* The last line that is not full, filled up with blanks.
LastLaid(laid, cols) == ReplaceCells(ResizeCells(laid.row, cols), Len(laid.row), cols, FALSE)

\* It has cols cells, all of them empty if those before were.
LEMMA LastLaidIs ==
  ASSUME NEW laid, laid.row \in Seq(Cell), NEW cols \in Nat \ {0}, Len(laid.row) < cols
  PROVE  /\ LastLaid(laid, cols) \in Full(cols)
         /\ (\A i \in 1 .. Len(laid.row) : laid.row[i].ch = <<>>) => TrimmedLength(LastLaid(laid, cols)) = 0
<1> DEFINE row == laid.row
           l == Len(row)
           c == ResizeCells(row, cols)
           no == FALSE
           r == ReplaceCells(c, l, cols, no)
<1>1. l \in Nat /\ row \in Seq(Cell)
  BY ItemsAre
<1>2. c \in Seq(Cell) /\ Len(c) = cols /\ \A i \in 1 .. cols : c[i] = IF i <= l THEN row[i] ELSE Blank(FALSE)
  <2> HIDE DEF row
  <2> QED BY <1>1, ResizeCellsIs
<1> HIDE DEF c, row, l
<1>3. r \in Seq(Cell) /\ Len(r) = cols
  <2>1. l \in 0 .. Len(c) /\ cols \in Nat \ {0} /\ l <= cols /\ no \in BOOLEAN
    BY <1>1, <1>2 DEF l, row
  <2> HIDE DEF no, r
  <2>2. Alike(c, r)
    BY <1>2, <2>1, ReplaceCellsIs DEF r
  <2> QED BY <1>2, <2>2 DEF Alike
<1>4. ASSUME \A i \in 1 .. l : row[i].ch = <<>> PROVE TrimmedLength(r) = 0
  <2>1. \A i \in 1 .. Len(c) : c[i].ch = <<>>
    <3>1. Blank(FALSE).ch = <<>>
      BY BlankIs
    <3>2. ASSUME NEW i \in 1 .. Len(c) PROVE c[i].ch = <<>>
      <4>1. CASE i <= l
        <5>1. i \in Int /\ 1 <= i /\ i \in 1 .. cols
          BY <1>2
        <5>2. i \in 1 .. l
          BY <1>1, <4>1, <5>1
        <5>3. c[i] = row[i]
          BY <1>2, <4>1, <5>1
        <5> QED BY <1>4, <5>2, <5>3
      <4>2. CASE ~(i <= l)
        BY <1>2, <3>1, <4>2
      <4> QED BY <4>1, <4>2
    <3> QED BY <3>2
  <2>2. l \in 0 .. Len(c)
    BY <1>1, <1>2 DEF l, row
  <2>3. \A i \in 1 .. Len(c) : ReplaceCells(c, l, Len(c), FALSE)[i].ch = <<>>
    BY <1>2, <2>1, <2>2, ErasedIs
  <2>4. \A i \in 1 .. cols : r[i].ch = <<>>
    BY <1>2, <2>3
  <2> DEFINE n == 0
  <2>5. n \in 0 .. Len(r) /\ \A i \in n + 1 .. Len(r) : r[i].ch = <<>>
    <3> HIDE DEF r
    <3>0. 0 + 1 = 1 /\ 0 \in 0 .. cols
      BY SMT
    <3>1. \A i \in 0 + 1 .. cols : r[i].ch = <<>>
      BY <2>4, <3>0
    <3> QED BY <1>3, <3>0, <3>1
  <2>6. n = 0
    OBVIOUS
  <2> HIDE DEF n, r
  <2> QED BY <1>3, <2>5, <2>6, TrimmedIs
<1> QED BY <1>3, <1>4 DEF LastLaid, Full, row, l, c

\* The first n of these lines get cells that were laid.
Relaid(w, rows, n) == Listed([i \in 1 .. n |-> SetCells(w[i], rows[i])])

\* What that gives.
LEMMA RelaidIs ==
  ASSUME NEW cols, NEW S, S \subseteq TextLine, NEW w \in Seq(S), NEW rows \in Seq(Full(cols)), NEW n \in Nat,
         n <= Len(w), n <= Len(rows)
  PROVE  Relaid(w, rows, n) \in Seq(RowsOf(cols, TRUE, FALSE)) /\ Len(Relaid(w, rows, n)) = n
<1> DEFINE T == RowsOf(cols, TRUE, FALSE)
           f == [i \in 1 .. n |-> SetCells(w[i], rows[i])]
<1>1. ASSUME NEW i \in 1 .. n PROVE SetCells(w[i], rows[i]) \in T
  <2>1. i \in 1 .. Len(w) /\ i \in 1 .. Len(rows) /\ Len(w) \in Nat /\ Len(rows) \in Nat
    BY ItemsAre
  <2> DEFINE r == w[i]
             c == rows[i]
  <2>2. r \in TextLine /\ c \in Full(cols)
    BY <2>1, ItemsAre
  <2> HIDE DEF r, c
  <2>3. c \in Seq(Cell) /\ Len(c) = cols /\ cols \in Nat
    BY <2>2, ItemsAre DEF Full
  <2>4. SetCells(r, c) \in TextLine /\ SetCells(r, c).cells = c
    BY <2>2, <2>3 DEF SetCells, TextLine
  <2>5. SetCells(r, c) \in T
    BY <2>3, <2>4 DEF RowsOf
  <2> QED BY <2>5 DEF r, c
<1> HIDE DEF T
<1>2. f \in [1 .. n -> T]
  BY <1>1
<1>3. Listed(f) \in Seq(T) /\ Len(Listed(f)) = n
  <2> HIDE DEF f
  <2> QED BY <1>2, ListedIs
<1> QED BY <1>3 DEF Relaid, T

\* How many of a group's lines its text fills.
Filled(rows) ==
  LET needed == {i \in DOMAIN rows : i = 1 \/ TrimmedLength(rows[i]) > 0}
  IN CHOOSE i \in needed : \A j \in needed : j <= i

\* One at least, and not the last if it is empty.
LEMMA NeededLast ==
  ASSUME NEW S, NEW rows \in Seq(S), NEW L \in Nat \ {0}, Len(rows) >= 1, Len(rows) <= L + 1,
         Len(rows) = L + 1 => TrimmedLength(rows[L + 1]) = 0
  PROVE  Filled(rows) \in Nat /\ Filled(rows) >= 1 /\ Filled(rows) <= Len(rows) /\ Filled(rows) <= L
<1> DEFINE needed == {i \in DOMAIN rows : i = 1 \/ TrimmedLength(rows[i]) > 0}
           n == CHOOSE i \in needed : \A j \in needed : j <= i
           big == Len(rows)
<1>1. big \in Nat /\ DOMAIN rows = 1 .. big /\ big >= 1 /\ big \in Int /\ big <= L + 1
      /\ (big = L + 1 => TrimmedLength(rows[L + 1]) = 0)
  BY ItemsAre
<1> HIDE DEF big
<1>2. 1 \in needed /\ \A i \in needed : i \in Int /\ i <= big
  BY <1>1
<1>3. \A i \in needed : i \in 1 .. big /\ (i = 1 \/ TrimmedLength(rows[i]) > 0)
  BY <1>1
<1> HIDE DEF needed
<1>4. needed # {}
  BY <1>2
<1>5. \E i \in needed : \A j \in needed : j <= i
  <2> QED BY <1>1, <1>2, <1>4, GreatestIs
<1>6. n \in needed
  BY <1>5
<1> HIDE DEF n
<1>7. n \in 1 .. big /\ (n = 1 \/ TrimmedLength(rows[n]) > 0)
  BY <1>3, <1>6
<1>8. n <= L
  <2> SUFFICES ASSUME ~(n <= L) PROVE FALSE
    OBVIOUS
  <2>1. n = L + 1 /\ big = L + 1
    <3>1. n \in Nat /\ n <= big
      BY <1>1, <1>7
    <3> QED BY <1>1, <3>1
  <2>2. n # 1
    BY <2>1
  <2>3. TrimmedLength(rows[n]) > 0
    BY <1>7, <2>2
  <2>4. TrimmedLength(rows[n]) = 0
    BY <1>1, <2>1
  <2> DEFINE t == TrimmedLength(rows[n])
  <2>5. t > 0 /\ t = 0
    BY <2>3, <2>4
  <2> HIDE DEF t
  <2> QED BY <2>5
<1>9. Filled(rows) = n
  BY DEF Filled, n, needed
<1>10. n \in Nat /\ n >= 1 /\ n <= big
  BY <1>1, <1>7
<1> QED BY <1>8, <1>9, <1>10 DEF big

\* Lines for a run: not more than the group has lines, and one over that is empty.
LEMMA LaidRoom ==
  ASSUME NEW L \in Nat \ {0}, NEW old \in Nat, old >= 2, NEW R \in Nat, NEW l \in Nat, NEW N \in Nat, NEW T \in Nat,
         T <= old + 1, N <= (L - 1) * old + T, R * old + l <= N
  PROVE  R <= L /\ (R = L => l <= 1 /\ (l = 1 => T = old + 1))
<1> DEFINE K == L - 1
           a == K * old
           c == R * old
           d == L * old
<1>1. K \in Nat /\ K < L /\ K + 1 = L
  OBVIOUS
<1>2. a \in Nat /\ d = a + old /\ c \in Nat
  <2>1. a \in Nat /\ (K + 1) * old = a + old
    <3> HIDE DEF K
    <3> QED BY <1>1, TimesOrder
  <2>2. c \in Nat
    BY TimesOrder
  <2> QED BY <1>1, <2>1, <2>2
<1>3. N <= a + T /\ c + l <= N
  OBVIOUS
<1>4. L < R => d + old <= c
  BY TimesOrder
<1>5. R = L => c = d
  OBVIOUS
<1> HIDE DEF K, a, c, d
<1>6. R <= L
  <2> SUFFICES ASSUME L < R PROVE FALSE
    OBVIOUS
  <2>1. d + old <= c
    BY <1>4
  <2> QED BY <1>2, <1>3, <2>1
<1>7. ASSUME R = L PROVE l <= 1 /\ (l = 1 => T = old + 1)
  <2>1. c = d
    BY <1>5, <1>7
  <2>2. a + old + l <= a + T
    BY <1>2, <1>3, <2>1
  <2> QED BY <1>2, <2>2
<1> QED BY <1>6, <1>7

\* A group whose lines have been widened is laid out in no more lines than it has.
LEMMA JoinedIs ==
  ASSUME NEW old \in Nat, old >= 2, NEW cols \in Nat, old < cols, NEW w \in Seq(Widened(old, cols)), Len(w) >= 1
  PROVE  /\ Joined(w, old, cols) \in Seq(RowsOf(cols, TRUE, FALSE))
         /\ Len(Joined(w, old, cols)) \in Nat /\ Len(Joined(w, old, cols)) >= 1
         /\ Len(Joined(w, old, cols)) <= Len(w)
<1> DEFINE run == Run(w, old)
           laid == LaidOut(run, cols)
           end == LastLaid(laid, cols)
           rows == Append(laid.rows, end)
           n == Filled(rows)
           L == Len(w)
           R == Len(laid.rows)
           l == Len(laid.row)
           N == Len(run)
           last == w[L].cells
           T == TrimmedLength(last)
           F == Full(cols)
<1>1. Group(w, old) /\ T \in Nat /\ T <= old + 1 /\ last[old + 1].ch = <<>> /\ L \in Nat
  <2>1. old \in Nat \ {0}
    OBVIOUS
  <2> QED BY <2>1, WidenedGroup
<1>2. RunOf(run, w, old)
  <2>1. old \in Nat \ {0}
    OBVIOUS
  <2> QED BY <1>1, <2>1, RunIs
<1>3. run \in Seq(Cell) /\ N <= (L - 1) * old + T /\ (T > 0 => N > 0 /\ run[N] = last[T])
  BY <1>2 DEF RunOf
<1> HIDE DEF run
<1>4. N \in Nat
  BY <1>3, ItemsAre
<1>5. LaidCells(laid, run, old, cols, N)
  <2>1. old \in Nat \ {0}
    OBVIOUS
  <2> QED BY <1>3, <2>1, LaidOutIs
<1> HIDE DEF laid
<1>6. /\ laid.rows \in Seq(F) /\ laid.row \in Seq(Cell) /\ l < cols /\ R * old + l <= N
      /\ \A i \in 1 .. l : laid.row[i] = run[N - l + i]
  BY <1>5 DEF LaidCells
<1>7. R \in Nat /\ l \in Nat
  BY <1>6, ItemsAre
<1> HIDE DEF T, last
<1>8. R <= L /\ (R = L => l <= 1 /\ (l = 1 => T = old + 1))
  <2>1. L \in Nat \ {0}
    BY <1>1
  <2> HIDE DEF L, R, l, N
  <2>2. /\ L \in Nat \ {0} /\ old \in Nat /\ old >= 2 /\ R \in Nat /\ l \in Nat /\ N \in Nat /\ T \in Nat
        /\ T <= old + 1 /\ N <= (L - 1) * old + T /\ R * old + l <= N
    BY <1>1, <1>3, <1>4, <1>6, <1>7, <2>1
  <2> QED BY ONLY <2>2, LaidRoom
<1>9. end \in F /\ ((\A i \in 1 .. l : laid.row[i].ch = <<>>) => TrimmedLength(end) = 0)
  <2>1. cols \in Nat \ {0}
    OBVIOUS
  <2> QED BY <1>6, <2>1, LastLaidIs
<1> HIDE DEF end
<1>10. ASSUME R = L PROVE TrimmedLength(end) = 0
  <2>1. ASSUME NEW i \in 1 .. l PROVE laid.row[i].ch = <<>>
    <3>1. l = 1 /\ i = 1 /\ T = old + 1
      <4>1. l <= 1 /\ (l = 1 => T = old + 1)
        BY <1>8, <1>10
      <4>2. i \in 1 .. l /\ l \in Nat
        BY <1>7
      <4> HIDE DEF l
      <4>3. l = 1 /\ i = 1
        BY <4>1, <4>2
      <4> QED BY <4>1, <4>3
    <3>2. N - l + i = N
      BY <1>4, <3>1
    <3>3. laid.row[i] = run[N]
      BY <1>6, <3>2
    <3>4. run[N] = last[old + 1]
      BY <1>3, <3>1
    <3> QED BY <1>1, <3>3, <3>4
  <2> QED BY <1>9, <2>1
<1>11. rows \in Seq(F) /\ Len(rows) = R + 1 /\ rows[R + 1] = end
  BY <1>6, <1>9, AppendIs
<1>12. Joined(w, old, cols) = Relaid(w, rows, n)
  BY Zenon DEF Joined, Relaid, LastLaid, LaidOut, run, laid, end, Filled
<1> HIDE DEF rows
<1>13. n \in Nat /\ n >= 1 /\ n <= Len(rows) /\ n <= L
  <2>1. L \in Nat \ {0} /\ Len(rows) >= 1 /\ Len(rows) <= L + 1
    BY <1>1, <1>7, <1>8, <1>11
  <2>2. ASSUME Len(rows) = L + 1 PROVE TrimmedLength(rows[L + 1]) = 0
    <3>1. R = L
      BY <1>1, <1>7, <1>11, <2>2
    <3> QED BY <1>10, <1>11, <3>1
  <2> HIDE DEF L, F
  <2> QED BY <1>11, <2>1, <2>2, NeededLast
<1>14. Relaid(w, rows, n) \in Seq(RowsOf(cols, TRUE, FALSE)) /\ Len(Relaid(w, rows, n)) = n
  <2> DEFINE S == Widened(old, cols)
  <2>1. S \subseteq TextLine /\ w \in Seq(S)
    BY WidenedIs
  <2>2. rows \in Seq(Full(cols)) /\ n \in Nat /\ n <= Len(w) /\ n <= Len(rows)
    BY <1>11, <1>13
  <2> HIDE DEF S, n
  <2> QED BY <2>1, <2>2, RelaidIs
<1> HIDE DEF n
<1> QED BY <1>12, <1>13, <1>14

\* A buffer of rows whose lines are being broken anew: what of b it keeps, the cursor on the screen.
Flowing(a, b, T, rows, back) ==
  /\ Sizing(a, T, rows + back, back) /\ a.y \in 0 .. rows - 1
  /\ a.x = b.x /\ a.top = b.top /\ a.bot = b.bot /\ a.down = b.down

\* Lines, cursor and view changed.
Viewing(b, lines, y, base, disp) == [b EXCEPT !.lines = lines, !.y = y, !.ybase = base, !.ydisp = disp]

\* What a buffer shows then.
Views(c, b, T, max, back, l, y, base) ==
  /\ Sizing(c, T, max, back) /\ c.lines = l /\ c.y = y /\ c.ybase = base
  /\ c.x = b.x /\ c.top = b.top /\ c.bot = b.bot /\ c.down = b.down

\* They are in its place.
LEMMA ViewingIs ==
  ASSUME NEW S, NEW max, NEW back, NEW b, Sizing(b, S, max, back), NEW T, NEW l \in Seq(T), Len(l) <= max,
         NEW y \in Int, NEW base \in Nat, NEW disp \in 0 .. base
  PROVE  Views(Viewing(b, l, y, base, disp), b, T, max, back, l, y, base)
<1> DEFINE c1 == [b EXCEPT !.lines = l]
           c2 == [c1 EXCEPT !.y = y]
           c3 == [c2 EXCEPT !.ybase = base]
           c == [c3 EXCEPT !.ydisp = disp]
           Close(d) == /\ d \in BufRec(T) /\ d.lines = l /\ d.max = b.max /\ d.back = b.back
                       /\ d.x = b.x /\ d.top = b.top /\ d.bot = b.bot /\ d.down = b.down
<1>1. b \in BufRec(S) /\ base \in Int /\ disp \in Int
  BY DEF Sizing
<1>2. Close(c1)
  BY <1>1 DEF BufRec
<1>3. Viewing(b, l, y, base, disp) = c
  BY DEF Viewing
<1> HIDE DEF c1
<1>4. Close(c2) /\ c2.y = y
  BY <1>1, <1>2 DEF BufRec
<1> HIDE DEF c2
<1>5. Close(c3) /\ c3.y = y /\ c3.ybase = base
  BY <1>1, <1>4 DEF BufRec
<1> HIDE DEF c3
<1>6. Close(c) /\ c.y = y /\ c.ybase = base /\ c.ydisp = disp
  BY <1>1, <1>5 DEF BufRec
<1> HIDE DEF c
<1>7. Sizing(c, T, max, back)
  BY <1>6 DEF Sizing
<1> QED BY <1>3, <1>6, <1>7 DEF Views

\* One line fewer, of d + 1 the list may have lost: d are left to make up for.
LEMMA OneRemovedIs ==
  ASSUME NEW T, NEW cols \in Nat, BlankLine(cols, FALSE) \in T, NEW rows \in Nat \ {0}, NEW back \in Nat,
         NEW b, NEW a, Flowing(a, b, T, rows, back), NEW d \in Nat, a.ybase + rows <= Len(a.lines) + (d + 1)
  PROVE  LET c == OneRemoved(a, cols, rows) IN
         Flowing(c, b, T, rows, back) /\ c.ybase + rows <= Len(c.lines) + d
<1> DEFINE max == rows + back
           s == a.lines
           v == BlankLine(cols, FALSE)
           l == IF Len(s) < rows THEN Append(s, v) ELSE s
           y == MostOf(a.y - 1, 0)
           base == a.ybase - 1
           disp == IF a.ydisp = a.ybase THEN a.ydisp - 1 ELSE a.ydisp
           c == OneRemoved(a, cols, rows)
<1>1. /\ Sizing(a, T, max, back) /\ a.y \in 0 .. rows - 1
      /\ a.x = b.x /\ a.top = b.top /\ a.bot = b.bot /\ a.down = b.down
  BY DEF Flowing
<1>2. max \in Nat /\ rows <= max /\ max = rows + back
  OBVIOUS
<1> HIDE DEF max
<1>3. /\ a \in BufRec(T) /\ s \in Seq(T) /\ Len(s) \in Nat /\ Len(s) <= max
      /\ a.ybase \in Nat /\ a.ydisp \in Nat /\ a.ydisp <= a.ybase /\ a.y \in Int
  BY <1>1, SizingIs
<1>4. CASE a.ybase = 0
  <2>1. c = Viewing(a, l, y, a.ybase, a.ydisp)
    <3>1. c = [a EXCEPT !.y = y, !.lines = l]
      BY <1>4 DEF OneRemoved
    <3>2. [a EXCEPT !.y = y, !.lines = l] = [a EXCEPT !.lines = l, !.y = y, !.ybase = a.ybase, !.ydisp = a.ydisp]
      <4> HIDE DEF y, l
      <4> QED BY ONLY <1>3 DEF BufRec
    <3> QED BY <3>1, <3>2 DEF Viewing
  <2>2. y \in 0 .. rows - 1 /\ y \in Int
    BY <1>1 DEF MostOf
  <2>3. l \in Seq(T) /\ Len(l) \in Nat /\ Len(l) <= max
        /\ (Len(s) < rows => Len(l) = Len(s) + 1) /\ (~(Len(s) < rows) => Len(l) = Len(s))
    <3>1. CASE Len(s) < rows
      <4>1. l = Append(s, v)
        BY <3>1
      <4>2. Append(s, v) \in Seq(T) /\ Len(Append(s, v)) = Len(s) + 1
        <5> HIDE DEF v, s
        <5> QED BY <1>3, AppendIs DEF v
      <4>3. Len(s) + 1 <= max
        <5> DEFINE z == Len(s)
        <5>1. z \in Nat /\ z < rows
          BY <1>3, <3>1
        <5> HIDE DEF z
        <5> QED BY <1>2, <5>1 DEF z
      <4> HIDE DEF l, s
      <4>4. l \in Seq(T) /\ Len(l) = Len(s) + 1 /\ Len(s) \in Nat
        BY <1>3, <4>1, <4>2
      <4>5. Len(l) \in Nat
        BY <4>4
      <4>6. Len(l) <= max
        BY <4>3, <4>4
      <4> QED BY <3>1, <4>4, <4>5, <4>6
    <3>2. CASE ~(Len(s) < rows)
      BY <1>3, <3>2
    <3> QED BY <3>1, <3>2
  <2> HIDE DEF l, y, c
  <2>4. /\ Sizing(c, T, max, back) /\ c.lines = l /\ c.y = y /\ c.ybase = a.ybase
        /\ c.x = a.x /\ c.top = a.top /\ c.bot = a.bot /\ c.down = a.down
    <3> DEFINE p == a.ybase
               q == a.ydisp
    <3>1. Sizing(a, T, max, back) /\ l \in Seq(T) /\ Len(l) <= max /\ y \in Int /\ p \in Nat /\ q \in 0 .. p
      BY <1>1, <1>3, <2>2, <2>3
    <3>2. c = Viewing(a, l, y, p, q)
      BY <2>1
    <3>3. p = a.ybase
      OBVIOUS
    <3> HIDE DEF p, q
    <3>4. Views(Viewing(a, l, y, p, q), a, T, max, back, l, y, p)
      BY ONLY <3>1, ViewingIs
    <3> QED BY <3>2, <3>3, <3>4 DEF Views
  <2>5. c.ybase + rows <= Len(c.lines) + d
    <3>1. CASE Len(s) < rows
      <4>1. a.ybase + rows <= Len(s) + (d + 1) /\ Len(c.lines) = Len(s) + 1
        BY <2>3, <2>4, <3>1
      <4> HIDE DEF s
      <4> QED BY <1>3, <2>4, <4>1
    <3>2. CASE ~(Len(s) < rows)
      <4>1. c.ybase = 0 /\ Len(c.lines) = Len(s)
        BY <1>4, <2>3, <2>4, <3>2
      <4> HIDE DEF s
      <4> QED BY <1>3, <3>2, <4>1
    <3> QED BY <3>1, <3>2
  <2> QED BY <1>1, <2>2, <2>4, <2>5 DEF Flowing, max, c
<1>5. CASE ~(a.ybase = 0)
  <2>1. c = Viewing(a, s, a.y, base, disp)
    <3>1. c = [a EXCEPT !.ybase = base, !.ydisp = disp]
      BY <1>5 DEF OneRemoved
    <3>2. [a EXCEPT !.ybase = base, !.ydisp = disp] = [a EXCEPT !.lines = a.lines, !.y = a.y, !.ybase = base, !.ydisp = disp]
      <4> HIDE DEF base, disp
      <4> QED BY ONLY <1>3 DEF BufRec
    <3> QED BY <3>1, <3>2 DEF Viewing
  <2>2. base \in Nat /\ disp \in 0 .. base
    BY <1>3, <1>5
  <2>3. base + rows <= Len(s) + d
    <3> DEFINE z == Len(s)
    <3>1. z \in Nat /\ a.ybase + rows <= z + (d + 1) /\ base = a.ybase - 1
      BY <1>3
    <3> HIDE DEF z, base
    <3>2. base + rows <= z + d
      BY <1>3, <3>1
    <3> QED BY <3>2 DEF z
  <2> HIDE DEF base, disp, c
  <2>4. /\ Sizing(c, T, max, back) /\ c.lines = s /\ c.y = a.y /\ c.ybase = base
        /\ c.x = a.x /\ c.top = a.top /\ c.bot = a.bot /\ c.down = a.down
    <3> DEFINE p == a.y
    <3>1. Sizing(a, T, max, back) /\ s \in Seq(T) /\ Len(s) <= max /\ p \in Int /\ base \in Nat /\ disp \in 0 .. base
      BY <1>1, <1>3, <2>2
    <3>2. c = Viewing(a, s, p, base, disp) /\ p = a.y
      BY <2>1
    <3> HIDE DEF p, s
    <3>4. Views(Viewing(a, s, p, base, disp), a, T, max, back, s, p, base)
      BY ONLY <3>1, ViewingIs
    <3> QED BY <3>2, <3>4 DEF Views, s
  <2>5. c.ybase + rows <= Len(c.lines) + d
    BY <2>3, <2>4
  <2> QED BY <1>1, <2>4, <2>5 DEF Flowing, max, c
<1> QED BY <1>4, <1>5

\* As many lines fewer as the list has lost.
Removes(b, removed, cols, rows) == LET one(v) == OneRemoved(v, cols, rows) IN Times(removed, one, b)

\* The screen has its rows again.
LEMMA RemovesIs ==
  ASSUME NEW T, NEW cols \in Nat, BlankLine(cols, FALSE) \in T, NEW rows \in Nat \ {0}, NEW back \in Nat,
         NEW b, NEW a0, Flowing(a0, b, T, rows, back), NEW removed \in Nat, a0.ybase + rows <= Len(a0.lines) + removed
  PROVE  LET c == Removes(a0, removed, cols, rows) IN
         Flowing(c, b, T, rows, back) /\ c.ybase + rows <= Len(c.lines)
<1> DEFINE n == removed
           v == a0
           X == {e \in BufRec(T) : Flowing(e, b, T, rows, back)}
           P(e, k) == e.ybase + rows <= Len(e.lines) + (removed - k)
           body(e, k) == OneRemoved(e, cols, rows)
           I == [k \in 0 .. n |-> {a \in X : P(a, k)}]
           stp == [k \in 1 .. n |-> [a \in X |-> body(a, k)]]
           Eq(g) == g = [k \in 0 .. n |-> IF k = 0 THEN v ELSE body(g[k - 1], k)]
           at == CHOOSE g : Eq(g)
<1>1. Removes(a0, removed, cols, rows) = IF n > 0 THEN at[n] ELSE v
  BY DEF Removes, Times
<1>2. n \in Nat
  OBVIOUS
<1>3. v \in X /\ P(v, 0)
  <2>1. a0 \in BufRec(T)
    BY DEF Flowing, Sizing
  <2> QED BY <2>1
<1>4. \A e \in X : \A k \in 1 .. n : P(e, k - 1) => body(e, k) \in X /\ P(body(e, k), k)
  <2>1. ASSUME NEW e \in X, NEW k \in 1 .. n, P(e, k - 1) PROVE body(e, k) \in X /\ P(body(e, k), k)
    <3> DEFINE d == removed - k
               c == OneRemoved(e, cols, rows)
    <3>1. d \in Nat /\ removed - (k - 1) = d + 1
      OBVIOUS
    <3>2. Flowing(e, b, T, rows, back) /\ e.ybase + rows <= Len(e.lines) + (d + 1)
      BY <2>1, <3>1
    <3> HIDE DEF d
    <3>3. Flowing(c, b, T, rows, back) /\ c.ybase + rows <= Len(c.lines) + d
      BY <3>1, <3>2, OneRemovedIs
    <3>4. c \in BufRec(T)
      BY <3>3 DEF Flowing, Sizing
    <3> QED BY <3>3, <3>4 DEF d
  <2> QED BY <2>1
<1>5. \A e \in X : P(e, n) => Flowing(e, b, T, rows, back) /\ e.ybase + rows <= Len(e.lines)
  <2>1. ASSUME NEW e \in X, P(e, n) PROVE e.ybase + rows <= Len(e.lines)
    <3>1. removed - removed = 0
      OBVIOUS
    <3>2. Len(e.lines) \in Nat
      BY SizingIs DEF Flowing
    <3> QED BY <2>1, <3>1, <3>2
  <2> QED BY <2>1
<1>6. n = 0 => Flowing(v, b, T, rows, back) /\ v.ybase + rows <= Len(v.lines)
  BY <1>3, <1>5
<1> HIDE DEF n, v, X, P, body
<1>7. /\ n \in Nat /\ v \in I[0] /\ n \in 0 .. n
      /\ \A k \in 1 .. n : k \in 0 .. n /\ k # 0 /\ \A e \in I[k - 1] : stp[k][e] \in I[k] /\ stp[k][e] = body(e, k)
  <2>1. 0 \in 0 .. n /\ n \in 0 .. n
    BY <1>2
  <2>2. ASSUME NEW k \in 1 .. n PROVE k - 1 \in 0 .. n /\ k \in 0 .. n /\ k # 0
    BY <1>2
  <2>3. ASSUME NEW k \in 1 .. n, NEW e \in I[k - 1] PROVE stp[k][e] \in I[k] /\ stp[k][e] = body(e, k)
    <3>1. e \in X /\ P(e, k - 1)
      BY <2>2
    <3>2. body(e, k) \in X /\ P(body(e, k), k)
      BY <1>4, <3>1
    <3> QED BY <2>2, <3>1, <3>2
  <2> QED BY <1>2, <1>3, <2>1, <2>2, <2>3
<1>8. \A e \in I[n] : e \in X /\ P(e, n)
  BY <1>7
<1> HIDE DEF I, stp
<1>9. PICK g : Loops(g, n, v, stp) /\ \A k \in 0 .. n : g[k] \in I[k]
  BY <1>7, LoopRuns
<1>10. Eq(g)
  <2>1. g = [k \in 0 .. n |-> IF k = 0 THEN v ELSE stp[k][g[k - 1]]]
    BY <1>9 DEF Loops
  <2>2. ASSUME NEW k \in 0 .. n
        PROVE (IF k = 0 THEN v ELSE stp[k][g[k - 1]]) = (IF k = 0 THEN v ELSE body(g[k - 1], k))
    <3>1. CASE k # 0
      <4>1. k \in 1 .. n /\ k - 1 \in 0 .. n
        BY <1>2, <3>1
      <4> QED BY <1>7, <1>9, <3>1, <4>1
    <3> QED BY <3>1
  <2> QED BY <2>1, <2>2
<1>11. Eq(at)
  <2> HIDE DEF Eq
  <2> QED BY <1>10
<1> HIDE DEF at
<1>12. at[0] = v /\ \A k \in 1 .. n : at[k] = body(at[k - 1], k)
  <2>1. 0 \in 0 .. n
    BY <1>2
  <2> QED BY <1>7, <1>11, <2>1
<1> HIDE DEF Eq
<1>13. at[n] \in X /\ P(at[n], n)
  <2>1. ASSUME NEW k \in 1 .. n, at[k - 1] \in I[k - 1] PROVE at[k] \in I[k]
    BY <1>7, <1>12, <2>1
  <2>2. at[n] \in I[n]
    BY <1>7, <1>12, <2>1, LoopHolds
  <2> QED BY <1>8, <2>2
<1> DEFINE c == Removes(a0, removed, cols, rows)
<1>14. CASE n > 0
  <2>1. c = at[n]
    BY <1>1, <1>14
  <2> HIDE DEF c
  <2> QED BY <1>5, <1>13, <2>1 DEF c
<1>15. CASE ~(n > 0)
  <2>1. c = v /\ n = 0
    BY <1>1, <1>2, <1>15
  <2> HIDE DEF c
  <2> QED BY <1>6, <2>1 DEF c
<1> QED BY <1>14, <1>15

\* One list after another.
LEMMA ConcatIs ==
  ASSUME NEW S, NEW s \in Seq(S), NEW u \in Seq(S)
  PROVE  /\ s \o u \in Seq(S) /\ Len(s \o u) = Len(s) + Len(u)
         /\ \A i \in 1 .. Len(s) : (s \o u)[i] = s[i]
         /\ \A i \in 1 .. Len(u) : (s \o u)[Len(s) + i] = u[i]
<1>1. Len(s) \in Nat /\ Len(u) \in Nat
  BY ItemsAre
<1>2. s \o u \in Seq(S) /\ Len(s \o u) = Len(s) + Len(u)
      /\ \A i \in 1 .. Len(s) + Len(u) : (s \o u)[i] = IF i <= Len(s) THEN s[i] ELSE u[i - Len(s)]
  BY ConcatProperties
<1> DEFINE r == s \o u
           m == Len(s)
           n == Len(u)
<1>3. m \in Nat /\ n \in Nat /\ \A i \in 1 .. m + n : r[i] = IF i <= m THEN s[i] ELSE u[i - m]
  BY <1>1, <1>2
<1> HIDE DEF r, m, n
<1>4. \A i \in 1 .. m : r[i] = s[i]
  BY <1>3
<1>5. ASSUME NEW i \in 1 .. n PROVE r[m + i] = u[i]
  <2>1. m + i \in 1 .. m + n /\ ~(m + i <= m) /\ (m + i) - m = i
    BY <1>3
  <2> QED BY <1>3, <2>1
<1> QED BY <1>2, <1>4, <1>5 DEF r, m, n

\* The groups laid out on more columns, but for the cursor's own.
Widening(groups, cursor, old, cols) ==
  LET step(acc, w) ==
        LET here == cursor \in acc.at..(acc.at + Len(w) - 1)
        IN [at |-> acc.at + Len(w),
            out |-> acc.out \o (IF Len(w) = 1 \/ here THEN w ELSE Joined(w, old, cols))]
  IN Along(groups, step, [at |-> 0, out |-> <<>>])

\* They take no more lines than they had.
LEMMA WideningIs ==
  ASSUME NEW old \in Nat, old >= 2, NEW cols \in Nat, old < cols, NEW m,
         NEW groups \in Seq(GroupsOf(Widened(old, cols), m)), NEW big, Laid(groups, big), NEW cursor \in Int
  PROVE  LET c == Widening(groups, cursor, old, cols) IN
         c.out \in Seq(RowsOf(cols, TRUE, FALSE)) /\ Len(c.out) <= big
<1> DEFINE n == Len(groups)
           v == [at |-> 0, out |-> <<>>]
           S == Widened(old, cols)
           T == RowsOf(cols, TRUE, FALSE)
           X == [at : Nat, out : Seq(T)]
           new(a, w) == IF Len(w) = 1 \/ cursor \in a.at .. (a.at + Len(w) - 1) THEN w ELSE Joined(w, old, cols)
           body(a, k) == [at |-> a.at + Len(groups[k]), out |-> a.out \o new(a, groups[k])]
<1>0. PICK st : LaidAt(groups, big, st)
  BY DEF Laid
<1> DEFINE P(a, k) == a.at = st[k + 1] /\ Len(a.out) <= a.at
           I == [k \in 0 .. n |-> {a \in X : P(a, k)}]
           stp == [k \in 1 .. n |-> [a \in X |-> body(a, k)]]
           Eq(g) == g = [k \in 0 .. n |-> IF k = 0 THEN v ELSE body(g[k - 1], k)]
           at == CHOOSE g : Eq(g)
<1>1. Widening(groups, cursor, old, cols) = at[n]
  BY DEF Widening, Along
<1>2. n \in Nat
  BY ItemsAre
<1>3. v \in X /\ P(v, 0)
  <2>1. <<>> \in Seq(T) /\ Len(<<>>) = 0 /\ st[1] = 0
    BY <1>0, EmptySeq DEF LaidAt
  <2> DEFINE e == <<>>
             z == 0
  <2>2. v = [at |-> z, out |-> e] /\ e \in Seq(T) /\ z \in Nat /\ Len(e) <= z /\ z = st[0 + 1]
    BY <2>1
  <2> HIDE DEF e, z, v, T
  <2> QED BY <2>2
<1>4. \A a \in X : \A k \in 1 .. n : P(a, k - 1) => body(a, k) \in X /\ P(body(a, k), k)
  <2>1. ASSUME NEW a \in X, NEW k \in 1 .. n, P(a, k - 1) PROVE body(a, k) \in X /\ P(body(a, k), k)
    <3> DEFINE w == groups[k]
               l == Len(w)
               z == a.at + l
               r == new(a, w)
               o == a.out \o r
               b == body(a, k)
    <3>1. w \in GroupsOf(S, m)
      BY <1>2, ItemsAre
    <3>2. w \in Seq(S) /\ l >= 1 /\ l \in Nat
      <4>1. w \in Seq(S) /\ l >= 1
        BY <3>1 DEF GroupsOf
      <4> QED BY <4>1, ItemsAre
    <3>3. r \in Seq(T) /\ Len(r) \in Nat /\ Len(r) <= l
      <4>1. CASE Len(w) = 1 \/ cursor \in a.at .. (a.at + Len(w) - 1)
        <5>1. r = w
          BY <4>1
        <5>2. S \subseteq T
          BY WidenedIs
        <5> HIDE DEF S, T, w, r
        <5>3. w \in Seq(T)
          BY <3>2, <5>2, SeqMonotonic
        <5> QED BY <3>2, <5>1, <5>3
      <4>2. CASE ~(Len(w) = 1 \/ cursor \in a.at .. (a.at + Len(w) - 1))
        <5>1. r = Joined(w, old, cols)
          BY <4>2
        <5>2. /\ Joined(w, old, cols) \in Seq(RowsOf(cols, TRUE, FALSE))
              /\ Len(Joined(w, old, cols)) \in Nat /\ Len(Joined(w, old, cols)) <= Len(w)
          <6>1. old \in Nat /\ old >= 2 /\ cols \in Nat /\ old < cols /\ w \in Seq(Widened(old, cols)) /\ Len(w) >= 1
            BY <3>2
          <6> QED BY ONLY <6>1, JoinedIs
        <5> HIDE DEF r, w
        <5> QED BY <5>1, <5>2
      <4> QED BY <4>1, <4>2
    <3>4. a.at \in Nat /\ a.out \in Seq(T) /\ Len(a.out) <= a.at /\ a.at = st[k]
      <4>1. (k - 1) + 1 = k
        OBVIOUS
      <4> QED BY <2>1, <4>1
    <3>5. z = st[k + 1]
      <4>1. \A i \in 1 .. n : st[i + 1] = st[i] + Len(groups[i])
        BY <1>0 DEF LaidAt
      <4> QED BY <3>4, <4>1
    <3> HIDE DEF r, T
    <3>6. o \in Seq(T) /\ Len(o) = Len(a.out) + Len(r) /\ Len(a.out) \in Nat
      BY <3>3, <3>4, ConcatIs, ItemsAre
    <3>7. z \in Nat /\ Len(o) <= z
      BY <3>2, <3>3, <3>4, <3>6
    <3>8. b = [at |-> z, out |-> o]
      BY DEF r
    <3> HIDE DEF z, o, b
    <3> QED BY <3>5, <3>6, <3>7, <3>8 DEF b
  <2> QED BY <2>1
<1>5. \A a \in X : P(a, n) => a.out \in Seq(T) /\ Len(a.out) <= big
  <2>1. st[n + 1] = big
    BY <1>0 DEF LaidAt
  <2> QED BY <2>1
<1> HIDE DEF n, v, X, P, body, T
<1>6. /\ n \in Nat /\ v \in I[0] /\ n \in 0 .. n
      /\ \A k \in 1 .. n : k \in 0 .. n /\ k # 0 /\ \A e \in I[k - 1] : stp[k][e] \in I[k] /\ stp[k][e] = body(e, k)
  <2>1. 0 \in 0 .. n /\ n \in 0 .. n
    BY <1>2
  <2>2. ASSUME NEW k \in 1 .. n PROVE k - 1 \in 0 .. n /\ k \in 0 .. n /\ k # 0
    BY <1>2
  <2>3. ASSUME NEW k \in 1 .. n, NEW e \in I[k - 1] PROVE stp[k][e] \in I[k] /\ stp[k][e] = body(e, k)
    <3>1. e \in X /\ P(e, k - 1)
      BY <2>2
    <3>2. body(e, k) \in X /\ P(body(e, k), k)
      BY <1>4, <3>1
    <3> QED BY <2>2, <3>1, <3>2
  <2> QED BY <1>2, <1>3, <2>1, <2>2, <2>3
<1>7. \A e \in I[n] : e \in X /\ P(e, n)
  BY <1>6
<1> HIDE DEF I, stp
<1>8. PICK g : Loops(g, n, v, stp) /\ \A k \in 0 .. n : g[k] \in I[k]
  BY <1>6, LoopRuns
<1>9. Eq(g)
  <2>1. g = [k \in 0 .. n |-> IF k = 0 THEN v ELSE stp[k][g[k - 1]]]
    BY <1>8 DEF Loops
  <2>2. ASSUME NEW k \in 0 .. n
        PROVE (IF k = 0 THEN v ELSE stp[k][g[k - 1]]) = (IF k = 0 THEN v ELSE body(g[k - 1], k))
    <3>1. CASE k # 0
      <4>1. k \in 1 .. n /\ k - 1 \in 0 .. n
        BY <1>2, <3>1
      <4> QED BY <1>6, <1>8, <3>1, <4>1
    <3> QED BY <3>1
  <2> QED BY <2>1, <2>2
<1>10. Eq(at)
  <2> HIDE DEF Eq
  <2> QED BY <1>9
<1> HIDE DEF at
<1>11. at[0] = v /\ \A k \in 1 .. n : at[k] = body(at[k - 1], k)
  <2>1. 0 \in 0 .. n
    BY <1>2
  <2> QED BY <1>6, <1>10, <2>1
<1> HIDE DEF Eq
<1>12. at[n] \in X /\ P(at[n], n)
  <2>1. ASSUME NEW k \in 1 .. n, at[k - 1] \in I[k - 1] PROVE at[k] \in I[k]
    BY <1>6, <1>11, <2>1
  <2>2. at[n] \in I[n]
    BY <1>6, <1>11, <2>1, LoopHolds
  <2> QED BY <1>7, <2>2
<1> DEFINE c == Widening(groups, cursor, old, cols)
<1>13. c.out \in Seq(T) /\ Len(c.out) <= big
  <2>1. c = at[n]
    BY <1>1
  <2> HIDE DEF c
  <2> QED BY <1>5, <1>12, <2>1
<1> QED BY <1>13 DEF T

\* The saved cursor moved.
Saving(b, sy) == [b EXCEPT !.sy = sy]

\* A buffer given more columns, its lines broken anew.
LEMMA LargerIs ==
  ASSUME NEW old \in Nat, old >= 2, NEW cols \in Nat, old < cols, NEW rows \in Nat \ {0}, NEW back \in Nat,
         NEW b, Settles(b, Widened(old, cols), cols, rows, back), NEW m, Chained(m, b.lines)
  PROVE  Settles(ReflowLarger(b, old, cols, rows), RowsOf(cols, TRUE, FALSE), cols, rows, back)
<1> DEFINE S == Widened(old, cols)
           T == RowsOf(cols, TRUE, FALSE)
           big == Len(b.lines)
           groups == Groups(b.lines)
           cursor == b.ybase + b.y
           out == Widening(groups, cursor, old, cols).out
           removed == big - Len(out)
           start == Viewing(b, out, b.y, b.ybase, b.ydisp)
           after == Removes(start, removed, cols, rows)
           sy == MostOf(after.sy - removed, 0)
           c == Saving(after, sy)
           max == rows + back
<1>1. /\ Framed(b, S, rows, back) /\ b.x \in 0 .. cols - 1 /\ b.y \in 0 .. rows - 1
  BY DEF Settles
<1>2. /\ Sizing(b, S, max, back) /\ b.ybase + rows <= big /\ big <= max /\ b.down = 0
      /\ 0 <= b.top /\ b.top <= b.bot /\ b.bot < rows
  BY <1>1 DEF Framed, Sizing
<1>3. b.lines \in Seq(S) /\ big \in Nat /\ b.ybase \in Nat /\ b.ydisp \in Nat /\ b.ydisp <= b.ybase /\ b.y \in Int
      /\ b \in BufRec(S)
  BY <1>2, SizingIs
<1>4. out \in Seq(T) /\ Len(out) \in Nat /\ Len(out) <= big
  <2>1. groups \in Seq(GroupsOf(S, m)) /\ Laid(groups, big)
    <3> HIDE DEF S
    <3> QED BY <1>3, GroupsAre
  <2>2. cursor \in Int
    BY <1>3
  <2> HIDE DEF groups, big, cursor
  <2>3. out \in Seq(T) /\ Len(out) <= big
    BY <2>1, <2>2, WideningIs
  <2> HIDE DEF out, T
  <2> QED BY <2>3, ItemsAre
<1>5. ReflowLarger(b, old, cols, rows) = c
  <2>1. start = [b EXCEPT !.lines = out]
    <3> HIDE DEF out
    <3>1. [b EXCEPT !.lines = out] = [b EXCEPT !.lines = out, !.y = b.y, !.ybase = b.ybase, !.ydisp = b.ydisp]
      BY ONLY <1>3 DEF BufRec
    <3> QED BY <3>1 DEF Viewing
  <2> HIDE DEF start
  <2> QED BY <2>1 DEF ReflowLarger, Widening, Removes, Saving
<1> HIDE DEF out, S, T, big, groups, cursor
<1>6. Views(start, b, T, max, back, out, b.y, b.ybase)
  <2> DEFINE y == b.y
             p == b.ybase
             q == b.ydisp
  <2>1. Sizing(b, S, max, back) /\ out \in Seq(T) /\ Len(out) <= max /\ y \in Int /\ p \in Nat /\ q \in 0 .. p
    <3>1. Len(out) <= max
      BY <1>2, <1>3, <1>4
    <3> QED BY <1>2, <1>3, <1>4, <3>1
  <2> HIDE DEF y, p, q
  <2>2. Views(Viewing(b, out, y, p, q), b, T, max, back, out, y, p)
    BY ONLY <2>1, ViewingIs
  <2> QED BY <2>2 DEF y, p, q
<1> HIDE DEF start
<1>7. /\ Flowing(start, b, T, rows, back) /\ removed \in Nat /\ start.ybase + rows <= Len(start.lines) + removed
  <2>1. removed \in Nat /\ Len(out) + removed = big
    BY <1>3, <1>4
  <2> HIDE DEF removed
  <2> QED BY <1>1, <1>2, <1>6, <2>1 DEF Flowing, Views
<1> HIDE DEF removed
<1>8. Flowing(after, b, T, rows, back) /\ after.ybase + rows <= Len(after.lines)
  <2>1. BlankLine(cols, FALSE) \in T
    <3>1. BlankLine(cols, FALSE) \in RowsOf(cols, TRUE, FALSE)
      BY BlankLineIs
    <3> QED BY <3>1 DEF T
  <2>2. /\ cols \in Nat /\ BlankLine(cols, FALSE) \in T /\ rows \in Nat \ {0} /\ back \in Nat
        /\ Flowing(start, b, T, rows, back) /\ removed \in Nat /\ start.ybase + rows <= Len(start.lines) + removed
    BY <1>7, <2>1
  <2> QED BY ONLY <2>2, RemovesIs
<1> HIDE DEF after, max
<1>9. /\ after \in BufRec(T) /\ after.lines \in Seq(T) /\ after.sy \in Int
      /\ Sizing(after, T, rows + back, back) /\ after.y \in 0 .. rows - 1
      /\ after.x = b.x /\ after.top = b.top /\ after.bot = b.bot /\ after.down = b.down
  <2>1. /\ Sizing(after, T, rows + back, back) /\ after.y \in 0 .. rows - 1
        /\ after.x = b.x /\ after.top = b.top /\ after.bot = b.bot /\ after.down = b.down
    BY <1>8 DEF Flowing
  <2>2. after \in BufRec(T) /\ after.sy \in Int /\ after.lines \in Seq(T)
    BY <2>1, SizingIs
  <2> QED BY <2>1, <2>2
<1>10. sy \in Int
  BY <1>7, <1>9 DEF MostOf
<1> HIDE DEF sy
<1>11. /\ c \in BufRec(T) /\ c.lines = after.lines /\ c.back = after.back /\ c.max = after.max /\ c.down = after.down
       /\ c.ybase = after.ybase /\ c.ydisp = after.ydisp /\ c.top = after.top /\ c.bot = after.bot
       /\ c.x = after.x /\ c.y = after.y
  BY <1>9, <1>10 DEF Saving, BufRec
<1> HIDE DEF c
<1>12. Framed(c, T, rows, back)
  BY <1>2, <1>8, <1>9, <1>11 DEF Framed, Sizing
<1> QED BY <1>1, <1>5, <1>9, <1>11, <1>12 DEF Settles, T

----------------------------------------------------------------------------
(* Fewer columns *)

\* Where lines of these lengths end, the last of them at cell n of a run.
EndsAt(lens, n, f) ==
  /\ f \in [0 .. Len(lens) -> 0 .. n] /\ f[0] = 0 /\ f[Len(lens)] = n
  /\ \A k \in 1 .. Len(lens) : f[k] = f[k - 1] + lens[k]
Ends(lens, n) == \E f : EndsAt(lens, n, f)

\* One line more.
LEMMA EndsMore ==
  ASSUME NEW cols, NEW lens \in Seq(1 .. cols), NEW n \in Nat, Ends(lens, n), NEW e \in 1 .. cols
  PROVE  /\ Append(lens, e) \in Seq(1 .. cols) /\ Ends(Append(lens, e), n + e)
<1> DEFINE S == 1 .. cols
           m == Len(lens)
           b == Append(lens, e)
           end == n + e
<1>1. PICK f : EndsAt(lens, n, f)
  BY DEF Ends
<1>2. m \in Nat /\ m = Len(lens) /\ b \in Seq(S) /\ Len(b) = m + 1 /\ b[m + 1] = e
      /\ (\A i \in 1 .. m : b[i] = lens[i]) /\ end \in Nat /\ end = n + e /\ e \in Nat
  <2> HIDE DEF S
  <2> QED BY AppendIs, ItemsAre DEF S
<1> HIDE DEF m, b, end
<1> DEFINE t == [k \in 0 .. m + 1 |-> IF k = m + 1 THEN end ELSE f[k]]
<1>3. /\ f \in [0 .. m -> 0 .. n] /\ f[0] = 0 /\ f[m] = n /\ \A k \in 1 .. m : f[k] = f[k - 1] + lens[k]
  BY <1>1, <1>2 DEF EndsAt
<1>4. \A k \in 0 .. m : t[k] = f[k] /\ k \in 0 .. m + 1
  BY <1>2
<1>5. t[m + 1] = end /\ t \in [0 .. m + 1 -> 0 .. end]
  BY <1>2, <1>3
<1> HIDE DEF t
<1>6. t[0] = 0
  BY <1>2, <1>3, <1>4
<1>7. ASSUME NEW k \in 1 .. m + 1 PROVE t[k] = t[k - 1] + b[k]
  <2>1. CASE k = m + 1
    <3>1. k - 1 = m /\ m \in 0 .. m
      BY <1>2, <2>1
    <3> QED BY <1>2, <1>3, <1>4, <1>5, <2>1, <3>1
  <2>2. CASE k # m + 1
    <3>1. k \in 1 .. m /\ k \in 0 .. m /\ k - 1 \in 0 .. m
      BY <1>2, <2>2
    <3> QED BY <1>2, <1>3, <1>4, <3>1
  <2> QED BY <2>1, <2>2
<1>8. EndsAt(b, end, t)
  BY <1>2, <1>5, <1>6, <1>7 DEF EndsAt
<1> QED BY <1>2, <1>8 DEF Ends, b, end

\* The lengths of a group's new lines: they fit the columns and the run.
LEMMA NewLineLengthsAre ==
  ASSUME NEW cols \in Nat, cols >= 2, NEW run \in Seq(Cell)
  PROVE  /\ NewLineLengths(run, cols) \in Seq(1 .. cols)
         /\ \E n \in 0 .. Len(run) : Ends(NewLineLengths(run, cols), n)
<1> DEFINE n == Len(run)
           S == 1 .. cols
           v == [at |-> 0, lens |-> <<>>]
           X == [at : 0 .. n, lens : Seq(S)]
           P(a, k) == Ends(a.lens, a.at)
           body(a, k) ==
             IF a.at >= Len(run) THEN a
             ELSE IF Len(run) - a.at < cols
               THEN [at |-> Len(run), lens |-> Append(a.lens, Len(run) - a.at)]
               ELSE LET e == IF run[a.at + cols].w = 2 THEN cols - 1 ELSE cols
                    IN [at |-> a.at + e, lens |-> Append(a.lens, e)]
           I == [k \in 0 .. n |-> {a \in X : P(a, k)}]
           stp == [k \in 1 .. n |-> [a \in X |-> body(a, k)]]
           Eq(g) == g = [k \in 0 .. n |-> IF k = 0 THEN v ELSE body(g[k - 1], k)]
           at == CHOOSE g : Eq(g)
<1>1. NewLineLengths(run, cols) = at[n].lens
  BY Zenon DEF NewLineLengths, Along
<1>2. n \in Nat
  BY ItemsAre
<1>3. v \in X /\ P(v, 0)
  <2> DEFINE e == <<>>
             z == 0
  <2>1. e \in Seq(S) /\ Len(e) = 0 /\ z \in 0 .. n /\ z = 0
    BY <1>2, EmptySeq
  <2>2. v = [at |-> z, lens |-> e]
    OBVIOUS
  <2> HIDE DEF e, z
  <2>3. Ends(e, z)
    <3> DEFINE f == [k \in 0 .. 0 |-> 0]
    <3>1. EndsAt(e, z, f)
      BY <2>1 DEF EndsAt
    <3> QED BY <3>1 DEF Ends
  <2> HIDE DEF v, S
  <2> QED BY <2>1, <2>2, <2>3
<1>4. \A a \in X : \A k \in 1 .. n : P(a, k - 1) => body(a, k) \in X /\ P(body(a, k), k)
  <2>1. ASSUME NEW a \in X, NEW k \in 1 .. n, P(a, k - 1) PROVE body(a, k) \in X /\ P(body(a, k), k)
    <3> DEFINE p == a.at
               l == a.lens
               e == IF n - p < cols THEN n - p ELSE IF run[p + cols].w = 2 THEN cols - 1 ELSE cols
               b == body(a, k)
    <3>1. p \in 0 .. n /\ l \in Seq(S) /\ Ends(l, p) /\ p \in Nat
      BY <2>1
    <3>2. CASE p >= n
      BY <2>1, <3>2
    <3>3. CASE ~(p >= n)
      <4>1. b = [at |-> p + e, lens |-> Append(l, e)]
        <5>1. CASE n - p < cols
          <6>1. n - p = e /\ p + (n - p) = n
            BY <1>2, <3>1, <5>1
          <6> QED BY <3>3, <5>1, <6>1
        <5>2. CASE ~(n - p < cols)
          BY <3>3, <5>2
        <5> QED BY <5>1, <5>2
      <4>2. e \in 1 .. cols /\ p + e \in 0 .. n
        <5> HIDE DEF p
        <5>1. CASE n - p < cols
          <6>1. e = n - p
            BY <5>1
          <6> HIDE DEF e, n
          <6> QED BY <1>2, <3>1, <3>3, <5>1, <6>1
        <5>2. CASE ~(n - p < cols)
          <6>1. e = cols \/ e = cols - 1
            BY <5>2
          <6> HIDE DEF e, n
          <6> QED BY <1>2, <3>1, <3>3, <5>2, <6>1
        <5> QED BY <5>1, <5>2
      <4> HIDE DEF b, p, l, e
      <4>3. Append(l, e) \in Seq(1 .. cols) /\ Ends(Append(l, e), p + e)
        BY <3>1, <4>2, EndsMore DEF S
      <4> DEFINE q == p + e
                 r == Append(l, e)
      <4>4. b = [at |-> q, lens |-> r] /\ q \in 0 .. n /\ r \in Seq(S) /\ Ends(r, q)
        BY <4>1, <4>2, <4>3
      <4> HIDE DEF q, r, S
      <4>5. b \in X /\ P(b, k)
        BY <4>4
      <4> QED BY <4>5 DEF b
    <3> QED BY <3>2, <3>3
  <2> HIDE DEF X, P, body
  <2> QED BY <2>1
<1>5. \A a \in X : P(a, n) => a.lens \in Seq(S) /\ a.at \in 0 .. n /\ Ends(a.lens, a.at)
  OBVIOUS
<1> HIDE DEF n, v, X, P, body, S
<1>6. /\ n \in Nat /\ v \in I[0] /\ n \in 0 .. n
      /\ \A k \in 1 .. n : k \in 0 .. n /\ k # 0 /\ \A e \in I[k - 1] : stp[k][e] \in I[k] /\ stp[k][e] = body(e, k)
  <2>1. 0 \in 0 .. n /\ n \in 0 .. n
    BY <1>2
  <2>2. ASSUME NEW k \in 1 .. n PROVE k - 1 \in 0 .. n /\ k \in 0 .. n /\ k # 0
    BY <1>2
  <2>3. ASSUME NEW k \in 1 .. n, NEW e \in I[k - 1] PROVE stp[k][e] \in I[k] /\ stp[k][e] = body(e, k)
    <3>1. e \in X /\ P(e, k - 1)
      BY <2>2
    <3>2. body(e, k) \in X /\ P(body(e, k), k)
      BY <1>4, <3>1
    <3> QED BY <2>2, <3>1, <3>2
  <2> QED BY <1>2, <1>3, <2>1, <2>2, <2>3
<1>7. \A e \in I[n] : e \in X /\ P(e, n)
  BY <1>6
<1> HIDE DEF I, stp
<1>8. PICK g : Loops(g, n, v, stp) /\ \A k \in 0 .. n : g[k] \in I[k]
  BY <1>6, LoopRuns
<1>9. Eq(g)
  <2>1. g = [k \in 0 .. n |-> IF k = 0 THEN v ELSE stp[k][g[k - 1]]]
    BY <1>8 DEF Loops
  <2>2. ASSUME NEW k \in 0 .. n
        PROVE (IF k = 0 THEN v ELSE stp[k][g[k - 1]]) = (IF k = 0 THEN v ELSE body(g[k - 1], k))
    <3>1. CASE k # 0
      <4>1. k \in 1 .. n /\ k - 1 \in 0 .. n
        BY <1>2, <3>1
      <4> QED BY <1>6, <1>8, <3>1, <4>1
    <3> QED BY <3>1
  <2> QED BY <2>1, <2>2
<1>10. Eq(at)
  <2> HIDE DEF Eq
  <2> QED BY <1>9
<1> HIDE DEF at
<1>11. at[0] = v /\ \A k \in 1 .. n : at[k] = body(at[k - 1], k)
  <2>1. 0 \in 0 .. n
    BY <1>2
  <2> QED BY <1>6, <1>10, <2>1
<1> HIDE DEF Eq
<1>12. at[n] \in X /\ P(at[n], n)
  <2>1. ASSUME NEW k \in 1 .. n, at[k - 1] \in I[k - 1] PROVE at[k] \in I[k]
    BY <1>6, <1>11, <2>1
  <2>2. at[n] \in I[n]
    BY <1>6, <1>11, <2>1, LoopHolds
  <2> QED BY <1>7, <2>2
<1>13. at[n].lens \in Seq(S) /\ \E k \in 0 .. n : Ends(at[n].lens, k)
  BY <1>5, <1>12
<1> QED BY <1>1, <1>13 DEF S, n

\* The cell of a new line: of the run, then one blank, then what the line held.
NewCell(run, at, c, n, cols, i) ==
  IF i <= n THEN run[at + i] ELSE IF i = n + 1 /\ n < cols THEN Blank(FALSE) ELSE c[i]

\* A line with such cells.
NewLine(r, run, at, n, cols) ==
  SetCells(r, Listed([i \in DOMAIN r.cells |-> NewCell(run, at, r.cells, n, cols, i)]))

\* It is a line as long as before.
LEMMA NewLineIs ==
  ASSUME NEW old \in Nat, NEW r \in RowsOf(old, TRUE, FALSE), NEW run \in Seq(Cell), NEW at \in Nat, NEW n \in Nat,
         at + n <= Len(run), NEW cols \in Nat
  PROVE  NewLine(r, run, at, n, cols) \in RowsOf(old, TRUE, FALSE)
<1> DEFINE c == r.cells
           f == [i \in 1 .. old |-> NewCell(run, at, c, n, cols, i)]
           l == Listed(f)
<1>1. r \in TextLine /\ c \in Seq(Cell) /\ Len(c) = old /\ DOMAIN c = 1 .. old /\ \A i \in 1 .. old : c[i] \in Cell
  <2>1. r \in TextLine /\ c \in Seq(Cell) /\ Len(c) = old
    BY DEF RowsOf, TextLine
  <2> HIDE DEF c
  <2> QED BY <2>1, ItemsAre
<1>2. NewLine(r, run, at, n, cols) = SetCells(r, l)
  BY <1>1 DEF NewLine
<1> HIDE DEF c
<1>3. f \in [1 .. old -> Cell]
  <2>1. ASSUME NEW i \in 1 .. old PROVE NewCell(run, at, c, n, cols, i) \in Cell
    <3>1. CASE i <= n
      <4>1. at + i \in 1 .. Len(run)
        <5>1. Len(run) \in Nat
          BY ItemsAre
        <5> QED BY <3>1, <5>1
      <4>2. run[at + i] \in Cell
        BY <4>1, ItemsAre
      <4> QED BY <3>1, <4>2 DEF NewCell
    <3>2. CASE ~(i <= n)
      <4>1. Blank(FALSE) \in Cell
        BY BlankIs
      <4> QED BY <1>1, <3>2, <4>1 DEF NewCell
    <3> QED BY <3>1, <3>2
  <2> QED BY <2>1
<1> HIDE DEF f
<1>4. l \in Seq(Cell) /\ Len(l) = old
  BY <1>3, ListedIs
<1> HIDE DEF l
<1>5. SetCells(r, l) \in TextLine /\ SetCells(r, l).cells = l
  BY <1>1, <1>4 DEF SetCells, TextLine
<1> QED BY <1>2, <1>4, <1>5 DEF RowsOf

\* The lines end in the run.
EndsWithin(lens, run) == \E n \in 0 .. Len(run) : Ends(lens, n)

\* As many lines as there are lengths.
BreaksTo(rowsOf, S, lens) == rowsOf \in Seq(S) /\ Len(rowsOf) = Len(lens)

\* A group broken: a line for each length.
LEMMA BrokenIs ==
  ASSUME NEW cols \in Nat, NEW old \in Nat, NEW w \in Seq(RowsOf(old, TRUE, FALSE)), NEW run \in Seq(Cell),
         NEW lens \in Seq(1 .. cols), EndsWithin(lens, run)
  PROVE  BreaksTo(Broken(w, run, lens, old, cols), RowsOf(old, TRUE, FALSE), lens)
<1> DEFINE S == RowsOf(old, TRUE, FALSE)
           m == Len(lens)
           Eq(g) == g = [k \in 0 .. m |-> IF k = 0 THEN 0 ELSE g[k - 1] + lens[k]]
           upto == CHOOSE g : Eq(g)
           line(k) == IF k <= Len(w) THEN w[k] ELSE BlankLine(old, TRUE)
           row(k) == NewLine(line(k), run, upto[k - 1], lens[k], cols)
           F == [k \in 1 .. m |-> row(k)]
<1>1. m \in Nat /\ DOMAIN lens = 1 .. m /\ \A k \in 1 .. m : lens[k] \in 1 .. cols
  BY ItemsAre
<1>0. PICK n \in 0 .. Len(run) : Ends(lens, n)
  BY DEF EndsWithin
<1>2. PICK f : EndsAt(lens, n, f)
  BY <1>0 DEF Ends
<1>3. Broken(w, run, lens, old, cols) = Listed(F)
  <2>1. Broken(w, run, lens, old, cols) = Listed([k \in DOMAIN lens |-> row(k)])
    BY Zenon DEF Broken, NewLine, NewCell
  <2> QED BY <1>1, <2>1
<1>4. /\ f \in [0 .. m -> 0 .. n] /\ f[0] = 0 /\ \A k \in 1 .. m : f[k] = f[k - 1] + lens[k]
  BY <1>2 DEF EndsAt
<1> HIDE DEF m
<1>5. Eq(f)
  <2>1. ASSUME NEW k \in 0 .. m PROVE f[k] = IF k = 0 THEN 0 ELSE f[k - 1] + lens[k]
    <3>1. CASE k = 0
      BY <1>4, <3>1
    <3>2. CASE k # 0
      <4>1. k \in 1 .. m
        BY <1>1, <3>2
      <4> QED BY <1>4, <3>2, <4>1
    <3> QED BY <3>1, <3>2
  <2>2. f = [k \in 0 .. m |-> f[k]]
    BY <1>4
  <2> QED BY <2>1, <2>2
<1>6. Eq(upto)
  <2> HIDE DEF Eq
  <2> QED BY <1>5
<1> HIDE DEF upto
<1>7. upto[0] = 0 /\ \A k \in 1 .. m : upto[k] = upto[k - 1] + lens[k]
  <2>1. 0 \in 0 .. m
    BY <1>1
  <2>2. ASSUME NEW k \in 1 .. m PROVE upto[k] = upto[k - 1] + lens[k]
    <3>1. k \in 0 .. m /\ k # 0
      BY <1>1
    <3> QED BY <1>6, <3>1
  <2> QED BY <1>6, <2>1, <2>2
<1> HIDE DEF Eq
<1>8. ASSUME NEW k \in 0 .. m PROVE upto[k] = f[k]
  <2> DEFINE U == [j \in 0 .. k |-> {f[j]}]
  <2>1. upto[0] \in U[0]
    BY <1>4, <1>7
  <2>2. ASSUME NEW j \in 1 .. k, upto[j - 1] \in U[j - 1] PROVE upto[j] \in U[j]
    <3>1. j \in 1 .. m /\ j - 1 \in 0 .. k /\ j \in 0 .. k
      BY <1>1
    <3>2. upto[j - 1] = f[j - 1]
      BY <2>2, <3>1
    <3> QED BY <1>4, <1>7, <3>1, <3>2
  <2>3. k \in 0 .. k /\ k \in Nat
    OBVIOUS
  <2>4. U[k] = {f[k]}
    BY <2>3
  <2> HIDE DEF U
  <2>5. upto[k] \in U[k]
    BY <2>1, <2>2, <2>3, LoopHolds
  <2> QED BY <2>4, <2>5
<1>9. ASSUME NEW k \in 1 .. m PROVE row(k) \in S
  <2> DEFINE r == line(k)
             at == upto[k - 1]
             l == lens[k]
  <2>1. r \in RowsOf(old, TRUE, FALSE)
    <3>1. CASE k <= Len(w)
      <4>1. k \in 1 .. Len(w)
        BY <3>1, ItemsAre
      <4> QED BY <3>1, <4>1, ItemsAre
    <3>2. CASE ~(k <= Len(w))
      <4>1. BlankLine(old, TRUE) \in RowsOf(old, TRUE, FALSE)
        BY BlankLineIs
      <4> QED BY <3>2, <4>1
    <3> QED BY <3>1, <3>2
  <2>2. at \in Nat /\ l \in Nat /\ at + l <= Len(run)
    <3>1. k - 1 \in 0 .. m /\ k \in 0 .. m
      BY <1>1
    <3>2. at = f[k - 1] /\ f[k] = at + l /\ f[k] \in 0 .. n /\ f[k - 1] \in 0 .. n
      BY <1>4, <1>8, <3>1
    <3>3. l \in Nat
      BY <1>1
    <3>4. Len(run) \in Nat
      BY ItemsAre
    <3> HIDE DEF at, l
    <3> QED BY <3>2, <3>3, <3>4
  <2> HIDE DEF r, at, l, line
  <2>3. NewLine(r, run, at, l, cols) \in RowsOf(old, TRUE, FALSE)
    BY <2>1, <2>2, NewLineIs
  <2> QED BY <2>3 DEF r, at, l
<1> HIDE DEF S, row
<1>10. F \in [1 .. m -> S]
  BY <1>9
<1> HIDE DEF F
<1>11. Listed(F) \in Seq(S) /\ Len(Listed(F)) = m
  BY <1>1, <1>10, ListedIs
<1> QED BY <1>3, <1>11 DEF S, m, BreaksTo

\* What is known of a list while its groups are broken.
BreakRec(T) ==
  [at : Int, len : Int, added : Int, out : Seq([old : Seq(T), new : Seq(T)]), ok : BOOLEAN,
   y : Int, ybase : Int, ydisp : Int, sy : Int]

\* The list, of L lines before, keeps len and gets added: enough for the screen and d more.
CountedFor(v, L, rows, back, d) ==
  /\ v.len <= L /\ rows <= v.len + v.y /\ v.y \in 0 .. rows - 1 /\ v.added \in Nat
  /\ v.ybase \in 0 .. back /\ v.ydisp \in 0 .. v.ybase /\ v.ybase + rows + d <= v.len + v.added

\* Of v nothing else changed.
Moves1(c, v, T) ==
  c \in BreakRec(T) /\ c.at = v.at /\ c.added = v.added /\ c.out = v.out /\ c.ok = v.ok /\ c.sy = v.sy

\* Cursor, length and view changed.
Adding(v, y, len, base, disp) == [v EXCEPT !.y = y, !.len = len, !.ybase = base, !.ydisp = disp]

\* They are in their place.
LEMMA AddingIs ==
  ASSUME NEW T, NEW v \in BreakRec(T), NEW y \in Int, NEW len \in Int, NEW base \in Int, NEW disp \in Int
  PROVE  LET c == Adding(v, y, len, base, disp) IN
         Moves1(c, v, T) /\ c.y = y /\ c.len = len /\ c.ybase = base /\ c.ydisp = disp
<1> DEFINE c1 == [v EXCEPT !.y = y]
           c2 == [c1 EXCEPT !.len = len]
           c3 == [c2 EXCEPT !.ybase = base]
           c == [c3 EXCEPT !.ydisp = disp]
<1>1. Moves1(c1, v, T) /\ c1.y = y
  BY DEF Moves1, BreakRec
<1>2. Adding(v, y, len, base, disp) = c
  BY DEF Adding
<1> HIDE DEF c1
<1>3. Moves1(c2, v, T) /\ c2.y = y /\ c2.len = len
  BY <1>1 DEF Moves1, BreakRec
<1> HIDE DEF c2
<1>4. Moves1(c3, v, T) /\ c3.y = y /\ c3.len = len /\ c3.ybase = base
  BY <1>3 DEF Moves1, BreakRec
<1> HIDE DEF c3
<1>5. Moves1(c, v, T) /\ c.y = y /\ c.len = len /\ c.ybase = base /\ c.ydisp = disp
  BY <1>4 DEF Moves1, BreakRec
<1> QED BY <1>2, <1>5

\* One line more takes one of those the list gets.
LEMMA OneAddedIs ==
  ASSUME NEW T, NEW v \in BreakRec(T), NEW L \in Int, NEW rows \in Nat \ {0}, NEW back \in Nat \ {0}, NEW d \in Nat,
         CountedFor(v, L, rows, back, d + 1)
  PROVE  LET c == OneAdded(v, rows + back, rows) IN Moves1(c, v, T) /\ CountedFor(c, L, rows, back, d)
<1> DEFINE max == rows + back
           c == OneAdded(v, max, rows)
           y == v.y
           len == v.len
           base == v.ybase
           disp == v.ydisp
           small == LeastOf(max, len + v.added)
<1>1. /\ y \in Int /\ len \in Int /\ base \in Int /\ disp \in Int /\ v.added \in Int /\ max \in Int
      /\ max = rows + back
  BY DEF BreakRec
<1>2. Moves1(v, v, T)
  BY DEF Moves1
<1>3. /\ len <= L /\ rows <= len + y /\ y \in 0 .. rows - 1 /\ v.added \in Nat
      /\ base \in 0 .. back /\ disp \in 0 .. base /\ base + rows + (d + 1) <= len + v.added
  BY DEF CountedFor
<1>4. ASSUME NEW p \in Int, NEW q \in Int, NEW r \in Int, NEW s \in Int, c = Adding(v, p, q, r, s),
             q <= L, rows <= q + p, p \in 0 .. rows - 1, r \in 0 .. back, s \in 0 .. r,
             r + rows + d <= q + v.added
      PROVE  Moves1(c, v, T) /\ CountedFor(c, L, rows, back, d)
  <2> HIDE DEF c
  <2>1. Moves1(c, v, T) /\ c.y = p /\ c.len = q /\ c.ybase = r /\ c.ydisp = s
    BY <1>4, AddingIs
  <2> QED BY <1>3, <1>4, <2>1 DEF CountedFor, Moves1
<1>5. CASE base = 0 /\ y < rows - 1
  <2> DEFINE p == y + 1
             q == len - 1
  <2>1. c = Adding(v, p, q, base, disp)
    <3>1. c = [v EXCEPT !.y = p, !.len = q]
      BY <1>5 DEF OneAdded
    <3>2. [v EXCEPT !.y = p, !.len = q] = [v EXCEPT !.y = p, !.len = q, !.ybase = v.ybase, !.ydisp = v.ydisp]
      <4> HIDE DEF p, q
      <4> QED BY DEF BreakRec
    <3> QED BY <3>1, <3>2 DEF Adding
  <2>2. /\ p \in Int /\ q \in Int /\ q <= len /\ rows <= q + p /\ p \in 0 .. rows - 1
        /\ base + rows + d <= q + v.added
    <3> HIDE DEF y, len, base, disp
    <3> QED BY <1>1, <1>3, <1>5
  <2>3. q <= L
    BY <1>1, <1>3
  <2> HIDE DEF c, p, q
  <2> QED BY <1>1, <1>3, <1>4, <2>1, <2>2, <2>3 DEF c
<1>6. CASE base = 0 /\ ~(y < rows - 1)
  <2> DEFINE r == 1
             s == disp + 1
  <2>1. c = Adding(v, y, len, r, s)
    <3>1. c = [v EXCEPT !.ybase = r, !.ydisp = s]
      BY <1>6 DEF OneAdded
    <3>2. [v EXCEPT !.ybase = r, !.ydisp = s] = [v EXCEPT !.y = v.y, !.len = v.len, !.ybase = r, !.ydisp = s]
      <4> HIDE DEF r, s
      <4> QED BY DEF BreakRec
    <3> QED BY <3>1, <3>2 DEF Adding
  <2>2. r \in Int /\ s \in Int /\ r \in 0 .. back /\ s \in 0 .. r /\ r + rows + d <= len + v.added
    <3> HIDE DEF y, len, base, disp
    <3> QED BY <1>1, <1>3, <1>6
  <2> HIDE DEF c, r, s
  <2> QED BY <1>1, <1>3, <1>4, <2>1, <2>2 DEF c
<1>7. CASE ~(base = 0) /\ base < small - rows
  <2> DEFINE r == base + 1
             s == IF disp = base THEN disp + 1 ELSE disp
  <2>1. c = Adding(v, y, len, r, s)
    <3>1. c = [v EXCEPT !.ybase = r, !.ydisp = s]
      BY <1>7 DEF OneAdded
    <3>2. [v EXCEPT !.ybase = r, !.ydisp = s] = [v EXCEPT !.y = v.y, !.len = v.len, !.ybase = r, !.ydisp = s]
      <4> HIDE DEF r, s
      <4> QED BY DEF BreakRec
    <3> QED BY <3>1, <3>2 DEF Adding
  <2>2. r \in Int /\ s \in Int /\ r \in 0 .. back /\ s \in 0 .. r /\ r + rows + d <= len + v.added
    <3>1. small <= max /\ small \in Int
      BY <1>1 DEF LeastOf
    <3> HIDE DEF y, len, base, disp, small, max
    <3> QED BY <1>1, <1>3, <1>7, <3>1
  <2> HIDE DEF c, r, s
  <2> QED BY <1>1, <1>3, <1>4, <2>1, <2>2 DEF c
<1>8. CASE ~(base = 0) /\ ~(base < small - rows)
  <2>1. c = v
    BY <1>8 DEF OneAdded
  <2>2. base + rows + d <= len + v.added
    <3> HIDE DEF len, base
    <3> QED BY <1>1, <1>3
  <2> QED BY <1>2, <1>3, <2>1, <2>2 DEF CountedFor
<1> QED BY <1>5, <1>6, <1>7, <1>8

\* As many lines more.
Adds(v, n, max, rows) == LET one(u) == OneAdded(u, max, rows) IN Times(n, one, v)

\* They are counted: when there are any.
LEMMA AddsSome ==
  ASSUME NEW T, NEW v0 \in BreakRec(T), NEW L \in Int, NEW rows \in Nat \ {0}, NEW back \in Nat \ {0},
         NEW n0 \in Nat \ {0}, NEW more \in Nat, n0 <= more, CountedFor(v0, L, rows, back, more)
  PROVE  LET c == Adds(v0, n0, rows + back, rows) IN Moves1(c, v0, T) /\ CountedFor(c, L, rows, back, more - n0)
<1> DEFINE n == n0
           v == v0
           max == rows + back
           X == {e \in BreakRec(T) : Moves1(e, v0, T)}
           P(e, k) == CountedFor(e, L, rows, back, more - k)
           body(e, k) == OneAdded(e, max, rows)
           I == [k \in 0 .. n |-> {a \in X : P(a, k)}]
           stp == [k \in 1 .. n |-> [a \in X |-> body(a, k)]]
           Eq(g) == g = [k \in 0 .. n |-> IF k = 0 THEN v ELSE body(g[k - 1], k)]
           at == CHOOSE g : Eq(g)
           c == Adds(v0, n0, max, rows)
<1>1. c = at[n]
  BY DEF Adds, Times
<1>2. n \in Nat
  OBVIOUS
<1>3. v \in X /\ P(v, 0)
  <2>1. more - 0 = more
    OBVIOUS
  <2> QED BY <2>1 DEF Moves1
<1>4. \A e \in X : \A k \in 1 .. n : P(e, k - 1) => body(e, k) \in X /\ P(body(e, k), k)
  <2>1. ASSUME NEW e \in X, NEW k \in 1 .. n, P(e, k - 1) PROVE body(e, k) \in X /\ P(body(e, k), k)
    <3> DEFINE d == more - k
               u == OneAdded(e, rows + back, rows)
    <3>1. d \in Nat /\ more - (k - 1) = d + 1
      OBVIOUS
    <3>2. CountedFor(e, L, rows, back, d + 1) /\ e \in BreakRec(T)
      BY <2>1, <3>1
    <3> HIDE DEF d
    <3>3. Moves1(u, e, T) /\ CountedFor(u, L, rows, back, d)
      BY <3>1, <3>2, OneAddedIs
    <3>4. Moves1(u, v0, T) /\ u \in BreakRec(T)
      BY <3>3 DEF Moves1
    <3> QED BY <3>3, <3>4 DEF d
  <2> QED BY <2>1
<1>5. \A e \in X : P(e, n) => Moves1(e, v0, T) /\ CountedFor(e, L, rows, back, more - n0)
  OBVIOUS
<1> HIDE DEF n, v, X, P, body, c
<1>6. /\ n \in Nat /\ v \in I[0] /\ n \in 0 .. n
      /\ \A k \in 1 .. n : k \in 0 .. n /\ k # 0 /\ \A e \in I[k - 1] : stp[k][e] \in I[k] /\ stp[k][e] = body(e, k)
  <2>1. 0 \in 0 .. n /\ n \in 0 .. n
    BY <1>2
  <2>2. ASSUME NEW k \in 1 .. n PROVE k - 1 \in 0 .. n /\ k \in 0 .. n /\ k # 0
    BY <1>2
  <2>3. ASSUME NEW k \in 1 .. n, NEW e \in I[k - 1] PROVE stp[k][e] \in I[k] /\ stp[k][e] = body(e, k)
    <3>1. e \in X /\ P(e, k - 1)
      BY <2>2
    <3>2. body(e, k) \in X /\ P(body(e, k), k)
      BY <1>4, <3>1
    <3> QED BY <2>2, <3>1, <3>2
  <2> QED BY <1>2, <1>3, <2>1, <2>2, <2>3
<1>7. \A e \in I[n] : e \in X /\ P(e, n)
  BY <1>6
<1> HIDE DEF I, stp
<1>8. PICK g : Loops(g, n, v, stp) /\ \A k \in 0 .. n : g[k] \in I[k]
  BY <1>6, LoopRuns
<1>9. Eq(g)
  <2>1. g = [k \in 0 .. n |-> IF k = 0 THEN v ELSE stp[k][g[k - 1]]]
    BY <1>8 DEF Loops
  <2>2. ASSUME NEW k \in 0 .. n
        PROVE (IF k = 0 THEN v ELSE stp[k][g[k - 1]]) = (IF k = 0 THEN v ELSE body(g[k - 1], k))
    <3>1. CASE k # 0
      <4>1. k \in 1 .. n /\ k - 1 \in 0 .. n
        BY <1>2, <3>1
      <4> QED BY <1>6, <1>8, <3>1, <4>1
    <3> QED BY <3>1
  <2> QED BY <2>1, <2>2
<1>10. Eq(at)
  <2> HIDE DEF Eq
  <2> QED BY <1>9
<1> HIDE DEF at
<1>11. at[0] = v /\ \A k \in 1 .. n : at[k] = body(at[k - 1], k)
  <2>1. 0 \in 0 .. n
    BY <1>2
  <2> QED BY <1>6, <1>10, <2>1
<1> HIDE DEF Eq
<1>12. at[n] \in X /\ P(at[n], n)
  <2>1. ASSUME NEW k \in 1 .. n, at[k - 1] \in I[k - 1] PROVE at[k] \in I[k]
    BY <1>6, <1>11, <2>1
  <2>2. at[n] \in I[n]
    BY <1>6, <1>11, <2>1, LoopHolds
  <2> QED BY <1>7, <2>2
<1> QED BY <1>1, <1>5, <1>12 DEF c

\* And if there are none.
LEMMA AddsIs ==
  ASSUME NEW T, NEW v \in BreakRec(T), NEW L \in Int, NEW rows \in Nat \ {0}, NEW back \in Nat \ {0}, NEW n \in Int,
         NEW more \in Nat, n <= more, CountedFor(v, L, rows, back, more)
  PROVE  LET c == Adds(v, n, rows + back, rows) IN Moves1(c, v, T) /\ CountedFor(c, L, rows, back, 0)
<1> DEFINE c == Adds(v, n, rows + back, rows)
<1>1. ASSUME NEW e \in BreakRec(T), NEW d \in Nat, CountedFor(e, L, rows, back, d)
      PROVE  CountedFor(e, L, rows, back, 0)
  <2>1. e.ybase \in Int /\ e.len \in Int /\ e.added \in Int
    BY DEF BreakRec
  <2> QED BY <1>1, <2>1 DEF CountedFor
<1>2. CASE n > 0
  <2> DEFINE d == more - n
  <2>1. n \in Nat \ {0} /\ d \in Nat
    BY <1>2
  <2>2. Moves1(c, v, T) /\ CountedFor(c, L, rows, back, d)
    BY <2>1, AddsSome
  <2>3. c \in BreakRec(T)
    BY <2>2 DEF Moves1
  <2> HIDE DEF c, d
  <2> QED BY <1>1, <2>1, <2>2, <2>3 DEF c
<1>3. CASE ~(n > 0)
  <2>1. c = v
    BY <1>3 DEF Adds, Times
  <2>2. Moves1(v, v, T)
    BY DEF Moves1
  <2> HIDE DEF c
  <2> QED BY <1>1, <2>1, <2>2 DEF c
<1> QED BY <1>2, <1>3

\* The lines of a screen that loses columns: as long as it was wide, or new and blank.
RowsBefore(old, cols) == RowsOf(old, TRUE, FALSE) \union {BlankLine(cols, FALSE)}

\* They are lines with the new columns at least.
LEMMA RowsBeforeAre ==
  ASSUME NEW cols \in Nat, NEW old \in Nat, cols <= old
  PROVE  RowsBefore(old, cols) \subseteq RowsOf(cols, FALSE, FALSE)
<1>1. BlankLine(cols, FALSE) \in RowsOf(cols, FALSE, FALSE)
  BY BlankLineIs
<1>2. ASSUME NEW r \in RowsOf(old, TRUE, FALSE) PROVE r \in RowsOf(cols, FALSE, FALSE)
  <2>1. r \in TextLine /\ Len(r.cells) = old
    BY DEF RowsOf
  <2>2. Len(r.cells) >= cols
    BY <2>1
  <2> QED BY <2>1, <2>2 DEF RowsOf
<1> QED BY <1>1, <1>2 DEF RowsBefore

\* A blank line has no text.
LEMMA NoText ==
  ASSUME NEW cols \in Nat
  PROVE  TrimmedLength(BlankLine(cols, FALSE).cells) = 0
<1> DEFINE no == FALSE
           c == Blanks(cols, no)
           n == 0
<1>1. no \in BOOLEAN
  OBVIOUS
<1>2. c \in Seq(Cell) /\ Len(c) = cols /\ \A i \in 1 .. cols : c[i] = Blank(no)
  <2> HIDE DEF no
  <2> QED BY <1>1, BlanksAre
<1>3. Blank(no).ch = <<>>
  BY <1>1, BlankIs
<1>4. n \in 0 .. Len(c) /\ \A i \in n + 1 .. Len(c) : c[i].ch = <<>>
  <2> HIDE DEF c, no
  <2>1. n + 1 = 1 /\ n \in 0 .. cols
    OBVIOUS
  <2>2. \A i \in 1 .. cols : c[i].ch = <<>>
    BY <1>2, <1>3
  <2> QED BY <1>2, <2>1, <2>2
<1>5. n = 0
  OBVIOUS
<1>6. BlankLine(cols, FALSE).cells = c
  BY DEF BlankLine
<1> HIDE DEF c, n
<1> QED BY <1>2, <1>4, <1>5, <1>6, TrimmedIs

\* A group that is not short has no new line.
LEMMA LongGroup ==
  ASSUME NEW cols \in Nat, NEW old \in Nat, cols <= old, NEW w \in GroupsOf(RowsBefore(old, cols), old),
         ~(~w[1].wr /\ Len(w) = 1 /\ TrimmedLength(w[1].cells) <= cols)
  PROVE  w \in Seq(RowsOf(old, TRUE, FALSE)) /\ Len(w) >= 1 /\ Len(w) \in Nat
<1> DEFINE S == RowsBefore(old, cols)
           T == RowsOf(old, TRUE, FALSE)
           n == Len(w)
<1>1. w \in Seq(S) /\ n >= 1 /\ Chained(old, w) /\ \A i \in 2 .. n : w[i].wr
  BY DEF GroupsOf
<1>2. n \in Nat /\ w = [i \in 1 .. n |-> w[i]] /\ \A i \in 1 .. n : w[i] \in S
  <2> HIDE DEF S
  <2>1. w \in [1 .. n -> S] /\ n \in Nat
    BY <1>1, LenProperties
  <2> QED BY <2>1
<1>3. ASSUME NEW i \in 1 .. n PROVE w[i] \in T
  <2>1. w[i] \in T \/ w[i] = BlankLine(cols, FALSE)
    BY <1>2 DEF RowsBefore
  <2>2. CASE w[i] = BlankLine(cols, FALSE)
    <3>1. w[i].wr = FALSE
      BY <2>2, BlankLineEnds
    <3>2. i = 1
      <4>1. ~(i \in 2 .. n)
        BY <1>1, <3>1
      <4> QED BY <1>2, <4>1
    <3>3. n # 1
      <4> SUFFICES ASSUME n = 1 PROVE FALSE
        OBVIOUS
      <4>1. TrimmedLength(w[1].cells) = 0
        BY <2>2, <3>2, NoText
      <4>2. TrimmedLength(w[1].cells) <= cols
        BY <4>1
      <4> QED BY <3>1, <3>2, <4>2
    <3>4. 1 \in 1 .. n - 1 /\ 2 \in 2 .. n
      BY <1>1, <1>2, <3>3
    <3>5. w[1 + 1].wr
      BY <1>1, <3>4
    <3>6. Len(w[1].cells) = old
      BY <1>1, <3>4, <3>5 DEF Chained
    <3>7. w[1] \in RowsOf(cols, FALSE, FALSE)
      BY <2>2, <3>2, BlankLineIs
    <3>8. w[1] \in T
      BY <3>6, <3>7 DEF RowsOf
    <3> QED BY <3>2, <3>8
  <2> QED BY <2>1, <2>2
<1> HIDE DEF n, S, T
<1>4. w \in [1 .. n -> T]
  BY <1>2, <1>3
<1>5. w \in Seq(T)
  BY <1>2, <1>4, SeqDef
<1> QED BY <1>1, <1>2, <1>5 DEF T, n

\* Such lines are a group if the last has all its text.
LEMMA GroupIs ==
  ASSUME NEW old \in Nat, NEW w \in Seq(RowsOf(old, TRUE, FALSE)), Len(w) >= 1,
         TrimmedLength(w[Len(w)].cells) <= old
  PROVE  Group(w, old)
<1> DEFINE T == RowsOf(old, TRUE, FALSE)
           n == Len(w)
<1>1. n \in Nat /\ \A i \in 1 .. n : w[i] \in T
  BY ItemsAre
<1>2. \A i \in 1 .. n : Len(w[i].cells) = old
  BY <1>1 DEF RowsOf
<1>3. w \in Seq(TextLine)
  <2>1. T \subseteq TextLine
    BY DEF RowsOf
  <2> HIDE DEF T
  <2>2. w \in Seq(T)
    BY DEF T
  <2> QED BY <2>1, <2>2, SeqMonotonic
<1>4. n \in 1 .. n /\ \A i \in 1 .. n - 1 : i \in 1 .. n
  BY <1>1
<1>5. Texty(w[n].cells)
  BY <1>2, <1>4 DEF Texty
<1>6. \A i \in 1 .. n - 1 : Len(w[i].cells) >= old
  <2>1. ASSUME NEW i \in 1 .. n - 1 PROVE Len(w[i].cells) >= old
    <3>1. Len(w[i].cells) = old
      BY <1>2, <1>4
    <3> QED BY <3>1
  <2> QED BY <2>1
<1> QED BY <1>3, <1>5, <1>6 DEF Group

\* How many lines the groups of out keep and get, counted from behind.
TalliedAt(out, o, n, f, g) ==
  /\ f \in [1 .. Len(out) + 1 -> Nat] /\ g \in [1 .. Len(out) + 1 -> Nat]
  /\ f[1] = o /\ g[1] = n /\ f[Len(out) + 1] = 0 /\ g[Len(out) + 1] = 0
  /\ \A k \in 1 .. Len(out) : f[k] = f[k + 1] + Len(out[k].old) /\ g[k] = g[k + 1] + Len(out[k].new)
Tallied(out, o, n) == \E f, g : TalliedAt(out, o, n, f, g)

\* A group before the others.
LEMMA TalliedMore ==
  ASSUME NEW T, NEW out \in Seq([old : Seq(T), new : Seq(T)]), NEW o \in Nat, NEW n \in Nat, Tallied(out, o, n),
         NEW r \in [old : Seq(T), new : Seq(T)]
  PROVE  /\ <<r>> \o out \in Seq([old : Seq(T), new : Seq(T)])
         /\ Tallied(<<r>> \o out, o + Len(r.old), n + Len(r.new))
<1> DEFINE O == [old : Seq(T), new : Seq(T)]
           m == Len(out)
           b == <<r>> \o out
           p == o + Len(r.old)
           q == n + Len(r.new)
<1>1. PICK f, g : TalliedAt(out, o, n, f, g)
  BY DEF Tallied
<1>2. Len(r.old) \in Nat /\ Len(r.new) \in Nat
  BY ItemsAre
<1>3. p \in Nat /\ q \in Nat /\ p = o + Len(r.old) /\ q = n + Len(r.new)
  BY <1>2
<1>4. m \in Nat /\ m = Len(out) /\ b \in Seq(O) /\ Len(b) = m + 1 /\ b[1] = r /\ \A i \in 1 .. m : b[i + 1] = out[i]
  <2> DEFINE s == <<r>>
  <2>1. s \in Seq(O) /\ Len(s) = 1 /\ s[1] = r /\ out \in Seq(O) /\ r \in O
    OBVIOUS
  <2> HIDE DEF s, O
  <2>2. /\ s \o out \in Seq(O) /\ Len(s \o out) = Len(s) + Len(out)
        /\ \A i \in 1 .. Len(s) : (s \o out)[i] = s[i]
        /\ \A i \in 1 .. Len(out) : (s \o out)[Len(s) + i] = out[i]
    <3>1. s \in Seq(O) /\ out \in Seq(O)
      BY <2>1
    <3> QED BY ONLY <3>1, ConcatIs
  <2>3. m \in Nat
    BY <2>1, ItemsAre
  <2>4. b = s \o out
    BY DEF s
  <2> HIDE DEF b
  <2>5. 1 \in 1 .. Len(s)
    BY <2>1
  <2>6. ASSUME NEW i \in 1 .. m PROVE b[i + 1] = out[i]
    <3>1. i + 1 = Len(s) + i
      BY <2>1
    <3> QED BY <2>2, <2>4, <3>1
  <2> QED BY <2>1, <2>2, <2>3, <2>4, <2>5, <2>6
<1> HIDE DEF m, b, p, q, O
<1>5. /\ f \in [1 .. m + 1 -> Nat] /\ g \in [1 .. m + 1 -> Nat]
      /\ f[1] = o /\ g[1] = n /\ f[m + 1] = 0 /\ g[m + 1] = 0
      /\ \A k \in 1 .. m : f[k] = f[k + 1] + Len(out[k].old) /\ g[k] = g[k + 1] + Len(out[k].new)
  BY <1>1, <1>4 DEF TalliedAt
<1> DEFINE u == [k \in 1 .. (m + 1) + 1 |-> IF k = 1 THEN p ELSE f[k - 1]]
           v == [k \in 1 .. (m + 1) + 1 |-> IF k = 1 THEN q ELSE g[k - 1]]
<1>6. \A k \in 1 .. m + 1 : k + 1 \in 1 .. (m + 1) + 1 /\ k + 1 # 1 /\ (k + 1) - 1 = k
  BY <1>4
<1>7. /\ u \in [1 .. (m + 1) + 1 -> Nat] /\ v \in [1 .. (m + 1) + 1 -> Nat]
  <2>1. ASSUME NEW k \in 1 .. (m + 1) + 1, k # 1 PROVE k - 1 \in 1 .. m + 1
    BY <1>4, <2>1
  <2> QED BY <1>3, <1>5, <2>1
<1>8. u[1] = p /\ v[1] = q /\ \A k \in 1 .. m + 1 : u[k + 1] = f[k] /\ v[k + 1] = g[k]
  <2>1. 1 \in 1 .. (m + 1) + 1
    BY <1>4
  <2> QED BY <1>6, <2>1
<1> HIDE DEF u, v
<1>9. u[(m + 1) + 1] = 0 /\ v[(m + 1) + 1] = 0
  <2>1. m + 1 \in 1 .. m + 1
    BY <1>4
  <2> QED BY <1>5, <1>8, <2>1
<1>10. ASSUME NEW k \in 1 .. m + 1
       PROVE  u[k] = u[k + 1] + Len(b[k].old) /\ v[k] = v[k + 1] + Len(b[k].new)
  <2>1. CASE k = 1
    <3>1. u[k + 1] = o /\ v[k + 1] = n
      BY <1>5, <1>8, <2>1
    <3> QED BY <1>2, <1>3, <1>4, <1>8, <2>1, <3>1
  <2>2. CASE k # 1
    <3> DEFINE i == k - 1
    <3>1. i \in 1 .. m /\ i \in 1 .. m + 1 /\ i + 1 \in 1 .. m + 1 /\ k = i + 1
      BY <1>4, <2>2
    <3> HIDE DEF i
    <3>2. u[i + 1] = f[i] /\ u[(i + 1) + 1] = f[i + 1] /\ v[i + 1] = g[i] /\ v[(i + 1) + 1] = g[i + 1]
      BY <1>8, <3>1
    <3>3. b[i + 1] = out[i]
      BY <1>4, <3>1
    <3>4. f[i] = f[i + 1] + Len(out[i].old) /\ g[i] = g[i + 1] + Len(out[i].new)
      BY <1>5, <3>1
    <3> QED BY <3>1, <3>2, <3>3, <3>4
  <2> QED BY <2>1, <2>2
<1>11. TalliedAt(b, p, q, u, v)
  BY <1>4, <1>7, <1>8, <1>9, <1>10 DEF TalliedAt
<1>12. Tallied(b, p, q)
  BY <1>11 DEF Tallied
<1> QED BY <1>4, <1>12 DEF b, p, q, O

\* While groups are broken: L lines before, those from at on are accounted for.
Breaking(v, T, L, rows, back) ==
  /\ v \in BreakRec(T)
  /\ v.ok => CountedFor(v, L, rows, back, 0) /\ L - v.at \in Nat /\ Tallied(v.out, L - v.at, v.added)

\* One group more.
Gaining(v, at, sy, r) == [v EXCEPT !.at = at, !.sy = sy, !.out = <<r>> \o @]

\* The list after it.
Gained(c, T, L, rows, back, at) == Breaking(c, T, L, rows, back) /\ c.at = at

\* It is accounted for.
LEMMA GainingIs ==
  ASSUME NEW T, NEW v \in BreakRec(T), NEW L \in Int, NEW rows, NEW back, CountedFor(v, L, rows, back, 0), v.ok,
         NEW o \in Nat, NEW n \in Nat, Tallied(v.out, o, n), NEW r \in [old : Seq(T), new : Seq(T)],
         NEW sy \in Int, NEW at \in Int, L - at = o + Len(r.old), v.added = n + Len(r.new)
  PROVE  Gained(Gaining(v, at, sy, r), T, L, rows, back, at)
<1> DEFINE O == [old : Seq(T), new : Seq(T)]
           out == <<r>> \o v.out
           p == o + Len(r.old)
           q == n + Len(r.new)
           c1 == [v EXCEPT !.at = at]
           c2 == [c1 EXCEPT !.sy = sy]
           c == [c2 EXCEPT !.out = out]
           Close(d) == /\ d \in BreakRec(T) /\ d.ok = v.ok /\ d.len = v.len /\ d.added = v.added /\ d.y = v.y
                       /\ d.ybase = v.ybase /\ d.ydisp = v.ydisp /\ d.at = at
<1>1. v.out \in Seq(O)
  BY DEF BreakRec
<1>2. out \in Seq(O) /\ Tallied(out, p, q)
  <2> DEFINE s == v.out
  <2>1. s \in Seq([old : Seq(T), new : Seq(T)]) /\ Tallied(s, o, n)
    BY <1>1
  <2> HIDE DEF s
  <2>2. <<r>> \o s \in Seq([old : Seq(T), new : Seq(T)]) /\ Tallied(<<r>> \o s, o + Len(r.old), n + Len(r.new))
    BY <2>1, TalliedMore
  <2> QED BY <2>2 DEF s
<1>3. Len(r.old) \in Nat /\ p \in Nat
  <2>1. Len(r.old) \in Nat
    BY ItemsAre
  <2> QED BY <2>1
<1>4. Gaining(v, at, sy, r) = c
  BY DEF Gaining
<1> HIDE DEF out, p, O
<1>5. Close(c1)
  BY DEF BreakRec
<1> HIDE DEF c1
<1>6. Close(c2)
  BY <1>5 DEF BreakRec
<1> HIDE DEF c2
<1>7. Close(c) /\ c.out = out
  BY <1>2, <1>6 DEF BreakRec, O
<1> HIDE DEF c
<1>8. CountedFor(c, L, rows, back, 0)
  BY <1>7 DEF CountedFor
<1>9. L - c.at = p /\ c.added = q
  BY <1>7 DEF p
<1> HIDE DEF q
<1>10. Breaking(c, T, L, rows, back)
  BY <1>2, <1>3, <1>7, <1>8, <1>9 DEF Breaking
<1> QED BY <1>4, <1>7, <1>10 DEF Gained

\* Whether a group stays as it is.
Skips(v, w, cols) ==
  \/ ~w[1].wr /\ Len(w) = 1 /\ TrimmedLength(w[1].cells) <= cols
  \/ v.ybase + v.y \in (v.at - Len(w)) .. (v.at - 1)

\* So many lines more are looked forward to.
Adds1(v, more) == [v EXCEPT !.added = @ + more]

\* The list then.
Awaiting(c, v, T, L, rows, back, more) ==
  /\ c \in BreakRec(T) /\ CountedFor(c, L, rows, back, more) /\ c.at = v.at /\ c.out = v.out /\ c.ok = v.ok
  /\ c.added = v.added + more

\* They are counted.
LEMMA Adds1Is ==
  ASSUME NEW T, NEW v \in BreakRec(T), NEW L, NEW rows, NEW back, CountedFor(v, L, rows, back, 0), NEW more \in Nat,
         rows \in Nat
  PROVE  Awaiting(Adds1(v, more), v, T, L, rows, back, more)
<1> DEFINE n == v.added + more
           c == [v EXCEPT !.added = n]
<1>1. n \in Int /\ n \in Nat /\ n = v.added + more
  BY DEF BreakRec, CountedFor
<1> HIDE DEF n
<1>2. /\ c \in BreakRec(T) /\ c.at = v.at /\ c.out = v.out /\ c.ok = v.ok /\ c.added = n /\ c.len = v.len
      /\ c.y = v.y /\ c.ybase = v.ybase /\ c.ydisp = v.ydisp
  BY <1>1 DEF BreakRec
<1>3. Adds1(v, more) = c
  BY DEF Adds1, n
<1> HIDE DEF c
<1>4. v.len \in Int /\ v.ybase \in Int /\ v.added \in Int
  BY DEF BreakRec
<1>5. v.ybase + rows + 0 <= v.len + v.added
  BY DEF CountedFor
<1>6. c.ybase + rows + more <= c.len + c.added
  BY <1>1, <1>2, <1>4, <1>5
<1>7. CountedFor(c, L, rows, back, more)
  BY <1>1, <1>2, <1>6 DEF CountedFor
<1> QED BY <1>1, <1>2, <1>3, <1>7 DEF Awaiting

\* The list after a group.
GroupBroken(c, v, w, T, L, rows, back) == Breaking(c, T, L, rows, back) /\ (c.ok => c.at = v.at - Len(w))

\* One group broken, or left.
LEMMA BreakGroupIs ==
  ASSUME NEW cols \in Nat, cols >= 2, NEW old \in Nat, cols <= old, NEW rows \in Nat \ {0}, NEW back \in Nat \ {0},
         NEW L \in Int, NEW w \in GroupsOf(RowsBefore(old, cols), old),
         NEW v, Breaking(v, RowsOf(cols, FALSE, FALSE), L, rows, back), v.ok
  PROVE  GroupBroken(BreakGroup(v, w, old, cols, rows, rows + back), v, w, RowsOf(cols, FALSE, FALSE), L, rows, back)
<1> DEFINE T == RowsOf(cols, FALSE, FALSE)
           S == RowsBefore(old, cols)
           max == rows + back
           c == BreakGroup(v, w, old, cols, rows, max)
           at == v.at - Len(w)
           run == Run(w, old)
           lens == NewLineLengths(run, cols)
           more == Len(lens) - Len(w)
           trimmed == MostOf(0, more - max + (IF v.ybase = 0 /\ v.y # v.len - 1 THEN v.y ELSE v.len))
           more1 == Adds1(v, more)
           moved == Adds(more1, more - trimmed, max, rows)
           rowsOf == Broken(w, run, lens, old, cols)
           sy == LeastOf(moved.sy + more, moved.ybase + rows - 1)
           r0 == [old |-> w, new |-> <<>>]
           r1 == [old |-> SubSeq(rowsOf, 1, Len(w)), new |-> SubSeq(rowsOf, Len(w) + 1, Len(lens))]
           last == w[Len(w)].cells
<1>1. /\ v \in BreakRec(T) /\ CountedFor(v, L, rows, back, 0) /\ L - v.at \in Nat /\ Tallied(v.out, L - v.at, v.added)
      /\ v.at \in Int /\ v.sy \in Int /\ v.added \in Nat
  BY DEF Breaking, BreakRec, CountedFor
<1>2. w \in Seq(S) /\ Len(w) >= 1 /\ Len(w) \in Nat
  <2>1. w \in Seq(S) /\ Len(w) >= 1
    BY DEF GroupsOf
  <2> QED BY <2>1, ItemsAre
<1>3. S \subseteq T
  BY RowsBeforeAre
<1>4. at \in Int /\ L - at = (L - v.at) + Len(w)
  BY <1>1, <1>2
<1>5. CASE Skips(v, w, cols)
  <2>1. c = Gaining(v, at, v.sy, r0)
    <3>1. c = [v EXCEPT !.at = at, !.out = <<r0>> \o @]
      BY Zenon, <1>5 DEF BreakGroup, Skips
    <3>2. [v EXCEPT !.at = at, !.out = <<r0>> \o @] = [v EXCEPT !.at = at, !.sy = v.sy, !.out = <<r0>> \o @]
      <4> HIDE DEF at, r0
      <4> QED BY ONLY <1>1 DEF BreakRec
    <3> QED BY <3>1, <3>2 DEF Gaining
  <2>2. r0 \in [old : Seq(T), new : Seq(T)] /\ r0.old = w /\ r0.new = <<>>
    <3>1. w \in Seq(T)
      <4> HIDE DEF S, T
      <4> QED BY <1>2, <1>3, SeqMonotonic
    <3> HIDE DEF T
    <3>2. <<>> \in Seq(T)
      OBVIOUS
    <3> QED BY <3>1, <3>2
  <2> DEFINE o == L - v.at
             n == v.added
             p == v.sy
             e == <<>>
  <2>3. /\ v \in BreakRec(T) /\ L \in Int /\ CountedFor(v, L, rows, back, 0) /\ v.ok /\ o \in Nat /\ n \in Nat
        /\ Tallied(v.out, o, n) /\ r0 \in [old : Seq(T), new : Seq(T)] /\ p \in Int /\ at \in Int
        /\ L - at = o + Len(r0.old) /\ v.added = n + Len(r0.new)
    <3>1. L - at = o + Len(r0.old)
      BY <1>4, <2>2
    <3>2. v.added = n + Len(r0.new)
      <4>1. Len(r0.new) = 0
        BY <2>2
      <4> HIDE DEF r0
      <4> QED BY <1>1, <4>1
    <3> HIDE DEF r0, at
    <3> QED BY <1>1, <1>4, <2>2, <3>1, <3>2
  <2> HIDE DEF T, o, n, p, at, r0
  <2>4. Gained(Gaining(v, at, p, r0), T, L, rows, back, at)
    BY ONLY <2>3, GainingIs
  <2> QED BY <2>1, <2>4 DEF c, p, T, at, Gained, GroupBroken
<1>6. CASE ~Skips(v, w, cols) /\ (TrimmedLength(last) > old \/ more < 0)
  <2>1. c = [v EXCEPT !.ok = FALSE]
    BY Zenon, <1>6 DEF BreakGroup, Skips, Last
  <2>2. [v EXCEPT !.ok = FALSE] \in BreakRec(T) /\ ~[v EXCEPT !.ok = FALSE].ok
    BY <1>1 DEF BreakRec
  <2> HIDE DEF c
  <2> QED BY <2>1, <2>2 DEF Breaking, c, GroupBroken
<1>7. CASE ~Skips(v, w, cols) /\ ~(TrimmedLength(last) > old \/ more < 0)
  <2>1. c = Gaining(moved, at, sy, r1)
    BY Zenon, <1>7 DEF BreakGroup, Skips, Last, Gaining, Adds, Adds1
  <2>2. w \in Seq(RowsOf(old, TRUE, FALSE)) /\ Group(w, old)
    <3>1. w \in Seq(RowsOf(old, TRUE, FALSE))
      BY <1>7, LongGroup DEF Skips
    <3>2. TrimmedLength(last) <= old
      <4>1. last \in Seq(Cell)
        <5>1. Len(w) \in 1 .. Len(w)
          BY <1>2
        <5>2. w[Len(w)] \in RowsOf(old, TRUE, FALSE)
          BY <3>1, <5>1, ItemsAre
        <5> QED BY <5>2 DEF RowsOf, TextLine
      <4> HIDE DEF last
      <4>2. TrimmedLength(last) \in Nat
        BY <4>1, TrimmedNat
      <4> QED BY <1>7, <4>2
    <3> QED BY <1>2, <3>1, <3>2, GroupIs
  <2>3. run \in Seq(Cell)
    <3>1. old \in Nat \ {0}
      OBVIOUS
    <3>2. RunOf(run, w, old)
      BY <2>2, <3>1, RunIs
    <3> QED BY <3>2 DEF RunOf
  <2> HIDE DEF run
  <2>4. lens \in Seq(1 .. cols) /\ \E n \in 0 .. Len(run) : Ends(lens, n)
    BY <2>3, NewLineLengthsAre
  <2> HIDE DEF lens
  <2>5. rowsOf \in Seq(RowsOf(old, TRUE, FALSE)) /\ Len(rowsOf) = Len(lens) /\ Len(lens) \in Nat
    <3>2. Len(lens) \in Nat
      BY <2>4, ItemsAre
    <3>3. /\ cols \in Nat /\ old \in Nat /\ w \in Seq(RowsOf(old, TRUE, FALSE)) /\ run \in Seq(Cell)
          /\ lens \in Seq(1 .. cols) /\ EndsWithin(lens, run)
      BY <2>2, <2>3, <2>4 DEF EndsWithin
    <3>4. BreaksTo(Broken(w, run, lens, old, cols), RowsOf(old, TRUE, FALSE), lens)
      BY ONLY <3>3, BrokenIs
    <3> QED BY <3>2, <3>4 DEF BreaksTo
  <2> HIDE DEF rowsOf, last
  <2>6. more \in Nat /\ Len(lens) = Len(w) + more
    <3>1. ~(more < 0)
      BY <1>7
    <3> QED BY <1>2, <2>5, <3>1
  <2> DEFINE l == Len(w)
             z == Len(lens)
             q1 == SubSeq(rowsOf, 1, l)
             q2 == SubSeq(rowsOf, l + 1, z)
             U == RowsOf(old, TRUE, FALSE)
  <2>7. q1 \in Seq(T) /\ Len(q1) = l /\ q2 \in Seq(T) /\ Len(q2) = more
    <3>1. U \subseteq T
      BY <1>3 DEF RowsBefore
    <3>2. /\ l \in Nat /\ z \in Nat /\ l <= z /\ z = Len(rowsOf) /\ z - l = more /\ z <= Len(rowsOf)
          /\ rowsOf \in Seq(U) /\ l <= Len(rowsOf)
      <4>1. l \in Nat /\ z \in Nat /\ z = l + more /\ z = Len(rowsOf)
        BY <1>2, <2>5, <2>6
      <4> HIDE DEF l, z, more
      <4>2. l <= z /\ z - l = more
        BY <2>6, <4>1
      <4>3. rowsOf \in Seq(U)
        BY <2>5
      <4> HIDE DEF U
      <4> QED BY <4>1, <4>2, <4>3
    <3> HIDE DEF l, z, more, U, T
    <3>3. q1 \in Seq(U) /\ Len(q1) = l
      BY <3>2, FrontIs
    <3>4. q2 \in Seq(U) /\ Len(q2) = z - l
      BY <3>2, PartIs
    <3> HIDE DEF q1, q2
    <3> QED BY <3>1, <3>2, <3>3, <3>4, SeqMonotonic
  <2>8. r1 \in [old : Seq(T), new : Seq(T)] /\ r1.old = q1 /\ r1.new = q2
    <3> HIDE DEF q1, q2, T
    <3>1. r1 = [old |-> q1, new |-> q2]
      BY DEF q1, q2
    <3> HIDE DEF r1
    <3> QED BY <2>7, <3>1
  <2>9. /\ more1 \in BreakRec(T) /\ CountedFor(more1, L, rows, back, more) /\ more1.at = v.at /\ more1.out = v.out
        /\ more1.ok = v.ok /\ more1.added = v.added + more
    <3>1. v \in BreakRec(T) /\ CountedFor(v, L, rows, back, 0) /\ more \in Nat /\ rows \in Nat
      BY <1>1, <2>6
    <3> HIDE DEF T, more
    <3>2. Awaiting(Adds1(v, more), v, T, L, rows, back, more)
      BY ONLY <3>1, Adds1Is
    <3> QED BY <3>2 DEF Awaiting
  <2> HIDE DEF more1
  <2>10. Moves1(moved, more1, T) /\ CountedFor(moved, L, rows, back, 0)
    <3> DEFINE n == more - trimmed
    <3>1. n \in Int /\ n <= more
      <4>1. trimmed \in Int /\ trimmed >= 0
        <5>1. v.y \in Int /\ v.len \in Int /\ max \in Int
          BY <1>1 DEF BreakRec
        <5> HIDE DEF more
        <5> QED BY <2>6, <5>1 DEF MostOf
      <4> HIDE DEF trimmed, more
      <4> QED BY <2>6, <4>1
    <3>2. /\ more1 \in BreakRec(T) /\ L \in Int /\ rows \in Nat \ {0} /\ back \in Nat \ {0} /\ n \in Int
          /\ more \in Nat /\ n <= more /\ CountedFor(more1, L, rows, back, more)
      BY <2>6, <2>9, <3>1
    <3> HIDE DEF n, more, T
    <3>3. Moves1(Adds(more1, n, rows + back, rows), more1, T) /\ CountedFor(Adds(more1, n, rows + back, rows), L, rows, back, 0)
      BY ONLY <3>2, AddsIs
    <3> QED BY <3>3 DEF n
  <2> HIDE DEF moved
  <2>11. /\ moved \in BreakRec(T) /\ moved.out = v.out /\ moved.ok /\ moved.added = v.added + more
         /\ moved.sy \in Int /\ moved.ybase \in Int
    <3>1. moved \in BreakRec(T) /\ moved.out = v.out /\ moved.ok /\ moved.added = v.added + more
      <4> HIDE DEF more, T
      <4> QED BY <2>9, <2>10 DEF Moves1
    <3> QED BY <3>1 DEF BreakRec
  <2>12. sy \in Int
    <3> HIDE DEF more
    <3> QED BY <2>6, <2>11 DEF LeastOf
  <2> DEFINE o == L - v.at
             n == v.added
  <2>13. /\ moved \in BreakRec(T) /\ L \in Int /\ CountedFor(moved, L, rows, back, 0) /\ moved.ok /\ o \in Nat /\ n \in Nat
         /\ Tallied(moved.out, o, n) /\ r1 \in [old : Seq(T), new : Seq(T)] /\ sy \in Int /\ at \in Int
         /\ L - at = o + Len(r1.old) /\ moved.added = n + Len(r1.new)
    <3>1. Len(r1.old) = l /\ Len(r1.new) = more
      <4> HIDE DEF r1, q1, q2, more
      <4> QED BY <2>7, <2>8
    <3> HIDE DEF r1, more, T, sy, at
    <3>2. L - at = o + Len(r1.old)
      BY <1>4, <3>1
    <3>3. moved.added = n + Len(r1.new)
      BY <2>11, <3>1
    <3> QED BY <1>1, <1>4, <2>8, <2>10, <2>11, <2>12, <3>2, <3>3
  <2> HIDE DEF T, o, n, sy, at, r1
  <2>14. Gained(Gaining(moved, at, sy, r1), T, L, rows, back, at)
    BY ONLY <2>13, GainingIs
  <2> QED BY <2>1, <2>14 DEF c, T, at, Gained, GroupBroken
<1> HIDE DEF c
<1> QED BY <1>5, <1>6, <1>7 DEF c, GroupBroken

\* The groups from the last to the first.
BreakAll(groups, start, old, cols, rows, max) ==
  LET break(acc, w) == IF acc.ok THEN BreakGroup(acc, w, old, cols, rows, max) ELSE acc
  IN Along(Reverse(groups), break, start)

\* All of them are accounted for.
LEMMA BreakAllIs ==
  ASSUME NEW cols \in Nat, cols >= 2, NEW old \in Nat, cols <= old, NEW rows \in Nat \ {0}, NEW back \in Nat \ {0},
         NEW L \in Nat, NEW groups \in Seq(GroupsOf(RowsBefore(old, cols), old)), Laid(groups, L),
         NEW start, Breaking(start, RowsOf(cols, FALSE, FALSE), L, rows, back), start.at = L
  PROVE  LET c == BreakAll(groups, start, old, cols, rows, rows + back) IN
         Breaking(c, RowsOf(cols, FALSE, FALSE), L, rows, back) /\ (c.ok => c.at = 0)
<1> DEFINE S == RowsBefore(old, cols)
           T == RowsOf(cols, FALSE, FALSE)
           G == GroupsOf(S, old)
           s == Reverse(groups)
           n == Len(s)
           v == start
           max == rows + back
           X == BreakRec(T)
           body(a, k) == IF a.ok THEN BreakGroup(a, s[k], old, cols, rows, max) ELSE a
           big == Len(groups)
<1>0. PICK st : LaidAt(groups, L, st)
  BY DEF Laid
<1> DEFINE P(a, k) == Breaking(a, T, L, rows, back) /\ (a.ok => a.at = st[(big - k) + 1])
           I == [k \in 0 .. n |-> {a \in X : P(a, k)}]
           stp == [k \in 1 .. n |-> [a \in X |-> body(a, k)]]
           Eq(g) == g = [k \in 0 .. n |-> IF k = 0 THEN v ELSE body(g[k - 1], k)]
           at == CHOOSE g : Eq(g)
           c == BreakAll(groups, start, old, cols, rows, max)
<1>1. c = at[n]
  BY Zenon DEF BreakAll, Along
<1>2. /\ big \in Nat /\ n = big /\ n \in Nat /\ \A k \in 1 .. n : s[k] = groups[(big - k) + 1]
      /\ \A i \in 1 .. big : groups[i] \in G
  <2>1. big \in Nat /\ \A i \in 1 .. big : groups[i] \in G
    <3> HIDE DEF G
    <3>1. groups \in Seq(G)
      BY DEF G
    <3> QED BY <3>1, ItemsAre
  <2>2. s = [i \in 1 .. big |-> groups[(big - i) + 1]]
    BY DEF Reverse
  <2> HIDE DEF big, s
  <2>3. s \in Seq(G)
    <3>1. ASSUME NEW i \in 1 .. big PROVE groups[(big - i) + 1] \in G
      <4>1. (big - i) + 1 \in 1 .. big
        BY <2>1
      <4> QED BY <2>1, <4>1
    <3> HIDE DEF G
    <3>2. s \in [1 .. big -> G]
      BY <2>2, <3>1
    <3> QED BY <2>1, <3>2, SeqDef
  <2>4. Len(s) = big
    <3>1. Len(s) \in Nat /\ DOMAIN s = 1 .. Len(s) /\ DOMAIN s = 1 .. big
      <4> HIDE DEF G
      <4> QED BY <2>2, <2>3, ItemsAre
    <3> DEFINE z == Len(s)
    <3>2. z \in Nat /\ 1 .. z = 1 .. big
      BY <3>1
    <3> HIDE DEF z
    <3>3. z = big
      <4>1. z > 0 => z \in 1 .. z
        BY <3>2
      <4>2. big > 0 => big \in 1 .. big
        BY <2>1
      <4>3. (z > 0 => z \in 1 .. big) /\ (big > 0 => big \in 1 .. z)
        BY <3>2, <4>1, <4>2
      <4> QED BY <2>1, <3>2, <4>3
    <3> QED BY <3>3 DEF z
  <2> QED BY <2>1, <2>2, <2>4
<1> HIDE DEF big, s
<1>3. v \in X /\ P(v, 0)
  <2>1. (big - 0) + 1 = big + 1
    BY <1>2
  <2>2. st[big + 1] = L
    BY <1>0 DEF LaidAt, big
  <2> QED BY <2>1, <2>2 DEF Breaking
<1>4. \A a \in X : \A k \in 1 .. n : P(a, k - 1) => body(a, k) \in X /\ P(body(a, k), k)
  <2>1. ASSUME NEW a \in X, NEW k \in 1 .. n, P(a, k - 1) PROVE body(a, k) \in X /\ P(body(a, k), k)
    <3> DEFINE w == s[k]
               b == BreakGroup(a, w, old, cols, rows, rows + back)
               j == (big - k) + 1
    <3>1. w \in GroupsOf(RowsBefore(old, cols), old) /\ w = groups[j] /\ j \in 1 .. big /\ (big - (k - 1)) + 1 = j + 1
      <4>1. j \in 1 .. big /\ (big - (k - 1)) + 1 = j + 1
        BY <1>2
      <4> QED BY <1>2, <4>1
    <3>2. CASE a.ok
      <4>1. Breaking(a, RowsOf(cols, FALSE, FALSE), L, rows, back) /\ a.ok /\ a.at = st[j + 1]
        BY <2>1, <3>1, <3>2
      <4> HIDE DEF w, j, X, P, body, S, T, G
      <4>2. /\ cols \in Nat /\ cols >= 2 /\ old \in Nat /\ cols <= old /\ rows \in Nat \ {0} /\ back \in Nat \ {0}
            /\ L \in Int /\ w \in GroupsOf(RowsBefore(old, cols), old)
            /\ Breaking(a, RowsOf(cols, FALSE, FALSE), L, rows, back) /\ a.ok
        <5>1. cols \in Nat /\ cols >= 2 /\ old \in Nat /\ cols <= old /\ rows \in Nat \ {0} /\ back \in Nat \ {0}
          OBVIOUS
        <5>2. L \in Int
          OBVIOUS
        <5> QED BY <3>1, <4>1, <5>1, <5>2
      <4>3. Breaking(b, RowsOf(cols, FALSE, FALSE), L, rows, back) /\ (b.ok => b.at = a.at - Len(w))
        <5>1. GroupBroken(BreakGroup(a, w, old, cols, rows, rows + back), a, w, RowsOf(cols, FALSE, FALSE), L, rows, back)
          BY ONLY <4>2, BreakGroupIs
        <5> QED BY <5>1 DEF GroupBroken
      <4>4. st[j + 1] = st[j] + Len(w) /\ st[j] \in Nat
        <5>1. j \in 1 .. big + 1
          BY <1>2, <3>1
        <5> QED BY <1>0, <3>1, <5>1 DEF LaidAt, big
      <4>5. Len(w) \in Nat
        <5>1. w \in Seq(S)
          BY <3>1 DEF GroupsOf, S
        <5> HIDE DEF S
        <5> QED BY <5>1, ItemsAre
      <4>6. b.ok => b.at = st[j]
        BY <4>1, <4>3, <4>4, <4>5
      <4>7. body(a, k) = b
        BY <3>2 DEF w, body
      <4> HIDE DEF b, body
      <4> QED BY <4>3, <4>6, <4>7 DEF j, Breaking, X, P, T
    <3>3. CASE ~a.ok
      BY <2>1, <3>3
    <3> QED BY <3>2, <3>3
  <2> HIDE DEF X, P, body
  <2> QED BY <2>1
<1>5. \A a \in X : P(a, n) => Breaking(a, T, L, rows, back) /\ (a.ok => a.at = 0)
  <2>1. (big - n) + 1 = 1
    BY <1>2
  <2>2. st[1] = 0
    BY <1>0 DEF LaidAt
  <2> QED BY <2>1, <2>2
<1>6. n \in Nat
  BY <1>2
<1> HIDE DEF n, v, X, P, body, c, T
<1>7. /\ n \in Nat /\ v \in I[0] /\ n \in 0 .. n
      /\ \A k \in 1 .. n : k \in 0 .. n /\ k # 0 /\ \A e \in I[k - 1] : stp[k][e] \in I[k] /\ stp[k][e] = body(e, k)
  <2>1. 0 \in 0 .. n /\ n \in 0 .. n
    BY <1>6
  <2>2. ASSUME NEW k \in 1 .. n PROVE k - 1 \in 0 .. n /\ k \in 0 .. n /\ k # 0
    BY <1>6
  <2>3. ASSUME NEW k \in 1 .. n, NEW e \in I[k - 1] PROVE stp[k][e] \in I[k] /\ stp[k][e] = body(e, k)
    <3>1. e \in X /\ P(e, k - 1)
      BY <2>2
    <3>2. body(e, k) \in X /\ P(body(e, k), k)
      BY <1>4, <3>1
    <3> QED BY <2>2, <3>1, <3>2
  <2> QED BY <1>6, <1>3, <2>1, <2>2, <2>3
<1>8. \A e \in I[n] : e \in X /\ P(e, n)
  BY <1>7
<1> HIDE DEF I, stp
<1>9. PICK g : Loops(g, n, v, stp) /\ \A k \in 0 .. n : g[k] \in I[k]
  BY <1>7, LoopRuns
<1>10. Eq(g)
  <2>1. g = [k \in 0 .. n |-> IF k = 0 THEN v ELSE stp[k][g[k - 1]]]
    BY <1>9 DEF Loops
  <2>2. ASSUME NEW k \in 0 .. n
        PROVE (IF k = 0 THEN v ELSE stp[k][g[k - 1]]) = (IF k = 0 THEN v ELSE body(g[k - 1], k))
    <3>1. CASE k # 0
      <4>1. k \in 1 .. n /\ k - 1 \in 0 .. n
        BY <1>6, <3>1
      <4> QED BY <1>7, <1>9, <3>1, <4>1
    <3> QED BY <3>1
  <2> QED BY <2>1, <2>2
<1>11. Eq(at)
  <2> HIDE DEF Eq
  <2> QED BY <1>10
<1> HIDE DEF at
<1>12. at[0] = v /\ \A k \in 1 .. n : at[k] = body(at[k - 1], k)
  <2>1. 0 \in 0 .. n
    BY <1>6
  <2> QED BY <1>7, <1>11, <2>1
<1> HIDE DEF Eq
<1>13. at[n] \in X /\ P(at[n], n)
  <2>1. ASSUME NEW k \in 1 .. n, at[k - 1] \in I[k - 1] PROVE at[k] \in I[k]
    BY <1>7, <1>12, <2>1
  <2>2. at[n] \in I[n]
    BY <1>7, <1>12, <2>1, LoopHolds
  <2> QED BY <1>8, <2>2
<1> QED BY <1>1, <1>5, <1>13 DEF c, T

\* The lines after that.
AllLines(v) ==
  LET place(acc, g) == [at |-> acc.at + Len(g.old),
                        out |-> acc.out \o ListAtMost(g.old, MostOf(v.len - acc.at, 0)) \o g.new]
  IN Along(v.out, place, [at |-> 0, out |-> <<>>]).out

\* So many of a list, counted on.
LEMMA CountOn ==
  ASSUME NEW len \in Nat, NEW at \in Nat, NEW n \in Nat, NEW l,
         l = IF n < MostOf(len - at, 0) THEN n ELSE MostOf(len - at, 0)
  PROVE  l \in Nat /\ l <= n /\ LeastOf(len, at + n) = LeastOf(len, at) + l
<1> DEFINE z == MostOf(len - at, 0)
<1>1. z = IF len - at > 0 THEN len - at ELSE 0
  BY DEF MostOf
<1>2. l = IF n < z THEN n ELSE z
  OBVIOUS
<1> HIDE DEF z
<1>3. LeastOf(len, at + n) = (IF len < at + n THEN len ELSE at + n) /\ LeastOf(len, at) = (IF len < at THEN len ELSE at)
  BY DEF LeastOf
<1> DEFINE p == LeastOf(len, at + n)
           q == LeastOf(len, at)
<1>4. p = (IF len < at + n THEN len ELSE at + n) /\ q = (IF len < at THEN len ELSE at)
  BY <1>3
<1> HIDE DEF p, q
<1>5. l \in Nat /\ l <= n /\ p = q + l
  BY <1>1, <1>2, <1>4
<1> QED BY <1>5 DEF p, q

\* As many of the first at lines of the old list as are kept, and m new ones.
PlacedTo(r, T, len, at, m) == r \in Seq(T) /\ Len(r) = LeastOf(len, at) + m

\* Lines of a group that stay and new ones, after others.
LEMMA PlacedOut ==
  ASSUME NEW T, NEW s \in Seq(T), NEW p \in Seq(T), NEW q \in Seq(T), NEW len \in Nat, NEW at \in Nat, NEW m \in Nat,
         Len(s) = LeastOf(len, at) + m
  PROVE  PlacedTo(s \o ListAtMost(p, MostOf(len - at, 0)) \o q, T, len, at + Len(p), m + Len(q))
<1> DEFINE n == Len(p)
           z == MostOf(len - at, 0)
           l == IF n < z THEN n ELSE z
           u == SubSeq(p, 1, l)
           k == Len(q)
           x == LeastOf(len, at)
           y == LeastOf(len, at + n)
<1>1. n \in Nat /\ k \in Nat
  BY ItemsAre
<1>2. l \in Nat /\ l <= n /\ y = x + l
  <2>1. l = IF n < MostOf(len - at, 0) THEN n ELSE MostOf(len - at, 0)
    OBVIOUS
  <2> HIDE DEF l, n
  <2> QED BY <1>1, <2>1, CountOn
<1>3. ListAtMost(p, z) = u
  BY DEF ListAtMost
<1>4. x \in Int
  BY DEF LeastOf
<1> HIDE DEF l, z, x, y
<1>5. u \in Seq(T) /\ Len(u) = l
  BY <1>2, FrontIs
<1> HIDE DEF u, n, k
<1>6. s \o u \in Seq(T) /\ Len(s \o u) = Len(s) + Len(u)
  BY <1>5, ConcatIs
<1> DEFINE t == s \o u
<1>7. t \in Seq(T) /\ Len(t) = Len(s) + Len(u)
  BY <1>6
<1> HIDE DEF t
<1>8. t \o q \in Seq(T) /\ Len(t \o q) = Len(t) + Len(q)
  BY <1>7, ConcatIs
<1>9. Len(s) = x + m
  BY DEF x
<1>10. Len(t \o q) = y + (m + Len(q))
  <2>1. Len(t \o q) = ((x + m) + l) + k
    BY <1>5, <1>7, <1>8, <1>9 DEF k
  <2>2. ((x + m) + l) + k = y + (m + k)
    BY <1>1, <1>2, <1>4
  <2> QED BY <2>1, <2>2 DEF k
<1> QED BY <1>3, <1>8, <1>10 DEF t, y, z, n, PlacedTo

\* As many lines as were counted.
LEMMA AllLinesAre ==
  ASSUME NEW T, NEW v0 \in BreakRec(T), NEW L \in Nat, v0.len \in Nat, v0.len <= L, v0.added \in Nat,
         Tallied(v0.out, L, v0.added)
  PROVE  AllLines(v0) \in Seq(T) /\ Len(AllLines(v0)) = v0.len + v0.added
<1> DEFINE s == v0.out
           n == Len(s)
           len == v0.len
           added == v0.added
           v == [at |-> 0, out |-> <<>>]
           O == [old : Seq(T), new : Seq(T)]
           X == [at : Nat, out : Seq(T)]
           body(a, k) == [at |-> a.at + Len(s[k].old),
                          out |-> a.out \o ListAtMost(s[k].old, MostOf(v0.len - a.at, 0)) \o s[k].new]
<1>0. PICK f0, g0 : TalliedAt(s, L, added, f0, g0)
  BY DEF Tallied
<1> DEFINE P(a, k) == a.at = L - f0[k + 1] /\ Len(a.out) = LeastOf(len, a.at) + (added - g0[k + 1])
                      /\ added - g0[k + 1] \in Nat
           I == [k \in 0 .. n |-> {a \in X : P(a, k)}]
           stp == [k \in 1 .. n |-> [a \in X |-> body(a, k)]]
           Eq(g) == g = [k \in 0 .. n |-> IF k = 0 THEN v ELSE body(g[k - 1], k)]
           at == CHOOSE g : Eq(g)
<1>1. AllLines(v0) = at[n].out
  BY Zenon DEF AllLines, Along
<1>2. n \in Nat /\ \A k \in 1 .. n : s[k] \in O
  <2>1. s \in Seq(O)
    BY DEF BreakRec
  <2> HIDE DEF s, O
  <2> QED BY <2>1, ItemsAre
<1>5. /\ f0 \in [1 .. n + 1 -> Nat] /\ g0 \in [1 .. n + 1 -> Nat]
      /\ f0[1] = L /\ g0[1] = added /\ f0[n + 1] = 0 /\ g0[n + 1] = 0
      /\ \A k \in 1 .. n : f0[k] = f0[k + 1] + Len(s[k].old) /\ g0[k] = g0[k + 1] + Len(s[k].new)
  BY <1>0 DEF TalliedAt
<1>6. len \in Nat /\ len <= L /\ added \in Nat
  OBVIOUS
<1> HIDE DEF s, n, len, added
<1>3. v \in X /\ P(v, 0)
  <2> DEFINE e == <<>>
             z == 0
  <2>1. e \in Seq(T) /\ Len(e) = 0 /\ z \in Nat /\ z = 0 /\ z + 1 = 1
    BY EmptySeq
  <2>2. v = [at |-> z, out |-> e]
    OBVIOUS
  <2> HIDE DEF e, v
  <2>3. L - f0[0 + 1] = z /\ added - g0[0 + 1] = 0
    BY <1>5, <1>6, <2>1
  <2>4. LeastOf(len, z) = 0
    BY <1>6, <2>1 DEF LeastOf
  <2> HIDE DEF z
  <2>5. v \in X /\ v.at = z /\ v.out = e
    BY <2>1, <2>2
  <2> HIDE DEF X
  <2>6. Len(v.out) = LeastOf(len, v.at) + (added - g0[0 + 1])
    BY <2>1, <2>3, <2>4, <2>5
  <2>7. v.at = L - f0[0 + 1] /\ added - g0[0 + 1] \in Nat
    BY <2>1, <2>3, <2>5
  <2> QED BY <2>5, <2>6, <2>7
<1>4. \A a \in X : \A k \in 1 .. n : P(a, k - 1) => body(a, k) \in X /\ P(body(a, k), k)
  <2>1. ASSUME NEW a \in X, NEW k \in 1 .. n, P(a, k - 1) PROVE body(a, k) \in X /\ P(body(a, k), k)
    <3> DEFINE p == s[k].old
               q == s[k].new
               x == a.at
               m == added - g0[k]
               r == a.out \o ListAtMost(p, MostOf(len - x, 0)) \o q
               z == x + Len(p)
    <3>1. p \in Seq(T) /\ q \in Seq(T)
      BY <1>2
    <3>2. Len(p) \in Nat /\ Len(q) \in Nat
      BY <3>1, ItemsAre
    <3>3. (k - 1) + 1 = k /\ k \in 1 .. n + 1 /\ k + 1 \in 1 .. n + 1
      BY <1>2
    <3>4. x \in Nat /\ a.out \in Seq(T) /\ m \in Nat /\ Len(a.out) = LeastOf(len, x) + m /\ x = L - f0[k]
      BY <2>1, <3>3
    <3>5. f0[k] = f0[k + 1] + Len(p) /\ g0[k] = g0[k + 1] + Len(q) /\ f0[k] \in Nat /\ g0[k] \in Nat
          /\ f0[k + 1] \in Nat /\ g0[k + 1] \in Nat
      BY <1>5, <3>3
    <3>6. body(a, k) = [at |-> z, out |-> r]
      BY DEF len
    <3> HIDE DEF p, q, body
    <3>7. z \in Nat /\ z = L - f0[k + 1] /\ m + Len(q) = added - g0[k + 1] /\ m + Len(q) \in Nat
      <4> DEFINE i == Len(p)
                 j == Len(q)
                 f == f0[k + 1]
                 g == g0[k + 1]
      <4>1. z = x + i /\ i \in Nat /\ j \in Nat /\ f \in Nat /\ g \in Nat /\ L \in Nat /\ added \in Nat
        BY <1>6, <3>2, <3>5
      <4>2. x \in Nat /\ m \in Nat /\ x = L - (f + i) /\ m = added - (g + j)
        BY <3>4, <3>5
      <4> HIDE DEF x, z, i, j, f, g, m
      <4>3. z \in Nat /\ z = L - f /\ m + j = added - g /\ m + j \in Nat
        BY ONLY <4>1, <4>2
      <4> QED BY <4>3 DEF f, g, j
    <3>8. r \in Seq(T) /\ Len(r) = LeastOf(len, z) + (m + Len(q))
      <4> DEFINE o == a.out
      <4>1. o \in Seq(T) /\ Len(o) = LeastOf(len, x) + m
        BY <3>4
      <4> HIDE DEF o, x, m
      <4>2. /\ o \in Seq(T) /\ p \in Seq(T) /\ q \in Seq(T) /\ len \in Nat /\ x \in Nat /\ m \in Nat
            /\ Len(o) = LeastOf(len, x) + m
        BY <1>6, <3>1, <3>4, <4>1
      <4>3. PlacedTo(o \o ListAtMost(p, MostOf(len - x, 0)) \o q, T, len, x + Len(p), m + Len(q))
        BY ONLY <4>2, PlacedOut
      <4> QED BY <4>3 DEF o, PlacedTo
    <3> HIDE DEF z, r, m
    <3> QED BY <3>6, <3>7, <3>8
  <2> QED BY <2>1
<1>7. \A a \in X : P(a, n) => a.out \in Seq(T) /\ Len(a.out) = len + added
  <2>1. ASSUME NEW a \in X, P(a, n) PROVE Len(a.out) = len + added
    <3>1. a.at = L /\ added - g0[n + 1] = added
      BY <1>5, <1>6, <2>1
    <3>2. LeastOf(len, L) = len
      BY <1>6 DEF LeastOf
    <3> QED BY <2>1, <3>1, <3>2
  <2> QED BY <2>1
<1>8. n \in Nat
  BY <1>2
<1> HIDE DEF n, v, X, P, body
<1>9. /\ n \in Nat /\ v \in I[0] /\ n \in 0 .. n
      /\ \A k \in 1 .. n : k \in 0 .. n /\ k # 0 /\ \A e \in I[k - 1] : stp[k][e] \in I[k] /\ stp[k][e] = body(e, k)
  <2>1. 0 \in 0 .. n /\ n \in 0 .. n
    BY <1>8
  <2>2. ASSUME NEW k \in 1 .. n PROVE k - 1 \in 0 .. n /\ k \in 0 .. n /\ k # 0
    BY <1>8
  <2>3. ASSUME NEW k \in 1 .. n, NEW e \in I[k - 1] PROVE stp[k][e] \in I[k] /\ stp[k][e] = body(e, k)
    <3>1. e \in X /\ P(e, k - 1)
      BY <2>2
    <3>2. body(e, k) \in X /\ P(body(e, k), k)
      BY <1>4, <3>1
    <3> QED BY <2>2, <3>1, <3>2
  <2> QED BY <1>8, <1>3, <2>1, <2>2, <2>3
<1>10. \A e \in I[n] : e \in X /\ P(e, n)
  BY <1>9
<1> HIDE DEF I, stp
<1>11. PICK g : Loops(g, n, v, stp) /\ \A k \in 0 .. n : g[k] \in I[k]
  BY <1>9, LoopRuns
<1>12. Eq(g)
  <2>1. g = [k \in 0 .. n |-> IF k = 0 THEN v ELSE stp[k][g[k - 1]]]
    BY <1>11 DEF Loops
  <2>2. ASSUME NEW k \in 0 .. n
        PROVE (IF k = 0 THEN v ELSE stp[k][g[k - 1]]) = (IF k = 0 THEN v ELSE body(g[k - 1], k))
    <3>1. CASE k # 0
      <4>1. k \in 1 .. n /\ k - 1 \in 0 .. n
        BY <1>8, <3>1
      <4> QED BY <1>9, <1>11, <3>1, <4>1
    <3> QED BY <3>1
  <2> QED BY <2>1, <2>2
<1>13. Eq(at)
  <2> HIDE DEF Eq
  <2> QED BY <1>12
<1> HIDE DEF at
<1>14. at[0] = v /\ \A k \in 1 .. n : at[k] = body(at[k - 1], k)
  <2>1. 0 \in 0 .. n
    BY <1>8
  <2> QED BY <1>9, <1>13, <2>1
<1> HIDE DEF Eq
<1>15. at[n] \in X /\ P(at[n], n)
  <2>1. ASSUME NEW k \in 1 .. n, at[k - 1] \in I[k - 1] PROVE at[k] \in I[k]
    BY <1>9, <1>14, <2>1
  <2>2. at[n] \in I[n]
    BY <1>9, <1>14, <2>1, LoopHolds
  <2> QED BY <1>10, <2>2
<1> QED BY <1>1, <1>7, <1>15 DEF len, added

\* Before its lines are broken.
Unbroken(b) ==
  [at |-> Len(b.lines), len |-> Len(b.lines), added |-> 0, out |-> <<>>, ok |-> TRUE,
   y |-> b.y, ybase |-> b.ybase, ydisp |-> b.ydisp, sy |-> b.sy]

\* Nothing is accounted for yet.
LEMMA UnbrokenIs ==
  ASSUME NEW S, NEW T, NEW cols, NEW rows \in Nat \ {0}, NEW back \in Nat \ {0}, NEW b, Settles(b, S, cols, rows, back)
  PROVE  Breaking(Unbroken(b), T, Len(b.lines), rows, back) /\ Unbroken(b).at = Len(b.lines)
<1> DEFINE L == Len(b.lines)
           z == 0
           e == <<>>
           yes == TRUE
           O == [old : Seq(T), new : Seq(T)]
           y == b.y
           base == b.ybase
           disp == b.ydisp
           sy == b.sy
           v == [at |-> L, len |-> L, added |-> z, out |-> e, ok |-> yes, y |-> y, ybase |-> base, ydisp |-> disp,
                 sy |-> sy]
<1>1. Framed(b, S, rows, back) /\ y \in 0 .. rows - 1
  BY DEF Settles
<1>2. /\ b \in BufRec(S) /\ 0 <= disp /\ disp <= base /\ base + rows <= L /\ L <= rows + back
      /\ base \in Int /\ disp \in Int /\ y \in Int /\ sy \in Int /\ b.lines \in Seq(S)
  BY <1>1 DEF Framed, BufRec
<1>3. L \in Nat
  BY <1>2, ItemsAre
<1>4. e \in Seq(O) /\ Len(e) = 0 /\ z = 0 /\ z \in Int /\ yes \in BOOLEAN /\ yes
  <2> HIDE DEF O
  <2> QED OBVIOUS
<1>5. Unbroken(b) = v
  BY DEF Unbroken
<1> HIDE DEF L, z, e, yes, y, base, disp, sy
<1>6. v \in [at : Int, len : Int, added : Int, out : Seq(O), ok : BOOLEAN, y : Int, ybase : Int, ydisp : Int, sy : Int]
  <2> HIDE DEF O
  <2> QED BY <1>2, <1>3, <1>4
<1>7. v \in BreakRec(T)
  BY <1>6 DEF BreakRec
<1>8. /\ v.at = L /\ v.len = L /\ v.added = z /\ v.out = e /\ v.ok /\ v.y = y /\ v.ybase = base /\ v.ydisp = disp
  BY <1>4
<1> HIDE DEF v
<1>9. CountedFor(v, L, rows, back, 0)
  <2>1. L <= L /\ rows <= L + y /\ z \in Nat /\ base \in 0 .. back /\ disp \in 0 .. base /\ base + rows + 0 <= L + z
    BY <1>1, <1>2, <1>3, <1>4
  <2> QED BY <1>1, <1>8, <2>1 DEF CountedFor
<1>10. L - v.at = z /\ v.added = z
  BY <1>3, <1>4, <1>8
<1>11. Tallied(v.out, z, z)
  <2> DEFINE f == [k \in 1 .. 1 |-> 0]
  <2>1. Len(e) + 1 = 1
    BY <1>4
  <2>2. TalliedAt(e, z, z, f, f)
    BY <1>4, <2>1 DEF TalliedAt
  <2> HIDE DEF f
  <2>3. Tallied(e, z, z)
    BY <2>2 DEF Tallied
  <2> QED BY <1>8, <2>3
<1>12. Breaking(v, T, L, rows, back)
  BY <1>4, <1>7, <1>8, <1>9, <1>10, <1>11 DEF Breaking
<1> QED BY <1>5, <1>8, <1>12 DEF L

\* A screen with its saved cursor moved.
LEMMA SavingIs ==
  ASSUME NEW T, NEW cols, NEW rows, NEW back, NEW a, Settles(a, T, cols, rows, back), NEW sy \in Int
  PROVE  Settles(Saving(a, sy), T, cols, rows, back)
<1> DEFINE c == Saving(a, sy)
<1>1. a \in BufRec(T)
  BY DEF Settles, Framed
<1>2. /\ c \in BufRec(T) /\ c.lines = a.lines /\ c.back = a.back /\ c.max = a.max /\ c.down = a.down
      /\ c.ybase = a.ybase /\ c.ydisp = a.ydisp /\ c.top = a.top /\ c.bot = a.bot
      /\ c.x = a.x /\ c.y = a.y
  BY <1>1 DEF Saving, BufRec
<1> HIDE DEF c
<1>3. Framed(a, T, rows, back) /\ a.x \in 0 .. cols - 1 /\ a.y \in 0 .. rows - 1
  BY DEF Settles
<1>4. Framed(c, T, rows, back)
  BY <1>2, <1>3 DEF Framed
<1> QED BY <1>2, <1>3, <1>4 DEF Settles, c

\* A screen shown with other lines.
LEMMA ViewSettles ==
  ASSUME NEW S, NEW T, NEW cols, NEW rows \in Nat \ {0}, NEW back \in Nat, NEW b, Settles(b, S, cols, rows, back),
         NEW l \in Seq(T), Len(l) <= rows + back, NEW y \in 0 .. rows - 1, NEW base \in Nat, NEW disp \in 0 .. base,
         base + rows <= Len(l)
  PROVE  Settles(Viewing(b, l, y, base, disp), T, cols, rows, back)
<1> DEFINE c == Viewing(b, l, y, base, disp)
           max == rows + back
<1>1. Framed(b, S, rows, back) /\ b.x \in 0 .. cols - 1
  BY DEF Settles
<1>2. /\ Sizing(b, S, max, back) /\ b.down = 0 /\ 0 <= b.top /\ b.top <= b.bot /\ b.bot < rows
  BY <1>1 DEF Framed, Sizing
<1>3. Views(c, b, T, max, back, l, y, base)
  <2>1. Sizing(b, S, max, back) /\ l \in Seq(T) /\ Len(l) <= max /\ y \in Int /\ base \in Nat /\ disp \in 0 .. base
    BY <1>2
  <2> HIDE DEF max
  <2> QED BY ONLY <2>1, ViewingIs
<1> HIDE DEF c, max
<1>4. Framed(c, T, rows, back)
  BY <1>2, <1>3 DEF Framed, Sizing, Views, max
<1> QED BY <1>1, <1>3, <1>4 DEF Settles, Views, c

\* The newest lines are as many as there is room for.
LEMMA NewestRoom ==
  ASSUME NEW T, NEW s \in Seq(T), NEW max \in Nat, NEW need \in Int, need <= Len(s), need <= max
  PROVE  Newest(s, max) \in Seq(T) /\ Len(Newest(s, max)) <= max /\ need <= Len(Newest(s, max))
<1> DEFINE m == IF Len(s) <= max THEN 0 ELSE Len(s) - max
           l == Newest(s, max)
           n == Len(s)
<1>1. l \in Seq(T) /\ Len(l) = Len(s) - m
  BY NewestIs
<1>2. n \in Nat /\ m = IF n <= max THEN 0 ELSE n - max
  BY ItemsAre
<1>3. need <= n /\ Len(l) = n - m
  BY <1>1
<1> HIDE DEF m, l, n
<1>4. Len(l) <= max /\ need <= Len(l)
  BY <1>2, <1>3
<1> QED BY <1>1, <1>4 DEF l

\* A buffer that loses columns, its lines broken anew.
LEMMA SmallerIs ==
  ASSUME NEW cols \in Nat, cols >= 2, NEW old \in Nat, cols <= old, NEW rows \in Nat \ {0}, NEW back \in Nat \ {0},
         NEW b, Settles(b, RowsBefore(old, cols), cols, rows, back), Chained(old, b.lines)
  PROVE  LET c == ReflowSmaller(b, old, cols, rows) IN
         c.ok => Settles(c.b, RowsOf(cols, FALSE, FALSE), cols, rows, back)
<1> DEFINE S == RowsBefore(old, cols)
           T == RowsOf(cols, FALSE, FALSE)
           L == Len(b.lines)
           groups == Groups(b.lines)
           start == Unbroken(b)
           v == BreakAll(groups, start, old, cols, rows, rows + back)
           all == AllLines(v)
           max == b.max
           l == Newest(all, max)
           seen == Viewing(b, l, v.y, v.ybase, v.ydisp)
           c == Saving(seen, v.sy)
<1>1. /\ Framed(b, S, rows, back) /\ max = rows + back /\ b.lines \in Seq(S)
  <2>1. Framed(b, S, rows, back)
    BY DEF Settles
  <2> QED BY <2>1 DEF Framed, BufRec
<1>2. L \in Nat
  BY <1>1, ItemsAre
<1>3. ReflowSmaller(b, old, cols, rows) = [ok |-> v.ok, b |-> c]
  <2>1. ReflowSmaller(b, old, cols, rows) = Inserted(b, BreakAll(groups, start, old, cols, rows, b.max))
    BY Zenon DEF ReflowSmaller, BreakAll, Unbroken
  <2>2. ReflowSmaller(b, old, cols, rows) = Inserted(b, v)
    BY <1>1, <2>1
  <2> HIDE DEF v
  <2> QED BY <2>2 DEF Inserted, AllLines, Viewing, Saving
<1>4. groups \in Seq(GroupsOf(S, old)) /\ Laid(groups, L)
  <2> HIDE DEF S
  <2> QED BY <1>1, GroupsAre
<1>5. Breaking(start, T, L, rows, back) /\ start.at = L
  <2> HIDE DEF T
  <2> QED BY UnbrokenIs
<1> HIDE DEF groups, start, L
<1>6. Breaking(v, T, L, rows, back) /\ (v.ok => v.at = 0)
  <2>1. groups \in Seq(GroupsOf(RowsBefore(old, cols), old)) /\ Breaking(start, RowsOf(cols, FALSE, FALSE), L, rows, back)
    BY <1>4, <1>5
  <2>2. Breaking(v, RowsOf(cols, FALSE, FALSE), L, rows, back) /\ (v.ok => v.at = 0)
    BY <1>2, <1>4, <1>5, <2>1, BreakAllIs
  <2> QED BY <2>2
<1> HIDE DEF v
<1>7. ASSUME v.ok PROVE Settles(c, T, cols, rows, back)
  <2>1. /\ v \in BreakRec(T) /\ CountedFor(v, L, rows, back, 0) /\ Tallied(v.out, L, v.added)
    <3>1. L - v.at = L
      BY <1>2, <1>6, <1>7
    <3> QED BY <1>6, <1>7, <3>1 DEF Breaking
  <2>2. /\ v.len \in Int /\ v.y \in Int /\ v.ybase \in Int /\ v.ydisp \in Int /\ v.sy \in Int
    BY <2>1 DEF BreakRec
  <2>3. /\ v.len <= L /\ rows <= v.len + v.y /\ v.y \in 0 .. rows - 1 /\ v.added \in Nat
        /\ v.ybase \in 0 .. back /\ v.ydisp \in 0 .. v.ybase /\ v.ybase + rows + 0 <= v.len + v.added
    BY <2>1 DEF CountedFor
  <2>4. v.len \in Nat
    BY <2>2, <2>3
  <2>5. all \in Seq(T) /\ Len(all) = v.len + v.added
    <3> HIDE DEF T
    <3> QED BY <1>2, <2>1, <2>3, <2>4, AllLinesAre
  <2> DEFINE need == v.ybase + rows
             y == v.y
             base == v.ybase
             disp == v.ydisp
  <2>6. need \in Int /\ need <= Len(all) /\ need <= max /\ max \in Nat
    BY <1>1, <2>2, <2>3, <2>4, <2>5
  <2> HIDE DEF all, max, T
  <2>7. l \in Seq(T) /\ Len(l) <= max /\ need <= Len(l)
    <3> HIDE DEF need
    <3> QED BY <2>5, <2>6, NewestRoom
  <2> HIDE DEF l
  <2>8. /\ Settles(b, S, cols, rows, back) /\ rows \in Nat \ {0} /\ back \in Nat /\ l \in Seq(T)
        /\ Len(l) <= rows + back /\ y \in 0 .. rows - 1 /\ base \in Nat /\ disp \in 0 .. base /\ base + rows <= Len(l)
    BY <1>1, <2>3, <2>7
  <2> HIDE DEF y, base, disp, S
  <2>9. Settles(Viewing(b, l, y, base, disp), T, cols, rows, back)
    BY ONLY <2>8, ViewSettles
  <2>10. Settles(seen, T, cols, rows, back)
    BY <2>9 DEF y, base, disp
  <2> DEFINE sy == v.sy
  <2>11. sy \in Int
    BY <2>2
  <2> HIDE DEF seen, sy
  <2>12. Settles(Saving(seen, sy), T, cols, rows, back)
    BY <2>10, <2>11, SavingIs
  <2> QED BY <2>12 DEF sy
<1> HIDE DEF c
<1>8. [ok |-> v.ok, b |-> c].ok = v.ok /\ [ok |-> v.ok, b |-> c].b = c
  OBVIOUS
<1> QED BY <1>3, <1>7, <1>8 DEF T

----------------------------------------------------------------------------
(* Rows and columns *)

\* A line cut to the columns, if it is to be cut.
Narrowed(r, back, old, cols) == IF back > 0 /\ cols < old THEN SetCells(r, ResizeCells(r.cells, cols)) ELSE r
Narrows(S, T, back, old, cols) == \A r \in S : Narrowed(r, back, old, cols) \in T
CutLines(s, back, old, cols) == Listed([i \in DOMAIN s |-> Narrowed(s[i], back, old, cols)])

\* The lines cut.
LEMMA CutLinesAre ==
  ASSUME NEW S, NEW T, NEW s \in Seq(S), NEW back, NEW old, NEW cols, Narrows(S, T, back, old, cols)
  PROVE  CutLines(s, back, old, cols) \in Seq(T) /\ Len(CutLines(s, back, old, cols)) = Len(s)
<1> DEFINE n == Len(s)
           f == [i \in 1 .. n |-> Narrowed(s[i], back, old, cols)]
<1>1. n \in Nat /\ DOMAIN s = 1 .. n /\ \A i \in 1 .. n : s[i] \in S
  BY ItemsAre
<1>2. CutLines(s, back, old, cols) = Listed(f)
  BY <1>1 DEF CutLines
<1> HIDE DEF n
<1>3. f \in [1 .. n -> T]
  BY <1>1 DEF Narrows
<1> HIDE DEF f
<1>4. Listed(f) \in Seq(T) /\ Len(Listed(f)) = n
  BY <1>1, <1>3, ListedIs
<1> QED BY <1>2, <1>4 DEF n

\* A line widened, if it is to be.
Widen(r, old, cols) == IF old < cols THEN SetCells(r, ResizeCells(r.cells, cols)) ELSE r
Widens(S, T, old, cols) == \A r \in S : Widen(r, old, cols) \in T
WideLines(s, old, cols) == Listed([i \in DOMAIN s |-> Widen(s[i], old, cols)])

\* The lines widened.
LEMMA WideLinesAre ==
  ASSUME NEW S, NEW T, NEW s \in Seq(S), NEW old, NEW cols, Widens(S, T, old, cols)
  PROVE  WideLines(s, old, cols) \in Seq(T) /\ Len(WideLines(s, old, cols)) = Len(s)
<1> DEFINE n == Len(s)
           f == [i \in 1 .. n |-> Widen(s[i], old, cols)]
<1>1. n \in Nat /\ DOMAIN s = 1 .. n /\ \A i \in 1 .. n : s[i] \in S
  BY ItemsAre
<1>2. WideLines(s, old, cols) = Listed(f)
  BY <1>1 DEF WideLines
<1> HIDE DEF n
<1>3. f \in [1 .. n -> T]
  BY <1>1 DEF Widens
<1> HIDE DEF f
<1>4. Listed(f) \in Seq(T) /\ Len(Listed(f)) = n
  BY <1>1, <1>3, ListedIs
<1> QED BY <1>2, <1>4 DEF n

\* A line with as many cells as the columns.
LEMMA SizedLineIs ==
  ASSUME NEW r \in TextLine, NEW cols \in Nat, NEW exact \in BOOLEAN
  PROVE  LET c == SetCells(r, ResizeCells(r.cells, cols)) IN
         /\ c \in RowsOf(cols, exact, FALSE)
         /\ \A i \in 1 .. cols : c.cells[i] = IF i <= Len(r.cells) THEN r.cells[i] ELSE Blank(FALSE)
<1> DEFINE l == r.cells
           q == ResizeCells(l, cols)
           c == SetCells(r, q)
<1>1. l \in Seq(Cell)
  BY DEF TextLine
<1> HIDE DEF l
<1>2. q \in Seq(Cell) /\ Len(q) = cols /\ \A i \in 1 .. cols : q[i] = IF i <= Len(l) THEN l[i] ELSE Blank(FALSE)
  BY <1>1, ResizeCellsIs
<1> HIDE DEF q
<1>3. c \in TextLine /\ c.cells = q
  BY <1>2 DEF SetCells, TextLine
<1> HIDE DEF c
<1>4. c \in RowsOf(cols, exact, FALSE)
  BY <1>2, <1>3 DEF RowsOf
<1> QED BY <1>2, <1>3, <1>4 DEF c, q, l

\* At the end the lines are cut, the cursor stays on the list.
LEMMA SettledIs ==
  ASSUME NEW S, NEW T, NEW old, NEW cols, NEW rows \in Nat \ {0}, NEW back \in Nat, NEW ok, NEW b,
         Settles(b, S, cols, rows, back), Narrows(S, T, back, old, cols)
  PROVE  LET c == Settled([ok |-> ok, b |-> b], old, cols) IN
         c.ok = ok /\ Settles(c.b, T, cols, rows, back)
<1> DEFINE s == b.lines
           l == CutLines(s, back, old, cols)
           y == LeastOf(b.y, MostOf(0, Len(b.lines) - b.ybase - 1))
           base == b.ybase
           disp == b.ydisp
           d == Viewing(b, l, y, base, disp)
<1>1. /\ Framed(b, S, rows, back) /\ b.y \in 0 .. rows - 1
  BY DEF Settles
<1>2. /\ b \in BufRec(S) /\ b.back = back /\ s \in Seq(S) /\ 0 <= disp /\ disp <= base /\ base \in Int /\ disp \in Int
      /\ base + rows <= Len(s) /\ Len(s) <= rows + back
  BY <1>1 DEF Framed, BufRec
<1>3. l \in Seq(T) /\ Len(l) = Len(s)
  <2> HIDE DEF s
  <2> QED BY <1>2, CutLinesAre
<1>4. y \in 0 .. rows - 1
  <2>1. Len(b.lines) \in Nat
    BY <1>2, ItemsAre
  <2> DEFINE m == MostOf(0, Len(b.lines) - b.ybase - 1)
  <2>2. m \in Nat
    BY <1>2, <2>1 DEF MostOf
  <2>3. y = IF b.y < m THEN b.y ELSE m
    BY DEF LeastOf
  <2> HIDE DEF m, y
  <2> QED BY <1>1, <2>2, <2>3
<1>5. Settled([ok |-> ok, b |-> b], old, cols) = [ok |-> ok, b |-> d]
  <2> DEFINE v == [ok |-> ok, b |-> b]
             e == [v EXCEPT !.b.lines = l, !.b.y = y]
  <2>1. v.b = b
    OBVIOUS
  <2>2. Settled(v, old, cols)
        = [v EXCEPT !.b.lines = Listed([i \in DOMAIN @ |-> IF v.b.back > 0 /\ cols < old
                                                       THEN SetCells(@[i], ResizeCells(@[i].cells, cols)) ELSE @[i]]),
                    !.b.y = LeastOf(@, MostOf(0, Len(v.b.lines) - v.b.ybase - 1))]
    BY Zenon DEF Settled
  <2>3. Settled(v, old, cols) = e
    BY <1>2, <2>1, <2>2 DEF CutLines, Narrowed
  <2> HIDE DEF l, y
  <2> DEFINE b1 == [b EXCEPT !.lines = l]
             b2 == [b1 EXCEPT !.y = y]
             e1 == [v EXCEPT !.b.lines = l]
  <2>4. e = [ok |-> ok, b |-> [b EXCEPT !.lines = l, !.y = y]]
    <3>1. e1 = [ok |-> ok, b |-> b1]
      <4>1. e1 = [v EXCEPT !.b = b1]
        OBVIOUS
      <4> HIDE DEF b1
      <4> QED BY ONLY <4>1 DEF v, e1
    <3>2. e = [e1 EXCEPT !.b.y = y]
      OBVIOUS
    <3> HIDE DEF e1, e, b1
    <3>3. e1.b = b1
      BY <3>1
    <3>4. [e1 EXCEPT !.b.y = y] = [e1 EXCEPT !.b = b2]
      BY <3>3
    <3>5. b2 = [b EXCEPT !.lines = l, !.y = y]
      BY DEF b1
    <3> HIDE DEF b2
    <3>6. [e1 EXCEPT !.b = b2] = [ok |-> ok, b |-> b2]
      BY <3>1
    <3> QED BY <3>2, <3>4, <3>5, <3>6
  <2> HIDE DEF e1, b1, b2
  <2>5. [b EXCEPT !.lines = l, !.y = y] = [b EXCEPT !.lines = l, !.y = y, !.ybase = b.ybase, !.ydisp = b.ydisp]
    BY ONLY <1>2 DEF BufRec
  <2> HIDE DEF e
  <2> QED BY <2>3, <2>4, <2>5 DEF Viewing
<1>6. Settles(d, T, cols, rows, back)
  <2>1. /\ Settles(b, S, cols, rows, back) /\ l \in Seq(T) /\ Len(l) <= rows + back
        /\ y \in 0 .. rows - 1 /\ base \in Nat /\ disp \in 0 .. base /\ base + rows <= Len(l)
        /\ rows \in Nat \ {0} /\ back \in Nat
    BY <1>2, <1>3, <1>4
  <2> HIDE DEF l, y, base, disp
  <2> QED BY ONLY <2>1, ViewSettles
<1> HIDE DEF d
<1> QED BY <1>5, <1>6

----------------------------------------------------------------------------
(* Buffers *)

\* Lines that all have m cells have them where they are continued.
LEMMA ChainedAll ==
  ASSUME NEW S, NEW m, NEW l \in Seq(S), \A r \in S : Len(r.cells) = m
  PROVE  Chained(m, l)
<1>1. Len(l) \in Nat /\ \A i \in 1 .. Len(l) : l[i] \in S
  BY ItemsAre
<1> QED BY <1>1 DEF Chained

\* Before a resize: the list may be as long as before it and as after it.
Roomy(b, old, cols, rows) == [b EXCEPT !.max = MostOf(@, rows + b.back), !.lines = WideLines(b.lines, old, cols)]

\* What a buffer has got then.
LEMMA RoomyIs ==
  ASSUME NEW R, NEW S, NEW old, NEW cols, NEW oldRows \in Nat \ {0}, NEW rows \in Nat \ {0}, NEW back \in Nat,
         NEW b, Framed(b, R, oldRows, back), Widens(R, S, old, cols)
  PROVE  LET c == Roomy(b, old, cols, rows) IN
         /\ Sizing(c, S, MostOf(oldRows + back, rows + back), back) /\ c.down = 0
         /\ c.ybase + oldRows <= Len(c.lines) /\ Len(c.lines) <= oldRows + back
         /\ c.x = b.x /\ c.y = b.y /\ c.lines = WideLines(b.lines, old, cols)
<1> DEFINE max == MostOf(oldRows + back, rows + back)
           l == WideLines(b.lines, old, cols)
           c1 == [b EXCEPT !.max = max]
           c == [c1 EXCEPT !.lines = l]
<1>1. /\ b \in BufRec(R) /\ b.lines \in Seq(R) /\ Len(b.lines) \in Nat /\ b.ybase \in Nat /\ b.ydisp \in Nat
      /\ b.ydisp <= b.ybase /\ b.ybase + oldRows <= Len(b.lines) /\ Len(b.lines) <= b.max
  BY FrameIs
<1>2. b.back = back /\ b.max = oldRows + back /\ b.down = 0
  BY DEF Framed
<1>3. Roomy(b, old, cols, rows) = c
  BY <1>2 DEF Roomy
<1>4. l \in Seq(S) /\ Len(l) = Len(b.lines)
  <2> DEFINE s == b.lines
  <2>1. s \in Seq(R)
    BY <1>1
  <2> HIDE DEF s
  <2>2. WideLines(s, old, cols) \in Seq(S) /\ Len(WideLines(s, old, cols)) = Len(s)
    BY <2>1, WideLinesAre
  <2> QED BY <2>2 DEF s
<1>5. max \in Int /\ max >= oldRows + back
  BY DEF MostOf
<1> HIDE DEF max, l
<1>6. /\ c1 \in BufRec(R) /\ c1.max = max /\ c1.back = back /\ c1.down = 0 /\ c1.ybase = b.ybase
      /\ c1.ydisp = b.ydisp /\ c1.x = b.x /\ c1.y = b.y
  BY <1>1, <1>2, <1>5 DEF BufRec
<1> HIDE DEF c1
<1>7. /\ c \in BufRec(S) /\ c.max = max /\ c.back = back /\ c.down = 0 /\ c.ybase = b.ybase
      /\ c.ydisp = b.ydisp /\ c.x = b.x /\ c.y = b.y /\ c.lines = l
  BY <1>4, <1>6 DEF BufRec
<1> HIDE DEF c
<1>8. Len(l) <= oldRows + back /\ Len(l) <= max /\ b.ybase + oldRows <= Len(l)
  BY <1>1, <1>2, <1>4, <1>5
<1>9. Sizing(c, S, max, back)
  BY <1>1, <1>7, <1>8 DEF Sizing
<1> QED BY <1>3, <1>7, <1>8, <1>9 DEF max, l

\* The buffer with its rows and its list, before its columns.
Sized(b, old, oldRows, cols, rows) ==
  Clamped(ResizeList(ResizeRows(Roomy(b, old, cols, rows), oldRows, cols, rows), rows), cols, rows)

\* What it has got then.
LEMMA SizedSettles ==
  ASSUME NEW R, NEW S, NEW old, NEW cols \in Nat \ {0}, NEW oldRows \in Nat \ {0}, NEW rows \in Nat \ {0},
         NEW back \in Nat, NEW b, Framed(b, R, oldRows, back), OnScreen(b, old, oldRows), old \in Nat,
         Widens(R, S, old, cols), BlankLine(cols, FALSE) \in S
  PROVE  LET c == Sized(b, old, oldRows, cols, rows) IN
         /\ Settles(c, S, cols, rows, back)
         /\ \A m : Chained(m, WideLines(b.lines, old, cols)) => Chained(m, c.lines)
<1> DEFINE v == Roomy(b, old, cols, rows)
           c == Clamped(ResizeList(ResizeRows(v, oldRows, cols, rows), rows), cols, rows)
<1>1. /\ Sizing(v, S, MostOf(oldRows + back, rows + back), back) /\ v.down = 0
      /\ v.ybase + oldRows <= Len(v.lines) /\ Len(v.lines) <= oldRows + back
      /\ v.x = b.x /\ v.y = b.y /\ v.lines = WideLines(b.lines, old, cols)
  BY RoomyIs
<1>2. b.x >= 0 /\ b.y >= 0 /\ b.y < oldRows
  BY DEF OnScreen
<1> HIDE DEF v
<1>3. v.x >= 0 /\ v.y >= 0 /\ v.y < oldRows
  BY <1>1, <1>2
<1>4. ASSUME NEW m PROVE Settles(c, S, cols, rows, back) /\ (Chained(m, v.lines) => Chained(m, c.lines))
  <2>1. /\ cols \in Nat \ {0} /\ BlankLine(cols, FALSE) \in S /\ rows \in Nat \ {0} /\ oldRows \in Nat \ {0}
        /\ back \in Nat /\ Sizing(v, S, MostOf(oldRows + back, rows + back), back) /\ v.down = 0
        /\ v.ybase + oldRows <= Len(v.lines) /\ Len(v.lines) <= oldRows + back
        /\ v.x >= 0 /\ v.y >= 0 /\ v.y < oldRows
    BY <1>1, <1>3
  <2> QED BY ONLY <2>1, SizedIs
<1>5. Sized(b, old, oldRows, cols, rows) = c
  BY DEF Sized, v
<1> HIDE DEF c
<1> QED BY <1>1, <1>4, <1>5

----------------------------------------------------------------------------
(* Columns *)

\* More columns.
LEMMA LargerSettles ==
  ASSUME NEW old \in Nat, old >= 2, NEW cols \in Nat, old < cols, NEW rows \in Nat \ {0}, NEW back \in Nat \ {0},
         NEW b, Settles(b, Widened(old, cols), cols, rows, back)
  PROVE  LET c == Settled(Reflowed(b, old, cols, rows), old, cols) IN
         Settles(c.b, RowsOf(cols, TRUE, FALSE), cols, rows, back)
<1> DEFINE S == Widened(old, cols)
           T == RowsOf(cols, TRUE, FALSE)
           d == ReflowLarger(b, old, cols, rows)
           yes == TRUE
<1>1. b.back = back /\ b.lines \in Seq(S)
  BY DEF Settles, Framed, BufRec
<1>2. Chained(cols, b.lines)
  <2>1. \A r \in S : Len(r.cells) = cols
    BY WidenedIs
  <2> HIDE DEF S
  <2> QED BY <1>1, <2>1, ChainedAll
<1>3. Settles(d, T, cols, rows, back)
  <2>1. back \in Nat
    OBVIOUS
  <2> QED BY <1>2, <2>1, LargerIs
<1>4. Reflowed(b, old, cols, rows) = [ok |-> yes, b |-> d]
  BY <1>1 DEF Reflowed
<1>6. back \in Nat /\ ~ (cols < old)
  OBVIOUS
<1> HIDE DEF d, T, yes
<1>5. Narrows(T, T, back, old, cols)
  BY ONLY <1>6 DEF Narrowed, Narrows
<1>7. LET c == Settled([ok |-> yes, b |-> d], old, cols) IN Settles(c.b, T, cols, rows, back)
  BY <1>3, <1>5, <1>6, SettledIs
<1> QED BY <1>4, <1>7 DEF T

\* As many, or no history.
LEMMA SameSettles ==
  ASSUME NEW T, NEW old \in Nat, NEW cols \in Nat, NEW rows \in Nat \ {0}, NEW back \in Nat,
         back = 0 \/ old = cols, NEW b, Settles(b, T, cols, rows, back)
  PROVE  LET c == Settled(Reflowed(b, old, cols, rows), old, cols) IN
         Settles(c.b, T, cols, rows, back)
<1> DEFINE yes == TRUE
<1>1. b.back = back
  BY DEF Settles, Framed
<1>2. Reflowed(b, old, cols, rows) = [ok |-> yes, b |-> b]
  BY <1>1 DEF Reflowed
<1>3. Narrows(T, T, back, old, cols)
  BY DEF Narrowed, Narrows
<1> HIDE DEF yes
<1>4. LET c == Settled([ok |-> yes, b |-> b], old, cols) IN Settles(c.b, T, cols, rows, back)
  BY <1>3, SettledIs
<1> QED BY <1>2, <1>4

\* Fewer columns.
LEMMA SmallerSettles ==
  ASSUME NEW old \in Nat, NEW cols \in Nat, cols >= 2, cols < old, NEW rows \in Nat \ {0}, NEW back \in Nat \ {0},
         NEW b, Settles(b, RowsBefore(old, cols), cols, rows, back), Chained(old, b.lines)
  PROVE  LET c == Settled(Reflowed(b, old, cols, rows), old, cols) IN
         c.ok => Settles(c.b, RowsOf(cols, TRUE, FALSE), cols, rows, back)
<1> DEFINE S == RowsOf(cols, FALSE, FALSE)
           T == RowsOf(cols, TRUE, FALSE)
           f == ReflowSmaller(b, old, cols, rows)
           ok == f.ok
           d == f.b
<1>1. b.back = back
  BY DEF Settles, Framed
<1>2. ok => Settles(d, S, cols, rows, back)
  <2>1. cols <= old
    OBVIOUS
  <2> QED BY <2>1, SmallerIs
<1>3. Reflowed(b, old, cols, rows) = f
  BY <1>1 DEF Reflowed
<1>4. f = [ok |-> ok, b |-> d]
  <2>1. \E p, q : f = [ok |-> p, b |-> q]
    BY DEF ReflowSmaller, Inserted
  <2> HIDE DEF f
  <2> QED BY <2>1
<1>5. ASSUME NEW r \in S PROVE Narrowed(r, back, old, cols) \in T
  <2>1. Narrowed(r, back, old, cols) = SetCells(r, ResizeCells(r.cells, cols))
    BY DEF Narrowed
  <2>2. r \in TextLine
    BY DEF RowsOf
  <2> QED BY <2>1, <2>2, SizedLineIs
<1>6. back \in Nat /\ Narrows(S, T, back, old, cols)
  BY <1>5 DEF Narrows
<1> HIDE DEF f, ok, d, S, T
<1>7. ASSUME ok PROVE LET c == Settled([ok |-> ok, b |-> d], old, cols) IN Settles(c.b, T, cols, rows, back)
  BY <1>2, <1>6, <1>7, SettledIs
<1>8. Settled([ok |-> ok, b |-> d], old, cols).ok = ok
  BY DEF Settled
<1> QED BY <1>3, <1>4, <1>7, <1>8 DEF T

\* A buffer with lines is sized, reflowed and settled.
LEMMA ResizeUnfolds ==
  ASSUME NEW b, NEW old, NEW oldRows, NEW cols, NEW rows, b.lines # <<>>
  PROVE  ResizeBuffer(b, old, oldRows, cols, rows)
         = Settled(Reflowed(Sized(b, old, oldRows, cols, rows), old, cols, rows), old, cols)
<1> DEFINE room == [b EXCEPT !.max = MostOf(@, rows + b.back),
                             !.lines = Listed([i \in DOMAIN @ |-> IF old < cols THEN SetCells(@[i], ResizeCells(@[i].cells, cols))
                                                                  ELSE @[i]])]
           sized == ResizeList(ResizeRows(room, oldRows, cols, rows), rows)
<1>1. ResizeBuffer(b, old, oldRows, cols, rows)
      = IF b.lines = <<>> THEN [ok |-> TRUE, b |-> [b EXCEPT !.bot = rows - 1, !.max = rows + b.back]]
        ELSE Settled(Reflowed(Clamped(sized, cols, rows), old, cols, rows), old, cols)
  BY Zenon DEF ResizeBuffer
<1>2. room = Roomy(b, old, cols, rows)
  BY DEF Roomy, WideLines, Widen
<1> HIDE DEF room
<1>3. sized = ResizeList(ResizeRows(Roomy(b, old, cols, rows), oldRows, cols, rows), rows)
  BY <1>2
<1> HIDE DEF sized
<1> QED BY <1>1, <1>3 DEF Sized

\* A framed buffer that is given another size, if it does not panic.
LEMMA ResizeAwake ==
  ASSUME NEW old \in Nat, old >= 2, NEW cols \in Nat, cols >= 2, NEW oldRows \in Nat \ {0}, NEW rows \in Nat \ {0},
         NEW back \in Nat, NEW exact \in BOOLEAN, exact <=> back > 0,
         NEW b, Framed(b, RowsOf(old, exact, FALSE), oldRows, back), OnScreen(b, old, oldRows)
  PROVE  LET c == ResizeBuffer(b, old, oldRows, cols, rows) IN
         c.ok => Settles(c.b, RowsOf(cols, exact, FALSE), cols, rows, back)
<1> DEFINE R == RowsOf(old, exact, FALSE)
           T == RowsOf(cols, exact, FALSE)
           d == Sized(b, old, oldRows, cols, rows)
           c == Settled(Reflowed(d, old, cols, rows), old, cols)
<1>1. b.lines \in Seq(R) /\ Len(b.lines) >= oldRows
  <2> HIDE DEF R
  <2>1. b.lines \in Seq(R) /\ Len(b.lines) \in Nat /\ b.ybase \in Nat /\ b.ybase + oldRows <= Len(b.lines)
    BY FrameIs DEF R
  <2> QED BY <2>1
<1>2. b.lines # <<>>
  <2> HIDE DEF R
  <2>1. Len(<<>>) = 0
    OBVIOUS
  <2>2. Len(b.lines) # 0
    BY <1>1
  <2> QED BY <2>1, <2>2
<1>3. ResizeBuffer(b, old, oldRows, cols, rows) = c
  BY <1>2, ResizeUnfolds
<1>4. /\ cols \in Nat \ {0} /\ Framed(b, R, oldRows, back)
  <2>1. cols \in Nat \ {0}
    OBVIOUS
  <2>2. Framed(b, R, oldRows, back)
    OBVIOUS
  <2> QED BY <2>1, <2>2
<1>5. ASSUME NEW S, Widens(R, S, old, cols), BlankLine(cols, FALSE) \in S
      PROVE  /\ Settles(d, S, cols, rows, back)
             /\ \A m : Chained(m, WideLines(b.lines, old, cols)) => Chained(m, d.lines)
  <2>1. /\ cols \in Nat \ {0} /\ oldRows \in Nat \ {0} /\ rows \in Nat \ {0}
        /\ back \in Nat /\ Framed(b, R, oldRows, back) /\ OnScreen(b, old, oldRows) /\ old \in Nat
        /\ Widens(R, S, old, cols) /\ BlankLine(cols, FALSE) \in S
    BY <1>4, <1>5
  <2> HIDE DEF R
  <2> QED BY ONLY <2>1, SizedSettles
<1>6. CASE back > 0 /\ old < cols
  <2> DEFINE S == Widened(old, cols)
  <2>1. ASSUME NEW r \in R PROVE Widen(r, old, cols) \in S
    <3> DEFINE q == SetCells(r, ResizeCells(r.cells, cols))
               yes == TRUE
    <3>1. Widen(r, old, cols) = q
      BY <1>6 DEF Widen
    <3>2. r \in TextLine /\ r.cells \in Seq(Cell) /\ Len(r.cells) = old /\ yes \in BOOLEAN
      BY <1>6 DEF RowsOf, TextLine
    <3> HIDE DEF q, yes
    <3>3. q \in RowsOf(cols, yes, FALSE) /\ \A i \in 1 .. cols : q.cells[i] = IF i <= Len(r.cells) THEN r.cells[i] ELSE Blank(FALSE)
      BY <3>2, SizedLineIs DEF q
    <3>4. ASSUME NEW i \in old + 1 .. cols PROVE q.cells[i] = Blank(FALSE)
      <4>1. i \in 1 .. cols /\ ~ (i <= Len(r.cells))
        BY ONLY <3>2, old \in Nat, cols \in Nat, i \in old + 1 .. cols
      <4> QED BY ONLY <3>3, <4>1
    <3> QED BY <3>1, <3>3, <3>4 DEF Widened, yes
  <2>2. Widens(R, S, old, cols)
    BY <2>1 DEF Widens
  <2>3. BlankLine(cols, FALSE) \in S
    <3> DEFINE z == BlankLine(cols, FALSE)
               l == Blanks(cols, FALSE)
    <3>1. z \in RowsOf(cols, TRUE, FALSE) /\ z.cells = l
      BY BlankLineIs DEF BlankLine
    <3>2. \A i \in 1 .. cols : l[i] = Blank(FALSE)
      BY BlanksAre
    <3> HIDE DEF z, l
    <3>3. ASSUME NEW i \in old + 1 .. cols PROVE z.cells[i] = Blank(FALSE)
      <4>1. i \in 1 .. cols
        OBVIOUS
      <4> QED BY <3>1, <3>2, <4>1
    <3> QED BY <3>1, <3>3 DEF Widened, z
  <2>4. Settles(d, S, cols, rows, back)
    <3> HIDE DEF R, d, S
    <3> QED BY <1>5, <2>2, <2>3
  <2>5. back \in Nat \ {0} /\ T = RowsOf(cols, TRUE, FALSE)
    <3>1. back \in Nat \ {0} /\ exact = TRUE
      BY <1>6
    <3>2. T = RowsOf(cols, TRUE, FALSE)
      BY Zenon, <3>1
    <3> QED BY <3>1, <3>2
  <2> HIDE DEF d
  <2>6. Settles(c.b, RowsOf(cols, TRUE, FALSE), cols, rows, back)
    BY <1>6, <2>4, <2>5, LargerSettles
  <2> QED BY <1>3, <2>5, <2>6
<1>7. CASE back > 0 /\ cols < old
  <2> DEFINE S == RowsBefore(old, cols)
             l == WideLines(b.lines, old, cols)
  <2>0. R = RowsOf(old, TRUE, FALSE)
    BY <1>7
  <2>1. Widens(R, S, old, cols) /\ Widens(R, R, old, cols)
    <3>1. ~ (old < cols)
      BY <1>7
    <3> HIDE DEF R
    <3>2. R \subseteq S
      BY <2>0 DEF RowsBefore
    <3> HIDE DEF S
    <3> QED BY <3>1, <3>2 DEF Widens, Widen
  <2>2. BlankLine(cols, FALSE) \in S
    BY DEF RowsBefore
  <2>3. Chained(old, l)
    <3>1. \A r \in R : Len(r.cells) = old
      BY <2>0 DEF RowsOf
    <3> HIDE DEF R
    <3>2. l \in Seq(R)
      <4> DEFINE s == b.lines
      <4>1. s \in Seq(R)
        BY <1>1
      <4> HIDE DEF s
      <4>2. WideLines(s, old, cols) \in Seq(R)
        BY <2>1, <4>1, WideLinesAre
      <4> QED BY <4>2 DEF s
    <3> HIDE DEF l
    <3> QED BY <3>1, <3>2, ChainedAll
  <2>4. Settles(d, S, cols, rows, back) /\ Chained(old, d.lines)
    <3> HIDE DEF R, d, S
    <3> QED BY <1>5, <2>1, <2>2, <2>3
  <2>5. back \in Nat \ {0} /\ T = RowsOf(cols, TRUE, FALSE)
    <3>1. back \in Nat \ {0} /\ exact = TRUE
      BY <1>7
    <3>2. T = RowsOf(cols, TRUE, FALSE)
      BY Zenon, <3>1
    <3> QED BY <3>1, <3>2
  <2> HIDE DEF d
  <2>6. c.ok => Settles(c.b, RowsOf(cols, TRUE, FALSE), cols, rows, back)
    BY <1>7, <2>4, <2>5, SmallerSettles
  <2> QED BY <1>3, <2>5, <2>6
<1>8. CASE back = 0 \/ old = cols
  <2>1. ASSUME NEW r \in R PROVE Widen(r, old, cols) \in T
    <3>1. CASE old < cols
      <4> DEFINE q == SetCells(r, ResizeCells(r.cells, cols))
                 no == FALSE
      <4>1. Widen(r, old, cols) = q
        BY <3>1 DEF Widen
      <4>2. r \in TextLine /\ no \in BOOLEAN /\ exact = no
        BY <1>8, <3>1 DEF RowsOf, TextLine
      <4> HIDE DEF q, no
      <4>3. q \in RowsOf(cols, no, FALSE)
        BY <4>2, SizedLineIs DEF q
      <4> QED BY <4>1, <4>2, <4>3
    <3>2. CASE ~ (old < cols)
      <4>1. Widen(r, old, cols) = r
        BY <3>2 DEF Widen
      <4>2. r \in TextLine /\ r.cells \in Seq(Cell) /\ Len(r.cells) >= old /\ (exact => Len(r.cells) = old)
        BY DEF RowsOf, TextLine
      <4>3. Len(r.cells) >= cols /\ (exact => Len(r.cells) = cols)
        <5>1. Len(r.cells) \in Nat
          BY <4>2, CellsAre
        <5> QED BY <1>8, <3>2, <4>2, <5>1
      <4> QED BY <4>1, <4>2, <4>3 DEF RowsOf
    <3> QED BY <3>1, <3>2
  <2>2. Widens(R, T, old, cols)
    BY <2>1 DEF Widens
  <2>3. BlankLine(cols, FALSE) \in T
    BY BlankLineIs
  <2>4. Settles(d, T, cols, rows, back)
    <3> HIDE DEF R, d, T
    <3> QED BY <1>5, <2>2, <2>3
  <2> HIDE DEF d, T
  <2>6. Settles(c.b, T, cols, rows, back)
    BY <1>8, <2>4, SameSettles
  <2> QED BY <1>3, <2>6 DEF T
<1>9. (back > 0 /\ old < cols) \/ (back > 0 /\ cols < old) \/ back = 0 \/ old = cols
  OBVIOUS
<1> QED BY <1>6, <1>7, <1>8, <1>9
=============================================================================
