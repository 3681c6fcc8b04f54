------------------------------- MODULE Chunks -------------------------------
(***************************************************************************)
(* How the daemon cuts what is too long for one message: a file, a history *)
(* or an HTTP body into pieces of a fixed size, a directory listing into   *)
(* runs of whole entries.  Pure functions, checked over all small inputs.  *)
(* Half-open ranges [from, to) count from 0, as Go's slices do.  input is  *)
(* one input of these functions, or None.                                  *)
(***************************************************************************)
EXTENDS Integers, Sequences, SequencesExt, FiniteSetsExt

CONSTANTS
  MaxLength,   \* bound: bytes of the data, entries of a listing
  MaxPiece     \* bound: size of a piece, of an entry and the budget

VARIABLE input

ASSUME ChunkBounds == MaxLength \in Nat /\ MaxPiece \in Nat \ {0}

\* Mutant: rounds down.
CountDown(n, c) == n \div c

\* Pieces of size c that n bytes take.
Count(n, c) == (n + c - 1) \div c

\* Piece i of n bytes.
Piece(i, n, c) == [from |-> i * c, to |-> Min({i * c + c, n})]

\* The payload of a file frame: what the configuration says if a frame of it
\* fits with its 9-byte header and the envelope, or else all that fits.
FileChunkSize(configured, frame, header, overhead) ==
  LET room == frame - header - overhead
  IN IF configured <= 0 \/ configured > room THEN room ELSE configured

\* One entry of sendDirList's packing loop.
NextSpan(acc, size, budget) ==
  IF acc.cost > 0 /\ acc.cost + size > budget
  THEN [spans |-> Append(acc.spans, [from |-> acc.from, to |-> acc.at]),
        from |-> acc.at, at |-> acc.at + 1, cost |-> size]
  ELSE [acc EXCEPT !.at = @ + 1, !.cost = @ + size]

\* What the loop has after so many entries of these marshaled sizes.
Packing(sizes, budget) ==
  LET acc[k \in 0 .. Len(sizes)] ==
        IF k = 0 THEN [spans |-> <<>>, from |-> 0, at |-> 0, cost |-> 0]
        ELSE NextSpan(acc[k - 1], sizes[k], budget)
  IN acc

\* The spans that it sends; the last may be empty.
Spans(sizes, budget) ==
  LET packed == Packing(sizes, budget)[Len(sizes)]
  IN Append(packed.spans, [from |-> packed.from, to |-> Len(sizes)])

\* The part of a span that lies in the directories, and in the files after them.
Dirs(span, ndirs) == [from |-> Min({span.from, ndirs}), to |-> Min({span.to, ndirs})]
Files(span, ndirs) == [from |-> Max({span.from - ndirs, 0}), to |-> Max({span.to - ndirs, 0})]

----------------------------------------------------------------------------

Lengths == 0 .. MaxLength
Pieces == 1 .. MaxPiece
Range0(r) == r.from .. r.to - 1

\* The size of the first entries, however many.
Upto(sizes) ==
  LET total[k \in 0 .. Len(sizes)] == IF k = 0 THEN 0 ELSE total[k - 1] + sizes[k] IN total

\* A text of n bytes for pieces of c, and a listing of ndirs directories and then
\* files, with the sizes of its entries and the budget of a chunk.
Inputs ==
  [kind : {"text"}, n : Lengths, c : Pieces]
    \cup UNION {[kind : {"list"}, sizes : [1 .. len -> Pieces], ndirs : 0 .. len, budget : Pieces] :
                  len \in Lengths}

\* Put together in order, the pieces are the data, none is empty or too long, and
\* none reaches past the end (daemon.go:1063-1079, proxy_manager.go:329-339).
PiecesCover ==
  input.kind = "text" =>
    LET piece(i) == Piece(i, input.n, input.c)
        last == Count(input.n, input.c) - 1
    IN /\ \A i \in 0 .. last : piece(i).from < piece(i).to /\ piece(i).to - piece(i).from <= input.c
       /\ \A i \in 1 .. last : piece(i).from = piece(i - 1).to
       /\ IF input.n = 0 THEN last = 0 - 1 ELSE piece(0).from = 0 /\ piece(last).to = input.n

\* The chunks of a listing hold every entry once, in order, and stay within the
\* budget of the encrypted message unless a single entry bursts it
\* (filetransfer.go:565-578).
SpansFit ==
  input.kind = "list" =>
    LET spans == Spans(input.sizes, input.budget)
        cost(r) == Upto(input.sizes)[r.to] - Upto(input.sizes)[r.from]
    IN /\ spans[1].from = 0 /\ spans[Len(spans)].to = Len(input.sizes)
       /\ \A k \in 2 .. Len(spans) : spans[k].from = spans[k - 1].to
       /\ \A k \in DOMAIN spans : cost(spans[k]) <= input.budget \/ spans[k].to = spans[k].from + 1

\* Where a chunk crosses from the directories to the files, or lies past them, its
\* two slices are in range and hold the span's entries (filetransfer.go:588-589).
SlicesInRange ==
  input.kind = "list" =>
    LET spans == Spans(input.sizes, input.budget)
    IN \A k \in DOMAIN spans :
         LET d == Dirs(spans[k], input.ndirs)
             f == Files(spans[k], input.ndirs)
         IN /\ 0 <= d.from /\ d.from <= d.to /\ d.to <= input.ndirs
            /\ 0 <= f.from /\ f.from <= f.to /\ f.to <= Len(input.sizes) - input.ndirs
            /\ Range0(spans[k]) = Range0(d) \cup {input.ndirs + e : e \in Range0(f)}

\* Nothing is lost, repeated or out of range where long messages are cut.
ChunksAreRight == PiecesCover /\ SpansFit /\ SlicesInRange
=============================================================================
