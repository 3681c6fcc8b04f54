---------------------------- MODULE BoundedList -----------------------------
(***************************************************************************)
(* What CircularList promises (src/internal/xterm/circularlist.go): a list *)
(* of at most max items that gives up its oldest ones when it is full.     *)
(* The operators are used by the screen as well; positions count from 0,   *)
(* as in the code.                                                         *)
(***************************************************************************)
EXTENDS Integers, Sequences, SequencesExt

\* A sequence given element by element, written out: TLC keeps a function
\* constructor as it is, and a sequence operator applied to it overlooks what
\* EXCEPT has changed in it meanwhile.
Listed(f) == f \o <<>>

\* The last n items of s: the others have been trimmed.
Newest(s, n) == IF Len(s) <= n THEN s ELSE SubSeq(s, Len(s) - n + 1, Len(s))

ListPush(s, max, v) == Newest(Append(s, v), max)

\* The oldest item becomes the newest; its owner rewrites it.
ListRecycle(s) == Append(Tail(s), Head(s))

ListSplice(s, max, start, n, new) ==
  Newest(SubSeq(s, 1, start) \o new \o SubSeq(s, start + n + 1, Len(s)), max)

ListTrim(s, n) == SubSeq(s, n + 1, Len(s))

\* count items from start on are copied offset places further; what they leave
\* keeps its value.
ListShift(s, start, count, offset) ==
  Listed([i \in DOMAIN s |->
    IF i - 1 - offset \in start..(start + count - 1) THEN s[i - offset] ELSE s[i]])

ListAtMost(s, n) == SubSeq(s, 1, IF Len(s) < n THEN Len(s) ELSE n)
=============================================================================
