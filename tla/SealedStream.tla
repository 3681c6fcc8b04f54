---------------------------- MODULE SealedStream ----------------------------
(***************************************************************************)
(* What the encrypted data plane promises its two users, whatever carries  *)
(* it: frames are numbered as they are sealed, and the other end accepts   *)
(* some of them, each at most once and in the order of their numbers.      *)
(* Frames may be lost; none is invented, repeated or taken out of order.   *)
(***************************************************************************)
EXTENDS Naturals, Sequences

VARIABLES
  next,   \* number of the next frame to be sealed
  got     \* numbers of the frames the other end accepted, in that order

svars == <<next, got>>

Init == next = 0 /\ got = <<>>

Seal == next' = next + 1 /\ UNCHANGED got

Accept ==
  \E k \in 0 .. next - 1 :
    /\ \A i \in DOMAIN got : got[i] < k
    /\ got' = Append(got, k)
    /\ UNCHANGED next

Next == Seal \/ Accept

Spec == Init /\ [][Next]_svars
=============================================================================
