------------------------------ MODULE ListSpec ------------------------------
(***************************************************************************)
(* The behaviour of a BoundedList: every operation is one step.            *)
(***************************************************************************)
EXTENDS BoundedList

CONSTANTS Item, None, MaxLengths

VARIABLES items, max

Init == items = <<>> /\ max \in MaxLengths

Push == \E v \in Item : items' = ListPush(items, max, v) /\ UNCHANGED max

Recycle == Len(items) = max /\ items' = ListRecycle(items) /\ UNCHANGED max

Pop == items # <<>> /\ items' = Front(items) /\ UNCHANGED max

Delete ==
  \E start \in 0..Len(items), n \in 1..Len(items) :
    /\ start + n <= Len(items)
    /\ items' = ListSplice(items, max, start, n, <<>>) /\ UNCHANGED max

Insert ==
  \E start \in 0..Len(items), v \in Item :
    items' = ListSplice(items, max, start, 0, <<v>>) /\ UNCHANGED max

TrimStart == \E n \in 0..Len(items) : items' = ListTrim(items, n) /\ UNCHANGED max

Shift ==
  \E start \in 0..Len(items), count \in 1..Len(items), offset \in {-1, 1} :
    /\ start + offset >= 0 /\ start + count <= Len(items)
    /\ start + count + offset <= Len(items)
    /\ items' = ListShift(items, start, count, offset) /\ UNCHANGED max

SetMaxLength == \E m \in MaxLengths : max' = m /\ items' = ListAtMost(items, m)

SetLength ==
  /\ \/ \E n \in 0..Len(items) : items' = ListAtMost(items, n)
     \/ \E n \in 1..max : items' = items \o [i \in 1..(n - Len(items)) |-> None]
  /\ UNCHANGED max

Next ==
  \/ Push \/ Recycle \/ Pop \/ Delete \/ Insert \/ TrimStart \/ Shift
  \/ SetMaxLength \/ SetLength

Spec == Init /\ [][Next]_<<items, max>>
=============================================================================
