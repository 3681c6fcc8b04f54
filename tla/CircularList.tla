---------------------------- MODULE CircularList ----------------------------
(***************************************************************************)
(* The ring behind the terminal's lines, src/internal/xterm/               *)
(* circularlist.go: an array, where the list starts in it, and its length. *)
(* startIdx is advanced by Splice, TrimStart and ShiftElements without     *)
(* being brought back into the array, and by Push and Recycle with.        *)
(***************************************************************************)
EXTENDS BoundedList

CONSTANTS
  Item,       \* what the list holds
  None,       \* the zero value of a slot
  MaxLengths, \* the capacities the list may be given
  ListOps     \* bound on operations

ASSUME ListAssumption == MaxLengths \subseteq Nat \ {0} /\ ListOps \in Nat

VARIABLES
  array, startIdx, length, maxLen,
  calls       \* operations so far, at most ListOps

listVars == <<array, startIdx, length, maxLen, calls>>

ListTypes ==
  /\ maxLen \in MaxLengths /\ length \in 0..maxLen /\ startIdx \in Nat
  /\ array \in [0..(maxLen - 1) -> Item \cup {None}]
  /\ calls \in 0..ListOps

ListInit ==
  /\ maxLen \in MaxLengths /\ array = [i \in 0..(maxLen - 1) |-> None]
  /\ startIdx = 0 /\ length = 0 /\ calls = 0

----------------------------------------------------------------------------

Cyclic(i) == (startIdx + i) % maxLen
At(i) == array[Cyclic(i)]

\* array after f[i] has been written at each position i of f's domain.
Written(f) ==
  [k \in DOMAIN array |->
     IF \E i \in DOMAIN f : Cyclic(i) = k
       THEN f[CHOOSE i \in DOMAIN f : Cyclic(i) = k] ELSE array[k]]

\* A call is made; what it does not mention stays.
Begin == calls < ListOps /\ calls' = calls + 1

Push(v) ==
  /\ Begin
  /\ array' = [array EXCEPT ![Cyclic(length)] = v]
  /\ IF length = maxLen
       THEN startIdx' = (startIdx + 1) % maxLen /\ UNCHANGED length
       ELSE length' = length + 1 /\ UNCHANGED startIdx
  /\ UNCHANGED maxLen

\* It panics unless the list is full.
Recycle ==
  /\ Begin /\ length = maxLen
  /\ startIdx' = (startIdx + 1) % maxLen
  /\ UNCHANGED <<array, length, maxLen>>

Pop ==
  /\ Begin /\ length > 0
  /\ length' = length - 1
  /\ UNCHANGED <<array, startIdx, maxLen>>

SpliceDelete(start, n) ==
  /\ Begin /\ start + n <= length
  /\ array' = Written([i \in start..(length - n - 1) |-> At(i + n)])
  /\ length' = length - n
  /\ UNCHANGED <<startIdx, maxLen>>

\* Mutant of Shifted: the last item is not moved.
ShiftedShort(start) == [i \in (start + 1)..(length - 1) |-> At(i - 1)]

\* The items from start on move one place up, over the oldest of a full list,
\* which the list then gives up.
Shifted(start) == [i \in (start + 1)..length |-> At(i - 1)]

\* Nobody inserts at the front of a full list: there the loop would have
\* overwritten the item it moves next.
SpliceInsert(start, v) ==
  /\ Begin /\ start <= length /\ (length = maxLen => start > 0)
  /\ array' = LET up == Shifted(start)
              IN Written([i \in {start} \cup DOMAIN up |-> IF i = start THEN v ELSE up[i]])
  /\ IF length = maxLen
       THEN startIdx' = startIdx + 1 /\ UNCHANGED length
       ELSE length' = length + 1 /\ UNCHANGED startIdx
  /\ UNCHANGED maxLen

TrimStart(count) ==
  LET n == IF count > length THEN length ELSE count IN
  /\ Begin
  /\ startIdx' = startIdx + n /\ length' = length - n
  /\ UNCHANGED <<array, maxLen>>

\* One place up or down inside the list, as a scroll region moves.
ShiftElements(start, count, offset) ==
  /\ Begin
  /\ count > 0 /\ start < length /\ start + offset >= 0
  /\ start + count <= length /\ start + count + offset <= length
  /\ array' = Written([i \in (start + offset)..(start + count - 1 + offset) |-> At(i - offset)])
  /\ UNCHANGED <<startIdx, length, maxLen>>

SetMaxLength(m) ==
  /\ Begin /\ m # maxLen
  /\ array' = [i \in 0..(m - 1) |-> IF i < length /\ i < m THEN At(i) ELSE None]
  /\ maxLen' = m /\ startIdx' = 0
  /\ length' = IF length > m THEN m ELSE length

SetLength(n) ==
  /\ Begin /\ n <= maxLen
  /\ array' = Written([i \in length..(n - 1) |-> None])
  /\ length' = n
  /\ UNCHANGED <<startIdx, maxLen>>

ListNext ==
  \/ \E v \in Item : Push(v)
  \/ Recycle
  \/ Pop
  \/ \E start \in 0..length, n \in 1..length : SpliceDelete(start, n)
  \/ \E start \in 0..length, v \in Item : SpliceInsert(start, v)
  \/ \E n \in 0..(length + 1) : TrimStart(n)
  \/ \E start \in 0..length, count \in 0..length, offset \in {-1, 1} :
       ShiftElements(start, count, offset)
  \/ \E m \in MaxLengths : SetMaxLength(m)
  \/ \E n \in 0..maxLen : SetLength(n)

ListMoves == ListInit /\ [][ListNext]_listVars

----------------------------------------------------------------------------

Contents == [i \in 1..length |-> At(i - 1)]

List == INSTANCE ListSpec WITH items <- Contents, max <- maxLen

\* Whatever operations are made in whatever order, around the end of the array
\* or not, the ring holds what a list that trims its oldest items would hold.
RefinesList == List!Init /\ [][List!Next]_<<Contents, maxLen>>
=============================================================================
