--------------------------- MODULE TerminalProofs ---------------------------
(***************************************************************************)
(* The terminal emulator, for any size, history, texts, sequences and      *)
(* number of steps.  The ring holds what a list that trims its oldest      *)
(* items would hold; the screen keeps its cursor, its scroll region and    *)
(* its view in order, its history as it was and its wide characters whole. *)
(*                                                                         *)
(* A position of the ring may lie behind the end of the array: what        *)
(* matters is that as many positions in a row as the array has slots have  *)
(* all slots (SlotsApart), so that what is written at some of them is      *)
(* found there and nowhere else (WrittenAt).                               *)
(*                                                                         *)
(* Good(t, whole) is what every step of the screen keeps: the buffer that  *)
(* is shown is Framed and its cursor OnScreen, and, if whole is asked for, *)
(* every wide character has its second cell.                               *)
(***************************************************************************)
EXTENDS Terminal, BufferProofs

\* What an array slot holds; the ring within its array.
Slot == Item \cup {None}

Ring ==
  /\ maxLen \in MaxLengths /\ length \in 0 .. maxLen /\ startIdx \in Nat
  /\ array \in [0 .. maxLen - 1 -> Slot]

----------------------------------------------------------------------------
(* Remainders *)

\* The remainder is one of the slots, and the number is some rounds more.
LEMMA Rest ==
  ASSUME NEW m \in Nat \ {0}, NEW a \in Nat
  PROVE  a % m \in 0 .. m - 1 /\ \E q \in Nat : a = m * q + (a % m)
<1> DEFINE q == a \div m
<1>1. a % m \in 0 .. m - 1 /\ a = m * q + (a % m) /\ q \in Int
  OBVIOUS
<1> HIDE DEF q
<1>2. ASSUME q <= -1 PROVE FALSE
  <2>1. m * q <= -m
    BY <1>1, <1>2
  <2> QED BY <1>1, <2>1
<1>3. q \in Nat
  BY <1>1, <1>2
<1> QED BY <1>1, <1>3

\* Less than a round apart, numbers have different remainders.
LEMMA RestsApart ==
  ASSUME NEW m \in Nat \ {0}, NEW a \in Nat, NEW b \in Nat, a < b, b < a + m
  PROVE  a % m # b % m
<1> SUFFICES ASSUME a % m = b % m PROVE FALSE
  OBVIOUS
<1>1. PICK p \in Nat : a = m * p + (a % m)
  BY Rest
<1>2. PICK q \in Nat : b = m * q + (b % m)
  BY Rest
<1>3. a % m \in Nat
  BY Rest
<1>4. m * q > m * p /\ m * q < m * p + m
  BY <1>1, <1>2, <1>3
<1>5. q > p
  BY <1>4
<1>6. m * q >= m * (p + 1)
  BY <1>5
<1>7. m * (p + 1) = m * p + m
  OBVIOUS
<1> QED BY <1>4, <1>6, <1>7

\* A number below m is its own remainder.
LEMMA RestSmall ==
  ASSUME NEW m \in Nat \ {0}, NEW a \in 0 .. m - 1
  PROVE  a % m = a
OBVIOUS

\* What is less than m and some rounds away from a number is its remainder.
LEMMA RestIs ==
  ASSUME NEW m \in Nat \ {0}, NEW a \in Nat, NEW q \in Nat, NEW r \in 0 .. m - 1, a = m * q + r
  PROVE  a % m = r
<1>1. PICK p \in Nat : a = m * p + (a % m)
  BY Rest
<1>2. a % m \in 0 .. m - 1
  BY Rest
<1>3. CASE p > q
  <2>1. m * p >= m * q + m
    BY <1>3
  <2> QED BY <1>1, <1>2, <2>1
<1>4. CASE p < q
  <2>1. m * q >= m * p + m
    BY <1>4
  <2> QED BY <1>1, <1>2, <2>1
<1>5. CASE p = q
  BY <1>1, <1>2, <1>5
<1> QED BY <1>3, <1>4, <1>5

\* Rounds that are taken away do not change a remainder.
LEMMA RestOfSum ==
  ASSUME NEW m \in Nat \ {0}, NEW a \in Nat, NEW i \in Nat
  PROVE  ((a % m) + i) % m = (a + i) % m
<1>1. PICK r \in 0 .. m - 1 : r = a % m
  BY Rest
<1>2. PICK q \in Nat : a = m * q + r
  BY <1>1, Rest
<1>3. PICK b \in Nat : b = r + i
  OBVIOUS
<1>4. PICK t \in 0 .. m - 1 : t = b % m
  BY Rest
<1>5. PICK p \in Nat : b = m * p + t
  BY <1>4, Rest
<1>6. a + i = m * (q + p) + t
  <2>1. m * (q + p) = m * q + m * p
    OBVIOUS
  <2> QED BY <1>2, <1>3, <1>5, <2>1
<1>7. a + i \in Nat /\ q + p \in Nat
  OBVIOUS
<1>8. (a + i) % m = t
  BY <1>6, <1>7, RestIs
<1> QED BY <1>1, <1>3, <1>4, <1>8

----------------------------------------------------------------------------
(* The array *)

\* As many positions in a row as there are slots have slots of their own.
LEMMA SlotsApart ==
  ASSUME Ring, NEW i \in Nat
  PROVE  Cyclic(i) \in 0 .. maxLen - 1 /\ \A j \in Nat : i < j /\ j < i + maxLen => Cyclic(i) # Cyclic(j)
<1>1. maxLen \in Nat \ {0} /\ startIdx \in Nat
  BY ListAssumption DEF Ring
<1>2. startIdx + i \in Nat
  BY <1>1
<1>3. Cyclic(i) \in 0 .. maxLen - 1
  BY <1>1, <1>2, Rest DEF Cyclic
<1>4. ASSUME NEW j \in Nat, i < j, j < i + maxLen PROVE Cyclic(i) # Cyclic(j)
  <2>1. startIdx + j \in Nat /\ startIdx + i < startIdx + j /\ startIdx + j < startIdx + i + maxLen
    BY <1>1, <1>4
  <2> QED BY <1>1, <1>2, <2>1, RestsApart DEF Cyclic
<1> QED BY <1>3, <1>4

\* What is written at some positions of a round is found there, and nowhere else.
LEMMA WrittenAt ==
  ASSUME Ring, NEW w \in Nat, NEW D \in SUBSET (w .. w + maxLen - 1), NEW f \in [D -> Slot]
  PROVE  /\ Written(f) \in [0 .. maxLen - 1 -> Slot]
         /\ \A i \in D : Written(f)[Cyclic(i)] = f[i]
         /\ \A i \in (w .. w + maxLen - 1) \ D : Written(f)[Cyclic(i)] = At(i)
<1>1. maxLen \in Nat \ {0} /\ array \in [0 .. maxLen - 1 -> Slot] /\ DOMAIN f = D
  BY ListAssumption DEF Ring
<1>2. \A i \in w .. w + maxLen - 1 : Cyclic(i) \in 0 .. maxLen - 1
  BY <1>1, SlotsApart
<1>3. ASSUME NEW i \in w .. w + maxLen - 1, NEW j \in w .. w + maxLen - 1, i # j PROVE Cyclic(i) # Cyclic(j)
  <2>1. i \in Nat /\ j \in Nat /\ ((i < j /\ j < i + maxLen) \/ (j < i /\ i < j + maxLen))
    BY <1>1, <1>3
  <2> QED BY <1>1, <2>1, SlotsApart
<1> DEFINE at(k) == CHOOSE i \in D : Cyclic(i) = k
<1>4. Written(f) = [k \in 0 .. maxLen - 1 |-> IF \E i \in D : Cyclic(i) = k THEN f[at(k)] ELSE array[k]]
  BY <1>1 DEF Written
<1>5. \A k : (\E i \in D : Cyclic(i) = k) => at(k) \in D /\ Cyclic(at(k)) = k
  OBVIOUS
<1> HIDE DEF at
<1>6. Written(f) \in [0 .. maxLen - 1 -> Slot]
  BY <1>1, <1>4, <1>5
<1>7. ASSUME NEW i \in w .. w + maxLen - 1 PROVE Written(f)[Cyclic(i)] = IF i \in D THEN f[i] ELSE At(i)
  <2>1. CASE i \in D
    <3>1. at(Cyclic(i)) \in D /\ Cyclic(at(Cyclic(i))) = Cyclic(i)
      BY <1>5, <2>1
    <3>2. at(Cyclic(i)) = i
      BY <1>3, <3>1
    <3> QED BY <1>2, <1>4, <2>1, <3>2
  <2>2. CASE i \notin D
    <3>1. ~ \E j \in D : Cyclic(j) = Cyclic(i)
      BY <1>3, <2>2
    <3> QED BY <1>2, <1>4, <2>2, <3>1 DEF At
  <2> QED BY <2>1, <2>2
<1> QED BY <1>6, <1>7

\* The start moves n positions on, brought back into the array or not.
LEMMA Turned ==
  ASSUME Ring, UNCHANGED maxLen, NEW n \in Nat, startIdx' \in {startIdx + n, (startIdx + n) % maxLen}
  PROVE  startIdx' \in Nat /\ \A i \in Nat : Cyclic(i)' = Cyclic(n + i)
<1>1. maxLen \in Nat \ {0} /\ startIdx + n \in Nat /\ startIdx \in Nat
  BY ListAssumption DEF Ring
<1>2. CASE startIdx' = startIdx + n
  BY <1>1, <1>2 DEF Cyclic
<1>3. CASE startIdx' = (startIdx + n) % maxLen
  <2>1. startIdx' \in Nat
    BY <1>1, <1>3, Rest
  <2>2. ASSUME NEW i \in Nat PROVE Cyclic(i)' = Cyclic(n + i)
    <3>1. (startIdx' + i) % maxLen = (startIdx + n + i) % maxLen
      BY <1>1, <1>3, RestOfSum
    <3>2. startIdx + n + i = startIdx + (n + i)
      BY <1>1
    <3> QED BY <3>1, <3>2 DEF Cyclic
  <2> QED BY <2>1, <2>2
<1> QED BY <1>2, <1>3

----------------------------------------------------------------------------
(* The list the ring means *)

\* What Contents reads: the slots of the items, one after the other.
LEMMA ContentsRead ==
  ASSUME Ring
  PROVE  Contents \in Seq(Slot) /\ Len(Contents) = length /\ \A i \in 1 .. length : Contents[i] = At(i - 1) /\ At(i - 1) \in Slot
<1>1. length \in Nat /\ length <= maxLen /\ maxLen \in Nat \ {0} /\ array \in [0 .. maxLen - 1 -> Slot]
  BY ListAssumption DEF Ring
<1>2. ASSUME NEW i \in 1 .. length PROVE At(i - 1) \in Slot
  <2>1. i - 1 \in Nat
    BY <1>1
  <2>2. Cyclic(i - 1) \in 0 .. maxLen - 1
    BY <2>1, SlotsApart
  <2> QED BY <1>1, <2>2 DEF At
<1> QED BY <1>1, <1>2 DEF Contents

\* A list that agrees with the ring after a step is what the ring means then.
LEMMA ContentsAre ==
  ASSUME Ring', NEW t \in Seq(Slot), Len(t) = length', \A i \in 1 .. length' : t[i] = At(i - 1)'
  PROVE  Contents' = t
<1>1. Contents' = [i \in 1 .. length' |-> At(i - 1)'] /\ length' \in Nat
  BY ListAssumption DEF Contents, Ring
<1>2. t = [i \in 1 .. length' |-> t[i]]
  BY <1>1
<1> QED BY <1>1, <1>2

\* A list within its bound stays as it is.
LEMMA NewestAll ==
  ASSUME NEW s, NEW n, Len(s) <= n
  PROVE  Newest(s, n) = s
BY DEF Newest

\* One too long loses its first.
LEMMA NewestTrims ==
  ASSUME NEW S, NEW s \in Seq(S), NEW n \in Nat, Len(s) = n + 1
  PROVE  /\ Newest(s, n) \in Seq(S) /\ Len(Newest(s, n)) = n
         /\ \A i \in 1 .. n : Newest(s, n)[i] = s[i + 1]
<1>1. Newest(s, n) = SubSeq(s, 2, n + 1)
  BY DEF Newest
<1>2. \A i \in 2 .. n + 1 : s[i] \in S
  OBVIOUS
<1>3. /\ SubSeq(s, 2, n + 1) \in Seq(S) /\ Len(SubSeq(s, 2, n + 1)) = IF 2 <= n + 1 THEN n + 1 - 2 + 1 ELSE 0
      /\ \A i \in 1 .. n + 1 - 2 + 1 : SubSeq(s, 2, n + 1)[i] = s[2 + i - 1]
  BY <1>2, SubSeqProperties
<1> QED BY <1>1, <1>3

\* n items of a list from the m-th on, counted from 0.
LEMMA Cut ==
  ASSUME NEW S, NEW s \in Seq(S), NEW m \in Nat, NEW n \in Nat, m + n <= Len(s)
  PROVE  /\ SubSeq(s, m + 1, m + n) \in Seq(S) /\ Len(SubSeq(s, m + 1, m + n)) = n
         /\ \A i \in 1 .. n : SubSeq(s, m + 1, m + n)[i] = s[m + i]
<1>1. \A i \in m + 1 .. m + n : s[i] \in S
  OBVIOUS
<1>2. m + 1 \in Int /\ m + n \in Int
  OBVIOUS
<1>3. /\ SubSeq(s, m + 1, m + n) \in Seq(S)
      /\ Len(SubSeq(s, m + 1, m + n)) = IF m + 1 <= m + n THEN (m + n) - (m + 1) + 1 ELSE 0
      /\ \A i \in 1 .. (m + n) - (m + 1) + 1 : SubSeq(s, m + 1, m + n)[i] = s[(m + 1) + i - 1]
  BY <1>1, <1>2, SubSeqProperties
<1>4. (IF m + 1 <= m + n THEN (m + n) - (m + 1) + 1 ELSE 0) = n /\ (m + n) - (m + 1) + 1 = n
  OBVIOUS
<1>5. \A i \in 1 .. n : (m + 1) + i - 1 = m + i
  OBVIOUS
<1> QED BY <1>3, <1>4, <1>5

\* n items from start on replaced by others.
Replaced(s, start, n, new) == SubSeq(s, 1, start) \o new \o SubSeq(s, start + n + 1, Len(s))

\* t has the items of s up to start, then the new ones, then those of s behind the n.
SplicedOf(t, s, start, n, new) ==
  /\ Len(t) = Len(s) - n + Len(new)
  /\ \A i \in 1 .. Len(s) - n + Len(new) :
       t[i] = IF i <= start THEN s[i] ELSE IF i <= start + Len(new) THEN new[i - start] ELSE s[i - Len(new) + n]

\* What Replaced returns, told place by place.
LEMMA Spliced ==
  ASSUME NEW S, NEW s \in Seq(S), NEW new \in Seq(S), NEW start \in Nat, NEW n \in Nat, start + n <= Len(s)
  PROVE  Replaced(s, start, n, new) \in Seq(S) /\ SplicedOf(Replaced(s, start, n, new), s, start, n, new)
<1>0. PICK L \in Nat, K \in Nat : L = Len(s) /\ K = Len(new) /\ start + n <= L
  OBVIOUS
<1>1. PICK a : a = SubSeq(s, 1, start)
  OBVIOUS
<1>2. a \in Seq(S) /\ Len(a) = start /\ \A i \in 1 .. start : a[i] = s[i]
  <2>1. /\ SubSeq(s, 0 + 1, 0 + start) \in Seq(S) /\ Len(SubSeq(s, 0 + 1, 0 + start)) = start
        /\ \A i \in 1 .. start : SubSeq(s, 0 + 1, 0 + start)[i] = s[0 + i]
    <3>1. 0 + start <= Len(s)
      BY <1>0
    <3> QED BY <3>1, Cut
  <2>2. 0 + 1 = 1 /\ 0 + start = start /\ \A i \in 1 .. start : 0 + i = i
    OBVIOUS
  <2> QED BY <1>1, <2>1, <2>2
<1>3. PICK m \in Nat : m = L - start - n
  <2>1. L - start - n \in Nat
    BY <1>0
  <2> QED BY <2>1
<1>4. PICK b : b = SubSeq(s, start + n + 1, L)
  OBVIOUS
<1>5. b \in Seq(S) /\ Len(b) = m /\ \A i \in 1 .. m : b[i] = s[start + n + i]
  <2>1. PICK k \in Nat : k = start + n
    OBVIOUS
  <2>2. k + m = L
    BY <1>3, <2>1
  <2>3. SubSeq(s, k + 1, k + m) \in Seq(S) /\ Len(SubSeq(s, k + 1, k + m)) = m /\ \A i \in 1 .. m : SubSeq(s, k + 1, k + m)[i] = s[k + i]
    BY <1>0, <2>2, Cut
  <2> QED BY <1>4, <2>1, <2>2, <2>3
<1>6. PICK p \in Nat : p = start + K
  OBVIOUS
<1>7. PICK an : an = a \o new
  OBVIOUS
<1>8. an \in Seq(S) /\ Len(an) = p /\ \A i \in 1 .. p : an[i] = IF i <= start THEN a[i] ELSE new[i - start]
  <2>1. /\ an \in Seq(S) /\ Len(an) = Len(a) + Len(new)
        /\ \A i \in 1 .. Len(a) + Len(new) : an[i] = IF i <= Len(a) THEN a[i] ELSE new[i - Len(a)]
    BY <1>2, <1>7, ConcatProperties
  <2> QED BY <1>0, <1>2, <1>6, <2>1
<1>9. PICK t : t = an \o b
  OBVIOUS
<1>10. t \in Seq(S) /\ Len(t) = p + m /\ \A i \in 1 .. p + m : t[i] = IF i <= p THEN an[i] ELSE b[i - p]
  <2>1. an \in Seq(S) /\ b \in Seq(S)
    BY <1>5, <1>8
  <2>2. /\ t \in Seq(S) /\ Len(t) = Len(an) + Len(b)
        /\ \A i \in 1 .. Len(an) + Len(b) : t[i] = IF i <= Len(an) THEN an[i] ELSE b[i - Len(an)]
    BY <1>9, <2>1, ConcatProperties
  <2>3. Len(an) = p /\ Len(b) = m
    BY <1>5, <1>8
  <2> QED BY <2>2, <2>3
<1>11. p + m = L - n + K
  BY <1>3, <1>6
<1>12. ASSUME NEW i \in 1 .. L - n + K
      PROVE  t[i] = IF i <= start THEN s[i] ELSE IF i <= start + K THEN new[i - start] ELSE s[i - K + n]
  <2>0. i \in 1 .. p + m
    BY <1>11
  <2>1. CASE i <= start
    <3>1. i \in 1 .. start /\ i \in 1 .. p /\ i <= p
      BY <1>6, <2>1
    <3>2. t[i] = s[i]
      BY <1>2, <1>8, <1>10, <2>0, <2>1, <3>1
    <3> QED BY <2>1, <3>2
  <2>2. CASE ~ (i <= start) /\ i <= start + K
    <3>1. i \in 1 .. p /\ i <= p
      BY <1>6, <2>2
    <3>2. t[i] = new[i - start]
      BY <1>8, <1>10, <2>0, <2>2, <3>1
    <3> QED BY <2>2, <3>2
  <2>3. CASE ~ (i <= start) /\ ~ (i <= start + K)
    <3>1. i - p \in 1 .. m /\ start + n + (i - p) = i - K + n /\ ~ (i <= p)
      BY <1>3, <1>6, <1>11, <2>0, <2>3
    <3>2. b[i - p] = s[i - K + n]
      BY <1>5, <3>1
    <3>3. t[i] = s[i - K + n]
      BY <1>10, <2>0, <3>1, <3>2
    <3> QED BY <2>3, <3>3
  <2> QED BY <2>1, <2>2, <2>3
<1>13. Replaced(s, start, n, new) = t
  BY <1>0, <1>1, <1>4, <1>7, <1>9 DEF Replaced
<1> QED BY <1>0, <1>10, <1>11, <1>12, <1>13 DEF SplicedOf

----------------------------------------------------------------------------
(* The operations *)

\* A push puts the item behind the last one, in the slot of the oldest if the list is full.
LEMMA PushKeeps ==
  ASSUME Ring, NEW v \in Item, Push(v)
  PROVE  Ring' /\ Contents' = ListPush(Contents, maxLen, v)
<1>1. /\ array' = [array EXCEPT ![Cyclic(length)] = v] /\ maxLen' = maxLen
      /\ IF length = maxLen THEN startIdx' = (startIdx + 1) % maxLen /\ length' = length ELSE length' = length + 1 /\ startIdx' = startIdx
  BY DEF Push
<1>2. /\ maxLen \in Nat \ {0} /\ maxLen \in MaxLengths /\ length \in 0 .. maxLen /\ startIdx \in Nat
      /\ array \in [0 .. maxLen - 1 -> Slot] /\ v \in Slot
  BY ListAssumption DEF Ring, Slot
<1>3. array' \in [0 .. maxLen - 1 -> Slot]
  BY <1>1, <1>2
<1>4. array'[Cyclic(length)] = v
  <2>1. Cyclic(length) \in 0 .. maxLen - 1
    BY <1>2, SlotsApart
  <2> QED BY <1>1, <1>2, <2>1
<1>5. \A i \in Nat : Cyclic(i) # Cyclic(length) => array'[Cyclic(i)] = At(i)
  <2>1. \A i \in Nat : Cyclic(i) \in 0 .. maxLen - 1
    BY SlotsApart
  <2> QED BY <1>1, <1>2, <2>1 DEF At
<1>6. PICK t : t = Append(Contents, v)
  OBVIOUS
<1>7. t \in Seq(Slot) /\ Len(t) = length + 1 /\ t[length + 1] = v /\ \A i \in 1 .. length : t[i] = At(i - 1)
  BY <1>2, <1>6, ContentsRead
<1>8. CASE length # maxLen
  <2>1. startIdx' = startIdx /\ length' = length + 1 /\ length + 1 <= maxLen
    BY <1>1, <1>2, <1>8
  <2>2. Ring'
    BY <1>1, <1>2, <1>3, <2>1 DEF Ring
  <2>3. \A i : Cyclic(i)' = Cyclic(i)
    BY <1>1, <2>1 DEF Cyclic
  <2>4. ASSUME NEW i \in 1 .. length' PROVE t[i] = At(i - 1)'
    <3>1. At(i - 1)' = array'[Cyclic(i - 1)]
      BY <2>3 DEF At
    <3>2. CASE i = length + 1
      BY <1>2, <1>4, <1>7, <3>1, <3>2
    <3>3. CASE i # length + 1
      <4>1. i \in 1 .. length /\ i - 1 \in Nat /\ i - 1 < length /\ length < i - 1 + maxLen
        BY <1>2, <2>1, <3>3
      <4>2. Cyclic(i - 1) # Cyclic(length)
        BY <1>2, <4>1, SlotsApart
      <4> QED BY <1>5, <1>7, <3>1, <4>1, <4>2
    <3> QED BY <3>2, <3>3
  <2>5. Contents' = t
    BY <1>7, <2>1, <2>2, <2>4, ContentsAre
  <2>6. Newest(t, maxLen) = t
    BY <1>7, <2>1, NewestAll
  <2> QED BY <1>6, <2>2, <2>5, <2>6 DEF ListPush
<1>9. CASE length = maxLen
  <2>1. startIdx' = (startIdx + 1) % maxLen /\ length' = maxLen
    BY <1>1, <1>9
  <2>2. startIdx' \in Nat /\ \A i \in Nat : Cyclic(i)' = Cyclic(1 + i)
    BY <1>1, <2>1, Turned
  <2>3. Ring'
    BY <1>1, <1>2, <1>3, <2>1, <2>2 DEF Ring
  <2>4. PICK n : n = Newest(t, maxLen)
    OBVIOUS
  <2>5. n \in Seq(Slot) /\ Len(n) = maxLen /\ \A i \in 1 .. maxLen : n[i] = t[i + 1]
    BY <1>2, <1>7, <1>9, <2>4, NewestTrims
  <2>6. ASSUME NEW i \in 1 .. length' PROVE n[i] = At(i - 1)'
    <3>1. i \in 1 .. maxLen /\ i - 1 \in Nat /\ 1 + (i - 1) = i /\ i \in Nat
      BY <2>1, <1>2
    <3>2. At(i - 1)' = array'[Cyclic(i)]
      BY <2>2, <3>1 DEF At
    <3>3. CASE i = maxLen
      BY <1>4, <1>7, <1>9, <2>5, <3>1, <3>2, <3>3
    <3>4. CASE i # maxLen
      <4>1. i < maxLen /\ maxLen < i + maxLen /\ i + 1 \in 1 .. maxLen /\ (i + 1) - 1 = i
        BY <1>2, <3>1, <3>4
      <4>2. Cyclic(i) # Cyclic(maxLen)
        BY <1>2, <3>1, <4>1, SlotsApart
      <4>3. t[i + 1] = At(i)
        BY <1>7, <1>9, <4>1
      <4> QED BY <1>5, <1>9, <2>5, <3>1, <3>2, <4>2, <4>3
    <3> QED BY <3>3, <3>4
  <2>7. Contents' = n
    BY <2>1, <2>3, <2>5, <2>6, ContentsAre
  <2> QED BY <1>6, <2>3, <2>4, <2>7 DEF ListPush
<1> QED BY <1>8, <1>9

\* A full list that turns by one has its oldest item last.
LEMMA RecycleKeeps ==
  ASSUME Ring, Recycle
  PROVE  Ring' /\ Len(Contents) = maxLen /\ Contents' = ListRecycle(Contents)
<1>1. length = maxLen /\ startIdx' = (startIdx + 1) % maxLen /\ UNCHANGED <<array, length, maxLen>>
  BY DEF Recycle
<1>2. maxLen \in Nat \ {0} /\ startIdx \in Nat
  BY ListAssumption DEF Ring
<1>3. startIdx' \in Nat /\ \A i \in Nat : Cyclic(i)' = Cyclic(1 + i)
  BY <1>1, Turned
<1>4. Ring'
  BY <1>1, <1>3 DEF Ring
<1>5. PICK s \in Seq(Slot) : s = Contents /\ Len(s) = maxLen /\ \A i \in 1 .. maxLen : s[i] = At(i - 1)
  BY <1>1, ContentsRead
<1>6. s # <<>> /\ Head(s) = s[1] /\ Head(s) \in Slot /\ Tail(s) \in Seq(Slot) /\ Len(Tail(s)) = maxLen - 1
      /\ \A i \in 1 .. maxLen - 1 : Tail(s)[i] = s[i + 1]
  BY <1>2, <1>5, HeadTailProperties
<1>7. PICK t : t = Append(Tail(s), Head(s))
  OBVIOUS
<1>8. t \in Seq(Slot) /\ Len(t) = maxLen /\ t[maxLen] = s[1] /\ \A i \in 1 .. maxLen - 1 : t[i] = s[i + 1]
  <2>1. PICK h \in Slot, r \in Seq(Slot) : h = Head(s) /\ r = Tail(s)
    BY <1>6
  <2>2. Len(r) = maxLen - 1 /\ \A i \in 1 .. maxLen - 1 : r[i] = s[i + 1]
    BY <1>6, <2>1
  <2>3. t = Append(r, h)
    BY <1>7, <2>1
  <2>4. t \in Seq(Slot) /\ Len(t) = Len(r) + 1 /\ (\A i \in 1 .. Len(r) : t[i] = r[i]) /\ t[Len(r) + 1] = h
    BY <2>3, AppendProperties
  <2> QED BY <1>2, <1>6, <2>1, <2>2, <2>4
<1>9. ASSUME NEW i \in 1 .. length' PROVE t[i] = At(i - 1)'
  <2>1. i \in 1 .. maxLen /\ i - 1 \in Nat /\ 1 + (i - 1) = i
    BY <1>1, <1>2
  <2>2. At(i - 1)' = At(i)
    BY <1>1, <1>3, <2>1 DEF At
  <2>3. CASE i = maxLen
    <3>1. Cyclic(maxLen) = Cyclic(0)
      <4>1. (startIdx + maxLen) % maxLen = startIdx % maxLen
        <5>1. PICK q \in Nat : startIdx = maxLen * q + (startIdx % maxLen)
          BY <1>2, Rest
        <5>2. PICK r \in 0 .. maxLen - 1 : r = startIdx % maxLen
          BY <1>2, Rest
        <5>3. startIdx + maxLen = maxLen * (q + 1) + r /\ startIdx + maxLen \in Nat /\ q + 1 \in Nat
          BY <1>2, <5>1, <5>2
        <5> QED BY <1>2, <5>2, <5>3, RestIs
      <4> QED BY <1>2, <4>1 DEF Cyclic
    <3>2. s[1] = At(0)
      BY <1>2, <1>5
    <3> QED BY <1>8, <2>2, <2>3, <3>1, <3>2 DEF At
  <2>4. CASE i # maxLen
    <3>1. i \in 1 .. maxLen - 1 /\ i + 1 \in 1 .. maxLen /\ (i + 1) - 1 = i
      BY <1>2, <2>1, <2>4
    <3> QED BY <1>5, <1>8, <2>2, <3>1
  <2> QED BY <2>3, <2>4
<1>10. Contents' = t
  BY <1>1, <1>4, <1>8, <1>9, ContentsAre
<1> QED BY <1>4, <1>5, <1>7, <1>10 DEF ListRecycle

\* A pop forgets the last item.
LEMMA PopKeeps ==
  ASSUME Ring, Pop
  PROVE  Ring' /\ Contents # <<>> /\ Contents' = Front(Contents)
<1>1. length > 0 /\ length' = length - 1 /\ UNCHANGED <<array, startIdx, maxLen>>
  BY DEF Pop
<1>2. maxLen \in Nat \ {0} /\ length \in 0 .. maxLen
  BY ListAssumption DEF Ring
<1>3. Ring'
  BY <1>1, <1>2 DEF Ring
<1>4. PICK s \in Seq(Slot) : s = Contents /\ Len(s) = length /\ \A i \in 1 .. length : s[i] = At(i - 1)
  BY ContentsRead
<1>5. PICK n \in Nat : n = length - 1
  BY <1>1, <1>2
<1>6. PICK t : t = SubSeq(s, 1, n)
  OBVIOUS
<1>7. t \in Seq(Slot) /\ Len(t) = n /\ \A i \in 1 .. n : t[i] = s[i]
  <2>1. /\ SubSeq(s, 0 + 1, 0 + n) \in Seq(Slot) /\ Len(SubSeq(s, 0 + 1, 0 + n)) = n
        /\ \A i \in 1 .. n : SubSeq(s, 0 + 1, 0 + n)[i] = s[0 + i]
    <3>1. 0 + n <= Len(s)
      BY <1>2, <1>4, <1>5
    <3> QED BY <3>1, Cut
  <2>2. 0 + 1 = 1 /\ 0 + n = n /\ \A i \in 1 .. n : 0 + i = i
    OBVIOUS
  <2> QED BY <1>6, <2>1, <2>2
<1>8. \A i \in 1 .. length' : t[i] = At(i - 1)'
  BY <1>1, <1>2, <1>4, <1>5, <1>7 DEF At, Cyclic
<1>9. Contents' = t
  BY <1>1, <1>3, <1>5, <1>7, <1>8, ContentsAre
<1>10. s # <<>> /\ t = Front(s)
  BY <1>1, <1>4, <1>5, <1>6 DEF Front
<1> QED BY <1>3, <1>4, <1>9, <1>10

\* A trim forgets the oldest items, at most all.
LEMMA TrimKeeps ==
  ASSUME Ring, NEW count \in Nat, TrimStart(count)
  PROVE  Ring' /\ \E n \in 0 .. Len(Contents) : Contents' = ListTrim(Contents, n)
<1>1. PICK n \in 0 .. length : startIdx' = startIdx + n /\ length' = length - n /\ UNCHANGED <<array, maxLen>>
  BY ListAssumption DEF Ring, TrimStart
<1>2. maxLen \in Nat \ {0} /\ length \in 0 .. maxLen /\ n \in Nat
  BY ListAssumption DEF Ring
<1>3. startIdx' \in Nat /\ \A i \in Nat : Cyclic(i)' = Cyclic(n + i)
  BY <1>1, <1>2, Turned
<1>4. length' \in 0 .. maxLen'
  BY <1>1, <1>2
<1>5. Ring'
  BY <1>1, <1>3, <1>4 DEF Ring
<1>6. PICK s \in Seq(Slot) : s = Contents /\ Len(s) = length /\ \A i \in 1 .. length : s[i] = At(i - 1)
  BY ContentsRead
<1>7. PICK k \in Nat : k = length - n /\ n + k = length
  BY <1>2
<1>8. PICK t : t = SubSeq(s, n + 1, length)
  OBVIOUS
<1>9. t \in Seq(Slot) /\ Len(t) = k /\ \A i \in 1 .. k : t[i] = s[n + i]
  <2>1. /\ SubSeq(s, n + 1, n + k) \in Seq(Slot) /\ Len(SubSeq(s, n + 1, n + k)) = k
        /\ \A i \in 1 .. k : SubSeq(s, n + 1, n + k)[i] = s[n + i]
    <3>1. n + k <= Len(s)
      BY <1>2, <1>6, <1>7
    <3> QED BY <1>2, <3>1, Cut
  <2> QED BY <1>7, <1>8, <2>1
<1>10. ASSUME NEW i \in 1 .. length' PROVE t[i] = At(i - 1)'
  <2>1. i \in 1 .. k /\ n + i \in 1 .. length /\ i - 1 \in Nat /\ n + (i - 1) = (n + i) - 1
    BY <1>1, <1>2, <1>7
  <2>2. At(i - 1)' = At(n + (i - 1))
    BY <1>1, <1>3, <2>1 DEF At
  <2> QED BY <1>6, <1>9, <2>1, <2>2
<1>11. Contents' = t
  BY <1>1, <1>5, <1>7, <1>9, <1>10, ContentsAre
<1>12. t = ListTrim(Contents, n)
  BY <1>6, <1>8 DEF ListTrim
<1> QED BY <1>5, <1>6, <1>11, <1>12

\* A new capacity keeps the oldest items that fit.
LEMMA SetMaxKeeps ==
  ASSUME Ring, NEW m \in MaxLengths, SetMaxLength(m)
  PROVE  Ring' /\ maxLen' = m /\ Contents' = ListAtMost(Contents, m)
<1>1. /\ array' = [i \in 0 .. (m - 1) |-> IF i < length /\ i < m THEN At(i) ELSE None]
      /\ maxLen' = m /\ startIdx' = 0 /\ length' = IF length > m THEN m ELSE length
  BY DEF SetMaxLength
<1>2. maxLen \in Nat \ {0} /\ length \in 0 .. maxLen /\ m \in Nat \ {0} /\ startIdx \in Nat
  BY ListAssumption DEF Ring
<1>3. PICK s \in Seq(Slot) : s = Contents /\ Len(s) = length /\ \A i \in 1 .. length : s[i] = At(i - 1) /\ At(i - 1) \in Slot
  BY ContentsRead
<1>4. \A i \in 0 .. m - 1 : i < length => At(i) \in Slot
  <2> SUFFICES ASSUME NEW i \in 0 .. m - 1, i < length PROVE At(i) \in Slot
    OBVIOUS
  <2>1. i + 1 \in 1 .. length /\ (i + 1) - 1 = i
    BY <1>2
  <2> QED BY <1>3, <2>1
<1>5. Ring'
  <2>1. array' \in [0 .. m - 1 -> Slot]
    BY <1>1, <1>4 DEF Slot
  <2>2. length' \in 0 .. m
    BY <1>1, <1>2
  <2> QED BY <1>1, <2>1, <2>2 DEF Ring
<1>6. PICK k \in 0 .. length : k = length' /\ k <= m
  BY <1>1, <1>2
<1>7. k \in Nat /\ k <= length
  BY <1>2
<1>8. PICK t : t = SubSeq(s, 1, k)
  OBVIOUS
<1>9. t \in Seq(Slot) /\ Len(t) = k /\ \A i \in 1 .. k : t[i] = s[i]
  <2>1. /\ SubSeq(s, 0 + 1, 0 + k) \in Seq(Slot) /\ Len(SubSeq(s, 0 + 1, 0 + k)) = k
        /\ \A i \in 1 .. k : SubSeq(s, 0 + 1, 0 + k)[i] = s[0 + i]
    <3>1. 0 + k <= Len(s)
      BY <1>3, <1>7
    <3> QED BY <1>7, <3>1, Cut
  <2>2. 0 + 1 = 1 /\ 0 + k = k /\ \A i \in 1 .. k : 0 + i = i
    BY <1>7
  <2> QED BY <1>8, <2>1, <2>2
<1>10. ASSUME NEW i \in 1 .. length' PROVE t[i] = At(i - 1)'
  <2>1. i \in 1 .. k /\ i \in 1 .. length /\ i - 1 \in 0 .. m - 1 /\ i - 1 < length /\ i - 1 < m /\ 0 + (i - 1) = i - 1
    BY <1>2, <1>6, <1>7
  <2>2. Cyclic(i - 1)' = i - 1
    BY <1>1, <1>2, <2>1, RestSmall DEF Cyclic
  <2>3. At(i - 1)' = At(i - 1)
    <3>1. At(i - 1)' = array'[i - 1]
      BY <2>2 DEF At
    <3> QED BY <1>1, <2>1, <3>1
  <2> QED BY <1>3, <1>9, <2>1, <2>3
<1>11. Contents' = t
  BY <1>5, <1>6, <1>9, <1>10, ContentsAre
<1>12. k = IF length < m THEN length ELSE m
  BY <1>1, <1>2, <1>6
<1>13. t = ListAtMost(Contents, m)
  BY <1>3, <1>8, <1>12 DEF ListAtMost
<1> QED BY <1>1, <1>5, <1>11, <1>13

\* A splice that removes items moves those behind them down.
LEMMA DeleteKeeps ==
  ASSUME Ring, NEW start \in 0 .. length, NEW n \in 1 .. length, SpliceDelete(start, n)
  PROVE  Ring' /\ start + n <= length /\ Contents' = ListSplice(Contents, maxLen, start, n, <<>>)
<1> DEFINE D == start .. (length - n - 1)
           f == [i \in D |-> At(i + n)]
<1>1. start + n <= length /\ array' = Written(f) /\ length' = length - n /\ UNCHANGED <<startIdx, maxLen>>
  BY DEF SpliceDelete
<1>2. maxLen \in Nat \ {0} /\ length \in 0 .. maxLen /\ length \in Nat /\ start \in Nat /\ n \in Nat
  BY ListAssumption DEF Ring
<1>3. PICK s \in Seq(Slot) : s = Contents /\ Len(s) = length /\ \A i \in 1 .. length : s[i] = At(i - 1) /\ At(i - 1) \in Slot
  BY ContentsRead
<1>4. D \in SUBSET (0 .. 0 + maxLen - 1)
  BY <1>2
<1>5. f \in [D -> Slot] /\ \A i \in D : f[i] = At(i + n)
  <2> SUFFICES ASSUME NEW i \in D PROVE At(i + n) \in Slot
    OBVIOUS
  <2>1. i + n + 1 \in 1 .. length /\ (i + n + 1) - 1 = i + n
    BY <1>2
  <2> QED BY <1>3, <2>1
<1> HIDE DEF f
<1>6. /\ array' \in [0 .. maxLen - 1 -> Slot]
      /\ \A i \in 0 .. 0 + maxLen - 1 : array'[Cyclic(i)] = IF i \in D THEN f[i] ELSE At(i)
  <2> HIDE DEF D
  <2>1. /\ Written(f) \in [0 .. maxLen - 1 -> Slot]
        /\ \A i \in D : Written(f)[Cyclic(i)] = f[i]
        /\ \A i \in (0 .. 0 + maxLen - 1) \ D : Written(f)[Cyclic(i)] = At(i)
    BY <1>4, <1>5, WrittenAt
  <2> QED BY <1>1, <2>1
<1>7. Ring'
  BY <1>1, <1>2, <1>6 DEF Ring
<1>8. PICK t, no : t = Replaced(s, start, n, no) /\ no = <<>>
  OBVIOUS
<1>9. t \in Seq(Slot) /\ Len(t) = length - n /\ \A i \in 1 .. length - n : t[i] = IF i <= start THEN s[i] ELSE s[i + n]
  <2>1. no \in Seq(Slot) /\ Len(no) = 0
    BY <1>8
  <2>2. /\ t \in Seq(Slot) /\ Len(t) = length - n + 0
        /\ \A i \in 1 .. length - n + 0 : t[i] = IF i <= start THEN s[i] ELSE IF i <= start + 0 THEN no[i - start] ELSE s[i - 0 + n]
    <3>1. start + n <= Len(s) /\ Len(s) = length
      BY <1>1, <1>3
    <3>2. t \in Seq(Slot) /\ SplicedOf(t, s, start, n, no)
      BY <1>2, <1>8, <2>1, <3>1, Spliced
    <3> QED BY <2>1, <3>1, <3>2 DEF SplicedOf
  <2>3. length - n + 0 = length - n /\ start + 0 = start /\ \A i \in 1 .. length - n : i - 0 + n = i + n
    BY <1>2
  <2> QED BY <2>2, <2>3
<1>10. ASSUME NEW i \in 1 .. length' PROVE t[i] = At(i - 1)'
  <2>1. i \in 1 .. length - n /\ i \in 1 .. length /\ i - 1 \in 0 .. 0 + maxLen - 1 /\ i + n \in 1 .. length /\ (i + n) - 1 = (i - 1) + n
    BY <1>1, <1>2
  <2>2. At(i - 1)' = array'[Cyclic(i - 1)]
    BY <1>1 DEF At, Cyclic
  <2>3. i - 1 \in D <=> ~ (i <= start)
    BY <1>2, <2>1
  <2> QED BY <1>3, <1>5, <1>6, <1>9, <2>1, <2>2, <2>3
<1>11. Contents' = t
  BY <1>1, <1>7, <1>9, <1>10, ContentsAre
<1>12. Newest(t, maxLen) = t
  <2>1. Len(t) <= maxLen
    BY <1>2, <1>9
  <2> QED BY <2>1, NewestAll
<1> QED BY <1>1, <1>3, <1>7, <1>8, <1>11, <1>12 DEF ListSplice, Replaced

\* A splice that inserts an item moves those behind it up, the last of a full list
\* over the oldest.
LEMMA InsertKeeps ==
  ASSUME Ring, NEW start \in 0 .. length, NEW v \in Item, SpliceInsert(start, v)
  PROVE  Ring' /\ Contents' = ListSplice(Contents, maxLen, start, 0, <<v>>)
<1> DEFINE D == start .. length
           f == [i \in {start} \cup DOMAIN Shifted(start) |-> IF i = start THEN v ELSE Shifted(start)[i]]
<1>1. /\ array' = Written(f) /\ maxLen' = maxLen /\ (length = maxLen => start > 0)
      /\ IF length = maxLen THEN startIdx' = startIdx + 1 /\ length' = length ELSE length' = length + 1 /\ startIdx' = startIdx
  BY DEF SpliceInsert
<1>2. /\ maxLen \in Nat \ {0} /\ maxLen \in MaxLengths /\ length \in 0 .. maxLen /\ length \in Nat /\ start \in Nat /\ start <= length
      /\ startIdx \in Nat /\ v \in Slot
  BY ListAssumption DEF Ring, Slot
<1>3. PICK s \in Seq(Slot) : s = Contents /\ Len(s) = length /\ \A i \in 1 .. length : s[i] = At(i - 1) /\ At(i - 1) \in Slot
  BY ContentsRead
<1>4. f \in [D -> Slot] /\ f[start] = v /\ \A i \in start + 1 .. length : f[i] = At(i - 1)
  <2>1. f = [i \in D |-> IF i = start THEN v ELSE At(i - 1)]
    <3>1. DOMAIN Shifted(start) = start + 1 .. length /\ \A i \in start + 1 .. length : Shifted(start)[i] = At(i - 1)
      BY DEF Shifted
    <3>2. {start} \cup DOMAIN Shifted(start) = D
      BY <1>2, <3>1
    <3>3. \A i \in D : (IF i = start THEN v ELSE Shifted(start)[i]) = IF i = start THEN v ELSE At(i - 1)
      BY <1>2, <3>1
    <3> QED BY <3>2, <3>3
  <2>2. \A i \in D : i # start => i \in 1 .. length /\ i \in start + 1 .. length
    BY <1>2
  <2>3. start \in D /\ \A i \in start + 1 .. length : i \in D /\ i # start
    BY <1>2
  <2> HIDE DEF f, D
  <2>4. \A i \in D : (IF i = start THEN v ELSE At(i - 1)) \in Slot
    BY <1>2, <1>3, <2>2
  <2> QED BY <2>1, <2>3, <2>4
<1> HIDE DEF f
<1>5. PICK t, new : t = Replaced(s, start, 0, new) /\ new = <<v>>
  OBVIOUS
<1>6. /\ t \in Seq(Slot) /\ Len(t) = length + 1
      /\ \A i \in 1 .. length + 1 : t[i] = IF i <= start THEN s[i] ELSE IF i = start + 1 THEN v ELSE s[i - 1]
  <2>1. new \in Seq(Slot) /\ Len(new) = 1 /\ new[1] = v
    BY <1>2, <1>5
  <2>2. /\ t \in Seq(Slot) /\ Len(t) = length - 0 + 1
        /\ \A i \in 1 .. length - 0 + 1 : t[i] = IF i <= start THEN s[i] ELSE IF i <= start + 1 THEN new[i - start] ELSE s[i - 1 + 0]
    <3>1. start + 0 <= Len(s) /\ Len(s) = length /\ 0 \in Nat
      BY <1>2, <1>3
    <3>2. t \in Seq(Slot) /\ SplicedOf(t, s, start, 0, new)
      BY <1>2, <1>5, <2>1, <3>1, Spliced
    <3> QED BY <2>1, <3>1, <3>2 DEF SplicedOf
  <2>3. length - 0 + 1 = length + 1
    BY <1>2
  <2>4. ASSUME NEW i \in 1 .. length + 1 PROVE t[i] = IF i <= start THEN s[i] ELSE IF i = start + 1 THEN v ELSE s[i - 1]
    <3>1. i - 1 + 0 = i - 1 /\ (i = start + 1 => i - start = 1) /\ (~ (i <= start) => (i <= start + 1 <=> i = start + 1))
      BY <1>2
    <3> QED BY <2>1, <2>2, <2>3, <3>1
  <2> QED BY <2>2, <2>3, <2>4
<1>7. CASE length # maxLen
  <2>1. startIdx' = startIdx /\ length' = length + 1 /\ length + 1 <= maxLen
    BY <1>1, <1>2, <1>7
  <2>2. D \in SUBSET (0 .. 0 + maxLen - 1)
    BY <1>2, <2>1
  <2>3. /\ array' \in [0 .. maxLen - 1 -> Slot]
        /\ \A i \in 0 .. 0 + maxLen - 1 : array'[Cyclic(i)] = IF i \in D THEN f[i] ELSE At(i)
    <3> HIDE DEF D
    <3>1. /\ Written(f) \in [0 .. maxLen - 1 -> Slot]
          /\ \A i \in D : Written(f)[Cyclic(i)] = f[i]
          /\ \A i \in (0 .. 0 + maxLen - 1) \ D : Written(f)[Cyclic(i)] = At(i)
      BY <1>4, <2>2, WrittenAt
    <3> QED BY <1>1, <3>1
  <2>4. Ring'
    BY <1>1, <1>2, <2>1, <2>3 DEF Ring
  <2>5. ASSUME NEW i \in 1 .. length' PROVE t[i] = At(i - 1)'
    <3>1. At(i - 1)' = array'[Cyclic(i - 1)]
      BY <1>1, <2>1 DEF At, Cyclic
    <3>2. i \in 1 .. length + 1 /\ i - 1 \in 0 .. 0 + maxLen - 1
      BY <1>2, <2>1
    <3>3. CASE i <= start
      <4>1. i \in 1 .. length /\ i - 1 \notin D
        BY <1>2, <3>2, <3>3
      <4> QED BY <1>3, <1>6, <2>3, <3>1, <3>2, <3>3, <4>1
    <3>4. CASE i = start + 1
      <4>1. ~ (i <= start) /\ i - 1 = start /\ start \in D
        BY <1>2, <3>4
      <4> QED BY <1>4, <1>6, <2>3, <3>1, <3>2, <3>4, <4>1
    <3>5. CASE i > start + 1
      <4>1. ~ (i <= start) /\ i # start + 1 /\ i - 1 \in D /\ i - 1 \in start + 1 .. length /\ i - 1 \in 1 .. length
        BY <1>2, <3>2, <3>5
      <4>2. f[i - 1] = s[i - 1]
        BY <1>3, <1>4, <4>1
      <4> QED BY <1>6, <2>3, <3>1, <3>2, <4>1, <4>2
    <3>6. i <= start \/ i = start + 1 \/ i > start + 1
      BY <1>2, <3>2
    <3> QED BY <3>3, <3>4, <3>5, <3>6
  <2>6. Contents' = t
    BY <1>6, <2>1, <2>4, <2>5, ContentsAre
  <2>7. Newest(t, maxLen) = t
    BY <1>6, <2>1, NewestAll
  <2> QED BY <1>3, <1>5, <2>4, <2>6, <2>7 DEF ListSplice, Replaced
<1>8. CASE length = maxLen
  <2>1. startIdx' = startIdx + 1 /\ length' = maxLen /\ start > 0
    BY <1>1, <1>8
  <2>2. D \in SUBSET (1 .. 1 + maxLen - 1)
    BY <1>2, <1>8, <2>1
  <2>3. /\ array' \in [0 .. maxLen - 1 -> Slot]
        /\ \A i \in 1 .. 1 + maxLen - 1 : array'[Cyclic(i)] = IF i \in D THEN f[i] ELSE At(i)
    <3> HIDE DEF D
    <3>1. /\ Written(f) \in [0 .. maxLen - 1 -> Slot]
          /\ \A i \in D : Written(f)[Cyclic(i)] = f[i]
          /\ \A i \in (1 .. 1 + maxLen - 1) \ D : Written(f)[Cyclic(i)] = At(i)
      BY <1>4, <2>2, WrittenAt
    <3> QED BY <1>1, <3>1
  <2>4. startIdx' \in Nat /\ \A i \in Nat : Cyclic(i)' = Cyclic(1 + i)
    BY <1>1, <2>1, Turned
  <2>5. Ring'
    BY <1>1, <1>2, <2>1, <2>3, <2>4 DEF Ring
  <2>6. PICK n : n = Newest(t, maxLen)
    OBVIOUS
  <2>7. n \in Seq(Slot) /\ Len(n) = maxLen /\ \A i \in 1 .. maxLen : n[i] = t[i + 1]
    BY <1>2, <1>6, <1>8, <2>6, NewestTrims
  <2>8. ASSUME NEW i \in 1 .. length' PROVE n[i] = At(i - 1)'
    <3>1. i \in 1 .. maxLen /\ i - 1 \in Nat /\ 1 + (i - 1) = i /\ i \in 1 .. 1 + maxLen - 1 /\ i + 1 \in 1 .. length + 1 /\ i \in 1 .. length
          /\ (i + 1) - 1 = i
      BY <1>2, <1>8, <2>1
    <3>2. At(i - 1)' = array'[Cyclic(i)]
      BY <2>4, <3>1 DEF At
    <3>3. CASE i < start
      <4>1. i + 1 <= start /\ i \notin D /\ i + 1 \in 1 .. length
        BY <1>2, <3>1, <3>3
      <4>2. s[i + 1] = At(i)
        BY <1>3, <3>1, <4>1
      <4> QED BY <1>6, <2>3, <2>7, <3>1, <3>2, <4>1, <4>2
    <3>4. CASE i = start
      <4>1. ~ (i + 1 <= start) /\ i + 1 = start + 1 /\ i \in D
        BY <1>2, <3>4
      <4> QED BY <1>4, <1>6, <2>3, <2>7, <3>1, <3>2, <3>4, <4>1
    <3>5. CASE i > start
      <4>1. ~ (i + 1 <= start) /\ i + 1 # start + 1 /\ i \in D /\ i \in start + 1 .. length
        BY <1>2, <3>1, <3>5
      <4>2. f[i] = s[i]
        BY <1>3, <1>4, <3>1, <4>1
      <4> QED BY <1>6, <2>3, <2>7, <3>1, <3>2, <4>1, <4>2
    <3>6. i < start \/ i = start \/ i > start
      BY <1>2, <3>1
    <3> QED BY <3>3, <3>4, <3>5, <3>6
  <2>9. Contents' = n
    BY <2>1, <2>5, <2>7, <2>8, ContentsAre
  <2> QED BY <1>3, <1>5, <2>5, <2>6, <2>9 DEF ListSplice, Replaced
<1> QED BY <1>7, <1>8

\* A shift copies items one place up or down inside the list.
LEMMA ShiftKeeps ==
  ASSUME Ring, NEW start \in 0 .. length, NEW count \in 0 .. length, NEW offset \in {-1, 1}, ShiftElements(start, count, offset)
  PROVE  /\ Ring' /\ count > 0 /\ start + offset >= 0 /\ start + count <= length /\ start + count + offset <= length
         /\ Contents' = ListShift(Contents, start, count, offset)
<1> DEFINE D == (start + offset) .. (start + count - 1 + offset)
           f == [i \in D |-> At(i - offset)]
<1>1. /\ count > 0 /\ start + offset >= 0 /\ start + count <= length /\ start + count + offset <= length
      /\ array' = Written(f) /\ UNCHANGED <<startIdx, length, maxLen>>
  BY DEF ShiftElements
<1>2. maxLen \in Nat \ {0} /\ length \in 0 .. maxLen /\ length \in Nat /\ start \in Nat /\ count \in Nat /\ offset \in Int
  BY ListAssumption DEF Ring
<1>3. PICK s \in Seq(Slot) : s = Contents /\ Len(s) = length /\ \A i \in 1 .. length : s[i] = At(i - 1) /\ At(i - 1) \in Slot
  BY ContentsRead
<1>4. D \in SUBSET (0 .. 0 + maxLen - 1)
  BY <1>1, <1>2
<1>5. \A i \in D : i - offset \in start .. start + count - 1 /\ i - offset + 1 \in 1 .. length /\ (i - offset + 1) - 1 = i - offset
  BY <1>1, <1>2
<1>6. f \in [D -> Slot] /\ \A i \in D : f[i] = At(i - offset)
  <2> SUFFICES ASSUME NEW i \in D PROVE At(i - offset) \in Slot
    OBVIOUS
  <2> QED BY <1>3, <1>5
<1> HIDE DEF f
<1>7. /\ array' \in [0 .. maxLen - 1 -> Slot]
      /\ \A i \in 0 .. 0 + maxLen - 1 : array'[Cyclic(i)] = IF i \in D THEN f[i] ELSE At(i)
  <2> HIDE DEF D
  <2>1. /\ Written(f) \in [0 .. maxLen - 1 -> Slot]
        /\ \A i \in D : Written(f)[Cyclic(i)] = f[i]
        /\ \A i \in (0 .. 0 + maxLen - 1) \ D : Written(f)[Cyclic(i)] = At(i)
    BY <1>4, <1>6, WrittenAt
  <2> QED BY <1>1, <2>1
<1>8. Ring'
  BY <1>1, <1>2, <1>7 DEF Ring
<1> DEFINE g(i) == IF i - 1 - offset \in start .. (start + count - 1) THEN s[i - offset] ELSE s[i]
<1>9. \A i \in 1 .. length : g(i) = IF i - 1 \in D THEN At((i - 1) - offset) ELSE At(i - 1)
  <2> SUFFICES ASSUME NEW i \in 1 .. length PROVE g(i) = IF i - 1 \in D THEN At((i - 1) - offset) ELSE At(i - 1)
    OBVIOUS
  <2>1. i - 1 \in D <=> i - 1 - offset \in start .. (start + count - 1)
    BY <1>2
  <2>2. CASE i - 1 \in D
    <3>1. i - offset \in 1 .. length /\ (i - offset) - 1 = (i - 1) - offset
      BY <1>1, <1>2, <2>2
    <3> QED BY <1>3, <2>1, <2>2, <3>1
  <2>3. CASE i - 1 \notin D
    BY <1>3, <2>1, <2>3
  <2> QED BY <2>2, <2>3
<1>10. PICK t : t = [i \in 1 .. length |-> g(i)]
  OBVIOUS
<1>11. t \in Seq(Slot) /\ Len(t) = length /\ \A i \in 1 .. length : t[i] = g(i)
  <2>1. \A i \in 1 .. length : g(i) \in Slot
    <3> SUFFICES ASSUME NEW i \in 1 .. length PROVE g(i) \in Slot
      OBVIOUS
    <3>1. i - 1 \in D => At((i - 1) - offset) \in Slot
      BY <1>6 DEF f
    <3> HIDE DEF g
    <3> QED BY <1>3, <1>9, <3>1
  <2> HIDE DEF g
  <2> QED BY <1>2, <1>10, <2>1
<1>12. ASSUME NEW i \in 1 .. length' PROVE t[i] = At(i - 1)'
  <2>1. i \in 1 .. length /\ i - 1 \in 0 .. 0 + maxLen - 1
    BY <1>1, <1>2
  <2>2. At(i - 1)' = array'[Cyclic(i - 1)]
    BY <1>1 DEF At, Cyclic
  <2> HIDE DEF g, D
  <2> QED BY <1>6, <1>7, <1>9, <1>11, <2>1, <2>2
<1>13. Contents' = t
  BY <1>1, <1>8, <1>11, <1>12, ContentsAre
<1>14. t = ListShift(Contents, start, count, offset)
  <2>1. t \o <<>> = t
    BY <1>11, ConcatEmptySeq
  <2>2. DOMAIN s = 1 .. length
    BY <1>3
  <2>3. ListShift(s, start, count, offset) = [i \in DOMAIN s |-> g(i)] \o <<>>
    BY DEF ListShift, Listed
  <2> QED BY <1>3, <1>10, <2>1, <2>2, <2>3
<1> QED BY <1>1, <1>8, <1>13, <1>14

\* A new length forgets the last items, or adds empty ones.
LEMMA SetLengthKeeps ==
  ASSUME Ring, NEW n \in 0 .. maxLen, SetLength(n)
  PROVE  /\ Ring'
         /\ \/ n \in 0 .. Len(Contents) /\ Contents' = ListAtMost(Contents, n)
            \/ n \in 1 .. maxLen /\ Contents' = Contents \o [i \in 1 .. (n - Len(Contents)) |-> None]
<1> DEFINE D == length .. (n - 1)
           f == [i \in D |-> None]
<1>1. array' = Written(f) /\ length' = n /\ UNCHANGED <<startIdx, maxLen>>
  BY DEF SetLength
<1>2. maxLen \in Nat \ {0} /\ length \in 0 .. maxLen /\ length \in Nat /\ n \in Nat /\ n <= maxLen
  BY ListAssumption DEF Ring
<1>3. PICK s \in Seq(Slot) : s = Contents /\ Len(s) = length /\ \A i \in 1 .. length : s[i] = At(i - 1)
  BY ContentsRead
<1>4. D \in SUBSET (0 .. 0 + maxLen - 1)
  BY <1>2
<1>5. f \in [D -> Slot] /\ \A i \in D : f[i] = None
  BY DEF Slot
<1> HIDE DEF f
<1>6. /\ array' \in [0 .. maxLen - 1 -> Slot]
      /\ \A i \in 0 .. 0 + maxLen - 1 : array'[Cyclic(i)] = IF i \in D THEN f[i] ELSE At(i)
  <2> HIDE DEF D
  <2>1. /\ Written(f) \in [0 .. maxLen - 1 -> Slot]
        /\ \A i \in D : Written(f)[Cyclic(i)] = f[i]
        /\ \A i \in (0 .. 0 + maxLen - 1) \ D : Written(f)[Cyclic(i)] = At(i)
    BY <1>4, <1>5, WrittenAt
  <2> QED BY <1>1, <2>1
<1>7. Ring'
  BY <1>1, <1>2, <1>6 DEF Ring
<1>8. ASSUME NEW i \in 1 .. n PROVE At(i - 1)' = IF i <= length THEN s[i] ELSE None
  <2>1. At(i - 1)' = array'[Cyclic(i - 1)] /\ i - 1 \in 0 .. 0 + maxLen - 1 /\ (i - 1 \in D <=> ~ (i <= length))
    BY <1>1, <1>2 DEF At, Cyclic
  <2>2. i <= length => i \in 1 .. length
    BY <1>2
  <2> HIDE DEF D
  <2> QED BY <1>3, <1>5, <1>6, <2>1, <2>2
<1>9. CASE n <= length
  <2>1. PICK t : t = SubSeq(s, 1, n)
    OBVIOUS
  <2>2. t \in Seq(Slot) /\ Len(t) = n /\ \A i \in 1 .. n : t[i] = s[i]
    <3>1. /\ SubSeq(s, 0 + 1, 0 + n) \in Seq(Slot) /\ Len(SubSeq(s, 0 + 1, 0 + n)) = n
          /\ \A i \in 1 .. n : SubSeq(s, 0 + 1, 0 + n)[i] = s[0 + i]
      <4>1. 0 + n <= Len(s)
        BY <1>2, <1>3, <1>9
      <4> QED BY <1>2, <4>1, Cut
    <3>2. 0 + 1 = 1 /\ 0 + n = n /\ \A i \in 1 .. n : 0 + i = i
      BY <1>2
    <3> QED BY <2>1, <3>1, <3>2
  <2>3. ASSUME NEW i \in 1 .. length' PROVE t[i] = At(i - 1)'
    <3>1. i \in 1 .. n /\ i <= length
      BY <1>1, <1>2, <1>9
    <3> QED BY <1>8, <2>2, <3>1
  <2>4. Contents' = t
    BY <1>1, <1>7, <2>2, <2>3, ContentsAre
  <2>5. ListAtMost(s, n) = t
    <3>1. (IF Len(s) < n THEN Len(s) ELSE n) = n
      BY <1>2, <1>3, <1>9
    <3> QED BY <2>1, <3>1 DEF ListAtMost
  <2>6. n \in 0 .. Len(s)
    BY <1>2, <1>3, <1>9
  <2> QED BY <1>3, <1>7, <2>4, <2>5, <2>6
<1>10. CASE n > length
  <2>1. PICK k \in Nat : k = n - length
    BY <1>2, <1>10
  <2>2. PICK e : e = [i \in 1 .. k |-> None]
    OBVIOUS
  <2>3. e \in Seq(Slot) /\ Len(e) = k /\ \A i \in 1 .. k : e[i] = None
    BY <2>2 DEF Slot
  <2>4. PICK t : t = s \o e
    OBVIOUS
  <2>5. t \in Seq(Slot) /\ Len(t) = n /\ \A i \in 1 .. n : t[i] = IF i <= length THEN s[i] ELSE None
    <3>1. t \in Seq(Slot) /\ Len(t) = length + k /\ \A i \in 1 .. length + k : t[i] = IF i <= length THEN s[i] ELSE e[i - length]
      <4>1. /\ t \in Seq(Slot) /\ Len(t) = Len(s) + Len(e)
            /\ \A i \in 1 .. Len(s) + Len(e) : t[i] = IF i <= Len(s) THEN s[i] ELSE e[i - Len(s)]
        BY <2>3, <2>4, ConcatProperties
      <4> QED BY <1>3, <2>3, <4>1
    <3>2. length + k = n /\ \A i \in 1 .. n : ~ (i <= length) => i - length \in 1 .. k
      BY <1>2, <2>1
    <3> QED BY <2>3, <3>1, <3>2
  <2>6. \A i \in 1 .. length' : t[i] = At(i - 1)'
    BY <1>1, <1>8, <2>5
  <2>7. Contents' = t
    BY <1>1, <1>7, <2>5, <2>6, ContentsAre
  <2>8. n \in 1 .. maxLen /\ n - Len(s) = k
    BY <1>2, <1>3, <1>10, <2>1
  <2> QED BY <1>3, <1>7, <2>2, <2>4, <2>7, <2>8
<1>11. n <= length \/ n > length
  BY <1>2
<1> QED BY <1>9, <1>10, <1>11, Zenon

----------------------------------------------------------------------------
(* The refinement *)

\* ListSpec's operators are those of BoundedList.
LEMMA SameOperators ==
  /\ \A s, m, v : List!ListPush(s, m, v) = ListPush(s, m, v)
  /\ \A s : List!ListRecycle(s) = ListRecycle(s) /\ List!Front(s) = Front(s)
  /\ \A s, m, start, n, new : List!ListSplice(s, m, start, n, new) = ListSplice(s, m, start, n, new)
  /\ \A s, n : List!ListTrim(s, n) = ListTrim(s, n) /\ List!ListAtMost(s, n) = ListAtMost(s, n)
  /\ \A s, start, count, offset : List!ListShift(s, start, count, offset) = ListShift(s, start, count, offset)
BY DEF ListPush, ListRecycle, ListSplice, ListTrim, ListShift, ListAtMost, Newest, Listed, Front,
       List!ListPush, List!ListRecycle, List!ListSplice, List!ListTrim, List!ListShift, List!ListAtMost, List!Newest,
       List!Listed, List!Front

\* Every operation of the ring is the list's.
LEMMA RingStep ==
  ASSUME Ring, [ListNext]_listVars
  PROVE  Ring' /\ [List!Next]_<<Contents, maxLen>>
<1>1. CASE UNCHANGED listVars
  BY <1>1 DEF listVars, Ring, Contents, At, Cyclic
<1>2. length \in Nat /\ Len(Contents) = length /\ maxLen \in MaxLengths
  BY ListAssumption, ContentsRead DEF Ring
<1>3. ASSUME NEW v \in Item, Push(v) PROVE Ring' /\ List!Next
  BY <1>3, PushKeeps, SameOperators DEF List!Next, List!Push, Push
<1>4. CASE Recycle
  BY <1>4, RecycleKeeps, SameOperators DEF List!Next, List!Recycle, Recycle
<1>5. CASE Pop
  BY <1>5, PopKeeps, SameOperators DEF List!Next, List!Pop, Pop
<1>6. ASSUME NEW start \in 0 .. length, NEW n \in 1 .. length, SpliceDelete(start, n) PROVE Ring' /\ List!Next
  BY <1>2, <1>6, DeleteKeeps, SameOperators DEF List!Next, List!Delete, SpliceDelete
<1>7. ASSUME NEW start \in 0 .. length, NEW v \in Item, SpliceInsert(start, v) PROVE Ring' /\ List!Next
  BY <1>2, <1>7, InsertKeeps, SameOperators DEF List!Next, List!Insert, SpliceInsert
<1>8. ASSUME NEW n \in 0 .. length + 1, TrimStart(n) PROVE Ring' /\ List!Next
  <2>1. n \in Nat /\ maxLen' = maxLen
    BY <1>2, <1>8 DEF TrimStart
  <2> QED BY <1>2, <1>8, <2>1, TrimKeeps, SameOperators DEF List!Next, List!TrimStart
<1>9. ASSUME NEW start \in 0 .. length, NEW count \in 0 .. length, NEW offset \in {-1, 1}, ShiftElements(start, count, offset)
      PROVE  Ring' /\ List!Next
  <2>1. count > 0 => count \in 1 .. length
    BY <1>2
  <2>2. maxLen' = maxLen
    BY <1>9 DEF ShiftElements
  <2> QED BY <1>2, <1>9, <2>1, <2>2, ShiftKeeps, SameOperators DEF List!Next, List!Shift
<1>10. ASSUME NEW m \in MaxLengths, SetMaxLength(m) PROVE Ring' /\ List!Next
  BY <1>10, SetMaxKeeps, SameOperators DEF List!Next, List!SetMaxLength
<1>11. ASSUME NEW n \in 0 .. maxLen, SetLength(n) PROVE Ring' /\ List!Next
  BY <1>11, SetLengthKeeps, SameOperators DEF List!Next, List!SetLength, SetLength
<1>12. CASE ListNext
  BY <1>3, <1>4, <1>5, <1>6, <1>7, <1>8, <1>9, <1>10, <1>11, <1>12 DEF ListNext
<1> QED BY <1>1, <1>12

\* Whatever operations are made in whatever order, around the end of the array or not,
\* the ring holds what a list that gives up its oldest items holds (circularlist.go).
THEOREM RingIsList == ListMoves => RefinesList
<1>1. ListInit => Ring /\ List!Init
  <2> SUFFICES ASSUME ListInit PROVE Ring /\ List!Init
    OBVIOUS
  <2>1. Ring
    BY ListAssumption DEF ListInit, Ring, Slot
  <2>2. Contents = <<>>
    <3>1. Contents \in Seq(Slot) /\ Len(Contents) = 0
      BY <2>1, ContentsRead DEF ListInit
    <3> QED BY <3>1
  <2> QED BY <2>1, <2>2 DEF ListInit, List!Init
<1>2. Ring /\ [ListNext]_listVars => Ring' /\ [List!Next]_<<Contents, maxLen>>
  BY RingStep
<1> QED BY <1>1, <1>2, PTL DEF ListMoves, RefinesList

----------------------------------------------------------------------------
(* Terminals *)

TermRec(n, a) ==
  [cols : Nat, rows : Nat, usr : BOOLEAN, alt : BOOLEAN, nb : {n}, ab : {a}, ins : BOOLEAN,
   wrap : BOOLEAN, origin : BOOLEAN, rev : BOOLEAN, eol : BOOLEAN, prot : BOOLEAN, join : 0 .. 2,
   panic : {"none", "print", "resize"}]

\* The alternate buffer while it is not shown.
Asleep(b, rows) ==
  /\ b \in BufRec(TextLine) /\ b.lines = <<>> /\ b.max = rows /\ b.back = 0 /\ b.down = 0
  /\ b.ybase = 0 /\ b.ydisp = 0 /\ b.x = 0 /\ b.y = 0 /\ b.top = 0 /\ b.bot = rows - 1

\* The lines of the buffer that is shown, and how many it keeps.
Kind(t, whole) == RowsOf(t.cols, ~t.alt /\ Scrollback > 0, whole)
Back(t) == IF t.alt THEN 0 ELSE Scrollback

Good(t, whole) ==
  /\ t \in TermRec(t.nb, t.ab) /\ t.cols >= 2 /\ t.rows >= 1
  /\ Framed(t.nb, RowsOf(t.cols, Scrollback > 0, whole), t.rows, Scrollback)
  /\ OnScreen(t.nb, t.cols, t.rows)
  /\ t.alt => /\ Framed(t.ab, RowsOf(t.cols, FALSE, whole), t.rows, 0)
              /\ OnScreen(t.ab, t.cols, t.rows)
  /\ ~t.alt => Asleep(t.ab, t.rows)

\* u is what t may become without a change of size.
Stays(t, u, whole) ==
  /\ Good(u, whole) /\ u.cols = t.cols /\ u.rows = t.rows /\ u.panic = t.panic
  /\ Past(t.nb, u.nb)

\* c is what the buffer that is shown may become.
Edited(t, c, whole) ==
  Framed(c, Kind(t, whole), t.rows, Back(t)) /\ OnScreen(c, t.cols, t.rows) /\ Past(Buf(t), c)

\* The parts of a terminal.
LEMMA TermIs ==
  ASSUME NEW t, NEW whole, Good(t, whole)
  PROVE  /\ t \in TermRec(t.nb, t.ab) /\ t.cols \in Nat \ {0, 1} /\ t.rows \in Nat \ {0}
         /\ t.usr \in BOOLEAN /\ t.alt \in BOOLEAN /\ t.ins \in BOOLEAN /\ t.wrap \in BOOLEAN
         /\ t.origin \in BOOLEAN /\ t.rev \in BOOLEAN /\ t.eol \in BOOLEAN /\ t.prot \in BOOLEAN
         /\ t.join \in 0 .. 2 /\ t.panic \in {"none", "print", "resize"}
<1>1. t \in TermRec(t.nb, t.ab) /\ t.cols >= 2 /\ t.rows >= 1
  BY DEF Good
<1> QED BY <1>1 DEF TermRec

\* The buffer that is shown is framed, its cursor is on the screen.
LEMMA Showing ==
  ASSUME NEW t, NEW whole, Good(t, whole)
  PROVE  /\ Framed(Buf(t), Kind(t, whole), t.rows, Back(t)) /\ OnScreen(Buf(t), t.cols, t.rows)
         /\ Back(t) \in Nat
<1>1. t.alt \in BOOLEAN
  BY TermIs
<1>2. CASE t.alt
  <2>1. Framed(t.ab, RowsOf(t.cols, FALSE, whole), t.rows, 0) /\ OnScreen(t.ab, t.cols, t.rows)
    BY <1>2 DEF Good
  <2>2. (~t.alt /\ Scrollback > 0) = FALSE
    BY <1>2
  <2>3. Buf(t) = t.ab /\ Back(t) = 0 /\ Kind(t, whole) = RowsOf(t.cols, FALSE, whole)
    BY <1>2, <2>2 DEF Buf, Back, Kind
  <2>4. Back(t) \in Nat
    BY <2>3
  <2> QED BY <2>1, <2>3, <2>4
<1>3. CASE ~t.alt
  <2>1. Framed(t.nb, RowsOf(t.cols, Scrollback > 0, whole), t.rows, Scrollback) /\ OnScreen(t.nb, t.cols, t.rows)
    BY DEF Good
  <2>2. (~t.alt /\ Scrollback > 0) = (Scrollback > 0)
    BY <1>3
  <2>3. Buf(t) = t.nb /\ Back(t) = Scrollback /\ Kind(t, whole) = RowsOf(t.cols, Scrollback > 0, whole)
    BY <1>3, <2>2 DEF Buf, Back, Kind
  <2>4. Back(t) \in Nat
    BY <2>3, ScreenAssumption
  <2> QED BY <2>1, <2>3, <2>4
<1> QED BY <1>1, <1>2, <1>3

\* Another buffer shown.
LEMMA PutIs ==
  ASSUME NEW t, NEW whole, Good(t, whole), NEW c, Framed(c, Kind(t, whole), t.rows, Back(t)),
         OnScreen(c, t.cols, t.rows)
  PROVE  /\ Good(Put(t, c), whole) /\ Buf(Put(t, c)) = c
         /\ Put(t, c) \in TermRec(Put(t, c).nb, Put(t, c).ab)
         /\ Put(t, c).cols = t.cols /\ Put(t, c).rows = t.rows /\ Put(t, c).alt = t.alt
         /\ Put(t, c).wrap = t.wrap /\ Put(t, c).origin = t.origin /\ Put(t, c).prot = t.prot
         /\ Put(t, c).ins = t.ins /\ Put(t, c).join = t.join /\ Put(t, c).panic = t.panic
         /\ Put(t, c).nb = IF t.alt THEN t.nb ELSE c
<1>1. t \in TermRec(t.nb, t.ab) /\ t.alt \in BOOLEAN
  BY TermIs
<1> DEFINE u == Put(t, c)
<1>2. /\ u.cols = t.cols /\ u.rows = t.rows /\ u.alt = t.alt /\ u.wrap = t.wrap /\ u.origin = t.origin
      /\ u.prot = t.prot /\ u.ins = t.ins /\ u.join = t.join /\ u.panic = t.panic
      /\ u.nb = (IF t.alt THEN t.nb ELSE c) /\ u.ab = (IF t.alt THEN c ELSE t.ab)
      /\ u \in TermRec(u.nb, u.ab)
  <2>1. CASE t.alt
    <3>1. u = [t EXCEPT !.ab = c]
      BY <2>1 DEF Put
    <3> QED BY <1>1, <2>1, <3>1 DEF TermRec
  <2>2. CASE ~t.alt
    <3>1. u = [t EXCEPT !.nb = c]
      BY <2>2 DEF Put
    <3> QED BY <1>1, <2>2, <3>1 DEF TermRec
  <2> QED BY <1>1, <2>1, <2>2
<1> HIDE DEF u
<1>3. Buf(u) = c
  BY <1>1, <1>2 DEF Buf
<1>4. Good(u, whole)
  <2>1. CASE t.alt
    <3>1. (~t.alt /\ Scrollback > 0) = FALSE
      BY <2>1
    <3>2. Framed(c, RowsOf(t.cols, FALSE, whole), t.rows, 0)
      BY <2>1, <3>1 DEF Kind, Back
    <3> QED BY <1>2, <2>1, <3>2 DEF Good
  <2>2. CASE ~t.alt
    <3>1. (~t.alt /\ Scrollback > 0) = (Scrollback > 0)
      BY <2>2
    <3>2. Framed(c, RowsOf(t.cols, Scrollback > 0, whole), t.rows, Scrollback)
      BY <2>2, <3>1 DEF Kind, Back
    <3> QED BY <1>2, <2>2, <3>2 DEF Good
  <2> QED BY <1>1, <2>1, <2>2
<1> QED BY <1>2, <1>3, <1>4 DEF u

\* What is edited stays.
LEMMA EditedStays ==
  ASSUME NEW t, NEW whole, Good(t, whole), NEW c, Edited(t, c, whole)
  PROVE  Stays(t, Put(t, c), whole)
<1>1. Framed(c, Kind(t, whole), t.rows, Back(t)) /\ OnScreen(c, t.cols, t.rows) /\ Past(Buf(t), c)
  BY DEF Edited
<1> DEFINE u == Put(t, c)
<1>2. Good(u, whole) /\ u.cols = t.cols /\ u.rows = t.rows /\ u.panic = t.panic
      /\ u.nb = IF t.alt THEN t.nb ELSE c
  BY <1>1, PutIs
<1> HIDE DEF u
<1>3. Past(t.nb, u.nb)
  <2>1. CASE t.alt
    BY <1>2, <2>1, OntoSelf
  <2>2. CASE ~t.alt
    BY <1>1, <1>2, <2>2 DEF Buf
  <2> QED BY <2>1, <2>2
<1> QED BY <1>2, <1>3 DEF Stays, u

\* Other modes, with the same buffers.
LEMMA ModesPut ==
  ASSUME NEW t, NEW whole, Good(t, whole), NEW u \in TermRec(t.nb, t.ab), u.cols = t.cols, u.rows = t.rows,
         u.alt = t.alt
  PROVE  /\ Good(u, whole) /\ Buf(u) = Buf(t) /\ Kind(u, whole) = Kind(t, whole) /\ Back(u) = Back(t)
         /\ u.nb = t.nb /\ u.ab = t.ab /\ Past(t.nb, u.nb)
<1>1. u.nb = t.nb /\ u.ab = t.ab
  BY DEF TermRec
<1>2. Good(u, whole)
  BY <1>1 DEF Good
<1>3. Buf(u) = Buf(t) /\ Kind(u, whole) = Kind(t, whole) /\ Back(u) = Back(t)
  BY <1>1 DEF Buf, Kind, Back
<1> QED BY <1>1, <1>2, <1>3, OntoSelf

\* One after the other.
LEMMA StaysBoth ==
  ASSUME NEW t, NEW u, NEW v, NEW whole, Stays(t, u, whole), Stays(u, v, whole)
  PROVE  Stays(t, v, whole)
<1>1. Past(t.nb, u.nb) /\ Past(u.nb, v.nb)
  BY DEF Stays
<1>2. Past(t.nb, v.nb)
  BY <1>1 DEF Past
<1> QED BY <1>2 DEF Stays

\* A terminal stays what it is.
LEMMA StaysSelf ==
  ASSUME NEW t, NEW whole, Good(t, whole)
  PROVE  Stays(t, t, whole)
BY OntoSelf DEF Stays

\* What a combining character could join is forgotten.
LEMMA JoinPut ==
  ASSUME NEW t, NEW whole, Good(t, whole), NEW j \in 0 .. 2
  PROVE  LET u == [t EXCEPT !.join = j] IN
         /\ Good(u, whole) /\ Stays(t, u, whole) /\ u.join = j /\ Buf(u) = Buf(t) /\ u.nb = t.nb /\ u.ab = t.ab
         /\ u.cols = t.cols /\ u.rows = t.rows /\ u.alt = t.alt /\ u.ins = t.ins /\ u.wrap = t.wrap
         /\ u.prot = t.prot /\ u.panic = t.panic /\ u.origin = t.origin
         /\ Kind(u, whole) = Kind(t, whole) /\ Back(u) = Back(t)
<1> DEFINE u == [t EXCEPT !.join = j]
<1>1. t \in TermRec(t.nb, t.ab)
  BY TermIs
<1>2. u \in TermRec(t.nb, t.ab) /\ u.join = j
      /\ u.cols = t.cols /\ u.rows = t.rows /\ u.alt = t.alt /\ u.ins = t.ins /\ u.wrap = t.wrap
      /\ u.prot = t.prot /\ u.panic = t.panic /\ u.origin = t.origin
  BY <1>1 DEF TermRec
<1> HIDE DEF u
<1>3. /\ Good(u, whole) /\ Buf(u) = Buf(t) /\ Kind(u, whole) = Kind(t, whole) /\ Back(u) = Back(t)
      /\ u.nb = t.nb /\ u.ab = t.ab /\ Past(t.nb, u.nb)
  BY <1>2, ModesPut
<1> QED BY <1>2, <1>3 DEF Stays, u

----------------------------------------------------------------------------
(* The cursor *)

\* A cursor brought back on the screen.
LEMMA RestrictedIs ==
  ASSUME NEW t, NEW S, NEW back \in Nat, NEW b, t.rows \in Nat \ {0}, t.origin \in BOOLEAN,
         Framed(b, S, t.rows, back), NEW right \in Nat
  PROVE  /\ Framed(Restricted(t, b, right), S, t.rows, back) /\ Onto(b, Restricted(t, b, right))
         /\ Restricted(t, b, right).lines = b.lines /\ Restricted(t, b, right).max = b.max
         /\ Restricted(t, b, right).x \in 0 .. right /\ Restricted(t, b, right).y \in 0 .. t.rows - 1
         /\ t.origin => Restricted(t, b, right).y \in b.top .. b.bot
         /\ b.x \in 0 .. right => Restricted(t, b, right).x = b.x
         /\ ~t.origin /\ b.y \in 0 .. t.rows - 1 => Restricted(t, b, right).y = b.y
<1> DEFINE x == Clamp(b.x, 0, right)
           y == IF t.origin THEN Clamp(b.y, b.top, b.bot) ELSE Clamp(b.y, 0, t.rows - 1)
           c == AtPlace(b, x, y)
<1>1. b.x \in Int /\ b.y \in Int /\ b.top \in Nat /\ b.bot \in Nat /\ b.top <= b.bot /\ b.bot < t.rows /\ b \in BufRec(S)
  BY FrameIs
<1>2. Restricted(t, b, right) = c
  BY <1>1 DEF Restricted, BufRec, AtPlace
<1>3. x \in 0 .. right /\ (b.x \in 0 .. right => x = b.x)
  <2> DEFINE z == 0
  <2>1. z \in Int /\ z <= right /\ right \in Int
    OBVIOUS
  <2> HIDE DEF z
  <2>2. Clamp(b.x, z, right) \in z .. right /\ (b.x \in z .. right => Clamp(b.x, z, right) = b.x)
    BY <1>1, <2>1, ClampIs
  <2> QED BY <2>2 DEF z
<1>4. y \in 0 .. t.rows - 1 /\ (t.origin => y \in b.top .. b.bot) /\ (~t.origin /\ b.y \in 0 .. t.rows - 1 => y = b.y)
  <2>1. CASE t.origin
    <3> DEFINE v == b.y
               low == b.top
               high == b.bot
    <3>1. v \in Int /\ low \in Int /\ high \in Int /\ low <= high
      BY <1>1
    <3> HIDE DEF v, low, high
    <3>2. Clamp(v, low, high) \in low .. high
      BY <3>1, ClampIs
    <3> QED BY <1>1, <2>1, <3>2 DEF v, low, high
  <2>2. CASE ~t.origin
    <3> DEFINE z == 0
               h == t.rows - 1
    <3>1. z \in Int /\ h \in Int /\ z <= h
      OBVIOUS
    <3> HIDE DEF z, h
    <3>2. Clamp(b.y, z, h) \in z .. h /\ (b.y \in z .. h => Clamp(b.y, z, h) = b.y)
      BY <1>1, <3>1, ClampIs
    <3> QED BY <2>2, <3>2 DEF z, h
  <2> QED BY <2>1, <2>2
<1>5. x \in Int /\ y \in Int
  BY <1>3, <1>4
<1> HIDE DEF x, y
<1>6. Framed(c, S, t.rows, back) /\ Onto(b, c) /\ c.x = x /\ c.y = y /\ c.lines = b.lines /\ c.max = b.max
  <2> DEFINE rows == t.rows
  <2>1. rows \in Nat \ {0} /\ Framed(b, S, rows, back)
    OBVIOUS
  <2> HIDE DEF rows
  <2>2. Framed(c, S, rows, back) /\ Onto(b, c) /\ c.x = x /\ c.y = y /\ c.lines = b.lines /\ c.max = b.max
    BY <1>5, <2>1, AtPlaceIs
  <2> QED BY <2>2 DEF rows
<1> HIDE DEF c
<1> QED BY <1>2, <1>3, <1>4, <1>6

\* The buffer with its cursor inside the margins.
LEMMA HereIs ==
  ASSUME NEW t, NEW whole, Good(t, whole)
  PROVE  LET c == Here(t) IN
         /\ Framed(c, Kind(t, whole), t.rows, Back(t)) /\ Onto(Buf(t), c) /\ c.lines = Buf(t).lines
         /\ c.x \in 0 .. t.cols - 1 /\ c.y \in 0 .. t.rows - 1 /\ c.max = Buf(t).max
         /\ Edited(t, c, whole)
<1> DEFINE b == Buf(t)
           S == Kind(t, whole)
           right == t.cols - 1
           c == Restricted(t, b, right)
<1>1. /\ t.rows \in Nat \ {0} /\ t.cols \in Nat \ {0, 1} /\ t.origin \in BOOLEAN /\ Back(t) \in Nat
      /\ Framed(b, S, t.rows, Back(t))
  BY TermIs, Showing
<1>2. right \in Nat
  BY <1>1
<1> HIDE DEF b, S, right
<1>3. Framed(c, S, t.rows, Back(t)) /\ Onto(b, c) /\ c.lines = b.lines /\ c.x \in 0 .. right /\ c.y \in 0 .. t.rows - 1
      /\ c.max = b.max
  BY <1>1, <1>2, RestrictedIs
<1>4. Here(t) = c
  BY DEF Here, b, right
<1> HIDE DEF c
<1>5. OnScreen(c, t.cols, t.rows)
  BY <1>1, <1>3 DEF OnScreen, right
<1> QED BY <1>3, <1>4, <1>5 DEF Edited, Onto, b, S, right

\* The cursor put somewhere.
LEMMA PlacedIs ==
  ASSUME NEW t, NEW whole, Good(t, whole), NEW b, Framed(b, Kind(t, whole), t.rows, Back(t)),
         NEW x \in Int, NEW y \in Int
  PROVE  LET c == Placed(t, b, x, y) IN
         /\ Framed(c, Kind(t, whole), t.rows, Back(t)) /\ Onto(b, c) /\ c.lines = b.lines
         /\ c.x \in 0 .. t.cols - 1 /\ c.y \in 0 .. t.rows - 1 /\ OnScreen(c, t.cols, t.rows) /\ c.max = b.max
         /\ t.origin => c.y \in b.top .. b.bot
<1> DEFINE S == Kind(t, whole)
           right == t.cols - 1
           z == IF t.origin THEN b.top + y ELSE y
           a == AtPlace(b, x, z)
           c == Restricted(t, a, right)
<1>1. /\ t.rows \in Nat \ {0} /\ t.cols \in Nat \ {0, 1} /\ t.origin \in BOOLEAN /\ Back(t) \in Nat
  BY TermIs, Showing
<1>2. right \in Nat /\ Framed(b, S, t.rows, Back(t))
  BY <1>1
<1> HIDE DEF S
<1>3. b.top \in Nat
  BY <1>1, <1>2, FrameIs
<1>4. z \in Int
  BY <1>3
<1> HIDE DEF z, right
<1>5. Framed(a, S, t.rows, Back(t)) /\ Onto(b, a) /\ a.lines = b.lines /\ a.max = b.max
  <2> DEFINE rows == t.rows
             back == Back(t)
  <2>1. rows \in Nat \ {0} /\ back \in Nat /\ Framed(b, S, rows, back)
    BY <1>1, <1>2
  <2> HIDE DEF rows, back
  <2>2. Framed(a, S, rows, back) /\ Onto(b, a) /\ a.lines = b.lines /\ a.max = b.max
    BY <1>4, <2>1, AtPlaceIs
  <2> QED BY <2>2 DEF rows, back
<1> HIDE DEF a
<1>6. Framed(c, S, t.rows, Back(t)) /\ Onto(a, c) /\ c.lines = a.lines /\ c.x \in 0 .. right /\ c.y \in 0 .. t.rows - 1
      /\ c.max = a.max /\ (t.origin => c.y \in a.top .. a.bot)
  BY <1>1, <1>2, <1>5, RestrictedIs
<1>7. Placed(t, b, x, y) = c
  BY DEF Placed, AtPlace, a, z, right
<1> HIDE DEF c
<1>8. Onto(b, c)
  BY <1>5, <1>6, OntoBoth
<1>9. OnScreen(c, t.cols, t.rows)
  BY <1>1, <1>6 DEF OnScreen, right
<1>10. a.top = b.top /\ a.bot = b.bot
  BY <1>5 DEF Onto
<1> QED BY <1>5, <1>6, <1>7, <1>8, <1>9, <1>10 DEF S, right

\* So every movement of the cursor keeps the terminal.
LEMMA SetCursorIs ==
  ASSUME NEW t, NEW whole, Good(t, whole), NEW x \in Int, NEW y \in Int
  PROVE  Stays(t, SetCursor(t, x, y), whole)
<1> DEFINE b == Buf(t)
           c == Placed(t, b, x, y)
<1>1. Framed(b, Kind(t, whole), t.rows, Back(t))
  BY Showing
<1> HIDE DEF b
<1>2. Framed(c, Kind(t, whole), t.rows, Back(t)) /\ Onto(b, c) /\ OnScreen(c, t.cols, t.rows)
  BY <1>1, PlacedIs
<1> HIDE DEF c
<1>3. Edited(t, c, whole)
  BY <1>2 DEF Edited, Onto, b
<1> QED BY <1>3, EditedStays DEF SetCursor, b, c

\* Relative ones as well.
LEMMA MoveCursorIs ==
  ASSUME NEW t, NEW whole, Good(t, whole), NEW dx \in Int, NEW dy \in Int
  PROVE  Stays(t, MoveCursor(t, dx, dy), whole)
<1> DEFINE b == Here(t)
           x == b.x + dx
           y == b.y + dy
           c == Placed(t, b, x, y)
<1>1. Framed(b, Kind(t, whole), t.rows, Back(t)) /\ Onto(Buf(t), b) /\ b.x \in 0 .. t.cols - 1 /\ b.y \in 0 .. t.rows - 1
  BY HereIs
<1>2. x \in Int /\ y \in Int
  BY <1>1
<1> HIDE DEF b, x, y
<1>3. Framed(c, Kind(t, whole), t.rows, Back(t)) /\ Onto(b, c) /\ OnScreen(c, t.cols, t.rows)
  BY <1>1, <1>2, PlacedIs
<1>4. MoveCursor(t, dx, dy) = Put(t, c)
  BY DEF MoveCursor, b, x, y
<1> HIDE DEF c
<1>5. Past(Buf(t), c)
  BY <1>1, <1>3, OntoBoth
<1>6. Edited(t, c, whole)
  BY <1>3, <1>5 DEF Edited
<1> QED BY <1>4, <1>6, EditedStays

\* Any other change of a buffer that leaves its lines alone.
LEMMA FramePut ==
  ASSUME NEW S, NEW rows \in Nat \ {0}, NEW back \in Nat, NEW b, Framed(b, S, rows, back),
         NEW c \in BufRec(S), c.lines = b.lines, c.max = b.max, c.ybase = b.ybase, c.back = b.back, c.down = b.down,
         c.ydisp \in 0 .. b.ybase, c.top >= 0, c.top <= c.bot, c.bot < rows
  PROVE  Framed(c, S, rows, back) /\ Past(b, c)
<1>1. Framed(c, S, rows, back)
  BY DEF Framed, BufRec
<1>2. Past(b, c)
  BY DEF Past
<1> QED BY <1>1, <1>2

\* On the terminal.
LEMMA FrameStays ==
  ASSUME NEW t, NEW whole, Good(t, whole), NEW c \in BufRec(Kind(t, whole)), c.lines = Buf(t).lines,
         c.max = Buf(t).max, c.ybase = Buf(t).ybase, c.back = Buf(t).back, c.down = Buf(t).down,
         c.ydisp \in 0 .. Buf(t).ybase, c.top >= 0, c.top <= c.bot, c.bot < t.rows, OnScreen(c, t.cols, t.rows)
  PROVE  Edited(t, c, whole) /\ Stays(t, Put(t, c), whole)
<1> DEFINE S == Kind(t, whole)
           rows == t.rows
           back == Back(t)
           b == Buf(t)
<1>1. rows \in Nat \ {0} /\ back \in Nat /\ Framed(b, S, rows, back)
  BY TermIs, Showing
<1>2. /\ c \in BufRec(S) /\ c.lines = b.lines /\ c.max = b.max /\ c.ybase = b.ybase /\ c.back = b.back
      /\ c.down = b.down /\ c.ydisp \in 0 .. b.ybase /\ c.top >= 0 /\ c.top <= c.bot /\ c.bot < rows
  OBVIOUS
<1> HIDE DEF S, rows, back, b
<1>3. Framed(c, S, rows, back) /\ Past(b, c)
  BY <1>1, <1>2, FramePut
<1>4. Edited(t, c, whole)
  BY <1>3 DEF Edited, S, rows, back, b
<1> QED BY <1>4, EditedStays

\* The cursor's column changed.
LEMMA ColumnStays ==
  ASSUME NEW t, NEW whole, Good(t, whole), NEW x \in 0 .. t.cols + 1
  PROVE  Edited(t, AtColumn(Buf(t), x), whole) /\ Stays(t, Put(t, AtColumn(Buf(t), x)), whole)
<1> DEFINE S == Kind(t, whole)
           rows == t.rows
           back == Back(t)
           b == Buf(t)
           c == AtColumn(b, x)
<1>1. rows \in Nat \ {0} /\ back \in Nat /\ Framed(b, S, rows, back) /\ OnScreen(b, t.cols, t.rows) /\ x \in Int
      /\ t.cols \in Nat
  BY TermIs, Showing
<1> HIDE DEF S, rows, back, b
<1>2. Framed(c, S, rows, back) /\ Onto(b, c) /\ c.x = x /\ c.y = b.y
  BY <1>1, AtColumnIs
<1> HIDE DEF c
<1>3. OnScreen(c, t.cols, t.rows)
  BY <1>1, <1>2 DEF OnScreen
<1>4. Edited(t, c, whole)
  BY <1>2, <1>3 DEF Edited, Onto, S, rows, back, b
<1> QED BY <1>4, EditedStays DEF b, c

\* The cursor, the parts of the shown buffer, by name.
LEMMA BufIs ==
  ASSUME NEW t, NEW whole, Good(t, whole)
  PROVE  LET b == Buf(t) S == Kind(t, whole) IN
         /\ b \in BufRec(S) /\ b.lines \in Seq(S) /\ Len(b.lines) \in Nat
         /\ b.max \in Nat \ {0} /\ b.ybase \in Nat /\ b.ydisp \in Nat /\ b.ydisp <= b.ybase
         /\ b.top \in Nat /\ b.bot \in Nat /\ b.top <= b.bot /\ b.bot < t.rows
         /\ b.ybase + t.rows <= Len(b.lines) /\ Len(b.lines) <= b.max
         /\ b.x \in 0 .. t.cols + 1 /\ b.y \in 0 .. t.rows - 1 /\ b.tabs \in SUBSET Int
         /\ b.sx \in Int /\ b.sy \in Int
         /\ b.so \in BOOLEAN /\ b.sw \in BOOLEAN /\ b.sp \in BOOLEAN
         /\ \A i \in 1 .. Len(b.lines) : b.lines[i] \in S
<1> DEFINE S == Kind(t, whole)
           rows == t.rows
           back == Back(t)
           b == Buf(t)
<1>1. rows \in Nat \ {0} /\ back \in Nat /\ Framed(b, S, rows, back) /\ OnScreen(b, t.cols, rows)
  BY TermIs, Showing
<1> HIDE DEF S, rows, back, b
<1>2. /\ b \in BufRec(S) /\ b.lines \in Seq(S) /\ Len(b.lines) \in Nat
      /\ b.max \in Nat \ {0} /\ b.ybase \in Nat /\ b.ydisp \in Nat /\ b.ydisp <= b.ybase
      /\ b.top \in Nat /\ b.bot \in Nat /\ b.top <= b.bot /\ b.bot < rows
      /\ b.ybase + rows <= Len(b.lines) /\ Len(b.lines) <= b.max
      /\ b.x \in Int /\ b.y \in Int /\ b.tabs \in SUBSET Int /\ b.sx \in Int /\ b.sy \in Int
      /\ b.so \in BOOLEAN /\ b.sw \in BOOLEAN /\ b.sp \in BOOLEAN
      /\ \A i \in 1 .. Len(b.lines) : b.lines[i] \in S
  BY <1>1, FrameIs
<1>3. b.x \in 0 .. t.cols + 1 /\ b.y \in 0 .. rows - 1
  BY <1>1 DEF OnScreen
<1> QED BY <1>2, <1>3 DEF b, S, rows

\* Movements by n.
LEMMA CursorMovesAre ==
  ASSUME NEW t, NEW whole, Good(t, whole), NEW n \in Int
  PROVE  /\ Stays(t, CursorUp(t, n), whole) /\ Stays(t, CursorDown(t, n), whole)
         /\ Stays(t, CursorForward(t, n), whole) /\ Stays(t, CursorBackward(t, n), whole)
         /\ Stays(t, CursorCharAbsolute(t, n), whole) /\ Stays(t, LinePosAbsolute(t, n), whole)
         /\ Stays(t, VPositionRelative(t, n), whole)
<1> DEFINE b == Buf(t)
           up == b.y - b.top
           down == b.bot - b.y
           zero == 0
           less == -n
           before == n - 1
<1>1. b.x \in Int /\ b.y \in Int /\ b.top \in Int /\ b.bot \in Int
  BY BufIs
<1>2. up \in Int /\ down \in Int /\ zero \in Int /\ less \in Int /\ before \in Int
  BY <1>1
<1> DEFINE dy == -(IF up >= 0 THEN LeastOf(up, n) ELSE n)
           ey == IF down >= 0 THEN LeastOf(down, n) ELSE n
           bx == b.x
           by == b.y
<1>3. dy \in Int /\ ey \in Int
  <2> HIDE DEF up, down
  <2> QED BY <1>2, OfTwo
<1>4. bx \in Int /\ by \in Int
  BY <1>1
<1>5. CursorUp(t, n) = MoveCursor(t, zero, dy)
  BY DEF CursorUp
<1>6. CursorDown(t, n) = MoveCursor(t, zero, ey)
  BY DEF CursorDown
<1>7. CursorForward(t, n) = MoveCursor(t, n, zero) /\ CursorBackward(t, n) = MoveCursor(t, less, zero)
      /\ VPositionRelative(t, n) = MoveCursor(t, zero, n)
  BY DEF CursorForward, CursorBackward, VPositionRelative
<1>8. CursorCharAbsolute(t, n) = SetCursor(t, before, by) /\ LinePosAbsolute(t, n) = SetCursor(t, bx, before)
  BY DEF CursorCharAbsolute, LinePosAbsolute
<1> HIDE DEF dy, ey, zero, less, before, bx, by
<1>9. Stays(t, MoveCursor(t, zero, dy), whole) /\ Stays(t, MoveCursor(t, zero, ey), whole)
      /\ Stays(t, MoveCursor(t, n, zero), whole) /\ Stays(t, MoveCursor(t, less, zero), whole)
      /\ Stays(t, MoveCursor(t, zero, n), whole)
  BY <1>2, <1>3, MoveCursorIs
<1>10. Stays(t, SetCursor(t, before, by), whole) /\ Stays(t, SetCursor(t, bx, before), whole)
  BY <1>2, <1>4, SetCursorIs
<1> QED BY <1>5, <1>6, <1>7, <1>8, <1>9, <1>10

\* Back to the margin on the left.
LEMMA CarriageReturnIs ==
  ASSUME NEW t, NEW whole, Good(t, whole)
  PROVE  Stays(t, CarriageReturn(t), whole)
<1> DEFINE z == 0
<1>1. z \in 0 .. t.cols + 1
  BY TermIs
<1>2. CarriageReturn(t) = Put(t, AtColumn(Buf(t), z))
  BY DEF CarriageReturn, AtColumn
<1> HIDE DEF z
<1> QED BY <1>1, <1>2, ColumnStays

\* After a movement as well.
LEMMA ReturnsAre ==
  ASSUME NEW t, NEW whole, Good(t, whole), NEW n \in Int
  PROVE  /\ Stays(t, CarriageReturn(CursorUp(t, n)), whole)
         /\ Stays(t, CarriageReturn(CursorDown(t, n)), whole)
<1> DEFINE u == CursorUp(t, n)
           d == CursorDown(t, n)
<1>1. Stays(t, u, whole) /\ Stays(t, d, whole)
  BY CursorMovesAre
<1> HIDE DEF u, d
<1>2. Stays(u, CarriageReturn(u), whole) /\ Stays(d, CarriageReturn(d), whole)
  BY <1>1, CarriageReturnIs DEF Stays
<1>3. Stays(t, CarriageReturn(u), whole) /\ Stays(t, CarriageReturn(d), whole)
  BY <1>1, <1>2, StaysBoth
<1> QED BY <1>3 DEF u, d

\* Tab stops lie on the screen.
LEMMA StopsAre ==
  ASSUME NEW b, NEW x \in Int, NEW cols \in Nat \ {0, 1}
  PROVE  /\ x >= 0 => NextStop(b, x, cols) \in 0 .. cols - 1
         /\ PrevStop(b, x, cols) \in 0 .. cols - 1
<1> DEFINE further == {i \in (x + 1)..(cols - 1) : i \in b.tabs}
           behind == {i \in 1..(x - 1) : i \in b.tabs}
<1>1. ASSUME x >= 0 PROVE NextStop(b, x, cols) \in 0 .. cols - 1
  <2>1. CASE further = {}
    BY <2>1 DEF NextStop
  <2>2. CASE further # {}
    <3> DEFINE m == x + 1
    <3>1. m \in Int /\ \A i \in further : i \in Int /\ i >= m
      OBVIOUS
    <3>2. \A i \in further : i \in 0 .. cols - 1
      BY <1>1
    <3>3. NextStop(b, x, cols) = CHOOSE i \in further : \A j \in further : i <= j
      BY <2>2 DEF NextStop
    <3> HIDE DEF further, m
    <3>4. \E i \in further : \A j \in further : i <= j
      BY <2>2, <3>1, LeastIs
    <3> QED BY <3>2, <3>3, <3>4
  <2> QED BY <2>1, <2>2
<1>2. PrevStop(b, x, cols) \in 0 .. cols - 1
  <2> DEFINE at == IF behind = {} THEN 0 ELSE CHOOSE i \in behind : \A j \in behind : j <= i
  <2>1. at \in Nat
    <3>1. CASE behind = {}
      BY <3>1
    <3>2. CASE behind # {}
      <4> DEFINE m == x - 1
      <4>1. m \in Int /\ \A i \in behind : i \in Int /\ i <= m
        OBVIOUS
      <4>2. \A i \in behind : i \in Nat
        OBVIOUS
      <4>3. at = CHOOSE i \in behind : \A j \in behind : j <= i
        BY <3>2
      <4> HIDE DEF behind, m, at
      <4>4. \E i \in behind : \A j \in behind : j <= i
        BY <3>2, <4>1, GreatestIs
      <4> QED BY <4>2, <4>3, <4>4
    <3> QED BY <3>1, <3>2
  <2>2. PrevStop(b, x, cols) = LeastOf(at, cols - 1)
    BY DEF PrevStop
  <2> HIDE DEF at
  <2>3. LeastOf(at, cols - 1) \in 0 .. cols - 1
    BY <2>1 DEF LeastOf
  <2> QED BY <2>2, <2>3
<1> QED BY <1>1, <1>2

\* Tabs.
LEMMA TabsAre ==
  ASSUME NEW t, NEW whole, Good(t, whole)
  PROVE  Stays(t, ForwardTab(t), whole) /\ Stays(t, BackwardTab(t), whole)
<1> DEFINE b == Buf(t)
           bx == b.x
           cols == t.cols
           next == NextStop(b, bx, cols)
           prev == PrevStop(b, bx, cols)
<1>1. bx \in Int /\ bx >= 0 /\ cols \in Nat \ {0, 1} /\ b \in BufRec(Kind(t, whole))
  BY BufIs, TermIs
<1>2. /\ ForwardTab(t) = t \/ ForwardTab(t) = Put(t, AtColumn(b, next))
      /\ BackwardTab(t) = t \/ BackwardTab(t) = Put(t, AtColumn(b, prev))
  <2>1. [b EXCEPT !.x = NextStop(b, @, t.cols)] = AtColumn(b, next)
        /\ [b EXCEPT !.x = PrevStop(b, @, t.cols)] = AtColumn(b, prev)
    BY DEF AtColumn
  <2> QED BY <2>1 DEF ForwardTab, BackwardTab
<1> HIDE DEF b, bx, cols
<1>3. next \in 0 .. cols - 1 /\ prev \in 0 .. cols - 1
  BY <1>1, StopsAre
<1>4. next \in 0 .. t.cols + 1 /\ prev \in 0 .. t.cols + 1
  BY <1>1, <1>3 DEF cols
<1> HIDE DEF next, prev
<1>5. Stays(t, Put(t, AtColumn(b, next)), whole) /\ Stays(t, Put(t, AtColumn(b, prev)), whole)
  BY <1>4, ColumnStays DEF b
<1>6. Stays(t, t, whole)
  BY StaysSelf
<1> QED BY <1>2, <1>5, <1>6

\* Tab stops set and taken away, and the cursor saved.
LEMMA NotesAre ==
  ASSUME NEW t, NEW whole, Good(t, whole)
  PROVE  /\ Stays(t, TabSet(t), whole) /\ Stays(t, TabClear(t), whole) /\ Stays(t, TabClearAll(t), whole)
         /\ Stays(t, SaveCursor(t), whole)
<1> DEFINE b == Buf(t)
           S == Kind(t, whole)
<1>1. /\ b \in BufRec(S) /\ b.ybase \in Nat /\ b.ydisp \in Nat /\ b.ydisp <= b.ybase
      /\ b.top \in Nat /\ b.bot \in Nat /\ b.top <= b.bot /\ b.bot < t.rows
      /\ b.x \in 0 .. t.cols + 1 /\ b.y \in 0 .. t.rows - 1 /\ b.tabs \in SUBSET Int
  BY BufIs
<1>2. t.origin \in BOOLEAN /\ t.wrap \in BOOLEAN /\ t.prot \in BOOLEAN /\ t.cols \in Nat
  BY TermIs
<1> HIDE DEF b, S
<1>3. ASSUME NEW c \in BufRec(S), c.lines = b.lines,
             c.max = b.max, c.ybase = b.ybase, c.back = b.back, c.down = b.down,
             c.ydisp = b.ydisp, c.top = b.top, c.bot = b.bot, c.x = b.x, c.y = b.y
      PROVE  Stays(t, Put(t, c), whole)
  <2>1. c.ydisp \in 0 .. b.ybase /\ c.top >= 0 /\ c.top <= c.bot /\ c.bot < t.rows
    BY <1>1, <1>3
  <2>2. OnScreen(c, t.cols, t.rows)
    BY <1>1, <1>3 DEF OnScreen
  <2> QED BY <1>3, <2>1, <2>2, FrameStays DEF b, S
<1>4. ASSUME NEW T \in SUBSET Int PROVE Stays(t, Put(t, [b EXCEPT !.tabs = T]), whole)
  <2> DEFINE c == [b EXCEPT !.tabs = T]
  <2>1. c \in BufRec(S) /\ c.lines = b.lines /\
             c.max = b.max /\ c.ybase = b.ybase /\ c.back = b.back /\ c.down = b.down /\
             c.ydisp = b.ydisp /\ c.top = b.top /\ c.bot = b.bot /\ c.x = b.x /\ c.y = b.y
    BY <1>1 DEF BufRec
  <2> HIDE DEF c
  <2>2. Stays(t, Put(t, c), whole)
    BY <1>3, <2>1
  <2> QED BY <2>2 DEF c
<1>5. Stays(t, TabSet(t), whole)
  <2> DEFINE T == b.tabs \cup {b.x}
  <2>1. T \in SUBSET Int
    BY <1>1
  <2>2. TabSet(t) = Put(t, [b EXCEPT !.tabs = T])
    BY DEF TabSet, b
  <2> HIDE DEF T
  <2> QED BY <1>4, <2>1, <2>2
<1>6. Stays(t, TabClear(t), whole)
  <2> DEFINE T == b.tabs \ {b.x}
  <2>1. T \in SUBSET Int
    BY <1>1
  <2>2. TabClear(t) = Put(t, [b EXCEPT !.tabs = T])
    BY DEF TabClear, b
  <2> HIDE DEF T
  <2> QED BY <1>4, <2>1, <2>2
<1>7. Stays(t, TabClearAll(t), whole)
  <2> DEFINE T == {}
  <2>1. T \in SUBSET Int
    OBVIOUS
  <2>2. TabClearAll(t) = Put(t, [b EXCEPT !.tabs = T])
    BY DEF TabClearAll, b
  <2> HIDE DEF T
  <2> QED BY <1>4, <2>1, <2>2
<1>8. Stays(t, SaveCursor(t), whole)
  <2> DEFINE sx == b.x
             sy == b.ybase + b.y
             so == t.origin
             sw == t.wrap
             sp == t.prot
             c1 == [b EXCEPT !.sx = sx]
             c2 == [c1 EXCEPT !.sy = sy]
             c3 == [c2 EXCEPT !.so = so]
             c4 == [c3 EXCEPT !.sw = sw]
             c == [c4 EXCEPT !.sp = sp]
             Close(d) == d \in BufRec(S) /\ d.lines = b.lines /\
             d.max = b.max /\ d.ybase = b.ybase /\ d.back = b.back /\ d.down = b.down /\
             d.ydisp = b.ydisp /\ d.top = b.top /\ d.bot = b.bot /\ d.x = b.x /\ d.y = b.y
  <2>1. SaveCursor(t) = Put(t, c)
    BY DEF SaveCursor, b
  <2>2. sx \in Int /\ sy \in Int /\ so \in BOOLEAN /\ sw \in BOOLEAN /\ sp \in BOOLEAN
    BY <1>1, <1>2
  <2> HIDE DEF sx, sy, so, sw, sp
  <2>3. Close(c1)
    BY <1>1, <2>2 DEF BufRec
  <2> HIDE DEF c1
  <2>4. Close(c2)
    BY <2>2, <2>3 DEF BufRec
  <2> HIDE DEF c2
  <2>5. Close(c3)
    BY <2>2, <2>4 DEF BufRec
  <2> HIDE DEF c3
  <2>6. Close(c4)
    BY <2>2, <2>5 DEF BufRec
  <2> HIDE DEF c4
  <2>7. Close(c)
    BY <2>2, <2>6 DEF BufRec
  <2> HIDE DEF c
  <2> QED BY <1>3, <2>1, <2>7
<1> QED BY <1>5, <1>6, <1>7, <1>8

\* The saved cursor brought back, and the modes saved with it.
LEMMA RestoreCursorIs ==
  ASSUME NEW t, NEW whole, Good(t, whole)
  PROVE  Stays(t, RestoreCursor(t), whole)
<1> DEFINE b == Buf(t)
           so == b.so
           sw == b.sw
           sp == b.sp
           sx == b.sx
           sy == MostOf(b.sy - b.ybase, 0)
           m1 == [t EXCEPT !.origin = so]
           m2 == [m1 EXCEPT !.wrap = sw]
           m == [m2 EXCEPT !.prot = sp]
           S == Kind(t, whole)
           rows == t.rows
           back == Back(t)
           right == t.cols - 1
           a == AtPlace(b, sx, sy)
           c == Restricted(m, a, right)
<1>1. /\ b.so \in BOOLEAN /\ b.sw \in BOOLEAN /\ b.sp \in BOOLEAN /\ b.sx \in Int /\ b.sy \in Int /\ b.ybase \in Nat
  BY BufIs
<1>2. t \in TermRec(t.nb, t.ab) /\ rows \in Nat \ {0} /\ t.cols \in Nat \ {0, 1}
  BY TermIs
<1>3. back \in Nat /\ Framed(b, S, rows, back)
  BY Showing
<1>4. so \in BOOLEAN /\ sw \in BOOLEAN /\ sp \in BOOLEAN /\ sx \in Int /\ sy \in Int /\ right \in Nat
  BY <1>1, <1>2 DEF MostOf
<1>5. RestoreCursor(t) = Put(m, c)
  <2>1. m = [t EXCEPT !.origin = b.so, !.wrap = b.sw, !.prot = b.sp]
    OBVIOUS
  <2>2. a = [b EXCEPT !.x = b.sx, !.y = MostOf(b.sy - b.ybase, 0)]
    BY DEF AtPlace
  <2> HIDE DEF m, a, b
  <2> QED BY <2>1, <2>2 DEF RestoreCursor, b
<1> HIDE DEF so, sw, sp, sx, sy, b, S, rows, back, right
<1>6. m1 \in TermRec(t.nb, t.ab) /\ m1.cols = t.cols /\ m1.rows = t.rows /\ m1.alt = t.alt /\ m1.panic = t.panic
      /\ m1.origin = so
  BY <1>2, <1>4 DEF TermRec
<1> HIDE DEF m1
<1>7. m2 \in TermRec(t.nb, t.ab) /\ m2.cols = t.cols /\ m2.rows = t.rows /\ m2.alt = t.alt /\ m2.panic = t.panic
      /\ m2.origin = so
  BY <1>4, <1>6 DEF TermRec
<1> HIDE DEF m2
<1>8. m \in TermRec(t.nb, t.ab) /\ m.cols = t.cols /\ m.rows = t.rows /\ m.alt = t.alt /\ m.panic = t.panic
      /\ m.origin = so
  BY <1>4, <1>7 DEF TermRec
<1> HIDE DEF m
<1>9. Good(m, whole) /\ Buf(m) = b /\ Kind(m, whole) = S /\ Back(m) = back /\ Past(t.nb, m.nb)
  BY <1>8, ModesPut DEF b, S, back
<1>10. Framed(a, S, rows, back) /\ Onto(b, a)
  BY <1>2, <1>3, <1>4, AtPlaceIs
<1> HIDE DEF a
<1>11. Framed(c, S, rows, back) /\ Onto(a, c) /\ c.x \in 0 .. right /\ c.y \in 0 .. m.rows - 1
  <2>1. m.rows = rows /\ m.origin \in BOOLEAN /\ m.rows \in Nat \ {0}
    BY <1>2, <1>4, <1>8 DEF rows
  <2>2. Framed(a, S, m.rows, back)
    BY <1>10, <2>1
  <2>3. Framed(c, S, m.rows, back) /\ Onto(a, c) /\ c.x \in 0 .. right /\ c.y \in 0 .. m.rows - 1
    BY <1>3, <1>4, <2>1, <2>2, RestrictedIs
  <2> QED BY <2>1, <2>3
<1> HIDE DEF c
<1>12. Onto(b, c)
  BY <1>10, <1>11, OntoBoth
<1>13. OnScreen(c, m.cols, m.rows)
  BY <1>2, <1>8, <1>11 DEF OnScreen, right, rows
<1>14. Edited(m, c, whole)
  BY <1>8, <1>9, <1>11, <1>12, <1>13 DEF Edited, Onto, rows
<1>15. Stays(m, Put(m, c), whole)
  BY <1>9, <1>14, EditedStays
<1>16. Stays(t, m, whole)
  BY <1>8, <1>9 DEF Stays
<1>17. Stays(t, Put(m, c), whole)
  BY <1>15, <1>16, StaysBoth
<1> QED BY <1>5, <1>17

----------------------------------------------------------------------------
(* Lines that scroll *)

\* c is what b may become when text goes on: of b's history all but the oldest d
\* lines are there, and d is 0 unless the list is full.
Fed(b, c) ==
  /\ c.max = b.max /\ Len(c.lines) >= Len(b.lines)
  /\ \E d \in 0 .. b.ybase :
       /\ d > 0 => Len(c.lines) = c.max
       /\ c.ybase >= b.ybase - d
       /\ \A i \in 1 .. b.ybase - d : c.lines[i].cells = b.lines[i + d].cells

\* And the terminal.
Goes(t, u, whole) ==
  /\ Good(u, whole) /\ u.cols = t.cols /\ u.rows = t.rows /\ u.alt = t.alt
  /\ t.alt => Past(t.nb, u.nb)
  /\ ~t.alt => Fed(t.nb, u.nb)

\* A history that is kept is.
LEMMA PastFed ==
  ASSUME NEW b, NEW c, b.ybase \in Nat, Len(b.lines) \in Nat, Past(b, c), c.max = b.max
  PROVE  Fed(b, c)
<1> DEFINE d == 0
<1>1. d \in 0 .. b.ybase /\ c.ybase >= b.ybase - d /\ ~(d > 0) /\ Len(c.lines) >= Len(b.lines)
  BY DEF Past
<1>2. \A i \in 1 .. b.ybase - d : c.lines[i].cells = b.lines[i + d].cells
  <2>1. ASSUME NEW i \in 1 .. b.ybase - d PROVE c.lines[i].cells = b.lines[i + d].cells
    <3>1. i \in 1 .. b.ybase /\ i + d = i
      OBVIOUS
    <3> QED BY <3>1 DEF Past
  <2> QED BY <2>1
<1> HIDE DEF d
<1> QED BY <1>1, <1>2 DEF Fed

\* One after the other.
LEMMA FedBoth ==
  ASSUME NEW b, NEW c, NEW e, b.ybase \in Nat, c.ybase \in Nat, e.ybase \in Nat, Len(b.lines) \in Nat,
         Len(c.lines) \in Nat, Len(e.lines) \in Nat, Len(e.lines) <= e.max, e.max \in Nat,
         Fed(b, c), Fed(c, e)
  PROVE  Fed(b, e)
<1>1. PICK d1 \in 0 .. b.ybase :
        /\ d1 > 0 => Len(c.lines) = c.max
        /\ c.ybase >= b.ybase - d1
        /\ \A i \in 1 .. b.ybase - d1 : c.lines[i].cells = b.lines[i + d1].cells
  BY DEF Fed
<1>2. PICK d2 \in 0 .. c.ybase :
        /\ d2 > 0 => Len(e.lines) = e.max
        /\ e.ybase >= c.ybase - d2
        /\ \A i \in 1 .. c.ybase - d2 : e.lines[i].cells = c.lines[i + d2].cells
  BY DEF Fed
<1>3. c.max = b.max /\ e.max = b.max /\ Len(c.lines) >= Len(b.lines) /\ Len(e.lines) >= Len(c.lines)
  BY DEF Fed
<1> DEFINE d == IF d1 + d2 <= b.ybase THEN d1 + d2 ELSE b.ybase
<1>4. d \in 0 .. b.ybase /\ d1 \in Nat /\ d2 \in Nat
  OBVIOUS
<1>5. d > 0 => Len(e.lines) = e.max
  BY <1>1, <1>2, <1>3
<1>6. e.ybase >= b.ybase - d
  BY <1>1, <1>2, <1>4
<1>7. ASSUME NEW i \in 1 .. b.ybase - d PROVE e.lines[i].cells = b.lines[i + d].cells
  <2>1. d = d1 + d2 /\ i \in 1 .. c.ybase - d2 /\ i + d2 \in 1 .. b.ybase - d1 /\ (i + d2) + d1 = i + d
    <3> DEFINE y == b.ybase
               z == c.ybase
    <3>1. y \in Nat /\ z \in Nat /\ z >= y - d1 /\ d1 \in Nat /\ d2 \in Nat
      BY <1>1, <1>4
    <3>2. d = IF d1 + d2 <= y THEN d1 + d2 ELSE y
      OBVIOUS
    <3>3. i \in Int /\ 1 <= i /\ i <= y - d /\ d \in Nat
      BY <1>4
    <3> HIDE DEF y, z, d
    <3>4. d = d1 + d2
      BY ONLY <3>1, <3>2, <3>3
    <3>5. i \in 1 .. z - d2 /\ i + d2 \in 1 .. y - d1 /\ (i + d2) + d1 = i + d
      BY ONLY <3>1, <3>3, <3>4
    <3> QED BY <3>4, <3>5 DEF y, z
  <2> QED BY <1>1, <1>2, <2>1
<1> HIDE DEF d
<1>8. e.max = b.max /\ Len(e.lines) >= Len(b.lines)
  BY <1>3
<1> QED BY <1>4, <1>5, <1>6, <1>7, <1>8 DEF Fed

\* A buffer without its list, history or view.
Relined(b, lines, base, disp) == [b EXCEPT !.lines = lines, !.ybase = base, !.ydisp = disp]

\* With others it is framed if they fit.
LEMMA RelinedIs ==
  ASSUME NEW S, NEW rows \in Nat \ {0}, NEW back \in Nat, NEW b, Framed(b, S, rows, back),
         NEW lines \in Seq(S), NEW base \in Nat, NEW disp \in 0 .. base,
         base + rows <= Len(lines), Len(lines) <= b.max
  PROVE  LET c == Relined(b, lines, base, disp) IN
         /\ Framed(c, S, rows, back) /\ c.lines = lines /\ c.ybase = base /\ c.x = b.x /\ c.y = b.y /\ c.max = b.max
         /\ c.top = b.top /\ c.bot = b.bot
<1> DEFINE c1 == [b EXCEPT !.lines = lines]
           c2 == [c1 EXCEPT !.ybase = base]
           c == [c2 EXCEPT !.ydisp = disp]
           Close(d) == /\ d \in BufRec(S) /\ d.lines = lines /\ d.max = b.max /\ d.back = b.back /\ d.down = b.down
                       /\ d.top = b.top /\ d.bot = b.bot /\ d.x = b.x /\ d.y = b.y
<1>1. b \in BufRec(S) /\ base \in Int /\ disp \in Int
  BY DEF Framed
<1>2. Close(c1)
  BY <1>1 DEF BufRec
<1>3. Relined(b, lines, base, disp) = c
  BY DEF Relined
<1> HIDE DEF c1
<1>4. Close(c2) /\ c2.ybase = base
  BY <1>1, <1>2 DEF BufRec
<1> HIDE DEF c2
<1>5. Close(c) /\ c.ybase = base /\ c.ydisp = disp
  BY <1>1, <1>4 DEF BufRec
<1> HIDE DEF c
<1>6. Framed(c, S, rows, back)
  BY <1>5 DEF Framed
<1> QED BY <1>3, <1>5, <1>6

\* One line up.
LEMMA ScrolledIs ==
  ASSUME NEW S, NEW rows \in Nat \ {0}, NEW back \in Nat, NEW b, Framed(b, S, rows, back),
         NEW t, NEW wr, BlankLine(t.cols, wr) \in S
  PROVE  LET c == Scrolled(t, b, wr) IN
         Framed(c, S, rows, back) /\ Fed(b, c) /\ c.x = b.x /\ c.y = b.y /\ c.top = b.top /\ c.bot = b.bot
<1> DEFINE new == BlankLine(t.cols, wr)
           l == b.lines
           max == b.max
           base0 == b.ybase
           top == b.top
           bot == b.bot
           bottom == base0 + bot
           full == Len(l) = max
           start == base0 + top + 1
           count == bot - top
           below == bottom + 1
           less == -1
           shift == ListShift(l, start, count, less)
           base == IF top = 0 /\ ~full THEN base0 + 1 ELSE base0
           lines == IF top > 0 THEN [shift EXCEPT ![bottom + 1] = new]
                    ELSE IF bottom = Len(l) - 1 THEN ListPush(l, max, new)
                    ELSE ListSplice(l, max, below, 0, <<new>>)
           disp == IF ~t.usr THEN base ELSE IF top = 0 /\ full THEN MostOf(b.ydisp - 1, 0) ELSE b.ydisp
           c == Relined(b, lines, base, disp)
<1>1. Scrolled(t, b, wr) = c
  <2>1. [b EXCEPT !.lines = lines, !.ybase = base,
               !.ydisp = IF ~t.usr THEN base ELSE IF b.top = 0 /\ full THEN MostOf(@ - 1, 0) ELSE @] = c
    BY DEF Relined
  <2> QED BY <2>1 DEF Scrolled
<1>2. /\ l \in Seq(S) /\ Len(l) \in Nat /\ max \in Nat \ {0} /\ base0 \in Nat /\ b.ydisp \in Nat /\ b.ydisp <= base0
      /\ top \in Nat /\ bot \in Nat /\ top <= bot /\ bot < rows /\ base0 + rows <= Len(l) /\ Len(l) <= max
      /\ new \in S
  BY FrameIs
<1> HIDE DEF new, l, max, base0, top, bot
<1>3. disp \in 0 .. base /\ base \in Nat
  BY <1>2 DEF MostOf
<1>4. ASSUME lines \in Seq(S), Len(lines) = (IF top = 0 /\ ~full THEN Len(l) + 1 ELSE Len(l)),
             top > 0 \/ ~full => \A i \in 1 .. base0 : lines[i] = l[i],
             top = 0 /\ full => \A i \in 1 .. base0 - 1 : lines[i] = l[i + 1]
      PROVE  Framed(c, S, rows, back) /\ Fed(b, c) /\ c.x = b.x /\ c.y = b.y /\ c.top = b.top /\ c.bot = b.bot
  <2> HIDE DEF lines, disp
  <2>1. base + rows <= Len(lines) /\ Len(lines) <= max /\ Len(lines) >= Len(l)
    BY <1>2, <1>4
  <2>2. Framed(c, S, rows, back) /\ c.lines = lines /\ c.ybase = base /\ c.x = b.x /\ c.y = b.y /\ c.max = max
        /\ c.top = b.top /\ c.bot = b.bot
    <3> HIDE DEF base
    <3>1. Len(lines) <= b.max
      BY <2>1 DEF max
    <3> QED BY <1>3, <1>4, <2>1, <3>1, RelinedIs DEF max
  <2> HIDE DEF c
  <2> DEFINE d == IF top = 0 /\ full /\ base0 > 0 THEN 1 ELSE 0
  <2>3. d \in 0 .. base0 /\ (d > 0 => Len(lines) = max) /\ base >= base0 - d
    BY <1>2, <1>4
  <2>4. ASSUME NEW i \in 1 .. base0 - d PROVE lines[i] = l[i + d]
    <3>1. CASE top = 0 /\ full
      <4>1. d = 1 /\ i \in 1 .. base0 - 1
        BY <1>2, <3>1
      <4> QED BY <1>4, <3>1, <4>1
    <3>2. CASE ~(top = 0 /\ full)
      <4>1. d = 0 /\ i \in 1 .. base0 /\ i + d = i /\ (top > 0 \/ ~full)
        BY <1>2, <3>2
      <4> QED BY <1>4, <4>1
    <3> QED BY <3>1, <3>2
  <2> HIDE DEF d
  <2>5. Fed(b, c)
    <3>1. c.max = b.max /\ Len(c.lines) >= Len(b.lines)
      BY <2>1, <2>2 DEF l, max
    <3>2. d \in 0 .. b.ybase /\ (d > 0 => Len(c.lines) = c.max) /\ c.ybase >= b.ybase - d
      BY <2>2, <2>3 DEF base0
    <3>3. \A i \in 1 .. b.ybase - d : c.lines[i].cells = b.lines[i + d].cells
      BY <2>2, <2>4 DEF base0, l
    <3> QED BY <3>1, <3>2, <3>3 DEF Fed
  <2> QED BY <2>2, <2>5
<1>5. CASE top > 0
  <2>1. start \in Nat /\ count \in Int /\ start + count <= Len(l) /\ less \in Int /\ bottom + 1 \in 1 .. Len(l)
    BY <1>2
  <2> DEFINE low == start
  <2>2. \A i \in 1 .. base0 : i \in 1 .. Len(l) /\ i - 1 - less \notin start .. (start + count - 1) /\ i # bottom + 1
    BY <1>2, <1>5
  <2> HIDE DEF start, count, less, low
  <2>3. shift \in Seq(S) /\ Len(shift) = Len(l)
        /\ \A i \in 1 .. Len(l) : i - 1 - less \notin start .. (start + count - 1) => shift[i] = l[i]
    <3>1. l \in Seq(S) /\ start \in Nat /\ count \in Int /\ less \in Int /\ start + count <= Len(l)
      BY <1>2, <2>1
    <3> HIDE DEF c, lines, disp, base, full, bottom
    <3>2. LET r == shift IN r \in Seq(S) /\ Len(r) = Len(l)
          /\ \A i \in 1 .. Len(l) : i - 1 - less \notin start .. (start + count - 1) => r[i] = l[i]
      BY ONLY <3>1, ListShiftIs
    <3> QED BY <3>2
  <2> HIDE DEF shift
  <2> DEFINE k == bottom + 1
  <2>4. k \in 1 .. Len(shift)
    BY <2>1, <2>3
  <2> DEFINE m == [shift EXCEPT ![k] = new]
  <2>5. lines = m
    BY <1>5
  <2> HIDE DEF k
  <2>6. m \in Seq(S) /\ Len(m) = Len(shift) /\ \A j \in 1 .. Len(shift) : m[j] = IF j = k THEN new ELSE shift[j]
    BY <1>2, <2>3, <2>4, OneItem
  <2> HIDE DEF m, lines
  <2>7. \A i \in 1 .. base0 : m[i] = l[i]
    BY <2>2, <2>3, <2>6 DEF k
  <2>8. ~(top = 0)
    BY <1>2, <1>5
  <2>9. /\ lines \in Seq(S) /\ Len(lines) = (IF top = 0 /\ ~full THEN Len(l) + 1 ELSE Len(l))
        /\ top > 0 \/ ~full => \A i \in 1 .. base0 : lines[i] = l[i]
        /\ top = 0 /\ full => \A i \in 1 .. base0 - 1 : lines[i] = l[i + 1]
    BY <2>3, <2>5, <2>6, <2>7, <2>8
  <2> QED BY <1>1, <1>4, <2>9
<1>6. CASE top = 0 /\ bottom = Len(l) - 1
  <2> DEFINE m == ListPush(l, max, new)
  <2>1. /\ m \in Seq(S) /\ Len(m) = IF full THEN max ELSE Len(l) + 1
        /\ \A i \in 1 .. Len(l) - 1 : m[i] = IF full THEN l[i + 1] ELSE l[i]
    BY <1>2, ListPushIs
  <2>2. lines = m
    BY <1>2, <1>6
  <2>3. \A i \in 1 .. base0 : i \in 1 .. Len(l) - 1 
    BY <1>2, <1>6
  <2>4. \A i \in 1 .. base0 - 1 : i \in 1 .. Len(l) - 1 
    BY <1>2, <1>6
  <2> HIDE DEF m, lines
  <2>5. ~(top > 0)
    BY <1>6
  <2>6. /\ lines \in Seq(S) /\ Len(lines) = (IF top = 0 /\ ~full THEN Len(l) + 1 ELSE Len(l))
        /\ top > 0 \/ ~full => \A i \in 1 .. base0 : lines[i] = l[i]
        /\ top = 0 /\ full => \A i \in 1 .. base0 - 1 : lines[i] = l[i + 1]
    BY <1>6, <2>1, <2>2, <2>3, <2>4, <2>5
  <2> QED BY <1>1, <1>4, <2>6
<1>7. CASE top = 0 /\ bottom # Len(l) - 1
  <2> DEFINE m == ListSplice(l, max, below, 0, <<new>>)
  <2>1. below \in 0 .. Len(l)
    BY <1>2
  <2>2. \A i \in 1 .. base0 : i \in 1 .. Len(l) /\ i <= below /\ i < below
    BY <1>2
  <2>3. lines = m
    BY <1>2, <1>7
  <2> HIDE DEF below
  <2>4. /\ m \in Seq(S) /\ Len(m) = IF full THEN max ELSE Len(l) + 1
        /\ \A i \in 1 .. Len(l) : i <= below /\ ~full => m[i] = l[i]
        /\ \A i \in 1 .. Len(l) : i < below /\ full => m[i] = l[i + 1]
    BY <1>2, <2>1, ListInsert
  <2> HIDE DEF m, lines
  <2>5. ~(top > 0)
    BY <1>7
  <2>6. \A i \in 1 .. base0 - 1 : i \in 1 .. base0
    BY <1>2
  <2>7. /\ lines \in Seq(S) /\ Len(lines) = (IF top = 0 /\ ~full THEN Len(l) + 1 ELSE Len(l))
        /\ top > 0 \/ ~full => \A i \in 1 .. base0 : lines[i] = l[i]
        /\ top = 0 /\ full => \A i \in 1 .. base0 - 1 : lines[i] = l[i + 1]
    BY <1>7, <2>2, <2>3, <2>4, <2>5, <2>6
  <2> QED BY <1>1, <1>4, <2>7
<1>8. top > 0 \/ (top = 0 /\ bottom = Len(l) - 1) \/ (top = 0 /\ bottom # Len(l) - 1)
  BY <1>2
<1> QED BY <1>5, <1>6, <1>7, <1>8

\* A line no longer continues the one above: no cell changes.
LEMMA UnwrapIs ==
  ASSUME NEW cols, NEW exact, NEW whole, NEW rows \in Nat \ {0}, NEW back \in Nat, NEW b,
         Framed(b, RowsOf(cols, exact, whole), rows, back), NEW i \in Nat
  PROVE  LET c == Unwrap(b, i) IN
         /\ Framed(c, RowsOf(cols, exact, whole), rows, back) /\ Onto(b, c) /\ c.x = b.x /\ c.y = b.y /\ c.max = b.max
<1> DEFINE S == RowsOf(cols, exact, whole)
           m == b.max
           k == i % m
           at == k + 1
           r == b.lines[at]
           no == FALSE
           e == Marked(r, no)
           l == [b.lines EXCEPT ![at] = e]
           c == [b EXCEPT !.lines = l]
<1>1. /\ m \in Nat \ {0} /\ b.lines \in Seq(S) /\ Len(b.lines) \in Nat /\ b \in BufRec(S) /\ b.ybase + rows <= Len(b.lines)
      /\ b.ybase \in Nat /\ \A j \in 1 .. Len(b.lines) : b.lines[j] \in S
  BY FrameIs
<1>2. CASE k < Len(b.lines)
  <2>1. k \in 0 .. m - 1
    <3> HIDE DEF m
    <3> QED BY <1>1, RestInside
  <2>2. at \in 1 .. Len(b.lines)
    BY <1>1, <1>2, <2>1
  <2>3. r \in S
    BY <1>1, <2>2
  <2>4. Unwrap(b, i) = c
    <3>1. c = [b EXCEPT !.lines[k + 1] = [@ EXCEPT !.wr = FALSE]]
      BY <1>1 DEF BufRec, Marked
    <3> QED BY <1>2, <3>1 DEF Unwrap
  <2> HIDE DEF at, r
  <2>5. e \in S /\ e.cells = r.cells
    <3>1. no \in BOOLEAN
      OBVIOUS
    <3> HIDE DEF no
    <3> QED BY <2>3, <3>1, MarkedIs
  <2> HIDE DEF e, S
  <2>6. l \in Seq(S) /\ Len(l) = Len(b.lines) /\ \A j \in 1 .. Len(b.lines) : l[j] = IF j = at THEN e ELSE b.lines[j]
    BY <1>1, <2>2, <2>5, OneItem
  <2> HIDE DEF l
  <2>7. \A j \in 1 .. b.ybase : l[j].cells = b.lines[j].cells
    <3>1. ASSUME NEW j \in 1 .. b.ybase PROVE l[j].cells = b.lines[j].cells
      <4>1. j \in 1 .. Len(b.lines)
        BY <1>1
      <4> QED BY <2>5, <2>6, <4>1 DEF r
    <3> QED BY <3>1
  <2>8. Framed(c, S, rows, back) /\ Onto(b, c) /\ c.x = b.x /\ c.y = b.y /\ c.max = b.max
    <3>1. Framed(b, S, rows, back)
      BY DEF S
    <3> QED BY <2>6, <2>7, <3>1, LinesPut
  <2> QED BY <2>4, <2>8 DEF S
<1>3. CASE ~(k < Len(b.lines))
  <2>1. Unwrap(b, i) = b
    BY <1>3 DEF Unwrap
  <2> QED BY <2>1, OntoSelf
<1> QED BY <1>2, <1>3

\* A row of the screen that continues the one above.
LEMMA WrapPut ==
  ASSUME NEW cols, NEW exact, NEW whole, NEW rows \in Nat \ {0}, NEW back \in Nat, NEW b,
         Framed(b, RowsOf(cols, exact, whole), rows, back), NEW y \in 0 .. rows - 1
  PROVE  LET c == SetRow(b, y, [Row(b, y) EXCEPT !.wr = TRUE]) IN
         /\ Framed(c, RowsOf(cols, exact, whole), rows, back) /\ Onto(b, c) /\ c.x = b.x /\ c.y = b.y /\ c.max = b.max
<1> DEFINE S == RowsOf(cols, exact, whole)
           r == Row(b, y)
           yes == TRUE
           e == Marked(r, yes)
           c == SetRow(b, y, e)
<1>1. r \in S
  BY RowIs
<1> HIDE DEF r
<1>2. e \in S
  <2>1. yes \in BOOLEAN
    OBVIOUS
  <2> HIDE DEF yes
  <2> QED BY <1>1, <2>1, MarkedIs
<1> HIDE DEF e, S
<1>3. Framed(b, S, rows, back)
  BY DEF S
<1>4. Framed(c, S, rows, back) /\ Onto(b, c) /\ c.x = b.x /\ c.y = b.y /\ c.max = b.max
  BY <1>2, <1>3, SetRowIs
<1> QED BY <1>4 DEF S, c, e, r, Marked

\* What keeps the history feeds nothing.
LEMMA OntoFed ==
  ASSUME NEW S, NEW rows \in Nat \ {0}, NEW back \in Nat, NEW b, Framed(b, S, rows, back), NEW c, Onto(b, c),
         c.max = b.max
  PROVE  Fed(b, c)
<1>1. b.ybase \in Nat /\ Len(b.lines) \in Nat
  BY FrameIs
<1> QED BY <1>1, PastFed DEF Onto

\* One row down.
LEMMA DownIs ==
  ASSUME NEW cols \in Nat, NEW exact \in BOOLEAN, NEW whole \in BOOLEAN, NEW rows \in Nat \ {0}, NEW back \in Nat,
         NEW b, Framed(b, RowsOf(cols, exact, whole), rows, back), b.y \in 0 .. rows - 1,
         NEW t, t.cols = cols, t.rows = rows, NEW mark \in {"wraps", "ends", "keeps"}
  PROVE  LET c == Down(t, b, mark) IN
         /\ Framed(c, RowsOf(cols, exact, whole), rows, back) /\ Fed(b, c) /\ c.x = b.x /\ c.y \in 0 .. rows - 1
<1> DEFINE S == RowsOf(cols, exact, whole)
           wr == mark = "wraps"
           y == LeastOf(b.y + 1, t.rows - 1)
           next == AtRow(b, y)
           c == Down(t, b, mark)
<1>0. wr \in BOOLEAN /\ Framed(b, S, rows, back)
  OBVIOUS
<1>1. CASE b.y = b.bot
  <2>1. c = Scrolled(t, b, wr)
    BY <1>1 DEF Down
  <2>2. BlankLine(t.cols, wr) \in S
    <3> HIDE DEF wr
    <3> QED BY <1>0, BlankLineIs
  <2> DEFINE s == Scrolled(t, b, wr)
  <2> HIDE DEF S, wr
  <2>3. Framed(s, S, rows, back) /\ Fed(b, s) /\ s.x = b.x /\ s.y = b.y
    BY <1>0, <2>2, ScrolledIs
  <2> QED BY <2>1, <2>3 DEF S
<1>2. CASE b.y # b.bot
  <2>1. y \in 0 .. rows - 1 /\ y \in Int
    BY DEF LeastOf
  <2>2. next = [b EXCEPT !.y = LeastOf(@ + 1, t.rows - 1)]
    BY DEF AtRow
  <2> HIDE DEF S, y
  <2>3. Framed(next, S, rows, back) /\ Onto(b, next) /\ next.x = b.x /\ next.y = y /\ next.max = b.max
    BY <1>0, <2>1, AtRowIs
  <2>4. Fed(b, next)
    BY <1>0, <2>3, OntoFed
  <2>5. CASE mark = "wraps"
    <3> DEFINE w == SetRow(next, y, [Row(next, y) EXCEPT !.wr = TRUE])
    <3>1. c = w
      <4> HIDE DEF next
      <4>1. c = SetRow(next, next.y, [Row(next, next.y) EXCEPT !.wr = TRUE])
        BY <1>2, <2>2, <2>5 DEF Down
      <4> QED BY <2>3, <4>1
    <3> HIDE DEF next
    <3>2. Framed(w, S, rows, back) /\ Onto(next, w) /\ w.x = next.x /\ w.y = next.y /\ w.max = next.max
      BY <2>1, <2>3, WrapPut DEF S
    <3> HIDE DEF w
    <3>3. Onto(b, w) /\ w.max = b.max
      BY <2>3, <3>2, OntoBoth
    <3>4. Fed(b, w)
      BY <1>0, <3>3, OntoFed
    <3> QED BY <2>1, <2>3, <3>1, <3>2, <3>4 DEF S
  <2>6. CASE mark = "keeps"
    <3>1. c = next
      <4> HIDE DEF next
      <4> QED BY <1>2, <2>2, <2>6 DEF Down
    <3> HIDE DEF next
    <3> QED BY <2>1, <2>3, <2>4, <3>1 DEF S
  <2>7. CASE mark = "ends"
    <3> DEFINE line == next.ybase + next.y
               w == Unwrap(next, line)
    <3>1. c = IF b.y + 1 < t.rows THEN w ELSE next
      <4> HIDE DEF next
      <4> QED BY <1>2, <2>2, <2>7 DEF Down
    <3> HIDE DEF next
    <3>2. line \in Nat
      <4>1. next.ybase \in Nat
        BY <2>3, FrameIs
      <4> QED BY <2>1, <2>3, <4>1
    <3> HIDE DEF line
    <3>3. Framed(w, S, rows, back) /\ Onto(next, w) /\ w.x = next.x /\ w.y = next.y /\ w.max = next.max
      <4>1. /\ Framed(next, RowsOf(cols, exact, whole), rows, back)
            /\ rows \in Nat \ {0} /\ back \in Nat /\ line \in Nat
        BY <2>3, <3>2 DEF S
      <4>2. Framed(w, RowsOf(cols, exact, whole), rows, back) /\ Onto(next, w) /\ w.x = next.x /\ w.y = next.y /\ w.max = next.max
        BY ONLY <4>1, UnwrapIs
      <4> QED BY <4>2 DEF S
    <3> HIDE DEF w
    <3>4. Onto(b, w) /\ w.max = b.max
      BY <2>3, <3>3, OntoBoth
    <3>5. Fed(b, w)
      BY <1>0, <3>4, OntoFed
    <3> QED BY <2>1, <2>3, <2>4, <3>1, <3>3, <3>5 DEF S
  <2> QED BY <2>5, <2>6, <2>7
<1> QED BY <1>1, <1>2

\* A shown buffer fed is a terminal fed.
LEMMA FedGoes ==
  ASSUME NEW t, NEW whole, Good(t, whole), NEW c, Framed(c, Kind(t, whole), t.rows, Back(t)),
         OnScreen(c, t.cols, t.rows), Fed(Buf(t), c)
  PROVE  Goes(t, Put(t, c), whole)
<1> DEFINE u == Put(t, c)
<1>1. Good(u, whole) /\ u.cols = t.cols /\ u.rows = t.rows /\ u.alt = t.alt
      /\ u.nb = IF t.alt THEN t.nb ELSE c
  BY PutIs
<1> HIDE DEF u
<1>2. t.alt => Past(t.nb, u.nb)
  BY <1>1, OntoSelf
<1>3. ~t.alt => Fed(t.nb, u.nb)
  BY <1>1 DEF Buf
<1> QED BY <1>1, <1>2, <1>3 DEF Goes, u

\* What stays goes.
LEMMA StaysGoes ==
  ASSUME NEW t, NEW u, NEW whole, Good(t, whole), Stays(t, u, whole), u.alt = t.alt
  PROVE  Goes(t, u, whole)
<1> DEFINE S == RowsOf(t.cols, Scrollback > 0, whole)
           rows == t.rows
           b == t.nb
           c == u.nb
<1>1. rows \in Nat \ {0}
  BY TermIs
<1>2. Framed(b, S, rows, Scrollback) /\ Past(b, c) /\ Framed(c, RowsOf(u.cols, Scrollback > 0, whole), u.rows, Scrollback)
      /\ u.rows = rows
  BY DEF Good, Stays
<1> HIDE DEF S, rows, b, c
<1>3. b.ybase \in Nat /\ Len(b.lines) \in Nat
  BY <1>1, <1>2, ScreenAssumption, FrameIs
<1>4. c.max = b.max
  BY <1>2 DEF Framed
<1>5. Fed(b, c)
  BY <1>2, <1>3, <1>4, PastFed
<1> QED BY <1>5 DEF Goes, Stays, b, c

\* One after the other.
LEMMA GoesBoth ==
  ASSUME NEW t, NEW u, NEW v, NEW whole, Good(t, whole), Goes(t, u, whole), Goes(u, v, whole)
  PROVE  Goes(t, v, whole)
<1> DEFINE Normal(s) == s.nb.ybase \in Nat /\ Len(s.nb.lines) \in Nat /\ Len(s.nb.lines) <= s.nb.max /\ s.nb.max \in Nat
<1>1. ASSUME NEW s, Good(s, whole) PROVE Normal(s)
  <2> DEFINE S == RowsOf(s.cols, Scrollback > 0, whole)
             rows == s.rows
             b == s.nb
  <2>1. rows \in Nat \ {0} /\ Framed(b, S, rows, Scrollback)
    BY <1>1, TermIs DEF Good
  <2> HIDE DEF S, rows, b
  <2>2. b.ybase \in Nat /\ Len(b.lines) \in Nat /\ Len(b.lines) <= b.max /\ b.max \in Nat \ {0}
    BY <2>1, ScreenAssumption, FrameIs
  <2> QED BY <2>2 DEF b
<1>2. Good(u, whole) /\ Good(v, whole)
  BY DEF Goes
<1>3. Normal(t) /\ Normal(u) /\ Normal(v)
  BY <1>1, <1>2
<1>4. ASSUME ~t.alt PROVE Fed(t.nb, v.nb)
  <2> DEFINE b == t.nb
             c == u.nb
             e == v.nb
  <2>1. Fed(b, c) /\ Fed(c, e)
    BY <1>4 DEF Goes
  <2>2. b.ybase \in Nat /\ c.ybase \in Nat /\ e.ybase \in Nat /\ Len(b.lines) \in Nat /\
         Len(c.lines) \in Nat /\ Len(e.lines) \in Nat /\ Len(e.lines) <= e.max /\ e.max \in Nat
    BY <1>3
  <2> HIDE DEF b, c, e
  <2>3. Fed(b, e)
    BY <2>1, <2>2, FedBoth
  <2> QED BY <2>3 DEF b, e
<1>5. ASSUME t.alt PROVE Past(t.nb, v.nb)
  <2>1. Past(t.nb, u.nb) /\ Past(u.nb, v.nb)
    BY <1>5 DEF Goes
  <2> QED BY <2>1 DEF Past
<1> QED BY <1>4, <1>5 DEF Goes

\* The lines of the shown buffer are those of RowsOf.
LEMMA DownGoes ==
  ASSUME NEW t, NEW whole \in BOOLEAN, Good(t, whole), NEW b, Framed(b, Kind(t, whole), t.rows, Back(t)),
         b.y \in 0 .. t.rows - 1, NEW mark \in {"wraps", "ends", "keeps"}
  PROVE  LET c == Down(t, b, mark) IN
         /\ Framed(c, Kind(t, whole), t.rows, Back(t)) /\ Fed(b, c) /\ c.x = b.x /\ c.y \in 0 .. t.rows - 1
<1> DEFINE cols == t.cols
           rows == t.rows
           back == Back(t)
           exact == ~t.alt /\ Scrollback > 0
           c == Down(t, b, mark)
<1>1. /\ cols \in Nat /\ rows \in Nat \ {0} /\ back \in Nat /\ exact \in BOOLEAN /\ t.cols = cols /\ t.rows = rows
      /\ b.y \in 0 .. rows - 1 /\ Framed(b, RowsOf(cols, exact, whole), rows, back)
  BY TermIs, Showing DEF Kind
<1> HIDE DEF cols, rows, back, exact
<1>2. Framed(c, RowsOf(cols, exact, whole), rows, back) /\ Fed(b, c) /\ c.x = b.x /\ c.y \in 0 .. rows - 1
  BY <1>1, DownIs
<1> QED BY <1>2 DEF cols, rows, back, exact, Kind

\* What a cursor does not reach is fed.
LEMMA FedThen ==
  ASSUME NEW S, NEW rows \in Nat \ {0}, NEW back \in Nat, NEW a, NEW b, NEW c,
         Framed(a, S, rows, back), Framed(b, S, rows, back), Framed(c, S, rows, back), Fed(a, b), Fed(b, c)
  PROVE  Fed(a, c)
<1>1. a.ybase \in Nat /\ b.ybase \in Nat /\ c.ybase \in Nat /\ Len(a.lines) \in Nat /\
         Len(b.lines) \in Nat /\ Len(c.lines) \in Nat /\ Len(c.lines) <= c.max /\ c.max \in Nat
  BY FrameIs
<1> QED BY <1>1, FedBoth

\* A line feed.
LEMMA LineFeedIs ==
  ASSUME NEW t, NEW whole \in BOOLEAN, Good(t, whole)
  PROVE  Goes(t, LineFeed(t), whole) /\ LineFeed(t).panic = t.panic
<1> DEFINE S == Kind(t, whole)
           rows == t.rows
           back == Back(t)
           a == Buf(t)
           x == IF t.eol THEN 0 ELSE a.x
           b == AtColumn(a, x)
           mark == "ends"
           d == Down(t, b, mark)
           z == IF d.x >= t.cols THEN d.x - 1 ELSE d.x
           c == AtColumn(d, z)
<1>1. /\ rows \in Nat \ {0} /\ back \in Nat /\ t.cols \in Nat \ {0, 1} /\ Framed(a, S, rows, back) /\ t.eol \in BOOLEAN
      /\ a.x \in 0 .. t.cols + 1 /\ a.y \in 0 .. rows - 1
  BY TermIs, Showing DEF OnScreen
<1>2. LineFeed(t) = Put(t, c)
  BY DEF LineFeed, AtColumn
<1>3. x \in 0 .. t.cols + 1 /\ x \in Int
  BY <1>1
<1> HIDE DEF S, a, x
<1>4. Framed(b, S, rows, back) /\ Onto(a, b) /\ b.x = x /\ b.y = a.y /\ b.max = a.max
  <2> HIDE DEF rows, back
  <2> QED BY <1>1, <1>3, AtColumnIs
<1> HIDE DEF b
<1>5. Framed(d, S, rows, back) /\ Fed(b, d) /\ d.x = x /\ d.y \in 0 .. rows - 1
  <2>1. mark \in {"wraps", "ends", "keeps"} /\ b.y \in 0 .. t.rows - 1 /\ Framed(b, Kind(t, whole), t.rows, Back(t))
    BY <1>1, <1>4 DEF S
  <2> HIDE DEF mark
  <2> QED BY <1>4, <2>1, DownGoes DEF S
<1> HIDE DEF d
<1>6. z \in Int /\ z \in 0 .. t.cols + 1
  BY <1>1, <1>3, <1>5
<1> HIDE DEF z
<1>7. Framed(c, S, rows, back) /\ Onto(d, c) /\ c.x = z /\ c.y = d.y /\ c.max = d.max
  <2> HIDE DEF rows, back
  <2> QED BY <1>1, <1>5, <1>6, AtColumnIs
<1> HIDE DEF c, rows, back
<1>8. Fed(a, b)
  BY <1>1, <1>4, OntoFed
<1>9. Fed(a, d)
  BY <1>1, <1>4, <1>5, <1>8, FedThen
<1>10. Fed(d, c)
  BY <1>1, <1>5, <1>7, OntoFed
<1>11. Fed(a, c)
  BY <1>1, <1>5, <1>7, <1>9, <1>10, FedThen
<1>12. OnScreen(c, t.cols, t.rows)
  BY <1>5, <1>6, <1>7 DEF OnScreen, rows
<1>13. Goes(t, Put(t, c), whole)
  BY <1>7, <1>11, <1>12, FedGoes DEF S, rows, back, a
<1>14. Put(t, c).panic = t.panic
  BY <1>7, <1>12, PutIs DEF S, rows, back
<1> QED BY <1>2, <1>13, <1>14

\* The cursor one row down.
LEMMA IndexIs ==
  ASSUME NEW t, NEW whole \in BOOLEAN, Good(t, whole)
  PROVE  Goes(t, Index(t), whole) /\ Index(t).panic = t.panic
<1> DEFINE S == Kind(t, whole)
           rows == t.rows
           back == Back(t)
           a == Buf(t)
           b == Here(t)
           mark == "keeps"
           d == Down(t, b, mark)
           right == t.cols - 1
           c == Restricted(t, d, right)
<1>1. /\ rows \in Nat \ {0} /\ back \in Nat /\ t.cols \in Nat \ {0, 1} /\ Framed(a, S, rows, back) /\ t.origin \in BOOLEAN
  BY TermIs, Showing
<1>2. Index(t) = Put(t, c)
  BY DEF Index
<1> HIDE DEF S, a
<1>4. Framed(b, S, rows, back) /\ Onto(a, b) /\ b.y \in 0 .. rows - 1 /\ b.max = a.max
  BY HereIs DEF S, a
<1> HIDE DEF b
<1>5. Framed(d, S, rows, back) /\ Fed(b, d) /\ d.y \in 0 .. rows - 1
  <2>1. mark \in {"wraps", "ends", "keeps"} /\ b.y \in 0 .. t.rows - 1 /\ Framed(b, Kind(t, whole), t.rows, Back(t))
    BY <1>1, <1>4 DEF S
  <2> HIDE DEF mark
  <2> QED BY <1>4, <2>1, DownGoes DEF S
<1> HIDE DEF d
<1>6. right \in Nat
  BY <1>1
<1> HIDE DEF right
<1>7. Framed(c, S, rows, back) /\ Onto(d, c) /\ c.max = d.max /\ c.x \in 0 .. right /\ c.y \in 0 .. t.rows - 1
  <2>1. t.rows \in Nat \ {0} /\ t.origin \in BOOLEAN /\ back \in Nat /\ right \in Nat /\ Framed(d, S, t.rows, back)
    BY <1>1, <1>5, <1>6
  <2> HIDE DEF back
  <2>2. Framed(c, S, t.rows, back) /\ Onto(d, c) /\ c.x \in 0 .. right /\ c.y \in 0 .. t.rows - 1
    BY ONLY <2>1, RestrictedIs
  <2>3. c.max = d.max
    BY ONLY <2>1, <2>2 DEF Framed
  <2> QED BY <2>2, <2>3
<1> HIDE DEF c, rows, back
<1>8. Fed(a, b)
  BY <1>1, <1>4, OntoFed
<1>9. Fed(a, d)
  BY <1>1, <1>4, <1>5, <1>8, FedThen
<1>10. Fed(d, c)
  BY <1>1, <1>5, <1>7, OntoFed
<1>11. Fed(a, c)
  BY <1>1, <1>5, <1>7, <1>9, <1>10, FedThen
<1>12. OnScreen(c, t.cols, t.rows)
  BY <1>1, <1>7 DEF OnScreen, right
<1>13. Goes(t, Put(t, c), whole)
  BY <1>7, <1>11, <1>12, FedGoes DEF S, rows, back, a
<1>14. Put(t, c).panic = t.panic
  BY <1>7, <1>12, PutIs DEF S, rows, back
<1> QED BY <1>2, <1>13, <1>14

\* A carriage return keeps the buffer that is shown.
LEMMA CarriageReturnGoes ==
  ASSUME NEW t, NEW whole \in BOOLEAN, Good(t, whole)
  PROVE  Goes(t, CarriageReturn(t), whole) /\ CarriageReturn(t).panic = t.panic
<1> DEFINE u == CarriageReturn(t)
           z == 0
           c == AtColumn(Buf(t), z)
<1>1. u = Put(t, c)
  BY DEF CarriageReturn, AtColumn
<1>2. z \in 0 .. t.cols + 1
  BY TermIs
<1> HIDE DEF z
<1>3. Edited(t, c, whole) /\ Stays(t, Put(t, c), whole)
  BY <1>2, ColumnStays
<1>4. Put(t, c).alt = t.alt
  BY <1>3, PutIs DEF Edited
<1> HIDE DEF c
<1>5. Stays(t, u, whole) /\ u.alt = t.alt
  BY <1>1, <1>3, <1>4
<1> HIDE DEF u
<1> QED BY <1>5, StaysGoes DEF u, Stays

\* To the beginning of the next line.
LEMMA NextLineIs ==
  ASSUME NEW t, NEW whole \in BOOLEAN, Good(t, whole)
  PROVE  Goes(t, NextLine(t), whole) /\ NextLine(t).panic = t.panic
<1> DEFINE u == CarriageReturn(t)
<1>1. Goes(t, u, whole) /\ u.panic = t.panic
  BY CarriageReturnGoes
<1>2. NextLine(t) = Index(u)
  BY DEF NextLine
<1> HIDE DEF u
<1>3. Goes(u, Index(u), whole) /\ Index(u).panic = u.panic
  BY <1>1, IndexIs DEF Goes
<1>4. Goes(t, Index(u), whole)
  BY <1>1, <1>3, GoesBoth
<1> QED BY <1>1, <1>2, <1>3, <1>4

\* One row up: at the top of the scroll region its lines move down instead.
LEMMA ReverseIndexIs ==
  ASSUME NEW t, NEW whole \in BOOLEAN, Good(t, whole)
  PROVE  Stays(t, ReverseIndex(t), whole)
<1> DEFINE S == Kind(t, whole)
           rows == t.rows
           back == Back(t)
           b == Here(t)
<1>1. /\ rows \in Nat \ {0} /\ back \in Nat /\ t.cols \in Nat \ {0, 1} /\ t.origin \in BOOLEAN
  BY TermIs, Showing
<1>2. Framed(b, S, rows, back) /\ Onto(Buf(t), b) /\ b.x \in 0 .. t.cols - 1 /\ b.y \in 0 .. rows - 1
  BY HereIs
<1> HIDE DEF S, b
<1>3. CASE b.y # b.top
  <2> DEFINE y == b.y - 1
             right == t.cols - 1
             d == AtRow(b, y)
             c == Restricted(t, d, right)
  <2>1. ReverseIndex(t) = Put(t, c)
    BY <1>3 DEF ReverseIndex, AtRow, b
  <2>2. y \in Int /\ right \in Nat
    BY <1>1, <1>2
  <2> HIDE DEF y, right
  <2>3. Framed(d, S, rows, back) /\ Onto(b, d)
    <3> HIDE DEF rows, back
    <3> QED BY <1>1, <1>2, <2>2, AtRowIs
  <2> HIDE DEF d
  <2>4. Framed(c, S, rows, back) /\ Onto(d, c) /\ c.x \in 0 .. right /\ c.y \in 0 .. t.rows - 1
    <3>1. t.rows \in Nat \ {0} /\ t.origin \in BOOLEAN /\ back \in Nat /\ right \in Nat /\ Framed(d, S, t.rows, back)
      BY <1>1, <2>2, <2>3
    <3> HIDE DEF back
    <3>2. Framed(c, S, t.rows, back) /\ Onto(d, c) /\ c.x \in 0 .. right /\ c.y \in 0 .. t.rows - 1
      BY ONLY <3>1, RestrictedIs
    <3> QED BY <3>2
  <2> HIDE DEF c
  <2>5. Onto(Buf(t), d)
    BY <1>2, <2>3, OntoBoth
  <2>6. Onto(Buf(t), c)
    BY <2>4, <2>5, OntoBoth
  <2>7. OnScreen(c, t.cols, t.rows)
    BY <1>1, <2>4 DEF OnScreen, right
  <2>8. Edited(t, c, whole)
    BY <2>4, <2>6, <2>7 DEF Edited, Onto, S, rows, back
  <2> QED BY <2>1, <2>8, EditedStays
<1>4. CASE b.y = b.top
  <2> DEFINE l == b.lines
             y == b.y
             base == b.ybase
             start == base + y
             count == b.bot - b.top
             one == 1
             shift == ListShift(l, start, count, one)
             new == BlankLine(t.cols, FALSE)
             d == [b EXCEPT !.lines = shift]
             c == SetRow(d, y, new)
  <2>1. ReverseIndex(t) = Put(t, c)
    <3>1. d = [b EXCEPT !.lines = ListShift(@, b.ybase + b.y, b.bot - b.top, 1)]
      OBVIOUS
    <3> HIDE DEF d
    <3> QED BY <1>4, <3>1 DEF ReverseIndex, b
  <2>2. /\ l \in Seq(S) /\ Len(l) \in Nat /\ base \in Nat /\ b.top \in Nat /\ b.bot \in Nat /\ b.bot < rows
        /\ base + rows <= Len(l)
    <3> HIDE DEF rows, back
    <3> QED BY <1>1, <1>2, FrameIs
  <2>3. start \in Nat /\ count \in Int /\ start + count <= Len(l) /\ one \in Int /\ y \in 0 .. rows - 1
    <3> DEFINE top == b.top
               bot == b.bot
               len == Len(l)
    <3>1. y \in 0 .. rows - 1 /\ y = top
      BY ONLY <1>2, <1>4
    <3>2. base \in Nat /\ top \in Nat /\ bot \in Nat /\ bot < rows /\ len \in Nat /\ base + rows <= len
      BY ONLY <2>2
    <3>3. rows \in Nat
      BY ONLY <1>1
    <3> HIDE DEF y, base, rows, top, bot, len
    <3>4. base + y \in Nat /\ bot - top \in Int /\ (base + y) + (bot - top) <= len
      BY ONLY <3>1, <3>2, <3>3
    <3> QED BY <3>1, <3>4 DEF top, bot, len
  <2>4. \A i \in 1 .. base : i \in 1 .. Len(l) /\ i - 1 - one \notin start .. (start + count - 1)
    BY <1>1, <1>2, <2>2
  <2> HIDE DEF start, count, one
  <2>5. shift \in Seq(S) /\ Len(shift) = Len(l)
        /\ \A i \in 1 .. Len(l) : i - 1 - one \notin start .. (start + count - 1) => shift[i] = l[i]
    <3>1. l \in Seq(S) /\ start \in Nat /\ count \in Int /\ one \in Int /\ start + count <= Len(l)
      BY <2>2, <2>3
    <3> HIDE DEF l
    <3>2. LET r == shift IN r \in Seq(S) /\ Len(r) = Len(l)
          /\ \A i \in 1 .. Len(l) : i - 1 - one \notin start .. (start + count - 1) => r[i] = l[i]
      BY ONLY <3>1, ListShiftIs
    <3> QED BY <3>2
  <2> HIDE DEF shift
  <2>6. \A i \in 1 .. b.ybase : shift[i].cells = b.lines[i].cells
    BY <2>4, <2>5
  <2>7. Framed(d, S, rows, back) /\ Onto(b, d) /\ d.x = b.x /\ d.y = b.y
    <3>1. rows \in Nat \ {0} /\ back \in Nat /\ Framed(b, S, rows, back) /\ shift \in Seq(S) /\ Len(shift) = Len(b.lines)
      BY <1>1, <1>2, <2>5
    <3> HIDE DEF rows, back
    <3>2. Framed(d, S, rows, back) /\ Onto(b, d) /\ d.x = b.x /\ d.y = b.y
      BY ONLY <2>6, <3>1, LinesPut
    <3> QED BY <3>2
  <2>8. new \in S
    <3> DEFINE cols == t.cols
               exact == ~t.alt /\ Scrollback > 0
               no == FALSE
    <3>1. cols \in Nat /\ exact \in BOOLEAN /\ no \in BOOLEAN
      BY <1>1
    <3> HIDE DEF cols, exact, no
    <3>2. BlankLine(cols, no) \in RowsOf(cols, exact, whole)
      BY <3>1, BlankLineIs
    <3> QED BY <3>2 DEF cols, exact, no, S, Kind
  <2> HIDE DEF d, new, y
  <2>9. Framed(c, S, rows, back) /\ Onto(d, c) /\ c.x = d.x /\ c.y = d.y
    <3> HIDE DEF rows, back
    <3>1. rows \in Nat \ {0} /\ back \in Nat /\ Framed(d, S, rows, back) /\ y \in 0 .. rows - 1 /\ new \in S
      BY <1>1, <2>3, <2>7, <2>8 DEF rows
    <3> QED BY ONLY <3>1, SetRowIs
  <2> HIDE DEF c
  <2>10. Onto(Buf(t), d)
    BY <1>2, <2>7, OntoBoth
  <2>11. Onto(Buf(t), c)
    BY <2>9, <2>10, OntoBoth
  <2>12. OnScreen(c, t.cols, t.rows)
    BY <1>1, <1>2, <2>7, <2>9 DEF OnScreen
  <2>13. Edited(t, c, whole)
    BY <2>9, <2>11, <2>12 DEF Edited, Onto, S, rows, back
  <2> QED BY <2>1, <2>13, EditedStays
<1> QED BY <1>3, <1>4

----------------------------------------------------------------------------
(* Lines inserted and deleted *)

\* A line taken out and another one put in behind the history.
LEMMA OneMoved ==
  ASSUME NEW S, NEW l \in Seq(S), NEW max \in Nat \ {0}, Len(l) <= max, NEW new \in S,
         NEW base \in Nat, NEW at \in Nat, NEW to \in Nat, base <= at, base <= to, at < Len(l), to < Len(l)
  PROVE  LET r == ListSplice(ListSplice(l, max, at, 1, <<>>), max, to, 0, <<new>>) IN
         r \in Seq(S) /\ Len(r) = Len(l) /\ \A i \in 1 .. base : r[i] = l[i]
<1> DEFINE m == ListSplice(l, max, at, 1, <<>>)
           r == ListSplice(m, max, to, 0, <<new>>)
<1>1. Len(l) \in Nat
  BY ItemsAre
<1>2. m \in Seq(S) /\ Len(m) = Len(l) - 1 /\ \A i \in 1 .. Len(l) - 1 : m[i] = IF i <= at THEN l[i] ELSE l[i + 1]
  <2>1. l \in Seq(S) /\ max \in Nat /\ Len(l) <= max /\ at \in 0 .. Len(l) - 1
    BY <1>1
  <2> QED BY ONLY <2>1, ListDelete
<1> HIDE DEF m
<1>3. Len(m) <= max /\ to \in 0 .. Len(m) /\ Len(m) # max
  BY <1>1, <1>2
<1> DEFINE full == Len(m) = max
<1>4. r \in Seq(S) /\ Len(r) = (IF full THEN max ELSE Len(m) + 1)
      /\ \A i \in 1 .. Len(m) : i <= to /\ ~full => r[i] = m[i]
  <2>1. m \in Seq(S) /\ max \in Nat \ {0} /\ Len(m) <= max /\ to \in 0 .. Len(m) /\ new \in S
    BY <1>2, <1>3
  <2> QED BY ONLY <2>1, ListInsert
<1>5. Len(r) = Len(l)
  BY <1>1, <1>2, <1>3, <1>4
<1> HIDE DEF r
<1>6. ASSUME NEW i \in 1 .. base PROVE r[i] = l[i]
  <2>1. i \in 1 .. Len(m) /\ i <= to /\ i <= at /\ i \in 1 .. Len(l) - 1
    BY <1>1, <1>2
  <2> QED BY <1>2, <1>3, <1>4, <2>1
<1> QED BY <1>4, <1>5, <1>6 DEF r, m

\* n times so.
LEMMA MoveLinesIs ==
  ASSUME NEW cols \in Nat, NEW exact \in BOOLEAN, NEW whole \in BOOLEAN, NEW rows \in Nat \ {0}, NEW back \in Nat,
         NEW b, Framed(b, RowsOf(cols, exact, whole), rows, back), NEW t, t.cols = cols,
         NEW n \in Nat, NEW from \in 0 .. rows - 1, NEW to \in 0 .. rows - 1
  PROVE  /\ Framed(MoveLines(t, b, n, from, to), RowsOf(cols, exact, whole), rows, back)
         /\ Onto(b, MoveLines(t, b, n, from, to))
         /\ MoveLines(t, b, n, from, to).x = b.x /\ MoveLines(t, b, n, from, to).y = b.y
<1> DEFINE S == RowsOf(cols, exact, whole)
           l == b.lines
           max == b.max
           base == b.ybase
           no == FALSE
           new == BlankLine(cols, no)
           p == base + from
           q == base + to
           one(lines) == ListSplice(ListSplice(lines, max, p, 1, <<>>), max, q, 0, <<new>>)
           T == {m \in Seq(S) : Len(m) = Len(l) /\ \A i \in 1 .. base : m[i] = l[i]}
           I == [k \in 0 .. n |-> T]
           stp == [k \in 1 .. n |-> [a \in T |-> one(a)]]
           Eq(g) == g = [k \in 0 .. n |-> IF k = 0 THEN l ELSE one(g[k - 1])]
           at == CHOOSE g : Eq(g)
           c == [b EXCEPT !.lines = IF n > 0 THEN at[n] ELSE l]
<1>1. MoveLines(t, b, n, from, to) = c
  BY DEF MoveLines, Times
<1>2. /\ l \in Seq(S) /\ Len(l) \in Nat /\ max \in Nat \ {0} /\ base \in Nat
      /\ base + rows <= Len(l) /\ Len(l) <= max
  BY FrameIs
<1>3. new \in S
  <2>1. no \in BOOLEAN
    OBVIOUS
  <2> HIDE DEF no
  <2> QED BY <2>1, BlankLineIs
<1>4. p \in Nat /\ q \in Nat /\ base <= p /\ base <= q /\ p < Len(l) /\ q < Len(l)
  <2>1. base \in Nat /\ base + rows <= Len(l) /\ Len(l) \in Nat
    BY ONLY <1>2
  <2> HIDE DEF base, l
  <2> QED BY ONLY <2>1, rows \in Nat \ {0}, from \in 0 .. rows - 1, to \in 0 .. rows - 1 DEF p, q
<1> HIDE DEF S, max, base, new, p, q
<1>5. ASSUME NEW a \in T PROVE one(a) \in T
  <2>0. a \in Seq(S) /\ Len(a) = Len(l)
    OBVIOUS
  <2>1. a \in Seq(S) /\ max \in Nat \ {0} /\ Len(a) <= max /\ new \in S /\ base \in Nat /\ p \in Nat /\ q \in Nat
        /\ base <= p /\ base <= q /\ p < Len(a) /\ q < Len(a)
    BY ONLY <1>2, <1>3, <1>4, <2>0
  <2> DEFINE r == one(a)
  <2>2. r \in Seq(S) /\ Len(r) = Len(a) /\ \A i \in 1 .. base : r[i] = a[i]
    BY ONLY <2>1, OneMoved
  <2> HIDE DEF r
  <2>3. r \in T
    BY <2>2
  <2> QED BY <2>3 DEF r
<1>6. l \in T
  BY <1>2
<1> HIDE DEF T
<1>7. (IF n > 0 THEN at[n] ELSE l) \in T
  <2> HIDE DEF l
  <2>1. n \in Nat /\ l \in I[0] /\ \A k \in 1 .. n : \A a \in I[k - 1] : stp[k][a] \in I[k]
    <3>1. 0 \in 0 .. n
      OBVIOUS
    <3>2. ASSUME NEW k \in 1 .. n PROVE k - 1 \in 0 .. n /\ k \in 0 .. n
      OBVIOUS
    <3> HIDE DEF one
    <3> QED BY <1>5, <1>6, <3>1, <3>2
  <2>2. \A k \in 1 .. n : k - 1 \in 0 .. n /\ k \in 0 .. n /\ stp[k] = [a \in T |-> one(a)] /\ I[k - 1] = T /\ I[k] = T
    <3> HIDE DEF one
    <3> QED OBVIOUS
  <2> HIDE DEF I, stp
  <2>3. PICK g : Loops(g, n, l, stp) /\ \A k \in 0 .. n : g[k] \in I[k]
    BY <2>1, LoopRuns
  <2> HIDE DEF one
  <2>4. Eq(g)
    <3>1. g = [k \in 0 .. n |-> IF k = 0 THEN l ELSE stp[k][g[k - 1]]]
      BY <2>3 DEF Loops
    <3>2. ASSUME NEW k \in 0 .. n PROVE (IF k = 0 THEN l ELSE stp[k][g[k - 1]]) = (IF k = 0 THEN l ELSE one(g[k - 1]))
      <4>1. CASE k # 0
        <5>1. k \in 1 .. n
          BY <4>1
        <5>2. g[k - 1] \in T
          BY <2>2, <2>3, <5>1
        <5> QED BY <2>2, <4>1, <5>1, <5>2
      <4> QED BY <4>1
    <3> QED BY <3>1, <3>2
  <2>5. Eq(at)
    <3> HIDE DEF Eq
    <3> QED BY <2>4
  <2> HIDE DEF at
  <2>6. at[0] = l
    BY <2>5
  <2>7. \A k \in 1 .. n : at[k] = one(at[k - 1])
    <3>1. ASSUME NEW k \in 1 .. n PROVE at[k] = one(at[k - 1])
      <4>1. k \in 0 .. n /\ k # 0
        OBVIOUS
      <4> QED BY <2>5, <4>1
    <3> QED BY <3>1
  <2> HIDE DEF Eq
  <2>8. at[n] \in I[n]
    <3>1. at[0] \in I[0]
      BY <2>1, <2>6
    <3>2. \A k \in 1 .. n : at[k - 1] \in I[k - 1] => at[k] \in I[k]
      <4>1. ASSUME NEW k \in 1 .. n, at[k - 1] \in I[k - 1] PROVE at[k] \in I[k]
        <5>1. at[k - 1] \in T /\ I[k] = T /\ at[k] = one(at[k - 1])
          BY <2>2, <2>7, <4>1
        <5> DEFINE a == at[k - 1]
        <5>2. a \in T
          BY <5>1
        <5> HIDE DEF a
        <5>3. one(a) \in T
          BY <1>5, <5>2
        <5> QED BY <5>1, <5>3 DEF a
      <4> QED BY <4>1
    <3> QED BY <3>1, <3>2, LoopHolds
  <2>9. n \in 0 .. n /\ I[n] = T
    BY DEF I
  <2> QED BY <1>6, <2>8, <2>9
<1> DEFINE m == IF n > 0 THEN at[n] ELSE l
<1> HIDE DEF at
<1>8. m \in Seq(S) /\ Len(m) = Len(b.lines) /\ \A i \in 1 .. b.ybase : m[i].cells = b.lines[i].cells
  <2>1. m \in Seq(S) /\ Len(m) = Len(l) /\ \A i \in 1 .. base : m[i] = l[i]
    BY <1>7 DEF T
  <2> HIDE DEF m
  <2> QED BY <2>1 DEF base, l
<1>9. c = [b EXCEPT !.lines = m]
  OBVIOUS
<1> HIDE DEF m, c
<1> DEFINE e == [b EXCEPT !.lines = m]
<1>10. Framed(e, S, rows, back) /\ Onto(b, e) /\ e.x = b.x /\ e.y = b.y
  <2>1. rows \in Nat \ {0} /\ back \in Nat /\ Framed(b, S, rows, back)
    BY DEF S
  <2> QED BY ONLY <1>8, <2>1, LinesPut
<1> QED BY <1>1, <1>9, <1>10 DEF S

\* The lines as one of RowsOf.
LEMMA KindIs ==
  ASSUME NEW t, NEW whole \in BOOLEAN, Good(t, whole)
  PROVE  \E cols \in Nat \ {0, 1}, exact \in BOOLEAN, rows \in Nat \ {0}, back \in Nat :
           /\ cols = t.cols /\ rows = t.rows /\ back = Back(t)
           /\ Kind(t, whole) = RowsOf(cols, exact, whole)
<1>1. t.cols \in Nat \ {0, 1} /\ t.rows \in Nat \ {0} /\ Back(t) \in Nat
  BY TermIs, Showing
<1>2. (~t.alt /\ Scrollback > 0) \in BOOLEAN
  OBVIOUS
<1> DEFINE exact == ~t.alt /\ Scrollback > 0
<1>3. Kind(t, whole) = RowsOf(t.cols, exact, whole) /\ exact \in BOOLEAN
  BY DEF Kind
<1> HIDE DEF exact
<1> QED BY <1>1, <1>3

\* A buffer that comes onto the shown one.
LEMMA OntoStays ==
  ASSUME NEW t, NEW whole, Good(t, whole), NEW c, Framed(c, Kind(t, whole), t.rows, Back(t)),
         OnScreen(c, t.cols, t.rows), Past(Buf(t), c)
  PROVE  Stays(t, Put(t, c), whole)
<1>1. Edited(t, c, whole)
  BY DEF Edited
<1> QED BY <1>1, EditedStays

\* Lines moved on the terminal, with the cursor at the left or where it is.
LEMMA MoveStays ==
  ASSUME NEW t, NEW whole \in BOOLEAN, Good(t, whole), NEW b, Framed(b, Kind(t, whole), t.rows, Back(t)),
         OnScreen(b, t.cols, t.rows), Past(Buf(t), b), NEW n \in Nat, NEW from \in 0 .. t.rows - 1,
         NEW to \in 0 .. t.rows - 1
  PROVE  /\ Stays(t, Put(t, MoveLines(t, b, n, from, to)), whole)
         /\ Stays(t, Put(t, [MoveLines(t, b, n, from, to) EXCEPT !.x = 0]), whole)
<1>1. PICK cols \in Nat \ {0, 1}, exact \in BOOLEAN, rows \in Nat \ {0}, back \in Nat :
        /\ cols = t.cols /\ rows = t.rows /\ back = Back(t) /\ Kind(t, whole) = RowsOf(cols, exact, whole)
  BY KindIs
<1> DEFINE c == MoveLines(t, b, n, from, to)
           z == 0
           d == AtColumn(c, z)
           S == Kind(t, whole)
<1>2. Framed(c, RowsOf(cols, exact, whole), rows, back) /\ Onto(b, c) /\ c.x = b.x /\ c.y = b.y
  <2>1. /\ cols \in Nat /\ Framed(b, RowsOf(cols, exact, whole), rows, back) /\ t.cols = cols
        /\ from \in 0 .. rows - 1 /\ to \in 0 .. rows - 1
    BY <1>1
  <2> QED BY <2>1, MoveLinesIs
<1>3. d = [c EXCEPT !.x = 0]
  BY DEF AtColumn
<1> HIDE DEF c
<1>4. Framed(c, S, rows, back) /\ z \in Int
  BY <1>1, <1>2
<1> HIDE DEF z, S
<1>5. Framed(d, S, rows, back) /\ Onto(c, d) /\ d.x = z /\ d.y = c.y
  BY <1>4, AtColumnIs
<1> HIDE DEF d
<1>6. Past(Buf(t), c)
  BY <1>2 DEF Past, Onto
<1>7. Past(Buf(t), d)
  BY <1>5, <1>6 DEF Past, Onto
<1>8. OnScreen(c, t.cols, t.rows)
  BY <1>2 DEF OnScreen
<1>9. OnScreen(d, t.cols, t.rows)
  BY <1>1, <1>2, <1>5, <1>8 DEF OnScreen, z
<1>10. Framed(c, Kind(t, whole), t.rows, Back(t)) /\ Framed(d, Kind(t, whole), t.rows, Back(t))
  BY <1>1, <1>4, <1>5 DEF S
<1> QED BY <1>3, <1>6, <1>7, <1>8, <1>9, <1>10, OntoStays DEF c, d

\* So lines inserted and deleted, and the region scrolled, keep the history.
LEMMA LinesStay ==
  ASSUME NEW t, NEW whole \in BOOLEAN, Good(t, whole), NEW n \in Nat
  PROVE  /\ Stays(t, InsertLines(t, n), whole) /\ Stays(t, DeleteLines(t, n), whole)
         /\ Stays(t, ScrollUp(t, n), whole) /\ Stays(t, ScrollDown(t, n), whole)
<1> DEFINE a == Buf(t)
           b == Here(t)
           y == b.y
           bot == b.bot
           top == a.top
           low == a.bot
<1>1. /\ Framed(b, Kind(t, whole), t.rows, Back(t)) /\ Onto(a, b) /\ b.x \in 0 .. t.cols - 1 /\ b.y \in 0 .. t.rows - 1
      /\ Edited(t, b, whole)
  BY HereIs
<1>2. OnScreen(b, t.cols, t.rows) /\ Past(Buf(t), b)
  BY <1>1 DEF Edited
<1>3. a.top \in Nat /\ a.bot \in Nat /\ a.top <= a.bot /\ a.bot < t.rows /\ t.rows \in Nat
  BY BufIs, TermIs
<1>4. y \in 0 .. t.rows - 1 /\ bot \in 0 .. t.rows - 1 /\ top \in 0 .. t.rows - 1 /\ low \in 0 .. t.rows - 1
  BY <1>1, <1>3 DEF Onto
<1>5. /\ InsertLines(t, n) \in {Put(t, [MoveLines(t, b, n, bot, y) EXCEPT !.x = 0]), Put(t, b)}
      /\ DeleteLines(t, n) \in {Put(t, [MoveLines(t, b, n, y, bot) EXCEPT !.x = 0]), Put(t, b)}
  BY DEF InsertLines, DeleteLines
<1>6. ScrollUp(t, n) = Put(t, MoveLines(t, a, n, top, low)) /\ ScrollDown(t, n) = Put(t, MoveLines(t, a, n, low, top))
  BY DEF ScrollUp, ScrollDown
<1>7. Framed(a, Kind(t, whole), t.rows, Back(t)) /\ OnScreen(a, t.cols, t.rows) /\ Past(Buf(t), a)
  BY Showing, OntoSelf
<1> HIDE DEF a, b, y, bot, top, low
<1>8. Stays(t, Put(t, b), whole)
  BY <1>1, EditedStays
<1>9. /\ Stays(t, Put(t, [MoveLines(t, b, n, bot, y) EXCEPT !.x = 0]), whole)
      /\ Stays(t, Put(t, [MoveLines(t, b, n, y, bot) EXCEPT !.x = 0]), whole)
  BY <1>1, <1>2, <1>4, MoveStays
<1>10. /\ Stays(t, Put(t, MoveLines(t, a, n, top, low)), whole)
       /\ Stays(t, Put(t, MoveLines(t, a, n, low, top)), whole)
  BY <1>4, <1>7, MoveStays
<1> QED BY <1>5, <1>6, <1>8, <1>9, <1>10

----------------------------------------------------------------------------
(* Lines changed one by one *)

\* Every line may be replaced by one of the kind, in the history by one of the same
\* cells.
LEMMA MapStays ==
  ASSUME NEW t, NEW whole, Good(t, whole), NEW b, Framed(b, Kind(t, whole), t.rows, Back(t)),
         OnScreen(b, t.cols, t.rows), Past(Buf(t), b), NEW f \in [1 .. Len(b.lines) -> Kind(t, whole)],
         \A i \in 1 .. b.ybase : f[i].cells = b.lines[i].cells
  PROVE  LET c == [b EXCEPT !.lines = Listed(f)] IN
         /\ Framed(c, Kind(t, whole), t.rows, Back(t)) /\ OnScreen(c, t.cols, t.rows) /\ Past(Buf(t), c)
         /\ c.ybase = b.ybase /\ c.y = b.y /\ c.x = b.x /\ c.top = b.top /\ c.bot = b.bot
         /\ Stays(t, Put(t, c), whole)
<1> DEFINE S == Kind(t, whole)
           rows == t.rows
           back == Back(t)
           len == Len(b.lines)
           l == Listed(f)
           c == [b EXCEPT !.lines = l]
<1>1. rows \in Nat \ {0} /\ back \in Nat /\ Framed(b, S, rows, back)
  BY TermIs, Showing
<1>2. len \in Nat /\ b.ybase \in Nat /\ b.ybase <= len
  <2> HIDE DEF rows, back, S, len
  <2>1. len = Len(b.lines)
    BY DEF len
  <2>2. Len(b.lines) \in Nat /\ b.ybase \in Nat /\ b.ybase + rows <= Len(b.lines)
    BY ONLY <1>1, FrameIs
  <2> QED BY <1>1, <2>1, <2>2
<1>3. f \in [1 .. len -> S]
  OBVIOUS
<1> HIDE DEF S, rows, back, len
<1>4. l \in Seq(S) /\ Len(l) = len /\ \A i \in 1 .. len : l[i] = f[i]
  BY <1>2, <1>3, ListedIs
<1> HIDE DEF l
<1>5. \A i \in 1 .. b.ybase : l[i].cells = b.lines[i].cells
  <2>1. ASSUME NEW i \in 1 .. b.ybase PROVE l[i].cells = b.lines[i].cells
    <3>1. i \in 1 .. len
      BY <1>2
    <3> QED BY <1>4, <3>1
  <2> QED BY <2>1
<1>6. Framed(c, S, rows, back) /\ Onto(b, c) /\ c.x = b.x /\ c.y = b.y
  <2>1. rows \in Nat \ {0} /\ back \in Nat /\ Framed(b, S, rows, back) /\ l \in Seq(S) /\ Len(l) = Len(b.lines)
    BY <1>1, <1>4 DEF len
  <2> QED BY ONLY <1>5, <2>1, LinesPut
<1> HIDE DEF c
<1>7. Past(Buf(t), c) /\ c.ybase = b.ybase /\ c.top = b.top /\ c.bot = b.bot
  BY <1>6 DEF Past, Onto
<1>8. OnScreen(c, t.cols, t.rows)
  BY <1>6 DEF OnScreen
<1>9. Framed(c, Kind(t, whole), t.rows, Back(t))
  BY <1>6 DEF S, rows, back
<1>10. Stays(t, Put(t, c), whole)
  BY <1>7, <1>8, <1>9, OntoStays
<1> QED BY <1>6, <1>7, <1>8, <1>9, <1>10 DEF c, l

\* A line with other cells, as many, in the kind.
LEMMA KindPut ==
  ASSUME NEW t, NEW whole \in BOOLEAN, Good(t, whole), NEW r \in Kind(t, whole), NEW c, Alike(r.cells, c),
         NEW wr \in BOOLEAN
  PROVE  [cells |-> c, wr |-> wr] \in Kind(t, whole) /\ SetCells(r, c) \in Kind(t, whole)
<1>1. PICK cols \in Nat \ {0, 1}, exact \in BOOLEAN, rows \in Nat \ {0}, back \in Nat :
        /\ cols = t.cols /\ rows = t.rows /\ back = Back(t) /\ Kind(t, whole) = RowsOf(cols, exact, whole)
  BY KindIs
<1>2. r \in RowsOf(cols, exact, whole)
  BY <1>1
<1>3. [cells |-> c, wr |-> wr] \in RowsOf(cols, exact, whole) /\ SetCells(r, c) \in RowsOf(cols, exact, whole)
  BY <1>2, CellsPut
<1> QED BY <1>1, <1>3

\* What a line of the kind is.
LEMMA KindLine ==
  ASSUME NEW t, NEW whole \in BOOLEAN, Good(t, whole), NEW r \in Kind(t, whole)
  PROVE  /\ r.cells \in Seq(Cell) /\ r.wr \in BOOLEAN /\ Len(r.cells) \in Nat
         /\ Len(r.cells) >= t.cols /\ Len(r.cells) > 0 /\ (whole => WideWhole(r.cells))
<1>1. PICK cols \in Nat \ {0, 1}, exact \in BOOLEAN, rows \in Nat \ {0}, back \in Nat :
        /\ cols = t.cols /\ rows = t.rows /\ back = Back(t) /\ Kind(t, whole) = RowsOf(cols, exact, whole)
  BY KindIs
<1>2. r \in RowsOf(cols, exact, whole)
  BY <1>1
<1>3. /\ r.cells \in Seq(Cell) /\ r.wr \in BOOLEAN /\ Len(r.cells) \in Nat
      /\ Len(r.cells) >= cols /\ (whole => WideWhole(r.cells))
  BY <1>2, LineIs
<1> QED BY <1>1, <1>3

\* The columns of the scroll region shifted.
LEMMA ShiftColumnsIs ==
  ASSUME NEW t, NEW whole \in BOOLEAN, Good(t, whole), NEW cells,
         \A i \in 1 .. Len(Buf(t).lines) : Alike(Buf(t).lines[i].cells, cells[i])
  PROVE  Stays(t, ShiftColumns(t, cells), whole)
<1> DEFINE b == Buf(t)
           S == Kind(t, whole)
           region == (b.ybase + b.top + 1)..(b.ybase + b.bot + 1)
           f == [i \in DOMAIN b.lines |-> IF i \in region THEN [cells |-> cells[i], wr |-> FALSE] ELSE b.lines[i]]
           c == [b EXCEPT !.lines = Listed(f)]
<1>1. ShiftColumns(t, cells) = t \/ ShiftColumns(t, cells) = Put(t, c)
  <2>1. c = [b EXCEPT !.lines = Listed([i \in DOMAIN @ |->
            IF i \in region THEN [cells |-> cells[i], wr |-> FALSE] ELSE @[i]])]
    OBVIOUS
  <2> HIDE DEF c
  <2> QED BY <2>1 DEF ShiftColumns
<1>2. /\ Framed(b, S, t.rows, Back(t)) /\ OnScreen(b, t.cols, t.rows) /\ Past(Buf(t), b)
  BY Showing, OntoSelf
<1>3. /\ b.lines \in Seq(S) /\ Len(b.lines) \in Nat /\ b.ybase \in Nat /\ b.top \in Nat /\ b.bot \in Nat
      /\ b.ybase + t.rows <= Len(b.lines) /\ t.rows \in Nat
      /\ \A i \in 1 .. Len(b.lines) : b.lines[i] \in S
  BY BufIs, TermIs
<1>4. DOMAIN b.lines = 1 .. Len(b.lines)
  BY <1>3, ItemsAre
<1>5. ASSUME NEW i \in 1 .. Len(b.lines) PROVE f[i] \in S
  <2> DEFINE r == b.lines[i]
             k == cells[i]
             no == FALSE
  <2>1. r \in S /\ Alike(r.cells, k) /\ no \in BOOLEAN
    BY <1>3
  <2>2. f[i] = [cells |-> k, wr |-> no] \/ f[i] = r
    BY <1>4
  <2> HIDE DEF r, k, no, f
  <2>3. [cells |-> k, wr |-> no] \in Kind(t, whole)
    BY <2>1, KindPut DEF S
  <2> QED BY <2>1, <2>2, <2>3
<1>6. f \in [1 .. Len(b.lines) -> S]
  <2>1. f = [i \in 1 .. Len(b.lines) |-> f[i]]
    BY <1>4
  <2> HIDE DEF f
  <2> QED BY <1>5, <2>1
<1>7. ASSUME NEW i \in 1 .. b.ybase PROVE f[i].cells = b.lines[i].cells
  <2>1. i \in 1 .. Len(b.lines) /\ i \notin region
    BY <1>3
  <2> QED BY <1>4, <2>1
<1> HIDE DEF f, b
<1>8. Stays(t, Put(t, c), whole)
  BY <1>2, <1>6, <1>7, MapStays DEF S
<1> QED BY <1>1, <1>8, StaysSelf

\* To the left and to the right.
LEMMA ColumnsStay ==
  ASSUME NEW t, NEW whole \in BOOLEAN, Good(t, whole), NEW n \in Nat
  PROVE  /\ Stays(t, ScrollLeft(t, n), whole) /\ Stays(t, ScrollRight(t, n), whole)
         /\ Stays(t, InsertColumns(t, n), whole) /\ Stays(t, DeleteColumns(t, n), whole)
<1> DEFINE b == Buf(t)
           bx == b.x
           z == 0
<1>1. /\ b.lines \in Seq(Kind(t, whole)) /\ bx \in Nat /\ z \in Nat
      /\ \A i \in 1 .. Len(b.lines) : b.lines[i] \in Kind(t, whole)
  BY BufIs, TermIs
<1>2. DOMAIN b.lines = 1 .. Len(b.lines)
  BY <1>1, ItemsAre
<1>3. /\ ScrollLeft(t, n) = ShiftColumns(t, RowsDeleting(b, z, n))
      /\ ScrollRight(t, n) = ShiftColumns(t, RowsInserting(b, z, n))
      /\ InsertColumns(t, n) = ShiftColumns(t, RowsInserting(b, bx, n))
      /\ DeleteColumns(t, n) = ShiftColumns(t, RowsDeleting(b, bx, n))
  BY DEF ScrollLeft, ScrollRight, InsertColumns, DeleteColumns
<1> HIDE DEF b, bx, z
<1>4. ASSUME NEW at \in Nat
      PROVE  Stays(t, ShiftColumns(t, RowsDeleting(b, at, n)), whole) /\ Stays(t, ShiftColumns(t, RowsInserting(b, at, n)), whole)
  <2> DEFINE d == RowsDeleting(b, at, n)
             e == RowsInserting(b, at, n)
  <2>1. ASSUME NEW i \in 1 .. Len(b.lines) PROVE Alike(b.lines[i].cells, d[i]) /\ Alike(b.lines[i].cells, e[i])
    <3> DEFINE r == b.lines[i]
               k == r.cells
               no == FALSE
    <3>1. r \in Kind(t, whole)
      BY <1>1
    <3>2. k \in Seq(Cell) /\ Len(k) > 0 /\ no \in BOOLEAN
      <4> HIDE DEF r
      <4> QED BY <3>1, KindLine
    <3>3. d[i] = DeleteCells(k, at, n) /\ e[i] = InsertCells(k, at, n, no)
      BY <1>2 DEF RowsDeleting, RowsInserting
    <3> HIDE DEF k, no, d, e
    <3>4. Alike(k, DeleteCells(k, at, n)) /\ Alike(k, InsertCells(k, at, n, no))
      BY <3>2, DeleteCellsIs, InsertCellsIs
    <3> QED BY <3>3, <3>4 DEF k
  <2> HIDE DEF d, e
  <2>2. Stays(t, ShiftColumns(t, d), whole) /\ Stays(t, ShiftColumns(t, e), whole)
    BY <2>1, ShiftColumnsIs DEF b
  <2> QED BY <2>2 DEF d, e
<1> QED BY <1>1, <1>3, <1>4

----------------------------------------------------------------------------
(* What erases *)

\* The parts of an edited buffer.
LEMMA EditedIs ==
  ASSUME NEW t, NEW whole \in BOOLEAN, Good(t, whole), NEW b, Edited(t, b, whole)
  PROVE  /\ Framed(b, Kind(t, whole), t.rows, Back(t)) /\ OnScreen(b, t.cols, t.rows) /\ Past(Buf(t), b)
         /\ b.x \in 0 .. t.cols + 1 /\ b.y \in 0 .. t.rows - 1
         /\ b.lines \in Seq(Kind(t, whole)) /\ Len(b.lines) \in Nat /\ b.ybase \in Nat /\ b \in BufRec(Kind(t, whole))
         /\ b.ybase + t.rows <= Len(b.lines) /\ b.top \in Nat /\ b.bot \in Nat /\ b.top <= b.bot /\ b.bot < t.rows
         /\ \A i \in 1 .. Len(b.lines) : b.lines[i] \in Kind(t, whole)
<1> DEFINE S == Kind(t, whole)
           rows == t.rows
           back == Back(t)
<1>1. rows \in Nat \ {0} /\ back \in Nat /\ Framed(b, S, rows, back)
  BY TermIs, Showing DEF Edited
<1>2. OnScreen(b, t.cols, t.rows) /\ Past(Buf(t), b)
  BY DEF Edited
<1> HIDE DEF S, rows, back
<1>3. /\ b.lines \in Seq(S) /\ Len(b.lines) \in Nat /\ b.ybase \in Nat /\ b.ybase + rows <= Len(b.lines)
      /\ b \in BufRec(S) /\ b.top \in Nat /\ b.bot \in Nat /\ b.top <= b.bot /\ b.bot < rows
      /\ \A i \in 1 .. Len(b.lines) : b.lines[i] \in S
  BY ONLY <1>1, FrameIs
<1> QED BY <1>1, <1>2, <1>3 DEF OnScreen, S, rows, back

\* An edited buffer may be edited further.
LEMMA EditedThen ==
  ASSUME NEW t, NEW whole, NEW b, Edited(t, b, whole), NEW c, Framed(c, Kind(t, whole), t.rows, Back(t)),
         OnScreen(c, t.cols, t.rows), Past(b, c)
  PROVE  Edited(t, c, whole)
BY DEF Edited, Past

\* The buffer as it is shown.
LEMMA ShownEdited ==
  ASSUME NEW t, NEW whole, Good(t, whole)
  PROVE  Edited(t, Buf(t), whole)
BY Showing, OntoSelf DEF Edited

\* A row of an edited buffer written over.
LEMMA RowPut ==
  ASSUME NEW t, NEW whole \in BOOLEAN, Good(t, whole), NEW b, Edited(t, b, whole), NEW y \in 0 .. t.rows - 1,
         NEW r \in Kind(t, whole)
  PROVE  /\ Edited(t, SetRow(b, y, r), whole) /\ SetRow(b, y, r).x = b.x /\ SetRow(b, y, r).y = b.y
         /\ SetRow(b, y, r).ybase = b.ybase /\ Row(SetRow(b, y, r), y) = r
<1> DEFINE S == Kind(t, whole)
           rows == t.rows
           back == Back(t)
           k == y
           e == r
           c == SetRow(b, k, e)
<1>1. rows \in Nat \ {0} /\ back \in Nat /\ Framed(b, S, rows, back) /\ k \in 0 .. rows - 1 /\ e \in S
  BY TermIs, Showing, EditedIs
<1>2. OnScreen(b, t.cols, t.rows)
  BY EditedIs
<1> HIDE DEF S, rows, back, k, e
<1>3. Framed(c, S, rows, back) /\ Onto(b, c) /\ c.x = b.x /\ c.y = b.y /\ Row(c, k) = e
  <2> HIDE DEF c
  <2>1. c = SetRow(b, k, e)
    BY DEF c
  <2>2. rows \in Nat \ {0} /\ back \in Nat /\ Framed(b, S, rows, back) /\ k \in 0 .. rows - 1 /\ e \in S
    BY <1>1
  <2>3. Framed(SetRow(b, k, e), S, rows, back) /\ Onto(b, SetRow(b, k, e))
    BY ONLY <2>2, SetRowIs
  <2>4. SetRow(b, k, e).x = b.x /\ SetRow(b, k, e).y = b.y
    BY ONLY <2>2, <2>3, SetRowIs
  <2>5. Row(SetRow(b, k, e), k) = e
    BY ONLY <2>2, <2>3, SetRowIs
  <2> QED BY <2>1, <2>3, <2>4, <2>5
<1> HIDE DEF c
<1>4. Past(b, c) /\ OnScreen(c, t.cols, t.rows) /\ c.ybase = b.ybase
  BY <1>2, <1>3 DEF Onto, Past, OnScreen
<1>5. Framed(c, Kind(t, whole), t.rows, Back(t))
  BY <1>3 DEF S, rows, back
<1>6. Edited(t, c, whole)
  BY <1>4, <1>5, EditedThen
<1> QED BY <1>3, <1>4, <1>6 DEF c, k, e

\* What a row of an edited buffer is.
LEMMA RowLine ==
  ASSUME NEW t, NEW whole \in BOOLEAN, Good(t, whole), NEW b, Edited(t, b, whole), NEW y \in 0 .. t.rows - 1
  PROVE  /\ Row(b, y) \in Kind(t, whole) /\ Row(b, y).cells \in Seq(Cell) /\ Row(b, y).wr \in BOOLEAN
         /\ Len(Row(b, y).cells) \in Nat /\ Len(Row(b, y).cells) >= t.cols /\ Len(Row(b, y).cells) > 0
         /\ (whole => WideWhole(Row(b, y).cells))
<1> DEFINE S == Kind(t, whole)
           rows == t.rows
           back == Back(t)
           r == Row(b, y)
<1>1. rows \in Nat \ {0} /\ back \in Nat /\ Framed(b, S, rows, back) /\ y \in 0 .. rows - 1
  BY TermIs, Showing, EditedIs
<1> HIDE DEF S, rows, back
<1>2. r \in S
  BY ONLY <1>1, RowIs
<1> HIDE DEF r
<1>3. r \in Kind(t, whole)
  BY <1>2 DEF S
<1>4. /\ r.cells \in Seq(Cell) /\ r.wr \in BOOLEAN /\ Len(r.cells) \in Nat
      /\ Len(r.cells) >= t.cols /\ Len(r.cells) > 0 /\ (whole => WideWhole(r.cells))
  BY <1>3, KindLine
<1> QED BY <1>3, <1>4 DEF r

\* Its cells changed into some like them.
LEMMA RewriteIs ==
  ASSUME NEW t, NEW whole \in BOOLEAN, Good(t, whole), NEW b, Edited(t, b, whole), NEW y \in 0 .. t.rows - 1,
         NEW c, Alike(Row(b, y).cells, c)
  PROVE  /\ Edited(t, Rewrite(b, y, c), whole) /\ Rewrite(b, y, c).x = b.x /\ Rewrite(b, y, c).y = b.y
         /\ Rewrite(b, y, c).ybase = b.ybase /\ Row(Rewrite(b, y, c), y).cells = c
<1> DEFINE r == Row(b, y)
           e == SetCells(r, c)
           no == FALSE
<1>1. r \in Kind(t, whole) /\ Alike(r.cells, c) /\ r \in Kind(t, whole) /\ no \in BOOLEAN
  BY RowLine
<1>2. r = [cells |-> r.cells, wr |-> r.wr]
  <2> HIDE DEF r
  <2>1. PICK cols \in Nat \ {0, 1}, exact \in BOOLEAN, rows \in Nat \ {0}, back \in Nat :
          /\ cols = t.cols /\ rows = t.rows /\ back = Back(t) /\ Kind(t, whole) = RowsOf(cols, exact, whole)
    BY KindIs
  <2> QED BY <1>1, <2>1 DEF RowsOf, TextLine
<1> HIDE DEF r, no
<1>3. e \in Kind(t, whole)
  BY <1>1, KindPut
<1>4. e.cells = c
  BY <1>2 DEF SetCells
<1>5. Rewrite(b, y, c) = SetRow(b, y, e)
  BY DEF Rewrite, r
<1> HIDE DEF e
<1> DEFINE d == SetRow(b, y, e)
<1>6. Edited(t, d, whole) /\ d.x = b.x /\ d.y = b.y /\ d.ybase = b.ybase /\ Row(d, y) = e
  BY <1>3, RowPut
<1> HIDE DEF d
<1> QED BY <1>4, <1>5, <1>6 DEF d

\* Part of a row erased.
LEMMA EraseCellsIs ==
  ASSUME NEW t, NEW whole \in BOOLEAN, Good(t, whole), NEW b, Edited(t, b, whole), NEW y \in 0 .. t.rows - 1,
         NEW start \in 0 .. t.cols, NEW end \in Nat \ {0}, start <= end, NEW clear \in BOOLEAN, NEW respect \in BOOLEAN
  PROVE  LET c == EraseCells(b, y, start, end, clear, respect) IN
         Edited(t, c, whole) /\ c.x = b.x /\ c.y = b.y /\ c.ybase = b.ybase
<1> DEFINE r == Row(b, y)
           k == ReplaceCells(r.cells, start, end, respect)
           wr == r.wr /\ ~clear
           e == [cells |-> k, wr |-> wr]
<1>1. r \in Kind(t, whole) /\ r.cells \in Seq(Cell) /\ r.wr \in BOOLEAN /\ Len(r.cells) \in Nat /\ Len(r.cells) >= t.cols
  BY RowLine
<1>2. wr \in BOOLEAN /\ start \in 0 .. Len(r.cells)
  BY <1>1, TermIs
<1>3. EraseCells(b, y, start, end, clear, respect) = SetRow(b, y, e)
  BY DEF EraseCells
<1> HIDE DEF wr, r
<1>4. Alike(r.cells, k)
  <2> DEFINE cells == r.cells
  <2>1. cells \in Seq(Cell) /\ start \in 0 .. Len(cells)
    BY <1>1, <1>2
  <2> HIDE DEF cells
  <2>2. Alike(cells, ReplaceCells(cells, start, end, respect))
    BY <2>1, ReplaceCellsIs
  <2> QED BY <2>2 DEF cells
<1> HIDE DEF k
<1>5. e \in Kind(t, whole)
  BY <1>1, <1>2, <1>4, KindPut
<1> HIDE DEF e
<1> DEFINE d == SetRow(b, y, e)
<1>6. Edited(t, d, whole) /\ d.x = b.x /\ d.y = b.y /\ d.ybase = b.ybase
  BY <1>5, RowPut
<1> HIDE DEF d
<1> QED BY <1>3, <1>6 DEF d

\* Whole rows of the screen erased.
LEMMA ResetRowsIs ==
  ASSUME NEW t, NEW whole \in BOOLEAN, Good(t, whole), NEW b, Edited(t, b, whole), NEW rows, rows \subseteq Nat,
         NEW respect \in BOOLEAN
  PROVE  LET c == ResetRows(b, rows, respect) IN
         Edited(t, c, whole) /\ c.x = b.x /\ c.y = b.y /\ Stays(t, Put(t, c), whole)
<1> DEFINE S == Kind(t, whole)
           no == FALSE
           e == Blank(no)
           f == [i \in DOMAIN b.lines |-> IF i - 1 - b.ybase \in rows
                   THEN [cells |-> Fill(b.lines[i].cells, e, respect), wr |-> no] ELSE b.lines[i]]
           c == [b EXCEPT !.lines = Listed(f)]
<1>1. ResetRows(b, rows, respect) = c
  BY DEF ResetRows
<1>2. /\ Framed(b, S, t.rows, Back(t)) /\ OnScreen(b, t.cols, t.rows) /\ Past(Buf(t), b)
      /\ b.lines \in Seq(S) /\ Len(b.lines) \in Nat /\ b.ybase \in Nat /\ b.ybase + t.rows <= Len(b.lines)
      /\ t.rows \in Nat /\ \A i \in 1 .. Len(b.lines) : b.lines[i] \in S
  BY EditedIs, TermIs
<1>3. DOMAIN b.lines = 1 .. Len(b.lines)
  BY <1>2, ItemsAre
<1>4. no \in BOOLEAN
  OBVIOUS
<1> HIDE DEF no
<1>5. e \in Cell /\ e.w = 1
  BY <1>4, BlankIs
<1> HIDE DEF e
<1>6. ASSUME NEW i \in 1 .. Len(b.lines) PROVE f[i] \in S
  <2> DEFINE r == b.lines[i]
             k == Fill(r.cells, e, respect)
  <2>1. r \in S
    BY <1>2
  <2>2. f[i] = [cells |-> k, wr |-> no] \/ f[i] = r
    BY <1>3
  <2> HIDE DEF r, f
  <2>3. r.cells \in Seq(Cell)
    BY <2>1, KindLine DEF S
  <2>4. Alike(r.cells, k)
    BY <1>5, <2>3, FillIs
  <2> HIDE DEF k
  <2>5. [cells |-> k, wr |-> no] \in Kind(t, whole)
    BY <1>4, <2>1, <2>4, KindPut DEF S
  <2> QED BY <2>1, <2>2, <2>5
<1>7. f \in [1 .. Len(b.lines) -> S]
  <2>1. f = [i \in 1 .. Len(b.lines) |-> f[i]]
    BY <1>3
  <2> HIDE DEF f
  <2> QED BY <1>6, <2>1
<1>8. ASSUME NEW i \in 1 .. b.ybase PROVE f[i].cells = b.lines[i].cells
  <2>1. i \in 1 .. Len(b.lines) /\ i - 1 - b.ybase \notin rows
    BY <1>2
  <2> QED BY <1>3, <2>1
<1> HIDE DEF f
<1>9. Stays(t, Put(t, c), whole) /\ c.x = b.x /\ c.y = b.y /\ Framed(c, S, t.rows, Back(t)) /\ OnScreen(c, t.cols, t.rows) /\ Past(Buf(t), c)
  BY <1>2, <1>7, <1>8, MapStays DEF S
<1> HIDE DEF c
<1>10. Edited(t, c, whole)
  BY <1>9 DEF Edited, S
<1> QED BY <1>1, <1>9, <1>10

\* Where erasing starts: the cursor, at most one beyond the margin.
LEMMA ErasableIs ==
  ASSUME NEW t, NEW whole \in BOOLEAN, Good(t, whole)
  PROVE  Edited(t, Erasable(t), whole) /\ Erasable(t).x \in 0 .. t.cols /\ Erasable(t).y \in 0 .. t.rows - 1
<1> DEFINE b == Buf(t)
           S == Kind(t, whole)
           back == Back(t)
           right == t.cols
           c == Restricted(t, b, right)
<1>1. /\ back \in Nat /\ t.rows \in Nat \ {0} /\ t.origin \in BOOLEAN /\ Framed(b, S, t.rows, back) /\ right \in Nat
  BY TermIs, Showing
<1>2. Edited(t, b, whole)
  BY ShownEdited
<1>3. Erasable(t) = c
  BY DEF Erasable
<1> HIDE DEF b, S, back, right
<1>4. Framed(c, S, t.rows, back) /\ Onto(b, c) /\ c.x \in 0 .. right /\ c.y \in 0 .. t.rows - 1
  BY <1>1, RestrictedIs
<1> HIDE DEF c
<1>5. Framed(c, Kind(t, whole), t.rows, Back(t)) /\ Past(b, c) /\ c.x \in 0 .. t.cols
  BY <1>4 DEF Onto, S, back, right
<1>6. OnScreen(c, t.cols, t.rows)
  BY <1>1, <1>4 DEF OnScreen, right
<1>7. Edited(t, c, whole)
  BY <1>2, <1>5, <1>6, EditedThen
<1> QED BY <1>3, <1>4, <1>5, <1>7

\* A line that no longer continues the one above.
LEMMA EditedUnwrap ==
  ASSUME NEW t, NEW whole \in BOOLEAN, Good(t, whole), NEW b, Edited(t, b, whole), NEW i \in Nat
  PROVE  LET c == Unwrap(b, i) IN
         Edited(t, c, whole) /\ c.x = b.x /\ c.y = b.y /\ c.ybase = b.ybase /\ Onto(b, c)
<1>1. PICK cols \in Nat \ {0, 1}, exact \in BOOLEAN, rows \in Nat \ {0}, back \in Nat :
        /\ cols = t.cols /\ rows = t.rows /\ back = Back(t) /\ Kind(t, whole) = RowsOf(cols, exact, whole)
  BY KindIs
<1> DEFINE c == Unwrap(b, i)
<1>2. Framed(b, RowsOf(cols, exact, whole), rows, back) /\ OnScreen(b, t.cols, t.rows)
  BY <1>1 DEF Edited
<1>3. /\ Framed(c, RowsOf(cols, exact, whole), rows, back) /\ Onto(b, c) /\ c.x = b.x /\ c.y = b.y
  BY <1>2, UnwrapIs
<1> HIDE DEF c
<1>4. Past(b, c) /\ OnScreen(c, t.cols, t.rows) /\ c.ybase = b.ybase
  BY <1>2, <1>3 DEF Onto, Past, OnScreen
<1>5. Framed(c, Kind(t, whole), t.rows, Back(t))
  BY <1>1, <1>3
<1>6. Edited(t, c, whole)
  BY <1>4, <1>5, EditedThen
<1> QED BY <1>3, <1>4, <1>6 DEF c

\* The screen below the cursor.
LEMMA EraseBelowIs ==
  ASSUME NEW t, NEW whole \in BOOLEAN, Good(t, whole), NEW respect \in BOOLEAN
  PROVE  Stays(t, EraseBelow(t, respect), whole)
<1> DEFINE b == Erasable(t)
           y == b.y
           start == b.x
           end == t.cols
           clear == (b.x = 0)
           c == EraseCells(b, y, start, end, clear, respect)
           rows == (y + 1)..(t.rows - 1)
           d == ResetRows(c, rows, respect)
<1>1. Edited(t, b, whole) /\ start \in 0 .. t.cols /\ y \in 0 .. t.rows - 1
  BY ErasableIs
<1>2. end \in Nat \ {0} /\ start <= end /\ clear \in BOOLEAN /\ rows \subseteq Nat
  BY <1>1, TermIs
<1>3. EraseBelow(t, respect) = Put(t, d)
  BY DEF EraseBelow
<1> HIDE DEF b, y, start, end, clear, rows
<1>4. Edited(t, c, whole)
  BY <1>1, <1>2, EraseCellsIs
<1> HIDE DEF c
<1>5. Stays(t, Put(t, d), whole)
  BY <1>2, <1>4, ResetRowsIs
<1> QED BY <1>3, <1>5

\* And above.
LEMMA EraseAboveIs ==
  ASSUME NEW t, NEW whole \in BOOLEAN, Good(t, whole), NEW respect \in BOOLEAN
  PROVE  Stays(t, EraseAbove(t, respect), whole)
<1> DEFINE b == Erasable(t)
           y == b.y
           start == 0
           end == b.x + 1
           clear == TRUE
           c == EraseCells(b, y, start, end, clear, respect)
           i == b.ybase + y + 1
           u == Unwrap(c, i)
           e == IF b.x + 1 >= t.cols THEN u ELSE c
           rows == 0..(y - 1)
           d == ResetRows(e, rows, respect)
<1>1. Edited(t, b, whole) /\ b.x \in 0 .. t.cols /\ y \in 0 .. t.rows - 1
  BY ErasableIs
<1>2. end \in Nat \ {0} /\ start <= end /\ start \in 0 .. t.cols /\ clear \in BOOLEAN /\ rows \subseteq Nat
  BY <1>1, TermIs
<1>3. EraseAbove(t, respect) = Put(t, d)
  BY DEF EraseAbove
<1>4. i \in Nat
  BY <1>1, EditedIs
<1> HIDE DEF y, start, end, clear, rows, i, b
<1>5. Edited(t, c, whole)
  BY <1>1, <1>2, EraseCellsIs
<1> HIDE DEF c
<1>6. Edited(t, u, whole)
  BY <1>4, <1>5, EditedUnwrap
<1> HIDE DEF u
<1>7. Edited(t, e, whole)
  BY <1>5, <1>6
<1> HIDE DEF e
<1>8. Stays(t, Put(t, d), whole)
  BY <1>2, <1>7, ResetRowsIs
<1> QED BY <1>3, <1>8

\* All of it, and the three ways to erase in the line of the cursor.
LEMMA ErasesAre ==
  ASSUME NEW t, NEW whole \in BOOLEAN, Good(t, whole), NEW respect \in BOOLEAN
  PROVE  /\ Stays(t, EraseAll(t, respect), whole) /\ Stays(t, EraseRight(t, respect), whole)
         /\ Stays(t, EraseLeft(t, respect), whole) /\ Stays(t, EraseLine(t, respect), whole)
<1> DEFINE b == Erasable(t)
           y == b.y
           x == b.x
           z == 0
           cols == t.cols
           past == b.x + 1
           head == (b.x = 0)
           yes == TRUE
           no == FALSE
           rows == 0..(t.rows - 1)
           all == ResetRows(b, rows, respect)
           right == EraseCells(b, y, x, cols, head, respect)
           left == EraseCells(b, y, z, past, no, respect)
           line == EraseCells(b, y, z, cols, yes, respect)
<1>1. Edited(t, b, whole) /\ x \in 0 .. t.cols /\ y \in 0 .. t.rows - 1
  BY ErasableIs
<1>2. /\ z \in 0 .. t.cols /\ cols \in Nat \ {0} /\ past \in Nat \ {0} /\ x <= cols /\ z <= past /\ z <= cols
      /\ head \in BOOLEAN /\ yes \in BOOLEAN /\ no \in BOOLEAN /\ rows \subseteq Nat
  BY <1>1, TermIs
<1>3. /\ EraseAll(t, respect) = Put(t, all) /\ EraseRight(t, respect) = Put(t, right)
      /\ EraseLeft(t, respect) = Put(t, left) /\ EraseLine(t, respect) = Put(t, line)
  BY DEF EraseAll, EraseRight, EraseLeft, EraseLine
<1> HIDE DEF b, y, x, z, cols, past, head, yes, no, rows
<1>4. Stays(t, Put(t, all), whole)
  BY <1>1, <1>2, ResetRowsIs
<1>5. Edited(t, right, whole)
  BY <1>1, <1>2, EraseCellsIs
<1>6. Edited(t, left, whole)
  BY <1>1, <1>2, EraseCellsIs
<1>7. Edited(t, line, whole)
  BY <1>1, <1>2, EraseCellsIs
<1> HIDE DEF all, right, left, line
<1> QED BY <1>3, <1>4, <1>5, <1>6, <1>7, EditedStays

\* Characters erased, inserted and deleted.
LEMMA CharsAre ==
  ASSUME NEW t, NEW whole \in BOOLEAN, Good(t, whole), NEW n \in Nat \ {0}
  PROVE  /\ Stays(t, EraseChars(t, n), whole) /\ Stays(t, InsertChars(t, n), whole)
         /\ Stays(t, DeleteChars(t, n), whole)
<1> DEFINE b == Here(t)
           y == b.y
           x == b.x
           end == b.x + n
           no == FALSE
           cells == Row(b, y).cells
           e == ReplaceCells(cells, x, end, no)
           i == InsertCells(cells, x, n, no)
           d == DeleteCells(cells, x, n)
<1>1. Edited(t, b, whole) /\ x \in 0 .. t.cols - 1 /\ y \in 0 .. t.rows - 1
  BY HereIs
<1>2. /\ EraseChars(t, n) = Put(t, Rewrite(b, y, e)) /\ InsertChars(t, n) = Put(t, Rewrite(b, y, i))
      /\ DeleteChars(t, n) = Put(t, Rewrite(b, y, d))
  BY DEF EraseChars, InsertChars, DeleteChars
<1>3. end \in Nat \ {0} /\ x <= end /\ no \in BOOLEAN /\ x \in Nat
  BY <1>1, TermIs
<1> HIDE DEF b, y, x, end, no
<1>4. cells \in Seq(Cell) /\ Len(cells) \in Nat /\ Len(cells) >= t.cols /\ Len(cells) > 0
  BY <1>1, RowLine
<1>5. x \in 0 .. Len(cells)
  BY <1>1, <1>4, TermIs
<1> HIDE DEF cells
<1>6. Alike(cells, e)
  BY <1>3, <1>4, <1>5, ReplaceCellsIs
<1>7. Alike(cells, i) /\ Alike(cells, d)
  BY <1>3, <1>4, InsertCellsIs, DeleteCellsIs
<1> HIDE DEF e, i, d
<1>8. Edited(t, Rewrite(b, y, e), whole) /\ Edited(t, Rewrite(b, y, i), whole) /\ Edited(t, Rewrite(b, y, d), whole)
  BY <1>1, <1>6, <1>7, RewriteIs DEF cells
<1> QED BY <1>2, <1>8, EditedStays

----------------------------------------------------------------------------
(* Back over the margin *)

\* With or without reverse wrap-around.
LEMMA BackspaceIs ==
  ASSUME NEW t, NEW whole \in BOOLEAN, Good(t, whole)
  PROVE  Stays(t, Backspace(t), whole)
<1> DEFINE cols == t.cols
           a == Buf(t)
           S == Kind(t, whole)
           rows == t.rows
           bk == Back(t)
           right == IF t.rev THEN cols ELSE cols - 1
           low == cols - 1
           b == Restricted(t, a, right)
           i == b.ybase + b.y
           w == Unwrap(b, i)
           wy == w.y - 1
           up == AtPlace(w, low, wy)
           last == Row(up, up.y).cells[cols]
           px == b.x - 1
           ux == IF last.w # 0 /\ last.ch = <<>> THEN low - 1 ELSE low
           one == AtColumn(b, px)
           two == AtColumn(up, ux)
           e == IF b.x > 0 THEN one ELSE IF t.rev /\ b.y > b.top /\ b.y <= b.bot /\ Row(b, b.y).wr THEN two ELSE b
           f == Restricted(t, e, low)
<1>1. cols \in Nat \ {0, 1} /\ rows \in Nat \ {0} /\ bk \in Nat /\ t.origin \in BOOLEAN /\ t.rev \in BOOLEAN
      /\ Framed(a, S, rows, bk) /\ Edited(t, a, whole)
  BY TermIs, Showing, ShownEdited
<1>2. right \in Nat /\ right <= cols /\ low \in Nat /\ low <= cols /\ low + 1 = cols
  <2> HIDE DEF cols, rows, a, bk
  <2> QED BY <1>1
<1>3. /\ Framed(b, S, rows, bk) /\ Onto(a, b) /\ b.x \in 0 .. right /\ b.y \in 0 .. rows - 1
  <2> HIDE DEF S, bk, a, right
  <2> QED BY <1>1, <1>2, RestrictedIs
<1>4. Edited(t, b, whole)
  <2>1. OnScreen(b, t.cols, t.rows) /\ Past(a, b)
    <3> HIDE DEF b, right
    <3>1. b.x \in 0 .. cols + 1 /\ b.y \in 0 .. rows - 1 /\ Past(a, b)
      <4> HIDE DEF cols, rows, a
      <4> QED BY <1>1, <1>2, <1>3 DEF Onto
    <3> QED BY <3>1 DEF OnScreen
  <2> QED BY <1>1, <1>3, <2>1, EditedThen
<1>5. up = [w EXCEPT !.y = @ - 1, !.x = t.cols - 1] /\ one = [b EXCEPT !.x = @ - 1]
      /\ two = [up EXCEPT !.x = IF last.w # 0 /\ last.ch = <<>> THEN @ - 1 ELSE @]
  <2>1. Edited(t, w, whole)
    <3>1. i \in Nat
      BY <1>4, EditedIs
    <3> HIDE DEF i, b
    <3> QED BY <1>4, <3>1, EditedUnwrap
  <2>2. w \in BufRec(S) /\ b \in BufRec(S)
    BY <1>4, <2>1, EditedIs
  <2> HIDE DEF w, b, S
  <2>3. up = [w EXCEPT !.y = @ - 1, !.x = t.cols - 1]
    BY <2>2 DEF AtPlace, BufRec
  <2>4. one = [b EXCEPT !.x = @ - 1]
    BY <2>2 DEF AtColumn, BufRec
  <2>5. up.x = low /\ up = [up EXCEPT !.x = up.x]
    BY <2>2 DEF AtPlace, BufRec
  <2> HIDE DEF up, last
  <2>6. two = [up EXCEPT !.x = IF last.w # 0 /\ last.ch = <<>> THEN @ - 1 ELSE @]
    BY <2>5 DEF AtColumn
  <2> QED BY <2>3, <2>4, <2>6
<1>6. Backspace(t) = Put(t, IF t.rev THEN f ELSE e)
  <2> DEFINE b0 == Restricted(t, Buf(t), IF t.rev THEN t.cols ELSE t.cols - 1)
             up0 == [Unwrap(b0, b0.ybase + b0.y) EXCEPT !.y = @ - 1, !.x = t.cols - 1]
             last0 == Row(up0, up0.y).cells[t.cols]
             one0 == [b0 EXCEPT !.x = @ - 1]
             two0 == [up0 EXCEPT !.x = IF last0.w # 0 /\ last0.ch = <<>> THEN @ - 1 ELSE @]
             e0 == IF b0.x > 0 THEN one0
                   ELSE IF t.rev /\ b0.y > b0.top /\ b0.y <= b0.bot /\ Row(b0, b0.y).wr THEN two0 ELSE b0
  <2>1. Backspace(t) = Put(t, IF t.rev THEN Restricted(t, e0, t.cols - 1) ELSE e0)
    BY Zenon DEF Backspace
  <2>2. b = b0
    OBVIOUS
  <2>3. up = up0 /\ one = one0
    <3> HIDE DEF b, b0, up, one
    <3> QED BY <1>5, <2>2
  <2>4. two = two0
    <3> HIDE DEF two, up, up0
    <3>1. last = last0
      BY <2>3
    <3> HIDE DEF last, last0
    <3> QED BY <1>5, <2>3, <3>1
  <2> HIDE DEF one, two, one0, two0, b, b0
  <2>5. e = e0
    BY <2>2, <2>3, <2>4
  <2> HIDE DEF e, e0
  <2> QED BY <2>1, <2>5
<1> HIDE DEF S, bk, a, right, cols, rows, low, i, w, wy, up, last, px, ux
<1>7. one.x \in Int /\ (b.x > 0 => Framed(one, S, rows, bk) /\ Onto(b, one) /\ one.x \in 0 .. cols /\ one.y = b.y)
  <2>1. px \in Int /\ (b.x > 0 => px \in 0 .. cols)
    <3> HIDE DEF b
    <3> QED BY <1>1, <1>2, <1>3 DEF px
  <2> HIDE DEF b
  <2>2. Framed(one, S, rows, bk) /\ Onto(b, one) /\ one.x = px /\ one.y = b.y
    BY <1>1, <1>3, <2>1, AtColumnIs
  <2> HIDE DEF one
  <2> QED BY <2>1, <2>2
<1>8. ASSUME b.y > b.top PROVE Framed(two, S, rows, bk) /\ Onto(b, two) /\ two.x \in 0 .. cols /\ two.y \in 0 .. rows - 1
  <2>1. i \in Nat /\ b.top \in Nat
    BY <1>4, EditedIs DEF i
  <2>2. Framed(w, S, rows, bk) /\ Onto(b, w) /\ w.y = b.y
    <3> HIDE DEF b
    <3>1. Edited(t, w, whole) /\ w.y = b.y /\ Onto(b, w)
      BY <1>4, <2>1, EditedUnwrap DEF w
    <3> QED BY <3>1, EditedIs DEF S, bk, rows
  <2>3. wy \in 0 .. rows - 1 /\ low \in Int
    <3> HIDE DEF b
    <3> QED BY <1>1, <1>2, <1>3, <1>8, <2>1, <2>2 DEF wy
  <2> HIDE DEF b
  <2>4. Framed(up, S, rows, bk) /\ Onto(w, up) /\ up.y = wy
    BY <1>1, <2>2, <2>3, AtPlaceIs DEF up
  <2>5. ux \in 0 .. cols
    <3>1. ux = low - 1 \/ ux = low
      BY DEF ux
    <3> QED BY <1>1, <1>2, <3>1
  <2>6. Framed(two, S, rows, bk) /\ Onto(up, two) /\ two.x = ux /\ two.y = wy
    BY <1>1, <2>4, <2>5, AtColumnIs
  <2> HIDE DEF two
  <2>7. Onto(b, up)
    BY <2>2, <2>4, OntoBoth
  <2> QED BY <2>3, <2>5, <2>6, <2>7, OntoBoth
<1> HIDE DEF one, two
<1>9. Framed(e, S, rows, bk) /\ Onto(b, e) /\ e.x \in 0 .. cols /\ e.y \in 0 .. rows - 1
  <2>1. CASE b.x > 0
    <3>1. e = one
      BY <2>1
    <3> HIDE DEF e, b
    <3> QED BY <1>3, <1>7, <2>1, <3>1
  <2>2. CASE ~(b.x > 0) /\ t.rev /\ b.y > b.top /\ b.y <= b.bot /\ Row(b, b.y).wr
    <3>1. e = two
      BY <2>2
    <3> HIDE DEF e, b
    <3> QED BY <1>8, <2>2, <3>1
  <2>3. CASE ~(b.x > 0) /\ ~(t.rev /\ b.y > b.top /\ b.y <= b.bot /\ Row(b, b.y).wr)
    <3>1. e = b
      BY <2>3
    <3> HIDE DEF e, b
    <3>2. b.x \in 0 .. cols
      BY <1>1, <1>2, <1>3
    <3> QED BY <1>3, <3>1, <3>2, OntoSelf
  <2> QED BY <2>1, <2>2, <2>3
<1> HIDE DEF e
<1>10. Framed(f, S, rows, bk) /\ Onto(e, f) /\ f.x \in 0 .. low /\ f.y \in 0 .. rows - 1
  <2>1. Framed(f, S, t.rows, bk) /\ Onto(e, f) /\ f.x \in 0 .. low /\ f.y \in 0 .. t.rows - 1
    BY <1>1, <1>2, <1>9, RestrictedIs DEF rows
  <2> QED BY <2>1 DEF rows
<1> HIDE DEF f, b
<1>11. Onto(a, e)
  BY <1>3, <1>9, OntoBoth
<1>12. Onto(a, f)
  BY <1>10, <1>11, OntoBoth
<1>13. Edited(t, e, whole)
  <2>1. OnScreen(e, t.cols, t.rows) /\ Past(Buf(t), e)
    <3>1. e.x \in 0 .. cols + 1
      BY <1>1, <1>9
    <3> QED BY <1>9, <1>11, <3>1 DEF OnScreen, Onto, a, cols, rows
  <2> QED BY <1>9, <2>1 DEF Edited, S, bk, rows
<1>14. Edited(t, f, whole)
  <2>1. OnScreen(f, t.cols, t.rows) /\ Past(Buf(t), f)
    <3>1. f.x \in 0 .. cols + 1
      BY <1>1, <1>2, <1>10
    <3> QED BY <1>10, <1>12, <3>1 DEF OnScreen, Onto, a, cols, rows
  <2> QED BY <1>10, <2>1 DEF Edited, S, bk, rows
<1> QED BY <1>6, <1>13, <1>14, EditedStays

----------------------------------------------------------------------------
(* Modes and the two buffers *)

\* The scroll region, and the cursor at its top.
LEMMA RegionSet ==
  ASSUME NEW t, NEW whole \in BOOLEAN, Good(t, whole), NEW top \in Nat \ {0}, NEW bottom \in Nat
  PROVE  Stays(t, SetScrollRegion(t, top, bottom), whole)
<1> DEFINE bot == IF bottom \in 1..t.rows THEN bottom ELSE t.rows
           S == Kind(t, whole)
           b == Buf(t)
           first == top - 1
           last == bot - 1
           c1 == [b EXCEPT !.top = first]
           c == [c1 EXCEPT !.bot = last]
           u == Put(t, c)
           z == 0
<1>1. t.rows \in Nat \ {0} /\ t.cols \in Nat \ {0, 1}
  BY TermIs
<1>2. SetScrollRegion(t, top, bottom) = IF bot > top THEN SetCursor(u, z, z) ELSE t
  <2>1. c = [b EXCEPT !.top = first, !.bot = last]
    OBVIOUS
  <2> HIDE DEF c
  <2> QED BY <2>1 DEF SetScrollRegion
<1>3. CASE ~(bot > top)
  BY <1>2, <1>3, StaysSelf
<1>4. CASE bot > top
  <2>1. bot \in 1 .. t.rows
    BY <1>1
  <2> HIDE DEF bot
  <2>2. first \in Nat /\ last \in Nat /\ first <= last /\ last < t.rows /\ z \in Int
    BY <1>1, <1>4, <2>1
  <2>3. b \in BufRec(S) /\ b.x \in 0 .. t.cols + 1 /\ b.y \in 0 .. t.rows - 1 /\ b.ydisp \in 0 .. b.ybase
    BY BufIs
  <2> HIDE DEF first, last, b, S, z
  <2>4. /\ c \in BufRec(S) /\ c.lines = b.lines /\ c.max = b.max /\ c.ybase = b.ybase /\ c.back = b.back
        /\ c.down = b.down /\ c.ydisp = b.ydisp /\ c.top = first /\ c.bot = last /\ c.x = b.x /\ c.y = b.y
    <3>1. /\ c1 \in BufRec(S) /\ c1.lines = b.lines /\ c1.max = b.max /\ c1.ybase = b.ybase /\ c1.back = b.back
          /\ c1.down = b.down /\ c1.ydisp = b.ydisp /\ c1.top = first /\ c1.x = b.x /\ c1.y = b.y
      <4>1. b \in BufRec(S) /\ first \in Int
        BY <2>2, <2>3
      <4> QED BY ONLY <4>1 DEF BufRec, c1
    <3> HIDE DEF c1
    <3>2. last \in Int
      BY <2>2
    <3> QED BY ONLY <3>1, <3>2 DEF BufRec, c
  <2> HIDE DEF c
  <2>5. OnScreen(c, t.cols, t.rows) /\ c.top >= 0 /\ c.top <= c.bot /\ c.bot < t.rows /\ c.ydisp \in 0 .. b.ybase
    BY <2>2, <2>3, <2>4 DEF OnScreen
  <2>6. Stays(t, u, whole)
    BY <2>4, <2>5, FrameStays DEF b, S
  <2> HIDE DEF u
  <2>7. Good(u, whole)
    BY <2>6 DEF Stays
  <2>8. Stays(u, SetCursor(u, z, z), whole)
    BY <2>2, <2>7, SetCursorIs
  <2>9. Stays(t, SetCursor(u, z, z), whole)
    BY <2>6, <2>8, StaysBoth
  <2> QED BY <1>2, <1>4, <2>9
<1> QED BY <1>3, <1>4

\* Other modes.
LEMMA ModesStay ==
  ASSUME NEW t, NEW whole, Good(t, whole), NEW u \in TermRec(t.nb, t.ab), u.cols = t.cols, u.rows = t.rows,
         u.alt = t.alt, u.panic = t.panic
  PROVE  Stays(t, u, whole) /\ Good(u, whole)
<1>1. Good(u, whole) /\ Past(t.nb, u.nb)
  BY ModesPut
<1> QED BY <1>1 DEF Stays

\* Every mode switched on and off.
LEMMA SwitchesAre ==
  ASSUME NEW t, NEW whole \in BOOLEAN, Good(t, whole), NEW on \in BOOLEAN
  PROVE  /\ Stays(t, SelectProtected(t, on), whole) /\ Stays(t, InsertMode(t, on), whole)
         /\ Stays(t, ConvertEol(t, on), whole) /\ Stays(t, Wraparound(t, on), whole)
         /\ Stays(t, ReverseWraparound(t, on), whole) /\ Stays(t, OriginMode(t, on), whole)
<1>1. t \in TermRec(t.nb, t.ab)
  BY TermIs
<1> DEFINE p == [t EXCEPT !.prot = on]
           i == [t EXCEPT !.ins = on]
           e == [t EXCEPT !.eol = on]
           w == [t EXCEPT !.wrap = on]
           r == [t EXCEPT !.rev = on]
           o == [t EXCEPT !.origin = on]
           z == 0
<1>2. p \in TermRec(t.nb, t.ab) /\ p.cols = t.cols /\ p.rows = t.rows /\ p.alt = t.alt /\ p.panic = t.panic
  BY <1>1 DEF TermRec
<1>3. i \in TermRec(t.nb, t.ab) /\ i.cols = t.cols /\ i.rows = t.rows /\ i.alt = t.alt /\ i.panic = t.panic
  BY <1>1 DEF TermRec
<1>4. e \in TermRec(t.nb, t.ab) /\ e.cols = t.cols /\ e.rows = t.rows /\ e.alt = t.alt /\ e.panic = t.panic
  BY <1>1 DEF TermRec
<1>5. w \in TermRec(t.nb, t.ab) /\ w.cols = t.cols /\ w.rows = t.rows /\ w.alt = t.alt /\ w.panic = t.panic
  BY <1>1 DEF TermRec
<1>6. r \in TermRec(t.nb, t.ab) /\ r.cols = t.cols /\ r.rows = t.rows /\ r.alt = t.alt /\ r.panic = t.panic
  BY <1>1 DEF TermRec
<1>7. o \in TermRec(t.nb, t.ab) /\ o.cols = t.cols /\ o.rows = t.rows /\ o.alt = t.alt /\ o.panic = t.panic
  BY <1>1 DEF TermRec
<1>8. /\ SelectProtected(t, on) = p /\ InsertMode(t, on) = i /\ ConvertEol(t, on) = e /\ Wraparound(t, on) = w
      /\ ReverseWraparound(t, on) = r /\ OriginMode(t, on) = SetCursor(o, z, z) /\ z \in Int
  BY DEF SelectProtected, InsertMode, ConvertEol, Wraparound, ReverseWraparound, OriginMode
<1> HIDE DEF p, i, e, w, r, o, z
<1>9. Stays(t, p, whole) /\ Stays(t, i, whole) /\ Stays(t, e, whole) /\ Stays(t, w, whole) /\ Stays(t, r, whole)
  BY <1>2, <1>3, <1>4, <1>5, <1>6, ModesStay
<1>10. Stays(t, o, whole) /\ Good(o, whole)
  BY <1>7, ModesStay
<1>11. Stays(o, SetCursor(o, z, z), whole)
  BY <1>8, <1>10, SetCursorIs
<1>12. Stays(t, SetCursor(o, z, z), whole)
  BY <1>10, <1>11, StaysBoth
<1> QED BY <1>8, <1>9, <1>12

\* A buffer that is given its rows.
LEMMA FilledIs ==
  ASSUME NEW cols \in Nat, NEW rows \in Nat \ {0}, NEW back \in Nat, NEW exact \in BOOLEAN, NEW whole \in BOOLEAN,
         NEW b \in BufRec(TextLine), b.lines = <<>>, b.max = rows + back, b.back = back, b.down = 0,
         b.ybase = 0, b.ydisp = 0, b.top = 0, b.bot = rows - 1
  PROVE  /\ Framed(FillRows(b, cols, rows), RowsOf(cols, exact, whole), rows, back)
         /\ FillRows(b, cols, rows).x = b.x /\ FillRows(b, cols, rows).y = b.y
         /\ FillRows(b, cols, rows) \in BufRec(RowsOf(cols, exact, whole))
<1> DEFINE no == FALSE
           new == BlankLine(cols, no)
           f == [i \in 1 .. rows |-> new]
           l == Listed(f)
           S == RowsOf(cols, exact, whole)
           c == [b EXCEPT !.lines = l]
<1>1. no \in BOOLEAN
  OBVIOUS
<1>2. FillRows(b, cols, rows) = c
  BY DEF FillRows
<1> HIDE DEF no
<1>3. new \in S
  BY <1>1, BlankLineIs
<1> HIDE DEF new, S
<1>4. f \in [1 .. rows -> S] /\ rows \in Nat
  BY <1>3
<1> HIDE DEF f
<1>5. l \in Seq(S) /\ Len(l) = rows
  BY <1>4, ListedIs
<1> HIDE DEF l
<1>6. /\ c \in BufRec(S) /\ c.lines = l /\ c.max = rows + back /\ c.back = back /\ c.down = 0 /\ c.ybase = 0
      /\ c.ydisp = 0 /\ c.top = 0 /\ c.bot = rows - 1 /\ c.x = b.x /\ c.y = b.y
  BY <1>5 DEF BufRec
<1> HIDE DEF c
<1>7. Framed(c, S, rows, back)
  BY <1>5, <1>6 DEF Framed
<1> QED BY <1>2, <1>6, <1>7 DEF S

\* A buffer without lines.
LEMMA EmptyIs ==
  ASSUME NEW cols \in Nat, NEW rows \in Nat \ {0}, NEW back \in Nat
  PROVE  LET b == EmptyBuffer(cols, rows, back) IN
         /\ b \in BufRec(TextLine) /\ b.lines = <<>> /\ b.max = rows + back /\ b.back = back /\ b.down = 0
         /\ b.ybase = 0 /\ b.ydisp = 0 /\ b.x = 0 /\ b.y = 0 /\ b.top = 0 /\ b.bot = rows - 1
<1> DEFINE T == Stops(cols)
<1>1. T \in SUBSET Int
  BY DEF Stops
<1>2. <<>> \in Seq(TextLine)
  OBVIOUS
<1> HIDE DEF T
<1> QED BY <1>1, <1>2 DEF EmptyBuffer, BufRec, T

\* A fresh terminal.
LEMMA FreshIs ==
  ASSUME NEW cols \in Nat \ {0, 1}, NEW rows \in Nat \ {0}, NEW whole \in BOOLEAN
  PROVE  Good(Fresh(cols, rows), whole) /\ Fresh(cols, rows).panic = "none"
<1> DEFINE t == Fresh(cols, rows)
           z == 0
           exact == Scrollback > 0
           back == Scrollback
           e == EmptyBuffer(cols, rows, back)
           n == FillRows(e, cols, rows)
           a == EmptyBuffer(cols, rows, z)
<1>1. z \in Nat /\ exact \in BOOLEAN /\ back \in Nat /\ cols \in Nat
  BY ScreenAssumption
<1>2. /\ t = [cols |-> cols, rows |-> rows, usr |-> FALSE, alt |-> FALSE, nb |-> n, ab |-> a,
              ins |-> FALSE, wrap |-> TRUE, origin |-> FALSE, rev |-> FALSE, eol |-> FALSE,
              prot |-> FALSE, join |-> 0, panic |-> "none"]
  BY DEF Fresh
<1> HIDE DEF z, exact, back, t
<1>3. /\ e \in BufRec(TextLine) /\ e.lines = <<>> /\ e.max = rows + back /\ e.back = back /\ e.down = 0
      /\ e.ybase = 0 /\ e.ydisp = 0 /\ e.x = 0 /\ e.y = 0 /\ e.top = 0 /\ e.bot = rows - 1
  BY <1>1, EmptyIs
<1>4. /\ a \in BufRec(TextLine) /\ a.lines = <<>> /\ a.max = rows + z /\ a.back = z /\ a.down = 0
      /\ a.ybase = 0 /\ a.ydisp = 0 /\ a.x = 0 /\ a.y = 0 /\ a.top = 0 /\ a.bot = rows - 1
  BY <1>1, EmptyIs
<1> HIDE DEF e, a
<1>5. Framed(n, RowsOf(cols, exact, whole), rows, back) /\ n.x = e.x /\ n.y = e.y
  BY <1>1, <1>3, FilledIs
<1> HIDE DEF n
<1>6. /\ t \in TermRec(t.nb, t.ab) /\ t.cols = cols /\ t.rows = rows /\ t.nb = n /\ t.ab = a /\ t.alt = FALSE
      /\ t.panic = "none"
  BY <1>2 DEF TermRec
<1>7. OnScreen(t.nb, t.cols, t.rows)
  BY <1>3, <1>5, <1>6 DEF OnScreen
<1>8. Asleep(t.ab, t.rows)
  BY <1>4, <1>6 DEF Asleep, z
<1>9. Framed(t.nb, RowsOf(t.cols, Scrollback > 0, whole), t.rows, Scrollback)
  BY <1>5, <1>6 DEF exact, back
<1>10. Good(t, whole)
  <2>1. ~t.alt /\ t.cols >= 2 /\ t.rows >= 1
    BY <1>6
  <2> QED BY <1>6, <1>7, <1>8, <1>9, <2>1 DEF Good
<1> QED BY <1>6, <1>10 DEF t

\* The alternate buffer shown.
LEMMA ActivateAltIs ==
  ASSUME NEW t, NEW whole \in BOOLEAN, Good(t, whole)
  PROVE  Stays(t, ActivateAlt(t), whole)
<1> DEFINE cols == t.cols
           rows == t.rows
           z == 0
           no == FALSE
           a == t.ab
           c == FillRows(a, cols, rows)
           nx == t.nb.x
           ny == t.nb.y
           d == AtPlace(c, nx, ny)
           v == [t EXCEPT !.alt = TRUE]
           u == [v EXCEPT !.ab = d]
<1>1. t \in TermRec(t.nb, t.ab) /\ cols \in Nat \ {0, 1} /\ rows \in Nat \ {0} /\ t.alt \in BOOLEAN
  BY TermIs
<1>2. CASE t.alt
  BY <1>2, StaysSelf DEF ActivateAlt
<1>3. CASE ~t.alt
  <2>1. ActivateAlt(t) = u
    <3>1. u = [t EXCEPT !.alt = TRUE, !.ab = d]
      OBVIOUS
    <3>2. d = [FillRows(t.ab, t.cols, t.rows) EXCEPT !.x = t.nb.x, !.y = t.nb.y]
      BY DEF AtPlace
    <3> HIDE DEF u, d
    <3>3. ActivateAlt(t) = [t EXCEPT !.alt = TRUE, !.ab = [FillRows(@, t.cols, t.rows) EXCEPT !.x = t.nb.x, !.y = t.nb.y]]
      BY <1>3 DEF ActivateAlt
    <3>4. [t EXCEPT !.alt = TRUE, !.ab = [FillRows(@, t.cols, t.rows) EXCEPT !.x = t.nb.x, !.y = t.nb.y]]
            = [t EXCEPT !.alt = TRUE, !.ab = [FillRows(t.ab, t.cols, t.rows) EXCEPT !.x = t.nb.x, !.y = t.nb.y]]
      BY <1>1 DEF TermRec
    <3> QED BY <3>1, <3>2, <3>3, <3>4
  <2>2. /\ a \in BufRec(TextLine) /\ a.lines = <<>> /\ a.max = rows /\ a.back = 0 /\ a.down = 0
        /\ a.ybase = 0 /\ a.ydisp = 0 /\ a.top = 0 /\ a.bot = rows - 1
    BY <1>3 DEF Good, Asleep
  <2>3. nx \in 0 .. cols + 1 /\ ny \in 0 .. rows - 1
    BY DEF Good, OnScreen
  <2>4. nx \in Int /\ ny \in Int /\ z \in Nat /\ no \in BOOLEAN /\ cols \in Nat /\ a.max = rows + z /\ a.back = z
    BY <1>1, <2>2, <2>3
  <2> HIDE DEF z, no, a, nx, ny, cols, rows
  <2>5. Framed(c, RowsOf(cols, no, whole), rows, z)
    BY <1>1, <2>2, <2>4, FilledIs
  <2> HIDE DEF c
  <2>6. Framed(d, RowsOf(cols, no, whole), rows, z) /\ d.x = nx /\ d.y = ny
    BY <1>1, <2>4, <2>5, AtPlaceIs
  <2> HIDE DEF d
  <2>7. v \in TermRec(t.nb, t.ab) /\ v.cols = t.cols /\ v.rows = t.rows /\ v.alt = TRUE /\ v.nb = t.nb /\ v.panic = t.panic
    BY <1>1 DEF TermRec
  <2> HIDE DEF v
  <2>8. /\ u \in TermRec(u.nb, u.ab) /\ u.cols = t.cols /\ u.rows = t.rows /\ u.alt = TRUE /\ u.nb = t.nb /\ u.ab = d
        /\ u.panic = t.panic
    BY <2>7 DEF TermRec
  <2> HIDE DEF u
  <2>9. OnScreen(u.ab, u.cols, u.rows)
    BY <2>3, <2>6, <2>8 DEF OnScreen, cols, rows
  <2>10. Framed(u.ab, RowsOf(u.cols, FALSE, whole), u.rows, 0)
    BY <2>6, <2>8 DEF cols, rows, z, no
  <2>11. Good(u, whole)
    BY <2>8, <2>9, <2>10 DEF Good
  <2>12. Stays(t, u, whole)
    BY <2>8, <2>11, OntoSelf DEF Stays
  <2> QED BY <2>1, <2>12
<1> QED BY <1>1, <1>2, <1>3

\* The normal buffer shown.
LEMMA ActivateNormalIs ==
  ASSUME NEW t, NEW whole \in BOOLEAN, Good(t, whole)
  PROVE  Stays(t, ActivateNormal(t), whole)
<1> DEFINE cols == t.cols
           rows == t.rows
           z == 0
           n == t.nb
           ax == t.ab.x
           ay == t.ab.y
           exact == Scrollback > 0
           back == Scrollback
           e == EmptyBuffer(cols, rows, z)
           a == [e EXCEPT !.sx = t.ab.sx, !.sy = t.ab.sy, !.so = t.ab.so, !.sw = t.ab.sw, !.sp = t.ab.sp]
           m == AtPlace(n, ax, ay)
           v == [t EXCEPT !.alt = FALSE]
           w == [v EXCEPT !.nb = m]
           u == [w EXCEPT !.ab = a]
<1>1. t \in TermRec(t.nb, t.ab) /\ cols \in Nat \ {0, 1} /\ rows \in Nat \ {0} /\ t.alt \in BOOLEAN
  BY TermIs
<1>2. CASE ~t.alt
  BY <1>2, StaysSelf DEF ActivateNormal
<1>3. CASE t.alt
  <2>1. Framed(n, RowsOf(cols, exact, whole), rows, back) /\ back \in Nat
    BY ScreenAssumption DEF Good
  <2>2. Framed(t.ab, RowsOf(cols, FALSE, whole), rows, 0) /\ ax \in 0 .. cols + 1 /\ ay \in 0 .. rows - 1
    BY <1>3 DEF Good, OnScreen
  <2>3. /\ t.ab.sx \in Int /\ t.ab.sy \in Int /\ t.ab.so \in BOOLEAN /\ t.ab.sw \in BOOLEAN /\ t.ab.sp \in BOOLEAN
        /\ ax \in Int /\ ay \in Int /\ z \in Nat /\ cols \in Nat
    BY <1>1, <2>2 DEF Framed, BufRec
  <2>4. n \in BufRec(RowsOf(cols, exact, whole))
    BY <2>1 DEF Framed
  <2>5. ActivateNormal(t) = u
    <3>1. ActivateNormal(t) = [t EXCEPT !.alt = FALSE, !.nb.x = t.ab.x, !.nb.y = t.ab.y, !.ab = a]
      BY <1>3 DEF ActivateNormal
    <3>2. m = [[n EXCEPT !.x = t.ab.x] EXCEPT !.y = t.ab.y]
      BY DEF AtPlace
    <3> HIDE DEF a, m
    <3>3. [t EXCEPT !.alt = FALSE, !.nb.x = t.ab.x, !.nb.y = t.ab.y, !.ab = a]
            = [[[t EXCEPT !.alt = FALSE] EXCEPT !.nb = [[n EXCEPT !.x = t.ab.x] EXCEPT !.y = t.ab.y]] EXCEPT !.ab = a]
      BY <1>1, <2>4 DEF TermRec, BufRec
    <3> QED BY <3>1, <3>2, <3>3
  <2> HIDE DEF z, ax, ay, cols, rows, exact, back, n
  <2>6. Framed(m, RowsOf(cols, exact, whole), rows, back) /\ Onto(n, m) /\ m.x = ax /\ m.y = ay
    BY <1>1, <2>1, <2>3, AtPlaceIs
  <2>7. /\ e \in BufRec(TextLine) /\ e.lines = <<>> /\ e.max = rows + z /\ e.back = z /\ e.down = 0
        /\ e.ybase = 0 /\ e.ydisp = 0 /\ e.x = 0 /\ e.y = 0 /\ e.top = 0 /\ e.bot = rows - 1
    BY <1>1, <2>3, EmptyIs
  <2> HIDE DEF e, m
  <2>8. /\ a \in BufRec(TextLine) /\ a.lines = <<>> /\ a.max = rows + z /\ a.back = z /\ a.down = 0
        /\ a.ybase = 0 /\ a.ydisp = 0 /\ a.x = 0 /\ a.y = 0 /\ a.top = 0 /\ a.bot = rows - 1
    BY <2>3, <2>7 DEF BufRec
  <2> HIDE DEF a
  <2>9. Asleep(a, rows)
    BY <1>1, <2>8 DEF Asleep, z
  <2>10. v \in TermRec(t.nb, t.ab) /\ v.cols = cols /\ v.rows = rows /\ v.alt = FALSE /\ v.panic = t.panic
    BY <1>1 DEF TermRec, cols, rows
  <2> HIDE DEF v
  <2>11. w \in TermRec(m, t.ab) /\ w.cols = cols /\ w.rows = rows /\ w.alt = FALSE /\ w.panic = t.panic
    BY <2>10 DEF TermRec
  <2> HIDE DEF w
  <2>12. u \in TermRec(m, a) /\ u.cols = cols /\ u.rows = rows /\ u.alt = FALSE /\ u.panic = t.panic
    BY <2>11 DEF TermRec
  <2> HIDE DEF u
  <2>13. u.nb = m /\ u.ab = a /\ u \in TermRec(u.nb, u.ab)
    BY <2>12 DEF TermRec
  <2>14. OnScreen(u.nb, u.cols, u.rows)
    BY <2>2, <2>6, <2>12, <2>13 DEF OnScreen
  <2>15. Framed(u.nb, RowsOf(u.cols, Scrollback > 0, whole), u.rows, Scrollback)
    BY <2>6, <2>12, <2>13 DEF exact, back
  <2>16. Good(u, whole)
    <3>1. ~u.alt /\ u.cols >= 2 /\ u.rows >= 1 /\ Asleep(u.ab, u.rows)
      BY <1>1, <2>9, <2>12, <2>13
    <3> QED BY <2>13, <2>14, <2>15, <3>1 DEF Good
  <2>17. Past(t.nb, u.nb)
    BY <2>6, <2>13 DEF Onto, n
  <2>18. Stays(t, u, whole)
    BY <2>12, <2>16, <2>17 DEF Stays, cols, rows
  <2> QED BY <2>5, <2>18
<1> QED BY <1>1, <1>2, <1>3

\* With the cursor saved and restored.
LEMMA ScreensAre ==
  ASSUME NEW t, NEW whole \in BOOLEAN, Good(t, whole)
  PROVE  Stays(t, AltScreen(t), whole) /\ Stays(t, NormalScreen(t), whole)
<1> DEFINE s == SaveCursor(t)
           n == ActivateNormal(t)
<1>1. Stays(t, s, whole) /\ Stays(t, n, whole)
  BY NotesAre, ActivateNormalIs
<1> HIDE DEF s, n
<1>2. Good(s, whole) /\ Good(n, whole)
  BY <1>1 DEF Stays
<1>3. Stays(s, ActivateAlt(s), whole) /\ Stays(n, RestoreCursor(n), whole)
  BY <1>2, ActivateAltIs, RestoreCursorIs
<1>4. Stays(t, ActivateAlt(s), whole) /\ Stays(t, RestoreCursor(n), whole)
  BY <1>1, <1>3, StaysBoth
<1> QED BY <1>4 DEF AltScreen, NormalScreen, s, n

\* Default modes.
LEMMA DefaultsIs ==
  ASSUME NEW t, NEW whole, Good(t, whole)
  PROVE  LET u == Defaults(t) IN
         /\ u \in TermRec(t.nb, t.ab) /\ u.cols = t.cols /\ u.rows = t.rows /\ u.alt = t.alt /\ u.panic = t.panic
<1> DEFINE c1 == [t EXCEPT !.ins = FALSE]
           c2 == [c1 EXCEPT !.wrap = TRUE]
           c3 == [c2 EXCEPT !.origin = FALSE]
           c4 == [c3 EXCEPT !.rev = FALSE]
           u == [c4 EXCEPT !.prot = FALSE]
<1>1. t \in TermRec(t.nb, t.ab)
  BY TermIs
<1>2. Defaults(t) = u
  BY DEF Defaults
<1>3. c1 \in TermRec(t.nb, t.ab) /\ c1.cols = t.cols /\ c1.rows = t.rows /\ c1.alt = t.alt /\ c1.panic = t.panic
  BY <1>1 DEF TermRec
<1> HIDE DEF c1
<1>4. c2 \in TermRec(t.nb, t.ab) /\ c2.cols = t.cols /\ c2.rows = t.rows /\ c2.alt = t.alt /\ c2.panic = t.panic
  BY <1>3 DEF TermRec
<1> HIDE DEF c2
<1>5. c3 \in TermRec(t.nb, t.ab) /\ c3.cols = t.cols /\ c3.rows = t.rows /\ c3.alt = t.alt /\ c3.panic = t.panic
  BY <1>4 DEF TermRec
<1> HIDE DEF c3
<1>6. c4 \in TermRec(t.nb, t.ab) /\ c4.cols = t.cols /\ c4.rows = t.rows /\ c4.alt = t.alt /\ c4.panic = t.panic
  BY <1>5 DEF TermRec
<1> HIDE DEF c4
<1>7. u \in TermRec(t.nb, t.ab) /\ u.cols = t.cols /\ u.rows = t.rows /\ u.alt = t.alt /\ u.panic = t.panic
  BY <1>6 DEF TermRec
<1> HIDE DEF u
<1> QED BY <1>2, <1>7

\* The soft reset.
LEMMA SoftResetIs ==
  ASSUME NEW t, NEW whole \in BOOLEAN, Good(t, whole)
  PROVE  Stays(t, SoftReset(t), whole)
<1> DEFINE u == Defaults(t)
           b == Buf(t)
           S == Kind(t, whole)
           last == t.rows - 1
           base == b.ybase
           c1 == [b EXCEPT !.top = 0]
           c2 == [c1 EXCEPT !.bot = last]
           c3 == [c2 EXCEPT !.sx = 0]
           c4 == [c3 EXCEPT !.sy = base]
           c == [c4 EXCEPT !.sp = FALSE]
<1>1. t.rows \in Nat \ {0} /\ t.cols \in Nat \ {0, 1}
  BY TermIs
<1>2. /\ b \in BufRec(S) /\ base \in Int /\ last \in Int /\ last >= 0 /\ last < t.rows
      /\ b.x \in 0 .. t.cols + 1 /\ b.y \in 0 .. t.rows - 1 /\ b.ydisp \in 0 .. b.ybase
  <2>1. b \in BufRec(S) /\ b.ybase \in Nat /\ b.ydisp \in Nat /\ b.ydisp <= b.ybase /\ b.x \in 0 .. t.cols + 1 /\ b.y \in 0 .. t.rows - 1
    BY BufIs
  <2> HIDE DEF b, S
  <2> QED BY <1>1, <2>1
<1>3. SoftReset(t) = Put(u, c)
  <2>1. c = [b EXCEPT !.top = 0, !.bot = last, !.sx = 0, !.sy = base, !.sp = FALSE]
    OBVIOUS
  <2> HIDE DEF c
  <2> QED BY <2>1 DEF SoftReset
<1>4. u \in TermRec(t.nb, t.ab) /\ u.cols = t.cols /\ u.rows = t.rows /\ u.alt = t.alt /\ u.panic = t.panic
  BY DefaultsIs
<1> HIDE DEF last, base, b, S, u
<1>5. /\ c1 \in BufRec(S) /\ c1.lines = b.lines /\ c1.max = b.max /\ c1.ybase = b.ybase /\ c1.back = b.back
      /\ c1.down = b.down /\ c1.ydisp = b.ydisp /\ c1.top = 0 /\ c1.x = b.x /\ c1.y = b.y
  <2>1. b \in BufRec(S)
    BY <1>2
  <2>2. c1 \in BufRec(S)
    <3> DEFINE z == 0
               d == [b EXCEPT !.top = z]
    <3>1. z \in Int
      OBVIOUS
    <3> HIDE DEF z
    <3>2. d \in BufRec(S)
      BY ONLY <2>1, <3>1 DEF BufRec
    <3> QED BY <3>2 DEF z, c1
  <2>3. /\ c1.lines = b.lines /\ c1.max = b.max /\ c1.ybase = b.ybase /\ c1.back = b.back
        /\ c1.down = b.down /\ c1.ydisp = b.ydisp /\ c1.top = 0 /\ c1.x = b.x /\ c1.y = b.y
    BY ONLY <2>1 DEF BufRec, c1
  <2> QED BY ONLY <2>2, <2>3
<1> HIDE DEF c1
<1>6. /\ c2 \in BufRec(S) /\ c2.lines = b.lines /\ c2.max = b.max /\ c2.ybase = b.ybase /\ c2.back = b.back
      /\ c2.down = b.down /\ c2.ydisp = b.ydisp /\ c2.top = 0 /\ c2.bot = last /\ c2.x = b.x /\ c2.y = b.y
  BY <1>2, <1>5 DEF BufRec
<1> HIDE DEF c2
<1>7. /\ c3 \in BufRec(S) /\ c3.lines = b.lines /\ c3.max = b.max /\ c3.ybase = b.ybase /\ c3.back = b.back
      /\ c3.down = b.down /\ c3.ydisp = b.ydisp /\ c3.top = 0 /\ c3.bot = last /\ c3.x = b.x /\ c3.y = b.y
  BY <1>6 DEF BufRec
<1> HIDE DEF c3
<1>8. /\ c4 \in BufRec(S) /\ c4.lines = b.lines /\ c4.max = b.max /\ c4.ybase = b.ybase /\ c4.back = b.back
      /\ c4.down = b.down /\ c4.ydisp = b.ydisp /\ c4.top = 0 /\ c4.bot = last /\ c4.x = b.x /\ c4.y = b.y
  BY <1>2, <1>7 DEF BufRec
<1> HIDE DEF c4
<1>9. /\ c \in BufRec(S) /\ c.lines = b.lines /\ c.max = b.max /\ c.ybase = b.ybase /\ c.back = b.back
      /\ c.down = b.down /\ c.ydisp = b.ydisp /\ c.top = 0 /\ c.bot = last /\ c.x = b.x /\ c.y = b.y
  BY <1>8 DEF BufRec
<1> HIDE DEF c
<1>10. Stays(t, u, whole) /\ Good(u, whole) /\ Buf(u) = b /\ Kind(u, whole) = S
  BY <1>4, ModesStay, ModesPut DEF b, S
<1>11. c \in BufRec(Kind(u, whole)) /\ c.lines = Buf(u).lines /\
         c.max = Buf(u).max /\ c.ybase = Buf(u).ybase /\ c.back = Buf(u).back /\ c.down = Buf(u).down /\
         c.ydisp \in 0 .. Buf(u).ybase
  BY <1>2, <1>9, <1>10
<1>12. c.top >= 0 /\ c.top <= c.bot /\ c.bot < u.rows
  BY <1>2, <1>4, <1>9
<1>13. OnScreen(c, u.cols, u.rows)
  BY <1>2, <1>4, <1>9 DEF OnScreen
<1>14. Stays(u, Put(u, c), whole)
  BY <1>10, <1>11, <1>12, <1>13, FrameStays
<1> QED BY <1>3, <1>10, <1>14, StaysBoth

\* The full one.
LEMMA FullResetIs ==
  ASSUME NEW t, NEW whole \in BOOLEAN, Good(t, whole)
  PROVE  Good(FullReset(t), whole) /\ FullReset(t).panic = "none"
<1> DEFINE cols == t.cols
           rows == t.rows
           f == Fresh(cols, rows)
           on == t.eol
           u == [f EXCEPT !.eol = on]
<1>1. cols \in Nat \ {0, 1} /\ rows \in Nat \ {0} /\ on \in BOOLEAN
  BY TermIs
<1>2. FullReset(t) = u
  BY DEF FullReset
<1> HIDE DEF cols, rows, on
<1>3. Good(f, whole) /\ f.panic = "none"
  BY <1>1, FreshIs
<1> HIDE DEF f
<1>4. f \in TermRec(f.nb, f.ab)
  BY <1>3, TermIs
<1>5. u \in TermRec(f.nb, f.ab) /\ u.cols = f.cols /\ u.rows = f.rows /\ u.alt = f.alt /\ u.panic = f.panic
  BY <1>1, <1>4 DEF TermRec
<1> HIDE DEF u
<1> QED BY <1>2, <1>3, <1>5, ModesStay

\* The history dropped.
LEMMA EraseScrollbackIs ==
  ASSUME NEW t, NEW whole \in BOOLEAN, Good(t, whole)
  PROVE  Good(EraseScrollback(t), whole) /\ EraseScrollback(t).panic = t.panic
<1> DEFINE b == Erasable(t)
           S == Kind(t, whole)
           rows == t.rows
           back == Back(t)
           cut == MostOf(Len(b.lines) - t.rows, 0)
           l == ListTrim(b.lines, cut)
           base == MostOf(b.ybase - cut, 0)
           disp == MostOf(b.ydisp - cut, 0)
           c == Relined(b, l, base, disp)
<1>1. rows \in Nat \ {0} /\ back \in Nat /\ Framed(b, S, rows, back) /\ OnScreen(b, t.cols, t.rows)
  BY TermIs, Showing, ErasableIs DEF Edited
<1>2. EraseScrollback(t) = Put(t, c)
  BY DEF EraseScrollback, Relined
<1> HIDE DEF b, S, back
<1>3. /\ b.lines \in Seq(S) /\ Len(b.lines) \in Nat /\ b.ybase \in Nat /\ b.ydisp \in Nat /\ b.ydisp <= b.ybase
      /\ b.ybase + rows <= Len(b.lines) /\ Len(b.lines) <= b.max
  <2> HIDE DEF rows, cut
  <2> QED BY ONLY <1>1, FrameIs
<1>4. cut \in Nat /\ cut = Len(b.lines) - rows /\ cut <= Len(b.lines)
  BY <1>1, <1>3 DEF MostOf
<1>5. base = 0 /\ disp = 0
  BY <1>1, <1>3, <1>4 DEF MostOf
<1> HIDE DEF cut, base, disp, rows
<1>6. l \in Seq(S) /\ Len(l) = rows
  <2>1. l \in Seq(S) /\ Len(l) = Len(b.lines) - cut
    BY <1>3, <1>4, ListTrimIs
  <2> HIDE DEF l
  <2> QED BY <1>1, <1>3, <1>4, <2>1
<1> HIDE DEF l
<1>7. base \in Nat /\ disp \in 0 .. base /\ base + rows <= Len(l) /\ Len(l) <= b.max
  <2>1. b.max \in Int
    BY <1>1 DEF Framed, BufRec
  <2> QED BY <1>1, <1>3, <1>5, <1>6, <2>1
<1>8. Framed(c, S, rows, back) /\ c.x = b.x /\ c.y = b.y
  BY <1>1, <1>6, <1>7, RelinedIs
<1> HIDE DEF c
<1>9. Framed(c, Kind(t, whole), t.rows, Back(t)) /\ OnScreen(c, t.cols, t.rows)
  BY <1>1, <1>8 DEF OnScreen, S, rows, back
<1> QED BY <1>2, <1>9, PutIs

\* The screen filled.
LEMMA AlignScreenIs ==
  ASSUME NEW t, NEW whole \in BOOLEAN, Good(t, whole)
  PROVE  Good(AlignScreen(t), whole) /\ AlignScreen(t).panic = t.panic
<1> DEFINE z == 0
           s == SetCursor(t, z, z)
           b == Buf(s)
           S == Kind(t, whole)
           at == {(b.ybase + b.y + i) % b.max : i \in 0..(t.rows - 1)}
           no == FALSE
           e == [ch |-> <<Aligned>>, w |-> 1, p |-> t.prot]
           f == [i \in DOMAIN b.lines |-> IF i - 1 \in at
                   THEN [cells |-> Fill(b.lines[i].cells, e, no), wr |-> no] ELSE b.lines[i]]
           l == Listed(f)
           c == [b EXCEPT !.lines = l]
           u == Put(t, c)
<1>1. z \in Int /\ no \in BOOLEAN
  OBVIOUS
<1>2. t.prot \in BOOLEAN /\ t.rows \in Nat \ {0} /\ Back(t) \in Nat
  BY TermIs, Showing
<1>3. e \in Cell /\ e.w = 1
  <2>1. Aligned \in Letters
    BY DEF Letters
  <2>2. <<Aligned>> \in Seq(Letters)
    BY <2>1
  <2> QED BY <1>2, <2>2 DEF Cell
<1>4. AlignScreen(t) = SetCursor(u, z, z)
  BY DEF AlignScreen
<1> HIDE DEF z, no, e
<1>5. Framed(b, S, t.rows, Back(t)) /\ OnScreen(b, t.cols, t.rows)
  <2> DEFINE a == Buf(t)
             d == Placed(t, a, z, z)
  <2>1. Framed(a, Kind(t, whole), t.rows, Back(t))
    BY Showing
  <2>2. s = Put(t, d)
    BY DEF SetCursor
  <2> HIDE DEF a, s
  <2>3. Framed(d, Kind(t, whole), t.rows, Back(t)) /\ OnScreen(d, t.cols, t.rows)
    BY <1>1, <2>1, PlacedIs
  <2> HIDE DEF d
  <2>4. Buf(s) = d
    BY <2>2, <2>3, PutIs
  <2> QED BY <2>3, <2>4
<1> HIDE DEF s, b, at, S
<1>6. /\ b.lines \in Seq(S) /\ Len(b.lines) \in Nat /\ \A i \in 1 .. Len(b.lines) : b.lines[i] \in S
  <2> DEFINE rows == t.rows
             back == Back(t)
  <2>1. rows \in Nat \ {0} /\ back \in Nat /\ Framed(b, S, rows, back)
    BY <1>2, <1>5
  <2> HIDE DEF rows, back
  <2> QED BY ONLY <2>1, FrameIs
<1>7. DOMAIN b.lines = 1 .. Len(b.lines)
  BY <1>6, ItemsAre
<1>8. ASSUME NEW i \in 1 .. Len(b.lines) PROVE f[i] \in S
  <2> DEFINE r == b.lines[i]
             k == Fill(r.cells, e, no)
  <2>1. r \in S
    BY <1>6
  <2>2. f[i] = [cells |-> k, wr |-> no] \/ f[i] = r
    BY <1>7
  <2> HIDE DEF r, f
  <2>3. r.cells \in Seq(Cell)
    BY <2>1, KindLine DEF S
  <2>4. Alike(r.cells, k)
    BY <1>1, <1>3, <2>3, FillIs
  <2> HIDE DEF k
  <2>5. [cells |-> k, wr |-> no] \in Kind(t, whole)
    BY <1>1, <2>1, <2>4, KindPut DEF S
  <2> QED BY <2>1, <2>2, <2>5 DEF S
<1>9. f \in [1 .. Len(b.lines) -> S]
  <2>1. f = [i \in 1 .. Len(b.lines) |-> f[i]]
    BY <1>7
  <2> HIDE DEF f
  <2> QED BY <1>8, <2>1
<1> HIDE DEF f
<1>10. l \in Seq(S) /\ Len(l) = Len(b.lines)
  BY <1>6, <1>9, ListedIs
<1> HIDE DEF l
<1>11. Framed(c, S, t.rows, Back(t)) /\ c.x = b.x /\ c.y = b.y
  <2> DEFINE rows == t.rows
             back == Back(t)
  <2>1. rows \in Nat \ {0} /\ back \in Nat /\ Framed(b, S, rows, back)
    BY <1>2, <1>5
  <2> HIDE DEF rows, back
  <2>2. Framed(c, S, rows, back) /\ c.x = b.x /\ c.y = b.y
    BY ONLY <1>10, <2>1, LinesPut DEF c
  <2> QED BY <2>2 DEF rows, back
<1> HIDE DEF c
<1>12. Framed(c, Kind(t, whole), t.rows, Back(t)) /\ OnScreen(c, t.cols, t.rows)
  BY <1>5, <1>11 DEF OnScreen, S
<1>13. Good(u, whole) /\ u.panic = t.panic
  BY <1>12, PutIs
<1> HIDE DEF u
<1>14. Stays(u, SetCursor(u, z, z), whole)
  BY <1>1, <1>13, SetCursorIs
<1> QED BY <1>4, <1>13, <1>14 DEF Stays

----------------------------------------------------------------------------
(* The view *)

\* The lines and the cursor are where they were.
Viewed(t, u) ==
  /\ u.alt = t.alt /\ u.join = t.join /\ Buf(u).lines = Buf(t).lines /\ Buf(u).ybase = Buf(t).ybase
  /\ Buf(u).x = Buf(t).x /\ Buf(u).y = Buf(t).y

\* Another part of the list in view.
LEMMA ViewIs ==
  ASSUME NEW t, NEW whole \in BOOLEAN, Good(t, whole), NEW usr \in BOOLEAN, NEW d \in 0 .. Buf(t).ybase
  PROVE  LET u == Put([t EXCEPT !.usr = usr], [Buf(t) EXCEPT !.ydisp = d]) IN
         Stays(t, u, whole) /\ Viewed(t, u)
<1> DEFINE b == Buf(t)
           S == Kind(t, whole)
           m == [t EXCEPT !.usr = usr]
           c == [b EXCEPT !.ydisp = d]
           u == Put(m, c)
<1>1. t \in TermRec(t.nb, t.ab)
  BY TermIs
<1>2. m \in TermRec(t.nb, t.ab) /\ m.cols = t.cols /\ m.rows = t.rows /\ m.alt = t.alt /\ m.panic = t.panic /\ m.join = t.join
  BY <1>1 DEF TermRec
<1> HIDE DEF m
<1>3. Stays(t, m, whole) /\ Good(m, whole) /\ Buf(m) = b /\ Kind(m, whole) = S /\ Back(m) = Back(t)
  BY <1>2, ModesStay, ModesPut
<1>4. /\ b \in BufRec(S) /\ b.top \in Nat /\ b.bot \in Nat /\ b.top <= b.bot /\ b.bot < t.rows /\ b.ybase \in Nat
      /\ b.x \in 0 .. t.cols + 1 /\ b.y \in 0 .. t.rows - 1 /\ d \in 0 .. b.ybase
  BY BufIs
<1> HIDE DEF b, S
<1>5. /\ c \in BufRec(S) /\ c.lines = b.lines /\ c.max = b.max /\ c.ybase = b.ybase /\ c.back = b.back
      /\ c.down = b.down /\ c.ydisp = d /\ c.top = b.top /\ c.bot = b.bot /\ c.x = b.x /\ c.y = b.y
  <2>1. b \in BufRec(S) /\ d \in Int
    BY <1>4
  <2> QED BY ONLY <2>1 DEF BufRec, c
<1> HIDE DEF c
<1>6. /\ c \in BufRec(Kind(m, whole)) /\ c.lines = Buf(m).lines /\ c.max = Buf(m).max /\ c.ybase = Buf(m).ybase
      /\ c.back = Buf(m).back /\ c.down = Buf(m).down /\ c.ydisp \in 0 .. Buf(m).ybase
  BY <1>3, <1>4, <1>5
<1>7. c.top >= 0 /\ c.top <= c.bot /\ c.bot < m.rows
  BY <1>2, <1>4, <1>5
<1>8. OnScreen(c, m.cols, m.rows)
  BY <1>2, <1>4, <1>5 DEF OnScreen
<1>9. Stays(m, u, whole) /\ Edited(m, c, whole)
  BY <1>3, <1>6, <1>7, <1>8, FrameStays
<1>10. Buf(u) = c /\ u.alt = m.alt /\ u.join = m.join
  BY <1>3, <1>9, PutIs DEF Edited
<1> HIDE DEF u
<1>11. Stays(t, u, whole)
  BY <1>3, <1>9, StaysBoth
<1>12. Viewed(t, u)
  BY <1>2, <1>5, <1>10 DEF Viewed, b
<1> QED BY <1>11, <1>12 DEF u, c, m, b

\* The view moved by lines, or back to the screen.
LEMMA ScrollsAre ==
  ASSUME NEW t, NEW whole \in BOOLEAN, Good(t, whole), NEW d \in Int
  PROVE  /\ Stays(t, ScrollLines(t, d), whole) /\ Viewed(t, ScrollLines(t, d))
         /\ Stays(t, ScrollReset(t), whole) /\ Viewed(t, ScrollReset(t))
<1> DEFINE b == Buf(t)
           z == 0
           base == b.ybase
           to == b.ydisp + d
           usr == IF d < 0 THEN TRUE ELSE IF d + b.ydisp >= b.ybase THEN FALSE ELSE t.usr
           no == FALSE
           at == Clamp(to, z, base)
<1>1. t \in TermRec(t.nb, t.ab) /\ t.usr \in BOOLEAN
  BY TermIs
<1>2. b \in BufRec(Kind(t, whole)) /\ b.ybase \in Nat /\ b.ydisp \in Nat /\ b.ydisp <= b.ybase
  BY BufIs
<1>3. /\ ScrollLines(t, d) = IF d < 0 /\ b.ydisp = 0 THEN t
                             ELSE Put([t EXCEPT !.usr = usr], [b EXCEPT !.ydisp = at])
      /\ ScrollReset(t) = Put([t EXCEPT !.usr = no], [b EXCEPT !.ydisp = base])
  <2> HIDE DEF b
  <2>1. [t EXCEPT !.usr = usr] = [t EXCEPT !.usr = IF d < 0 THEN TRUE ELSE IF d + b.ydisp >= b.ybase THEN FALSE ELSE @]
    BY <1>1 DEF TermRec
  <2>2. [b EXCEPT !.ydisp = at] = [b EXCEPT !.ydisp = Clamp(@ + d, 0, b.ybase)]
    BY <1>2 DEF BufRec
  <2> HIDE DEF usr, at
  <2>3. ScrollLines(t, d) = IF d < 0 /\ b.ydisp = 0 THEN t
          ELSE Put([t EXCEPT !.usr = IF d < 0 THEN TRUE ELSE IF d + b.ydisp >= b.ybase THEN FALSE ELSE @],
                   [b EXCEPT !.ydisp = Clamp(@ + d, 0, b.ybase)])
    BY DEF ScrollLines, b
  <2> QED BY <2>1, <2>2, <2>3 DEF ScrollReset, b
<1>4. usr \in BOOLEAN /\ no \in BOOLEAN /\ z \in Int /\ base \in Int /\ to \in Int /\ z <= base /\ base \in 0 .. base
  <2> HIDE DEF b
  <2>1. base \in Nat /\ b.ydisp \in Nat
    BY <1>2
  <2>2. usr \in BOOLEAN /\ no \in BOOLEAN
    <3>1. usr \in {TRUE, FALSE, t.usr}
      <4> HIDE DEF base
      <4> QED OBVIOUS
    <3> QED BY <1>1, <3>1
  <2> HIDE DEF usr, no
  <2>3. z \in Int /\ base \in Int /\ to \in Int /\ z <= base /\ base \in 0 .. base
    <3> HIDE DEF base
    <3> QED BY <2>1
  <2> QED BY <2>2, <2>3
<1> HIDE DEF usr, no, z, to, base
<1>5. at \in z .. base
  BY <1>4, ClampIs
<1>6. at \in 0 .. Buf(t).ybase /\ base \in 0 .. Buf(t).ybase
  BY <1>4, <1>5 DEF z, base
<1> HIDE DEF at
<1>7. Stays(t, Put([t EXCEPT !.usr = usr], [b EXCEPT !.ydisp = at]), whole)
      /\ Viewed(t, Put([t EXCEPT !.usr = usr], [b EXCEPT !.ydisp = at]))
  BY <1>4, <1>6, ViewIs
<1>8. Stays(t, Put([t EXCEPT !.usr = no], [b EXCEPT !.ydisp = base]), whole)
      /\ Viewed(t, Put([t EXCEPT !.usr = no], [b EXCEPT !.ydisp = base]))
  BY <1>4, <1>6, ViewIs
<1>9. Stays(t, t, whole) /\ Viewed(t, t)
  BY StaysSelf DEF Viewed
<1> QED BY <1>3, <1>7, <1>8, <1>9

----------------------------------------------------------------------------
(* Cells that are printed *)

\* Where nothing wide begins nothing is halved.
LEMMA HalvedSame ==
  ASSUME NEW c, NEW i, NEW p, i >= 0 => c[i + 1].w # 2
  PROVE  Halved(c, i, p) = c
BY DEF Halved

\* The row as a character finds it when characters are inserted.
LEMMA RoomIs ==
  ASSUME NEW c \in Seq(Cell), NEW x \in 0 .. Len(c) - 1, NEW w \in 0 .. 2, NEW p \in BOOLEAN, NEW cols \in 1 .. Len(c)
  PROVE  LET r == Halved(InsertCells(c, x, w, p), cols - 1, p) IN
         Alike(c, r) /\ (x > 0 /\ c[x].w # 2 => r[x].w # 2)
<1> DEFINE d == InsertCells(c, x, w, p)
           i == cols - 1
           r == Halved(d, i, p)
<1>1. Len(c) \in Nat /\ Len(c) > 0 /\ x \in Nat /\ w \in Nat /\ i \in Int /\ i < Len(c) /\ i >= 0 /\ i + 1 = cols
  BY CellsAre
<1>2. Alike(c, d) /\ (x \in 1 .. Len(c) - 1 /\ c[x].w # 2 => d[x].w # 2)
  BY <1>1, InsertCellsIs
<1>3. r = Halved(InsertCells(c, x, w, p), cols - 1, p)
  OBVIOUS
<1> HIDE DEF d, i
<1>4. d \in Seq(Cell) /\ Len(d) = Len(c) /\ (WideWhole(c) => WideWhole(d))
  BY <1>2 DEF Alike
<1>5. Alike(d, r) /\ (\A j \in 1 .. Len(d) : j # i + 1 => r[j] = d[j]) /\ r[i + 1].w # 2
  BY <1>1, <1>4, HalvedIs
<1> HIDE DEF r
<1>6. Alike(c, r)
  BY <1>4, <1>5 DEF Alike
<1>7. ASSUME x > 0, c[x].w # 2 PROVE r[x].w # 2
  <2>1. x \in 1 .. Len(d) /\ d[x].w # 2
    BY <1>1, <1>2, <1>4, <1>7
  <2> QED BY <1>1, <1>5, <2>1
<1> QED BY <1>3, <1>6, <1>7

\* A cell blanked that no wide character needs.
LEMMA BlankedIs ==
  ASSUME NEW c \in Seq(Cell), NEW x \in 0 .. Len(c) - 1, NEW p \in BOOLEAN
  PROVE  LET r == [c EXCEPT ![x + 1] = Blank(p)] IN
         /\ r \in Seq(Cell) /\ Len(r) = Len(c) /\ \A j \in 1 .. Len(c) : j # x + 1 => r[j] = c[j]
         /\ (x > 0 => c[x].w # 2) => Alike(c, r)
<1> DEFINE e == Blank(p)
           k == x + 1
           r == [c EXCEPT ![k] = e]
<1>1. Len(c) \in Nat /\ \A i \in 1 .. Len(c) : c[i] \in Cell
  BY CellsAre
<1>2. e \in Cell /\ e.w = 1
  BY BlankIs
<1>3. k \in 1 .. Len(c)
  BY <1>1
<1> HIDE DEF e
<1>4. r \in Seq(Cell) /\ Len(r) = Len(c) /\ \A j \in 1 .. Len(c) : r[j] = IF j = k THEN e ELSE c[j]
  <2> HIDE DEF k
  <2> QED BY <1>2, <1>3, OneCell
<1> HIDE DEF r
<1>5. ASSUME x > 0 => c[x].w # 2, WideWhole(c) PROVE WideWhole(r)
  <2>1. \A i \in 1 .. Len(c) : c[i].w = 2 => i < Len(c) /\ c[i + 1] = Half(c[i].p)
    BY <1>5, WholeCells
  <2>2. ASSUME NEW i \in 1 .. Len(r), r[i].w = 2 PROVE i < Len(r) /\ r[i + 1] = Half(r[i].p)
    <3>1. i # k /\ r[i] = c[i] /\ i \in 1 .. Len(c)
      BY <1>2, <1>4, <2>2
    <3>2. i < Len(c) /\ c[i + 1] = Half(c[i].p) /\ i # x
      BY <1>5, <2>1, <2>2, <3>1
    <3>3. i + 1 \in 1 .. Len(c) /\ i + 1 # k
      BY <1>1, <3>1, <3>2
    <3> QED BY <1>4, <3>1, <3>2, <3>3
  <2> QED BY <1>4, <2>2, WholeCells
<1>6. (x > 0 => c[x].w # 2) => Alike(c, r)
  BY <1>4, <1>5 DEF Alike
<1>7. r = [c EXCEPT ![x + 1] = Blank(p)]
  BY DEF r, e
<1> QED BY <1>4, <1>6, <1>7 DEF k

----------------------------------------------------------------------------
(* Characters printed *)

\* Before a character is printed the cursor is at most at the end of its line; if
\* wide characters are whole, text wraps, what a combining character would join is
\* there, and the cursor does not stand inside a wide one.
Ready(t, whole) ==
  LET b == Buf(t) cells == Row(b, b.y).cells IN
  /\ b.x <= Len(cells)
  /\ whole => t.wrap /\ Joinable(t) /\ (b.x > 0 => cells[b.x].w # 2)

Terminals ==
  [cols : Nat, rows : Nat, usr : BOOLEAN, alt : BOOLEAN, nb : BufRec(TextLine), ab : BufRec(TextLine),
   ins : BOOLEAN, wrap : BOOLEAN, origin : BOOLEAN, rev : BOOLEAN, eol : BOOLEAN, prot : BOOLEAN,
   join : 0 .. 2, panic : {"none", "print", "resize"}]

Printed(t, u, whole) ==
  \/ u \in Terminals /\ u.panic = "print" /\ Goes(t, [u EXCEPT !.panic = "none"], whole)
  \/ u.panic = "none" /\ Goes(t, u, whole) /\ Ready(u, whole)

\* A terminal is one of these.
LEMMA TerminalIs ==
  ASSUME NEW t, NEW whole, Good(t, whole)
  PROVE  t \in Terminals
<1>1. t \in TermRec(t.nb, t.ab) /\ t.alt \in BOOLEAN
  BY TermIs
<1>2. ASSUME NEW S, S \subseteq TextLine, NEW b \in BufRec(S) PROVE b \in BufRec(TextLine)
  <2>1. Seq(S) \subseteq Seq(TextLine)
    BY <1>2
  <2> QED BY <1>2, <2>1 DEF BufRec
<1>3. \A cols, exact : RowsOf(cols, exact, whole) \subseteq TextLine
  BY DEF RowsOf
<1>4. t.nb \in BufRec(TextLine)
  <2>1. t.nb \in BufRec(RowsOf(t.cols, Scrollback > 0, whole))
    BY DEF Good, Framed
  <2> QED BY <1>2, <1>3, <2>1
<1>5. t.ab \in BufRec(TextLine)
  <2>1. t.alt => t.ab \in BufRec(RowsOf(t.cols, FALSE, whole))
    BY DEF Good, Framed
  <2>2. ~t.alt => t.ab \in BufRec(TextLine)
    BY DEF Good, Asleep
  <2> QED BY <1>2, <1>3, <2>1, <2>2
<1> QED BY <1>1, <1>4, <1>5 DEF Terminals, TermRec

\* It has printed nothing when it panics at once.
LEMMA PanicIs ==
  ASSUME NEW t, NEW whole, Good(t, whole), t.panic = "none"
  PROVE  Printed(t, [t EXCEPT !.panic = "print"], whole)
<1> DEFINE u == [t EXCEPT !.panic = "print"]
<1>1. t \in Terminals
  BY TerminalIs
<1>2. u \in Terminals /\ u.panic = "print" /\ [u EXCEPT !.panic = "none"] = t
  BY <1>1 DEF Terminals
<1> HIDE DEF u
<1>3. Goes(t, t, whole)
  BY StaysSelf, StaysGoes
<1>4. Printed(t, u, whole)
  BY <1>2, <1>3 DEF Printed
<1> QED BY <1>4 DEF u

\* What is printed after what was printed.
LEMMA PrintedBoth ==
  ASSUME NEW t, NEW u, NEW v, NEW whole, Good(t, whole), Goes(t, u, whole), Printed(u, v, whole)
  PROVE  Printed(t, v, whole)
BY GoesBoth DEF Printed

\* A buffer that text leaves behind, put in place.
LEMMA PutReady ==
  ASSUME NEW t, NEW whole \in BOOLEAN, Good(t, whole), t.panic = "none",
         NEW d, Framed(d, Kind(t, whole), t.rows, Back(t)), OnScreen(d, t.cols, t.rows), Fed(Buf(t), d),
         NEW cells, cells = Row(d, d.y).cells, d.x <= Len(cells),
         whole => /\ t.wrap /\ (d.x > 0 => cells[d.x].w # 2)
                  /\ t.join = 1 => d.x \in 1 .. Len(cells) /\ cells[d.x].w = 1
                  /\ t.join = 2 => d.x \in 2 .. Len(cells) /\ cells[d.x - 1].w = 2
  PROVE  Printed(t, Put(t, d), whole)
<1> DEFINE u == Put(t, d)
<1>1. Goes(t, u, whole)
  BY FedGoes
<1>2. Buf(u) = d /\ u.wrap = t.wrap /\ u.join = t.join /\ u.panic = t.panic
  BY PutIs
<1> HIDE DEF u
<1>3. whole => Joinable(u)
  BY <1>2 DEF Joinable
<1>4. Ready(u, whole)
  BY <1>2, <1>3 DEF Ready
<1> QED BY <1>1, <1>2, <1>4 DEF Printed, u

\* A row of any framed buffer.
LEMMA LineOf ==
  ASSUME NEW t, NEW whole \in BOOLEAN, Good(t, whole), NEW b, Framed(b, Kind(t, whole), t.rows, Back(t)),
         NEW y \in 0 .. t.rows - 1
  PROVE  /\ Row(b, y) \in Kind(t, whole) /\ Row(b, y).cells \in Seq(Cell)
         /\ Len(Row(b, y).cells) \in Nat /\ Len(Row(b, y).cells) >= t.cols /\ Len(Row(b, y).cells) > 0
         /\ (whole => WideWhole(Row(b, y).cells))
<1> DEFINE S == Kind(t, whole)
           rows == t.rows
           back == Back(t)
           r == Row(b, y)
<1>1. rows \in Nat \ {0} /\ back \in Nat /\ Framed(b, S, rows, back) /\ y \in 0 .. rows - 1
  BY TermIs, Showing
<1> HIDE DEF S, rows, back
<1>2. r \in S
  BY ONLY <1>1, RowIs
<1> HIDE DEF r
<1>3. r \in Kind(t, whole)
  BY <1>2 DEF S
<1>4. /\ r.cells \in Seq(Cell) /\ Len(r.cells) \in Nat
      /\ Len(r.cells) >= t.cols /\ Len(r.cells) > 0 /\ (whole => WideWhole(r.cells))
  BY <1>3, KindLine
<1> QED BY <1>3, <1>4 DEF r

\* A line with as many other cells.
LEMMA CellsSet ==
  ASSUME NEW cols, NEW exact, NEW whole, NEW r \in RowsOf(cols, exact, whole), NEW c \in Seq(Cell),
         Len(c) = Len(r.cells), whole => WideWhole(c)
  PROVE  SetCells(r, c) \in RowsOf(cols, exact, whole) /\ SetCells(r, c).cells = c
<1>1. r \in TextLine /\ r.wr \in BOOLEAN /\ Len(r.cells) >= cols /\ (exact => Len(r.cells) = cols)
  BY LineIs
<1>2. SetCells(r, c) \in TextLine /\ SetCells(r, c).cells = c
  BY <1>1 DEF SetCells, TextLine
<1> QED BY <1>1, <1>2 DEF RowsOf

\* Its cells changed, and the cursor in it.
LEMMA LinePut ==
  ASSUME NEW t, NEW whole \in BOOLEAN, Good(t, whole), NEW b, Framed(b, Kind(t, whole), t.rows, Back(t)),
         NEW y \in 0 .. t.rows - 1, b.y = y, NEW c \in Seq(Cell), Len(c) = Len(Row(b, y).cells),
         whole => WideWhole(c), NEW x \in Int
  PROVE  LET d == AtColumn(Rewrite(b, y, c), x) IN
         /\ Framed(d, Kind(t, whole), t.rows, Back(t)) /\ Onto(b, d) /\ d.x = x /\ d.y = y /\ d.max = b.max
         /\ Row(d, y).cells = c /\ Rewrite(b, y, c).x = b.x
<1> DEFINE S == Kind(t, whole)
           rows == t.rows
           back == Back(t)
           r == Row(b, y)
           k == y
           e == SetCells(r, c)
           a == SetRow(b, k, e)
           d == AtColumn(a, x)
<1>1. r \in Kind(t, whole) /\ Len(c) = Len(r.cells)
  BY LineOf
<1>2. e \in Kind(t, whole) /\ e.cells = c
  <2> HIDE DEF r
  <2>1. PICK cols \in Nat \ {0, 1}, exact \in BOOLEAN, rs \in Nat \ {0}, bk \in Nat :
          /\ cols = t.cols /\ rs = t.rows /\ bk = Back(t) /\ Kind(t, whole) = RowsOf(cols, exact, whole)
    BY KindIs
  <2>2. r \in RowsOf(cols, exact, whole)
    BY <1>1, <2>1
  <2>3. e \in RowsOf(cols, exact, whole) /\ e.cells = c
    BY <1>1, <2>2, CellsSet
  <2> QED BY <2>1, <2>3
<1>3. Rewrite(b, y, c) = a
  BY DEF Rewrite
<1>4. rows \in Nat \ {0} /\ back \in Nat /\ Framed(b, S, rows, back) /\ k \in 0 .. rows - 1 /\ e \in S
  BY <1>2, TermIs, Showing
<1> HIDE DEF S, rows, back, k, e, r
<1>5. Framed(SetRow(b, k, e), S, rows, back) /\ Onto(b, SetRow(b, k, e))
  BY ONLY <1>4, SetRowIs
<1>6. a.x = b.x /\ a.y = b.y /\ Row(a, k) = e /\ a.max = b.max
  <2>1. SetRow(b, k, e).x = b.x /\ SetRow(b, k, e).y = b.y /\ SetRow(b, k, e).max = b.max
    BY ONLY <1>4, <1>5, SetRowIs
  <2>2. Row(SetRow(b, k, e), k) = e
    BY ONLY <1>4, <1>5, SetRowIs
  <2> QED BY <2>1, <2>2
<1>7. Framed(a, S, rows, back) /\ Onto(b, a)
  BY <1>5
<1> HIDE DEF a
<1>8. Framed(d, S, rows, back) /\ Onto(a, d) /\ d.x = x /\ d.y = a.y /\ d.lines = a.lines /\ d.max = a.max
  BY <1>4, <1>7, AtColumnIs
<1> HIDE DEF d
<1>9. Row(d, k) = e
  BY <1>6, <1>8 DEF Row, Onto, Past
<1>10. Onto(b, d)
  BY <1>7, <1>8, OntoBoth
<1>11. Framed(d, Kind(t, whole), t.rows, Back(t))
  BY <1>8 DEF S, rows, back
<1> QED BY <1>2, <1>3, <1>6, <1>8, <1>9, <1>10, <1>11 DEF d, k

\* A buffer that text has come to may be written on.
LEMMA FedOnto ==
  ASSUME NEW t, NEW whole \in BOOLEAN, Good(t, whole), NEW b, Framed(b, Kind(t, whole), t.rows, Back(t)), Fed(Buf(t), b),
         NEW d, Framed(d, Kind(t, whole), t.rows, Back(t)), Onto(b, d), d.max = b.max
  PROVE  Fed(Buf(t), d)
<1> DEFINE S == Kind(t, whole)
           rows == t.rows
           back == Back(t)
           a == Buf(t)
<1>1. rows \in Nat \ {0} /\ back \in Nat /\ Framed(a, S, rows, back) /\ Framed(b, S, rows, back) /\ Framed(d, S, rows, back)
  BY TermIs, Showing
<1>2. Fed(a, b)
  OBVIOUS
<1> HIDE DEF S, rows, back, a
<1>3. Fed(b, d)
  BY <1>1, OntoFed
<1>4. Fed(a, d)
  BY <1>1, <1>2, <1>3, FedThen
<1> QED BY <1>4 DEF a

\* A character in cells of its own.
LEMMA WriteCharIs ==
  ASSUME NEW t, NEW whole \in BOOLEAN, Good(t, whole), t.panic = "none",
         NEW b, Framed(b, Kind(t, whole), t.rows, Back(t)), Fed(Buf(t), b), b.y \in 0 .. t.rows - 1,
         b.x \in 0 .. t.cols, NEW c \in Letters, NEW w \in 0 .. 2, t.join = w,
         w = 2 => b.x + 2 <= t.cols, w # 0 => b.x < t.cols,
         whole => t.wrap /\ (b.x > 0 => Row(b, b.y).cells[b.x].w # 2)
  PROVE  Printed(t, WriteChar(t, b, c, w), whole)
<1> DEFINE y == b.y
           x == b.x
           cols == t.cols
           p == t.prot
           r == Row(b, y)
           cells == r.cells
           room == IF t.ins THEN Halved(InsertCells(cells, x, w, p), cols - 1, p) ELSE cells
           both == WrittenAs(room, x, c, w, p)
           nx == x + MostOf(w, 1)
           d == AtColumn(Rewrite(b, y, both), nx)
<1>1. /\ r \in Kind(t, whole) /\ cells \in Seq(Cell) /\ Len(cells) \in Nat /\ Len(cells) >= cols
      /\ (whole => WideWhole(cells))
  BY LineOf
<1>2. p \in BOOLEAN /\ cols \in Nat \ {0, 1} /\ t.rows \in Nat \ {0} /\ Back(t) \in Nat /\ t.ins \in BOOLEAN
  BY TermIs, Showing
<1>3. y \in 0 .. t.rows - 1 /\ x \in 0 .. cols /\ (w = 2 => x + 2 <= cols) /\ (w # 0 => x < cols)
      /\ (whole => t.wrap /\ (x > 0 => cells[x].w # 2))
  OBVIOUS
<1>4. b \in BufRec(Kind(t, whole))
  BY DEF Framed
<1>5. WriteChar(t, b, c, w) = IF x >= Len(cells) THEN [t EXCEPT !.panic = "print"]
                              ELSE Put(t, [Rewrite(b, y, both) EXCEPT !.x = @ + MostOf(w, 1)])
  <2>1. both = LET one == [room EXCEPT ![x + 1] = [ch |-> <<c>>, w |-> w, p |-> t.prot]]
               IN IF w = 2 THEN [one EXCEPT ![x + 2] = Half(t.prot)] ELSE one
    BY Zenon DEF WrittenAs
  <2> HIDE DEF both
  <2> QED BY <2>1, Zenon DEF WriteChar
<1>6. t \in TermRec(t.nb, t.ab)
  BY TermIs
<1>7. CASE x >= Len(cells)
  <2>1. Printed(t, [t EXCEPT !.panic = "print"], whole)
    BY PanicIs
  <2> QED BY <1>5, <1>7, <2>1
<1>8. CASE x < Len(cells)
  <2> HIDE DEF x, y, cells, p, r, cols
  <2>1. Alike(cells, room) /\ (x > 0 /\ cells[x].w # 2 => room[x].w # 2)
    <3>1. CASE t.ins
      <4>1. x \in 0 .. Len(cells) - 1 /\ cols \in 1 .. Len(cells)
        BY <1>1, <1>2, <1>3, <1>8
      <4>2. room = Halved(InsertCells(cells, x, w, p), cols - 1, p)
        BY <3>1
      <4> HIDE DEF room
      <4> QED BY <1>1, <1>2, <4>1, <4>2, RoomIs
    <3>2. CASE ~t.ins
      <4>1. room = cells
        BY <3>2
      <4> HIDE DEF room
      <4> QED BY <1>1, <4>1 DEF Alike
    <3> QED BY <1>2, <3>1, <3>2
  <2> HIDE DEF room
  <2>2. room \in Seq(Cell) /\ Len(room) = Len(cells) /\ (WideWhole(cells) => WideWhole(room))
    BY <2>1 DEF Alike
  <2>3. x \in 0 .. Len(room) - 1 /\ (w = 2 => x + 2 <= Len(room))
    BY <1>1, <1>2, <1>3, <1>8, <2>2
  <2>4. /\ both \in Seq(Cell) /\ Len(both) = Len(room) /\ both[x + 1].w = w /\ (w = 2 => both[x + 2].w = 0)
        /\ (WideWhole(room) /\ (x > 0 => room[x].w # 2) => WideWhole(both))
    <3>1. room \in Seq(Cell) /\ c \in Letters /\ w \in 0 .. 2 /\ p \in BOOLEAN /\ x \in 0 .. Len(room) - 1
          /\ (w = 2 => x + 2 <= Len(room))
      BY <1>2, <2>2, <2>3
    <3>2. LET q == WrittenAs(room, x, c, w, p) IN
          /\ q \in Seq(Cell) /\ Len(q) = Len(room) /\ q[x + 1].w = w /\ (w = 2 => q[x + 2].w = 0)
          /\ (WideWhole(room) /\ (x > 0 => room[x].w # 2) => WideWhole(q))
      BY ONLY <3>1, WrittenIs
    <3> QED BY <3>2
  <2> HIDE DEF both
  <2>5. whole => WideWhole(both)
    BY <1>1, <1>3, <2>1, <2>2, <2>4
  <2>6. Rewrite(b, y, both).x = x /\ Framed(d, Kind(t, whole), t.rows, Back(t)) /\ Onto(b, d) /\ d.x = nx /\ d.y = y
        /\ d.max = b.max /\ Row(d, y).cells = both
    <3>1. nx \in Int
      BY <1>3, <1>2 DEF MostOf
    <3> HIDE DEF nx
    <3>2. b.y = y /\ b.x = x
      BY DEF x, y
    <3>3. Len(both) = Len(Row(b, y).cells)
      BY <2>2, <2>4 DEF cells, r
    <3> QED BY <1>3, <2>4, <2>5, <3>1, <3>2, <3>3, LinePut
  <2>7. [Rewrite(b, y, both) EXCEPT !.x = @ + MostOf(w, 1)] = d
    <3> DEFINE a == Rewrite(b, y, both)
    <3>1. a.x = x
      BY <2>6
    <3>2. d = [a EXCEPT !.x = nx] /\ nx = x + MostOf(w, 1)
      BY DEF AtColumn
    <3>3. DOMAIN a = DOMAIN a
      OBVIOUS
    <3> HIDE DEF a, d, nx
    <3> QED BY <3>1, <3>2 DEF a
  <2>8. /\ nx \in 1 .. Len(both) /\ nx <= cols + 1 /\ (w = 2 => nx = x + 2) /\ (w # 2 => nx = x + 1)
    <3>1. w = 0 \/ w = 1 \/ w = 2
      OBVIOUS
    <3> QED BY <1>1, <1>2, <1>3, <1>8, <2>2, <2>4, <3>1 DEF MostOf
  <2> HIDE DEF d, nx
  <2>9. OnScreen(d, t.cols, t.rows)
    BY <1>2, <1>3, <2>6, <2>8 DEF OnScreen, cols
  <2>10. Fed(Buf(t), d)
    BY <2>6, FedOnto
  <2>11. both[nx].w # 2 /\ (w = 1 => both[nx].w = 1) /\ (w = 2 => nx - 1 = x + 1 /\ both[nx - 1].w = 2 /\ nx \in 2 .. Len(both))
    <3>1. w = 0 \/ w = 1 \/ w = 2
      OBVIOUS
    <3> QED BY <1>2, <1>3, <2>4, <2>8, <3>1
  <2>12. Printed(t, Put(t, d), whole)
    <3>1. both = Row(d, d.y).cells /\ d.x <= Len(both)
      BY <2>6, <2>8
    <3>2. whole => /\ t.wrap /\ (d.x > 0 => both[d.x].w # 2)
                   /\ (t.join = 1 => d.x \in 1 .. Len(both) /\ both[d.x].w = 1)
                   /\ (t.join = 2 => d.x \in 2 .. Len(both) /\ both[d.x - 1].w = 2)
      BY <1>3, <2>6, <2>8, <2>11
    <3> QED BY <2>6, <2>9, <2>10, <3>1, <3>2, PutReady
  <2>13. WriteChar(t, b, c, w) = Put(t, d)
    BY <1>1, <1>2, <1>3, <1>5, <1>8, <2>7
  <2> QED BY <2>12, <2>13
<1>9. x \in Int /\ Len(cells) \in Int
  BY <1>1, <1>2, <1>3
<1> HIDE DEF x, cells
<1> QED BY <1>7, <1>8, <1>9

\* The cells of the cursor's line changed, the cursor where it is.
LEMMA LineKept ==
  ASSUME NEW t, NEW whole \in BOOLEAN, Good(t, whole), NEW b, Framed(b, Kind(t, whole), t.rows, Back(t)),
         b.y \in 0 .. t.rows - 1, b.x \in 0 .. t.cols + 1,
         NEW c \in Seq(Cell), Len(c) = Len(Row(b, b.y).cells), whole => WideWhole(c)
  PROVE  LET d == Rewrite(b, b.y, c) IN
         /\ Framed(d, Kind(t, whole), t.rows, Back(t)) /\ OnScreen(d, t.cols, t.rows) /\ Onto(b, d)
         /\ d.x = b.x /\ d.y = b.y /\ d.max = b.max /\ Row(d, b.y).cells = c
<1> DEFINE y == b.y
           x == b.x
           d == Rewrite(b, y, c)
           e == AtColumn(d, x)
<1>1. t.cols \in Nat /\ t.rows \in Nat
  BY TermIs
<1>2. x \in Int /\ y \in 0 .. t.rows - 1 /\ b.y = y /\ Len(c) = Len(Row(b, y).cells)
  BY <1>1
<1>3. e = d
  <2> DEFINE k == b.ybase + y + 1
             r == SetCells(Row(b, y), c)
             S == Kind(t, whole)
  <2>1. b \in BufRec(S)
    BY DEF Framed
  <2>2. d = [b EXCEPT !.lines[k] = r]
    BY DEF Rewrite, SetRow
  <2> HIDE DEF k, r, S, d
  <2>3. [[b EXCEPT !.lines[k] = r] EXCEPT !.x = b.x] = [b EXCEPT !.lines[k] = r]
    BY <2>1 DEF BufRec
  <2> QED BY <2>2, <2>3 DEF AtColumn
<1> HIDE DEF x, y
<1>4. /\ Framed(e, Kind(t, whole), t.rows, Back(t)) /\ Onto(b, e) /\ e.x = x /\ e.y = y /\ e.max = b.max
      /\ Row(e, y).cells = c
  BY <1>2, LinePut
<1> HIDE DEF e, d
<1>5. OnScreen(d, t.cols, t.rows)
  BY <1>1, <1>2, <1>3, <1>4 DEF OnScreen, x
<1> QED BY <1>3, <1>4, <1>5 DEF d, x, y

\* A character that joins the one before.
LEMMA CombineIs ==
  ASSUME NEW t, NEW whole \in BOOLEAN, Good(t, whole), t.panic = "none", Ready(t, whole), Buf(t).x > 0,
         NEW c \in Letters, NEW w \in 1 .. 2, t.join = w
  PROVE  Printed(t, Combine(t, Buf(t), c, w), whole)
<1> DEFINE b == Buf(t)
           x == b.x
           y == b.y
           cells == Row(b, y).cells
           at == IF cells[x].w = 0 THEN x - 2 ELSE x - 1
           r == AddCodepointToCell(cells, at, c, w)
           d == Rewrite(b, y, r)
<1>1. /\ Framed(b, Kind(t, whole), t.rows, Back(t)) /\ OnScreen(b, t.cols, t.rows) /\ t \in TermRec(t.nb, t.ab)
      /\ t.cols \in Nat /\ t.rows \in Nat /\ t.wrap \in BOOLEAN
  BY Showing, TermIs
<1>2. y \in 0 .. t.rows - 1 /\ x \in 0 .. t.cols + 1 /\ x > 0
  BY <1>1 DEF OnScreen
<1>3. cells \in Seq(Cell) /\ Len(cells) \in Nat /\ (whole => WideWhole(cells))
  <2> HIDE DEF b, y
  <2> QED BY <1>1, <1>2, LineOf
<1>4. /\ x <= Len(cells)
      /\ whole => /\ t.wrap /\ (x > 0 => cells[x].w # 2)
                  /\ (w = 1 => x \in 1 .. Len(cells) /\ cells[x].w = 1)
                  /\ (w = 2 => x \in 2 .. Len(cells) /\ cells[x - 1].w = 2)
  BY DEF Ready, Joinable
<1>5. Combine(t, b, c, w) = IF at < 0 THEN [t EXCEPT !.panic = "print"] ELSE Put(t, d)
  BY Zenon DEF Combine
<1>6. b.y = y /\ b.x = x
  OBVIOUS
<1> HIDE DEF x, y, b, cells
<1>7. x \in 1 .. Len(cells) /\ (at = x - 2 \/ at = x - 1) /\ (cells[x].w = 0 => at = x - 2) /\ (cells[x].w # 0 => at = x - 1)
      /\ x \in Nat
  BY <1>1, <1>2, <1>3, <1>4
<1>8. CASE at < 0
  <2>1. Printed(t, [t EXCEPT !.panic = "print"], whole)
    BY PanicIs
  <2> QED BY <1>5, <1>8, <2>1 DEF b
<1>9. CASE at >= 0
  <2> HIDE DEF at
  <2>1. at \in 0 .. Len(cells) - 1 /\ w \in 0 .. 2
    BY <1>3, <1>7, <1>9
  <2>2. /\ r \in Seq(Cell) /\ Len(r) = Len(cells) /\ r[at + 1].w = w
        /\ \A j \in 1 .. Len(cells) : j # at + 1 => r[j] = cells[j]
        /\ WideWhole(cells) /\ (w = 2 => cells[at + 1].w = 2) /\ cells[at + 1].w # 0 => WideWhole(r)
    BY <1>3, <2>1, AddCodepointIs
  <2> HIDE DEF r
  <2>3. ASSUME whole
        PROVE  /\ WideWhole(r) /\ r[x].w # 2
               /\ (w = 1 => r[x].w = 1) /\ (w = 2 => x \in 2 .. Len(r) /\ r[x - 1].w = 2)
    <3>1. CASE w = 1
      <4>1. cells[x].w = 1 /\ at = x - 1 /\ at + 1 = x
        BY <1>4, <1>7, <2>3, <3>1
      <4> QED BY <1>3, <2>2, <2>3, <3>1, <4>1
    <3>2. CASE w = 2
      <4>1. x \in 2 .. Len(cells) /\ cells[x - 1].w = 2
        BY <1>4, <2>3, <3>2
      <4>2. cells[x] = Half(cells[x - 1].p)
        <5>1. \A i \in 1 .. Len(cells) : cells[i].w = 2 => i < Len(cells) /\ cells[i + 1] = Half(cells[i].p)
          BY <1>3, <2>3, WholeCells
        <5>2. x - 1 \in 1 .. Len(cells) /\ (x - 1) + 1 = x
          BY <1>3, <4>1
        <5> QED BY <4>1, <5>1, <5>2
      <4>3. cells[x].w = 0
        BY <4>2 DEF Half
      <4>4. at = x - 2 /\ at + 1 = x - 1 /\ x # at + 1
        BY <1>7, <4>3
      <4>5. r[x] = cells[x]
        BY <1>7, <2>2, <4>4
      <4> QED BY <1>3, <2>2, <2>3, <3>2, <4>1, <4>3, <4>4, <4>5
    <3> QED BY <3>1, <3>2
  <2>4. Len(r) = Len(Row(b, b.y).cells) /\ (whole => WideWhole(r)) /\ b.y \in 0 .. t.rows - 1 /\ b.x \in 0 .. t.cols + 1
    BY <1>2, <1>6, <2>2, <2>3 DEF cells
  <2>5. /\ Framed(d, Kind(t, whole), t.rows, Back(t)) /\ OnScreen(d, t.cols, t.rows) /\ Onto(b, d)
        /\ d.x = x /\ d.y = y /\ d.max = b.max /\ Row(d, y).cells = r
    BY <1>1, <1>6, <2>2, <2>4, LineKept
  <2> HIDE DEF d
  <2>6. Fed(Buf(t), d)
    <3>1. Fed(b, b)
      <4> DEFINE S == Kind(t, whole)
                 rows == t.rows
                 back == Back(t)
      <4>1. rows \in Nat \ {0} /\ back \in Nat /\ Framed(b, S, rows, back) /\ Onto(b, b) /\ b.max = b.max
        BY <1>1, TermIs, Showing, OntoSelf
      <4> HIDE DEF S, rows, back
      <4> QED BY <4>1, OntoFed
    <3> QED BY <1>1, <2>5, <3>1, FedOnto DEF b
  <2>7. /\ r = Row(d, d.y).cells /\ d.x <= Len(r)
        /\ whole => /\ t.wrap /\ (d.x > 0 => r[d.x].w # 2)
                    /\ (t.join = 1 => d.x \in 1 .. Len(r) /\ r[d.x].w = 1)
                    /\ (t.join = 2 => d.x \in 2 .. Len(r) /\ r[d.x - 1].w = 2)
    BY <1>4, <1>7, <2>2, <2>3, <2>5
  <2>8. Printed(t, Put(t, d), whole)
    BY <2>5, <2>6, <2>7, PutReady
  <2>9. Combine(t, b, c, w) = Put(t, d)
    BY <1>3, <1>5, <2>1
  <2> QED BY <2>8, <2>9 DEF b
<1>10. at \in Int
  BY <1>7
<1> HIDE DEF at
<1> QED BY <1>8, <1>9, <1>10

\* The next row, where text goes on.
LEMMA WrapRowIs ==
  ASSUME NEW t, NEW whole \in BOOLEAN, Good(t, whole)
  PROVE  LET d == WrapRow(t, Buf(t)) IN
         Framed(d, Kind(t, whole), t.rows, Back(t)) /\ Fed(Buf(t), d) /\ d.x = 0 /\ d.y \in 0 .. t.rows - 1
<1> DEFINE b == Buf(t)
           S == Kind(t, whole)
           rows == t.rows
           back == Back(t)
           z == 0
           mark == "wraps"
           e == AtColumn(b, z)
           d == Down(t, e, mark)
<1>1. rows \in Nat \ {0} /\ back \in Nat /\ Framed(b, S, rows, back) /\ OnScreen(b, t.cols, rows)
  BY TermIs, Showing
<1>2. WrapRow(t, Buf(t)) = d
  BY DEF WrapRow, AtColumn
<1>3. z \in Int /\ mark \in {"wraps", "ends", "keeps"}
  OBVIOUS
<1> HIDE DEF b, S, rows, back, z, mark
<1>4. Framed(e, S, rows, back) /\ Onto(b, e) /\ e.x = z /\ e.y = b.y /\ e.max = b.max
  BY <1>1, <1>3, AtColumnIs
<1> HIDE DEF e
<1>5. b.y \in 0 .. rows - 1
  BY <1>1 DEF OnScreen
<1>6. Framed(d, S, rows, back) /\ Fed(e, d) /\ d.x = e.x /\ d.y \in 0 .. rows - 1
  <2>1. Framed(e, Kind(t, whole), t.rows, Back(t)) /\ e.y \in 0 .. t.rows - 1
    BY <1>4, <1>5 DEF S, rows, back
  <2>2. Framed(d, Kind(t, whole), t.rows, Back(t)) /\ Fed(e, d) /\ d.x = e.x /\ d.y \in 0 .. t.rows - 1
    BY <1>3, <2>1, DownGoes
  <2> HIDE DEF d
  <2> QED BY <2>2 DEF S, rows, back
<1> HIDE DEF d
<1>7. Fed(b, e)
  BY <1>1, <1>4, OntoFed
<1>8. Fed(b, d)
  BY <1>1, <1>4, <1>6, <1>7, FedThen
<1>9. d.x = 0
  BY <1>4, <1>6 DEF z
<1> QED BY <1>2, <1>6, <1>8, <1>9 DEF b, S, rows, back

\* The cursor put at the last column.
LEMMA LastColumn ==
  ASSUME NEW t, NEW whole \in BOOLEAN, Good(t, whole)
  PROVE  LET d == [Buf(t) EXCEPT !.x = t.cols - 1] IN
         /\ Framed(d, Kind(t, whole), t.rows, Back(t)) /\ Fed(Buf(t), d) /\ d.x = t.cols - 1 /\ d.y \in 0 .. t.rows - 1
<1> DEFINE b == Buf(t)
           S == Kind(t, whole)
           rows == t.rows
           back == Back(t)
           z == t.cols - 1
           d == AtColumn(b, z)
<1>1. rows \in Nat \ {0} /\ back \in Nat /\ Framed(b, S, rows, back) /\ OnScreen(b, t.cols, rows) /\ z \in Int
  BY TermIs, Showing
<1>2. [Buf(t) EXCEPT !.x = t.cols - 1] = d
  BY DEF AtColumn
<1> HIDE DEF b, S, rows, back, z
<1>3. Framed(d, S, rows, back) /\ Onto(b, d) /\ d.x = z /\ d.y = b.y /\ d.max = b.max
  BY <1>1, AtColumnIs
<1> HIDE DEF d
<1>4. d.y \in 0 .. rows - 1
  BY <1>1, <1>3 DEF OnScreen
<1>5. Fed(b, d)
  BY <1>1, <1>3, OntoFed
<1> QED BY <1>2, <1>3, <1>4, <1>5 DEF b, S, rows, back, z

\* One character.
LEMMA PrintCharIs ==
  ASSUME NEW t, NEW whole \in BOOLEAN, Good(t, whole), t.panic = "none", Ready(t, whole), NEW c \in Letters
  PROVE  Printed(t, PrintChar(t, c), whole)
<1> DEFINE joins == Width(c) = 0 /\ t.join > 0
           w == IF joins THEN t.join ELSE Width(c)
           over == ~joins /\ Buf(t).x + w > t.cols
           b == IF ~over THEN Buf(t)
                ELSE IF t.wrap THEN WrapRow(t, Buf(t)) ELSE [Buf(t) EXCEPT !.x = t.cols - 1]
           m == [t EXCEPT !.join = w]
           x == Buf(t).x
           cols == t.cols
<1>1. PrintChar(t, c) = IF over /\ ~t.wrap /\ w = 2 THEN Put(m, b)
                        ELSE IF joins /\ b.x > 0 THEN Combine(m, b, c, w)
                        ELSE WriteChar(m, b, c, w)
  BY Zenon DEF PrintChar
<1>2. /\ cols \in Nat /\ cols >= 2 /\ t.rows \in Nat /\ t.rows > 0 /\ t.join \in 0 .. 2 /\ t.wrap \in BOOLEAN
      /\ t \in TermRec(t.nb, t.ab)
  BY TermIs
<1>3. Framed(Buf(t), Kind(t, whole), t.rows, Back(t)) /\ OnScreen(Buf(t), t.cols, t.rows) /\ Back(t) \in Nat
  BY Showing
<1>4. Buf(t).y \in 0 .. t.rows - 1 /\ x \in 0 .. cols + 1
  BY <1>3 DEF OnScreen
<1>5. Width(c) \in 0 .. 2 /\ w \in 0 .. 2 /\ (joins => w = t.join /\ w \in 1 .. 2) /\ (joins => ~over)
  BY <1>2 DEF Width
<1>6. (~joins /\ ~over => x + w <= cols) /\ joins \in BOOLEAN /\ over \in BOOLEAN
  <2>1. w \in 0 .. 2
    BY <1>5
  <2> HIDE DEF w, x, cols
  <2> QED BY <1>2, <1>4, <2>1 DEF x, cols
<1>7. /\ x <= Len(Row(Buf(t), Buf(t).y).cells)
      /\ whole => t.wrap /\ Joinable(t) /\ (x > 0 => Row(Buf(t), Buf(t).y).cells[x].w # 2)
  BY DEF Ready
<1>8. joins => m = t
  <2>1. joins => w = t.join
    BY <1>5
  <2> HIDE DEF w, joins
  <2> QED BY <1>2, <2>1 DEF TermRec
<1>9. /\ Good(m, whole) /\ Stays(t, m, whole) /\ m.join = w /\ Buf(m) = Buf(t) /\ m.cols = t.cols /\ m.rows = t.rows
      /\ m.alt = t.alt /\ m.wrap = t.wrap /\ m.panic = t.panic /\ Kind(m, whole) = Kind(t, whole) /\ Back(m) = Back(t)
  <2> HIDE DEF w
  <2> QED BY <1>5, JoinPut
<1>10. (~over => b = Buf(t)) /\ (over /\ t.wrap => b = WrapRow(t, Buf(t)))
       /\ (over /\ ~t.wrap => b = [Buf(t) EXCEPT !.x = t.cols - 1])
  <2> HIDE DEF over
  <2> QED OBVIOUS
<1>11. t.panic = "none" /\ Good(t, whole) /\ Ready(t, whole) /\ whole \in BOOLEAN /\ c \in Letters
  OBVIOUS
<1> HIDE DEF joins, w, over, b, m, x, cols
<1>12. Goes(t, m, whole)
  BY <1>9, StaysGoes
<1>13. Framed(Buf(t), Kind(t, whole), t.rows, Back(t)) /\ Fed(Buf(t), Buf(t))
  <2> DEFINE S == Kind(t, whole)
             rows == t.rows
             back == Back(t)
             a == Buf(t)
  <2>1. rows \in Nat \ {0} /\ back \in Nat /\ Framed(a, S, rows, back) /\ Onto(a, a) /\ a.max = a.max
    BY <1>3, TermIs, OntoSelf
  <2> HIDE DEF S, rows, back, a
  <2>2. Fed(a, a)
    BY <2>1, OntoFed
  <2> QED BY <1>3, <2>2 DEF a
<1>14. CASE joins /\ x > 0
  <2>1. Combine(t, Buf(t), c, w) = PrintChar(t, c)
    BY <1>1, <1>5, <1>8, <1>10, <1>14 DEF x
  <2>2. Buf(t).x > 0 /\ w \in 1 .. 2 /\ t.join = w
    BY <1>5, <1>14 DEF x
  <2> QED BY <1>11, <2>1, <2>2, CombineIs
<1>15. ASSUME ~(joins /\ b.x > 0), ~(over /\ ~t.wrap /\ w = 2),
              Framed(b, Kind(t, whole), t.rows, Back(t)), Fed(Buf(t), b), b.y \in 0 .. t.rows - 1,
              b.x \in 0 .. t.cols, w = 2 => b.x + 2 <= t.cols, w # 0 => b.x < t.cols,
              whole => t.wrap /\ (b.x > 0 => Row(b, b.y).cells[b.x].w # 2)
       PROVE  Printed(t, PrintChar(t, c), whole)
  <2>1. PrintChar(t, c) = WriteChar(m, b, c, w)
    BY <1>1, <1>15
  <2>2. /\ Good(m, whole) /\ m.panic = "none" /\ Framed(b, Kind(m, whole), m.rows, Back(m)) /\ Fed(Buf(m), b)
        /\ b.y \in 0 .. m.rows - 1 /\ b.x \in 0 .. m.cols /\ m.join = w /\ (w = 2 => b.x + 2 <= m.cols)
        /\ (w # 0 => b.x < m.cols) /\ (whole => m.wrap /\ (b.x > 0 => Row(b, b.y).cells[b.x].w # 2))
        /\ whole \in BOOLEAN /\ c \in Letters /\ w \in 0 .. 2
    BY <1>5, <1>9, <1>11, <1>15
  <2>3. Printed(m, WriteChar(m, b, c, w), whole)
    BY ONLY <2>2, WriteCharIs
  <2> QED BY <1>11, <1>12, <2>1, <2>3, PrintedBoth
<1>16. CASE ~over /\ ~(joins /\ x > 0)
  <2>1. b = Buf(t) /\ b.x = x
    BY <1>10, <1>16 DEF x
  <2>2. x \in 0 .. cols /\ (w = 2 => x + 2 <= cols) /\ (w # 0 => x < cols)
    BY <1>2, <1>4, <1>5, <1>6, <1>16
  <2>3. Buf(t).x = x /\ t.cols = cols
    BY DEF x, cols
  <2> QED BY <1>4, <1>7, <1>13, <1>15, <1>16, <2>1, <2>2, <2>3
<1>17. CASE over /\ t.wrap
  <2>1. b = WrapRow(t, Buf(t))
    BY <1>10, <1>17
  <2>2. Framed(b, Kind(t, whole), t.rows, Back(t)) /\ Fed(Buf(t), b) /\ b.x = 0 /\ b.y \in 0 .. t.rows - 1
    BY <2>1, WrapRowIs
  <2>3. t.cols >= 2 /\ t.cols \in Nat
    BY <1>2 DEF cols
  <2> QED BY <1>15, <1>17, <2>2, <2>3
<1>18. CASE over /\ ~t.wrap
  <2>1. b = [Buf(t) EXCEPT !.x = t.cols - 1] /\ ~whole /\ ~joins
    BY <1>5, <1>7, <1>10, <1>18
  <2>2. Framed(b, Kind(t, whole), t.rows, Back(t)) /\ Fed(Buf(t), b) /\ b.x = t.cols - 1 /\ b.y \in 0 .. t.rows - 1
    BY <2>1, LastColumn
  <2>3. t.cols >= 2 /\ t.cols \in Nat /\ t.rows \in Nat
    BY <1>2 DEF cols
  <2>4. CASE w = 2
    <3>1. PrintChar(t, c) = Put(m, b)
      BY <1>1, <1>18, <2>4
    <3>2. OnScreen(b, t.cols, t.rows)
      BY <2>2, <2>3 DEF OnScreen
    <3> DEFINE line == Row(b, b.y).cells
    <3>3. Len(line) \in Nat /\ Len(line) >= t.cols
      <4> DEFINE y == b.y
      <4>1. y \in 0 .. t.rows - 1
        BY <2>2
      <4> HIDE DEF y
      <4>2. Len(Row(b, y).cells) \in Nat /\ Len(Row(b, y).cells) >= t.cols
        BY <2>2, <4>1, LineOf
      <4> QED BY <4>2 DEF y
    <3>4. b.x <= Len(line) /\ line = Row(b, b.y).cells
      BY <2>2, <2>3, <3>3
    <3> HIDE DEF line
    <3>5. /\ Good(m, whole) /\ m.panic = "none" /\ Framed(b, Kind(m, whole), m.rows, Back(m))
          /\ OnScreen(b, m.cols, m.rows) /\ Fed(Buf(m), b) /\ line = Row(b, b.y).cells /\ b.x <= Len(line)
          /\ ~whole /\ whole \in BOOLEAN
      BY <1>9, <1>11, <2>1, <2>2, <3>2, <3>4
    <3>6. Printed(m, Put(m, b), whole)
      BY ONLY <3>5, PutReady
    <3> QED BY <1>11, <1>12, <3>1, <3>6, PrintedBoth
  <2>5. CASE w # 2
    <3>1. w # 0 => b.x < t.cols
      BY <2>2, <2>3
    <3>2. b.x \in 0 .. t.cols
      BY <2>2, <2>3
    <3> QED BY <1>15, <2>1, <2>2, <2>5, <3>1, <3>2
  <2> QED BY <2>4, <2>5
<1> QED BY <1>2, <1>5, <1>6, <1>14, <1>16, <1>17, <1>18

----------------------------------------------------------------------------
(* Runs of text *)

\* A terminal that text may be printed on: whole ones wrap, and what a combining
\* character would join is there.
Able(t, whole) == whole => t.wrap /\ Joinable(t)

\* A wide character that the text begins inside of is blanked.
LEMMA StartWholeIs ==
  ASSUME NEW t, NEW whole \in BOOLEAN, Good(t, whole), t.panic = "none", Able(t, whole)
  PROVE  Printed(t, StartWhole(t), whole)
<1> DEFINE b == Buf(t)
           x == b.x
           y == b.y
           cells == Row(b, y).cells
           i == x - 1
           p == t.prot
           r == Halved(cells, i, p)
           d == Rewrite(b, y, r)
<1>1. /\ Framed(b, Kind(t, whole), t.rows, Back(t)) /\ OnScreen(b, t.cols, t.rows) /\ p \in BOOLEAN
      /\ t.cols \in Nat /\ t.rows \in Nat
  BY Showing, TermIs
<1>2. y \in 0 .. t.rows - 1 /\ x \in 0 .. t.cols + 1 /\ x \in Nat
  BY <1>1 DEF OnScreen
<1>3. cells \in Seq(Cell) /\ Len(cells) \in Nat /\ Len(cells) > 0 /\ (whole => WideWhole(cells))
  <2> HIDE DEF b, y
  <2> QED BY <1>1, <1>2, LineOf
<1>4. whole => /\ t.wrap
               /\ (t.join = 1 => x \in 1 .. Len(cells) /\ cells[x].w = 1)
               /\ (t.join = 2 => x \in 2 .. Len(cells) /\ cells[x - 1].w = 2)
  BY DEF Able, Joinable
<1>5. StartWhole(t) = IF x = 0 THEN t ELSE IF x > Len(cells) THEN [t EXCEPT !.panic = "print"] ELSE Put(t, d)
  BY Zenon DEF StartWhole
<1>6. b.y = y /\ b.x = x
  OBVIOUS
<1>7. t.join \in 0 .. 2
  BY TermIs
<1>8. t.panic = "none" /\ Good(t, whole) /\ whole \in BOOLEAN /\ Able(t, whole)
  OBVIOUS
<1> HIDE DEF x, y, b, cells, i, p
<1>9. CASE x = 0
  <2>1. whole => Joinable(t) /\ t.wrap
    BY DEF Able
  <2>2. Ready(t, whole)
    BY <1>3, <1>9, <2>1 DEF Ready, x, b, cells, y
  <2>3. Goes(t, t, whole)
    BY StaysSelf, StaysGoes
  <2> QED BY <1>5, <1>9, <2>2, <2>3 DEF Printed
<1>10. CASE x > Len(cells)
  <2>1. Printed(t, [t EXCEPT !.panic = "print"], whole)
    BY PanicIs
  <2> QED BY <1>2, <1>3, <1>5, <1>10, <2>1
<1>11. CASE x \in 1 .. Len(cells)
  <2>1. i \in Int /\ i < Len(cells) /\ i >= 0 /\ i + 1 = x
    BY <1>2, <1>3, <1>11 DEF i
  <2>2. Alike(cells, r) /\ r[i + 1].w # 2
    BY <1>1, <1>3, <2>1, HalvedIs
  <2>3. cells[i + 1].w # 2 => r = cells
    BY HalvedSame
  <2> HIDE DEF r
  <2>4. r \in Seq(Cell) /\ Len(r) = Len(cells) /\ (whole => WideWhole(r)) /\ r[x].w # 2
    BY <1>3, <2>1, <2>2 DEF Alike
  <2>5. whole => /\ (t.join = 1 => x \in 1 .. Len(r) /\ r[x].w = 1)
                 /\ (t.join = 2 => x \in 2 .. Len(r) /\ r[x - 1].w = 2)
    <3>1. ASSUME whole, t.join = 1 PROVE x \in 1 .. Len(r) /\ r[x].w = 1
      BY <1>4, <2>1, <2>3, <2>4, <3>1
    <3>2. ASSUME whole, t.join = 2 PROVE x \in 2 .. Len(r) /\ r[x - 1].w = 2
      <4>1. x \in 2 .. Len(cells) /\ cells[x - 1].w = 2
        BY <1>4, <3>2
      <4>2. \A k \in 1 .. Len(cells) : cells[k].w = 2 => k < Len(cells) /\ cells[k + 1] = Half(cells[k].p)
        BY <1>3, <3>2, WholeCells
      <4>3. x - 1 \in 1 .. Len(cells) /\ (x - 1) + 1 = x
        BY <1>3, <4>1
      <4>4. cells[x] = Half(cells[x - 1].p)
        BY <4>1, <4>2, <4>3
      <4>5. cells[x].w # 2
        BY <4>4 DEF Half
      <4> QED BY <2>1, <2>3, <2>4, <4>1, <4>5
    <3> QED BY <3>1, <3>2
  <2>6. Len(r) = Len(Row(b, b.y).cells) /\ (whole => WideWhole(r)) /\ b.y \in 0 .. t.rows - 1 /\ b.x \in 0 .. t.cols + 1
    BY <1>2, <1>6, <2>4 DEF cells
  <2>7. /\ Framed(d, Kind(t, whole), t.rows, Back(t)) /\ OnScreen(d, t.cols, t.rows) /\ Onto(b, d)
        /\ d.x = x /\ d.y = y /\ d.max = b.max /\ Row(d, y).cells = r
    BY <1>1, <1>6, <2>4, <2>6, LineKept
  <2> HIDE DEF d
  <2>8. Fed(Buf(t), d)
    <3>1. Fed(b, b)
      <4> DEFINE S == Kind(t, whole)
                 rows == t.rows
                 back == Back(t)
      <4>1. rows \in Nat \ {0} /\ back \in Nat /\ Framed(b, S, rows, back) /\ Onto(b, b) /\ b.max = b.max
        BY <1>1, TermIs, Showing, OntoSelf
      <4> HIDE DEF S, rows, back
      <4> QED BY <4>1, OntoFed
    <3> QED BY <1>1, <2>7, <3>1, FedOnto DEF b
  <2>9. /\ r = Row(d, d.y).cells /\ d.x <= Len(r)
        /\ whole => /\ t.wrap /\ (d.x > 0 => r[d.x].w # 2)
                    /\ (t.join = 1 => d.x \in 1 .. Len(r) /\ r[d.x].w = 1)
                    /\ (t.join = 2 => d.x \in 2 .. Len(r) /\ r[d.x - 1].w = 2)
    BY <1>3, <1>4, <1>11, <2>4, <2>5, <2>7
  <2>10. Printed(t, Put(t, d), whole)
    BY <2>7, <2>8, <2>9, PutReady
  <2>11. StartWhole(t) = Put(t, d)
    BY <1>2, <1>3, <1>5, <1>11
  <2> QED BY <2>10, <2>11
<1> QED BY <1>2, <1>3, <1>9, <1>10, <1>11

\* So is the one it ends inside of.
LEMMA EndWholeIs ==
  ASSUME NEW t, NEW whole \in BOOLEAN, Good(t, whole), t.panic = "none", Ready(t, whole)
  PROVE  Printed(t, EndWhole(t), whole)
<1> DEFINE b == Buf(t)
           x == b.x
           y == b.y
           cells == Row(b, y).cells
           p == t.prot
           r == [cells EXCEPT ![x + 1] = Blank(p)]
           d == Rewrite(b, y, r)
<1>1. /\ Framed(b, Kind(t, whole), t.rows, Back(t)) /\ OnScreen(b, t.cols, t.rows) /\ p \in BOOLEAN
      /\ t.cols \in Nat /\ t.rows \in Nat
  BY Showing, TermIs
<1>2. y \in 0 .. t.rows - 1 /\ x \in 0 .. t.cols + 1 /\ x \in Nat
  BY <1>1 DEF OnScreen
<1>3. cells \in Seq(Cell) /\ Len(cells) \in Nat /\ Len(cells) >= t.cols /\ (whole => WideWhole(cells))
  <2> HIDE DEF b, y
  <2> QED BY <1>1, <1>2, LineOf
<1>4. whole => /\ t.wrap /\ (x > 0 => cells[x].w # 2)
               /\ (t.join = 1 => x \in 1 .. Len(cells) /\ cells[x].w = 1)
               /\ (t.join = 2 => x \in 2 .. Len(cells) /\ cells[x - 1].w = 2)
  BY DEF Ready, Joinable
<1>5. EndWhole(t) = IF x < t.cols /\ IsHalf(cells[x + 1]) THEN Put(t, d) ELSE t
  BY Zenon DEF EndWhole
<1>6. b.y = y /\ b.x = x
  OBVIOUS
<1> HIDE DEF x, y, b, cells, p
<1>7. CASE ~(x < t.cols /\ IsHalf(cells[x + 1]))
  <2>1. Goes(t, t, whole)
    BY StaysSelf, StaysGoes
  <2> QED BY <1>5, <1>7, <2>1 DEF Printed
<1>8. CASE x < t.cols
  <2>1. x \in 0 .. Len(cells) - 1
    BY <1>1, <1>2, <1>3, <1>8
  <2>2. /\ r \in Seq(Cell) /\ Len(r) = Len(cells) /\ (\A j \in 1 .. Len(cells) : j # x + 1 => r[j] = cells[j])
        /\ ((x > 0 => cells[x].w # 2) => Alike(cells, r))
    BY <1>1, <1>3, <2>1, BlankedIs
  <2> HIDE DEF r
  <2>3. whole => WideWhole(r)
    BY <1>3, <1>4, <2>2 DEF Alike
  <2>4. \A j \in 1 .. x : r[j] = cells[j]
    BY <1>2, <1>3, <2>1, <2>2
  <2>5. Len(r) = Len(Row(b, b.y).cells) /\ (whole => WideWhole(r)) /\ b.y \in 0 .. t.rows - 1 /\ b.x \in 0 .. t.cols + 1
    BY <1>2, <1>6, <2>2, <2>3 DEF cells
  <2>6. /\ Framed(d, Kind(t, whole), t.rows, Back(t)) /\ OnScreen(d, t.cols, t.rows) /\ Onto(b, d)
        /\ d.x = x /\ d.y = y /\ d.max = b.max /\ Row(d, y).cells = r
    BY <1>1, <1>6, <2>2, <2>5, LineKept
  <2> HIDE DEF d
  <2>7. Fed(Buf(t), d)
    <3>1. Fed(b, b)
      <4> DEFINE S == Kind(t, whole)
                 rows == t.rows
                 back == Back(t)
      <4>1. rows \in Nat \ {0} /\ back \in Nat /\ Framed(b, S, rows, back) /\ Onto(b, b) /\ b.max = b.max
        BY <1>1, TermIs, Showing, OntoSelf
      <4> HIDE DEF S, rows, back
      <4> QED BY <4>1, OntoFed
    <3> QED BY <1>1, <2>6, <3>1, FedOnto DEF b
  <2>8. /\ r = Row(d, d.y).cells /\ d.x <= Len(r)
        /\ whole => /\ t.wrap /\ (d.x > 0 => r[d.x].w # 2)
                    /\ (t.join = 1 => d.x \in 1 .. Len(r) /\ r[d.x].w = 1)
                    /\ (t.join = 2 => d.x \in 2 .. Len(r) /\ r[d.x - 1].w = 2)
    <3>1. whole => (x > 0 => r[x].w # 2)
      BY <1>2, <1>4, <2>4
    <3>2. whole /\ t.join = 1 => x \in 1 .. Len(r) /\ r[x].w = 1
      BY <1>2, <1>4, <2>2, <2>4
    <3>3. whole /\ t.join = 2 => x \in 2 .. Len(r) /\ r[x - 1].w = 2
      BY <1>2, <1>4, <2>2, <2>4
    <3>4. r = Row(d, d.y).cells /\ d.x <= Len(r)
      BY <1>3, <2>1, <2>2, <2>6
    <3> QED BY <1>4, <2>6, <3>1, <3>2, <3>3, <3>4
  <2>9. Printed(t, Put(t, d), whole)
    BY <2>6, <2>7, <2>8, PutReady
  <2> QED BY <1>5, <1>7, <2>9
<1> QED BY <1>7, <1>8

\* What follows a print that went out of its line.
LEMMA PrintCharPanics ==
  ASSUME NEW t, NEW c, t.panic = "print"
  PROVE  PrintChar(t, c) = t /\ EndWhole(t) = t
BY DEF PrintChar, EndWhole

\* One character after others.
LEMMA PrintOn ==
  ASSUME NEW t, NEW whole \in BOOLEAN, Good(t, whole), NEW u \in {v \in Terminals : Printed(t, v, whole)},
         NEW c \in Letters
  PROVE  PrintChar(u, c) \in {v \in Terminals : Printed(t, v, whole)}
<1> DEFINE v == PrintChar(u, c)
<1>1. CASE u.panic = "print"
  BY <1>1, PrintCharPanics
<1>2. CASE u.panic # "print"
  <2>1. u.panic = "none" /\ Goes(t, u, whole) /\ Ready(u, whole)
    BY <1>2 DEF Printed
  <2>2. Good(u, whole)
    BY <2>1 DEF Goes
  <2>3. Printed(u, v, whole)
    BY <2>1, <2>2, PrintCharIs
  <2> HIDE DEF v
  <2>4. Printed(t, v, whole)
    BY <2>1, <2>3, PrintedBoth
  <2>5. v \in Terminals
    <3>1. v \in Terminals \/ Good(v, whole)
      BY <2>3 DEF Printed, Goes
    <3> QED BY <3>1, TerminalIs
  <2> QED BY <2>4, <2>5 DEF v
<1> QED BY <1>1, <1>2

\* All of the text.
LEMMA PrintTextIs ==
  ASSUME NEW t, NEW whole \in BOOLEAN, Good(t, whole), t.panic = "none", Able(t, whole),
         NEW text \in Seq(Letters), text # <<>>
  PROVE  Printed(t, PrintText(t, text), whole)
<1> DEFINE n == Len(text)
           v == StartWhole(t)
           T == {u \in Terminals : Printed(t, u, whole)}
           I == [k \in 0 .. n |-> T]
           stp == [k \in 1 .. n |-> [a \in T |-> PrintChar(a, text[k])]]
           Eq(g) == g = [k \in 0 .. n |-> IF k = 0 THEN v ELSE PrintChar(g[k - 1], text[k])]
           at == CHOOSE g : Eq(g)
           u == at[n]
<1>1. PrintText(t, text) = EndWhole(u)
  BY DEF PrintText, Along
<1>2. n \in Nat /\ \A k \in 1 .. n : text[k] \in Letters
  BY LenProperties, ElementOfSeq
<1>3. v \in T
  <2>1. Printed(t, v, whole)
    BY StartWholeIs
  <2> HIDE DEF v
  <2>2. v \in Terminals
    <3>1. v \in Terminals \/ Good(v, whole)
      BY <2>1 DEF Printed, Goes
    <3> QED BY <3>1, TerminalIs
  <2> QED BY <2>1, <2>2
<1> HIDE DEF v
<1>4. \A a \in T : \A k \in 1 .. n : PrintChar(a, text[k]) \in T
  <2>1. ASSUME NEW a \in T, NEW k \in 1 .. n PROVE PrintChar(a, text[k]) \in T
    <3> DEFINE c == text[k]
    <3>1. c \in Letters
      BY <1>2
    <3> HIDE DEF c
    <3>2. PrintChar(a, c) \in T
      BY <3>1, PrintOn
    <3> QED BY <3>2 DEF c
  <2> QED BY <2>1
<1> HIDE DEF T, n
<1>5. n \in Nat /\ v \in I[0] /\ \A k \in 1 .. n : \A a \in I[k - 1] : stp[k][a] \in I[k]
  <2>1. 0 \in 0 .. n
    BY <1>2
  <2>2. ASSUME NEW k \in 1 .. n PROVE k - 1 \in 0 .. n /\ k \in 0 .. n
    BY <1>2
  <2> QED BY <1>2, <1>3, <1>4, <2>1, <2>2
<1>6. \A k \in 1 .. n : k - 1 \in 0 .. n /\ k \in 0 .. n /\ stp[k] = [a \in T |-> PrintChar(a, text[k])]
                       /\ I[k - 1] = T /\ I[k] = T
  BY <1>2
<1>7. n \in 0 .. n /\ I[n] = T
  BY <1>2
<1> HIDE DEF I, stp
<1>8. PICK g : Loops(g, n, v, stp) /\ \A k \in 0 .. n : g[k] \in I[k]
  BY <1>5, LoopRuns
<1>9. Eq(g)
  <2>1. g = [k \in 0 .. n |-> IF k = 0 THEN v ELSE stp[k][g[k - 1]]]
    BY <1>8 DEF Loops
  <2>2. ASSUME NEW k \in 0 .. n
        PROVE (IF k = 0 THEN v ELSE stp[k][g[k - 1]]) = (IF k = 0 THEN v ELSE PrintChar(g[k - 1], text[k]))
    <3>1. CASE k # 0
      <4>1. k \in 1 .. n
        BY <1>2, <3>1
      <4>2. g[k - 1] \in T
        BY <1>6, <1>8, <4>1
      <4> QED BY <1>6, <3>1, <4>1, <4>2
    <3> QED BY <3>1
  <2> QED BY <2>1, <2>2
<1>10. Eq(at)
  <2> HIDE DEF Eq
  <2> QED BY <1>9
<1> HIDE DEF at
<1>11. at[0] = v
  BY <1>2, <1>10
<1>12. \A k \in 1 .. n : at[k] = PrintChar(at[k - 1], text[k])
  <2>1. ASSUME NEW k \in 1 .. n PROVE at[k] = PrintChar(at[k - 1], text[k])
    <3>1. k \in 0 .. n /\ k # 0
      BY <1>2
    <3> QED BY <1>10, <3>1
  <2> QED BY <2>1
<1> HIDE DEF Eq
<1>13. u \in T
  <2>1. at[0] \in I[0]
    BY <1>5, <1>11
  <2>2. \A k \in 1 .. n : at[k - 1] \in I[k - 1] => at[k] \in I[k]
    <3>1. ASSUME NEW k \in 1 .. n, at[k - 1] \in I[k - 1] PROVE at[k] \in I[k]
      <4>1. at[k - 1] \in T /\ I[k] = T /\ at[k] = PrintChar(at[k - 1], text[k])
        BY <1>6, <1>12, <3>1
      <4> QED BY <1>4, <4>1
    <3> QED BY <3>1
  <2>3. at[n] \in I[n]
    BY <1>2, <2>1, <2>2, LoopHolds
  <2> QED BY <1>7, <2>3
<1> HIDE DEF u
<1>14. CASE u.panic = "print"
  <2>1. Printed(t, u, whole)
    BY <1>13 DEF T
  <2> QED BY <1>1, <1>14, <2>1, PrintCharPanics
<1>15. CASE u.panic # "print"
  <2>1. u.panic = "none" /\ Goes(t, u, whole) /\ Ready(u, whole)
    BY <1>13, <1>15 DEF T, Printed
  <2>2. Good(u, whole)
    BY <2>1 DEF Goes
  <2>3. Printed(u, EndWhole(u), whole)
    BY <2>1, <2>2, EndWholeIs
  <2>4. Printed(t, EndWhole(u), whole)
    BY <2>1, <2>3, PrintedBoth
  <2> QED BY <1>1, <2>4
<1> QED BY <1>14, <1>15

\* The last character again: what can still be joined has been printed.
Joint(t) == LET b == Buf(t) IN t.join > 0 => b.x <= Len(Row(b, b.y).cells)

\* Text repeated is text.
LEMMA RepeatedIs ==
  ASSUME NEW text \in Seq(Letters), NEW n \in Nat
  PROVE  [i \in 1 .. (n * Len(text)) |-> text[((i - 1) % Len(text)) + 1]] \in Seq(Letters)
<1> DEFINE l == Len(text)
           m == n * l
           f == [i \in 1 .. m |-> text[((i - 1) % l) + 1]]
<1>1. l \in Nat /\ (\A i \in 1 .. l : text[i] \in Letters) /\ m \in Nat
  BY LenProperties, ElementOfSeq
<1>2. l = 0 => m = 0
  BY <1>1
<1> HIDE DEF l, m
<1>3. ASSUME NEW i \in 1 .. m PROVE text[((i - 1) % l) + 1] \in Letters
  <2>1. l \in Nat /\ l > 0 /\ i - 1 \in Int
    BY <1>1, <1>2
  <2>2. ((i - 1) % l) \in 0 .. l - 1
    BY <2>1
  <2>3. ((i - 1) % l) + 1 \in 1 .. l
    BY <2>1, <2>2
  <2> QED BY <1>1, <2>3
<1>4. f \in [1 .. m -> Letters]
  BY <1>3
<1> HIDE DEF f
<1>5. f \in Seq(Letters)
  BY <1>1, <1>4, SeqDef
<1> QED BY <1>5 DEF f, m, l

\* So is a character repeated.
LEMMA RepeatCharIs ==
  ASSUME NEW t, NEW whole \in BOOLEAN, Good(t, whole), t.panic = "none", Able(t, whole), Joint(t), NEW n \in Nat
  PROVE  RepeatChar(t, n) = t \/ Printed(t, RepeatChar(t, n), whole)
<1> DEFINE b == Buf(t)
           y == b.y
           x == b.x
           cells == Row(b, y).cells
           k == MostOf(x - t.join, 0) + 1
           text == cells[k].ch
           again == [i \in 1 .. (n * Len(text)) |-> text[((i - 1) % Len(text)) + 1]]
<1>1. Framed(b, Kind(t, whole), t.rows, Back(t)) /\ OnScreen(b, t.cols, t.rows) /\ t.cols \in Nat /\ t.join \in 0 .. 2
  BY Showing, TermIs
<1>2. y \in 0 .. t.rows - 1 /\ x \in 0 .. t.cols + 1
  BY <1>1 DEF OnScreen
<1>3. RepeatChar(t, n) = IF t.join = 0 THEN t ELSE PrintText(t, again)
  BY Zenon DEF RepeatChar
<1>4. t.join > 0 => x <= Len(cells)
  BY DEF Joint
<1> HIDE DEF b, y, x
<1>5. cells \in Seq(Cell) /\ Len(cells) \in Nat /\ Len(cells) > 0
  BY <1>1, <1>2, LineOf
<1> HIDE DEF cells
<1>6. ASSUME t.join > 0 PROVE RepeatChar(t, n) = t \/ Printed(t, RepeatChar(t, n), whole)
  <2>1. k \in 1 .. Len(cells)
    BY <1>1, <1>2, <1>4, <1>5, <1>6 DEF MostOf
  <2> HIDE DEF k
  <2>2. text \in Seq(Letters)
    BY <1>5, <2>1, CellsAre
  <2> HIDE DEF text
  <2>3. again \in Seq(Letters)
    BY <2>2, RepeatedIs
  <2> HIDE DEF again
  <2>4. RepeatChar(t, n) = PrintText(t, again)
    BY <1>1, <1>3, <1>6
  <2>5. CASE again = <<>>
    BY <2>4, <2>5 DEF PrintText
  <2>6. CASE again # <<>>
    <3>1. Printed(t, PrintText(t, again), whole)
      BY <2>3, <2>6, PrintTextIs
    <3> QED BY <2>4, <3>1
  <2> QED BY <2>5, <2>6
<1>7. t.join = 0 => RepeatChar(t, n) = t
  BY <1>3
<1> QED BY <1>1, <1>6, <1>7

----------------------------------------------------------------------------
(* What a step keeps *)

\* The history, but for the oldest lines if the step feeds new ones.
Remembers(t, u, feeds) ==
  LET old == History(t.nb) new == History(u.nb) IN
  \E d \in 0 .. Len(old) :
    /\ d > 0 => feeds /\ ~t.alt /\ Len(u.nb.lines) = u.nb.max
    /\ Len(new) >= Len(old) - d
    /\ SubSeq(new, 1, Len(old) - d) = SubSeq(old, d + 1, Len(old))

\* The lines of the history.
LEMMA HistoryIs ==
  ASSUME NEW t, NEW whole \in BOOLEAN, Good(t, whole)
  PROVE  /\ t.nb.ybase \in Nat /\ History(t.nb) \in Seq(Seq(Cell)) /\ Len(History(t.nb)) = t.nb.ybase
         /\ \A i \in 1 .. t.nb.ybase : History(t.nb)[i] = t.nb.lines[i].cells
<1> DEFINE S == RowsOf(t.cols, Scrollback > 0, whole)
           b == t.nb
           rows == t.rows
           back == Scrollback
           n == b.ybase
           h == [i \in 1 .. n |-> b.lines[i].cells]
<1>1. rows \in Nat \ {0} /\ back \in Nat /\ Framed(b, S, rows, back)
  BY TermIs, ScreenAssumption DEF Good
<1>2. \A r \in S : r.cells \in Seq(Cell)
  BY DEF RowsOf, TextLine
<1>3. History(t.nb) = h
  BY DEF History
<1> HIDE DEF S, b, rows, back
<1>4. n \in Nat /\ \A i \in 1 .. n : b.lines[i] \in S
  <2>1. n \in Nat /\ Len(b.lines) \in Nat /\ n + rows <= Len(b.lines) /\ \A i \in 1 .. Len(b.lines) : b.lines[i] \in S
    BY <1>1, FrameIs
  <2> QED BY <1>1, <2>1
<1> HIDE DEF n
<1>5. h \in [1 .. n -> Seq(Cell)] /\ \A i \in 1 .. n : h[i] = b.lines[i].cells
  BY <1>2, <1>4
<1> HIDE DEF h
<1>6. h \in Seq(Seq(Cell))
  BY <1>4, <1>5, SeqDef
<1>7. DOMAIN h = 1 .. n /\ DOMAIN h = 1 .. Len(h) /\ Len(h) \in Nat
  BY <1>5, <1>6, LenProperties
<1>8. Len(h) = n
  BY <1>4, <1>7
<1> QED BY <1>3, <1>4, <1>5, <1>6, <1>8 DEF n, b

\* A history that goes on after the oldest d lines.
LEMMA Recalled ==
  ASSUME NEW old \in Seq(Seq(Cell)), NEW new \in Seq(Seq(Cell)), NEW d \in 0 .. Len(old), Len(new) >= Len(old) - d,
         \A i \in 1 .. Len(old) - d : new[i] = old[i + d]
  PROVE  SubSeq(new, 1, Len(old) - d) = SubSeq(old, d + 1, Len(old))
<1> DEFINE n == Len(old)
           m == n - d
           k == d + 1
           one == 1
           a == SubSeq(new, one, m)
           b == SubSeq(old, k, n)
<1>1. n \in Nat /\ Len(new) \in Nat /\ (\A i \in 1 .. n : old[i] \in Seq(Cell)) /\ (\A i \in 1 .. Len(new) : new[i] \in Seq(Cell))
  BY LenProperties, ElementOfSeq
<1>2. d \in Int /\ m \in Int /\ m >= 0 /\ k \in Int /\ one \in Int
  BY <1>1
<1>3. a \in Seq(Seq(Cell)) /\ Len(a) = m /\ \A i \in 1 .. m : a[i] = new[i]
  <2>1. \A i \in one .. m : new[i] \in Seq(Cell)
    BY <1>1, <1>2
  <2>2. (IF one <= m THEN m - one + 1 ELSE 0) = m /\ m - one + 1 = m
    BY <1>2
  <2>3. \A i \in 1 .. m : one + i - 1 = i
    OBVIOUS
  <2> HIDE DEF m, one
  <2>4. /\ a \in Seq(Seq(Cell)) /\ Len(a) = IF one <= m THEN m - one + 1 ELSE 0
        /\ \A i \in 1 .. m - one + 1 : a[i] = new[one + i - 1]
    BY <1>2, <2>1, SubSeqProperties
  <2> HIDE DEF a
  <2> QED BY <2>2, <2>3, <2>4
<1>4. b \in Seq(Seq(Cell)) /\ Len(b) = m /\ \A i \in 1 .. m : b[i] = old[i + d]
  <2>1. \A i \in k .. n : old[i] \in Seq(Cell)
    BY <1>1, <1>2
  <2>2. (IF k <= n THEN n - k + 1 ELSE 0) = m /\ n - k + 1 = m
    BY <1>1, <1>2
  <2>3. \A i \in 1 .. m : k + i - 1 = i + d
    BY <1>2
  <2> HIDE DEF m, k, n
  <2>4. /\ b \in Seq(Seq(Cell)) /\ Len(b) = IF k <= n THEN n - k + 1 ELSE 0
        /\ \A i \in 1 .. n - k + 1 : b[i] = old[k + i - 1]
    BY <1>1, <1>2, <2>1, SubSeqProperties
  <2> HIDE DEF b
  <2> QED BY <2>2, <2>3, <2>4
<1> HIDE DEF a, b
<1>5. \A i \in 1 .. Len(a) : a[i] = b[i]
  BY <1>3, <1>4
<1>6. a = b
  BY <1>3, <1>4, <1>5, SeqEqual
<1> QED BY <1>6 DEF a, b, n, m, k, one

\* What stays remembers all.
LEMMA StaysRemembers ==
  ASSUME NEW t, NEW u, NEW whole \in BOOLEAN, Good(t, whole), Stays(t, u, whole), NEW feeds \in BOOLEAN
  PROVE  Remembers(t, u, feeds)
<1> DEFINE old == History(t.nb)
           new == History(u.nb)
           z == 0
<1>1. /\ t.nb.ybase \in Nat /\ old \in Seq(Seq(Cell)) /\ Len(old) = t.nb.ybase
      /\ \A i \in 1 .. t.nb.ybase : old[i] = t.nb.lines[i].cells
  BY HistoryIs
<1>2. Good(u, whole) /\ u.nb.ybase = t.nb.ybase /\ \A i \in 1 .. t.nb.ybase : u.nb.lines[i].cells = t.nb.lines[i].cells
  BY DEF Stays, Past
<1>3. new \in Seq(Seq(Cell)) /\ Len(new) = u.nb.ybase /\ \A i \in 1 .. u.nb.ybase : new[i] = u.nb.lines[i].cells
  BY <1>2, HistoryIs
<1> HIDE DEF old, new
<1>4. z \in 0 .. Len(old) /\ Len(new) >= Len(old) - z /\ \A i \in 1 .. Len(old) - z : new[i] = old[i + z]
  BY <1>1, <1>2, <1>3
<1>5. ~(z > 0)
  OBVIOUS
<1> HIDE DEF z
<1>6. SubSeq(new, 1, Len(old) - z) = SubSeq(old, z + 1, Len(old))
  BY <1>1, <1>3, <1>4, Recalled
<1> QED BY <1>4, <1>5, <1>6 DEF Remembers, old, new

\* What goes on remembers all but the oldest.
LEMMA GoesRemembers ==
  ASSUME NEW t, NEW u, NEW whole \in BOOLEAN, Good(t, whole), Goes(t, u, whole)
  PROVE  Remembers(t, u, TRUE)
<1> DEFINE old == History(t.nb)
           new == History(u.nb)
<1>1. /\ t.nb.ybase \in Nat /\ old \in Seq(Seq(Cell)) /\ Len(old) = t.nb.ybase
      /\ \A i \in 1 .. t.nb.ybase : old[i] = t.nb.lines[i].cells
  BY HistoryIs
<1>2. Good(u, whole) /\ t.alt \in BOOLEAN
  BY TermIs DEF Goes
<1>3. new \in Seq(Seq(Cell)) /\ Len(new) = u.nb.ybase /\ (\A i \in 1 .. u.nb.ybase : new[i] = u.nb.lines[i].cells)
      /\ u.nb.ybase \in Nat
  BY <1>2, HistoryIs
<1> HIDE DEF old, new
<1>4. \E d \in 0 .. t.nb.ybase :
        /\ d > 0 => ~t.alt /\ Len(u.nb.lines) = u.nb.max
        /\ u.nb.ybase >= t.nb.ybase - d
        /\ \A i \in 1 .. t.nb.ybase - d : u.nb.lines[i].cells = t.nb.lines[i + d].cells
  <2>1. CASE t.alt
    <3>1. u.nb.ybase = t.nb.ybase /\ \A i \in 1 .. t.nb.ybase : u.nb.lines[i].cells = t.nb.lines[i].cells
      BY <2>1 DEF Goes, Past
    <3>2. /\ 0 \in 0 .. t.nb.ybase /\ u.nb.ybase >= t.nb.ybase - 0
          /\ \A i \in 1 .. t.nb.ybase - 0 : u.nb.lines[i].cells = t.nb.lines[i + 0].cells
      BY <1>1, <3>1
    <3> QED BY <3>2
  <2>2. CASE ~t.alt
    BY <2>2 DEF Goes, Fed
  <2> QED BY <1>2, <2>1, <2>2
<1>5. PICK d \in 0 .. t.nb.ybase :
        /\ d > 0 => ~t.alt /\ Len(u.nb.lines) = u.nb.max
        /\ u.nb.ybase >= t.nb.ybase - d
        /\ \A i \in 1 .. t.nb.ybase - d : u.nb.lines[i].cells = t.nb.lines[i + d].cells
  BY <1>4
<1>6. d \in 0 .. Len(old) /\ Len(new) >= Len(old) - d
  BY <1>1, <1>3, <1>5
<1>7. \A i \in 1 .. Len(old) - d : new[i] = old[i + d]
  <2>1. ASSUME NEW i \in 1 .. Len(old) - d PROVE new[i] = old[i + d]
    <3>1. i \in 1 .. t.nb.ybase - d /\ i \in 1 .. u.nb.ybase /\ i + d \in 1 .. t.nb.ybase
      <4> DEFINE y == t.nb.ybase
                 z == u.nb.ybase
      <4>1. y \in Nat /\ z \in Nat /\ d \in 0 .. y /\ z >= y - d /\ i \in 1 .. y - d
        BY <1>1, <1>3, <1>5
      <4> HIDE DEF y, z
      <4>2. i \in 1 .. y - d /\ i \in 1 .. z /\ i + d \in 1 .. y
        BY ONLY <4>1
      <4> QED BY <4>2 DEF y, z
    <3> QED BY <1>1, <1>3, <1>5, <3>1
  <2> QED BY <2>1
<1>8. SubSeq(new, 1, Len(old) - d) = SubSeq(old, d + 1, Len(old))
  BY <1>1, <1>3, <1>6, <1>7, Recalled
<1> QED BY <1>5, <1>6, <1>8 DEF Remembers, old, new

\* A terminal that runs is sound, and fit for any step.
Fit(t, whole) == t.panic = "none" => Good(t, whole) /\ Joint(t) /\ (whole => Joinable(t))

\* A terminal that joins nothing is fit.
LEMMA ControlFits ==
  ASSUME NEW u, NEW whole \in BOOLEAN, Good(u, whole)
  PROVE  /\ Fit([u EXCEPT !.join = 0], whole) /\ [u EXCEPT !.join = 0].panic = u.panic
         /\ [u EXCEPT !.join = 0].nb = u.nb
<1> DEFINE j == 0
           v == [u EXCEPT !.join = j]
<1>1. j \in 0 .. 2
  OBVIOUS
<1> HIDE DEF j
<1>2. Good(v, whole) /\ v.join = j /\ v.panic = u.panic /\ v.nb = u.nb
  BY <1>1, JoinPut
<1> HIDE DEF v
<1>3. v.join = 0
  BY <1>2 DEF j
<1>4. Fit(v, whole)
  BY <1>2, <1>3 DEF Fit, Joint, Joinable
<1> QED BY <1>2, <1>4 DEF v, j

\* The same history is remembered the same.
LEMMA RemembersSame ==
  ASSUME NEW t, NEW u, NEW v, v.nb = u.nb, NEW feeds, Remembers(t, u, feeds)
  PROVE  Remembers(t, v, feeds)
BY DEF Remembers

\* A control sequence that keeps the history.
LEMMA ControlStays ==
  ASSUME NEW t, NEW u, NEW whole \in BOOLEAN, Good(t, whole), Stays(t, u, whole)
  PROVE  Fit([u EXCEPT !.join = 0], whole) /\ Remembers(t, [u EXCEPT !.join = 0], FALSE)
<1> DEFINE v == [u EXCEPT !.join = 0]
           no == FALSE
<1>1. Good(u, whole) /\ no \in BOOLEAN
  BY DEF Stays
<1>2. Fit(v, whole) /\ v.nb = u.nb
  BY <1>1, ControlFits
<1> HIDE DEF v, no
<1>3. Remembers(t, u, no)
  BY <1>1, StaysRemembers
<1>4. Remembers(t, v, no)
  BY <1>2, <1>3, RemembersSame
<1> QED BY <1>2, <1>4 DEF v, no

\* One that feeds lines.
LEMMA ControlGoes ==
  ASSUME NEW t, NEW u, NEW whole \in BOOLEAN, Good(t, whole), Goes(t, u, whole)
  PROVE  Fit([u EXCEPT !.join = 0], whole) /\ Remembers(t, [u EXCEPT !.join = 0], TRUE)
<1> DEFINE v == [u EXCEPT !.join = 0]
           yes == TRUE
<1>1. Good(u, whole)
  BY DEF Goes
<1>2. Fit(v, whole) /\ v.nb = u.nb
  BY <1>1, ControlFits
<1>3. Remembers(t, u, yes)
  BY GoesRemembers
<1> HIDE DEF v, yes
<1>4. Remembers(t, v, yes)
  BY <1>2, <1>3, RemembersSame
<1> QED BY <1>2, <1>4 DEF v, yes

\* Text that was printed.
LEMMA TextFits ==
  ASSUME NEW t, NEW u, NEW whole \in BOOLEAN, Good(t, whole), Printed(t, u, whole)
  PROVE  /\ Fit(u, whole) /\ Remembers(t, u, TRUE)
         /\ Fit([u EXCEPT !.join = 0], whole) /\ Remembers(t, [u EXCEPT !.join = 0], TRUE)
<1>1. CASE u.panic = "print"
  <2> DEFINE s == [u EXCEPT !.panic = "none"]
             v == [u EXCEPT !.join = 0]
             yes == TRUE
  <2>1. u \in Terminals /\ Goes(t, s, whole)
    BY <1>1 DEF Printed
  <2>2. s.nb = u.nb /\ v.nb = u.nb /\ u.nb = s.nb /\ v.nb = s.nb /\ v.panic = "print"
    BY <1>1, <2>1 DEF Terminals
  <2> HIDE DEF s
  <2>3. Remembers(t, s, yes)
    BY <2>1, GoesRemembers
  <2> HIDE DEF v, yes
  <2>4. Remembers(t, u, yes) /\ Remembers(t, v, yes)
    BY <2>2, <2>3, RemembersSame
  <2>5. Fit(u, whole) /\ Fit(v, whole)
    BY <1>1, <2>2 DEF Fit
  <2> QED BY <2>4, <2>5 DEF v, yes
<1>2. CASE u.panic # "print"
  <2>1. u.panic = "none" /\ Goes(t, u, whole) /\ Ready(u, whole)
    BY <1>2 DEF Printed
  <2>2. Fit(u, whole)
    BY <2>1 DEF Fit, Joint, Goes, Ready
  <2>3. Remembers(t, u, TRUE)
    BY <2>1, GoesRemembers
  <2> QED BY <2>1, <2>2, <2>3, ControlGoes
<1> QED BY <1>1, <1>2

\* The view moved.
LEMMA ViewFits ==
  ASSUME NEW t, NEW u, NEW whole \in BOOLEAN, Good(t, whole), Joint(t), whole => Joinable(t),
         Stays(t, u, whole), Viewed(t, u)
  PROVE  Fit(u, whole) /\ Remembers(t, u, FALSE)
<1> DEFINE no == FALSE
           b == Buf(t)
           c == Buf(u)
<1>1. Good(u, whole) /\ no \in BOOLEAN
  BY DEF Stays
<1>2. c.x = b.x /\ c.y = b.y /\ c.lines = b.lines /\ c.ybase = b.ybase /\ u.join = t.join
  BY DEF Viewed
<1>3. Joint(t) <=> (t.join > 0 => b.x <= Len(Row(b, b.y).cells))
  BY DEF Joint
<1>4. Joint(u) <=> (u.join > 0 => c.x <= Len(Row(c, c.y).cells))
  BY DEF Joint
<1>5. Joinable(t) <=> /\ t.join = 1 => b.x \in 1 .. Len(Row(b, b.y).cells) /\ Row(b, b.y).cells[b.x].w = 1
                      /\ t.join = 2 => b.x \in 2 .. Len(Row(b, b.y).cells) /\ Row(b, b.y).cells[b.x - 1].w = 2
  BY DEF Joinable
<1>6. Joinable(u) <=> /\ u.join = 1 => c.x \in 1 .. Len(Row(c, c.y).cells) /\ Row(c, c.y).cells[c.x].w = 1
                      /\ u.join = 2 => c.x \in 2 .. Len(Row(c, c.y).cells) /\ Row(c, c.y).cells[c.x - 1].w = 2
  BY DEF Joinable
<1> HIDE DEF b, c
<1>7. Row(c, c.y) = Row(b, b.y)
  BY <1>2 DEF Row
<1>8. Joint(u) /\ (whole => Joinable(u))
  BY <1>2, <1>3, <1>4, <1>5, <1>6, <1>7
<1> HIDE DEF no
<1>9. Remembers(t, u, no)
  BY <1>1, StaysRemembers
<1> QED BY <1>1, <1>8, <1>9 DEF Fit, no

----------------------------------------------------------------------------
(* Wide characters *)

\* Where all wide characters are whole they are in every line.
LEMMA WholeIs ==
  ASSUME NEW t, Good(t, FALSE), AllWide(t)
  PROVE  Good(t, TRUE)
<1> DEFINE no == FALSE
           yes == TRUE
<1>1. ASSUME NEW b, NEW exact, NEW rows, NEW back, Framed(b, RowsOf(t.cols, exact, FALSE), rows, back),
             \A i \in DOMAIN b.lines : WideWhole(b.lines[i].cells)
      PROVE  Framed(b, RowsOf(t.cols, exact, TRUE), rows, back)
  <2> DEFINE S == RowsOf(t.cols, exact, FALSE)
             T == RowsOf(t.cols, exact, TRUE)
             l == b.lines
  <2>1. b \in BufRec(S) /\ l \in Seq(S)
    BY <1>1 DEF Framed, BufRec
  <2>2. ASSUME NEW r \in S, WideWhole(r.cells) PROVE r \in T
    BY <2>2 DEF RowsOf
  <2>3. \A i \in DOMAIN l : WideWhole(l[i].cells)
    BY <1>1
  <2> HIDE DEF S, T
  <2>4. DOMAIN l = 1 .. Len(l) /\ Len(l) \in Nat /\ \A i \in 1 .. Len(l) : l[i] \in S
    BY <2>1, LenProperties, ElementOfSeq
  <2>5. l \in [1 .. Len(l) -> S]
    BY <2>1, LenProperties
  <2> DEFINE n == Len(l)
  <2> HIDE DEF l
  <2>6. l = [i \in 1 .. n |-> l[i]] /\ n \in Nat
    BY <2>4, <2>5
  <2>7. l \in [1 .. n -> T]
    <3>1. \A i \in 1 .. n : l[i] \in T
      BY <2>2, <2>3, <2>4
    <3> HIDE DEF n
    <3> QED BY <2>6, <3>1
  <2> HIDE DEF n
  <2>8. l \in Seq(T)
    BY <2>6, <2>7, SeqDef
  <2>9. b \in BufRec(T)
    BY <2>1, <2>8 DEF BufRec, l
  <2> QED BY <1>1, <2>9 DEF Framed, T
<1>2. \A b \in {t.nb, t.ab} : \A i \in DOMAIN b.lines : WideWhole(b.lines[i].cells)
  BY DEF AllWide
<1>3. Framed(t.nb, RowsOf(t.cols, Scrollback > 0, TRUE), t.rows, Scrollback)
  BY <1>1, <1>2 DEF Good
<1>4. t.alt => Framed(t.ab, RowsOf(t.cols, FALSE, TRUE), t.rows, 0)
  BY <1>1, <1>2 DEF Good
<1> QED BY <1>3, <1>4 DEF Good

\* And the other way round.
LEMMA WideIs ==
  ASSUME NEW t, Good(t, TRUE)
  PROVE  AllWide(t)
<1>1. ASSUME NEW b, NEW exact, NEW rows, NEW back, Framed(b, RowsOf(t.cols, exact, TRUE), rows, back)
      PROVE  \A i \in DOMAIN b.lines : WideWhole(b.lines[i].cells)
  <2> DEFINE S == RowsOf(t.cols, exact, TRUE)
             l == b.lines
  <2>1. l \in Seq(S)
    BY <1>1 DEF Framed, BufRec
  <2>2. \A r \in S : WideWhole(r.cells)
    BY DEF RowsOf
  <2> HIDE DEF S, l
  <2>3. DOMAIN l = 1 .. Len(l) /\ \A i \in 1 .. Len(l) : l[i] \in S
    BY <2>1, LenProperties, ElementOfSeq
  <2> QED BY <2>2, <2>3 DEF l
<1>2. \A i \in DOMAIN t.nb.lines : WideWhole(t.nb.lines[i].cells)
  BY <1>1 DEF Good
<1>3. t.alt \in BOOLEAN
  BY TermIs
<1>4. CASE t.alt
  <2>1. \A i \in DOMAIN t.ab.lines : WideWhole(t.ab.lines[i].cells)
    BY <1>1, <1>4 DEF Good
  <2> QED BY <1>2, <2>1 DEF AllWide
<1>5. CASE ~t.alt
  <2>1. t.ab.lines = <<>>
    BY <1>5 DEF Good, Asleep
  <2>2. DOMAIN t.ab.lines = {}
    BY <2>1
  <2> QED BY <1>2, <2>2 DEF AllWide
<1> QED BY <1>3, <1>4, <1>5

----------------------------------------------------------------------------
(* The steps *)

\* A control sequence that keeps the history, as a step.
LEMMA Controlled ==
  ASSUME NEW whole \in BOOLEAN, Good(term, whole), NEW u, Stays(term, u, whole), Control(u)
  PROVE  Fit(term', whole) /\ Remembers(term, term', FALSE)
<1>1. term' = [u EXCEPT !.join = 0]
  BY DEF Control
<1> QED BY <1>1, ControlStays

\* The cursor's movements.
LEMMA MovesFit ==
  ASSUME NEW whole \in BOOLEAN, Good(term, whole), Moves
  PROVE  Fit(term', whole) /\ Remembers(term, term', FALSE)
<1>1. PICK n \in Counts :
        \/ Control(CursorUp(term, n)) \/ Control(CursorDown(term, n))
        \/ Control(CursorForward(term, n)) \/ Control(CursorBackward(term, n))
        \/ Control(CarriageReturn(CursorUp(term, n))) \/ Control(CarriageReturn(CursorDown(term, n)))
        \/ Control(CursorCharAbsolute(term, n)) \/ Control(LinePosAbsolute(term, n))
        \/ Control(VPositionRelative(term, n))
        \/ \E m \in Counts : Control(SetCursor(term, n - 1, m - 1))
  BY DEF Moves
<1>2. Counts \subseteq Nat \ {0}
  BY ScreenStepsAssumption
<1>3. n \in Int
  BY <1>2
<1>4. /\ Stays(term, CursorUp(term, n), whole) /\ Stays(term, CursorDown(term, n), whole)
      /\ Stays(term, CursorForward(term, n), whole) /\ Stays(term, CursorBackward(term, n), whole)
      /\ Stays(term, CursorCharAbsolute(term, n), whole) /\ Stays(term, LinePosAbsolute(term, n), whole)
      /\ Stays(term, VPositionRelative(term, n), whole)
  BY <1>3, CursorMovesAre
<1>5. Stays(term, CarriageReturn(CursorUp(term, n)), whole) /\ Stays(term, CarriageReturn(CursorDown(term, n)), whole)
  BY <1>3, ReturnsAre
<1>6. ASSUME NEW m \in Counts PROVE Stays(term, SetCursor(term, n - 1, m - 1), whole)
  <2> DEFINE x == n - 1
             y == m - 1
  <2>1. x \in Int /\ y \in Int
    BY <1>2, <1>3
  <2> HIDE DEF x, y
  <2>2. Stays(term, SetCursor(term, x, y), whole)
    BY <2>1, SetCursorIs
  <2> QED BY <2>2 DEF x, y
<1> QED BY <1>1, <1>4, <1>5, <1>6, Controlled

\* What is done once.
LEMMA StepwiseFits ==
  ASSUME NEW whole \in BOOLEAN, Good(term, whole), Stepwise
  PROVE  Fit(term', whole) /\ Remembers(term, term', FALSE)
<1>1. \/ Control(ForwardTab(term)) \/ Control(BackwardTab(term)) \/ Control(Backspace(term))
      \/ Control(TabSet(term)) \/ Control(TabClear(term)) \/ Control(TabClearAll(term))
      \/ Control(ReverseIndex(term)) \/ Control(SaveCursor(term)) \/ Control(RestoreCursor(term))
  BY DEF Stepwise
<1>2. Stays(term, ForwardTab(term), whole) /\ Stays(term, BackwardTab(term), whole)
  BY TabsAre
<1>3. /\ Stays(term, TabSet(term), whole) /\ Stays(term, TabClear(term), whole) /\ Stays(term, TabClearAll(term), whole)
      /\ Stays(term, SaveCursor(term), whole)
  BY NotesAre
<1>4. /\ Stays(term, Backspace(term), whole) /\ Stays(term, ReverseIndex(term), whole)
      /\ Stays(term, RestoreCursor(term), whole)
  BY BackspaceIs, ReverseIndexIs, RestoreCursorIs
<1> QED BY <1>1, <1>2, <1>3, <1>4, Controlled

\* What erases.
LEMMA ErasesFit ==
  ASSUME NEW whole \in BOOLEAN, Good(term, whole), Erases
  PROVE  Fit(term', whole) /\ Remembers(term, term', FALSE)
<1>1. PICK respect \in BOOLEAN :
        \/ Control(EraseBelow(term, respect)) \/ Control(EraseAbove(term, respect))
        \/ Control(EraseAll(term, respect)) \/ Control(EraseRight(term, respect))
        \/ Control(EraseLeft(term, respect)) \/ Control(EraseLine(term, respect))
  BY DEF Erases
<1>2. /\ Stays(term, EraseBelow(term, respect), whole) /\ Stays(term, EraseAbove(term, respect), whole)
      /\ Stays(term, EraseAll(term, respect), whole) /\ Stays(term, EraseRight(term, respect), whole)
      /\ Stays(term, EraseLeft(term, respect), whole) /\ Stays(term, EraseLine(term, respect), whole)
  BY EraseBelowIs, EraseAboveIs, ErasesAre
<1> QED BY <1>1, <1>2, Controlled

\* What shifts.
LEMMA EditsFit ==
  ASSUME NEW whole \in BOOLEAN, Good(term, whole), Edits
  PROVE  Fit(term', whole) /\ Remembers(term, term', FALSE)
<1>1. PICK n \in Counts :
        \/ Control(EraseChars(term, n)) \/ Control(InsertChars(term, n)) \/ Control(DeleteChars(term, n))
        \/ Control(InsertLines(term, n)) \/ Control(DeleteLines(term, n))
        \/ Control(ScrollUp(term, n)) \/ Control(ScrollDown(term, n))
        \/ Control(ScrollLeft(term, n)) \/ Control(ScrollRight(term, n))
        \/ Control(InsertColumns(term, n)) \/ Control(DeleteColumns(term, n))
  BY DEF Edits
<1>2. n \in Nat \ {0} /\ n \in Nat
  BY ScreenStepsAssumption
<1>3. Stays(term, EraseChars(term, n), whole) /\ Stays(term, InsertChars(term, n), whole) /\ Stays(term, DeleteChars(term, n), whole)
  BY <1>2, CharsAre
<1>4. /\ Stays(term, InsertLines(term, n), whole) /\ Stays(term, DeleteLines(term, n), whole)
      /\ Stays(term, ScrollUp(term, n), whole) /\ Stays(term, ScrollDown(term, n), whole)
  BY <1>2, LinesStay
<1>5. /\ Stays(term, ScrollLeft(term, n), whole) /\ Stays(term, ScrollRight(term, n), whole)
      /\ Stays(term, InsertColumns(term, n), whole) /\ Stays(term, DeleteColumns(term, n), whole)
  BY <1>2, ColumnsStay
<1> QED BY <1>1, <1>3, <1>4, <1>5, Controlled

\* What sets.
LEMMA SetsFit ==
  ASSUME NEW whole \in BOOLEAN, Good(term, whole), Sets
  PROVE  Fit(term', whole) /\ Remembers(term, term', FALSE)
<1>1. CASE \E on \in BOOLEAN :
             \/ Control(SelectProtected(term, on)) \/ Control(InsertMode(term, on))
             \/ Control(ConvertEol(term, on)) \/ Control(Wraparound(term, on))
             \/ Control(ReverseWraparound(term, on)) \/ Control(OriginMode(term, on))
  <2>1. PICK on \in BOOLEAN :
          \/ Control(SelectProtected(term, on)) \/ Control(InsertMode(term, on))
          \/ Control(ConvertEol(term, on)) \/ Control(Wraparound(term, on))
          \/ Control(ReverseWraparound(term, on)) \/ Control(OriginMode(term, on))
    BY <1>1
  <2>2. /\ Stays(term, SelectProtected(term, on), whole) /\ Stays(term, InsertMode(term, on), whole)
        /\ Stays(term, ConvertEol(term, on), whole) /\ Stays(term, Wraparound(term, on), whole)
        /\ Stays(term, ReverseWraparound(term, on), whole) /\ Stays(term, OriginMode(term, on), whole)
    BY SwitchesAre
  <2> QED BY <2>1, <2>2, Controlled
<1>2. CASE \E n \in Counts, m \in Counts \cup {0} : Control(SetScrollRegion(term, n, m))
  <2>1. PICK n \in Counts, m \in Counts \cup {0} : Control(SetScrollRegion(term, n, m))
    BY <1>2
  <2>2. n \in Nat \ {0} /\ m \in Nat
    BY ScreenStepsAssumption
  <2>3. Stays(term, SetScrollRegion(term, n, m), whole)
    BY <2>2, RegionSet
  <2> QED BY <2>1, <2>3, Controlled
<1>3. CASE \/ Control(ActivateAlt(term)) \/ Control(ActivateNormal(term))
           \/ Control(AltScreen(term)) \/ Control(NormalScreen(term))
           \/ Control(SoftReset(term))
  <2>1. /\ Stays(term, ActivateAlt(term), whole) /\ Stays(term, ActivateNormal(term), whole)
        /\ Stays(term, AltScreen(term), whole) /\ Stays(term, NormalScreen(term), whole)
        /\ Stays(term, SoftReset(term), whole)
    BY ActivateAltIs, ActivateNormalIs, ScreensAre, SoftResetIs
  <2> QED BY <1>3, <2>1, Controlled
<1> QED BY <1>1, <1>2, <1>3 DEF Sets

\* What gives up the history, or writes on it.
LEMMA ClearsFit ==
  ASSUME NEW whole \in BOOLEAN, Good(term, whole), Aligns \/ Clears
  PROVE  Fit(term', whole)
<1>1. Control(AlignScreen(term)) \/ Control(EraseScrollback(term)) \/ Control(FullReset(term))
  BY DEF Aligns, Clears
<1>2. Good(AlignScreen(term), whole) /\ Good(EraseScrollback(term), whole) /\ Good(FullReset(term), whole)
  BY AlignScreenIs, EraseScrollbackIs, FullResetIs
<1>3. ASSUME NEW u, Good(u, whole), Control(u) PROVE Fit(term', whole)
  <2>1. term' = [u EXCEPT !.join = 0]
    BY <1>3 DEF Control
  <2> QED BY <1>3, <2>1, ControlFits
<1> QED BY <1>1, <1>2, <1>3

\* The view.
LEMMA ScrollsFit ==
  ASSUME NEW whole \in BOOLEAN, Good(term, whole), Joint(term), whole => Joinable(term), Scrolls
  PROVE  Fit(term', whole) /\ Remembers(term, term', FALSE)
<1>1. ASSUME NEW u, Stays(term, u, whole), Viewed(term, u), Client(u)
      PROVE  Fit(term', whole) /\ Remembers(term, term', FALSE)
  <2>1. term' = u
    BY <1>1 DEF Client
  <2> QED BY <1>1, <2>1, ViewFits
<1>2. ASSUME NEW d \in Int
      PROVE  /\ Stays(term, ScrollLines(term, d), whole) /\ Viewed(term, ScrollLines(term, d))
             /\ Stays(term, ScrollReset(term), whole) /\ Viewed(term, ScrollReset(term))
  BY ScrollsAre
<1>3. (\E d \in Int : Client(ScrollLines(term, d))) \/ Client(ScrollReset(term))
  BY DEF Scrolls
<1>4. Stays(term, ScrollReset(term), whole) /\ Viewed(term, ScrollReset(term))
  <2>1. 0 \in Int
    OBVIOUS
  <2> QED BY <1>2, <2>1
<1> QED BY <1>1, <1>2, <1>3, <1>4

\* Carriage returns and line feeds.
LEMMA LineFits ==
  ASSUME NEW whole \in BOOLEAN, Good(term, whole), Line
  PROVE  Fit(term', whole) /\ Remembers(term, term', TRUE)
<1>1. term' = [LineFeed(term) EXCEPT !.join = 0] \/ term' = [CarriageReturn(term) EXCEPT !.join = 0]
  BY DEF Line, Plain
<1>2. Goes(term, LineFeed(term), whole) /\ Goes(term, CarriageReturn(term), whole)
  BY LineFeedIs, CarriageReturnGoes
<1> QED BY <1>1, <1>2, ControlGoes

\* Text.
LEMMA TextFitsToo ==
  ASSUME NEW whole \in BOOLEAN, Good(term, whole), Joint(term), whole => term.wrap /\ Joinable(term), Text
  PROVE  Fit(term', whole) /\ Remembers(term, term', TRUE)
<1>1. PICK s \in Texts : term.panic = "none" /\ term' = PrintText(term, s)
  BY DEF Text, Plain, Runs
<1>2. s \in Seq(Letters)
  <2>1. s \in Seq({s[i] : i \in DOMAIN s})
    BY ScreenStepsAssumption
  <2>2. {s[i] : i \in DOMAIN s} \subseteq Letters
    BY DEF Letters
  <2>3. Seq({s[i] : i \in DOMAIN s}) \subseteq Seq(Letters)
    BY <2>2
  <2> QED BY <2>1, <2>3
<1>3. CASE s = <<>>
  <2>1. term' = term
    BY <1>1, <1>3 DEF PrintText
  <2>2. Stays(term, term, whole)
    BY StaysSelf
  <2>3. Fit(term, whole)
    BY DEF Fit
  <2>4. Remembers(term, term, TRUE)
    BY <2>2, StaysRemembers
  <2> QED BY <2>1, <2>3, <2>4
<1>4. CASE s # <<>>
  <2>1. Able(term, whole)
    BY DEF Able
  <2>2. Printed(term, PrintText(term, s), whole)
    BY <1>1, <1>2, <1>4, <2>1, PrintTextIs
  <2> QED BY <1>1, <2>2, TextFits
<1> QED BY <1>3, <1>4

\* What feeds lines as text does.
LEMMA FeedsFit ==
  ASSUME NEW whole \in BOOLEAN, Good(term, whole), Joint(term), whole => term.wrap /\ Joinable(term), Feeds
  PROVE  Fit(term', whole) /\ Remembers(term, term', TRUE)
<1>1. ASSUME NEW n \in Counts, Control(RepeatChar(term, n))
      PROVE  Fit(term', whole) /\ Remembers(term, term', TRUE)
  <2> DEFINE u == RepeatChar(term, n)
  <2>1. term' = [u EXCEPT !.join = 0] /\ term.panic = "none"
    BY <1>1 DEF Control, Runs
  <2>2. n \in Nat
    BY ScreenStepsAssumption
  <2>3. Able(term, whole)
    BY DEF Able
  <2>4. u = term \/ Printed(term, u, whole)
    BY <2>1, <2>2, <2>3, RepeatCharIs
  <2> HIDE DEF u
  <2>5. CASE u = term
    <3>1. Goes(term, u, whole)
      BY <2>5, StaysSelf, StaysGoes
    <3> QED BY <2>1, <3>1, ControlGoes
  <2>6. CASE Printed(term, u, whole)
    BY <2>1, <2>6, TextFits
  <2> QED BY <2>4, <2>5, <2>6
<1>2. ASSUME Control(Index(term)) \/ Control(NextLine(term))
      PROVE  Fit(term', whole) /\ Remembers(term, term', TRUE)
  <2>1. Goes(term, Index(term), whole) /\ Goes(term, NextLine(term), whole)
    BY IndexIs, NextLineIs
  <2>2. term' = [Index(term) EXCEPT !.join = 0] \/ term' = [NextLine(term) EXCEPT !.join = 0]
    BY <1>2 DEF Control
  <2> QED BY <2>1, <2>2, ControlGoes
<1> QED BY <1>1, <1>2 DEF Feeds

----------------------------------------------------------------------------
(* Another size *)

\* More tab stops on a wider screen.
LEMMA StopsExtended ==
  ASSUME NEW T, NEW b \in BufRec(T), NEW cols \in Nat \ {0, 1}
  PROVE  \E tabs \in SUBSET Int : ExtendStops(b, cols) = [b EXCEPT !.tabs = tabs]
<1> DEFINE from == IF cols \in b.tabs THEN cols ELSE PrevStop(b, cols, cols)
           more == {i \in from .. (cols - 1) : (i - from) % TabStopWidth = 0}
           tabs == b.tabs \cup more
<1>1. ExtendStops(b, cols) = [b EXCEPT !.tabs = tabs]
  BY DEF ExtendStops
<1>2. PrevStop(b, cols, cols) \in 0 .. cols - 1
  BY StopsAre
<1>3. from \in Int
  BY <1>2
<1> HIDE DEF from
<1>4. more \subseteq Int
  BY <1>3
<1> HIDE DEF more
<1>5. tabs \in SUBSET Int
  BY <1>4 DEF BufRec
<1> QED BY <1>1, <1>5

\* They move nothing.
LEMMA StopsKeep ==
  ASSUME NEW S, NEW b, NEW cols \in Nat \ {0, 1}, NEW rows \in Nat \ {0}, NEW back \in Nat,
         Settles(b, S, cols, rows, back)
  PROVE  Settles(ExtendStops(b, cols), S, cols, rows, back)
<1>1. /\ Framed(b, S, rows, back) /\ b.x \in 0 .. cols - 1 /\ b.y \in 0 .. rows - 1 /\ b \in BufRec(S)
  BY DEF Settles, Framed
<1>2. PICK tabs \in SUBSET Int : ExtendStops(b, cols) = [b EXCEPT !.tabs = tabs]
  BY <1>1, StopsExtended
<1> DEFINE c == [b EXCEPT !.tabs = tabs]
<1>3. /\ c \in BufRec(S) /\ c.lines = b.lines /\ c.back = b.back /\ c.max = b.max /\ c.down = b.down
      /\ c.ybase = b.ybase /\ c.ydisp = b.ydisp /\ c.x = b.x /\ c.y = b.y /\ c.top = b.top /\ c.bot = b.bot
  BY <1>1 DEF BufRec
<1> HIDE DEF c
<1>4. Framed(c, S, rows, back)
  BY <1>1, <1>3 DEF Framed
<1> QED BY <1>1, <1>2, <1>3, <1>4 DEF Settles, c

\* An alternate buffer that is not shown only learns its size.
LEMMA ResizeAsleep ==
  ASSUME NEW b, NEW oldRows, Asleep(b, oldRows), NEW old, NEW cols \in Nat \ {0, 1}, NEW rows \in Nat \ {0}
  PROVE  LET c == ResizeBuffer(b, old, oldRows, cols, rows) IN
         c.ok /\ Asleep(ExtendStops(c.b, cols), rows)
<1> DEFINE bot == rows - 1
           max == rows
           c1 == [b EXCEPT !.bot = bot]
           c == [c1 EXCEPT !.max = max]
           c0 == [b EXCEPT !.bot = rows - 1, !.max = rows + b.back]
           Close(d) == /\ d \in BufRec(TextLine) /\ d.lines = <<>> /\ d.back = 0 /\ d.down = 0
                       /\ d.ybase = 0 /\ d.ydisp = 0 /\ d.x = 0 /\ d.y = 0 /\ d.top = 0
<1>1. Close(b)
  BY DEF Asleep
<1>2. c0 = [b EXCEPT !.bot = bot, !.max = max]
  <2>1. rows + b.back = max
    BY <1>1
  <2> QED BY Zenon, <2>1
<1>3. ResizeBuffer(b, old, oldRows, cols, rows) = [ok |-> TRUE, b |-> c0]
  BY <1>1 DEF ResizeBuffer
<1>4. c0 = c
  BY <1>2
<1>5. bot \in Int /\ max \in Int
  OBVIOUS
<1> HIDE DEF c0, bot, max
<1>6. Close(c1) /\ c1.bot = bot
  BY <1>1, <1>5 DEF BufRec
<1> HIDE DEF c1
<1>7. Close(c) /\ c.bot = bot /\ c.max = max
  BY <1>5, <1>6 DEF BufRec
<1> HIDE DEF c
<1>8. PICK tabs \in SUBSET Int : ExtendStops(c, cols) = [c EXCEPT !.tabs = tabs]
  BY <1>7, StopsExtended
<1> DEFINE e == [c EXCEPT !.tabs = tabs]
<1>9. Close(e) /\ e.bot = bot /\ e.max = max
  BY <1>7 DEF BufRec
<1> HIDE DEF e
<1>10. Asleep(e, rows)
  BY <1>9 DEF Asleep, bot, max
<1>11. ExtendStops(c, cols) = e
  BY <1>8 DEF e
<1> QED BY <1>3, <1>4, <1>10, <1>11

\* A buffer that settled is framed, its cursor on the screen.
LEMMA SettlesFramed ==
  ASSUME NEW S, NEW b, NEW cols \in Nat \ {0, 1}, NEW rows \in Nat \ {0}, NEW back, Settles(b, S, cols, rows, back)
  PROVE  Framed(b, S, rows, back) /\ OnScreen(b, cols, rows)
BY DEF Settles, OnScreen

\* Where the cursor is inside a line nothing is joined beyond it.
LEMMA InsideJoint ==
  ASSUME NEW u, NEW cols \in Nat \ {0, 1}, NEW rows \in Nat \ {0}, NEW exact, NEW back \in Nat,
         Settles(Buf(u), RowsOf(cols, exact, FALSE), cols, rows, back)
  PROVE  Joint(u)
<1> DEFINE b == Buf(u)
           S == RowsOf(cols, exact, FALSE)
           i == b.ybase + b.y + 1
           r == b.lines[i]
<1>1. Framed(b, S, rows, back) /\ b.x \in 0 .. cols - 1 /\ b.y \in 0 .. rows - 1
  BY DEF Settles
<1>2. /\ Len(b.lines) \in Nat /\ b.ybase \in Nat /\ b.ybase + rows <= Len(b.lines)
      /\ \A k \in 1 .. Len(b.lines) : b.lines[k] \in S
  <2> HIDE DEF S, b
  <2> QED BY <1>1, FrameIs
<1> HIDE DEF b
<1>3. r \in S
  <2>1. i \in 1 .. Len(b.lines)
    BY <1>1, <1>2
  <2> HIDE DEF i, S
  <2> QED BY <1>2, <2>1
<1> HIDE DEF r
<1>4. Len(r.cells) \in Nat /\ Len(r.cells) >= cols
  BY <1>3, LineIs
<1>5. Row(b, b.y) = r
  BY DEF Row, r
<1> QED BY <1>1, <1>4, <1>5 DEF Joint, b

\* The terminal with other buffers.
Rebuilt(t, cols, rows, n, a) == [t EXCEPT !.cols = cols, !.rows = rows, !.nb = n, !.ab = a]

RebuiltAs(u, t, cols, rows, n, a) ==
  u \in TermRec(n, a) /\ u.cols = cols /\ u.rows = rows /\ u.nb = n /\ u.ab = a /\ u.alt = t.alt

\* What it has got then.
LEMMA RebuiltIs ==
  ASSUME NEW t, Good(t, FALSE), NEW cols \in Nat \ {0, 1}, NEW rows \in Nat \ {0}, NEW n, NEW a
  PROVE  RebuiltAs(Rebuilt(t, cols, rows, n, a), t, cols, rows, n, a)
<1> DEFINE u1 == [t EXCEPT !.cols = cols]
           u2 == [u1 EXCEPT !.rows = rows]
           u3 == [u2 EXCEPT !.nb = n]
           u == [u3 EXCEPT !.ab = a]
<1>1. t \in TermRec(t.nb, t.ab) /\ t.alt \in BOOLEAN
  BY TermIs
<1>2. Rebuilt(t, cols, rows, n, a) = u
  BY DEF Rebuilt
<1>3. u1 \in TermRec(t.nb, t.ab) /\ u1.cols = cols /\ u1.alt = t.alt
  BY <1>1 DEF TermRec
<1> HIDE DEF u1
<1>4. u2 \in TermRec(t.nb, t.ab) /\ u2.cols = cols /\ u2.rows = rows /\ u2.alt = t.alt
  BY <1>3 DEF TermRec
<1> HIDE DEF u2
<1>5. u3 \in TermRec(n, t.ab) /\ u3.cols = cols /\ u3.rows = rows /\ u3.nb = n /\ u3.alt = t.alt
  BY <1>4 DEF TermRec
<1> HIDE DEF u3
<1>6. u \in TermRec(n, a) /\ u.cols = cols /\ u.rows = rows /\ u.nb = n /\ u.ab = a /\ u.alt = t.alt
  BY <1>5 DEF TermRec
<1> QED BY <1>2, <1>6 DEF RebuiltAs

\* A buffer that is shown or was.
LEMMA ResizeFrames ==
  ASSUME NEW old \in Nat \ {0, 1}, NEW cols \in Nat \ {0, 1}, NEW oldRows \in Nat \ {0}, NEW rows \in Nat \ {0},
         NEW back \in Nat, NEW exact \in BOOLEAN, exact <=> back > 0,
         NEW b, Framed(b, RowsOf(old, exact, FALSE), oldRows, back), OnScreen(b, old, oldRows)
  PROVE  LET c == ResizeBuffer(b, old, oldRows, cols, rows) IN
         c.ok => Settles(ExtendStops(c.b, cols), RowsOf(cols, exact, FALSE), cols, rows, back)
<1> DEFINE c == ResizeBuffer(b, old, oldRows, cols, rows)
           S == RowsOf(cols, exact, FALSE)
           d == c.b
<1>1. old \in Nat /\ old >= 2 /\ cols \in Nat /\ cols >= 2
  OBVIOUS
<1>2. c.ok => Settles(c.b, S, cols, rows, back)
  BY <1>1, ResizeAwake
<1> HIDE DEF c, S, d
<1>3. ASSUME Settles(d, S, cols, rows, back) PROVE Settles(ExtendStops(d, cols), S, cols, rows, back)
  BY <1>3, StopsKeep
<1> QED BY <1>2, <1>3 DEF d, c, S

\* A terminal that is given another size is fit, unless it panics.
LEMMA ResizeFits ==
  ASSUME NEW t, Good(t, FALSE), Joint(t), NEW cols \in Nat \ {0, 1}, NEW rows \in Nat \ {0}
  PROVE  Fit(Resize(t, cols, rows), FALSE)
<1> DEFINE p == ResizeBuffer(t.nb, t.cols, t.rows, cols, rows)
           q == ResizeBuffer(t.ab, t.cols, t.rows, cols, rows)
           n == ExtendStops(p.b, cols)
           a == ExtendStops(q.b, cols)
           u == Rebuilt(t, cols, rows, n, a)
           exact == Scrollback > 0
           back == Scrollback
           no == FALSE
           z == 0
<1>1. /\ t.cols \in Nat \ {0, 1} /\ t.rows \in Nat \ {0} /\ t.alt \in BOOLEAN
      /\ back \in Nat /\ exact \in BOOLEAN /\ (exact <=> back > 0)
      /\ no \in BOOLEAN /\ z \in Nat /\ (no <=> z > 0)
  <2>1. t.cols \in Nat \ {0, 1} /\ t.rows \in Nat \ {0} /\ t.alt \in BOOLEAN
    BY TermIs
  <2>2. back \in Nat /\ exact \in BOOLEAN /\ (exact <=> back > 0)
    BY ScreenAssumption
  <2>3. no \in BOOLEAN /\ z \in Nat /\ (no <=> z > 0)
    OBVIOUS
  <2> QED BY ONLY <2>1, <2>2, <2>3
<1>2. /\ Framed(t.nb, RowsOf(t.cols, exact, FALSE), t.rows, back) /\ OnScreen(t.nb, t.cols, t.rows)
      /\ t.alt => Framed(t.ab, RowsOf(t.cols, no, FALSE), t.rows, z) /\ OnScreen(t.ab, t.cols, t.rows)
      /\ ~t.alt => Asleep(t.ab, t.rows)
  BY DEF Good
<1>3. CASE cols = t.cols /\ rows = t.rows
  <2>1. Resize(t, cols, rows) = t
    BY <1>3 DEF Resize
  <2> QED BY <2>1 DEF Fit
<1>4. CASE ~ (cols = t.cols /\ rows = t.rows)
  <2>1. Resize(t, cols, rows) = IF ~p.ok \/ ~q.ok THEN [t EXCEPT !.panic = "resize"] ELSE u
    BY <1>4 DEF Resize, Resized, Rebuilt
  <2> HIDE DEF exact, back, no, z
  <2>2. CASE ~p.ok \/ ~q.ok
    <3>1. t \in TermRec(t.nb, t.ab)
      BY TermIs
    <3>2. [t EXCEPT !.panic = "resize"].panic = "resize"
      BY <3>1 DEF TermRec
    <3> QED BY <2>1, <2>2, <3>2 DEF Fit
  <2>3. CASE p.ok /\ q.ok
    <3>1. Settles(n, RowsOf(cols, exact, FALSE), cols, rows, back)
      <4> DEFINE b == t.nb
      <4>1. Framed(b, RowsOf(t.cols, exact, FALSE), t.rows, back) /\ OnScreen(b, t.cols, t.rows)
        BY <1>2
      <4> HIDE DEF b
      <4>2. LET c == ResizeBuffer(b, t.cols, t.rows, cols, rows) IN
            c.ok => Settles(ExtendStops(c.b, cols), RowsOf(cols, exact, FALSE), cols, rows, back)
        BY <1>1, <4>1, ResizeFrames
      <4> QED BY <2>3, <4>2 DEF b
    <3>2. t.alt => Settles(a, RowsOf(cols, no, FALSE), cols, rows, z)
      <4> SUFFICES ASSUME t.alt PROVE Settles(a, RowsOf(cols, no, FALSE), cols, rows, z)
        OBVIOUS
      <4> DEFINE b == t.ab
      <4>1. Framed(b, RowsOf(t.cols, no, FALSE), t.rows, z) /\ OnScreen(b, t.cols, t.rows)
        BY <1>2
      <4> HIDE DEF b
      <4>2. LET c == ResizeBuffer(b, t.cols, t.rows, cols, rows) IN
            c.ok => Settles(ExtendStops(c.b, cols), RowsOf(cols, no, FALSE), cols, rows, z)
        BY <1>1, <4>1, ResizeFrames
      <4> QED BY <2>3, <4>2 DEF b
    <3>3. ~t.alt => Asleep(a, rows)
      <4> DEFINE b == t.ab
      <4>1. ~t.alt => Asleep(b, t.rows)
        BY <1>2
      <4> HIDE DEF b
      <4>2. ~t.alt => LET c == ResizeBuffer(b, t.cols, t.rows, cols, rows) IN Asleep(ExtendStops(c.b, cols), rows)
        BY <4>1, ResizeAsleep
      <4> QED BY <4>2 DEF b
    <3> HIDE DEF n, a, p, q
    <3>4. /\ u \in TermRec(n, a) /\ u.cols = cols /\ u.rows = rows /\ u.nb = n /\ u.ab = a /\ u.alt = t.alt
      <4>1. Good(t, FALSE) /\ cols \in Nat \ {0, 1} /\ rows \in Nat \ {0}
        OBVIOUS
      <4>2. RebuiltAs(u, t, cols, rows, n, a)
        BY ONLY <4>1, RebuiltIs DEF u
      <4> QED BY ONLY <4>2 DEF RebuiltAs
    <3> HIDE DEF u
    <3>5. Framed(n, RowsOf(cols, exact, FALSE), rows, back) /\ OnScreen(n, cols, rows)
      BY <1>1, <3>1, SettlesFramed
    <3>6. t.alt => Framed(a, RowsOf(cols, no, FALSE), rows, z) /\ OnScreen(a, cols, rows)
      BY <1>1, <3>2, SettlesFramed
    <3>7. Good(u, FALSE)
      <4>1. cols >= 2 /\ rows >= 1
        OBVIOUS
      <4>2. /\ u \in TermRec(u.nb, u.ab) /\ u.cols >= 2 /\ u.rows >= 1
            /\ Framed(u.nb, RowsOf(u.cols, exact, FALSE), u.rows, back) /\ OnScreen(u.nb, u.cols, u.rows)
            /\ u.alt => Framed(u.ab, RowsOf(u.cols, no, FALSE), u.rows, z) /\ OnScreen(u.ab, u.cols, u.rows)
            /\ ~u.alt => Asleep(u.ab, u.rows)
        BY <3>3, <3>4, <3>5, <3>6, <4>1
      <4> QED BY ONLY <4>2 DEF Good, exact, no, z, back
    <3>8. Joint(u)
      <4>1. CASE u.alt
        <5>1. Buf(u) = a
          BY <3>4, <4>1 DEF Buf
        <5>2. Settles(Buf(u), RowsOf(cols, no, FALSE), cols, rows, z)
          BY <3>2, <3>4, <4>1, <5>1
        <5> QED BY <1>1, <5>2, InsideJoint
      <4>2. CASE ~u.alt
        <5>1. Buf(u) = n
          BY <3>4, <4>2 DEF Buf
        <5>2. Settles(Buf(u), RowsOf(cols, exact, FALSE), cols, rows, back)
          BY <3>1, <5>1
        <5> QED BY <1>1, <5>2, InsideJoint
      <4> QED BY <4>1, <4>2
    <3> QED BY <2>1, <2>3, <3>7, <3>8 DEF Fit
  <2> QED BY <2>2, <2>3
<1> QED BY <1>3, <1>4

----------------------------------------------------------------------------
(* The terminal that text, sequences and resizes reach *)

\* The inductive invariant: unless it has panicked the terminal is sound, and
\* what would be joined lies in a line.
ScreenSound == Fit(term, FALSE)

\* The terminal starts sound.
LEMMA InitSound ==
  ASSUME ScreenInit
  PROVE  ScreenSound
<1>1. PICK s \in Sizes : term = Fresh(s[1], s[2])
  BY DEF ScreenInit
<1> DEFINE cols == s[1]
           rows == s[2]
           no == FALSE
<1>2. cols \in Nat \ {0, 1} /\ rows \in Nat \ {0} /\ no \in BOOLEAN
  BY ScreenStepsAssumption
<1>3. Fresh(cols, rows).join = 0
  BY DEF Fresh
<1> HIDE DEF cols, rows, no
<1>4. Good(Fresh(cols, rows), no)
  BY <1>2, FreshIs
<1>5. Good(term, FALSE) /\ term.join = 0
  BY <1>1, <1>3, <1>4 DEF cols, rows, no
<1>6. Joint(term)
  <2>1. ~ (term.join > 0)
    BY <1>5
  <2> QED BY <2>1 DEF Joint
<1> QED BY <1>5, <1>6 DEF ScreenSound, Fit

\* A step is taken by a terminal that has not panicked.
LEMMA StepsRun ==
  ASSUME ScreenNext
  PROVE  term.panic = "none"
BY DEF ScreenNext, Text, Line, Feeds, Moves, Stepwise, Erases, Edits, Sets, Resizes, Aligns, Clears, Scrolls,
       Plain, Control, Client, Runs

\* What a step keeps but for a change of size: every sound terminal stays sound,
\* and wide characters whole while text wraps.
LEMMA StepFits ==
  ASSUME NEW whole \in BOOLEAN, Good(term, whole), Joint(term), whole => term.wrap /\ Joinable(term),
         ScreenNext, ~Resizes
  PROVE  Fit(term', whole)
<1>1. Fit(term', whole) \/ Text \/ Line \/ Feeds \/ Aligns \/ Clears \/ Scrolls
  BY MovesFit, StepwiseFits, ErasesFit, EditsFit, SetsFit DEF ScreenNext
<1>2. ASSUME Text \/ Line \/ Feeds PROVE Fit(term', whole)
  BY <1>2, TextFitsToo, LineFits, FeedsFit
<1>3. ASSUME Aligns \/ Clears PROVE Fit(term', whole)
  BY <1>3, ClearsFit
<1>4. ASSUME Scrolls PROVE Fit(term', whole)
  BY <1>4, ScrollsFit
<1> QED BY <1>1, <1>2, <1>3, <1>4

\* A sound terminal stays sound, whatever reaches it.
LEMMA StepSound ==
  ASSUME ScreenSound, [ScreenNext]_screenVars
  PROVE  ScreenSound'
<1>1. CASE UNCHANGED screenVars
  <2>1. term' = term
    BY <1>1 DEF screenVars
  <2> QED BY <2>1 DEF ScreenSound
<1>2. CASE ScreenNext
  <2>1. term.panic = "none"
    BY <1>2, StepsRun
  <2>2. Good(term, FALSE) /\ Joint(term)
    BY <2>1 DEF ScreenSound, Fit
  <2>3. CASE Resizes
    <3>1. PICK s \in Sizes : term' = Resize(term, s[1], s[2])
      BY <2>3 DEF Resizes, Client
    <3> DEFINE cols == s[1]
               rows == s[2]
    <3>2. cols \in Nat \ {0, 1} /\ rows \in Nat \ {0}
      BY ScreenStepsAssumption
    <3>3. term' = Resize(term, cols, rows)
      BY <3>1
    <3> HIDE DEF cols, rows
    <3>4. Fit(Resize(term, cols, rows), FALSE)
      BY <2>2, <3>2, ResizeFits
    <3> QED BY <3>3, <3>4 DEF ScreenSound
  <2>4. CASE ~Resizes
    <3> DEFINE no == FALSE
    <3>1. no \in BOOLEAN /\ Good(term, no) /\ Joint(term) /\ (no => term.wrap /\ Joinable(term))
      BY <2>2
    <3> HIDE DEF no
    <3>2. Fit(term', no)
      BY <1>2, <2>4, <3>1, StepFits
    <3> QED BY <3>2 DEF ScreenSound, no
  <2> QED BY <2>3, <2>4
<1> QED BY <1>1, <1>2

\* A sound terminal's buffers are in order.
LEMMA SoundTypes ==
  ASSUME ScreenSound
  PROVE  ScreenTypes
<1> SUFFICES ASSUME term.panic = "none" PROVE BufferOK(term.nb) /\ BufferOK(term.ab)
  BY DEF ScreenTypes, Runs
<1>1. Good(term, FALSE) /\ term.cols \in Nat \ {0, 1} /\ term.rows \in Nat \ {0} /\ term.alt \in BOOLEAN
  BY TermIs DEF ScreenSound, Fit
<1>2. ASSUME NEW b, NEW exact, NEW back \in Nat, Framed(b, RowsOf(term.cols, exact, FALSE), term.rows, back),
             OnScreen(b, term.cols, term.rows)
      PROVE  BufferOK(b)
  <2> DEFINE S == RowsOf(term.cols, exact, FALSE)
             l == b.lines
             rows == term.rows
  <2>1. /\ l \in Seq(S) /\ Len(l) \in Nat /\ b.ybase \in Nat /\ b.ydisp \in Nat /\ b.ydisp <= b.ybase
        /\ b.top \in Nat /\ b.bot \in Nat /\ b.top <= b.bot /\ b.bot < rows
        /\ b.ybase + rows <= Len(l) /\ Len(l) <= b.max /\ rows \in Nat \ {0}
        /\ \A i \in 1 .. Len(l) : l[i] \in S
    <3> HIDE DEF S
    <3>1. Framed(b, S, rows, back) /\ rows \in Nat \ {0}
      BY <1>1, <1>2 DEF S
    <3> HIDE DEF rows
    <3> QED BY <3>1, FrameIs
  <2>2. b.max = rows + b.back
    BY <1>2 DEF Framed
  <2>3. \A r \in S : Len(r.cells) >= term.cols
    BY DEF RowsOf
  <2>4. DOMAIN l = 1 .. Len(l)
    <3> HIDE DEF S, l
    <3> QED BY <2>1
  <2> HIDE DEF S
  <2>5. \A i \in DOMAIN l : Len(l[i].cells) >= term.cols
    BY <2>1, <2>3, <2>4
  <2>6. b.x \in 0 .. term.cols + 1 /\ b.y \in 0 .. term.rows - 1
    BY <1>2 DEF OnScreen
  <2> QED BY <2>1, <2>2, <2>5, <2>6 DEF BufferOK
<1>3. BufferOK(term.nb)
  <2> DEFINE exact == Scrollback > 0
  <2>1. Framed(term.nb, RowsOf(term.cols, exact, FALSE), term.rows, Scrollback) /\ OnScreen(term.nb, term.cols, term.rows)
    BY <1>1 DEF Good
  <2> HIDE DEF exact
  <2> QED BY <1>2, <2>1, ScreenAssumption
<1>4. CASE term.alt
  <2> DEFINE z == 0
  <2>1. Framed(term.ab, RowsOf(term.cols, FALSE, FALSE), term.rows, z) /\ OnScreen(term.ab, term.cols, term.rows) /\ z \in Nat
    BY <1>1, <1>4 DEF Good
  <2> HIDE DEF z
  <2> QED BY <1>2, <1>3, <2>1
<1>5. CASE ~term.alt
  <2>1. Asleep(term.ab, term.rows)
    BY <1>1, <1>5 DEF Good
  <2>2. BufferOK(term.ab)
    BY <1>1, <2>1 DEF Asleep, BufferOK
  <2> QED BY <1>3, <2>2
<1> QED BY <1>1, <1>4, <1>5

\* Cursor, scroll region and view stay inside the screen and the lists, and the
\* lists long enough for the screen (buffer.go, inputhandler.go): whatever is
\* printed, whichever sequences come and whatever size the terminal is given.
THEOREM ScreenTypesHold == ScreenMoves => []ScreenTypes
<1>1. ScreenInit => ScreenSound
  BY InitSound
<1>2. ScreenSound /\ [ScreenNext]_screenVars => ScreenSound'
  BY StepSound
<1>3. ScreenSound => ScreenTypes
  BY SoundTypes
<1> QED BY <1>1, <1>2, <1>3, PTL DEF ScreenMoves

----------------------------------------------------------------------------
(* The history *)

\* What a step may do to the lines that have scrolled off.
KeepsHistory ==
  \/ Resizes \/ Aligns \/ Clears
  \/ LET old == History(term.nb) new == History(term'.nb) IN
     \E d \in 0..Len(old) :
       /\ d > 0 => (Text \/ Line \/ Feeds) /\ ~term.alt /\ Len(term'.nb.lines) = term'.nb.max
       /\ Len(new) >= Len(old) - d
       /\ SubSeq(new, 1, Len(old) - d) = SubSeq(old, d + 1, Len(old))

\* A sound terminal keeps it.
LEMMA StepRemembers ==
  ASSUME ScreenSound, ScreenNext
  PROVE  KeepsHistory
<1> DEFINE no == FALSE
<1>1. no \in BOOLEAN /\ Good(term, no) /\ Joint(term) /\ (no => term.wrap /\ Joinable(term))
  BY StepsRun DEF ScreenSound, Fit
<1> HIDE DEF no
<1>2. CASE Moves \/ Stepwise \/ Erases \/ Edits \/ Sets \/ Scrolls
  <2>1. Remembers(term, term', FALSE)
    BY <1>1, <1>2, MovesFit, StepwiseFits, ErasesFit, EditsFit, SetsFit, ScrollsFit
  <2> QED BY <2>1 DEF KeepsHistory, Remembers
<1>3. CASE Text \/ Line \/ Feeds
  <2>1. Remembers(term, term', TRUE)
    BY <1>1, <1>3, TextFitsToo, LineFits, FeedsFit
  <2> QED BY <1>3, <2>1 DEF KeepsHistory, Remembers
<1>4. CASE Resizes \/ Aligns \/ Clears
  BY <1>4 DEF KeepsHistory
<1> QED BY <1>2, <1>3, <1>4 DEF ScreenNext

\* What has scrolled off the screen stays in the history, line by line and in its
\* order; only text and line feeds of the normal buffer give up its oldest lines,
\* and only when the list is full (bufferservice.go, buffer.go).
THEOREM HistoryIsKept == ScreenMoves => HistoryKept
<1>1. ScreenInit => ScreenSound
  BY InitSound
<1>2. ScreenSound /\ [ScreenNext]_screenVars => ScreenSound'
  BY StepSound
<1>3. ScreenSound /\ [ScreenNext]_screenVars => [KeepsHistory]_screenVars
  BY StepRemembers
<1>4. ScreenMoves => [][KeepsHistory]_screenVars
  BY <1>1, <1>2, <1>3, PTL DEF ScreenMoves
<1> QED BY <1>4 DEF HistoryKept, KeepsHistory

----------------------------------------------------------------------------
(* Wide characters *)

\* What a step may do to wide characters.
KeepsWide ==
  term'.panic = "none" /\ AllWide(term) /\ Joinable(term) /\ term.wrap =>
    Resizes \/ (AllWide(term') /\ Joinable(term'))

\* A sound terminal keeps them whole.
LEMMA StepWide ==
  ASSUME ScreenSound, ScreenNext
  PROVE  KeepsWide
<1> SUFFICES ASSUME term'.panic = "none", AllWide(term), Joinable(term), term.wrap, ~Resizes
             PROVE  AllWide(term') /\ Joinable(term')
  BY DEF KeepsWide
<1> DEFINE yes == TRUE
<1>1. Good(term, FALSE) /\ Joint(term)
  BY StepsRun DEF ScreenSound, Fit
<1>2. yes \in BOOLEAN /\ Good(term, yes) /\ Joint(term) /\ (yes => term.wrap /\ Joinable(term))
  BY <1>1, WholeIs
<1> HIDE DEF yes
<1>3. Fit(term', yes)
  BY <1>2, StepFits
<1>4. Good(term', TRUE) /\ Joinable(term')
  BY <1>3 DEF Fit, yes
<1> DEFINE u == term'
<1>5. Good(u, TRUE)
  BY <1>4
<1> HIDE DEF u
<1>6. AllWide(u)
  BY <1>5, WideIs
<1> QED BY <1>4, <1>6 DEF u

\* While text wraps a wide character keeps its second cell through every print,
\* erase, insert and delete, and what a combining character would join is there
\* (cellrow's writes in bufferline.go, inputhandler.go).
THEOREM WideIsKept == ScreenMoves => WideKept
<1>1. ScreenInit => ScreenSound
  BY InitSound
<1>2. ScreenSound /\ [ScreenNext]_screenVars => ScreenSound'
  BY StepSound
<1>3. ScreenSound /\ [ScreenNext]_screenVars => [KeepsWide]_screenVars
  BY StepWide
<1>4. ScreenMoves => [][KeepsWide]_screenVars
  BY <1>1, <1>2, <1>3, PTL DEF ScreenMoves
<1> QED BY <1>4 DEF WideKept, KeepsWide

----------------------------------------------------------------------------
(* The emulator *)

\* Each part starts as it does by itself, or still and the screen stopped.
LEMMA PartsInit ==
  ASSUME Init
  PROVE  ScreenSound /\ ListInit
<1>1. ListInit
  BY DEF Init, ListStill
<1>2. CASE ScreenInit
  BY <1>1, <1>2, InitSound
<1>3. CASE ScreenStill
  <2>1. Fresh(2, 2) \in [DOMAIN Fresh(2, 2) -> {Fresh(2, 2)[k] : k \in DOMAIN Fresh(2, 2)}] /\ "panic" \in DOMAIN Fresh(2, 2)
    BY DEF Fresh
  <2>2. term.panic = "resize"
    BY <1>3, <2>1 DEF ScreenStill
  <2> QED BY <1>1, <2>2 DEF ScreenSound, Fit
<1> QED BY <1>2, <1>3 DEF Init

\* A step is one of each part, or leaves it alone.
LEMMA PartsStep ==
  ASSUME [Next]_terminalVars
  PROVE  [ScreenNext]_screenVars /\ [ListNext]_listVars
BY DEF Next, terminalVars

\* What is proved of the screen and of the ring holds in the emulator, whichever of
\* its parts a behaviour is about.
THEOREM TerminalHolds == Spec => []ScreenTypes /\ HistoryKept /\ WideKept /\ RefinesList
<1>1. Init => ScreenSound /\ ListInit
  BY PartsInit
<1>2. [Next]_terminalVars => [ScreenNext]_screenVars /\ [ListNext]_listVars
  BY PartsStep
<1>3. ScreenSound /\ [ScreenNext]_screenVars => ScreenSound' /\ [KeepsHistory]_screenVars /\ [KeepsWide]_screenVars
  BY StepSound, StepRemembers, StepWide
<1>4. ScreenSound => ScreenTypes
  BY SoundTypes
<1>5. Spec => []ScreenTypes /\ [][KeepsHistory]_screenVars /\ [][KeepsWide]_screenVars /\ ListMoves
  BY <1>1, <1>2, <1>3, <1>4, PTL DEF Spec, ListMoves
<1>6. [][KeepsHistory]_screenVars => HistoryKept
  BY DEF HistoryKept, KeepsHistory
<1>7. [][KeepsWide]_screenVars => WideKept
  BY DEF WideKept, KeepsWide
<1> QED BY <1>5, <1>6, <1>7, RingIsList
=============================================================================
