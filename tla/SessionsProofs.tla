--------------------------- MODULE SessionsProofs ---------------------------
(***************************************************************************)
(* No process is lost, no subscriber misses output and the pool is full    *)
(* again when everything has ended, for any number of session objects, of  *)
(* ids the app makes up and of handlers under way.                         *)
(***************************************************************************)
EXTENDS Sessions, TLAPS, FiniteSetTheorems, SequenceTheorems, WellFoundedInduction

\* An object that was not made yet is as Init left it.
Unmade ==
  \A s \in Objects : s > made =>
    /\ id[s] = None /\ shell[s] = "none" /\ has[s] = Lost /\ seq[s] = 0
    /\ loop[s] = Reading /\ waiter[s] = Waiting /\ ~closed[s]

\* One that was made has a key and a process.
Made == \A s \in Objects : s <= made => id[s] \in Ids /\ shell[s] # "none"

\* What the table names has the id it is found under, and waitExit has not
\* returned for it: an id that means another object is never named.
Registered ==
  \A i \in Ids : sessions[i] # None =>
    /\ id[sessions[i]] = i /\ waiter[sessions[i]].pc = "wait"
    /\ sessions[i] <= made

\* The chunk readLoop carries is the last of its history.
Holds == \A s \in Objects : loop[s].pc # "read" => loop[s].chunk = seq[s]

\* A shell whose end is handled is dead.
Over == \A s \in Objects : waiter[s].pc # "wait" => shell[s] = "dead"

\* A refill that goes on has a session to make.
Deficits == \A s \in Objects : waiter[s].pc = "create" => waiter[s].deficit > 0

\* The handler under way has an id, and closes only what was made.
ReaderNames ==
  /\ reader.pc # "idle" => reader.id \in Ids
  /\ reader.seq # None => reader.seq <= made

Shape == TypeOK /\ Unmade /\ Made /\ Registered /\ Holds /\ Over /\ Deficits /\ ReaderNames

----------------------------------------------------------------------------
(* The order list.                                                         *)

\* A set of numbers has a least one.
LEMMA LeastExists ==
  ASSUME NEW S \in SUBSET Nat, S # {}
  PROVE  Min(S) \in S
<1> DEFINE R == OpToRel(<, Nat)
<1>1. IsWellFoundedOn(R, Nat)
  BY NatLessThanWellFounded
<1>2. \A x, y \in Nat : y < x => <<y, x>> \in R
  BY DEF OpToRel
<1> HIDE DEF R
<1>3. PICK x \in S : \A y \in S : ~ (<<y, x>> \in R)
  BY <1>1, WFMin
<1>4. ASSUME NEW y \in S PROVE x <= y
  <2>1. x \in Nat /\ y \in Nat /\ ~ (<<y, x>> \in R)
    BY <1>3
  <2>2. ~ (y < x)
    BY <1>2, <2>1
  <2> QED BY <2>1, <2>2
<1> QED BY <1>4 DEF Min

\* removeOrder leaves a list of ids.
LEMMA RemovedIsList ==
  ASSUME NEW S, NEW s \in Seq(S), NEW e
  PROVE  RemoveFirst(s, e) \in Seq(S)
<1>1. CASE \E i \in 1 .. Len(s) : s[i] = e
  <2> DEFINE I == {i \in 1 .. Len(s) : s[i] = e}
             k == Min(I)
  <2>1. I # {} /\ I \in SUBSET Nat
    BY <1>1
  <2>2. k \in 1 .. Len(s)
    <3> HIDE DEF I
    <3>1. k \in I
      BY <2>1, LeastExists
    <3> QED BY <3>1 DEF I
  <2>3. RemoveFirst(s, e) = RemoveAt(s, k)
    BY <1>1, <2>1 DEF RemoveFirst, SelectInSeq
  <2> HIDE DEF k
  <2>4. SubSeq(s, 1, k - 1) \in Seq(S) /\ SubSeq(s, k + 1, Len(s)) \in Seq(S)
    <3>1. Len(s) \in Nat /\ \A j \in 1 .. Len(s) : s[j] \in S
      BY LenProperties, ElementOfSeq
    <3>2. \A j \in 1 .. k - 1 : s[j] \in S
      BY <2>2, <3>1
    <3>3. \A j \in k + 1 .. Len(s) : s[j] \in S
      BY <2>2, <3>1
    <3> QED BY <2>2, <3>1, <3>2, <3>3, SubSeqProperties
  <2> QED BY <2>3, <2>4, ConcatProperties DEF RemoveAt
<1>2. CASE ~ \E i \in 1 .. Len(s) : s[i] = e
  BY <1>2 DEF RemoveFirst
<1> QED BY <1>1, <1>2

\* The sessions can be counted.
LEMMA ListIsFinite ==
  ASSUME NEW o \in Seq(Ids), NEW t, NEW L, L = {k \in DOMAIN o : t[o[k]] # None}
  PROVE  IsFiniteSet(L) /\ Cardinality(L) \in Nat
<1>1. DOMAIN o = 1 .. Len(o) /\ Len(o) \in Nat
  BY LenProperties
<1>2. IsFiniteSet(1 .. Len(o)) /\ L \in SUBSET (1 .. Len(o))
  BY <1>1, FS_Interval
<1> QED BY <1>2, FS_Subset, FS_CardinalityType

\* What is listed can be counted.
LEMMA ListedIsFinite ==
  ASSUME TypeOK
  PROVE  IsFiniteSet(Listed) /\ Cardinality(Listed) \in Nat
<1> DEFINE L == Listed
<1>1. L = {j \in DOMAIN order : sessions[order[j]] # None} /\ order \in Seq(Ids)
  BY DEF TypeOK, Listed
<1> HIDE DEF L
<1>2. IsFiniteSet(L) /\ Cardinality(L) \in Nat
  BY <1>1, ListIsFinite
<1> QED BY <1>2 DEF L

\* A session that is made is one more, even under an id that is in use.
LEMMA CreateLists ==
  ASSUME TypeOK, TypeOK', NEW s, NEW i \in Ids, Create(s, i)
  PROVE  Cardinality(Listed') >= Cardinality(Listed) + 1
<1> DEFINE k == Len(order) + 1
<1>1. s \in Objects /\ s # None /\ order \in Seq(Ids) /\ Len(order) \in Nat
  BY LenProperties DEF Create, TypeOK, Objects, None
<1>2. order' \in Seq(Ids) /\ Len(order') = k /\ order'[k] = i
      /\ \A j \in 1 .. Len(order) : order'[j] = order[j]
  BY <1>1, AppendProperties DEF Create
<1>3. DOMAIN order = 1 .. Len(order) /\ DOMAIN order' = 1 .. k
  BY <1>1, <1>2, LenProperties
<1>4. \A j \in Ids : sessions[j] # None => sessions'[j] # None
  BY <1>1 DEF Create, TypeOK
<1>5. sessions'[i] # None
  BY <1>1 DEF Create, TypeOK
<1>6. Listed \subseteq Listed'
  <2> SUFFICES ASSUME NEW j \in Listed PROVE j \in Listed'
    OBVIOUS
  <2>1. j \in 1 .. Len(order) /\ sessions[order[j]] # None /\ order[j] \in Ids
    BY <1>1, <1>3, ElementOfSeq DEF Listed
  <2>2. order'[j] = order[j] /\ sessions'[order'[j]] # None /\ j \in DOMAIN order'
    BY <1>1, <1>2, <1>3, <1>4, <2>1
  <2> QED BY <2>2 DEF Listed
<1>7. k \in Listed' /\ k \notin Listed
  BY <1>1, <1>2, <1>3, <1>5 DEF Listed
<1>8. IsFiniteSet(Listed) /\ Cardinality(Listed) \in Nat /\ IsFiniteSet(Listed') /\ Cardinality(Listed') \in Nat
  <2> DEFINE L == Listed
             M == Listed'
  <2>1. L = {j \in DOMAIN order : sessions[order[j]] # None} /\ order \in Seq(Ids)
    BY DEF TypeOK, Listed
  <2>2. M = {j \in DOMAIN order' : sessions'[order'[j]] # None} /\ order' \in Seq(Ids)
    BY DEF TypeOK, Listed
  <2> HIDE DEF L, M
  <2>3. IsFiniteSet(L) /\ Cardinality(L) \in Nat
    BY <2>1, ListIsFinite
  <2>4. IsFiniteSet(M) /\ Cardinality(M) \in Nat
    BY <2>2, ListIsFinite
  <2> QED BY <2>3, <2>4 DEF L, M
<1>9. IsFiniteSet(Listed \cup {k}) /\ Cardinality(Listed \cup {k}) = Cardinality(Listed) + 1
  BY <1>7, <1>8, FS_AddElement
<1>10. Cardinality(Listed \cup {k}) <= Cardinality(Listed')
  <2> DEFINE T == Listed \cup {k}
             L == Listed'
  <2>1. T \in SUBSET L /\ IsFiniteSet(L)
    BY <1>6, <1>7, <1>8
  <2> HIDE DEF T, L
  <2>2. Cardinality(T) <= Cardinality(L)
    BY <2>1, FS_Subset
  <2> QED BY <2>2 DEF T, L
<1> QED BY <1>8, <1>9, <1>10

----------------------------------------------------------------------------
(* Types.                                                                  *)

\* No object has number 0.
LEMMA NoneIsNoObject == None \notin Objects /\ Objects \subseteq Nat /\ Objects \subseteq Ids
BY DEF None, Objects, Ids

\* The objects are numbers, and none of them is None.
LEMMA Basics ==
  ASSUME TypeOK
  PROVE  made \in Nat /\ None \notin Objects /\ Objects \subseteq Nat /\ Objects \subseteq Ids
BY NoneIsNoObject, PoolAssumption DEF TypeOK

\* The variables have their types at the start;
LEMMA InitTypes == Init => TypeOK
<1> SUFFICES ASSUME Init PROVE TypeOK
  OBVIOUS
<1>1. PoolSize \in Nat /\ 1 .. PoolSize \subseteq Objects
  BY PoolAssumption DEF Objects
<1>2. order \in Seq(Ids)
  <2>1. order = [k \in 1 .. PoolSize |-> k] /\ \A k \in 1 .. PoolSize : k \in Ids
    BY <1>1 DEF Init, Ids
  <2> QED BY <1>1, <2>1, IsASeq
<1>3. made \in 0 .. MaxSessions
  BY PoolAssumption DEF Init
<1>4. /\ id \in [Objects -> Ids \cup {None}]
      /\ sessions \in [Ids -> Objects \cup {None}]
  BY <1>1 DEF Init, Ids
<1>5. /\ shell \in [Objects -> {"none", "alive", "dead"}]
      /\ closed \in [Objects -> BOOLEAN]
      /\ seq \in [Objects -> Nat] /\ has \in [Objects -> Nat \cup {Lost}]
      /\ subscribed \in SUBSET Ids /\ verified \in BOOLEAN
      /\ exits \in Nat /\ fails \in Nat
  BY DEF Init
<1>6. loop \in [Objects -> [pc : {"read", "send", "subscribed"}, chunk : Nat]]
  BY DEF Init, Reading
<1>7. waiter \in [Objects -> [pc : {"wait", "close", "list", "create", "end"}, deficit : 0 .. PoolSize]]
  BY <1>1 DEF Init, Waiting
<1>8. reader \in [pc : {"idle", "create", "destroy", "subscribe"}, id : Ids \cup {None}, seq : Objects \cup {0}]
  BY DEF Init, Resting
<1> QED BY <1>2, <1>3, <1>4, <1>5, <1>6, <1>7, <1>8 DEF TypeOK

\* What a session that is made needs.
LEMMA CreateTypes ==
  ASSUME TypeOK, NEW i \in Ids, Create(made + 1, i)
  PROVE  /\ made' \in 0 .. MaxSessions /\ id' \in [Objects -> Ids \cup {None}]
         /\ shell' \in [Objects -> {"none", "alive", "dead"}]
         /\ sessions' \in [Ids -> Objects \cup {None}] /\ order' \in Seq(Ids)
<1>1. made' = made + 1 /\ made + 1 \in Objects
  BY DEF Create
<1>2. order' \in Seq(Ids)
  BY AppendProperties DEF Create, TypeOK
<1>3. made' \in 0 .. MaxSessions
  BY <1>1, PoolAssumption DEF Objects, TypeOK
<1>4. id' \in [Objects -> Ids \cup {None}] /\ shell' \in [Objects -> {"none", "alive", "dead"}]
  BY DEF Create, TypeOK
<1>5. sessions' \in [Ids -> Objects \cup {None}]
  BY <1>1 DEF Create, TypeOK
<1> QED BY <1>2, <1>3, <1>4, <1>5

\* What leaves the tables leaves tables.
LEMMA UnregisterTypes ==
  ASSUME TypeOK, NEW i, Unregister(i)
  PROVE  sessions' \in [Ids -> Objects \cup {None}] /\ order' \in Seq(Ids)
<1>1. order' \in Seq(Ids)
  BY RemovedIsList DEF Unregister, TypeOK
<1>2. sessions' \in [Ids -> Objects \cup {None}]
  BY DEF Unregister, TypeOK
<1> QED BY <1>1, <1>2

\* a shell and its reader keep them,
LEMMA ShellTypes ==
  ASSUME Shape, NEW s \in Objects, Shell(s)
  PROVE  TypeOK'
<1>0. TypeOK
  BY DEF Shape
<1>1. CASE ShellEnds(s)
  <2>1. shell' \in [Objects -> {"none", "alive", "dead"}] /\ exits' \in Nat
    BY <1>0, <1>1 DEF TypeOK, ShellEnds
  <2> QED BY <1>0, <1>1, <2>1, ZenonT(30) DEF TypeOK, ShellEnds, tableVars
<1>2. CASE ReadChunk(s)
  <2>1. seq' \in [Objects -> Nat]
    BY <1>0, <1>2 DEF TypeOK, ReadChunk
  <2>2. loop' \in [Objects -> [pc : {"read", "send", "subscribed"}, chunk : Nat]]
    BY <1>0, <1>2 DEF TypeOK, ReadChunk
  <2> QED BY <1>0, <1>2, <2>1, <2>2, ZenonT(30) DEF TypeOK, ReadChunk, tableVars
<1>3. CASE CheckSubscribed(s)
  <2>0. loop \in [Objects -> [pc : {"read", "send", "subscribed"}, chunk : Nat]]
    BY <1>0 DEF TypeOK
  <2>1. loop' \in [Objects -> [pc : {"read", "send", "subscribed"}, chunk : Nat]]
    <3>1. CASE id[s] \in subscribed
      BY <1>3, <2>0, <3>1 DEF CheckSubscribed
    <3>2. CASE id[s] \notin subscribed
      BY <1>3, <2>0, <3>2 DEF CheckSubscribed, Reading
    <3> QED BY <3>1, <3>2
  <2> QED BY <1>0, <1>3, <2>1, ZenonT(30) DEF TypeOK, CheckSubscribed, tableVars
<1>4. CASE SendOutput(s)
  <2>1. loop' \in [Objects -> [pc : {"read", "send", "subscribed"}, chunk : Nat]]
    BY <1>0, <1>4 DEF TypeOK, SendOutput, Reading
  <2>2. has' \in [Objects -> Nat \cup {Lost}]
    BY <1>0, <1>4 DEF TypeOK, SendOutput, Unattended, Extended
  <2> QED BY <1>0, <1>4, <2>1, <2>2, ZenonT(30) DEF TypeOK, SendOutput, tableVars
<1>5. CASE WaitReturns(s)
  <2>1. sessions' \in [Ids -> Objects \cup {None}] /\ order' \in Seq(Ids)
    BY <1>0, <1>5, UnregisterTypes DEF WaitReturns
  <2>2. waiter' \in [Objects -> [pc : {"wait", "close", "list", "create", "end"}, deficit : 0 .. PoolSize]]
    BY <1>0, <1>5 DEF TypeOK, WaitReturns
  <2> QED BY <1>0, <1>5, <2>1, <2>2, ZenonT(30) DEF TypeOK, WaitReturns
<1>6. CASE OnExit(s)
  <2>1. closed' \in [Objects -> BOOLEAN] /\ subscribed' \in SUBSET Ids
    BY <1>0, <1>6 DEF TypeOK, OnExit
  <2>2. has' \in [Objects -> Nat \cup {Lost}]
    BY <1>0, <1>6 DEF TypeOK, OnExit, Unattended
  <2>3. waiter' \in [Objects -> [pc : {"wait", "close", "list", "create", "end"}, deficit : 0 .. PoolSize]]
    BY <1>0, <1>6 DEF TypeOK, OnExit
  <2> QED BY <1>0, <1>6, <2>1, <2>2, <2>3, ZenonT(30) DEF TypeOK, OnExit, tableVars
<1>7. CASE ReplenishList(s)
  <2> DEFINE listed == Cardinality(Listed)
             after == IF listed < PoolSize THEN [pc |-> "create", deficit |-> PoolSize - listed]
                      ELSE [pc |-> "end", deficit |-> 0]
  <2>1. listed \in Nat /\ PoolSize \in Nat
    BY <1>0, ListedIsFinite, PoolAssumption
  <2>2. waiter' = [waiter EXCEPT ![s] = after]
    BY <1>7 DEF ReplenishList
  <2> HIDE DEF listed
  <2>3. after \in [pc : {"wait", "close", "list", "create", "end"}, deficit : 0 .. PoolSize]
    BY <2>1
  <2> HIDE DEF after
  <2>4. waiter' \in [Objects -> [pc : {"wait", "close", "list", "create", "end"}, deficit : 0 .. PoolSize]]
    BY <1>0, <2>2, <2>3 DEF TypeOK
  <2> QED BY <1>0, <1>7, <2>4, ZenonT(30) DEF TypeOK, ReplenishList, tableVars
<1>8. CASE ReplenishCreate(s)
  <2>1. /\ made' \in 0 .. MaxSessions /\ id' \in [Objects -> Ids \cup {None}]
        /\ shell' \in [Objects -> {"none", "alive", "dead"}]
        /\ sessions' \in [Ids -> Objects \cup {None}] /\ order' \in Seq(Ids) /\ fails' \in Nat
    <3>1. CASE Create(made + 1, made + 1) /\ UNCHANGED fails
      <4>1. made + 1 \in Ids
        BY <3>1 DEF Create, Ids
      <4> QED BY <1>0, <3>1, <4>1, CreateTypes DEF TypeOK
    <3>2. CASE CreateFails
      BY <1>0, <3>2 DEF TypeOK, CreateFails, tableVars
    <3> QED BY <1>8, <3>1, <3>2 DEF ReplenishCreate
  <2>2. waiter' \in [Objects -> [pc : {"wait", "close", "list", "create", "end"}, deficit : 0 .. PoolSize]]
    <3>1. waiter[s].deficit \in 0 .. PoolSize /\ waiter[s].deficit > 0 /\ PoolSize \in Nat
      BY <1>8, PoolAssumption DEF Shape, TypeOK, Deficits, ReplenishCreate
    <3> QED BY <1>0, <1>8, <3>1 DEF TypeOK, ReplenishCreate
  <2> QED BY <1>0, <1>8, <2>1, <2>2, ZenonT(30) DEF TypeOK, ReplenishCreate
<1> QED BY <1>1, <1>2, <1>3, <1>4, <1>5, <1>6, <1>7, <1>8 DEF Shell

\* the handlers of the app keep them,
LEMMA AppTypes ==
  ASSUME Shape, App
  PROVE  TypeOK'
<1>0. TypeOK /\ (reader.pc # "idle" => reader.id \in Ids) /\ 0 \notin Objects
  BY NoneIsNoObject DEF Shape, ReaderNames, None
<1>1. ASSUME NEW i \in AppIds, HandleCreateSession(i) PROVE TypeOK'
  <2>1. i \in Ids
    BY DEF Ids
  <2>2. subscribed' \in SUBSET Ids
    BY <1>0, <1>1, <2>1 DEF TypeOK, HandleCreateSession
  <2>3. reader' \in [pc : {"idle", "create", "destroy", "subscribe"}, id : Ids \cup {None}, seq : Objects \cup {0}]
    BY <1>1, <2>1 DEF HandleCreateSession, Resting
  <2> QED BY <1>0, <1>1, <2>2, <2>3, ZenonT(30) DEF TypeOK, HandleCreateSession, tableVars
<1>2. CASE CreateSession
  <2>1. reader.id \in Ids
    BY <1>0, <1>2 DEF CreateSession
  <2>2. /\ made' \in 0 .. MaxSessions /\ id' \in [Objects -> Ids \cup {None}]
        /\ shell' \in [Objects -> {"none", "alive", "dead"}]
        /\ sessions' \in [Ids -> Objects \cup {None}] /\ order' \in Seq(Ids)
    BY <1>0, <1>2, <2>1, CreateTypes DEF CreateSession
  <2>3. has' \in [Objects -> Nat \cup {Lost}]
    BY <1>0, <1>2 DEF TypeOK, CreateSession
  <2>4. reader' \in [pc : {"idle", "create", "destroy", "subscribe"}, id : Ids \cup {None}, seq : Objects \cup {0}]
    BY <1>2 DEF CreateSession, Resting
  <2> QED BY <1>0, <1>2, <2>2, <2>3, <2>4, ZenonT(30) DEF TypeOK, CreateSession
<1>3. CASE CreateSessionFails
  <2>1. subscribed' \in SUBSET Ids /\ fails' \in Nat
    BY <1>0, <1>3 DEF TypeOK, CreateSessionFails, CreateFails
  <2>2. has' \in [Objects -> Nat \cup {Lost}]
    BY <1>0, <1>3 DEF TypeOK, CreateSessionFails, Unattended
  <2>3. reader' \in [pc : {"idle", "create", "destroy", "subscribe"}, id : Ids \cup {None}, seq : Objects \cup {0}]
    BY <1>3 DEF CreateSessionFails, Resting
  <2> QED BY <1>0, <1>3, <2>1, <2>2, <2>3, ZenonT(30) DEF TypeOK, CreateSessionFails, CreateFails, tableVars
<1>4. ASSUME NEW i \in Ids, Destroy(i) PROVE TypeOK'
  <2>1. sessions' \in [Ids -> Objects \cup {None}] /\ order' \in Seq(Ids)
    BY <1>0, <1>4, UnregisterTypes DEF TypeOK, Destroy, tableVars
  <2>2. reader' \in [pc : {"idle", "create", "destroy", "subscribe"}, id : Ids \cup {None}, seq : Objects \cup {0}]
    BY <1>0, <1>4 DEF TypeOK, Destroy, None
  <2> QED BY <1>0, <1>4, <2>1, <2>2, ZenonT(30) DEF TypeOK, Destroy
<1>5. ASSUME NEW i \in Ids, HandleHistory(i) PROVE TypeOK'
  <2>1. has' \in [Objects -> Nat \cup {Lost}]
    <3>1. has \in [Objects -> Nat \cup {Lost}] /\ seq \in [Objects -> Nat] /\ sessions[i] \in Objects \cup {None}
      BY <1>0 DEF TypeOK
    <3>2. CASE sessions[i] = None
      BY <1>5, <3>1, <3>2 DEF HandleHistory
    <3>3. CASE sessions[i] # None
      BY <1>5, <3>1, <3>3 DEF HandleHistory
    <3> QED BY <3>2, <3>3
  <2>2. reader' \in [pc : {"idle", "create", "destroy", "subscribe"}, id : Ids \cup {None}, seq : Objects \cup {0}]
    BY <1>5 DEF HandleHistory, Resting
  <2> QED BY <1>0, <1>5, <2>1, <2>2, ZenonT(30) DEF TypeOK, HandleHistory, tableVars
<1>6. CASE DestroyCloses
  <2>1. closed' \in [Objects -> BOOLEAN] /\ subscribed' \in SUBSET Ids
    BY <1>0, <1>6 DEF TypeOK, DestroyCloses
  <2>2. has' \in [Objects -> Nat \cup {Lost}]
    BY <1>0, <1>6 DEF TypeOK, DestroyCloses, Unattended
  <2>3. reader' \in [pc : {"idle", "create", "destroy", "subscribe"}, id : Ids \cup {None}, seq : Objects \cup {0}]
    BY <1>6 DEF DestroyCloses, Resting
  <2> QED BY <1>0, <1>6, <2>1, <2>2, <2>3, ZenonT(30) DEF TypeOK, DestroyCloses, tableVars
<1>7. CASE HistorySubscribes
  <2>1. subscribed' \in SUBSET Ids
    BY <1>0, <1>7 DEF TypeOK, HistorySubscribes
  <2>2. reader' \in [pc : {"idle", "create", "destroy", "subscribe"}, id : Ids \cup {None}, seq : Objects \cup {0}]
    BY <1>7 DEF HistorySubscribes, Resting
  <2> QED BY <1>0, <1>7, <2>1, <2>2, ZenonT(30) DEF TypeOK, HistorySubscribes, tableVars
<1>8. AppIds \subseteq Ids
  BY DEF Ids
<1> QED BY <1>1, <1>2, <1>3, <1>4, <1>5, <1>6, <1>7, <1>8 DEF App

\* and so does every step.
LEMMA StepTypes ==
  ASSUME Shape, [Next]_vars
  PROVE  TypeOK'
<1>0. TypeOK
  BY DEF Shape
<1>1. CASE ClearSubscriptions
  <2>1. subscribed' \in SUBSET Ids
    BY <1>1 DEF ClearSubscriptions
  <2>2. has' \in [Objects -> Nat \cup {Lost}]
    BY <1>0, <1>1 DEF TypeOK, ClearSubscriptions, Unattended
  <2> QED BY <1>0, <1>1, <2>1, <2>2, ZenonT(30) DEF TypeOK, ClearSubscriptions, tableVars
<1>2. CASE VerificationChanges
  <2>1. verified' \in BOOLEAN
    BY <1>0, <1>2 DEF TypeOK, VerificationChanges
  <2> QED BY <1>0, <1>2, <2>1, ZenonT(30) DEF TypeOK, VerificationChanges, tableVars
<1>3. CASE UNCHANGED vars
  BY <1>0, <1>3, ZenonT(30) DEF TypeOK, vars, tableVars
<1> QED BY <1>1, <1>2, <1>3, ShellTypes, AppTypes DEF Next

----------------------------------------------------------------------------
(* Who has what.                                                           *)

\* Only an object that was made does something.
LEMMA ShellsAreMade ==
  ASSUME Shape, NEW s \in Objects, Shell(s)
  PROVE  s <= made
<1> SUFFICES ASSUME s > made PROVE FALSE
  BY Basics DEF Shape
<1>1. shell[s] = "none" /\ loop[s].pc = "read" /\ waiter[s].pc = "wait"
  BY DEF Shape, Unmade, Reading, Waiting
<1> QED BY <1>1 DEF Shell, ShellEnds, ReadChunk, CheckSubscribed, SendOutput, WaitReturns,
             OnExit, ReplenishList, ReplenishCreate

\* A session that is made: everything else stays, and what was registered under
\* its id is forgotten.
LEMMA CreateKeepsShape ==
  ASSUME Shape, TypeOK', NEW i \in Ids, Create(made + 1, i),
         UNCHANGED <<seq, loop, closed>>, \A s \in Objects : s # made + 1 => has'[s] = has[s],
         \A s \in Objects : waiter[s].pc # "create" => waiter'[s] = waiter[s],
         \A s \in Objects : waiter[s].pc = "create" => waiter'[s].pc # "wait"
  PROVE  Unmade' /\ Made' /\ Registered' /\ Over'
<1>0. TypeOK /\ made \in Nat /\ Objects \subseteq Nat /\ None \notin Objects
  BY Basics DEF Shape
<1>1. made' = made + 1 /\ made + 1 \in Objects
  BY DEF Create
<1>2. \A s \in Objects : s # made + 1 => id'[s] = id[s] /\ shell'[s] = shell[s]
  BY <1>0, <1>1 DEF Create, TypeOK
<1>3. id'[made + 1] = i /\ shell'[made + 1] = "alive"
  BY <1>0, <1>1 DEF Create, TypeOK
<1>4. waiter[made + 1].pc = "wait"
  BY <1>0, <1>1 DEF Shape, Unmade, Waiting
<1>5. Unmade'
  <2> SUFFICES ASSUME NEW s \in Objects, s > made' PROVE
        /\ id'[s] = None /\ shell'[s] = "none" /\ has'[s] = Lost /\ seq'[s] = 0
        /\ loop'[s] = Reading /\ waiter'[s] = Waiting /\ ~closed'[s]
    BY DEF Unmade
  <2>1. s > made /\ s # made + 1
    BY <1>0, <1>1
  <2>2. waiter[s].pc = "wait"
    BY <2>1 DEF Shape, Unmade, Waiting
  <2> QED BY <1>2, <2>1, <2>2 DEF Shape, Unmade
<1>6. Made'
  <2> SUFFICES ASSUME NEW s \in Objects, s <= made' PROVE id'[s] \in Ids /\ shell'[s] # "none"
    BY DEF Made
  <2>1. CASE s = made + 1
    BY <1>3, <2>1
  <2>2. CASE s # made + 1
    <3>1. s <= made
      BY <1>0, <1>1, <2>2
    <3> QED BY <1>2, <2>2, <3>1 DEF Shape, Made
  <2> QED BY <2>1, <2>2
<1>7. Registered'
  <2> SUFFICES ASSUME NEW j \in Ids, sessions'[j] # None
        PROVE /\ id'[sessions'[j]] = j /\ waiter'[sessions'[j]].pc = "wait"
              /\ sessions'[j] <= made'
    BY DEF Registered
  <2>1. CASE j = i
    <3>1. sessions'[j] = made + 1
      BY <1>0, <2>1 DEF Create, TypeOK
    <3> QED BY <1>0, <1>1, <1>3, <1>4, <2>1, <3>1
  <2>2. CASE j # i
    <3>1. sessions'[j] = sessions[j] /\ sessions[j] \in Objects
      BY <1>0, <2>2 DEF Create, TypeOK
    <3>2. id[sessions[j]] = j /\ waiter[sessions[j]].pc = "wait" /\ sessions[j] <= made
      BY <3>1 DEF Shape, Registered
    <3>3. sessions[j] # made + 1 /\ sessions[j] <= made + 1
      <4> DEFINE n == sessions[j]
      <4>1. n \in Nat /\ n <= made /\ made \in Nat
        BY <1>0, <3>1, <3>2
      <4> HIDE DEF n
      <4>2. n # made + 1 /\ n <= made + 1
        BY <4>1
      <4> QED BY <4>2 DEF n
    <3>4. waiter'[sessions[j]] = waiter[sessions[j]]
      BY <3>1, <3>2
    <3> QED BY <1>1, <1>2, <3>1, <3>2, <3>3, <3>4
  <2> QED BY <2>1, <2>2
<1>8. Over'
  <2> SUFFICES ASSUME NEW s \in Objects, waiter'[s].pc # "wait" PROVE shell'[s] = "dead"
    BY DEF Over
  <2>1. waiter[s].pc # "wait"
    BY DEF Shape
  <2>2. s # made + 1
    BY <1>4, <2>1
  <2> QED BY <1>2, <2>1, <2>2 DEF Shape, Over
<1> QED BY <1>5, <1>6, <1>7, <1>8

\* The refill's new session, the deficit it had and what it has left.
LEMMA RefillKeepsShape ==
  ASSUME Shape, NEW s \in Objects, ReplenishCreate(s)
  PROVE  Shape'
<1>0. TypeOK /\ TypeOK' /\ made \in Nat /\ Objects \subseteq Nat
  BY ShellTypes, Basics DEF Shape, Shell
<1>1. /\ \A t \in Objects : t # s => waiter'[t] = waiter[t]
      /\ waiter[s].pc = "create" /\ waiter'[s].pc \in {"create", "end"}
      /\ waiter'[s].pc = "create" => waiter'[s].deficit = waiter[s].deficit - 1 /\ waiter[s].deficit # 1
  BY <1>0 DEF ReplenishCreate, TypeOK
<1>2. Holds' /\ UNCHANGED <<closed, seq, loop, subscribed, verified, reader, has>>
  BY DEF Shape, Holds, ReplenishCreate
<1>3. Deficits'
  <2> SUFFICES ASSUME NEW t \in Objects, waiter'[t].pc = "create" PROVE waiter'[t].deficit > 0
    BY DEF Deficits
  <2>1. CASE t = s
    <3>1. waiter[s].deficit > 0
      BY <1>1 DEF Shape, Deficits
    <3>2. waiter[s].deficit \in 0 .. PoolSize /\ PoolSize \in Nat
      BY <1>0, PoolAssumption DEF TypeOK
    <3> QED BY <1>1, <2>1, <3>1, <3>2
  <2>2. CASE t # s
    BY <1>1, <2>2 DEF Shape, Deficits
  <2> QED BY <2>1, <2>2
<1>4. Unmade' /\ Made' /\ Registered' /\ Over' /\ made' \in {made, made + 1}
  <2>1. CASE Create(made + 1, made + 1)
    <3>1. made + 1 \in Ids /\ made' = made + 1
      BY <2>1 DEF Create, Ids
    <3>2. \A t \in Objects : waiter[t].pc # "create" => waiter'[t] = waiter[t]
      BY <1>1
    <3>3. \A t \in Objects : waiter[t].pc = "create" => waiter'[t].pc # "wait"
      BY <1>1
    <3> QED BY <1>0, <1>2, <2>1, <3>1, <3>2, <3>3, CreateKeepsShape
  <2>2. CASE CreateFails
    <3>1. UNCHANGED <<made, id, shell, sessions, order>>
      BY <2>2 DEF CreateFails, tableVars
    <3>2. s <= made
      BY ShellsAreMade DEF Shell
    <3>3. Unmade'
      BY <1>0, <1>1, <1>2, <3>1, <3>2 DEF Shape, Unmade
    <3>4. Registered'
      <4> SUFFICES ASSUME NEW j \in Ids, sessions[j] # None PROVE waiter'[sessions[j]].pc = "wait"
        BY <3>1 DEF Shape, Registered
      <4>1. sessions[j] \in Objects /\ waiter[sessions[j]].pc = "wait"
        BY <1>0 DEF Shape, Registered, TypeOK
      <4> QED BY <1>1, <4>1
    <3>5. Made' /\ Over'
      BY <1>1, <3>1 DEF Shape, Made, Over
    <3> QED BY <3>1, <3>3, <3>4, <3>5
  <2> QED BY <2>1, <2>2 DEF ReplenishCreate
<1>5. ReaderNames'
  <2>1. reader' = reader
    BY <1>2
  <2>2. reader.seq # None => reader.seq \in Nat
    BY <1>0, Basics DEF TypeOK, None
  <2> QED BY <1>0, <1>4, <2>1, <2>2 DEF Shape, ReaderNames
<1> QED BY <1>0, <1>2, <1>3, <1>4, <1>5 DEF Shape

\* The other steps of an object touch that object, which was made.
LEMMA ShellKeepsShape ==
  ASSUME Shape, NEW s \in Objects, Shell(s)
  PROVE  Shape'
<1>0. TypeOK /\ TypeOK' /\ s <= made /\ made \in Nat /\ Objects \subseteq Nat /\ None \notin Objects
  BY ShellTypes, ShellsAreMade, Basics DEF Shape
<1>1. CASE ShellEnds(s)
  <2>1. UNCHANGED <<made, id, closed, sessions, order, seq, loop, waiter, reader, has>>
    BY <1>1 DEF ShellEnds, tableVars
  <2>2. shell' = [shell EXCEPT ![s] = "dead"]
    BY <1>1 DEF ShellEnds
  <2>3. Unmade' /\ Made' /\ Over'
    BY <1>0, <2>1, <2>2 DEF Shape, Unmade, Made, Over, TypeOK
  <2>4. Registered' /\ Holds' /\ Deficits' /\ ReaderNames'
    BY <2>1 DEF Shape, Registered, Holds, Deficits, ReaderNames
  <2> QED BY <1>0, <2>3, <2>4 DEF Shape
<1>2. CASE ReadChunk(s) \/ CheckSubscribed(s) \/ SendOutput(s)
  <2>1. UNCHANGED <<made, id, shell, closed, sessions, order, waiter, reader>>
    BY <1>2 DEF ReadChunk, CheckSubscribed, SendOutput, tableVars
  <2>2. \A t \in Objects : t # s => seq'[t] = seq[t] /\ loop'[t] = loop[t] /\ has'[t] = has[t]
    <3>1. CASE ReadChunk(s)
      BY <1>0, <3>1 DEF ReadChunk, TypeOK
    <3>2. CASE CheckSubscribed(s)
      BY <1>0, <3>2 DEF CheckSubscribed, TypeOK
    <3>3. CASE SendOutput(s)
      BY <1>0, <3>3 DEF SendOutput, TypeOK, Unattended
    <3> QED BY <1>2, <3>1, <3>2, <3>3
  <2>3. loop'[s].pc # "read" => loop'[s].chunk = seq'[s]
    <3>1. CASE ReadChunk(s)
      BY <1>0, <3>1 DEF ReadChunk, TypeOK
    <3>2. CASE CheckSubscribed(s)
      BY <1>0, <3>2 DEF CheckSubscribed, TypeOK, Shape, Holds, Reading
    <3>3. CASE SendOutput(s)
      BY <1>0, <3>3 DEF SendOutput, TypeOK, Reading
    <3> QED BY <1>2, <3>1, <3>2, <3>3
  <2>4. Unmade'
    <3> SUFFICES ASSUME NEW t \in Objects, t > made' PROVE
          /\ id'[t] = None /\ shell'[t] = "none" /\ has'[t] = Lost /\ seq'[t] = 0
          /\ loop'[t] = Reading /\ waiter'[t] = Waiting /\ ~closed'[t]
      BY DEF Unmade
    <3>1. t # s /\ t > made
      BY <1>0, <2>1
    <3> QED BY <2>1, <2>2, <3>1 DEF Shape, Unmade
  <2>5. Holds'
    BY <2>2, <2>3 DEF Shape, Holds
  <2>6. Made' /\ Registered' /\ Over' /\ Deficits' /\ ReaderNames'
    BY <2>1 DEF Shape, Made, Registered, Over, Deficits, ReaderNames
  <2> QED BY <1>0, <2>4, <2>5, <2>6 DEF Shape
<1>3. CASE WaitReturns(s)
  <2>1. UNCHANGED <<made, id, shell, closed, seq, loop, reader, has>>
    BY <1>3 DEF WaitReturns
  <2>2. /\ waiter'[s].pc = "close" /\ shell[s] = "dead"
        /\ \A t \in Objects : t # s => waiter'[t] = waiter[t]
    BY <1>0, <1>3 DEF WaitReturns, TypeOK
  <2>3. sessions' = [sessions EXCEPT ![id[s]] = None]
    BY <1>3 DEF WaitReturns, Unregister
  <2>4. Registered'
    <3> SUFFICES ASSUME NEW j \in Ids, sessions'[j] # None
          PROVE id'[sessions'[j]] = j /\ waiter'[sessions'[j]].pc = "wait" /\ sessions'[j] <= made'
      BY DEF Registered
    <3>1. j # id[s] /\ sessions'[j] = sessions[j] /\ sessions[j] \in Objects
      BY <1>0, <2>3 DEF TypeOK
    <3>2. id[sessions[j]] = j /\ waiter[sessions[j]].pc = "wait" /\ sessions[j] <= made
      BY <3>1 DEF Shape, Registered
    <3>3. sessions[j] # s
      BY <3>1, <3>2
    <3> QED BY <2>1, <2>2, <3>1, <3>2, <3>3
  <2>5. Unmade' /\ Made'
    BY <1>0, <2>1, <2>2 DEF Shape, Unmade, Made
  <2>6. Over' /\ Deficits'
    BY <2>1, <2>2 DEF Shape, Over, Deficits
  <2>7. Holds' /\ ReaderNames'
    BY <2>1 DEF Shape, Holds, ReaderNames
  <2> QED BY <1>0, <2>4, <2>5, <2>6, <2>7 DEF Shape
<1>4. CASE OnExit(s) \/ ReplenishList(s)
  <2>1. UNCHANGED <<made, id, shell, sessions, order, seq, loop, reader>>
    BY <1>4 DEF OnExit, ReplenishList, tableVars
  <2>2. /\ waiter[s].pc # "wait" /\ waiter'[s].pc \in {"list", "create", "end"}
        /\ \A t \in Objects : t # s => waiter'[t] = waiter[t] /\ closed'[t] = closed[t]
    BY <1>0, <1>4 DEF OnExit, ReplenishList, TypeOK
  <2>3. waiter'[s].pc = "create" => waiter'[s].deficit > 0
    <3>1. CASE OnExit(s)
      BY <1>0, <3>1 DEF OnExit, TypeOK
    <3>2. CASE ReplenishList(s)
      <4> DEFINE listed == Cardinality(Listed)
      <4>1. listed \in Nat /\ PoolSize \in Nat
        BY <1>0, ListedIsFinite, PoolAssumption
      <4>2. waiter'[s] = IF listed < PoolSize THEN [pc |-> "create", deficit |-> PoolSize - listed]
                         ELSE [pc |-> "end", deficit |-> 0]
        BY <1>0, <3>2 DEF ReplenishList, TypeOK
      <4> HIDE DEF listed
      <4> QED BY <4>1, <4>2
    <3> QED BY <1>4, <3>1, <3>2
  <2>4. \A t \in Objects : has'[t] \in {has[t], Lost}
    BY <1>0, <1>4 DEF OnExit, ReplenishList, Unattended, TypeOK
  <2>5. Unmade'
    <3> SUFFICES ASSUME NEW t \in Objects, t > made' PROVE
          /\ id'[t] = None /\ shell'[t] = "none" /\ has'[t] = Lost /\ seq'[t] = 0
          /\ loop'[t] = Reading /\ waiter'[t] = Waiting /\ ~closed'[t]
      BY DEF Unmade
    <3>1. t # s /\ t > made
      BY <1>0, <2>1
    <3> QED BY <2>1, <2>2, <2>4, <3>1 DEF Shape, Unmade
  <2>6. Registered'
    <3> SUFFICES ASSUME NEW j \in Ids, sessions[j] # None PROVE waiter'[sessions[j]].pc = "wait"
      BY <2>1 DEF Shape, Registered
    <3>1. sessions[j] \in Objects /\ waiter[sessions[j]].pc = "wait"
      BY <1>0 DEF Shape, Registered, TypeOK
    <3> QED BY <2>2, <3>1
  <2>7. Over'
    BY <2>1, <2>2 DEF Shape, Over
  <2>8. Deficits'
    BY <2>2, <2>3 DEF Shape, Deficits
  <2>9. Made' /\ Holds' /\ ReaderNames'
    BY <2>1 DEF Shape, Made, Holds, ReaderNames
  <2> QED BY <1>0, <2>5, <2>6, <2>7, <2>8, <2>9 DEF Shape
<1>5. CASE ReplenishCreate(s)
  BY <1>5, RefillKeepsShape
<1> QED BY <1>1, <1>2, <1>3, <1>4, <1>5 DEF Shell

\* The app's handlers: only create_session makes an object, the others take a
\* subscription, a registration or a terminal away.
LEMMA AppKeepsShape ==
  ASSUME Shape, App
  PROVE  Shape'
<1>0. TypeOK /\ TypeOK' /\ made \in Nat /\ Objects \subseteq Nat /\ None \notin Objects
  BY AppTypes, Basics DEF Shape
<1>1. CASE CreateSession
  <2>1. reader.id \in Ids /\ Create(made + 1, reader.id) /\ made' = made + 1
    BY <1>1 DEF Shape, ReaderNames, CreateSession, Create
  <2>2. UNCHANGED <<seq, loop, waiter, closed>> /\ reader' = Resting
    BY <1>1 DEF CreateSession
  <2>3. \A s \in Objects : s # made + 1 => has'[s] = has[s]
    BY <1>0, <1>1 DEF CreateSession, TypeOK
  <2>4. Unmade' /\ Made' /\ Registered' /\ Over'
    BY <1>0, <2>1, <2>2, <2>3, CreateKeepsShape
  <2>5. Holds' /\ Deficits' /\ ReaderNames'
    BY <2>2 DEF Shape, Holds, Deficits, ReaderNames, Resting, None
  <2> QED BY <1>0, <2>4, <2>5 DEF Shape
<1>2. ASSUME UNCHANGED <<made, id, shell, seq, loop, waiter>>,
             \A s \in Objects : s > made => has'[s] = Lost /\ ~closed'[s],
             \A j \in Ids : sessions'[j] \in {sessions[j], None},
             reader'.pc # "idle" => reader'.id \in Ids,
             reader'.seq # None => reader'.seq <= made
      PROVE  Shape'
  <2>1. Unmade' /\ Made' /\ Registered'
    BY <1>0, <1>2 DEF Shape, Unmade, Made, Registered
  <2>2. Holds' /\ Over' /\ Deficits'
    BY <1>2 DEF Shape, Holds, Over, Deficits
  <2>3. ReaderNames'
    BY <1>2 DEF ReaderNames
  <2> QED BY <1>0, <2>1, <2>2, <2>3 DEF Shape
<1>3. \A s \in Objects : s > made => has[s] = Lost /\ ~closed[s]
  BY DEF Shape, Unmade
<1>4. ASSUME NEW i \in AppIds, HandleCreateSession(i) PROVE Shape'
  <2>1. i \in Ids
    BY DEF Ids
  <2> QED BY <1>2, <1>3, <1>4, <2>1 DEF HandleCreateSession, Resting, None, tableVars
<1>5. CASE CreateSessionFails
  <2>1. UNCHANGED <<made, id, shell, seq, loop, waiter, sessions, closed>> /\ reader' = Resting
    BY <1>5 DEF CreateSessionFails, CreateFails, tableVars
  <2>2. \A s \in Objects : s > made => has'[s] = Lost
    BY <1>3, <1>5 DEF CreateSessionFails, Unattended
  <2> QED BY <1>2, <1>3, <2>1, <2>2 DEF Resting, None
<1>6. ASSUME NEW i \in Ids, Destroy(i) PROVE Shape'
  <2>1. UNCHANGED <<made, id, shell, seq, loop, waiter, has, closed>>
        /\ reader' = [pc |-> "destroy", id |-> i, seq |-> sessions[i]]
    BY <1>6 DEF Destroy
  <2>2. \A j \in Ids : sessions'[j] \in {sessions[j], None}
    <3>1. CASE sessions[i] = None
      BY <1>6, <3>1 DEF Destroy, tableVars
    <3>2. CASE sessions[i] # None
      BY <1>0, <1>6, <3>2 DEF Destroy, Unregister, TypeOK
    <3> QED BY <3>1, <3>2
  <2>3. sessions[i] # None => sessions[i] <= made
    BY DEF Shape, Registered
  <2>4. \A s \in Objects : s > made => has'[s] = Lost /\ ~closed'[s]
    BY <1>3, <2>1
  <2>5. reader'.id = i /\ reader'.seq = sessions[i]
    BY <2>1
  <2> QED BY <1>2, <2>1, <2>2, <2>3, <2>4, <2>5
<1>7. ASSUME NEW i \in Ids, HandleHistory(i) PROVE Shape'
  <2>1. UNCHANGED <<made, id, shell, seq, loop, waiter, sessions, closed>>
        /\ reader' = [Resting EXCEPT !.pc = "subscribe", !.id = i]
    BY <1>7 DEF HandleHistory, tableVars
  <2>2. \A s \in Objects : s > made => has'[s] = Lost
    <3>1. CASE sessions[i] = None
      BY <1>3, <1>7, <3>1 DEF HandleHistory
    <3>2. CASE sessions[i] # None
      <4>1. sessions[i] <= made
        BY <3>2 DEF Shape, Registered
      <4>2. \A s \in Objects : s > made => s # sessions[i]
        BY <1>0, <3>2, <4>1 DEF TypeOK
      <4> QED BY <1>0, <1>3, <1>7, <3>2, <4>2 DEF HandleHistory, TypeOK
    <3> QED BY <3>1, <3>2
  <2>3. reader'.id = i /\ reader'.seq = None
    BY <2>1 DEF Resting, None
  <2> QED BY <1>2, <1>3, <2>1, <2>2, <2>3
<1>8. CASE DestroyCloses
  <2>1. UNCHANGED <<made, id, shell, seq, loop, waiter, sessions>> /\ reader' = Resting
    BY <1>8 DEF DestroyCloses, tableVars
  <2>2. \A s \in Objects : s > made => has'[s] = Lost
    BY <1>3, <1>8 DEF DestroyCloses, Unattended
  <2>3. \A s \in Objects : s > made => ~closed'[s]
    <3> SUFFICES ASSUME NEW s \in Objects, s > made PROVE ~closed'[s]
      OBVIOUS
    <3>1. s # reader.seq
      BY <1>0 DEF Shape, ReaderNames
    <3> QED BY <1>3, <1>8, <3>1 DEF DestroyCloses
  <2> QED BY <1>2, <2>1, <2>2, <2>3 DEF Resting, None
<1>9. CASE HistorySubscribes
  BY <1>2, <1>3, <1>9 DEF HistorySubscribes, Resting, None, tableVars
<1>10. AppIds \subseteq Ids
  BY DEF Ids
<1> QED BY <1>1, <1>4, <1>5, <1>6, <1>7, <1>8, <1>9, <1>10 DEF App

\* Every step keeps the shape;
LEMMA StepShape ==
  ASSUME Shape, [Next]_vars
  PROVE  Shape'
<1>0. TypeOK'
  BY StepTypes
<1>1. CASE ClearSubscriptions \/ VerificationChanges \/ UNCHANGED vars
  <2>1. UNCHANGED <<made, id, shell, closed, sessions, seq, loop, waiter, reader>>
    BY <1>1 DEF ClearSubscriptions, VerificationChanges, vars, tableVars
  <2>2. \A s \in Objects : has'[s] \in {has[s], Lost}
    BY <1>1 DEF ClearSubscriptions, VerificationChanges, vars, Unattended
  <2> QED BY <1>0, <2>1, <2>2 DEF Shape, Unmade, Made, Registered, Holds, Over, Deficits, ReaderNames
<1> QED BY <1>1, ShellKeepsShape, AppKeepsShape DEF Next

\* it holds when there is no session.
LEMMA InitShape == Init => Shape
<1> SUFFICES ASSUME Init PROVE Shape
  OBVIOUS
<1>1. TypeOK /\ None \notin Objects /\ PoolSize \in Nat
  BY InitTypes, Basics, PoolAssumption
<1>2. made = PoolSize /\ Objects \subseteq Nat /\ Objects \subseteq Ids
  BY <1>1, Basics DEF Init
<1>3. Unmade /\ Made
  BY <1>1, <1>2 DEF Init, Unmade, Made
<1>4. Registered
  <2> SUFFICES ASSUME NEW i \in Ids, sessions[i] # None
        PROVE id[sessions[i]] = i /\ waiter[sessions[i]].pc = "wait" /\ sessions[i] <= made
    BY DEF Registered
  <2>1. sessions[i] = i /\ i \in 1 .. PoolSize /\ i \in Objects
    BY <1>1 DEF Init, TypeOK
  <2> QED BY <1>1, <1>2, <2>1 DEF Init, Waiting
<1>5. Holds /\ Over /\ Deficits /\ ReaderNames
  BY DEF Init, Holds, Over, Deficits, ReaderNames, Reading, Waiting, Resting, None
<1> QED BY <1>1, <1>3, <1>4, <1>5 DEF Shape

\* Every variable holds a value of its type.
THEOREM SessionsTyped == Spec => []TypeOK
<1>1. Shape => TypeOK
  BY DEF Shape
<1> QED BY <1>1, InitShape, StepShape, PTL DEF Spec

----------------------------------------------------------------------------
(* What an app misses.                                                     *)

\* An app that has an object's output without a gap is subscribed to it.  This
\* is the half AttendedMissesNothing does not say: without it readLoop might
\* find no subscription and drop a chunk the app counts on.
Attended ==
  \A s \in Objects : has[s] # Lost => id[s] \in subscribed /\ has[s] >= Done(s)

\* The steps that leave seq, loop and id alone and only take away from has do
\* no harm, if those who lose a subscription count as having a gap.
LEMMA TakingAway ==
  ASSUME Attended, UNCHANGED <<id, seq, loop>>,
         \A s \in Objects : has'[s] \in {has[s], Lost},
         \A s \in Objects : id[s] \in subscribed /\ id[s] \notin subscribed' => has'[s] = Lost
  PROVE  Attended'
BY DEF Attended, Done

\* The output of an object, chunk by chunk.
LEMMA OutputAttended ==
  ASSUME Shape, Attended, NEW s \in Objects, ReadChunk(s) \/ CheckSubscribed(s) \/ SendOutput(s)
  PROVE  Attended'
<1>0. TypeOK
  BY DEF Shape
<1>1. \A t \in Objects : t # s => seq'[t] = seq[t] /\ loop'[t] = loop[t] /\ has'[t] = has[t]
  <2>1. CASE ReadChunk(s)
    BY <1>0, <2>1 DEF ReadChunk, TypeOK
  <2>2. CASE CheckSubscribed(s)
    BY <1>0, <2>2 DEF CheckSubscribed, TypeOK
  <2>3. CASE SendOutput(s)
    BY <1>0, <2>3 DEF SendOutput, TypeOK, Unattended
  <2> QED BY <2>1, <2>2, <2>3
<1>2. UNCHANGED <<id, subscribed>>
  BY DEF ReadChunk, CheckSubscribed, SendOutput
<1>3. has'[s] # Lost => id[s] \in subscribed /\ has'[s] >= Done(s)'
  <2> SUFFICES ASSUME has'[s] # Lost PROVE id[s] \in subscribed /\ has'[s] >= Done(s)'
    OBVIOUS
  <2>0. seq[s] \in Nat /\ has[s] \in Nat \cup {Lost} /\ Lost \in Int
    BY <1>0 DEF TypeOK, Lost
  <2>1. CASE ReadChunk(s)
    <3>1. has'[s] = has[s] /\ loop[s].pc = "read" /\ loop'[s].pc = "send" /\ seq'[s] = seq[s] + 1
      BY <1>0, <2>1 DEF ReadChunk, TypeOK
    <3>2. id[s] \in subscribed /\ has[s] >= seq[s]
      BY <3>1 DEF Attended, Done
    <3> QED BY <2>0, <3>1, <3>2 DEF Done
  <2>2. CASE CheckSubscribed(s)
    <3>1. has'[s] = has[s] /\ loop[s].pc = "send" /\ seq'[s] = seq[s]
      BY <2>2 DEF CheckSubscribed
    <3>2. id[s] \in subscribed /\ has[s] >= seq[s] - 1
      BY <3>1 DEF Attended, Done
    <3>3. loop'[s].pc = "subscribed"
      BY <1>0, <2>2, <3>2 DEF CheckSubscribed, TypeOK
    <3> QED BY <3>1, <3>2, <3>3 DEF Done
  <2>3. CASE SendOutput(s)
    <3>1. verified
      BY <1>0, <2>3 DEF SendOutput, Unattended
    <3>2. loop[s].pc = "subscribed" /\ loop'[s].pc = "read" /\ seq'[s] = seq[s]
          /\ has'[s] = Extended(has[s], loop[s].chunk)
      BY <1>0, <2>3, <3>1 DEF SendOutput, TypeOK, Reading
    <3>3. loop[s].chunk = seq[s]
      BY <3>2 DEF Shape, Holds
    <3>4. has[s] # Lost
      BY <3>2 DEF Extended
    <3>5. id[s] \in subscribed /\ has[s] >= seq[s] - 1
      BY <3>2, <3>4 DEF Attended, Done
    <3>6. has'[s] >= seq[s]
      BY <2>0, <3>2, <3>3, <3>4, <3>5 DEF Extended
    <3> QED BY <3>2, <3>5, <3>6 DEF Done
  <2> QED BY <2>1, <2>2, <2>3
<1> QED BY <1>1, <1>2, <1>3 DEF Attended, Done

\* Every step keeps the promise to the attended.
LEMMA StepAttended ==
  ASSUME Shape, Attended, [Next]_vars
  PROVE  Attended'
<1>0. TypeOK /\ made \in Nat /\ Objects \subseteq Nat /\ None \notin Objects
  BY Basics DEF Shape
<1>1. ASSUME NEW s \in Objects, ReplenishCreate(s) PROVE Attended'
  <2>1. UNCHANGED <<seq, loop, has, subscribed>>
    BY <1>1 DEF ReplenishCreate
  <2>2. \A t \in Objects : has[t] # Lost => id'[t] = id[t]
    <3> SUFFICES ASSUME NEW t \in Objects, has[t] # Lost PROVE id'[t] = id[t]
      OBVIOUS
    <3>1. t # made + 1
      BY <1>0 DEF Shape, Unmade
    <3> QED BY <1>0, <1>1, <3>1 DEF ReplenishCreate, Create, CreateFails, TypeOK
  <2> QED BY <2>1, <2>2 DEF Attended, Done
<1>2. CASE CreateSession
  <2>1. UNCHANGED <<seq, loop, subscribed>> /\ made + 1 \in Objects
        /\ id' = [id EXCEPT ![made + 1] = reader.id]
        /\ has' = [has EXCEPT ![made + 1] = IF reader.id \in subscribed THEN 0 ELSE Lost]
    BY <1>2 DEF CreateSession, Create
  <2>2. seq[made + 1] = 0 /\ loop[made + 1].pc = "read"
    BY <1>0, <2>1 DEF Shape, Unmade, Reading
  <2> SUFFICES ASSUME NEW t \in Objects, has'[t] # Lost
        PROVE id'[t] \in subscribed' /\ has'[t] >= Done(t)'
    BY DEF Attended
  <2>3. CASE t = made + 1
    BY <1>0, <2>1, <2>2, <2>3 DEF Done, TypeOK
  <2>4. CASE t # made + 1
    BY <1>0, <2>1, <2>4 DEF Done, TypeOK, Attended
  <2> QED BY <2>3, <2>4
<1>3. ASSUME NEW i \in Ids, HandleHistory(i) PROVE Attended'
  <2>1. UNCHANGED <<id, seq, loop, subscribed>>
    BY <1>3 DEF HandleHistory
  <2>2. CASE sessions[i] = None
    BY <1>3, <2>1, <2>2 DEF HandleHistory, Attended, Done
  <2>3. CASE sessions[i] # None
    <3> DEFINE s == sessions[i]
    <3>1. s \in Objects /\ id[s] = i /\ seq[s] \in Nat
      BY <1>0, <2>3 DEF TypeOK, Shape, Registered
    <3>2. has' = [has EXCEPT ![s] = IF i \in subscribed THEN seq[s] ELSE Lost]
      BY <1>3, <2>3 DEF HandleHistory
    <3> SUFFICES ASSUME NEW t \in Objects, has'[t] # Lost
          PROVE id[t] \in subscribed /\ has'[t] >= Done(t)
      BY <2>1 DEF Attended, Done
    <3>3. CASE t = s
      BY <1>0, <3>1, <3>2, <3>3 DEF Done, TypeOK
    <3>4. CASE t # s
      BY <1>0, <3>1, <3>2, <3>4 DEF Attended, TypeOK
    <3> QED BY <3>3, <3>4
  <2> QED BY <2>2, <2>3
<1>4. ASSUME NEW s \in Objects, ShellEnds(s) \/ WaitReturns(s) \/ ReplenishList(s) PROVE Attended'
  BY <1>4, TakingAway DEF ShellEnds, WaitReturns, ReplenishList
<1>5. ASSUME NEW s \in Objects, OnExit(s) PROVE Attended'
  BY <1>5, TakingAway DEF OnExit, Unattended, Named
<1>6. ASSUME NEW i \in AppIds, HandleCreateSession(i) PROVE Attended'
  BY <1>6, TakingAway DEF HandleCreateSession
<1>7. CASE CreateSessionFails \/ DestroyCloses
  <2>1. UNCHANGED <<id, seq, loop>> /\ subscribed' = subscribed \ {reader.id} /\ Unattended(Named(reader.id))
    BY <1>7 DEF CreateSessionFails, CreateFails, DestroyCloses
  <2> QED BY <2>1, TakingAway DEF Unattended, Named
<1>8. ASSUME NEW i \in Ids, Destroy(i) PROVE Attended'
  BY <1>8, TakingAway DEF Destroy
<1>9. CASE HistorySubscribes \/ VerificationChanges \/ UNCHANGED vars
  BY <1>9, TakingAway DEF HistorySubscribes, VerificationChanges, vars
<1>10. CASE ClearSubscriptions
  BY <1>10, TakingAway DEF ClearSubscriptions, Unattended
<1>11. AppIds \subseteq Ids
  BY DEF Ids
<1> QED BY <1>1, <1>2, <1>3, <1>4, <1>5, <1>6, <1>7, <1>8, <1>9, <1>10, <1>11, OutputAttended
    DEF Next, Shell, App

\* An app that created the session itself, or asked for the history while it was
\* subscribed, has every chunk up to the last one readLoop is done with, until
\* its subscription is dropped or output meets an unverified connection.
THEOREM AttendedServed == Spec => []AttendedMissesNothing
<1>1. Init => Attended
  BY DEF Init, Attended
<1>2. Attended => AttendedMissesNothing
  BY DEF Attended, AttendedMissesNothing
<1> QED BY <1>1, <1>2, InitShape, StepShape, StepAttended, PTL DEF Spec

----------------------------------------------------------------------------
(* No process is lost.                                                     *)

\* A new object only takes the id away from one that had it before.
LEMMA CreateLosesNone ==
  ASSUME Shape, NoOrphans, NEW i \in Ids, Create(made + 1, i), closed' = closed,
         (reader'.pc = reader.pc /\ reader'.seq = reader.seq) \/ reader.pc # "destroy"
  PROVE  NoOrphans'
<1>0. TypeOK /\ made \in Nat /\ Objects \subseteq Nat
  BY Basics DEF Shape
<1>1. made + 1 \in Objects /\ id' = [id EXCEPT ![made + 1] = i]
      /\ shell' = [shell EXCEPT ![made + 1] = "alive"]
      /\ sessions' = [sessions EXCEPT ![i] = made + 1]
  BY DEF Create
<1> SUFFICES ASSUME NEW s \in Objects, Sole(s)', shell'[s] = "alive"
      PROVE sessions'[id'[s]] = s \/ closed'[s] \/ (reader'.pc = "destroy" /\ reader'.seq = s)
  BY DEF NoOrphans
<1>2. CASE s = made + 1
  BY <1>0, <1>1, <1>2 DEF TypeOK
<1>3. CASE s # made + 1
  <2>1. id'[s] = id[s] /\ shell[s] = "alive" /\ id'[made + 1] = i
    BY <1>0, <1>1, <1>3 DEF TypeOK
  <2>2. i # id[s]
    BY <1>1, <1>3, <2>1 DEF Sole, Named
  <2>3. \A t \in Objects : id[t] = id[s] => id'[t] = id[s] \/ t = made + 1
    BY <1>0, <1>1 DEF TypeOK
  <2>4. id[s] # None
    BY <2>1 DEF Sole
  <2>5. id[made + 1] = None
    BY <1>0, <1>1 DEF Shape, Unmade
  <2>6. Sole(s)
    BY <2>1, <2>3, <2>4, <2>5 DEF Sole, Named
  <2>7. id[s] \in Ids /\ sessions'[id[s]] = sessions[id[s]]
    BY <1>0, <1>1, <2>2, <2>4 DEF TypeOK
  <2>8. sessions[id[s]] = s \/ closed[s] \/ (reader.pc = "destroy" /\ reader.seq = s)
    BY <2>1, <2>6 DEF NoOrphans
  <2> QED BY <2>1, <2>7, <2>8
<1> QED BY <1>2, <1>3

\* Every step keeps the live sessions in the map, or in the hands of who will put them there.
LEMMA StepLosesNone ==
  ASSUME Shape, NoOrphans, [Next]_vars
  PROVE  NoOrphans'
<1>0. TypeOK /\ None \notin Objects
  BY Basics DEF Shape
<1>1. ASSUME NEW s \in Objects, ReplenishCreate(s) PROVE NoOrphans'
  <2>1. UNCHANGED <<closed, reader>>
    BY <1>1 DEF ReplenishCreate
  <2>2. CASE Create(made + 1, made + 1)
    <3>1. made + 1 \in Ids
      BY <2>2 DEF Create, Ids
    <3> QED BY <2>1, <2>2, <3>1, CreateLosesNone
  <2>3. CASE CreateFails
    BY <2>1, <2>3 DEF CreateFails, tableVars, NoOrphans, Sole, Named
  <2> QED BY <1>1, <2>2, <2>3 DEF ReplenishCreate
<1>2. CASE CreateSession
  <2>1. reader.id \in Ids /\ Create(made + 1, reader.id) /\ closed' = closed /\ reader.pc # "destroy"
    BY <1>2 DEF CreateSession, Shape, ReaderNames
  <2> QED BY <2>1, CreateLosesNone
<1>3. ASSUME NEW s \in Objects, ShellEnds(s) PROVE NoOrphans'
  <2>1. \A t \in Objects : shell'[t] = "alive" => shell[t] = "alive"
    BY <1>0, <1>3 DEF ShellEnds, TypeOK
  <2> QED BY <1>3, <2>1 DEF ShellEnds, tableVars, NoOrphans, Sole, Named
<1>4. ASSUME NEW s \in Objects, WaitReturns(s) PROVE NoOrphans'
  <2>1. UNCHANGED <<id, shell, closed, reader>> /\ shell[s] = "dead"
        /\ sessions' = [sessions EXCEPT ![id[s]] = None]
    BY <1>4 DEF WaitReturns, Unregister
  <2> SUFFICES ASSUME NEW t \in Objects, Sole(t), shell[t] = "alive"
        PROVE sessions'[id[t]] = t \/ closed[t] \/ (reader.pc = "destroy" /\ reader.seq = t)
    BY <2>1 DEF NoOrphans, Sole, Named
  <2>2. id[t] # id[s] /\ id[t] \in Ids
    BY <1>0, <2>1 DEF Sole, Named, TypeOK
  <2>3. sessions'[id[t]] = sessions[id[t]]
    BY <1>0, <2>1, <2>2 DEF TypeOK
  <2> QED BY <2>3 DEF NoOrphans
<1>5. ASSUME NEW s \in Objects, OnExit(s) PROVE NoOrphans'
  <2>1. \A t \in Objects : closed[t] => closed'[t]
    BY <1>0, <1>5 DEF OnExit, TypeOK
  <2> QED BY <1>5, <2>1 DEF OnExit, tableVars, NoOrphans, Sole, Named
<1>6. ASSUME NEW s \in Objects, ReadChunk(s) \/ CheckSubscribed(s) \/ SendOutput(s) \/ ReplenishList(s)
      PROVE NoOrphans'
  BY <1>6 DEF ReadChunk, CheckSubscribed, SendOutput, ReplenishList, tableVars, NoOrphans, Sole, Named
<1>7. ASSUME NEW i \in Ids, Destroy(i) PROVE NoOrphans'
  <2>1. UNCHANGED <<id, shell, closed>> /\ reader.pc = "idle"
        /\ reader'.pc = "destroy" /\ reader'.seq = sessions[i]
    BY <1>7 DEF Destroy, Accepts
  <2> SUFFICES ASSUME NEW t \in Objects, Sole(t), shell[t] = "alive"
        PROVE sessions'[id[t]] = t \/ closed[t] \/ sessions[i] = t
    BY <2>1 DEF NoOrphans, Sole, Named
  <2>2. sessions[id[t]] = t \/ closed[t]
    BY <2>1 DEF NoOrphans
  <2>3. CASE sessions[i] = None
    BY <1>7, <2>2, <2>3 DEF Destroy, tableVars
  <2>4. CASE sessions[i] # None
    <3>1. sessions' = [sessions EXCEPT ![i] = None] /\ id[t] \in Ids
      BY <1>0, <1>7, <2>4 DEF Destroy, Unregister, Sole, TypeOK
    <3> QED BY <1>0, <2>2, <3>1 DEF TypeOK
  <2> QED BY <2>3, <2>4
<1>8. CASE DestroyCloses
  <2>1. UNCHANGED <<id, shell, sessions>> /\ closed' = [s \in Objects |-> closed[s] \/ s = reader.seq]
    BY <1>8 DEF DestroyCloses, tableVars
  <2> QED BY <2>1 DEF NoOrphans, Sole, Named
<1>9. CASE CreateSessionFails \/ HistorySubscribes
           \/ (\E i \in AppIds : HandleCreateSession(i)) \/ (\E i \in Ids : HandleHistory(i))
  <2>1. UNCHANGED <<id, shell, sessions, closed>> /\ reader.pc # "destroy"
    BY <1>9 DEF CreateSessionFails, CreateFails, HistorySubscribes, HandleCreateSession,
                HandleHistory, Accepts, tableVars
  <2> QED BY <2>1 DEF NoOrphans, Sole, Named
<1>10. CASE ClearSubscriptions \/ VerificationChanges \/ UNCHANGED vars
  BY <1>10 DEF ClearSubscriptions, VerificationChanges, vars, tableVars, NoOrphans, Sole, Named
<1>11. AppIds \subseteq Ids
  BY DEF Ids
<1> QED BY <1>1, <1>2, <1>3, <1>4, <1>5, <1>6, <1>7, <1>8, <1>9, <1>10, <1>11 DEF Next, Shell, App

\* A running shell can be reached under its id unless it is being closed, for an
\* id that was not registered twice.
THEOREM NoneLost == Spec => []NoOrphans
<1>1. Init => NoOrphans
  <2> SUFFICES ASSUME Init, NEW s \in Objects, shell[s] = "alive" PROVE sessions[id[s]] = s
    BY DEF NoOrphans
  <2>1. s \in Ids /\ s \in Nat /\ PoolSize \in Nat
    BY NoneIsNoObject, PoolAssumption
  <2>2. s <= PoolSize /\ id[s] = s
    BY DEF Init
  <2>3. s \in 1 .. PoolSize
    BY <2>1, <2>2 DEF Objects
  <2> QED BY <2>1, <2>2, <2>3 DEF Init
<1> QED BY <1>1, InitShape, StepShape, StepLosesNone, PTL DEF Spec

----------------------------------------------------------------------------
(* The pool.                                                               *)

\* The end of this shell will be counted: waitExit still has replenishPool
\* before it, or is bound to return.
Recounts(s) ==
  \/ waiter[s].pc \in {"close", "list"}
  \/ waiter[s].pc = "wait" /\ (shell[s] = "dead" \/ closed[s])

\* While no start fails the pool is full, or somebody is bound to count it
\* again, or to make enough: every step that takes a session out of the tables
\* is followed by a count of its own.
Refill ==
  fails = 0 =>
    \/ \E s \in Objects : Recounts(s)
    \/ reader.pc = "destroy" /\ reader.seq # None /\ waiter[reader.seq].pc \in {"wait", "close", "list"}
    \/ \E w \in Objects : waiter[w].pc = "create" /\ Cardinality(Listed) + waiter[w].deficit >= PoolSize
    \/ Cardinality(Listed) >= PoolSize

\* A step that leaves the tables, the ends of shells and the handler alone, or
\* takes the handler on to another message than destroy_session.
LEMMA RefillWaits ==
  ASSUME Refill, UNCHANGED <<sessions, order, waiter>>, fails' = fails \/ fails' # 0,
         \A s \in Objects : shell[s] = "dead" => shell'[s] = "dead",
         \A s \in Objects : closed[s] => closed'[s],
         reader' = reader \/ reader.pc # "destroy"
  PROVE  Refill'
<1> SUFFICES ASSUME fails' = 0 PROVE Refill'
  BY DEF Refill
<1>1. fails = 0 /\ UNCHANGED Listed
  BY DEF Listed
<1>2. CASE \E s \in Objects : Recounts(s)
  <2>1. PICK s \in Objects : Recounts(s)
    BY <1>2
  <2>2. Recounts(s)'
    BY <2>1 DEF Recounts
  <2> QED BY <2>2 DEF Refill
<1>3. CASE reader.pc = "destroy" /\ reader.seq # None /\ waiter[reader.seq].pc \in {"wait", "close", "list"}
  BY <1>3 DEF Refill
<1>4. CASE \E w \in Objects : waiter[w].pc = "create" /\ Cardinality(Listed) + waiter[w].deficit >= PoolSize
  BY <1>1, <1>4 DEF Refill
<1>5. CASE Cardinality(Listed) >= PoolSize
  BY <1>1, <1>5 DEF Refill
<1> QED BY <1>1, <1>2, <1>3, <1>4, <1>5 DEF Refill

\* A new object is none that was there.
LEMMA DeadStayDead ==
  ASSUME Shape, NEW i, Create(made + 1, i), NEW s \in Objects, shell[s] = "dead"
  PROVE  shell'[s] = "dead"
<1>1. made + 1 \in Objects /\ made + 1 > made
  BY Basics DEF Shape, Create
<1>2. shell[made + 1] = "none"
  BY <1>1 DEF Shape, Unmade
<1>3. s # made + 1 /\ shell \in [Objects -> {"none", "alive", "dead"}]
  BY <1>2 DEF Shape, TypeOK
<1> QED BY <1>3 DEF Create

\* A session that is made for another reason than a refill.
LEMMA CreateSessionRefills ==
  ASSUME Shape, Shape', Refill, CreateSession
  PROVE  Refill'
<1>0. TypeOK /\ TypeOK' /\ made + 1 \in Objects /\ reader.id \in Ids /\ Create(made + 1, reader.id)
  BY DEF Shape, ReaderNames, CreateSession, Create
<1>1. UNCHANGED <<waiter, closed, fails>> /\ reader.pc = "create"
  BY DEF CreateSession
<1> DEFINE before == Cardinality(Listed)
           after == Cardinality(Listed')
<1>2. before \in Nat /\ after \in Nat /\ after >= before + 1
  <2>1. Cardinality(Listed') \in Nat
    <3> DEFINE L == Listed'
    <3>1. L = {j \in DOMAIN order' : sessions'[order'[j]] # None} /\ order' \in Seq(Ids)
      BY <1>0 DEF TypeOK, Listed
    <3> HIDE DEF L
    <3>2. Cardinality(L) \in Nat
      BY <3>1, ListIsFinite
    <3> QED BY <3>2 DEF L
  <2> QED BY <1>0, <2>1, CreateLists, ListedIsFinite
<1> SUFFICES ASSUME fails' = 0 PROVE Refill'
  BY DEF Refill
<1>3. CASE \E s \in Objects : Recounts(s)
  <2>1. PICK s \in Objects : Recounts(s)
    BY <1>3
  <2>2. shell[s] = "dead" => shell'[s] = "dead"
    BY <1>0, DeadStayDead
  <2>3. Recounts(s)'
    BY <1>1, <2>1, <2>2 DEF Recounts
  <2> QED BY <2>3 DEF Refill
<1>4. CASE \E w \in Objects : waiter[w].pc = "create" /\ before + waiter[w].deficit >= PoolSize
  <2>1. PICK w \in Objects : waiter[w].pc = "create" /\ before + waiter[w].deficit >= PoolSize
    BY <1>4
  <2>2. waiter[w].deficit \in Nat /\ PoolSize \in Nat
    BY <1>0, PoolAssumption DEF TypeOK
  <2> HIDE DEF before, after
  <2>3. after + waiter[w].deficit >= PoolSize
    BY <1>2, <2>1, <2>2
  <2>4. waiter'[w].pc = "create" /\ after + waiter'[w].deficit >= PoolSize
    BY <1>1, <2>1, <2>3
  <2> QED BY <2>4 DEF Refill, after
<1>5. CASE before >= PoolSize
  <2> HIDE DEF before, after
  <2>1. after >= PoolSize
    BY <1>2, <1>5, PoolAssumption
  <2> QED BY <2>1 DEF Refill, after
<1> QED BY <1>1, <1>3, <1>4, <1>5 DEF Refill

\* One that is made by a refill: one more is listed, one less is missing.
LEMMA ReplenishCreateRefills ==
  ASSUME Shape, Shape', Refill, NEW s \in Objects, ReplenishCreate(s)
  PROVE  Refill'
<1>0. TypeOK /\ TypeOK'
  BY DEF Shape
<1>1. UNCHANGED <<closed, reader>> /\ waiter[s].pc = "create"
      /\ \A t \in Objects : t # s => waiter'[t] = waiter[t]
  BY <1>0 DEF ReplenishCreate, TypeOK
<1>2. waiter[s].deficit \in Nat /\ waiter[s].deficit > 0 /\ PoolSize \in Nat
  BY <1>0, <1>1, PoolAssumption DEF Shape, Deficits, TypeOK
<1>3. IF waiter[s].deficit = 1 THEN waiter'[s].pc = "end"
      ELSE waiter'[s].pc = "create" /\ waiter'[s].deficit = waiter[s].deficit - 1
  BY <1>0 DEF ReplenishCreate, TypeOK
<1> SUFFICES ASSUME fails' = 0 PROVE Refill'
  BY DEF Refill
<1>4. Create(made + 1, made + 1) /\ fails = 0
  <2>1. ~ CreateFails
    BY <1>0 DEF CreateFails, TypeOK
  <2> QED BY <2>1 DEF ReplenishCreate
<1>5. made + 1 \in Objects /\ made + 1 \in Ids
  BY <1>4 DEF Create, Ids
<1> DEFINE before == Cardinality(Listed)
           after == Cardinality(Listed')
<1>6. before \in Nat /\ after \in Nat /\ after >= before + 1
  <2>1. Cardinality(Listed') \in Nat
    <3> DEFINE L == Listed'
    <3>1. L = {j \in DOMAIN order' : sessions'[order'[j]] # None} /\ order' \in Seq(Ids)
      BY <1>0 DEF TypeOK, Listed
    <3> HIDE DEF L
    <3>2. Cardinality(L) \in Nat
      BY <3>1, ListIsFinite
    <3> QED BY <3>2 DEF L
  <2> QED BY <1>0, <1>4, <1>5, <2>1, CreateLists, ListedIsFinite
<1>7. CASE \E t \in Objects : Recounts(t)
  <2>1. PICK t \in Objects : Recounts(t)
    BY <1>7
  <2>2. t # s
    BY <1>1, <2>1 DEF Recounts
  <2>3. shell[t] = "dead" => shell'[t] = "dead"
    BY <1>4, DeadStayDead
  <2>4. Recounts(t)'
    BY <1>1, <2>1, <2>2, <2>3 DEF Recounts
  <2> QED BY <2>4 DEF Refill
<1>8. CASE reader.pc = "destroy" /\ reader.seq # None /\ waiter[reader.seq].pc \in {"wait", "close", "list"}
  <2>1. reader.seq \in Objects /\ reader.seq # s
    BY <1>0, <1>1, <1>8 DEF TypeOK, None
  <2> QED BY <1>1, <1>8, <2>1 DEF Refill
<1>9. CASE \E w \in Objects : waiter[w].pc = "create" /\ before + waiter[w].deficit >= PoolSize
  <2>1. PICK w \in Objects : waiter[w].pc = "create" /\ before + waiter[w].deficit >= PoolSize
    BY <1>9
  <2>2. waiter[w].deficit \in Nat
    BY <1>0 DEF TypeOK
  <2> HIDE DEF before, after
  <2>3. CASE w # s
    <3>1. waiter'[w].pc = "create" /\ after + waiter'[w].deficit >= PoolSize
      BY <1>1, <1>2, <1>6, <2>1, <2>2, <2>3
    <3> QED BY <3>1 DEF Refill, after
  <2>4. CASE w = s /\ waiter[s].deficit # 1
    <3>1. waiter'[w].pc = "create" /\ after + waiter'[w].deficit >= PoolSize
      BY <1>2, <1>3, <1>6, <2>1, <2>2, <2>4
    <3> QED BY <3>1 DEF Refill, after
  <2>5. CASE w = s /\ waiter[s].deficit = 1
    <3>1. after >= PoolSize
      BY <1>2, <1>6, <2>1, <2>5
    <3> QED BY <3>1 DEF Refill, after
  <2> QED BY <2>3, <2>4, <2>5
<1>10. CASE before >= PoolSize
  <2> HIDE DEF before, after
  <2>1. after >= PoolSize
    BY <1>2, <1>6, <1>10
  <2> QED BY <2>1 DEF Refill, after
<1> QED BY <1>4, <1>7, <1>8, <1>9, <1>10 DEF Refill

\* Every step keeps the promise of the refill.
LEMMA StepRefills ==
  ASSUME Shape, Shape', Refill, [Next]_vars
  PROVE  Refill'
<1>0. TypeOK /\ TypeOK' /\ None \notin Objects
  BY Basics DEF Shape
<1>1. ASSUME NEW s \in Objects, ReplenishCreate(s) PROVE Refill'
  BY <1>1, ReplenishCreateRefills
<1>2. CASE CreateSession
  BY <1>2, CreateSessionRefills
<1>3. ASSUME NEW s \in Objects, ShellEnds(s) PROVE Refill'
  <2>1. \A t \in Objects : shell[t] = "dead" => shell'[t] = "dead"
    BY <1>0, <1>3 DEF ShellEnds, TypeOK
  <2> QED BY <1>3, <2>1, RefillWaits DEF ShellEnds, tableVars
<1>4. ASSUME NEW s \in Objects, ReadChunk(s) \/ CheckSubscribed(s) \/ SendOutput(s) PROVE Refill'
  BY <1>4, RefillWaits DEF ReadChunk, CheckSubscribed, SendOutput, tableVars
<1>5. ASSUME NEW s \in Objects, WaitReturns(s) \/ OnExit(s) PROVE Refill'
  <2>1. waiter'[s].pc \in {"close", "list"}
    BY <1>0, <1>5 DEF WaitReturns, OnExit, TypeOK
  <2> QED BY <2>1 DEF Refill, Recounts
<1>6. ASSUME NEW s \in Objects, ReplenishList(s) PROVE Refill'
  <2> DEFINE listed == Cardinality(Listed)
  <2>1. listed \in Nat /\ PoolSize \in Nat
    BY <1>0, ListedIsFinite, PoolAssumption
  <2>2. UNCHANGED Listed
    BY <1>6 DEF ReplenishList, tableVars, Listed
  <2>3. waiter'[s] = IF listed < PoolSize THEN [pc |-> "create", deficit |-> PoolSize - listed]
                     ELSE [pc |-> "end", deficit |-> 0]
    BY <1>0, <1>6 DEF ReplenishList, TypeOK
  <2>4. CASE listed < PoolSize
    <3>1. waiter'[s].pc = "create" /\ waiter'[s].deficit = PoolSize - listed
      BY <2>3, <2>4
    <3> HIDE DEF listed
    <3>2. listed + waiter'[s].deficit >= PoolSize
      BY <2>1, <3>1
    <3> QED BY <2>2, <3>1, <3>2 DEF Refill, listed
  <2>5. CASE ~(listed < PoolSize)
    <3> HIDE DEF listed
    <3>1. listed >= PoolSize
      BY <2>1, <2>5
    <3> QED BY <2>2, <3>1 DEF Refill, listed
  <2> QED BY <2>4, <2>5
<1>7. ASSUME NEW i \in Ids, Destroy(i) PROVE Refill'
  <2>1. CASE sessions[i] = None
    <3>1. UNCHANGED <<sessions, order, waiter, shell, closed, fails>> /\ reader.pc # "destroy"
      BY <1>7, <2>1 DEF Destroy, Accepts, tableVars
    <3> QED BY <3>1, RefillWaits
  <2>2. CASE sessions[i] # None
    <3>1. reader'.pc = "destroy" /\ reader'.seq = sessions[i] /\ waiter' = waiter
      BY <1>7 DEF Destroy
    <3>2. waiter[sessions[i]].pc = "wait"
      BY <2>2 DEF Shape, Registered
    <3> QED BY <2>2, <3>1, <3>2 DEF Refill
  <2> QED BY <2>1, <2>2
<1>8. CASE DestroyCloses
  <2>1. UNCHANGED <<sessions, order, waiter, shell, fails>> /\ reader.pc = "destroy"
        /\ closed' = [s \in Objects |-> closed[s] \/ s = reader.seq]
    BY <1>8 DEF DestroyCloses, tableVars
  <2>2. CASE reader.seq # None /\ waiter[reader.seq].pc \in {"wait", "close", "list"}
    <3>1. PICK t \in Objects : t = reader.seq
      BY <1>0, <2>2 DEF TypeOK, None
    <3>2. waiter'[t].pc \in {"wait", "close", "list"} /\ closed'[t]
      BY <2>1, <2>2, <3>1
    <3>3. Recounts(t)'
      BY <3>2 DEF Recounts
    <3> QED BY <3>3 DEF Refill
  <2>3. CASE ~(reader.seq # None /\ waiter[reader.seq].pc \in {"wait", "close", "list"})
    <3> SUFFICES ASSUME fails' = 0 PROVE Refill'
      BY DEF Refill
    <3>1. UNCHANGED Listed /\ fails = 0
      BY <2>1 DEF Listed
    <3>2. \A s \in Objects : Recounts(s) => Recounts(s)'
      BY <2>1 DEF Recounts
    <3> QED BY <2>1, <2>3, <3>1, <3>2 DEF Refill
  <2> QED BY <2>2, <2>3
<1>9. CASE CreateSessionFails
  <2>1. fails' # 0
    BY <1>0, <1>9 DEF CreateSessionFails, CreateFails, TypeOK
  <2> QED BY <2>1 DEF Refill
<1>10. CASE HistorySubscribes \/ (\E i \in AppIds : HandleCreateSession(i)) \/ (\E i \in Ids : HandleHistory(i))
  <2>1. UNCHANGED <<sessions, order, waiter, shell, closed, fails>> /\ reader.pc # "destroy"
    BY <1>10 DEF HistorySubscribes, HandleCreateSession, HandleHistory, Accepts, tableVars
  <2> QED BY <2>1, RefillWaits
<1>11. CASE ClearSubscriptions \/ VerificationChanges \/ UNCHANGED vars
  <2>1. UNCHANGED <<sessions, order, waiter, shell, closed, fails, reader>>
    BY <1>11 DEF ClearSubscriptions, VerificationChanges, vars, tableVars
  <2> QED BY <2>1, RefillWaits
<1>12. AppIds \subseteq Ids
  BY DEF Ids
<1> QED BY <1>1, <1>2, <1>3, <1>4, <1>5, <1>6, <1>7, <1>8, <1>9, <1>10, <1>11, <1>12 DEF Next, Shell, App

\* The pool Init made is full.
LEMMA InitRefill == Init => Refill
<1> SUFFICES ASSUME Init PROVE Cardinality(Listed) >= PoolSize
  BY DEF Refill
<1>1. PoolSize \in Nat /\ 1 .. PoolSize \subseteq Objects /\ None \notin Objects /\ Objects \subseteq Ids
  BY PoolAssumption, NoneIsNoObject DEF Objects
<1>2. Listed = 1 .. PoolSize
  BY <1>1 DEF Init, Listed
<1>3. Cardinality(1 .. PoolSize) = PoolSize
  <2>1. PoolSize \in Int /\ 1 \in Int
    BY <1>1
  <2>2. Cardinality(1 .. PoolSize) = IF 1 > PoolSize THEN 0 ELSE PoolSize - 1 + 1
    BY <2>1, FS_Interval
  <2> QED BY <1>1, <2>2
<1> QED BY <1>1, <1>2, <1>3

\* However exits, destructions and refills interleave, the pool is full again
\* when they are over and no start failed.
THEOREM PoolFull == Spec => []PoolRefilled
<1>1. Shape /\ Refill => PoolRefilled
  <2> SUFFICES ASSUME Shape, Refill, \A s \in 1 .. made : Settled(s), reader.pc # "destroy", fails = 0
        PROVE Cardinality(Listed) >= PoolSize
    BY DEF PoolRefilled
  <2>0. TypeOK /\ made \in Nat /\ Objects \subseteq Nat
    BY Basics DEF Shape
  <2>1. ASSUME NEW s \in Objects PROVE ~Recounts(s) /\ waiter[s].pc # "create"
    <3>1. CASE s <= made
      <4>1. Settled(s)
        BY <2>0, <3>1 DEF Objects
      <4> QED BY <4>1 DEF Settled, Recounts, Shape, Over
    <3>2. CASE s > made
      BY <3>2 DEF Shape, Unmade, Waiting, Recounts
    <3> QED BY <2>0, <3>1, <3>2
  <2> QED BY <2>1 DEF Refill
<1> QED BY <1>1, InitShape, StepShape, InitRefill, StepRefills, PTL DEF Spec

=============================================================================
