------------------------ MODULE ChannelUsersProofs --------------------------
(***************************************************************************)
(* No transfer slips out of the teardowns' reach, no teardown panics and   *)
(* the end of a transfer means all of it; the table of tunnels tells the   *)
(* truth about the sockets; and what is too long for one message is cut    *)
(* without loss: for any number of handlers, entries, transfers, tunnels   *)
(* and teardowns, and any lengths and sizes.                               *)
(***************************************************************************)
EXTENDS ChannelUsers, SequenceTheorems, WellFoundedInduction, TLAPS

-----------------------------------------------------------------------------
(* Transfers.                                                              *)

\* Where a sender is and what it knows; what the list of staged files holds.
Steps == {"none", "open", "poll", "send", "sending", "end", "ending", "told", "leave", "done"}
Tasks == [pc : Steps, path : Paths \cup {None}, inode : Ids \cup {None},
          total : Int, sent : Int, on : Channels]
Entries == [id : Ids, path : Paths]

\* What the steps need of the values.
Shapes ==
  /\ nextID \in 0 .. MaxIds /\ active \subseteq Ids
  /\ staged \in Seq(Entries)
  /\ disk \in [Paths -> Ids \cup {None}] /\ size \in [Ids -> Int]
  /\ handler \in [Procs -> [pc : {"idle", "append", "stat", "close"}, id : Ids \cup {None},
                            path : Paths \cup {None}]]
  /\ task \in [Ids -> Tasks]
  /\ cancel \in [Ids -> BOOLEAN]

\* Only an id that was given out can be a transfer's, and only a transfer is
\* registered, cancelled or about to be.
Issued ==
  /\ \A t \in Ids : task[t].pc # "none" => t <= nextID
  /\ \A t \in active : task[t].pc # "none"
  /\ \A t \in Ids : cancel[t] => task[t].pc # "none"
  /\ \A p \in Procs : handler[p].pc = "close" => handler[p].id \in Ids /\ task[handler[p].id].pc # "none"

\* i is the id of an entry: given out, and never a transfer's.
IsEntry(i) == i \in Ids /\ i <= nextID /\ task[i].pc = "none"

\* The ids in the list, and of what is about to be listed or sent, are entries'.
EntriesApart ==
  /\ \A k \in DOMAIN staged : IsEntry(staged[k].id)
  /\ \A p \in Procs : handler[p].pc = "append" => IsEntry(handler[p].id) /\ handler[p].path \in Paths
  /\ \A p \in Procs : handler[p].pc = "stat" => handler[p].path \in Paths
  /\ \A t \in Ids : task[t].pc = "open" => task[t].path \in Paths

\* As long as the app has cancelled nothing, what is registered is not cancelled.
OnlyAppOverlaps ==
  ~byApp => /\ ~panicked
            /\ \A p \in Procs : handler[p].pc # "close"
            /\ \A t \in active : ~cancel[t]

Reach == Shapes /\ Issued /\ EntriesApart /\ OnlyAppOverlaps /\ Cancellable

USE DEF None, Ids

\* At first there are no ids.
LEMMA InitReach == FileInit => Reach
<1> SUFFICES ASSUME FileInit PROVE Reach
  OBVIOUS
<1>1. MaxIds \in Nat
  BY FileBounds
<1>2. Shapes
  BY <1>1 DEF FileInit, Shapes, NoTask, Tasks, Steps, Resting, Channels, Entries
<1>3. Issued /\ EntriesApart /\ OnlyAppOverlaps /\ Cancellable
  BY <1>1 DEF FileInit, Issued, EntriesApart, OnlyAppOverlaps, Cancellable, Running, NoTask, Resting
<1> QED BY <1>2, <1>3 DEF Reach

\* A transfer announces a whole number of chunks.
LEMMA TotalIsInt == ASSUME NEW n \in Int PROVE TotalChunks(n) \in Int
<1>1. \E m \in {n, 1} : \A k \in {n, 1} : m >= k
  <2>1. CASE n >= 1
    BY <2>1
  <2>2. CASE ~(n >= 1)
    BY <2>2
  <2> QED BY <2>1, <2>2
<1>2. TotalChunks(n) \in {n, 1}
  BY <1>1 DEF TotalChunks, Max
<1> QED BY <1>2

\* What is left of a sequence was in it.
LEMMA RemovedIsOld ==
  ASSUME NEW S, NEW s \in Seq(S), NEW k \in DOMAIN s
  PROVE  /\ RemoveAt(s, k) \in Seq(S)
         /\ \A j \in DOMAIN RemoveAt(s, k) : \E i \in DOMAIN s : RemoveAt(s, k)[j] = s[i]
<1>1. k \in 1 .. Len(s) /\ Len(s) \in Nat /\ DOMAIN s = 1 .. Len(s)
  OBVIOUS
<1> DEFINE a == SubSeq(s, 1, k - 1)
           b == SubSeq(s, k + 1, Len(s))
<1>2. a \in Seq(S) /\ Len(a) = k - 1 /\ \A i \in 1 .. k - 1 : a[i] = s[i]
  BY <1>1
<1>3. b \in Seq(S) /\ Len(b) = Len(s) - k /\ \A i \in 1 .. Len(s) - k : b[i] = s[i + k]
  BY <1>1
<1>4. RemoveAt(s, k) = a \o b
  BY DEF RemoveAt
<1> HIDE DEF a, b
<1>5. \A j \in DOMAIN (a \o b) : \E i \in DOMAIN s : (a \o b)[j] = s[i]
  <2> SUFFICES ASSUME NEW j \in DOMAIN (a \o b) PROVE \E i \in DOMAIN s : (a \o b)[j] = s[i]
    OBVIOUS
  <2>1. j \in 1 .. Len(s) - 1
    BY <1>1, <1>2, <1>3
  <2>2. CASE j <= k - 1
    <3>1. (a \o b)[j] = s[j]
      BY <1>1, <1>2, <1>3, <2>1, <2>2
    <3> QED BY <1>1, <2>1, <3>1
  <2>3. CASE j > k - 1
    <3>1. (a \o b)[j] = b[j - (k - 1)] /\ j - (k - 1) \in 1 .. Len(s) - k
      BY <1>1, <1>2, <1>3, <2>1, <2>3
    <3>2. (a \o b)[j] = s[j - (k - 1) + k] /\ j - (k - 1) + k \in DOMAIN s
      BY <1>1, <1>3, <3>1
    <3> QED BY <3>2
  <2> QED BY <1>1, <2>1, <2>2, <2>3
<1> QED BY <1>2, <1>3, <1>4, <1>5

\* What is in a sequence is of its type.
LEMMA ElementTyped ==
  ASSUME NEW S, NEW s \in Seq(S), NEW k \in DOMAIN s
  PROVE  s[k] \in S
<1>1. DOMAIN s = 1 .. Len(s)
  OBVIOUS
<1> QED BY <1>1

\* Where what is in a longer sequence comes from.
LEMMA AppendedIsOldOrNew ==
  ASSUME NEW S, NEW s \in Seq(S), NEW e \in S
  PROVE  /\ Append(s, e) \in Seq(S)
         /\ \A k \in DOMAIN Append(s, e) : Append(s, e)[k] = e \/ (k \in DOMAIN s /\ Append(s, e)[k] = s[k])
<1>1. DOMAIN s = 1 .. Len(s) /\ DOMAIN Append(s, e) = 1 .. Len(s) + 1 /\ Len(s) \in Nat
  OBVIOUS
<1> QED BY <1>1

\* A sender that goes on, and stays a transfer that is not at its end.
LEMMA SenderGoesOn ==
  ASSUME Reach, NEW t \in Ids, UNCHANGED notTask, task' \in [Ids -> Tasks],
         \A u \in Ids : u # t => task'[u] = task[u],
         Running(t), Running(t)', task'[t].pc # "open"
  PROVE  Reach'
<1>1. \A u \in Ids : (Running(u)' <=> Running(u)) /\ (task'[u].pc = "none" <=> task[u].pc = "none")
  BY DEF Running
<1>2. UNCHANGED <<nextID, staged, active, disk, size, handler, cancel, panicked, byApp>>
  BY DEF notTask, store, ghosts
<1>3. Shapes'
  BY <1>2 DEF Reach, Shapes
<1>4. Issued'
  BY <1>1, <1>2 DEF Reach, Shapes, Issued
<1>5. EntriesApart'
  BY <1>1, <1>2 DEF Reach, EntriesApart, IsEntry
<1>6. OnlyAppOverlaps' /\ Cancellable'
  BY <1>1, <1>2 DEF Reach, OnlyAppOverlaps, Cancellable
<1> QED BY <1>3, <1>4, <1>5, <1>6 DEF Reach

\* One transfer is changed.
LEMMA EditTask ==
  ASSUME task \in [Ids -> Tasks], NEW t \in Ids, NEW e \in Tasks, task' = [task EXCEPT ![t] = e]
  PROVE  task' \in [Ids -> Tasks] /\ task'[t] = e /\ \A u \in Ids : u # t => task'[u] = task[u]
OBVIOUS

\* A transfer whose sender has moved is still one.
LEMMA StillTask ==
  ASSUME NEW r \in Tasks, NEW pc \in Steps
  PROVE  [r EXCEPT !.pc = pc] \in Tasks /\ [r EXCEPT !.pc = pc].pc = pc
BY DEF Tasks

\* The steps of a sender before its clean-up are of that kind.
LEMMA SenderSteps ==
  ASSUME Reach, NEW t \in Ids,
         Open(t) \/ Poll(t) \/ PickChannel(t) \/ GiveUp(t) \/ RelayCloses(t) \/ Sent(t)
  PROVE  Reach'
<1> USE DEF Reach, Shapes
<1>1. UNCHANGED notTask
  BY DEF Open, Poll, PickChannel, GiveUp, RelayCloses, Sent
<1>2. ASSUME NEW pc \in Steps \ {"none", "open", "done"}, Running(t), Move(t, pc) PROVE Reach'
  <2> DEFINE e == [task[t] EXCEPT !.pc = pc]
  <2>1. task' \in [Ids -> Tasks] /\ Running(t)' /\ task'[t].pc # "open" /\ \A u \in Ids : u # t => task'[u] = task[u]
    <3>1. task[t] \in Tasks /\ task \in [Ids -> Tasks]
      OBVIOUS
    <3>2. e \in Tasks /\ e.pc = pc
      BY <3>1, StillTask
    <3>3. task' = [task EXCEPT ![t] = e]
      BY <1>2 DEF Move
    <3> HIDE DEF e
    <3> QED BY <3>1, <3>2, <3>3, EditTask DEF Running
  <2> QED BY <1>1, <1>2, <2>1, SenderGoesOn
<1>3. CASE Open(t)
  <2>1. disk[task[t].path] \in Ids \cup {None} /\ Running(t)
    BY <1>3 DEF Open, EntriesApart, Running
  <2>2. task' \in [Ids -> Tasks] /\ Running(t)' /\ task'[t].pc # "open" /\ \A u \in Ids : u # t => task'[u] = task[u]
    BY <1>3, <2>1 DEF Open, Tasks, Steps, Running
  <2> QED BY <1>1, <2>1, <2>2, SenderGoesOn
<1>4. CASE Poll(t)
  <2>1. Running(t)
    BY <1>4 DEF Poll, Running
  <2>2. PICK pc \in Steps \ {"none", "open", "done"} : Move(t, pc)
    BY <1>4 DEF Poll, Steps
  <2> QED BY <1>2, <2>1, <2>2
<1>5. CASE GiveUp(t) \/ RelayCloses(t)
  BY <1>2, <1>5 DEF GiveUp, RelayCloses, Waits, Steps, Running
<1>6. CASE PickChannel(t)
  <2>1. Running(t)
    BY <1>6 DEF PickChannel, Running
  <2>2. CASE Move(t, "leave")
    BY <1>2, <2>1, <2>2 DEF Steps
  <2>3. ASSUME NEW c \in Channels,
               task' = [task EXCEPT ![t].on = c, ![t].pc = IF @ = "send" THEN "sending" ELSE "ending"]
        PROVE  Reach'
    <3>1. task' \in [Ids -> Tasks] /\ Running(t)' /\ task'[t].pc # "open" /\ \A u \in Ids : u # t => task'[u] = task[u]
      <4> DEFINE pc == IF task[t].pc = "send" THEN "sending" ELSE "ending"
                 e == [task[t] EXCEPT !.on = c, !.pc = pc]
      <4>1. task' = [task EXCEPT ![t] = e]
        BY ONLY <2>3
      <4>2. pc \in {"sending", "ending"} /\ pc \in Steps
        BY DEF Steps
      <4>3. task[t] \in Tasks /\ task \in [Ids -> Tasks]
        OBVIOUS
      <4>4. e \in Tasks /\ e.pc = pc
        <5> HIDE DEF pc
        <5> QED BY ONLY <4>2, <4>3, c \in Channels DEF Tasks
      <4> HIDE DEF e, pc
      <4> QED BY <4>1, <4>2, <4>3, <4>4, EditTask DEF Running
    <3> QED BY <1>1, <2>1, <3>1, SenderGoesOn
  <2> QED BY <1>6, <2>2, <2>3 DEF PickChannel
<1>7. CASE Sent(t)
  <2>1. Running(t)
    BY <1>7 DEF Sent, Waits, Running
  <2>2. task' \in [Ids -> Tasks] /\ Running(t)' /\ task'[t].pc # "open" /\ \A u \in Ids : u # t => task'[u] = task[u]
    <3> DEFINE pc == IF task[t].pc = "ending" THEN "told" ELSE "poll"
               sent == IF task[t].pc = "sending" THEN task[t].sent + 1 ELSE task[t].sent
               e == [task[t] EXCEPT !.pc = pc, !.on = "ts", !.sent = sent]
    <3>1. sent \in Int /\ pc \in {"told", "poll"}
      BY DEF Tasks
    <3>2. task' = [task EXCEPT ![t] = e]
      BY <1>7 DEF Sent
    <3>3. e \in Tasks /\ e.pc = pc
      <4> HIDE DEF pc, sent
      <4>1. task[t] \in Tasks /\ pc \in Steps /\ "ts" \in Channels
        BY <3>1 DEF Steps, Channels
      <4> QED BY <3>1, <4>1 DEF Tasks
    <3> HIDE DEF e, pc, sent
    <3> QED BY <3>1, <3>2, <3>3, EditTask DEF Running
  <2> QED BY <1>1, <2>1, <2>2, SenderGoesOn
<1> QED BY <1>3, <1>4, <1>5, <1>6, <1>7
\* The deferred clean-up.
LEMMA SenderLeaves ==
  ASSUME Reach, NEW t \in Ids, Leave(t)
  PROVE  Reach'
<1> USE DEF Reach
<1>1. UNCHANGED <<nextID, staged, disk, size, handler, cancel, panicked, byApp>>
  BY DEF Leave, store, ghosts
<1>2. /\ active' = active \ {t} /\ task[t].pc \in {"leave", "told"}
      /\ task' = [task EXCEPT ![t] = [NoTask EXCEPT !.pc = "done"]]
  BY DEF Leave
<1>3. task' \in [Ids -> Tasks] /\ task'[t].pc = "done" /\ \A u \in Ids : u # t => task'[u] = task[u]
  BY <1>2 DEF Shapes, Tasks, Steps, NoTask, Channels
<1>4. Shapes'
  BY <1>1, <1>2, <1>3 DEF Shapes
<1>5. Issued'
  BY <1>1, <1>2, <1>3 DEF Shapes, Issued
<1>6. EntriesApart'
  BY <1>1, <1>2, <1>3 DEF EntriesApart, IsEntry
<1>7. OnlyAppOverlaps' /\ Cancellable'
  BY <1>1, <1>2, <1>3 DEF OnlyAppOverlaps, Cancellable, Running
<1> QED BY <1>4, <1>5, <1>6, <1>7

\* A handler that leaves the transfers, the map and the channels alone.
LEMMA HandlerOnly ==
  ASSUME Reach, Shapes', UNCHANGED <<active, task, cancel, byApp>>, ~panicked => ~panicked', nextID <= nextID',
         NEW p \in Procs, NEW h, handler' = [handler EXCEPT ![p] = h], h.pc # "close",
         (\A k \in DOMAIN staged : IsEntry(staged[k].id))',
         h.pc = "append" => h.id \in Ids /\ h.id <= nextID' /\ task[h.id].pc = "none" /\ h.path \in Paths,
         h.pc = "stat" => h.path \in Paths
  PROVE  Reach'
<1> USE DEF Reach
<1>1. \A q \in Procs : handler'[q] = IF q = p THEN h ELSE handler[q]
  BY DEF Shapes
<1>2. nextID \in Nat /\ nextID' \in Nat
  BY FileBounds DEF Shapes
<1>3. Issued'
  BY <1>1, <1>2 DEF Shapes, Issued
<1>4. EntriesApart'
  <2>1. \A i \in Ids : IsEntry(i) => IsEntry(i)'
    BY <1>2 DEF IsEntry
  <2>2. (\A q \in Procs : handler[q].pc = "append" => IsEntry(handler[q].id) /\ handler[q].path \in Paths)'
    BY <1>1, <1>2 DEF EntriesApart, IsEntry
  <2> QED BY <1>1, <2>1, <2>2 DEF EntriesApart
<1>5. OnlyAppOverlaps' /\ Cancellable'
  BY <1>1 DEF OnlyAppOverlaps, Cancellable, Running
<1> QED BY <1>3, <1>4, <1>5

\* An id that was not given out belongs to nobody.
LEMMA FreshId == ASSUME Reach, NEW t \in Ids, t = nextID + 1 PROVE task[t].pc = "none" /\ t \notin active
<1>1. nextID \in Int
  BY FileBounds DEF Reach, Shapes
<1> QED BY <1>1 DEF Reach, Issued

\* A staged copy, whether it takes over an inode or not, takes a fresh id.
LEMMA StageCopyReach ==
  ASSUME Reach, NEW p \in Procs, NEW path \in Paths, NEW n \in Sizes, StageCopy(p, path, n)
  PROVE  Reach'
<1> DEFINE h == [pc |-> "append", id |-> nextID', path |-> path]
<1>1. nextID' = nextID + 1 /\ nextID' \in Ids /\ nextID <= nextID'
  BY FileBounds DEF StageCopy, Reach, Shapes
<1>2. handler' = [handler EXCEPT ![p] = h] /\ UNCHANGED <<staged, active, task, cancel, panicked, byApp>>
  BY DEF StageCopy, Goto
<1>3. Shapes'
  <2> DEFINE inode == IF disk[path] # None THEN disk[path] ELSE nextID'
  <2>1. inode \in Ids
    BY <1>1 DEF Reach, Shapes
  <2>2. n \in Int
    BY FileBounds
  <2>3. disk' = [disk EXCEPT ![path] = inode] /\ size' = [size EXCEPT ![inode] = n]
    BY DEF StageCopy
  <2>4. handler' \in [Procs -> [pc : {"idle", "append", "stat", "close"}, id : Ids \cup {None},
                                path : Paths \cup {None}]]
    BY <1>1, <1>2 DEF Reach, Shapes
  <2> HIDE DEF inode
  <2>5. disk' \in [Paths -> Ids \cup {None}] /\ size' \in [Ids -> Int]
    BY <2>1, <2>2, <2>3 DEF Reach, Shapes
  <2> QED BY <1>1, <1>2, <2>4, <2>5 DEF Reach, Shapes
<1>4. (\A k \in DOMAIN staged : IsEntry(staged[k].id))'
  BY <1>1, <1>2, FileBounds DEF Reach, Shapes, EntriesApart, IsEntry
<1>5. task[nextID'].pc = "none"
  BY <1>1, FreshId
<1>6. h.pc = "append" /\ h.id = nextID' /\ h.path \in Paths
  OBVIOUS
<1>7. UNCHANGED <<active, task, cancel, byApp>> /\ (~panicked => ~panicked')
  BY <1>2
<1> HIDE DEF h
<1>8. h.pc # "close" /\ h.pc # "stat"
  BY <1>6
<1>9. h.pc = "append" => h.id \in Ids /\ h.id <= nextID' /\ task[h.id].pc = "none" /\ h.path \in Paths
  BY <1>1, <1>5, <1>6, FileBounds DEF Reach, Shapes
<1> QED BY <1>1, <1>2, <1>3, <1>4, <1>7, <1>8, <1>9, HandlerOnly

\* What was staged is listed.
LEMMA StageAppendReach ==
  ASSUME Reach, NEW p \in Procs, StageAppend(p)
  PROVE  Reach'
<1> DEFINE e == [id |-> handler[p].id, path |-> handler[p].path]
<1>1. /\ staged' = Append(staged, e) /\ handler' = [handler EXCEPT ![p] = Resting]
      /\ UNCHANGED <<nextID, active, disk, size, task, cancel, panicked, byApp>>
  BY DEF StageAppend, Goto, ghosts
<1>2. IsEntry(handler[p].id) /\ handler[p].path \in Paths
  BY DEF StageAppend, Reach, EntriesApart
<1>3. e \in Entries /\ e.id = handler[p].id
  BY <1>2 DEF Entries, IsEntry
<1> HIDE DEF e
<1>4. staged' \in Seq(Entries) /\ \A k \in DOMAIN staged' : staged'[k] = e \/ (k \in DOMAIN staged /\ staged'[k] = staged[k])
  BY <1>1, <1>3, AppendedIsOldOrNew DEF Reach, Shapes
<1>5. Shapes'
  BY <1>1, <1>4 DEF Reach, Shapes, Resting
<1>6. (\A k \in DOMAIN staged : IsEntry(staged[k].id))'
  BY <1>1, <1>2, <1>3, <1>4 DEF Reach, EntriesApart, IsEntry
<1>7. nextID <= nextID'
  BY <1>1, FileBounds DEF Reach, Shapes
<1>8. Resting.pc = "idle"
  BY DEF Resting
<1> QED BY <1>1, <1>5, <1>6, <1>7, <1>8, HandlerOnly

\* An entry that is deleted was never a transfer: no channel is closed.
LEMMA HandleDeleteReach ==
  ASSUME Reach, ~panicked, NEW p \in Procs, NEW f \in Ids, HandleDelete(p, f)
  PROVE  Reach'
<1>1. PICK k \in DOMAIN staged : /\ staged[k].id = f
                                 /\ disk' = [disk EXCEPT ![staged[k].path] = None]
                                 /\ staged' = RemoveAt(staged, k)
  BY DEF HandleDelete
<1>2. UNCHANGED <<nextID, active, size, handler, task, byApp>> /\ handler[p].pc = "idle"
  BY DEF HandleDelete, ghosts
<1>3. f \notin active
  BY <1>1 DEF Reach, EntriesApart, IsEntry, Issued
<1>4. UNCHANGED cancel /\ ~panicked'
  <2>1. cancel' = [t \in Ids |-> cancel[t] \/ t \in {}] /\ panicked' = FALSE
    BY <1>3 DEF HandleDelete, CloseEach
  <2>2. cancel' = cancel
    BY <2>1 DEF Reach, Shapes
  <2>3. ~panicked'
    BY <2>1
  <2> QED BY <2>2, <2>3
<1>5. /\ staged' \in Seq(Entries)
      /\ \A j \in DOMAIN staged' : \E i \in DOMAIN staged : staged'[j] = staged[i]
  BY <1>1, RemovedIsOld DEF Reach, Shapes
<1>6. Shapes'
  BY <1>1, <1>2, <1>4, <1>5 DEF Reach, Shapes
<1>7. (\A j \in DOMAIN staged : IsEntry(staged[j].id))'
  BY <1>2, <1>5 DEF Reach, EntriesApart, IsEntry
<1>8. handler' = [handler EXCEPT ![p] = handler[p]]
  BY <1>2 DEF Reach, Shapes
<1>9. nextID <= nextID'
  BY <1>2, FileBounds DEF Reach, Shapes
<1> QED BY <1>2, <1>4, <1>6, <1>7, <1>8, <1>9, HandlerOnly

\* A request that found its entry goes on to look at the file.
LEMMA RequestReach ==
  ASSUME Reach, NEW p \in Procs, NEW f \in Ids, Request(p, f)
  PROVE  Reach'
<1>1. PICK k \in DOMAIN staged : handler' = [handler EXCEPT ![p] = [pc |-> "stat", id |-> f, path |-> staged[k].path]]
  BY DEF Request, Goto
<1>2. UNCHANGED <<nextID, staged, active, disk, size, task, cancel, panicked, byApp>>
  BY DEF Request, store, ghosts
<1>3. staged[k].path \in Paths
  <2>1. staged[k] \in Entries
    BY ElementTyped DEF Reach, Shapes
  <2> QED BY <2>1 DEF Entries
<1> DEFINE h == [pc |-> "stat", id |-> f, path |-> staged[k].path]
<1>4. Shapes'
  BY <1>1, <1>2, <1>3 DEF Reach, Shapes
<1>5. (\A j \in DOMAIN staged : IsEntry(staged[j].id))'
  BY <1>2 DEF Reach, EntriesApart, IsEntry
<1>6. h.pc = "stat" /\ h.path \in Paths /\ handler' = [handler EXCEPT ![p] = h]
  BY <1>1, <1>3
<1>7. nextID <= nextID'
  BY <1>2, FileBounds DEF Reach, Shapes
<1> HIDE DEF h
<1> QED BY <1>2, <1>4, <1>5, <1>6, <1>7, HandlerOnly

\* A transfer starts with a fresh id and is registered with its sender.
LEMMA StartSendReach ==
  ASSUME Reach, NEW p \in Procs, StartSend(p)
  PROVE  Reach'
<1> DEFINE path == handler[p].path
           inode == disk[path]
           t == nextID + 1
           e == [NoTask EXCEPT !.pc = "open", !.path = path, !.total = TotalChunks(size[inode])]
<1>1. UNCHANGED <<staged, disk, size, cancel, panicked, byApp>> /\ path \in Paths
  BY DEF StartSend, store, ghosts, Reach, EntriesApart
<1>2. handler' = [handler EXCEPT ![p] = Resting] /\ Resting.pc = "idle"
  BY DEF StartSend, Goto, Resting
<1>3. handler' \in [Procs -> [pc : {"idle", "append", "stat", "close"}, id : Ids \cup {None},
                              path : Paths \cup {None}]]
  BY <1>2 DEF Reach, Shapes, Resting
<1>4. CASE UNCHANGED <<nextID, active, task>>
  <2>1. Shapes'
    BY <1>1, <1>3, <1>4 DEF Reach, Shapes
  <2>2. (\A k \in DOMAIN staged : IsEntry(staged[k].id))'
    BY <1>1, <1>4 DEF Reach, EntriesApart, IsEntry
  <2>3. nextID <= nextID'
    BY <1>4, FileBounds DEF Reach, Shapes
  <2> QED BY <1>1, <1>2, <1>4, <2>1, <2>2, <2>3, HandlerOnly
<1>5. CASE /\ inode # None /\ t \in Ids /\ nextID' = t
           /\ active' = active \cup {t} /\ task' = [task EXCEPT ![t] = e]
  <2>1. e \in Tasks /\ e.pc = "open" /\ e.path = path
    <3>1. TotalChunks(size[inode]) \in Int
      BY <1>1, <1>5, TotalIsInt DEF Reach, Shapes
    <3>2. NoTask \in [pc : Steps, path : {None}, inode : {None}, total : Int, sent : Int, on : Channels]
      BY DEF NoTask, Steps, Channels
    <3> HIDE DEF path, inode
    <3> QED BY <1>1, <3>1, <3>2 DEF Tasks, Steps
  <2>2. task[t].pc = "none" /\ t \notin active /\ t > nextID /\ t \in Ids
    BY <1>5, FreshId, FileBounds DEF Reach, Shapes
  <2> HIDE DEF e, t, inode, path
  <2>3. task' \in [Ids -> Tasks] /\ task'[t] = e /\ \A u \in Ids : u # t => task'[u] = task[u]
    BY <1>5, <2>1, <2>2, EditTask DEF Reach, Shapes
  <2>4. \A q \in Procs : handler'[q].pc # "idle" => handler'[q] = handler[q]
    BY <1>2 DEF Reach, Shapes
  <2>5. nextID' \in 0 .. MaxIds /\ nextID < nextID' /\ nextID \in Int
    BY <1>5, <2>2, FileBounds DEF Reach, Shapes
  <2>6. Shapes'
    BY <1>1, <1>3, <1>5, <2>2, <2>3, <2>5 DEF Reach, Shapes
  <2>7. Issued'
    BY <1>1, <1>5, <2>1, <2>3, <2>4, <2>5 DEF Reach, Shapes, Issued
  <2>8. EntriesApart'
    <3>1. \A i \in Ids : IsEntry(i) => IsEntry(i)'
      BY <1>5, <2>2, <2>3, <2>5 DEF IsEntry
    <3>2. (\A k \in DOMAIN staged : IsEntry(staged[k].id))'
      BY <1>1, <3>1 DEF Reach, EntriesApart, IsEntry
    <3>3. (\A q \in Procs : handler[q].pc = "append" => IsEntry(handler[q].id) /\ handler[q].path \in Paths)'
      BY <2>4, <3>1 DEF Reach, EntriesApart, IsEntry
    <3>4. (\A q \in Procs : handler[q].pc = "stat" => handler[q].path \in Paths)'
      BY <2>4 DEF Reach, EntriesApart
    <3>5. (\A u \in Ids : task[u].pc = "open" => task[u].path \in Paths)'
      BY <1>1, <2>1, <2>3 DEF Reach, EntriesApart
    <3> QED BY <3>2, <3>3, <3>4, <3>5 DEF EntriesApart
  <2>9. OnlyAppOverlaps'
    BY <1>1, <1>5, <2>2, <2>4 DEF Reach, Issued, OnlyAppOverlaps
  <2>10. Cancellable'
    BY <1>1, <1>5, <2>3 DEF Reach, Cancellable, Running
  <2> QED BY <2>6, <2>7, <2>8, <2>9, <2>10 DEF Reach
<1> QED BY <1>4, <1>5 DEF StartSend

\* The app's cancel finds a transfer.
LEMMA CancelLookupReach ==
  ASSUME Reach, NEW p \in Procs, NEW t \in Ids, CancelLookup(p, t)
  PROVE  Reach'
<1> DEFINE h == [pc |-> "close", id |-> t, path |-> None]
<1>1. /\ UNCHANGED <<nextID, staged, active, disk, size, task, cancel>> /\ byApp'
      /\ handler' = [handler EXCEPT ![p] = h] /\ task[t].pc # "none"
  BY DEF CancelLookup, Goto, store
<1>2. h.pc = "close" /\ h.id = t
  OBVIOUS
<1>3. Shapes'
  BY <1>1 DEF Reach, Shapes
<1> HIDE DEF h
<1>4. \A q \in Procs : handler'[q] = IF q = p THEN h ELSE handler[q]
  BY <1>1 DEF Reach, Shapes
<1>5. Issued'
  BY <1>1, <1>2, <1>4 DEF Reach, Issued
<1>6. EntriesApart'
  BY <1>1, <1>2, <1>4 DEF Reach, EntriesApart, IsEntry
<1>7. OnlyAppOverlaps' /\ Cancellable'
  BY <1>1 DEF Reach, OnlyAppOverlaps, Cancellable, Running
<1> QED BY <1>3, <1>5, <1>6, <1>7 DEF Reach

\* It closes the channel: only after the app asked for it.
LEMMA CancelCloseReach ==
  ASSUME Reach, NEW p \in Procs, CancelClose(p)
  PROVE  Reach'
<1> DEFINE t == handler[p].id
<1>1. /\ UNCHANGED <<nextID, staged, active, disk, size, task, byApp>>
      /\ handler' = [handler EXCEPT ![p] = Resting] /\ handler[p].pc = "close"
      /\ cancel' = [u \in Ids |-> cancel[u] \/ u \in {t}]
  BY DEF CancelClose, Goto, CloseEach, store, ghosts
<1>2. byApp /\ t \in Ids /\ task[t].pc # "none"
  BY <1>1 DEF Reach, OnlyAppOverlaps, Issued
<1>3. Resting.pc = "idle"
  BY DEF Resting
<1>4. \A q \in Procs : handler'[q] = IF q = p THEN Resting ELSE handler[q]
  BY <1>1 DEF Reach, Shapes
<1>5. \A u \in Ids : /\ cancel'[u] => cancel[u] \/ u = t
                     /\ cancel[u] => cancel'[u]
  BY <1>1
<1>6. Shapes'
  BY <1>1 DEF Reach, Shapes, Resting
<1>7. Issued'
  BY <1>1, <1>2, <1>3, <1>4, <1>5 DEF Reach, Issued
<1>8. EntriesApart'
  BY <1>1, <1>3, <1>4 DEF Reach, EntriesApart, IsEntry
<1>9. OnlyAppOverlaps' /\ Cancellable'
  BY <1>1, <1>2, <1>5 DEF Reach, OnlyAppOverlaps, Cancellable, Running
<1> QED BY <1>6, <1>7, <1>8, <1>9 DEF Reach

\* CancelAll reaches all that still run, and closes nothing twice by itself.
LEMMA TeardownReach ==
  ASSUME Reach, ~panicked, Teardown
  PROVE  Reach'
<1>1. /\ UNCHANGED <<nextID, staged, disk, size, handler, task, byApp>> /\ active' = {}
      /\ cancel' = [u \in Ids |-> cancel[u] \/ u \in active]
      /\ panicked' = \E u \in active : cancel[u]
  BY DEF Teardown, CancelAll, CloseEach, store, ghosts
<1>2. \A u \in Ids : /\ cancel'[u] => cancel[u] \/ u \in active
                     /\ cancel[u] \/ u \in active => cancel'[u]
  BY <1>1
<1>3. Shapes'
  BY <1>1 DEF Reach, Shapes
<1>4. Issued'
  BY <1>1, <1>2 DEF Reach, Issued
<1>5. EntriesApart'
  BY <1>1 DEF Reach, EntriesApart, IsEntry
<1>6. OnlyAppOverlaps' /\ Cancellable'
  BY <1>1, <1>2 DEF Reach, Shapes, OnlyAppOverlaps, Cancellable, Running
<1> QED BY <1>3, <1>4, <1>5, <1>6 DEF Reach

\* Every step.
LEMMA StepReach == Reach /\ [FileNext]_fileVars => Reach'
<1> SUFFICES ASSUME Reach, [FileNext]_fileVars PROVE Reach'
  OBVIOUS
<1>1. ASSUME ~panicked, NEW p \in Procs, Handler(p) PROVE Reach'
  <2>1. CASE \E path \in Paths, n \in Sizes : StageCopy(p, path, n)
    BY <2>1, StageCopyReach
  <2>2. CASE \E f \in Ids : HandleDelete(p, f) \/ Request(p, f) \/ CancelLookup(p, f)
    <3>1. PICK f \in Ids : HandleDelete(p, f) \/ Request(p, f) \/ CancelLookup(p, f)
      BY <2>2
    <3> QED BY <1>1, <3>1, HandleDeleteReach, RequestReach, CancelLookupReach
  <2>3. CASE StageAppend(p) \/ StartSend(p) \/ CancelClose(p)
    BY <2>3, StageAppendReach, StartSendReach, CancelCloseReach
  <2> QED BY <1>1, <2>1, <2>2, <2>3 DEF Handler
<1>2. ASSUME NEW t \in Ids, Runs(t) \/ RelayCloses(t) \/ Sent(t) PROVE Reach'
  BY <1>2, SenderSteps, SenderLeaves DEF Runs
<1>3. CASE UNCHANGED fileVars
  <2>1. UNCHANGED <<nextID, staged, active, disk, size, handler, task, cancel, panicked, byApp>>
    BY <1>3 DEF fileVars, store, ghosts
  <2> QED BY <2>1 DEF Reach, Shapes, Issued, EntriesApart, IsEntry, OnlyAppOverlaps, Cancellable, Running
<1> QED BY <1>1, <1>2, <1>3, TeardownReach DEF FileNext

\* Whatever handlers, senders and teardowns interleave, a transfer that runs and is
\* not cancelled is in the map, where the next CancelAll finds it.
THEOREM NoneSlipsOut == FileSpec => []Cancellable
<1>1. Reach => Cancellable
  BY DEF Reach
<1> QED BY <1>1, InitReach, StepReach, PTL DEF FileSpec

\* Any number of CancelAll calls, for the same transfers, close no channel twice as
\* long as the app has cancelled none of its own.
THEOREM TeardownsAreSafe == FileSpec => []TeardownsDoNotPanic
<1>1. Reach => TeardownsDoNotPanic
  BY DEF Reach, OnlyAppOverlaps, TeardownsDoNotPanic
<1> QED BY <1>1, InitReach, StepReach, PTL DEF FileSpec

----------------------------------------------------------------------------
(* What a transfer announces is what it sends *)

\* An inode is at one path, and was numbered by an id that was given out.
InodesApart ==
  /\ size \in [Ids -> Nat]
  /\ \A p \in Paths : disk[p] <= nextID
  /\ \A p, q \in Paths : disk[p] # None /\ disk[p] = disk[q] => p = q

\* A transfer that is to open its file announced what is at the path, if there is
\* anything; then it counts up to what it announced; and at its end it has sent all
\* of it, or the one chunk of an empty file was never sent.
Promise(t) ==
  /\ task[t].pc = "open" => /\ task[t].sent = 0
                            /\ disk[task[t].path] # None => task[t].total = TotalChunks(size[disk[task[t].path]])
  /\ task[t].pc \in {"poll", "send", "sending"} =>
       /\ task[t].inode # None /\ task[t].total = TotalChunks(size[task[t].inode])
       /\ task[t].sent \in 0 .. task[t].total
  /\ task[t].pc \in {"send", "sending"} => task[t].sent # task[t].total
  /\ task[t].pc \in {"end", "ending", "told"} =>
       task[t].sent = task[t].total \/ (task[t].sent = 0 /\ task[t].inode # None /\ size[task[t].inode] = 0)

\* So it is with every transfer whose file was not staged anew.
KeepsPromises == InodesApart /\ \A t \in Ids : t \notin changed => Promise(t)

\* What is announced for a file.
LEMMA TotalIs == ASSUME NEW n \in Nat PROVE TotalChunks(n) \in Nat /\ TotalChunks(n) = IF n = 0 THEN 1 ELSE n
<1>1. CASE n = 0
  <2>1. \A x \in {n, 1} : (\A y \in {n, 1} : x >= y) <=> x = 1
    BY <1>1
  <2>2. TotalChunks(n) = 1
    BY <2>1 DEF TotalChunks, Max
  <2> QED BY <1>1, <2>2
<1>2. CASE n # 0
  <2>1. \A x \in {n, 1} : (\A y \in {n, 1} : x >= y) <=> x = n
    BY <1>2
  <2>2. TotalChunks(n) = n
    BY <2>1 DEF TotalChunks, Max
  <2> QED BY <1>2, <2>2
<1> QED BY <1>1, <1>2

\* Ids are numbers.
LEMMA IdsAreNumbers ==
  ASSUME Reach
  PROVE  /\ MaxIds \in Nat /\ nextID \in Nat /\ nextID <= MaxIds /\ Ids \subseteq Nat
         /\ disk \in [Paths -> Ids \cup {None}] /\ \A p \in Paths : disk[p] \in Nat
<1>1. MaxIds \in Nat
  BY FileBounds
<1>2. nextID \in 0 .. MaxIds /\ disk \in [Paths -> Ids \cup {None}]
  BY DEF Reach, Shapes
<1>3. Ids \cup {None} \subseteq Nat
  BY <1>1
<1>4. \A p \in Paths : disk[p] \in Nat
  BY <1>2, <1>3
<1> QED BY <1>1, <1>2, <1>3, <1>4

\* At first no file is staged and no transfer runs.
LEMMA InitPromises == FileInit => KeepsPromises
<1> SUFFICES ASSUME FileInit PROVE KeepsPromises
  OBVIOUS
<1>1. InodesApart
  <2>1. size \in [Ids -> Nat] /\ nextID = 0 /\ \A p \in Paths : disk[p] = 0
    BY DEF FileInit
  <2> QED BY <2>1 DEF InodesApart
<1>2. \A t \in Ids : Promise(t)
  BY DEF FileInit, Promise, NoTask
<1> QED BY <1>1, <1>2 DEF KeepsPromises

\* A sender's step concerns its own transfer.
LEMMA OwnPromise ==
  ASSUME KeepsPromises, UNCHANGED <<nextID, disk, size, changed>>, NEW t \in Ids,
         \A u \in Ids : u # t => task'[u] = task[u],
         t \notin changed /\ Promise(t) => Promise(t)'
  PROVE  KeepsPromises'
<1>1. InodesApart'
  BY DEF KeepsPromises, InodesApart
<1>2. ASSUME NEW u \in Ids, u \notin changed PROVE Promise(u)'
  <2>1. CASE u = t
    BY <1>2, <2>1 DEF KeepsPromises
  <2>2. CASE u # t
    BY <1>2, <2>2 DEF KeepsPromises, Promise
  <2> QED BY <2>1, <2>2
<1> QED BY <1>1, <1>2 DEF KeepsPromises

\* A sender's transfer after a step that moves it.
LEMMA Moved ==
  ASSUME Reach, NEW t \in Ids, NEW pc, Move(t, pc)
  PROVE  /\ task'[t].pc = pc /\ task'[t].sent = task[t].sent /\ task'[t].total = task[t].total
         /\ task'[t].inode = task[t].inode
         /\ \A u \in Ids : u # t => task'[u] = task[u]
<1>1. task \in [Ids -> Tasks]
  BY DEF Reach, Shapes
<1>2. task' = [task EXCEPT ![t].pc = pc]
  BY DEF Move
<1>3. task[t] \in Tasks
  BY <1>1
<1> QED BY <1>1, <1>2, <1>3 DEF Tasks

\* The head of the loop ends only when all is sent, or there is nothing to send.
LEMMA PollPromises ==
  ASSUME Reach, KeepsPromises, NEW t \in Ids, Poll(t)
  PROVE  KeepsPromises'
<1>1. PICK pc \in {"end", "leave", "send"} : /\ Move(t, pc)
                                             /\ pc = "end" => task[t].sent = task[t].total \/ task[t].sent >= size[task[t].inode]
                                             /\ pc = "send" => task[t].sent # task[t].total
  BY DEF Poll
<1>2. UNCHANGED <<nextID, disk, size, changed>> /\ task[t].pc = "poll"
  BY DEF Poll, notTask, store, ghosts
<1>3. ASSUME t \notin changed, Promise(t) PROVE Promise(t)'
  <2>1. task[t].inode \in Ids /\ task[t].total = TotalChunks(size[task[t].inode]) /\ task[t].sent \in 0 .. task[t].total
    BY <1>2, <1>3 DEF Promise, Reach, Shapes, Tasks
  <2> DEFINE n == size[task[t].inode]
             s == task[t].sent
  <2>2. n \in Nat
    BY <2>1 DEF KeepsPromises, InodesApart
  <2>3. task[t].total = IF n = 0 THEN 1 ELSE n
    BY <2>1, <2>2, TotalIs
  <2>4. s \in 0 .. (IF n = 0 THEN 1 ELSE n)
    BY <2>1, <2>3
  <2>5. s >= n => s = task[t].total \/ (s = 0 /\ n = 0)
    <3> HIDE DEF n, s
    <3> QED BY <2>2, <2>3, <2>4
  <2>6. UNCHANGED <<size, disk>>
    BY <1>2
  <2>7. /\ task'[t].pc = pc /\ task'[t].sent = task[t].sent /\ task'[t].total = task[t].total
        /\ task'[t].inode = task[t].inode
    BY <1>1, Moved
  <2>8. CASE pc = "end"
    BY <1>1, <2>1, <2>5, <2>6, <2>7, <2>8 DEF Promise
  <2>9. CASE pc = "send"
    BY <1>1, <2>1, <2>6, <2>7, <2>9 DEF Promise
  <2>10. CASE pc = "leave"
    BY <2>7, <2>10 DEF Promise
  <2> QED BY <1>1, <2>8, <2>9, <2>10
<1> QED BY <1>1, <1>2, <1>3, Moved, OwnPromise

\* The sender opens what is at the path.
LEMMA OpenPromises ==
  ASSUME Reach, KeepsPromises, NEW t \in Ids, Open(t)
  PROVE  KeepsPromises'
<1> DEFINE inode == disk[task[t].path]
<1>1. UNCHANGED <<nextID, disk, size, changed>> /\ task[t].pc = "open"
      /\ task' = [task EXCEPT ![t].inode = inode, ![t].pc = IF inode = None THEN "leave" ELSE "poll"]
  BY DEF Open, notTask, store, ghosts
<1>2. task[t].path \in Paths /\ task \in [Ids -> Tasks] /\ task[t] \in Tasks
  BY <1>1 DEF Reach, Shapes, EntriesApart
<1>3. inode \in Ids \cup {None}
  BY <1>2 DEF Reach, Shapes
<1> HIDE DEF inode
<1>4. /\ task'[t].pc = IF inode = None THEN "leave" ELSE "poll"
      /\ task'[t].inode = inode /\ task'[t].sent = task[t].sent /\ task'[t].total = task[t].total
      /\ \A u \in Ids : u # t => task'[u] = task[u]
  BY <1>1, <1>2 DEF Tasks
<1>5. ASSUME Promise(t) PROVE Promise(t)'
  <2>1. CASE inode = None
    BY <1>4, <2>1 DEF Promise
  <2>2. CASE inode # None
    <3>1. task[t].sent = 0 /\ task[t].total = TotalChunks(size[inode])
      BY <1>1, <1>5, <2>2 DEF Promise, inode
    <3>2. TotalChunks(size[inode]) \in Nat
      BY <1>3, <2>2, TotalIs DEF KeepsPromises, InodesApart
    <3>3. task'[t].sent \in 0 .. task'[t].total
      BY <1>4, <3>1, <3>2
    <3> QED BY <1>1, <1>4, <2>2, <3>1, <3>3 DEF Promise
  <2> QED BY <2>1, <2>2
<1> QED BY <1>1, <1>4, <1>5, OwnPromise

\* A frame that goes out counts if it is a chunk.
LEMMA SentPromises ==
  ASSUME Reach, KeepsPromises, NEW t \in Ids, Sent(t)
  PROVE  KeepsPromises'
<1> DEFINE pc == IF task[t].pc = "ending" THEN "told" ELSE "poll"
           sent == IF task[t].pc = "sending" THEN task[t].sent + 1 ELSE task[t].sent
<1>1. UNCHANGED <<nextID, disk, size, changed>> /\ task[t].pc \in {"sending", "ending"}
      /\ task' = [task EXCEPT ![t] = [task[t] EXCEPT !.pc = pc, !.on = "ts", !.sent = sent]]
  BY DEF Sent, Waits, notTask, store, ghosts
<1>2. task \in [Ids -> Tasks] /\ task[t] \in Tasks
  BY DEF Reach, Shapes
<1>3. /\ task'[t].pc = pc /\ task'[t].sent = sent /\ task'[t].total = task[t].total /\ task'[t].inode = task[t].inode
      /\ \A u \in Ids : u # t => task'[u] = task[u]
  <2> HIDE DEF pc, sent
  <2> QED BY <1>1, <1>2 DEF Tasks
<1>4. ASSUME Promise(t) PROVE Promise(t)'
  <2>1. CASE task[t].pc = "ending"
    BY <1>1, <1>3, <1>4, <2>1 DEF Promise
  <2>2. CASE task[t].pc = "sending"
    <3>1. /\ task[t].inode # None /\ task[t].total = TotalChunks(size[task[t].inode])
          /\ task[t].sent \in 0 .. task[t].total /\ task[t].sent # task[t].total
      BY <1>4, <2>2 DEF Promise
    <3>2. task[t].total \in Int
      BY <1>2 DEF Tasks
    <3>3. task[t].sent + 1 \in 0 .. task[t].total
      BY <3>1, <3>2
    <3> QED BY <1>1, <1>3, <2>2, <3>1, <3>3 DEF Promise
  <2> QED BY <1>1, <2>1, <2>2
<1> QED BY <1>1, <1>3, <1>4, OwnPromise

\* A sender that takes a channel, gives up or cleans up has promised no more.
LEMMA OtherPromises ==
  ASSUME Reach, KeepsPromises, NEW t \in Ids, PickChannel(t) \/ GiveUp(t) \/ RelayCloses(t) \/ Leave(t)
  PROVE  KeepsPromises'
<1>1. UNCHANGED <<nextID, disk, size, changed>>
  BY DEF PickChannel, GiveUp, RelayCloses, Leave, notTask, store, ghosts
<1>2. task \in [Ids -> Tasks] /\ task[t] \in Tasks
  BY DEF Reach, Shapes
<1>3. CASE Move(t, "leave")
  BY <1>1, <1>3, Moved, OwnPromise DEF Promise
<1>4. CASE Leave(t)
  <2>1. task' = [task EXCEPT ![t] = [NoTask EXCEPT !.pc = "done"]]
    BY <1>4 DEF Leave
  <2>2. task'[t].pc = "done" /\ \A u \in Ids : u # t => task'[u] = task[u]
    BY <1>2, <2>1 DEF NoTask
  <2> QED BY <1>1, <2>2, OwnPromise DEF Promise
<1>5. ASSUME NEW c \in Channels, task[t].pc \in {"send", "end"},
             task' = [task EXCEPT ![t].on = c, ![t].pc = IF @ = "send" THEN "sending" ELSE "ending"]
      PROVE  KeepsPromises'
  <2> DEFINE pc == IF task[t].pc = "send" THEN "sending" ELSE "ending"
             e == [task[t] EXCEPT !.on = c, !.pc = pc]
  <2>1. task' = [task EXCEPT ![t] = e]
    BY ONLY <1>5
  <2>2. e.pc = pc /\ e.sent = task[t].sent /\ e.total = task[t].total /\ e.inode = task[t].inode
    <3> HIDE DEF pc
    <3> QED BY <1>2 DEF Tasks
  <2>3. task'[t] = e /\ \A u \in Ids : u # t => task'[u] = task[u]
    <3> HIDE DEF e
    <3> QED BY <1>2, <2>1
  <2> HIDE DEF e
  <2>4. Promise(t) => Promise(t)'
    BY <1>1, <1>5, <2>2, <2>3 DEF Promise
  <2> QED BY <1>1, <2>3, <2>4, OwnPromise
<1> QED BY <1>3, <1>4, <1>5 DEF PickChannel, GiveUp, RelayCloses

\* What a handler or a teardown does that stages nothing and starts nothing: at most
\* a file is deleted.
LEMMA FilesKept ==
  ASSUME Reach, KeepsPromises, UNCHANGED <<nextID, task, size, changed>>,
         \A p \in Paths : disk'[p] \in {disk[p], None}
  PROVE  KeepsPromises'
<1>1. nextID \in Nat /\ \A p \in Paths : disk[p] \in Nat
  BY IdsAreNumbers
<1>2. InodesApart'
  <2>0. InodesApart
    BY DEF KeepsPromises
  <2>1. \A p \in Paths : disk'[p] <= nextID'
    BY <1>1, <2>0 DEF InodesApart
  <2>2. \A p, q \in Paths : disk'[p] # None /\ disk'[p] = disk'[q] => p = q
    BY <2>0 DEF InodesApart
  <2> QED BY <2>0, <2>1, <2>2 DEF InodesApart
<1>3. ASSUME NEW t \in Ids, t \notin changed PROVE Promise(t)'
  <2>1. Promise(t) /\ (task[t].pc = "open" => task[t].path \in Paths)
    BY <1>3 DEF KeepsPromises, Reach, EntriesApart
  <2> QED BY <2>1 DEF Promise
<1> QED BY <1>2, <1>3 DEF KeepsPromises

\* A copy is staged: who reads its inode, or is about to, counts as changed.
LEMMA StagePromises ==
  ASSUME Reach, KeepsPromises, NEW p \in Procs, NEW path \in Paths, NEW n \in Sizes, StageCopy(p, path, n)
  PROVE  KeepsPromises'
<1> DEFINE inode == IF disk[path] # None THEN disk[path] ELSE nextID'
<1>1. nextID' = nextID + 1 /\ nextID' \in Ids /\ nextID \in Nat /\ nextID' \in Nat
  <2>1. nextID' = nextID + 1 /\ nextID < MaxIds
    BY DEF StageCopy
  <2> QED BY <2>1, IdsAreNumbers
<1>2. disk' = [disk EXCEPT ![path] = inode] /\ size' = [size EXCEPT ![inode] = n] /\ UNCHANGED task
  BY DEF StageCopy
<1>3. \A t \in Ids : t \notin changed' =>
        t \notin changed /\ (task[t].pc \notin {"none", "done"} => task[t].inode # inode /\ (task[t].pc = "open" => task[t].path # path))
  BY DEF StageCopy
<1>4. inode \in Ids /\ n \in Nat /\ inode # None /\ (disk[path] # None => inode = disk[path]) /\ (disk[path] = None => inode = nextID + 1)
  <2>1. n \in Nat /\ disk[path] \in Ids \cup {None} /\ None \notin Ids
    BY FileBounds, IdsAreNumbers
  <2> QED BY <1>1, <2>1
<1>5. disk \in [Paths -> Ids \cup {None}] /\ InodesApart /\ \A q \in Paths : disk[q] \in Nat
  BY IdsAreNumbers DEF KeepsPromises
<1> HIDE DEF inode
<1>6. disk'[path] = inode /\ \A q \in Paths : q # path => disk'[q] = disk[q]
  BY <1>2, <1>5
<1>7. size' \in [Ids -> Nat] /\ \A i \in Ids : i # inode => size'[i] = size[i]
  BY <1>2, <1>4 DEF KeepsPromises, InodesApart
<1>8. ASSUME NEW q \in Paths, q # path PROVE disk[q] # inode
  <2>1. disk[q] \in Nat /\ disk[q] <= nextID
    BY <1>5 DEF InodesApart
  <2>2. CASE disk[path] = None
    BY <1>1, <1>4, <2>1, <2>2
  <2>3. CASE disk[path] # None
    BY <1>4, <1>8, <2>3 DEF KeepsPromises, InodesApart
  <2> QED BY <2>2, <2>3
<1>9. InodesApart'
  <2>1. \A q \in Paths : disk'[q] <= nextID'
    <3>1. \A q \in Paths : disk[q] \in Nat /\ disk[q] <= nextID
      BY <1>5 DEF InodesApart
    <3>2. inode <= nextID'
      BY <1>1, <1>4, <3>1
    <3> QED BY <1>1, <1>6, <3>1, <3>2
  <2>2. \A q, r \in Paths : disk'[q] # None /\ disk'[q] = disk'[r] => q = r
    BY <1>6, <1>8 DEF KeepsPromises, InodesApart
  <2> QED BY <1>7, <2>1, <2>2 DEF InodesApart
<1>10. ASSUME NEW t \in Ids, t \notin changed' PROVE Promise(t)'
  <2>1. Promise(t) /\ (task[t].pc \notin {"none", "done"} => task[t].inode # inode /\ (task[t].pc = "open" => task[t].path # path))
    BY <1>3, <1>10 DEF KeepsPromises
  <2>2. CASE task[t].pc = "open"
    <3>1. task[t].path \in Paths /\ disk'[task[t].path] = disk[task[t].path] /\ disk[task[t].path] # inode
      BY <1>6, <1>8, <2>1, <2>2 DEF Reach, EntriesApart
    <3>2. disk[task[t].path] # None => size'[disk[task[t].path]] = size[disk[task[t].path]]
      BY <1>5, <1>7, <3>1
    <3> QED BY <1>2, <2>1, <2>2, <3>1, <3>2 DEF Promise
  <2>3. CASE task[t].pc # "open"
    <3>1. task[t].inode \in Ids \cup {None}
      BY DEF Reach, Shapes, Tasks
    <3>2. task[t].pc \notin {"none", "done"} /\ task[t].inode # None => size'[task[t].inode] = size[task[t].inode]
      BY <1>7, <2>1, <3>1
    <3> QED BY <1>2, <2>1, <2>3, <3>2 DEF Promise
  <2> QED BY <2>2, <2>3
<1> QED BY <1>9, <1>10 DEF KeepsPromises

\* A transfer that starts announces what is at the path.
LEMMA StartPromises ==
  ASSUME Reach, KeepsPromises, NEW p \in Procs, StartSend(p)
  PROVE  KeepsPromises'
<1> DEFINE path == handler[p].path
           inode == disk[path]
           e == [NoTask EXCEPT !.pc = "open", !.path = path, !.total = TotalChunks(size[inode])]
<1>1. UNCHANGED <<disk, size, changed>> /\ nextID \in Nat
  BY IdsAreNumbers DEF StartSend, store, ghosts
<1>2. CASE UNCHANGED <<nextID, active, task>>
  BY <1>1, <1>2, FilesKept
<1>3. ASSUME NEW t \in Ids, t = nextID + 1, inode # None, nextID' = t, task' = [task EXCEPT ![t] = e]
      PROVE  KeepsPromises'
  <2>1. e.pc = "open" /\ e.path = path /\ e.total = TotalChunks(size[inode]) /\ e.sent = 0
    BY DEF NoTask
  <2>2. task'[t] = e /\ \A u \in Ids : u # t => task'[u] = task[u]
    <3> HIDE DEF e
    <3> QED BY <1>3 DEF Reach, Shapes
  <2>3. InodesApart'
    <3>1. \A q \in Paths : disk[q] \in Nat /\ disk[q] <= nextID
      BY IdsAreNumbers DEF KeepsPromises, InodesApart
    <3>2. \A q \in Paths : disk[q] <= nextID'
      BY <1>1, <1>3, <3>1
    <3> QED BY <1>1, <3>2 DEF KeepsPromises, InodesApart
  <2>4. Promise(t)'
    <3>1. task'[t].pc = "open" /\ task'[t].sent = 0 /\ task'[t].path = path /\ task'[t].total = TotalChunks(size[inode])
      BY <2>1, <2>2
    <3>2. task'[t].total = TotalChunks(size'[disk'[task'[t].path]])
      BY <1>1, <3>1
    <3> HIDE DEF path, e, inode
    <3> QED BY <3>1, <3>2 DEF Promise
  <2> HIDE DEF e
  <2>5. ASSUME NEW u \in Ids, u \notin changed PROVE Promise(u)'
    <3>1. CASE u = t
      BY <2>4, <3>1
    <3>2. CASE u # t
      BY <1>1, <2>2, <2>5, <3>2 DEF KeepsPromises, Promise
    <3> QED BY <3>1, <3>2
  <2> QED BY <1>1, <2>3, <2>5 DEF KeepsPromises
<1> QED BY <1>2, <1>3 DEF StartSend

\* Every step.
LEMMA StepPromises ==
  ASSUME Reach, Reach', KeepsPromises, [FileNext]_fileVars
  PROVE  KeepsPromises'
<1>0. nextID \in Nat /\ disk \in [Paths -> Ids \cup {None}]
  BY IdsAreNumbers
<1>1. ASSUME NEW p \in Procs, Handler(p) PROVE KeepsPromises'
  <2>1. CASE \E path \in Paths, n \in Sizes : StageCopy(p, path, n)
    BY <2>1, StagePromises
  <2>2. CASE StartSend(p)
    BY <2>2, StartPromises
  <2>3. ASSUME NEW f \in Ids, HandleDelete(p, f) PROVE KeepsPromises'
    <3>1. UNCHANGED <<nextID, task, size, changed>>
      BY <2>3 DEF HandleDelete, ghosts
    <3>2. PICK k \in DOMAIN staged : disk' = [disk EXCEPT ![staged[k].path] = None]
      BY <2>3 DEF HandleDelete
    <3>3. \A q \in Paths : disk'[q] \in {disk[q], None}
      BY <1>0, <3>2
    <3> QED BY <1>0, <3>1, <3>3, FilesKept
  <2>4. CASE StageAppend(p) \/ CancelClose(p) \/ \E f \in Ids : Request(p, f) \/ CancelLookup(p, f)
    <3>1. UNCHANGED <<nextID, task, size, changed, disk>>
      BY <2>4 DEF StageAppend, CancelClose, Request, CancelLookup, store, ghosts
    <3> QED BY <1>0, <3>1, FilesKept
  <2> QED BY <1>1, <2>1, <2>2, <2>3, <2>4 DEF Handler
<1>2. ASSUME NEW t \in Ids, Runs(t) \/ RelayCloses(t) \/ Sent(t) PROVE KeepsPromises'
  BY <1>2, OpenPromises, PollPromises, SentPromises, OtherPromises DEF Runs
<1>3. CASE Teardown \/ UNCHANGED fileVars
  <2>1. UNCHANGED <<nextID, task, size, changed, disk>>
    BY <1>3 DEF Teardown, fileVars, store, ghosts
  <2> QED BY <1>0, <2>1, FilesKept
<1> QED BY <1>1, <1>2, <1>3 DEF FileNext

\* When the app is told the end of a transfer it has every chunk it was promised,
\* whatever is staged, deleted, requested and cancelled meanwhile, unless the file
\* itself was staged anew (filetransfer.go:336).
THEOREM EndsComplete == FileSpec => []EndMeansAll
<1>1. FileInit => Reach /\ KeepsPromises
  BY InitReach, InitPromises
<1>2. (Reach /\ KeepsPromises) /\ [FileNext]_fileVars => (Reach /\ KeepsPromises)'
  BY StepReach, StepPromises
<1>3. KeepsPromises => EndMeansAll
  BY DEF KeepsPromises, Promise, EndMeansAll
<1> QED BY <1>1, <1>2, <1>3, PTL DEF FileSpec

-----------------------------------------------------------------------------
(* Tunnels.                                                                *)

\* Where a connection and its socket are.
Labels == {"none", "dial", "connected", "read", "send", "remove", "done"}
Socks == {"none", "open", "eof", "closed"}

\* What the steps need of the values.
TunnelShapes ==
  /\ dialled \in 0 .. MaxConns
  /\ conn \in [Conns -> [key : Keys \cup {Nobody}, pc : Labels, sock : Socks]]
  /\ table \in [Keys -> Conns \cup {Nobody}]
  /\ doomed \subseteq Conns /\ writing \in Conns \cup {Nobody}

\* A connection has a key from the moment it was asked for.
Asked == \A c \in Conns : IF c <= dialled THEN conn[c].key \in Keys /\ conn[c].pc # "none" ELSE conn[c] = NoConn

\* The table names a connection only between its registration and the moment
\* somebody takes it out, and then nobody has closed its socket.
Named ==
  \A k \in Keys : table[k] # Nobody =>
    /\ conn[table[k]].key = k /\ conn[table[k]].pc \notin {"none", "dial"}
    /\ table[k] \notin doomed /\ conn[table[k]].sock # "closed"

\* Only what was registered is ever closed.
DoomedWasThere == \A c \in doomed : conn[c].pc \notin {"none", "dial"}

\* What is still read is in the table unless its socket is, or is about to be,
\* closed, or its key was used again.
ReadIsNamed ==
  \A c \in Conns : conn[c].pc \in {"connected", "read", "send"} /\ SoleKey(c) =>
    table[conn[c].key] = c \/ c \in doomed \/ conn[c].sock # "open"

\* The relay's reader writes to a connection that was asked for.
WritesToAsked == writing # Nobody => conn[writing].key \in Keys

Truth == TunnelShapes /\ Asked /\ WritesToAsked /\ Named /\ DoomedWasThere /\ ReadIsNamed

USE DEF Nobody, Conns

\* At first nothing was asked for.
LEMMA InitTruth == TunnelInit => Truth
BY TunnelBounds DEF TunnelInit, Truth, TunnelShapes, Asked, WritesToAsked, Named, DoomedWasThere, ReadIsNamed, NoConn, Labels, Socks

\* A connection whose goroutine goes on without its socket or the tables.
LEMMA GoesOn ==
  ASSUME Truth, NEW c \in Conns, NEW pc \in Labels \ {"none", "dial"}, GoOn(c, pc),
         conn[c].pc \notin {"none"},
         pc \in {"connected", "read", "send"} => conn[c].pc \in {"connected", "read", "send"},
         UNCHANGED <<dialled, table, doomed, writing>>
  PROVE  Truth'
<1>1. conn' = [conn EXCEPT ![c].pc = pc]
  BY DEF GoOn
<1>2. TunnelShapes'
  BY <1>1 DEF Truth, TunnelShapes
<1>3. \A d \in Conns : /\ conn'[d].key = conn[d].key /\ conn'[d].sock = conn[d].sock
                       /\ d # c => conn'[d] = conn[d]
                       /\ conn'[c].pc = pc
  BY <1>1 DEF Truth, TunnelShapes
<1>4. Asked'
  BY <1>3, TunnelBounds DEF Truth, TunnelShapes, Asked, NoConn, Labels
<1>5. Named' /\ DoomedWasThere'
  BY <1>3 DEF Truth, TunnelShapes, Named, DoomedWasThere
<1>6. \A d \in Conns : SoleKey(d)' => SoleKey(d)
  BY <1>3, TunnelBounds DEF Truth, TunnelShapes, SoleKey
<1>7. ReadIsNamed'
  BY <1>3, <1>6 DEF Truth, TunnelShapes, ReadIsNamed
<1>8. WritesToAsked'
  BY <1>3 DEF Truth, TunnelShapes, WritesToAsked
<1> QED BY <1>2, <1>4, <1>5, <1>7, <1>8 DEF Truth

\* Entries that are taken out doom what they name; a goroutine may end with it.
LEMMA TakenOut ==
  ASSUME Truth, TunnelShapes', UNCHANGED dialled, writing' \in {writing, Nobody}, NEW S \in SUBSET Keys,
         \A k \in Keys : table'[k] = IF k \in S THEN Nobody ELSE table[k],
         doomed' = doomed \cup {table[k] : k \in {j \in S : table[j] # Nobody}},
         \A d \in Conns : /\ conn'[d].key = conn[d].key /\ conn'[d].sock = conn[d].sock
                         /\ \/ conn'[d] = conn[d]
                            \/ conn[d].pc = "remove" /\ conn'[d].pc = "done"
  PROVE  Truth'
<1>1. Asked'
  BY TunnelBounds DEF Truth, Asked, TunnelShapes, NoConn
<1>2. Named'
  <2> SUFFICES ASSUME NEW k \in Keys, table'[k] # Nobody
               PROVE  /\ conn'[table'[k]].key = k /\ conn'[table'[k]].pc \notin {"none", "dial"}
                      /\ table'[k] \notin doomed' /\ conn'[table'[k]].sock # "closed"
    BY DEF Named
  <2>1. k \notin S /\ table'[k] = table[k] /\ table[k] \in Conns
    BY DEF Truth, TunnelShapes
  <2>2. \A j \in S : table[j] # table[k]
    BY <2>1 DEF Truth, Named
  <2> QED BY <2>1, <2>2 DEF Truth, Named
<1>3. DoomedWasThere'
  <2> SUFFICES ASSUME NEW c \in doomed' PROVE conn'[c].pc \notin {"none", "dial"}
    BY DEF DoomedWasThere
  <2>1. c \in Conns /\ conn[c].pc \notin {"none", "dial"}
    BY DEF Truth, TunnelShapes, Named, DoomedWasThere
  <2> QED BY <2>1
<1>4. \A c \in Conns : SoleKey(c)' => SoleKey(c)
  BY TunnelBounds DEF Truth, TunnelShapes, SoleKey
<1>5. ReadIsNamed'
  <2> SUFFICES ASSUME NEW c \in Conns, conn'[c].pc \in {"connected", "read", "send"}, SoleKey(c)'
               PROVE  table'[conn'[c].key] = c \/ c \in doomed' \/ conn'[c].sock # "open"
    BY DEF ReadIsNamed
  <2>1. conn'[c] = conn[c]
    OBVIOUS
  <2>2. table[conn[c].key] = c \/ c \in doomed \/ conn[c].sock # "open"
    BY <1>4, <2>1 DEF Truth, ReadIsNamed
  <2>3. conn[c].key \in Keys
    BY <2>1 DEF Truth, Asked, NoConn
  <2> QED BY <2>1, <2>2, <2>3
<1>6. WritesToAsked'
  BY DEF Truth, TunnelShapes, WritesToAsked
<1> QED BY <1>1, <1>2, <1>3, <1>5, <1>6 DEF Truth

\* removeConn, whoever calls it and with whatever key.
LEMMA Takes ==
  ASSUME Truth, NEW k \in Keys, Take(k), UNCHANGED <<dialled, conn>>, writing' \in {writing, Nobody}
  PROVE  Truth'
<1>1. TunnelShapes'
  BY DEF Truth, TunnelShapes, Take
<1>2. \A j \in Keys : table'[j] = IF j \in {k} THEN Nobody ELSE table[j]
  BY DEF Truth, TunnelShapes, Take
<1>3. doomed' = doomed \cup {table[i] : i \in {j \in {k} : table[j] # Nobody}}
  BY DEF Take
<1> QED BY <1>1, <1>2, <1>3, TakenOut

\* The end of readLoop.
LEMMA ReadLoopEnds ==
  ASSUME Truth, NEW c \in Conns, ReadLoopRemoves(c)
  PROVE  Truth'
<1> DEFINE k == conn[c].key
<1>1. k \in Keys
  BY DEF Truth, Asked, NoConn, ReadLoopRemoves, At
<1>2. conn' = [conn EXCEPT ![c].pc = "done"] /\ conn[c].pc = "remove"
  BY DEF ReadLoopRemoves, GoOn, At
<1>3. \A d \in Conns : /\ conn'[d].key = conn[d].key /\ conn'[d].sock = conn[d].sock
                      /\ \/ conn'[d] = conn[d]
                         \/ conn[d].pc = "remove" /\ conn'[d].pc = "done"
  BY <1>2 DEF Truth, TunnelShapes
<1>4. conn' \in [Conns -> [key : Keys \cup {Nobody}, pc : Labels, sock : Socks]]
  BY <1>2 DEF Truth, TunnelShapes, Labels
<1>5. TunnelShapes'
  BY <1>1, <1>4 DEF Truth, TunnelShapes, ReadLoopRemoves, Take
<1>6. \A j \in Keys : table'[j] = IF j \in {k} THEN Nobody ELSE table[j]
  BY <1>1 DEF Truth, TunnelShapes, ReadLoopRemoves, Take
<1>7. doomed' = doomed \cup {table[i] : i \in {j \in {k} : table[j] # Nobody}}
  BY DEF ReadLoopRemoves, Take
<1>8. UNCHANGED <<dialled, writing>>
  BY DEF ReadLoopRemoves
<1> QED BY <1>1, <1>3, <1>5, <1>6, <1>7, <1>8, TakenOut

\* CloseAll.
LEMMA CleansUp ==
  ASSUME Truth, LoopCleansUp
  PROVE  Truth'
<1>1. TunnelShapes'
  BY DEF Truth, TunnelShapes, LoopCleansUp, CloseAll
<1>2. \A j \in Keys : table'[j] = IF j \in Keys THEN Nobody ELSE table[j]
  BY DEF LoopCleansUp, CloseAll
<1>3. doomed' = doomed \cup {table[i] : i \in {j \in Keys : table[j] # Nobody}}
  BY DEF LoopCleansUp, CloseAll
<1>4. UNCHANGED <<dialled, conn, writing>>
  BY DEF LoopCleansUp
<1> QED BY <1>1, <1>2, <1>3, <1>4, TakenOut

\* A dial that succeeds: its connection was in nobody's hands.
LEMMA Registers ==
  ASSUME Truth, NEW c \in Conns, Register(c)
  PROVE  Truth'
<1> DEFINE k == conn[c].key
<1>1. conn[c].pc = "dial" /\ k \in Keys /\ c <= dialled /\ dialled \in Nat
  BY TunnelBounds DEF Truth, Asked, TunnelShapes, NoConn, Register, At
<1>2. conn' = [conn EXCEPT ![c].pc = "connected", ![c].sock = "open"]
  BY DEF Register
<1>3. table' = [table EXCEPT ![k] = c] /\ UNCHANGED <<dialled, doomed, writing>>
  BY DEF Register
<1>4. \A d \in Conns \ {c} : conn'[d] = conn[d]
  BY <1>2 DEF Truth, TunnelShapes
<1>5. conn'[c].key = k /\ conn'[c].pc = "connected" /\ conn'[c].sock = "open"
  BY <1>2 DEF Truth, TunnelShapes
<1>6. TunnelShapes'
  <2>1. conn' \in [Conns -> [key : Keys \cup {Nobody}, pc : Labels, sock : Socks]]
    BY <1>2 DEF Truth, TunnelShapes, Labels, Socks
  <2>2. table' \in [Keys -> Conns \cup {Nobody}]
    BY <1>3 DEF Truth, TunnelShapes
  <2> QED BY <1>3, <2>1, <2>2 DEF Truth, TunnelShapes
<1>7. Asked'
  BY <1>1, <1>3, <1>4, <1>5 DEF Truth, Asked
<1>8. c \notin doomed /\ \A j \in Keys : table[j] # c
  BY <1>1 DEF Truth, DoomedWasThere, Named
<1>9. Named'
  <2> SUFFICES ASSUME NEW j \in Keys, table'[j] # Nobody
               PROVE  /\ conn'[table'[j]].key = j /\ conn'[table'[j]].pc \notin {"none", "dial"}
                      /\ table'[j] \notin doomed' /\ conn'[table'[j]].sock # "closed"
    BY DEF Named
  <2>1. CASE j = k
    BY <1>1, <1>3, <1>5, <1>8, <2>1 DEF Truth, TunnelShapes
  <2>2. CASE j # k
    <3>1. table'[j] = table[j] /\ table[j] \in Conns \ {c}
      BY <1>3, <1>8, <2>2 DEF Truth, TunnelShapes
    <3> QED BY <1>3, <1>4, <3>1 DEF Truth, Named
  <2> QED BY <2>1, <2>2
<1>10. DoomedWasThere'
  BY <1>3, <1>4, <1>5 DEF Truth, TunnelShapes, DoomedWasThere
<1>11. \A d \in Conns : conn'[d].key = conn[d].key
  BY <1>4, <1>5
<1>12. ReadIsNamed'
  <2> SUFFICES ASSUME NEW d \in Conns, conn'[d].pc \in {"connected", "read", "send"}, SoleKey(d)'
               PROVE  table'[conn'[d].key] = d \/ d \in doomed' \/ conn'[d].sock # "open"
    BY DEF ReadIsNamed
  <2>1. CASE d = c
    BY <1>1, <1>3, <1>5, <2>1 DEF Truth, TunnelShapes
  <2>2. CASE d # c
    <3>1. conn[d].key # k
      BY <1>1, <1>3, <1>11, <2>2 DEF SoleKey
    <3>2. SoleKey(d)
      BY <1>1, <1>3, <1>11, TunnelBounds DEF Truth, TunnelShapes, SoleKey
    <3>3. conn[d].key \in Keys
      BY <1>4, <2>2 DEF Truth, Asked, NoConn
    <3> QED BY <1>3, <1>4, <2>2, <3>1, <3>2, <3>3 DEF Truth, TunnelShapes, ReadIsNamed
  <2> QED BY <2>1, <2>2
<1>13. WritesToAsked'
  BY <1>3, <1>11 DEF Truth, TunnelShapes, WritesToAsked
<1> QED BY <1>6, <1>7, <1>9, <1>10, <1>12, <1>13 DEF Truth

\* A connection the app asks for is new to everybody.
LEMMA Connects ==
  ASSUME Truth, NEW k \in Keys, HandleConnect(k)
  PROVE  Truth'
<1> DEFINE c == dialled + 1
<1>1. dialled \in Nat /\ c \in Conns /\ dialled' = c
  BY TunnelBounds DEF Truth, TunnelShapes, HandleConnect
<1>2. conn' = [conn EXCEPT ![c] = [key |-> k, pc |-> "dial", sock |-> "none"]]
  BY DEF HandleConnect
<1>3. UNCHANGED <<table, doomed, writing>>
  BY DEF HandleConnect
<1>4. conn[c] = NoConn
  BY <1>1 DEF Truth, Asked
<1>5. \A d \in Conns \ {c} : conn'[d] = conn[d]
  BY <1>2 DEF Truth, TunnelShapes
<1>6. conn'[c].key = k /\ conn'[c].pc = "dial"
  BY <1>1, <1>2 DEF Truth, TunnelShapes
<1>7. TunnelShapes'
  BY <1>1, <1>2, <1>3, TunnelBounds DEF Truth, TunnelShapes, Labels, Socks
<1>8. Asked'
  <2> SUFFICES ASSUME NEW d \in Conns
               PROVE  IF d <= dialled' THEN conn'[d].key \in Keys /\ conn'[d].pc # "none" ELSE conn'[d] = NoConn
    BY DEF Asked
  <2>1. CASE d = c
    BY <1>1, <1>6, <2>1
  <2>2. CASE d # c
    <3>1. d <= dialled' <=> d <= dialled
      BY <1>1, <2>2, TunnelBounds
    <3> QED BY <1>5, <2>2, <3>1 DEF Truth, Asked
  <2> QED BY <2>1, <2>2
<1>9. c \notin doomed /\ \A j \in Keys : table[j] # c
  BY <1>1, <1>4 DEF Truth, DoomedWasThere, Named, NoConn
<1>10. Named'
  BY <1>3, <1>5, <1>9 DEF Truth, TunnelShapes, Named
<1>11. DoomedWasThere'
  BY <1>3, <1>5, <1>9 DEF Truth, TunnelShapes, DoomedWasThere
<1>12. ReadIsNamed'
  <2> SUFFICES ASSUME NEW d \in Conns, conn'[d].pc \in {"connected", "read", "send"}, SoleKey(d)'
               PROVE  table'[conn'[d].key] = d \/ d \in doomed' \/ conn'[d].sock # "open"
    BY DEF ReadIsNamed
  <2>1. d # c /\ conn'[d] = conn[d]
    BY <1>5, <1>6
  <2>2. \A e \in 1 .. dialled : e \in 1 .. dialled' /\ conn'[e] = conn[e]
    BY <1>1, <1>5, TunnelBounds DEF Truth, TunnelShapes
  <2>3. SoleKey(d)
    BY <2>1, <2>2 DEF SoleKey
  <2> QED BY <1>3, <2>1, <2>3 DEF Truth, ReadIsNamed
<1>13. WritesToAsked'
  BY <1>3, <1>5, <1>6 DEF Truth, TunnelShapes, WritesToAsked
<1> QED BY <1>7, <1>8, <1>10, <1>11, <1>12, <1>13 DEF Truth

\* A socket that closes was out of the table, or its target closed it.
LEMMA SocketChanges ==
  ASSUME Truth, NEW c \in Conns, NEW s \in {"eof", "closed"},
         conn' = [conn EXCEPT ![c].sock = s],
         s = "closed" => c \in doomed, s = "eof" => conn[c].sock = "open",
         \/ UNCHANGED doomed
         \/ doomed' = doomed \ {c},
         UNCHANGED <<dialled, table, writing>>
  PROVE  Truth'
<1>1. \A d \in Conns \ {c} : conn'[d] = conn[d]
  BY DEF Truth, TunnelShapes
<1>2. conn'[c].key = conn[c].key /\ conn'[c].pc = conn[c].pc /\ conn'[c].sock = s
  BY DEF Truth, TunnelShapes
<1>3. TunnelShapes'
  BY DEF Truth, TunnelShapes, Socks
<1>4. conn[c].pc # "none"
  BY DEF Truth, DoomedWasThere, Asked, NoConn
<1>5. Asked'
  BY <1>1, <1>2, <1>4 DEF Truth, Asked, NoConn
<1>6. Named'
  <2> SUFFICES ASSUME NEW k \in Keys, table[k] # Nobody
               PROVE  /\ conn'[table[k]].key = k /\ conn'[table[k]].pc \notin {"none", "dial"}
                      /\ table[k] \notin doomed' /\ conn'[table[k]].sock # "closed"
    BY DEF Named
  <2> QED BY <1>1, <1>2 DEF Truth, TunnelShapes, Named
<1>7. DoomedWasThere'
  BY <1>1, <1>2 DEF Truth, TunnelShapes, DoomedWasThere
<1>8. \A d \in Conns : SoleKey(d)' => SoleKey(d)
  BY <1>1, <1>2, TunnelBounds DEF Truth, TunnelShapes, SoleKey
<1>9. ReadIsNamed'
  <2> SUFFICES ASSUME NEW d \in Conns, conn'[d].pc \in {"connected", "read", "send"}, SoleKey(d)'
               PROVE  table[conn'[d].key] = d \/ d \in doomed' \/ conn'[d].sock # "open"
    BY DEF ReadIsNamed
  <2>1. CASE d = c
    BY <1>2, <2>1
  <2>2. CASE d # c
    BY <1>1, <1>8, <2>2 DEF Truth, ReadIsNamed
  <2> QED BY <2>1, <2>2
<1>10. WritesToAsked'
  BY <1>1, <1>2 DEF Truth, TunnelShapes, WritesToAsked
<1> QED BY <1>3, <1>5, <1>6, <1>7, <1>9, <1>10 DEF Truth

\* Steps that the invariant does not see.
LEMMA StaysTrue ==
  ASSUME Truth, UNCHANGED <<dialled, conn, table, doomed>>,
         writing' \in {writing, Nobody} \cup {table[k] : k \in Keys}
  PROVE  Truth'
BY DEF Truth, TunnelShapes, Asked, WritesToAsked, Named, DoomedWasThere, ReadIsNamed, SoleKey

\* Every step keeps the invariant.
LEMMA StepTruth == Truth /\ [TunnelNext]_tunnelVars => Truth'
<1> SUFFICES ASSUME Truth, [TunnelNext]_tunnelVars PROVE Truth'
  OBVIOUS
<1>0. writing \in Conns \cup {Nobody}
  BY DEF Truth, TunnelShapes
<1>1. ASSUME NEW c \in Conns, Goroutine(c) PROVE Truth'
  <2>1. CASE DialFails(c)
    BY <2>1, GoesOn DEF DialFails, At, Labels
  <2>2. CASE Register(c)
    BY <2>2, Registers
  <2>3. CASE TellConnected(c)
    BY <2>3, GoesOn DEF TellConnected, At, Labels
  <2>4. CASE Sends(c)
    BY <2>4, GoesOn DEF Sends, At, Labels
  <2>5. CASE ReadFails(c)
    BY <2>5, GoesOn DEF ReadFails, At, Labels
  <2>6. CASE ReadCanceled(c)
    BY <2>6, GoesOn DEF ReadCanceled, At, Labels
  <2>7. CASE ReadLoopRemoves(c)
    BY <2>7, ReadLoopEnds
  <2> QED BY <1>1, <2>1, <2>2, <2>3, <2>4, <2>5, <2>6, <2>7 DEF Goroutine
<1>2. ASSUME NEW c \in Conns, Read(c) PROVE Truth'
  BY <1>2, GoesOn DEF Read, At, Labels
<1>3. ASSUME NEW c \in Conns, CloseOnce(c) PROVE Truth'
  BY <1>3, SocketChanges DEF CloseOnce
<1>4. ASSUME NEW c \in Conns, Target(c) PROVE Truth'
  <2>1. CASE UNCHANGED conn
    BY <1>0, <1>4, <2>1, StaysTrue DEF Target
  <2>2. CASE conn' = [conn EXCEPT ![c].sock = "eof"]
    BY <1>4, <2>2, SocketChanges DEF Target
  <2> QED BY <1>4, <2>1, <2>2 DEF Target
<1>5. ASSUME NEW k \in Keys, HandleConnect(k) PROVE Truth'
  BY <1>5, Connects
<1>6. ASSUME NEW k \in Keys, HandleClose(k) PROVE Truth'
  BY <1>0, <1>6, Takes DEF HandleClose
<1>7. ASSUME NEW k \in Keys, HandleData(k) PROVE Truth'
  BY <1>7, StaysTrue DEF HandleData
<1>8. ASSUME WriteEnds PROVE Truth'
  <2>1. CASE UNCHANGED <<table, doomed>>
    BY <1>8, <2>1, StaysTrue DEF WriteEnds
  <2>2. CASE conn[writing].sock # "open" /\ Take(conn[writing].key)
    <3>1. writing \in Conns /\ writing' = 0 /\ UNCHANGED <<dialled, conn>>
      BY <1>0, <1>8 DEF WriteEnds
    <3>2. conn[writing].key \in Keys
      BY <3>1 DEF Truth, WritesToAsked
    <3> QED BY <2>2, <3>1, <3>2, Takes
  <2> QED BY <1>8, <2>1, <2>2 DEF WriteEnds
<1>9. CASE PongsMissed \/ RelayLost \/ Reconnect
  BY <1>0, <1>9, StaysTrue DEF PongsMissed, RelayLost, Reconnect
<1>10. CASE LoopCleansUp
  BY <1>10, CleansUp
<1>11. CASE UNCHANGED tunnelVars
  BY <1>0, <1>11, StaysTrue DEF tunnelVars
<1> QED
  BY <1>1, <1>2, <1>3, <1>4, <1>5, <1>6, <1>7, <1>8, <1>9, <1>10, <1>11 DEF TunnelNext

\* What the table names nobody has closed, and what is still read can be found in
\* the table or is being closed, however dials, reads, failed writes, the app's
\* closes and the relay loop's clean-ups interleave.
THEOREM TableTrue == TunnelSpec => []TableIsTrue
<1>1. Truth => TableIsTrue
  BY DEF Truth, Named, ReadIsNamed, TableIsTrue
<1> QED BY <1>1, InitTruth, StepTruth, PTL DEF TunnelSpec

-----------------------------------------------------------------------------
(* Cutting.                                                                *)

\* Numbers from 0 on, step by step, are all: the least one left out has none before it.
LEMMA AllReached ==
  ASSUME NEW S \in SUBSET Nat, 0 \in S, \A n \in S : n + 1 \in S
  PROVE  \A n \in Nat : n \in S
<1> SUFFICES ASSUME NEW n \in Nat, n \notin S PROVE FALSE
  OBVIOUS
<1> DEFINE R == OpToRel(<, Nat)
           T == Nat \ S
<1>1. IsWellFoundedOn(R, Nat) /\ T \subseteq Nat /\ T # {}
  BY NatLessThanWellFounded
<1>2. \A x, y \in Nat : y < x => <<y, x>> \in R
  BY DEF OpToRel
<1> HIDE DEF R
<1>3. PICK x \in T : \A y \in T : ~ (<<y, x>> \in R)
  BY <1>1, WFMin
<1>4. x \in Nat /\ x # 0
  BY <1>3
<1>5. x - 1 \in Nat /\ <<x - 1, x>> \in R
  BY <1>2, <1>4
<1>6. x - 1 \in S
  BY <1>3, <1>5
<1>7. (x - 1) + 1 = x
  BY <1>4
<1> QED BY <1>3, <1>6, <1>7

\* What f says a loop over N entries has at its beginning and after each of them.
Loops(f, N, base, step) == f = [k \in 0 .. N |-> IF k = 0 THEN base ELSE step[k][f[k - 1]]]

\* A loop has a state after each of its entries.
LEMMA LoopRuns ==
  ASSUME NEW A, NEW base \in A, NEW N \in Nat, NEW step \in [1 .. N -> [A -> A]]
  PROVE  \E f \in [0 .. N -> A] : Loops(f, N, base, step)
<1> DEFINE Run(n, f) == f[0] = base /\ \A k \in 1 .. n : f[k] = step[k][f[k - 1]]
           S == {n \in Nat : n > N \/ \E f \in [0 .. n -> A] : Run(n, f)}
<1>1. 0 \in S
  <2> DEFINE f == [k \in 0 .. 0 |-> base]
  <2>1. f \in [0 .. 0 -> A] /\ Run(0, f)
    OBVIOUS
  <2> QED BY <2>1
<1>2. ASSUME NEW n \in S PROVE n + 1 \in S
  <2>1. CASE n + 1 > N
    BY <2>1
  <2>2. CASE n + 1 <= N
    <3>1. PICK f \in [0 .. n -> A] : Run(n, f)
      BY <2>2
    <3> DEFINE g == [k \in 0 .. n + 1 |-> IF k = n + 1 THEN step[n + 1][f[n]] ELSE f[k]]
    <3>2. n + 1 \in 1 .. N /\ n \in 0 .. n
      BY <2>2
    <3>3. step[n + 1][f[n]] \in A
      BY <3>2
    <3>4. g \in [0 .. n + 1 -> A]
      BY <3>3
    <3>5. Run(n + 1, g)
      <4>1. g[0] = base
        BY <3>1, <3>2
      <4>2. ASSUME NEW k \in 1 .. n + 1 PROVE g[k] = step[k][g[k - 1]]
        <5>1. CASE k = n + 1
          <6>1. k - 1 = n /\ g[k - 1] = f[n]
            BY <3>2, <5>1
          <6> QED BY <5>1, <6>1
        <5>2. CASE k # n + 1
          <6>1. k \in 1 .. n /\ k - 1 \in 0 .. n
            BY <5>2
          <6>2. g[k] = f[k] /\ g[k - 1] = f[k - 1]
            BY <6>1
          <6> QED BY <3>1, <6>1, <6>2
        <5> QED BY <5>1, <5>2
      <4> QED BY <4>1, <4>2
    <3>6. \E h \in [0 .. n + 1 -> A] : Run(n + 1, h)
      <4> HIDE DEF g, Run
      <4> QED BY <3>4, <3>5
    <3>7. n \in Nat
      BY DEF S
    <3> HIDE DEF Run, g
    <3> QED BY <3>6, <3>7
  <2> QED BY <2>1, <2>2
<1>3. N \in S
  <2> HIDE DEF S
  <2>1. S \in SUBSET Nat
    BY DEF S
  <2> QED BY <1>1, <1>2, <2>1, AllReached
<1>4. PICK f \in [0 .. N -> A] : Run(N, f)
  BY <1>3
<1>5. ASSUME NEW k \in 0 .. N PROVE f[k] = IF k = 0 THEN base ELSE step[k][f[k - 1]]
  <2>1. k = 0 \/ k \in 1 .. N
    OBVIOUS
  <2> QED BY <1>4, <2>1
<1> QED BY <1>4, <1>5 DEF Loops

\* So the sizes add up,
LEMMA UptoIs ==
  ASSUME NEW sizes \in Seq(Nat \ {0})
  PROVE  /\ Upto(sizes) \in [0 .. Len(sizes) -> Nat] /\ Upto(sizes)[0] = 0
         /\ \A k \in 1 .. Len(sizes) : Upto(sizes)[k] = Upto(sizes)[k - 1] + sizes[k]
<1> DEFINE N == Len(sizes)
           step == [k \in 1 .. N |-> [a \in Nat |-> a + sizes[k]]]
           Eq(f) == f = [k \in 0 .. N |-> IF k = 0 THEN 0 ELSE f[k - 1] + sizes[k]]
<1>1. N \in Nat /\ \A k \in 1 .. N : sizes[k] \in Nat
  OBVIOUS
<1>2. step \in [1 .. N -> [Nat -> Nat]]
  BY <1>1
<1>3. PICK f \in [0 .. N -> Nat] : Loops(f, N, 0, step)
  <2> HIDE DEF step, N
  <2> QED BY <1>1, <1>2, LoopRuns
<1>4. Eq(f)
  <2>1. ASSUME NEW k \in 0 .. N PROVE f[k] = IF k = 0 THEN 0 ELSE f[k - 1] + sizes[k]
    <3>1. f[k] = IF k = 0 THEN 0 ELSE step[k][f[k - 1]]
      BY <1>3 DEF Loops
    <3>2. CASE k # 0
      <4>1. k \in 1 .. N /\ k - 1 \in 0 .. N
        BY <1>1, <3>2
      <4>2. f[k - 1] \in Nat
        <5> HIDE DEF N
        <5> QED BY <4>1
      <4> QED BY <3>1, <4>1, <4>2
    <3> QED BY <3>1, <3>2
  <2> QED BY <1>3, <2>1 DEF Loops
<1>5. Upto(sizes) = CHOOSE g : Eq(g)
  BY DEF Upto
<1>6. Eq(Upto(sizes))
  <2> HIDE DEF Eq
  <2> QED BY <1>4, <1>5
<1> DEFINE t == Upto(sizes)
<1> HIDE DEF t
<1>7. t = [k \in 0 .. N |-> IF k = 0 THEN 0 ELSE t[k - 1] + sizes[k]]
  BY <1>6 DEF t
<1>8. t[0] = 0 /\ \A k \in 1 .. N : t[k] = t[k - 1] + sizes[k]
  <2> HIDE DEF N
  <2>1. 0 \in 0 .. N /\ \A k \in 1 .. N : k \in 0 .. N /\ k # 0
    BY <1>1
  <2> QED BY <1>7, <2>1
<1> DEFINE S == {k \in Nat : k > N \/ t[k] \in Nat}
<1>9. 0 \in S /\ \A k \in S : k + 1 \in S
  <2>1. 0 \in S
    BY <1>8
  <2>2. ASSUME NEW k \in S PROVE k + 1 \in S
    <3>1. CASE k + 1 <= N
      <4>1. k + 1 \in 1 .. N /\ (k + 1) - 1 = k /\ t[k] \in Nat
        BY <1>1, <3>1
      <4>2. t[k + 1] = t[k] + sizes[k + 1] /\ sizes[k + 1] \in Nat
        BY <1>1, <1>8, <4>1
      <4> QED BY <4>1, <4>2
    <3> QED BY <1>1, <3>1
  <2> QED BY <2>1, <2>2
<1>10. \A k \in Nat : k \in S
  <2> HIDE DEF S
  <2>1. S \in SUBSET Nat
    BY DEF S
  <2> QED BY <1>9, <2>1, AllReached
<1>11. \A k \in 0 .. N : t[k] \in Nat
  BY <1>1, <1>10
<1>12. t \in [0 .. N -> Nat]
  BY <1>7, <1>11
<1> QED BY <1>8, <1>12 DEF t

\* What the packing loop keeps.
Span == [from : Nat, to : Nat]
Packs == [spans : Seq(Span), from : Nat, at : Nat, cost : Nat]

\* A span within the budget, or of one entry.
Fits(total, span, budget) == total[span.to] - total[span.from] <= budget \/ span.to = span.from + 1

\* Spans that begin at 0, follow one another and end at n, and fit.
Row(spans, n) ==
  /\ IF spans = <<>> THEN n = 0 ELSE spans[1].from = 0 /\ spans[Len(spans)].to = n
  /\ \A i \in 2 .. Len(spans) : spans[i].from = spans[i - 1].to
  /\ \A i \in 1 .. Len(spans) : spans[i].from <= spans[i].to /\ spans[i].to <= n

\* After k entries the row of what is packed ends where the open span begins, which
\* ends at k.
Packed(acc, k, total, budget) ==
  /\ acc.at = k /\ acc.from \in 0 .. k /\ acc.cost = total[k] - total[acc.from]
  /\ acc.cost <= budget \/ k = acc.from + 1
  /\ acc.cost = 0 => acc.from = k
  /\ Row(acc.spans, acc.from)
  /\ \A i \in 1 .. Len(acc.spans) : Fits(total, acc.spans[i], budget)

\* One more span behind a row.
LEMMA RowGrows ==
  ASSUME NEW spans \in Seq(Span), NEW n \in Nat, NEW m \in Nat, n <= m, Row(spans, n), NEW e, e = [from |-> n, to |-> m]
  PROVE  /\ Append(spans, e) \in Seq(Span) /\ Row(Append(spans, e), m)
         /\ Len(Append(spans, e)) = Len(spans) + 1 /\ Append(spans, e)[Len(spans) + 1] = e
         /\ \A i \in 1 .. Len(spans) : Append(spans, e)[i] = spans[i]
<1> DEFINE r == Append(spans, e)
<1>1. e \in Span /\ e.from = n /\ e.to = m
  BY DEF Span
<1>2. /\ r \in Seq(Span) /\ Len(r) = Len(spans) + 1 /\ Len(spans) \in Nat /\ r # <<>>
      /\ r[Len(spans) + 1] = e /\ \A i \in 1 .. Len(spans) : r[i] = spans[i]
  BY <1>1
<1>3. \A i \in 1 .. Len(spans) : spans[i] \in Span /\ spans[i].from \in Nat /\ spans[i].to \in Nat
  <2> SUFFICES ASSUME NEW i \in 1 .. Len(spans) PROVE spans[i] \in Span /\ spans[i].from \in Nat /\ spans[i].to \in Nat
    OBVIOUS
  <2>1. spans[i] \in Span
    BY ElementOfSeq
  <2> QED BY <2>1 DEF Span
<1> HIDE DEF r
<1>4. Row(r, m)
  <2>1. r[1].from = 0 /\ r[Len(r)].to = m
    <3>1. CASE spans = <<>>
      <4>1. Len(spans) = 0 /\ n = 0
        BY <3>1 DEF Row
      <4> QED BY <1>1, <1>2, <4>1
    <3>2. CASE spans # <<>>
      <4>1. 1 \in 1 .. Len(spans) /\ spans[1].from = 0
        BY <1>2, <3>2 DEF Row
      <4> QED BY <1>1, <1>2, <4>1
    <3> QED BY <3>1, <3>2
  <2>2. ASSUME NEW i \in 2 .. Len(r) PROVE r[i].from = r[i - 1].to
    <3>1. CASE i = Len(spans) + 1
      <4>1. spans # <<>> /\ Len(spans) \in 1 .. Len(spans) /\ i - 1 = Len(spans)
        BY <1>2, <3>1
      <4>2. spans[Len(spans)].to = n
        BY <4>1 DEF Row
      <4> QED BY <1>1, <1>2, <3>1, <4>1, <4>2
    <3>2. CASE i # Len(spans) + 1
      <4>1. i \in 2 .. Len(spans) /\ i \in 1 .. Len(spans) /\ i - 1 \in 1 .. Len(spans)
        BY <1>2, <3>2
      <4> QED BY <1>2, <4>1 DEF Row
    <3> QED BY <3>1, <3>2
  <2>3. ASSUME NEW i \in 1 .. Len(r) PROVE r[i].from <= r[i].to /\ r[i].to <= m
    <3>1. CASE i = Len(spans) + 1
      BY <1>1, <1>2, <3>1
    <3>2. CASE i # Len(spans) + 1
      <4>1. i \in 1 .. Len(spans)
        BY <1>2, <3>2
      <4>2. spans[i].from <= spans[i].to /\ spans[i].to <= n
        BY <4>1 DEF Row
      <4> QED BY <1>2, <1>3, <4>1, <4>2
    <3> QED BY <3>1, <3>2
  <2> QED BY <1>2, <2>1, <2>2, <2>3 DEF Row
<1> QED BY <1>2, <1>4 DEF r

\* One more entry is packed.
LEMMA PackedNext ==
  ASSUME NEW N \in Nat, NEW total \in [0 .. N -> Nat], NEW k \in 0 .. N - 1, NEW bytes \in Nat \ {0},
         NEW budget \in Nat, total[k + 1] = total[k] + bytes, NEW acc \in Packs, Packed(acc, k, total, budget)
  PROVE  NextSpan(acc, bytes, budget) \in Packs /\ Packed(NextSpan(acc, bytes, budget), k + 1, total, budget)
<1>1. /\ acc.spans \in Seq(Span) /\ acc.from \in Nat /\ acc.at = k /\ acc.cost \in Nat
      /\ acc.from \in 0 .. k /\ acc.cost = total[k] - total[acc.from] /\ (acc.cost <= budget \/ k = acc.from + 1)
      /\ (acc.cost = 0 => acc.from = k) /\ Row(acc.spans, acc.from)
      /\ \A i \in 1 .. Len(acc.spans) : Fits(total, acc.spans[i], budget)
  BY DEF Packs, Packed
<1>2. k \in Nat /\ k + 1 \in 0 .. N /\ k \in 0 .. N /\ acc.from \in 0 .. N /\ total[k] \in Nat /\ total[k + 1] \in Nat
      /\ total[acc.from] \in Nat
  <2>1. k \in Nat /\ k + 1 \in 0 .. N /\ k \in 0 .. N
    OBVIOUS
  <2>2. acc.from \in 0 .. N
    BY <1>1, <2>1
  <2> QED BY <2>1, <2>2
<1>3. CASE acc.cost > 0 /\ acc.cost + bytes > budget
  <2> DEFINE e == [from |-> acc.from, to |-> k]
             r == Append(acc.spans, e)
             new == [spans |-> r, from |-> k, at |-> k + 1, cost |-> bytes]
  <2>1. NextSpan(acc, bytes, budget) = new
    BY <1>1, <1>3 DEF NextSpan
  <2>2. /\ r \in Seq(Span) /\ Row(r, k) /\ Len(r) = Len(acc.spans) + 1 /\ r[Len(acc.spans) + 1] = e
        /\ \A i \in 1 .. Len(acc.spans) : r[i] = acc.spans[i]
    <3>1. acc.from <= k
      BY <1>1
    <3> HIDE DEF e
    <3>2. e = [from |-> acc.from, to |-> k]
      BY DEF e
    <3> DEFINE sp == acc.spans
               n == acc.from
    <3>3. sp \in Seq(Span) /\ n \in Nat /\ k \in Nat /\ n <= k /\ Row(sp, n) /\ e = [from |-> n, to |-> k]
      BY <1>1, <1>2, <3>1, <3>2
    <3>4. r = Append(sp, e)
      OBVIOUS
    <3> HIDE DEF sp, n, r
    <3>5. /\ r \in Seq(Span) /\ Row(r, k) /\ Len(r) = Len(sp) + 1 /\ r[Len(sp) + 1] = e
          /\ \A i \in 1 .. Len(sp) : r[i] = sp[i]
      BY <3>3, <3>4, RowGrows
    <3> QED BY <3>5 DEF sp
  <2>3. Fits(total, e, budget)
    BY <1>1, <1>2 DEF Fits
  <2> HIDE DEF r, e
  <2>4. ASSUME NEW i \in 1 .. Len(r) PROVE Fits(total, r[i], budget)
    <3>1. i \in 1 .. Len(acc.spans) \/ i = Len(acc.spans) + 1
      <4> DEFINE len == Len(acc.spans)
      <4>1. len \in Nat
        BY <1>1, LenProperties
      <4>2. i \in 1 .. len + 1
        BY <2>2
      <4> HIDE DEF len
      <4>3. i \in 1 .. len \/ i = len + 1
        BY <4>1, <4>2
      <4> QED BY <4>3 DEF len
    <3> QED BY <1>1, <2>2, <2>3, <3>1
  <2>5. new \in Packs
    BY <1>2, <2>2 DEF Packs
  <2>6. Packed(new, k + 1, total, budget)
    <3>1. new.spans = r /\ new.from = k /\ new.at = k + 1 /\ new.cost = bytes
      OBVIOUS
    <3>2. k \in 0 .. k + 1 /\ bytes = total[k + 1] - total[k] /\ bytes # 0
      BY <1>2
    <3> HIDE DEF new
    <3> QED BY <2>2, <2>4, <3>1, <3>2 DEF Packed
  <2> QED BY <2>1, <2>5, <2>6
<1>4. CASE ~(acc.cost > 0 /\ acc.cost + bytes > budget)
  <2> DEFINE new == [spans |-> acc.spans, from |-> acc.from, at |-> k + 1, cost |-> acc.cost + bytes]
  <2>1. NextSpan(acc, bytes, budget) = new
    <3>1. NextSpan(acc, bytes, budget) = [acc EXCEPT !.at = @ + 1, !.cost = @ + bytes]
      BY <1>4 DEF NextSpan
    <3> QED BY <1>1, <3>1 DEF Packs
  <2>2. new \in Packs
    <3>1. acc.spans \in Seq(Span) /\ acc.from \in Nat /\ k + 1 \in Nat /\ acc.cost + bytes \in Nat
      <4>1. acc.cost \in Nat /\ k \in Nat /\ bytes \in Nat
        BY <1>1, <1>2
      <4>2. acc.cost + bytes \in Nat /\ k + 1 \in Nat
        BY <4>1
      <4> QED BY <1>1, <4>2
    <3> QED BY <3>1 DEF Packs
  <2>3. acc.cost + bytes <= budget \/ k + 1 = acc.from + 1
    <3>1. acc.cost = 0 => acc.from = k
      BY <1>1
    <3>2. acc.cost \in Nat
      BY <1>1
    <3> QED BY <1>4, <3>1, <3>2
  <2>4. acc.cost + bytes = total[k + 1] - total[acc.from] /\ acc.cost + bytes # 0 /\ acc.from \in 0 .. k + 1
    <3> DEFINE a == acc.from
               c == acc.cost
               was == total[k]
               now == total[k + 1]
               then == total[a]
    <3>1. a \in 0 .. k /\ k \in Nat /\ c \in Nat /\ c = was - then
      BY <1>1, <1>2
    <3>2. was \in Nat /\ now \in Nat /\ then \in Nat /\ now = was + bytes
      BY <1>2
    <3> HIDE DEF a, c, was, now, then
    <3>3. c + bytes = now - then /\ c + bytes # 0 /\ a \in 0 .. k + 1
      BY <3>1, <3>2
    <3> QED BY <3>3 DEF a, c, now, then
  <2>5. Packed(new, k + 1, total, budget)
    BY <1>1, <2>3, <2>4 DEF Packed
  <2> QED BY <2>1, <2>2, <2>5
<1> QED BY <1>3, <1>4

\* What the loop has keeps its type.
LEMMA NextTyped ==
  ASSUME NEW acc \in Packs, NEW bytes \in Nat, NEW budget \in Nat
  PROVE  NextSpan(acc, bytes, budget) \in Packs
<1>1. acc.spans \in Seq(Span) /\ acc.from \in Nat /\ acc.at \in Nat /\ acc.cost \in Nat
  BY DEF Packs
<1>2. CASE acc.cost > 0 /\ acc.cost + bytes > budget
  <2>1. [from |-> acc.from, to |-> acc.at] \in Span
    BY <1>1 DEF Span
  <2>2. Append(acc.spans, [from |-> acc.from, to |-> acc.at]) \in Seq(Span)
    BY <1>1, <2>1
  <2> QED BY <1>1, <1>2, <2>2 DEF NextSpan, Packs
<1>3. CASE ~(acc.cost > 0 /\ acc.cost + bytes > budget)
  <2>1. NextSpan(acc, bytes, budget) = [acc EXCEPT !.at = @ + 1, !.cost = @ + bytes]
    BY <1>3 DEF NextSpan
  <2>2. NextSpan(acc, bytes, budget) = [spans |-> acc.spans, from |-> acc.from, at |-> acc.at + 1, cost |-> acc.cost + bytes]
    BY <1>1, <2>1 DEF Packs
  <2> QED BY <1>1, <2>2 DEF Packs
<1> QED BY <1>2, <1>3

\* So it is after every entry.
LEMMA PackingIs ==
  ASSUME NEW sizes \in Seq(Nat \ {0}), NEW budget \in Nat
  PROVE  \A k \in 0 .. Len(sizes) : Packing(sizes, budget)[k] \in Packs /\ Packed(Packing(sizes, budget)[k], k, Upto(sizes), budget)
<1> DEFINE N == Len(sizes)
           base == [spans |-> <<>>, from |-> 0, at |-> 0, cost |-> 0]
           step == [k \in 1 .. N |-> [a \in Packs |-> NextSpan(a, sizes[k], budget)]]
           Eq(f) == f = [k \in 0 .. N |-> IF k = 0 THEN base ELSE NextSpan(f[k - 1], sizes[k], budget)]
           total == Upto(sizes)
<1>1. N \in Nat /\ \A k \in 1 .. N : sizes[k] \in Nat \ {0}
  OBVIOUS
<1>2. base \in Packs
  BY DEF Packs
<1>3. step \in [1 .. N -> [Packs -> Packs]]
  <2> SUFFICES ASSUME NEW k \in 1 .. N, NEW a \in Packs PROVE NextSpan(a, sizes[k], budget) \in Packs
    OBVIOUS
  <2>1. sizes[k] \in Nat
    BY <1>1
  <2> QED BY <2>1, NextTyped
<1>4. PICK f \in [0 .. N -> Packs] : Loops(f, N, base, step)
  <2> HIDE DEF step, N, base
  <2> QED BY <1>1, <1>2, <1>3, LoopRuns
<1>5. Eq(f)
  <2>1. ASSUME NEW k \in 0 .. N PROVE f[k] = IF k = 0 THEN base ELSE NextSpan(f[k - 1], sizes[k], budget)
    <3> HIDE DEF base
    <3>1. f[k] = IF k = 0 THEN base ELSE step[k][f[k - 1]]
      BY <1>4 DEF Loops
    <3>2. CASE k # 0
      <4>1. k \in 1 .. N /\ k - 1 \in 0 .. N
        BY <1>1, <3>2
      <4>2. f[k - 1] \in Packs
        <5> HIDE DEF N
        <5> QED BY <4>1
      <4>3. step[k][f[k - 1]] = NextSpan(f[k - 1], sizes[k], budget)
        BY <4>1, <4>2
      <4> QED BY <3>1, <3>2, <4>3
    <3> QED BY <3>1, <3>2
  <2> QED BY <1>4, <2>1 DEF Loops
<1>6. Packing(sizes, budget) = CHOOSE g : Eq(g)
  BY DEF Packing
<1>7. Eq(Packing(sizes, budget))
  <2> HIDE DEF Eq
  <2> QED BY <1>5, <1>6
<1> DEFINE t == Packing(sizes, budget)
<1> HIDE DEF t
<1>8. t = [k \in 0 .. N |-> IF k = 0 THEN base ELSE NextSpan(t[k - 1], sizes[k], budget)]
  BY <1>7 DEF t
<1>9. t[0] = base /\ \A k \in 1 .. N : t[k] = NextSpan(t[k - 1], sizes[k], budget)
  <2> HIDE DEF base, N
  <2>1. 0 \in 0 .. N /\ \A k \in 1 .. N : k \in 0 .. N /\ k # 0
    BY <1>1
  <2> QED BY <1>8, <2>1
<1>10. total \in [0 .. N -> Nat] /\ total[0] = 0 /\ \A k \in 1 .. N : total[k] = total[k - 1] + sizes[k]
  BY UptoIs
<1> DEFINE S == {k \in Nat : k > N \/ (t[k] \in Packs /\ Packed(t[k], k, total, budget))}
<1> HIDE DEF total
<1>11. 0 \in S
  <2>1. Packed(base, 0, total, budget)
    BY <1>10 DEF Packed, Row
  <2> QED BY <1>2, <1>9, <2>1
<1>12. ASSUME NEW k \in S PROVE k + 1 \in S
  <2>1. CASE k + 1 <= N
    <3>1. k \in Nat /\ k \in 0 .. N - 1 /\ k + 1 \in 1 .. N /\ (k + 1) - 1 = k /\ t[k] \in Packs /\ Packed(t[k], k, total, budget)
      BY <1>1, <2>1
    <3>2. sizes[k + 1] \in Nat \ {0} /\ total[k + 1] = total[k] + sizes[k + 1] /\ t[k + 1] = NextSpan(t[k], sizes[k + 1], budget)
      <4> HIDE DEF N
      <4> QED BY <1>1, <1>9, <1>10, <3>1
    <3>3. t[k + 1] \in Packs /\ Packed(t[k + 1], k + 1, total, budget)
      <4> DEFINE acc == t[k]
                 bytes == sizes[k + 1]
      <4>1. acc \in Packs /\ Packed(acc, k, total, budget) /\ bytes \in Nat \ {0} /\ total[k + 1] = total[k] + bytes
        BY <3>1, <3>2
      <4>2. t[k + 1] = NextSpan(acc, bytes, budget)
        BY <3>2
      <4>3. N \in Nat /\ k \in 0 .. N - 1 /\ total \in [0 .. N -> Nat]
        BY <1>1, <1>10, <3>1
      <4> HIDE DEF acc, bytes, N
      <4>4. NextSpan(acc, bytes, budget) \in Packs /\ Packed(NextSpan(acc, bytes, budget), k + 1, total, budget)
        BY <4>1, <4>3, PackedNext
      <4> QED BY <4>2, <4>4
    <3> QED BY <3>1, <3>3
  <2> QED BY <1>1, <2>1
<1>13. \A k \in Nat : k \in S
  <2> HIDE DEF S
  <2>1. S \in SUBSET Nat
    BY DEF S
  <2> QED BY <1>11, <1>12, <2>1, AllReached
<1> QED BY <1>1, <1>13 DEF t, total

\* The lesser and the greater of two numbers.
LEMMA LeastOfTwo ==
  ASSUME NEW a \in Int, NEW b \in Int
  PROVE  /\ Min({a, b}) = IF a <= b THEN a ELSE b
         /\ Max({a, b}) = IF a <= b THEN b ELSE a
<1>1. \A x \in {a, b} : (\A y \in {a, b} : x <= y) <=> x = (IF a <= b THEN a ELSE b)
  OBVIOUS
<1>2. \A x \in {a, b} : (\A y \in {a, b} : x >= y) <=> x = (IF a <= b THEN b ELSE a)
  OBVIOUS
<1> QED BY <1>1, <1>2 DEF Min, Max

\* As many pieces as it takes.
LEMMA CountIs ==
  ASSUME NEW n \in Nat, NEW c \in Nat \ {0}
  PROVE  /\ Count(n, c) \in Nat /\ n <= c * Count(n, c)
         /\ n = 0 => Count(n, c) = 0
         /\ n # 0 => Count(n, c) # 0 /\ c * (Count(n, c) - 1) < n
<1> DEFINE x == n + c - 1
           q == x \div c
           r == x % c
<1>1. x \in Nat
  OBVIOUS
<1>2. x = c * q + r /\ r \in 0 .. c - 1 /\ q \in Int
  <2> HIDE DEF x
  <2> QED BY <1>1
<1>3. Count(n, c) = q
  BY DEF Count
<1> HIDE DEF q, r
<1>4. q \in Int /\ c * q \in Int /\ c * q <= n + c - 1 /\ n + c - 1 < c * q + c
  BY <1>1, <1>2
<1> HIDE DEF x
<1>5. q >= 0
  <2> SUFFICES ASSUME q <= -1 PROVE FALSE
    BY <1>2
  <2>1. c * q <= -c
    BY <1>2
  <2> QED BY <1>4, <2>1
<1>6. n <= c * q
  BY <1>2, <1>4
<1>7. n = 0 => q = 0
  <2> SUFFICES ASSUME n = 0, q >= 1 PROVE FALSE
    BY <1>2, <1>5
  <2>1. c * q >= c
    BY <1>2
  <2> QED BY <1>4, <2>1
<1>8. n # 0 => q # 0 /\ c * (q - 1) < n
  <2> SUFFICES ASSUME n # 0 PROVE q # 0 /\ c * (q - 1) < n
    OBVIOUS
  <2>1. c * (q - 1) = c * q - c
    BY <1>2
  <2>2. q # 0
    <3> SUFFICES ASSUME q = 0 PROVE FALSE
      OBVIOUS
    <3>1. c * q = 0
      OBVIOUS
    <3> QED BY <1>6, <3>1
  <2> QED BY <1>2, <1>4, <2>1, <2>2
<1> QED BY <1>2, <1>3, <1>5, <1>6, <1>7, <1>8

\* A text of any length, cut into pieces of any size.
LEMMA Cover ==
  ASSUME NEW n \in Nat, NEW c \in Nat \ {0}, NEW last, last = Count(n, c) - 1
  PROVE  /\ \A i \in 0 .. last : Piece(i, n, c).from < Piece(i, n, c).to /\ Piece(i, n, c).to - Piece(i, n, c).from <= c
         /\ \A i \in 1 .. last : Piece(i, n, c).from = Piece(i - 1, n, c).to
         /\ n = 0 => last = 0 - 1
         /\ n # 0 => Piece(0, n, c).from = 0 /\ Piece(last, n, c).to = n
<1>1. last \in Int /\ n <= c * (last + 1) /\ (n = 0 => last = -1) /\ (n # 0 => last \in Nat /\ c * last < n)
  <2>1. Count(n, c) \in Nat /\ Count(n, c) = last + 1
    BY CountIs
  <2> QED BY <2>1, CountIs
<1>2. ASSUME NEW i \in 0 .. last
      PROVE  /\ Piece(i, n, c).from = i * c /\ i * c < n /\ i * c \in Nat
             /\ Piece(i, n, c).to = IF i = last THEN n ELSE i * c + c
             /\ i = last => n <= i * c + c
             /\ i # last => i * c + c < n
  <2>1. i \in Nat /\ i <= last /\ n # 0 /\ last \in Nat /\ c * last < n /\ i * c \in Nat
    BY <1>1
  <2>2. i * c <= c * last
    BY <2>1
  <2>3. i # last => i * c + c <= c * last
    <3> SUFFICES ASSUME i # last PROVE i * c + c <= c * last
      OBVIOUS
    <3>1. i + 1 <= last /\ i * c + c = c * (i + 1)
      BY <2>1
    <3> QED BY <2>1, <3>1
  <2>4. i = last => n <= i * c + c
    BY <1>1, <2>1
  <2> DEFINE to == i * c + c
  <2>5. to \in Int
    BY <2>1
  <2>6. Min({to, n}) = IF to <= n THEN to ELSE n
    <3> HIDE DEF to
    <3> QED BY <2>5, LeastOfTwo
  <2>7. Piece(i, n, c).from = i * c /\ Piece(i, n, c).to = Min({to, n})
    BY DEF Piece
  <2> QED BY <2>1, <2>2, <2>3, <2>4, <2>6, <2>7
<1>3. ASSUME NEW i \in 1 .. last PROVE Piece(i, n, c).from = Piece(i - 1, n, c).to
  <2>1. i \in 0 .. last /\ i - 1 \in 0 .. last /\ i - 1 # last
    BY <1>1
  <2>2. (i - 1) * c + c = i * c
    BY <1>1
  <2> QED BY <1>2, <2>1, <2>2
<1>4. n # 0 => 0 \in 0 .. last /\ last \in 0 .. last
  BY <1>1
<1>5. \A i \in 0 .. last : Piece(i, n, c).from < Piece(i, n, c).to /\ Piece(i, n, c).to - Piece(i, n, c).from <= c
  <2> SUFFICES ASSUME NEW i \in 0 .. last
               PROVE  Piece(i, n, c).from < Piece(i, n, c).to /\ Piece(i, n, c).to - Piece(i, n, c).from <= c
    OBVIOUS
  <2> DEFINE at == i * c
  <2>1. /\ Piece(i, n, c).from = at /\ at < n /\ at \in Nat
        /\ Piece(i, n, c).to = IF i = last THEN n ELSE at + c
        /\ i = last => n <= at + c
    BY <1>2
  <2> HIDE DEF at
  <2> QED BY <2>1
<1> QED BY <1>1, <1>2, <1>3, <1>4, <1>5

\* The spans of a listing are a row of all of it, and fit.
LEMMA SpansAre ==
  ASSUME NEW sizes \in Seq(Nat \ {0}), NEW budget \in Nat
  PROVE  /\ Spans(sizes, budget) \in Seq(Span) /\ Spans(sizes, budget) # <<>> /\ Row(Spans(sizes, budget), Len(sizes))
         /\ \A k \in 1 .. Len(Spans(sizes, budget)) : Fits(Upto(sizes), Spans(sizes, budget)[k], budget)
<1> DEFINE N == Len(sizes)
           acc == Packing(sizes, budget)[N]
           e == [from |-> acc.from, to |-> N]
           total == Upto(sizes)
           spans == acc.spans
           n == acc.from
           r == Append(spans, e)
<1>1. N \in Nat /\ N \in 0 .. N
  OBVIOUS
<1>2. acc \in Packs /\ Packed(acc, N, total, budget)
  BY <1>1, PackingIs
<1>3. total \in [0 .. N -> Nat]
  BY UptoIs
<1>4. Spans(sizes, budget) = r
  BY DEF Spans
<1> HIDE DEF acc, total, N
<1>5. spans \in Seq(Span) /\ n \in Nat /\ n <= N /\ Row(spans, n) /\ e = [from |-> n, to |-> N]
  BY <1>1, <1>2 DEF Packs, Packed
<1>6. Fits(total, e, budget)
  <2>1. acc.cost = total[N] - total[n] /\ (acc.cost <= budget \/ N = n + 1)
    BY <1>2 DEF Packed
  <2> QED BY <2>1 DEF Fits
<1>7. \A i \in 1 .. Len(spans) : Fits(total, spans[i], budget)
  BY <1>2 DEF Packed
<1> HIDE DEF spans, n, e, r
<1>8. /\ r \in Seq(Span) /\ Row(r, N) /\ Len(r) = Len(spans) + 1 /\ r[Len(spans) + 1] = e
      /\ \A i \in 1 .. Len(spans) : r[i] = spans[i]
  BY <1>1, <1>5, RowGrows DEF r
<1>9. \A k \in 1 .. Len(r) : Fits(total, r[k], budget)
  <2> SUFFICES ASSUME NEW k \in 1 .. Len(r) PROVE Fits(total, r[k], budget)
    OBVIOUS
  <2>1. k \in 1 .. Len(spans) \/ k = Len(spans) + 1
    <3>1. Len(spans) \in Nat
      BY <1>5, LenProperties
    <3> QED BY <1>8, <3>1
  <2> QED BY <1>6, <1>7, <1>8, <2>1
<1>10. r # <<>>
  <2>1. Len(spans) \in Nat
    BY <1>5, LenProperties
  <2> QED BY <1>8, <2>1
<1> QED BY <1>4, <1>8, <1>9, <1>10 DEF total, N

\* The two slices of a span.
LEMMA SlicesAre ==
  ASSUME NEW span \in Span, NEW N \in Nat, NEW ndirs \in 0 .. N, span.from <= span.to, span.to <= N
  PROVE  /\ 0 <= Dirs(span, ndirs).from /\ Dirs(span, ndirs).from <= Dirs(span, ndirs).to /\ Dirs(span, ndirs).to <= ndirs
         /\ 0 <= Files(span, ndirs).from /\ Files(span, ndirs).from <= Files(span, ndirs).to /\ Files(span, ndirs).to <= N - ndirs
         /\ Range0(span) = Range0(Dirs(span, ndirs)) \cup {ndirs + e : e \in Range0(Files(span, ndirs))}
<1> DEFINE a == span.from
           b == span.to
           d == Dirs(span, ndirs)
           f == Files(span, ndirs)
<1>1. a \in Nat /\ b \in Nat /\ a <= b /\ b <= N /\ ndirs \in Nat /\ ndirs <= N
  BY DEF Span
<1> HIDE DEF a, b
<1>2. /\ d.from = (IF a <= ndirs THEN a ELSE ndirs) /\ d.to = (IF b <= ndirs THEN b ELSE ndirs)
  <2>1. d.from = Min({a, ndirs}) /\ d.to = Min({b, ndirs})
    BY DEF Dirs, a, b
  <2> QED BY <1>1, <2>1, LeastOfTwo
<1>3. /\ f.from = (IF a - ndirs <= 0 THEN 0 ELSE a - ndirs) /\ f.to = (IF b - ndirs <= 0 THEN 0 ELSE b - ndirs)
  <2>1. f.from = Max({a - ndirs, 0}) /\ f.to = Max({b - ndirs, 0})
    BY DEF Files, a, b
  <2>2. a - ndirs \in Int /\ b - ndirs \in Int /\ 0 \in Int
    BY <1>1
  <2> QED BY <2>1, <2>2, LeastOfTwo
<1> HIDE DEF d, f
<1>4. Range0(span) = a .. b - 1 /\ Range0(d) = d.from .. d.to - 1 /\ Range0(f) = f.from .. f.to - 1
  BY DEF Range0, a, b
<1>5. \A x \in a .. b - 1 : x \in d.from .. d.to - 1 \/ (x - ndirs \in f.from .. f.to - 1 /\ x = ndirs + (x - ndirs))
  BY <1>1, <1>2, <1>3
<1>6. \A x \in d.from .. d.to - 1 : x \in a .. b - 1
  BY <1>1, <1>2
<1>7. \A e \in f.from .. f.to - 1 : ndirs + e \in a .. b - 1
  BY <1>1, <1>3
<1>8. Range0(span) = Range0(d) \cup {ndirs + e : e \in Range0(f)}
  BY <1>4, <1>5, <1>6, <1>7
<1> QED BY <1>1, <1>2, <1>3, <1>8 DEF d, f

\* Whatever is cut.
LEMMA CutIsRight == input \in Inputs \/ input.kind = "none" => ChunksAreRight
<1> SUFFICES ASSUME input \in Inputs \/ input.kind = "none" PROVE ChunksAreRight
  OBVIOUS
<1>1. PiecesCover
  <2> SUFFICES ASSUME input.kind = "text" PROVE PiecesCover
    BY DEF PiecesCover
  <2>1. input.n \in Nat /\ input.c \in Nat \ {0}
    BY ChunkBounds DEF Inputs, Lengths, Pieces
  <2> DEFINE n == input.n
             c == input.c
             last == Count(n, c) - 1
  <2> HIDE DEF n, c, last
  <2>2. /\ \A i \in 0 .. last : Piece(i, n, c).from < Piece(i, n, c).to /\ Piece(i, n, c).to - Piece(i, n, c).from <= c
        /\ \A i \in 1 .. last : Piece(i, n, c).from = Piece(i - 1, n, c).to
        /\ n = 0 => last = 0 - 1
        /\ n # 0 => Piece(0, n, c).from = 0 /\ Piece(last, n, c).to = n
    BY <2>1, Cover DEF n, c, last
  <2> QED BY <2>2 DEF PiecesCover, n, c, last
<1>2. ASSUME input.kind = "list"
      PROVE  /\ input.sizes \in Seq(Nat \ {0}) /\ input.budget \in Nat /\ input.ndirs \in 0 .. Len(input.sizes)
  <2>1. PICK len \in Lengths : input \in [kind : {"list"}, sizes : [1 .. len -> Pieces], ndirs : 0 .. len, budget : Pieces]
    BY <1>2 DEF Inputs
  <2>2. len \in Nat /\ Pieces \subseteq Nat \ {0}
    BY ChunkBounds DEF Lengths, Pieces
  <2>3. input.sizes \in [1 .. len -> Nat \ {0}] /\ input.ndirs \in 0 .. len /\ input.budget \in Nat
    BY <2>1, <2>2
  <2>4. input.sizes \in Seq(Nat \ {0}) /\ Len(input.sizes) = len
    BY <2>2, <2>3
  <2> QED BY <2>3, <2>4
<1> DEFINE spans == Spans(input.sizes, input.budget)
           total == Upto(input.sizes)
           N == Len(input.sizes)
<1>3. ASSUME input.kind = "list"
      PROVE  /\ spans \in Seq(Span) /\ spans # <<>> /\ Row(spans, N)
             /\ \A k \in 1 .. Len(spans) : Fits(total, spans[k], input.budget)
  BY <1>2, <1>3, SpansAre
<1> HIDE DEF spans, total, N
<1>4. SpansFit
  <2> SUFFICES ASSUME input.kind = "list" PROVE SpansFit
    BY DEF SpansFit
  <2>1. spans[1].from = 0 /\ spans[Len(spans)].to = N
    BY <1>3 DEF Row
  <2>2. \A k \in 2 .. Len(spans) : spans[k].from = spans[k - 1].to
    BY <1>3 DEF Row
  <2>3. \A k \in DOMAIN spans : total[spans[k].to] - total[spans[k].from] <= input.budget \/ spans[k].to = spans[k].from + 1
    <3>1. DOMAIN spans = 1 .. Len(spans)
      BY <1>3, LenProperties
    <3> QED BY <1>3, <3>1 DEF Fits
  <2> QED BY <2>1, <2>2, <2>3 DEF SpansFit, spans, total, N
<1>5. SlicesInRange
  <2> SUFFICES ASSUME input.kind = "list" PROVE SlicesInRange
    BY DEF SlicesInRange
  <2> DEFINE ndirs == input.ndirs
  <2>1. N \in Nat /\ ndirs \in 0 .. N
    BY <1>2 DEF N
  <2> HIDE DEF ndirs
  <2>2. ASSUME NEW k \in DOMAIN spans
        PROVE  /\ 0 <= Dirs(spans[k], ndirs).from /\ Dirs(spans[k], ndirs).from <= Dirs(spans[k], ndirs).to
               /\ Dirs(spans[k], ndirs).to <= ndirs
               /\ 0 <= Files(spans[k], ndirs).from /\ Files(spans[k], ndirs).from <= Files(spans[k], ndirs).to
               /\ Files(spans[k], ndirs).to <= N - ndirs
               /\ Range0(spans[k]) = Range0(Dirs(spans[k], ndirs)) \cup {ndirs + e : e \in Range0(Files(spans[k], ndirs))}
    <3> DEFINE span == spans[k]
    <3>1. k \in 1 .. Len(spans)
      BY <1>3, LenProperties
    <3>2. span \in Span
      BY <1>3, <3>1, ElementOfSeq
    <3>3. span.from <= span.to /\ span.to <= N
      BY <1>3, <3>1 DEF Row
    <3> HIDE DEF span
    <3>4. /\ 0 <= Dirs(span, ndirs).from /\ Dirs(span, ndirs).from <= Dirs(span, ndirs).to /\ Dirs(span, ndirs).to <= ndirs
          /\ 0 <= Files(span, ndirs).from /\ Files(span, ndirs).from <= Files(span, ndirs).to
          /\ Files(span, ndirs).to <= N - ndirs
          /\ Range0(span) = Range0(Dirs(span, ndirs)) \cup {ndirs + e : e \in Range0(Files(span, ndirs))}
      BY <2>1, <3>2, <3>3, SlicesAre
    <3> QED BY <3>4 DEF span
  <2> QED BY <2>2 DEF SlicesInRange, spans, ndirs, N
<1> QED BY <1>1, <1>4, <1>5 DEF ChunksAreRight

-----------------------------------------------------------------------------
(* The users together.                                                     *)

\* A step of the users is a step of the transfers or of the tunnels, or neither.
LEMMA UsersApart == [Next]_usersVars => [FileNext]_fileVars /\ [TunnelNext]_tunnelVars
BY DEF Next, usersVars

\* Files, histories, HTTP bodies and directory listings of any length are cut, for
\* pieces and budgets of any size, so that nothing is lost, repeated or out of range
\* (daemon.go:1063-1079, filetransfer.go:565-589, proxy_manager.go:329-339).
THEOREM ChunksRight == Spec => []ChunksAreRight
<1> DEFINE Cut == input \in Inputs \/ input.kind = "none"
<1>1. Init => Cut
  BY DEF Init
<1>2. Cut /\ [Next]_usersVars => Cut'
  BY DEF Next, usersVars
<1>3. Cut => ChunksAreRight
  BY CutIsRight
<1> QED BY <1>1, <1>2, <1>3, PTL DEF Spec

\* What was proved of the transfers, of the tunnels and of what is cut holds as they
\* are run.
THEOREM UsersHold ==
  Spec => [](Cancellable /\ TeardownsDoNotPanic /\ EndMeansAll /\ TableIsTrue /\ ChunksAreRight)
<1>1. Init => FileInit /\ TunnelInit
  BY DEF Init
<1>2. Spec => FileSpec /\ TunnelSpec
  BY <1>1, UsersApart, PTL DEF Spec, FileSpec, TunnelSpec
<1> QED BY <1>2, NoneSlipsOut, TeardownsAreSafe, EndsComplete, TableTrue, ChunksRight, PTL
=============================================================================
