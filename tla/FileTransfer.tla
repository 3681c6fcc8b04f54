---------------------------- MODULE FileTransfer ----------------------------
(***************************************************************************)
(* Files on their way to the app: the staging directory and its list, the  *)
(* transfers, the four ways a transfer is cancelled, and directory lists.  *)
(*                                                                         *)
(* Staged entries and transfers take their ids from one counter.  A file   *)
(* is its number of chunks; the staged copy is an inode, numbered by the   *)
(* entry that created it, because a sender keeps reading the inode it has  *)
(* opened whatever happens to the path.  Paths carry the name and the time *)
(* in seconds, so two stagings within a second may take the same path.     *)
(*                                                                         *)
(* Handlers run on the goroutines of Procs: the relay's reader, the data   *)
(* channel's callback and the local HTTP server.  Each transfer has a      *)
(* sender of its own.                                                      *)
(***************************************************************************)
EXTENDS Integers, Sequences, FiniteSets, SequencesExt, FiniteSetsExt

CONSTANTS
  Procs,        \* goroutines that run handlers
  Paths,        \* paths of staged copies
  MaxIds,       \* bound: entries and transfers together
  Sizes,        \* numbers of chunks a file may have
  MaxTeardowns  \* bound: calls of CancelAll

ASSUME FileBounds == MaxIds \in Nat /\ Sizes \subseteq Nat /\ MaxTeardowns \in Nat

MaxChunks == Max(Sizes \cup {1})
Ids == 1 .. MaxIds
None == 0
Channels == {"p2p", "ts"}   \* the data channel and the relay

VARIABLES
  nextID,     \* FileTransferManager.nextID
  staged,     \* FileTransferManager.staged: entries [id, path]
  active,     \* FileTransferManager.active
  disk, size, \* the inode at each path, the chunks in each inode
  handler,    \* what each goroutine's handler does, with its locals
  task,       \* each FileSendTask with its sender's position and locals
  cancel,     \* task.cancel is closed
  panicked,   \* a closed channel was closed again: the process ends
  changed,    \* ghost: transfers whose file was overwritten after its Stat
  byApp,      \* ghost: the app cancelled a transfer
  teardowns   \* calls of CancelAll so far

store == <<staged, disk, size>>
ghosts == <<changed, byApp>>
notTask == <<nextID, store, active, handler, cancel, panicked, ghosts, teardowns>>
fileVars == <<nextID, store, active, handler, task, cancel, panicked, ghosts, teardowns>>

Resting == [pc |-> "idle", id |-> None, path |-> None]
NoTask == [pc |-> "none", path |-> None, inode |-> None, total |-> 0, sent |-> 0, on |-> "ts"]

FileInit ==
  /\ nextID = 0 /\ staged = <<>> /\ active = {}
  /\ disk = [p \in Paths |-> None] /\ size = [i \in Ids |-> 0]
  /\ handler = [p \in Procs |-> Resting]
  /\ task = [t \in Ids |-> NoTask]
  /\ cancel = [t \in Ids |-> FALSE]
  /\ panicked = FALSE /\ changed = {} /\ byApp = FALSE /\ teardowns = 0

Goto(p, h) == handler' = [handler EXCEPT ![p] = h]
Move(t, pc) == task' = [task EXCEPT ![t].pc = pc]

\* close(task.cancel) for each of T; a second close panics.
CloseEach(T) ==
  /\ cancel' = [t \in Ids |-> cancel[t] \/ t \in T]
  /\ panicked' = \E t \in T : cancel[t]

\* The chunks a transfer announces: at least one, for an empty file too.
TotalChunks(n) == Max({n, 1})

----------------------------------------------------------------------------
(* Staging                                                                 *)

\* StageFile up to the copy.  os.Create empties the inode it finds at the path;
\* a sender that has it open reads the new content from now on.
StageCopy(p, path, n) ==
  /\ handler[p].pc = "idle" /\ nextID < MaxIds
  /\ nextID' = nextID + 1
  /\ LET inode == IF disk[path] # None THEN disk[path] ELSE nextID'
     IN /\ disk' = [disk EXCEPT ![path] = inode]
        /\ size' = [size EXCEPT ![inode] = n]
        /\ changed' = changed \cup {t \in Ids : /\ task[t].pc \notin {"none", "done"}
                                                /\ \/ task[t].inode = inode
                                                   \/ task[t].pc = "open" /\ task[t].path = path}
  /\ Goto(p, [pc |-> "append", id |-> nextID', path |-> path])
  /\ UNCHANGED <<staged, active, task, cancel, panicked, byApp, teardowns>>

\* Its end: the entry is listed, and the app is sent the list.
StageAppend(p) ==
  /\ handler[p].pc = "append"
  /\ staged' = Append(staged, [id |-> handler[p].id, path |-> handler[p].path])
  /\ Goto(p, Resting)
  /\ UNCHANGED <<nextID, active, disk, size, task, cancel, panicked, ghosts, teardowns>>

\* HandleDelete: the entry and its file go.  A transfer is cancelled only if it
\* has the entry's id.
HandleDelete(p, f) ==
  /\ handler[p].pc = "idle"
  /\ \E k \in DOMAIN staged :
       /\ staged[k].id = f
       /\ disk' = [disk EXCEPT ![staged[k].path] = None]
       /\ staged' = RemoveAt(staged, k)
  /\ CloseEach(active \cap {f})
  /\ UNCHANGED <<nextID, active, size, handler, task, ghosts, teardowns>>

----------------------------------------------------------------------------
(* Transfers                                                               *)

\* HandleRequest finds the entry and gives up the lock.
Request(p, f) ==
  /\ handler[p].pc = "idle"
  /\ \E k \in DOMAIN staged :
       /\ staged[k].id = f
       /\ Goto(p, [pc |-> "stat", id |-> f, path |-> staged[k].path])
  /\ UNCHANGED <<nextID, store, active, task, cancel, panicked, ghosts, teardowns>>

\* startSendFromStaged: the file has gone, or the transfer is announced,
\* registered and has a sender.
StartSend(p) ==
  /\ handler[p].pc = "stat"
  /\ LET inode == disk[handler[p].path]
         t == nextID + 1
     IN \/ /\ inode = None
           /\ UNCHANGED <<nextID, active, task>>
        \/ /\ inode # None /\ t \in Ids
           /\ nextID' = t
           /\ active' = active \cup {t}
           /\ task' = [task EXCEPT ![t] = [NoTask EXCEPT !.pc = "open", !.path = handler[p].path,
                                                         !.total = TotalChunks(size[inode])]]
  /\ Goto(p, Resting)
  /\ UNCHANGED <<store, cancel, panicked, ghosts, teardowns>>

\* sendFile opens the file, or tells the app that it cannot.
Open(t) ==
  /\ task[t].pc = "open"
  /\ LET inode == disk[task[t].path]
     IN task' = [task EXCEPT ![t].inode = inode, ![t].pc = IF inode = None THEN "leave" ELSE "poll"]
  /\ UNCHANGED notTask

\* The head of its loop: all announced chunks are sent, the transfer is
\* cancelled, the file is at its end, or there is a chunk to send.
Poll(t) ==
  /\ task[t].pc = "poll"
  /\ LET tk == task[t]
     IN Move(t, IF tk.sent = tk.total THEN "end"
                ELSE IF cancel[t] THEN "leave"
                ELSE IF tk.sent >= size[tk.inode] THEN "end" ELSE "send")
  /\ UNCHANGED notTask

\* sendBytesCancelable takes the channel of the moment, and fails if that is
\* down.  How the channels fare is left open.
PickChannel(t) ==
  /\ task[t].pc \in {"send", "end"}
  /\ \/ Move(t, "leave")
     \/ \E c \in Channels :
          task' = [task EXCEPT ![t].on = c,
                               ![t].pc = IF @ = "send" THEN "sending" ELSE "ending"]
  /\ UNCHANGED notTask

Waits(t) == task[t].pc \in {"sending", "ending"}

\* Mutant: a sender that waits for room in the data channel does not look at cancel.
GiveUpOnRelay(t) ==
  /\ Waits(t) /\ cancel[t] /\ task[t].on = "ts"
  /\ Move(t, "leave")
  /\ UNCHANGED notTask

\* It waits for room in the channel and gives up when cancelled.
GiveUp(t) ==
  /\ Waits(t) /\ cancel[t]
  /\ Move(t, "leave")
  /\ UNCHANGED notTask

\* On the relay it also gives up when that closes; on the data channel it does
\* not look at the connection again.
RelayCloses(t) ==
  /\ Waits(t) /\ task[t].on = "ts"
  /\ Move(t, "leave")
  /\ UNCHANGED notTask

\* Mutant: a sender sends the end after its first chunk.
SentEndsEarly(t) ==
  /\ Waits(t) /\ ~(task[t].on = "p2p" /\ cancel[t])
  /\ task' = [task EXCEPT ![t].pc = IF @ = "ending" THEN "told" ELSE "end", ![t].on = "ts",
                          ![t].sent = IF task[t].pc = "sending" THEN @ + 1 ELSE @]
  /\ UNCHANGED notTask

\* There is room and the frame goes out.  If cancel is closed too, Go's select on
\* the relay takes either arm; the loop on the data channel has looked at it first.
Sent(t) ==
  /\ Waits(t) /\ ~(task[t].on = "p2p" /\ cancel[t])
  /\ task' = [task EXCEPT ![t].pc = IF @ = "ending" THEN "told" ELSE "poll", ![t].on = "ts",
                          ![t].sent = IF task[t].pc = "sending" THEN @ + 1 ELSE @]
  /\ UNCHANGED notTask

\* Its deferred clean-up.
Leave(t) ==
  /\ task[t].pc \in {"leave", "told"}
  /\ active' = active \ {t}
  /\ task' = [task EXCEPT ![t] = [NoTask EXCEPT !.pc = "done"]]
  /\ UNCHANGED <<nextID, store, handler, cancel, panicked, ghosts, teardowns>>

----------------------------------------------------------------------------
(* Cancellation                                                            *)

\* Cancel looks the transfer up under the lock,
CancelLookup(p, t) ==
  /\ handler[p].pc = "idle" /\ task[t].pc # "none"
  /\ t \in active
  /\ byApp' = TRUE
  /\ Goto(p, [pc |-> "close", id |-> t, path |-> None])
  /\ UNCHANGED <<nextID, store, active, task, cancel, panicked, changed, teardowns>>

\* and closes its channel without.
CancelClose(p) ==
  /\ handler[p].pc = "close"
  /\ CloseEach({handler[p].id})
  /\ Goto(p, Resting)
  /\ UNCHANGED <<nextID, store, active, task, ghosts, teardowns>>

\* Mutant: the map is left to the senders.
CancelAllKeepsMap ==
  /\ CloseEach(active)
  /\ UNCHANGED active

\* Mutant: the map is replaced before the channels are closed.
CancelAllForgets ==
  /\ active' = {}
  /\ UNCHANGED <<cancel, panicked>>

\* CancelAll, under the lock.
CancelAll ==
  /\ CloseEach(active)
  /\ active' = {}

\* It is called by peer_offline, kicked, the relay loop, the answerer, Stop and
\* Destroy, each whenever it likes.
Teardown ==
  /\ teardowns < MaxTeardowns /\ teardowns' = teardowns + 1
  /\ CancelAll
  /\ UNCHANGED <<nextID, store, handler, task, ghosts>>

----------------------------------------------------------------------------

Runs(t) == Open(t) \/ Poll(t) \/ PickChannel(t) \/ GiveUp(t) \/ Leave(t)

Handler(p) ==
  \/ \E path \in Paths, n \in Sizes : StageCopy(p, path, n)
  \/ StageAppend(p)
  \/ \E f \in Ids : HandleDelete(p, f) \/ Request(p, f) \/ CancelLookup(p, f)
  \/ StartSend(p) \/ CancelClose(p)

\* A panic ends the process.
FileNext ==
  /\ ~panicked
  /\ \/ \E p \in Procs : Handler(p)
     \/ \E t \in Ids : Runs(t) \/ RelayCloses(t) \/ Sent(t)
     \/ Teardown

\* Senders run; nothing is assumed of the app, the handlers and the channels, which
\* may never have room again.
FileFairness == \A t \in Ids : WF_fileVars(~panicked /\ Runs(t))

FileSpec == FileInit /\ [][FileNext]_fileVars /\ FileFairness

----------------------------------------------------------------------------

FileTypes ==
  /\ nextID \in 0 .. MaxIds /\ teardowns \in 0 .. MaxTeardowns
  /\ staged \in Seq([id : Ids, path : Paths])
  /\ active \subseteq Ids
  /\ disk \in [Paths -> Ids \cup {None}] /\ size \in [Ids -> 0 .. MaxChunks]
  /\ handler \in [Procs -> [pc : {"idle", "append", "stat", "close"}, id : Ids \cup {None},
                            path : Paths \cup {None}]]
  /\ task \in [Ids -> [pc : {"none", "open", "poll", "send", "sending", "end", "ending", "told",
                             "leave", "done"},
                       path : Paths \cup {None}, inode : Ids \cup {None},
                       total : 0 .. MaxChunks, sent : 0 .. MaxChunks, on : Channels]]
  /\ cancel \in [Ids -> BOOLEAN]
  /\ panicked \in BOOLEAN /\ byApp \in BOOLEAN /\ changed \subseteq Ids

Running(t) == task[t].pc \notin {"none", "done"}

\* A transfer that still runs and was not cancelled is in the map, so that the
\* next CancelAll (filetransfer.go:363) reaches it; whatever handlers, deferred
\* clean-ups and teardowns interleave, none slips out.
Cancellable == \A t \in Ids : Running(t) /\ ~cancel[t] => t \in active

\* The teardowns call CancelAll one after the other and at the same time, for the
\* same transfers; only a cancel of the app's own makes one of them close a
\* channel twice (filetransfer.go:354 and 364).
TeardownsDoNotPanic == panicked => byApp

\* When the app is told the end of a transfer (filetransfer.go:336), it has every
\* chunk it was promised, unless the file was staged anew in the same second.
EndMeansAll ==
  \A t \in Ids : task[t].pc = "told" /\ t \notin changed =>
    task[t].sent = task[t].total \/ (task[t].sent = 0 /\ size[task[t].inode] = 0)

\* A cancelled sender ends, wherever it waits and even if no frame moves any more
\* (daemon.go:1513, wsrelay.go:225).
CancelEnds == \A t \in Ids : cancel[t] ~> ~Running(t) \/ panicked
=============================================================================
