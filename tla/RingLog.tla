------------------------------ MODULE RingLog -------------------------------
(***************************************************************************)
(* The log ring and its subscribers.  Log lines are numbered in the order  *)
(* in which they enter the ring; a line enters under mu and is handed to   *)
(* the subscribers afterwards, so the goroutines that log may overtake     *)
(* each other in between.                                                  *)
(***************************************************************************)
EXTENDS Integers, Sequences, FiniteSets, SequencesExt

CONSTANTS
  Loggers,   \* goroutines that log
  Viewers,   \* subscriptions
  Capacity,  \* entries in the ring (1000)
  Recent,    \* entries a new viewer asks for (100)
  SubCap,    \* capacity of a subscriber's channel (256)
  MaxLines   \* bound: lines logged

ASSUME LogBounds == Capacity \in Nat \ {0} /\ SubCap \in Nat \ {0} /\ {Recent, MaxLines} \subseteq Nat

VARIABLES
  lines,             \* lines logged so far
  entries,           \* RingLogger.entries, 0 where nothing was written
  writeIdx, count,   \* RingLogger.writeIdx and count
  subscribers,       \* RingLogger.subscribers with their channels; they are never removed
  logger,            \* each append in progress: its line, whom it has yet to hand it to
  viewed,            \* what each viewer was sent as recent
  crowded            \* ghost: two lines were handed out at the same time

ringVars == <<lines, entries, writeIdx, count>>
logVars == <<ringVars, subscribers, logger, viewed, crowded>>

Quiet == [pc |-> "idle", line |-> 0, todo |-> {}, at |-> "none"]

LogInit ==
  /\ lines = 0 /\ entries = [i \in 0 .. Capacity - 1 |-> 0] /\ writeIdx = 0 /\ count = 0
  /\ subscribers = [v \in {} |-> <<>>]
  /\ logger = [l \in Loggers |-> Quiet]
  /\ viewed = [v \in Viewers |-> <<>>] /\ crowded = FALSE

\* append, under mu: the line takes the place of the oldest.
Log(l) ==
  /\ logger[l].pc = "idle" /\ lines < MaxLines /\ lines' = lines + 1
  /\ entries' = [entries EXCEPT ![writeIdx] = lines + 1]
  /\ writeIdx' = (writeIdx + 1) % Capacity
  /\ count' = IF count < Capacity THEN count + 1 ELSE count
  /\ logger' = [logger EXCEPT ![l] = [pc |-> "enter", line |-> lines + 1, todo |-> {}, at |-> "none"]]
  /\ UNCHANGED <<subscribers, viewed, crowded>>

\* The subscribers of now, under subMu.
FanOut(l) ==
  /\ logger[l].pc = "enter"
  /\ logger' = [logger EXCEPT ![l].pc = "hand", ![l].todo = DOMAIN subscribers]
  /\ crowded' = (crowded \/ \E x \in Loggers \ {l} : logger[x].pc # "idle")
  /\ UNCHANGED <<ringVars, subscribers, viewed>>

\* A send that does not wait.
TrySend(v, n) ==
  subscribers' = IF Len(subscribers[v]) < SubCap THEN [subscribers EXCEPT ![v] = Append(@, n)] ELSE subscribers

\* The line is sent; where there is no room the next two steps follow.
Hand(l) ==
  /\ logger[l].pc = "hand"
  /\ \E v \in logger[l].todo :
       /\ TrySend(v, logger[l].line)
       /\ logger' = IF Len(subscribers[v]) < SubCap
                      THEN [logger EXCEPT ![l].todo = @ \ {v}]
                      ELSE [logger EXCEPT ![l].pc = "drop", ![l].at = v]
  /\ UNCHANGED <<ringVars, viewed, crowded>>

\* Mutant: the newest line in the channel makes room.
DropOneLast(s) == IF s = <<>> THEN s ELSE Front(s)

\* The oldest in the channel makes room, unless the viewer has taken it meanwhile.
DropOne(s) == IF s = <<>> THEN s ELSE Tail(s)

Drop(l) ==
  /\ logger[l].pc = "drop"
  /\ subscribers' = [subscribers EXCEPT ![logger[l].at] = DropOne(@)]
  /\ logger' = [logger EXCEPT ![l].pc = "again"]
  /\ UNCHANGED <<ringVars, viewed, crowded>>

\* The send is tried once more.
Again(l) ==
  /\ logger[l].pc = "again"
  /\ TrySend(logger[l].at, logger[l].line)
  /\ logger' = [logger EXCEPT ![l].pc = "hand", ![l].todo = @ \ {logger[l].at}, ![l].at = "none"]
  /\ UNCHANGED <<ringVars, viewed, crowded>>

Logged(l) ==
  /\ logger[l].pc = "hand" /\ logger[l].todo = {}
  /\ logger' = [logger EXCEPT ![l] = Quiet]
  /\ UNCHANGED <<ringVars, subscribers, viewed, crowded>>

\* Subscribe adds a channel; it waits for those who are handing out.
Subscribe(v) ==
  /\ v \notin DOMAIN subscribers /\ \A l \in Loggers : logger[l].pc \in {"idle", "enter"}
  /\ subscribers' = [x \in DOMAIN subscribers \cup {v} |-> IF x = v THEN <<>> ELSE subscribers[x]]
  /\ UNCHANGED <<ringVars, logger, viewed, crowded>>

\* Mutant: as if the ring were always full.
OldestIfFull == writeIdx

\* Where the oldest entry is.
Oldest == (writeIdx - count + Capacity) % Capacity

\* GetRecent.
GetRecent(n) == [i \in 1 .. (IF n > count THEN count ELSE n) |-> entries[(Oldest + i - 1) % Capacity]]

\* A new viewer gets the recent lines once subscribed.
View(v) ==
  /\ v \in DOMAIN subscribers /\ viewed[v] = <<>>
  /\ viewed' = [viewed EXCEPT ![v] = GetRecent(Recent)]
  /\ UNCHANGED <<ringVars, subscribers, logger, crowded>>

\* The viewer's goroutine forwards a line.
Forward(v) ==
  /\ v \in DOMAIN subscribers /\ subscribers[v] # <<>>
  /\ subscribers' = [subscribers EXCEPT ![v] = Tail(@)]
  /\ UNCHANGED <<ringVars, logger, viewed, crowded>>

LogNext ==
  \/ \E l \in Loggers : Log(l) \/ FanOut(l) \/ Hand(l) \/ Drop(l) \/ Again(l) \/ Logged(l)
  \/ \E v \in Viewers : Subscribe(v) \/ View(v) \/ Forward(v)

LogSpec == LogInit /\ [][LogNext]_logVars

----------------------------------------------------------------------------

LogTypes ==
  /\ entries \in [0 .. Capacity - 1 -> 0 .. MaxLines] /\ writeIdx \in 0 .. Capacity - 1 /\ count \in 0 .. Capacity
  /\ \A v \in DOMAIN subscribers : subscribers[v] \in BoundedSeq(1 .. MaxLines, SubCap)

\* Read from its oldest entry the ring is the last lines in the order they were logged,
\* before and after it is full (ring_logger.go:52-58, 115-119).
RingIsTheLog == GetRecent(Capacity) = [i \in 1 .. count |-> lines - count + i]

\* A viewer that is too slow loses the oldest lines only ("backpressure: drop oldest
\* from channel", ring_logger.go:66-76): what waits for it has no gap.  Lines handed
\* out at the same time can be out of order, and a second drop can cost the newest.
DropsOldest ==
  ~crowded => \A v \in DOMAIN subscribers : LET s == subscribers[v] IN
    \A i \in 2 .. Len(s) : s[i] = s[i - 1] + 1
=============================================================================
