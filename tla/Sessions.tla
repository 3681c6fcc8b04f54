------------------------------ MODULE Sessions ------------------------------
(***************************************************************************)
(* The terminal sessions of the daemon and what the app sees of them: the  *)
(* pool, creation and destruction, the end of a shell, the history an app  *)
(* asks for and the output it is subscribed to.                            *)
(*                                                                         *)
(* A session object is a number, in the order of creation.  Its id is the  *)
(* one the app chose or, for the pool and for local clients, a random one, *)
(* for which the object's own number stands.  The id is the key of         *)
(* PTYManager.sessions, of the order list and of the subscriptions.        *)
(*                                                                         *)
(* Each object has three goroutines of its own: the shell, readLoop and    *)
(* waitExit; the app's messages are handled by one reader.  A handler is   *)
(* cut where it gives up a lock (pm.mu, subMu, Terminal.mu).               *)
(***************************************************************************)
EXTENDS Integers, Sequences, FiniteSets, SequencesExt

CONSTANTS
  AppIds,       \* session ids the app makes up
  PoolSize,     \* Config.PoolSize
  MaxSessions,  \* bound: session objects ever made
  MaxOutput,    \* bound: chunks of output, all sessions together
  MaxExits,     \* bound: shells that end of their own accord
  MaxFailures   \* bound: startPty calls that fail

ASSUME PoolAssumption == PoolSize \in Nat /\ MaxSessions \in Nat /\ PoolSize <= MaxSessions
ASSUME SessionsBounds == MaxOutput \in Nat /\ MaxExits \in Nat /\ MaxFailures \in Nat

Objects == 1 .. MaxSessions
ASSUME IdsAssumption == AppIds \cap Objects = {}
Ids == AppIds \cup Objects
None == 0

VARIABLES
  made,        \* number of objects made so far
  id,          \* Session.ID of each object
  shell,       \* its process: none, alive, dead
  closed,      \* Session.Close has run: the PTY is closed
  sessions,    \* PTYManager.sessions
  order,       \* PTYManager.order
  seq,         \* Terminal.seq: chunks written to the history
  loop,        \* readLoop: what it does and the chunk it holds
  waiter,      \* waitExit: what it does and the deficit it has to make up
  subscribed,  \* Daemon.subscribed
  verified,    \* Daemon.secCodeVerified
  reader,      \* the handler of the app's messages and its locals
  has,         \* chunks of each object the app has without a gap, from history
               \* and output; Lost when it was not subscribed all the time
  exits, fails \* counters for the bounds

tableVars == <<sessions, order>>
vars == <<made, id, shell, closed, tableVars, seq, loop, waiter, subscribed,
          verified, reader, has, exits, fails>>

Lost == 0 - 1   \* Go's numbers start at 0
Resting == [pc |-> "idle", id |-> None, seq |-> 0]
Reading == [pc |-> "read", chunk |-> 0]
Waiting == [pc |-> "wait", deficit |-> 0]

TotalOutput == FoldFunctionOnSet(LAMBDA a, b : a + b, 0, seq, Objects)

\* NewDaemon and Init: the first PoolSize objects are the pool.
Init ==
  /\ made = PoolSize
  /\ id = [s \in Objects |-> IF s <= PoolSize THEN s ELSE None]
  /\ shell = [s \in Objects |-> IF s <= PoolSize THEN "alive" ELSE "none"]
  /\ closed = [s \in Objects |-> FALSE]
  /\ sessions = [i \in Ids |-> IF i \in 1 .. PoolSize THEN i ELSE None]
  /\ order = [k \in 1 .. PoolSize |-> k]
  /\ seq = [s \in Objects |-> 0]
  /\ loop = [s \in Objects |-> Reading]
  /\ waiter = [s \in Objects |-> Waiting]
  /\ subscribed = {} /\ verified = FALSE
  /\ reader = Resting
  /\ has = [s \in Objects |-> Lost]
  /\ exits = 0 /\ fails = 0

----------------------------------------------------------------------------
(* Helpers, each the body of a function of the source.                     *)

\* Registers object s under i, starts its shell and its two goroutines.
Create(s, i) ==
  /\ s = made + 1 /\ s \in Objects
  /\ made' = s
  /\ id' = [id EXCEPT ![s] = i]
  /\ shell' = [shell EXCEPT ![s] = "alive"]
  /\ sessions' = [sessions EXCEPT ![i] = s]
  /\ order' = Append(order, i)

\* startPty fails and nothing is registered.
CreateFails ==
  /\ fails < MaxFailures
  /\ fails' = fails + 1
  /\ UNCHANGED <<made, id, shell, tableVars>>

\* delete(pm.sessions, id) and removeOrder(id), which drops the first match.
Unregister(i) ==
  /\ sessions' = [sessions EXCEPT ![i] = None]
  /\ order' = RemoveFirst(order, i)

\* ListSessions: the places in the order list whose id the map still knows.
\* replenishPool, its caller here, counts them.
Listed == {k \in DOMAIN order : sessions[order[k]] # None}

\* The objects an app means by i.
Named(i) == {s \in Objects : id[s] = i}

\* A subscription ends: what comes next for these objects, the app misses.
Unattended(S) == has' = [s \in Objects |-> IF s \in S THEN Lost ELSE has[s]]

\* The app drops a chunk it has already; after a gap it has no more than before.
Extended(n, chunk) == IF n # Lost /\ chunk = n + 1 THEN chunk ELSE n

----------------------------------------------------------------------------
(* The shell, readLoop and waitExit of an object.                          *)

\* A shell ends by itself, or because its terminal was closed.
ShellEnds(s) ==
  /\ shell[s] = "alive"
  /\ \/ closed[s] /\ UNCHANGED exits
     \/ ~closed[s] /\ exits < MaxExits /\ exits' = exits + 1
  /\ shell' = [shell EXCEPT ![s] = "dead"]
  /\ UNCHANGED <<made, id, closed, tableVars, seq, loop, waiter, subscribed,
                 verified, reader, has, fails>>

\* readLoop reads a chunk and writes it to the history, which numbers it.  What
\* a dead shell has left in the terminal can still be read; a closed terminal
\* makes pty.Read fail, and readLoop ends.
ReadChunk(s) ==
  /\ shell[s] # "none" /\ ~closed[s] /\ loop[s].pc = "read"
  /\ TotalOutput < MaxOutput
  /\ seq' = [seq EXCEPT ![s] = @ + 1]
  /\ loop' = [loop EXCEPT ![s] = [pc |-> "send", chunk |-> seq[s] + 1]]
  /\ UNCHANGED <<made, id, shell, closed, tableVars, waiter, subscribed,
                 verified, reader, has, exits, fails>>

\* sendOutput looks the subscription up...
CheckSubscribed(s) ==
  /\ loop[s].pc = "send"
  /\ loop' = [loop EXCEPT ![s] =
               IF id[s] \in subscribed THEN [@ EXCEPT !.pc = "subscribed"] ELSE Reading]
  /\ UNCHANGED <<made, id, shell, closed, tableVars, seq, waiter, subscribed,
                 verified, reader, has, exits, fails>>

\* ...and sends the chunk unless the connection is not verified.
SendOutput(s) ==
  /\ loop[s].pc = "subscribed"
  /\ loop' = [loop EXCEPT ![s] = Reading]
  /\ IF verified THEN has' = [has EXCEPT ![s] = Extended(@, loop[s].chunk)]
     ELSE Unattended({s})
  /\ UNCHANGED <<made, id, shell, closed, tableVars, seq, waiter, subscribed,
                 verified, reader, exits, fails>>

\* waitExit: the id leaves the tables, whichever object it means by now.
WaitReturns(s) ==
  /\ shell[s] = "dead" /\ waiter[s].pc = "wait"
  /\ Unregister(id[s])
  /\ waiter' = [waiter EXCEPT ![s].pc = "close"]
  /\ UNCHANGED <<made, id, shell, closed, seq, loop, subscribed, verified,
                 reader, has, exits, fails>>

\* Session.Close, and OnExit drops the subscription and tells the app.  Closing
\* the terminal commutes with what the others do until then: one action.
OnExit(s) ==
  /\ waiter[s].pc = "close"
  /\ closed' = [closed EXCEPT ![s] = TRUE]
  /\ subscribed' = subscribed \ {id[s]}
  /\ Unattended(Named(id[s]))
  /\ waiter' = [waiter EXCEPT ![s].pc = "list"]
  /\ UNCHANGED <<made, id, shell, tableVars, seq, loop, verified, reader, exits, fails>>

\* Mutant: the pool is found short one session too late.
ReplenishListLate(s) ==
  /\ waiter[s].pc = "list"
  /\ waiter' = [waiter EXCEPT ![s] =
       IF Cardinality(Listed) + 1 < PoolSize
       THEN [pc |-> "create", deficit |-> PoolSize - Cardinality(Listed)]
       ELSE [pc |-> "end", deficit |-> 0]]
  /\ UNCHANGED <<made, id, shell, closed, tableVars, seq, loop, subscribed,
                 verified, reader, has, exits, fails>>

\* replenishPool counts the sessions...
ReplenishList(s) ==
  /\ waiter[s].pc = "list"
  /\ waiter' = [waiter EXCEPT ![s] =
       IF Cardinality(Listed) < PoolSize
       THEN [pc |-> "create", deficit |-> PoolSize - Cardinality(Listed)]
       ELSE [pc |-> "end", deficit |-> 0]]
  /\ UNCHANGED <<made, id, shell, closed, tableVars, seq, loop, subscribed,
                 verified, reader, has, exits, fails>>

\* ...and makes as many as were missing then; a failed start is not repeated.
ReplenishCreate(s) ==
  /\ waiter[s].pc = "create"
  /\ \/ Create(made + 1, made + 1) /\ UNCHANGED fails
     \/ CreateFails
  /\ waiter' = [waiter EXCEPT ![s] =
       IF @.deficit = 1 THEN [pc |-> "end", deficit |-> 0]
       ELSE [pc |-> "create", deficit |-> @.deficit - 1]]
  /\ UNCHANGED <<closed, seq, loop, subscribed, verified, reader, has, exits>>

----------------------------------------------------------------------------
(* The app's messages.  checkSecCode comes first: not verified, nothing    *)
(* happens.                                                                *)

Accepts == reader.pc = "idle" /\ verified

\* create_session subscribes before the shell is started...
HandleCreateSession(i) ==
  /\ Accepts
  /\ subscribed' = subscribed \cup {i}
  /\ reader' = [Resting EXCEPT !.pc = "create", !.id = i]
  /\ UNCHANGED <<made, id, shell, closed, tableVars, seq, loop, waiter,
                 verified, has, exits, fails>>

\* ...starts it; an id that is in use is registered again...
CreateSession ==
  /\ reader.pc = "create"
  /\ Create(made + 1, reader.id)
  /\ has' = [has EXCEPT ![made + 1] = IF reader.id \in subscribed THEN 0 ELSE Lost]
  /\ reader' = Resting
  /\ UNCHANGED <<closed, seq, loop, waiter, subscribed, verified, exits, fails>>

\* ...or, when that fails, unsubscribes again.
CreateSessionFails ==
  /\ reader.pc = "create"
  /\ CreateFails
  /\ subscribed' = subscribed \ {reader.id}
  /\ Unattended(Named(reader.id))
  /\ reader' = Resting
  /\ UNCHANGED <<closed, seq, loop, waiter, verified, exits>>

\* destroy_session: PTYManager.Destroy takes the session out of the tables...
Destroy(i) ==
  /\ Accepts
  /\ IF sessions[i] = None THEN UNCHANGED tableVars ELSE Unregister(i)
  /\ reader' = [pc |-> "destroy", id |-> i, seq |-> sessions[i]]
  /\ UNCHANGED <<made, id, shell, closed, seq, loop, waiter, subscribed,
                 verified, has, exits, fails>>

\* Mutant: the session is only taken out of the tables.
DestroyForgets ==
  /\ reader.pc = "destroy"
  /\ subscribed' = subscribed \ {reader.id}
  /\ Unattended(Named(reader.id))
  /\ reader' = Resting
  /\ UNCHANGED <<made, id, shell, closed, tableVars, seq, loop, waiter,
                 verified, exits, fails>>

\* ...and closes it; then the subscription goes.
DestroyCloses ==
  /\ reader.pc = "destroy"
  /\ closed' = [s \in Objects |-> closed[s] \/ s = reader.seq]
  /\ subscribed' = subscribed \ {reader.id}
  /\ Unattended(Named(reader.id))
  /\ reader' = Resting
  /\ UNCHANGED <<made, id, shell, tableVars, seq, loop, waiter, verified, exits, fails>>

\* Mutant: live output is held back while the history is sent.
HandleHistoryPauses(i) ==
  LET s == sessions[i] IN
  /\ Accepts
  /\ IF s = None THEN UNCHANGED has
     ELSE has' = [has EXCEPT ![s] = IF i \in subscribed THEN seq[s] ELSE Lost]
  /\ subscribed' = subscribed \ {i}
  /\ reader' = [Resting EXCEPT !.pc = "subscribe", !.id = i]
  /\ UNCHANGED <<made, id, shell, closed, tableVars, seq, loop, waiter,
                 verified, exits, fails>>

\* request_history: Terminal.Read gives the content and its number, which are
\* sent in one piece or in chunks...
HandleHistory(i) ==
  LET s == sessions[i] IN
  /\ Accepts
  /\ IF s = None THEN UNCHANGED has
     ELSE has' = [has EXCEPT ![s] = IF i \in subscribed THEN seq[s] ELSE Lost]
  /\ reader' = [Resting EXCEPT !.pc = "subscribe", !.id = i]
  /\ UNCHANGED <<made, id, shell, closed, tableVars, seq, loop, waiter,
                 subscribed, verified, exits, fails>>

\* ...and only then is the output subscribed to, known session or not.
HistorySubscribes ==
  /\ reader.pc = "subscribe"
  /\ subscribed' = subscribed \cup {reader.id}
  /\ reader' = Resting
  /\ UNCHANGED <<made, id, shell, closed, tableVars, seq, loop, waiter,
                 verified, has, exits, fails>>

----------------------------------------------------------------------------
(* Around the app.                                                         *)

\* kicked, peer_offline, the end of a relay connection, a local takeover.
ClearSubscriptions ==
  /\ subscribed' = {}
  /\ Unattended(Objects)
  /\ UNCHANGED <<made, id, shell, closed, tableVars, seq, loop, waiter,
                 verified, reader, exits, fails>>

\* A handshake succeeds; or a new peer, a channel switch or a new code undoes it.
VerificationChanges ==
  /\ verified' = ~verified
  /\ UNCHANGED <<made, id, shell, closed, tableVars, seq, loop, waiter,
                 subscribed, reader, has, exits, fails>>

Shell(s) ==
  \/ ShellEnds(s)
  \/ ReadChunk(s) \/ CheckSubscribed(s) \/ SendOutput(s)
  \/ WaitReturns(s) \/ OnExit(s)
  \/ ReplenishList(s) \/ ReplenishCreate(s)

App ==
  \/ \E i \in AppIds : HandleCreateSession(i)
  \/ CreateSession \/ CreateSessionFails
  \/ \E i \in AppIds \cup {j \in Ids : sessions[j] # None} :
       Destroy(i) \/ HandleHistory(i)
  \/ DestroyCloses
  \/ HistorySubscribes

Next ==
  \/ \E s \in Objects : Shell(s)
  \/ App
  \/ ClearSubscriptions
  \/ VerificationChanges

Spec == Init /\ [][Next]_vars

----------------------------------------------------------------------------
(* Properties.                                                             *)

\* Every variable holds a value of its type.
TypeOK ==
  /\ made \in 0 .. MaxSessions
  /\ id \in [Objects -> Ids \cup {None}]
  /\ shell \in [Objects -> {"none", "alive", "dead"}]
  /\ closed \in [Objects -> BOOLEAN]
  /\ sessions \in [Ids -> Objects \cup {None}]
  /\ order \in Seq(Ids)
  /\ seq \in [Objects -> Nat]
  /\ loop \in [Objects -> [pc : {"read", "send", "subscribed"}, chunk : Nat]]
  /\ waiter \in [Objects -> [pc : {"wait", "close", "list", "create", "end"},
                             deficit : 0 .. PoolSize]]
  /\ subscribed \in SUBSET Ids /\ verified \in BOOLEAN
  /\ reader \in [pc : {"idle", "create", "destroy", "subscribe"},
                 id : Ids \cup {None}, seq : Objects \cup {0}]
  /\ has \in [Objects -> Nat \cup {Lost}]
  /\ exits \in Nat /\ fails \in Nat

\* An app that created the session itself, or asked for the history while it
\* was subscribed, has every chunk up to the last one readLoop is done with,
\* until its subscription is dropped or output meets an unverified connection
\* (handleCreateSession subscribes "BEFORE creating PTY to prevent losing
\* initial shell output").
Done(s) == IF loop[s].pc \in {"send", "subscribed"} THEN seq[s] - 1 ELSE seq[s]
AttendedMissesNothing ==
  \A s \in Objects : has[s] # Lost => has[s] >= Done(s)

\* Objects whose id no other object ever had.
Sole(s) == id[s] # None /\ Named(id[s]) = {s}

\* A running shell can be reached under its id unless it is being closed:
\* Destroy, waitExit and the pool together lose no process (for an id that was
\* not registered twice).
NoOrphans ==
  \A s \in Objects :
    Sole(s) /\ shell[s] = "alive" =>
      \/ sessions[id[s]] = s
      \/ closed[s]
      \/ reader.pc = "destroy" /\ reader.seq = s

\* However exits, destructions and refills interleave, the pool is full again
\* when they are over: no shell is ending, no end of a shell is being handled,
\* no session is being destroyed, and every refill could start its shells.
Settled(s) == (shell[s] = "alive" /\ ~closed[s]) \/ waiter[s].pc = "end"
PoolRefilled ==
  (\A s \in 1 .. made : Settled(s)) /\ reader.pc # "destroy" /\ fails = 0
    => Cardinality(Listed) >= PoolSize
=============================================================================
