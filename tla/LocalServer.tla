---------------------------- MODULE LocalServer -----------------------------
(***************************************************************************)
(* The local WebSocket server: clients on this machine that attach to      *)
(* shells.  Every client has a handler goroutine, every shell a PTY reader *)
(* that broadcasts its output to the shell's controllers, and one          *)
(* goroutine, the loop, writes everything that broadcastCh brings it.      *)
(*                                                                         *)
(* The channel is bounded and send waits, with controllersMu held in a     *)
(* reader; the loop holds ls.mu while it writes to all.  Step by step, who *)
(* holds what and waits for what is as in the code.  A client that ends a  *)
(* connection has a new id when it comes back: here it is another client.  *)
(***************************************************************************)
EXTENDS Integers, Sequences, FiniteSets, SequencesExt, FiniteSetsExt

CONSTANTS
  Clients,     \* connections
  Shells,      \* sessions; creation and exit are Sessions'
  ChCap,       \* capacity of broadcastCh
  MaxRequests, \* bound: requests of all clients
  MaxChunks,   \* bound: chunks all shells put out
  MaxPushes    \* bound: PushState calls

ASSUME LocalBounds == ChCap \in Nat \ {0} /\ {MaxRequests, MaxChunks, MaxPushes} \subseteq Nat

Nobody == "nobody"
All == "all"

\* Neither stands for a client or a shell.
ASSUME LocalNames == Nobody \notin Clients \cup Shells /\ All \notin Clients

VARIABLES
  conns,          \* LocalServer.conns
  clientSessions, \* LocalServer.clientSessions, {} where there is no entry
  controllers,    \* Session.Controllers
  history,        \* chunks in each shell's history
  broadcastCh,    \* LocalServer.broadcastCh
  handler,        \* each client's handler: where it is, its session, what is left of its loop or to send
  reader,         \* each PTY reader: has it output for Broadcast, and whom that has yet to send to
  loop,           \* broadcastLoop: the message it has and whom it has yet to write it to
  csMu,           \* holder of clientSessionsMu, where it is held over a step
  seen,           \* ghost: chunks of each shell that each client was told
  takenOver,      \* ghost: LocalTakeover ran
  destroyed,      \* Close has run: the process exits
  requests, pushes \* counters for the bounds

boundVars == <<requests, pushes>>
localVars == <<conns, clientSessions, controllers, history, broadcastCh, handler, reader, loop, csMu, seen,
               takenOver, destroyed, boundVars>>

Away == [pc |-> "none", sid |-> Nobody, todo |-> {}]
NoMessage == [to |-> Nobody, shell |-> Nobody, chunks |-> {}]

LocalInit ==
  /\ conns = {}
  /\ clientSessions = [c \in Clients |-> {}] /\ controllers = [s \in Shells |-> {}]
  /\ history = [s \in Shells |-> 0] /\ broadcastCh = <<>>
  /\ handler = [c \in Clients |-> Away] /\ reader = [s \in Shells |-> [ready |-> FALSE, todo |-> {}]]
  /\ loop = [msg |-> NoMessage, todo |-> {}] /\ csMu = Nobody
  /\ seen = [c \in Clients |-> [s \in Shells |-> {}]]
  /\ takenOver = FALSE /\ destroyed = FALSE /\ requests = 0 /\ pushes = 0

In(c, pc) == handler[c].pc = pc
Move(c, pc) == handler' = [handler EXCEPT ![c].pc = pc]

\* The loop holds ls.mu while it writes to all; a reader holds its shell's
\* controllersMu until all its controllers are served.
MuFree == loop.msg.to # All
ControllersFree(s) == reader[s].todo = {}

\* A send that waits for room.
HasRoom == Len(broadcastCh) < ChCap
Enqueue(to, s, n) == HasRoom /\ broadcastCh' = Append(broadcastCh, [to |-> to, shell |-> s, chunks |-> n])

----------------------------------------------------------------------------
(* Shells and state                                                        *)

\* A chunk of output goes to the history first;
Output(s) ==
  /\ ~reader[s].ready /\ ControllersFree(s) /\ MapThenSumSet(LAMBDA x : history[x], Shells) < MaxChunks
  /\ history' = [history EXCEPT ![s] = @ + 1]
  /\ reader' = [reader EXCEPT ![s].ready = TRUE]
  /\ UNCHANGED <<conns, clientSessions, controllers, broadcastCh, handler, loop, csMu, seen, takenOver, destroyed, boundVars>>

\* Broadcast takes the controllers of now
BroadcastTo(s) ==
  /\ reader[s].ready
  /\ reader' = [reader EXCEPT ![s] = [ready |-> FALSE, todo |-> controllers[s]]]
  /\ UNCHANGED <<conns, clientSessions, controllers, history, broadcastCh, handler, loop, csMu, seen, takenOver, destroyed, boundVars>>

\* and sends to one after the other, in no fixed order.
Broadcast(s) ==
  \E c \in reader[s].todo :
    /\ Enqueue(c, s, {history[s]})
    /\ reader' = [reader EXCEPT ![s].todo = @ \ {c}]
    /\ UNCHANGED <<conns, clientSessions, controllers, history, handler, loop, csMu, seen, takenOver, destroyed, boundVars>>

\* PushState never waits: the relay loop calls it.
PushState ==
  /\ pushes < MaxPushes /\ pushes' = pushes + 1
  /\ \/ Enqueue(All, Nobody, {})
     \/ ~HasRoom /\ UNCHANGED broadcastCh
  /\ UNCHANGED <<conns, clientSessions, controllers, history, handler, reader, loop, csMu, seen, takenOver, destroyed, requests>>

----------------------------------------------------------------------------
(* The loop                                                                *)

\* The loop takes a message and, for one to all, ls.mu.
Take ==
  /\ loop.msg = NoMessage /\ broadcastCh # <<>>
  /\ loop' = LET m == Head(broadcastCh) IN [msg |-> m, todo |-> IF m.to = All THEN conns ELSE {m.to}]
  /\ broadcastCh' = Tail(broadcastCh)
  /\ UNCHANGED <<conns, clientSessions, controllers, history, handler, reader, csMu, seen, takenOver, destroyed, boundVars>>

\* One write ends: the client has read, or it is gone and the write fails.
WriteMessage ==
  \E c \in loop.todo :
    /\ loop' = [loop EXCEPT !.todo = @ \ {c}]
    /\ seen' = IF c \in conns /\ loop.msg.shell # Nobody
                 THEN [seen EXCEPT ![c][loop.msg.shell] = @ \cup loop.msg.chunks] ELSE seen
    /\ UNCHANGED <<conns, clientSessions, controllers, history, broadcastCh, handler, reader, csMu, takenOver, destroyed, boundVars>>

\* Mutant: ls.mu is given up when the next message comes.
WrittenHoldsOn == loop.todo = {} /\ (loop.msg.to = All => broadcastCh # <<>>)

\* All is written.
Written == loop.todo = {}

WriteEnds ==
  /\ loop.msg # NoMessage /\ Written
  /\ loop' = [loop EXCEPT !.msg = NoMessage]
  /\ UNCHANGED <<conns, clientSessions, controllers, history, broadcastCh, handler, reader, csMu, seen, takenOver, destroyed, boundVars>>

----------------------------------------------------------------------------
(* A client's handler                                                      *)

Connect(c) ==
  /\ In(c, "none") /\ MuFree
  /\ conns' = conns \cup {c}
  /\ Move(c, "idle")
  /\ UNCHANGED <<clientSessions, controllers, history, broadcastCh, reader, loop, csMu, seen, takenOver, destroyed, boundVars>>

\* The next request: what the client asks for, or that it is gone.  Requests that
\* are answered from elsewhere (lists, status, keys, codes) only send an answer.
Request(c) ==
  /\ In(c, "idle") /\ requests < MaxRequests /\ requests' = requests + 1
  /\ \/ \E s \in Shells, pc \in {"attach", "detach"} : handler' = [handler EXCEPT ![c] = [pc |-> pc, sid |-> s, todo |-> {}]]
     \/ handler' = [handler EXCEPT ![c] = [pc |-> "takeover", sid |-> Nobody, todo |-> Shells]]
     \/ \E pc \in {"answer", "stop"} : Move(c, pc)
  /\ UNCHANGED <<conns, clientSessions, controllers, history, broadcastCh, reader, loop, csMu, seen, takenOver, destroyed, pushes>>

Reply(c) ==
  /\ In(c, "answer") /\ Enqueue(c, Nobody, {})
  /\ Move(c, "idle")
  /\ UNCHANGED <<conns, clientSessions, controllers, history, reader, loop, csMu, seen, takenOver, destroyed, boundVars>>

\* attach: the controller first,
Attach(c) ==
  /\ In(c, "attach") /\ ControllersFree(handler[c].sid)
  /\ controllers' = [controllers EXCEPT ![handler[c].sid] = @ \cup {c}]
  /\ Move(c, "added")
  /\ UNCHANGED <<conns, clientSessions, history, broadcastCh, reader, loop, csMu, seen, takenOver, destroyed, boundVars>>

\* Mutant: a client that attaches again leaves the session it just joined.
AttachLocksAll(c) ==
  /\ In(c, "added") /\ csMu = Nobody /\ csMu' = c
  /\ handler' = [handler EXCEPT ![c].pc = "switch", ![c].todo = clientSessions[c]]
  /\ UNCHANGED <<conns, clientSessions, controllers, history, broadcastCh, reader, loop, seen, takenOver, destroyed, boundVars>>

\* then, under clientSessionsMu, the client leaves its other session
AttachLocks(c) ==
  /\ In(c, "added") /\ csMu = Nobody /\ csMu' = c
  /\ handler' = [handler EXCEPT ![c].pc = "switch", ![c].todo = clientSessions[c] \ {handler[c].sid}]
  /\ UNCHANGED <<conns, clientSessions, controllers, history, broadcastCh, reader, loop, seen, takenOver, destroyed, boundVars>>

\* (one of them at a time)
LeaveOld(c) ==
  /\ In(c, "switch")
  /\ \E s \in handler[c].todo :
       /\ ControllersFree(s)
       /\ controllers' = [controllers EXCEPT ![s] = @ \ {c}]
       /\ clientSessions' = [clientSessions EXCEPT ![c] = @ \ {s}]
       /\ handler' = [handler EXCEPT ![c].todo = @ \ {s}]
  /\ UNCHANGED <<conns, history, broadcastCh, reader, loop, csMu, seen, takenOver, destroyed, boundVars>>

\* and is entered;
Enter(c) ==
  /\ In(c, "switch") /\ handler[c].todo = {}
  /\ clientSessions' = [clientSessions EXCEPT ![c] = @ \cup {handler[c].sid}]
  /\ csMu' = Nobody
  /\ Move(c, "attach_ok")
  /\ UNCHANGED <<conns, controllers, history, broadcastCh, reader, loop, seen, takenOver, destroyed, boundVars>>

AttachOK(c) ==
  /\ In(c, "attach_ok") /\ Enqueue(c, Nobody, {})
  /\ Move(c, "history")
  /\ UNCHANGED <<conns, clientSessions, controllers, history, reader, loop, csMu, seen, takenOver, destroyed, boundVars>>

\* last comes the history as it is now.
ReadHistory(c) ==
  /\ In(c, "history")
  /\ handler' = [handler EXCEPT ![c].pc = "send_history", ![c].todo = 1 .. history[handler[c].sid]]
  /\ UNCHANGED <<conns, clientSessions, controllers, history, broadcastCh, reader, loop, csMu, seen, takenOver, destroyed, boundVars>>

SendHistory(c) ==
  /\ In(c, "send_history")
  /\ IF handler[c].todo = {} THEN UNCHANGED broadcastCh ELSE Enqueue(c, handler[c].sid, handler[c].todo)
  /\ handler' = [handler EXCEPT ![c].pc = "idle", ![c].todo = {}]
  /\ UNCHANGED <<conns, clientSessions, controllers, history, reader, loop, csMu, seen, takenOver, destroyed, boundVars>>

\* detach: the controller goes, then the entry.
Detach(c) ==
  /\ In(c, "detach") /\ ControllersFree(handler[c].sid)
  /\ controllers' = [controllers EXCEPT ![handler[c].sid] = @ \ {c}]
  /\ Move(c, "forget")
  /\ UNCHANGED <<conns, clientSessions, history, broadcastCh, reader, loop, csMu, seen, takenOver, destroyed, boundVars>>

Forget(c) ==
  /\ In(c, "forget") /\ csMu = Nobody
  /\ clientSessions' = [clientSessions EXCEPT ![c] = @ \ {handler[c].sid}]
  /\ Move(c, "idle")
  /\ UNCHANGED <<conns, controllers, history, broadcastCh, reader, loop, csMu, seen, takenOver, destroyed, boundVars>>

\* local_takeover: every shell loses its controllers, the clients stay connected.
CloseAllControllers(c) ==
  /\ In(c, "takeover")
  /\ \E s \in handler[c].todo :
       /\ ControllersFree(s)
       /\ controllers' = [controllers EXCEPT ![s] = {}]
       /\ handler' = [handler EXCEPT ![c].todo = @ \ {s}]
  /\ takenOver' = TRUE
  /\ UNCHANGED <<conns, clientSessions, history, broadcastCh, reader, loop, csMu, seen, destroyed, boundVars>>

Takeover(c) ==
  /\ In(c, "takeover") /\ handler[c].todo = {} /\ csMu = Nobody
  /\ clientSessions' = [x \in Clients |-> {}]
  /\ Move(c, "idle")
  /\ UNCHANGED <<conns, controllers, history, broadcastCh, reader, loop, csMu, seen, takenOver, destroyed, boundVars>>

\* The connection ends: its entry is taken,
Disconnect(c) ==
  /\ In(c, "idle") /\ csMu = Nobody
  /\ handler' = [handler EXCEPT ![c].pc = "leave", ![c].todo = clientSessions[c]]
  /\ clientSessions' = [clientSessions EXCEPT ![c] = {}]
  /\ UNCHANGED <<conns, controllers, history, broadcastCh, reader, loop, csMu, seen, takenOver, destroyed, boundVars>>

\* Mutant: a shell whose controllers are being served is left as it is.
DetachIfFree(c, s) == controllers' = [controllers EXCEPT ![s] = IF ControllersFree(s) THEN @ \ {c} ELSE @]

DetachLocalSession(c, s) ==
  /\ ControllersFree(s)
  /\ controllers' = [controllers EXCEPT ![s] = @ \ {c}]

\* its controllers are removed,
Leave(c) ==
  /\ In(c, "leave")
  /\ \E s \in handler[c].todo : DetachLocalSession(c, s) /\ handler' = [handler EXCEPT ![c].todo = @ \ {s}]
  /\ UNCHANGED <<conns, clientSessions, history, broadcastCh, reader, loop, csMu, seen, takenOver, destroyed, boundVars>>

\* and it is no longer written to.
Gone(c) ==
  /\ In(c, "leave") /\ handler[c].todo = {} /\ MuFree
  /\ conns' = conns \ {c}
  /\ Move(c, "gone")
  /\ UNCHANGED <<clientSessions, controllers, history, broadcastCh, reader, loop, csMu, seen, takenOver, destroyed, boundVars>>

\* stop: answered directly, then Destroy.  Close needs ls.mu and closes the channel
\* and the connections; os.Exit follows.
Stop(c) ==
  /\ In(c, "stop") /\ MuFree
  /\ destroyed' = TRUE /\ conns' = {}
  /\ Move(c, "gone")
  /\ UNCHANGED <<clientSessions, controllers, history, broadcastCh, reader, loop, csMu, seen, takenOver, boundVars>>

Handler(c) ==
  \/ Reply(c) \/ Attach(c) \/ AttachLocks(c) \/ LeaveOld(c) \/ Enter(c) \/ AttachOK(c)
  \/ ReadHistory(c) \/ SendHistory(c) \/ Detach(c) \/ Forget(c)
  \/ CloseAllControllers(c) \/ Takeover(c) \/ Leave(c) \/ Gone(c) \/ Stop(c)

Loop == Take \/ WriteMessage \/ WriteEnds

LocalNext ==
  /\ ~destroyed
  /\ \/ PushState \/ Loop
     \/ \E s \in Shells : Output(s) \/ BroadcastTo(s) \/ Broadcast(s)
     \/ \E c \in Clients : Connect(c) \/ Request(c) \/ Disconnect(c) \/ Handler(c)

\* The goroutines run, and a client reads what it is sent or goes away: a write has
\* no deadline, so a client that does neither stops the loop and with it everybody.
\* Go's mutexes and channels serve those who wait in turn; requests and output are
\* bounded here, so that those who wait need not be preferred.
LocalFairness ==
  /\ WF_localVars(~destroyed /\ Loop)
  /\ \A s \in Shells : WF_localVars(~destroyed /\ (BroadcastTo(s) \/ Broadcast(s)))
  /\ \A c \in Clients : WF_localVars(~destroyed /\ Handler(c))

----------------------------------------------------------------------------

Messages == [to : Clients \cup {All}, shell : Shells \cup {Nobody}, chunks : SUBSET (1 .. MaxChunks)]

LocalTypes ==
  /\ conns \subseteq Clients
  /\ clientSessions \in [Clients -> SUBSET Shells] /\ controllers \in [Shells -> SUBSET Clients]
  /\ history \in [Shells -> 0 .. MaxChunks] /\ reader \in [Shells -> [ready : BOOLEAN, todo : SUBSET Clients]]
  /\ broadcastCh \in BoundedSeq(Messages, ChCap)
  /\ loop.msg \in Messages \cup {NoMessage} /\ loop.todo \subseteq Clients
  /\ csMu \in Clients \cup {Nobody}
  /\ seen \in [Clients -> [Shells -> SUBSET (1 .. MaxChunks)]]

\* A controller belongs to a client whose handler will remove it: a shell is not left
\* writing to a client that is gone (local_server.go:257-265).  LocalTakeover clears the
\* map between an attach's two steps, and then one can be left.
NoStrayController ==
  ~takenOver => \A s \in Shells : \A c \in controllers[s] :
    \/ s \in clientSessions[c]
    \/ handler[c].sid = s /\ handler[c].pc \in {"added", "switch"}
    \/ s \in handler[c].todo /\ handler[c].pc = "leave"

\* What is on its way to client c of shell s.
OnTheWay(c, s) ==
  LET msgs == {m \in {broadcastCh[i] : i \in 1 .. Len(broadcastCh)} \cup {loop.msg} : m.to = c /\ m.shell = s}
  IN (UNION {m.chunks : m \in msgs}) \cup
     IF c \in reader[s].todo \/ (reader[s].ready /\ c \in controllers[s]) THEN {history[s]} ELSE {}

\* A client that is attached has seen everything the shell has put out, or it is on its
\* way: nothing falls between the history and the output that follows
\* (local_server.go:304-338).
LocalMissesNothing ==
  ~takenOver => \A c \in Clients, s \in Shells :
    In(c, "idle") /\ s \in clientSessions[c] => 1 .. history[s] \subseteq seen[c][s] \cup OnTheWay(c, s)

\* Every request is served and every client that leaves is dropped, whatever the
\* shells and the other clients do: the locks and the full channel never hold each
\* other up (local_server.go:151-183, pty.go:69-75).
EverybodyServed ==
  \A c \in Clients : handler[c].pc \notin {"none", "idle", "gone"} ~> handler[c].pc \in {"idle", "gone"} \/ destroyed
=============================================================================
