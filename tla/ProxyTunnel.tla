---------------------------- MODULE ProxyTunnel -----------------------------
(***************************************************************************)
(* Connections the daemon opens on the app's behalf: TCP and WebSocket     *)
(* tunnels, which go through the same life.  The app names a connection    *)
(* with a key; the tables conns and wsConns are one function of keys here. *)
(*                                                                         *)
(* Every connection has a goroutine that dials, registers and reads.  The  *)
(* app's frames are written to the target by the relay's reader, which     *)
(* blocks while a target does not read; nothing but the relay's missed     *)
(* pongs and the clean-up after it gets the reader out of there.           *)
(***************************************************************************)
EXTENDS Integers, FiniteSets

CONSTANTS
  Keys,       \* names the app gives to connections
  MaxConns,   \* bound: connections dialled
  MaxLinks    \* bound: relay connections

ASSUME TunnelBounds == MaxConns \in Nat /\ MaxLinks \in Nat \ {0}

Conns == 1 .. MaxConns
Nobody == 0

VARIABLES
  dialled,   \* connections asked for so far
  conn,      \* each connection: its key, where its goroutine is, its socket
  table,     \* ProxyManager.conns and wsConns
  doomed,    \* taken out of the table and about to be closed by whoever took it
  stalled,   \* the target does not read: a write to it blocks
  writing,   \* the connection the relay's reader is writing to
  relay,     \* the relay connection: up, down, or the loop cleaning up after it
  links      \* relay connections so far

tunnelVars == <<dialled, conn, table, doomed, stalled, writing, relay, links>>

NoConn == [key |-> Nobody, pc |-> "none", sock |-> "none"]

TunnelInit ==
  /\ dialled = 0
  /\ conn = [c \in Conns |-> NoConn]
  /\ table = [k \in Keys |-> Nobody]
  /\ doomed = {} /\ stalled = {} /\ writing = Nobody
  /\ relay = "up" /\ links = 1

At(c, pc) == conn[c].pc = pc
GoOn(c, pc) == conn' = [conn EXCEPT ![c].pc = pc]

----------------------------------------------------------------------------
(* A connection's own goroutine                                            *)

\* HandleConnect and HandleWsConnect: the dial runs on a new goroutine.
HandleConnect(k) ==
  /\ relay = "up" /\ writing = Nobody /\ dialled < MaxConns
  /\ dialled' = dialled + 1
  /\ conn' = [conn EXCEPT ![dialled + 1] = [key |-> k, pc |-> "dial", sock |-> "none"]]
  /\ UNCHANGED <<table, doomed, stalled, writing, relay, links>>

\* The dial fails or times out, and the app is told.
DialFails(c) ==
  /\ At(c, "dial")
  /\ GoOn(c, "done")
  /\ UNCHANGED <<dialled, table, doomed, stalled, writing, relay, links>>

\* It succeeds: the connection is registered under its key, whatever was there.
Register(c) ==
  /\ At(c, "dial")
  /\ conn' = [conn EXCEPT ![c].pc = "connected", ![c].sock = "open"]
  /\ table' = [table EXCEPT ![conn[c].key] = c]
  /\ UNCHANGED <<dialled, doomed, stalled, writing, relay, links>>

\* proxy_connected goes out and readLoop starts.
TellConnected(c) ==
  /\ At(c, "connected")
  /\ GoOn(c, "read")
  /\ UNCHANGED <<dialled, table, doomed, stalled, writing, relay, links>>

\* readLoop gets data and passes it on; parked on a full relay it goes on when
\* that drains or closes.
Read(c) ==
  /\ At(c, "read") /\ conn[c].sock = "open"
  /\ GoOn(c, "send")
  /\ UNCHANGED <<dialled, table, doomed, stalled, writing, relay, links>>

Sends(c) ==
  /\ At(c, "send")
  /\ GoOn(c, "read")
  /\ UNCHANGED <<dialled, table, doomed, stalled, writing, relay, links>>

\* Read fails because an end closed the socket: the app is told.
ReadFails(c) ==
  /\ At(c, "read") /\ conn[c].sock # "open"
  /\ GoOn(c, "remove")
  /\ UNCHANGED <<dialled, table, doomed, stalled, writing, relay, links>>

\* It finds cancel closed first, and says nothing.
ReadCanceled(c) ==
  /\ At(c, "read") /\ conn[c].sock = "closed"
  /\ GoOn(c, "remove")
  /\ UNCHANGED <<dialled, table, doomed, stalled, writing, relay, links>>

----------------------------------------------------------------------------
(* Removal                                                                 *)

\* Mutant: the entry stays until the connection has been closed.
TakeKeepsEntry(k) ==
  /\ UNCHANGED table
  /\ doomed' = IF table[k] = Nobody THEN doomed ELSE doomed \cup {table[k]}

\* removeConn up to the unlock: whatever the key names now is taken out.
Take(k) ==
  /\ table' = [table EXCEPT ![k] = Nobody]
  /\ doomed' = IF table[k] = Nobody THEN doomed ELSE doomed \cup {table[k]}

\* Mutant: the cancel channel is closed and the socket is not.
CloseOnceNoSocket(c) ==
  /\ c \in doomed
  /\ doomed' = doomed \ {c}
  /\ UNCHANGED <<dialled, conn, table, stalled, writing, relay, links>>

\* once.Do: cancel and the socket are closed.
CloseOnce(c) ==
  /\ c \in doomed
  /\ doomed' = doomed \ {c}
  /\ conn' = [conn EXCEPT ![c].sock = "closed"]
  /\ UNCHANGED <<dialled, table, stalled, writing, relay, links>>

\* readLoop's deferred removal, by key.
ReadLoopRemoves(c) ==
  /\ At(c, "remove")
  /\ GoOn(c, "done")
  /\ Take(conn[c].key)
  /\ UNCHANGED <<dialled, stalled, writing, relay, links>>

\* HandleClose and HandleWsClose.
HandleClose(k) ==
  /\ relay = "up" /\ writing = Nobody
  /\ Take(k)
  /\ UNCHANGED <<dialled, conn, stalled, writing, relay, links>>

\* CloseAll up to the unlock.
CloseAll ==
  /\ table' = [k \in Keys |-> Nobody]
  /\ doomed' = doomed \cup {table[k] : k \in {j \in Keys : table[j] # Nobody}}

----------------------------------------------------------------------------
(* The app's frames, the relay and the target                              *)

\* HandleData and HandleWsMessage look the connection up and write to it.
HandleData(k) ==
  /\ relay = "up" /\ writing = Nobody
  /\ table[k] # Nobody
  /\ writing' = table[k]
  /\ UNCHANGED <<dialled, conn, table, doomed, stalled, relay, links>>

\* The write succeeds, or fails on a closed socket and the key is removed.
WriteEnds ==
  /\ writing # Nobody
  /\ \/ /\ conn[writing].sock = "open" /\ writing \notin stalled
        /\ UNCHANGED <<table, doomed>>
     \/ /\ conn[writing].sock # "open"
        /\ Take(conn[writing].key)
  /\ writing' = Nobody
  /\ UNCHANGED <<dialled, conn, stalled, relay, links>>

\* While its reader is blocked the relay sees no pongs, and pingLoop gives it up.
PongsMissed ==
  /\ relay = "up" /\ writing # Nobody
  /\ relay' = "down"
  /\ UNCHANGED <<dialled, conn, table, doomed, stalled, writing, links>>

\* It goes down for any other reason, too.
RelayLost ==
  /\ relay = "up" /\ relay' = "down"
  /\ UNCHANGED <<dialled, conn, table, doomed, stalled, writing, links>>

\* tsRelayLoop cleans up,
LoopCleansUp ==
  /\ relay = "down" /\ relay' = "clean"
  /\ CloseAll
  /\ UNCHANGED <<dialled, conn, stalled, writing, links>>

\* and connects again; the new relay has a reader of its own.
Reconnect ==
  /\ relay = "clean" /\ writing = Nobody /\ links < MaxLinks
  /\ relay' = "up" /\ links' = links + 1
  /\ UNCHANGED <<dialled, conn, table, doomed, stalled, writing>>

\* The target stops reading, reads again, or closes.
Target(c) ==
  /\ conn[c].sock = "open"
  /\ \/ stalled' = stalled \cup {c} /\ UNCHANGED conn
     \/ stalled' = stalled \ {c} /\ UNCHANGED conn
     \/ conn' = [conn EXCEPT ![c].sock = "eof"] /\ UNCHANGED stalled
  /\ UNCHANGED <<dialled, table, doomed, writing, relay, links>>

Goroutine(c) ==
  \/ DialFails(c) \/ Register(c) \/ TellConnected(c) \/ Sends(c) \/ ReadFails(c)
  \/ ReadCanceled(c) \/ ReadLoopRemoves(c)

TunnelNext ==
  \/ \E c \in Conns : Goroutine(c) \/ Read(c) \/ CloseOnce(c) \/ Target(c)
  \/ \E k \in Keys : HandleConnect(k) \/ HandleClose(k) \/ HandleData(k)
  \/ WriteEnds \/ PongsMissed \/ RelayLost \/ LoopCleansUp \/ Reconnect

\* Goroutines run: dials time out, a parked frame gets through or its relay closes
\* (RelaySend: SendersUnpark), pings are counted, whoever took a connection closes
\* it.  Nothing is assumed of the app or of the targets.
TunnelFairness ==
  /\ \A c \in Conns : WF_tunnelVars(Goroutine(c)) /\ WF_tunnelVars(CloseOnce(c))
  /\ WF_tunnelVars(WriteEnds) /\ WF_tunnelVars(PongsMissed) /\ WF_tunnelVars(LoopCleansUp)

TunnelSpec == TunnelInit /\ [][TunnelNext]_tunnelVars /\ TunnelFairness

----------------------------------------------------------------------------

TunnelTypes ==
  /\ dialled \in 0 .. MaxConns /\ links \in 1 .. MaxLinks
  /\ conn \in [Conns -> {NoConn} \cup
                        [key : Keys, pc : {"dial", "connected", "read", "send", "remove", "done"},
                         sock : {"none", "open", "eof", "closed"}]]
  /\ table \in [Keys -> Conns \cup {Nobody}]
  /\ doomed \subseteq Conns /\ stalled \subseteq Conns /\ writing \in Conns \cup {Nobody}
  /\ relay \in {"up", "down", "clean"}

\* The app never gave the connection's key to another.
SoleKey(c) == \A d \in 1 .. dialled : conn[d].key = conn[c].key => d = c

\* The table tells the truth about the sockets, whoever removes, fails or cleans up
\* at the same time: what it names nobody has closed or is about to, and what still
\* reads it names, or somebody is closing it.  A reused key overwrites the entry
\* (proxy_manager.go:116) and is left out.
TableIsTrue ==
  /\ \A k \in Keys : table[k] # Nobody =>
       conn[table[k]].key = k /\ table[k] \notin doomed /\ conn[table[k]].sock # "closed"
  /\ \A c \in Conns : conn[c].pc \in {"connected", "read", "send"} /\ SoleKey(c) =>
       table[conn[c].key] = c \/ c \in doomed \/ conn[c].sock # "open"

\* A target that does not read blocks the relay's reader, but not for ever: missed
\* pongs end the relay, its clean-up closes the socket and the write returns
\* (proxy_manager.go:180, wsrelay.go:413, daemon.go:581).  With a reused key the
\* socket may be out of the clean-up's reach.
ReaderFreed == writing # Nobody ~> writing = Nobody \/ \E c \in 1 .. dialled : ~SoleKey(c)
=============================================================================
