----------------------------- MODULE P2PSignal ------------------------------
(***************************************************************************)
(* How the data channel comes and goes: offers, candidates and selections  *)
(* from the app, one answerer goroutine per offer, the connection d.rtc    *)
(* that the rest of the daemon uses, and the channel mode.                 *)
(*                                                                         *)
(* An offer is a number; it also names the answerer and its connection.    *)
(* Signals are handled one at a time by the relay's reader; an answerer is *)
(* cut where it gives up rtcMu or channelMu or waits.  Candidates belong   *)
(* to the offer the app gathered them for.                                 *)
(***************************************************************************)
EXTENDS Integers, FiniteSets

CONSTANTS
  MaxOffers,      \* bound: offers
  CandidateNames, \* what tells the candidates of an offer apart
  MaxMessages     \* bound: kicked and channel_select messages together

ASSUME SignalBounds == MaxOffers \in Nat /\ MaxMessages \in Nat

Offers == 1 .. MaxOffers
None == 0
Candidates == [offer : Offers, name : CandidateNames]

VARIABLES
  offers,          \* offers received
  rtc,             \* Daemon.rtc
  pendingICE,      \* Daemon.pendingICE
  pendingICEMode,  \* Daemon.pendingICEMode
  answerer,        \* each startP2PAsAnswerer: where it is, the candidates it holds
  peer,            \* each peer connection
  connectCh,       \* WebRTCConn.connectCh: empty, ok or error
  disconnectCh,    \* WebRTCConn.disconnectCh is full
  given,           \* candidates each connection was given
  mode,            \* Daemon.channelMode
  sent,            \* ghost: candidates the app's offers may count on
  overlap,         \* ghost: an offer came while another one was being answered
  messages         \* counter for the bound

iceVars == <<pendingICE, pendingICEMode, given>>
peerVars == <<peer, connectCh, disconnectCh>>
ghostVars == <<sent, overlap>>
p2pVars == <<offers, rtc, iceVars, answerer, peerVars, mode, ghostVars, messages>>

NoAnswerer == [pc |-> "none", held |-> {}]

P2PInit ==
  /\ offers = 0 /\ rtc = None
  /\ pendingICE = {} /\ pendingICEMode = FALSE
  /\ answerer = [o \in Offers |-> NoAnswerer]
  /\ peer = [o \in Offers |-> "none"]
  /\ connectCh = [o \in Offers |-> "empty"] /\ disconnectCh = [o \in Offers |-> FALSE]
  /\ given = [o \in Offers |-> {}]
  /\ mode = "ts"
  /\ sent = {} /\ overlap = FALSE /\ messages = 0

At(o, pc) == answerer[o].pc = pc
Goto(o, pc) == answerer' = [answerer EXCEPT ![o].pc = pc]

\* An answerer that has yet to install its connection.
Answering == \E o \in Offers : answerer[o].pc \in {"close", "answer", "install"}

\* A non-blocking send into a channel of capacity one.
Signal(ch, o, v) == [ch EXCEPT ![o] = IF @ = "empty" THEN v ELSE @]

----------------------------------------------------------------------------
(* Signals                                                                 *)

\* p2p_offer: what was buffered so far goes with the new answerer.
P2POffer ==
  /\ offers < MaxOffers
  /\ LET o == offers + 1
     IN /\ offers' = o
        /\ answerer' = [answerer EXCEPT ![o] = [pc |-> "close", held |-> pendingICE]]
  /\ pendingICE' = {} /\ pendingICEMode' = TRUE
  /\ overlap' = (overlap \/ Answering)
  /\ UNCHANGED <<rtc, peerVars, given, mode, sent, messages>>

\* Mutant: the stale connection is not thought of.
BuffersByRtc == rtc = None

\* handleP2PICE buffers while an offer is being answered and before the first one.
Buffers == pendingICEMode \/ rtc = None

\* p2p_ice for the current offer, or for the next one if that is not there yet.  An
\* early candidate that meets a live connection is given to that one.
P2PIce(c) ==
  /\ c \notin pendingICE \cup UNION {given[o] \cup answerer[o].held : o \in Offers}
  /\ c.offer = offers \/ (c.offer = offers + 1 /\ ~Answering)
  /\ \/ Buffers /\ pendingICE' = pendingICE \cup {c} /\ UNCHANGED given
     \/ ~Buffers /\ given' = [given EXCEPT ![rtc] = @ \cup {c}] /\ UNCHANGED pendingICE
  /\ sent' = IF c.offer = offers \/ rtc = None THEN sent \cup {c} ELSE sent
  /\ UNCHANGED <<offers, rtc, pendingICEMode, answerer, peerVars, mode, overlap, messages>>

\* channel_select.
ChannelSelect(m) ==
  /\ messages < MaxMessages /\ messages' = messages + 1
  /\ m = "p2p" => rtc # None /\ peer[rtc] = "up"
  /\ mode' = m
  /\ UNCHANGED <<offers, rtc, iceVars, answerer, peerVars, ghostVars>>

\* pc.Close: the connection is gone, its callbacks run later.
Closed(S) == peer' = [o \in Offers |-> IF o \in S /\ peer[o] # "gone" THEN "closed" ELSE peer[o]]

\* kicked: the app's connection, candidates and mode are dropped.
Kicked ==
  /\ messages < MaxMessages /\ messages' = messages + 1
  /\ Closed({rtc}) /\ rtc' = None
  /\ pendingICE' = {} /\ pendingICEMode' = FALSE
  /\ mode' = ""
  /\ sent' = sent \ pendingICE
  /\ UNCHANGED <<offers, given, answerer, connectCh, disconnectCh, overlap>>

----------------------------------------------------------------------------
(* An answerer                                                             *)

\* CloseRTC.
CloseRTC(o) ==
  /\ At(o, "close")
  /\ Closed({rtc}) /\ rtc' = None
  /\ Goto(o, "answer")
  /\ UNCHANGED <<offers, iceVars, connectCh, disconnectCh, mode, ghostVars, messages>>

\* Answer makes the peer connection and answers the offer, or fails; then the
\* connection stays as it is and pendingICEMode stays set.
Answer(o) ==
  /\ At(o, "answer")
  /\ peer' = [peer EXCEPT ![o] = "new"]
  /\ Goto(o, "install") \/ Goto(o, "failed")
  /\ UNCHANGED <<offers, rtc, iceVars, connectCh, disconnectCh, mode, ghostVars, messages>>

\* The connection becomes d.rtc and takes over what came meanwhile.
Install(o) ==
  /\ At(o, "install")
  /\ rtc' = o
  /\ answerer' = [answerer EXCEPT ![o] = [pc |-> "replay", held |-> @.held \cup pendingICE]]
  /\ pendingICE' = {} /\ pendingICEMode' = FALSE
  /\ UNCHANGED <<offers, given, peerVars, mode, ghostVars, messages>>

\* The candidates are replayed outside the lock.
Replay(o) ==
  /\ At(o, "replay")
  /\ given' = [given EXCEPT ![o] = @ \cup answerer[o].held]
  /\ answerer' = [answerer EXCEPT ![o] = [pc |-> "connect", held |-> {}]]
  /\ UNCHANGED <<offers, rtc, pendingICE, pendingICEMode, peerVars, mode, ghostVars, messages>>

\* WaitConnected returns,
Connects(o) ==
  /\ At(o, "connect") /\ connectCh[o] = "ok"
  /\ connectCh' = [connectCh EXCEPT ![o] = "empty"]
  /\ Goto(o, "connected")
  /\ UNCHANGED <<offers, rtc, iceVars, peer, disconnectCh, mode, ghostVars, messages>>

\* or fails or times out, and the connection is closed.
ConnectFails(o) ==
  /\ At(o, "connect") /\ connectCh[o] # "ok"
  /\ Closed({o})
  /\ Goto(o, "clear")
  /\ UNCHANGED <<offers, rtc, iceVars, connectCh, disconnectCh, mode, ghostVars, messages>>

\* WaitDisconnected returns.
Disconnects(o) ==
  /\ At(o, "connected") /\ disconnectCh[o]
  /\ disconnectCh' = [disconnectCh EXCEPT ![o] = FALSE]
  /\ Goto(o, "lost")
  /\ UNCHANGED <<offers, rtc, iceVars, peer, connectCh, mode, ghostVars, messages>>

\* Mutant: d.rtc is cleared whoever's it is.
ClearsAnyones(o) == rtc' = None

\* d.rtc is cleared by the answerer it belongs to.
Clears(o) == rtc' = IF rtc = o THEN None ELSE rtc

\* A connection that never came up leaves the mode alone.
ClearFailed(o) ==
  /\ At(o, "clear")
  /\ Clears(o)
  /\ Goto(o, "done")
  /\ UNCHANGED <<offers, iceVars, peerVars, mode, ghostVars, messages>>

\* One that was lost is cleared, and its answerer goes on to the mode; if another
\* one has taken over, it is closed and that is all.
ClearLost(o) ==
  /\ At(o, "lost")
  /\ Clears(o)
  /\ \/ rtc = o /\ Goto(o, "mode") /\ UNCHANGED peer
     \/ rtc # o /\ Goto(o, "done") /\ Closed({o})
  /\ UNCHANGED <<offers, iceVars, connectCh, disconnectCh, mode, ghostVars, messages>>

\* The mode is read under one lock,
ReadMode(o) ==
  /\ At(o, "mode")
  /\ Goto(o, IF mode = "p2p" THEN "reset" ELSE "cleanup")
  /\ UNCHANGED <<offers, rtc, iceVars, peerVars, mode, ghostVars, messages>>

\* and reset under another; the app is told that the channel failed.
ResetMode(o) ==
  /\ At(o, "reset")
  /\ mode' = ""
  /\ Goto(o, "cleanup")
  /\ UNCHANGED <<offers, rtc, iceVars, peerVars, ghostVars, messages>>

\* The connection is closed, transfers and tunnels are ended (ChannelUsers).
Cleanup(o) ==
  /\ At(o, "cleanup")
  /\ Closed({o})
  /\ Goto(o, "done")
  /\ UNCHANGED <<offers, rtc, iceVars, connectCh, disconnectCh, mode, ghostVars, messages>>

----------------------------------------------------------------------------
(* The peer connection and its callbacks                                   *)

\* ICE connects; the data channel opens with it.
IceConnected(o) ==
  /\ peer[o] = "new" /\ answerer[o].pc \notin {"install", "failed"}
  /\ peer' = [peer EXCEPT ![o] = "up"]
  /\ connectCh' = Signal(connectCh, o, "ok")
  /\ UNCHANGED <<offers, rtc, iceVars, answerer, disconnectCh, mode, ghostVars, messages>>

\* ICE is disconnected, or the data channel closes.
IceDisconnected(o) ==
  /\ peer[o] = "up"
  /\ peer' = [peer EXCEPT ![o] = "down"]
  /\ disconnectCh' = [disconnectCh EXCEPT ![o] = TRUE]
  /\ UNCHANGED <<offers, rtc, iceVars, answerer, connectCh, mode, ghostVars, messages>>

\* Mutant: a connection that the daemon closes does not tell its answerer.
ClosedCallbackConnectOnly(o) ==
  /\ peer[o] = "closed"
  /\ peer' = [peer EXCEPT ![o] = "gone"]
  /\ connectCh' = Signal(connectCh, o, "error")
  /\ UNCHANGED <<offers, rtc, iceVars, answerer, disconnectCh, mode, ghostVars, messages>>

\* ICE failed, or the connection was closed: both channels are told.
ClosedCallback(o) ==
  /\ peer[o] = "closed"
  /\ peer' = [peer EXCEPT ![o] = "gone"]
  /\ connectCh' = Signal(connectCh, o, "error")
  /\ disconnectCh' = [disconnectCh EXCEPT ![o] = TRUE]
  /\ UNCHANGED <<offers, rtc, iceVars, answerer, mode, ghostVars, messages>>

Answerer(o) ==
  \/ CloseRTC(o) \/ Answer(o) \/ Install(o) \/ Replay(o) \/ Connects(o) \/ ConnectFails(o)
  \/ Disconnects(o) \/ ClearFailed(o) \/ ClearLost(o) \/ ReadMode(o) \/ ResetMode(o) \/ Cleanup(o)

P2PNext ==
  \/ P2POffer \/ Kicked
  \/ \E c \in Candidates : P2PIce(c)
  \/ \E m \in {"p2p", "ts"} : ChannelSelect(m)
  \/ \E o \in Offers : Answerer(o) \/ IceConnected(o) \/ IceDisconnected(o) \/ ClosedCallback(o)

\* Answerers run (their waits for a connection time out) and callbacks are called;
\* nothing is assumed of the app and the network.
P2PFairness == \A o \in Offers : WF_p2pVars(Answerer(o)) /\ WF_p2pVars(ClosedCallback(o))

P2PSpec == P2PInit /\ [][P2PNext]_p2pVars /\ P2PFairness

----------------------------------------------------------------------------

P2PTypes ==
  /\ offers \in 0 .. MaxOffers /\ rtc \in Offers \cup {None}
  /\ pendingICE \subseteq Candidates /\ pendingICEMode \in BOOLEAN
  /\ answerer \in [Offers -> [pc : {"none", "close", "answer", "failed", "install", "replay", "connect",
                                    "connected", "clear", "lost", "mode", "reset", "cleanup", "done"},
                              held : SUBSET Candidates]]
  /\ peer \in [Offers -> {"none", "new", "up", "down", "closed", "gone"}]
  /\ connectCh \in [Offers -> {"empty", "ok", "error"}] /\ disconnectCh \in [Offers -> BOOLEAN]
  /\ given \in [Offers -> SUBSET Candidates]
  /\ mode \in {"", "ts", "p2p"} /\ overlap \in BOOLEAN

\* Unless two offers are answered at the same time, a candidate for the offer of now is
\* buffered, held by its answerer or given to its connection, wherever the answerer is
\* when it comes, until that connection ends (daemon.go:281-286, 395-399): none is dropped
\* or fed to another connection.  An early one waits for its offer.
CandidatesReach ==
  ~overlap => \A c \in sent :
    \/ c.offer > offers /\ c \in pendingICE
    \/ c.offer < offers
    \/ /\ c.offer = offers
       /\ \/ c \in pendingICE /\ answerer[offers].pc \in {"close", "answer", "install", "failed"}
          \/ c \in answerer[offers].held \cup given[offers]
          \/ peer[offers] \in {"down", "closed", "gone"}

\* A connection that is coming up or up, and that nobody has closed, is the one the
\* rest of the daemon sends on: the late end of an older one does not take it away
\* (daemon.go:328-337).
LiveIsInstalled ==
  ~overlap => \A o \in Offers :
    answerer[o].pc \in {"replay", "connect", "connected"} /\ peer[o] \in {"new", "up"} => rtc = o

\* A connection that the daemon closed, for a newer offer or because the app was
\* kicked, ends its answerer, whatever that waits for (webrtc.go:197-209).
ClosedEnds ==
  \A o \in Offers : peer[o] = "closed" ~> answerer[o].pc \in {"done", "failed"}

\* handlePeerOffline takes the p2p mode for a connection that is still active
\* (daemon.go:1106-1109), and the answerer resets it when the connection ends
\* (daemon.go:341-347): without a connection the mode does not stay.
DeadModeIsLeft == mode = "p2p" /\ rtc = None ~> mode # "p2p" \/ rtc # None
=============================================================================
