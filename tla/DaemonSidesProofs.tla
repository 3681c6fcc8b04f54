------------------------- MODULE DaemonSidesProofs --------------------------
(***************************************************************************)
(* The sides of the daemon, each by itself and then the three together.    *)
(*                                                                         *)
(* Signalling: unless two offers are answered at the same time, every      *)
(* candidate of the last offer reaches its connection or waits for it, and *)
(* the connection that serves is the one that is installed, for any number *)
(* of offers and candidates.  The local server and the log ring, for any   *)
(* number of clients, shells, goroutines that log and viewers.             *)
(***************************************************************************)
EXTENDS DaemonSides, SequenceTheorems, TLAPS

-----------------------------------------------------------------------------
(* P2P signalling.                                                         *)

\* An answerer before its connection is installed, after it ended, and while it waits
\* for it; a connection that is no longer up.
Early == {"close", "answer", "install"}
Ended == {"clear", "lost", "mode", "reset", "cleanup", "done"}
Down == {"down", "closed", "gone"}
Waits == {"replay", "connect", "connected"}
PCs == {"none", "close", "answer", "failed", "install", "replay", "connect",
        "connected", "clear", "lost", "mode", "reset", "cleanup", "done"}

\* An answerer has begun for every offer, its connection is there once it has
\* answered, and what it has given up is down; d.rtc was installed.
Begun ==
  /\ \A o \in Offers : o > offers <=> answerer[o].pc = "none"
  /\ \A o \in Offers : peer[o] = "none" <=> answerer[o].pc \in {"none", "close", "answer"}
  /\ \A o \in Offers : answerer[o].pc \in Ended \/ disconnectCh[o] => peer[o] \in Down
  /\ rtc # None => answerer[rtc].pc \notin {"none", "close", "answer", "install", "failed"}

\* Types and answerers in order.
SignalShape == P2PTypes /\ sent \subseteq Candidates /\ Begun

\* Unless two offers are answered at the same time: the one that is answered is
\* the last,
OneAnswers == \A o \in Offers : answerer[o].pc \in Early => o = offers

\* d.rtc is empty from CloseRTC to the installation,
RtcCleared == \A o \in Offers : answerer[o].pc \in {"answer", "install"} => rtc = None

\* candidates are buffered while the last offer is answered, and after a failure,
Buffering == pendingICEMode => offers # 0 /\ answerer[offers].pc \in Early \cup {"failed"}

\* and what they are given to otherwise is the connection of the last offer.
NewestInstalled == rtc # None /\ ~pendingICEMode => rtc = offers

\* An early candidate is one for the next offer, and there is none while this one
\* is answered.
SentSoFar == \A c \in sent : c.offer <= offers + 1 /\ (Answering => c.offer <= offers)

\* Then a candidate is where its connection is or will be,
Reaches(c) ==
  \/ c.offer > offers /\ c \in pendingICE
  \/ c.offer < offers
  \/ /\ c.offer = offers
     /\ \/ c \in pendingICE /\ answerer[offers].pc \in Early \cup {"failed"}
        \/ c \in answerer[offers].held \cup given[offers]
        \/ peer[offers] \in Down
AllReach == \A c \in sent : Reaches(c)

\* and what lives is installed.
Live(o) == answerer[o].pc \in Waits /\ peer[o] \in {"new", "up"}
LiveInstalled == \A o \in Offers : Live(o) => rtc = o

Serial == OneAnswers /\ RtcCleared /\ Buffering /\ NewestInstalled /\ SentSoFar /\ AllReach /\ LiveInstalled

-----------------------------------------------------------------------------
\* No offer is called None, and they are numbers.
LEMMA OfferNumbers == None \notin Offers /\ Offers \subseteq Nat /\ MaxOffers \in Nat
BY SignalBounds DEF None, Offers

\* What closing some connections does to all of them.
LEMMA ClosedPeers ==
  ASSUME P2PTypes, NEW S, Closed(S)
  PROVE  /\ peer' \in [Offers -> {"none", "new", "up", "down", "closed", "gone"}]
         /\ \A o \in Offers : peer'[o] = IF o \in S /\ peer[o] # "gone" THEN "closed" ELSE peer[o]
BY DEF Closed, P2PTypes

\* An answerer that moves on keeps the candidates it holds.
LEMMA GotoTypes ==
  ASSUME P2PTypes, NEW o \in Offers, NEW pc \in PCs, Goto(o, pc)
  PROVE  /\ answerer' \in [Offers -> [pc : PCs, held : SUBSET Candidates]]
         /\ answerer'[o].pc = pc /\ answerer'[o].held = answerer[o].held
         /\ \A x \in Offers \ {o} : answerer'[x] = answerer[x]
<1>1. answerer \in [Offers -> [pc : PCs, held : SUBSET Candidates]]
  BY DEF P2PTypes, PCs
<1>2. answerer' = [answerer EXCEPT ![o].pc = pc]
  BY DEF Goto
<1>3. answerer' \in [Offers -> [pc : PCs, held : SUBSET Candidates]]
  BY <1>1, <1>2
<1> QED BY <1>1, <1>2, <1>3

\* The invariant holds before the first offer.
LEMMA InitSignal == P2PInit => SignalShape /\ Serial
<1> SUFFICES ASSUME P2PInit PROVE SignalShape /\ Serial
  OBVIOUS
<1>0. None \notin Offers /\ Offers \subseteq Nat /\ MaxOffers \in Nat /\ offers = 0
  BY OfferNumbers DEF P2PInit
<1>1. \A o \in Offers : answerer[o] = [pc |-> "none", held |-> {}]
  BY DEF P2PInit, NoAnswerer
<1>2. answerer \in [Offers -> [pc : PCs, held : SUBSET Candidates]]
  BY DEF P2PInit, NoAnswerer, PCs
<1>3. P2PTypes
  <2>1. peer \in [Offers -> {"none", "new", "up", "down", "closed", "gone"}]
        /\ connectCh \in [Offers -> {"empty", "ok", "error"}] /\ disconnectCh \in [Offers -> BOOLEAN]
        /\ given \in [Offers -> SUBSET Candidates]
    BY DEF P2PInit
  <2>2. offers \in 0 .. MaxOffers /\ rtc = None /\ pendingICE = {} /\ pendingICEMode = FALSE /\ mode = "ts" /\ overlap = FALSE
    BY <1>0 DEF P2PInit
  <2> QED BY <1>2, <2>1, <2>2, ZenonT(30) DEF P2PTypes, PCs
<1>4. Begun
  <2>1. \A o \in Offers : o > offers
    BY <1>0 DEF Offers
  <2> QED BY <1>1, <2>1 DEF P2PInit, Begun, Ended, Down
<1>5. Serial
  BY <1>1 DEF P2PInit, Serial, OneAnswers, RtcCleared, Buffering, NewestInstalled, SentSoFar, AllReach,
     LiveInstalled, Live, Early, Waits
<1> QED BY <1>3, <1>4, <1>5 DEF SignalShape, P2PInit

-----------------------------------------------------------------------------
(* Types *)

\* The handlers of the signals keep the types, and sent holds candidates;
LEMMA SignalTypes ==
  ASSUME SignalShape, P2POffer \/ Kicked \/ (\E c \in Candidates : P2PIce(c)) \/ (\E m \in {"p2p", "ts"} : ChannelSelect(m))
  PROVE  P2PTypes' /\ sent' \subseteq Candidates
<1>0. P2PTypes /\ sent \subseteq Candidates
  BY DEF SignalShape
<1>1. CASE P2POffer
  <2>0. overlap' \in BOOLEAN
    BY <1>1, Zenon DEF P2POffer
  <2>1. offers' \in 0 .. MaxOffers
    <3>1. offers \in 0 .. MaxOffers /\ MaxOffers \in Nat
      BY <1>0, SignalBounds DEF P2PTypes
    <3>2. offers < MaxOffers /\ offers' = offers + 1
      BY <1>1 DEF P2POffer
    <3> QED BY <3>1, <3>2
  <2>2. answerer' \in [Offers -> [pc : PCs, held : SUBSET Candidates]]
    <3>1. answerer' = [answerer EXCEPT ![offers + 1] = [pc |-> "close", held |-> pendingICE]]
      BY <1>1 DEF P2POffer
    <3>2. answerer \in [Offers -> [pc : PCs, held : SUBSET Candidates]] /\ pendingICE \subseteq Candidates
      BY <1>0 DEF P2PTypes, PCs
    <3>3. [pc |-> "close", held |-> pendingICE] \in [pc : PCs, held : SUBSET Candidates]
      BY <3>2 DEF PCs
    <3> QED BY <3>1, <3>2, <3>3
  <2> QED BY <1>0, <1>1, <2>0, <2>1, <2>2, ZenonT(30) DEF P2PTypes, P2POffer, peerVars, PCs
<1>2. CASE Kicked
  <2>1. peer' \in [Offers -> {"none", "new", "up", "down", "closed", "gone"}]
    BY <1>0, <1>2, ClosedPeers DEF Kicked
  <2>2. sent' \subseteq Candidates
    BY <1>0, <1>2 DEF Kicked
  <2> QED BY <1>0, <1>2, <2>1, <2>2, ZenonT(30) DEF P2PTypes, Kicked
<1>3. ASSUME NEW c \in Candidates, P2PIce(c) PROVE P2PTypes' /\ sent' \subseteq Candidates
  <2>0. given \in [Offers -> SUBSET Candidates] /\ pendingICE \subseteq Candidates
    BY <1>0 DEF P2PTypes
  <2>1. given' \in [Offers -> SUBSET Candidates] /\ pendingICE' \subseteq Candidates
    <3>1. CASE pendingICE' = pendingICE \cup {c} /\ UNCHANGED given
      BY <2>0, <3>1
    <3>2. CASE given' = [given EXCEPT ![rtc] = @ \cup {c}] /\ UNCHANGED pendingICE
      BY <2>0, <3>2
    <3> QED BY <1>3, <3>1, <3>2 DEF P2PIce
  <2>2. sent' \subseteq Candidates
    BY <1>0, <1>3 DEF P2PIce
  <2> QED BY <1>0, <1>3, <2>1, <2>2, ZenonT(30) DEF P2PTypes, P2PIce, peerVars
<1>4. ASSUME NEW m \in {"p2p", "ts"}, ChannelSelect(m) PROVE P2PTypes' /\ sent' \subseteq Candidates
  BY <1>0, <1>4 DEF P2PTypes, ChannelSelect, iceVars, peerVars, ghostVars
<1> QED BY <1>1, <1>2, <1>3, <1>4

\* so do the steps of an answerer,
LEMMA AnswererTypes ==
  ASSUME SignalShape, NEW o \in Offers, Answerer(o)
  PROVE  P2PTypes' /\ sent' \subseteq Candidates
<1>0. P2PTypes /\ sent \subseteq Candidates /\ answerer \in [Offers -> [pc : PCs, held : SUBSET Candidates]]
  BY DEF SignalShape, P2PTypes, PCs
<1>1. CASE CloseRTC(o)
  <2>1. peer' \in [Offers -> {"none", "new", "up", "down", "closed", "gone"}]
    BY <1>0, <1>1, ClosedPeers DEF CloseRTC
  <2>2. answerer' \in [Offers -> [pc : PCs, held : SUBSET Candidates]]
    BY <1>0, <1>1, GotoTypes DEF CloseRTC, PCs
  <2> QED BY <1>0, <1>1, <2>1, <2>2 DEF P2PTypes, PCs, CloseRTC, iceVars, ghostVars
<1>2. CASE Answer(o)
  <2>1. peer' \in [Offers -> {"none", "new", "up", "down", "closed", "gone"}]
    BY <1>0, <1>2 DEF Answer, P2PTypes
  <2>2. answerer' \in [Offers -> [pc : PCs, held : SUBSET Candidates]]
    BY <1>0, <1>2, GotoTypes DEF Answer, PCs
  <2> QED BY <1>0, <1>2, <2>1, <2>2 DEF P2PTypes, PCs, Answer, iceVars, ghostVars
<1>3. CASE Install(o)
  <2>1. answerer' \in [Offers -> [pc : PCs, held : SUBSET Candidates]]
    BY <1>0, <1>3 DEF Install, P2PTypes, PCs
  <2> QED BY <1>0, <1>3, <2>1 DEF P2PTypes, PCs, Install, peerVars, ghostVars
<1>4. CASE Replay(o)
  <2>1. answerer' \in [Offers -> [pc : PCs, held : SUBSET Candidates]]
    BY <1>0, <1>4 DEF Replay, PCs
  <2>2. given' \in [Offers -> SUBSET Candidates]
    BY <1>0, <1>4 DEF Replay, P2PTypes
  <2> QED BY <1>0, <1>4, <2>1, <2>2 DEF P2PTypes, PCs, Replay, peerVars, ghostVars
<1>5. CASE Connects(o)
  <2>1. answerer' \in [Offers -> [pc : PCs, held : SUBSET Candidates]]
    BY <1>0, <1>5, GotoTypes DEF Connects, PCs
  <2> QED BY <1>0, <1>5, <2>1 DEF P2PTypes, PCs, Connects, iceVars, ghostVars
<1>6. CASE ConnectFails(o)
  <2>1. peer' \in [Offers -> {"none", "new", "up", "down", "closed", "gone"}]
    BY <1>0, <1>6, ClosedPeers DEF ConnectFails
  <2>2. answerer' \in [Offers -> [pc : PCs, held : SUBSET Candidates]]
    BY <1>0, <1>6, GotoTypes DEF ConnectFails, PCs
  <2> QED BY <1>0, <1>6, <2>1, <2>2 DEF P2PTypes, PCs, ConnectFails, iceVars, ghostVars
<1>7. CASE Disconnects(o)
  <2>1. answerer' \in [Offers -> [pc : PCs, held : SUBSET Candidates]]
    BY <1>0, <1>7, GotoTypes DEF Disconnects, PCs
  <2> QED BY <1>0, <1>7, <2>1 DEF P2PTypes, PCs, Disconnects, iceVars, ghostVars
<1>8. CASE ClearFailed(o)
  <2>1. answerer' \in [Offers -> [pc : PCs, held : SUBSET Candidates]]
    BY <1>0, <1>8, GotoTypes DEF ClearFailed, PCs
  <2> QED BY <1>0, <1>8, <2>1 DEF P2PTypes, PCs, ClearFailed, Clears, iceVars, peerVars, ghostVars
<1>9. CASE ClearLost(o)
  <2>1. answerer' \in [Offers -> [pc : PCs, held : SUBSET Candidates]]
    BY <1>0, <1>9, GotoTypes DEF ClearLost, PCs
  <2>2. peer' \in [Offers -> {"none", "new", "up", "down", "closed", "gone"}]
    BY <1>0, <1>9, ClosedPeers DEF ClearLost, P2PTypes
  <2> QED BY <1>0, <1>9, <2>1, <2>2 DEF P2PTypes, PCs, ClearLost, Clears, iceVars, ghostVars
<1>10. CASE ReadMode(o)
  <2>1. answerer' \in [Offers -> [pc : PCs, held : SUBSET Candidates]]
    BY <1>0, <1>10, GotoTypes DEF ReadMode, PCs
  <2> QED BY <1>0, <1>10, <2>1 DEF P2PTypes, PCs, ReadMode, iceVars, peerVars, ghostVars
<1>11. CASE ResetMode(o)
  <2>1. answerer' \in [Offers -> [pc : PCs, held : SUBSET Candidates]]
    BY <1>0, <1>11, GotoTypes DEF ResetMode, PCs
  <2> QED BY <1>0, <1>11, <2>1 DEF P2PTypes, PCs, ResetMode, iceVars, peerVars, ghostVars
<1>12. CASE Cleanup(o)
  <2>1. answerer' \in [Offers -> [pc : PCs, held : SUBSET Candidates]]
    BY <1>0, <1>12, GotoTypes DEF Cleanup, PCs
  <2>2. peer' \in [Offers -> {"none", "new", "up", "down", "closed", "gone"}]
    BY <1>0, <1>12, ClosedPeers DEF Cleanup
  <2> QED BY <1>0, <1>12, <2>1, <2>2 DEF P2PTypes, PCs, Cleanup, iceVars, ghostVars
<1> QED BY <1>1, <1>2, <1>3, <1>4, <1>5, <1>6, <1>7, <1>8, <1>9, <1>10, <1>11, <1>12 DEF Answerer

\* the callbacks of a connection,
LEMMA CallbackTypes ==
  ASSUME SignalShape, NEW o \in Offers, IceConnected(o) \/ IceDisconnected(o) \/ ClosedCallback(o)
  PROVE  P2PTypes' /\ sent' \subseteq Candidates
<1>0. P2PTypes /\ sent \subseteq Candidates
  BY DEF SignalShape
<1>1. peer' \in [Offers -> {"none", "new", "up", "down", "closed", "gone"}]
  BY <1>0 DEF IceConnected, IceDisconnected, ClosedCallback, P2PTypes
<1>2. connectCh' \in [Offers -> {"empty", "ok", "error"}] /\ disconnectCh' \in [Offers -> BOOLEAN]
  BY <1>0 DEF IceConnected, IceDisconnected, ClosedCallback, P2PTypes, Signal
<1> QED BY <1>0, <1>1, <1>2 DEF IceConnected, IceDisconnected, ClosedCallback, P2PTypes, iceVars, ghostVars

\* and so every step.
LEMMA StepSignalTypes ==
  ASSUME SignalShape, [P2PNext]_p2pVars
  PROVE  P2PTypes' /\ sent' \subseteq Candidates
<1>1. CASE UNCHANGED p2pVars
  BY <1>1 DEF SignalShape, P2PTypes, p2pVars, iceVars, peerVars, ghostVars
<1> QED BY <1>1, SignalTypes, AnswererTypes, CallbackTypes DEF P2PNext

-----------------------------------------------------------------------------
(* Where an answerer and its connection are *)

\* Nobody begins, and what an answerer has given up is down.
LEMMA BegunStays ==
  ASSUME SignalShape, offers' = offers, rtc' \in {rtc, None},
         \A x \in Offers : answerer'[x].pc = "none" <=> answerer[x].pc = "none",
         \A x \in Offers : peer'[x] = "none" <=> answerer'[x].pc \in {"none", "close", "answer"},
         \A x \in Offers : answerer'[x].pc \in Ended \/ disconnectCh'[x] => peer'[x] \in Down,
         \A x \in Offers : answerer[x].pc \notin {"none", "close", "answer", "install", "failed"} =>
                           answerer'[x].pc \notin {"none", "close", "answer", "install", "failed"}
  PROVE  Begun'
<1>1. \A x \in Offers : x > offers' <=> answerer'[x].pc = "none"
  BY DEF SignalShape, Begun
<1>2. rtc' # None => answerer'[rtc'].pc \notin {"none", "close", "answer", "install", "failed"}
  <2> SUFFICES ASSUME rtc' # None PROVE answerer'[rtc'].pc \notin {"none", "close", "answer", "install", "failed"}
    OBVIOUS
  <2>1. rtc' = rtc /\ rtc \in Offers
    BY DEF SignalShape, P2PTypes
  <2> QED BY <2>1 DEF SignalShape, Begun
<1> QED BY <1>1, <1>2 DEF Begun

\* The handlers of the signals keep what is said of the answerers and their connections.
LEMMA SignalBegun ==
  ASSUME SignalShape, P2PTypes', P2POffer \/ Kicked \/ (\E c \in Candidates : P2PIce(c)) \/ (\E m \in {"p2p", "ts"} : ChannelSelect(m))
  PROVE  Begun'
<1>0. P2PTypes /\ Begun /\ None \notin Offers /\ Offers \subseteq Nat /\ offers \in Nat /\ MaxOffers \in Nat
  <2>1. P2PTypes /\ Begun
    BY DEF SignalShape
  <2>2. offers \in 0 .. MaxOffers
    BY <2>1 DEF P2PTypes
  <2>3. None \notin Offers /\ Offers \subseteq Nat /\ MaxOffers \in Nat
    BY OfferNumbers
  <2> QED BY <2>1, <2>2, <2>3
<1>1. CASE P2POffer
  <2> DEFINE n == offers + 1
  <2>1. offers' = n /\ UNCHANGED <<rtc, peer, disconnectCh>>
        /\ answerer' = [answerer EXCEPT ![n] = [pc |-> "close", held |-> pendingICE]]
    BY <1>1 DEF P2POffer, peerVars
  <2>2. n \in Offers
    <3>1. offers < MaxOffers
      BY <1>1 DEF P2POffer
    <3> QED BY <1>0, <3>1 DEF Offers
  <2>3. answerer[n].pc = "none"
    BY <1>0, <2>2 DEF Begun
  <2>4. answerer'[n].pc = "close" /\ \A x \in Offers \ {n} : answerer'[x] = answerer[x]
    BY <1>0, <2>1, <2>2 DEF P2PTypes
  <2>5. peer[n] = "none"
    BY <1>0, <2>2, <2>3 DEF Begun
  <2>6. \A x \in Offers : x > offers' <=> answerer'[x].pc = "none"
    <3> SUFFICES ASSUME NEW x \in Offers PROVE x > offers' <=> answerer'[x].pc = "none"
      OBVIOUS
    <3>1. CASE x = n
      BY <1>0, <2>1, <2>4, <3>1
    <3>2. CASE x # n
      <4>1. x > n <=> x > offers
        BY <1>0, <3>2
      <4>2. x > offers <=> answerer[x].pc = "none"
        BY <1>0 DEF Begun
      <4> QED BY <2>1, <2>4, <3>2, <4>1, <4>2
    <3> QED BY <3>1, <3>2
  <2>7. \A x \in Offers : peer'[x] = "none" <=> answerer'[x].pc \in {"none", "close", "answer"}
    BY <1>0, <2>1, <2>4, <2>5 DEF Begun
  <2>8. \A x \in Offers : answerer'[x].pc \in Ended \/ disconnectCh'[x] => peer'[x] \in Down
    BY <1>0, <2>1, <2>4, <2>5 DEF Begun, Ended, Down
  <2>9. rtc # None => rtc \in Offers \ {n}
    BY <1>0, <2>3 DEF Begun, P2PTypes
  <2>10. rtc' # None => answerer'[rtc'].pc \notin {"none", "close", "answer", "install", "failed"}
    BY <1>0, <2>1, <2>4, <2>9 DEF Begun
  <2> QED BY <2>6, <2>7, <2>8, <2>10 DEF Begun
<1>2. CASE Kicked
  <2>1. UNCHANGED <<offers, answerer, disconnectCh>> /\ rtc' = None /\ Closed({rtc})
    BY <1>2 DEF Kicked
  <2>2. \A x \in Offers : peer'[x] = IF x = rtc /\ peer[x] # "gone" THEN "closed" ELSE peer[x]
    BY <1>0, <2>1, ClosedPeers
  <2>3. \A x \in Offers : peer'[x] = "none" <=> peer[x] = "none"
    <3> SUFFICES ASSUME NEW x \in Offers PROVE peer'[x] = "none" <=> peer[x] = "none"
      OBVIOUS
    <3>1. x = rtc => peer[x] # "none"
      BY <1>0 DEF Begun
    <3> QED BY <2>2, <3>1
  <2>4. \A x \in Offers : peer[x] \in Down => peer'[x] \in Down
    BY <2>2 DEF Down
  <2> QED BY <1>0, <2>1, <2>3, <2>4, BegunStays DEF Begun
<1>3. CASE (\E c \in Candidates : P2PIce(c)) \/ (\E m \in {"p2p", "ts"} : ChannelSelect(m))
  BY <1>0, <1>3 DEF P2PIce, ChannelSelect, peerVars, Begun
<1> QED BY <1>1, <1>2, <1>3

\* An answerer goes on, and closes its connection or none.
LEMMA AnswererBegun ==
  ASSUME SignalShape, P2PTypes', NEW o \in Offers, Answerer(o)
  PROVE  Begun'
<1>0. P2PTypes /\ Begun
  BY DEF SignalShape
<1>1. ASSUME NEW pc \in PCs, Goto(o, pc), offers' = offers, disconnectCh' = disconnectCh \/ \A x \in Offers : disconnectCh'[x] => disconnectCh[x],
             rtc' \in {rtc, None}, answerer[o].pc \notin {"none", "close", "answer", "install", "failed"},
             pc \notin {"none", "close", "answer", "install", "failed"},
             \A x \in Offers : peer'[x] = "none" <=> peer[x] = "none",
             \A x \in Offers : peer[x] \in Down => peer'[x] \in Down,
             pc \in Ended => peer'[o] \in Down
      PROVE  Begun'
  <2>1. answerer'[o].pc = pc /\ \A x \in Offers \ {o} : answerer'[x] = answerer[x]
    BY <1>0, <1>1, GotoTypes
  <2>2. \A x \in Offers : answerer'[x].pc = "none" <=> answerer[x].pc = "none"
    BY <1>1, <2>1
  <2>3. \A x \in Offers : peer'[x] = "none" <=> answerer'[x].pc \in {"none", "close", "answer"}
    BY <1>0, <1>1, <2>1 DEF Begun
  <2>4. \A x \in Offers : answerer'[x].pc \in Ended \/ disconnectCh'[x] => peer'[x] \in Down
    BY <1>0, <1>1, <2>1 DEF Begun
  <2>5. \A x \in Offers : answerer[x].pc \notin {"none", "close", "answer", "install", "failed"} =>
                           answerer'[x].pc \notin {"none", "close", "answer", "install", "failed"}
    BY <1>1, <2>1
  <2> QED BY <1>1, <2>2, <2>3, <2>4, <2>5, BegunStays
<1>2. CASE CloseRTC(o)
  <2>1. UNCHANGED <<offers, disconnectCh>> /\ rtc' = None /\ Closed({rtc}) /\ answerer[o].pc = "close"
    BY <1>2 DEF CloseRTC, At
  <2>2. answerer'[o].pc = "answer" /\ \A x \in Offers \ {o} : answerer'[x] = answerer[x]
    BY <1>0, <1>2, GotoTypes DEF CloseRTC, PCs
  <2>3. \A x \in Offers : peer'[x] = IF x = rtc /\ peer[x] # "gone" THEN "closed" ELSE peer[x]
    BY <1>0, <2>1, ClosedPeers
  <2>4. \A x \in Offers : peer'[x] = "none" <=> peer[x] = "none"
    <3> SUFFICES ASSUME NEW x \in Offers PROVE peer'[x] = "none" <=> peer[x] = "none"
      OBVIOUS
    <3>1. x = rtc => peer[x] # "none"
      BY <1>0, OfferNumbers DEF Begun
    <3> QED BY <2>3, <3>1
  <2>5. \A x \in Offers : peer[x] \in Down => peer'[x] \in Down
    BY <2>3 DEF Down
  <2>6. \A x \in Offers : answerer'[x].pc = "none" <=> answerer[x].pc = "none"
    BY <2>1, <2>2
  <2>7. \A x \in Offers : peer'[x] = "none" <=> answerer'[x].pc \in {"none", "close", "answer"}
    BY <1>0, <2>1, <2>2, <2>4 DEF Begun
  <2>8. \A x \in Offers : answerer'[x].pc \in Ended \/ disconnectCh'[x] => peer'[x] \in Down
    BY <1>0, <2>1, <2>2, <2>5 DEF Begun, Ended
  <2>9. \A x \in Offers : answerer[x].pc \notin {"none", "close", "answer", "install", "failed"} =>
                           answerer'[x].pc \notin {"none", "close", "answer", "install", "failed"}
    BY <2>1, <2>2
  <2> QED BY <2>1, <2>6, <2>7, <2>8, <2>9, BegunStays
<1>3. CASE Answer(o)
  <2>1. UNCHANGED <<offers, rtc, disconnectCh>> /\ answerer[o].pc = "answer" /\ peer' = [peer EXCEPT ![o] = "new"]
    BY <1>3 DEF Answer, At
  <2>2. answerer'[o].pc \in {"install", "failed"} /\ \A x \in Offers \ {o} : answerer'[x] = answerer[x]
    BY <1>0, <1>3, GotoTypes DEF Answer, PCs
  <2>3. peer'[o] = "new" /\ peer[o] = "none" /\ \A x \in Offers \ {o} : peer'[x] = peer[x]
    <3>1. peer \in [Offers -> {"none", "new", "up", "down", "closed", "gone"}]
      BY <1>0 DEF P2PTypes
    <3>2. peer[o] = "none"
      BY <1>0, <2>1 DEF Begun
    <3> QED BY <2>1, <3>1, <3>2
  <2>4. ~disconnectCh[o]
    BY <1>0, <2>3 DEF Begun, Down
  <2>5. \A x \in Offers : answerer'[x].pc = "none" <=> answerer[x].pc = "none"
    BY <2>1, <2>2
  <2>6. \A x \in Offers : peer'[x] = "none" <=> answerer'[x].pc \in {"none", "close", "answer"}
    BY <1>0, <2>2, <2>3 DEF Begun
  <2>7. \A x \in Offers : answerer'[x].pc \in Ended \/ disconnectCh'[x] => peer'[x] \in Down
    BY <1>0, <2>1, <2>2, <2>3, <2>4 DEF Begun, Ended
  <2>8. \A x \in Offers : answerer[x].pc \notin {"none", "close", "answer", "install", "failed"} =>
                           answerer'[x].pc \notin {"none", "close", "answer", "install", "failed"}
    BY <2>1, <2>2
  <2> QED BY <2>1, <2>5, <2>6, <2>7, <2>8, BegunStays
<1>4. CASE Install(o)
  <2>1. UNCHANGED <<offers, peer, disconnectCh>> /\ rtc' = o /\ answerer[o].pc = "install"
    BY <1>4 DEF Install, At, peerVars
  <2>2. answerer'[o].pc = "replay" /\ \A x \in Offers \ {o} : answerer'[x] = answerer[x]
    BY <1>0, <1>4 DEF Install, P2PTypes
  <2>3. \A x \in Offers : x > offers' <=> answerer'[x].pc = "none"
    BY <1>0, <2>1, <2>2 DEF Begun
  <2>4. \A x \in Offers : peer'[x] = "none" <=> answerer'[x].pc \in {"none", "close", "answer"}
    BY <1>0, <2>1, <2>2 DEF Begun
  <2>5. \A x \in Offers : answerer'[x].pc \in Ended \/ disconnectCh'[x] => peer'[x] \in Down
    BY <1>0, <2>1, <2>2 DEF Begun, Ended
  <2> QED BY <2>1, <2>2, <2>3, <2>4, <2>5 DEF Begun
<1>5. CASE Replay(o)
  <2>1. UNCHANGED <<offers, rtc, peer, disconnectCh>> /\ answerer[o].pc = "replay"
    BY <1>5 DEF Replay, At, peerVars
  <2>2. answerer'[o].pc = "connect" /\ \A x \in Offers \ {o} : answerer'[x] = answerer[x]
    BY <1>0, <1>5 DEF Replay, P2PTypes
  <2>3. \A x \in Offers : answerer'[x].pc = "none" <=> answerer[x].pc = "none"
    BY <2>1, <2>2
  <2>4. \A x \in Offers : peer'[x] = "none" <=> answerer'[x].pc \in {"none", "close", "answer"}
    BY <1>0, <2>1, <2>2 DEF Begun
  <2>5. \A x \in Offers : answerer'[x].pc \in Ended \/ disconnectCh'[x] => peer'[x] \in Down
    BY <1>0, <2>1, <2>2 DEF Begun, Ended
  <2>6. \A x \in Offers : answerer[x].pc \notin {"none", "close", "answer", "install", "failed"} =>
                           answerer'[x].pc \notin {"none", "close", "answer", "install", "failed"}
    BY <2>1, <2>2
  <2> QED BY <2>1, <2>3, <2>4, <2>5, <2>6, BegunStays
<1>6. CASE Connects(o)
  BY <1>0, <1>1, <1>6 DEF Connects, At, PCs, Ended
<1>7. CASE Disconnects(o)
  <2>1. UNCHANGED <<offers, rtc, peer>> /\ answerer[o].pc = "connected" /\ disconnectCh[o]
        /\ disconnectCh' = [disconnectCh EXCEPT ![o] = FALSE] /\ Goto(o, "lost")
    BY <1>7 DEF Disconnects, At
  <2>2. \A x \in Offers : disconnectCh'[x] => disconnectCh[x]
    BY <1>0, <2>1 DEF P2PTypes
  <2>3. peer[o] \in Down
    BY <1>0, <2>1 DEF Begun
  <2> QED BY <1>1, <2>1, <2>2, <2>3 DEF PCs
<1>8. ASSUME Closed({o}), answerer[o].pc \notin {"none", "close", "answer"}
      PROVE  /\ \A x \in Offers : peer'[x] = "none" <=> peer[x] = "none"
             /\ \A x \in Offers : peer[x] \in Down => peer'[x] \in Down
             /\ peer'[o] \in Down
  <2>1. \A x \in Offers : peer'[x] = IF x = o /\ peer[x] # "gone" THEN "closed" ELSE peer[x]
    BY <1>0, <1>8, ClosedPeers
  <2>2. peer[o] # "none"
    BY <1>0, <1>8 DEF Begun
  <2> QED BY <2>1, <2>2 DEF Down
<1>9. CASE ConnectFails(o)
  <2>1. UNCHANGED <<offers, rtc, disconnectCh>> /\ answerer[o].pc = "connect" /\ Closed({o}) /\ Goto(o, "clear")
    BY <1>9 DEF ConnectFails, At, iceVars
  <2> QED BY <1>1, <1>8, <2>1 DEF PCs
<1>10. CASE Cleanup(o)
  <2>1. UNCHANGED <<offers, rtc, disconnectCh>> /\ answerer[o].pc = "cleanup" /\ Closed({o}) /\ Goto(o, "done")
    BY <1>10 DEF Cleanup, At, iceVars
  <2> QED BY <1>1, <1>8, <2>1 DEF PCs
<1>11. ASSUME answerer[o].pc \in Ended PROVE peer[o] \in Down
  BY <1>0, <1>11 DEF Begun
<1>12. CASE ClearFailed(o)
  <2>1. UNCHANGED <<offers, peer, disconnectCh>> /\ answerer[o].pc = "clear" /\ Goto(o, "done") /\ rtc' \in {rtc, None}
    BY <1>12 DEF ClearFailed, At, Clears, peerVars
  <2> QED BY <1>1, <1>11, <2>1 DEF PCs, Ended
<1>13. CASE ClearLost(o)
  <2>1. UNCHANGED <<offers, disconnectCh>> /\ answerer[o].pc = "lost" /\ rtc' \in {rtc, None}
    BY <1>13 DEF ClearLost, At, Clears
  <2>2. CASE Goto(o, "mode") /\ UNCHANGED peer
    BY <1>1, <1>11, <2>1, <2>2 DEF PCs, Ended
  <2>3. CASE Goto(o, "done") /\ Closed({o})
    BY <1>1, <1>8, <2>1, <2>3 DEF PCs
  <2> QED BY <1>13, <2>2, <2>3 DEF ClearLost
<1>14. CASE ReadMode(o)
  <2>1. UNCHANGED <<offers, rtc, peer, disconnectCh>> /\ answerer[o].pc = "mode" /\ (Goto(o, "reset") \/ Goto(o, "cleanup"))
    BY <1>14 DEF ReadMode, At, peerVars
  <2> QED BY <1>1, <1>11, <2>1 DEF PCs, Ended
<1>15. CASE ResetMode(o)
  <2>1. UNCHANGED <<offers, rtc, peer, disconnectCh>> /\ answerer[o].pc = "reset" /\ Goto(o, "cleanup")
    BY <1>15 DEF ResetMode, At, peerVars
  <2> QED BY <1>1, <1>11, <2>1 DEF PCs, Ended
<1> QED BY <1>2, <1>3, <1>4, <1>5, <1>6, <1>7, <1>9, <1>10, <1>12, <1>13, <1>14, <1>15 DEF Answerer

\* Every step keeps types and answerers in order.
LEMMA StepSignalShape ==
  ASSUME SignalShape, [P2PNext]_p2pVars
  PROVE  SignalShape'
<1>0. P2PTypes /\ Begun /\ P2PTypes' /\ sent' \subseteq Candidates
  BY StepSignalTypes DEF SignalShape
<1>1. ASSUME NEW o \in Offers, IceConnected(o) \/ IceDisconnected(o) \/ ClosedCallback(o) PROVE Begun'
  <2>1. UNCHANGED <<offers, rtc, answerer>>
    BY <1>1 DEF IceConnected, IceDisconnected, ClosedCallback
  <2>2. \A x \in Offers \ {o} : peer'[x] = peer[x] /\ disconnectCh'[x] = disconnectCh[x]
    <3>1. peer \in [Offers -> {"none", "new", "up", "down", "closed", "gone"}] /\ disconnectCh \in [Offers -> BOOLEAN]
      BY <1>0 DEF P2PTypes
    <3>2. PICK v : peer' = [peer EXCEPT ![o] = v]
      BY <1>1 DEF IceConnected, IceDisconnected, ClosedCallback
    <3>3. disconnectCh' = disconnectCh \/ disconnectCh' = [disconnectCh EXCEPT ![o] = TRUE]
      BY <1>1 DEF IceConnected, IceDisconnected, ClosedCallback
    <3> QED BY <3>1, <3>2, <3>3
  <2>3. peer[o] # "none" /\ peer'[o] # "none"
    <3>1. peer \in [Offers -> {"none", "new", "up", "down", "closed", "gone"}]
      BY <1>0 DEF P2PTypes
    <3>2. PICK v \in {"up", "down", "gone"} : peer' = [peer EXCEPT ![o] = v]
      BY <1>1 DEF IceConnected, IceDisconnected, ClosedCallback
    <3>3. peer[o] # "none"
      BY <1>1 DEF IceConnected, IceDisconnected, ClosedCallback
    <3> QED BY <3>1, <3>2, <3>3
  <2>4. answerer[o].pc \in Ended \/ disconnectCh'[o] => peer'[o] \in Down
    <3>1. CASE IceConnected(o)
      <4>1. answerer[o].pc \notin Ended /\ ~disconnectCh[o] /\ disconnectCh' = disconnectCh
        BY <1>0, <3>1 DEF IceConnected, Begun, Down
      <4> QED BY <4>1
    <3>2. CASE IceDisconnected(o) \/ ClosedCallback(o)
      BY <1>0, <3>2 DEF IceDisconnected, ClosedCallback, P2PTypes, Down
    <3> QED BY <1>1, <3>1, <3>2
  <2>5. \A x \in Offers : peer'[x] = "none" <=> answerer'[x].pc \in {"none", "close", "answer"}
    BY <1>0, <2>1, <2>2, <2>3 DEF Begun
  <2>6. \A x \in Offers : answerer'[x].pc \in Ended \/ disconnectCh'[x] => peer'[x] \in Down
    BY <1>0, <2>1, <2>2, <2>4 DEF Begun
  <2> QED BY <2>1, <2>5, <2>6, BegunStays
<1>2. CASE UNCHANGED p2pVars
  <2>1. Begun'
    BY <1>0, <1>2 DEF p2pVars, peerVars, Begun
  <2> QED BY <1>0, <2>1 DEF SignalShape
<1> QED BY <1>0, <1>1, <1>2, SignalBegun, AnswererBegun DEF P2PNext, SignalShape

-----------------------------------------------------------------------------
(* One offer is answered at a time *)

\* What is said of the candidates survives a step in which no candidate comes or goes.
LEMMA CandidatesKept ==
  ASSUME SignalShape, Serial, UNCHANGED <<offers, pendingICE, pendingICEMode, sent>>,
         \A x \in Offers : answerer[x].held \cup given[x] \subseteq answerer'[x].held \cup given'[x],
         \A x \in Offers : answerer'[x].pc \in Early => answerer[x].pc \in Early,
         \A x \in Offers : answerer[x].pc \in Early \cup {"failed"} => answerer'[x].pc \in Early \cup {"failed"},
         \A x \in Offers : peer[x] \in Down => peer'[x] \in Down
  PROVE  OneAnswers' /\ Buffering' /\ SentSoFar' /\ AllReach'
<1>0. OneAnswers /\ Buffering /\ SentSoFar /\ AllReach /\ sent \subseteq Candidates
  BY DEF Serial, SignalShape
<1>1. offers # 0 => offers \in Offers
  <2>1. offers \in 0 .. MaxOffers /\ MaxOffers \in Nat
    BY SignalBounds DEF SignalShape, P2PTypes
  <2> QED BY <2>1 DEF Offers
<1>2. OneAnswers'
  BY <1>0 DEF OneAnswers
<1>3. Buffering'
  BY <1>0, <1>1 DEF Buffering
<1>4. SentSoFar'
  <2>1. Answering' => Answering
    BY DEF Answering, Early
  <2> QED BY <1>0, <2>1 DEF SentSoFar
<1>5. AllReach'
  <2> SUFFICES ASSUME NEW c \in sent PROVE Reaches(c)'
    BY DEF AllReach
  <2>1. Reaches(c) /\ c.offer \in Offers
    BY <1>0 DEF AllReach, Candidates
  <2> QED BY <2>1 DEF Reaches
<1> QED BY <1>2, <1>3, <1>4, <1>5

\* Once its connection is installed, what an answerer, a callback or the app does
\* to it takes d.rtc away only from a connection that has ended.
LEMMA LateStep ==
  ASSUME SignalShape, Serial, UNCHANGED <<offers, pendingICE, pendingICEMode, sent>>,
         \A x \in Offers : answerer[x].held \cup given[x] \subseteq answerer'[x].held \cup given'[x],
         \A x \in Offers : answerer'[x].pc = answerer[x].pc
                           \/ (answerer[x].pc \notin Early \cup {"failed"} /\ answerer'[x].pc \notin Early \cup {"failed"}),
         \A x \in Offers : peer[x] \in Down => peer'[x] \in Down,
         \A x \in Offers : Live(x)' => Live(x),
         rtc' = rtc \/ (rtc' = None /\ \A x \in Offers : Live(x)' => x # rtc)
  PROVE  Serial'
<1>0. RtcCleared /\ NewestInstalled /\ LiveInstalled
  BY DEF Serial
<1>1. OneAnswers' /\ Buffering' /\ SentSoFar' /\ AllReach'
  BY CandidatesKept
<1>2. RtcCleared'
  BY <1>0 DEF RtcCleared, Early
<1>3. NewestInstalled'
  BY <1>0 DEF NewestInstalled
<1>4. LiveInstalled'
  <2> SUFFICES ASSUME NEW x \in Offers, Live(x)' PROVE rtc' = x
    BY DEF LiveInstalled
  <2>1. Live(x)
    OBVIOUS
  <2>2. rtc = x
    BY <1>0, <2>1 DEF LiveInstalled
  <2> QED BY <2>2
<1> QED BY <1>1, <1>2, <1>3, <1>4 DEF Serial

\* An offer that comes while none is answered takes the early candidates with it.
LEMMA OfferSerial ==
  ASSUME SignalShape, Serial, ~overlap', P2POffer
  PROVE  Serial'
<1> DEFINE n == offers + 1
<1>0. P2PTypes /\ sent \subseteq Candidates /\ None \notin Offers /\ Offers \subseteq Nat
  BY OfferNumbers DEF SignalShape
<1>1. offers \in Nat /\ n \in Offers
  <2>1. offers \in 0 .. MaxOffers /\ MaxOffers \in Nat /\ offers < MaxOffers
    BY <1>0, SignalBounds DEF P2PTypes, P2POffer
  <2> QED BY <2>1 DEF Offers
<1>2. offers' = n /\ UNCHANGED <<rtc, peer, given, sent>> /\ pendingICEMode' /\ ~Answering
      /\ answerer' = [answerer EXCEPT ![n] = [pc |-> "close", held |-> pendingICE]]
  BY DEF P2POffer, peerVars
<1>3. answerer'[n] = [pc |-> "close", held |-> pendingICE] /\ \A x \in Offers \ {n} : answerer'[x] = answerer[x]
  BY <1>0, <1>1, <1>2 DEF P2PTypes
<1>4. \A x \in Offers : answerer[x].pc \notin Early
  BY <1>2 DEF Answering, Early
<1>5. OneAnswers'
  BY <1>2, <1>3, <1>4 DEF OneAnswers
<1>6. RtcCleared'
  BY <1>3, <1>4 DEF RtcCleared, Early
<1>7. Buffering'
  BY <1>1, <1>2, <1>3, <1>0 DEF Buffering, Early
<1>8. NewestInstalled'
  BY <1>2 DEF NewestInstalled
<1>9. \A c \in sent : c.offer \in Nat /\ c.offer <= n
  BY <1>0, <1>1 DEF Serial, SentSoFar, Candidates
<1>10. SentSoFar'
  <2> SUFFICES ASSUME NEW c \in sent PROVE c.offer <= n + 1 /\ c.offer <= n
    BY <1>2 DEF SentSoFar
  <2>1. c.offer \in Nat /\ c.offer <= n /\ n \in Nat
    BY <1>0, <1>1, <1>9
  <2> HIDE DEF n
  <2> QED BY <2>1
<1>11. AllReach'
  <2> SUFFICES ASSUME NEW c \in sent PROVE Reaches(c)'
    BY <1>2 DEF AllReach
  <2>1. c.offer \in Nat /\ c.offer <= n
    BY <1>9
  <2>2. CASE c.offer = n
    <3>1. c.offer > offers
      BY <1>1, <2>2
    <3>2. c \in pendingICE
      BY <1>1, <2>1, <3>1 DEF Serial, AllReach, Reaches
    <3> QED BY <1>2, <1>3, <2>2, <3>2 DEF Reaches
  <2>3. CASE c.offer # n
    <3>1. n \in Nat
      BY <1>1
    <3>2. c.offer < n
      BY <2>1, <2>3, <3>1
    <3> QED BY <1>2, <3>2 DEF Reaches
  <2> QED BY <2>2, <2>3
<1>12. LiveInstalled'
  <2> SUFFICES ASSUME NEW x \in Offers, Live(x)' PROVE rtc' = x
    BY DEF LiveInstalled
  <2>1. x # n
    BY <1>3 DEF Live, Waits
  <2>2. Live(x)
    BY <1>2, <1>3, <2>1 DEF Live
  <2> QED BY <1>2, <2>2 DEF Serial, LiveInstalled
<1> QED BY <1>5, <1>6, <1>7, <1>8, <1>10, <1>11, <1>12 DEF Serial

\* A kick drops the buffer and closes what is installed.
LEMMA KickedSerial ==
  ASSUME SignalShape, Serial, Kicked
  PROVE  Serial'
<1>1. UNCHANGED <<offers, answerer, given>> /\ rtc' = None /\ Closed({rtc}) /\ ~pendingICEMode' /\ sent' = sent \ pendingICE
  BY DEF Kicked, SignalShape, P2PTypes
<1>2. \A x \in Offers : peer'[x] = IF x = rtc /\ peer[x] # "gone" THEN "closed" ELSE peer[x]
  BY <1>1, ClosedPeers DEF SignalShape
<1>3. AllReach'
  <2> SUFFICES ASSUME NEW c \in sent \ pendingICE PROVE Reaches(c)'
    BY <1>1 DEF AllReach
  <2>1. Reaches(c) /\ c.offer \in Offers
    BY DEF Serial, AllReach, SignalShape, Candidates
  <2> QED BY <1>1, <1>2, <2>1 DEF Reaches, Down
<1>4. LiveInstalled'
  <2> SUFFICES ASSUME NEW x \in Offers, Live(x)' PROVE FALSE
    BY DEF LiveInstalled
  <2>1. x # rtc /\ Live(x)
    BY <1>1, <1>2 DEF Live
  <2> QED BY <2>1 DEF Serial, LiveInstalled
<1>5. OneAnswers' /\ RtcCleared' /\ Buffering' /\ NewestInstalled' /\ SentSoFar'
  BY <1>1 DEF Serial, OneAnswers, RtcCleared, Buffering, NewestInstalled, SentSoFar, Answering
<1> QED BY <1>3, <1>4, <1>5 DEF Serial

\* A connection that is gone from d.rtc, or not yet there, is one the offer's answerer
\* has yet to bring or one that has ended.
LEMMA NothingLive ==
  ASSUME SignalShape, Serial, rtc = None, offers \in Offers
  PROVE  answerer[offers].pc \in Early \cup {"failed"} \/ peer[offers] \in Down
<1>1. answerer[offers].pc # "none"
  BY OfferNumbers DEF SignalShape, Begun
<1>2. answerer[offers].pc \in Early \cup {"failed"} \cup Waits \cup Ended
  BY <1>1 DEF SignalShape, P2PTypes, Early, Waits, Ended
<1>3. ~Live(offers)
  BY OfferNumbers DEF Serial, LiveInstalled
<1>4. answerer[offers].pc \in Waits => peer[offers] \in {"new", "up"} \cup Down
  BY DEF SignalShape, Begun, P2PTypes, Waits, Down
<1>5. answerer[offers].pc \in Ended => peer[offers] \in Down
  BY DEF SignalShape, Begun
<1> QED BY <1>2, <1>3, <1>4, <1>5 DEF Live

\* A candidate is given to the connection or buffered for it.
LEMMA IceSerial ==
  ASSUME SignalShape, Serial, NEW c \in Candidates, P2PIce(c)
  PROVE  Serial'
<1>0. c.offer \in Offers /\ sent \subseteq Candidates /\ None \notin Offers /\ Offers \subseteq Nat
  BY OfferNumbers DEF Candidates, SignalShape
<1>1. UNCHANGED <<offers, rtc, pendingICEMode, answerer, peer>> /\ pendingICE \subseteq pendingICE'
      /\ (\A x \in Offers : given[x] \subseteq given'[x]) /\ sent' \subseteq sent \cup {c}
      /\ (c.offer = offers \/ (c.offer = offers + 1 /\ ~Answering))
  <2>1. UNCHANGED <<offers, rtc, pendingICEMode, answerer, peer>> /\ (c.offer = offers \/ (c.offer = offers + 1 /\ ~Answering))
    BY DEF P2PIce, peerVars
  <2>2. pendingICE \subseteq pendingICE'
    BY DEF P2PIce
  <2>3. \A x \in Offers : given[x] \subseteq given'[x]
    <3>1. given \in [Offers -> SUBSET Candidates]
      BY DEF SignalShape, P2PTypes
    <3>2. given' = given \/ given' = [given EXCEPT ![rtc] = @ \cup {c}]
      BY DEF P2PIce
    <3> QED BY <3>1, <3>2
  <2>4. sent' \subseteq sent \cup {c}
    BY DEF P2PIce
  <2> QED BY <2>1, <2>2, <2>3, <2>4
<1>2. offers \in Nat
  <2>1. offers \in 0 .. MaxOffers /\ MaxOffers \in Nat
    BY SignalBounds DEF SignalShape, P2PTypes
  <2> QED BY <2>1
<1>3. SentSoFar'
  <2> SUFFICES ASSUME NEW d \in sent' PROVE d.offer <= offers + 1 /\ (Answering => d.offer <= offers)
    BY <1>1 DEF SentSoFar, Answering
  <2>1. CASE d = c
    BY <1>0, <1>1, <1>2, <2>1
  <2>2. CASE d # c
    BY <1>1, <2>2 DEF Serial, SentSoFar
  <2> QED BY <2>1, <2>2
<1>4. AllReach'
  <2> SUFFICES ASSUME NEW d \in sent' PROVE Reaches(d)'
    BY DEF AllReach
  <2>1. CASE d \in sent
    <3>1. Reaches(d) /\ d.offer \in Offers
      BY <1>0, <2>1 DEF Serial, AllReach, Candidates
    <3> QED BY <1>1, <3>1 DEF Reaches
  <2>2. CASE d \notin sent
    <3>1. d = c /\ (c.offer = offers \/ rtc = None)
      BY <1>1, <2>2 DEF P2PIce
    <3>2. CASE c.offer = offers + 1
      <4>1. rtc = None /\ c.offer > offers
        BY <1>2, <3>1, <3>2
      <4>2. c \in pendingICE'
        BY <4>1 DEF P2PIce, Buffers
      <4> QED BY <1>1, <3>1, <4>1, <4>2 DEF Reaches
    <3>3. CASE c.offer = offers
      <4>1. CASE Buffers
        <5>1. c \in pendingICE'
          BY <4>1 DEF P2PIce
        <5>2. answerer[offers].pc \in Early \cup {"failed"} \/ peer[offers] \in Down
          <6>1. CASE pendingICEMode
            BY <6>1 DEF Serial, Buffering
          <6>2. CASE rtc = None
            BY <1>0, <3>3, <6>2, NothingLive
          <6> QED BY <4>1, <6>1, <6>2 DEF Buffers
        <5> QED BY <1>1, <3>1, <3>3, <5>1, <5>2 DEF Reaches
      <4>2. CASE ~Buffers
        <5>1. rtc = offers /\ given' = [given EXCEPT ![rtc] = @ \cup {c}]
          BY <4>2 DEF Buffers, Serial, NewestInstalled, P2PIce
        <5>2. c \in given'[offers]
          BY <1>0, <3>3, <5>1 DEF SignalShape, P2PTypes
        <5> QED BY <1>1, <3>1, <3>3, <5>2 DEF Reaches
      <4> QED BY <4>1, <4>2
    <3> QED BY <1>1, <3>2, <3>3
  <2> QED BY <2>1, <2>2
<1>5. OneAnswers' /\ RtcCleared' /\ Buffering' /\ NewestInstalled' /\ LiveInstalled'
  BY <1>1 DEF Serial, OneAnswers, RtcCleared, Buffering, NewestInstalled, LiveInstalled, Live
<1> QED BY <1>3, <1>4, <1>5 DEF Serial

\* The answerer closes the connection of before: d.rtc is empty.
LEMMA ShutSerial ==
  ASSUME SignalShape, SignalShape', Serial, NEW o \in Offers, CloseRTC(o)
  PROVE  Serial'
<1>1. UNCHANGED <<offers, pendingICE, pendingICEMode, given, sent>> /\ rtc' = None /\ Closed({rtc}) /\ answerer[o].pc = "close"
  BY DEF CloseRTC, At, iceVars, ghostVars
<1>2. answerer'[o].pc = "answer" /\ answerer'[o].held = answerer[o].held /\ \A x \in Offers \ {o} : answerer'[x] = answerer[x]
  BY GotoTypes DEF CloseRTC, PCs, SignalShape
<1>3. \A x \in Offers : peer'[x] = IF x = rtc /\ peer[x] # "gone" THEN "closed" ELSE peer[x]
  BY <1>1, ClosedPeers DEF SignalShape
<1>4. OneAnswers' /\ Buffering' /\ SentSoFar' /\ AllReach'
  <2>1. \A x \in Offers : answerer[x].held \cup given[x] \subseteq answerer'[x].held \cup given'[x]
    BY <1>1, <1>2
  <2>2. \A x \in Offers : answerer'[x].pc \in Early => answerer[x].pc \in Early
    BY <1>1, <1>2 DEF Early
  <2>3. \A x \in Offers : answerer[x].pc \in Early \cup {"failed"} => answerer'[x].pc \in Early \cup {"failed"}
    BY <1>1, <1>2 DEF Early
  <2>4. \A x \in Offers : peer[x] \in Down => peer'[x] \in Down
    BY <1>3 DEF Down
  <2> QED BY <1>1, <2>1, <2>2, <2>3, <2>4, CandidatesKept
<1>5. RtcCleared' /\ NewestInstalled'
  BY <1>1 DEF RtcCleared, NewestInstalled
<1>6. LiveInstalled'
  <2> SUFFICES ASSUME NEW x \in Offers, Live(x)' PROVE FALSE
    BY DEF LiveInstalled
  <2>1. x # o
    BY <1>2 DEF Live, Waits
  <2>2. x # rtc /\ Live(x)
    BY <1>2, <1>3, <2>1 DEF Live
  <2> QED BY <2>2 DEF Serial, LiveInstalled
<1> QED BY <1>4, <1>5, <1>6 DEF Serial

\* It makes its connection and answers, or fails.
LEMMA AnswerSerial ==
  ASSUME SignalShape, SignalShape', Serial, NEW o \in Offers, Answer(o)
  PROVE  Serial'
<1>1. UNCHANGED <<offers, rtc, pendingICE, pendingICEMode, given, sent>> /\ peer' = [peer EXCEPT ![o] = "new"]
      /\ answerer[o].pc = "answer"
  BY DEF Answer, At, iceVars, ghostVars
<1>2. answerer'[o].pc \in {"install", "failed"} /\ answerer'[o].held = answerer[o].held
      /\ \A x \in Offers \ {o} : answerer'[x] = answerer[x]
  BY GotoTypes DEF Answer, PCs, SignalShape
<1>3. peer[o] = "none" /\ \A x \in Offers \ {o} : peer'[x] = peer[x]
  <2>1. peer \in [Offers -> {"none", "new", "up", "down", "closed", "gone"}]
    BY DEF SignalShape, P2PTypes
  <2>2. peer[o] = "none"
    BY <1>1 DEF SignalShape, Begun
  <2> QED BY <1>1, <2>1, <2>2
<1>4. OneAnswers' /\ Buffering' /\ SentSoFar' /\ AllReach'
  <2>1. \A x \in Offers : answerer[x].held \cup given[x] \subseteq answerer'[x].held \cup given'[x]
    BY <1>1, <1>2
  <2>2. \A x \in Offers : answerer'[x].pc \in Early => answerer[x].pc \in Early
    BY <1>1, <1>2 DEF Early
  <2>3. \A x \in Offers : answerer[x].pc \in Early \cup {"failed"} => answerer'[x].pc \in Early \cup {"failed"}
    BY <1>1, <1>2 DEF Early
  <2>4. \A x \in Offers : peer[x] \in Down => peer'[x] \in Down
    BY <1>3 DEF Down
  <2> QED BY <1>1, <2>1, <2>2, <2>3, <2>4, CandidatesKept
<1>5. RtcCleared'
  BY <1>1, <1>2 DEF RtcCleared, Serial
<1>6. NewestInstalled'
  BY <1>1 DEF NewestInstalled, Serial
<1>7. LiveInstalled'
  <2> SUFFICES ASSUME NEW x \in Offers, Live(x)' PROVE rtc' = x
    BY DEF LiveInstalled
  <2>1. x # o
    BY <1>2 DEF Live, Waits
  <2>2. Live(x)
    BY <1>2, <1>3, <2>1 DEF Live
  <2> QED BY <1>1, <2>2 DEF Serial, LiveInstalled
<1> QED BY <1>4, <1>5, <1>6, <1>7 DEF Serial

\* It installs the connection and takes the buffer with it.
LEMMA InstallSerial ==
  ASSUME SignalShape, SignalShape', Serial, NEW o \in Offers, Install(o)
  PROVE  Serial'
<1>1. UNCHANGED <<offers, given, peer, sent>> /\ rtc' = o /\ ~pendingICEMode' /\ answerer[o].pc = "install"
      /\ answerer' = [answerer EXCEPT ![o] = [pc |-> "replay", held |-> @.held \cup pendingICE]]
  BY DEF Install, At, peerVars, ghostVars
<1>2. answerer'[o] = [pc |-> "replay", held |-> answerer[o].held \cup pendingICE]
      /\ \A x \in Offers \ {o} : answerer'[x] = answerer[x]
  BY <1>1 DEF SignalShape, P2PTypes
<1>3. o = offers /\ rtc = None
  BY <1>1 DEF Serial, OneAnswers, RtcCleared, Early
<1>4. Answering
  BY <1>1 DEF Answering
<1>5. OneAnswers' /\ RtcCleared'
  BY <1>1, <1>2, <1>3 DEF Serial, OneAnswers, RtcCleared, Early
<1>6. Buffering' /\ NewestInstalled'
  BY <1>1, <1>3 DEF Buffering, NewestInstalled
<1>7. SentSoFar'
  BY <1>1, <1>4 DEF Serial, SentSoFar
<1>8. AllReach'
  <2> SUFFICES ASSUME NEW c \in sent PROVE Reaches(c)'
    BY <1>1 DEF AllReach
  <2>1. Reaches(c) /\ c.offer <= offers /\ c.offer \in Nat /\ offers \in Nat
    BY <1>3, <1>4, OfferNumbers DEF Serial, SentSoFar, AllReach, SignalShape, Candidates
  <2>2. ~(c.offer > offers)
    BY <2>1
  <2> QED BY <1>1, <1>2, <1>3, <2>1, <2>2 DEF Reaches
<1>9. LiveInstalled'
  <2> SUFFICES ASSUME NEW x \in Offers, Live(x)', x # o PROVE FALSE
    BY <1>1 DEF LiveInstalled
  <2>1. Live(x)
    BY <1>1, <1>2 DEF Live
  <2> QED BY <1>3, <2>1, OfferNumbers DEF Serial, LiveInstalled
<1> QED BY <1>5, <1>6, <1>7, <1>8, <1>9 DEF Serial

\* The candidates that an answerer holds are given to its connection.
LEMMA ReplaySerial ==
  ASSUME SignalShape, SignalShape', Serial, NEW o \in Offers, Replay(o)
  PROVE  Serial'
<1>1. UNCHANGED <<offers, rtc, pendingICE, pendingICEMode, peer, sent>> /\ answerer[o].pc = "replay"
      /\ given' = [given EXCEPT ![o] = @ \cup answerer[o].held]
      /\ answerer' = [answerer EXCEPT ![o] = [pc |-> "connect", held |-> {}]]
  BY DEF Replay, At, peerVars, ghostVars
<1>2. answerer'[o].pc = "connect" /\ given'[o] = given[o] \cup answerer[o].held
      /\ \A x \in Offers \ {o} : answerer'[x] = answerer[x] /\ given'[x] = given[x]
  BY <1>1 DEF SignalShape, P2PTypes
<1>3. \A x \in Offers : answerer[x].held \cup given[x] \subseteq answerer'[x].held \cup given'[x]
  BY <1>2
<1>4. \A x \in Offers : answerer'[x].pc = answerer[x].pc
                       \/ (answerer[x].pc \notin Early \cup {"failed"} /\ answerer'[x].pc \notin Early \cup {"failed"})
  BY <1>1, <1>2 DEF Early
<1>5. \A x \in Offers : Live(x)' => Live(x)
  BY <1>1, <1>2 DEF Live, Waits
<1> QED BY <1>1, <1>3, <1>4, <1>5, LateStep

\* An answerer that has installed its connection goes on.
LEMMA GoesOn ==
  ASSUME SignalShape, Serial, NEW o \in Offers, NEW pc \in PCs \ (Early \cup {"failed"}), Goto(o, pc),
         UNCHANGED <<offers, pendingICE, pendingICEMode, given, sent>>,
         answerer[o].pc \notin Early \cup {"failed"}, pc \in Waits => answerer[o].pc \in Waits,
         peer' = peer \/ Closed({o}),
         rtc' = rtc \/ (pc \in Ended /\ rtc = o /\ rtc' = None)
  PROVE  Serial'
<1>1. answerer'[o].pc = pc /\ answerer'[o].held = answerer[o].held /\ \A x \in Offers \ {o} : answerer'[x] = answerer[x]
  BY GotoTypes DEF SignalShape
<1>2. \A x \in Offers : peer'[x] = peer[x] \/ (peer'[x] = "closed")
  BY ClosedPeers DEF SignalShape
<1>3. \A x \in Offers : answerer[x].held \cup given[x] \subseteq answerer'[x].held \cup given'[x]
  BY <1>1
<1>4. \A x \in Offers : answerer'[x].pc = answerer[x].pc
                       \/ (answerer[x].pc \notin Early \cup {"failed"} /\ answerer'[x].pc \notin Early \cup {"failed"})
  BY <1>1
<1>5. \A x \in Offers : peer[x] \in Down => peer'[x] \in Down
  BY <1>2 DEF Down
<1>6. \A x \in Offers : Live(x)' => Live(x)
  BY <1>1, <1>2 DEF Live
<1>7. rtc' = rtc \/ (rtc' = None /\ \A x \in Offers : Live(x)' => x # rtc)
  BY <1>1 DEF Live, Waits, Ended
<1> QED BY <1>3, <1>4, <1>5, <1>6, <1>7, LateStep

\* Every step of an answerer keeps the order of the last offer.
LEMMA AnswererSerial ==
  ASSUME SignalShape, SignalShape', Serial, NEW o \in Offers, Answerer(o)
  PROVE  Serial'
<1>1. CASE CloseRTC(o)
  BY <1>1, ShutSerial
<1>2. CASE Answer(o)
  BY <1>2, AnswerSerial
<1>3. CASE Install(o)
  BY <1>3, InstallSerial
<1>4. CASE Replay(o)
  BY <1>4, ReplaySerial
<1>5. CASE Connects(o)
  BY <1>5, GoesOn DEF Connects, At, PCs, Early, Waits, iceVars, ghostVars
<1>6. CASE ConnectFails(o)
  BY <1>6, GoesOn DEF ConnectFails, At, PCs, Early, Waits, iceVars, ghostVars
<1>7. CASE Disconnects(o)
  BY <1>7, GoesOn DEF Disconnects, At, PCs, Early, Waits, iceVars, ghostVars
<1>8. CASE ClearFailed(o)
  <2>1. UNCHANGED <<offers, pendingICE, pendingICEMode, given, sent, peer>> /\ Goto(o, "done") /\ answerer[o].pc = "clear"
        /\ (rtc' = rtc \/ (rtc = o /\ rtc' = None))
    BY <1>8 DEF ClearFailed, Clears, At, iceVars, peerVars, ghostVars
  <2> QED BY <2>1, GoesOn DEF PCs, Early, Waits, Ended
<1>9. CASE ClearLost(o)
  <2>1. UNCHANGED <<offers, pendingICE, pendingICEMode, given, sent>> /\ (Goto(o, "done") \/ Goto(o, "mode"))
        /\ answerer[o].pc = "lost" /\ (peer' = peer \/ Closed({o})) /\ (rtc' = rtc \/ (rtc = o /\ rtc' = None))
    BY <1>9 DEF ClearLost, Clears, At, iceVars, ghostVars
  <2> QED BY <2>1, GoesOn DEF PCs, Early, Waits, Ended
<1>10. CASE ReadMode(o)
  <2>1. UNCHANGED <<offers, pendingICE, pendingICEMode, given, sent, peer, rtc>> /\ (Goto(o, "reset") \/ Goto(o, "cleanup"))
        /\ answerer[o].pc = "mode"
    BY <1>10 DEF ReadMode, At, iceVars, peerVars, ghostVars
  <2> QED BY <2>1, GoesOn DEF PCs, Early, Waits
<1>11. CASE ResetMode(o)
  BY <1>11, GoesOn DEF ResetMode, At, PCs, Early, Waits, iceVars, peerVars, ghostVars
<1>12. CASE Cleanup(o)
  BY <1>12, GoesOn DEF Cleanup, At, PCs, Early, Waits, iceVars, ghostVars
<1> QED BY <1>1, <1>2, <1>3, <1>4, <1>5, <1>6, <1>7, <1>8, <1>9, <1>10, <1>11, <1>12 DEF Answerer

\* A callback makes no connection live that was not coming up before.
LEMMA CallbackSerial ==
  ASSUME SignalShape, Serial, NEW o \in Offers, IceConnected(o) \/ IceDisconnected(o) \/ ClosedCallback(o)
  PROVE  Serial'
<1>1. UNCHANGED <<offers, rtc, pendingICE, pendingICEMode, given, sent, answerer>>
  BY DEF IceConnected, IceDisconnected, ClosedCallback, iceVars, ghostVars
<1>2. \A x \in Offers : peer'[x] = peer[x] \/ peer'[x] \in Down \/ (peer[x] = "new" /\ peer'[x] = "up")
  BY DEF IceConnected, IceDisconnected, ClosedCallback, Down, SignalShape, P2PTypes
<1>3. \A x \in Offers : peer[x] \in Down => peer'[x] \in Down
  BY <1>2 DEF Down
<1>4. \A x \in Offers : Live(x)' => Live(x)
  BY <1>1, <1>2 DEF Live, Down
<1> QED BY <1>1, <1>3, <1>4, LateStep

\* A step that moves none of the variables it speaks of keeps it as well.
LEMMA SameSerial ==
  ASSUME Serial, UNCHANGED <<offers, rtc, pendingICE, pendingICEMode, given, sent, answerer, peer>>
  PROVE  Serial'
BY DEF Serial, OneAnswers, RtcCleared, Buffering, NewestInstalled, SentSoFar, Answering, AllReach, Reaches,
   LiveInstalled, Live

\* Every step keeps the order, unless a second offer is answered meanwhile.
LEMMA StepSerial ==
  ASSUME SignalShape, SignalShape', ~overlap => Serial, [P2PNext]_p2pVars
  PROVE  ~overlap' => Serial'
<1> SUFFICES ASSUME ~overlap' PROVE Serial'
  OBVIOUS
<1>1. ~overlap
  BY DEF P2PNext, P2POffer, Kicked, P2PIce, ChannelSelect, Answerer, CloseRTC, Answer, Install, Replay, Connects,
     ConnectFails, Disconnects, ClearFailed, ClearLost, ReadMode, ResetMode, Cleanup, IceConnected,
     IceDisconnected, ClosedCallback, ghostVars, p2pVars
<1>2. Serial
  BY <1>1
<1>3. CASE UNCHANGED p2pVars
  BY <1>2, <1>3, SameSerial DEF p2pVars, iceVars, peerVars, ghostVars
<1>4. CASE P2POffer
  BY <1>2, <1>4, OfferSerial
<1>5. CASE Kicked
  BY <1>2, <1>5, KickedSerial
<1>6. CASE \E c \in Candidates : P2PIce(c)
  BY <1>2, <1>6, IceSerial
<1>7. CASE \E m \in {"p2p", "ts"} : ChannelSelect(m)
  BY <1>2, <1>7, SameSerial DEF ChannelSelect, iceVars, peerVars, ghostVars
<1>8. CASE \E o \in Offers : Answerer(o) \/ IceConnected(o) \/ IceDisconnected(o) \/ ClosedCallback(o)
  BY <1>2, <1>8, AnswererSerial, CallbackSerial
<1> QED BY <1>3, <1>4, <1>5, <1>6, <1>7, <1>8 DEF P2PNext

\* The inductive invariant.
SignalInv == SignalShape /\ (~overlap => Serial)

\* Together: the invariant holds in every state.
LEMMA SignalInvariant == P2PInit /\ [][P2PNext]_p2pVars => []SignalInv
<1>1. P2PInit => SignalInv
  BY InitSignal DEF SignalInv
<1>2. SignalInv /\ [P2PNext]_p2pVars => SignalInv'
  BY StepSignalShape, StepSerial DEF SignalInv
<1> QED BY <1>1, <1>2, PTL

\* Whatever the order of offers, candidates, kicks and failures, no candidate for the
\* offer of now is lost while its connection lives (daemon.go:281-286, 395-399).
THEOREM Reached == P2PSpec => []CandidatesReach
<1>1. SignalInv => CandidatesReach
  BY DEF SignalInv, Serial, AllReach, Reaches, CandidatesReach, Early, Down
<1> QED BY <1>1, SignalInvariant, PTL DEF P2PSpec

\* The late end of an older connection never takes the one away that serves
\* (daemon.go:328-337).
THEOREM NewestServes == P2PSpec => []LiveIsInstalled
<1>1. SignalInv => LiveIsInstalled
  BY DEF SignalInv, Serial, LiveInstalled, Live, LiveIsInstalled, Waits
<1> QED BY <1>1, SignalInvariant, PTL DEF P2PSpec

-----------------------------------------------------------------------------
(* The local server.                                                       *)

\* Where a handler is, and where it has a shell in hand.
HandlerPCs == {"none", "idle", "answer", "stop", "takeover", "leave", "gone", "attach", "added", "switch", "attach_ok",
               "history", "send_history", "detach", "forget"}
Aimed == {"attach", "added", "switch", "attach_ok", "history", "send_history", "detach", "forget"}
\* What clients are told of, and the messages that do.
Things == Shells \cup Nat
Wire == [to : Clients \cup {All}, shell : Shells \cup {Nobody}, chunks : SUBSET Things]

\* What the steps of the local server need of the values.
LocalShape ==
  /\ conns \subseteq Clients
  /\ clientSessions \in [Clients -> SUBSET Shells] /\ controllers \in [Shells -> SUBSET Clients]
  /\ history \in [Shells -> Nat] /\ reader \in [Shells -> [ready : BOOLEAN, todo : SUBSET Clients]]
  /\ broadcastCh \in Seq(Wire)
  /\ handler \in [Clients -> [pc : HandlerPCs, sid : Shells \cup {Nobody}, todo : SUBSET Things]]
  /\ loop \in [msg : Wire \cup {NoMessage}, todo : SUBSET Clients]
  /\ seen \in [Clients -> [Shells -> SUBSET Things]]
  /\ \A c \in Clients : handler[c].pc \in Aimed => handler[c].sid \in Shells

\* Chunk n of shell s waits in the channel for client c.
InQueue(c, s, n) ==
  \E i \in DOMAIN broadcastCh : broadcastCh[i].to = c /\ broadcastCh[i].shell = s /\ n \in broadcastCh[i].chunks

\* Client c was told chunk n of shell s, or somebody has it for the client who will
\* not leave it.
Told(c, s, n) ==
  \/ n \in seen[c][s]
  \/ InQueue(c, s, n)
  \/ loop.msg.to = c /\ loop.msg.shell = s /\ c \in loop.todo /\ n \in loop.msg.chunks
  \/ n = history[s] /\ (c \in reader[s].todo \/ (reader[s].ready /\ c \in controllers[s]))

\* Client c was told all of shell s, or has it in hand.
Covered(c, s) ==
  \A n \in 1 .. history[s] :
    Told(c, s, n) \/ (handler[c].pc = "send_history" /\ handler[c].sid = s /\ n \in handler[c].todo)

\* While its handler attaches or detaches the client, the history is yet to be read or
\* nobody asks any more.
Underway(c, s) == handler[c].sid = s /\ handler[c].pc \in {"attach_ok", "history", "forget"}

\* A client that is connected is written to, one that is not is in no shell; and what its
\* handler has done so far.
Connected(c) ==
  /\ ~destroyed /\ handler[c].pc \notin {"none", "gone"} => c \in conns
  /\ ~destroyed /\ handler[c].pc \in {"none", "leave", "gone"} => clientSessions[c] = {}
  /\ handler[c].pc = "takeover" => handler[c].todo = Shells
  /\ handler[c].pc = "switch" => handler[c].sid \notin handler[c].todo
  /\ handler[c].pc = "forget" => c \notin controllers[handler[c].sid]
  /\ handler[c].pc \in {"added", "switch"} => c \in controllers[handler[c].sid]

\* Both maps agree on where a client is, up to what its handler is about to do.
Agrees(c, s) ==
  /\ s \in clientSessions[c] => c \in controllers[s] \/ (handler[c].pc = "forget" /\ handler[c].sid = s)
  /\ c \in controllers[s] =>
       \/ s \in clientSessions[c]
       \/ handler[c].sid = s /\ handler[c].pc \in {"added", "switch"}
       \/ s \in handler[c].todo /\ handler[c].pc = "leave"

\* What holds of a client, and of all.
Client(c) ==
  /\ Connected(c)
  /\ \A s \in Shells : Agrees(c, s)
  /\ \A s \in clientSessions[c] : Covered(c, s) \/ Underway(c, s)

Clientele == \A c \in Clients : Client(c)

-----------------------------------------------------------------------------
(* The channel *)

\* What waits in the channel still does when something is sent, and that waits too.
LEMMA Enqueued ==
  ASSUME broadcastCh \in Seq(Wire), NEW to \in Clients \cup {All}, NEW s \in Shells \cup {Nobody}, NEW chunks \in SUBSET Things,
         Enqueue(to, s, chunks)
  PROVE  /\ broadcastCh' \in Seq(Wire)
         /\ \A c, x, n : InQueue(c, x, n) => InQueue(c, x, n)'
         /\ \A n \in chunks : InQueue(to, s, n)'
<1> DEFINE m == [to |-> to, shell |-> s, chunks |-> chunks]
<1>1. broadcastCh' = Append(broadcastCh, m) /\ m \in Wire
  BY DEF Enqueue, Wire
<1>2. m.to = to /\ m.shell = s /\ m.chunks = chunks
  OBVIOUS
<1> HIDE DEF m
<1>3. /\ broadcastCh' \in Seq(Wire) /\ Len(broadcastCh) + 1 \in DOMAIN broadcastCh' /\ broadcastCh'[Len(broadcastCh) + 1] = m
      /\ \A i \in DOMAIN broadcastCh : i \in DOMAIN broadcastCh' /\ broadcastCh'[i] = broadcastCh[i]
  BY <1>1
<1> QED BY <1>2, <1>3 DEF InQueue

\* What waits in the channel is at its head or still waits without it.
LEMMA Dequeued ==
  ASSUME broadcastCh \in Seq(Wire), broadcastCh # <<>>, broadcastCh' = Tail(broadcastCh)
  PROVE  /\ broadcastCh' \in Seq(Wire) /\ Head(broadcastCh) \in Wire
         /\ \A c, s, n : InQueue(c, s, n) =>
              \/ Head(broadcastCh).to = c /\ Head(broadcastCh).shell = s /\ n \in Head(broadcastCh).chunks
              \/ InQueue(c, s, n)'
<1>1. broadcastCh' \in Seq(Wire) /\ Head(broadcastCh) \in Wire /\ Head(broadcastCh) = broadcastCh[1]
  OBVIOUS
<1>2. \A i \in DOMAIN broadcastCh : i # 1 => i - 1 \in DOMAIN broadcastCh' /\ broadcastCh'[i - 1] = broadcastCh[i]
  OBVIOUS
<1> QED BY <1>1, <1>2 DEF InQueue

-----------------------------------------------------------------------------
\* The invariant of the local server holds when it starts.
LEMMA InitLocal == LocalInit => LocalShape /\ Clientele
<1> SUFFICES ASSUME LocalInit PROVE LocalShape /\ Clientele
  OBVIOUS
<1>1. handler \in [Clients -> [pc : HandlerPCs, sid : Shells \cup {Nobody}, todo : SUBSET Things]]
      /\ \A c \in Clients : handler[c].pc = "none"
  BY DEF LocalInit, Away, HandlerPCs
<1>2. loop \in [msg : Wire \cup {NoMessage}, todo : SUBSET Clients]
  BY DEF LocalInit
<1>3. reader \in [Shells -> [ready : BOOLEAN, todo : SUBSET Clients]] /\ history \in [Shells -> Nat] /\ broadcastCh \in Seq(Wire)
      /\ seen \in [Clients -> [Shells -> SUBSET Things]]
  BY DEF LocalInit
<1>4. clientSessions \in [Clients -> SUBSET Shells] /\ controllers \in [Shells -> SUBSET Clients] /\ conns = {}
      /\ (\A c \in Clients : clientSessions[c] = {}) /\ (\A s \in Shells : controllers[s] = {})
  BY DEF LocalInit
<1>5. LocalShape
  BY <1>1, <1>2, <1>3, <1>4 DEF LocalShape, Aimed
<1>6. Clientele
  BY <1>1, <1>4 DEF Clientele, Client, Connected, Agrees
<1> QED BY <1>5, <1>6

-----------------------------------------------------------------------------
(* Whose client nothing happens to *)

\* What a step may change without disturbing what is said of a client.
LEMMA ClientKept ==
  ASSUME ~destroyed, NEW c \in Clients, Client(c),
         handler'[c] = handler[c], clientSessions'[c] = clientSessions[c], clientSessions[c] \subseteq Shells,
         \A s \in Shells : c \in controllers'[s] <=> c \in controllers[s],
         handler[c].pc \in Aimed => handler[c].sid \in Shells,
         c \in conns => c \in conns' \/ destroyed',
         \A s \in clientSessions[c] : c \in conns /\ c \in controllers[s] /\ Covered(c, s) => Covered(c, s)'
  PROVE  Client(c)'
<1>1. Connected(c)'
  BY DEF Client, Connected, Aimed
<1>2. \A s \in Shells : Agrees(c, s)'
  BY DEF Client, Agrees
<1>3. ASSUME NEW s \in clientSessions[c] PROVE Covered(c, s)' \/ Underway(c, s)'
  <2>1. CASE Underway(c, s)
    BY <2>1 DEF Underway
  <2>2. CASE ~Underway(c, s)
    <3>1. Covered(c, s) /\ s \in Shells
      BY <2>2 DEF Client
    <3>2. c \in controllers[s]
      BY <2>2, <3>1 DEF Client, Agrees, Underway
    <3>3. c \in conns
      BY DEF Client, Connected
    <3> QED BY <3>1, <3>2, <3>3
  <2> QED BY <2>1, <2>2
<1> QED BY <1>1, <1>2, <1>3 DEF Client

\* Nothing that was told is lost when more is sent.
LEMMA StillTold ==
  ASSUME UNCHANGED <<history, reader, loop, seen>>, NEW c \in Clients, NEW s \in Shells, NEW n,
         InQueue(c, s, n) => InQueue(c, s, n)', c \in controllers[s] => c \in controllers'[s], Told(c, s, n)
  PROVE  Told(c, s, n)'
BY DEF Told

\* A handler's step leaves the other clients alone.
LEMMA OthersKept ==
  ASSUME LocalShape, ~destroyed, Clientele, NEW c \in Clients,
         UNCHANGED <<history, reader, loop, seen>>,
         \A d, s, n : InQueue(d, s, n) => InQueue(d, s, n)',
         \A d \in Clients \ {c} : handler'[d] = handler[d] /\ clientSessions'[d] = clientSessions[d]
                                  /\ (d \in conns => d \in conns' \/ destroyed'),
         \A d \in Clients \ {c} : \A s \in Shells : d \in controllers'[s] <=> d \in controllers[s],
         Client(c)'
  PROVE  Clientele'
<1> SUFFICES ASSUME NEW d \in Clients, d # c PROVE Client(d)'
  BY DEF Clientele
<1>1. ASSUME NEW s \in clientSessions[d], Covered(d, s) PROVE Covered(d, s)'
  <2>1. s \in Shells
    BY DEF LocalShape
  <2>2. \A n : Told(d, s, n) => Told(d, s, n)'
    BY <2>1, StillTold
  <2> QED BY <1>1, <2>2 DEF Covered
<1> QED BY <1>1, ClientKept DEF LocalShape, Clientele

-----------------------------------------------------------------------------
(* Shells and the loop *)

\* A step in which no client and no entry changes keeps all clients if it keeps what they were told.
LEMMA AllKept ==
  ASSUME LocalShape, ~destroyed, Clientele, UNCHANGED <<handler, clientSessions, controllers, conns>>,
         \A c \in conns, s \in Shells : c \in controllers[s] /\ Covered(c, s) => Covered(c, s)'
  PROVE  Clientele'
<1> SUFFICES ASSUME NEW c \in Clients PROVE Client(c)'
  BY DEF Clientele
<1>1. \A s \in clientSessions[c] : c \in conns /\ c \in controllers[s] /\ Covered(c, s) => Covered(c, s)'
  BY DEF LocalShape
<1> QED BY <1>1, ClientKept DEF LocalShape, Clientele

\* A shell prints: its chunk joins the history and waits for the reader.
LEMMA OutputKeeps ==
  ASSUME LocalShape, ~destroyed, Clientele, NEW s \in Shells, Output(s)
  PROVE  LocalShape' /\ Clientele'
<1>1. /\ UNCHANGED <<conns, clientSessions, controllers, broadcastCh, handler, loop, seen>>
      /\ ~reader[s].ready /\ reader[s].todo = {}
      /\ history' = [history EXCEPT ![s] = @ + 1] /\ reader' = [reader EXCEPT ![s].ready = TRUE]
  BY DEF Output, ControllersFree
<1>2. history \in [Shells -> Nat] /\ reader \in [Shells -> [ready : BOOLEAN, todo : SUBSET Clients]]
  BY DEF LocalShape
<1>3. /\ history' \in [Shells -> Nat] /\ history'[s] = history[s] + 1 /\ \A x \in Shells \ {s} : history'[x] = history[x]
      /\ reader' \in [Shells -> [ready : BOOLEAN, todo : SUBSET Clients]] /\ reader'[s].ready /\ \A x \in Shells \ {s} : reader'[x] = reader[x]
  <2>1. history' \in [Shells -> Nat] /\ history'[s] = history[s] + 1 /\ \A x \in Shells \ {s} : history'[x] = history[x]
    BY <1>1, <1>2
  <2>2. reader' \in [Shells -> [ready : BOOLEAN, todo : SUBSET Clients]] /\ reader'[s].ready /\ \A x \in Shells \ {s} : reader'[x] = reader[x]
    BY <1>1, <1>2
  <2> QED BY <2>1, <2>2
<1>4. LocalShape'
  BY <1>1, <1>3 DEF LocalShape
<1>5. ASSUME NEW c \in conns, NEW x \in Shells, c \in controllers[x], Covered(c, x) PROVE Covered(c, x)'
  <2>1. \A n : InQueue(c, x, n)' <=> InQueue(c, x, n)
    BY <1>1 DEF InQueue
  <2>2. CASE x # s
    BY <1>1, <1>3, <1>5, <2>1, <2>2 DEF Covered, Told
  <2>3. CASE x = s
    <3> SUFFICES ASSUME NEW n \in 1 .. history[s] + 1
                 PROVE  Told(c, s, n)' \/ (handler[c].pc = "send_history" /\ handler[c].sid = s /\ n \in handler[c].todo)
      BY <1>1, <1>3, <2>3 DEF Covered
    <3>1. CASE n = history[s] + 1
      BY <1>1, <1>3, <1>5, <2>3, <3>1 DEF Told
    <3>2. CASE n # history[s] + 1
      <4>1. history[s] \in Nat
        BY <1>2
      <4>2. n \in 1 .. history[s]
        BY <3>2, <4>1
      <4>3. Told(c, s, n) \/ (handler[c].pc = "send_history" /\ handler[c].sid = s /\ n \in handler[c].todo)
        BY <1>5, <2>3, <4>2 DEF Covered
      <4>4. Told(c, s, n) => Told(c, s, n)'
        BY <1>1, <2>1, <2>3 DEF Told
      <4> QED BY <4>3, <4>4
    <3> QED BY <3>1, <3>2
  <2> QED BY <2>2, <2>3
<1> QED BY <1>1, <1>4, <1>5, AllKept

\* The reader takes the controllers of now and enqueues the chunk for each in turn.
LEMMA BroadcastKeeps ==
  ASSUME LocalShape, ~destroyed, Clientele, NEW s \in Shells, BroadcastTo(s) \/ Broadcast(s)
  PROVE  LocalShape' /\ Clientele'
<1>1. UNCHANGED <<conns, clientSessions, controllers, history, handler, loop, seen>>
  BY DEF BroadcastTo, Broadcast
<1>2. reader \in [Shells -> [ready : BOOLEAN, todo : SUBSET Clients]] /\ controllers[s] \subseteq Clients /\ broadcastCh \in Seq(Wire)
  BY DEF LocalShape
<1>3. CASE BroadcastTo(s)
  <2>1. broadcastCh' = broadcastCh /\ reader' = [reader EXCEPT ![s] = [ready |-> FALSE, todo |-> controllers[s]]]
    BY <1>3 DEF BroadcastTo
  <2>2. /\ reader' \in [Shells -> [ready : BOOLEAN, todo : SUBSET Clients]]
        /\ reader'[s].todo = controllers[s] /\ \A x \in Shells \ {s} : reader'[x] = reader[x]
    BY <1>2, <2>1
  <2>3. LocalShape'
    BY <1>1, <2>1, <2>2 DEF LocalShape
  <2>4. ASSUME NEW c \in conns, NEW x \in Shells, c \in controllers[x], Covered(c, x) PROVE Covered(c, x)'
    <3>1. \A n : Told(c, x, n) => Told(c, x, n)'
      BY <1>1, <2>1, <2>2, <2>4 DEF Told, InQueue
    <3> QED BY <1>1, <2>4, <3>1 DEF Covered
  <2> QED BY <1>1, <2>3, <2>4, AllKept
<1>4. CASE Broadcast(s)
  <2>1. PICK d \in reader[s].todo : Enqueue(d, s, {history[s]}) /\ reader' = [reader EXCEPT ![s].todo = @ \ {d}]
    BY <1>4 DEF Broadcast
  <2>2. /\ reader' \in [Shells -> [ready : BOOLEAN, todo : SUBSET Clients]]
        /\ reader'[s].todo = reader[s].todo \ {d} /\ reader'[s].ready = reader[s].ready
        /\ \A x \in Shells \ {s} : reader'[x] = reader[x]
    BY <1>2, <2>1
  <2>3. d \in Clients /\ {history[s]} \in SUBSET Things
    BY <1>2 DEF LocalShape, Things
  <2>4. /\ broadcastCh' \in Seq(Wire) /\ (\A c, x, n : InQueue(c, x, n) => InQueue(c, x, n)') /\ \A n \in {history[s]} : InQueue(d, s, n)'
    BY <1>2, <2>1, <2>3, Enqueued
  <2>5. LocalShape'
    BY <1>1, <2>2, <2>4 DEF LocalShape
  <2>6. ASSUME NEW c \in conns, NEW x \in Shells, Covered(c, x) PROVE Covered(c, x)'
    <3>1. ASSUME NEW n, Told(c, x, n) PROVE Told(c, x, n)'
      <4>1. CASE c = d /\ x = s /\ n = history[s]
        BY <2>4, <4>1 DEF Told
      <4>2. CASE ~(c = d /\ x = s /\ n = history[s])
        BY <1>1, <2>2, <2>4, <3>1, <4>2 DEF Told
      <4> QED BY <4>1, <4>2
    <3> QED BY <1>1, <2>6, <3>1 DEF Covered
  <2> QED BY <1>1, <2>5, <2>6, AllKept
<1> QED BY <1>3, <1>4

\* A state is pushed to everybody: no chunk is in it.
LEMMA PushKeeps ==
  ASSUME LocalShape, ~destroyed, Clientele, PushState
  PROVE  LocalShape' /\ Clientele'
<1>1. UNCHANGED <<conns, clientSessions, controllers, history, handler, reader, loop, seen>>
  BY DEF PushState
<1>2. broadcastCh' \in Seq(Wire) /\ \A c, x, n : InQueue(c, x, n) => InQueue(c, x, n)'
  <2>1. broadcastCh \in Seq(Wire)
    BY DEF LocalShape
  <2>2. CASE Enqueue(All, Nobody, {})
    BY <2>1, <2>2, Enqueued
  <2>3. CASE UNCHANGED broadcastCh
    BY <2>1, <2>3 DEF InQueue
  <2> QED BY <2>2, <2>3 DEF PushState
<1>3. LocalShape'
  BY <1>1, <1>2 DEF LocalShape
<1>4. \A c \in conns, x \in Shells : Covered(c, x) => Covered(c, x)'
  BY <1>1, <1>2 DEF Covered, Told
<1> QED BY <1>1, <1>3, <1>4, AllKept

\* The broadcast loop takes a message and writes it to one client after the other.
LEMMA LoopKeeps ==
  ASSUME LocalShape, ~destroyed, Clientele, Loop
  PROVE  LocalShape' /\ Clientele'
<1>1. UNCHANGED <<conns, clientSessions, controllers, history, handler, reader>>
  BY DEF Loop, Take, WriteMessage, WriteEnds
<1>2. loop \in [msg : Wire \cup {NoMessage}, todo : SUBSET Clients] /\ broadcastCh \in Seq(Wire) /\ conns \subseteq Clients
      /\ seen \in [Clients -> [Shells -> SUBSET Things]]
  BY DEF LocalShape
<1>3. CASE Take
  <2> DEFINE m == Head(broadcastCh)
  <2>1. loop.msg = NoMessage /\ broadcastCh # <<>> /\ broadcastCh' = Tail(broadcastCh) /\ seen' = seen
        /\ loop' = [msg |-> m, todo |-> IF m.to = All THEN conns ELSE {m.to}]
    BY <1>3 DEF Take
  <2>2. /\ broadcastCh' \in Seq(Wire) /\ m \in Wire
        /\ \A c, s, n : InQueue(c, s, n) => (m.to = c /\ m.shell = s /\ n \in m.chunks) \/ InQueue(c, s, n)'
    BY <1>2, <2>1, Dequeued
  <2> HIDE DEF m
  <2>3. m.to # All => m.to \in Clients
    BY <2>2 DEF Wire
  <2>4. loop' \in [msg : Wire \cup {NoMessage}, todo : SUBSET Clients] /\ loop'.msg = m /\ (m.to # All => loop'.todo = {m.to})
    BY <1>2, <2>1, <2>2, <2>3
  <2>5. LocalShape'
    BY <1>1, <2>1, <2>2, <2>4 DEF LocalShape
  <2>6. ASSUME NEW c \in conns, NEW s \in Shells, Covered(c, s) PROVE Covered(c, s)'
    <3>1. ASSUME NEW n, Told(c, s, n) PROVE Told(c, s, n)'
      <4>1. c # All
        BY <1>2, LocalNames
      <4>2. loop.msg.chunks = {}
        BY <2>1 DEF NoMessage
      <4> QED BY <1>1, <2>1, <2>2, <2>4, <3>1, <4>1, <4>2 DEF Told
    <3> QED BY <1>1, <2>6, <3>1 DEF Covered
  <2> QED BY <1>1, <2>5, <2>6, AllKept
<1>4. CASE WriteMessage
  <2>1. PICK d \in loop.todo : /\ loop' = [loop EXCEPT !.todo = @ \ {d}]
                               /\ seen' = IF d \in conns /\ loop.msg.shell # Nobody
                                            THEN [seen EXCEPT ![d][loop.msg.shell] = @ \cup loop.msg.chunks] ELSE seen
    BY <1>4 DEF WriteMessage
  <2>2. broadcastCh' = broadcastCh
    BY <1>4 DEF WriteMessage
  <2>3. loop' \in [msg : Wire \cup {NoMessage}, todo : SUBSET Clients] /\ loop'.msg = loop.msg /\ loop'.todo = loop.todo \ {d}
    BY <1>2, <2>1
  <2>4. loop.msg.shell \in Shells \cup {Nobody} /\ loop.msg.chunks \subseteq Things /\ d \in Clients
    BY <1>2 DEF Wire, NoMessage
  <2>5. /\ seen' \in [Clients -> [Shells -> SUBSET Things]]
        /\ \A c \in Clients, s \in Shells : seen[c][s] \subseteq seen'[c][s]
        /\ d \in conns /\ loop.msg.shell \in Shells => loop.msg.chunks \subseteq seen'[d][loop.msg.shell]
    <3>1. CASE d \in conns /\ loop.msg.shell # Nobody
      <4>1. loop.msg.shell \in Shells
        BY <2>4, <3>1
      <4>2. seen' = [seen EXCEPT ![d][loop.msg.shell] = @ \cup loop.msg.chunks]
        BY <2>1, <3>1
      <4> DEFINE sh == loop.msg.shell
                 ch == loop.msg.chunks
      <4>3. sh \in Shells /\ ch \subseteq Things /\ seen' = [seen EXCEPT ![d] = [seen[d] EXCEPT ![sh] = seen[d][sh] \cup ch]]
        BY <2>4, <4>1, <4>2
      <4> HIDE DEF sh, ch
      <4>4. /\ seen' \in [Clients -> [Shells -> SUBSET Things]]
            /\ (\A c \in Clients, s \in Shells : seen[c][s] \subseteq seen'[c][s]) /\ ch \subseteq seen'[d][sh]
        BY <1>2, <2>4, <4>3
      <4> QED BY <4>4 DEF sh, ch
    <3>2. CASE ~(d \in conns /\ loop.msg.shell # Nobody)
      BY <1>2, <2>1, <3>2, LocalNames
    <3> QED BY <3>1, <3>2
  <2>6. LocalShape'
    BY <1>1, <2>2, <2>3, <2>5 DEF LocalShape
  <2>7. ASSUME NEW c \in conns, NEW s \in Shells, Covered(c, s) PROVE Covered(c, s)'
    <3>1. ASSUME NEW n, Told(c, s, n) PROVE Told(c, s, n)'
      <4>1. CASE loop.msg.to = c /\ loop.msg.shell = s /\ c = d /\ n \in loop.msg.chunks
        <5>1. n \in seen'[c][s]
          BY <2>5, <4>1
        <5> QED BY <5>1 DEF Told
      <4>2. CASE ~(loop.msg.to = c /\ loop.msg.shell = s /\ c = d /\ n \in loop.msg.chunks)
        BY <1>1, <1>2, <2>2, <2>3, <2>5, <3>1, <4>2 DEF Told, InQueue
      <4> QED BY <4>1, <4>2
    <3> QED BY <1>1, <2>7, <3>1 DEF Covered
  <2> QED BY <1>1, <2>6, <2>7, AllKept
<1>5. CASE WriteEnds
  <2>1. loop.todo = {} /\ loop' = [loop EXCEPT !.msg = NoMessage] /\ UNCHANGED <<broadcastCh, seen>>
    BY <1>5 DEF WriteEnds, Written
  <2>2. loop' \in [msg : Wire \cup {NoMessage}, todo : SUBSET Clients]
    BY <1>2, <2>1
  <2>3. LocalShape'
    BY <1>1, <2>1, <2>2 DEF LocalShape
  <2>4. \A c \in conns, s \in Shells : Covered(c, s) => Covered(c, s)'
    BY <1>1, <2>1 DEF Covered, Told, InQueue
  <2> QED BY <1>1, <2>3, <2>4, AllKept
<1> QED BY <1>3, <1>4, <1>5 DEF Loop

-----------------------------------------------------------------------------
(* A client's handler *)

HandlerTypes == [pc : HandlerPCs, sid : Shells \cup {Nobody}, todo : SUBSET Things]

\* The handler goes on, with the same session, and has other things to do.
LEMMA HandlerMoves ==
  ASSUME LocalShape, NEW c \in Clients, NEW pc \in HandlerPCs, NEW X \in SUBSET Things,
         handler' = [handler EXCEPT ![c].pc = pc, ![c].todo = X]
  PROVE  /\ handler' \in [Clients -> HandlerTypes]
         /\ handler'[c].pc = pc /\ handler'[c].sid = handler[c].sid /\ handler'[c].todo = X
         /\ \A d \in Clients \ {c} : handler'[d] = handler[d]
BY DEF LocalShape, HandlerTypes

\* A handler that goes through a list only changes what is left of it.
LEMMA HandlerLoops ==
  ASSUME LocalShape, NEW c \in Clients, NEW X \in SUBSET Things, handler' = [handler EXCEPT ![c].todo = X]
  PROVE  /\ handler' \in [Clients -> HandlerTypes]
         /\ handler'[c].pc = handler[c].pc /\ handler'[c].sid = handler[c].sid /\ handler'[c].todo = X
         /\ \A d \in Clients \ {c} : handler'[d] = handler[d]
BY DEF LocalShape, HandlerTypes

\* A handler that moves to another step keeps the rest of its state.
LEMMA Moves ==
  ASSUME LocalShape, NEW c \in Clients, NEW pc \in HandlerPCs, Move(c, pc)
  PROVE  /\ handler' \in [Clients -> HandlerTypes]
         /\ handler'[c].pc = pc /\ handler'[c].sid = handler[c].sid /\ handler'[c].todo = handler[c].todo
         /\ \A d \in Clients \ {c} : handler'[d] = handler[d]
<1>1. handler \in [Clients -> HandlerTypes] /\ handler' = [handler EXCEPT ![c].pc = pc]
  BY DEF LocalShape, HandlerTypes, Move
<1> QED BY <1>1 DEF HandlerTypes

\* What the client was told of a shell it still is in.
LEMMA StillCovered ==
  ASSUME UNCHANGED <<history, reader, loop, seen>>, NEW c \in Clients, NEW s \in Shells, Covered(c, s),
         \A n : InQueue(c, s, n) => InQueue(c, s, n)', c \in controllers[s] => c \in controllers'[s],
         handler[c].pc # "send_history"
  PROVE  Covered(c, s)'
<1>1. \A n : Told(c, s, n) => Told(c, s, n)'
  BY StillTold
<1> QED BY <1>1 DEF Covered

\* A handler's step is about its own client.
LEMMA OwnStep ==
  ASSUME LocalShape, ~destroyed, Clientele, NEW c \in Clients, UNCHANGED <<history, reader, loop, seen>>,
         broadcastCh' \in Seq(Wire), \A d, s, n : InQueue(d, s, n) => InQueue(d, s, n)',
         handler' \in [Clients -> HandlerTypes], \A d \in Clients \ {c} : handler'[d] = handler[d],
         clientSessions' \in [Clients -> SUBSET Shells], \A d \in Clients \ {c} : clientSessions'[d] = clientSessions[d],
         controllers' \in [Shells -> SUBSET Clients],
         \A d \in Clients \ {c} : \A s \in Shells : d \in controllers'[s] <=> d \in controllers[s],
         conns' \subseteq Clients, \A d \in Clients \ {c} : d \in conns => d \in conns' \/ destroyed',
         handler'[c].pc \in Aimed => handler'[c].sid \in Shells,
         Connected(c)', \A s \in Shells : Agrees(c, s)', \A s \in clientSessions'[c] : Covered(c, s)' \/ Underway(c, s)'
  PROVE  LocalShape' /\ Clientele'
<1>1. LocalShape'
  <2>1. \A d \in Clients : handler'[d].pc \in Aimed => handler'[d].sid \in Shells
    BY DEF LocalShape
  <2> QED BY <2>1 DEF LocalShape, HandlerTypes
<1>2. Client(c)'
  BY DEF Client
<1>3. Clientele'
  BY <1>2, OthersKept
<1> QED BY <1>1, <1>3

\* A handler that only goes on and sends: the maps stay.
LEMMA HandlerOnlyKeeps ==
  ASSUME LocalShape, ~destroyed, ~destroyed', Clientele, NEW c \in Clients,
         UNCHANGED <<history, reader, loop, seen, clientSessions, controllers, conns>>,
         broadcastCh' \in Seq(Wire), \A d, s, n : InQueue(d, s, n) => InQueue(d, s, n)',
         handler' \in [Clients -> HandlerTypes], \A d \in Clients \ {c} : handler'[d] = handler[d],
         handler'[c].pc \in Aimed => handler'[c].sid \in Shells,
         handler[c].pc \notin {"none", "gone", "leave"}, handler'[c].pc \notin {"none", "gone", "leave"},
         Connected(c)', \A s \in Shells : Agrees(c, s)', \A s \in clientSessions[c] : Covered(c, s)' \/ Underway(c, s)'
  PROVE  LocalShape' /\ Clientele'
<1>1. clientSessions' \in [Clients -> SUBSET Shells] /\ controllers' \in [Shells -> SUBSET Clients] /\ conns' \subseteq Clients
  BY DEF LocalShape
<1>2. \A s \in clientSessions'[c] : Covered(c, s)' \/ Underway(c, s)'
  OBVIOUS
<1> QED BY <1>1, <1>2, OwnStep

\* A message that is enqueued drops none of those that wait.
LEMMA Sends ==
  ASSUME broadcastCh \in Seq(Wire), UNCHANGED broadcastCh \/ \E to \in Clients, s \in Shells \cup {Nobody}, X \in SUBSET Things : Enqueue(to, s, X)
  PROVE  broadcastCh' \in Seq(Wire) /\ \A d, s, n : InQueue(d, s, n) => InQueue(d, s, n)'
<1>1. CASE UNCHANGED broadcastCh
  BY <1>1 DEF InQueue
<1>2. ASSUME NEW to \in Clients, NEW s \in Shells \cup {Nobody}, NEW X \in SUBSET Things, Enqueue(to, s, X)
      PROVE broadcastCh' \in Seq(Wire) /\ \A d, x, n : InQueue(d, x, n) => InQueue(d, x, n)'
  BY <1>2, Enqueued
<1> QED BY <1>1, <1>2

\* A request moves the handler of the client to its first step.
LEMMA RequestKeeps ==
  ASSUME LocalShape, ~destroyed, Clientele, NEW c \in Clients, Request(c)
  PROVE  LocalShape' /\ Clientele'
<1>1. UNCHANGED <<history, reader, loop, seen, clientSessions, controllers, conns, broadcastCh, destroyed>> /\ handler[c].pc = "idle"
  BY DEF Request, In
<1>2. /\ handler' \in [Clients -> HandlerTypes] /\ \A d \in Clients \ {c} : handler'[d] = handler[d]
      /\ handler'[c].pc \in {"attach", "detach", "takeover", "answer", "stop"}
      /\ handler'[c].pc \in {"attach", "detach"} => handler'[c].sid \in Shells
      /\ handler'[c].pc = "takeover" => handler'[c].todo = Shells
  <2>0. handler \in [Clients -> HandlerTypes]
    BY DEF LocalShape, HandlerTypes
  <2>1. ASSUME NEW h \in HandlerTypes, handler' = [handler EXCEPT ![c] = h]
        PROVE  handler' \in [Clients -> HandlerTypes] /\ handler'[c] = h /\ \A d \in Clients \ {c} : handler'[d] = handler[d]
    BY <2>0, <2>1
  <2>2. ASSUME NEW s \in Shells, NEW pc \in {"attach", "detach"}, handler' = [handler EXCEPT ![c] = [pc |-> pc, sid |-> s, todo |-> {}]]
        PROVE  /\ handler' \in [Clients -> HandlerTypes] /\ \A d \in Clients \ {c} : handler'[d] = handler[d]
               /\ handler'[c].pc = pc /\ handler'[c].sid \in Shells
    <3>1. [pc |-> pc, sid |-> s, todo |-> {}] \in HandlerTypes
      BY DEF HandlerTypes, HandlerPCs
    <3> QED BY <2>1, <2>2, <3>1
  <2>3. CASE handler' = [handler EXCEPT ![c] = [pc |-> "takeover", sid |-> Nobody, todo |-> Shells]]
    <3>1. [pc |-> "takeover", sid |-> Nobody, todo |-> Shells] \in HandlerTypes
      BY DEF HandlerTypes, HandlerPCs, Things
    <3> QED BY <2>1, <2>3, <3>1
  <2>4. ASSUME NEW pc \in {"answer", "stop"}, Move(c, pc)
        PROVE  handler' \in [Clients -> HandlerTypes] /\ handler'[c].pc = pc /\ \A d \in Clients \ {c} : handler'[d] = handler[d]
    BY <2>4, Moves DEF HandlerPCs
  <2> QED BY <2>2, <2>3, <2>4 DEF Request
<1>3. broadcastCh' \in Seq(Wire) /\ \A d, s, n : InQueue(d, s, n) => InQueue(d, s, n)'
  BY <1>1, Sends DEF LocalShape
<1>4. Connected(c)'
  BY <1>1, <1>2 DEF Clientele, Client, Connected
<1>5. \A s \in Shells : Agrees(c, s)'
  BY <1>1, <1>2 DEF Clientele, Client, Agrees
<1>6. \A s \in clientSessions[c] : Covered(c, s)'
  <2> SUFFICES ASSUME NEW s \in clientSessions[c] PROVE Covered(c, s)'
    OBVIOUS
  <2>1. s \in Shells /\ Covered(c, s)
    BY <1>1 DEF LocalShape, Clientele, Client, Underway
  <2> QED BY <1>1, <1>3, <2>1, StillCovered
<1> QED BY <1>1, <1>2, <1>3, <1>4, <1>5, <1>6, HandlerOnlyKeeps DEF Aimed

\* An answer to a request, or that the attach went well.
LEMMA ReplyKeeps ==
  ASSUME LocalShape, ~destroyed, Clientele, NEW c \in Clients, Reply(c) \/ AttachOK(c)
  PROVE  LocalShape' /\ Clientele'
<1>1. UNCHANGED <<history, reader, loop, seen, clientSessions, controllers, conns, destroyed>> /\ Enqueue(c, Nobody, {})
  BY DEF Reply, AttachOK
<1>2. PICK from \in {"answer", "attach_ok"}, to \in {"idle", "history"} :
        Move(c, to) /\ handler[c].pc = from /\ (from = "answer" <=> to = "idle")
  BY DEF Reply, AttachOK, In
<1>3. /\ handler' \in [Clients -> HandlerTypes]
      /\ handler'[c].pc = to /\ handler'[c].sid = handler[c].sid
      /\ \A d \in Clients \ {c} : handler'[d] = handler[d]
  BY <1>2, Moves DEF HandlerPCs
<1>4. broadcastCh' \in Seq(Wire) /\ \A d, s, n : InQueue(d, s, n) => InQueue(d, s, n)'
  BY <1>1, Sends DEF LocalShape
<1>5. Connected(c)'
  BY <1>1, <1>2, <1>3 DEF Clientele, Client, Connected
<1>6. \A s \in Shells : Agrees(c, s)'
  BY <1>1, <1>2, <1>3 DEF Clientele, Client, Agrees
<1>7. \A s \in clientSessions[c] : Covered(c, s)' \/ Underway(c, s)'
  <2> SUFFICES ASSUME NEW s \in clientSessions[c] PROVE Covered(c, s)' \/ Underway(c, s)'
    OBVIOUS
  <2>1. s \in Shells /\ (Covered(c, s) \/ Underway(c, s))
    BY DEF LocalShape, Clientele, Client
  <2>2. CASE Underway(c, s)
    BY <1>2, <1>3, <2>2 DEF Underway
  <2>3. CASE Covered(c, s)
    BY <1>1, <1>2, <1>4, <2>1, <2>3, StillCovered
  <2> QED BY <2>1, <2>2, <2>3
<1>8. handler'[c].pc \in Aimed => handler'[c].sid \in Shells
  BY <1>2, <1>3 DEF LocalShape, Aimed
<1> QED BY <1>1, <1>2, <1>3, <1>4, <1>5, <1>6, <1>7, <1>8, HandlerOnlyKeeps

\* The history that is read is all there is.
LEMMA ReadKeeps ==
  ASSUME LocalShape, ~destroyed, Clientele, NEW c \in Clients, ReadHistory(c)
  PROVE  LocalShape' /\ Clientele'
<1> DEFINE X == 1 .. history[handler[c].sid]
<1>1. /\ UNCHANGED <<history, reader, loop, seen, clientSessions, controllers, conns, broadcastCh, destroyed>>
      /\ handler[c].pc = "history" /\ handler' = [handler EXCEPT ![c].pc = "send_history", ![c].todo = X]
  BY DEF ReadHistory, In
<1>2. X \in SUBSET Things /\ handler[c].sid \in Shells
  BY <1>1 DEF LocalShape, Things, Aimed
<1>3. /\ handler' \in [Clients -> HandlerTypes]
      /\ handler'[c].pc = "send_history" /\ handler'[c].sid = handler[c].sid /\ handler'[c].todo = X
      /\ \A d \in Clients \ {c} : handler'[d] = handler[d]
  <2> HIDE DEF X
  <2> QED BY <1>1, <1>2, HandlerMoves DEF HandlerPCs
<1>4. broadcastCh' \in Seq(Wire) /\ \A d, s, n : InQueue(d, s, n) => InQueue(d, s, n)'
  BY <1>1, Sends DEF LocalShape
<1>5. Connected(c)'
  BY <1>1, <1>3 DEF Clientele, Client, Connected
<1>6. \A s \in Shells : Agrees(c, s)'
  BY <1>1, <1>3 DEF Clientele, Client, Agrees
<1>7. \A s \in clientSessions[c] : Covered(c, s)'
  <2> SUFFICES ASSUME NEW s \in clientSessions[c] PROVE Covered(c, s)'
    OBVIOUS
  <2>1. s \in Shells /\ (Covered(c, s) \/ s = handler[c].sid)
    BY DEF LocalShape, Clientele, Client, Underway
  <2>2. CASE s = handler[c].sid
    BY <1>1, <1>3, <2>2 DEF Covered
  <2>3. CASE Covered(c, s)
    BY <1>1, <1>4, <2>1, <2>3, StillCovered
  <2> QED BY <2>1, <2>2, <2>3
<1> QED BY <1>1, <1>2, <1>3, <1>4, <1>5, <1>6, <1>7, HandlerOnlyKeeps

\* It is sent as it was read.
LEMMA SendHistoryKeeps ==
  ASSUME LocalShape, ~destroyed, Clientele, NEW c \in Clients, SendHistory(c)
  PROVE  LocalShape' /\ Clientele'
<1> DEFINE X == handler[c].todo
           sid == handler[c].sid
<1>1. /\ UNCHANGED <<history, reader, loop, seen, clientSessions, controllers, conns, destroyed>>
      /\ handler[c].pc = "send_history" /\ handler' = [handler EXCEPT ![c].pc = "idle", ![c].todo = {}]
      /\ (X = {} /\ UNCHANGED broadcastCh) \/ Enqueue(c, sid, X)
  BY DEF SendHistory, In
<1>2. X \in SUBSET Things /\ sid \in Shells /\ broadcastCh \in Seq(Wire)
  BY <1>1 DEF LocalShape, Aimed
<1>3. /\ handler' \in [Clients -> HandlerTypes]
      /\ handler'[c].pc = "idle" /\ \A d \in Clients \ {c} : handler'[d] = handler[d]
  <2>1. "idle" \in HandlerPCs /\ {} \in SUBSET Things /\ handler' = [handler EXCEPT ![c].pc = "idle", ![c].todo = {}]
    BY <1>1 DEF HandlerPCs
  <2> QED BY <2>1, HandlerMoves
<1>4. broadcastCh' \in Seq(Wire) /\ (\A d, s, n : InQueue(d, s, n) => InQueue(d, s, n)') /\ \A s \in {sid}, n \in X : InQueue(c, s, n)'
  <2>1. CASE X = {} /\ UNCHANGED broadcastCh
    <3>1. broadcastCh' \in Seq(Wire) /\ (\A d, s, n : InQueue(d, s, n) => InQueue(d, s, n)')
      BY <1>2, <2>1, Sends
    <3> QED BY <2>1, <3>1
  <2>2. CASE Enqueue(c, sid, X)
    <3> PICK s \in Shells, Y \in SUBSET Things : s = sid /\ Y = X
      BY <1>2
    <3> HIDE DEF sid, X
    <3>1. Enqueue(c, s, Y)
      BY <2>2
    <3>2. broadcastCh' \in Seq(Wire) /\ (\A d, x, n : InQueue(d, x, n) => InQueue(d, x, n)') /\ \A n \in Y : InQueue(c, s, n)'
      BY <1>2, <3>1, Enqueued
    <3> QED BY <3>2
  <2> QED BY <1>1, <2>1, <2>2
<1>5. Connected(c)'
  BY <1>1, <1>3 DEF Clientele, Client, Connected
<1>6. \A s \in Shells : Agrees(c, s)'
  BY <1>1, <1>3 DEF Clientele, Client, Agrees
<1>7. \A s \in clientSessions[c] : Covered(c, s)'
  <2> SUFFICES ASSUME NEW s \in clientSessions[c] PROVE Covered(c, s)'
    OBVIOUS
  <2>1. s \in Shells /\ Covered(c, s)
    BY <1>1 DEF LocalShape, Clientele, Client, Underway
  <2>2. \A n : Told(c, s, n) => Told(c, s, n)'
    BY <1>1, <1>4, <2>1, StillTold
  <2>3. \A n : sid = s /\ n \in X => Told(c, s, n)'
    BY <1>4 DEF Told
  <2> QED BY <1>1, <2>1, <2>2, <2>3 DEF Covered
<1>8. handler'[c].pc \notin Aimed
  BY <1>3 DEF Aimed
<1> QED BY <1>1, <1>3, <1>4, <1>5, <1>6, <1>7, <1>8, HandlerOnlyKeeps

\* The sessions to leave are the others.
LEMMA LocksKeeps ==
  ASSUME LocalShape, ~destroyed, Clientele, NEW c \in Clients, AttachLocks(c)
  PROVE  LocalShape' /\ Clientele'
<1> DEFINE X == clientSessions[c] \ {handler[c].sid}
<1>1. /\ UNCHANGED <<history, reader, loop, seen, clientSessions, controllers, conns, broadcastCh, destroyed>>
      /\ handler[c].pc = "added" /\ handler' = [handler EXCEPT ![c].pc = "switch", ![c].todo = X]
  BY DEF AttachLocks, In
<1>2. X \in SUBSET Things /\ handler[c].sid \in Shells
  BY <1>1 DEF LocalShape, Things, Aimed
<1>3. /\ handler' \in [Clients -> HandlerTypes]
      /\ handler'[c].pc = "switch" /\ handler'[c].sid = handler[c].sid /\ handler'[c].todo = X
      /\ \A d \in Clients \ {c} : handler'[d] = handler[d]
  <2> HIDE DEF X
  <2> QED BY <1>1, <1>2, HandlerMoves DEF HandlerPCs
<1>4. broadcastCh' \in Seq(Wire) /\ \A d, s, n : InQueue(d, s, n) => InQueue(d, s, n)'
  BY <1>1, Sends DEF LocalShape
<1>5. Connected(c)'
  BY <1>1, <1>3 DEF Clientele, Client, Connected
<1>6. \A s \in Shells : Agrees(c, s)'
  BY <1>1, <1>3 DEF Clientele, Client, Agrees
<1>7. \A s \in clientSessions[c] : Covered(c, s)'
  <2> SUFFICES ASSUME NEW s \in clientSessions[c] PROVE Covered(c, s)'
    OBVIOUS
  <2>1. s \in Shells /\ Covered(c, s)
    BY <1>1 DEF LocalShape, Clientele, Client, Underway
  <2> QED BY <1>1, <1>4, <2>1, StillCovered
<1> QED BY <1>1, <1>2, <1>3, <1>4, <1>5, <1>6, <1>7, HandlerOnlyKeeps

\* A client that connects is in no shell.
LEMMA ConnectKeeps ==
  ASSUME LocalShape, ~destroyed, Clientele, NEW c \in Clients, Connect(c)
  PROVE  LocalShape' /\ Clientele'
<1>1. /\ UNCHANGED <<history, reader, loop, seen, clientSessions, controllers, broadcastCh, destroyed>>
      /\ handler[c].pc = "none" /\ Move(c, "idle") /\ conns' = conns \cup {c}
  BY DEF Connect, In
<1>2. /\ handler' \in [Clients -> HandlerTypes]
      /\ handler'[c].pc = "idle" /\ \A d \in Clients \ {c} : handler'[d] = handler[d]
  BY <1>1, Moves DEF HandlerPCs
<1>3. broadcastCh' \in Seq(Wire) /\ \A d, s, n : InQueue(d, s, n) => InQueue(d, s, n)'
  BY <1>1, Sends DEF LocalShape
<1>4. clientSessions[c] = {} /\ \A s \in Shells : c \notin controllers[s]
  BY <1>1 DEF Clientele, Client, Connected, Agrees
<1>5. Connected(c)' /\ \A s \in Shells : Agrees(c, s)'
  BY <1>1, <1>2, <1>4 DEF Connected, Agrees
<1>6. clientSessions' \in [Clients -> SUBSET Shells] /\ controllers' \in [Shells -> SUBSET Clients] /\ conns' \subseteq Clients
  BY <1>1 DEF LocalShape
<1>7. handler'[c].pc \notin Aimed /\ clientSessions'[c] = {}
  BY <1>1, <1>2, <1>4 DEF Aimed
<1> QED BY <1>1, <1>2, <1>3, <1>5, <1>6, <1>7, OwnStep

\* One that leaves takes its entry along.
LEMMA DisconnectKeeps ==
  ASSUME LocalShape, ~destroyed, Clientele, NEW c \in Clients, Disconnect(c)
  PROVE  LocalShape' /\ Clientele'
<1> DEFINE X == clientSessions[c]
<1>1. /\ UNCHANGED <<history, reader, loop, seen, conns, controllers, broadcastCh, destroyed>>
      /\ handler[c].pc = "idle" /\ handler' = [handler EXCEPT ![c].pc = "leave", ![c].todo = X]
      /\ clientSessions' = [clientSessions EXCEPT ![c] = {}]
  BY DEF Disconnect, In
<1>2. X \in SUBSET Things /\ clientSessions \in [Clients -> SUBSET Shells]
  BY DEF LocalShape, Things
<1>3. /\ handler' \in [Clients -> HandlerTypes]
      /\ handler'[c].pc = "leave" /\ handler'[c].todo = X /\ \A d \in Clients \ {c} : handler'[d] = handler[d]
  <2> HIDE DEF X
  <2> QED BY <1>1, <1>2, HandlerMoves DEF HandlerPCs
<1>4. /\ clientSessions' \in [Clients -> SUBSET Shells] /\ clientSessions'[c] = {}
      /\ \A d \in Clients \ {c} : clientSessions'[d] = clientSessions[d]
  BY <1>1, <1>2
<1>5. broadcastCh' \in Seq(Wire) /\ \A d, s, n : InQueue(d, s, n) => InQueue(d, s, n)'
  BY <1>1, Sends DEF LocalShape
<1>6. Connected(c)'
  BY <1>1, <1>3, <1>4 DEF Clientele, Client, Connected
<1>7. \A s \in Shells : Agrees(c, s)'
  BY <1>1, <1>3, <1>4 DEF Clientele, Client, Agrees
<1>8. controllers' \in [Shells -> SUBSET Clients] /\ conns' \subseteq Clients
  BY <1>1 DEF LocalShape
<1>9. handler'[c].pc \notin Aimed
  BY <1>3 DEF Aimed
<1> QED BY <1>1, <1>3, <1>4, <1>5, <1>6, <1>7, <1>8, <1>9, OwnStep

\* The controllers of one shell, without or with c.
LEMMA ControllersEdited ==
  ASSUME LocalShape, NEW c \in Clients, NEW s \in Shells, NEW C \in {controllers[s] \cup {c}, controllers[s] \ {c}},
         controllers' = [controllers EXCEPT ![s] = C]
  PROVE  /\ controllers' \in [Shells -> SUBSET Clients] /\ controllers'[s] = C /\ \A x \in Shells \ {s} : controllers'[x] = controllers[x]
         /\ \A d \in Clients \ {c} : \A x \in Shells : d \in controllers'[x] <=> d \in controllers[x]
<1>1. controllers \in [Shells -> SUBSET Clients]
  BY DEF LocalShape
<1>2. C \in SUBSET Clients
  BY <1>1
<1>3. controllers' \in [Shells -> SUBSET Clients] /\ controllers'[s] = C /\ \A x \in Shells \ {s} : controllers'[x] = controllers[x]
  BY <1>1, <1>2
<1> QED BY <1>3

\* The sessions of one client.
LEMMA SessionsEdited ==
  ASSUME LocalShape, NEW c \in Clients, NEW X \in SUBSET Shells, clientSessions' = [clientSessions EXCEPT ![c] = X]
  PROVE  /\ clientSessions' \in [Clients -> SUBSET Shells] /\ clientSessions'[c] = X
         /\ \A d \in Clients \ {c} : clientSessions'[d] = clientSessions[d]
BY DEF LocalShape

\* The client joins the controllers of the shell.
LEMMA AttachKeeps ==
  ASSUME LocalShape, ~destroyed, Clientele, NEW c \in Clients, Attach(c)
  PROVE  LocalShape' /\ Clientele'
<1>1. PICK s \in Shells : s = handler[c].sid
  BY DEF Attach, In, LocalShape, Aimed
<1>2. /\ UNCHANGED <<history, reader, loop, seen, conns, clientSessions, broadcastCh, destroyed>>
      /\ handler[c].pc = "attach" /\ Move(c, "added") /\ controllers' = [controllers EXCEPT ![s] = controllers[s] \cup {c}]
  BY <1>1 DEF Attach, In
<1>3. /\ handler' \in [Clients -> HandlerTypes]
      /\ handler'[c].pc = "added" /\ handler'[c].sid = s /\ \A d \in Clients \ {c} : handler'[d] = handler[d]
  BY <1>1, <1>2, Moves DEF HandlerPCs
<1>4. /\ controllers' \in [Shells -> SUBSET Clients] /\ controllers'[s] = controllers[s] \cup {c} /\ \A x \in Shells \ {s} : controllers'[x] = controllers[x]
      /\ \A d \in Clients \ {c} : \A x \in Shells : d \in controllers'[x] <=> d \in controllers[x]
  BY <1>2, ControllersEdited
<1>5. broadcastCh' \in Seq(Wire) /\ \A d, x, n : InQueue(d, x, n) => InQueue(d, x, n)'
  BY <1>2, Sends DEF LocalShape
<1>6. Connected(c)'
  BY <1>2, <1>3, <1>4 DEF Clientele, Client, Connected
<1>7. \A x \in Shells : Agrees(c, x)'
  BY <1>2, <1>3, <1>4 DEF Clientele, Client, Agrees
<1>8. \A x \in clientSessions'[c] : Covered(c, x)'
  <2> SUFFICES ASSUME NEW x \in clientSessions[c] PROVE Covered(c, x)'
    BY <1>2
  <2>1. x \in Shells /\ Covered(c, x)
    BY <1>2 DEF LocalShape, Clientele, Client, Underway
  <2>2. c \in controllers[x] => c \in controllers'[x]
    BY <1>4, <2>1
  <2> QED BY <1>2, <1>5, <2>1, <2>2, StillCovered
<1>9. clientSessions' \in [Clients -> SUBSET Shells] /\ conns' \subseteq Clients
  BY <1>2 DEF LocalShape
<1> QED BY <1>2, <1>3, <1>4, <1>5, <1>6, <1>7, <1>8, <1>9, OwnStep

\* Leaving another session, both maps change together.
LEMMA LeaveOldKeeps ==
  ASSUME LocalShape, ~destroyed, Clientele, NEW c \in Clients, LeaveOld(c)
  PROVE  LocalShape' /\ Clientele'
<1>1. PICK s \in handler[c].todo :
        /\ controllers' = [controllers EXCEPT ![s] = @ \ {c}]
        /\ clientSessions' = [clientSessions EXCEPT ![c] = @ \ {s}]
        /\ handler' = [handler EXCEPT ![c].todo = @ \ {s}]
  BY DEF LeaveOld
<1>2. UNCHANGED <<history, reader, loop, seen, conns, broadcastCh, destroyed>> /\ handler[c].pc = "switch"
  BY DEF LeaveOld, In
<1>3. /\ handler[c].sid \in Shells /\ handler[c].todo \in SUBSET Things
      /\ clientSessions[c] \in SUBSET Shells /\ s # handler[c].sid /\ c \in controllers[handler[c].sid]
  BY <1>2 DEF LocalShape, Aimed, Clientele, Client, Connected
<1>4. /\ handler' \in [Clients -> HandlerTypes]
      /\ handler'[c].pc = "switch" /\ handler'[c].sid = handler[c].sid /\ handler'[c].todo = handler[c].todo \ {s}
      /\ \A d \in Clients \ {c} : handler'[d] = handler[d]
  <2>1. handler[c].todo \ {s} \in SUBSET Things
    BY <1>3
  <2> QED BY <1>1, <1>2, <2>1, HandlerLoops
<1>5. /\ clientSessions' \in [Clients -> SUBSET Shells] /\ clientSessions'[c] = clientSessions[c] \ {s}
      /\ \A d \in Clients \ {c} : clientSessions'[d] = clientSessions[d]
  <2>1. clientSessions[c] \ {s} \in SUBSET Shells
    BY <1>3
  <2> QED BY <1>1, <2>1, SessionsEdited
<1>6. /\ controllers' \in [Shells -> SUBSET Clients] /\ \A x \in Shells : controllers'[x] = IF x = s THEN controllers[s] \ {c} ELSE controllers[x]
  BY <1>1 DEF LocalShape
<1>7. \A d \in Clients \ {c} : \A x \in Shells : d \in controllers'[x] <=> d \in controllers[x]
  BY <1>6
<1>8. broadcastCh' \in Seq(Wire) /\ \A d, x, n : InQueue(d, x, n) => InQueue(d, x, n)'
  BY <1>2, Sends DEF LocalShape
<1>9. Connected(c)'
  BY <1>2, <1>3, <1>4, <1>6 DEF Clientele, Client, Connected
<1>10. \A x \in Shells : Agrees(c, x)'
  BY <1>2, <1>4, <1>5, <1>6 DEF Clientele, Client, Agrees
<1>11. \A x \in clientSessions'[c] : Covered(c, x)'
  <2> SUFFICES ASSUME NEW x \in clientSessions[c], x # s PROVE Covered(c, x)'
    BY <1>5
  <2>1. x \in Shells /\ Covered(c, x)
    BY <1>2 DEF LocalShape, Clientele, Client, Underway
  <2>2. c \in controllers[x] => c \in controllers'[x]
    BY <1>6, <2>1
  <2> QED BY <1>2, <1>8, <2>1, <2>2, StillCovered
<1>12. conns' \subseteq Clients
  BY <1>2 DEF LocalShape
<1> QED BY <1>2, <1>3, <1>4, <1>5, <1>6, <1>7, <1>8, <1>9, <1>10, <1>11, <1>12, OwnStep

\* The client is entered where it already is a controller.
LEMMA EnterKeeps ==
  ASSUME LocalShape, ~destroyed, Clientele, NEW c \in Clients, Enter(c)
  PROVE  LocalShape' /\ Clientele'
<1>1. PICK s \in Shells : s = handler[c].sid
  BY DEF Enter, In, LocalShape, Aimed
<1>2. /\ UNCHANGED <<history, reader, loop, seen, conns, controllers, broadcastCh, destroyed>>
      /\ handler[c].pc = "switch" /\ Move(c, "attach_ok") /\ clientSessions' = [clientSessions EXCEPT ![c] = clientSessions[c] \cup {s}]
  BY <1>1 DEF Enter, In
<1>3. /\ handler' \in [Clients -> HandlerTypes]
      /\ handler'[c].pc = "attach_ok" /\ handler'[c].sid = s /\ \A d \in Clients \ {c} : handler'[d] = handler[d]
  BY <1>1, <1>2, Moves DEF HandlerPCs
<1>4. /\ clientSessions' \in [Clients -> SUBSET Shells] /\ clientSessions'[c] = clientSessions[c] \cup {s}
      /\ \A d \in Clients \ {c} : clientSessions'[d] = clientSessions[d]
  <2>1. clientSessions[c] \cup {s} \in SUBSET Shells
    BY DEF LocalShape
  <2> QED BY <1>2, <2>1, SessionsEdited
<1>5. broadcastCh' \in Seq(Wire) /\ \A d, x, n : InQueue(d, x, n) => InQueue(d, x, n)'
  BY <1>2, Sends DEF LocalShape
<1>6. Connected(c)'
  BY <1>2, <1>3, <1>4 DEF Clientele, Client, Connected
<1>7. \A x \in Shells : Agrees(c, x)'
  BY <1>1, <1>2, <1>3, <1>4 DEF Clientele, Client, Agrees, Connected
<1>8. \A x \in clientSessions'[c] : Covered(c, x)' \/ Underway(c, x)'
  <2> SUFFICES ASSUME NEW x \in clientSessions[c] \cup {s}, x # s PROVE Covered(c, x)'
    BY <1>3, <1>4 DEF Underway
  <2>1. x \in Shells /\ Covered(c, x)
    BY <1>2 DEF LocalShape, Clientele, Client, Underway
  <2> QED BY <1>2, <1>5, <2>1, StillCovered
<1>9. controllers' \in [Shells -> SUBSET Clients] /\ conns' \subseteq Clients
  BY <1>2 DEF LocalShape
<1> QED BY <1>2, <1>3, <1>4, <1>5, <1>6, <1>7, <1>8, <1>9, OwnStep

\* The client is taken out of the controllers of the shell.
LEMMA DetachKeeps ==
  ASSUME LocalShape, ~destroyed, Clientele, NEW c \in Clients, Detach(c)
  PROVE  LocalShape' /\ Clientele'
<1>1. PICK s \in Shells : s = handler[c].sid
  BY DEF Detach, In, LocalShape, Aimed
<1>2. /\ UNCHANGED <<history, reader, loop, seen, conns, clientSessions, broadcastCh, destroyed>>
      /\ handler[c].pc = "detach" /\ Move(c, "forget") /\ controllers' = [controllers EXCEPT ![s] = controllers[s] \ {c}]
  BY <1>1 DEF Detach, In
<1>3. /\ handler' \in [Clients -> HandlerTypes]
      /\ handler'[c].pc = "forget" /\ handler'[c].sid = s /\ \A d \in Clients \ {c} : handler'[d] = handler[d]
  BY <1>1, <1>2, Moves DEF HandlerPCs
<1>4. /\ controllers' \in [Shells -> SUBSET Clients] /\ controllers'[s] = controllers[s] \ {c} /\ \A x \in Shells \ {s} : controllers'[x] = controllers[x]
      /\ \A d \in Clients \ {c} : \A x \in Shells : d \in controllers'[x] <=> d \in controllers[x]
  BY <1>2, ControllersEdited
<1>5. broadcastCh' \in Seq(Wire) /\ \A d, x, n : InQueue(d, x, n) => InQueue(d, x, n)'
  BY <1>2, Sends DEF LocalShape
<1>6. Connected(c)'
  BY <1>2, <1>3, <1>4 DEF Clientele, Client, Connected
<1>7. \A x \in Shells : Agrees(c, x)'
  BY <1>2, <1>3, <1>4 DEF Clientele, Client, Agrees
<1>8. \A x \in clientSessions'[c] : Covered(c, x)' \/ Underway(c, x)'
  <2> SUFFICES ASSUME NEW x \in clientSessions[c], x # s PROVE Covered(c, x)'
    BY <1>2, <1>3 DEF Underway
  <2>1. x \in Shells /\ Covered(c, x)
    BY <1>2 DEF LocalShape, Clientele, Client, Underway
  <2>2. c \in controllers[x] => c \in controllers'[x]
    BY <1>4, <2>1
  <2> QED BY <1>2, <1>5, <2>1, <2>2, StillCovered
<1>9. clientSessions' \in [Clients -> SUBSET Shells] /\ conns' \subseteq Clients
  BY <1>2 DEF LocalShape
<1> QED BY <1>2, <1>3, <1>4, <1>5, <1>6, <1>7, <1>8, <1>9, OwnStep

\* The shell is taken out of what the client is attached to.
LEMMA ForgetKeeps ==
  ASSUME LocalShape, ~destroyed, Clientele, NEW c \in Clients, Forget(c)
  PROVE  LocalShape' /\ Clientele'
<1>1. PICK s \in Shells : s = handler[c].sid
  BY DEF Forget, In, LocalShape, Aimed
<1>2. /\ UNCHANGED <<history, reader, loop, seen, conns, controllers, broadcastCh, destroyed>>
      /\ handler[c].pc = "forget" /\ Move(c, "idle") /\ clientSessions' = [clientSessions EXCEPT ![c] = clientSessions[c] \ {s}]
  BY <1>1 DEF Forget, In
<1>3. /\ handler' \in [Clients -> HandlerTypes]
      /\ handler'[c].pc = "idle" /\ \A d \in Clients \ {c} : handler'[d] = handler[d]
  BY <1>2, Moves DEF HandlerPCs
<1>4. /\ clientSessions' \in [Clients -> SUBSET Shells] /\ clientSessions'[c] = clientSessions[c] \ {s}
      /\ \A d \in Clients \ {c} : clientSessions'[d] = clientSessions[d]
  <2>1. clientSessions[c] \ {s} \in SUBSET Shells
    BY DEF LocalShape
  <2> QED BY <1>2, <2>1, SessionsEdited
<1>5. broadcastCh' \in Seq(Wire) /\ \A d, x, n : InQueue(d, x, n) => InQueue(d, x, n)'
  BY <1>2, Sends DEF LocalShape
<1>6. Connected(c)'
  BY <1>2, <1>3, <1>4 DEF Clientele, Client, Connected
<1>7. \A x \in Shells : Agrees(c, x)'
  BY <1>1, <1>2, <1>3, <1>4 DEF Clientele, Client, Agrees, Connected
<1>8. \A x \in clientSessions'[c] : Covered(c, x)'
  <2> SUFFICES ASSUME NEW x \in clientSessions[c], x # s PROVE Covered(c, x)'
    BY <1>4
  <2>1. x \in Shells /\ Covered(c, x)
    BY <1>1, <1>2 DEF LocalShape, Clientele, Client, Underway
  <2> QED BY <1>2, <1>5, <2>1, StillCovered
<1>9. controllers' \in [Shells -> SUBSET Clients] /\ conns' \subseteq Clients /\ handler'[c].pc \notin Aimed
  BY <1>2, <1>3 DEF LocalShape, Aimed
<1> QED BY <1>2, <1>3, <1>4, <1>5, <1>6, <1>7, <1>8, <1>9, OwnStep

\* A client that leaves is taken out of one shell after the other.
LEMMA LeaveKeeps ==
  ASSUME LocalShape, ~destroyed, Clientele, NEW c \in Clients, Leave(c)
  PROVE  LocalShape' /\ Clientele'
<1>1. PICK s \in handler[c].todo : controllers' = [controllers EXCEPT ![s] = @ \ {c}] /\ handler' = [handler EXCEPT ![c].todo = @ \ {s}]
  BY DEF Leave, DetachLocalSession
<1>2. UNCHANGED <<history, reader, loop, seen, conns, broadcastCh, clientSessions, destroyed>> /\ handler[c].pc = "leave"
  BY DEF Leave, In
<1>3. /\ handler' \in [Clients -> HandlerTypes]
      /\ handler'[c].pc = "leave" /\ handler'[c].todo = handler[c].todo \ {s}
      /\ \A d \in Clients \ {c} : handler'[d] = handler[d]
  <2>1. handler[c].todo \ {s} \in SUBSET Things
    BY DEF LocalShape
  <2> QED BY <1>1, <1>2, <2>1, HandlerLoops
<1>4. /\ controllers' \in [Shells -> SUBSET Clients] /\ \A x \in Shells : controllers'[x] = IF x = s THEN controllers[s] \ {c} ELSE controllers[x]
  BY <1>1 DEF LocalShape
<1>5. \A d \in Clients \ {c} : \A x \in Shells : d \in controllers'[x] <=> d \in controllers[x]
  BY <1>4
<1>6. broadcastCh' \in Seq(Wire) /\ \A d, x, n : InQueue(d, x, n) => InQueue(d, x, n)'
  BY <1>2, Sends DEF LocalShape
<1>7. Connected(c)' /\ clientSessions'[c] = {}
  BY <1>2, <1>3 DEF Clientele, Client, Connected
<1>8. \A x \in Shells : Agrees(c, x)'
  BY <1>2, <1>3, <1>4, <1>7 DEF Clientele, Client, Agrees
<1>9. clientSessions' \in [Clients -> SUBSET Shells] /\ conns' \subseteq Clients /\ handler'[c].pc \notin Aimed
  BY <1>2, <1>3 DEF LocalShape, Aimed
<1> QED BY <1>2, <1>3, <1>4, <1>5, <1>6, <1>7, <1>8, <1>9, OwnStep

\* A client is gone when it is nowhere any more; the daemon may also stop.
LEMMA GoneKeeps ==
  ASSUME LocalShape, ~destroyed, Clientele, NEW c \in Clients, Gone(c) \/ Stop(c)
  PROVE  LocalShape' /\ Clientele'
<1>1. /\ UNCHANGED <<history, reader, loop, seen, broadcastCh, clientSessions, controllers>> /\ Move(c, "gone")
      /\ conns' \subseteq conns /\ (conns' = conns \ {c} \/ destroyed')
      /\ (handler[c].pc = "leave" /\ handler[c].todo = {} /\ destroyed' = destroyed) \/ (handler[c].pc = "stop" /\ destroyed')
  BY DEF Gone, Stop, In
<1>2. /\ handler' \in [Clients -> HandlerTypes]
      /\ handler'[c].pc = "gone" /\ \A d \in Clients \ {c} : handler'[d] = handler[d]
  BY <1>1, Moves DEF HandlerPCs
<1>3. broadcastCh' \in Seq(Wire) /\ \A d, x, n : InQueue(d, x, n) => InQueue(d, x, n)'
  BY <1>1, Sends DEF LocalShape
<1>4. Connected(c)'
  BY <1>1, <1>2 DEF Clientele, Client, Connected
<1>5. \A x \in Shells : Agrees(c, x)'
  BY <1>1, <1>2 DEF Clientele, Client, Agrees
<1>6. \A x \in clientSessions'[c] : Covered(c, x)'
  <2> SUFFICES ASSUME NEW x \in clientSessions[c] PROVE Covered(c, x)'
    BY <1>1
  <2>1. x \in Shells /\ Covered(c, x) /\ handler[c].pc # "send_history"
    BY <1>1 DEF LocalShape, Clientele, Client, Underway
  <2> QED BY <1>1, <1>3, <2>1, StillCovered
<1>7. clientSessions' \in [Clients -> SUBSET Shells] /\ controllers' \in [Shells -> SUBSET Clients] /\ conns' \subseteq Clients
  BY <1>1 DEF LocalShape
<1>8. handler'[c].pc \notin Aimed /\ \A d \in Clients \ {c} : d \in conns => d \in conns' \/ destroyed'
  BY <1>1, <1>2 DEF Aimed
<1> QED BY <1>1, <1>2, <1>3, <1>4, <1>5, <1>6, <1>7, <1>8, OwnStep

\* Where nobody took over yet, a takeover that has no shell left never had one.
LEMMA TakeoverKeeps ==
  ASSUME LocalShape, ~destroyed, Clientele, NEW c \in Clients, Takeover(c)
  PROVE  LocalShape' /\ Clientele'
<1>1. /\ UNCHANGED <<history, reader, loop, seen, conns, controllers, broadcastCh, destroyed>>
      /\ handler[c].pc = "takeover" /\ handler[c].todo = {} /\ Move(c, "idle") /\ clientSessions' = [x \in Clients |-> {}]
  BY DEF Takeover, In
<1>2. Shells = {}
  BY <1>1 DEF Clientele, Client, Connected
<1>3. clientSessions \in [Clients -> SUBSET Shells] /\ conns \subseteq Clients /\ controllers \in [Shells -> SUBSET Clients]
  BY DEF LocalShape
<1>4. /\ handler' \in [Clients -> HandlerTypes]
      /\ handler'[c].pc = "idle" /\ \A d \in Clients \ {c} : handler'[d] = handler[d]
  BY <1>1, Moves DEF HandlerPCs
<1>5. clientSessions' \in [Clients -> SUBSET Shells] /\ \A d \in Clients : clientSessions'[d] = {} /\ clientSessions[d] = {}
  BY <1>1, <1>2, <1>3
<1>6. broadcastCh' \in Seq(Wire) /\ \A d, x, n : InQueue(d, x, n) => InQueue(d, x, n)'
  BY <1>1, Sends DEF LocalShape
<1>7. Connected(c)'
  BY <1>1, <1>4 DEF Clientele, Client, Connected
<1>8. /\ \A s \in Shells : Agrees(c, s)'
      /\ \A s \in clientSessions'[c] : Covered(c, s)' \/ Underway(c, s)'
      /\ \A d \in Clients \ {c} : \A s \in Shells : d \in controllers'[s] <=> d \in controllers[s]
  BY <1>2, <1>5
<1>9. controllers' \in [Shells -> SUBSET Clients] /\ conns' \subseteq Clients /\ handler'[c].pc \notin Aimed
  BY <1>1, <1>3, <1>4 DEF Aimed
<1> QED BY <1>1, <1>4, <1>5, <1>6, <1>7, <1>8, <1>9, OwnStep

-----------------------------------------------------------------------------
(* Theorems *)

\* Until somebody takes the shells over, all clients are where both maps say and were
\* told all they should know.
LocalInv == ~takenOver => LocalShape /\ Clientele

\* Every step of the server keeps that.
LEMMA LocalStep == LocalInv /\ [LocalNext]_localVars => LocalInv'
<1> SUFFICES ASSUME LocalInv, [LocalNext]_localVars, ~takenOver' PROVE LocalShape' /\ Clientele'
  BY DEF LocalInv
<1>1. CASE UNCHANGED localVars
  <2>1. LocalShape /\ Clientele
    BY <1>1 DEF LocalInv, localVars
  <2>2. LocalShape'
    BY <1>1, <2>1 DEF localVars, LocalShape
  <2>3. ASSUME NEW c \in Clients PROVE Client(c)'
    <3>1. Client(c)
      BY <2>1 DEF Clientele
    <3> QED BY <1>1, <3>1 DEF localVars, Client, Connected, Agrees, Covered, Told, InQueue, Underway
  <2> QED BY <2>2, <2>3 DEF Clientele
<1>2. CASE LocalNext
  <2>1. /\ ~destroyed
        /\ \/ PushState \/ Loop
           \/ \E s \in Shells : Output(s) \/ BroadcastTo(s) \/ Broadcast(s)
           \/ \E c \in Clients : Connect(c) \/ Request(c) \/ Disconnect(c) \/ Handler(c)
    BY <1>2 DEF LocalNext
  <2>2. CASE PushState
    BY <2>1, <2>2, PushKeeps DEF PushState, LocalInv
  <2>3. CASE Loop
    <3>1. takenOver' = takenOver
      BY <2>3 DEF Loop, Take, WriteMessage, WriteEnds
    <3> QED BY <2>1, <2>3, <3>1, LoopKeeps DEF LocalInv
  <2>4. ASSUME NEW s \in Shells, Output(s) \/ BroadcastTo(s) \/ Broadcast(s) PROVE LocalShape' /\ Clientele'
    <3>1. takenOver' = takenOver
      BY <2>4 DEF Output, BroadcastTo, Broadcast
    <3> QED BY <2>1, <2>4, <3>1, OutputKeeps, BroadcastKeeps DEF LocalInv
  <2>5. ASSUME NEW c \in Clients, Connect(c) \/ Request(c) \/ Disconnect(c) \/ Handler(c) PROVE LocalShape' /\ Clientele'
    <3>1. ~CloseAllControllers(c)
      BY DEF CloseAllControllers
    <3>2. takenOver' = takenOver
      BY <2>5, <3>1 DEF Connect, Request, Disconnect, Handler, Reply, Attach, AttachLocks, LeaveOld, Enter, AttachOK,
                        ReadHistory, SendHistory, Detach, Forget, Takeover, Leave, Gone, Stop
    <3>3. LocalShape /\ Clientele
      BY <3>2 DEF LocalInv
    <3>4. CASE Connect(c) \/ Request(c) \/ Disconnect(c)
      BY <2>1, <3>3, <3>4, ConnectKeeps, RequestKeeps, DisconnectKeeps
    <3>5. CASE Reply(c) \/ Attach(c) \/ AttachLocks(c) \/ LeaveOld(c) \/ Enter(c) \/ AttachOK(c)
      BY <2>1, <3>3, <3>5, ReplyKeeps, AttachKeeps, LocksKeeps, LeaveOldKeeps, EnterKeeps
    <3>6. CASE ReadHistory(c) \/ SendHistory(c) \/ Detach(c) \/ Forget(c)
      BY <2>1, <3>3, <3>6, ReadKeeps, SendHistoryKeeps, DetachKeeps, ForgetKeeps
    <3>7. CASE Takeover(c) \/ Leave(c) \/ Gone(c) \/ Stop(c)
      BY <2>1, <3>3, <3>7, TakeoverKeeps, LeaveKeeps, GoneKeeps
    <3> QED BY <2>5, <3>1, <3>4, <3>5, <3>6, <3>7 DEF Handler
  <2> QED BY <2>1, <2>2, <2>3, <2>4, <2>5
<1> QED BY <1>1, <1>2

\* What the local server may do, without its fairness.
LocalSpec == LocalInit /\ [][LocalNext]_localVars

\* Together: the invariant holds in every state of the local server.
LEMMA LocalKept == LocalSpec => []LocalInv
<1>1. LocalInit => LocalInv
  BY InitLocal DEF LocalInv
<1>2. LocalInv /\ [LocalNext]_localVars => LocalInv'
  BY LocalStep
<1> QED BY <1>1, <1>2, PTL DEF LocalSpec

\* A shell is never left with a controller whose handler will not remove it
\* (local_server.go:257-265).
THEOREM NoStrays == LocalSpec => []NoStrayController
<1>1. LocalInv => NoStrayController
  <2> SUFFICES ASSUME LocalShape, Clientele, NEW s \in Shells, NEW c \in controllers[s]
               PROVE  \/ s \in clientSessions[c]
                      \/ handler[c].sid = s /\ handler[c].pc \in {"added", "switch"}
                      \/ s \in handler[c].todo /\ handler[c].pc = "leave"
    BY DEF LocalInv, NoStrayController
  <2>1. c \in Clients
    BY DEF LocalShape
  <2> QED BY <2>1 DEF Clientele, Client, Agrees
<1> QED BY <1>1, LocalKept, PTL

\* What an attached client was not told of its shell is on its way to it: nothing falls
\* between the history and the output that follows (local_server.go:304-338).
THEOREM MissesNothing == LocalSpec => []LocalMissesNothing
<1>1. LocalInv => LocalMissesNothing
  <2> SUFFICES ASSUME LocalShape, Clientele, NEW c \in Clients, NEW s \in Shells, handler[c].pc = "idle", s \in clientSessions[c],
                      NEW n \in 1 .. history[s]
               PROVE  n \in seen[c][s] \cup OnTheWay(c, s)
    BY DEF LocalInv, LocalMissesNothing, In
  <2> DEFINE msgs == {m \in {broadcastCh[i] : i \in 1 .. Len(broadcastCh)} \cup {loop.msg} : m.to = c /\ m.shell = s}
             last == IF c \in reader[s].todo \/ (reader[s].ready /\ c \in controllers[s]) THEN {history[s]} ELSE {}
  <2>1. Told(c, s, n)
    BY DEF Clientele, Client, Covered, Underway
  <2>2. OnTheWay(c, s) = (UNION {m.chunks : m \in msgs}) \cup last
    BY DEF OnTheWay
  <2>3. CASE InQueue(c, s, n)
    <3>1. PICK i \in DOMAIN broadcastCh : broadcastCh[i].to = c /\ broadcastCh[i].shell = s /\ n \in broadcastCh[i].chunks
      BY <2>3 DEF InQueue
    <3>2. i \in 1 .. Len(broadcastCh)
      BY DEF LocalShape
    <3>3. broadcastCh[i] \in msgs
      BY <3>1, <3>2
    <3> QED BY <2>2, <3>1, <3>3
  <2>4. CASE loop.msg.to = c /\ loop.msg.shell = s /\ c \in loop.todo /\ n \in loop.msg.chunks
    <3>1. loop.msg \in msgs
      BY <2>4
    <3> QED BY <2>2, <2>4, <3>1
  <2>5. CASE n = history[s] /\ (c \in reader[s].todo \/ (reader[s].ready /\ c \in controllers[s]))
    <3>1. last = {history[s]}
      BY <2>5, Zenon
    <3> HIDE DEF last, msgs
    <3> QED BY <2>2, <2>5, <3>1
  <2> QED BY <2>1, <2>3, <2>4, <2>5 DEF Told
<1> QED BY <1>1, LocalKept, PTL

-----------------------------------------------------------------------------
(* The log ring: it is the end of the log.                                 *)

Slots == 0 .. Capacity - 1

\* Where the line is that was logged age lines before the last one.
Place(age) == IF age < writeIdx THEN writeIdx - 1 - age ELSE writeIdx - 1 - age + Capacity

\* Counted back from writeIdx the ring holds the last count lines; the oldest
\* falls out when a line is written over it.
Ring ==
  /\ lines \in Nat
  /\ writeIdx \in Slots /\ count \in 0 .. Capacity /\ count <= lines
  /\ DOMAIN entries = Slots
  /\ \A age \in 0 .. count - 1 : entries[Place(age)] = lines - age

\* Go's % where the ring uses it: the sum is less than twice the capacity.
LEMMA ModOnce ==
  ASSUME NEW x \in Nat, x < Capacity + Capacity
  PROVE  x % Capacity = IF x < Capacity THEN x ELSE x - Capacity
<1>1. CASE x < Capacity
  BY <1>1, LogBounds
<1>2. CASE x >= Capacity
  BY <1>2, LogBounds
<1> QED BY <1>1, <1>2, LogBounds

\* The empty ring.
LEMMA InitRing == LogInit => Ring
BY LogBounds DEF LogInit, Ring, Slots

\* A line takes the place after the newest: the others are one older.
LEMMA LogKeepsRing ==
  ASSUME Ring, NEW l \in Loggers, Log(l)
  PROVE  Ring'
<1>1. Capacity \in Nat \ {0} /\ lines' = lines + 1
  BY LogBounds DEF Log
<1>2. writeIdx' = IF writeIdx + 1 < Capacity THEN writeIdx + 1 ELSE 0
  <2> DEFINE next == writeIdx + 1
  <2>1. next \in Nat /\ next < Capacity + Capacity
    BY <1>1 DEF Ring, Slots
  <2>2. writeIdx' = next % Capacity
    BY DEF Log
  <2>3. next % Capacity = IF next < Capacity THEN next ELSE next - Capacity
    <3> HIDE DEF next
    <3> QED BY <2>1, ModOnce
  <2> QED BY <1>1, <2>2, <2>3 DEF Ring, Slots
<1>3. count' = IF count < Capacity THEN count + 1 ELSE count
  BY DEF Log
<1>4. entries' = [entries EXCEPT ![writeIdx] = lines + 1]
  BY DEF Log
<1>5. \A age \in 0 .. count' - 1 : entries'[Place(age)'] = lines' - age
  <2> SUFFICES ASSUME NEW age \in 0 .. count' - 1 PROVE entries'[Place(age)'] = lines' - age
    OBVIOUS
  <2>1. CASE age = 0
    <3>1. Place(age)' = writeIdx
      BY <1>1, <1>2, <2>1 DEF Place, Ring, Slots
    <3> QED BY <1>1, <1>4, <2>1, <3>1 DEF Ring
  <2>2. CASE age # 0
    <3>1. age - 1 \in 0 .. count - 1 /\ age - 1 < Capacity - 1
      BY <1>1, <1>3, <2>2 DEF Ring
    <3>2. Place(age)' = Place(age - 1) /\ Place(age - 1) # writeIdx /\ Place(age - 1) \in Slots
      BY <1>1, <1>2, <3>1 DEF Place, Ring, Slots
    <3>3. entries'[Place(age)'] = entries[Place(age - 1)]
      BY <1>4, <3>2 DEF Ring
    <3>4. entries[Place(age - 1)] = lines - (age - 1)
      BY <3>1 DEF Ring
    <3> QED BY <1>1, <3>3, <3>4 DEF Ring
  <2> QED BY <2>1, <2>2
<1> QED BY <1>1, <1>2, <1>3, <1>4, <1>5 DEF Ring, Slots

\* Everything else leaves the ring alone.
LEMMA StepRing == Ring /\ [LogNext]_logVars => Ring'
<1> SUFFICES ASSUME Ring, [LogNext]_logVars PROVE Ring'
  OBVIOUS
<1>1. ASSUME UNCHANGED ringVars PROVE Ring'
  BY <1>1 DEF Ring, ringVars, Place
<1>2. ASSUME NEW l \in Loggers, Log(l) PROVE Ring'
  BY <1>2, LogKeepsRing
<1>3. ASSUME NEW l \in Loggers, FanOut(l) \/ Hand(l) \/ Drop(l) \/ Again(l) \/ Logged(l) PROVE Ring'
  BY <1>1, <1>3 DEF FanOut, Hand, Drop, Again, Logged
<1>4. ASSUME NEW v \in Viewers, Subscribe(v) \/ View(v) \/ Forward(v) PROVE Ring'
  BY <1>1, <1>4 DEF Subscribe, View, Forward
<1>5. CASE UNCHANGED logVars
  BY <1>1, <1>5 DEF logVars
<1> QED BY <1>2, <1>3, <1>4, <1>5 DEF LogNext

\* What GetRecent computes from the oldest entry on is what Ring says of it.
LEMMA RingIsRead == Ring => RingIsTheLog
<1> SUFFICES ASSUME Ring PROVE RingIsTheLog
  OBVIOUS
<1>1. Capacity \in Nat \ {0}
  BY LogBounds
<1>2. Oldest = IF count <= writeIdx THEN writeIdx - count
               ELSE writeIdx - count + Capacity
  <2> DEFINE back == writeIdx - count + Capacity
  <2>1. back \in Nat /\ back < Capacity + Capacity
    BY <1>1 DEF Ring, Slots
  <2>2. Oldest = back % Capacity
    BY DEF Oldest
  <2>3. back % Capacity = IF back < Capacity THEN back ELSE back - Capacity
    <3> HIDE DEF back
    <3> QED BY <2>1, ModOnce
  <2> QED BY <1>1, <2>2, <2>3 DEF Ring, Slots
<1>3. \A i \in 1 .. count : entries[(Oldest + i - 1) % Capacity] = lines - count + i
  <2> SUFFICES ASSUME NEW i \in 1 .. count PROVE entries[(Oldest + i - 1) % Capacity] = lines - count + i
    OBVIOUS
  <2> DEFINE age == count - i
             at == Oldest + i - 1
  <2>1. age \in 0 .. count - 1
    BY DEF Ring
  <2>2. at \in Nat /\ at < Capacity + Capacity
    BY <1>1, <1>2 DEF Ring, Slots
  <2>3. at % Capacity = IF at < Capacity THEN at ELSE at - Capacity
    <3> HIDE DEF at
    <3> QED BY <2>2, ModOnce
  <2>4. at % Capacity = Place(age)
    BY <1>1, <1>2, <2>3 DEF Place, Ring, Slots
  <2>5. entries[Place(age)] = lines - age
    BY <2>1 DEF Ring
  <2> QED BY <2>4, <2>5 DEF Ring
<1>4. GetRecent(Capacity) = [i \in 1 .. count |-> entries[(Oldest + i - 1) % Capacity]]
  BY <1>1 DEF GetRecent, Ring
<1> QED BY <1>3, <1>4 DEF RingIsTheLog

\* Whatever is logged, and before and after the ring is full, its entries from the
\* oldest on are the last lines in the order in which they were logged.
THEOREM RingTrue == LogSpec => []RingIsTheLog
BY InitRing, StepRing, RingIsRead, PTL DEF LogSpec

-----------------------------------------------------------------------------
(* What waits in a viewer's channel.                                       *)

\* What the steps of the goroutines that log need of the values.
LogShape ==
  /\ lines \in Nat /\ crowded \in BOOLEAN
  /\ \A v \in DOMAIN subscribers : subscribers[v] \in Seq(Nat) /\ Len(subscribers[v]) <= SubCap
  /\ logger \in [Loggers -> [pc : {"idle", "enter", "hand", "drop", "again"}, line : Nat,
                             todo : SUBSET DOMAIN subscribers, at : DOMAIN subscribers \cup {"none"}]]
  /\ \A l \in Loggers : logger[l].pc \in {"drop", "again"} => logger[l].at \in logger[l].todo

\* A goroutine that hands its line out, and those that are not under way.
Busy(l) == logger[l].pc \in {"hand", "drop", "again"}
Alone(S) == \A x \in Loggers \ S : logger[x].pc = "idle"

\* What waits in a channel has no gap, and ends with line n.
Chain(s) == \A i \in 2 .. Len(s) : s[i] = s[i - 1] + 1
LastIs(s, n) == s # <<>> => s[Len(s)] = n
AllEnd(n) == \A v \in DOMAIN subscribers : LastIs(subscribers[v], n)

\* One goroutine hands out at a time;
OneHand == \A l, x \in Loggers : Busy(l) /\ Busy(x) => l = x

\* when it begins, its line follows the one that every channel ends with;
InTurn ==
  /\ Alone({}) => AllEnd(lines)
  /\ \A e \in Loggers : logger[e].pc = "enter" /\ Alone({e}) =>
       logger[e].line = lines /\ AllEnd(lines - 1)
  /\ \A a \in Loggers : Busy(a) /\ Alone({a}) => logger[a].line = lines
  /\ \A a, e \in Loggers : Busy(a) /\ logger[e].pc = "enter" /\ Alone({a, e}) =>
       logger[e].line = lines /\ logger[a].line = lines - 1

\* until it has handed the line to a channel, that one ends with the line before;
Handing ==
  \A a \in Loggers : Busy(a) => \A v \in DOMAIN subscribers :
    LastIs(subscribers[v], IF v \in logger[a].todo THEN logger[a].line - 1 ELSE logger[a].line)

\* and where it made room, there is room.
RoomMade == \A a \in Loggers : logger[a].pc = "again" => Len(subscribers[logger[a].at]) < SubCap

\* So there is no gap.
Chains == \A v \in DOMAIN subscribers : Chain(subscribers[v])

Tidy == OneHand /\ InTurn /\ Handing /\ RoomMade /\ Chains

-----------------------------------------------------------------------------

\* The next line, put behind the one before it.
LEMMA ChainAppend ==
  ASSUME NEW s \in Seq(Nat), NEW n \in Nat, Chain(s), LastIs(s, n - 1)
  PROVE  /\ Append(s, n) \in Seq(Nat) /\ Len(Append(s, n)) = Len(s) + 1
         /\ Chain(Append(s, n)) /\ LastIs(Append(s, n), n)
<1> DEFINE t == Append(s, n)
<1>1. t \in Seq(Nat) /\ Len(t) = Len(s) + 1 /\ Len(s) \in Nat /\ t[Len(s) + 1] = n
      /\ \A i \in 1 .. Len(s) : t[i] = s[i] /\ s[i] \in Nat
  BY AppendProperties, LenProperties, ElementOfSeq
<1>2. s # <<>> => Len(s) >= 1
  BY <1>1, EmptySeq
<1> HIDE DEF t
<1>3. ASSUME NEW i \in 2 .. Len(t) PROVE t[i] = t[i - 1] + 1
  <2>1. CASE i <= Len(s)
    <3>1. i \in 2 .. Len(s) /\ i - 1 \in 1 .. Len(s) /\ i \in 1 .. Len(s)
      BY <1>1, <2>1
    <3> QED BY <1>1, <3>1 DEF Chain
  <2>2. CASE i > Len(s)
    <3>1. i = Len(s) + 1 /\ Len(s) \in 1 .. Len(s) /\ s # <<>>
      BY <1>1, <2>2, EmptySeq
    <3>2. s[Len(s)] = n - 1 /\ i - 1 = Len(s)
      BY <1>1, <3>1 DEF LastIs
    <3> QED BY <1>1, <3>1, <3>2
  <2> QED BY <1>1, <2>1, <2>2
<1> QED BY <1>1, <1>3 DEF Chain, LastIs, t

\* Without its first line, a channel ends as before.
LEMMA ChainTail ==
  ASSUME NEW s \in Seq(Nat), Chain(s), s # <<>>, NEW n, LastIs(s, n)
  PROVE  /\ Tail(s) \in Seq(Nat) /\ Len(Tail(s)) = Len(s) - 1
         /\ Chain(Tail(s)) /\ LastIs(Tail(s), n)
<1> DEFINE t == Tail(s)
<1>1. t \in Seq(Nat) /\ Len(t) = Len(s) - 1 /\ Len(s) \in Nat /\ Len(s) >= 1
      /\ \A i \in 1 .. Len(t) : t[i] = s[i + 1]
  BY HeadTailProperties, LenProperties, EmptySeq
<1>2. t # <<>> => Len(t) >= 1
  BY <1>1, EmptySeq
<1> HIDE DEF t
<1>3. ASSUME NEW i \in 2 .. Len(t) PROVE t[i] = t[i - 1] + 1
  <2> DEFINE j == i - 1
             k == i + 1
  <2>1. i \in 1 .. Len(t) /\ j \in 1 .. Len(t) /\ k \in 2 .. Len(s) /\ j + 1 = i /\ k - 1 = i
    BY <1>1
  <2> HIDE DEF j, k
  <2>2. t[i] = s[i + 1] /\ t[j] = s[i]
    BY <1>1, <2>1
  <2>3. s[k] = s[i] + 1
    BY <2>1 DEF Chain
  <2> QED BY <2>2, <2>3 DEF j, k
<1>4. t # <<>> => t[Len(t)] = n
  <2> SUFFICES ASSUME t # <<>> PROVE t[Len(t)] = n
    OBVIOUS
  <2>1. Len(t) \in 1 .. Len(t) /\ Len(t) + 1 = Len(s)
    BY <1>1, <1>2
  <2> QED BY <1>1, <2>1 DEF LastIs
<1> QED BY <1>1, <1>3, <1>4 DEF Chain, LastIs, t

\* The values have their shape when the log is empty.
LEMMA InitLogShape == LogInit => LogShape
<1> SUFFICES ASSUME LogInit PROVE LogShape
  OBVIOUS
<1>1. DOMAIN subscribers = {} /\ lines = 0 /\ crowded = FALSE
  BY DEF LogInit
<1>2. logger = [l \in Loggers |-> [pc |-> "idle", line |-> 0, todo |-> {}, at |-> "none"]]
  BY DEF LogInit, Quiet
<1> HIDE DEF LogInit
<1>3. \A l \in Loggers : logger[l].pc = "idle"
  BY <1>2
<1>4. logger \in [Loggers -> [pc : {"idle", "enter", "hand", "drop", "again"}, line : Nat,
                              todo : SUBSET DOMAIN subscribers, at : DOMAIN subscribers \cup {"none"}]]
  BY <1>2
<1> QED BY <1>1, <1>3, <1>4 DEF LogShape

\* A send that does not wait, and a drop.
LEMMA TrySendShape ==
  ASSUME LogShape, NEW v \in DOMAIN subscribers, NEW n \in Nat, TrySend(v, n)
  PROVE  /\ DOMAIN subscribers' = DOMAIN subscribers
         /\ \A x \in DOMAIN subscribers : x # v => subscribers'[x] = subscribers[x]
         /\ subscribers'[v] = IF Len(subscribers[v]) < SubCap THEN Append(subscribers[v], n) ELSE subscribers[v]
         /\ \A x \in DOMAIN subscribers : subscribers'[x] \in Seq(Nat) /\ Len(subscribers'[x]) <= SubCap
<1>1. subscribers[v] \in Seq(Nat) /\ Len(subscribers[v]) \in Nat /\ SubCap \in Nat
  BY LogBounds, LenProperties DEF LogShape
<1>2. Append(subscribers[v], n) \in Seq(Nat) /\ Len(Append(subscribers[v], n)) = Len(subscribers[v]) + 1
  BY <1>1, AppendProperties
<1>3. CASE Len(subscribers[v]) < SubCap
  <2>1. subscribers' = [subscribers EXCEPT ![v] = Append(subscribers[v], n)]
    BY <1>3 DEF TrySend
  <2> QED BY <1>1, <1>2, <1>3, <2>1 DEF LogShape
<1>4. CASE ~(Len(subscribers[v]) < SubCap)
  BY <1>4 DEF TrySend, LogShape
<1> QED BY <1>3, <1>4

\* What dropping the oldest line of a channel leaves: room for one.
LEMMA DropShape ==
  ASSUME LogShape, NEW v \in DOMAIN subscribers, subscribers' = [subscribers EXCEPT ![v] = DropOne(@)]
  PROVE  /\ DOMAIN subscribers' = DOMAIN subscribers
         /\ \A x \in DOMAIN subscribers : x # v => subscribers'[x] = subscribers[x]
         /\ subscribers'[v] = IF subscribers[v] = <<>> THEN <<>> ELSE Tail(subscribers[v])
         /\ Len(subscribers'[v]) < SubCap
         /\ \A x \in DOMAIN subscribers : subscribers'[x] \in Seq(Nat) /\ Len(subscribers'[x]) <= SubCap
<1>1. subscribers[v] \in Seq(Nat) /\ Len(subscribers[v]) \in Nat /\ Len(subscribers[v]) <= SubCap
      /\ SubCap \in Nat /\ SubCap > 0
  BY LogBounds, LenProperties DEF LogShape
<1>2. subscribers'[v] = IF subscribers[v] = <<>> THEN <<>> ELSE Tail(subscribers[v])
  BY DEF DropOne
<1>3. subscribers'[v] \in Seq(Nat) /\ Len(subscribers'[v]) < SubCap
  <2>1. CASE subscribers[v] = <<>>
    BY <1>1, <1>2, <2>1, EmptySeq
  <2>2. CASE subscribers[v] # <<>>
    BY <1>1, <1>2, <2>2, HeadTailProperties
  <2> QED BY <2>1, <2>2
<1> QED BY <1>1, <1>2, <1>3 DEF LogShape

\* The steps of one goroutine: its own record changes, the others' stay.
LEMMA LoggerShape ==
  ASSUME LogShape, NEW l \in Loggers,
         Log(l) \/ FanOut(l) \/ Hand(l) \/ Drop(l) \/ Again(l) \/ Logged(l)
  PROVE  LogShape' /\ \A x \in Loggers \ {l} : logger'[x] = logger[x]
<1> DEFINE Record == [pc : {"idle", "enter", "hand", "drop", "again"}, line : Nat,
                      todo : SUBSET DOMAIN subscribers, at : DOMAIN subscribers \cup {"none"}]
<1>0. logger \in [Loggers -> Record] /\ lines \in Nat /\ crowded \in BOOLEAN
      /\ logger[l].todo \subseteq DOMAIN subscribers /\ logger[l].line \in Nat
  BY DEF LogShape
<1>1. ASSUME NEW new \in Record, logger' = [logger EXCEPT ![l] = new], DOMAIN subscribers' = DOMAIN subscribers,
             new.pc \in {"drop", "again"} => new.at \in new.todo,
             lines' \in Nat, crowded' \in BOOLEAN,
             \A x \in DOMAIN subscribers : subscribers'[x] \in Seq(Nat) /\ Len(subscribers'[x]) <= SubCap
      PROVE  LogShape' /\ \A x \in Loggers \ {l} : logger'[x] = logger[x]
  <2>1. logger' \in [Loggers -> Record] /\ \A x \in Loggers \ {l} : logger'[x] = logger[x]
    BY <1>0, <1>1
  <2>2. \A x \in Loggers : logger'[x].pc \in {"drop", "again"} => logger'[x].at \in logger'[x].todo
    BY <1>0, <1>1 DEF LogShape
  <2> QED BY <1>1, <2>1, <2>2 DEF LogShape
<1>2. CASE Log(l)
  <2> DEFINE new == [pc |-> "enter", line |-> lines + 1, todo |-> {}, at |-> "none"]
  <2>1. new \in Record /\ new.pc = "enter"
    BY <1>0
  <2>2. logger' = [logger EXCEPT ![l] = new] /\ lines' \in Nat /\ UNCHANGED <<subscribers, crowded>>
    BY <1>0, <1>2 DEF Log
  <2> HIDE DEF new, Record
  <2> QED BY <1>0, <1>1, <2>1, <2>2 DEF LogShape
<1>3. CASE FanOut(l)
  <2> DEFINE new == [logger[l] EXCEPT !.pc = "hand", !.todo = DOMAIN subscribers]
  <2>1. new \in Record /\ new.pc = "hand"
    BY <1>0
  <2>2. logger' = [logger EXCEPT ![l] = new] /\ crowded' \in BOOLEAN /\ UNCHANGED <<subscribers, lines>>
    BY <1>0, <1>3 DEF FanOut, ringVars
  <2> HIDE DEF new, Record
  <2> QED BY <1>0, <1>1, <2>1, <2>2 DEF LogShape
<1>4. CASE Hand(l)
  <2>1. PICK v \in logger[l].todo :
          /\ TrySend(v, logger[l].line)
          /\ logger' = IF Len(subscribers[v]) < SubCap
                         THEN [logger EXCEPT ![l].todo = @ \ {v}]
                         ELSE [logger EXCEPT ![l].pc = "drop", ![l].at = v]
    BY <1>4 DEF Hand
  <2> DEFINE new == IF Len(subscribers[v]) < SubCap
                      THEN [logger[l] EXCEPT !.todo = @ \ {v}]
                      ELSE [logger[l] EXCEPT !.pc = "drop", !.at = v]
  <2>2. v \in DOMAIN subscribers /\ logger[l].pc = "hand" /\ UNCHANGED <<lines, crowded>>
    BY <1>0, <1>4 DEF Hand, ringVars
  <2>3. new \in Record /\ (new.pc \in {"drop", "again"} => new.at \in new.todo)
    BY <1>0, <2>2
  <2>4. logger' = [logger EXCEPT ![l] = new]
    BY <1>0, <2>1
  <2>5. /\ DOMAIN subscribers' = DOMAIN subscribers
        /\ \A x \in DOMAIN subscribers : subscribers'[x] \in Seq(Nat) /\ Len(subscribers'[x]) <= SubCap
    BY <1>0, <2>1, <2>2, TrySendShape
  <2> HIDE DEF new, Record
  <2> QED BY <1>0, <1>1, <2>2, <2>3, <2>4, <2>5
<1>5. CASE Drop(l)
  <2> DEFINE new == [logger[l] EXCEPT !.pc = "again"]
  <2>1. logger[l].at \in logger[l].todo /\ logger[l].at \in DOMAIN subscribers
    BY <1>0, <1>5 DEF Drop, LogShape
  <2>2. new \in Record /\ new.at \in new.todo
    BY <1>0, <2>1
  <2>3. logger' = [logger EXCEPT ![l] = new] /\ UNCHANGED <<lines, crowded>>
    BY <1>0, <1>5 DEF Drop, ringVars
  <2>4. /\ DOMAIN subscribers' = DOMAIN subscribers
        /\ \A x \in DOMAIN subscribers : subscribers'[x] \in Seq(Nat) /\ Len(subscribers'[x]) <= SubCap
    BY <1>5, <2>1, DropShape DEF Drop
  <2> HIDE DEF new, Record
  <2> QED BY <1>0, <1>1, <2>2, <2>3, <2>4
<1>6. CASE Again(l)
  <2> DEFINE new == [logger[l] EXCEPT !.pc = "hand", !.todo = @ \ {logger[l].at}, !.at = "none"]
  <2>1. logger[l].at \in DOMAIN subscribers
    BY <1>0, <1>6 DEF Again, LogShape
  <2>2. new \in Record /\ new.pc = "hand"
    BY <1>0
  <2>3. logger' = [logger EXCEPT ![l] = new] /\ UNCHANGED <<lines, crowded>>
    BY <1>0, <1>6 DEF Again, ringVars
  <2>4. /\ DOMAIN subscribers' = DOMAIN subscribers
        /\ \A x \in DOMAIN subscribers : subscribers'[x] \in Seq(Nat) /\ Len(subscribers'[x]) <= SubCap
    BY <1>0, <1>6, <2>1, TrySendShape DEF Again
  <2> HIDE DEF new, Record
  <2> QED BY <1>0, <1>1, <2>2, <2>3, <2>4
<1>7. CASE Logged(l)
  <2>1. Quiet \in Record /\ Quiet.pc = "idle"
    BY DEF Quiet
  <2>2. logger' = [logger EXCEPT ![l] = Quiet] /\ UNCHANGED <<subscribers, lines, crowded>>
    BY <1>7 DEF Logged, ringVars
  <2> HIDE DEF Record
  <2> QED BY <1>0, <1>1, <2>1, <2>2 DEF LogShape
<1> QED BY <1>2, <1>3, <1>4, <1>5, <1>6, <1>7

\* Every step keeps the shape.
LEMMA StepLogShape ==
  ASSUME LogShape, [LogNext]_logVars
  PROVE  LogShape'
<1>1. ASSUME NEW v \in Viewers, Subscribe(v) PROVE LogShape'
  <2>1. DOMAIN subscribers' = DOMAIN subscribers \cup {v} /\ UNCHANGED <<lines, logger, crowded>>
        /\ \A x \in DOMAIN subscribers' : subscribers'[x] = IF x = v THEN <<>> ELSE subscribers[x]
    BY <1>1 DEF Subscribe, ringVars
  <2>2. <<>> \in Seq(Nat) /\ Len(<<>>) <= SubCap
    BY LogBounds, EmptySeq
  <2>3. \A x \in DOMAIN subscribers' : subscribers'[x] \in Seq(Nat) /\ Len(subscribers'[x]) <= SubCap
    BY <2>1, <2>2 DEF LogShape
  <2>4. logger' \in [Loggers -> [pc : {"idle", "enter", "hand", "drop", "again"}, line : Nat,
                                 todo : SUBSET DOMAIN subscribers', at : DOMAIN subscribers' \cup {"none"}]]
    <3> DEFINE D == DOMAIN subscribers
               E == DOMAIN subscribers'
    <3>1. D \subseteq E /\ logger' = logger
          /\ logger \in [Loggers -> [pc : {"idle", "enter", "hand", "drop", "again"}, line : Nat,
                                     todo : SUBSET D, at : D \cup {"none"}]]
      BY <2>1 DEF LogShape
    <3> HIDE DEF D, E
    <3>2. logger' \in [Loggers -> [pc : {"idle", "enter", "hand", "drop", "again"}, line : Nat,
                                   todo : SUBSET E, at : E \cup {"none"}]]
      BY <3>1
    <3> QED BY <3>2 DEF E
  <2> QED BY <2>1, <2>3, <2>4 DEF LogShape
<1>2. ASSUME NEW v \in Viewers, Forward(v) PROVE LogShape'
  <2>1. v \in DOMAIN subscribers /\ subscribers[v] # <<>> /\ UNCHANGED <<lines, logger, crowded>>
        /\ DOMAIN subscribers' = DOMAIN subscribers
        /\ \A x \in DOMAIN subscribers : subscribers'[x] = IF x = v THEN Tail(subscribers[v]) ELSE subscribers[x]
    BY <1>2 DEF Forward, ringVars
  <2>2. Tail(subscribers[v]) \in Seq(Nat) /\ Len(Tail(subscribers[v])) <= SubCap
    BY <2>1, LogBounds, HeadTailProperties, LenProperties DEF LogShape
  <2> QED BY <2>1, <2>2 DEF LogShape
<1>3. ASSUME UNCHANGED <<lines, subscribers, logger, crowded>> PROVE LogShape'
  BY <1>3 DEF LogShape
<1>4. ASSUME NEW v \in Viewers, View(v) PROVE LogShape'
  BY <1>3, <1>4 DEF View, ringVars
<1>5. CASE UNCHANGED logVars
  BY <1>3, <1>5 DEF logVars, ringVars
<1> QED BY <1>1, <1>2, <1>4, <1>5, LoggerShape DEF LogNext

-----------------------------------------------------------------------------

\* While a goroutine hands its line out, the order of those behind it stays.
LEMMA BusyStays ==
  ASSUME LogShape, OneHand, InTurn, NEW l \in Loggers, Busy(l), Busy(l)', lines' = lines,
         logger'[l].line = logger[l].line, \A x \in Loggers \ {l} : logger'[x] = logger[x]
  PROVE  OneHand' /\ InTurn'
<1>1. \A x \in Loggers : (Busy(x)' <=> Busy(x)) /\ (logger'[x].pc = "enter" <=> logger[x].pc = "enter")
        /\ (logger'[x].pc = "idle" <=> logger[x].pc = "idle") /\ logger'[x].line = logger[x].line
  BY DEF Busy
<1>2. OneHand'
  BY <1>1 DEF OneHand
<1>3. \A S : Alone(S)' <=> Alone(S)
  BY <1>1 DEF Alone
<1>4. ~Alone({}) /\ \A e \in Loggers : logger[e].pc = "enter" => ~Alone({e})
  BY DEF Alone, Busy
<1> QED BY <1>1, <1>2, <1>3, <1>4 DEF InTurn

\* The line goes into the channels one after the other.
LEMMA HandTidy ==
  ASSUME LogShape, Tidy, NEW l \in Loggers, Hand(l) \/ Drop(l) \/ Again(l)
  PROVE  Tidy'
<1>0. LogShape' /\ (\A x \in Loggers \ {l} : logger'[x] = logger[x]) /\ logger[l].line \in Nat
      /\ logger[l].todo \subseteq DOMAIN subscribers
  BY LoggerShape DEF LogShape
<1>1. Busy(l) /\ Busy(l)' /\ lines' = lines /\ logger'[l].line = logger[l].line
  <2>1. CASE Hand(l)
    BY <2>1 DEF Hand, Busy, LogShape, ringVars
  <2>2. CASE Drop(l)
    BY <2>2 DEF Drop, Busy, LogShape, ringVars
  <2>3. CASE Again(l)
    BY <2>3 DEF Again, Busy, LogShape, ringVars
  <2> QED BY <2>1, <2>2, <2>3
<1>2. OneHand' /\ InTurn'
  BY <1>0, <1>1, BusyStays DEF Tidy
<1>3. \A a \in Loggers : Busy(a) \/ Busy(a)' => a = l
  BY <1>0, <1>1, <1>2 DEF OneHand, Tidy
<1> DEFINE n == logger[l].line
           Ends(x) == LastIs(subscribers'[x], IF x \in logger'[l].todo THEN n - 1 ELSE n)
<1>4. \A x \in DOMAIN subscribers :
        /\ Chain(subscribers[x]) /\ subscribers[x] \in Seq(Nat)
        /\ LastIs(subscribers[x], IF x \in logger[l].todo THEN n - 1 ELSE n)
  BY <1>1 DEF Tidy, Handing, Chains, LogShape
<1>5. DOMAIN subscribers' = DOMAIN subscribers
      /\ (\A x \in DOMAIN subscribers : Chain(subscribers'[x]) /\ Ends(x))
      /\ (logger'[l].pc = "again" => Len(subscribers'[logger'[l].at]) < SubCap)
  <2>1. ASSUME NEW v \in DOMAIN subscribers, v \in logger[l].todo, Len(subscribers[v]) < SubCap,
               TrySend(v, n), logger'[l].todo = logger[l].todo \ {v}
        PROVE  DOMAIN subscribers' = DOMAIN subscribers
               /\ (\A x \in DOMAIN subscribers : Chain(subscribers'[x]) /\ Ends(x))
    <3>1. /\ DOMAIN subscribers' = DOMAIN subscribers
          /\ \A x \in DOMAIN subscribers : x # v => subscribers'[x] = subscribers[x]
          /\ subscribers'[v] = Append(subscribers[v], n)
      BY <1>0, <2>1, TrySendShape
    <3>2. subscribers[v] \in Seq(Nat) /\ Chain(subscribers[v]) /\ LastIs(subscribers[v], n - 1)
      BY <1>4, <2>1
    <3>3. Chain(subscribers'[v]) /\ LastIs(subscribers'[v], n)
      <4> DEFINE s == subscribers[v]
      <4>1. s \in Seq(Nat) /\ n \in Nat /\ Chain(s) /\ LastIs(s, n - 1) /\ subscribers'[v] = Append(s, n)
        BY <1>0, <3>1, <3>2
      <4> HIDE DEF s, n
      <4> QED BY <4>1, ChainAppend
    <3>4. \A x \in DOMAIN subscribers : x # v => Chain(subscribers'[x]) /\ Ends(x)
      BY <1>4, <2>1, <3>1
    <3>5. Ends(v)
      BY <2>1, <3>3
    <3> QED BY <3>1, <3>3, <3>4, <3>5
  <2>2. CASE Hand(l)
    <3>1. PICK v \in logger[l].todo :
            /\ TrySend(v, n)
            /\ logger' = IF Len(subscribers[v]) < SubCap
                           THEN [logger EXCEPT ![l].todo = @ \ {v}]
                           ELSE [logger EXCEPT ![l].pc = "drop", ![l].at = v]
      BY <2>2 DEF Hand
    <3>2. v \in DOMAIN subscribers /\ logger[l].pc = "hand"
      BY <1>0, <2>2 DEF Hand
    <3>3. CASE Len(subscribers[v]) < SubCap
      <4>1. logger'[l].todo = logger[l].todo \ {v} /\ logger'[l].pc = "hand"
        BY <3>1, <3>2, <3>3 DEF LogShape
      <4> QED BY <2>1, <3>1, <3>2, <3>3, <4>1
    <3>4. CASE ~(Len(subscribers[v]) < SubCap)
      <4>1. logger'[l].todo = logger[l].todo /\ logger'[l].pc = "drop" /\ subscribers' = subscribers
        BY <3>1, <3>4 DEF LogShape, TrySend
      <4> QED BY <1>4, <4>1
    <3> QED BY <3>3, <3>4
  <2>3. CASE Drop(l)
    <3> DEFINE v == logger[l].at
               s == subscribers[v]
    <3>1. v \in logger[l].todo /\ v \in DOMAIN subscribers
      BY <1>0, <2>3 DEF Drop, LogShape
    <3>2. logger'[l].todo = logger[l].todo /\ logger'[l].at = v /\ subscribers' = [subscribers EXCEPT ![v] = DropOne(@)]
      BY <2>3 DEF Drop, LogShape
    <3>3. /\ DOMAIN subscribers' = DOMAIN subscribers
          /\ \A x \in DOMAIN subscribers : x # v => subscribers'[x] = subscribers[x]
          /\ subscribers'[v] = IF s = <<>> THEN <<>> ELSE Tail(s)
          /\ Len(subscribers'[v]) < SubCap
      BY <3>1, <3>2, DropShape
    <3>4. s \in Seq(Nat) /\ Chain(s) /\ LastIs(s, n - 1)
      BY <1>4, <3>1
    <3>5. Chain(subscribers'[v]) /\ LastIs(subscribers'[v], n - 1)
      <4>1. CASE s = <<>>
        BY <3>3, <3>4, <4>1
      <4>2. CASE s # <<>>
        <5>1. subscribers'[v] = Tail(s)
          BY <3>3, <4>2
        <5> HIDE DEF s, n, v
        <5> QED BY <3>4, <4>2, <5>1, ChainTail
      <4> QED BY <4>1, <4>2
    <3>6. \A x \in DOMAIN subscribers : x # v => Chain(subscribers'[x]) /\ Ends(x)
      BY <1>4, <3>2, <3>3
    <3>7. Ends(v)
      BY <3>1, <3>2, <3>5
    <3> QED BY <3>2, <3>3, <3>5, <3>6, <3>7
  <2>4. CASE Again(l)
    <3> DEFINE v == logger[l].at
    <3>1. v \in logger[l].todo /\ v \in DOMAIN subscribers /\ TrySend(v, n)
      BY <1>0, <2>4 DEF Again, LogShape
    <3>2. Len(subscribers[v]) < SubCap
      BY <2>4 DEF Again, Tidy, RoomMade
    <3>3. logger'[l].todo = logger[l].todo \ {v} /\ logger'[l].pc = "hand"
      BY <2>4 DEF Again, LogShape
    <3> QED BY <2>1, <3>1, <3>2, <3>3
  <2> QED BY <2>2, <2>3, <2>4
<1>6. Handing'
  <2> SUFFICES ASSUME NEW a \in Loggers, Busy(a)', NEW x \in DOMAIN subscribers'
        PROVE LastIs(subscribers'[x], IF x \in logger'[a].todo THEN logger'[a].line - 1 ELSE logger'[a].line)
    BY DEF Handing
  <2>1. a = l /\ x \in DOMAIN subscribers
    BY <1>3, <1>5
  <2> QED BY <1>1, <1>5, <2>1
<1>7. RoomMade'
  <2> SUFFICES ASSUME NEW a \in Loggers, logger'[a].pc = "again" PROVE Len(subscribers'[logger'[a].at]) < SubCap
    BY DEF RoomMade
  <2>1. a = l
    BY <1>3 DEF Busy
  <2> QED BY <1>5, <2>1
<1>8. Chains'
  BY <1>5 DEF Chains
<1> QED BY <1>2, <1>6, <1>7, <1>8 DEF Tidy

\* A line enters: it is the last one, and behind the one that is being handed out.
LEMMA LogTidy ==
  ASSUME LogShape, Tidy, NEW l \in Loggers, Log(l)
  PROVE  Tidy'
<1>0. LogShape' /\ \A x \in Loggers \ {l} : logger'[x] = logger[x]
  BY LoggerShape
<1>1. UNCHANGED subscribers /\ lines' = lines + 1 /\ lines \in Nat /\ logger[l].pc = "idle"
      /\ logger'[l].pc = "enter" /\ logger'[l].line = lines + 1
  BY DEF Log, LogShape
<1>2. \A x \in Loggers : Busy(x)' => Busy(x) /\ x # l
  BY <1>0, <1>1 DEF Busy
<1>3. OneHand' /\ Handing' /\ RoomMade' /\ Chains'
  <2>1. OneHand'
    BY <1>2 DEF Tidy, OneHand
  <2>2. Handing'
    BY <1>0, <1>1, <1>2 DEF Tidy, Handing
  <2>3. RoomMade'
    BY <1>0, <1>1 DEF Tidy, RoomMade
  <2>4. Chains'
    BY <1>1 DEF Tidy, Chains
  <2> QED BY <2>1, <2>2, <2>3, <2>4
<1>4. ~Alone({})' /\ \A x \in Loggers \ {l} : ~Alone({x})'
  BY <1>1 DEF Alone
<1>5. ASSUME Alone({l})' PROVE \A v \in DOMAIN subscribers : LastIs(subscribers[v], lines)
  <2>1. Alone({})
    BY <1>0, <1>1, <1>5 DEF Alone
  <2> QED BY <2>1 DEF Tidy, InTurn, AllEnd
<1>6. \A e \in Loggers : logger'[e].pc = "enter" /\ Alone({e})' => logger'[e].line = lines' /\ AllEnd(lines - 1)'
  <2> SUFFICES ASSUME NEW e \in Loggers, logger'[e].pc = "enter", Alone({e})'
        PROVE logger'[e].line = lines' /\ AllEnd(lines - 1)'
    OBVIOUS
  <2>1. e = l
    BY <1>4
  <2>2. lines' - 1 = lines
    BY <1>1
  <2>3. AllEnd(lines - 1)'
    BY <1>1, <1>5, <2>1, <2>2 DEF AllEnd
  <2> QED BY <1>1, <2>1, <2>3
<1>7. \A a, e \in Loggers : Busy(a)' /\ logger'[e].pc = "enter" /\ Alone({a, e})' =>
        logger'[e].line = lines' /\ logger'[a].line = lines' - 1
  <2> SUFFICES ASSUME NEW a \in Loggers, NEW e \in Loggers, Busy(a)', logger'[e].pc = "enter", Alone({a, e})'
        PROVE logger'[e].line = lines' /\ logger'[a].line = lines' - 1
    OBVIOUS
  <2>1. a # l /\ Busy(a)
    BY <1>2
  <2>2. e = l
    BY <1>1, <2>1 DEF Alone
  <2>3. Alone({a})
    BY <1>0, <1>1, <2>2 DEF Alone
  <2>4. logger[a].line = lines
    BY <2>1, <2>3 DEF Tidy, InTurn
  <2> QED BY <1>0, <1>1, <2>1, <2>2, <2>4
<1>8. \A a \in Loggers : ~(Busy(a)' /\ Alone({a})')
  BY <1>2, <1>4
<1>9. InTurn'
  BY <1>4, <1>6, <1>7, <1>8 DEF InTurn
<1> QED BY <1>3, <1>9 DEF Tidy

\* A goroutine begins to hand out while no other is under way.
LEMMA FanOutTidy ==
  ASSUME LogShape, Tidy, NEW l \in Loggers, FanOut(l), ~crowded'
  PROVE  Tidy'
<1>0. LogShape' /\ \A x \in Loggers \ {l} : logger'[x] = logger[x]
  BY LoggerShape
<1>1. /\ UNCHANGED <<subscribers, lines>> /\ logger[l].pc = "enter" /\ logger'[l].pc = "hand"
      /\ logger'[l].line = logger[l].line /\ logger'[l].todo = DOMAIN subscribers
  BY DEF FanOut, LogShape, ringVars
<1>2. Alone({l})
  BY DEF FanOut, Alone
<1>3. logger[l].line = lines /\ AllEnd(lines - 1)
  BY <1>1, <1>2 DEF Tidy, InTurn
<1>4. \A x \in Loggers \ {l} : logger'[x].pc = "idle" /\ ~Busy(x)'
  BY <1>0, <1>2 DEF Alone, Busy
<1>5. OneHand' /\ RoomMade'
  BY <1>1, <1>4 DEF OneHand, RoomMade
<1>6. Handing'
  <2> SUFFICES ASSUME NEW a \in Loggers, Busy(a)', NEW v \in DOMAIN subscribers'
        PROVE LastIs(subscribers'[v], IF v \in logger'[a].todo THEN logger'[a].line - 1 ELSE logger'[a].line)
    BY DEF Handing
  <2>1. a = l
    BY <1>4
  <2> QED BY <1>1, <1>3, <2>1 DEF AllEnd
<1>7. ~Alone({})' /\ (\A e \in Loggers : logger'[e].pc = "enter" => FALSE)
  BY <1>1, <1>4 DEF Alone
<1>8. InTurn'
  BY <1>1, <1>3, <1>4, <1>7 DEF InTurn
<1>9. Chains'
  BY <1>1 DEF Tidy, Chains
<1> QED BY <1>5, <1>6, <1>8, <1>9 DEF Tidy

\* It has handed the line to all.
LEMMA LoggedTidy ==
  ASSUME LogShape, Tidy, NEW l \in Loggers, Logged(l)
  PROVE  Tidy'
<1>0. LogShape' /\ \A x \in Loggers \ {l} : logger'[x] = logger[x]
  BY LoggerShape
<1>1. UNCHANGED <<subscribers, lines>> /\ logger[l].todo = {} /\ logger'[l].pc = "idle" /\ Busy(l)
  BY DEF Logged, LogShape, Quiet, Busy, ringVars
<1>2. \A v \in DOMAIN subscribers : LastIs(subscribers[v], logger[l].line)
  BY <1>1 DEF Tidy, Handing
<1>3. \A x \in Loggers : ~Busy(x)'
  BY <1>0, <1>1 DEF Tidy, OneHand, Busy
<1>4. OneHand' /\ Handing' /\ RoomMade'
  BY <1>3 DEF OneHand, Handing, RoomMade, Busy
<1>5. Alone({})' => AllEnd(lines)'
  <2> SUFFICES ASSUME Alone({})' PROVE AllEnd(lines)'
    OBVIOUS
  <2>1. Alone({l})
    BY <1>0 DEF Alone
  <2>2. logger[l].line = lines
    BY <1>1, <2>1 DEF Tidy, InTurn
  <2> QED BY <1>1, <1>2, <2>2 DEF AllEnd
<1>6. ASSUME NEW e \in Loggers, logger'[e].pc = "enter", Alone({e})'
      PROVE  logger'[e].line = lines' /\ AllEnd(lines - 1)'
  <2>1. e # l /\ logger'[e] = logger[e] /\ Alone({l, e})
    BY <1>0, <1>1, <1>6 DEF Alone
  <2>2. logger[e].line = lines /\ logger[l].line = lines - 1
    BY <1>1, <1>6, <2>1 DEF Tidy, InTurn
  <2> QED BY <1>1, <1>2, <2>1, <2>2 DEF AllEnd
<1>7. InTurn'
  BY <1>3, <1>5, <1>6 DEF InTurn
<1>8. Chains'
  BY <1>1 DEF Tidy, Chains
<1> QED BY <1>4, <1>7, <1>8 DEF Tidy

\* A viewer comes when nothing is being handed out, or takes a line.
LEMMA ViewerTidy ==
  ASSUME LogShape, Tidy, NEW v \in Viewers, Subscribe(v) \/ View(v) \/ Forward(v)
  PROVE  Tidy'
<1>1. UNCHANGED <<logger, lines>>
  BY DEF Subscribe, View, Forward, ringVars
<1>2. \A x \in DOMAIN subscribers' : Chain(subscribers'[x]) /\ Len(subscribers'[x]) \in Nat
        /\ (x \in DOMAIN subscribers => Len(subscribers'[x]) <= Len(subscribers[x])
              /\ \A n : LastIs(subscribers[x], n) => LastIs(subscribers'[x], n))
        /\ (x \notin DOMAIN subscribers => subscribers'[x] = <<>>)
  <2>0. \A x \in DOMAIN subscribers : Chain(subscribers[x]) /\ subscribers[x] \in Seq(Nat) /\ Len(subscribers[x]) \in Nat
    BY LenProperties DEF Tidy, Chains, LogShape
  <2>1. CASE Subscribe(v)
    <3>1. DOMAIN subscribers' = DOMAIN subscribers \cup {v} /\ v \notin DOMAIN subscribers
          /\ \A x \in DOMAIN subscribers' : subscribers'[x] = IF x = v THEN <<>> ELSE subscribers[x]
      BY <2>1 DEF Subscribe
    <3>2. Len(<<>>) = 0 /\ Chain(<<>>)
      BY EmptySeq DEF Chain
    <3> QED BY <2>0, <3>1, <3>2
  <2>2. CASE View(v)
    BY <2>0, <2>2 DEF View
  <2>3. CASE Forward(v)
    <3> DEFINE s == subscribers[v]
    <3>1. v \in DOMAIN subscribers /\ s # <<>> /\ DOMAIN subscribers' = DOMAIN subscribers
          /\ \A x \in DOMAIN subscribers : subscribers'[x] = IF x = v THEN Tail(s) ELSE subscribers[x]
      BY <2>3 DEF Forward
    <3>2. s \in Seq(Nat) /\ Chain(s) /\ Len(s) \in Nat
      BY <2>0, <3>1
    <3>3. Len(Tail(s)) = Len(s) - 1 /\ Len(s) >= 1 /\ \A n : LastIs(s, n) => LastIs(Tail(s), n)
      <4> HIDE DEF s
      <4> QED BY <3>1, <3>2, ChainTail, EmptySeq, LenProperties
    <3>4. Chain(Tail(s))
      <4> HIDE DEF s
      <4>1. LastIs(s, s[Len(s)])
        BY DEF LastIs
      <4> QED BY <3>1, <3>2, <4>1, ChainTail
    <3>5. Len(Tail(s)) \in Nat /\ Len(Tail(s)) <= Len(s)
      <4> DEFINE m == Len(s)
                 k == Len(Tail(s))
      <4>1. m \in Nat /\ m >= 1 /\ k = m - 1
        BY <3>2, <3>3
      <4> HIDE DEF m, k
      <4>2. k \in Nat /\ k <= m
        BY <4>1
      <4> QED BY <4>2 DEF m, k
    <3> HIDE DEF s
    <3>6. \A x \in DOMAIN subscribers : x # v => subscribers'[x] = subscribers[x]
      BY <3>1
    <3>7. subscribers'[v] = Tail(s)
      BY <3>1
    <3>8. \A n : LastIs(s, n) => LastIs(subscribers'[v], n)
      BY <3>3, <3>7
    <3>9. Chain(subscribers'[v]) /\ Len(subscribers'[v]) \in Nat /\ Len(subscribers'[v]) <= Len(s)
      BY <3>4, <3>5, <3>7
    <3>10. \A x \in DOMAIN subscribers : x # v =>
             Chain(subscribers'[x]) /\ Len(subscribers'[x]) \in Nat /\ Len(subscribers'[x]) <= Len(subscribers[x])
      BY <2>0, <3>6
    <3> QED BY <3>1, <3>6, <3>8, <3>9, <3>10 DEF s
  <2> QED BY <2>1, <2>2, <2>3
<1>3. \A n : AllEnd(n) => AllEnd(n)'
  <2> SUFFICES ASSUME NEW n, AllEnd(n), NEW x \in DOMAIN subscribers' PROVE LastIs(subscribers'[x], n)
    BY DEF AllEnd
  <2> QED BY <1>2 DEF AllEnd, LastIs
<1>4. OneHand' /\ InTurn'
  BY <1>1, <1>3 DEF Tidy, OneHand, InTurn, Busy, Alone
<1>5. Handing' /\ RoomMade'
  <2>1. CASE Subscribe(v)
    <3>1. \A l \in Loggers : ~Busy(l)' /\ logger'[l].pc # "again"
      BY <1>1, <2>1 DEF Subscribe, Busy
    <3> QED BY <3>1 DEF Handing, RoomMade
  <2>2. CASE View(v) \/ Forward(v)
    <3>1. DOMAIN subscribers' = DOMAIN subscribers
      BY <2>2 DEF View, Forward
    <3>2. Handing'
      BY <1>1, <1>2, <3>1 DEF Tidy, Handing, Busy
    <3>3. RoomMade'
      <4> SUFFICES ASSUME NEW a \in Loggers, logger[a].pc = "again" PROVE Len(subscribers'[logger[a].at]) < SubCap
        BY <1>1 DEF RoomMade
      <4>1. logger[a].at \in DOMAIN subscribers
        BY DEF LogShape
      <4>2. Len(subscribers[logger[a].at]) < SubCap /\ Len(subscribers[logger[a].at]) \in Nat
        BY <4>1, LenProperties DEF Tidy, RoomMade, LogShape
      <4> DEFINE before == Len(subscribers[logger[a].at])
                 after == Len(subscribers'[logger[a].at])
      <4>3. after \in Nat /\ after <= before /\ before < SubCap /\ before \in Nat /\ SubCap \in Nat
        BY <1>2, <3>1, <4>1, <4>2, LogBounds
      <4> HIDE DEF before, after
      <4>4. after < SubCap
        BY <4>3
      <4> QED BY <4>4 DEF after
    <3> QED BY <3>2, <3>3
  <2> QED BY <2>1, <2>2
<1>6. Chains'
  BY <1>2 DEF Chains
<1> QED BY <1>4, <1>5, <1>6 DEF Tidy

\* Every step keeps the channels tidy as long as no two lines are handed out at once.
LEMMA StepTidy ==
  ASSUME LogShape, ~crowded => Tidy, [LogNext]_logVars
  PROVE  ~crowded' => Tidy'
<1> SUFFICES ASSUME ~crowded' PROVE Tidy'
  OBVIOUS
<1>1. ~crowded /\ Tidy
  BY DEF LogNext, Log, FanOut, Hand, Drop, Again, Logged, Subscribe, View, Forward, logVars, LogShape
<1>2. CASE UNCHANGED logVars
  BY <1>1, <1>2 DEF Tidy, OneHand, InTurn, Handing, RoomMade, Chains, Busy, Alone, AllEnd, logVars, ringVars
<1> QED BY <1>1, <1>2, LogTidy, FanOutTidy, HandTidy, LoggedTidy, ViewerTidy DEF LogNext

\* Without channels they are tidy.
LEMMA InitTidy == LogInit => Tidy
<1> SUFFICES ASSUME LogInit PROVE Tidy
  OBVIOUS
<1>1. DOMAIN subscribers = {} /\ \A l \in Loggers : logger[l].pc = "idle"
  BY DEF LogInit, Quiet
<1> QED BY <1>1 DEF Tidy, OneHand, InTurn, Handing, RoomMade, Chains, Busy, AllEnd

\* A viewer that is too slow loses the oldest lines only: unless lines were handed out
\* at the same time, what waits in its channel has no gap.
THEOREM OldestDropped == LogSpec => []DropsOldest
<1>1. Tidy => DropsOldest
  BY DEF Tidy, Chains, Chain, DropsOldest
<1>2. LogShape /\ (~crowded => Tidy) => DropsOldest
  BY <1>1 DEF DropsOldest
<1> QED BY <1>2, InitLogShape, InitTidy, StepLogShape, StepTidy, PTL DEF LogSpec

-----------------------------------------------------------------------------
(* The three sides together.                                               *)

\* A step of the daemon is a step of one side, and none of the others.
LEMMA SidesApart ==
  [Next]_<<p2pVars, localVars, logVars, side>> => [P2PNext]_p2pVars /\ [LocalNext]_localVars /\ [LogNext]_logVars
BY DEF Next

\* What was proved of each side holds of all of them, as they are run: the app's
\* candidates and connections, the local clients' shells and chunks, the log and what
\* its viewers have yet to read.
THEOREM SidesHold ==
  Spec => [](/\ CandidatesReach /\ LiveIsInstalled
             /\ NoStrayController /\ LocalMissesNothing
             /\ RingIsTheLog /\ DropsOldest)
<1>1. Init => P2PInit /\ LocalInit /\ LogInit
  BY DEF Init
<1>2. Spec => P2PSpec /\ LocalSpec /\ LogSpec
  BY <1>1, SidesApart, PTL DEF Spec, P2PSpec, LocalSpec, LogSpec
<1> QED BY <1>2, Reached, NewestServes, NoStrays, MissesNothing, RingTrue, OldestDropped, PTL
=============================================================================
