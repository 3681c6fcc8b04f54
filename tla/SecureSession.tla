--------------------------- MODULE SecureSession ---------------------------
(***************************************************************************)
(* The daemon's end of the encrypted session: the single-slot SPAKE2       *)
(* exchange, the per-connection verification flag, the attempt budget and  *)
(* the SecureChannel object that output is sealed with.                    *)
(*                                                                         *)
(* The handlers run on the goroutine that reads the transport a message    *)
(* came by: the relay's readLoop ("TS") or the data channel's callback     *)
(* ("P2P").  A handler is cut where it gives up secureMu or between two    *)
(* atomic stores, so that handlers of the two readers, the timer           *)
(* callbacks, the output goroutines and a local client interleave as they  *)
(* do in the program.                                                      *)
(*                                                                         *)
(* Handshakes are numbered in the order of their pake_start.  A handshake  *)
(* that succeeds makes one SecureChannel, which takes its number; the two  *)
(* traffic keys of a channel are named by that number too.                 *)
(***************************************************************************)
EXTENDS Naturals, Integers, Sequences

CONSTANTS
  Senders,        \* goroutines that call sendJSON
  MaxAttempts,    \* MaxSecCodeAttempts, 11 in the code
  MaxHandshakes,  \* bound: pake_start messages accepted
  MaxConns,       \* bound: peer_online messages
  MaxFrames       \* bound: frames sealed before no new output is produced

ASSUME MaxAttemptsAssumption == MaxAttempts \in Nat \ {0}
ASSUME BoundsAssumption ==
  MaxHandshakes \in Nat /\ MaxConns \in Nat /\ MaxFrames \in Nat

Transports == {"TS", "P2P"}
Handshakes == 1 .. MaxHandshakes
None == 0   \* a nil pointer: no exchange, no channel, no timer

VARIABLES
  forceTS,    \* Config.ForceTS, read from the configuration at start
  exch,       \* of each handshake so far: transport, app connection of that time
  pake,       \* Daemon.pakeServer / pakeSid
  timer,      \* Daemon.pakeTimer
  timers,     \* timer of each handshake: armed, fired (callback started) or off
  chan,       \* Daemon.secure
  live,       \* SecureChannel.active of each channel ever made
  sendSeq,    \* SecureChannel.sendSeq of each channel ever made
  verified,   \* Daemon.secCodeVerified: None when 0, else the handshake that set it
  attempts,   \* Daemon.secCodeAttemptsLeft
  enabled,    \* Daemon.secCodeEnabled
  mode,       \* Daemon.channelMode
  reader,     \* program counter and locals of the two reading goroutines
  sender,     \* program counter and locals of each output goroutine
  exit,       \* the process: running, about to exit, gone, panicked
  conn,       \* number of app connections announced by the relay
  p2p,        \* the data channel is open
  confirm,    \* the app: handshake it still has to confirm, per transport
  frames      \* sealed frames, in the order they were sealed

handshakeVars == <<exch, pake, timer, timers>>
channelVars   == <<chan, live, sendSeq>>
gateVars      == <<verified, attempts, enabled>>
appVars       == <<conn, p2p, confirm>>
vars == <<forceTS, handshakeVars, channelVars, gateVars, mode, reader, sender,
          exit, appVars, frames>>

Running == exit \in {"no", "pending"}

Idle == [pc |-> "idle", server |-> None, good |-> FALSE]
Waiting == [pc |-> "idle", sc |-> None]

Init ==
  /\ forceTS \in BOOLEAN
  /\ exch = <<>> /\ pake = None /\ timer = None
  /\ timers = [h \in Handshakes |-> "off"]
  /\ chan = None
  /\ live = [h \in Handshakes |-> FALSE]
  /\ sendSeq = [h \in Handshakes |-> 0]
  /\ verified = None /\ attempts = MaxAttempts /\ enabled \in BOOLEAN
  /\ mode = ""
  /\ reader = [r \in Transports |-> Idle]
  /\ sender = [s \in Senders |-> Waiting]
  /\ exit = "no"
  /\ conn = 0 /\ p2p = FALSE
  /\ confirm = [r \in Transports |-> None]
  /\ frames = <<>>

\* The process ends and its memory with it.
ProcessEnds(how) ==
  /\ exit' = how
  /\ pake' = None /\ timer' = None /\ timers' = [h \in Handshakes |-> "off"]
  /\ chan' = None
  /\ live' = [h \in Handshakes |-> FALSE]
  /\ sendSeq' = [h \in Handshakes |-> 0]
  /\ verified' = None /\ attempts' = MaxAttempts /\ enabled' = FALSE
  /\ mode' = ""
  /\ reader' = [r \in Transports |-> Idle]
  /\ sender' = [s \in Senders |-> Waiting]
  /\ p2p' = FALSE /\ confirm' = [r \in Transports |-> None]
  /\ UNCHANGED <<forceTS, exch, conn, frames>>

----------------------------------------------------------------------------
(* Reading goroutines.  A reader takes the next message when it is idle.   *)

Goto(r, l) == reader' = [reader EXCEPT ![r].pc = l]

\* A message of the app can arrive by r.
Receives(r) ==
  /\ Running /\ reader[r].pc = "idle"
  /\ r = "TS" => conn > 0
  /\ r = "P2P" => p2p

\* time.Timer.Stop: a timer that already fired has its callback running.
Stopped(t) ==
  IF t # None /\ timers[t] = "armed"
  THEN [timers EXCEPT ![t] = "off"] ELSE timers

\* Mutant: a pending exchange is kept instead of being overwritten.
PakeStartKeepsOld(r) ==
  LET h == Len(exch) + 1 IN
  /\ Receives(r)
  /\ h \in Handshakes
  /\ exch' = Append(exch, [via |-> r, conn |-> conn])
  /\ IF pake = None
     THEN pake' = h /\ timers' = [Stopped(timer) EXCEPT ![h] = "armed"] /\ timer' = h
     ELSE UNCHANGED <<pake, timers, timer>>
  /\ confirm' = [confirm EXCEPT ![r] = h]
  /\ UNCHANGED <<forceTS, channelVars, gateVars, mode, reader, sender, exit,
                 conn, p2p, frames>>

\* Mutant: the timer is not started again for the new exchange.
PakeStartNoTimer(r) ==
  LET h == Len(exch) + 1 IN
  /\ Receives(r)
  /\ h \in Handshakes
  /\ exch' = Append(exch, [via |-> r, conn |-> conn])
  /\ pake' = h /\ timers' = Stopped(timer) /\ timer' = None
  /\ confirm' = [confirm EXCEPT ![r] = h]
  /\ UNCHANGED <<forceTS, channelVars, gateVars, mode, reader, sender, exit,
                 conn, p2p, frames>>

\* pake_start: a new exchange overwrites the slot and re-arms the timer.
HandlePakeStart(r) ==
  LET h == Len(exch) + 1 IN
  /\ Receives(r)
  /\ h \in Handshakes
  /\ exch' = Append(exch, [via |-> r, conn |-> conn])
  /\ pake' = h
  /\ timers' = [Stopped(timer) EXCEPT ![h] = "armed"]
  /\ timer' = h
  /\ confirm' = [confirm EXCEPT ![r] = h]
  /\ UNCHANGED <<forceTS, channelVars, gateVars, mode, reader, sender, exit,
                 conn, p2p, frames>>

\* Ten seconds pass: the runtime starts the callback's goroutine...
TimerFires(h) ==
  /\ Running /\ timers[h] = "armed"
  /\ timers' = [timers EXCEPT ![h] = "fired"]
  /\ UNCHANGED <<forceTS, exch, pake, timer, channelVars, gateVars, mode,
                 reader, sender, exit, appVars, frames>>

\* ...which later takes secureMu and empties the slot, whoever holds it.
TimerCallback(h) ==
  /\ Running /\ timers[h] = "fired"
  /\ timers' = [timers EXCEPT ![h] = "off"]
  /\ pake' = None
  /\ UNCHANGED <<forceTS, exch, timer, channelVars, gateVars, mode, reader,
                 sender, exit, appVars, frames>>

\* sec_confirm: the exchange is read under the lock; Finish and VerifyTag run
\* without it.  The tag verifies when the app knows the code ("right") and
\* answers the very exchange that is in the slot.
SecConfirmRead(r, right) ==
  /\ Receives(r)
  /\ confirm[r] # None
  /\ confirm' = [confirm EXCEPT ![r] = None]
  /\ reader' = IF pake = None THEN reader
               ELSE [reader EXCEPT ![r] =
                      [pc |-> IF right /\ confirm[r] = pake THEN "accept" ELSE "refuse",
                       server |-> pake, good |-> right]]
  /\ UNCHANGED <<forceTS, handshakeVars, channelVars, gateVars, mode, sender,
                 exit, conn, p2p, frames>>

\* The slot and the timer are cleared, whatever they hold by now.
SecConfirmClear(r) ==
  /\ Running /\ reader[r].pc \in {"accept", "refuse"}
  /\ timers' = Stopped(timer) /\ timer' = None /\ pake' = None
  /\ Goto(r, IF reader[r].pc = "accept" THEN "install" ELSE "reject")
  /\ UNCHANGED <<forceTS, exch, channelVars, gateVars, mode, sender, exit,
                 appVars, frames>>

\* A wrong tag costs an attempt when a real code is set; none left: exit.
SecConfirmReject(r) ==
  LET remaining == IF enabled THEN attempts - 1 ELSE MaxAttempts IN
  /\ Running /\ reader[r].pc = "reject"
  /\ attempts' = IF enabled THEN remaining ELSE attempts
  /\ exit' = IF remaining <= 0 THEN "pending" ELSE exit
  /\ reader' = [reader EXCEPT ![r] = Idle]
  /\ UNCHANGED <<forceTS, handshakeVars, channelVars, verified, enabled, mode,
                 sender, appVars, frames>>

SecConfirmInstall(r) ==
  LET h == reader[r].server IN
  /\ Running /\ reader[r].pc = "install"
  /\ chan' = h
  /\ live' = [live EXCEPT ![h] = TRUE]
  /\ sendSeq' = [sendSeq EXCEPT ![h] = 0]
  /\ Goto(r, "verify")
  /\ UNCHANGED <<forceTS, handshakeVars, gateVars, mode, sender, exit, appVars,
                 frames>>

\* The two stores commute with every step of the others: one action.
SecConfirmVerify(r) ==
  /\ Running /\ reader[r].pc = "verify"
  /\ verified' = reader[r].server
  /\ attempts' = MaxAttempts
  /\ reader' = [reader EXCEPT ![r] = Idle]
  /\ UNCHANGED <<forceTS, handshakeVars, channelVars, enabled, mode, sender,
                 exit, appVars, frames>>

----------------------------------------------------------------------------
(* resetSecure and the messages that call it.                              *)

\* Mutant: Reset forgets active and the cipher, and only rewinds the counter.
ResetStaysActive ==
  /\ live' = live
  /\ sendSeq' = [h \in Handshakes |-> IF h = chan THEN 0 ELSE sendSeq[h]]
  /\ chan' = None
  /\ timers' = Stopped(timer) /\ timer' = None /\ pake' = None

\* One critical section: Reset on the channel, and the exchange dropped.
ResetSecure ==
  /\ live' = [h \in Handshakes |-> live[h] /\ h # chan]
  /\ sendSeq' = [h \in Handshakes |-> IF h = chan THEN 0 ELSE sendSeq[h]]
  /\ chan' = None
  /\ timers' = Stopped(timer) /\ timer' = None /\ pake' = None

\* Mutant: the new connection inherits the verification of the one before.
PeerOnlineKeepsFlag ==
  /\ Running /\ reader["TS"].pc = "idle" /\ conn < MaxConns
  /\ conn' = conn + 1
  /\ confirm' = [confirm EXCEPT !["TS"] = None]
  /\ IF forceTS THEN UNCHANGED reader ELSE Goto("TS", "onlineReset")
  /\ UNCHANGED <<forceTS, handshakeVars, channelVars, gateVars, mode, sender,
                 exit, p2p, frames>>

\* peer_online, first store.  With forceTS the whole signal is discarded.
PeerOnline ==
  /\ Running /\ reader["TS"].pc = "idle" /\ conn < MaxConns
  /\ conn' = conn + 1
  /\ confirm' = [confirm EXCEPT !["TS"] = None]
  /\ IF forceTS THEN UNCHANGED <<verified, reader>>
     ELSE verified' = None /\ Goto("TS", "onlineReset")
  /\ UNCHANGED <<forceTS, handshakeVars, channelVars, attempts, enabled, mode,
                 sender, exit, p2p, frames>>

PeerOnlineReset ==
  /\ Running /\ reader["TS"].pc = "onlineReset"
  /\ ResetSecure
  /\ reader' = [reader EXCEPT !["TS"] = Idle]
  /\ UNCHANGED <<forceTS, exch, gateVars, mode, sender, exit, appVars, frames>>

\* peer_offline: kept alive on P2P; otherwise the channel goes, and then the mode.
\* The flag secCodeVerified is left as it is.
PeerOffline ==
  /\ Running /\ reader["TS"].pc = "idle" /\ conn > 0
  /\ ~forceTS /\ mode # "p2p"
  /\ confirm' = [confirm EXCEPT !["TS"] = None]
  /\ Goto("TS", "offlineReset")
  /\ UNCHANGED <<forceTS, handshakeVars, channelVars, gateVars, mode, sender,
                 exit, conn, p2p, frames>>

\* The store of the mode goes with the reset: nothing here relates the two.
PeerOfflineReset ==
  /\ Running /\ reader["TS"].pc = "offlineReset"
  /\ ResetSecure
  /\ mode' = ""
  /\ reader' = [reader EXCEPT !["TS"] = Idle]
  /\ UNCHANGED <<forceTS, exch, gateVars, sender, exit, appVars, frames>>

\* channel_select "p2p": flag, then keys, then mode; "ts" only sets the mode.
ChannelSelectP2P(r) ==
  /\ Receives(r) /\ p2p
  /\ verified' = None
  /\ Goto(r, "selectReset")
  /\ UNCHANGED <<forceTS, handshakeVars, channelVars, attempts, enabled, mode,
                 sender, exit, appVars, frames>>

\* As above, the store of the mode goes with the reset.
ChannelSelectReset(r) ==
  /\ Running /\ reader[r].pc = "selectReset"
  /\ ResetSecure
  /\ mode' = "p2p"
  /\ reader' = [reader EXCEPT ![r] = Idle]
  /\ UNCHANGED <<forceTS, exch, gateVars, sender, exit, appVars, frames>>

ChannelSelectTS(r) ==
  /\ Receives(r)
  /\ mode' = "ts"
  /\ UNCHANGED <<forceTS, handshakeVars, channelVars, gateVars, reader, sender,
                 exit, appVars, frames>>

\* A p2p_offer led to an open data channel, which replaces one that was open.
P2PUp ==
  /\ Running /\ ~forceTS /\ conn > 0
  /\ p2p' = TRUE
  /\ confirm' = [confirm EXCEPT !["P2P"] = None]
  /\ UNCHANGED <<forceTS, handshakeVars, channelVars, gateVars, mode, reader,
                 sender, exit, conn, frames>>

\* The data channel is gone; startP2PAsAnswerer leaves mode "p2p".
P2PDown ==
  /\ Running /\ p2p
  /\ p2p' = FALSE
  /\ confirm' = [confirm EXCEPT !["P2P"] = None]
  /\ mode' = IF mode = "p2p" THEN "" ELSE mode
  /\ UNCHANGED <<forceTS, handshakeVars, channelVars, gateVars, reader, sender,
                 exit, conn, frames>>

\* "kicked": the P2P link and the channel choice go, or, when another daemon
\* took the access key over, the process.
Kicked(r) ==
  /\ Running /\ reader[r].pc = "idle" /\ (r = "P2P" => p2p)
  /\ p2p' = FALSE /\ mode' = ""
  /\ confirm' = [confirm EXCEPT !["P2P"] = None]
  /\ UNCHANGED <<forceTS, handshakeVars, channelVars, gateVars, reader, sender,
                 exit, conn, frames>>

DaemonReplaced(r) ==
  /\ Running /\ reader[r].pc = "idle" /\ (r = "P2P" => p2p)
  /\ ProcessEnds("done")

----------------------------------------------------------------------------
(* A local client sets or removes the code; output is sealed; the exit.    *)

SetSecCode ==
  /\ Running
  /\ enabled' = TRUE /\ verified' = None
  /\ UNCHANGED <<forceTS, handshakeVars, channelVars, attempts, mode, reader,
                 sender, exit, appVars, frames>>

UnsetSecCode ==
  /\ Running /\ enabled
  /\ enabled' = FALSE
  /\ UNCHANGED <<forceTS, handshakeVars, channelVars, verified, attempts, mode,
                 reader, sender, exit, appVars, frames>>

\* sendJSON of a message that is not exempt, secureActive first: without a
\* channel the message goes on as it is and nothing changes.
SendJSON(s) ==
  /\ Running /\ sender[s].pc = "idle" /\ Len(frames) < MaxFrames
  /\ chan # None /\ live[chan]
  /\ sender' = [sender EXCEPT ![s].pc = "active"]
  /\ UNCHANGED <<forceTS, handshakeVars, channelVars, gateVars, mode, reader,
                 exit, appVars, frames>>

\* wrapOutgoingJSON takes the lock again and reads the pointer again...
WrapReread(s) ==
  /\ Running /\ sender[s].pc = "active" /\ chan # None
  /\ sender' = [sender EXCEPT ![s] = [pc |-> "wrap", sc |-> chan]]
  /\ UNCHANGED <<forceTS, handshakeVars, channelVars, gateVars, mode, reader,
                 exit, appVars, frames>>

\* ...and WrapJSON dereferences it: nil by now, and the process panics.
WrapNil(s) ==
  /\ Running /\ sender[s].pc = "active" /\ chan = None
  /\ ProcessEnds("panic")

\* WrapJSON under SecureChannel.mu: sealed with the next number...
WrapSeal(s) ==
  LET c == sender[s].sc IN
  /\ Running /\ sender[s].pc = "wrap" /\ live[c]
  /\ frames' = Append(frames, [key |-> c, seq |-> sendSeq[c]])
  /\ sendSeq' = [sendSeq EXCEPT ![c] = @ + 1]
  /\ sender' = [sender EXCEPT ![s] = Waiting]
  /\ UNCHANGED <<forceTS, handshakeVars, chan, live, gateVars, mode, reader,
                 exit, appVars>>

\* ...or refused, when the channel was reset meanwhile: the message is dropped.
WrapDrop(s) ==
  /\ Running /\ sender[s].pc = "wrap" /\ ~live[sender[s].sc]
  /\ sender' = [sender EXCEPT ![s] = Waiting]
  /\ UNCHANGED <<forceTS, handshakeVars, channelVars, gateVars, mode, reader,
                 exit, appVars, frames>>

\* exitWithReason("sec_code_locked"), half a second after the last attempt.
Exit ==
  /\ exit = "pending"
  /\ ProcessEnds("done")

----------------------------------------------------------------------------
Handler(r) ==
  \/ HandlePakeStart(r)
  \/ \E right \in BOOLEAN : SecConfirmRead(r, right)
  \/ SecConfirmClear(r)
  \/ SecConfirmReject(r)
  \/ SecConfirmInstall(r)
  \/ SecConfirmVerify(r)
  \/ ChannelSelectP2P(r)
  \/ ChannelSelectReset(r)
  \/ ChannelSelectTS(r)
  \/ Kicked(r)
  \/ DaemonReplaced(r)

Signal ==
  \/ PeerOnline \/ PeerOnlineReset
  \/ PeerOffline \/ PeerOfflineReset
  \/ P2PUp \/ P2PDown

LocalClient == SetSecCode \/ UnsetSecCode

Output(s) == SendJSON(s) \/ WrapReread(s) \/ WrapNil(s) \/ WrapSeal(s) \/ WrapDrop(s)

Timer(h) == TimerFires(h) \/ TimerCallback(h)

Next ==
  \/ \E r \in Transports : Handler(r)
  \/ Signal
  \/ LocalClient
  \/ \E s \in Senders : Output(s)
  \/ \E h \in Handshakes : Timer(h)
  \/ Exit

Spec == Init /\ [][Next]_vars

\* The runtime runs expired timers and started callbacks.
Fairness == \A h \in Handshakes : WF_vars(TimerFires(h)) /\ WF_vars(TimerCallback(h))

FairSpec == Spec /\ Fairness

----------------------------------------------------------------------------
(* Properties.                                                             *)

ReaderLabels ==
  {"idle", "accept", "refuse", "install", "verify", "reject",
   "onlineReset", "offlineReset", "selectReset"}

\* Every variable holds a value of its type.
TypeOK ==
  /\ forceTS \in BOOLEAN
  /\ exch \in Seq([via : Transports, conn : Nat])
  /\ Len(exch) <= MaxHandshakes
  /\ pake \in Handshakes \cup {None}
  /\ timer \in Handshakes \cup {None}
  /\ timers \in [Handshakes -> {"off", "armed", "fired"}]
  /\ chan \in Handshakes \cup {None}
  /\ live \in [Handshakes -> BOOLEAN]
  /\ sendSeq \in [Handshakes -> Nat]
  /\ verified \in Handshakes \cup {None} /\ attempts \in Int /\ enabled \in BOOLEAN
  /\ mode \in {"", "ts", "p2p"}
  /\ reader \in [Transports -> [pc : ReaderLabels,
                                server : Handshakes \cup {None}, good : BOOLEAN]]
  /\ sender \in [Senders -> [pc : {"idle", "active", "wrap"},
                             sc : Handshakes \cup {None}]]
  /\ exit \in {"no", "pending", "done", "panic"}
  /\ conn \in 0 .. MaxConns /\ p2p \in BOOLEAN
  /\ confirm \in [Transports -> Handshakes \cup {None}]
  /\ frames \in Seq([key : Handshakes, seq : Nat])

\* AES-GCM needs it: no two frames are ever sealed with the same key and the
\* same sequence number, though resets, new handshakes and several output
\* goroutines work on the same channel object (WrapJSON, Reset).
NonceUnique ==
  \A i, j \in DOMAIN frames : i # j => frames[i] # frames[j]

\* Verification and keys are per connection (peer_online): once the reset that
\* peer_online starts is through, what a handshake of the relay connection
\* left behind belongs to the app connection of now, never to an earlier one.
FromRelay(h) == h # None /\ exch[h].via = "TS"
SecretsOfCurrentPeer ==
  ~forceTS =>
    /\ FromRelay(verified) => exch[verified].conn = conn
    /\ FromRelay(chan) /\ reader["TS"].pc # "onlineReset" => exch[chan].conn = conn

\* An app that knows the code loses an attempt (handleSecConfirm) only when a
\* handshake that came by the other transport took the slot from its own.
RejectOnlyByOverwrite ==
  \A r \in Transports :
    reader[r].pc \in {"refuse", "reject"} /\ reader[r].good
      => exch[reader[r].server].via # r

\* No exchange stays in the slot for ever: an answer, a newer exchange, a
\* reset or secureHandshakeTimeout removes it, or the process is gone.
HandshakeSlotFreed ==
  \A h \in Handshakes : []<>(pake # h \/ ~Running)

\* "On wrap failure the message is dropped" (sendJSON): a channel that is torn
\* down while output is on its way never takes the process down.
WrapNeverPanics == exit # "panic"
=============================================================================
