----------------------------- MODULE RelaySend -----------------------------
(***************************************************************************)
(* The sending half of one TurnServer connection (WSTurnRelay): output is  *)
(* sealed by the goroutine that produces it, parked on one of two bounded  *)
(* channels, taken off by writeLoop with text before binary, and written   *)
(* to a WebSocket that may die without notice.  pingLoop and the write     *)
(* deadline are what notices.  The app's end checks the sequence number.   *)
(*                                                                         *)
(* The WebSocket is ordered and lossless while it is up, so what the app   *)
(* does with a frame is part of the step that writes it.                   *)
(***************************************************************************)
EXTENDS Naturals, Integers, Sequences

CONSTANTS
  TextSenders,    \* goroutines that call sendJSON: sessions, handlers
  BinarySenders,  \* goroutines that send file chunks and proxy data
  SendCap,        \* capacity of sendCh, 16 in the code
  BinaryCap,      \* capacity of binaryCh, 16 in the code
  MaxMissed,      \* unanswered pings before the link is given up, 3 in the code
  KernelBuffer,   \* bound: writes a dead link still takes without an error
  MaxSent         \* bound: messages each sender produces

ASSUME CapsAssumption == SendCap \in Nat \ {0} /\ BinaryCap \in Nat \ {0}
ASSUME LimitsAssumption ==
  MaxMissed \in Nat /\ KernelBuffer \in Nat /\ MaxSent \in Nat
ASSUME SendersAssumption == TextSenders \cap BinarySenders = {}

Senders == TextSenders \cup BinarySenders

NoFrame == [kind |-> "none", seq |-> 0]
Ping == [kind |-> "ping", seq |-> 0]
SealedKinds == {"text", "binary"}
Messages == [kind : SealedKinds \cup {"ping", "none"}, seq : Nat]

VARIABLES
  sendSeq,    \* SecureChannel.sendSeq
  sender,     \* idle, sealed (frame in hand) or parked on a channel
  hand,       \* the frame a sender holds
  sent,       \* messages each sender produced
  locked,     \* senders that hold WSTurnRelay.mu for reading
  sendCh,     \* text frames and pings
  binaryCh,   \* binary frames
  writer,     \* writeLoop: poll, wait, write, stuck in a write, done
  writing,    \* the frame writeLoop holds
  connected,  \* WSTurnRelay.connected
  closed,     \* closeCh is closed, and the socket with it
  link,       \* the TCP link: up, or dead without a sign
  absorbed,   \* writes a dead link took
  pinger,     \* pingLoop: tick, parked on sendCh, done
  missed,     \* WSTurnRelay.missedPongs
  pongDue,    \* the server still has to answer a ping
  accepted,   \* sequence numbers the app's end accepted, in order
  rejected,   \* sequence numbers it refused as replayed or out of order
  ahead       \* binary frames taken since text was last found waiting

sendVars == <<sendSeq, sender, hand, sent, locked>>
pingVars == <<pinger, missed>>
appVars  == <<accepted, rejected, pongDue>>
vars == <<sendVars, sendCh, binaryCh, writer, writing, connected, closed, link,
          absorbed, pingVars, appVars, ahead>>

Init ==
  /\ sendSeq = 0
  /\ sender = [s \in Senders |-> "idle"]
  /\ hand = [s \in Senders |-> NoFrame]
  /\ sent = [s \in Senders |-> 0]
  /\ locked = {}
  /\ sendCh = <<>> /\ binaryCh = <<>>
  /\ writer = "poll" /\ writing = NoFrame
  /\ connected = TRUE /\ closed = FALSE
  /\ link = "up" /\ absorbed = 0
  /\ pinger = "tick" /\ missed = 0 /\ pongDue = FALSE
  /\ accepted = <<>> /\ rejected = {}
  /\ ahead = 0

----------------------------------------------------------------------------
(* Senders.                                                                *)

KindOf(s) == IF s \in TextSenders THEN "text" ELSE "binary"

\* WrapJSON / WrapBinary: the number is taken under the channel's own lock.
Wrap(s) ==
  /\ sender[s] = "idle" /\ sent[s] < MaxSent
  /\ hand' = [hand EXCEPT ![s] = [kind |-> KindOf(s), seq |-> sendSeq]]
  /\ sendSeq' = sendSeq + 1
  /\ sent' = [sent EXCEPT ![s] = @ + 1]
  /\ sender' = [sender EXCEPT ![s] = "sealed"]
  /\ UNCHANGED <<locked, sendCh, binaryCh, writer, writing, connected, closed,
                 link, absorbed, pingVars, appVars, ahead>>

Done(s) ==
  /\ sender' = [sender EXCEPT ![s] = "idle"]
  /\ hand' = [hand EXCEPT ![s] = NoFrame]

\* Mutant: RLock is held across the channel send.
LockKept(s) == {s}

\* The read lock is given back before the sender parks on the channel.
LockWhileParked(s) == {}

\* The connection is looked at under the read lock; without one the message
\* is gone, its number used up.
Snapshot(s) ==
  /\ sender[s] = "sealed"
  /\ IF connected
     THEN /\ sender' = [sender EXCEPT ![s] = "parked"]
          /\ locked' = locked \cup LockWhileParked(s)
          /\ UNCHANGED hand
     ELSE Done(s) /\ UNCHANGED locked
  /\ UNCHANGED <<sendSeq, sent, sendCh, binaryCh, writer, writing, connected,
                 closed, link, absorbed, pingVars, appVars, ahead>>

Enqueue(s) ==
  /\ sender[s] = "parked"
  /\ IF s \in TextSenders
     THEN /\ Len(sendCh) < SendCap
          /\ sendCh' = Append(sendCh, hand[s])
          /\ UNCHANGED binaryCh
     ELSE /\ Len(binaryCh) < BinaryCap
          /\ binaryCh' = Append(binaryCh, hand[s])
          /\ UNCHANGED sendCh
  /\ Done(s) /\ locked' = locked \ {s}
  /\ UNCHANGED <<sendSeq, sent, writer, writing, connected, closed, link,
                 absorbed, pingVars, appVars, ahead>>

\* The other arms of the select: the relay closed, or the transfer cancelled.
GiveUp(s) ==
  /\ sender[s] = "parked"
  /\ closed \/ s \in BinarySenders
  /\ Done(s) /\ locked' = locked \ {s}
  /\ UNCHANGED <<sendSeq, sent, sendCh, binaryCh, writer, writing, connected,
                 closed, link, absorbed, pingVars, appVars, ahead>>

----------------------------------------------------------------------------
(* writeLoop and the app's end.                                            *)

TakeText ==
  /\ sendCh # <<>>
  /\ writing' = Head(sendCh) /\ sendCh' = Tail(sendCh)
  /\ ahead' = 0
  /\ UNCHANGED binaryCh

TakeBinary ==
  /\ binaryCh # <<>>
  /\ writing' = Head(binaryCh) /\ binaryCh' = Tail(binaryCh)
  /\ ahead' = IF sendCh = <<>> THEN 0 ELSE ahead + 1
  /\ UNCHANGED sendCh

\* Mutant: one select over both channels, without looking for text first.
PollEither ==
  /\ writer = "poll"
  /\ \/ closed /\ writer' = "done" /\ UNCHANGED <<writing, sendCh, binaryCh, ahead>>
     \/ ~closed /\ (TakeText \/ TakeBinary) /\ writer' = "write"
  /\ UNCHANGED <<sendVars, connected, closed, link, absorbed, pingVars,
                 appVars>>

\* First select, never blocking: text if there is any.  Go picks any ready arm,
\* so text may still be taken when closeCh is closed.
Poll ==
  /\ writer = "poll"
  /\ \/ closed /\ writer' = "done" /\ UNCHANGED <<writing, sendCh, binaryCh, ahead>>
     \/ TakeText /\ writer' = "write"
     \/ /\ ~closed /\ sendCh = <<>>
        /\ writer' = "wait"
        /\ UNCHANGED <<writing, sendCh, binaryCh, ahead>>
  /\ UNCHANGED <<sendVars, connected, closed, link, absorbed, pingVars,
                 appVars>>

\* Second select: whatever comes first.
WaitClosed ==
  /\ writer = "wait" /\ closed
  /\ writer' = "done"
  /\ UNCHANGED <<sendVars, sendCh, binaryCh, writing, connected, closed, link,
                 absorbed, pingVars, appVars, ahead>>

WaitText ==
  /\ writer = "wait" /\ TakeText
  /\ writer' = "write"
  /\ UNCHANGED <<sendVars, connected, closed, link, absorbed, pingVars,
                 appVars>>

WaitBinary ==
  /\ writer = "wait" /\ TakeBinary
  /\ writer' = "write"
  /\ UNCHANGED <<sendVars, connected, closed, link, absorbed, pingVars,
                 appVars>>

\* Mutant: only a repetition of the last number is refused.
NotRepeated(k) == accepted # <<>> => accepted[Len(accepted)] # k

\* UnwrapJSON / UnwrapBinary: a number not above the last one is a replay.
InOrder(k) == accepted # <<>> => accepted[Len(accepted)] < k

Unwrap(m) ==
  IF m.kind = "ping"
  THEN pongDue' = TRUE /\ UNCHANGED <<accepted, rejected>>
  ELSE /\ IF InOrder(m.seq)
          THEN accepted' = Append(accepted, m.seq) /\ UNCHANGED rejected
          ELSE rejected' = rejected \cup {m.seq} /\ UNCHANGED accepted
       /\ UNCHANGED pongDue

\* writeMsg needs the write lock for a moment, then writes without it.  On a
\* closed socket the write fails; on a dead one it is absorbed by the kernel
\* or hangs until the write deadline.
Write ==
  /\ writer = "write" /\ locked = {}
  /\ \/ /\ closed
        /\ writer' = "poll"
        /\ UNCHANGED <<absorbed, appVars>>
     \/ /\ ~closed /\ link = "up"
        /\ writer' = "poll" /\ Unwrap(writing)
        /\ UNCHANGED absorbed
     \/ /\ ~closed /\ link = "dead" /\ absorbed < KernelBuffer
        /\ writer' = "poll" /\ absorbed' = absorbed + 1
        /\ UNCHANGED appVars
     \/ /\ ~closed /\ link = "dead"
        /\ writer' = "stuck"
        /\ UNCHANGED <<absorbed, appVars>>
  /\ writing' = IF writer' = "stuck" THEN writing ELSE NoFrame
  /\ UNCHANGED <<sendVars, sendCh, binaryCh, connected, closed, link, pingVars,
                 ahead>>

\* Mutant: no write deadline, a hung write only ends with the socket.
WriteHangs ==
  /\ writer = "stuck" /\ closed
  /\ writer' = "poll" /\ writing' = NoFrame
  /\ UNCHANGED <<sendVars, sendCh, binaryCh, connected, closed, link, absorbed,
                 pingVars, appVars, ahead>>

\* Ten seconds later: the write fails and Close is called.
WriteDeadline ==
  /\ writer = "stuck"
  /\ writer' = "poll" /\ writing' = NoFrame
  /\ closed' = TRUE
  /\ UNCHANGED <<sendVars, sendCh, binaryCh, connected, link, absorbed,
                 pingVars, appVars, ahead>>

----------------------------------------------------------------------------
(* pingLoop, readLoop, and the world.                                      *)

\* Eight seconds are long for writeLoop: it is waiting or hung in a write.
PingTick ==
  /\ pinger = "tick" /\ writer \in {"wait", "stuck", "done"}
  /\ \/ closed /\ pinger' = "done" /\ UNCHANGED <<missed, closed>>
     \/ /\ missed >= MaxMissed
        /\ closed' = TRUE /\ pinger' = "done" /\ UNCHANGED missed
     \/ /\ ~closed /\ missed < MaxMissed
        /\ IF connected THEN pinger' = "parked" /\ missed' = missed + 1
           ELSE pinger' = "done" /\ UNCHANGED missed
        /\ UNCHANGED closed
  /\ UNCHANGED <<sendVars, sendCh, binaryCh, writer, writing, connected, link,
                 absorbed, appVars, ahead>>

PingEnqueue ==
  /\ pinger = "parked"
  /\ \/ /\ Len(sendCh) < SendCap
        /\ sendCh' = Append(sendCh, Ping) /\ pinger' = "tick"
     \/ closed /\ pinger' = "done" /\ UNCHANGED sendCh
  /\ UNCHANGED <<sendVars, binaryCh, writer, writing, connected, closed, link,
                 absorbed, missed, appVars, ahead>>

\* readLoop sees a pong.
Pong ==
  /\ pongDue /\ link = "up" /\ connected /\ ~closed
  /\ pongDue' = FALSE /\ missed' = 0
  /\ UNCHANGED <<sendVars, sendCh, binaryCh, writer, writing, connected,
                 closed, link, absorbed, pinger, accepted, rejected, ahead>>

\* readLoop ends: the socket was closed here, or the server closed it.
ReadLoopEnds ==
  /\ connected /\ (closed \/ link = "up")
  /\ connected' = FALSE
  /\ UNCHANGED <<sendVars, sendCh, binaryCh, writer, writing, closed, link,
                 absorbed, pingVars, appVars, ahead>>

\* ...and its deferred function closes the relay.
ReadLoopCloses ==
  /\ ~connected /\ ~closed
  /\ closed' = TRUE
  /\ UNCHANGED <<sendVars, sendCh, binaryCh, writer, writing, connected, link,
                 absorbed, pingVars, appVars, ahead>>

\* The link dies without FIN or RST.
LinkDies ==
  /\ link = "up" /\ ~closed
  /\ link' = "dead"
  /\ UNCHANGED <<sendVars, sendCh, binaryCh, writer, writing, connected,
                 closed, absorbed, pingVars, appVars, ahead>>

----------------------------------------------------------------------------
Send(s) == Wrap(s) \/ Snapshot(s) \/ Enqueue(s) \/ GiveUp(s)

WriteLoop ==
  Poll \/ WaitClosed \/ WaitText \/ WaitBinary \/ Write \/ WriteDeadline

Next ==
  \/ \E s \in Senders : Send(s)
  \/ WriteLoop
  \/ PingTick \/ PingEnqueue \/ Pong
  \/ ReadLoopEnds \/ ReadLoopCloses
  \/ LinkDies

Spec == Init /\ [][Next]_vars

(***************************************************************************)
(* Every goroutine that can run does; tickers and deadlines expire.  A     *)
(* channel serves its parked senders in the order they came, and a select  *)
(* picks any ready arm: neither passes over the same one for ever.         *)
(***************************************************************************)
Fairness ==
  /\ \A s \in Senders :
       /\ WF_vars(Snapshot(s))
       /\ SF_vars(Enqueue(s))
       /\ WF_vars(GiveUp(s) /\ closed)
  /\ WF_vars(Poll) /\ WF_vars(WaitClosed) /\ WF_vars(WaitText)
  /\ SF_vars(WaitBinary)
  /\ WF_vars(Write) /\ WF_vars(WriteDeadline)
  /\ WF_vars(PingTick) /\ SF_vars(PingEnqueue)
  /\ WF_vars(ReadLoopEnds /\ closed) /\ WF_vars(ReadLoopCloses)

FairSpec == Spec /\ Fairness

----------------------------------------------------------------------------
(* Properties.                                                             *)

\* Every variable holds a value of its type, the channels within capacity.
TypeOK ==
  /\ sendSeq \in Nat
  /\ sender \in [Senders -> {"idle", "sealed", "parked"}]
  /\ hand \in [Senders -> Messages]
  /\ sent \in [Senders -> 0 .. MaxSent]
  /\ locked \subseteq Senders
  /\ sendCh \in Seq(Messages) /\ Len(sendCh) <= SendCap
  /\ binaryCh \in Seq(Messages) /\ Len(binaryCh) <= BinaryCap
  /\ writer \in {"poll", "wait", "write", "stuck", "done"}
  /\ writing \in Messages
  /\ connected \in BOOLEAN /\ closed \in BOOLEAN
  /\ link \in {"up", "dead"} /\ absorbed \in 0 .. KernelBuffer
  /\ pinger \in {"tick", "parked", "done"} /\ missed \in 0 .. MaxMissed
  /\ pongDue \in BOOLEAN
  /\ accepted \in Seq(Nat) /\ rejected \subseteq Nat
  /\ ahead \in Nat

\* The relay carries a sealed stream: whatever the interleaving of senders and
\* writeLoop, the app's end never accepts a frame twice or after a later one.
Stream == INSTANCE SealedStream WITH next <- sendSeq, got <- accepted
RefinesSealedStream == Stream!Spec

\* Text is prioritized over binary (writeLoop): once text is queued at most one
\* binary frame, taken by a select that was already waiting, goes before it.
TextFirst == ahead <= 1

\* No goroutine stays parked on sendCh or binaryCh for ever, not even when the
\* link dies without a sign: the note on lock-free parking in SendRaw and the
\* write deadline in writeMsg.
SendersUnpark == \A s \in Senders : (sender[s] = "parked") ~> (sender[s] = "idle")

\* A link that died without a sign is given up in the end (writeMsg, pingLoop).
DeadLinkDetected == (link = "dead") ~> closed

\* "A gap only appears after a dropped message" (securechannel.go): the app
\* never refuses a frame of a link that neither lost nor repeated one.
NothingRefused == rejected = {}
=============================================================================
