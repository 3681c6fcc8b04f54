-------------------------- MODULE RelaySendProofs --------------------------
(***************************************************************************)
(* What RelaySend promises for any number of senders, any capacity of the  *)
(* two channels and any bounds: the type invariant, that text never waits  *)
(* behind more than one binary frame, and that the sending half of the     *)
(* relay implements SealedStream.                                          *)
(*                                                                         *)
(* Both channels grow at the end and shrink at the head; what is said of   *)
(* their frames follows from lemmas Taken and Appended.                    *)
(***************************************************************************)
EXTENDS RelaySend, TLAPS

\* Taking the head of a sequence leaves elements that were in it.
LEMMA Taken ==
  ASSUME NEW S, NEW q \in Seq(S), q # <<>>
  PROVE  /\ Head(q) \in S /\ Tail(q) \in Seq(S) /\ Len(Tail(q)) = Len(q) - 1
         /\ Len(q) \in Nat \ {0} /\ Head(q) = q[1]
         /\ \A k \in DOMAIN Tail(q) : k + 1 \in DOMAIN q /\ Tail(q)[k] = q[k + 1]
  OBVIOUS

\* What Append does to a sequence, place by place.
LEMMA Appended ==
  ASSUME NEW S, NEW q \in Seq(S), NEW e \in S
  PROVE  /\ Append(q, e) \in Seq(S) /\ Len(Append(q, e)) = Len(q) + 1
         /\ Append(q, e) # <<>>
         /\ DOMAIN Append(q, e) = 1 .. Len(q) + 1 /\ DOMAIN q = 1 .. Len(q)
         /\ \A k \in DOMAIN q : Append(q, e)[k] = q[k]
         /\ Append(q, e)[Len(q) + 1] = e
  OBVIOUS

\* A channel with a free place still fits its capacity with one frame more.
LEMMA Enlarged ==
  ASSUME NEW S, NEW q \in Seq(S), NEW e \in S, NEW c \in Nat, Len(q) < c
  PROVE  Append(q, e) \in Seq(S) /\ Len(Append(q, e)) <= c
  BY Appended

----------------------------------------------------------------------------
(* Types.                                                                  *)

\* The place-holder and the ping are messages;
LEMMA FrameTypes == NoFrame \in Messages /\ Ping \in Messages
  BY DEF NoFrame, Ping, Messages, SealedKinds

\* a sender seals messages of its kind.
LEMMA KindTypes == ASSUME NEW s \in Senders PROVE KindOf(s) \in SealedKinds
  BY DEF KindOf, SealedKinds

\* The variables have their types at the start;
LEMMA TypesInit == Init => TypeOK
  <1> SUFFICES ASSUME Init PROVE TypeOK
    OBVIOUS
  <1>1. /\ sender \in [Senders -> {"idle", "sealed", "parked"}]
        /\ hand \in [Senders -> Messages]
        /\ sent \in [Senders -> 0 .. MaxSent]
        /\ locked \subseteq Senders /\ writing \in Messages
    BY FrameTypes, LimitsAssumption DEF Init
  <1>2. /\ sendCh \in Seq(Messages) /\ Len(sendCh) <= SendCap
        /\ binaryCh \in Seq(Messages) /\ Len(binaryCh) <= BinaryCap
        /\ accepted \in Seq(Nat) /\ rejected \subseteq Nat
    BY CapsAssumption DEF Init
  <1>3. absorbed \in 0 .. KernelBuffer /\ missed \in 0 .. MaxMissed
    BY LimitsAssumption DEF Init
  <1> QED
    BY <1>1, <1>2, <1>3 DEF Init, TypeOK

\* a sender keeps them,
LEMMA TypesSend ==
  ASSUME TypeOK, NEW s \in Senders, Send(s)
  PROVE  TypeOK'
  <1> USE DEF TypeOK, pingVars, appVars
  <1>1. CASE Wrap(s)
    <2>1. [kind |-> KindOf(s), seq |-> sendSeq] \in Messages
      BY KindTypes DEF Messages
    <2>2. sent[s] + 1 \in 0 .. MaxSent
      BY <1>1, LimitsAssumption DEF Wrap
    <2>3. hand' \in [Senders -> Messages] /\ sent' \in [Senders -> 0 .. MaxSent]
      BY <1>1, <2>1, <2>2 DEF Wrap
    <2> QED
      BY <1>1, <2>3 DEF Wrap
  <1>2. CASE Snapshot(s)
    BY <1>2, FrameTypes DEF Snapshot, Done, LockWhileParked
  <1>3. CASE Enqueue(s)
    <2>1. hand[s] \in Messages
      OBVIOUS
    <2>2. hand' \in [Senders -> Messages]
             /\ sender' \in [Senders -> {"idle", "sealed", "parked"}]
             /\ locked' \subseteq Senders
      BY <1>3, FrameTypes DEF Enqueue, Done
    <2>3. sendCh' \in Seq(Messages) /\ Len(sendCh') <= SendCap
             /\ binaryCh' \in Seq(Messages) /\ Len(binaryCh') <= BinaryCap
      <3>1. CASE Len(sendCh) < SendCap /\ sendCh' = Append(sendCh, hand[s])
                   /\ binaryCh' = binaryCh
        BY <2>1, <3>1, Enlarged, CapsAssumption
      <3>2. CASE Len(binaryCh) < BinaryCap
                   /\ binaryCh' = Append(binaryCh, hand[s]) /\ sendCh' = sendCh
        BY <2>1, <3>2, Enlarged, CapsAssumption
      <3> QED
        BY <1>3, <3>1, <3>2 DEF Enqueue
    <2> QED
      BY <1>3, <2>2, <2>3 DEF Enqueue
  <1>4. CASE GiveUp(s)
    BY <1>4, FrameTypes DEF GiveUp, Done
  <1> QED
    BY <1>1, <1>2, <1>3, <1>4 DEF Send

\* taking a frame out of a channel keeps those of the writer and the channels,
LEMMA TypesTake ==
  ASSUME TypeOK, TakeText \/ TakeBinary
  PROVE  /\ sendCh' \in Seq(Messages) /\ Len(sendCh') <= SendCap
         /\ binaryCh' \in Seq(Messages) /\ Len(binaryCh') <= BinaryCap
         /\ writing' \in Messages /\ ahead' \in Nat
  <1>1. CASE TakeText
    <2>1. sendCh \in Seq(Messages) /\ sendCh # <<>>
      BY <1>1 DEF TypeOK, TakeText
    <2> QED
      BY <1>1, <2>1, Taken, CapsAssumption DEF TypeOK, TakeText
  <1>2. CASE TakeBinary
    <2>1. binaryCh \in Seq(Messages) /\ binaryCh # <<>>
      BY <1>2 DEF TypeOK, TakeBinary
    <2> QED
      BY <1>2, <2>1, Taken, CapsAssumption DEF TypeOK, TakeBinary
  <1> QED
    BY <1>1, <1>2

\* the write loop keeps them,
LEMMA TypesWriteLoop ==
  ASSUME TypeOK, WriteLoop
  PROVE  TypeOK'
  <1>1. CASE Poll
    <2>1. CASE TakeText
      BY <1>1, <2>1, TypesTake DEF Poll, TypeOK, sendVars, pingVars, appVars
    <2>2. CASE UNCHANGED <<writing, sendCh, binaryCh, ahead>>
      BY <1>1, <2>2 DEF Poll, TypeOK, sendVars, pingVars, appVars
    <2> QED
      BY <1>1, <2>1, <2>2 DEF Poll
  <1>2. CASE WaitClosed
    BY <1>2 DEF WaitClosed, TypeOK, sendVars, pingVars, appVars
  <1>3. CASE WaitText
    BY <1>3, TypesTake DEF WaitText, TypeOK, sendVars, pingVars, appVars
  <1>4. CASE WaitBinary
    BY <1>4, TypesTake DEF WaitBinary, TypeOK, sendVars, pingVars, appVars
  <1>5. CASE Write
    <2>1. writing' \in Messages
      BY <1>5, FrameTypes DEF Write, TypeOK
    <2>2. accepted' \in Seq(Nat) /\ rejected' \subseteq Nat /\ pongDue' \in BOOLEAN
      <3>1. writing.seq \in Nat
        BY DEF TypeOK, Messages
      <3>2. accepted \in Seq(Nat) /\ rejected \subseteq Nat /\ pongDue \in BOOLEAN
        BY DEF TypeOK
      <3>3. CASE UNCHANGED appVars
        BY <3>2, <3>3 DEF appVars
      <3>4. CASE Unwrap(writing)
        <4>1. Append(accepted, writing.seq) \in Seq(Nat)
          BY <3>1, <3>2
        <4>2. accepted' \in {accepted, Append(accepted, writing.seq)}
          BY <3>4 DEF Unwrap
        <4>3. rejected' \in {rejected, rejected \cup {writing.seq}}
          BY <3>4 DEF Unwrap
        <4>4. pongDue' \in {TRUE, pongDue}
          BY <3>4 DEF Unwrap
        <4> QED
          BY <3>1, <3>2, <4>1, <4>2, <4>3, <4>4
      <3> QED
        BY <1>5, <3>3, <3>4 DEF Write
    <2>3. absorbed' \in 0 .. KernelBuffer
      BY <1>5, LimitsAssumption DEF Write, TypeOK
    <2>4. writer' \in {"poll", "stuck"}
      BY <1>5 DEF Write
    <2> QED
      BY <1>5, <2>1, <2>2, <2>3, <2>4 DEF Write, TypeOK, sendVars, pingVars
  <1>6. CASE WriteDeadline
    BY <1>6, FrameTypes DEF WriteDeadline, TypeOK, sendVars, pingVars, appVars
  <1> QED
    BY <1>1, <1>2, <1>3, <1>4, <1>5, <1>6 DEF WriteLoop

\* and so do the pinger, the reader and the link.
LEMMA TypesWorld ==
  ASSUME TypeOK,
         PingTick \/ PingEnqueue \/ Pong \/ ReadLoopEnds \/ ReadLoopCloses
           \/ LinkDies
  PROVE  TypeOK'
  <1> USE DEF TypeOK, sendVars, pingVars, appVars
  <1>1. CASE PingTick
    <2>1. missed' \in 0 .. MaxMissed
      BY <1>1, LimitsAssumption DEF PingTick
    <2>2. closed' \in BOOLEAN /\ pinger' \in {"tick", "parked", "done"}
      BY <1>1 DEF PingTick
    <2> QED
      BY <1>1, <2>1, <2>2 DEF PingTick
  <1>2. CASE PingEnqueue
    <2>1. sendCh' \in Seq(Messages) /\ Len(sendCh') <= SendCap
      <3>1. CASE Len(sendCh) < SendCap /\ sendCh' = Append(sendCh, Ping)
        BY <3>1, FrameTypes, Enlarged, CapsAssumption
      <3>2. CASE sendCh' = sendCh
        BY <3>2
      <3> QED
        BY <1>2, <3>1, <3>2 DEF PingEnqueue
    <2> QED
      BY <1>2, <2>1 DEF PingEnqueue
  <1>3. CASE Pong
    <2>1. missed' \in 0 .. MaxMissed
      BY <1>3, LimitsAssumption DEF Pong
    <2> QED
      BY <1>3, <2>1 DEF Pong
  <1>4. CASE ReadLoopEnds
    BY <1>4 DEF ReadLoopEnds
  <1>5. CASE ReadLoopCloses
    BY <1>5 DEF ReadLoopCloses
  <1>6. CASE LinkDies
    BY <1>6 DEF LinkDies
  <1> QED
    BY <1>1, <1>2, <1>3, <1>4, <1>5, <1>6

\* Every step keeps the types.
LEMMA TypesNext == TypeOK /\ [Next]_vars => TypeOK'
  <1> SUFFICES ASSUME TypeOK, [Next]_vars PROVE TypeOK'
    OBVIOUS
  <1>1. CASE UNCHANGED vars
    BY <1>1 DEF TypeOK, vars, sendVars, pingVars, appVars
  <1> QED
    BY <1>1, TypesSend, TypesWriteLoop, TypesWorld DEF Next

\* Every variable of the relay's sending half keeps its type, and neither
\* channel ever holds more than its capacity.
THEOREM RelayTypes == Spec => []TypeOK
  BY TypesInit, TypesNext, PTL DEF Spec

----------------------------------------------------------------------------
(* Text before binary.  A binary frame that overtakes text leaves the text *)
(* in sendCh, which only writeLoop empties: its next select finds it.      *)

Overtaken == ahead = 1 => sendCh # <<>> /\ writer # "wait"

Priority == TextFirst /\ Overtaken

\* Every step keeps the count of the overtaken and the priority of the text channel.
LEMMA PriorityNext == TypeOK /\ Priority /\ [Next]_vars => Priority'
  <1> SUFFICES ASSUME TypeOK, Priority, [Next]_vars PROVE Priority'
    OBVIOUS
  <1> USE DEF Priority, TextFirst, Overtaken
  <1>1. sendCh \in Seq(Messages) /\ ahead \in Nat
    BY DEF TypeOK
  <1>2. ASSUME NEW s \in Senders, Send(s) PROVE Priority'
    <2>1. ahead' = ahead /\ writer' = writer
      BY <1>2 DEF Send, Wrap, Snapshot, Enqueue, GiveUp
    <2>2. sendCh # <<>> => sendCh' # <<>>
      <3>1. CASE Enqueue(s)
        <4>1. hand[s] \in Messages
          BY DEF TypeOK
        <4> QED
          BY <3>1, <4>1, <1>1, Appended DEF Enqueue
      <3> QED
        BY <1>2, <3>1 DEF Send, Wrap, Snapshot, GiveUp
    <2> QED
      BY <2>1, <2>2
  <1>3. CASE WriteLoop
    <2>1. CASE Poll
      BY <1>1, <2>1 DEF Poll, TakeText
    <2>2. CASE WaitClosed
      BY <2>2 DEF WaitClosed
    <2>3. CASE WaitText
      BY <2>3 DEF WaitText, TakeText
    <2>4. CASE WaitBinary
      BY <1>1, <2>4 DEF WaitBinary, TakeBinary
    <2>5. CASE Write
      BY <2>5 DEF Write
    <2>6. CASE WriteDeadline
      BY <2>6 DEF WriteDeadline
    <2> QED
      BY <1>3, <2>1, <2>2, <2>3, <2>4, <2>5, <2>6 DEF WriteLoop
  <1>4. CASE PingTick \/ Pong \/ ReadLoopEnds \/ ReadLoopCloses \/ LinkDies
    BY <1>4 DEF PingTick, Pong, ReadLoopEnds, ReadLoopCloses, LinkDies
  <1>5. CASE PingEnqueue
    <2>1. sendCh # <<>> => sendCh' # <<>>
      BY <1>1, <1>5, FrameTypes, Appended DEF PingEnqueue
    <2> QED
      BY <1>5, <2>1 DEF PingEnqueue
  <1>6. CASE UNCHANGED vars
    BY <1>6 DEF vars
  <1> QED
    BY <1>2, <1>3, <1>4, <1>5, <1>6 DEF Next

\* Once text is queued at most one binary frame goes before it, the one a
\* select that was already waiting took (writeLoop's two selects).
THEOREM TextGoesFirst == Spec => []TextFirst
  <1>1. Init => Priority
    BY DEF Init, Priority, TextFirst, Overtaken
  <1> QED
    BY <1>1, RelayTypes, PriorityNext, PTL DEF Spec, Priority

----------------------------------------------------------------------------
(* The sealed stream.  Every frame between WrapJSON and the socket carries *)
(* a number that was given out; the app's end accepts growing numbers, so  *)
(* one that passes InOrder is above all it ever accepted.                  *)

Numbered(m) == m.kind = "ping" \/ (m.kind # "none" /\ m.seq < sendSeq)

InFlight ==
  /\ \A s \in Senders : sender[s] # "idle" => Numbered(hand[s])
  /\ \A k \in DOMAIN sendCh : Numbered(sendCh[k])
  /\ \A k \in DOMAIN binaryCh : Numbered(binaryCh[k])
  /\ writer \in {"write", "stuck"} => Numbered(writing)

Growing ==
  /\ \A i \in DOMAIN accepted : accepted[i] < sendSeq
  /\ \A i, j \in DOMAIN accepted : i < j => accepted[i] < accepted[j]

Carried == InFlight /\ Growing

\* A number that is above the last that was accepted is above all of them.
LEMMA PassesAll ==
  ASSUME TypeOK, Growing, NEW k \in Nat, InOrder(k)
  PROVE  \A i \in DOMAIN accepted : accepted[i] < k
  <1>1. accepted \in Seq(Nat)
    BY DEF TypeOK
  <1> TAKE i \in DOMAIN accepted
  <1>2. Len(accepted) \in DOMAIN accepted /\ accepted # <<>>
           /\ i \in 1 .. Len(accepted)
    BY <1>1
  <1>3. accepted[i] \in Nat /\ accepted[Len(accepted)] \in Nat
    BY <1>1, <1>2
  <1>4. accepted[Len(accepted)] < k
    BY <1>2 DEF InOrder
  <1>5. i = Len(accepted) \/ accepted[i] < accepted[Len(accepted)]
    BY <1>1, <1>2 DEF Growing
  <1> QED
    BY <1>3, <1>4, <1>5

\* What a write does to the stream: nothing, or one frame is accepted that is
\* above all before it.
LEMMA Accepting ==
  ASSUME TypeOK, Carried, Write
  PROVE  \/ accepted' = accepted
         \/ /\ writing.seq \in Nat /\ writing.seq < sendSeq
            /\ \A i \in DOMAIN accepted : accepted[i] < writing.seq
            /\ accepted' = Append(accepted, writing.seq)
  <1> SUFFICES ASSUME accepted' # accepted
               PROVE  /\ writing.seq \in Nat /\ writing.seq < sendSeq
                      /\ \A i \in DOMAIN accepted : accepted[i] < writing.seq
                      /\ accepted' = Append(accepted, writing.seq)
    OBVIOUS
  <1>1. Unwrap(writing) /\ writer = "write"
    BY DEF Write, appVars
  <1>2. writing.kind # "ping" /\ InOrder(writing.seq)
           /\ accepted' = Append(accepted, writing.seq)
    BY <1>1 DEF Unwrap
  <1>3. writing.seq \in Nat
    BY DEF TypeOK, Messages
  <1>4. writing.seq < sendSeq
    BY <1>1, <1>2 DEF Carried, InFlight, Numbered
  <1> QED
    BY <1>2, <1>3, <1>4, PassesAll DEF Carried

\* The accepted numbers still grow after a step.
LEMMA GrowingNext ==
  ASSUME TypeOK, Carried, [Next]_vars
  PROVE  Growing'
  <1>1. accepted \in Seq(Nat) /\ sendSeq \in Nat
    BY DEF TypeOK
  <1>2. CASE accepted' = accepted /\ sendSeq' \in {sendSeq, sendSeq + 1}
    <2>1. \A i \in DOMAIN accepted : accepted[i] \in Nat
      BY <1>1
    <2> QED
      BY <1>1, <1>2, <2>1 DEF Carried, Growing
  <1>3. CASE Write
    <2>1. sendSeq' = sendSeq
      BY <1>3 DEF Write, sendVars
    <2>2. CASE accepted' = accepted
      BY <1>2, <2>1, <2>2
    <2>3. CASE /\ writing.seq \in Nat /\ writing.seq < sendSeq
               /\ \A i \in DOMAIN accepted : accepted[i] < writing.seq
               /\ accepted' = Append(accepted, writing.seq)
      <3> DEFINE n == Len(accepted)
      <3>1. n \in Nat /\ DOMAIN accepted' = 1 .. n + 1 /\ DOMAIN accepted = 1 .. n
               /\ \A i \in 1 .. n : accepted'[i] = accepted[i]
               /\ accepted'[n + 1] = writing.seq
        BY <1>1, <2>3, Appended
      <3> HIDE DEF n
      <3>2. \A i \in 1 .. n + 1 : i = n + 1 \/ i \in 1 .. n
        BY <3>1
      <3>3. \A i \in DOMAIN accepted' : accepted'[i] < sendSeq'
        BY <2>1, <2>3, <3>1, <3>2 DEF Carried, Growing
      <3>4. ASSUME NEW i \in DOMAIN accepted', NEW j \in DOMAIN accepted', i < j
            PROVE  accepted'[i] < accepted'[j]
        <4>1. i \in 1 .. n
          BY <3>1, <3>4
        <4>2. CASE j = n + 1
          BY <2>3, <3>1, <4>1, <4>2
        <4>3. CASE j \in 1 .. n
          BY <3>1, <3>4, <4>1, <4>3 DEF Carried, Growing
        <4> QED
          BY <3>1, <3>2, <4>2, <4>3
      <3> QED
        BY <3>3, <3>4 DEF Growing
    <2> QED
      BY <1>3, <2>2, <2>3, Accepting
  <1>4. Write \/ (accepted' = accepted /\ sendSeq' \in {sendSeq, sendSeq + 1})
    <2>1. ASSUME NEW s \in Senders, Send(s)
          PROVE  accepted' = accepted /\ sendSeq' \in {sendSeq, sendSeq + 1}
      BY <2>1 DEF Send, Wrap, Snapshot, Enqueue, GiveUp, appVars
    <2>2. CASE WriteLoop
      BY <2>2 DEF WriteLoop, Poll, WaitClosed, WaitText, WaitBinary,
                  WriteDeadline, appVars, sendVars
    <2>3. CASE PingTick \/ PingEnqueue \/ Pong \/ ReadLoopEnds
                 \/ ReadLoopCloses \/ LinkDies
      BY <2>3 DEF PingTick, PingEnqueue, Pong, ReadLoopEnds, ReadLoopCloses,
                  LinkDies, appVars, sendVars
    <2>4. CASE UNCHANGED vars
      BY <2>4 DEF vars, sendVars, appVars
    <2> QED
      BY <2>1, <2>2, <2>3, <2>4 DEF Next
  <1> QED
    BY <1>2, <1>3, <1>4

----------------------------------------------------------------------------
\* A sender keeps what is in flight numbered below sendSeq;
LEMMA FlightSend ==
  ASSUME TypeOK, InFlight, NEW s \in Senders, Send(s)
  PROVE  InFlight'
  <1>1. sendSeq \in Nat /\ sendCh \in Seq(Messages) /\ binaryCh \in Seq(Messages)
           /\ hand \in [Senders -> Messages] /\ writing \in Messages
           /\ sender \in [Senders -> {"idle", "sealed", "parked"}]
    BY DEF TypeOK
  <1>2. \A t \in Senders : hand[t] \in Messages
    BY <1>1
  <1>3. CASE Wrap(s)
    <2>1. sendSeq' = sendSeq + 1 /\ UNCHANGED <<sendCh, binaryCh, writer, writing>>
      BY <1>3 DEF Wrap
    <2>2. \A m \in Messages : Numbered(m) => Numbered(m)'
      BY <1>1, <2>1 DEF Numbered, Messages
    <2>3. \A t \in Senders : sender'[t] # "idle" =>
             (hand'[t].kind = "ping"
               \/ (hand'[t].kind # "none" /\ hand'[t].seq < sendSeq'))
      <3> TAKE t \in Senders
      <3> HAVE sender'[t] # "idle"
      <3>1. CASE t = s
        <4>1. hand'[s] = [kind |-> KindOf(s), seq |-> sendSeq]
          BY <1>1, <1>3 DEF Wrap
        <4>2. hand'[s].kind # "none" /\ hand'[s].seq < sendSeq'
          BY <1>1, <2>1, <4>1, KindTypes DEF SealedKinds
        <4> QED
          BY <3>1, <4>2
      <3>2. CASE t # s
        <4>1. hand'[t] = hand[t] /\ sender'[t] = sender[t]
          BY <1>1, <1>3, <3>2 DEF Wrap
        <4>2. Numbered(hand[t])
          BY <4>1 DEF InFlight
        <4> QED
          BY <1>1, <1>2, <2>1, <4>1, <4>2 DEF Numbered, Messages
      <3> QED
        BY <3>1, <3>2
    <2>4. \A k \in DOMAIN sendCh : sendCh[k] \in Messages
      BY <1>1
    <2>5. \A k \in DOMAIN binaryCh : binaryCh[k] \in Messages
      BY <1>1
    <2>6. /\ \A k \in DOMAIN sendCh : Numbered(sendCh[k])
          /\ \A k \in DOMAIN binaryCh : Numbered(binaryCh[k])
          /\ writer \in {"write", "stuck"} => Numbered(writing)
      BY DEF InFlight
    <2>7. /\ (\A k \in DOMAIN sendCh : Numbered(sendCh[k]))'
          /\ (\A k \in DOMAIN binaryCh : Numbered(binaryCh[k]))'
          /\ (writer \in {"write", "stuck"} => Numbered(writing))'
      BY <1>1, <2>1, <2>4, <2>5, <2>6 DEF Numbered, Messages
    <2> QED
      BY <2>3, <2>7 DEF InFlight, Numbered
  <1>4. CASE Snapshot(s)
    <2>1. \A t \in Senders : sender'[t] # "idle" =>
            sender[t] # "idle" /\ hand'[t] = hand[t]
      BY <1>1, <1>4 DEF Snapshot, Done
    <2>2. UNCHANGED <<sendSeq, sendCh, binaryCh, writer, writing>>
      BY <1>4 DEF Snapshot
    <2> QED
      BY <2>1, <2>2 DEF InFlight, Numbered
  <1>5. CASE Enqueue(s)
    <2>1. \A t \in Senders : sender'[t] # "idle" =>
            sender[t] # "idle" /\ hand'[t] = hand[t]
      BY <1>1, <1>5 DEF Enqueue, Done
    <2>2. UNCHANGED <<sendSeq, writer, writing>>
      BY <1>5 DEF Enqueue
    <2>3. Numbered(hand[s]) /\ hand[s] \in Messages
      BY <1>1, <1>5 DEF Enqueue, InFlight
    <2>4. \A k \in DOMAIN sendCh' : Numbered(sendCh'[k])
      <3>1. CASE sendCh' = sendCh
        BY <3>1 DEF InFlight
      <3>2. CASE sendCh' = Append(sendCh, hand[s])
        BY <1>1, <2>3, <3>2, Appended DEF InFlight
      <3> QED
        BY <1>5, <3>1, <3>2 DEF Enqueue
    <2>5. \A k \in DOMAIN binaryCh' : Numbered(binaryCh'[k])
      <3>1. CASE binaryCh' = binaryCh
        BY <3>1 DEF InFlight
      <3>2. CASE binaryCh' = Append(binaryCh, hand[s])
        BY <1>1, <2>3, <3>2, Appended DEF InFlight
      <3> QED
        BY <1>5, <3>1, <3>2 DEF Enqueue
    <2> QED
      BY <2>1, <2>2, <2>4, <2>5 DEF InFlight, Numbered
  <1>6. CASE GiveUp(s)
    <2>1. \A t \in Senders : sender'[t] # "idle" =>
            sender[t] # "idle" /\ hand'[t] = hand[t]
      BY <1>1, <1>6 DEF GiveUp, Done
    <2>2. UNCHANGED <<sendSeq, sendCh, binaryCh, writer, writing>>
      BY <1>6 DEF GiveUp
    <2> QED
      BY <2>1, <2>2 DEF InFlight, Numbered
  <1> QED
    BY <1>3, <1>4, <1>5, <1>6 DEF Send

\* a frame that is taken out keeps its number,
LEMMA FlightTake ==
  ASSUME TypeOK, InFlight, TakeText \/ TakeBinary
  PROVE  /\ \A k \in DOMAIN sendCh' : Numbered(sendCh'[k])
         /\ \A k \in DOMAIN binaryCh' : Numbered(binaryCh'[k])
         /\ Numbered(writing')
  <1>1. sendCh \in Seq(Messages) /\ binaryCh \in Seq(Messages)
    BY DEF TypeOK
  <1>2. CASE TakeText
    <2>1. writing' = sendCh[1] /\ 1 \in DOMAIN sendCh
      BY <1>1, <1>2, Taken DEF TakeText
    <2>2. \A k \in DOMAIN sendCh' : Numbered(sendCh'[k])
      BY <1>1, <1>2, Taken DEF TakeText, InFlight
    <2> QED
      BY <1>2, <2>1, <2>2 DEF TakeText, InFlight
  <1>3. CASE TakeBinary
    <2>1. writing' = binaryCh[1] /\ 1 \in DOMAIN binaryCh
      BY <1>1, <1>3, Taken DEF TakeBinary
    <2>2. \A k \in DOMAIN binaryCh' : Numbered(binaryCh'[k])
      BY <1>1, <1>3, Taken DEF TakeBinary, InFlight
    <2> QED
      BY <1>3, <2>1, <2>2 DEF TakeBinary, InFlight
  <1> QED
    BY <1>2, <1>3

\* so the write loop keeps it,
LEMMA FlightWriteLoop ==
  ASSUME TypeOK, InFlight, WriteLoop
  PROVE  InFlight'
  <1>1. UNCHANGED <<sendSeq, sender, hand>>
    BY DEF WriteLoop, Poll, WaitClosed, WaitText, WaitBinary, Write,
           WriteDeadline, sendVars
  <1>2. CASE TakeText \/ TakeBinary
    BY <1>1, <1>2, FlightTake DEF InFlight, Numbered
  <1>3. CASE /\ UNCHANGED <<sendCh, binaryCh>>
             /\ writer' \in {"write", "stuck"} =>
                  writer \in {"write", "stuck"} /\ writing' = writing
    BY <1>1, <1>3 DEF InFlight, Numbered
  <1>4. CASE Poll
    BY <1>2, <1>3, <1>4 DEF Poll
  <1>5. CASE WaitClosed \/ WaitText \/ WaitBinary
    BY <1>2, <1>3, <1>5 DEF WaitClosed, WaitText, WaitBinary
  <1>6. CASE Write
    BY <1>3, <1>6 DEF Write
  <1>7. CASE WriteDeadline
    BY <1>3, <1>7 DEF WriteDeadline
  <1> QED
    BY <1>4, <1>5, <1>6, <1>7 DEF WriteLoop

\* and the rest of the connection adds nothing but pings.
LEMMA FlightWorld ==
  ASSUME TypeOK, InFlight,
         PingTick \/ PingEnqueue \/ Pong \/ ReadLoopEnds \/ ReadLoopCloses
           \/ LinkDies
  PROVE  InFlight'
  <1>1. UNCHANGED <<sendSeq, sender, hand, writer, writing, binaryCh>>
    BY DEF PingTick, PingEnqueue, Pong, ReadLoopEnds, ReadLoopCloses, LinkDies,
           sendVars
  <1>2. CASE sendCh' = sendCh
    BY <1>1, <1>2 DEF InFlight, Numbered
  <1>3. CASE sendCh' = Append(sendCh, Ping)
    <2>1. sendCh \in Seq(Messages) /\ Numbered(Ping)
      BY DEF TypeOK, Numbered, Ping
    <2>2. \A k \in DOMAIN sendCh' : Numbered(sendCh'[k])
      BY <1>3, <2>1, Appended, FrameTypes DEF InFlight
    <2> QED
      BY <1>1, <2>2 DEF InFlight, Numbered
  <1> QED
    BY <1>2, <1>3 DEF PingTick, PingEnqueue, Pong, ReadLoopEnds, ReadLoopCloses,
                      LinkDies

\* Every step keeps both;
LEMMA CarriedNext == TypeOK /\ Carried /\ [Next]_vars => Carried'
  <1> SUFFICES ASSUME TypeOK, Carried, [Next]_vars PROVE Carried'
    OBVIOUS
  <1>1. InFlight
    BY DEF Carried
  <1>2. CASE UNCHANGED vars
    BY <1>1, <1>2, GrowingNext DEF vars, sendVars, InFlight, Numbered, Carried
  <1>3. InFlight' \/ UNCHANGED vars
    BY <1>1, FlightSend, FlightWriteLoop, FlightWorld DEF Next
  <1> QED
    BY <1>2, <1>3, GrowingNext DEF Carried

\* they hold while nothing was sent.
LEMMA CarriedInit == Init => Carried
  BY DEF Init, Carried, InFlight, Growing

----------------------------------------------------------------------------
(* The refinement.                                                         *)

\* Every step of the sending half is a step of the stream, or none.
LEMMA StreamStep ==
  ASSUME TypeOK, Carried, [Next]_vars
  PROVE  [Stream!Next]_<<sendSeq, accepted>>
  <1>1. ASSUME NEW s \in Senders, Send(s)
        PROVE  [Stream!Next]_<<sendSeq, accepted>>
    <2>1. CASE Wrap(s)
      BY <2>1 DEF Wrap, appVars, Stream!Next, Stream!Seal
    <2>2. CASE Snapshot(s) \/ Enqueue(s) \/ GiveUp(s)
      BY <2>2 DEF Snapshot, Enqueue, GiveUp, appVars
    <2> QED
      BY <1>1, <2>1, <2>2 DEF Send
  <1>2. CASE WriteLoop
    <2>1. CASE Write
      <3>1. sendSeq' = sendSeq /\ sendSeq \in Nat
        BY <2>1 DEF Write, sendVars, TypeOK
      <3>2. CASE accepted' = accepted
        BY <3>1, <3>2
      <3>3. CASE /\ writing.seq \in Nat /\ writing.seq < sendSeq
                 /\ \A i \in DOMAIN accepted : accepted[i] < writing.seq
                 /\ accepted' = Append(accepted, writing.seq)
        <4>1. writing.seq \in 0 .. sendSeq - 1
          BY <3>1, <3>3
        <4> QED
          BY <3>1, <3>3, <4>1 DEF Stream!Next, Stream!Accept
      <3> QED
        BY <2>1, <3>2, <3>3, Accepting
    <2>2. CASE Poll \/ WaitClosed \/ WaitText \/ WaitBinary \/ WriteDeadline
      BY <2>2 DEF Poll, WaitClosed, WaitText, WaitBinary, WriteDeadline,
                  sendVars, appVars
    <2> QED
      BY <1>2, <2>1, <2>2 DEF WriteLoop
  <1>3. CASE PingTick \/ PingEnqueue \/ Pong \/ ReadLoopEnds \/ ReadLoopCloses
               \/ LinkDies
    BY <1>3 DEF PingTick, PingEnqueue, Pong, ReadLoopEnds, ReadLoopCloses,
                LinkDies, sendVars, appVars
  <1>4. CASE UNCHANGED vars
    BY <1>4 DEF vars, sendVars, appVars
  <1> QED
    BY <1>1, <1>2, <1>3, <1>4 DEF Next

\* However many goroutines seal, park and give up, and whatever the link does,
\* the app's end accepts each frame at most once and in the order of sealing:
\* the relay's sending half implements SealedStream.
THEOREM RelayCarriesStream == Spec => RefinesSealedStream
  <1>1. Init => Stream!Init
    BY DEF Init, Stream!Init
  <1>2. TypeOK /\ Carried /\ [Next]_vars => [Stream!Next]_<<sendSeq, accepted>>
    BY StreamStep
  <1>3. Spec => []Carried
    BY RelayTypes, CarriedInit, CarriedNext, PTL DEF Spec
  <1> QED
    BY <1>1, <1>2, <1>3, RelayTypes, PTL
       DEF Spec, RefinesSealedStream, Stream!Spec, Stream!svars
=============================================================================
