------------------------ MODULE SecureSessionProofs ------------------------
(***************************************************************************)
(* What holds of the encrypted session for any number of output            *)
(* goroutines, attempts, handshakes, connections and frames.               *)
(***************************************************************************)
EXTENDS SecureSession, TLAPS

(***************************************************************************)
(* Type correctness.  The one thing to know beside the types themselves is *)
(* that a goroutine about to wrap holds a channel.                         *)
(***************************************************************************)
HoldsChannel == \A s \in Senders : sender[s].pc = "wrap" => sender[s].sc # None

Types == TypeOK /\ HoldsChannel

\* The budget is an integer.
LEMMA BudgetIsInt == MaxAttempts \in Int
  BY MaxAttemptsAssumption

\* Appending a record of the right type keeps a sequence of such records.
LEMMA AppendTyped ==
  ASSUME NEW S, NEW q \in Seq(S), NEW e \in S
  PROVE  Append(q, e) \in Seq(S) /\ Len(Append(q, e)) = Len(q) + 1
  OBVIOUS

\* What is in the sequence is of the right type.
LEMMA ElementTyped ==
  ASSUME NEW S, NEW q \in Seq(S), NEW i \in DOMAIN q
  PROVE  i \in 1 .. Len(q) /\ q[i] \in S
<1>1. DOMAIN q = 1 .. Len(q)
  OBVIOUS
<1> QED BY <1>1

\* A handshake starts with the next number, at the connection of the time.
LEMMA ExchangeTyped ==
  ASSUME NEW q \in Seq([via : Transports, conn : Nat]), Len(q) + 1 \in Handshakes,
         NEW r \in Transports, NEW n \in 0 .. MaxConns,
         NEW p, p = Append(q, [via |-> r, conn |-> n])
  PROVE  p \in Seq([via : Transports, conn : Nat]) /\ Len(p) <= MaxHandshakes
<1>1. n \in Nat
  BY BoundsAssumption
<1>2. p \in Seq([via : Transports, conn : Nat]) /\ Len(p) = Len(q) + 1
  BY <1>1, AppendTyped
<1> QED BY <1>2, BoundsAssumption DEF Handshakes

\* A goroutine that takes another step of its handler stays typed.
ReaderType ==
  [Transports -> [pc : ReaderLabels, server : Handshakes \cup {None}, good : BOOLEAN]]
\* A reader that moves on keeps its type,
LEMMA GotoTyped ==
  ASSUME NEW f \in ReaderType, NEW r \in Transports, NEW l \in ReaderLabels
  PROVE  [f EXCEPT ![r].pc = l] \in ReaderType
<1>1. [f[r] EXCEPT !.pc = l]
        \in [pc : ReaderLabels, server : Handshakes \cup {None}, good : BOOLEAN]
  BY DEF ReaderType
<1> QED BY <1>1 DEF ReaderType
\* and so does one that takes up an exchange.
LEMMA LoadTyped ==
  ASSUME NEW f \in ReaderType, NEW r \in Transports, NEW l \in ReaderLabels,
         NEW h \in Handshakes \cup {None}, NEW b \in BOOLEAN
  PROVE  [f EXCEPT ![r] = [pc |-> l, server |-> h, good |-> b]] \in ReaderType
  BY DEF ReaderType

\* Incrementing one counter keeps an array of counters.
LEMMA CountTyped ==
  ASSUME NEW S, NEW f \in [S -> Nat], NEW x \in S
  PROVE  [f EXCEPT ![x] = @ + 1] \in [S -> Nat] /\ f[x] \in Nat
  OBVIOUS

\* Initial states have their types.
LEMMA InitTypes == Init => Types
<1> SUFFICES ASSUME Init PROVE Types
  OBVIOUS
<1>1. attempts \in Int /\ conn \in 0 .. MaxConns /\ Len(exch) <= MaxHandshakes
  <2>1. attempts = MaxAttempts /\ conn = 0 /\ exch = <<>>
    BY DEF Init
  <2> QED BY <2>1, MaxAttemptsAssumption, BoundsAssumption
<1>2. exch \in Seq([via : Transports, conn : Nat])
      /\ frames \in Seq([key : Handshakes, seq : Nat])
  <2>1. exch = <<>> /\ frames = <<>>
    BY DEF Init
  <2> QED BY <2>1
<1>3. TypeOK
  BY <1>1, <1>2 DEF Init, TypeOK, Idle, Waiting, ReaderLabels
<1> QED BY <1>3 DEF Types, HoldsChannel, Init, Waiting

\* So do the states after a process ended.
LEMMA EndTypes ==
  ASSUME Types, NEW how \in {"done", "panic"}, ProcessEnds(how)
  PROVE  Types'
<1>1. attempts' \in Int
  BY BudgetIsInt DEF ProcessEnds
<1> QED
  BY <1>1 DEF ProcessEnds, Types, TypeOK, HoldsChannel, Idle, Waiting, ReaderLabels

\* A handler of a reading goroutine keeps the types.
LEMMA HandlerTypes ==
  ASSUME Types, NEW r \in Transports, Handler(r)
  PROVE  Types'
<1> USE DEF Types, TypeOK, HoldsChannel, handshakeVars, channelVars, gateVars, appVars
<1>1. CASE HandlePakeStart(r)
  <2>1. Len(exch) + 1 \in Handshakes /\ conn \in 0 .. MaxConns
        /\ exch \in Seq([via : Transports, conn : Nat])
    BY <1>1 DEF HandlePakeStart
  <2>2. exch' = Append(exch, [via |-> r, conn |-> conn])
    BY <1>1 DEF HandlePakeStart
  <2>3. exch' \in Seq([via : Transports, conn : Nat]) /\ Len(exch') <= MaxHandshakes
    BY <2>1, <2>2, ExchangeTyped
  <2>4. timers' \in [Handshakes -> {"off", "armed", "fired"}]
    BY <1>1, <2>1 DEF HandlePakeStart, Stopped
  <2>5. confirm' \in [Transports -> Handshakes \cup {None}]
    BY <1>1, <2>1 DEF HandlePakeStart
  <2> QED BY <1>1, <2>1, <2>3, <2>4, <2>5 DEF HandlePakeStart
<1>2. CASE \E right \in BOOLEAN : SecConfirmRead(r, right)
  <2>1. PICK right \in BOOLEAN : SecConfirmRead(r, right)
    BY <1>2
  <2>2. PICK p \in {"accept", "refuse"} :
          reader' = reader \/
          reader' = [reader EXCEPT ![r] = [pc |-> p, server |-> pake, good |-> right]]
    BY <2>1 DEF SecConfirmRead
  <2>3. reader \in ReaderType /\ pake \in Handshakes \cup {None}
    BY DEF ReaderType
  <2>4. p \in ReaderLabels
    BY DEF ReaderLabels
  <2>5. reader' \in ReaderType
    <3> HIDE DEF Types, TypeOK
    <3>1. [reader EXCEPT ![r] = [pc |-> p, server |-> pake, good |-> right]] \in ReaderType
      BY <2>3, <2>4, LoadTyped
    <3> QED BY <2>2, <2>3, <3>1
  <2>6. confirm' \in [Transports -> Handshakes \cup {None}]
    BY <2>1 DEF SecConfirmRead
  <2>7. UNCHANGED <<forceTS, handshakeVars, channelVars, gateVars, mode, sender,
                    exit, conn, p2p, frames>>
    BY <2>1 DEF SecConfirmRead
  <2> HIDE DEF SecConfirmRead
  <2>8. HoldsChannel'
    BY <2>7
  <2>9. TypeOK'
    BY <2>5, <2>6, <2>7, ZenonT(30) DEF ReaderType
  <2> QED BY <2>8, <2>9
<1>3. CASE SecConfirmClear(r)
  <2>1. PICK p \in {"install", "reject"} : reader' = [reader EXCEPT ![r].pc = p]
    BY <1>3 DEF SecConfirmClear, Goto
  <2>2. reader \in ReaderType /\ p \in ReaderLabels
    BY DEF ReaderType, ReaderLabels
  <2>3. reader' \in ReaderType
    <3> HIDE DEF Types, TypeOK
    <3> QED BY <2>1, <2>2, GotoTyped
  <2> QED BY <1>3, <2>3 DEF SecConfirmClear, Stopped, ReaderType
<1>4. CASE SecConfirmReject(r)
  <2>1. attempts' \in Int
    <3>1. attempts \in Int /\ (attempts' = attempts - 1 \/ attempts' = attempts)
      BY <1>4 DEF SecConfirmReject
    <3> HIDE DEF Types, TypeOK
    <3> QED BY <3>1
  <2>2. exit' \in {"no", "pending", "done", "panic"}
    BY <1>4 DEF SecConfirmReject
  <2> QED BY <1>4, <2>1, <2>2 DEF SecConfirmReject, Idle, ReaderLabels
<1>5. CASE SecConfirmInstall(r)
  <2>1. reader' = [reader EXCEPT ![r].pc = "verify"]
    BY <1>5 DEF SecConfirmInstall, Goto
  <2>2. reader \in ReaderType /\ "verify" \in ReaderLabels
    BY DEF ReaderType, ReaderLabels
  <2>3. reader' \in ReaderType
    <3> HIDE DEF Types, TypeOK
    <3> QED BY <2>1, <2>2, GotoTyped
  <2> QED BY <1>5, <2>3 DEF SecConfirmInstall, ReaderType
<1>6. CASE SecConfirmVerify(r)
  <2>1. attempts' \in Int /\ verified' \in Handshakes \cup {None}
    BY <1>6, BudgetIsInt DEF SecConfirmVerify
  <2>2. reader' \in ReaderType
    BY <1>6 DEF SecConfirmVerify, Idle, ReaderLabels, ReaderType
  <2>3. UNCHANGED <<forceTS, handshakeVars, channelVars, enabled, mode, sender,
                    exit, appVars, frames>>
    BY <1>6 DEF SecConfirmVerify
  <2>4. HoldsChannel'
    BY <2>3
  <2>5. TypeOK'
    BY <2>1, <2>2, <2>3, ZenonT(30) DEF ReaderType
  <2> QED BY <2>4, <2>5
<1>7. CASE ChannelSelectP2P(r)
  <2>1. reader' = [reader EXCEPT ![r].pc = "selectReset"]
    BY <1>7 DEF ChannelSelectP2P, Goto
  <2>2. reader \in ReaderType /\ "selectReset" \in ReaderLabels
    BY DEF ReaderType, ReaderLabels
  <2>3. reader' \in ReaderType
    <3> HIDE DEF Types, TypeOK
    <3> QED BY <2>1, <2>2, GotoTyped
  <2> QED BY <1>7, <2>3 DEF ChannelSelectP2P, ReaderType
<1>8. CASE ChannelSelectReset(r)
  BY <1>8 DEF ChannelSelectReset, ResetSecure, Stopped, Idle, ReaderLabels
<1>9. CASE ChannelSelectTS(r)
  BY <1>9 DEF ChannelSelectTS
<1>10. CASE Kicked(r)
  BY <1>10 DEF Kicked, Transports
<1>11. CASE DaemonReplaced(r)
  BY <1>11, EndTypes DEF DaemonReplaced
<1> QED
  BY <1>1, <1>2, <1>3, <1>4, <1>5, <1>6, <1>7, <1>8, <1>9, <1>10, <1>11 DEF Handler

\* A signal of the relay or of the data channel keeps the types.
LEMMA SignalTypes == ASSUME Types, Signal PROVE Types'
<1> USE DEF Types, TypeOK, HoldsChannel, handshakeVars, channelVars, gateVars, appVars
<1>1. CASE PeerOnline
  <2>1. conn' \in 0 .. MaxConns
    <3>1. conn \in 0 .. MaxConns /\ conn < MaxConns /\ conn' = conn + 1
      BY <1>1 DEF PeerOnline
    <3> HIDE DEF Types, TypeOK
    <3> QED BY <3>1, BoundsAssumption
  <2>2. reader' = reader \/ reader' = [reader EXCEPT !["TS"].pc = "onlineReset"]
    BY <1>1 DEF PeerOnline, Goto
  <2>3. reader \in ReaderType /\ "onlineReset" \in ReaderLabels /\ "TS" \in Transports
    BY DEF ReaderType, ReaderLabels, Transports
  <2>4. reader' \in ReaderType
    <3> HIDE DEF Types, TypeOK
    <3> QED BY <2>2, <2>3, GotoTyped
  <2>5. verified' \in Handshakes \cup {None}
    BY <1>1 DEF PeerOnline
  <2> QED BY <1>1, <2>1, <2>4, <2>5 DEF PeerOnline, Transports, ReaderType
<1>2. CASE PeerOnlineReset
  BY <1>2 DEF PeerOnlineReset, ResetSecure, Stopped, Idle, Transports, ReaderLabels
<1>3. CASE PeerOffline
  <2>1. reader' = [reader EXCEPT !["TS"].pc = "offlineReset"]
    BY <1>3 DEF PeerOffline, Goto
  <2>2. reader \in ReaderType /\ "offlineReset" \in ReaderLabels /\ "TS" \in Transports
    BY DEF ReaderType, ReaderLabels, Transports
  <2>3. reader' \in ReaderType
    <3> HIDE DEF Types, TypeOK
    <3> QED BY <2>1, <2>2, GotoTyped
  <2> QED BY <1>3, <2>3 DEF PeerOffline, Transports, ReaderType
<1>4. CASE PeerOfflineReset
  BY <1>4 DEF PeerOfflineReset, ResetSecure, Stopped, Idle, Transports, ReaderLabels
<1>5. CASE P2PUp
  BY <1>5 DEF P2PUp, Transports
<1>6. CASE P2PDown
  BY <1>6 DEF P2PDown, Transports
<1> QED BY <1>1, <1>2, <1>3, <1>4, <1>5, <1>6 DEF Signal

\* Sealing and sending keeps the types.
LEMMA OutputTypes ==
  ASSUME Types, NEW s \in Senders, Output(s)
  PROVE  Types'
<1> USE DEF Types, TypeOK, HoldsChannel, handshakeVars, channelVars, gateVars, appVars
<1>1. CASE SendJSON(s)
  <2>1. sender' \in [Senders -> [pc : {"idle", "active", "wrap"},
                                sc : Handshakes \cup {None}]] /\ HoldsChannel'
    BY <1>1 DEF SendJSON
  <2>2. UNCHANGED <<forceTS, handshakeVars, channelVars, gateVars, mode, reader,
                    exit, appVars, frames>>
    BY <1>1 DEF SendJSON
  <2>3. TypeOK'
    BY <2>1, <2>2, ZenonT(30)
  <2> QED BY <2>1, <2>3
<1>2. CASE WrapReread(s)
  <2>1. sender' \in [Senders -> [pc : {"idle", "active", "wrap"},
                                sc : Handshakes \cup {None}]] /\ HoldsChannel'
    BY <1>2 DEF WrapReread
  <2>2. UNCHANGED <<forceTS, handshakeVars, channelVars, gateVars, mode, reader,
                    exit, appVars, frames>>
    BY <1>2 DEF WrapReread
  <2>3. TypeOK'
    BY <2>1, <2>2, ZenonT(30)
  <2> QED BY <2>1, <2>3
<1>3. CASE WrapNil(s)
  BY <1>3, EndTypes DEF WrapNil
<1>4. CASE WrapSeal(s)
  <2> DEFINE c == sender[s].sc
  <2>1. c \in Handshakes /\ sendSeq \in [Handshakes -> Nat]
        /\ frames \in Seq([key : Handshakes, seq : Nat])
    BY <1>4 DEF WrapSeal
  <2>2. frames' = Append(frames, [key |-> c, seq |-> sendSeq[c]])
        /\ sendSeq' = [sendSeq EXCEPT ![c] = @ + 1]
    BY <1>4 DEF WrapSeal
  <2>3. frames' \in Seq([key : Handshakes, seq : Nat])
        /\ sendSeq' \in [Handshakes -> Nat]
    <3> HIDE DEF Types, TypeOK, c
    <3> QED BY <2>1, <2>2, CountTyped, AppendTyped
  <2>4. sender' \in [Senders -> [pc : {"idle", "active", "wrap"},
                                sc : Handshakes \cup {None}]] /\ HoldsChannel'
    BY <1>4 DEF WrapSeal, Waiting
  <2>5. UNCHANGED <<forceTS, handshakeVars, chan, live, gateVars, mode, reader,
                    exit, appVars>>
    BY <1>4 DEF WrapSeal
  <2>6. TypeOK'
    BY <2>3, <2>4, <2>5, ZenonT(30)
  <2> QED BY <2>4, <2>6
<1>5. CASE WrapDrop(s)
  <2>1. sender' \in [Senders -> [pc : {"idle", "active", "wrap"},
                                sc : Handshakes \cup {None}]] /\ HoldsChannel'
    BY <1>5 DEF WrapDrop, Waiting
  <2>2. UNCHANGED <<forceTS, handshakeVars, channelVars, gateVars, mode, reader,
                    exit, appVars, frames>>
    BY <1>5 DEF WrapDrop
  <2>3. TypeOK'
    BY <2>1, <2>2, ZenonT(30)
  <2> QED BY <2>1, <2>3
<1> QED BY <1>1, <1>2, <1>3, <1>4, <1>5 DEF Output

\* Every step keeps the types.
LEMMA NextTypes == Types /\ [Next]_vars => Types'
<1> SUFFICES ASSUME Types, [Next]_vars PROVE Types'
  OBVIOUS
<1> USE DEF Types, TypeOK, HoldsChannel, handshakeVars, channelVars, gateVars, appVars
<1>1. CASE \E r \in Transports : Handler(r)
  BY <1>1, HandlerTypes
<1>2. CASE Signal
  BY <1>2, SignalTypes
<1>3. CASE LocalClient
  BY <1>3 DEF LocalClient, SetSecCode, UnsetSecCode
<1>4. CASE \E s \in Senders : Output(s)
  BY <1>4, OutputTypes
<1>5. CASE \E h \in Handshakes : Timer(h)
  <2>1. PICK h \in Handshakes : TimerFires(h) \/ TimerCallback(h)
    BY <1>5 DEF Timer
  <2>2. timers' \in [Handshakes -> {"off", "armed", "fired"}] /\ HoldsChannel'
    BY <2>1 DEF TimerFires, TimerCallback
  <2>3. CASE TimerFires(h)
    <3>1. TypeOK'
      BY <2>3, <2>2, ZenonT(30) DEF TimerFires
    <3> QED BY <2>2, <3>1
  <2>4. CASE TimerCallback(h)
    <3>1. TypeOK'
      BY <2>4, <2>2, ZenonT(30) DEF TimerCallback
    <3> QED BY <2>2, <3>1
  <2> QED BY <2>1, <2>3, <2>4
<1>6. CASE Exit
  BY <1>6, EndTypes DEF Exit
<1>7. CASE UNCHANGED vars
  <2>1. TypeOK'
    BY <1>7, ZenonT(30) DEF vars
  <2>2. HoldsChannel'
    BY <1>7 DEF vars
  <2> QED BY <2>1, <2>2
<1> QED BY <1>1, <1>2, <1>3, <1>4, <1>5, <1>6, <1>7 DEF Next

\* The state of the session always has its type.
THEOREM SecureSessionTypes == Spec => []TypeOK
<1>1. Types => TypeOK
  BY DEF Types
<1> QED BY <1>1, InitTypes, NextTypes, PTL DEF Spec

(***************************************************************************)
(* No key ever seals two frames with the same number.                      *)
(*                                                                         *)
(* A channel may be reset while frames sealed with it are on their way, and *)
(* its counter goes back to 0 then; what keeps the pair (key, number) unique *)
(* is that a channel that was reset is never revived, and that no exchange *)
(* makes two channels.  The invariant therefore follows an exchange: first *)
(* the app may still confirm it, then one reader holds it, then it is      *)
(* spent, and only a spent exchange has a live channel or frames.          *)
(***************************************************************************)

\* The exchange a reader has verified and not yet turned into a channel.
Holding(r) ==
  IF reader[r].pc \in {"accept", "install"} THEN reader[r].server ELSE None

Started(h) == h \in 1 .. Len(exch)

\* Nobody will make a channel of h any more.
Spent(h) == Started(h) /\ \A r \in Transports : confirm[r] # h /\ Holding(r) # h

ConfirmOwn ==
  \A r \in Transports :
    confirm[r] # None => Started(confirm[r]) /\ exch[confirm[r]].via = r

HoldOwn ==
  \A r \in Transports :
    Holding(r) # None =>
      /\ Started(Holding(r)) /\ exch[Holding(r)].via = r
      /\ confirm[r] # Holding(r)

LiveSpent == \A h \in Handshakes : live[h] => Spent(h)

FramesBelow ==
  \A i \in DOMAIN frames :
    LET f == frames[i] IN Spent(f.key) /\ (live[f.key] => f.seq < sendSeq[f.key])

KeyUse == ConfirmOwn /\ HoldOwn /\ LiveSpent /\ FramesBelow /\ NonceUnique

\* Most steps neither begin, confirm nor install an exchange, nor seal: they
\* only drop what was pending and kill channels.
Quiet ==
  /\ exch' = exch /\ frames' = frames
  /\ \A r \in Transports : confirm'[r] \in {confirm[r], None}
                           /\ Holding(r)' \in {Holding(r), None}
  /\ \A h \in Handshakes : live'[h] => live[h] /\ sendSeq'[h] = sendSeq[h]

\* The end of the process is such a step.
LEMMA EndQuiet ==
  ASSUME NEW how, ProcessEnds(how)
  PROVE  Quiet
  BY DEF ProcessEnds, Quiet, Holding, Idle

\* So is a reset of the channel by a reader that goes idle.
LEMMA ResetQuiet ==
  ASSUME Types, NEW r \in Transports, ResetSecure,
         reader' = [reader EXCEPT ![r] = Idle],
         UNCHANGED <<exch, frames, confirm>>
  PROVE  Quiet
<1>1. reader \in ReaderType
  BY DEF Types, TypeOK, ReaderType
<1>2. \A q \in Transports : Holding(q)' \in {Holding(q), None}
  BY <1>1 DEF Holding, Idle, ReaderType
<1>3. \A h \in Handshakes : live'[h] => live[h] /\ sendSeq'[h] = sendSeq[h]
  BY DEF ResetSecure
<1> QED BY <1>2, <1>3 DEF Quiet

\* And every step that leaves the channels alone and moves no reader, or one
\* to where it holds nothing new.
LEMMA MoveQuiet ==
  ASSUME Types, NEW r \in Transports,
         reader' = reader \/ reader' = [reader EXCEPT ![r] = Idle],
         UNCHANGED <<exch, frames, live, sendSeq>>,
         \A q \in Transports : confirm'[q] \in {confirm[q], None}
  PROVE  Quiet
<1>1. reader \in ReaderType
  BY DEF Types, TypeOK, ReaderType
<1>2. \A q \in Transports : Holding(q)' \in {Holding(q), None}
  BY <1>1 DEF Holding, Idle, ReaderType
<1> QED BY <1>2 DEF Quiet

\* A reader that only moves on, and confirms nothing, is quiet.
LEMMA GotoQuiet ==
  ASSUME Types, NEW r \in Transports, NEW l, Goto(r, l),
         l \notin {"accept", "install"} \/ reader[r].pc = "accept",
         UNCHANGED <<exch, frames, live, sendSeq>>,
         \A q \in Transports : confirm'[q] \in {confirm[q], None}
  PROVE  Quiet
<1>1. reader \in ReaderType /\ reader' = [reader EXCEPT ![r].pc = l]
  BY DEF Types, TypeOK, ReaderType, Goto
<1>2. \A q \in Transports : reader'[q].server = reader[q].server
                           /\ reader'[q].pc = IF q = r THEN l ELSE reader[q].pc
  BY <1>1 DEF ReaderType
<1>3. \A q \in Transports : Holding(q)' \in {Holding(q), None}
  BY <1>2 DEF Holding
<1> QED BY <1>3 DEF Quiet

\* What is not quiet: a pake_start, a sec_confirm, an installation, a sealing.
LEMMA LoudSteps ==
  ASSUME Types, [Next]_vars
  PROVE  \/ Quiet
         \/ \E r \in Transports :
              \/ HandlePakeStart(r)
              \/ \E right \in BOOLEAN : SecConfirmRead(r, right)
              \/ SecConfirmInstall(r)
         \/ \E s \in Senders : WrapSeal(s)
<1> USE DEF handshakeVars, channelVars, gateVars, appVars
<1>1. CASE \E r \in Transports : Handler(r)
  <2> SUFFICES ASSUME NEW r \in Transports, Handler(r),
                      ~HandlePakeStart(r), ~SecConfirmInstall(r),
                      ~\E right \in BOOLEAN : SecConfirmRead(r, right)
               PROVE  Quiet
    BY <1>1
  <2>1. CASE SecConfirmClear(r)
    BY <2>1, GotoQuiet DEF SecConfirmClear
  <2>2. CASE SecConfirmReject(r)
    BY <2>2, MoveQuiet DEF SecConfirmReject
  <2>3. CASE SecConfirmVerify(r)
    BY <2>3, MoveQuiet DEF SecConfirmVerify
  <2>4. CASE ChannelSelectP2P(r)
    BY <2>4, GotoQuiet DEF ChannelSelectP2P
  <2>5. CASE ChannelSelectReset(r)
    BY <2>5, ResetQuiet DEF ChannelSelectReset
  <2>6. CASE ChannelSelectTS(r)
    BY <2>6, MoveQuiet DEF ChannelSelectTS
  <2>7. CASE Kicked(r)
    <3>1. \A q \in Transports : confirm'[q] \in {confirm[q], None}
      BY <2>7 DEF Kicked, Types, TypeOK
    <3> QED BY <2>7, <3>1, MoveQuiet DEF Kicked
  <2>8. CASE DaemonReplaced(r)
    BY <2>8, EndQuiet DEF DaemonReplaced
  <2> QED
    BY <2>1, <2>2, <2>3, <2>4, <2>5, <2>6, <2>7, <2>8 DEF Handler
<1>2. CASE Signal
  <2>0. "TS" \in Transports /\ "P2P" \in Transports
    BY DEF Transports
  <2>1. ASSUME NEW t \in Transports, confirm' = [confirm EXCEPT ![t] = None]
        PROVE  \A q \in Transports : confirm'[q] \in {confirm[q], None}
    BY <2>1 DEF Types, TypeOK
  <2>2. CASE PeerOnline
    BY <2>0, <2>1, <2>2, MoveQuiet, GotoQuiet DEF PeerOnline
  <2>3. CASE PeerOnlineReset
    BY <2>0, <2>3, ResetQuiet DEF PeerOnlineReset
  <2>4. CASE PeerOffline
    BY <2>0, <2>1, <2>4, GotoQuiet DEF PeerOffline
  <2>5. CASE PeerOfflineReset
    BY <2>0, <2>5, ResetQuiet DEF PeerOfflineReset
  <2>6. CASE P2PUp
    BY <2>0, <2>1, <2>6, MoveQuiet DEF P2PUp
  <2>7. CASE P2PDown
    BY <2>0, <2>1, <2>7, MoveQuiet DEF P2PDown
  <2> QED BY <1>2, <2>2, <2>3, <2>4, <2>5, <2>6, <2>7 DEF Signal
<1>3. CASE LocalClient
  <2>0. "TS" \in Transports
    BY DEF Transports
  <2> QED BY <1>3, <2>0, MoveQuiet DEF LocalClient, SetSecCode, UnsetSecCode
<1>4. CASE \E s \in Senders : Output(s)
  <2> SUFFICES ASSUME NEW s \in Senders, Output(s), ~WrapSeal(s) PROVE Quiet
    BY <1>4
  <2>0. "TS" \in Transports
    BY DEF Transports
  <2>1. CASE SendJSON(s)
    BY <2>0, <2>1, MoveQuiet DEF SendJSON
  <2>2. CASE WrapReread(s)
    BY <2>0, <2>2, MoveQuiet DEF WrapReread
  <2>3. CASE WrapNil(s)
    BY <2>3, EndQuiet DEF WrapNil
  <2>4. CASE WrapDrop(s)
    BY <2>0, <2>4, MoveQuiet DEF WrapDrop
  <2> QED BY <2>1, <2>2, <2>3, <2>4 DEF Output
<1>5. CASE (\E h \in Handshakes : Timer(h)) \/ UNCHANGED vars
  <2>0. "TS" \in Transports
    BY DEF Transports
  <2> QED BY <1>5, <2>0, MoveQuiet DEF Timer, TimerFires, TimerCallback, vars
<1>6. CASE Exit
  BY <1>6, EndQuiet DEF Exit
<1> QED BY <1>1, <1>2, <1>3, <1>4, <1>5, <1>6 DEF Next

\* The invariant survives each of the five kinds of step.
LEMMA QuietKeepsKeyUse ==
  ASSUME Types, KeyUse, Quiet PROVE KeyUse'
<1>1. \A h : Spent(h) => Spent(h)'
  <2> SUFFICES ASSUME NEW h, Spent(h) PROVE Spent(h)'
    OBVIOUS
  <2>1. h # None
    BY DEF Spent, Started, None
  <2> QED BY <2>1 DEF Spent, Started, Quiet
<1>2. ConfirmOwn' /\ HoldOwn'
  BY DEF KeyUse, ConfirmOwn, HoldOwn, Started, Quiet
<1>3. LiveSpent'
  BY <1>1 DEF KeyUse, LiveSpent, Quiet
<1>4. FramesBelow'
  <2> SUFFICES ASSUME NEW i \in DOMAIN frames
               PROVE  Spent(frames[i].key)'
                      /\ (live'[frames[i].key] => frames[i].seq < sendSeq'[frames[i].key])
    BY DEF FramesBelow, Quiet
  <2>0. frames \in Seq([key : Handshakes, seq : Nat])
    BY DEF Types, TypeOK
  <2>1. frames[i].key \in Handshakes
    <3>1. frames[i] \in [key : Handshakes, seq : Nat]
      BY <2>0, ElementTyped
    <3> QED BY <3>1
  <2> QED BY <1>1, <2>1 DEF KeyUse, FramesBelow, Quiet
<1>5. NonceUnique'
  BY DEF KeyUse, NonceUnique, Quiet
<1> QED BY <1>2, <1>3, <1>4, <1>5 DEF KeyUse


\* A new exchange is nobody's yet.
LEMMA StartKeepsKeyUse ==
  ASSUME Types, KeyUse, NEW r \in Transports, HandlePakeStart(r)
  PROVE  KeyUse'
<1> DEFINE h == Len(exch) + 1
<1>0. /\ exch \in Seq([via : Transports, conn : Nat])
      /\ confirm \in [Transports -> Handshakes \cup {None}]
      /\ frames \in Seq([key : Handshakes, seq : Nat])
      /\ [via |-> r, conn |-> conn] \in [via : Transports, conn : Nat]
  <2>1. conn \in 0 .. MaxConns
    BY DEF Types, TypeOK
  <2>2. conn \in Nat
    BY <2>1, BoundsAssumption
  <2> QED BY <2>2 DEF Types, TypeOK
<1>1. /\ reader' = reader /\ live' = live /\ sendSeq' = sendSeq /\ frames' = frames
      /\ confirm' = [confirm EXCEPT ![r] = h] /\ reader[r].pc = "idle"
      /\ exch' = Append(exch, [via |-> r, conn |-> conn])
  BY DEF HandlePakeStart, Receives, channelVars
<1>2. /\ Len(exch') = h /\ exch'[h].via = r
      /\ \A g \in 1 .. Len(exch) : exch'[g] = exch[g] /\ g # h /\ g \in 1 .. h
      /\ h \in 1 .. h
  BY <1>0, <1>1
<1>3. /\ confirm'[r] = h
      /\ \A q \in Transports : q # r => confirm'[q] = confirm[q]
      /\ \A q \in Transports : Holding(q)' = Holding(q)
      /\ Holding(r) = None
  BY <1>0, <1>1 DEF Holding
<1>4. \A g : Started(g) => Started(g)' /\ exch'[g] = exch[g] /\ g # h
  BY <1>2 DEF Started
<1> HIDE DEF h
<1>5. \A g : Spent(g) => Spent(g)'
  BY <1>3, <1>4 DEF Spent
<1>6. ConfirmOwn'
  <2> SUFFICES ASSUME NEW q \in Transports, confirm'[q] # None
               PROVE  Started(confirm[q])' /\ exch'[confirm'[q]].via = q
    BY DEF ConfirmOwn
  <2>1. CASE q = r
    BY <1>2, <1>3, <2>1 DEF Started
  <2>2. CASE q # r
    BY <1>3, <1>4, <2>2 DEF KeyUse, ConfirmOwn
  <2> QED BY <2>1, <2>2
<1>7. HoldOwn'
  <2> SUFFICES ASSUME NEW q \in Transports, Holding(q) # None
               PROVE  /\ Started(Holding(q))' /\ exch'[Holding(q)].via = q
                      /\ confirm'[q] # Holding(q)
    BY <1>3 DEF HoldOwn
  <2> QED BY <1>3, <1>4 DEF KeyUse, HoldOwn
<1>8. LiveSpent' /\ FramesBelow' /\ NonceUnique'
  BY <1>1, <1>5 DEF KeyUse, LiveSpent, FramesBelow, NonceUnique
<1> QED BY <1>6, <1>7, <1>8 DEF KeyUse

\* sec_confirm passes the exchange from the app to the reader.
LEMMA ConfirmKeepsKeyUse ==
  ASSUME Types, KeyUse, NEW r \in Transports, NEW right \in BOOLEAN,
         SecConfirmRead(r, right)
  PROVE  KeyUse'
<1>0. reader \in ReaderType /\ confirm \in [Transports -> Handshakes \cup {None}]
  BY DEF Types, TypeOK, ReaderType
<1>1. /\ exch' = exch /\ live' = live /\ sendSeq' = sendSeq /\ frames' = frames
      /\ confirm[r] # None /\ confirm' = [confirm EXCEPT ![r] = None]
      /\ reader[r].pc = "idle"
  BY DEF SecConfirmRead, Receives, handshakeVars, channelVars
<1>2. /\ confirm'[r] = None
      /\ \A q \in Transports : q # r => confirm'[q] = confirm[q]
  BY <1>0, <1>1
<1>3. /\ Holding(r)' \in {confirm[r], None}
      /\ \A q \in Transports : q # r => Holding(q)' = Holding(q)
  BY <1>0, <1>1 DEF Holding, SecConfirmRead, ReaderType
<1>4. \A g : Spent(g) => Spent(g)'
  <2> SUFFICES ASSUME NEW g, Spent(g) PROVE Spent(g)'
    OBVIOUS
  <2>1. Started(g)' /\ g # None
    BY <1>1 DEF Spent, Started, None
  <2> QED BY <1>2, <1>3, <2>1 DEF Spent
<1>5. ConfirmOwn' /\ HoldOwn'
  BY <1>1, <1>2, <1>3 DEF KeyUse, ConfirmOwn, HoldOwn, Started
<1>6. LiveSpent' /\ FramesBelow' /\ NonceUnique'
  BY <1>1, <1>4 DEF KeyUse, LiveSpent, FramesBelow, NonceUnique
<1> QED BY <1>5, <1>6 DEF KeyUse

\* The reader makes the channel: the exchange is spent, and the channel new.
LEMMA InstallKeepsKeyUse ==
  ASSUME Types, KeyUse, NEW r \in Transports, SecConfirmInstall(r)
  PROVE  KeyUse'
<1> PICK h : h = reader[r].server
  OBVIOUS
<1>0. /\ reader \in ReaderType
      /\ live \in [Handshakes -> BOOLEAN] /\ sendSeq \in [Handshakes -> Nat]
      /\ frames \in Seq([key : Handshakes, seq : Nat])
  BY DEF Types, TypeOK, ReaderType
<1>1. /\ exch' = exch /\ confirm' = confirm /\ frames' = frames
      /\ reader[r].pc = "install" /\ reader' = [reader EXCEPT ![r].pc = "verify"]
      /\ live' = [live EXCEPT ![h] = TRUE] /\ sendSeq' = [sendSeq EXCEPT ![h] = 0]
  BY DEF SecConfirmInstall, Goto, handshakeVars, appVars
<1>2. /\ Holding(r) = h /\ Holding(r)' = None
      /\ \A q \in Transports : q # r => Holding(q)' = Holding(q)
  BY <1>0, <1>1 DEF Holding, ReaderType
<1>3. \A g \in Handshakes : g # h => live'[g] = live[g] /\ sendSeq'[g] = sendSeq[g]
  BY <1>0, <1>1
<1>4. \A g : Spent(g) => Spent(g)' /\ g # h
  <2> SUFFICES ASSUME NEW g, Spent(g) PROVE Spent(g)' /\ g # h
    OBVIOUS
  <2>1. Started(g)' /\ g # None /\ g # h
    BY <1>1, <1>2 DEF Spent, Started, None
  <2> QED BY <1>1, <1>2, <2>1 DEF Spent
<1>5. h # None => Spent(h)'
  <2> SUFFICES ASSUME h # None PROVE Spent(h)'
    OBVIOUS
  <2>1. Started(h) /\ exch[h].via = r /\ confirm[r] # h
    BY <1>2 DEF KeyUse, HoldOwn
  <2>2. \A q \in Transports : q # r => confirm[q] # h /\ Holding(q) # h
    BY <2>1 DEF KeyUse, ConfirmOwn, HoldOwn
  <2>3. \A q \in Transports : confirm'[q] # h /\ Holding(q)' # h
    BY <1>1, <1>2, <2>1, <2>2
  <2> QED BY <1>1, <2>1, <2>3 DEF Spent, Started
<1>6. ConfirmOwn' /\ HoldOwn'
  BY <1>1, <1>2 DEF KeyUse, ConfirmOwn, HoldOwn, Started
<1>7. LiveSpent'
  <2> SUFFICES ASSUME NEW g \in Handshakes, live'[g] PROVE Spent(g)'
    BY DEF LiveSpent
  <2>1. g # None
    BY DEF Handshakes, None
  <2> QED BY <1>3, <1>4, <1>5, <2>1 DEF KeyUse, LiveSpent
<1>8. FramesBelow'
  <2> SUFFICES ASSUME NEW i \in DOMAIN frames
               PROVE  Spent(frames[i].key)'
                      /\ (live'[frames[i].key] => frames[i].seq < sendSeq'[frames[i].key])
    BY <1>1 DEF FramesBelow
  <2>1. frames[i].key \in Handshakes
    <3>1. frames[i] \in [key : Handshakes, seq : Nat]
      BY <1>0, ElementTyped
    <3> QED BY <3>1
  <2>2. Spent(frames[i].key)
    BY DEF KeyUse, FramesBelow
  <2> QED BY <1>1, <1>3, <1>4, <2>1, <2>2 DEF KeyUse, FramesBelow
<1>9. NonceUnique'
  BY <1>1 DEF KeyUse, NonceUnique
<1> QED BY <1>6, <1>7, <1>8, <1>9 DEF KeyUse

\* A sealing takes the next number of a live channel.
LEMMA SealKeepsKeyUse ==
  ASSUME Types, KeyUse, NEW s \in Senders, WrapSeal(s)
  PROVE  KeyUse'
<1> DEFINE c == sender[s].sc
           f == [key |-> c, seq |-> sendSeq[c]]
<1>0. /\ sendSeq \in [Handshakes -> Nat]
      /\ frames \in Seq([key : Handshakes, seq : Nat])
      /\ c \in Handshakes
  BY DEF WrapSeal, Types, TypeOK, HoldsChannel
<1>1. /\ exch' = exch /\ confirm' = confirm /\ reader' = reader /\ live' = live
      /\ live[c] /\ frames' = Append(frames, f)
      /\ sendSeq' = [sendSeq EXCEPT ![c] = @ + 1]
  BY DEF WrapSeal, handshakeVars, appVars
<1>2. /\ sendSeq[c] \in Nat /\ sendSeq'[c] = sendSeq[c] + 1
      /\ \A g \in Handshakes : g # c => sendSeq'[g] = sendSeq[g]
  BY <1>0, <1>1
<1>3. f \in [key : Handshakes, seq : Nat]
  BY <1>0, <1>2
<1>4. /\ DOMAIN frames' = DOMAIN frames \cup {Len(frames) + 1}
      /\ frames'[Len(frames) + 1] = f
      /\ \A i \in DOMAIN frames :
           frames'[i] = frames[i] /\ frames[i] \in [key : Handshakes, seq : Nat]
  <2>1. DOMAIN frames = 1 .. Len(frames) /\ Len(frames) \in Nat
    BY <1>0
  <2> HIDE DEF f
  <2>2. /\ DOMAIN frames' = 1 .. Len(frames) + 1
        /\ frames'[Len(frames) + 1] = f
        /\ \A i \in 1 .. Len(frames) : frames'[i] = frames[i]
    BY <1>0, <1>1, <1>3
  <2>3. 1 .. Len(frames) + 1 = 1 .. Len(frames) \cup {Len(frames) + 1}
    BY <2>1
  <2> QED BY <1>0, <2>1, <2>2, <2>3, ElementTyped
<1>5. \A g : Spent(g)' <=> Spent(g)
  BY <1>1 DEF Spent, Started, Holding
<1>6. Spent(c)
  BY <1>0, <1>1 DEF KeyUse, LiveSpent
<1>7. \A i \in DOMAIN frames :
        Spent(frames[i].key) /\ (live[frames[i].key] => frames[i].seq < sendSeq[frames[i].key])
  BY DEF KeyUse, FramesBelow
<1>8. \A i \in DOMAIN frames : frames[i] # f
  BY <1>0, <1>1, <1>2, <1>4, <1>7
<1>9. FramesBelow'
  <2> SUFFICES ASSUME NEW i \in DOMAIN frames'
               PROVE  Spent(frames'[i].key)
                      /\ (live[frames'[i].key] => frames'[i].seq < sendSeq'[frames'[i].key])
    BY <1>1, <1>5 DEF FramesBelow
  <2>1. CASE i = Len(frames) + 1
    BY <1>2, <1>4, <1>6, <2>1
  <2>2. CASE i \in DOMAIN frames
    <3> DEFINE e == frames[i]
    <3>1. frames'[i] = e /\ e.key \in Handshakes /\ e.seq \in Nat
      BY <1>4, <2>2
    <3>2. Spent(e.key) /\ (live[e.key] => e.seq < sendSeq[e.key])
      BY <1>7, <2>2
    <3>3. sendSeq'[e.key] = sendSeq[e.key] \/ sendSeq'[e.key] = sendSeq[e.key] + 1
      BY <1>2, <3>1
    <3>4. sendSeq[e.key] \in Nat
      BY <1>0, <3>1
    <3> HIDE DEF e
    <3> QED BY <3>1, <3>2, <3>3, <3>4
  <2> QED BY <1>4, <2>1, <2>2
<1>10. NonceUnique'
  <2> HIDE DEF f
  <2> QED BY <1>4, <1>8 DEF KeyUse, NonceUnique
<1>11. ConfirmOwn' /\ HoldOwn' /\ LiveSpent'
  BY <1>1, <1>5 DEF KeyUse, ConfirmOwn, HoldOwn, LiveSpent, Started, Holding
<1> QED BY <1>9, <1>10, <1>11 DEF KeyUse

\* No key was used at the start;
LEMMA InitKeyUse == Init => KeyUse
<1> SUFFICES ASSUME Init PROVE KeyUse
  OBVIOUS
<1>1. frames = <<>>
  BY DEF Init
<1>2. DOMAIN frames = {}
  BY <1>1
<1>3. FramesBelow /\ NonceUnique
  BY <1>2 DEF FramesBelow, NonceUnique
<1>4. ConfirmOwn /\ HoldOwn /\ LiveSpent
  BY DEF Init, ConfirmOwn, HoldOwn, LiveSpent, Holding, Idle
<1> QED BY <1>3, <1>4 DEF KeyUse

\* and every step keeps the use of the keys in order.
LEMMA NextKeyUse == Types /\ KeyUse /\ [Next]_vars => KeyUse'
  BY LoudSteps, QuietKeepsKeyUse, StartKeepsKeyUse, ConfirmKeepsKeyUse,
     InstallKeepsKeyUse, SealKeepsKeyUse

\* Whatever resets, handshakes and senders interleave, no key seals two frames
\* with the same number (WrapJSON, Reset, handleSecConfirm).
THEOREM NoncesUnique == Spec => []NonceUnique
<1>1. Types /\ KeyUse => NonceUnique
  BY DEF KeyUse
<1> QED BY <1>1, InitTypes, InitKeyUse, NextTypes, NextKeyUse, PTL DEF Spec

-----------------------------------------------------------------------------
(***************************************************************************)
(* Whose handshake it is: which app connection the keys and the            *)
(* verification belong to, and who pays for a tag that does not verify.    *)
(***************************************************************************)

\* Where a reader holds an exchange.
Held == {"accept", "install", "verify"}   \* a reader has a handshake that verifies
Lost == {"refuse", "reject"}              \* or one that does not

\* Whatever is referred to was started, and what a reader has verified came by it.
Known ==
  /\ pake # None => Started(pake)
  /\ chan # None => Started(chan)
  /\ verified # None => Started(verified)
  /\ \A r \in Transports : reader[r].pc \in Held \cup Lost => Started(reader[r].server)
  /\ \A r \in Transports : reader[r].pc \in Held => exch[reader[r].server].via = r

\* If the slot holds an exchange of the transport by which a confirmation is still
\* to come, it is the one that will be confirmed.
SlotOwn ==
  pake # None =>
    \A r \in Transports : confirm[r] # None /\ exch[pake].via = r => confirm[r] = pake

\* What waits to be confirmed, verified or installed by the relay's reader is of the
\* connection of now; so are the flag and, but for the reset that is under way, the channel.
OfNow ==
  ~forceTS =>
    /\ confirm["TS"] # None => exch[confirm["TS"]].conn = conn
    /\ reader["TS"].pc \in Held => exch[reader["TS"].server].conn = conn
    /\ verified # None /\ exch[verified].via = "TS" => exch[verified].conn = conn
    /\ chan # None /\ exch[chan].via = "TS" /\ reader["TS"].pc # "onlineReset" => exch[chan].conn = conn

Origins == ConfirmOwn /\ Known /\ SlotOwn /\ RejectOnlyByOverwrite /\ OfNow

\* Most steps drop what they refer to or leave it, and move no reader to where it
\* has a handshake it had not before.
Still ==
  /\ UNCHANGED <<forceTS, exch, conn>>
  /\ pake' \in {pake, None} /\ chan' \in {chan, None} /\ verified' \in {verified, None}
  /\ \A q \in Transports :
       /\ confirm'[q] \in {confirm[q], None}
       /\ reader'[q].pc \in Held => reader[q].pc \in Held /\ reader'[q].server = reader[q].server
       /\ reader'[q].pc \in Lost => /\ reader[q].pc \in Lost /\ reader'[q].server = reader[q].server
                                    /\ reader'[q].good = reader[q].good
  /\ reader["TS"].pc = "onlineReset" /\ reader'["TS"].pc # "onlineReset" => chan' = None

\* What a step that moves no reader, or sends one back to its next message, has to show.
LEMMA RestStill ==
  ASSUME Types, NEW r \in Transports, reader' = reader \/ reader' = [reader EXCEPT ![r] = Idle],
         reader[r].pc # "onlineReset" \/ reader' = reader \/ chan' = None,
         UNCHANGED <<forceTS, exch, conn>>,
         pake' \in {pake, None}, chan' \in {chan, None}, verified' \in {verified, None},
         \A q \in Transports : confirm'[q] \in {confirm[q], None}
  PROVE  Still
<1>1. reader \in ReaderType
  BY DEF Types, TypeOK, ReaderType
<1>2. \A q \in Transports : reader'[q] = reader[q] \/ (q = r /\ reader'[q] = Idle)
  BY <1>1 DEF ReaderType
<1> QED BY <1>2 DEF Still, Idle, Held, Lost, Transports

\* And one that moves a reader on in its handler.
LEMMA MoveStill ==
  ASSUME Types, NEW r \in Transports, NEW l, Goto(r, l), reader[r].pc # "onlineReset",
         \/ l \notin Held \cup Lost
         \/ reader[r].pc = "accept" /\ l = "install"
         \/ reader[r].pc = "refuse" /\ l = "reject",
         UNCHANGED <<forceTS, exch, conn>>,
         pake' \in {pake, None}, chan' \in {chan, None}, verified' \in {verified, None},
         \A q \in Transports : confirm'[q] \in {confirm[q], None}
  PROVE  Still
<1>1. reader \in ReaderType /\ reader' = [reader EXCEPT ![r].pc = l]
  BY DEF Types, TypeOK, ReaderType, Goto
<1>2. \A q \in Transports : /\ reader'[q].server = reader[q].server /\ reader'[q].good = reader[q].good
                            /\ reader'[q].pc = IF q = r THEN l ELSE reader[q].pc
  BY <1>1 DEF ReaderType
<1> QED BY <1>2 DEF Still, Held, Lost, Transports

\* The end of the process leaves nothing.
LEMMA EndStill == ASSUME Types, NEW how, ProcessEnds(how) PROVE Still
BY DEF ProcessEnds, Still, Idle, Held, Lost, Transports

\* Such steps keep everything.
LEMMA StillKeeps == ASSUME Types, Origins, Still PROVE Origins'
<1>1. ConfirmOwn'
  BY DEF Origins, ConfirmOwn, Started, Still
<1>2. Known'
  BY DEF Origins, Known, Started, Still
<1>3. SlotOwn'
  BY DEF Origins, SlotOwn, Still
<1>4. RejectOnlyByOverwrite'
  BY DEF Origins, RejectOnlyByOverwrite, Still, Lost
<1>5. OfNow'
  BY DEF Origins, OfNow, Still, Transports
<1> QED BY <1>1, <1>2, <1>3, <1>4, <1>5 DEF Origins

\* Which steps are of another kind.
LEMMA OtherSteps ==
  ASSUME Types, [Next]_vars
  PROVE  \/ Still
         \/ \E r \in Transports :
              \/ HandlePakeStart(r)
              \/ \E right \in BOOLEAN : SecConfirmRead(r, right)
              \/ SecConfirmInstall(r) \/ SecConfirmVerify(r)
         \/ PeerOnline
<1> USE DEF handshakeVars, channelVars, gateVars, appVars
<1>0. "TS" \in Transports /\ "P2P" \in Transports
  BY DEF Transports
<1>1. ASSUME NEW t \in Transports, confirm' = [confirm EXCEPT ![t] = None]
      PROVE  \A q \in Transports : confirm'[q] \in {confirm[q], None}
  BY <1>1 DEF Types, TypeOK
<1>2. CASE \E r \in Transports : Handler(r)
  <2> SUFFICES ASSUME NEW r \in Transports, Handler(r),
                      ~HandlePakeStart(r), ~SecConfirmInstall(r), ~SecConfirmVerify(r),
                      ~\E right \in BOOLEAN : SecConfirmRead(r, right)
               PROVE  Still
    BY <1>2
  <2>1. CASE SecConfirmClear(r)
    BY <2>1, MoveStill DEF SecConfirmClear
  <2>2. CASE SecConfirmReject(r)
    BY <2>2, RestStill DEF SecConfirmReject
  <2>3. CASE ChannelSelectP2P(r)
    BY <2>3, MoveStill DEF ChannelSelectP2P, Receives, Held, Lost
  <2>4. CASE ChannelSelectReset(r)
    BY <2>4, RestStill DEF ChannelSelectReset, ResetSecure
  <2>5. CASE ChannelSelectTS(r)
    BY <2>5, RestStill DEF ChannelSelectTS
  <2>6. CASE Kicked(r)
    BY <1>0, <1>1, <2>6, RestStill DEF Kicked
  <2>7. CASE DaemonReplaced(r)
    BY <2>7, EndStill DEF DaemonReplaced
  <2> QED BY <2>1, <2>2, <2>3, <2>4, <2>5, <2>6, <2>7 DEF Handler
<1>3. CASE Signal
  <2>1. CASE PeerOnlineReset
    BY <1>0, <2>1, RestStill DEF PeerOnlineReset, ResetSecure
  <2>2. CASE PeerOffline
    BY <1>0, <1>1, <2>2, MoveStill DEF PeerOffline, Held, Lost
  <2>3. CASE PeerOfflineReset
    BY <1>0, <2>3, RestStill DEF PeerOfflineReset, ResetSecure
  <2>4. CASE P2PUp
    BY <1>0, <1>1, <2>4, RestStill DEF P2PUp
  <2>5. CASE P2PDown
    BY <1>0, <1>1, <2>5, RestStill DEF P2PDown
  <2> QED BY <1>3, <2>1, <2>2, <2>3, <2>4, <2>5 DEF Signal
<1>4. CASE LocalClient
  BY <1>0, <1>4, RestStill DEF LocalClient, SetSecCode, UnsetSecCode
<1>5. CASE \E s \in Senders : Output(s)
  <2> SUFFICES ASSUME NEW s \in Senders, Output(s) PROVE Still
    BY <1>5
  <2>1. CASE WrapNil(s)
    BY <2>1, EndStill DEF WrapNil
  <2>2. CASE SendJSON(s) \/ WrapReread(s) \/ WrapSeal(s) \/ WrapDrop(s)
    BY <1>0, <2>2, RestStill DEF SendJSON, WrapReread, WrapSeal, WrapDrop
  <2> QED BY <2>1, <2>2 DEF Output
<1>6. CASE (\E h \in Handshakes : Timer(h)) \/ UNCHANGED vars
  BY <1>0, <1>6, RestStill DEF Timer, TimerFires, TimerCallback, vars
<1>7. CASE Exit
  BY <1>7, EndStill DEF Exit
<1> QED BY <1>2, <1>3, <1>4, <1>5, <1>6, <1>7 DEF Next

\* A handshake that starts now is of its transport and of the connection of now, and
\* nothing that started before changes.
LEMMA StartAppends ==
  ASSUME Types, NEW r \in Transports, HandlePakeStart(r), NEW h, h = Len(exch) + 1
  PROVE  /\ h # None /\ Started(h)' /\ exch'[h].via = r /\ exch'[h].conn = conn
         /\ \A g : Started(g) => Started(g)' /\ exch'[g] = exch[g]
<1>1. /\ exch \in Seq([via : Transports, conn : Nat])
      /\ [via |-> r, conn |-> conn] \in [via : Transports, conn : Nat]
      /\ exch' = Append(exch, [via |-> r, conn |-> conn])
  <2>1. conn \in 0 .. MaxConns
    BY DEF Types, TypeOK
  <2>2. conn \in Nat
    BY <2>1, BoundsAssumption
  <2> QED BY <2>2 DEF HandlePakeStart, Types, TypeOK
<1>2. /\ h \in Nat /\ h # 0 /\ Len(exch') = h /\ exch'[h] = [via |-> r, conn |-> conn]
      /\ \A g \in 1 .. Len(exch) : exch'[g] = exch[g] /\ g \in 1 .. h
      /\ h \in 1 .. h
  BY <1>1
<1> QED BY <1>2 DEF Started, None

\* pake_start fills the slot.
LEMMA StartKeeps ==
  ASSUME Types, Origins, NEW r \in Transports, HandlePakeStart(r)
  PROVE  Origins'
<1> PICK h : h = Len(exch) + 1
  OBVIOUS
<1>1. /\ h # None /\ Started(h)' /\ exch'[h].via = r /\ exch'[h].conn = conn
      /\ \A g : Started(g) => Started(g)' /\ exch'[g] = exch[g]
  BY StartAppends
<1>2. /\ UNCHANGED <<forceTS, conn, chan, verified, reader>>
      /\ pake' = h /\ confirm' = [confirm EXCEPT ![r] = h]
  BY DEF HandlePakeStart, channelVars, gateVars
<1>3. \A q \in Transports : confirm'[q] = IF q = r THEN h ELSE confirm[q]
  BY <1>2 DEF Types, TypeOK
<1>4. ConfirmOwn'
  BY <1>1, <1>3 DEF Origins, ConfirmOwn
<1>5. Known'
  BY <1>1, <1>2 DEF Origins, Known
<1>6. SlotOwn'
  BY <1>1, <1>2, <1>3 DEF SlotOwn
<1>7. RejectOnlyByOverwrite'
  BY <1>1, <1>2 DEF Origins, Known, RejectOnlyByOverwrite, Lost
<1>8. OfNow'
  BY <1>1, <1>2, <1>3 DEF Origins, OfNow, Known, ConfirmOwn, Transports
<1> QED BY <1>4, <1>5, <1>6, <1>7, <1>8 DEF Origins

\* sec_confirm: a reader takes the handshake out of the slot.
LEMMA ConfirmKeeps ==
  ASSUME Types, Origins, NEW r \in Transports, NEW right \in BOOLEAN, SecConfirmRead(r, right)
  PROVE  Origins'
<1>1. /\ UNCHANGED <<forceTS, conn, exch, chan, verified, pake>>
      /\ confirm[r] # None /\ confirm' = [confirm EXCEPT ![r] = None] /\ reader[r].pc = "idle"
  BY DEF SecConfirmRead, Receives, handshakeVars, channelVars, gateVars
<1>2. \A q \in Transports : confirm'[q] = IF q = r THEN None ELSE confirm[q]
  BY <1>1 DEF Types, TypeOK
<1> DEFINE e == [pc |-> IF right /\ confirm[r] = pake THEN "accept" ELSE "refuse",
                 server |-> pake, good |-> right]
<1>3. /\ e.server = pake /\ e.good = right
      /\ e.pc = IF right /\ confirm[r] = pake THEN "accept" ELSE "refuse"
      /\ reader' = IF pake = None THEN reader ELSE [reader EXCEPT ![r] = e]
  BY DEF SecConfirmRead
<1> HIDE DEF e
<1>4. \A q \in Transports : reader'[q] = IF pake # None /\ q = r THEN e ELSE reader[q]
  BY <1>3 DEF Types, TypeOK
<1>5. ConfirmOwn' /\ SlotOwn'
  BY <1>1, <1>2 DEF Origins, ConfirmOwn, SlotOwn, Started
<1>6. Known'
  BY <1>1, <1>3, <1>4 DEF Origins, Known, ConfirmOwn, Started, Held, Lost
<1>7. RejectOnlyByOverwrite'
  BY <1>1, <1>3, <1>4 DEF Origins, SlotOwn, RejectOnlyByOverwrite
<1>8. OfNow'
  BY <1>1, <1>2, <1>3, <1>4 DEF Origins, OfNow, Held, Transports
<1> QED BY <1>5, <1>6, <1>7, <1>8 DEF Origins

\* A handshake that verified becomes the channel.
LEMMA InstallKeeps ==
  ASSUME Types, Origins, NEW r \in Transports, SecConfirmInstall(r)
  PROVE  Origins'
<1>1. /\ UNCHANGED <<forceTS, conn, exch, verified, pake, confirm>>
      /\ chan' = reader[r].server /\ reader[r].pc = "install"
      /\ reader' = [reader EXCEPT ![r].pc = "verify"]
  BY DEF SecConfirmInstall, handshakeVars, gateVars, appVars, Goto
<1>2. \A q \in Transports : /\ reader'[q].server = reader[q].server /\ reader'[q].good = reader[q].good
                            /\ reader'[q].pc = IF q = r THEN "verify" ELSE reader[q].pc
  BY <1>1 DEF Types, TypeOK
<1>3. ConfirmOwn' /\ SlotOwn' /\ RejectOnlyByOverwrite'
  BY <1>1, <1>2 DEF Origins, ConfirmOwn, SlotOwn, RejectOnlyByOverwrite, Started
<1>4. Known'
  BY <1>1, <1>2 DEF Origins, Known, Started, Held, Lost
<1>5. OfNow'
  BY <1>1, <1>2 DEF Origins, OfNow, Known, Held, Transports
<1> QED BY <1>3, <1>4, <1>5 DEF Origins

\* And opens the gate.
LEMMA VerifyKeeps ==
  ASSUME Types, Origins, NEW r \in Transports, SecConfirmVerify(r)
  PROVE  Origins'
<1>1. /\ UNCHANGED <<forceTS, conn, exch, chan, pake, confirm>>
      /\ verified' = reader[r].server /\ reader[r].pc = "verify"
      /\ reader' = [reader EXCEPT ![r] = Idle]
  BY DEF SecConfirmVerify, handshakeVars, channelVars, appVars
<1>2. \A q \in Transports : reader'[q] = IF q = r THEN Idle ELSE reader[q]
  BY <1>1 DEF Types, TypeOK
<1>3. Idle.pc = "idle"
  BY DEF Idle
<1>4. ConfirmOwn' /\ SlotOwn' /\ RejectOnlyByOverwrite'
  BY <1>1, <1>2, <1>3 DEF Origins, ConfirmOwn, SlotOwn, RejectOnlyByOverwrite, Started
<1>5. Known'
  BY <1>1, <1>2, <1>3 DEF Origins, Known, Started, Held, Lost
<1>6. OfNow'
  BY <1>1, <1>2, <1>3 DEF Origins, OfNow, Known, Held, Transports
<1> QED BY <1>4, <1>5, <1>6 DEF Origins

\* A new connection: nothing of the one before is left but what its reset will take.
LEMMA PeerOnlineKeeps == ASSUME Types, Origins, PeerOnline PROVE Origins'
<1>1. /\ UNCHANGED <<forceTS, exch, chan, pake>>
      /\ confirm' = [confirm EXCEPT !["TS"] = None] /\ reader["TS"].pc = "idle"
      /\ IF forceTS THEN UNCHANGED <<verified, reader>>
         ELSE verified' = None /\ reader' = [reader EXCEPT !["TS"].pc = "onlineReset"]
  BY DEF PeerOnline, handshakeVars, channelVars, Goto
<1>2. \A q \in Transports : confirm'[q] = IF q = "TS" THEN None ELSE confirm[q]
  BY <1>1 DEF Types, TypeOK, Transports
<1>3. \A q \in Transports :
        /\ reader'[q].server = reader[q].server /\ reader'[q].good = reader[q].good
        /\ reader'[q].pc = IF q = "TS" /\ ~forceTS THEN "onlineReset" ELSE reader[q].pc
  <2>1. reader \in ReaderType
    BY DEF Types, TypeOK, ReaderType
  <2>2. CASE forceTS
    BY <1>1, <2>2
  <2>3. CASE ~forceTS
    BY <1>1, <2>1, <2>3 DEF ReaderType, Transports
  <2> QED BY <2>2, <2>3
<1>4. ConfirmOwn' /\ SlotOwn' /\ RejectOnlyByOverwrite'
  BY <1>1, <1>2, <1>3 DEF Origins, ConfirmOwn, SlotOwn, RejectOnlyByOverwrite, Started
<1>5. Known'
  BY <1>1, <1>3 DEF Origins, Known, Started, Held, Lost
<1>6. OfNow'
  BY <1>1, <1>2, <1>3 DEF OfNow, Held, Transports
<1> QED BY <1>4, <1>5, <1>6 DEF Origins

\* At first there is nothing to belong to anybody.
LEMMA InitOrigins == Init => Origins
<1> SUFFICES ASSUME Init PROVE Origins
  OBVIOUS
<1>1. /\ pake = None /\ chan = None /\ verified = None
      /\ \A r \in Transports : confirm[r] = None /\ reader[r].pc = "idle"
  BY DEF Init, Idle
<1> QED BY <1>1 DEF Origins, ConfirmOwn, Known, SlotOwn, RejectOnlyByOverwrite, OfNow, Held, Lost, Transports

\* Every step keeps the origins.
LEMMA NextOrigins == Types /\ Origins /\ [Next]_vars => Origins'
BY OtherSteps, StillKeeps, StartKeeps, ConfirmKeeps, InstallKeeps, VerifyKeeps, PeerOnlineKeeps

\* An app that knows the code pays only for a handshake that came by the other
\* transport (handleSecConfirm).
THEOREM AttemptsAreFair == Spec => []RejectOnlyByOverwrite
<1>1. Origins => RejectOnlyByOverwrite
  BY DEF Origins
<1> QED BY <1>1, InitTypes, InitOrigins, NextTypes, NextOrigins, PTL DEF Spec

\* No key and no verification outlives the app connection that earned it, once the
\* reset of peer_online is through.
THEOREM SecretsBelong == Spec => []SecretsOfCurrentPeer
<1>1. Origins => SecretsOfCurrentPeer
  BY DEF Origins, OfNow, SecretsOfCurrentPeer, FromRelay
<1> QED BY <1>1, InitTypes, InitOrigins, NextTypes, NextOrigins, PTL DEF Spec
=============================================================================
