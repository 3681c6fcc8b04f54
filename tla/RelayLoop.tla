----------------------------- MODULE RelayLoop -----------------------------
(***************************************************************************)
(* The life of the TurnServer connection: startTSRelay replaces the loop   *)
(* that keeps the connection up, tsRelayLoop selects a server, connects,   *)
(* waits, cleans up and retries, and Stop ends it all.                     *)
(*                                                                         *)
(* A loop has at most one relay object at a time, named after the loop.    *)
(* What the clean-up does to transfers, tunnels and subscriptions is not   *)
(* state of this module.                                                   *)
(***************************************************************************)
EXTENDS Naturals, FiniteSets

CONSTANTS
  Callers,    \* goroutines that set an access key: local clients
  Keys,       \* access keys
  MaxLoops    \* bound: loops ever started

ASSUME MaxLoopsAssumption == MaxLoops \in Nat
ASSUME KeysAssumption == Keys # {}

Loops == 1 .. MaxLoops
None == 0

VARIABLES
  accessKey,   \* Daemon.accessKey
  caller,      \* program counter of each caller
  joining,     \* the loop each caller waits for (oldDone)
  started,     \* number of loops started
  tsLoop,      \* Daemon.tsLoopCancel / tsLoopDone: the loop they belong to
  cancelled,   \* loops whose context is cancelled
  loop,        \* program counter of each loop; "done" closes its done channel
  relay,       \* the relay object of each loop: none, open or closed
  relayKey,    \* the access key it logged in with
  wsRelay,     \* Daemon.wsRelay: the loop its relay belongs to
  stopCh,      \* Daemon.stopCh is closed
  stopper,     \* program counter of Stop
  connState    \* Daemon.connState

callVars == <<accessKey, caller, joining>>
vars == <<callVars, started, tsLoop, cancelled, loop, relay, relayKey, wsRelay,
          stopCh, stopper, connState>>

Init ==
  /\ accessKey \in Keys
  /\ caller = [c \in Callers |-> "idle"]
  /\ joining = [c \in Callers |-> None]
  /\ started = 0 /\ tsLoop = None /\ cancelled = {}
  /\ loop = [l \in Loops |-> "none"]
  /\ relay = [l \in Loops |-> "none"]
  /\ relayKey = [l \in Loops |-> accessKey]
  /\ wsRelay = None
  /\ stopCh = FALSE /\ stopper = "idle"
  /\ connState = ""

----------------------------------------------------------------------------
(* SetAccessKeyAndConnect, StartRemote and startTSRelay.                   *)

SetAccessKey(c, k) ==
  /\ caller[c] = "idle"
  /\ accessKey' = k
  /\ caller' = [caller EXCEPT ![c] = "start"]
  /\ UNCHANGED <<joining, started, tsLoop, cancelled, loop, relay, relayKey,
                 wsRelay, stopCh, stopper, connState>>

\* Under tsMu: the new loop is the one later calls and Stop will cancel.
Launch(c) ==
  /\ started < MaxLoops
  /\ started' = started + 1
  /\ tsLoop' = started'
  /\ loop' = [loop EXCEPT ![started'] = "check"]
  /\ caller' = [caller EXCEPT ![c] = "idle"]
  /\ joining' = [joining EXCEPT ![c] = None]
  /\ UNCHANGED <<accessKey, cancelled, relay, relayKey, wsRelay, stopCh,
                 stopper, connState>>

StartFirst(c) == caller[c] = "start" /\ tsLoop = None /\ Launch(c)

\* The old loop is read under tsMu, and cancelled after it was unlocked.
CancelOld(c) ==
  /\ caller[c] = "start" /\ tsLoop # None
  /\ cancelled' = cancelled \cup {tsLoop}
  /\ joining' = [joining EXCEPT ![c] = tsLoop]
  /\ caller' = [caller EXCEPT ![c] = "join"]
  /\ UNCHANGED <<accessKey, started, tsLoop, loop, relay, relayKey, wsRelay,
                 stopCh, stopper, connState>>

\* Mutant: the old loop is cancelled but not waited for.
JoinNot(c) ==
  /\ caller[c] = "join"
  /\ caller' = [caller EXCEPT ![c] = "relaunch"]
  /\ UNCHANGED <<accessKey, joining, started, tsLoop, cancelled, loop, relay,
                 relayKey, wsRelay, stopCh, stopper, connState>>

\* <-oldDone
Join(c) ==
  /\ caller[c] = "join" /\ loop[joining[c]] = "done"
  /\ caller' = [caller EXCEPT ![c] = "relaunch"]
  /\ UNCHANGED <<accessKey, joining, started, tsLoop, cancelled, loop, relay,
                 relayKey, wsRelay, stopCh, stopper, connState>>

\* tsMu again; what happened since it was unlocked is not looked at.
Relaunch(c) == caller[c] = "relaunch" /\ Launch(c)

----------------------------------------------------------------------------
(* tsRelayLoop.                                                            *)

LoopTo(l, pc) == loop' = [loop EXCEPT ![l] = pc]

\* A select with stopCh and ctx.Done(): either arm when both are ready, and
\* only the first tells the user.
Stopped(l)  == stopCh /\ LoopTo(l, "done") /\ connState' = "stopped"
Canceled(l) == l \in cancelled /\ LoopTo(l, "done") /\ UNCHANGED connState

Check(l) ==
  /\ loop[l] = "check"
  /\ \/ Stopped(l)
     \/ Canceled(l)
     \/ /\ ~stopCh /\ l \notin cancelled
        /\ LoopTo(l, "select") /\ connState' = "connecting"
  /\ UNCHANGED <<callVars, started, tsLoop, cancelled, relay, relayKey,
                 wsRelay, stopCh, stopper>>

\* SelectBestTurnServer: none answers, or the relay object is made.
SelectServer(l) ==
  /\ loop[l] = "select"
  /\ \/ LoopTo(l, "sleep") /\ UNCHANGED relayKey
     \/ LoopTo(l, "connect") /\ relayKey' = [relayKey EXCEPT ![l] = accessKey]
  /\ UNCHANGED <<callVars, started, tsLoop, cancelled, relay, wsRelay, stopCh,
                 stopper, connState>>

\* Connect blocks until login_ok, a login error or its timeout.
Connect(l) ==
  /\ loop[l] = "connect"
  /\ \/ /\ LoopTo(l, "install")
        /\ relay' = [relay EXCEPT ![l] = "open"] /\ UNCHANGED connState
     \/ /\ LoopTo(l, "done") /\ connState' = "stopped"   \* fatal LoginError
        /\ UNCHANGED relay
     \/ /\ LoopTo(l, "sleep")             \* IP blocked, or any other error
        /\ UNCHANGED <<relay, connState>>
  /\ UNCHANGED <<callVars, started, tsLoop, cancelled, relayKey, wsRelay,
                 stopCh, stopper>>

\* The relay becomes the daemon's, and the one before is closed.
Install(l) ==
  /\ loop[l] = "install"
  /\ relay' = [k \in Loops |->
                 IF k = wsRelay /\ k # l THEN "closed" ELSE relay[k]]
  /\ wsRelay' = l
  /\ LoopTo(l, "wait") /\ connState' = "connected"
  /\ UNCHANGED <<callVars, started, tsLoop, cancelled, relayKey, stopCh,
                 stopper>>

\* Mutant: the wait knows stopCh and the relay, but not the context.
WaitNoContext(l) ==
  /\ loop[l] = "wait"
  /\ \/ Stopped(l) /\ relay' = [relay EXCEPT ![l] = "closed"]
     \/ /\ relay[l] = "closed" /\ LoopTo(l, "cleanup")
        /\ UNCHANGED <<relay, connState>>
  /\ UNCHANGED <<callVars, started, tsLoop, cancelled, relayKey, wsRelay,
                 stopCh, stopper>>

\* Mutant: on stop the loop returns without closing its relay.
WaitLeavesOpen(l) ==
  /\ loop[l] = "wait"
  /\ \/ Stopped(l) /\ UNCHANGED relay
     \/ Canceled(l) /\ relay' = [relay EXCEPT ![l] = "closed"]
     \/ /\ relay[l] = "closed" /\ LoopTo(l, "cleanup")
        /\ UNCHANGED <<relay, connState>>
  /\ UNCHANGED <<callVars, started, tsLoop, cancelled, relayKey, wsRelay,
                 stopCh, stopper>>

Wait(l) ==
  /\ loop[l] = "wait"
  /\ \/ (Stopped(l) \/ Canceled(l)) /\ relay' = [relay EXCEPT ![l] = "closed"]
     \/ /\ relay[l] = "closed" /\ LoopTo(l, "cleanup")
        /\ UNCHANGED <<relay, connState>>
  /\ UNCHANGED <<callVars, started, tsLoop, cancelled, relayKey, wsRelay,
                 stopCh, stopper>>

Cleanup(l) ==
  /\ loop[l] = "cleanup"
  /\ wsRelay' = IF wsRelay = l THEN None ELSE wsRelay
  /\ relay' = [relay EXCEPT ![l] = "none"]
  /\ LoopTo(l, "sleep")
  /\ UNCHANGED <<callVars, started, tsLoop, cancelled, relayKey, stopCh,
                 stopper, connState>>

\* sleepOrStopCtx
Sleep(l) ==
  /\ loop[l] = "sleep"
  /\ \/ Stopped(l)
     \/ Canceled(l)
     \/ LoopTo(l, "check") /\ UNCHANGED connState
  /\ UNCHANGED <<callVars, started, tsLoop, cancelled, relay, relayKey,
                 wsRelay, stopCh, stopper>>

\* The link is lost, or the server closes it: the relay closes itself.
LinkLost(l) ==
  /\ relay[l] = "open"
  /\ relay' = [relay EXCEPT ![l] = "closed"]
  /\ UNCHANGED <<callVars, started, tsLoop, cancelled, loop, relayKey, wsRelay,
                 stopCh, stopper, connState>>

----------------------------------------------------------------------------
(* Stop.                                                                   *)

StopSignal ==
  /\ stopper = "idle"
  /\ stopCh' = TRUE /\ stopper' = "cancel"
  /\ UNCHANGED <<callVars, started, tsLoop, cancelled, loop, relay, relayKey,
                 wsRelay, connState>>

StopCancel ==
  /\ stopper = "cancel"
  /\ cancelled' = cancelled \cup ({tsLoop} \ {None})
  /\ stopper' = "close"
  /\ UNCHANGED <<callVars, started, tsLoop, loop, relay, relayKey, wsRelay,
                 stopCh, connState>>

StopClose ==
  /\ stopper = "close"
  /\ relay' = [k \in Loops |-> IF k = wsRelay THEN "closed" ELSE relay[k]]
  /\ stopper' = "done"
  /\ UNCHANGED <<callVars, started, tsLoop, cancelled, loop, relayKey, wsRelay,
                 stopCh, connState>>

----------------------------------------------------------------------------
Start(c) ==
  \/ \E k \in Keys : SetAccessKey(c, k)
  \/ StartFirst(c) \/ CancelOld(c) \/ Join(c) \/ Relaunch(c)

Run(l) ==
  \/ Check(l) \/ SelectServer(l) \/ Connect(l) \/ Install(l)
  \/ Wait(l) \/ Cleanup(l) \/ Sleep(l)

Stop == StopSignal \/ StopCancel \/ StopClose

Next ==
  \/ \E c \in Callers : Start(c)
  \/ \E l \in Loops : Run(l) \/ LinkLost(l)
  \/ Stop

Spec == Init /\ [][Next]_vars

\* A loop runs when it can, probes and Connect have timeouts; a call that has
\* begun, startTSRelay or Stop, goes on.
Fairness ==
  /\ \A l \in Loops : WF_vars(Run(l))
  /\ \A c \in Callers :
       WF_vars(StartFirst(c) \/ CancelOld(c) \/ Join(c) \/ Relaunch(c))
  /\ WF_vars(StopCancel \/ StopClose)

FairSpec == Spec /\ Fairness

----------------------------------------------------------------------------
(* Properties.                                                             *)

LoopLabels ==
  {"none", "check", "select", "connect", "install", "wait", "cleanup", "sleep",
   "done"}

\* Every variable holds a value of its type.
TypeOK ==
  /\ accessKey \in Keys
  /\ caller \in [Callers -> {"idle", "start", "join", "relaunch"}]
  /\ joining \in [Callers -> Loops \cup {None}]
  /\ started \in 0 .. MaxLoops
  /\ tsLoop \in Loops \cup {None}
  /\ cancelled \subseteq Loops
  /\ loop \in [Loops -> LoopLabels]
  /\ relay \in [Loops -> {"none", "open", "closed"}]
  /\ relayKey \in [Loops -> Keys]
  /\ wsRelay \in Loops \cup {None}
  /\ stopCh \in BOOLEAN /\ stopper \in {"idle", "cancel", "close", "done"}
  /\ connState \in {"", "connecting", "connected", "stopped"}

Active(l) == loop[l] \notin {"none", "done"}

\* "At most one loop is ever running" (startTSRelay).
AtMostOneLoop == \A k, l \in Loops : Active(k) /\ Active(l) => k = l

\* The user is told "stopped" (notifyState) only when nothing is connected: an
\* old loop's farewell never covers a new loop's connection.
StoppedMeansDown ==
  connState = "stopped" => \A l \in Loops : relay[l] # "open"

\* A hot swap of the access key takes hold: while no call is under way, the
\* loop that serves is logged in with the key set last (SetAccessKeyAndConnect).
ServesLastKey ==
  (\A c \in Callers : caller[c] = "idle")
    => \A l \in Loops : loop[l] \in {"install", "wait"} => relayKey[l] = accessKey

\* startTSRelay comes back: the old loop, wherever it is blocked, exits, and
\* its caller never waits for ever on oldDone.
SwapReturns == \A c \in Callers : (caller[c] = "join") ~> (caller[c] # "join")

\* After Stop no loop goes on and no relay stays open, whatever starts, swaps
\* and reconnections were under way.
StopIsFinal ==
  stopCh ~> [](\A l \in Loops : ~Active(l) /\ relay[l] # "open")
=============================================================================
