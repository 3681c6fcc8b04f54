-------------------------- MODULE RelayLoopProofs --------------------------
(***************************************************************************)
(* With a single caller of startTSRelay, "at most one loop is ever         *)
(* running" is a theorem, for any number of loops and keys.  (With two     *)
(* callers it is false; TLC shows how.)                                    *)
(***************************************************************************)
EXTENDS RelayLoop, TLAPS

\* Calls of startTSRelay do not overlap: there is at most one caller.
OneCaller == \A c, d \in Callers : c = d

(***************************************************************************)
(* What makes the invariant inductive: the only loop that can be active is *)
(* the one startTSRelay remembers, and the caller starts the next one only *)
(* when it has seen that one done.                                         *)
(***************************************************************************)
Single ==
  /\ TypeOK
  /\ OneCaller
  /\ tsLoop <= started
  /\ \A l \in Loops : Active(l) => l = tsLoop
  /\ \A c \in Callers :
       /\ caller[c] = "join" => joining[c] = tsLoop /\ tsLoop # None
       /\ caller[c] = "relaunch" => ~ \E l \in Loops : Active(l)

\* Initial states satisfy the inductive invariant: no loop was started.
LEMMA InitSingle == OneCaller /\ Init => Single
<1> SUFFICES ASSUME OneCaller, Init PROVE Single
  OBVIOUS
<1>0. started = 0 /\ tsLoop = 0
  BY DEF Init, None
<1>1. TypeOK
  <2>1. started \in 0 .. MaxLoops
    BY <1>0, MaxLoopsAssumption
  <2> QED BY <2>1 DEF Init, TypeOK, LoopLabels
<1>2. tsLoop <= started
  BY <1>0
<1>3. \A l \in Loops : ~Active(l)
  BY DEF Init, Active
<1> QED BY <1>1, <1>2, <1>3 DEF Init, Single

\* A new loop is started only while no other is active.
LEMMA LaunchSingle ==
  ASSUME Single, NEW c \in Callers, Launch(c), ~ \E l \in Loops : Active(l)
  PROVE  Single'
<1>1. started' \in Loops /\ started' = started + 1 /\ started \in Nat
  <2>1. started \in 0 .. MaxLoops
    BY DEF Single, TypeOK
  <2>2. started < MaxLoops /\ started' = started + 1
    BY DEF Launch
  <2> QED BY <2>1, <2>2, MaxLoopsAssumption DEF Loops
<1>2. TypeOK'
  <2>1. started' \in 0 .. MaxLoops
    BY <1>1, MaxLoopsAssumption DEF Loops
  <2>2. loop' \in [Loops -> LoopLabels]
    BY <1>1 DEF Launch, Single, TypeOK, LoopLabels
  <2> QED BY <1>1, <2>1, <2>2 DEF Launch, Single, TypeOK
<1>3. \A l \in Loops : Active(l)' => l = tsLoop'
  BY <1>1 DEF Launch, Single, TypeOK, Active
<1>4. \A d \in Callers : caller'[d] = "idle"
  BY DEF Launch, Single, TypeOK, OneCaller
<1> QED
  BY <1>1, <1>2, <1>3, <1>4 DEF Single, Launch, Loops

\* A call of startTSRelay keeps the invariant.
LEMMA StartSingle ==
  ASSUME Single, NEW c \in Callers, Start(c)
  PROVE  Single'
<1>1. CASE \E k \in Keys : SetAccessKey(c, k)
  BY <1>1 DEF SetAccessKey, Single, TypeOK, Active
<1>2. CASE StartFirst(c)
  <2>1. ~ \E l \in Loops : Active(l)
    BY <1>2 DEF StartFirst, Single, Loops, None
  <2> QED BY <1>2, <2>1, LaunchSingle DEF StartFirst
<1>3. CASE CancelOld(c)
  BY <1>3 DEF CancelOld, Single, TypeOK, Active
<1>4. CASE Join(c)
  <2>1. joining[c] = tsLoop /\ loop[tsLoop] = "done"
    BY <1>4 DEF Join, Single
  <2>2. \A l \in Loops : ~Active(l)
    BY <2>1 DEF Single, Active
  <2> QED BY <1>4, <2>1, <2>2 DEF Join, Single, TypeOK, Active
<1>5. CASE Relaunch(c)
  BY <1>5, LaunchSingle DEF Relaunch, Single
<1> QED BY <1>1, <1>2, <1>3, <1>4, <1>5 DEF Start

\* A step of the loop keeps the invariant: only an active loop has steps, and
\* it stays the same loop.
LEMMA RunSingle ==
  ASSUME Single, NEW l \in Loops, Run(l)
  PROVE  Single'
<1>1. Active(l)
  BY DEF Run, Check, SelectServer, Connect, Install, Wait, Cleanup, Sleep, Active
<1>2. TypeOK'
  <2>1. /\ loop' \in [Loops -> LoopLabels]
        /\ connState' \in {"", "connecting", "connected", "stopped"}
    BY DEF Run, Check, SelectServer, Connect, Install, Wait, Cleanup, Sleep,
           Stopped, Canceled, LoopTo, Single, TypeOK, LoopLabels
  <2>2. /\ relay' \in [Loops -> {"none", "open", "closed"}]
        /\ relayKey' \in [Loops -> Keys]
    BY DEF Run, Check, SelectServer, Connect, Install, Wait, Cleanup, Sleep,
           Stopped, Canceled, Single, TypeOK
  <2>3. wsRelay' \in Loops \cup {None}
    BY DEF Run, Check, SelectServer, Connect, Install, Wait, Cleanup, Sleep,
           Stopped, Canceled, Single, TypeOK
  <2>4. UNCHANGED <<callVars, started, tsLoop, cancelled, stopCh, stopper>>
    BY DEF Run, Check, SelectServer, Connect, Install, Wait, Cleanup, Sleep,
           Stopped, Canceled
  <2> QED BY <2>1, <2>2, <2>3, <2>4 DEF Single, TypeOK, callVars
<1>3. /\ UNCHANGED <<tsLoop, caller, joining, started>>
      /\ \A k \in Loops : k # l => loop'[k] = loop[k]
  BY DEF Run, Check, SelectServer, Connect, Install, Wait, Cleanup, Sleep,
         Stopped, Canceled, LoopTo, Single, TypeOK, callVars
<1>4. l = tsLoop
  BY <1>1 DEF Single
<1> QED BY <1>1, <1>2, <1>3, <1>4 DEF Single, Active

\* Every step of the specification keeps the invariant.
LEMMA NextSingle == Single /\ [Next]_vars => Single'
<1> SUFFICES ASSUME Single, [Next]_vars PROVE Single'
  OBVIOUS
<1>1. CASE \E c \in Callers : Start(c)
  BY <1>1, StartSingle
<1>2. CASE \E l \in Loops : Run(l)
  BY <1>2, RunSingle
<1>3. CASE \E l \in Loops : LinkLost(l)
  BY <1>3 DEF LinkLost, Single, TypeOK, Active, callVars
<1>4. CASE Stop
  BY <1>4 DEF Stop, StopSignal, StopCancel, StopClose, Single, TypeOK, Active,
              callVars
<1>5. CASE UNCHANGED vars
  BY <1>5 DEF vars, callVars, Single, TypeOK, Active
<1> QED BY <1>1, <1>2, <1>3, <1>4, <1>5 DEF Next

\* The state always has its type.
THEOREM RelayLoopTypes ==
  ASSUME OneCaller
  PROVE  Spec => []TypeOK
<1>1. Single => TypeOK
  BY DEF Single
<1>2. Init => Single
  BY InitSingle
<1> QED BY <1>1, <1>2, NextSingle, PTL DEF Spec

\* startTSRelay's promise, when its calls do not overlap.
THEOREM OneLoop ==
  ASSUME OneCaller
  PROVE  Spec => []AtMostOneLoop
<1>1. Single => AtMostOneLoop
  BY DEF Single, AtMostOneLoop
<1>2. Init => Single
  BY InitSingle
<1> QED BY <1>1, <1>2, NextSingle, PTL DEF Spec

(***************************************************************************)
(* What a loop says and with which key it serves.                          *)
(***************************************************************************)
\* Only a loop that is installing or waiting has an open relay, and a loop that
\* has passed its check has told the user that it is connecting.
Told ==
  /\ \A l \in Loops : relay[l] = "open" => loop[l] \in {"install", "wait"}
  /\ \A l \in Loops : loop[l] \notin {"none", "check", "done"} => connState # "stopped"

\* While no call is under way, a loop that has selected a server has the last key.
Keyed ==
  (\A c \in Callers : caller[c] = "idle")
    => \A l \in Loops : loop[l] \in {"connect", "install", "wait"} => relayKey[l] = accessKey

\* At first nothing is connected.
LEMMA InitSays == Init => Told /\ Keyed
BY DEF Init, Told, Keyed

\* A call changes the key only when it begins, and ends with a loop at its check.
LEMMA StartSays ==
  ASSUME Single, Told, Keyed, NEW c \in Callers, Start(c)
  PROVE  Told' /\ Keyed'
<1>1. CASE \E k \in Keys : SetAccessKey(c, k)
  BY <1>1 DEF SetAccessKey, Single, TypeOK, Told, Keyed
<1>2. CASE CancelOld(c)
  BY <1>2 DEF CancelOld, Single, TypeOK, Told, Keyed
<1>3. CASE Join(c)
  BY <1>3 DEF Join, Single, TypeOK, Told, Keyed
<1>4. ASSUME Launch(c), \A l \in Loops : ~Active(l) PROVE Told' /\ Keyed'
  <2>1. /\ UNCHANGED <<relay, connState, relayKey, accessKey>>
        /\ \A l \in Loops : loop'[l] \in {loop[l], "check"}
    BY <1>4 DEF Launch, Single, TypeOK
  <2>2. \A l \in Loops : loop[l] \in {"none", "done"}
    BY <1>4 DEF Active
  <2> QED BY <2>1, <2>2 DEF Told, Keyed
<1>5. CASE StartFirst(c)
  <2>1. \A l \in Loops : ~Active(l)
    BY <1>5 DEF StartFirst, Single, Loops, None
  <2> QED BY <1>4, <1>5, <2>1 DEF StartFirst
<1>6. CASE Relaunch(c)
  BY <1>4, <1>6 DEF Relaunch, Single
<1> QED BY <1>1, <1>2, <1>3, <1>5, <1>6 DEF Start

\* A step of the only loop that is active: what it does to its relay goes with
\* where it goes and what it says.
LEMMA RunSays ==
  ASSUME Single, Told, Keyed, NEW l \in Loops, Run(l)
  PROVE  Told' /\ Keyed'
<1>1. UNCHANGED <<accessKey, caller>> /\ \A k \in Loops : k # l => loop'[k] = loop[k]
  BY DEF Run, Check, SelectServer, Connect, Install, Wait, Cleanup, Sleep,
         Stopped, Canceled, LoopTo, Single, TypeOK, callVars
<1>2. \A k \in Loops : k # l => loop[k] \in {"none", "done"} /\ relay[k] # "open"
  BY DEF Run, Check, SelectServer, Connect, Install, Wait, Cleanup, Sleep, Active, Single, Told
<1>3. \A k \in Loops : k # l => relay'[k] # "open" /\ relayKey'[k] = relayKey[k]
  <2>1. relay \in [Loops -> {"none", "open", "closed"}] /\ relayKey \in [Loops -> Keys]
    BY DEF Single, TypeOK
  <2>2. ASSUME NEW k \in Loops, k # l PROVE relay'[k] \in {relay[k], "closed"} /\ relayKey'[k] = relayKey[k]
    <3>1. CASE Check(l)
      BY <2>1, <2>2, <3>1 DEF Check
    <3>2. CASE SelectServer(l)
      BY <2>1, <2>2, <3>2 DEF SelectServer
    <3>3. CASE Connect(l)
      BY <2>1, <2>2, <3>3 DEF Connect
    <3>4. CASE Install(l)
      BY <2>1, <2>2, <3>4 DEF Install
    <3>5. CASE Wait(l)
      BY <2>1, <2>2, <3>5 DEF Wait
    <3>6. CASE Cleanup(l)
      BY <2>1, <2>2, <3>6 DEF Cleanup
    <3>7. CASE Sleep(l)
      BY <2>1, <2>2, <3>7 DEF Sleep
    <3> QED BY <3>1, <3>2, <3>3, <3>4, <3>5, <3>6, <3>7 DEF Run
  <2> QED BY <1>2, <2>2
<1>4. relay'[l] = "open" => loop'[l] \in {"install", "wait"}
  BY DEF Run, Check, SelectServer, Connect, Install, Wait, Cleanup, Sleep,
         Stopped, Canceled, LoopTo, Single, TypeOK, Told
<1>5. loop'[l] \notin {"none", "check", "done"} => connState' # "stopped"
  BY DEF Run, Check, SelectServer, Connect, Install, Wait, Cleanup, Sleep,
         Stopped, Canceled, LoopTo, Single, TypeOK, Told
<1>6. Keyed'
  <2> SUFFICES ASSUME \A c \in Callers : caller[c] = "idle", loop'[l] \in {"connect", "install", "wait"}
               PROVE  relayKey'[l] = accessKey
    BY <1>1, <1>2 DEF Keyed
  <2> QED BY DEF Run, Check, SelectServer, Connect, Install, Wait, Cleanup, Sleep,
                 Stopped, Canceled, LoopTo, Single, TypeOK, Keyed
<1>7. Told'
  BY <1>1, <1>2, <1>3, <1>4, <1>5 DEF Told
<1> QED BY <1>6, <1>7

\* Every step.
LEMMA NextSays == Single /\ Told /\ Keyed /\ [Next]_vars => Told' /\ Keyed'
<1> SUFFICES ASSUME Single, Told, Keyed, [Next]_vars PROVE Told' /\ Keyed'
  OBVIOUS
<1>1. CASE \E c \in Callers : Start(c)
  BY <1>1, StartSays
<1>2. CASE \E l \in Loops : Run(l)
  BY <1>2, RunSays
<1>3. CASE \E l \in Loops : LinkLost(l)
  <2>1. PICK l \in Loops : LinkLost(l)
    BY <1>3
  <2>2. UNCHANGED <<loop, connState, accessKey, caller, relayKey>>
    BY <2>1 DEF LinkLost, callVars
  <2>3. \A k \in Loops : relay'[k] = "open" => relay[k] = "open"
    BY <2>1 DEF LinkLost, Single, TypeOK
  <2> QED BY <2>2, <2>3 DEF Told, Keyed
<1>4. CASE Stop
  <2>1. UNCHANGED <<loop, connState, accessKey, caller, relayKey>>
    BY <1>4 DEF Stop, StopSignal, StopCancel, StopClose, callVars
  <2>2. \A k \in Loops : relay'[k] = "open" => relay[k] = "open"
    BY <1>4 DEF Stop, StopSignal, StopCancel, StopClose
  <2> QED BY <2>1, <2>2 DEF Told, Keyed
<1>5. CASE UNCHANGED vars
  BY <1>5 DEF vars, callVars, Told, Keyed
<1> QED BY <1>1, <1>2, <1>3, <1>4, <1>5 DEF Next

\* Nobody is told "stopped" while a relay is open, when calls of startTSRelay do not
\* overlap.
THEOREM StoppedIsTrue ==
  ASSUME OneCaller
  PROVE  Spec => []StoppedMeansDown
<1>1. Told => StoppedMeansDown
  BY DEF Told, StoppedMeansDown
<1>2. Init => Single /\ Told /\ Keyed
  BY InitSingle, InitSays
<1> QED BY <1>1, <1>2, NextSingle, NextSays, PTL DEF Spec

\* A swapped key takes hold, when calls of startTSRelay do not overlap.
THEOREM LastKeyServes ==
  ASSUME OneCaller
  PROVE  Spec => []ServesLastKey
<1>1. Keyed => ServesLastKey
  BY DEF Keyed, ServesLastKey
<1>2. Init => Single /\ Told /\ Keyed
  BY InitSingle, InitSays
<1> QED BY <1>1, <1>2, NextSingle, NextSays, PTL DEF Spec
=============================================================================
