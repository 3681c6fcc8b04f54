---------------------------- MODULE DaemonSides -----------------------------
(***************************************************************************)
(* The sides from which the daemon is used, next to each other: the app's  *)
(* data channel, the local clients, the viewers of its log.  None reads or *)
(* writes a variable of another, so a behaviour is about one of them: side *)
(* says which.                                                             *)
(***************************************************************************)
EXTENDS P2PSignal, LocalServer, RingLog

VARIABLE side

Init == P2PInit /\ LocalInit /\ LogInit /\ side \in {"app", "local", "log"}

Next ==
  /\ UNCHANGED side
  /\ \/ side = "app" /\ P2PNext /\ UNCHANGED <<localVars, logVars>>
     \/ side = "local" /\ LocalNext /\ UNCHANGED <<p2pVars, logVars>>
     \/ side = "log" /\ LogNext /\ UNCHANGED <<p2pVars, localVars>>

\* The side that does not move has nothing enabled: its fairness says nothing.
Spec ==
  /\ Init /\ [][Next]_<<p2pVars, localVars, logVars, side>>
  /\ P2PFairness /\ LocalFairness

----------------------------------------------------------------------------

TypeOK == P2PTypes /\ LocalTypes /\ LogTypes
=============================================================================
