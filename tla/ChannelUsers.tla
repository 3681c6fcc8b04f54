---------------------------- MODULE ChannelUsers ----------------------------
(***************************************************************************)
(* The users of the app's channel side by side: transfers, tunnels and the *)
(* cutting of long messages.  None of them reads or writes a variable of   *)
(* another, so their joint behaviours are those of each, and instead of    *)
(* interleaving them a behaviour is about one of them: part says which.    *)
(***************************************************************************)
EXTENDS FileTransfer, ProxyTunnel, Chunks

VARIABLE part

usersVars == <<fileVars, tunnelVars, input, part>>

Init ==
  /\ FileInit /\ TunnelInit
  /\ \/ part \in {"files", "tunnels"} /\ input = [kind |-> "none"]
     \/ part = "chunks" /\ input \in Inputs

Next ==
  \/ part = "files" /\ FileNext /\ UNCHANGED <<tunnelVars, input, part>>
  \/ part = "tunnels" /\ TunnelNext /\ UNCHANGED <<fileVars, input, part>>

\* The part that does not move has nothing enabled: its fairness says nothing.
Spec == Init /\ [][Next]_usersVars /\ FileFairness /\ TunnelFairness

----------------------------------------------------------------------------

TypeOK == FileTypes /\ TunnelTypes
=============================================================================
