---------------------------- MODULE MCRelayLoop ----------------------------
\* Values for model checking RelayLoop.
EXTENDS RelayLoop
=============================================================================
