---------------------------- MODULE MCRelaySend ----------------------------
\* Values for model checking RelaySend.
EXTENDS RelaySend
=============================================================================
