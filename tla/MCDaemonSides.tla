--------------------------- MODULE MCDaemonSides ----------------------------
\* Values for model checking DaemonSides.
EXTENDS DaemonSides
=============================================================================
