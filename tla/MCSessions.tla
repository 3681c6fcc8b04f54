----------------------------- MODULE MCSessions -----------------------------
\* Values for model checking Sessions.
EXTENDS Sessions
=============================================================================
