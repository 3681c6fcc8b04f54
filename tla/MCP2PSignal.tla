---------------------------- MODULE MCP2PSignal -----------------------------
\* Values for model checking P2PSignal.
EXTENDS P2PSignal
=============================================================================
