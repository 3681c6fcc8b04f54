--------------------------- MODULE MCChannelUsers ---------------------------
\* Values for model checking ChannelUsers.
EXTENDS ChannelUsers
=============================================================================
