---------------------------- MODULE AtChannelMC ----------------------------
EXTENDS AtChannel
=============================================================================
