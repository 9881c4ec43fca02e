---------------------------- MODULE MC_Handshake ----------------------------
EXTENDS Handshake
=============================================================================
