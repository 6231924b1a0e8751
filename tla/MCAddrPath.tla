----------------------------- MODULE MCAddrPath -----------------------------
EXTENDS AddrPath, MCValues
=============================================================================
