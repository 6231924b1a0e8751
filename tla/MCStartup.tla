------------------------------ MODULE MCStartup ------------------------------
EXTENDS Startup, MCValues
=============================================================================
