------------------------------ MODULE MCGoProxy ------------------------------
(* GoProxy on a small instance: enough frames that both data channels fill    *)
(* while their receivers are gone.                                            *)
EXTENDS GoProxy
=============================================================================
