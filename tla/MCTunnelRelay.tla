---------------------------- MODULE MCTunnelRelay ----------------------------
(* TunnelRelay on a small instance: half buffers of two bytes, so that reads  *)
(* below, at and above the boundary of readall all occur.                     *)
EXTENDS TunnelRelay
=============================================================================
