--------------------------- MODULE MCNativeSession ---------------------------
(* NativeSession with two connections.  With two descriptors one failed        *)
(* authentication starves skcli, with four both connections have a tunnel; with *)
(* two at the server one relay fills its table, with three two threads fit.      *)
EXTENDS NativeSession

MCRoom == {<<2, 2>>, <<3, 3>>, <<4, 2>>, <<4, 3>>}
=============================================================================
