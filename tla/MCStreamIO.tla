----------------------------- MODULE MCStreamIO -----------------------------
EXTENDS StreamIO

\* The empty packet, one that looks like the length of another, and one that is longer than
\* MaxLen and than two reads of recvall.
MCMsg == {<<>>, <<0, 0, 0, 1>>, <<7, 0, 9, 0, 5>>}
=============================================================================
