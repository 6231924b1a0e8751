---------------------------- MODULE FrameChannel ----------------------------
(***************************************************************************)
(* What the tunnel promises to the loops above it: packets go through one  *)
(* at a time, whole and in the order of their sending, until one of the    *)
(* ends closes its socket; what was on the way then may be lost.           *)
(***************************************************************************)
EXTENDS Integers, Sequences

CONSTANT Msg

VARIABLES
  sent,     \* the packets sent
  got,      \* the packets received
  wopen,    \* the sender's socket is open
  ropen     \* the receiver's socket is open

vars == <<sent, got, wopen, ropen>>

Init == sent = <<>> /\ got = <<>> /\ wopen = TRUE /\ ropen = TRUE

Send == wopen /\ \E m \in Msg : sent' = Append(sent, m) /\ UNCHANGED <<got, wopen, ropen>>

Receive ==
  /\ ropen /\ Len(got) < Len(sent)
  /\ got' = Append(got, sent[Len(got) + 1])
  /\ UNCHANGED <<sent, wopen, ropen>>

EndSender == wopen /\ wopen' = FALSE /\ UNCHANGED <<sent, got, ropen>>
EndReceiver == ropen /\ ropen' = FALSE /\ UNCHANGED <<sent, got, wopen>>

Next == Send \/ Receive \/ EndSender \/ EndReceiver

\* As long as both sockets are open, what was sent is received.
Spec == Init /\ [][Next]_vars /\ WF_vars(wopen /\ Receive)
=============================================================================
