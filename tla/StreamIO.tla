------------------------------ MODULE StreamIO ------------------------------
(***************************************************************************)
(* How packets cross a TCP connection of the native build, byte by byte:   *)
(* the loops of sockIO (sendn, recvn, recvall, with fdIO::readall) and the *)
(* length-prefixed packets that they carry.  One direction of one          *)
(* connection, a writing and a reading thread:                             *)
(*                                                                         *)
(*   "up"    passData writes, recv_length_and_packet of sksrv reads;       *)
(*   "down"  send_length_and_packet of sksrv writes, passData reads;       *)
(*   "raw"   a connection outside the tunnel: bytes without lengths,       *)
(*           written with sendn and read with recvall or readall.          *)
(*                                                                         *)
(* A call into the kernel may move any number of bytes, at least one, or   *)
(* be interrupted by a signal, or fail.                                    *)
(***************************************************************************)
EXTENDS Integers, Sequences

CONSTANTS
  Msg,        \* the packets: sequences of bytes
  MaxSent,    \* packets that are sent
  MaxLen,     \* the longest packet accepted (64 MiB in the code)
  ReadHalf,   \* bytes one recv() of recvall asks for (512 in the code)
  SockBuf,    \* bytes the connection holds
  MaxIntr     \* signals that interrupt a call

Byte == 0 .. 255

ASSUME StreamAssumption ==
  /\ Msg \subseteq Seq(Byte)
  /\ MaxSent \in Nat /\ MaxIntr \in Nat /\ MaxLen \in Nat
  /\ ReadHalf \in Nat \ {0} /\ SockBuf \in Nat \ {0}

\* A length is a uint32_t.
ASSUME LengthsFit == \A m \in Msg : Len(m) \div 65536 < 65536

VARIABLES
  os,       \* "posix" or "windows"
  chan,     \* "up", "down" or "raw"
  net,      \* the bytes on the way
  wsock,    \* the writer's socket: "open", "fin" (closed in order) or "reset"
  wpc,      \* where the writer is
  msg,      \* the packet it sends
  wbuf,     \* what sendn has left to send: [ptr, nleft]
  sent,     \* the packets sent
  ropen,    \* the reader's socket is open
  rpc,      \* where the reader is
  want,     \* n of the reader's recvn
  rbuf,     \* what the reader has stored in its buffer
  heap,     \* buffers the reader has malloc'ed, and neither freed nor passed on
  got,      \* the packets received, or what the calls of recvall returned
  intr      \* signals so far

writer == <<wsock, wpc, msg, wbuf, sent>>
reader == <<ropen, rpc, want, rbuf, heap, got>>
vars == <<os, chan, net, writer, reader, intr>>

Least(a, b) == IF a < b THEN a ELSE b
From(s, i) == SubSeq(s, i, Len(s))

\* htonl and ntohl, on hosts of either byte order: the bytes on the way.
Htonl(n) == <<(n \div 16777216) % 256, (n \div 65536) % 256, (n \div 256) % 256, n % 256>>
Ntohl(b) == b[1] * 16777216 + b[2] * 65536 + b[3] * 256 + b[4]

Init ==
  /\ os \in {"posix", "windows"} /\ chan \in {"up", "down", "raw"}
  /\ net = <<>> /\ intr = 0
  /\ wsock = "open" /\ wpc = "idle" /\ msg = <<>> /\ wbuf = <<>> /\ sent = <<>>
  /\ ropen = TRUE /\ rpc = "idle" /\ want = 0 /\ rbuf = <<>> /\ heap = 0 /\ got = <<>>

-----------------------------------------------------------------------------
(* The writer. *)

\* A packet is encoded and its length sent, but send_length_and_packet refuses a long one.
\* Raw data has no length, and nothing that sksrv sends is empty.
SendPacket ==
  /\ wpc = "idle" /\ wsock = "open" /\ Len(sent) < MaxSent
  /\ \E m \in Msg :
       /\ chan = "down" => m # <<>>
       /\ msg' = m
       /\ \/ chan = "raw" /\ wbuf' = m /\ wpc' = "data"
          \/ /\ chan # "raw"
             /\ IF chan = "down" /\ Len(m) > MaxLen
                THEN wbuf' = <<>> /\ wpc' = "thrown"
                ELSE wbuf' = Htonl(Len(m)) /\ wpc' = "len"
  /\ UNCHANGED <<os, chan, net, wsock, sent, reader, intr>>

\* One send() of the loop: some bytes are accepted, and lost if the reader has closed.
SendSome ==
  /\ wpc \in {"len", "data"} /\ wbuf # <<>>
  /\ \E k \in 1 .. Least(Len(wbuf), SockBuf - Len(net)) :
       /\ wbuf' = From(wbuf, k + 1)
       /\ net' = IF ropen THEN net \o SubSeq(wbuf, 1, k) ELSE <<>>
  /\ UNCHANGED <<os, chan, wsock, wpc, msg, sent, reader, intr>>

\* Variant: the loop starts over after a signal.
SendIntrRestarts ==
  /\ wpc \in {"len", "data"} /\ wbuf # <<>> /\ intr < MaxIntr
  /\ wbuf' = (IF wpc = "len" THEN Htonl(Len(msg)) ELSE msg)
  /\ intr' = intr + 1
  /\ UNCHANGED <<os, chan, net, wsock, wpc, msg, sent, reader>>

\* EINTR or WSAEINTR: nwritten = 0, and the loop calls send() again.
SendIntr ==
  /\ wpc \in {"len", "data"} /\ wbuf # <<>> /\ intr < MaxIntr
  /\ intr' = intr + 1
  /\ UNCHANGED <<os, chan, net, writer, reader>>

\* A reader that has closed makes send() fail: sendn_ex throws.  On POSIX send() also raises
\* SIGPIPE, unless it was called with MSG_NOSIGNAL, as by SnakeConnection::sendn.
SendFail ==
  /\ wpc \in {"len", "data"} /\ wbuf # <<>> /\ ~ ropen
  /\ \/ wpc' = "thrown"
     \/ os = "posix" /\ chan # "up" /\ wpc' = "killed"
  /\ UNCHANGED <<os, chan, net, wsock, msg, wbuf, sent, reader, intr>>

\* nleft = 0: sendn returns.  An empty packet makes no call at all.
SendReturn ==
  /\ wpc \in {"len", "data"} /\ wbuf = <<>>
  /\ \/ wpc = "len" /\ wbuf' = msg /\ wpc' = "data" /\ UNCHANGED sent
     \/ wpc = "data" /\ sent' = Append(sent, msg) /\ wpc' = "idle" /\ UNCHANGED wbuf
  /\ UNCHANGED <<os, chan, net, wsock, msg, reader, intr>>

\* The thread leaves its loop, or unwinds, or its process is gone: close() of the socket.
\* With unread input, the kernel resets the connection and drops what it has not transmitted.
CloseWriter ==
  /\ wpc \in {"idle", "thrown", "killed"} /\ wsock = "open"
  /\ \/ wsock' = "fin" /\ UNCHANGED net
     \/ wsock' = "reset" /\ \E k \in 0 .. Len(net) : net' = SubSeq(net, 1, k)
  /\ UNCHANGED <<os, chan, wpc, msg, wbuf, sent, reader, intr>>

-----------------------------------------------------------------------------
(* The reader. *)

\* select() has reported the socket: the reader calls recvn for a length, or recvall, which
\* starts with malloc.
Receive ==
  /\ rpc = "idle" /\ ropen
  /\ net # <<>> \/ wsock # "open"
  /\ rbuf' = <<>>
  /\ \/ chan # "raw" /\ rpc' = "len" /\ want' = 4 /\ UNCHANGED heap
     \/ chan = "raw" /\ rpc' = "first" /\ want' = ReadHalf /\ heap' = heap + 1
  /\ UNCHANGED <<os, chan, net, writer, ropen, got, intr>>

\* One recv() of the loop of recvn.
RecvSome ==
  /\ rpc \in {"len", "data"} /\ Len(rbuf) < want
  /\ \E k \in 1 .. Least(want - Len(rbuf), Len(net)) :
       /\ rbuf' = rbuf \o SubSeq(net, 1, k)
       /\ net' = From(net, k + 1)
  /\ UNCHANGED <<os, chan, writer, ropen, rpc, want, heap, got, intr>>

\* EINTR or WSAEINTR: nread = 0, and the loop calls recv() again.
RecvIntr ==
  /\ rpc \in {"len", "data"} /\ Len(rbuf) < want /\ intr < MaxIntr
  /\ intr' = intr + 1
  /\ UNCHANGED <<os, chan, net, writer, reader>>

AtEnd == net = <<>> /\ wsock # "open"

\* Variant: the buffer is lost at either end.
RecvFailKeeps ==
  /\ rpc \in {"len", "data"} /\ Len(rbuf) < want /\ AtEnd
  /\ rpc' = "thrown"
  /\ UNCHANGED <<os, chan, net, writer, ropen, want, rbuf, heap, got, intr>>

\* End of file or an error before n bytes have come: recvn_ex throws.  passData frees the
\* buffer for the body (recvn_and_free_on_err), recv_length_and_packet does not.
RecvFail ==
  /\ rpc \in {"len", "data"} /\ Len(rbuf) < want /\ AtEnd
  /\ rpc' = "thrown"
  /\ heap' = IF rpc = "data" /\ chan = "down" THEN heap - 1 ELSE heap
  /\ UNCHANGED <<os, chan, net, writer, ropen, want, rbuf, got, intr>>

\* Variant: recvn returns what one recv() gave.
RecvReturnShort ==
  /\ (rpc = "len" /\ Len(rbuf) = want) \/ (rpc = "data" /\ rbuf # <<>>)
  /\ \/ rpc = "len" /\ want' = Ntohl(rbuf) /\ rbuf' = <<>> /\ heap' = heap + 1
        /\ rpc' = "data" /\ UNCHANGED got
     \/ /\ rpc = "data"
        /\ got' = Append(got, rbuf) /\ heap' = heap - 1 /\ rbuf' = <<>>
        /\ rpc' = "idle" /\ UNCHANGED want
  /\ UNCHANGED <<os, chan, net, writer, ropen, intr>>

\* n bytes have come.  A length is checked (sksrv: not too long; skcli: zero ends the loop)
\* and a buffer malloc'ed for the body; a body is passed on to decode, which frees it.
RecvReturn ==
  /\ rpc \in {"len", "data"} /\ Len(rbuf) = want
  /\ \/ /\ rpc = "len"
        /\ IF IF chan = "up" THEN Ntohl(rbuf) > MaxLen ELSE Ntohl(rbuf) = 0
           THEN rpc' = (IF chan = "up" THEN "thrown" ELSE "done") /\ UNCHANGED <<want, rbuf, heap>>
           ELSE rpc' = "data" /\ want' = Ntohl(rbuf) /\ rbuf' = <<>> /\ heap' = heap + 1
        /\ UNCHANGED got
     \/ /\ rpc = "data"
        /\ got' = Append(got, rbuf) /\ heap' = heap - 1 /\ rbuf' = <<>>
        /\ rpc' = "idle" /\ UNCHANGED want
  /\ UNCHANGED <<os, chan, net, writer, ropen, intr>>

\* recvall returns what is in the buffer, which its caller frees.
AllReturn(bytes) ==
  /\ got' = (IF bytes = <<>> THEN got ELSE Append(got, bytes))
  /\ rpc' = (IF bytes = <<>> THEN "done" ELSE "idle")
  /\ rbuf' = <<>> /\ heap' = heap - 1

\* The first recv(): half of the buffer.  Less than that is all there is; nothing is the end
\* of the stream.
AllFirst ==
  /\ rpc = "first"
  /\ \/ \E k \in 1 .. Least(ReadHalf, Len(net)) :
          /\ net' = From(net, k + 1)
          /\ IF k < ReadHalf THEN AllReturn(SubSeq(net, 1, k))
             ELSE rpc' = "more" /\ rbuf' = SubSeq(net, 1, k) /\ UNCHANGED <<heap, got>>
     \/ AtEnd /\ wsock = "fin" /\ AllReturn(<<>>) /\ UNCHANGED net
  /\ UNCHANGED <<os, chan, writer, ropen, want, intr>>

\* The second one: the other half, blocking.  Less than a whole buffer has come, so that the
\* loop returns; it never gets to realloc.
AllMore ==
  /\ rpc = "more"
  /\ \/ \E k \in 1 .. Least(ReadHalf, Len(net)) :
          net' = From(net, k + 1) /\ AllReturn(rbuf \o SubSeq(net, 1, k))
     \/ AtEnd /\ wsock = "fin" /\ AllReturn(rbuf) /\ UNCHANGED net
  /\ UNCHANGED <<os, chan, writer, ropen, want, intr>>

\* A signal: recvall of the Windows build tries again, the POSIX one returns -1.
AllIntr ==
  /\ rpc \in {"first", "more"} /\ intr < MaxIntr
  /\ intr' = intr + 1
  /\ rpc' = IF os = "posix" THEN "thrown" ELSE rpc
  /\ UNCHANGED <<os, chan, net, writer, ropen, want, rbuf, heap, got>>

\* An error: -1 with the buffer neither freed nor stored in *pvptr.
AllFail ==
  /\ rpc \in {"first", "more"} /\ AtEnd /\ wsock = "reset"
  /\ rpc' = "thrown"
  /\ UNCHANGED <<os, chan, net, writer, ropen, want, rbuf, heap, got, intr>>

\* close() of the socket: when the thread unwinds, or between two packets.
CloseReader ==
  /\ rpc \in {"idle", "done", "thrown"} /\ ropen
  /\ ropen' = FALSE /\ net' = <<>>
  /\ UNCHANGED <<os, chan, writer, rpc, want, rbuf, heap, got, intr>>

Write == SendSome \/ SendReturn \/ (SendFail /\ wpc' = "thrown")
Read ==
  \/ Receive \/ RecvSome \/ RecvFail \/ RecvReturn \/ AllFirst \/ AllMore \/ AllFail
  \/ (CloseReader /\ rpc = "thrown")

Next ==
  \/ SendPacket \/ SendSome \/ SendIntr \/ SendFail \/ SendReturn \/ CloseWriter
  \/ Receive \/ RecvSome \/ RecvIntr \/ RecvFail \/ RecvReturn
  \/ AllFirst \/ AllMore \/ AllIntr \/ AllFail \/ CloseReader

\* Threads run, the reader comes back to the socket, and an exception closes it.
Spec == Init /\ [][Next]_vars /\ WF_vars(Write) /\ WF_vars(Read)
-----------------------------------------------------------------------------
Frame(m) == IF chan = "raw" THEN m ELSE Htonl(Len(m)) \o m

\* The packets msgs one after the other, as they cross the connection.
Frames(msgs) ==
  LET upTo[n \in 0 .. Len(msgs)] == IF n = 0 THEN <<>> ELSE upTo[n - 1] \o Frame(msgs[n])
  IN upTo[Len(msgs)]

IsStart(s, t) == Len(s) <= Len(t) /\ s = SubSeq(t, 1, Len(s))

\* The packet in the writer's hands, and what of it has not been handed to the kernel.
\* Nothing of a packet that send_length_and_packet refuses is sent.
Current == IF wpc = "idle" \/ (wpc = "thrown" /\ wbuf = <<>>) THEN <<>> ELSE Frame(msg)
Rest == IF wpc = "len" THEN wbuf \o msg ELSE wbuf

\* The bytes in the reader's hands, the length it has taken off included.
InHand ==
  CASE rpc \in {"len", "first", "more"} -> rbuf
    [] rpc = "data" -> Htonl(want) \o rbuf
    [] OTHER -> <<>>

\* However the calls split the stream and whenever a signal interrupts one, the bytes of the
\* packets are laid out, each once and in order, over what was received, what the reader
\* holds, the connection and what the writer has left; and what was received is a beginning
\* of what was sent even after a reset (sendn, recvn, recvall).
StreamAligned ==
  /\ IsStart(Frames(got), Frames(sent) \o Current)
  /\ ropen /\ wsock # "reset" /\ rpc # "thrown" =>
       Frames(got) \o InHand \o net \o Rest = Frames(sent) \o Current

\* Every buffer of the reader is freed or passed on; one is lost, and only one, when a read
\* fails inside recvall or inside the body in recv_length_and_packet, never in passData.
BuffersReturned ==
  /\ heap = 0 \/ rpc \in {"data", "first", "more"} \/ (rpc = "thrown" /\ chan # "down")
  /\ heap <= 1

\* The packet is sent when the last of its bytes is.
Sent == IF wpc \in {"len", "data"} /\ Rest = <<>> THEN Append(sent, msg) ELSE sent

Tunnel == INSTANCE FrameChannel WITH
  sent <- (IF chan = "raw" THEN <<>> ELSE Sent), got <- (IF chan = "raw" THEN <<>> ELSE got),
  wopen <- (wsock = "open")

\* Over these loops the tunnel carries whole packets, in order, and as long as both sockets
\* are open each packet sent is received: what the loops of passData and dealConnectionImpl
\* rely on.
CarriesPackets == Tunnel!Spec
=============================================================================
