------------------------------ MODULE AddrPath ------------------------------
(***************************************************************************)
(* The way of a destination from the SOCKS5 request of an application to   *)
(* the connection a server opens: skcli unpacks it, has the server resolve *)
(* a domain, and puts it into the packets; the server, native or Go, turns *)
(* the address of a packet into something to connect to.  An address is    *)
(* the sequence of its bytes; the tunnel delivers packets as sent.         *)
(***************************************************************************)
EXTENDS Integers, Sequences, SequencesExt

CONSTANTS
  V4,    \* IPv4 addresses: 4 bytes
  V6,    \* IPv6 addresses: 16 bytes
  Port   \* the ports applications ask for, in host byte order

Byte == 0 .. 255

AddrAssumption ==
  /\ \A a \in V4 : a \in Seq(Byte) /\ Len(a) = 4
  /\ \A a \in V6 : a \in Seq(Byte) /\ Len(a) = 16
  /\ Port \subseteq 0 .. 65535

VARIABLES
  srv,     \* which server implementation is at the other end
  req,     \* the request: if version and CMD are 5 and 1, its ATYP and its port
  host,    \* the address the request names, or the one its domain has: <<>> until known
  addr,    \* the client's addr_info
  pkt,     \* the packet on its way to or from the server
  pc,      \* where the request is
  dialed   \* the address and the port the server has connected to, or <<>>

vars == <<srv, req, host, addr, pkt, pc, dialed>>

NoAddr == [type |-> "null", data |-> <<>>, port |-> 0]
NoPkt  == [ip |-> <<>>, port |-> 0, payload |-> <<>>]

Zeros(n)   == [i \in 1 .. n |-> 0]
IsZero(s)  == \A i \in DOMAIN s : s[i] = 0
Padded(a)  == a \o Zeros(16 - Len(a))
MappedPrefix == Zeros(10) \o <<255, 255>>

\* ::ffff:a.b.c.d, and the Go form of an IPv4 address, To16.
Mapped(a)   == MappedPrefix \o a
IsMapped(a) == Len(a) = 16 /\ SubSeq(a, 1, 12) = MappedPrefix

Init ==
  /\ srv \in {"native", "go"}
  /\ req \in [v5 : BOOLEAN, connect : BOOLEAN, atyp : {"v4", "v6", "domain", "other"}, port : Port]
  /\ host = <<>> /\ addr = NoAddr /\ pkt = NoPkt /\ pc = "request" /\ dialed = <<>>

-----------------------------------------------------------------------------
(* skcli *)

\* connect_pkgs throws for any other version, CMD or ATYP.
Accepted == req.v5 /\ req.connect /\ req.atyp # "other"

\* connect_pkgs and unpackConnectionPacket: ntohs turns the port of the request into host
\* byte order.
ConnectPkgs ==
  /\ pc = "request"
  /\ \/ ~ Accepted /\ pc' = "rejected" /\ UNCHANGED <<host, addr>>
     \/ /\ Accepted /\ req.atyp = "v4"
        /\ \E a \in V4 : host' = a /\ addr' = [type |-> "ipv4", data |-> a, port |-> req.port]
        /\ pc' = "pass"
     \/ /\ Accepted /\ req.atyp = "v6"
        /\ \E a \in V6 : host' = a /\ addr' = [type |-> "ipv6", data |-> a, port |-> req.port]
        /\ pc' = "pass"
     \/ /\ Accepted /\ req.atyp = "domain"
        /\ addr' = [type |-> "domain", data |-> <<>>, port |-> req.port]
        /\ pc' = "dns" /\ UNCHANGED host
  /\ UNCHANGED <<srv, req, pkt, dialed>>

\* assemble_dns_query: the zero address marks the query, whose payload is, behind a head of
\* 32 bytes, the name and a NUL.
AssembleDnsQuery == [ip |-> Zeros(16), port |-> 0, payload |-> <<"name", "NUL">>]

\* make_dns_query_body adds the port, and dns_pkgs sends the query.
DnsQuery ==
  /\ pc = "dns"
  /\ pkt' = [AssembleDnsQuery EXCEPT !.port = addr.port]
  /\ pc' = "resolve"
  /\ UNCHANGED <<srv, req, host, addr, dialed>>

\* Variant: the test looks at the first four bytes only.
Try6to4First(a) ==
  IF IsZero(SubSeq(a.data, 1, 4)) THEN a
  ELSE [a EXCEPT !.type = "ipv4", !.data = SubSeq(a.data, 1, 4)]

\* An address whose last twelve bytes are zero stands for the IPv4 address in the first four.
Try6to4(a) ==
  IF IsZero(SubSeq(a.data, 5, 16))
    THEN [a EXCEPT !.type = "ipv4", !.data = SubSeq(a.data, 1, 4)]
    ELSE a

\* operator!: the sum of the bytes in a char.
SumIsZero(s) == FoldSeq(LAMBDA b, sum : (b + sum) % 256, 0, s) = 0

\* The answer to the query; a sum of zero counts as "can not resolve".
DnsReply ==
  /\ pc = "answer"
  /\ \/ SumIsZero(pkt.ip) /\ pc' = "unresolved" /\ UNCHANGED addr
     \/ /\ ~ SumIsZero(pkt.ip)
        /\ addr' = Try6to4([type |-> "ipv6", data |-> pkt.ip, port |-> addr.port])
        /\ pc' = "pass"
  /\ pkt' = NoPkt
  /\ UNCHANGED <<srv, req, host, dialed>>

\* to_query_template, and the first packet that passData sends.
PassData ==
  /\ pc = "pass"
  /\ \/ addr.port = 0 /\ pc' = "noport" /\ UNCHANGED pkt
     \/ /\ addr.port # 0
        /\ pkt' = [ip |-> Padded(addr.data), port |-> addr.port, payload |-> <<"data">>]
        /\ pc' = "data"
  /\ UNCHANGED <<srv, req, host, addr, dialed>>

-----------------------------------------------------------------------------
(* sksrv, native *)

\* What a const char * into the payload reaches.
CString(s) == SelectSeq(s, LAMBDA w : w # "NUL")

\* A resolver finds an address of either kind, or none, <<>>; a NUL is in no name.
Lookup(text) == {<<>>} \cup (IF Contains(text, "NUL") THEN {} ELSE V4 \cup V6)

\* The name is the payload up to its NUL.  A failed lookup ends the connection; an address
\* is copied to the front of the zeroed destination_ip.
SrvResolve ==
  /\ srv = "native" /\ pc = "resolve"
  /\ host' \in Lookup(CString(pkt.payload))
  /\ \/ host' = <<>> /\ pc' = "nohost" /\ pkt' = NoPkt
     \/ host' # <<>> /\ pc' = "answer" /\ pkt' = [NoPkt EXCEPT !.ip = Padded(host'), !.port = pkt.port]
  /\ UNCHANGED <<srv, req, addr, dialed>>

\* Variant: the loop over the bytes starts one too early.
IpArrayToStrEarly(ip) ==
  IF IsZero(SubSeq(ip, 4, 16)) THEN [sep |-> ".", groups |-> SubSeq(ip, 1, 4)]
  ELSE [sep |-> ":", groups |-> ip]

\* ip_array_to_str: decimal numbers, four joined by dots or sixteen joined by colons.
IpArrayToStr(ip) ==
  IF IsZero(SubSeq(ip, 5, 16)) THEN [sep |-> ".", groups |-> SubSeq(ip, 1, 4)]
  ELSE [sep |-> ":", groups |-> ip]

\* What getaddrinfo makes of such a text: an IPv6 address has at most eight groups.
IsAddress(text) == text.sep = "." /\ Len(text.groups) = 4

\* A data packet with a zero address passes for a DNS query: the resolver gets something
\* and fails, or answers a client that takes the answer for data.  Otherwise the server
\* connects, which may fail.
SrvData ==
  /\ srv = "native" /\ pc = "data"
  /\ \/ IsZero(pkt.ip) /\ pc' \in {"nohost", "swallowed"} /\ UNCHANGED dialed
     \/ ~ IsZero(pkt.ip) /\ ~ IsAddress(IpArrayToStr(pkt.ip)) /\ pc' = "badtext" /\ UNCHANGED dialed
     \/ /\ ~ IsZero(pkt.ip) /\ IsAddress(IpArrayToStr(pkt.ip))
        /\ \/ pc' = "unreachable" /\ UNCHANGED dialed
           \/ pc' = "open" /\ dialed' = <<IpArrayToStr(pkt.ip).groups, pkt.port>>
  /\ pkt' = NoPkt
  /\ UNCHANGED <<srv, req, host, addr>>

-----------------------------------------------------------------------------
(* sksrv, Go *)

\* The bytes of a resolved address that checkFirst sends back: To16, or zeros for none.
To16(a) == IF a = <<>> THEN Zeros(16) ELSE IF Len(a) = 4 THEN Mapped(a) ELSE a

\* checkFirst: LookupIP gets the name with its NUL.  Go's own resolver takes the text as it
\* is, the one of the C library takes it as a const char *.  A failed lookup is answered
\* with a zero address, and the session ends.
GoResolve ==
  /\ srv = "go" /\ pc = "resolve"
  /\ \E text \in {pkt.payload, CString(pkt.payload)} : host' \in Lookup(text)
  /\ pkt' = [NoPkt EXCEPT !.ip = To16(host')]
  /\ pc' = "answer"
  /\ UNCHANGED <<srv, req, addr, dialed>>

\* What net.IP(ip).String() names: the IPv4 address of a mapped one, or the 16 bytes.
GoHost(ip) == IF IsMapped(ip) THEN SubSeq(ip, 13, 16) ELSE ip

\* dial: written in little endian and read back in big endian.
GoPort(port) == (port % 256) * 256 + port \div 256

GoDial ==
  /\ srv = "go" /\ pc = "data"
  /\ \/ pc' = "unreachable" /\ UNCHANGED dialed
     \/ pc' = "open" /\ dialed' = <<GoHost(pkt.ip), GoPort(pkt.port)>>
  /\ pkt' = NoPkt
  /\ UNCHANGED <<srv, req, host, addr>>

Next ==
  \/ ConnectPkgs \/ DnsQuery \/ DnsReply \/ PassData
  \/ SrvResolve \/ SrvData \/ GoResolve \/ GoDial

Spec == Init /\ [][Next]_vars

-----------------------------------------------------------------------------
\* An address that skcli takes for an IPv4 address written as an IPv6 one.
Fake(a) == Len(a) = 16 /\ IsZero(SubSeq(a, 5, 16))

\* The native server connects to the very host and port the application asked for, through
\* the resolution of a domain, try_6to4, the packet and the text of the address; only an
\* IPv6 address that ends in twelve zero bytes is taken for another one.
DialsDestination ==
  srv = "native" /\ dialed # <<>> /\ ~ Fake(host) => dialed = <<host, req.port>>

\* Where a request ends that no server has tried to connect for.
Refused == {"rejected", "noport", "unresolved", "nohost", "swallowed", "badtext"}

\* The address that a DNS exchange brings back can be told from a failed lookup.
Tellable == req.atyp = "domain" => ~ SumIsZero(IF srv = "go" THEN To16(host) ELSE host)

\* A CONNECT with a port to an IPv4 host, named by its address or by a domain that resolves
\* to it, comes to a connection attempt at either server, through every conversion of the
\* address on the way.  Not promised: the address 0.0.0.0, and a resolved address whose
\* bytes, as the server sends them, add up to a multiple of 256.
OrdinaryIsTried ==
  Accepted /\ req.port # 0 /\ Len(host) = 4 /\ ~ IsZero(host) /\ Tellable => pc \notin Refused

\* A domain that resolves to an IPv4-mapped IPv6 address works: try_6to4 leaves the address
\* as it is, and the native server can make something of it.
MappedIsTried == req.atyp = "domain" /\ IsMapped(host) => pc # "badtext"

\* A server connects to the port of the decoded packet, which is in host byte order.
PortAsDecoded == dialed # <<>> => dialed[2] = req.port
=============================================================================
