---------------------------- MODULE NativeSession ----------------------------
(***************************************************************************)
(* The life of the tunnel connections of one skcli process and one sksrv   *)
(* process (POSIX build, one thread per connection on either side, the     *)
(* se_proxy module): accept, SOCKS handshake, connect, authentication,     *)
(* name resolution, relay, and the way a thread leaves each of them.       *)
(*                                                                         *)
(* TunnelRelay models the relay phase of one connection in detail.  Here   *)
(* it is one place, and the subject is what the connections of a process   *)
(* share: the descriptor table, the module's session keys and its use of   *)
(* the C library's random state, and the process itself, which a write     *)
(* without MSG_NOSIGNAL into a closed connection kills.                    *)
(***************************************************************************)
EXTENDS Integers, FiniteSets

CONSTANTS
  Conn,      \* the connections applications open, each once
  Room,      \* <<m, n>>: descriptors skcli and sksrv may have left for connections
  Seed       \* values time(NULL) takes

ASSUME SessionAssumption ==
  /\ IsFiniteSet(Conn) /\ Room \subseteq (Nat \ {0}) \X (Nat \ {0}) /\ Room # {}
  /\ Seed \subseteq Nat \ {0} /\ Seed # {}

VARIABLES
  room,    \* the descriptors the two processes have left
  match,   \* both passphrases give the same AES key: their first 16 bytes, zero padded
  cliUp,   \* the skcli process runs
  gone,    \* gone[c]: the application has closed its connection
  cpc,     \* the thread of Socks5Connection::launch
  cfds,    \* skcli's descriptors: <<c, "app">> and <<c, "tun">>
  info,    \* connInfo of the connection: "none", "live", "freed", "leaked"
  ckey,    \* additional_info at the client: the session key
  chooks,  \* calls of client_connection_close
  up,      \* the packet on its way to the server
  down,    \* the packet on its way to the client
  srvUp,   \* the sksrv process runs
  spc,     \* the thread of inbound_tunnel::dealConnection
  sfds,    \* sksrv's descriptors: <<c, "conn">> and <<c, "hop">>
  skey,    \* additional_info at the server
  shooks,  \* calls of server_connection_close
  rnd      \* state of rand(): <<seed, numbers drawn>>

appVars == <<room, match, gone>>
cliVars == <<cliUp, cpc, cfds, info, ckey, chooks>>
srvVars == <<srvUp, spc, sfds, skey, shooks, rnd>>
vars == <<appVars, cliVars, up, down, srvVars>>

\* A key is the n-th number of rand() after srand(s): <<s, n>>.
NoKey == <<0, 0>>

MaxFd    == room[1]
MaxSrvFd == room[2]

CliClosed(c) == <<c, "tun">> \notin cfds
SrvOpen(c) == srvUp /\ spc[c] \notin {"none", "done"}

Init ==
  /\ room \in Room /\ match \in BOOLEAN /\ cliUp = TRUE /\ srvUp = TRUE
  /\ gone = [c \in Conn |-> FALSE]
  /\ cpc = [c \in Conn |-> "none"] /\ spc = [c \in Conn |-> "none"]
  /\ cfds = {} /\ sfds = {}
  /\ info = [c \in Conn |-> "none"]
  /\ ckey = [c \in Conn |-> NoKey] /\ skey = [c \in Conn |-> NoKey]
  /\ chooks = [c \in Conn |-> 0] /\ shooks = [c \in Conn |-> 0]
  /\ up = [c \in Conn |-> "none"] /\ down = [c \in Conn |-> <<"none", NoKey>>]
  /\ rnd = NoKey
-----------------------------------------------------------------------------
(* skcli *)

\* SIGPIPE: the process is gone with all its descriptors.
KillClient == cliUp' = FALSE /\ cfds' = {}

\* The application closes its connection, at any moment.
AppGone(c) ==
  /\ cpc[c] \notin {"none", "done"} /\ ~gone[c]
  /\ gone' = [gone EXCEPT ![c] = TRUE]
  /\ UNCHANGED <<room, match, cliVars, up, down, srvVars>>

\* accept(); when the table is full it fails and the loop tries again.
Accept(c) ==
  /\ cliUp /\ cpc[c] = "none" /\ Cardinality(cfds) < MaxFd
  /\ cfds' = cfds \cup {<<c, "app">>}
  /\ cpc' = [cpc EXCEPT ![c] = "shake"]
  /\ UNCHANGED <<appVars, cliUp, info, ckey, chooks, up, down, srvVars>>

\* A phase of the SOCKS5 exchange: reads, then a write without MSG_NOSIGNAL.  It goes on,
\* throws, or kills the process, when the application has left and reset the connection.
Exchange(c, here, there) ==
  /\ cliUp /\ cpc[c] = here
  /\ \/ /\ \E p \in {there, "close"} : cpc' = [cpc EXCEPT ![c] = p]
        /\ UNCHANGED <<cliUp, cfds>>
     \/ gone[c] /\ KillClient /\ UNCHANGED cpc
  /\ UNCHANGED <<appVars, info, ckey, chooks, up, down, srvVars>>

\* handshake_pkgs: goes on whatever the method.
Handshake(c) == Exchange(c, "shake", "req")

\* connect_pkgs: replies success before there is a tunnel.
Request(c) == Exchange(c, "req", "dial")

\* The constructor of SnakeConnection throws: no destructor runs.
Leak(c) ==
  /\ info' = [info EXCEPT ![c] = "leaked"]
  /\ cpc' = [cpc EXCEPT ![c] = "close"]

\* Variant: the limit of descriptors is not noticed.
DialAlways(c) ==
  /\ cliUp /\ cpc[c] = "dial"
  /\ \/ /\ srvUp
        /\ cfds' = cfds \cup {<<c, "tun">>}
        /\ info' = [info EXCEPT ![c] = "live"]
        /\ cpc' = [cpc EXCEPT ![c] = "query"]
        /\ spc' = [spc EXCEPT ![c] = "backlog"]
     \/ Leak(c) /\ UNCHANGED <<cfds, spc>>
  /\ UNCHANGED <<appVars, cliUp, ckey, chooks, up, down, srvUp, sfds, skey, shooks, rnd>>

\* initConnInfo and newConnection: name lookup, socket() or every connect() may fail.
Dial(c) ==
  /\ cliUp /\ cpc[c] = "dial"
  /\ \/ /\ srvUp /\ Cardinality(cfds) < MaxFd
        /\ cfds' = cfds \cup {<<c, "tun">>}
        /\ info' = [info EXCEPT ![c] = "live"]
        /\ cpc' = [cpc EXCEPT ![c] = "query"]
        /\ spc' = [spc EXCEPT ![c] = "backlog"]
     \/ Leak(c) /\ UNCHANGED <<cfds, spc>>
  /\ UNCHANGED <<appVars, cliUp, ckey, chooks, up, down, srvUp, sfds, skey, shooks, rnd>>

\* Variant: a deadline on the authentication closes the socket.
QueryDeadline(c) ==
  /\ cliUp /\ cpc[c] = "query"
  /\ info' = [info EXCEPT ![c] = "live"]
  /\ up' = [up EXCEPT ![c] = "query"]
  /\ \E p \in {"reply", "unwind"} : cpc' = [cpc EXCEPT ![c] = p]
  /\ UNCHANGED <<appVars, cliUp, cfds, ckey, chooks, down, srvVars>>

\* doAuth: client_make_auth_query and two writes without MSG_NOSIGNAL.
Query(c) ==
  /\ cliUp /\ cpc[c] = "query"
  /\ \/ /\ up' = [up EXCEPT ![c] = IF SrvOpen(c) THEN "query" ELSE "none"]
        /\ cpc' = [cpc EXCEPT ![c] = "reply"]
        /\ UNCHANGED <<cliUp, cfds, info>>
     \/ ~SrvOpen(c) /\ Leak(c) /\ UNCHANGED <<cliUp, cfds, up>>
     \/ ~SrvOpen(c) /\ KillClient /\ UNCHANGED <<cpc, info, up>>
  /\ UNCHANGED <<appVars, ckey, chooks, down, srvVars>>

\* What launch does once the tunnel stands: dns_pkgs for a domain, passData for an
\* address, or an exception for port 0.
AfterAuth == {"dns", "relay", "unwind"}

\* Variant: the end of the connection is not noticed.
ReplyIgnoresEof(c) ==
  /\ cliUp /\ cpc[c] = "reply"
  /\ \/ /\ down[c][1] = "key"
        /\ ckey' = [ckey EXCEPT ![c] = down[c][2]]
        /\ \E p \in AfterAuth : cpc' = [cpc EXCEPT ![c] = p]
        /\ UNCHANGED info
     \/ down[c][1] = "reject" /\ Leak(c) /\ UNCHANGED ckey
  /\ down' = [down EXCEPT ![c] = <<"none", NoKey>>]
  /\ UNCHANGED <<appVars, cliUp, cfds, chooks, up, srvVars>>

\* doAuth: client_deal_auth_reply takes the key; a refusal or the end of the connection
\* throws in the constructor, and the socket stays open.
Reply(c) ==
  /\ cliUp /\ cpc[c] = "reply"
  /\ \/ /\ down[c][1] = "key"
        /\ ckey' = [ckey EXCEPT ![c] = down[c][2]]
        /\ \E p \in AfterAuth : cpc' = [cpc EXCEPT ![c] = p]
        /\ UNCHANGED info
     \/ down[c][1] = "reject" /\ Leak(c) /\ UNCHANGED ckey
     \/ down[c][1] = "none" /\ ~SrvOpen(c) /\ Leak(c) /\ UNCHANGED ckey
  /\ down' = [down EXCEPT ![c] = <<"none", NoKey>>]
  /\ UNCHANGED <<appVars, cliUp, cfds, chooks, up, srvVars>>

\* dns_pkgs: the query; the writes have MSG_NOSIGNAL, a failure throws.
Dns(c) ==
  /\ cliUp /\ cpc[c] = "dns"
  /\ \/ /\ up' = [up EXCEPT ![c] = IF SrvOpen(c) THEN "dns" ELSE "none"]
        /\ cpc' = [cpc EXCEPT ![c] = "dnswait"]
     \/ ~SrvOpen(c) /\ cpc' = [cpc EXCEPT ![c] = "unwind"] /\ UNCHANGED up
  /\ UNCHANGED <<appVars, cliUp, cfds, info, ckey, chooks, down, srvVars>>

\* dns_pkgs: the answer; an address whose bytes add up to 0 modulo 256 counts as none.
DnsReply(c) ==
  /\ cliUp /\ cpc[c] = "dnswait"
  /\ \/ /\ down[c][1] = "addr"
        /\ \E p \in {"relay", "unwind"} : cpc' = [cpc EXCEPT ![c] = p]
     \/ down[c][1] = "none" /\ ~SrvOpen(c) /\ cpc' = [cpc EXCEPT ![c] = "unwind"]
  /\ down' = [down EXCEPT ![c] = <<"none", NoKey>>]
  /\ UNCHANGED <<appVars, cliUp, cfds, info, ckey, chooks, up, srvVars>>

\* passData sends a packet to the server.
Data(c) ==
  /\ cliUp /\ cpc[c] = "relay" /\ SrvOpen(c) /\ up[c] = "none"
  /\ up' = [up EXCEPT ![c] = "data"]
  /\ UNCHANGED <<appVars, cliVars, down, srvVars>>

\* passData returns or throws: the application or the server has closed.
RelayEnd(c) ==
  /\ cliUp /\ cpc[c] = "relay" /\ (gone[c] \/ ~SrvOpen(c))
  /\ cpc' = [cpc EXCEPT ![c] = "unwind"]
  /\ UNCHANGED <<appVars, cliUp, cfds, info, ckey, chooks, up, down, srvVars>>

\* Variant: the destructor forgets the socket.
UnwindKeepsFd(c) ==
  /\ cliUp /\ cpc[c] = "unwind"
  /\ chooks' = [chooks EXCEPT ![c] = @ + 1]
  /\ ckey' = [ckey EXCEPT ![c] = NoKey]
  /\ info' = [info EXCEPT ![c] = "freed"]
  /\ cpc' = [cpc EXCEPT ![c] = "close"]
  /\ UNCHANGED <<appVars, cliUp, cfds, up, down, srvVars>>

\* ~SnakeConnection: onCloseConn frees the key, connInfo is deleted, the socket closed.
Unwind(c) ==
  /\ cliUp /\ cpc[c] = "unwind"
  /\ chooks' = [chooks EXCEPT ![c] = @ + 1]
  /\ ckey' = [ckey EXCEPT ![c] = NoKey]
  /\ info' = [info EXCEPT ![c] = "freed"]
  /\ cfds' = cfds \ {<<c, "tun">>}
  /\ cpc' = [cpc EXCEPT ![c] = "close"]
  /\ UNCHANGED <<appVars, cliUp, up, down, srvVars>>

\* ~Socks5Connection
Close(c) ==
  /\ cliUp /\ cpc[c] = "close"
  /\ cfds' = cfds \ {<<c, "app">>}
  /\ cpc' = [cpc EXCEPT ![c] = "done"]
  /\ UNCHANGED <<appVars, cliUp, info, ckey, chooks, up, down, srvVars>>
-----------------------------------------------------------------------------
(* sksrv *)

KillServer == srvUp' = FALSE /\ sfds' = {}

\* quick_accept; any error of accept(), as a full table or a connection that was aborted in
\* the backlog, throws out of listen() and main returns.
SAccept(c) ==
  /\ srvUp /\ spc[c] = "backlog"
  /\ \/ /\ Cardinality(sfds) < MaxSrvFd
        /\ sfds' = sfds \cup {<<c, "conn">>}
        /\ spc' = [spc EXCEPT ![c] = "recv"]
        /\ UNCHANGED srvUp
     \/ KillServer /\ UNCHANGED spc
  /\ UNCHANGED <<appVars, cliVars, up, down, skey, shooks, rnd>>

\* doAuth: server_make_auth_reply decrypts the query with the server's passphrase.
SRecv(c) ==
  /\ srvUp /\ spc[c] = "recv"
  /\ \/ /\ up[c] = "query"
        /\ spc' = [spc EXCEPT ![c] = IF match THEN "seed" ELSE "refuse"]
        /\ up' = [up EXCEPT ![c] = "none"]
     \/ up[c] = "none" /\ CliClosed(c) /\ spc' = [spc EXCEPT ![c] = "close"] /\ UNCHANGED up
  /\ UNCHANGED <<appVars, cliVars, down, srvUp, sfds, skey, shooks, rnd>>

\* srand(time(NULL)), on the state that all threads share.
SSeed(c) ==
  /\ srvUp /\ spc[c] = "seed"
  /\ \E s \in Seed : rnd' = <<s, 0>>
  /\ spc' = [spc EXCEPT ![c] = "draw"]
  /\ UNCHANGED <<appVars, cliVars, up, down, srvUp, sfds, skey, shooks>>

\* tmprnd = rand(); the key is kept in additional_info.
SDraw(c) ==
  /\ srvUp /\ spc[c] = "draw"
  /\ rnd' = <<rnd[1], rnd[2] + 1>>
  /\ skey' = [skey EXCEPT ![c] = rnd']
  /\ spc' = [spc EXCEPT ![c] = "answer"]
  /\ UNCHANGED <<appVars, cliVars, up, down, srvUp, sfds, shooks>>

\* A write of two sends without MSG_NOSIGNAL to a client that has closed: it goes through,
\* fails, or kills the process.  A failure throws; doAuth has no clean-up yet.
SWriteFails(c, p) ==
  /\ CliClosed(c)
  /\ \/ spc' = [spc EXCEPT ![c] = p] /\ UNCHANGED <<srvUp, sfds>>
     \/ KillServer /\ UNCHANGED spc
  /\ UNCHANGED down

\* Variant: the reply carries the number rand() returns now.
SAnswerFresh(c) ==
  /\ srvUp /\ spc[c] = "answer"
  /\ down' = [down EXCEPT ![c] = <<"key", rnd>>]
  /\ spc' = [spc EXCEPT ![c] = "relay"]
  /\ UNCHANGED <<appVars, cliVars, up, srvUp, sfds, skey, shooks, rnd>>

\* The reply with the key.
SAnswer(c) ==
  /\ srvUp /\ spc[c] = "answer"
  /\ \/ /\ down' = [down EXCEPT ![c] = <<"key", skey[c]>>]
        /\ spc' = [spc EXCEPT ![c] = "relay"]
        /\ UNCHANGED <<srvUp, sfds>>
     \/ SWriteFails(c, "close")
  /\ UNCHANGED <<appVars, cliVars, up, skey, shooks, rnd>>

\* The refusal; dealConnectionImpl throws before it has registered onCloseConn.
SRefuse(c) ==
  /\ srvUp /\ spc[c] = "refuse"
  /\ \/ /\ down' = [down EXCEPT ![c] = <<"reject", NoKey>>]
        /\ spc' = [spc EXCEPT ![c] = "close"]
        /\ UNCHANGED <<srvUp, sfds>>
     \/ SWriteFails(c, "close")
  /\ UNCHANGED <<appVars, cliVars, up, skey, shooks, rnd>>

\* A packet that is a DNS query.
SDns(c) ==
  /\ srvUp /\ spc[c] = "relay" /\ up[c] = "dns"
  /\ up' = [up EXCEPT ![c] = "none"]
  /\ spc' = [spc EXCEPT ![c] = "resolve"]
  /\ UNCHANGED <<appVars, cliVars, down, srvUp, sfds, skey, shooks, rnd>>

\* resolveDomainOnce throws, or the answer is sent.
SResolve(c) ==
  /\ srvUp /\ spc[c] = "resolve"
  /\ \/ /\ down' = [down EXCEPT ![c] = <<"addr", NoKey>>]
        /\ spc' = [spc EXCEPT ![c] = "relay"]
        /\ UNCHANGED <<srvUp, sfds>>
     \/ spc' = [spc EXCEPT ![c] = "unwind"] /\ UNCHANGED <<srvUp, sfds, down>>
     \/ SWriteFails(c, "unwind")
  /\ UNCHANGED <<appVars, cliVars, up, skey, shooks, rnd>>

\* A data packet: the first opens the next hop, which may fail.  The write to the next hop
\* has no MSG_NOSIGNAL either: it goes through, fails, or kills the process when the next
\* hop has closed or reset the connection, which it may at any moment.
SData(c) ==
  /\ srvUp /\ spc[c] = "relay" /\ up[c] = "data"
  /\ up' = [up EXCEPT ![c] = "none"]
  /\ \/ <<c, "hop">> \in sfds /\ UNCHANGED <<srvUp, sfds, spc>>
     \/ /\ Cardinality(sfds) < MaxSrvFd /\ sfds' = sfds \cup {<<c, "hop">>}
        /\ UNCHANGED <<srvUp, spc>>
     \/ spc' = [spc EXCEPT ![c] = "unwind"] /\ UNCHANGED <<srvUp, sfds>>
     \/ /\ <<c, "hop">> \in sfds \/ Cardinality(sfds) < MaxSrvFd
        /\ KillServer /\ UNCHANGED spc
  /\ UNCHANGED <<appVars, cliVars, down, skey, shooks, rnd>>

\* The loop ends: the client's connection has ended, the next hop closed, or next-hop
\* data is written to a client that has closed.
SRelayEnd(c) ==
  /\ srvUp /\ spc[c] = "relay"
  /\ \/ /\ (up[c] = "none" /\ CliClosed(c)) \/ <<c, "hop">> \in sfds
        /\ spc' = [spc EXCEPT ![c] = "unwind"] /\ UNCHANGED <<srvUp, sfds, down>>
     \/ <<c, "hop">> \in sfds /\ SWriteFails(c, "unwind")
  /\ UNCHANGED <<appVars, cliVars, up, skey, shooks, rnd>>

\* The two defers: the next hop is closed, then onCloseConn frees the key.
SUnwind(c) ==
  /\ srvUp /\ spc[c] = "unwind"
  /\ sfds' = sfds \ {<<c, "hop">>}
  /\ shooks' = [shooks EXCEPT ![c] = @ + 1]
  /\ skey' = [skey EXCEPT ![c] = NoKey]
  /\ spc' = [spc EXCEPT ![c] = "close"]
  /\ UNCHANGED <<appVars, cliVars, up, down, srvUp, rnd>>

\* close(connfd)
SClose(c) ==
  /\ srvUp /\ spc[c] = "close"
  /\ sfds' = sfds \ {<<c, "conn">>}
  /\ spc' = [spc EXCEPT ![c] = "done"]
  /\ UNCHANGED <<appVars, cliVars, up, down, srvUp, skey, shooks, rnd>>
-----------------------------------------------------------------------------
Client(c) ==
  \/ Dial(c) \/ Query(c) \/ Reply(c) \/ Dns(c) \/ DnsReply(c) \/ RelayEnd(c)
  \/ Unwind(c) \/ Close(c)

Server(c) ==
  \/ SAccept(c) \/ SRecv(c) \/ SSeed(c) \/ SDraw(c) \/ SAnswer(c) \/ SRefuse(c)
  \/ SDns(c) \/ SResolve(c) \/ SData(c) \/ SRelayEnd(c) \/ SUnwind(c) \/ SClose(c)

Next ==
  \E c \in Conn :
    AppGone(c) \/ Accept(c) \/ Handshake(c) \/ Request(c) \/ Data(c) \/ Client(c) \/ Server(c)

\* A thread that can take a step does; the applications owe nothing.
Fairness == \A c \in Conn : WF_vars(Client(c)) /\ WF_vars(Server(c))

Spec == Init /\ [][Next]_vars /\ Fairness
-----------------------------------------------------------------------------
(* Properties *)

Held == {"query", "reply", "dns", "dnswait", "relay", "unwind"}
Leaked == {c \in Conn : <<c, "tun">> \in cfds /\ cpc[c] \in {"close", "done"}}

\* What a thread holds follows from where it is.  skcli: the application's socket until the
\* thread ends, connInfo and the tunnel socket while the SnakeConnection lives; what outlives
\* the thread is exactly what a throwing constructor leaves.
ClientOwns(c) ==
  /\ <<c, "app">> \in cfds <=> cpc[c] \notin {"none", "done"}
  /\ info[c] = "live" <=> cpc[c] \in Held
  /\ info[c] = "live" => <<c, "tun">> \in cfds
  /\ <<c, "tun">> \in cfds => info[c] \in {"live", "leaked"}
  /\ chooks[c] = 1 <=> info[c] = "freed"
  /\ cpc[c] \in {"close", "done"} => ckey[c] = NoKey

\* sksrv: an ended thread has closed both its sockets; a live one holds its connection, and
\* a next hop only within the loop.  A session key that outlives its thread is one whose
\* reply could not be written, because skcli has died: doAuth throws before onCloseConn is
\* registered.
ServerOwns(c) ==
  /\ <<c, "conn">> \in sfds <=> spc[c] \notin {"none", "backlog", "done"}
  /\ <<c, "hop">> \in sfds => spc[c] \in {"relay", "resolve", "unwind"}
  /\ spc[c] = "done" /\ skey[c] # NoKey => ~cliUp

\* As long as a process runs, its threads hold what ClientOwns and ServerOwns say, through
\* every way out of the handshake, the authentication, the DNS exchange and the relay.
Ownership == \A c \in Conn : (cliUp => ClientOwns(c)) /\ (srvUp => ServerOwns(c))

\* Two ends of a connection that both relay use the same key, however the threads of the
\* server interleave their srand and rand.
KeyAgreement ==
  \A c \in Conn : cpc[c] \in {"dns", "dnswait", "relay"} /\ spc[c] \in {"relay", "resolve"}
                  => ckey[c] = skey[c] /\ ckey[c] # NoKey

\* What can end a process.  As long as skcli lives, sksrv ends only while it accepts a
\* connection, writes a client's data to a next hop, or relays to a client that has left:
\* never over an authentication or a DNS answer, whose writes have no MSG_NOSIGNAL either.
\* As long as sksrv lives, skcli ends only over an application that left during the SOCKS5
\* exchange, never over a query to a server that has closed.
DeathCauses ==
  [][/\ srvUp /\ ~srvUp' /\ cliUp =>
          \E c \in Conn : \/ spc[c] = "backlog"
                          \/ spc[c] = "relay" /\ (up[c] = "data" \/ CliClosed(c))
     /\ cliUp /\ ~cliUp' /\ srvUp =>
          \E c \in Conn : cpc[c] \in {"shake", "req"} /\ gone[c]]_vars

\* Failed authentications have taken every descriptor but one: the one that leaks the last
\* socket still holds its application's.
Starved == cliUp /\ Cardinality(Leaked) = MaxFd - 1

\* Then skcli accepts for ever and connects never: a leaked socket is never closed, the leaks
\* cannot take the last descriptor, and no thread gets a tunnel any more.
StarvedForever ==
  [][Starved /\ cliUp' => Starved' /\ \A c \in Conn : ~(cpc[c] = "dial" /\ cpc'[c] = "query")]_vars

\* A thread that has sent the success reply reaches the relay or ends, unless skcli dies:
\* no answer of the server, and no death of it, leaves the thread waiting.
SetupSettles ==
  \A c \in Conn : cpc[c] = "dial" ~> cpc[c] \in {"relay", "done"} \/ ~cliUp
=============================================================================
