------------------------- MODULE NativeSessionProofs -------------------------
(***************************************************************************)
(* Theorems about NativeSession for every number of connections, every     *)
(* size of the two descriptor tables and every value of time(NULL).        *)
(***************************************************************************)
EXTENDS NativeSession, FiniteSetTheorems, TLAPS

CliPlaces == {"none", "shake", "req", "dial", "query", "reply", "dns", "dnswait",
              "relay", "unwind", "close", "done"}
SrvPlaces == {"none", "backlog", "recv", "seed", "draw", "answer", "refuse", "relay",
              "resolve", "unwind", "close", "done"}
Key == Nat \X Nat

PlaceOK ==
  /\ room \in Room
  /\ cpc \in [Conn -> CliPlaces] /\ spc \in [Conn -> SrvPlaces]
  /\ cfds \subseteq Conn \X {"app", "tun"} /\ sfds \subseteq Conn \X {"conn", "hop"}
DataOK ==
  /\ info \in [Conn -> {"none", "live", "freed", "leaked"}] /\ chooks \in [Conn -> Nat]
  /\ up \in [Conn -> {"none", "query", "dns", "data"}]
KeyOK ==
  /\ ckey \in [Conn -> Key] /\ skey \in [Conn -> Key] /\ rnd \in Key
  /\ down \in [Conn -> {"none", "key", "reject", "addr"} \X Key]
TypeOK == PlaceOK /\ DataOK /\ KeyOK

Early == {"none", "shake", "req", "dial"}
Auth  == {"seed", "draw", "answer", "refuse"}

\* What the client's thread holds, place by place.
CliInv(c) ==
  /\ info[c] = "live" <=> cpc[c] \in Held
  /\ cpc[c] \in Early => info[c] = "none"
  /\ chooks[c] = IF info[c] = "freed" THEN 1 ELSE 0
  /\ cpc[c] \in Early \cup {"query", "reply", "close", "done"} => ckey[c] = NoKey
  /\ cliUp => /\ <<c, "app">> \in cfds <=> cpc[c] \notin {"none", "done"}
              /\ info[c] = "live" => <<c, "tun">> \in cfds
              /\ <<c, "tun">> \in cfds => info[c] \in {"live", "leaked"}

\* What the server's thread holds, place by place.
SrvInv(c) ==
  /\ cpc[c] \in Early => spc[c] = "none" /\ up[c] = "none" /\ down[c][1] = "none"
  /\ spc[c] \in Auth \cup {"backlog", "recv"} =>
       cpc[c] \in {"query", "reply", "close", "done"} /\ down[c][1] = "none"
  /\ spc[c] \in {"none", "backlog", "recv", "seed", "draw", "refuse"} => skey[c] = NoKey
  /\ spc[c] \in {"answer", "relay", "resolve"} => skey[c] # NoKey
  /\ spc[c] \in {"close", "done"} /\ skey[c] # NoKey => ~ cliUp
  /\ srvUp => /\ <<c, "conn">> \in sfds <=> spc[c] \notin {"none", "backlog", "done"}
              /\ <<c, "hop">> \in sfds => spc[c] \in {"relay", "resolve", "unwind"}

\* Where the two threads of a connection can be at the same time, while both processes run.
SyncInv(c) ==
  cliUp /\ srvUp =>
    /\ cpc[c] = "query" => spc[c] \in {"backlog", "recv"}
    /\ spc[c] \in {"backlog", "recv"} => \/ cpc[c] = "query" /\ up[c] = "none"
                                         \/ cpc[c] = "reply" /\ up[c] = "query"
    /\ spc[c] \in Auth => cpc[c] = "reply" /\ up[c] = "none"
    /\ cpc[c] = "dns" => down[c][1] = "none"
    /\ (spc[c] = "relay" /\ up[c] = "dns") \/ spc[c] = "resolve" => cpc[c] = "dnswait" /\ down[c][1] = "none"
    /\ spc[c] = "resolve" => up[c] # "dns"

\* The key a client has, or will read, is the server's.
KeyInv(c) ==
  spc[c] \in {"relay", "resolve"} =>
    /\ down[c][1] = "key" => down[c][2] = skey[c]
    /\ cpc[c] \in {"dns", "dnswait", "relay"} => ckey[c] = skey[c]

ConnInv(c) == CliInv(c) /\ SrvInv(c) /\ SyncInv(c) /\ KeyInv(c)

USE SessionAssumption
-----------------------------------------------------------------------------
(* Types *)

LEMMA TypeInit == Init => TypeOK
<1> SUFFICES ASSUME Init PROVE TypeOK
  OBVIOUS
<1>0. NoKey \in Key /\ \A k \in Key : <<"none", k>> \in {"none", "key", "reject", "addr"} \X Key
  BY DEF NoKey, Key
<1>1. PlaceOK
  BY DEF Init, PlaceOK, CliPlaces, SrvPlaces
<1>2. DataOK
  BY DEF Init, DataOK
<1>3. KeyOK
  BY <1>0 DEF Init, KeyOK
<1> QED
  BY <1>1, <1>2, <1>3 DEF TypeOK

LEMMA PlaceStep == PlaceOK /\ [Next]_vars => PlaceOK'
<1> SUFFICES ASSUME PlaceOK, [Next]_vars PROVE PlaceOK'
  OBVIOUS
<1> USE DEF PlaceOK, CliPlaces, SrvPlaces, appVars, cliVars, srvVars
<1>1. ASSUME NEW c \in Conn, AppGone(c) \/ Accept(c) \/ Handshake(c) \/ Request(c) PROVE PlaceOK'
  BY <1>1 DEF AppGone, Accept, Handshake, Request, Exchange, KillClient
<1>2. ASSUME NEW c \in Conn, Dial(c) \/ Query(c) PROVE PlaceOK'
  BY <1>2 DEF Dial, Query, KillClient, Leak
<1>3. ASSUME NEW c \in Conn, Reply(c) PROVE PlaceOK'
  BY <1>3 DEF Reply, Leak, AfterAuth
<1>4. ASSUME NEW c \in Conn, Dns(c) \/ DnsReply(c) \/ Data(c) \/ RelayEnd(c) PROVE PlaceOK'
  BY <1>4 DEF Dns, DnsReply, Data, RelayEnd
<1>5. ASSUME NEW c \in Conn, Unwind(c) \/ Close(c) PROVE PlaceOK'
  BY <1>5 DEF Unwind, Close
<1>6. ASSUME NEW c \in Conn, SAccept(c) \/ SRecv(c) PROVE PlaceOK'
  BY <1>6 DEF SAccept, SRecv, KillServer
<1>7. ASSUME NEW c \in Conn, SSeed(c) \/ SDraw(c) PROVE PlaceOK'
  BY <1>7 DEF SSeed, SDraw
<1>8. ASSUME NEW c \in Conn, SAnswer(c) \/ SRefuse(c) \/ SResolve(c) PROVE PlaceOK'
  BY <1>8 DEF SAnswer, SRefuse, SResolve, SWriteFails, KillServer
<1>9. ASSUME NEW c \in Conn, SDns(c) \/ SData(c) \/ SRelayEnd(c) PROVE PlaceOK'
  BY <1>9 DEF SDns, SData, SRelayEnd, SWriteFails, KillServer
<1>10. ASSUME NEW c \in Conn, SUnwind(c) \/ SClose(c) PROVE PlaceOK'
  BY <1>10 DEF SUnwind, SClose
<1>11. CASE UNCHANGED vars
  BY <1>11 DEF vars
<1> HIDE DEF PlaceOK, CliPlaces, SrvPlaces, appVars, cliVars, srvVars
<1> QED
  BY <1>1, <1>2, <1>3, <1>4, <1>5, <1>6, <1>7, <1>8, <1>9, <1>10, <1>11 DEF Next, Client, Server

LEMMA DataStep == DataOK /\ [Next]_vars => DataOK'
<1> SUFFICES ASSUME DataOK, [Next]_vars PROVE DataOK'
  OBVIOUS
<1> USE DEF DataOK, appVars, cliVars, srvVars
<1>1. ASSUME NEW c \in Conn, AppGone(c) \/ Accept(c) \/ Handshake(c) \/ Request(c) PROVE DataOK'
  BY <1>1 DEF AppGone, Accept, Handshake, Request, Exchange, KillClient
<1>2. ASSUME NEW c \in Conn, Dial(c) \/ Query(c) PROVE DataOK'
  BY <1>2 DEF Dial, Query, KillClient, Leak
<1>3. ASSUME NEW c \in Conn, Reply(c) PROVE DataOK'
  BY <1>3 DEF Reply, Leak, AfterAuth
<1>4. ASSUME NEW c \in Conn, Dns(c) \/ DnsReply(c) \/ Data(c) \/ RelayEnd(c) PROVE DataOK'
  BY <1>4 DEF Dns, DnsReply, Data, RelayEnd
<1>5. ASSUME NEW c \in Conn, Unwind(c) \/ Close(c) PROVE DataOK'
  BY <1>5 DEF Unwind, Close
<1>6. ASSUME NEW c \in Conn, SAccept(c) \/ SRecv(c) PROVE DataOK'
  BY <1>6 DEF SAccept, SRecv, KillServer
<1>7. ASSUME NEW c \in Conn, SSeed(c) \/ SDraw(c) PROVE DataOK'
  BY <1>7 DEF SSeed, SDraw
<1>8. ASSUME NEW c \in Conn, SAnswer(c) \/ SRefuse(c) \/ SResolve(c) PROVE DataOK'
  BY <1>8 DEF SAnswer, SRefuse, SResolve, SWriteFails, KillServer
<1>9. ASSUME NEW c \in Conn, SDns(c) \/ SData(c) \/ SRelayEnd(c) PROVE DataOK'
  BY <1>9 DEF SDns, SData, SRelayEnd, SWriteFails, KillServer
<1>10. ASSUME NEW c \in Conn, SUnwind(c) \/ SClose(c) PROVE DataOK'
  BY <1>10 DEF SUnwind, SClose
<1>11. CASE UNCHANGED vars
  BY <1>11 DEF vars
<1> HIDE DEF DataOK, appVars, cliVars, srvVars
<1> QED
  BY <1>1, <1>2, <1>3, <1>4, <1>5, <1>6, <1>7, <1>8, <1>9, <1>10, <1>11 DEF Next, Client, Server

LEMMA KeyStep == KeyOK /\ [Next]_vars => KeyOK'
<1> SUFFICES ASSUME KeyOK, [Next]_vars PROVE KeyOK'
  OBVIOUS
<1> USE DEF KeyOK, appVars, cliVars, srvVars
<1>0. /\ NoKey \in Key
      /\ \A x \in {"none", "key", "reject", "addr"}, k \in Key : <<x, k>> \in {"none", "key", "reject", "addr"} \X Key
      /\ \A c \in Conn : down[c][2] \in Key
      /\ \A s \in Seed : <<s, 0>> \in Key
      /\ <<rnd[1], rnd[2] + 1>> \in Key
  <2>1. NoKey \in Key /\ \A s \in Seed : <<s, 0>> \in Key
    BY DEF NoKey, Key
  <2>2. \A c \in Conn : down[c][2] \in Key
    OBVIOUS
  <2>3. rnd[1] \in Nat /\ rnd[2] \in Nat
    BY DEF Key
  <2>4. <<rnd[1], rnd[2] + 1>> \in Key
    BY <2>3 DEF Key
  <2> QED
    BY <2>1, <2>2, <2>4
<1>1. ASSUME NEW c \in Conn, AppGone(c) \/ Accept(c) \/ Handshake(c) \/ Request(c) PROVE KeyOK'
  BY <1>1 DEF AppGone, Accept, Handshake, Request, Exchange, KillClient
<1>2. ASSUME NEW c \in Conn, Dial(c) \/ Query(c) PROVE KeyOK'
  BY <1>2 DEF Dial, Query, KillClient, Leak
<1>3. ASSUME NEW c \in Conn, Reply(c) PROVE KeyOK'
  BY <1>0, <1>3 DEF Reply, Leak, AfterAuth
<1>4. ASSUME NEW c \in Conn, Dns(c) \/ DnsReply(c) \/ Data(c) \/ RelayEnd(c) PROVE KeyOK'
  BY <1>0, <1>4 DEF Dns, DnsReply, Data, RelayEnd
<1>5. ASSUME NEW c \in Conn, Unwind(c) \/ Close(c) PROVE KeyOK'
  BY <1>0, <1>5 DEF Unwind, Close
<1>6. ASSUME NEW c \in Conn, SAccept(c) \/ SRecv(c) PROVE KeyOK'
  BY <1>6 DEF SAccept, SRecv, KillServer
<1>7. ASSUME NEW c \in Conn, SSeed(c) \/ SDraw(c) PROVE KeyOK'
  <2>1. CASE SSeed(c)
    BY <1>0, <2>1 DEF SSeed
  <2>2. CASE SDraw(c)
    <3>1. rnd' = <<rnd[1], rnd[2] + 1>> /\ skey' = [skey EXCEPT ![c] = rnd'] /\ UNCHANGED <<ckey, down>>
      BY <2>2 DEF SDraw
    <3>2. rnd' \in Key
      BY <1>0, <3>1
    <3> QED
      BY <3>1, <3>2
  <2> QED
    BY <1>7, <2>1, <2>2
<1>8. ASSUME NEW c \in Conn, SAnswer(c) \/ SRefuse(c) \/ SResolve(c) PROVE KeyOK'
  BY <1>0, <1>8 DEF SAnswer, SRefuse, SResolve, SWriteFails, KillServer
<1>9. ASSUME NEW c \in Conn, SDns(c) \/ SData(c) \/ SRelayEnd(c) PROVE KeyOK'
  BY <1>9 DEF SDns, SData, SRelayEnd, SWriteFails, KillServer
<1>10. ASSUME NEW c \in Conn, SUnwind(c) \/ SClose(c) PROVE KeyOK'
  BY <1>0, <1>10 DEF SUnwind, SClose
<1>11. CASE UNCHANGED vars
  BY <1>11 DEF vars
<1> HIDE DEF KeyOK, appVars, cliVars, srvVars
<1> QED
  BY <1>1, <1>2, <1>3, <1>4, <1>5, <1>6, <1>7, <1>8, <1>9, <1>10, <1>11 DEF Next, Client, Server

-----------------------------------------------------------------------------
(* The client's part of the invariant, and what a step of one connection leaves alone *)

LEMMA CliStep ==
  ASSUME TypeOK, \A c \in Conn : ConnInv(c), [Next]_vars, NEW d \in Conn
  PROVE  CliInv(d)'
<1>0. TypeOK /\ ConnInv(d) /\ \A c \in Conn : ConnInv(c)
  OBVIOUS
<1> USE DEF TypeOK, PlaceOK, DataOK, KeyOK, ConnInv, CliInv, Held, Early, appVars, cliVars, srvVars
<1>1. ASSUME NEW c \in Conn, AppGone(c) \/ Accept(c) PROVE CliInv(d)'
  BY <1>0, <1>1 DEF AppGone, Accept
<1>12. ASSUME NEW c \in Conn, Handshake(c) PROVE CliInv(d)'
  BY <1>0, <1>12 DEF Handshake, Exchange, KillClient
<1>13. ASSUME NEW c \in Conn, Request(c) PROVE CliInv(d)'
  BY <1>0, <1>13 DEF Request, Exchange, KillClient
<1>2. ASSUME NEW c \in Conn, Dial(c) \/ Query(c) PROVE CliInv(d)'
  BY <1>0, <1>2 DEF Dial, Query, KillClient, Leak
<1>3. ASSUME NEW c \in Conn, Reply(c) PROVE CliInv(d)'
  BY <1>0, <1>3 DEF Reply, Leak, AfterAuth
<1>4. ASSUME NEW c \in Conn, Dns(c) \/ DnsReply(c) \/ Data(c) \/ RelayEnd(c) PROVE CliInv(d)'
  BY <1>0, <1>4 DEF Dns, DnsReply, Data, RelayEnd
<1>5. ASSUME NEW c \in Conn, Unwind(c) \/ Close(c) PROVE CliInv(d)'
  BY <1>0, <1>5 DEF Unwind, Close
<1>6. ASSUME NEW c \in Conn, SAccept(c) \/ SRecv(c) PROVE CliInv(d)'
  BY <1>0, <1>6 DEF SAccept, SRecv, KillServer
<1>7. ASSUME NEW c \in Conn, SSeed(c) \/ SDraw(c) PROVE CliInv(d)'
  BY <1>0, <1>7 DEF SSeed, SDraw
<1>8. ASSUME NEW c \in Conn, SAnswer(c) \/ SRefuse(c) \/ SResolve(c) PROVE CliInv(d)'
  BY <1>0, <1>8 DEF SAnswer, SRefuse, SResolve, SWriteFails, KillServer
<1>9. ASSUME NEW c \in Conn, SDns(c) \/ SData(c) \/ SRelayEnd(c) PROVE CliInv(d)'
  BY <1>0, <1>9 DEF SDns, SData, SRelayEnd, SWriteFails, KillServer
<1>10. ASSUME NEW c \in Conn, SUnwind(c) \/ SClose(c) PROVE CliInv(d)'
  BY <1>0, <1>10 DEF SUnwind, SClose
<1>11. CASE UNCHANGED vars
  BY <1>0, <1>11 DEF vars
<1> HIDE DEF TypeOK, PlaceOK, DataOK, KeyOK, ConnInv, CliInv, Held, Early, appVars, cliVars, srvVars
<1> QED
  BY <1>1, <1>2, <1>3, <1>4, <1>5, <1>6, <1>7, <1>8, <1>9, <1>10, <1>11, <1>12, <1>13 DEF Next, Client, Server

\* The two processes share no variables but the packets on their way.
LEMMA ClientKeeps ==
  ASSUME NEW c \in Conn, AppGone(c) \/ Accept(c) \/ Handshake(c) \/ Request(c) \/ Data(c) \/ Client(c)
  PROVE  UNCHANGED <<room, srvUp, sfds>>
<1>1. CASE AppGone(c) \/ Accept(c) \/ Handshake(c) \/ Request(c) \/ Data(c)
  BY <1>1 DEF AppGone, Accept, Handshake, Request, Exchange, Data, appVars, srvVars
<1>2. CASE Dial(c) \/ Query(c) \/ Reply(c) \/ Dns(c)
  BY <1>2 DEF Dial, Query, Reply, Dns, appVars, srvVars
<1>3. CASE DnsReply(c) \/ RelayEnd(c) \/ Unwind(c) \/ Close(c)
  BY <1>3 DEF DnsReply, RelayEnd, Unwind, Close, appVars, srvVars
<1> QED
  BY <1>1, <1>2, <1>3 DEF Client

LEMMA ServerKeeps ==
  ASSUME NEW c \in Conn, Server(c)
  PROVE  UNCHANGED <<room, cliUp, cpc, cfds>>
<1>1. CASE SAccept(c) \/ SRecv(c) \/ SSeed(c) \/ SDraw(c)
  BY <1>1 DEF SAccept, SRecv, SSeed, SDraw, appVars, cliVars
<1>2. CASE SAnswer(c) \/ SRefuse(c) \/ SDns(c) \/ SResolve(c)
  BY <1>2 DEF SAnswer, SRefuse, SDns, SResolve, appVars, cliVars
<1>3. CASE SData(c) \/ SRelayEnd(c) \/ SUnwind(c) \/ SClose(c)
  BY <1>3 DEF SData, SRelayEnd, SUnwind, SClose, appVars, cliVars
<1> QED
  BY <1>1, <1>2, <1>3 DEF Server

\* What a step of another connection leaves alone, unless a process dies.
Apart(d) ==
  /\ cpc'[d] = cpc[d] /\ spc'[d] = spc[d] /\ up'[d] = up[d] /\ down'[d] = down[d]
  /\ skey'[d] = skey[d] /\ ckey'[d] = ckey[d]
  /\ cliUp' => cliUp /\ (<<d, "tun">> \in cfds' <=> <<d, "tun">> \in cfds)
  /\ srvUp' => /\ srvUp /\ (<<d, "conn">> \in sfds' <=> <<d, "conn">> \in sfds)
               /\ (<<d, "hop">> \in sfds' <=> <<d, "hop">> \in sfds)

\* A step of one connection leaves the others alone, unless a process dies.
LEMMA Frame ==
  ASSUME TypeOK, NEW c \in Conn, AppGone(c) \/ Accept(c) \/ Handshake(c) \/ Request(c) \/ Data(c) \/ Client(c) \/ Server(c), NEW d \in Conn \ {c}
  PROVE  Apart(d)
<1>0. PlaceOK /\ DataOK /\ KeyOK
  BY DEF TypeOK
<1> USE DEF Apart, PlaceOK, DataOK, KeyOK, appVars, cliVars, srvVars
<1>1. CASE AppGone(c)
  BY <1>0, <1>1 DEF AppGone
<1>2. CASE Accept(c)
  BY <1>0, <1>2 DEF Accept
<1>3. CASE Handshake(c)
  BY <1>0, <1>3 DEF Handshake, Exchange, KillClient
<1>4. CASE Request(c)
  BY <1>0, <1>4, ZenonT(60) DEF Request, Exchange, KillClient
<1>5. CASE Dial(c)
  BY <1>0, <1>5 DEF Dial, Leak
<1>6. CASE Query(c)
  BY <1>0, <1>6, ZenonT(60) DEF Query, KillClient, Leak
<1>7. CASE Reply(c)
  BY <1>0, <1>7 DEF Reply, Leak, AfterAuth
<1>8. CASE Dns(c)
  BY <1>0, <1>8 DEF Dns
<1>9. CASE DnsReply(c)
  BY <1>0, <1>9 DEF DnsReply
<1>10. CASE Data(c)
  BY <1>0, <1>10 DEF Data
<1>11. CASE RelayEnd(c)
  BY <1>0, <1>11 DEF RelayEnd
<1>12. CASE Unwind(c)
  BY <1>0, <1>12 DEF Unwind
<1>13. CASE Close(c)
  BY <1>0, <1>13 DEF Close
<1>14. CASE SAccept(c)
  BY <1>0, <1>14, ZenonT(60) DEF SAccept, KillServer
<1>15. CASE SRecv(c)
  BY <1>0, <1>15 DEF SRecv
<1>16. CASE SSeed(c)
  BY <1>0, <1>16 DEF SSeed
<1>17. CASE SDraw(c)
  BY <1>0, <1>17 DEF SDraw
<1>18. CASE SAnswer(c)
  BY <1>0, <1>18, ZenonT(60) DEF SAnswer, SWriteFails, KillServer
<1>19. CASE SRefuse(c)
  BY <1>0, <1>19, ZenonT(60) DEF SRefuse, SWriteFails, KillServer
<1>20. CASE SResolve(c)
  BY <1>0, <1>20, ZenonT(60) DEF SResolve, SWriteFails, KillServer
<1>21. CASE SDns(c)
  BY <1>0, <1>21 DEF SDns
<1>22. CASE SData(c)
  BY <1>0, <1>22 DEF SData, KillServer
<1>23. CASE SRelayEnd(c)
  BY <1>0, <1>23, ZenonT(60) DEF SRelayEnd, SWriteFails, KillServer
<1>24. CASE SUnwind(c)
  BY <1>0, <1>24 DEF SUnwind
<1>25. CASE SClose(c)
  BY <1>0, <1>25 DEF SClose
<1> HIDE DEF Apart, PlaceOK, DataOK, KeyOK, appVars, cliVars, srvVars
<1> QED
  BY <1>1, <1>2, <1>3, <1>4, <1>5, <1>6, <1>7, <1>8, <1>9, <1>10, <1>11, <1>12, <1>13, <1>14, <1>15, <1>16, <1>17, <1>18, <1>19, <1>20, <1>21, <1>22, <1>23, <1>24, <1>25 DEF Client, Server
-----------------------------------------------------------------------------
(* The server, where the two threads of a connection can be, and the key they share *)

\* A number drawn is not the empty key.
LEMMA DrawnIsKey == \A r \in Key : <<r[1], r[2] + 1>> # NoKey
<1> SUFFICES ASSUME NEW r \in Key PROVE r[2] + 1 # 0
  BY DEF NoKey
<1>1. r[2] \in Nat
  BY DEF Key
<1> QED
  BY <1>1

LEMMA SrvStepOwn ==
  ASSUME TypeOK, NEW c \in Conn, ConnInv(c), AppGone(c) \/ Accept(c) \/ Handshake(c) \/ Request(c) \/ Data(c) \/ Client(c) \/ Server(c)
  PROVE  SrvInv(c)'
<1>0. PlaceOK /\ DataOK /\ KeyOK /\ CliInv(c) /\ SrvInv(c) /\ SyncInv(c)
  BY DEF TypeOK, ConnInv
<1> USE DEF PlaceOK, DataOK, KeyOK, CliInv, SrvInv, SyncInv, Held, Early, Auth, CliClosed, SrvOpen, appVars, cliVars, srvVars
<1>1. CASE AppGone(c)
  BY <1>0, <1>1 DEF AppGone
<1>2. CASE Accept(c)
  BY <1>0, <1>2 DEF Accept
<1>3. CASE Handshake(c)
  BY <1>0, <1>3 DEF Handshake, Exchange, KillClient
<1>4. CASE Request(c)
  BY <1>0, <1>4 DEF Request, Exchange, KillClient
<1>5. CASE Dial(c)
  BY <1>0, <1>5 DEF Dial, Leak
<1>6. CASE Query(c)
  BY <1>0, <1>6, ZenonT(60) DEF Query, KillClient, Leak
<1>7. CASE Reply(c)
  BY <1>0, <1>7 DEF Reply, Leak, AfterAuth
<1>8. CASE Dns(c)
  BY <1>0, <1>8 DEF Dns
<1>9. CASE DnsReply(c)
  BY <1>0, <1>9 DEF DnsReply
<1>10. CASE Data(c)
  BY <1>0, <1>10 DEF Data
<1>11. CASE RelayEnd(c)
  BY <1>0, <1>11 DEF RelayEnd
<1>12. CASE Unwind(c)
  BY <1>0, <1>12 DEF Unwind
<1>13. CASE Close(c)
  BY <1>0, <1>13 DEF Close
<1>14. CASE SAccept(c)
  BY <1>0, <1>14, ZenonT(60) DEF SAccept, KillServer
<1>15. CASE SRecv(c)
  BY <1>0, <1>15 DEF SRecv
<1>16. CASE SSeed(c)
  BY <1>0, <1>16 DEF SSeed
<1>17. CASE SDraw(c)
  <2>1. <<rnd[1], rnd[2] + 1>> # NoKey
    BY <1>0, DrawnIsKey DEF KeyOK
  <2> HIDE DEF NoKey
  <2>2. /\ spc[c] = "draw" /\ spc'[c] = "answer" /\ skey'[c] # NoKey
        /\ UNCHANGED <<cliUp, cpc, up, down, srvUp, sfds>>
    BY <1>0, <1>17, <2>1 DEF SDraw
  <2> QED
    BY <1>0, <2>2
<1>18. CASE SAnswer(c)
  BY <1>0, <1>18, ZenonT(60) DEF SAnswer, SWriteFails, KillServer
<1>19. CASE SRefuse(c)
  BY <1>0, <1>19, ZenonT(60) DEF SRefuse, SWriteFails, KillServer
<1>20. CASE SResolve(c)
  BY <1>0, <1>20, ZenonT(60) DEF SResolve, SWriteFails, KillServer
<1>21. CASE SDns(c)
  BY <1>0, <1>21 DEF SDns
<1>22. CASE SData(c)
  BY <1>0, <1>22 DEF SData, KillServer
<1>23. CASE SRelayEnd(c)
  BY <1>0, <1>23, ZenonT(60) DEF SRelayEnd, SWriteFails, KillServer
<1>24. CASE SUnwind(c)
  BY <1>0, <1>24 DEF SUnwind
<1>25. CASE SClose(c)
  BY <1>0, <1>25 DEF SClose
<1> HIDE DEF PlaceOK, DataOK, KeyOK, CliInv, SrvInv, SyncInv, Held, Early, Auth, CliClosed, SrvOpen, appVars, cliVars, srvVars
<1> QED
  BY <1>1, <1>2, <1>3, <1>4, <1>5, <1>6, <1>7, <1>8, <1>9, <1>10, <1>11, <1>12, <1>13, <1>14, <1>15, <1>16, <1>17, <1>18, <1>19, <1>20, <1>21, <1>22, <1>23, <1>24, <1>25 DEF Client, Server

LEMMA SyncStepOwn ==
  ASSUME TypeOK, NEW c \in Conn, ConnInv(c), AppGone(c) \/ Accept(c) \/ Handshake(c) \/ Request(c) \/ Data(c) \/ Client(c) \/ Server(c)
  PROVE  SyncInv(c)'
<1>0. PlaceOK /\ DataOK /\ KeyOK /\ CliInv(c) /\ SrvInv(c) /\ SyncInv(c)
  BY DEF TypeOK, ConnInv
<1> USE DEF PlaceOK, DataOK, KeyOK, CliInv, SrvInv, SyncInv, Held, Early, Auth, CliClosed, SrvOpen, appVars, cliVars, srvVars
<1>1. CASE AppGone(c)
  BY <1>0, <1>1 DEF AppGone
<1>2. CASE Accept(c)
  BY <1>0, <1>2 DEF Accept
<1>3. CASE Handshake(c)
  BY <1>0, <1>3 DEF Handshake, Exchange, KillClient
<1>4. CASE Request(c)
  BY <1>0, <1>4 DEF Request, Exchange, KillClient
<1>5. CASE Dial(c)
  BY <1>0, <1>5 DEF Dial, Leak
<1>6. CASE Query(c)
  BY <1>0, <1>6 DEF Query, KillClient, Leak
<1>7. CASE Reply(c)
  BY <1>0, <1>7 DEF Reply, Leak, AfterAuth
<1>8. CASE Dns(c)
  BY <1>0, <1>8 DEF Dns
<1>9. CASE DnsReply(c)
  BY <1>0, <1>9 DEF DnsReply
<1>10. CASE Data(c)
  BY <1>0, <1>10 DEF Data
<1>11. CASE RelayEnd(c)
  BY <1>0, <1>11 DEF RelayEnd
<1>12. CASE Unwind(c)
  BY <1>0, <1>12 DEF Unwind
<1>13. CASE Close(c)
  BY <1>0, <1>13 DEF Close
<1>14. CASE SAccept(c)
  BY <1>0, <1>14 DEF SAccept, KillServer
<1>15. CASE SRecv(c)
  BY <1>0, <1>15 DEF SRecv
<1>16. CASE SSeed(c)
  BY <1>0, <1>16 DEF SSeed
<1>17. CASE SDraw(c)
  BY <1>0, <1>17 DEF SDraw
<1>18. CASE SAnswer(c)
  BY <1>0, <1>18 DEF SAnswer, SWriteFails, KillServer
<1>19. CASE SRefuse(c)
  BY <1>0, <1>19 DEF SRefuse, SWriteFails, KillServer
<1>20. CASE SResolve(c)
  BY <1>0, <1>20 DEF SResolve, SWriteFails, KillServer
<1>21. CASE SDns(c)
  BY <1>0, <1>21 DEF SDns
<1>22. CASE SData(c)
  BY <1>0, <1>22 DEF SData, KillServer
<1>23. CASE SRelayEnd(c)
  BY <1>0, <1>23 DEF SRelayEnd, SWriteFails, KillServer
<1>24. CASE SUnwind(c)
  BY <1>0, <1>24 DEF SUnwind
<1>25. CASE SClose(c)
  BY <1>0, <1>25 DEF SClose
<1> HIDE DEF PlaceOK, DataOK, KeyOK, CliInv, SrvInv, SyncInv, Held, Early, Auth, CliClosed, SrvOpen, appVars, cliVars, srvVars
<1> QED
  BY <1>1, <1>2, <1>3, <1>4, <1>5, <1>6, <1>7, <1>8, <1>9, <1>10, <1>11, <1>12, <1>13, <1>14, <1>15, <1>16, <1>17, <1>18, <1>19, <1>20, <1>21, <1>22, <1>23, <1>24, <1>25 DEF Client, Server

LEMMA KeyStepOwn ==
  ASSUME TypeOK, NEW c \in Conn, ConnInv(c), AppGone(c) \/ Accept(c) \/ Handshake(c) \/ Request(c) \/ Data(c) \/ Client(c) \/ Server(c)
  PROVE  KeyInv(c)'
<1>0. /\ KeyInv(c)
      /\ spc[c] = "answer" => cpc[c] \notin {"dns", "dnswait", "relay"}
  BY DEF ConnInv, SrvInv, Auth
<1>T. /\ cpc \in [Conn -> CliPlaces] /\ spc \in [Conn -> SrvPlaces] /\ ckey \in [Conn -> Key] /\ skey \in [Conn -> Key]
      /\ down \in [Conn -> {"none", "key", "reject", "addr"} \X Key]
  BY DEF TypeOK, PlaceOK, KeyOK
<1>1. CASE AppGone(c) \/ Accept(c) \/ Handshake(c) \/ Request(c) \/ Query(c) \/ RelayEnd(c) \/ Data(c) \/ Close(c)
  <2>1. UNCHANGED <<spc, down, skey, ckey>>
    BY <1>1 DEF AppGone, Accept, Handshake, Request, Exchange, Query, RelayEnd, Data, Close, cliVars, srvVars
  <2>2. cpc' = cpc \/ \E p \in {"shake", "req", "dial", "reply", "unwind", "close", "done"} : cpc' = [cpc EXCEPT ![c] = p]
    BY <1>1 DEF AppGone, Accept, Handshake, Request, Exchange, Query, Leak, RelayEnd, Data, Close, cliVars
  <2>3. cpc'[c] = cpc[c] \/ cpc'[c] \notin {"dns", "dnswait", "relay"}
    BY <1>T, <2>2
  <2> QED
    BY <1>0, <2>1, <2>3 DEF KeyInv
<1>2. CASE Dial(c)
  <2>1. /\ UNCHANGED <<down, skey, ckey>>
        /\ spc' = spc \/ spc' = [spc EXCEPT ![c] = "backlog"]
        /\ cpc' = [cpc EXCEPT ![c] = "query"] \/ cpc' = [cpc EXCEPT ![c] = "close"]
    BY <1>2 DEF Dial, Leak
  <2>2. (spc'[c] = spc[c] \/ spc'[c] = "backlog") /\ cpc'[c] \notin {"dns", "dnswait", "relay"}
    BY <1>T, <2>1
  <2> QED
    BY <1>0, <2>1, <2>2 DEF KeyInv
<1>3. CASE Reply(c)
  <2>1. /\ UNCHANGED <<spc, skey>> /\ down' = [down EXCEPT ![c] = <<"none", NoKey>>]
        /\ \/ down[c][1] = "key" /\ ckey' = [ckey EXCEPT ![c] = down[c][2]]
           \/ cpc' = [cpc EXCEPT ![c] = "close"]
    BY <1>3 DEF Reply, Leak, srvVars
  <2>2. down'[c][1] = "none" /\ ((down[c][1] = "key" /\ ckey'[c] = down[c][2]) \/ cpc'[c] = "close")
    BY <1>T, <2>1
  <2> QED
    BY <1>0, <2>1, <2>2 DEF KeyInv
<1>4. CASE Dns(c) \/ DnsReply(c)
  <2>1. /\ UNCHANGED <<spc, skey, ckey>> /\ cpc[c] \in {"dns", "dnswait"}
        /\ down' = down \/ down' = [down EXCEPT ![c] = <<"none", NoKey>>]
    BY <1>4 DEF Dns, DnsReply, srvVars
  <2>2. down'[c] = down[c] \/ down'[c][1] = "none"
    BY <1>T, <2>1
  <2> QED
    BY <1>0, <2>1, <2>2 DEF KeyInv
<1>5. CASE Unwind(c)
  <2>1. UNCHANGED <<spc, down, skey>> /\ cpc' = [cpc EXCEPT ![c] = "close"]
    BY <1>5 DEF Unwind, srvVars
  <2>2. cpc'[c] = "close"
    BY <1>T, <2>1
  <2> QED
    BY <1>0, <2>1, <2>2 DEF KeyInv
<1>6. CASE SAccept(c) \/ SRecv(c) \/ SSeed(c) \/ SDraw(c) \/ SRefuse(c) \/ SUnwind(c) \/ SClose(c)
  <2>1. \/ spc' = spc /\ spc[c] \in {"backlog", "refuse"}
        \/ \E p \in {"recv", "seed", "refuse", "draw", "answer", "close", "done"} : spc' = [spc EXCEPT ![c] = p]
    BY <1>6 DEF SAccept, SRecv, SSeed, SDraw, SRefuse, SWriteFails, SUnwind, SClose
  <2>2. spc'[c] \notin {"relay", "resolve"}
    BY <1>T, <2>1
  <2> QED
    BY <2>2 DEF KeyInv
<1>7. CASE SAnswer(c)
  <2>1. /\ UNCHANGED <<cpc, ckey, skey>> /\ spc[c] = "answer"
        /\ down' = [down EXCEPT ![c] = <<"key", skey[c]>>] \/ spc' = [spc EXCEPT ![c] = "close"] \/ spc' = spc
    BY <1>7, ZenonT(60) DEF SAnswer, SWriteFails, cliVars
  <2>a. down' = [down EXCEPT ![c] = <<"key", skey[c]>>] => down'[c] = <<"key", skey[c]>>
    BY <1>T
  <2>b. spc' = [spc EXCEPT ![c] = "close"] \/ spc' = spc => spc'[c] \in {"answer", "close"}
    BY <1>T, <2>1
  <2>2. down'[c] = <<"key", skey[c]>> \/ spc'[c] \in {"answer", "close"}
    BY <2>1, <2>a, <2>b, Zenon
  <2>3. cpc'[c] \notin {"dns", "dnswait", "relay"} /\ skey'[c] = skey[c]
    BY <1>0, <2>1
  <2>4. CASE down'[c] = <<"key", skey[c]>>
    <3>1. down'[c][2] = skey'[c]
      BY <2>3, <2>4
    <3> QED
      BY <2>3, <3>1 DEF KeyInv
  <2>5. CASE spc'[c] \in {"answer", "close"}
    BY <2>5 DEF KeyInv
  <2> QED
    BY <2>2, <2>4, <2>5
<1>8. CASE SDns(c) \/ SResolve(c) \/ SData(c) \/ SRelayEnd(c)
  <2>1. /\ UNCHANGED <<cpc, ckey, skey>> /\ spc[c] \in {"relay", "resolve"}
        /\ down' = down \/ down' = [down EXCEPT ![c] = <<"addr", NoKey>>]
    BY <1>8 DEF SDns, SResolve, SData, SRelayEnd, SWriteFails, cliVars
  <2>2. down'[c] = down[c] \/ down'[c][1] = "addr"
    BY <1>T, <2>1
  <2> QED
    BY <1>0, <2>1, <2>2 DEF KeyInv
<1> QED
  BY <1>1, <1>2, <1>3, <1>4, <1>5, <1>6, <1>7, <1>8 DEF Client, Server

LEMMA KeyAgree ==
  ASSUME TypeOK, \A c \in Conn : ConnInv(c), [Next]_vars, NEW d \in Conn
  PROVE  KeyInv(d)'
<1>0. KeyInv(d)
  BY DEF ConnInv
<1>1. ASSUME NEW c \in Conn, AppGone(c) \/ Accept(c) \/ Handshake(c) \/ Request(c) \/ Data(c) \/ Client(c) \/ Server(c)
      PROVE  KeyInv(d)'
  <2>1. CASE c = d
    BY <1>1, <2>1, KeyStepOwn
  <2>2. CASE c # d
    <3>1. cpc'[d] = cpc[d] /\ spc'[d] = spc[d] /\ down'[d] = down[d] /\ skey'[d] = skey[d] /\ ckey'[d] = ckey[d]
      BY <1>1, <2>2, Frame, ZenonT(60) DEF Apart
    <3> QED
      BY <1>0, <3>1 DEF KeyInv
  <2> QED
    BY <2>1, <2>2
<1>2. CASE UNCHANGED vars
  BY <1>0, <1>2 DEF KeyInv, vars, cliVars, srvVars
<1> QED
  BY <1>1, <1>2 DEF Next

-----------------------------------------------------------------------------
(* The descriptor tables *)

FdInv == Cardinality(cfds) <= MaxFd /\ Cardinality(sfds) <= MaxSrvFd

LEMMA RoomNat == room \in Room => MaxFd \in Nat \ {0} /\ MaxSrvFd \in Nat \ {0}
  BY DEF MaxFd, MaxSrvFd

LEMMA FdFinite == PlaceOK => /\ IsFiniteSet(cfds) /\ IsFiniteSet(sfds)
                             /\ Cardinality(cfds) \in Nat /\ Cardinality(sfds) \in Nat
<1>1. IsFiniteSet({"app", "tun"}) /\ IsFiniteSet({"conn", "hop"})
  <2>1. IsFiniteSet({}) /\ IsFiniteSet({} \cup {"app"}) /\ IsFiniteSet({} \cup {"conn"})
    BY FS_EmptySet, FS_AddElement, ZenonT(60)
  <2>2. IsFiniteSet(({} \cup {"app"}) \cup {"tun"}) /\ IsFiniteSet(({} \cup {"conn"}) \cup {"hop"})
    BY <2>1, FS_AddElement, ZenonT(60)
  <2>3. ({} \cup {"app"}) \cup {"tun"} = {"app", "tun"} /\ ({} \cup {"conn"}) \cup {"hop"} = {"conn", "hop"}
    OBVIOUS
  <2> QED
    BY <2>2, <2>3
<1>2. IsFiniteSet(Conn \X {"app", "tun"}) /\ IsFiniteSet(Conn \X {"conn", "hop"})
  BY <1>1, FS_Product
<1> QED
  BY <1>2, FS_Subset, FS_CardinalityType DEF PlaceOK

\* A table gets at most one descriptor more, and only where there is room.
LEMMA FdGrows ==
  ASSUME NEW S, IsFiniteSet(S), NEW x, NEW m \in Nat, Cardinality(S) < m
  PROVE  Cardinality(S \cup {x}) <= m
<1>1. Cardinality(S) \in Nat /\ Cardinality(S \cup {x}) \in {Cardinality(S), Cardinality(S) + 1}
  BY FS_AddElement, FS_CardinalityType
<1> QED
  BY <1>1

LEMMA FdShrinks ==
  ASSUME NEW S, IsFiniteSet(S), NEW T, T \subseteq S, NEW m \in Nat, Cardinality(S) <= m
  PROVE  Cardinality(T) <= m
<1>1. Cardinality(S) \in Nat /\ Cardinality(T) \in Nat /\ Cardinality(T) <= Cardinality(S)
  BY FS_Subset, FS_CardinalityType
<1> QED
  BY <1>1

LEMMA FdStep == PlaceOK /\ FdInv /\ [Next]_vars => FdInv'
<1> SUFFICES ASSUME PlaceOK, FdInv, [Next]_vars PROVE FdInv'
  OBVIOUS
<1>0. /\ IsFiniteSet(cfds) /\ IsFiniteSet(sfds) /\ MaxFd \in Nat /\ MaxSrvFd \in Nat
      /\ Cardinality(cfds) <= MaxFd /\ Cardinality(sfds) <= MaxSrvFd
  BY FdFinite, RoomNat DEF FdInv, PlaceOK
<1>1. MaxFd' = MaxFd /\ MaxSrvFd' = MaxSrvFd
  <2>1. ASSUME NEW c \in Conn, AppGone(c) \/ Accept(c) \/ Handshake(c) \/ Request(c) \/ Data(c) \/ Client(c) \/ Server(c)
        PROVE  room' = room
    BY <2>1, ClientKeeps, ServerKeeps
  <2>2. room' = room
    BY <2>1 DEF Next, vars, appVars
  <2> QED
    BY <2>2 DEF MaxFd, MaxSrvFd
<1>2. cfds' \subseteq cfds \/ (Cardinality(cfds) < MaxFd /\ \E x : cfds' = cfds \cup {x})
  <2>1. ASSUME NEW c \in Conn, Accept(c) PROVE Cardinality(cfds) < MaxFd /\ cfds' = cfds \cup {<<c, "app">>}
    BY <2>1 DEF Accept
  <2>2. ASSUME NEW c \in Conn, Dial(c)
        PROVE  cfds' = cfds \/ (Cardinality(cfds) < MaxFd /\ cfds' = cfds \cup {<<c, "tun">>})
    BY <2>2 DEF Dial
  <2>3. ASSUME NEW c \in Conn, Handshake(c) \/ Request(c) \/ Query(c) \/ Unwind(c) \/ Close(c) PROVE cfds' \subseteq cfds
    BY <2>3 DEF Handshake, Request, Exchange, Query, KillClient, Unwind, Close
  <2>4. ASSUME NEW c \in Conn, AppGone(c) \/ Reply(c) \/ Dns(c) \/ DnsReply(c) \/ Data(c) \/ RelayEnd(c)
        PROVE  cfds' = cfds
    BY <2>4 DEF AppGone, Reply, Dns, DnsReply, Data, RelayEnd, cliVars
  <2>5. ASSUME NEW c \in Conn, Server(c) PROVE cfds' = cfds
    BY <2>5, ServerKeeps
  <2>6. CASE UNCHANGED vars
    BY <2>6 DEF vars, cliVars
  <2> QED
    BY <2>1, <2>2, <2>3, <2>4, <2>5, <2>6, ZenonT(60) DEF Next, Client
<1>3. sfds' \subseteq sfds \/ (Cardinality(sfds) < MaxSrvFd /\ \E x : sfds' = sfds \cup {x})
  <2>1. ASSUME NEW c \in Conn, SAccept(c)
        PROVE  sfds' = {} \/ (Cardinality(sfds) < MaxSrvFd /\ sfds' = sfds \cup {<<c, "conn">>})
    BY <2>1, ZenonT(60) DEF SAccept, KillServer
  <2>2. ASSUME NEW c \in Conn, SData(c)
        PROVE  sfds' \subseteq sfds \/ (Cardinality(sfds) < MaxSrvFd /\ sfds' = sfds \cup {<<c, "hop">>})
    BY <2>2 DEF SData, KillServer
  <2>3. ASSUME NEW c \in Conn, SAnswer(c) \/ SRefuse(c) \/ SResolve(c) \/ SRelayEnd(c) \/ SUnwind(c) \/ SClose(c)
        PROVE  sfds' \subseteq sfds
    BY <2>3 DEF SAnswer, SRefuse, SResolve, SRelayEnd, SWriteFails, KillServer, SUnwind, SClose
  <2>4. ASSUME NEW c \in Conn, SRecv(c) \/ SSeed(c) \/ SDraw(c) \/ SDns(c) PROVE sfds' = sfds
    BY <2>4 DEF SRecv, SSeed, SDraw, SDns
  <2>5. ASSUME NEW c \in Conn, AppGone(c) \/ Accept(c) \/ Handshake(c) \/ Request(c) \/ Data(c) \/ Client(c)
        PROVE  sfds' = sfds
    BY <2>5, ClientKeeps
  <2>6. CASE UNCHANGED vars
    BY <2>6 DEF vars, srvVars
  <2> QED
    BY <2>1, <2>2, <2>3, <2>4, <2>5, <2>6 DEF Next, Server
<1>4. Cardinality(cfds') <= MaxFd
  BY <1>0, <1>2, FdGrows, FdShrinks, ZenonT(60)
<1>5. Cardinality(sfds') <= MaxSrvFd
  BY <1>0, <1>3, FdGrows, FdShrinks, ZenonT(60)
<1> QED
  BY <1>1, <1>4, <1>5 DEF FdInv
-----------------------------------------------------------------------------
IInv == TypeOK /\ FdInv /\ \A c \in Conn : ConnInv(c)

LEMMA Inductive == IInv /\ [Next]_vars => IInv'
<1> SUFFICES ASSUME IInv, [Next]_vars PROVE IInv'
  OBVIOUS
<1>1. TypeOK' /\ FdInv'
  BY PlaceStep, DataStep, KeyStep, FdStep DEF IInv, TypeOK
<1>2. ASSUME NEW d \in Conn PROVE SrvInv(d)' /\ SyncInv(d)'
  <2>0. TypeOK /\ ConnInv(d)
    BY DEF IInv
  <2>1. CASE UNCHANGED vars
    BY <2>0, <2>1 DEF vars, appVars, cliVars, srvVars, ConnInv, SrvInv, SyncInv
  <2>2. ASSUME NEW c \in Conn,
               AppGone(c) \/ Accept(c) \/ Handshake(c) \/ Request(c) \/ Data(c) \/ Client(c) \/ Server(c)
        PROVE  SrvInv(d)' /\ SyncInv(d)'
    <3>1. CASE c = d
      BY <2>0, <2>2, <3>1, SrvStepOwn, SyncStepOwn
    <3>2. CASE c # d
      <4>1. /\ cpc'[d] = cpc[d] /\ spc'[d] = spc[d] /\ up'[d] = up[d] /\ down'[d] = down[d]
            /\ skey'[d] = skey[d]
            /\ cliUp' => cliUp
            /\ srvUp' => /\ srvUp /\ (<<d, "conn">> \in sfds' <=> <<d, "conn">> \in sfds)
                         /\ (<<d, "hop">> \in sfds' <=> <<d, "hop">> \in sfds)
        BY <2>0, <2>2, <3>2, Frame, ZenonT(60) DEF Apart
      <4> QED
        BY <2>0, <4>1 DEF ConnInv, SrvInv, SyncInv
    <3> QED
      BY <3>1, <3>2
  <2> QED
    BY <2>1, <2>2 DEF Next
<1>3. ASSUME NEW d \in Conn PROVE CliInv(d)' /\ KeyInv(d)'
  BY CliStep, KeyAgree DEF IInv
<1> QED
  BY <1>1, <1>2, <1>3 DEF IInv, ConnInv

LEMMA Invariance == Spec => []IInv
<1>1. Init => IInv
  <2> SUFFICES ASSUME Init PROVE IInv
    OBVIOUS
  <2>1. FdInv
    <3>1. Cardinality({}) = 0
      BY FS_EmptySet
    <3> QED
      BY <3>1, RoomNat DEF Init, FdInv
  <2>2. ASSUME NEW c \in Conn PROVE ConnInv(c)
    BY DEF Init, ConnInv, CliInv, SrvInv, SyncInv, KeyInv, Held, Early, Auth
  <2> QED
    BY <2>1, <2>2, TypeInit DEF IInv
<1> QED
  BY <1>1, Inductive, PTL DEF Spec

\* What a thread of either process holds follows from where it is, whichever way it left
\* the handshake, the authentication, the DNS exchange or the relay.
THEOREM OwnershipCorrect == Spec => []Ownership
<1>1. IInv => Ownership
  <2> SUFFICES ASSUME IInv, NEW c \in Conn PROVE (cliUp => ClientOwns(c)) /\ (srvUp => ServerOwns(c))
    BY DEF Ownership
  <2>1. CliInv(c) /\ SrvInv(c)
    BY DEF IInv, ConnInv
  <2>2. cliUp => ClientOwns(c)
    BY <2>1 DEF CliInv, ClientOwns
  <2>3. srvUp => ServerOwns(c)
    BY <2>1 DEF SrvInv, ServerOwns
  <2> QED
    BY <2>2, <2>3
<1> QED
  BY <1>1, Invariance, PTL

\* Both ends of a relaying connection use the same session key, although the threads of the
\* server share the state of rand().
THEOREM KeyAgreementCorrect == Spec => []KeyAgreement
<1>1. IInv => KeyAgreement
  BY ZenonT(60) DEF IInv, ConnInv, KeyInv, SrvInv, KeyAgreement
<1> QED
  BY <1>1, Invariance, PTL

\* What DeathCauses says of one step.
Deaths ==
  /\ srvUp /\ ~srvUp' /\ cliUp =>
       \E c \in Conn : \/ spc[c] = "backlog"
                       \/ spc[c] = "relay" /\ (up[c] = "data" \/ CliClosed(c))
  /\ cliUp /\ ~cliUp' /\ srvUp =>
       \E c \in Conn : cpc[c] \in {"shake", "req"} /\ gone[c]

LEMMA DeathStep == IInv /\ [Next]_vars => Deaths
<1> SUFFICES ASSUME IInv, [Next]_vars PROVE Deaths
  OBVIOUS
<1> DEFINE SrvCause == cliUp => \E c \in Conn : \/ spc[c] = "backlog"
                                                \/ spc[c] = "relay" /\ (up[c] = "data" \/ CliClosed(c))
           CliCause == srvUp => \E c \in Conn : cpc[c] \in {"shake", "req"} /\ gone[c]
<1>1. ASSUME NEW c \in Conn, SAccept(c) \/ SData(c), ~srvUp' PROVE SrvCause
  BY <1>1, ZenonT(60) DEF SAccept, SData
<1>2. ASSUME NEW c \in Conn, SAnswer(c) \/ SRefuse(c) \/ SResolve(c), ~srvUp' PROVE SrvCause
  <2>1. srvUp /\ CliClosed(c) /\ spc[c] \in {"answer", "refuse", "resolve"}
    BY <1>2 DEF SAnswer, SRefuse, SResolve, SWriteFails
  <2>2. CliInv(c) /\ SyncInv(c)
    BY DEF IInv, ConnInv
  <2> QED
    BY <2>1, <2>2 DEF CliInv, SyncInv, Auth, Held, CliClosed
<1>3. ASSUME NEW c \in Conn, SRelayEnd(c), ~srvUp' PROVE SrvCause
  BY <1>3, ZenonT(60) DEF SRelayEnd, SWriteFails
<1>4. ASSUME NEW c \in Conn, Handshake(c) \/ Request(c), ~cliUp' PROVE CliCause
  BY <1>4, ZenonT(60) DEF Handshake, Request, Exchange
<1>5. ASSUME NEW c \in Conn, Query(c), ~cliUp' PROVE CliCause
  <2>1. cliUp /\ cpc[c] = "query" /\ ~SrvOpen(c)
    BY <1>5, ZenonT(60) DEF Query
  <2>2. SyncInv(c)
    BY DEF IInv, ConnInv
  <2> QED
    BY <2>1, <2>2 DEF SyncInv, SrvOpen
<1>6. ASSUME NEW c \in Conn,
             AppGone(c) \/ Accept(c) \/ Data(c) \/ Dial(c) \/ Reply(c) \/ Dns(c) \/ DnsReply(c) \/ RelayEnd(c)
             \/ Unwind(c) \/ Close(c) \/ SRecv(c) \/ SSeed(c) \/ SDraw(c) \/ SDns(c) \/ SUnwind(c) \/ SClose(c)
      PROVE  UNCHANGED <<cliUp, srvUp>>
  <2>1. CASE AppGone(c) \/ Accept(c) \/ Data(c) \/ Dial(c) \/ Reply(c) \/ Dns(c) \/ DnsReply(c) \/ RelayEnd(c)
             \/ Unwind(c) \/ Close(c)
    <3>1. srvUp' = srvUp
      BY <2>1, ClientKeeps DEF Client
    <3>2. cliUp' = cliUp
      BY <2>1 DEF AppGone, Accept, Data, Dial, Reply, Dns, DnsReply, RelayEnd, Unwind, Close, cliVars
    <3> QED
      BY <3>1, <3>2
  <2>2. CASE SRecv(c) \/ SSeed(c) \/ SDraw(c) \/ SDns(c) \/ SUnwind(c) \/ SClose(c)
    <3>1. cliUp' = cliUp
      BY <2>2, ServerKeeps DEF Server
    <3>2. srvUp' = srvUp
      BY <2>2 DEF SRecv, SSeed, SDraw, SDns, SUnwind, SClose
    <3> QED
      BY <3>1, <3>2
  <2> QED
    BY <1>6, <2>1, <2>2
<1>7. ASSUME NEW c \in Conn, Handshake(c) \/ Request(c) \/ Query(c) PROVE UNCHANGED srvUp
  BY <1>7, ClientKeeps DEF Client
<1>8. ASSUME NEW c \in Conn, SAccept(c) \/ SAnswer(c) \/ SRefuse(c) \/ SResolve(c) \/ SData(c) \/ SRelayEnd(c)
      PROVE  UNCHANGED cliUp
  BY <1>8, ServerKeeps DEF Server
<1> HIDE DEF SrvCause, CliCause
<1> DEFINE Goal == (srvUp /\ ~srvUp' => SrvCause) /\ (cliUp /\ ~cliUp' => CliCause)
<1>9. ASSUME NEW c \in Conn, SAccept(c) \/ SAnswer(c) \/ SRefuse(c) \/ SResolve(c) \/ SData(c) \/ SRelayEnd(c)
      PROVE  Goal
  BY <1>9, <1>1, <1>2, <1>3, <1>8
<1>10. ASSUME NEW c \in Conn, Handshake(c) \/ Request(c) \/ Query(c) PROVE Goal
  BY <1>10, <1>4, <1>5, <1>7
<1>11. ASSUME UNCHANGED <<cliUp, srvUp>> PROVE Goal
  BY <1>11
<1> HIDE DEF Goal
<1>12. Goal
  <2>1. CASE UNCHANGED vars
    BY <2>1, <1>11 DEF vars, cliVars, srvVars
  <2>2. ASSUME NEW c \in Conn,
               AppGone(c) \/ Accept(c) \/ Handshake(c) \/ Request(c) \/ Data(c) \/ Client(c) \/ Server(c)
        PROVE  Goal
    BY <2>2, <1>6, <1>9, <1>10, <1>11 DEF Client, Server
  <2> QED
    BY <2>1, <2>2 DEF Next
<1> QED
  BY <1>12 DEF Goal, SrvCause, CliCause, Deaths

\* While skcli runs, sksrv dies only of an error of accept() with a connection waiting, or in
\* a relay, of a write to a client that has left or to the next hop of a data packet; while
\* sksrv runs, skcli dies only of an application that left before the SOCKS5 exchange was
\* over.  Neither dies of the authentication or of an answer to a DNS query.
THEOREM DeathCausesCorrect == Spec => DeathCauses
<1>1. IInv /\ [Next]_vars => [Deaths]_vars
  BY DeathStep
<1>2. Spec => [][Deaths]_vars
  BY <1>1, Invariance, PTL DEF Spec
<1> QED
  BY <1>2 DEF DeathCauses, Deaths
-----------------------------------------------------------------------------
(* Starvation *)

LeakedFds == {<<c, "tun">> : c \in Leaked}

LEMMA LeakedCard ==
  ASSUME PlaceOK
  PROVE  /\ LeakedFds \subseteq cfds /\ IsFiniteSet(Leaked) /\ IsFiniteSet(LeakedFds)
         /\ Cardinality(Leaked) \in Nat /\ Cardinality(LeakedFds) = Cardinality(Leaked)
<1>1. Leaked \subseteq Conn /\ LeakedFds \subseteq cfds
  BY ZenonT(60) DEF Leaked, LeakedFds
<1>2. IsFiniteSet(Leaked) /\ IsFiniteSet(LeakedFds)
  BY <1>1, FS_Subset, FdFinite
<1> DEFINE f == [c \in Leaked |-> <<c, "tun">>]
<1>3. f \in Bijection(Leaked, LeakedFds)
  BY DEF Bijection, Injection, Surjection, IsInjective, LeakedFds
<1>4. ExistsBijection(Leaked, LeakedFds)
  BY <1>3 DEF ExistsBijection
<1> QED
  BY <1>1, <1>2, <1>4, FS_Bijection, FS_CardinalityType

\* In a starved skcli no thread has a tunnel, and one that has its application's socket
\* fills the table.
LEMMA StarvedFull ==
  ASSUME IInv, Starved, NEW c \in Conn
  PROVE  /\ cpc[c] \notin Held
         /\ cpc[c] \notin {"none", "done"} => ~(Cardinality(cfds) < MaxFd)
<1>0. /\ PlaceOK /\ CliInv(c) /\ cliUp
      /\ Cardinality(cfds) <= MaxFd /\ Cardinality(Leaked) = MaxFd - 1
  BY DEF IInv, TypeOK, ConnInv, FdInv, Starved
<1>1. MaxFd \in Nat /\ Cardinality(cfds) \in Nat /\ IsFiniteSet(cfds)
  BY <1>0, RoomNat, FdFinite DEF PlaceOK
<1>2. LeakedFds \subseteq cfds /\ IsFiniteSet(LeakedFds) /\ Cardinality(LeakedFds) = MaxFd - 1
  BY <1>0, LeakedCard
<1>3. ASSUME cpc[c] \notin {"none", "done"}
      PROVE  /\ Cardinality(LeakedFds \cup {<<c, "app">>}) = MaxFd
             /\ IsFiniteSet(LeakedFds \cup {<<c, "app">>}) /\ LeakedFds \cup {<<c, "app">>} \subseteq cfds
  <2>1. <<c, "app">> \in cfds /\ <<c, "app">> \notin LeakedFds
    BY <1>0, <1>3 DEF CliInv, LeakedFds
  <2>2. Cardinality(LeakedFds \cup {<<c, "app">>}) = Cardinality(LeakedFds) + 1
    BY <1>2, <2>1, FS_AddElement, ZenonT(60)
  <2> QED
    <3>1. Cardinality(LeakedFds \cup {<<c, "app">>}) = MaxFd
      BY <1>1, <1>2, <2>2
    <3>2. IsFiniteSet(LeakedFds \cup {<<c, "app">>})
      BY <1>2, FS_AddElement, ZenonT(60)
    <3> QED
      BY <1>2, <2>1, <3>1, <3>2
<1>4. ASSUME cpc[c] \notin {"none", "done"} PROVE Cardinality(cfds) >= MaxFd
  BY <1>1, <1>3, <1>4, FS_Subset
<1>5. ASSUME cpc[c] \in Held PROVE FALSE
  <2> DEFINE S == LeakedFds \cup {<<c, "app">>}
  <2>1. cpc[c] \notin {"none", "done", "close"}
    BY <1>5 DEF Held
  <2>2. Cardinality(S) = MaxFd /\ IsFiniteSet(S) /\ S \subseteq cfds
    BY <1>3, <2>1
  <2>3. <<c, "tun">> \in cfds
    BY <1>0, <1>5 DEF CliInv
  <2>4. <<c, "tun">> \notin S
    BY <2>1, ZenonT(60) DEF LeakedFds, Leaked
  <2> HIDE DEF S
  <2>5. Cardinality(S \cup {<<c, "tun">>}) = MaxFd + 1 /\ S \cup {<<c, "tun">>} \subseteq cfds
    BY <2>2, <2>3, <2>4, FS_AddElement, ZenonT(60)
  <2>6. Cardinality(S \cup {<<c, "tun">>}) <= Cardinality(cfds)
    BY <2>5, <1>1, FS_Subset
  <2> QED
    BY <1>0, <1>1, <2>5, <2>6
<1> QED
  BY <1>1, <1>4, <1>5

LEMMA StarvedStep ==
  ASSUME IInv, [Next]_vars, Starved, cliUp'
  PROVE  Starved' /\ \A c \in Conn : ~(cpc[c] = "dial" /\ cpc'[c] = "query")
<1>0. PlaceOK /\ \A c \in Conn : CliInv(c)
  BY DEF IInv, TypeOK, ConnInv
<1>a. \A c \in Conn : cpc[c] \notin Held /\ (cpc[c] \notin {"none", "done"} => ~(Cardinality(cfds) < MaxFd))
  BY StarvedFull
<1>b. \A c \in Conn : cpc[c] \in Early => <<c, "tun">> \notin cfds
  BY <1>0, ZenonT(60) DEF CliInv, Starved
<1> DEFINE Kept == Leaked' = Leaked /\ (\A c \in Conn : ~(cpc[c] = "dial" /\ cpc'[c] = "query")) /\ room' = room
<1> USE DEF PlaceOK, Leaked, appVars, cliVars, srvVars
<1>1. ASSUME NEW c \in Conn, AppGone(c) \/ Data(c) PROVE Kept
  BY <1>1, ZenonT(60) DEF AppGone, Data
<1>2. ASSUME NEW c \in Conn, Accept(c) PROVE Kept
  BY <1>0, <1>2 DEF Accept
<1>3. ASSUME NEW c \in Conn, Handshake(c) PROVE Kept
  BY <1>0, <1>b, <1>3 DEF Handshake, Exchange, Early, KillClient
<1>4. ASSUME NEW c \in Conn, Request(c) PROVE Kept
  BY <1>0, <1>b, <1>4 DEF Request, Exchange, Early, KillClient
<1>5. ASSUME NEW c \in Conn, Dial(c) PROVE Kept
  <2>1. cpc[c] = "dial" /\ cfds' = cfds /\ cpc' = [cpc EXCEPT ![c] = "close"] /\ room' = room
    BY <1>5, <1>a DEF Dial, Leak
  <2> QED
    BY <1>0, <1>b, <2>1 DEF Early
<1>6. ASSUME NEW c \in Conn, Query(c) \/ Reply(c) \/ Dns(c) \/ DnsReply(c) \/ RelayEnd(c) \/ Unwind(c) PROVE Kept
  BY <1>6, <1>a, ZenonT(60) DEF Query, Reply, Dns, DnsReply, RelayEnd, Unwind, Held
<1>7. ASSUME NEW c \in Conn, Close(c) PROVE Kept
  BY <1>0, <1>7 DEF Close
<1>8. ASSUME NEW c \in Conn, Server(c) PROVE Kept
  <2>1. UNCHANGED <<cpc, cfds, room>>
    BY <1>8, ServerKeeps, ZenonT(60)
  <2> QED
    BY <2>1
<1>9. ASSUME UNCHANGED vars PROVE Kept
  BY <1>9 DEF vars
<1>10. Kept
  <2> HIDE DEF Kept
  <2> QED
    BY <1>1, <1>2, <1>3, <1>4, <1>5, <1>6, <1>7, <1>8, <1>9 DEF Next, Client
<1> HIDE DEF Leaked
<1> QED
  BY <1>10 DEF Starved, MaxFd

\* Once failed authentications have leaked all descriptors but one, skcli never gets a
\* tunnel again and never recovers.
THEOREM StarvedForeverCorrect == Spec => StarvedForever
<1>1. IInv /\ [Next]_vars =>
        [Starved /\ cliUp' => Starved' /\ \A c \in Conn : ~(cpc[c] = "dial" /\ cpc'[c] = "query")]_vars
  BY StarvedStep
<1> QED
  BY <1>1, Invariance, PTL DEF Spec, StarvedForever
=============================================================================
