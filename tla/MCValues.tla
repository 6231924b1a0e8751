------------------------------ MODULE MCValues ------------------------------
(* The addresses, bytes, command lines and files for which AddrPath, PacketCodec and Startup *)
(* are checked.                                                                              *)
EXTENDS Integers, SequencesExt

Run(b, n) == [i \in 1 .. n |-> b]

\* An ordinary address, two whose bytes add up to 256, as they are and mapped, and the zero address.
MCV4 == {<<10, 0, 0, 1>>, <<128, 127, 0, 1>>, <<1, 0, 0, 1>>, <<0, 0, 0, 0>>}

\* An ordinary address, one that ends in zeros, one that begins with them, an IPv4-mapped
\* one and the zero address.
MCV6 == {<<32, 1, 13, 184>> \o Run(0, 11) \o <<1>>, <<32, 1, 13, 184>> \o Run(0, 12),
         Run(0, 15) \o <<1>>, Run(0, 10) \o <<255, 255, 10, 0, 0, 1>>, Run(0, 16)}

\* Port 0, which skcli refuses, a common one, and one whose bytes are those of 443 swapped.
MCPort == {0, 80, 47873}
-----------------------------------------------------------------------------
(* PacketCodec *)

\* Passphrases of the same first 16 bytes, of the same sum, and of neither.
MCPassphrase == {<<1>>, <<1, 0>>, Run(5, 17), Run(5, 16) \o <<6>>}

\* Replies of 15, 16 and 19 bytes: the block boundary is between 15 and 16.
MCDigits == {Run(49, n) : n \in {6, 7, 10}}
MCIp     == {[i \in 1 .. 16 |-> 16 + i]}

\* The block boundaries of data_struct are at the payload lengths 5 and 21.
MCPayload == {[i \in 1 .. n |-> (250 + i) % 256] : n \in {0, 4, 5, 21}}
MCJunk    == {Run(255, 5), <<1, 2, 3, 4, 16>>}
MCHeap    == {Run(0, 15), Run(200, 15)}
-----------------------------------------------------------------------------
(* Startup *)

Opt(n, v, e) == [name |-> n, value |-> <<v>>, eq |-> e]
Word(n) == [name |-> n, value |-> <<>>, eq |-> FALSE]

MCItem ==
  {Word("--help"), Word("-d"), Word("--retry"), Word("stray"), Word("--mod"),
   Opt("-k", "p", FALSE), Opt("--passphrase", "q", TRUE), Opt("-k", "-d", FALSE),
   Opt("--listen-port", "70000", FALSE), Opt("-P", "80x", TRUE), Opt("-D", "7", FALSE),
   Opt("--log", "log", FALSE), Opt("-c", "my.conf", FALSE)}

MCComplete ==
  <<Opt("-c", "NULL", FALSE), Opt("--server", "host", TRUE), Opt("-p", "80", FALSE), Opt("-k", "s", FALSE),
    Opt("-L", "ip", FALSE), Opt("-P", "80", FALSE), Opt("--debug", "3", TRUE), Opt("-m", "so", FALSE)>>

MCCommandLine == {x \o y : x \in SeqOf(MCItem, 2), y \in {<<>>, MCComplete}}

MCStoi == (<<"80">> :> 80 @@ <<"80x">> :> 80 @@ <<"70000">> :> 70000 @@ <<"3">> :> 3 @@ <<"7">> :> 7)
MCStrict == {<<"80">>, <<"70000">>, <<"3">>, <<"7">>}

Least == [serverIp |-> <<"far">>, serverPort |-> <<"80">>, passphrase |-> <<"f">>, bindIp |-> <<"near">>,
          bindPort |-> <<"80">>, modulePath |-> <<"fso">>, retryResolve |-> <<"false">>]
Full == Least @@ [debugLevel |-> <<"3">>, logFile |-> <<"flog">>]

MCDisk ==
  {[p \in {<<"skcli">>, <<"sksrv">>, <<"my.conf">>} |-> Full],
   [p \in {<<"skcli">>, <<"sksrv">>} |->
      IF p = <<"skcli">> THEN [Least EXCEPT !.retryResolve = <<"true">>]
      ELSE [s \in DOMAIN Least \ {"bindIp"} |-> Least[s]]],
   [p \in {<<"skcli">>, <<"sksrv">>, <<"my.conf">>} |->
      IF p = <<"my.conf">> THEN [Least EXCEPT !.bindPort = <<"70000">>]
      ELSE Least @@ [debugLevel |-> <<"80x">>]]}
=============================================================================
