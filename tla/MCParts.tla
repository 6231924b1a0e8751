------------------------------- MODULE MCParts -------------------------------
(* The parts of the system that share no state with another one, for the values of MCValues: *)
(* the object pool, the way of an address, the encryption modules and the start of the two   *)
(* programs.  A behaviour is one of a single part, while the others rest.                    *)
EXTENDS MCObjectPool, MCValues

VARIABLES
  part,   \* whose behaviour it is
  srv, req, host, addr, pkt, apc, dialed,
  mod, cpass, spass, ckey, skey, kpc, wire, query, out,
  role, os, typed, disk, left, vals, flags, conf, retry, rlog, said, nx, handle, bound, bufs,
  sock, addrs, wsa, status, spc

addrVars == <<srv, req, host, addr, pkt, apc, dialed>>
codecVars == <<mod, cpass, spass, ckey, skey, kpc, wire, query, out>>
startVars == <<role, os, typed, disk, left, vals, flags, conf, retry, rlog, said, nx, handle, bound,
               bufs, sock, addrs, wsa, status, spc>>

Addr == INSTANCE AddrPath WITH pc <- apc, V4 <- MCV4, V6 <- MCV6, Port <- MCPort

Codec == INSTANCE PacketCodec WITH
  pc <- kpc, Passphrase <- MCPassphrase, Digits <- MCDigits, Ip <- MCIp, Port <- {47873},
  Payload <- MCPayload, Junk <- MCJunk, Heap <- MCHeap

Start == INSTANCE Startup WITH
  pc <- spc, CommandLine <- MCCommandLine, Disk <- MCDisk, Stoi <- MCStoi, Strict <- MCStrict, MaxAddr <- 2

ASSUME PartsAssumption ==
  Addr!AddrAssumption /\ Codec!CodecAssumption /\ Codec!HeapAssumption /\ Start!StartupAssumption

Unused == <<>>

PoolRests == Init /\ cter = max_size
AddrRests ==
  /\ srv = Unused /\ req = Unused /\ host = Unused /\ addr = Unused /\ pkt = Unused /\ apc = Unused
  /\ dialed = Unused
CodecRests ==
  /\ mod = Unused /\ cpass = Unused /\ spass = Unused /\ ckey = Unused /\ skey = Unused /\ kpc = Unused
  /\ wire = Unused /\ query = Unused /\ out = Unused
StartRests ==
  /\ role = Unused /\ os = Unused /\ typed = Unused /\ disk = Unused /\ left = Unused /\ vals = Unused
  /\ flags = Unused /\ conf = Unused /\ retry = Unused /\ rlog = Unused /\ said = Unused /\ nx = Unused
  /\ handle = Unused /\ bound = Unused /\ bufs = Unused /\ sock = Unused /\ addrs = Unused
  /\ wsa = Unused /\ status = Unused /\ spc = Unused

PartsInit ==
  \/ part = "pool"  /\ Init      /\ AddrRests /\ CodecRests /\ StartRests
  \/ part = "addr"  /\ PoolRests /\ Addr!Init /\ CodecRests /\ StartRests
  \/ part = "codec" /\ PoolRests /\ AddrRests /\ Codec!Init /\ StartRests
  \/ part = "start" /\ PoolRests /\ AddrRests /\ CodecRests /\ Start!Init

PartsNext ==
  \/ part = "pool"  /\ Next       /\ UNCHANGED <<part, addrVars, codecVars, startVars>>
  \/ part = "addr"  /\ Addr!Next  /\ UNCHANGED <<part, vars, codecVars, startVars>>
  \/ part = "codec" /\ Codec!Next /\ UNCHANGED <<part, vars, addrVars, startVars>>
  \/ part = "start" /\ Start!Next /\ UNCHANGED <<part, vars, addrVars, codecVars>>

PartsSpec ==
  PartsInit /\ [][PartsNext]_<<part, vars, addrVars, codecVars, startVars>> /\ Fairness
-----------------------------------------------------------------------------
(* The properties of the parts, each of the behaviours of its own part. *)

\* Every operation of traceable_list, wherever in the list it works, leaves the list of the
\* sequence it should (emplace_one, push_front, push_back, pop_one, pop_front, pop_back).
ListsAreSequences == part = "pool" => ListIsSequence

\* The native server connects to the very host and port of the SOCKS5 request, through the
\* DNS exchange, try_6to4, the packet and ip_array_to_str; only an IPv6 address that ends in
\* twelve zero bytes is taken for another one.
DialsDestination == part = "addr" => Addr!DialsDestination

\* A CONNECT with a port to an IPv4 host comes to a connection attempt at either server,
\* whether connect_pkgs gets the address or dns_pkgs brings it back, unless it is 0.0.0.0 or
\* adds up to zero in operator!.
OrdinaryIsTried == part = "addr" => Addr!OrdinaryIsTried

\* Under se_proxy a session starts exactly when the passphrases agree as doAuth uses them, and
\* then both ends hold the same key.
SessionAgreement == part = "codec" => Codec!SessionAgreement

\* decode gives the address, the port and the payload that encode was given, for every length
\* and whatever malloc left in the buffer.
RoundTrip == part = "codec" => Codec!RoundTrip

\* AES_ECB_encrypt and AES_ECB_decrypt give the test vectors at the head of kokke_aes.c.
KnownAnswers == part = "codec" => Codec!KnownAnswers

\* A program that serves has every setting from where it should come, and its tunnel alone the
\* module and a passphrase; one that ends, also by an exception in a constructor of the tunnel,
\* has released both.
StartsComplete == part = "start" => Start!StartsComplete

\* A well-formed command line is read as it is meant, whatever the order of its items and the
\* erasures that earlier calls of getValueArg and getBoolArg made.
OptionsAsGiven == part = "start" => Start!OptionsAsGiven

\* A start that fails has a status other than 0, unless the program is a daemon by then, and
\* the exception that main caught is in the log.
FailureReported == part = "start" => Start!FailureReported
=============================================================================
