------------------------------- MODULE Startup -------------------------------
(***************************************************************************)
(* How skcli and sksrv get from their command line to a listening socket:  *)
(* options, configuration file, daemon and log file, the protocol module,  *)
(* the tunnel, the listening socket.  The client builds its                *)
(* outbound_tunnel as a temporary and moves it into the Socks5Server; the  *)
(* constructor and the move constructor both resolve the server's name and *)
(* allocate the passphrase.  The move constructor does not set nx_retry,   *)
(* and client_config does not initialise retryResolve: both may be either. *)
(***************************************************************************)
EXTENDS OptParser

CONSTANTS
  CommandLine,  \* what the user may type: sequences of items, see Words
  Disk,         \* what the disk may hold: functions from paths to ini files
  Stoi,         \* the words that stoi accepts, and the number it makes of each
  Strict,       \* those of them that are a number and nothing else
  MaxAddr       \* addresses that getaddrinfo finds

StartupAssumption == Strict \subseteq DOMAIN Stoi /\ MaxAddr \in Nat \ {0}

VARIABLES
  role,      \* which program: "skcli" or "sksrv"
  os,        \* which build of it: "posix" or "windows"
  typed,     \* the items of the command line
  disk,      \* the files: for each path, the words that some settings are given
  left,      \* the words that no query of the command line has taken
  vals,      \* the word read for each option, <<"">> for none
  flags,     \* asDaemon and retryResolve
  conf,      \* client_config or server_config
  retry,     \* conf.retryResolve
  rlog,      \* the logger: where it writes, if that stream is open, and log_level
  said,      \* where the message about the end of the process went
  nx,        \* nx_retry of the temporary and of the server's tunnel
  handle,    \* who holds the dlopen handle: "none", "mod", "tmp", "srv", "lost" or "closed"
  bound,     \* the functions of the module that each module_interface can call
  bufs,      \* the tunnels whose conv_passphrase is allocated
  sock,      \* the listening socket: "none", "bound" or "listening"
  addrs,     \* addresses not yet tried
  wsa,       \* listen()'s uses of Winsock: WSAStartup less WSACleanup
  status,    \* the exit status that the shell has seen
  pc

given == <<role, os, typed, disk>>
confVars == <<left, vals, flags, conf, retry>>
vars == <<role, os, typed, disk, left, vals, flags, conf, retry, rlog, said, nx, handle, bound, bufs,
          sock, addrs, wsa, status, pc>>

CliOptions ==
  << <<"conf", "--conf", "-c">>, <<"logFile", "--log", "-l">>, <<"serverIp", "--server", "-s">>,
     <<"serverPort", "--server-port", "-p">>, <<"passphrase", "--passphrase", "-k">>,
     <<"bindIp", "--listen", "-L">>, <<"bindPort", "--listen-port", "-P">>,
     <<"debugLevel", "--debug", "-D">>, <<"modulePath", "--mod", "-m">> >>

SrvOptions ==
  << <<"conf", "--conf", "-c">>, <<"logFile", "--log", "-l">>, <<"bindIp", "--listen", "-L">>,
     <<"bindPort", "--listen-port", "-P">>, <<"passphrase", "--passphrase", "-k">>,
     <<"debugLevel", "--debug", "-D">>, <<"modulePath", "--mod", "-m">> >>

Options == IF role = "skcli" THEN CliOptions ELSE SrvOptions
Setting == {Options[i][1] : i \in DOMAIN Options} \ {"conf"}
Port == {"serverPort", "bindPort"}

\* The functions that loadSo asks of a module, in client_impl and server_impl.
Symbol ==
  {"client_make_auth_query", "client_deal_auth_reply", "client_encode", "client_decode",
   "client_connection_close", "server_make_auth_reply", "server_encode", "server_decode",
   "server_connection_close"}

Running == 0 - 1
Crashed == 139

Init ==
  /\ role \in {"skcli", "sksrv"} /\ os \in {"posix", "windows"}
  /\ typed \in CommandLine /\ disk \in Disk
  /\ left = <<>> /\ vals = [o \in Setting \cup {"conf"} |-> Empty]
  /\ flags = [daemon |-> FALSE, retry |-> FALSE]
  /\ conf = <<>> /\ retry \in BOOLEAN
  /\ rlog = [to |-> "stdout", open |-> TRUE, level |-> "DEBUG"] /\ said = "nothing"
  /\ nx = [tmp |-> FALSE, srv |-> FALSE] /\ handle = "none"
  /\ bound = [h \in {"mod", "tmp", "srv"} |-> {}] /\ bufs = {}
  /\ sock = "none" /\ addrs = 0 /\ wsa = 0 /\ status = Running /\ pc = "start"

\* The tunnels whose constructor has returned: only their destructor runs when an exception
\* passes, so what a constructor allocated before it threw stays.
Constructed ==
  IF pc \in {"move", "resolve2"} THEN {"tmp"}
  ELSE IF pc = "destroy" THEN {"tmp", "srv"}
  ELSE IF pc \in {"addrs", "bind", "listen"} THEN {"srv"}
  ELSE {}

\* An exception reaches main, which logs it and returns 2; on the way out the constructed
\* tunnels free their passphrases, and every module_interface, also the member of a tunnel
\* whose constructor threw, closes the handle that it holds.
Throw ==
  /\ pc' = "exit"
  /\ status' = IF status = Running THEN 2 ELSE status
  /\ said' = IF rlog.open THEN rlog.to ELSE "lost"
  /\ handle' = IF handle \in {"mod", "tmp", "srv"} THEN "closed" ELSE handle
  /\ bound' = [h \in DOMAIN bound |-> {}] /\ bufs' = bufs \ Constructed

Goto(here, there) == pc = here /\ pc' = there /\ UNCHANGED <<status, said>>
-----------------------------------------------------------------------------
(* The command line.  An item is an option with its value, [name, value, form] where form *)
(* says whether they are two words or one, or a single word: [name, value |-> <<>>].       *)

Words(item) ==
  IF item.value = <<>> THEN <<<<item.name>>>>
  ELSE IF item.eq THEN <<<<item.name, item.value[1]>>>>
  ELSE <<<<item.name>>, item.value>>

argv == FlattenSeq([i \in DOMAIN typed |-> Words(typed[i])])

\* One getValueArg of wrapped_main, unless an earlier one threw.
Query(acc, o) ==
  LET q == GetValueArg2(acc.words, o[2], o[3])
  IN IF acc.threw THEN acc
     ELSE [words |-> q.words, vals |-> [acc.vals EXCEPT ![o[1]] = q.value], threw |-> q.threw]

\* wrapped_main up to the configuration.  --help ends it.  A name without value at the end
\* throws, and the deferred erase then goes past the end of the vector, which may crash.
ParseArgs ==
  /\ pc = "start"
  /\ LET h == GetBoolArg2(argv, "--help", "-h")
         d == GetBoolArg2(h.words, "--daemon", "-d")
         r == IF role = "skcli" THEN GetBoolArg(d.words, "--retry") ELSE [words |-> d.words, value |-> FALSE]
         v == FoldLeft(Query, [words |-> r.words, vals |-> vals, threw |-> FALSE], Options)
     IN \/ /\ h.value
           /\ pc' = "exit" /\ status' = 0
           /\ UNCHANGED <<confVars, said, handle, bound, bufs>>
        \/ /\ ~ h.value /\ v.threw
           /\ \/ Throw
              \/ pc' = "exit" /\ status' = Crashed /\ UNCHANGED <<said, handle, bound, bufs>>
           /\ UNCHANGED confVars
        \/ /\ ~ h.value /\ ~ v.threw
           /\ left' = v.words /\ vals' = v.vals /\ flags' = [daemon |-> d.value, retry |-> r.value]
           /\ Goto("start", "conf")
           /\ UNCHANGED <<conf, retry, handle, bound, bufs>>
  /\ UNCHANGED <<given, rlog, nx, sock, addrs, wsa>>
-----------------------------------------------------------------------------
(* The configuration. *)

Given == {s \in Setting : vals[s] # Empty}

\* stoi accepts what the command line gives for the numbers.
ArgsConvert == \A s \in Given \cap (Port \cup {"debugLevel"}) : vals[s] \in DOMAIN Stoi

\* (uint16_t)stoi(...) for the ports.
FromArg(s) ==
  IF s \in Port THEN Stoi[vals[s]] % 65536 ELSE IF s = "debugLevel" THEN Stoi[vals[s]] ELSE vals[s]

\* -c NULL: every setting but the log file must be on the command line.
NoConfig ==
  /\ pc = "conf" /\ vals["conf"] = <<"NULL">>
  /\ \/ /\ Setting \ {"logFile"} \subseteq Given /\ ArgsConvert
        /\ conf' = [s \in Setting |-> FromArg(s)]
        /\ retry' = (retry \/ flags.retry)
        /\ Goto("conf", "daemon")
        /\ UNCHANGED <<handle, bound, bufs>>
     \/ /\ ~ (Setting \ {"logFile"} \subseteq Given /\ ArgsConvert)
        /\ Throw
        /\ UNCHANGED <<conf, retry>>
  /\ UNCHANGED <<given, left, vals, flags, rlog, nx, sock, addrs, wsa>>

\* What load() has no default for.
Required ==
  IF role = "skcli"
  THEN {"serverIp", "serverPort", "passphrase", "bindIp", "bindPort", "modulePath", "retryResolve"}
  ELSE {"bindPort", "passphrase", "modulePath"}

Default == [bindIp |-> <<"::0">>, debugLevel |-> 1, logFile |-> Empty]

\* tree.get<uint16_t> refuses what is not a 16-bit number.
Loadable(f) ==
  /\ Required \subseteq DOMAIN f
  /\ \A s \in Port \cap Required : f[s] \in Strict /\ Stoi[f[s]] \in 0 .. 65535

\* A debug level that is not a number is read as the default.
FromFile(f, s) ==
  IF s \notin DOMAIN f THEN Default[s]
  ELSE IF s \in Port THEN Stoi[f[s]]
  ELSE IF s = "debugLevel" THEN (IF f[s] \in Strict THEN Stoi[f[s]] ELSE Default[s])
  ELSE f[s]

ConfPath == IF vals["conf"] = Empty THEN <<role>> ELSE vals["conf"]

\* The command line goes over the file.
Merge(f, s) == IF s \in Given THEN FromArg(s) ELSE FromFile(f, s)

\* conf.load() throws when the file lacks a required setting, also one that the command
\* line gives.
LoadConfig ==
  /\ pc = "conf" /\ vals["conf"] # <<"NULL">>
  /\ LET f == IF ConfPath \in DOMAIN disk THEN disk[ConfPath] ELSE <<>>
     IN \/ /\ Loadable(f) /\ ArgsConvert
           /\ conf' = [s \in Setting |-> Merge(f, s)]
           /\ retry' = ((role = "skcli" /\ f["retryResolve"] = <<"true">>) \/ flags.retry)
           /\ Goto("conf", "daemon")
           /\ UNCHANGED <<handle, bound, bufs>>
        \/ /\ ~ (Loadable(f) /\ ArgsConvert)
           /\ Throw
           /\ UNCHANGED <<conf, retry>>
  /\ UNCHANGED <<given, left, vals, flags, rlog, nx, sock, addrs, wsa>>
-----------------------------------------------------------------------------
(* Daemon, log and module. *)

\* daemon(): the process that the shell waits for exits with 0, its child goes on.  There is
\* no such thing on Windows.
Daemon ==
  /\ pc = "daemon"
  /\ \/ ~ flags.daemon /\ Goto("daemon", "log") /\ UNCHANGED <<handle, bound, bufs>>
     \/ flags.daemon /\ os = "posix" /\ pc' = "log" /\ status' = 0 /\ UNCHANGED <<said, handle, bound, bufs>>
     \/ flags.daemon /\ Throw
  /\ UNCHANGED <<given, confVars, rlog, nx, sock, addrs, wsa>>

\* Variant: the logger that was moved from still deletes the stream.
NewLoggerDeletes == [to |-> "file", open |-> FALSE, level |-> "INFO"]

\* rlog = rlib::logger(conf.logFile): the stream of the temporary, its level with it.
NewLogger == [to |-> "file", open |-> TRUE, level |-> "INFO"]

OpenLog ==
  /\ pc = "log"
  /\ \/ conf.logFile = Empty /\ Goto("log", "level") /\ UNCHANGED <<rlog, handle, bound, bufs>>
     \/ conf.logFile # Empty /\ Goto("log", "level") /\ rlog' = NewLogger /\ UNCHANGED <<handle, bound, bufs>>
     \/ conf.logFile # Empty /\ Throw /\ UNCHANGED rlog
  /\ UNCHANGED <<given, confVars, nx, sock, addrs, wsa>>

LevelOf == <<"FATAL", "ERROR", "INFO", "DEBUG", "DEBUG">>

\* The switch on conf.debugLevel.
SetLevel ==
  /\ pc = "level"
  /\ \/ /\ conf.debugLevel \in 0 .. 4
        /\ rlog' = [rlog EXCEPT !.level = LevelOf[conf.debugLevel + 1]]
        /\ Goto("level", "module")
        /\ UNCHANGED <<handle, bound, bufs>>
     \/ conf.debugLevel \notin 0 .. 4 /\ Throw /\ UNCHANGED rlog
  /\ UNCHANGED <<given, confVars, nx, sock, addrs, wsa>>

\* dlopen or LoadLibrary, then every symbol or an exception, which leaves the handle to the
\* system.
LoadModule ==
  /\ pc = "module"
  /\ \/ /\ bound' = [bound EXCEPT !["mod"] = Symbol] /\ handle' = "mod"
        /\ Goto("module", IF role = "skcli" THEN "tunnel" ELSE "inbound")
        /\ UNCHANGED bufs
     \/ Throw
     \/ /\ pc' = "exit" /\ status' = (IF status = Running THEN 2 ELSE status)
        /\ said' = rlog.to /\ handle' = "lost" /\ UNCHANGED <<bound, bufs>>
  /\ UNCHANGED <<given, confVars, rlog, nx, sock, addrs, wsa>>

LoadSo == os = "posix" /\ LoadModule
LoadDll == os = "windows" /\ LoadModule

\* Variant: the move constructors forget the function that closes a connection.
MoveModuleForgets(from, to) ==
  /\ bound' = [bound EXCEPT ![to] = bound[from] \ {"client_connection_close"}, ![from] = {}]
  /\ handle' = to

\* module_interface(module_interface &&): the functions and the handle change hands.
MoveModule(from, to) ==
  /\ bound' = [bound EXCEPT ![to] = bound[from], ![from] = {}]
  /\ handle' = to
-----------------------------------------------------------------------------
(* The tunnel *)

\* inbound_tunnel's constructor
MakeInbound ==
  /\ Goto("inbound", "addrs")
  /\ MoveModule("mod", "srv")
  /\ UNCHANGED <<given, confVars, rlog, nx, bufs, sock, addrs, wsa>>

\* outbound_tunnel's constructor up to initCString
MakeTunnel ==
  /\ Goto("tunnel", "resolve1")
  /\ MoveModule("mod", "tmp")
  /\ nx' = [nx EXCEPT !.tmp = retry]
  /\ UNCHANGED <<given, confVars, rlog, bufs, sock, addrs, wsa>>

\* initCString of either tunnel: a failure is retried after a while or thrown.
Resolve(w, here, there) ==
  /\ pc = here
  /\ \/ Goto(here, there) /\ bufs' = bufs \cup {w} /\ UNCHANGED <<handle, bound>>
     \/ nx[w] /\ Goto(here, here) /\ UNCHANGED <<handle, bound, bufs>>
     \/ ~ nx[w] /\ Throw
  /\ UNCHANGED <<given, confVars, rlog, nx, sock, addrs, wsa>>

\* The move constructor up to initCString
MoveTunnel ==
  /\ Goto("move", "resolve2")
  /\ MoveModule("tmp", "srv")
  /\ \E b \in BOOLEAN : nx' = [nx EXCEPT !.srv = b]
  /\ UNCHANGED <<given, confVars, rlog, bufs, sock, addrs, wsa>>

\* The temporary is destroyed: its passphrase, and the module if it still held the handle.
DestroyTmp ==
  /\ Goto("destroy", "addrs")
  /\ bufs' = bufs \ {"tmp"} /\ handle' = (IF handle = "tmp" THEN "closed" ELSE handle)
  /\ UNCHANGED <<given, confVars, rlog, nx, bound, sock, addrs, wsa>>
-----------------------------------------------------------------------------
(* listen() up to its loop *)

GetAddrInfo ==
  /\ pc = "addrs" /\ os = "posix"
  /\ \/ \E n \in 1 .. MaxAddr : addrs' = n /\ Goto("addrs", "bind") /\ UNCHANGED <<handle, bound, bufs>>
     \/ Throw /\ UNCHANGED addrs
  /\ UNCHANGED <<given, confVars, rlog, nx, sock, wsa>>

\* Winsock is started first, and left when there is no address.
WinGetAddrInfo ==
  /\ pc = "addrs" /\ os = "windows"
  /\ \/ /\ \E n \in 1 .. MaxAddr : addrs' = n
        /\ Goto("addrs", "bind") /\ wsa' = wsa + 1
        /\ UNCHANGED <<handle, bound, bufs>>
     \/ Throw /\ UNCHANGED <<addrs, wsa>>
  /\ UNCHANGED <<given, confVars, rlog, nx, sock>>

\* One address: no socket or no bind goes on to the next one, a refused option throws.
TryAddr ==
  /\ pc = "bind"
  /\ \/ addrs > 0 /\ sock' = "bound" /\ Goto("bind", "listen") /\ UNCHANGED <<addrs, handle, bound, bufs>>
     \/ addrs > 0 /\ addrs' = addrs - 1 /\ Goto("bind", "bind") /\ UNCHANGED <<sock, handle, bound, bufs>>
     \/ Throw /\ UNCHANGED <<addrs, sock>>
  /\ UNCHANGED <<given, confVars, rlog, nx, wsa>>

Bind == os = "posix" /\ TryAddr
WinBind == os = "windows" /\ TryAddr

Listen ==
  /\ pc = "listen"
  /\ \/ sock' = "listening" /\ Goto("listen", "serve") /\ UNCHANGED <<handle, bound, bufs>>
     \/ Throw /\ UNCHANGED sock
  /\ UNCHANGED <<given, confVars, rlog, nx, addrs, wsa>>

Next ==
  \/ ParseArgs \/ NoConfig \/ LoadConfig \/ Daemon \/ OpenLog \/ SetLevel \/ LoadSo \/ LoadDll
  \/ MakeInbound \/ MakeTunnel \/ Resolve("tmp", "resolve1", "move") \/ MoveTunnel
  \/ Resolve("srv", "resolve2", "destroy") \/ DestroyTmp
  \/ GetAddrInfo \/ WinGetAddrInfo \/ Bind \/ WinBind \/ Listen

Spec == Init /\ [][Next]_vars
-----------------------------------------------------------------------------
(* What the user meant, item by item. *)

ValueNames == {Options[i][2] : i \in DOMAIN Options} \cup {Options[i][3] : i \in DOMAIN Options}
FlagNames == {"--help", "-h", "--daemon", "-d"} \cup (IF role = "skcli" THEN {"--retry"} ELSE {})

\* Every option that takes a value has one, and no value is the name of an option.
WellFormed ==
  \A i \in DOMAIN typed :
    /\ typed[i].value = <<>> => typed[i].name \notin ValueNames
    /\ typed[i].value # <<>> => Len(typed[i].value) = 1 /\ typed[i].value[1] \notin ValueNames \cup FlagNames

FirstItem(name) == SelectInSeq(typed, LAMBDA t : t.name = name)
Asked(name) == FirstItem(name) # 0
Meant(name) == IF Asked(name) THEN typed[FirstItem(name)].value ELSE Empty
MeantBy(long, short) == IF Meant(long) # Empty THEN Meant(long) ELSE Meant(short)

Used ==
  {FirstItem(n) : n \in ValueNames \cup (FlagNames \ {"-d"})}
    \cup (IF Asked("--daemon") THEN {} ELSE {FirstItem("-d")})

\* A well-formed command line is read as it is meant: the first use of each option counts, a
\* long name before a short one, and exactly the items that no option uses are left over,
\* whatever the order of the items and the erasures that earlier queries made
\* (opt_parser::getValueArg, getBoolArg).
OptionsAsGiven ==
  pc = "conf" /\ WellFormed =>
    /\ \A i \in DOMAIN Options : vals[Options[i][1]] = MeantBy(Options[i][2], Options[i][3])
    /\ flags.daemon = (Asked("--daemon") \/ Asked("-d"))
    /\ flags.retry = (role = "skcli" /\ Asked("--retry"))
    /\ left = FlattenSeq([i \in DOMAIN typed |-> IF i \in Used THEN <<>> ELSE Words(typed[i])])

\* A program that serves has every setting from the command line, else from the file, else
\* its default; its log, if it asked for one, is open and at its level; its tunnel alone holds
\* the module with all its functions, and a passphrase of its own, whatever the constructors
\* and the destructor of the temporary did.  One that ends, also by an exception in a
\* constructor, has released both.
StartsComplete ==
  /\ pc = "serve" =>
       /\ WellFormed => \A s \in Setting :
            LET o == CHOOSE i \in DOMAIN Options : Options[i][1] = s
                w == MeantBy(Options[o][2], Options[o][3])
                f == IF ConfPath \in DOMAIN disk THEN disk[ConfPath] ELSE <<>>
                x == IF w # Empty THEN w ELSE IF s \in DOMAIN f THEN f[s] ELSE <<"default">>
            IN IF s \in Port THEN (conf[s] - Stoi[x]) % 65536 = 0
               ELSE IF s = "debugLevel" THEN conf[s] = IF w # Empty \/ x \in Strict THEN Stoi[x] ELSE 1
               ELSE conf[s] = IF x = <<"default">> THEN Default[s] ELSE x
       /\ rlog.open /\ rlog.level = LevelOf[conf.debugLevel + 1]
       /\ (rlog.to = "file") = (conf.logFile # Empty)
       /\ handle = "srv" /\ bound = [mod |-> {}, tmp |-> {}, srv |-> Symbol]
       /\ bufs = IF role = "skcli" THEN {"srv"} ELSE {}
       /\ sock = "listening" /\ wsa = IF os = "windows" THEN 1 ELSE 0
  /\ pc = "exit" => handle \in {"none", "closed", "lost"} /\ bufs = {}

\* A start that fails is not silent: the shell sees a status other than 0 unless the program
\* had become a daemon, and the exception that main caught is in the log, also when the log
\* had been redirected by then; only --help ends with status 0 and no message.
FailureReported ==
  pc = "exit" =>
    \/ status = 0 /\ said = "nothing" /\ (Contains(argv, <<"--help">>) \/ Contains(argv, <<"-h">>))
    \/ said \in {"stdout", "file"} /\ (status = 2 \/ (status = 0 /\ flags.daemon))
    \/ status = Crashed /\ ~ WellFormed

\* With --retry, a name that cannot be resolved never ends the client.
RetryNeverGivesUp == [][flags.retry /\ pc \in {"resolve1", "resolve2"} => pc' # "exit"]_vars
=============================================================================
