# SnakeSocks in TLA+

TLA+ models of SnakeSocks, TLC runs that check them on small instances, and TLAPS proofs
that hold for every instance. Everything is translated from the source; a definition's
lines are in `PROJECT.json` under `map`.

## 1. The system

SnakeSocks is a SOCKS5 proxy in two halves.

    application --SOCKS5--> skcli ==tunnel==> sksrv --TCP--> next hop
                              |                 |
                              +-- module .so ---+

`skcli` accepts a SOCKS5 connection, opens one tunnel connection for it, authenticates,
lets the server resolve a domain, and relays. `sksrv` exists twice: in C++ (one thread per
connection, select loops, blocking I/O) and in Go (a pool of workers, five goroutines per
connection). A loadable module makes the authentication messages and encodes the packets.
The repository also carries library code of its own (`rlib`) and a replacement of the C++
threading library for MinGW.

| Part | State | Operations | Meets |
|---|---|---|---|
| Relay, native (`socks5.cc` passData, `tunnel.cc` dealConnectionImpl) | two sockets, an fd_set and a buffer on each side | select, readall / recvall, sendn, recvn, close | stream I/O, module, peers |
| Stream I/O (`sio.hpp`, `NetLib.hpp`) | a TCP stream, buffers of both ends | send and receive loops, length-prefixed packets | relay, set-up |
| Set-up, native (`socks5.*`, `connection.hpp`, `tunnel.cc`) | descriptors, connInfo, session keys, threads | accept, handshake, request, connect, authenticate, resolve, unwind | module, relay |
| Session, Go (`server.go`, `util.go`) | goroutines, two data and three End channels, WaitGroup | auth, checkFirst, dial, c2s, s2r, r2s, s2c | module, pool |
| Pool, Go (`worker_pool.go`) | JobQueue, WorkerPool, one channel per worker | accept, dispatch, register, run | session |
| Modules (`se_proxy.c`, `simple_proxy.c`, `aes.c`, `kokke_aes.c`) | passphrase, session key | make query, make reply, deal with reply, encode, decode | all of the above |
| Addresses (`addr_info`, `NetLib.hpp`, `dial`) | address, port, packet | unpack, resolve, try_6to4, to_query_template, connect | set-up, relay |
| Start-up (`client.cc`, `server.cc`, `config.hpp`, `module.*`, `tunnel.hpp`, `opt.hpp`, `log.hpp`) | options, configuration, logger, module handle, tunnel object, listening socket | parse, load, daemon, redirect, dlopen, construct, move, bind | set-up |
| Object pool (`pool.hpp`, `traceable_list.hpp`) | objects in a linked list, free list, flag | fill, borrow, wait, release, notify | - |
| MinGW threads (`mingw-thread-fix`) | critical section, counter, semaphore, event | lock, wait, wait_for, notify_one, notify_all, join | Windows build |

What is hard to get right, and a test hardly reaches:

* all sends and receives of the native relay block, so two select loops can wait for each
  other, and a read of exactly one half buffer waits for data that may never come;
* TCP splits a length and its packet anywhere, and signals interrupt calls;
* closing: each side has several ways to end, some of which end the other one, and some
  of which end the process (SIGPIPE, an exception out of `listen`);
* a constructor that throws after it has opened a socket; threads that share `rand()`;
* objects that are moved twice before they serve, with a constructor that may throw;
* the Go goroutines end each other through buffered channels in any order, race with the
  WaitGroup, and lose what is in a channel when `select` sees the End signal first;
* waiting and waking: objects, workers and condition variables that are handed over in
  several steps, with time limits that lapse in between;
* block, struct and byte-order boundaries in the packets and addresses.

The full list, with lines and properties, is `hazards` in `PROJECT.json`.

## 2. Modules

| Module | Models | Run by | Proofs |
|---|---|---|---|
| `TunnelRelay` | one connection of the native relay | `MCTunnelRelay` | `TunnelRelayProofs` |
| `StreamIO` | the send and receive loops over one TCP connection | `MCStreamIO` | `StreamIOProofs` |
| `FrameChannel` | what they promise: a channel of packets (abstract) | as a property of `StreamIO` | `StreamIOProofs` |
| `NativeSession` | all connections of one skcli and one native sksrv, relay as one phase | `MCNativeSession` | `NativeSessionProofs` |
| `GoProxy` | one connection of the Go server | `MCGoProxy` | `GoProxyProofs`, `GoProxyDataProofs` |
| `GoWorkerPool` | accept loop, dispatcher, workers | `MCGoWorkerPool` | `GoWorkerPoolProofs` |
| `JobPool` | what the pool promises (abstract) | as a property of `GoWorkerPool` | `GoWorkerPoolProofs` |
| `PacketCodec`, `AesCipher` | both encryption modules; the block cipher | `MCParts` | - |
| `AddrPath` | the way of a destination | `MCParts`, `MCAddrPath` | - |
| `Startup`, `OptParser` | both native programs up to `listen`; the option parser | `MCParts`, `MCStartup` | - |
| `ObjectPool`, `TraceableList` | rlib's object pool; its linked list | `MCParts`, `MCObjectPool` | `ObjectPoolProofs` |
| `MingwSync` | mutex, condition variable and join of the MinGW build | itself, `MCMingwSync.cfg` | `MingwSyncProofs` |

The four rows above `MingwSync` are parts that share no state with another one.
`MCParts` checks them in one run: a behaviour of it is a behaviour of one part (`part`), while
the variables of the others rest. `MCValues` holds the values that their constants get.

Operators called *Variant* in a comment are plausible mistakes in the code next to them.
No specification uses them; each run is repeated with one of them in place of the real
definition, to show that the property notices.

### TunnelRelay

A byte is its position in its stream, so a chunk is an interval `[lo, hi]`. `cpc` and
`spc` are the places of `passData` and `dealConnectionImpl`; each blocking call is one
place, and partial sends are one step per byte or frame. `crset` and `srset` are the fd_set
that select returned and that is used after other blocking calls. The two tunnel buffers
hold whole frames, the outer ones bytes. `ReadHalf` is the 512 of `readall` and `recvall`:
a read of exactly that many is followed by another, blocking, read (`readmore`,
`hopmore`). The peers may send, read, half-close and close at any time; the server is
killed by a write into a closed tunnel (no MSG_NOSIGNAL).

### StreamIO, FrameChannel

`TunnelRelay` takes it for granted that the tunnel carries whole frames. `StreamIO` shows
why it may: one direction of one connection, byte by byte, with a writing thread in
`sendn` and a reading one in `recvn`, `recvall` or `readall`. A call moves any number of
bytes from one up, is interrupted, or fails; `os` chooses between the POSIX loops and those
of Windows, `chan` between the directions of the tunnel and a connection outside of it,
without lengths. `heap` counts the reader's buffers. `FrameChannel` is what the loops
promise: packets go through whole and in order, and are received as long as both ends are
open. `sent`, `got` and the two sockets are the refinement mapping; a packet counts as sent
once the last of its bytes is on the way, because the reader may have all of it before
`sendn` returns.

### NativeSession

Each connection has a client thread (`cpc`) and a server thread (`spc`). What they share is
explicit: the descriptor tables `cfds` and `sfds` with their limits (`room`, chosen at the
start), `rnd`, the state of `rand()` as a seed and a count, and the two processes. A step
that writes into a closed connection without MSG_NOSIGNAL may take the process down: the
replies of the SOCKS5 exchange in skcli (`Exchange`), every write of sksrv, to the client as
to the next hop (`SData`). So does an error of `accept()` in sksrv, whatever its cause. An
exception takes a thread to `unwind` when its SnakeConnection has been constructed and past
it when the constructor threw, which is where the socket leaks. `match` says whether the two
passphrases give the same key (`PacketCodec` has that in detail).

### GoProxy, GoWorkerPool, JobPool

`pc[t]` is the place of each goroutine; `main` is the worker that runs `handle`. Channels
are sequences with the capacities of the code, End channels are counters, `wg` is the
WaitGroup (a negative value panics the process), a `select` with several ready cases may
take any. `wg.Add` and `go` are separate steps in the order of the code.

`GoWorkerPool` has the accept loop, `dispatch`, one goroutine per job and the workers, and
the race between `dispatch` reading `JobQueue` and `Start` making it: what is read is nil
or the channel. A failed Accept is queued as well, as in the code, and its handler returns
at once. It refines `JobPool`: a job waits, is run by one worker, is served.

### PacketCodec, AesCipher

Buffers are sequences of bytes, so that padding, `data_struct` with its two alignment and
three trailing bytes, and the length field are those of the code. Bytes nobody assigned
are an arbitrary choice (`Junk`, `Heap`). `AesCipher` is the cipher itself: tables, key
expansion, rounds and their inverses. `AES_ECB_encrypt` transforms the first block of a
buffer only, and so does the model. `HeapAssumption` says that what lies behind a short
reply does not happen to decrypt to one of the two strings that authentication looks for.

### AddrPath

Addresses are sequences of 4 or 16 bytes. The text that `ip_array_to_str` makes is the
list of its groups and their separator; `getaddrinfo` accepts four groups with dots. The Go
functions `To16` and `String` and the lookup are external. A request may have another version,
command or address type, and is then rejected. A domain is an opaque name and the NUL that
`assemble_dns_query` puts behind it. The native server reads it up to the NUL. The Go server
hands it to `LookupIP` as it is: its own resolver finds no such name, the one of the C library,
which a build with cgo may use, does not see the NUL.

### Startup, OptParser

`role` and `os` choose the program and the build. A command line is a sequence of items
(`typed`) that `Words` turns into the vector of words that `opt_parser` takes apart; a word
is its text, or its name and value when it contains `=`. Each `getValueArg` and `getBoolArg`
is an operator on the vector, and `wrapped_main` folds them in the order of the code. Then
come the configuration file, `daemon()`, the log file (a logger moved into the global one),
the module, the tunnel and the listening socket; every step that can throw may do so.
`bound` are the functions that each `module_interface` can call, `handle` is who will close
the library, `bufs` which tunnels have a passphrase allocated. An exception frees the
passphrases of the tunnels whose constructor has returned (`Constructed`), and no other: that
nothing stays depends on the constructor allocating last. `retryResolve` without a
configuration file and `nx_retry` after the move are uninitialised in the code and
arbitrary here.

### ObjectPool, TraceableList

A step of `ObjectPool` is one hold of `buffer_mutex`; `borrow_one` takes it twice and
`release_one` notifies after it let go of it, so other threads come in between. The pool's
`buffer` is a `TraceableList`: the record of the fields of the list and of its nodes, with
one operator per method. `fill_full`, if it is called, runs before the threads (`cter`).

### MingwSync

Workers that lock, wait with or without a limit, and notify with or without the mutex, and
a main thread that joins them. Every access to `mNumWaiters`, the semaphore, the event and
the two critical sections is a step of its own, because waiters change the counter without
`mMutex`. `Lapse` is a wait that ends by its limit, `aborted` a failed assertion.

## 3. Runs

| Run | Instance | Properties | Shows |
|---|---|---|---|
| `relay` | 3 bytes up, 2 down, half buffer 2, socket buffers 2, tunnel 1 frame | `InOrder`, `NothingDropped`, `OrderlyEnd`, `MutualBlockIsFinal`, `Delivery`, `EndPropagates` | order, no loss while open, an orderly end delivers everything, a mutual block is final; with peers that read, all that was sent is written on, and the end of one thread ends the other, but for the named exceptions |
| `stream` | 2 packets out of 3, half buffer 2, 6 bytes on the way, 2 signals | `StreamAligned`, `BuffersReturned`, `CarriesPackets` | the loops keep every byte in its place, lose a buffer only where a read fails, and implement `FrameChannel` |
| `session` | 2 connections, 2 to 4 descriptors on each side | `Ownership`, `KeyAgreement`, `DeathCauses`, `StarvedForever`, `SetupSettles` | ownership of sockets, connInfo and keys; one key although threads share `rand()`; what can end a process while the other one runs; how far leaked sockets go; after the success reply a thread relays or ends |
| `go_session` | up to 4 frames up, 2 chunks down, 4 together | `InOrder`, `LossBound`, `CloseAfterUsers`, `PanicOnlyInGap`, `OnlyClientEnds`, `StrandedForever`, `ClientCloseEnds` | order, loss of at most one frame or chunk, close after all users, the only panic; after the client's close the handler returns, but for the named cases |
| `go_pool` | 2 workers, queue of 1, 5 jobs | `WorkerPromised`, `AbstractSpec`, `EveryJobServed`, `AcceptNeverBlocked` | no job lost or run twice (refinement of `JobPool`), every job served, hung workers never stop the accept loop |
| `parts`, object pool | 4 threads, 2 objects, 8 borrows; lists of up to 5 nodes | `PoolSound`, `ListsAreSequences`, `WaitersServed` | no object lent twice or lost; list operations as on sequences; every wait ends when borrowers give back |
| `parts`, addresses | 4 IPv4 and 5 IPv6 addresses, 3 ports, valid and other requests | `DialsDestination`, `OrdinaryIsTried` | the native server connects to what was asked for; a CONNECT to an IPv4 host, given or resolved, gets to a connection attempt at either server |
| `parts`, encryption | 4 passphrases, 3 numbers, 4 lengths, 1 address | `SessionAgreement`, `RoundTrip`, `KnownAnswers` | same session key; packets arrive as sent; the cipher gives the test vectors in its source |
| `parts`, start | command lines of up to 2 items before nothing or a complete set, 3 disks | `StartsComplete`, `OptionsAsGiven`, `FailureReported` | a program that listens is complete, options are read as meant, a failed start says so and has released what it held |
| `cond_var` | 3 workers, 4 operations | `MutexSound`, `NotifyAllWakesAll`, `SoundUntilLapse`, `Settles` | exclusion, notify_all reaches everyone, no spurious wake-up and no failed assertion before a limit lapses; a run without a lapse comes to an end, but for a wait that nobody notifies |

The bounds are the smallest at which the cases in question happen. With a half buffer of 2 a
read can be shorter, equal (and block) and longer in two parts; three bytes up and two
down are the least that reach a mutual block, since the first frame is used up by the
connection to the next hop. The packets of `stream` are an empty one, one that
looks like a length, and one that is longer than two half buffers and than `MaxLen`, so
that the reader refuses it; six bytes on the way hold a length and a part of its packet. With two descriptors one failed authentication starves skcli, with four both
connections have a tunnel; with two at the server one relay fills the table, with three two
threads fit. Four frames upstream are the least that strand `c2s`: one to dial, one that
`s2r` fails to write, one in the channel, one in hand; `MaxTraffic` keeps the frames and
chunks of one behaviour to four, so that three frames meet a chunk and two meet two. Five
jobs are two workers', the dispatcher's, the queue's, and one more at the listener. The
payload lengths are on and around a block boundary. Two items before a complete command line
let an option come twice, long and short, with and without `=`, and a name take another
option for its value. Four threads on two objects make two of them wait while two release.
Three workers are two that wait and one that notifies, and four operations let one lapse
between the two reads of `notify_one`. Deadlock is not checked: every one of these systems
may stop, and what a stop must look like is stated as a property (`ClientCloseEnds`,
`SetupSettles`, `Settles`, `WaitersServed`, ...).

Fairness is weak fairness of threads, goroutines and the calls they are in: the operating
system and the Go scheduler run what can run. Peers owe nothing; `Delivery` names its
assumption that both read (`PeersRead`) as a hypothesis. In the Go pool, a handler that has
not hung returns. In the object pool, a thread gives back what it borrowed (`Spec`); that a
thread borrows, or is woken by nobody, is not assumed. `SpecKeeping` drops the first and lets a
thread keep its object. In `MingwSync` a thread's step is fair only
as long as it stays possible, since a critical section promises no turn. In `stream` the
reader comes back to its socket, which the relay does between two packets, and a reader
that has thrown closes it.

Five further runs compare the code with what the repository says, and fail:

| Run | Says | Does |
|---|---|---|
| `addr_doc_port`, `PortAsDecoded` | `CHANGELOG.md:6`: the port is in host byte order | the Go server swaps its bytes |
| `addr_doc_mapped`, `MappedIsTried` | `socks5.hpp:80`: IPv4-mapped addresses are left as they are, and work | `ip_array_to_str` prints sixteen decimal groups, which `getaddrinfo` takes for no address, so the native server ends the session; the same holds for every other address of 16 bytes |
| `startup_doc_retry`, `RetryNeverGivesUp` | `client.cc:77`: `--retry` retries infinitely | the move constructor resolves again with an uninitialised `nx_retry` |
| `object_pool_wait`, `WaitsUntilRelease` | `pool.hpp:23`: borrow_one waits until some other thread releases its object | a borrower resets `new_obj_ready` also when another object is free, so a notified waiter sleeps on beside it, for ever if nobody releases again |
| `cond_var_assert`, `AssertionsHold` | `mingw.condition_variable.h:144`: `assert(mNumWaiters == targetWaiters)` | a wait that lapses between the two reads of `mNumWaiters` takes it below the target |

One smaller disagreement is visible in the models without a run of its own. `tunnel.hpp:23`
says that newConnection returns an authorised connection or -1, but it only connects, and
failures are exceptions: `Dial` and `Query` of `NativeSession` are separate steps for that
reason.

Some passing properties state limits rather than virtues: `MutualBlockIsFinal`,
`StarvedForever`, `StrandedForever`, `OnlyClientEnds`, `SoundUntilLapse` and the exceptions
in `Delivery`, `EndPropagates`, `DeathCauses`, `BuffersReturned`, `DialsDestination` and
`OrdinaryIsTried` say how far the code's promises go. Two of these exceptions are addresses that
the code gets wrong and about which the repository says nothing: a resolved address whose bytes
add up to a multiple of 256 counts as not resolved (`socks5.hpp:75`), and a data packet for the
zero address passes for a DNS query (`NetLib.hpp:63`).

## 4. Proofs

All theorems hold for every value of the constants that the named assumption of the module
admits: natural numbers for the bounds, finite sets of threads, workers and connections.

`TunnelRelayProofs` (`RelayAssumption`):

* `TypeCorrect`: types and buffer bounds.
* `LayoutCorrect`: `StreamLayout`, the inductive invariant. `InOrder` alone is not
  inductive: it says nothing of the bytes that are on their way. `StreamLayout` places
  every byte of a direction in what the receiver has read, its socket buffer, the chunk one
  thread holds, the frames in the tunnel, or the chunk of the other thread, in this order
  and without a gap, for as long as the threads that pass them on run. Its conjuncts are
  proved action by action; lemmas say what taking, adding or cutting off frames does to
  contiguity.
* `InOrderCorrect` and `NothingDroppedCorrect` follow from it.
* `OrderlyEndCorrect` from `EndInv`. While nothing flows back (`Quiet`) no reset can throw
  bytes away, so a thread that has left did so for a known reason: the client at the end
  of the application's stream, the server after it had drained the tunnel. The invariant
  keeps these reasons, which `OrderlyEnd` itself forgets.
* `MutualBlockForever`: no step leaves a mutual block.

`StreamIOProofs` (`StreamAssumption`, and `LengthsFit`: a length fits its four bytes):

* `StreamStaysAligned` and `BuffersAreReturned` from `IInv`: the places and buffers of the
  writer and the reader (`WriterInv`, `ReaderInv`, `BufInv`), what was received as packets
  (`MsgInv`) and as bytes (`LayInv`). The last two need each other: a length is read right
  because the bytes are in place, and the bytes of the next packet are in place because
  the length was read right. `ntohl` is shown to undo `htonl` for every length. What the
  recursion `Frames` computes is proved by induction over the number of packets, as a set of
  natural numbers.
* `LoopsCarryWholePackets`: the initial state and every step of the loops are those of
  `FrameChannel`, or a stutter. `CarriesPackets` adds its fairness and stays with TLC.

`GoProxyProofs` (`ProxyAssumption`):

* `TypeCorrect`.
* `CloseAfterUsersCorrect`, `PanicOnlyInGapCorrect`, `EndRoomCorrect` from `SyncInv`: which
  goroutines exist in which part of `proxy` (`PhaseInv`), the counter as what was added
  less what is done (`WgInv`), and who has sent what is in the End channels (`EndsInv`).
  Without the last, a third send on an End channel could not be excluded; without the
  first two, nothing ties `Wait` to the goroutines.
* `StrandedForeverCorrect`: an action property.

`GoProxyDataProofs`, on top of it:

* `InOrderCorrect`, `LossBoundCorrect` and `OnlyClientEndsCorrect` from `DataInv`. For each
  direction it counts what is with the receiver, in its socket, with the goroutine that
  writes, in the channel and with the one that reads, and ties the number of each frame to
  its place (`UpOrder`, `UpCount`, `DownOrder`, `DownCount`). `StageInv` says that there is no
  data before the remote connection, `EndInv` that `c2s` ended because the client's stream
  did. The counts turn the bound on the loss into the capacity of the channel, and
  `SyncInv` into the fact that only one goroutine at a time has the next frame.

`GoWorkerPoolProofs` (`PoolAssumption`):

* `TypeCorrect`; `JobConservedCorrect` and `WorkerPromisedCorrect`, which are inductive only
  together: that a job is given once needs the worker to be promised once, and the other
  way round. `NotStarted` adds that nothing runs before `Run`.
* `RefinementCorrect`: `Spec => AbstractSpec`, the initial state and every action mapped to
  a step or a stutter of `JobPool`, from that invariant.

`NativeSessionProofs` (`SessionAssumption`):

* `OwnershipCorrect` and `KeyAgreementCorrect` from `ConnInv`, one copy for each connection:
  what the client's thread and the server's hold at each place (`CliInv`, `SrvInv`), at
  which places the two can be at the same time while both processes run (`SyncInv`), and
  that a key on its way or read is the server's (`KeyInv`). Ownership alone is not
  inductive: whether a reply finds its reader depends on where the other thread can be. A
  frame lemma takes a step of one connection past the invariants of all others.
* `DeathCausesCorrect`, an action property: while skcli runs, sksrv dies only of an error of
  `accept()` with a connection in the backlog or of a write in a relay, and while sksrv runs,
  skcli dies only of an application that leaves during the SOCKS5 exchange. That neither dies of
  the authentication or of a DNS answer needs `SyncInv`: the other end is then waiting for it.
* `StarvedForeverCorrect`, an action property; it needs `FdInv`, that no table is over its limit.

`MingwSyncProofs` (`SyncAssumption`):

* `MutexSoundCorrect`.
* `NotifyAllWakesAllCorrect` from `LatchSound` (who notifies holds `mMutex`), `CountSound`
  (the counter is the number of waiters) and `DrainSound`.
* `SoundUntilLapseCorrect` from `TokenSound`: tokens in the semaphore and waiters that have
  taken one add up to those the notification still waits for. It holds until a wait lapses.

`ObjectPoolProofs` (`PoolAssumption`):

* `PoolSoundCorrect`. With the types, and with `FillAlone` for the time of `fill_full`, it is
  inductive. Lemmas say what the list and the free list are after each operation.
* `EmplaceOneInserts`, `PopOneRemoves`, `EndsOfTheList`, `DestructorDeletesAll`: on a list of
  any length that spells a sequence of distinct nodes (`Spells`: ends, size, both links of
  every node, flags), the operations do what inserting and removing do to the sequence. Each
  is split into how the sequence changes (`InsFacts`, `DelFacts`), which links then have to
  change (`InsLinked`, `DelLinked`), and that the code changes just these.
* `PoolDeletesAll`: the pool's own list spells its objects in the order of their making,
  whatever the threads do, and the destructor deletes all of them.

Only model-checked:

* everything with fairness (`Delivery`, `EndPropagates`, `SetupSettles`, `ClientCloseEnds`,
  `EveryJobServed`, `AcceptNeverBlocked`, `Settles`, `WaitersServed`, and what
  `CarriesPackets` says beyond `LoopsCarryWholePackets`), since the prover has no rules for
  it here;
* `PacketCodec` and `AesCipher`, which use bitwise operators and recursive ones, and the
  options of `Startup`, which are folds over words: what these compute would need induction
  over data with an operator as a parameter;
* `AddrPath`: a proof is within reach and not done; the run takes the addresses at the
  boundaries of its conversions;
* `pop_some` of the list, a loop over `pop_one`: `ListsAreSequences` checks it up to five nodes.

## 5. Not modelled

* `ThreadPool` (`threadPool.hpp`): compiled out by `___NO_THREAD_POOL`.
* Module loading and configuration of the Go server: straight-line code before the first
  goroutine. go-ini, which it uses, is vendored text processing.
* Code that nothing calls: `config::save`, `octet_order.c`, CBC mode of the cipher, `readn`,
  `writen`, `send_msg` and `recv_msg` of `sio.hpp`, the timed mutexes of MinGW,
  `Worker.Stop`.
* rlib's strings, formatting and output; the example modules; the tests; packaging.
* `reconstruct_one` of the object pool, which destroys and constructs one object in place and
  changes no state of the pool.
* The Windows accept loops, which make the calls of the POSIX ones.
* Ownership of the malloc'ed strings that pass through the modules.
* Descriptors as numbers: `FD_SET` beyond `FD_SETSIZE` (`tunnel.cc:194`) is a hazard without
  a property, and so is the spinning of `accept` on a full table (`socks5.cc:83`), which
  changes no state.

The object pool is library code that skcli and sksrv do not use; the MinGW mutex and condition
variable are used by it and by `ThreadPool`. They are modelled as the libraries they are.
