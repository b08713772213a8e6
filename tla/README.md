# RetroShare: TLA+ models of the core of libretroshare

RetroShare is a friend-to-friend network. Each node links only to its friends;
everything else (mail to strangers, file transfer, forums, distant chat) travels
over friend links, cached and forwarded by nodes in between, or through
anonymous tunnels that the turtle router digs. This project models parts of
`libretroshare`, checks them with TLC on small instances and proves
the main results with TLAPS for every instance:

* the **global router** (`grouter/`), which carries messages to a cryptographic
  identity wherever it is, with its tunnel requests and its data pipes;
* the **turtle router** (`turtle/`), which digs the tunnels and forwards what goes
  through them;
* **file transfer** (`ft/`): the download of a file from several sources;
* the **configuration manager** (`pqi/p3cfgmgr.cc`), which keeps the state of every
  service through crashes.

These hold the most protocol state, tolerate the most failures and are the parts
that a test on one machine reaches least.

Contents: [inventory](#inventory), [plan](#plan), [modules](#modules),
[runs](#runs), [fairness](#fairness), [proofs](#proofs),
[findings](#findings), [limits](#limits).

## Inventory

Paths are relative to `src/libretroshare/src`. One thread of a node, the data
thread (`rsserver/p3face-server.cc`, `pqi/pqiservice.cc`), runs in turn the
`tick()` of every service and the saving of configuration. User interface,
plug-ins and GXS services call from threads of their own. Services are therefore
sequential among themselves, but each part of a `tick()` takes its mutex anew, so
calls from other threads fall between the parts.

| Component | State | Operations | Interacts with | Hard behaviour | What makes it correct |
|---|---|---|---|---|---|
| **Global router** `grouter/p3grouter.cc`, `groutermatrix.cc`, `groutertypes.h` | `_pending_messages` (cache of entries with status, flags, receipt, incoming routes, time stamps), `_incoming_items`, routing matrix, configuration file | `sendData`, `cancel`, `addRoutingClue`; `tick`: low level items, `handleIncoming`, `routePendingObjects`, `autoWash`; `saveList`/`loadList` | clients (`notifyDataStatus`, `receiveGRouterData`), turtle router, friend links, identities (signatures), configuration | lost, late and repeated items; acknowledgements without a transaction number; crash between acknowledgement and save; keep times that differ per role; tunnels closed at one end | no message is forgotten, delivered twice, or reported as received without a receipt |
| **Tunnel requests** `p3grouter.cc` `handleTunnels`, `addVirtualPeer`, `removeVirtualPeer`; `turtle/p3turtle.cc` hash monitoring | `tunnel_status` and time of the last request per message, `_tunnels`, `_incoming_file_hashes`, `_hashes_to_remove`, `_local_tunnels` | ask, give up, tunnel found, tunnel removed, clean-up | the two routers call each other, off-mutex | messages that share a hash; requests withdrawn late; tunnels that come after the last message went | both routers agree on the open tunnels; nobody waits for ever |
| **Data pipes** `p3grouter.cc` `sliceDataItem`, `addDataChunk` | one buffer per peer | cut, join, clear | links, `autoWash` | interrupted transmissions, the buffer outlives the connection | nothing is joined that was not sent together |
| **Turtle router** `turtle/p3turtle.cc` | `_tunnel_requests_origins`, `_local_tunnels`, `_virtual_peers`, `_incoming_file_hashes`, `_outgoing_tunnel_client_services`, `_hashes_to_remove` | monitor, dig, answer, forward, close; searches | all tunnel clients | requests that go round, answers after time-outs, tunnels closed at one node only | no loops, items stay in their tunnel, broken tunnels disappear |
| **File transfer** `ft/` | chunk map, pending slices and parts, partial file, transfer module, checksums, saved list; queue and uploads | ask, receive, split, give up, verify, hash, complete, restart | turtle, friends, configuration | time-outs racing late data, wrong sources, stale saved list | three tables that agree; the file is complete only if it is right; the transfer ends |
| Mail and GXS mail `services/p3msgservice.cc`, `gxstrans/` | out-box, records per mail, configuration | send, receive, receipts | global router, GXS | two ways of delivery, restart | each mail delivered once, removed only when received |
| **Configuration** `pqi/p3cfgmgr.cc` | two change flags per configuration; current file, backup and new file, each with a signature | indicate, save in tick, final save, load | every service | crash between two renames, failing operations, full disc, two saving threads | what was saved is loaded, no indicated change is forgotten |
| GXS synchronisation `gxs/rsgxsnetservice.cc` | transactions, time stamps per peer | requests, item lists, acknowledgements | friends, data store | transactions cut off, items in any order | time stamps advance only past what was received |
| GXS data access `gxs/rsgxsdataaccess.cc`, `rsgenexchange.cc` | token requests | request, process, retrieve, cancel | services, data store | cancel racing completion | each token ends in one final state |
| GXS identities `services/p3idservice.cc` | key caches | request, sign, verify | GXS | keys that arrive late | policy and cryptography mostly |
| GXS tunnels, distant chat `gxstunnel/`, `chat/distantchat.cc` | tunnel states, unacknowledged items | handshake, data, keep alive, close | turtle | re-established tunnels, duplicates | each item once, in a tunnel with an authenticated peer |
| Chat lobbies `chat/distributedchat.cc` | lobbies, message caches | invite, bounce, keep alive | friends | loops | each message shown once |
| Peer links `pqi/` | connection states, queues | connect, accept, send, fail over | network | simultaneous connections | one active connection per friend |
| TCP over UDP `tcponudp/` | sequence numbers, windows | send, acknowledge, retransmit | UDP | loss, wrap-around | stream semantics |
| File lists `file_sharing/` | directory trees, hash cache | scan, hash, synchronise | disk, friends | bulk data | eventually equal lists |
| Discovery, banning, status, bandwidth `services/` | small tables | periodic | friends | little | policy |
| DHT `dht/` | wraps libbitdht | publish, look up | strangers | not controlled by this code | out of reach |
| GUI, plug-ins, web API, vendored code | | | | | not modelled |

The full list with the status of each component is in `PROJECT.json`. Its
`hazards` name, line by line, what is hard to test in the modelled parts and
which property watches it.

### The life of a message

`sendData()` stores the message at the origin as PENDING. In each tick,
`routePendingObjects()` sends a PENDING message through a tunnel to the
destination if it may and has one, otherwise to some friends (ONGOING). If no
friend could take it for `DIRECT_FRIEND_TRY_DELAY`, tunnels are allowed and
`handleTunnels()` asks for one. A node that receives an item acknowledges it at
once (the sender's entry becomes SENT), then looks at it: a relay caches it, and
remembers the peer it came from among the *incoming routes*; the destination
verifies it, signs a receipt, keeps an entry (RECEIPT_OK) and hands the data to
its client. Receipts go back along incoming routes, which are struck off as soon
as the receipt is sent; an entry without routes is DONE. At the origin the
receipt ends the message with `notifyDataStatus(RECEIVED)`. Entries that grow too
old are removed by `autoWash()`, with `notifyDataStatus(FAILED)`. An ONGOING
message without acknowledgement becomes PENDING again after 60 seconds.

## Plan

1. *Done.* `GRouter` with `GRouterService` (abstract) and `GRouterProofs`;
   `GRouterTunnels` with `GRouterTunnelsProofs`; `GRouterPipe` with
   `GRouterPipeProofs`.
2. *Done.* `ConfigFiles` with `ConfigFilesProofs`: the save and the recovery that
   `GRouter` and `FileTransfer` take for one step.
3. *Done.* `FileTransfer` with `Download` (abstract) and `FileTransferProofs`: one download.
4. *Done.* `Turtle` with `VirtualPeers` (abstract) and `TurtleProofs`: the tunnels that `GRouter` and
   `GRouterTunnels` see as links and as free choices.
5. *Done.* The invariants of the caches for every network (`GRouterCacheProofs`),
   `WasteBounded`, `NotOlderThanBackup`, `EndsRegistered`, the tables of a download
   (`FileTransferProofs`, on `SumTheorems`), and `OneVerdict` under the condition that
   makes it true, a network without cycles and without crashes; the refinements of
   `Download` and of `VirtualPeers`.
6. Left to model: mail (`p3MsgService`, `p3GxsTrans`) as a client of
   `GRouterService`; duplication factors of the global router; the queue of
   `ftController`; GXS tunnels on top of `Turtle`; GXS transactions and tokens;
   connection establishment.

How the modules fit together: `GRouter` takes a tunnel for a link that either end
may see closed, which is what `Turtle` shows tunnels to be (`DataFromOtherEnd`, broken
tunnels that disappear at other times at each end); `GRouterTunnels` composes the requests
of the global router with the hash table of the turtle router at one node; a save of
`GRouter` is one step, which is `SavedIsLoaded` and `BackupCovers` of `ConfigFiles` as
long as no file operation fails and no crash falls between the two backup renames.

## Modules

### GRouter

A network of nodes over friend links and tunnels. `Node`, `Msg`, `Origin`,
`Dest` and `Friends` give the topology; delays are constants in the order of
`groutertypes.h`.

| State | Code |
|---|---|
| `pending[n][m]` | `_pending_messages`: role and `allowTunnels` are `routing_flags`, then `data_status`, `receipt_item`, `incoming_routes`, `received_time_TS`, `last_sent_TS`, `data_transaction_TS` |
| `incoming[n]` | `_incoming_items` |
| `clues[n][d]` | the friends that `GRouterMatrix` favours for a key |
| `phase[n]` | which part of `tick()` comes next |
| `up`, `net` | connections as each end sees them, and what is under way, as a bag per direction |
| `saved`, `dirty` | the configuration file, and pending calls of `IndicateConfigChanged()` |
| `issued`, `cancelled`, `handled`, `delivered`, `told` | history: calls between the router and its clients |

| Action | Code |
|---|---|
| `SendData`, `Cancel`, `AddRoutingClue` | the functions of that name, from any thread |
| `ReceiveAck`, `ReceiveItem`, `LowLevelDone` | `handleLowLevelServiceItems()`, `receiveTurtleData()`, `handleLowLevelTransaction...Item()` |
| `HandleIncomingDataItem`, `HandleIncomingReceiptItem` | the functions of that name; whether a signature verifies (of a receipt also at a relay), the data decrypts and the client accepts is a free choice |
| `RoutePendingObjects` | `routePendingObjects()`: one step for the whole cache, as it holds the mutex. `Hops`, `Routed`, `Answered`, `Struck` are its parts |
| `AutoWash` | `autoWash()`: `Expired`, `FailureNotices` |
| `SaveConfig`, `Crash` | `saveList()`; a crash and the restart with `loadList()`. The transaction time is not saved; virtual peer ids of tunnels mean nothing afterwards |
| `LinkUp`, `LinkDown`, `CloseTunnel`, `IdleTunnel` | friends and tunnels as the router sees them |
| `Clock` | `time(NULL)` |

Abstractions: a message is its id; an item crosses a link whole (`GRouterPipe`
has the chunks); probabilities are reduced to the set of friends they favour;
a link does not keep the order of items, which is more than TCP allows to happen
and what several tunnels do; `_changed`, which `addRoutingClue()` and `autoWash()` set and a
later `tick()` turns into a call of `IndicateConfigChanged()`, is taken as a request to
save at once, and a save may come at any later time, so all real save times are
covered. `GRouterService` is the abstract specification: what a client may
observe of one message. It is a refinement target (`ImplementsService`), with
the verdicts at the origin read off `told`.

### GRouterTunnels

One node, in detail: for each message `tunnel_status`, and the age of the last
request; for each hash the virtual peers the global router knows (`known`), and
the turtle router's `monitored`, `toRemove`, `tunnels`, and the `responses` to its
last search, which may come at any later time, also when a tunnel is already open
(`handleTunnelResult()` takes them as long as the hash is monitored). `turn` is the place in
the loop of the thread: `Route` (the parts of `tick()` up to `autoWash()`),
`HandleTunnels`, then the turtle router, which may find tunnels (`TunnelFound`)
and finally cleans up. `TurtleTick` closes tunnels under the mutex of the turtle router
and puts them in `leaving` (`services_vpids_to_remove`); the call-backs follow when the mutex is
released, one `RemoveVirtualPeer` each, while `turn` is "removal", and `sendData()` and `cancel()` may
come between any two of them. `addVirtualPeer()` is also called off the mutex, after
`handleTunnelResult()` has entered the tunnel; `TunnelFound` has both in one step, as
`sendData()` and `cancel()` neither read nor change anything of the turtle router, nor the lists
of tunnels. What becomes of a message while it waits is a
free choice within what `routePendingObjects()` can do (`Routings`). The unit of
time is the period of the turtle router's clean-up.

### GRouterPipe

One link: `Send` cuts an item into chunks of `ChunkSize` bytes, `Lose` removes any
run of chunks, `AddDataChunk` is the receiver, `WashPipe` the clean-up of inactive
pipes. Each transmission has a number, so that `out` says which transmissions
contributed to an item that came out.

### ConfigFiles

| State | Code |
|---|---|
| `value[c]`, `newest[c]`, `unindicated` | the data of the service as a version; changed, and not yet indicated |
| `flag[c]` | the two bits of `ConfInd`: one for `tick()`, one for `saveConfig()` |
| `file[c]` | six files: current, backup (`.tmp`) and new (`_new`), each with its signature |
| `active`, `tick`, `final` | `mConfigSaveActive`, and how far `tick()` and `completeConfiguration()` are |
| `holder`, `todo`, `cur`, `step`, `snap`, `hash` | the thread that holds `cfgMtx` in `saveConfig()`, and its place |
| `indicated`, `due`, `committed`, `previous`, `sound`, `faulty` | history: what was indicated and saved |

Actions: `Change` and `IndicateConfigChanged` in the services; `TickScan` and
`TickSave`; `CompleteConfiguration`, `FinalSave`, `DisableSaving`; then one action per
step of `p3Config::saveConfig()`: `SaveList`, `OpenNew`, `SendItems`,
`WriteSignature`, `BackupCfg`, `BackupSgn`, `InstallCfg`, `InstallSgn`, `SaveDone`. Each file
operation may fail as the code allows: the second rename of a pair is not tried after
the first fails, the next pair always is. `Crash` may come between any two steps;
`Start` is `loadConfig()` with both attempts. Data is a version, a signature
file is the version that was signed. A file that is not there hashes like an empty
one, as in `loadAttempt()`. Renames are atomic and survive a crash: data that the
operating system loses at a power failure is not modelled (the code never calls
`fsync`).

### FileTransfer

One download. Lengths are counted in packets.

| State | Code |
|---|---|
| `map`, `remains`, `slices`, `feed`, `queue`, `complete`, `total` | `ChunkMap`: `_map`, `_slices_to_download`, `_active_chunks_feed`, `_chunks_checking_queue`, `_file_is_complete`, `_total_downloaded` |
| `parts`, `refs`, `count`, `content` | `ftFileCreator`: `mChunks`, the shared `ref_cnt`, `mChunksPerPeer`, the partial file |
| `flag`, `hashing` | `ftTransferModule`: `mFlag`; the hash thread, how many units it has read, and whether all were right |
| `late` | history: units with wrong data that came after the hash thread had read them |
| `toAsk`, `checksums` | `ftDataMultiplex`: checksums of chunks to ask for and to look at |
| `saved` | the chunks in the list that `ftController` saves |
| `net` | what sources have been asked for and will send, in order |

Actions: `GetDataChunk` (`getDataChunk()` with the sharing of another peer's chunk),
`ReAskPart`, `ReAskPendingChunk` (the two time-outs); `RecvFileData` (`addFileData()`
and `locked_notifyReceived()`, which splits slices); `RemoveInactive`; `QueryInactive`,
`RecvSingleChunkCRC`, `VerifyChunk`, `CheckFile`, `ReadUnit`, `HashReceivedData`, `CompleteFile`;
`SaveTransfers`, `Restart`. Time-outs may happen at any time. Chunk strategies, rates and the choice of sources
are free choices. A source may send wrong data, and a checksum that is wrong, comes again or was not asked for.

The final hash takes time. `CheckFile` starts the hash thread, which reads the file from its beginning to
its end without a mutex (`hashReceivedData()`: "No mutex here please"): one `ReadUnit` per unit, with
any other step in between, also `RecvFileData`, which writes whatever the transfer module is
doing. `HashReceivedData` is its verdict on what it read, and `CheckFile` takes the result.
So the thread may read right data that is overwritten before the verdict, or a mixture that
the file never was. `getFileHash()` reads blocks of 10 MB; units are finer, so
every order of reads and writes of the code is covered.

`Download` is the abstract specification: the partial file, chunks that are missing, being checked or
done, the saved list, and the stage of the file (loading, verifying, failed, verified, delivered) with the units
`read` so far; no slices, parts, feeds, queues, counters, flags of threads or packets. It says when a chunk may be
collected (all its data is there), count as done (right when it was checked) or be lost again (a failed
check, a failed hash, a restart with an older list); that the file is verified only when all
chunks are done, and verified only if each unit was right at the time when it was read; that only
a verified file is delivered, and that it does not change afterwards. It does not say that a delivered file
is right, as the code cannot promise that (see the [observations](#findings)); `CompleteIsRight` says
which units are. `ImplementsDownload` maps active chunks to missing ones (`ChunkStates`), the flag and the
state of the hash thread to the stage (`Stage`), and its position to the units read (`UnitsRead`).

### Turtle

Several nodes, as friends of each other in any graph.

| State | Code |
|---|---|
| `origin`, `responses` | `_tunnel_requests_origins` of each node |
| `tunnels` | `_local_tunnels`: id, `local_src`, `local_dst`, hash, and whether it was stamped within the idle time |
| `vpeers`, `outgoing` | `_virtual_peers`, `_outgoing_tunnel_client_services` |
| `hashes`, `toRemove` | `_incoming_file_hashes`, `_hashes_to_remove` |
| `sources` | the virtual peers that services have been told of |
| `net` | requests, answers and tunnel items on friend links, in any order |

Actions: `MonitorTunnels`, `StopMonitoringTunnels`, `DiggTunnel`, `HandleTunnelRequest`,
`HandleTunnelResult`, `SendTurtleData`, `RouteGenericTunnelItem`, and the parts of
`autoWash()`: `RemoveHash`, `ExpireRequest`, `Idle`, `CloseTunnels`. A tunnel id
is the route, as every node mixes a random number of its own into it; ids that
collide by chance are left out. Whom a request is forwarded to is any
subset of the other friends, which covers depth limits, probabilities and missing
connections. The traffic is that of file transfer: requests in one direction, which do
not stamp a tunnel, and data in the other, which does.

`VirtualPeers` is the abstract specification: what the interface of
`RsTurtleClientService` promises, without floods, caches, routes and tables. Services are told of a
tunnel only at its two ends, a client of a hash and somebody who has the file, and each end may lose it
alone. A request in a tunnel is received once, at the end that has the file, and answered once,
or it is lost. `ImplementsVirtualPeers` maps what services were told of (`sources`),
the answers they owe (`asked`) and the items on their way (`Carried`), as long as no
cache entry expires early.

### MC modules

`MCGRouter`, `MCGRouterTunnels`, `MCGRouterPipe`, `MCConfigFiles`, `MCFileTransfer` and
`MCTurtle` define the constants that
configurations refer to; they add nothing to the specifications. Operators whose
name ends in `Mutant`, and those called mutants in a comment, stand before the
definition they corrupt; no specification uses them.

## Runs

Time is in units chosen such that the order of the delays is that of the code. A delay
of 0 is over at the next tick of the clock. Not every delay expires in every run. `CacheKeep`
does in all runs of `GRouter`; the time a destination keeps its entries (`DestKeep`) expires in `tunnel` and
`resend` only; and `FriendTry`, after which tunnels are allowed, never does in `line`, `crash` and
`resend`, which have no tunnels.

| Run | Configuration | Instance | Shows |
|---|---|---|---|
| `line` | `MCGRouterLine` | o - r - d, friends; r has a clue that points back to o; one break of a link; the clock moves once | types; `NoSilentLoss`, `ReceiptHasRoute`, `OneVerdict`, `NoReroute` across a relay, with data, acknowledgements and receipts that come late or never (310 000 states) |
| `tunnel` | `MCGRouterTunnel` | o, d friends, who connect at any time or never, and may dig tunnels, which close at one end and go idle; data is sent again over both; the clock goes from 1 to 5, past the time the destination keeps the message (3) | `EveryMessageSettled` under fairness, also when only one end knows that a tunnel is closed; `DeliveredOnce` up to the last moment at which it is promised: one tick later, at 5, a message is delivered twice (250 000 states) |
| `crash` | `MCGRouterCrash` | o - d, one crash of either, data sent again for want of an acknowledgement | `Provenance`, `ReceiptSound`, `ImplementsService` through a crash and the restart from the last save; `DeliveredOnce`: a crash costs at most one more delivery, within the time that the destination keeps the message (1.5 million states) |
| `requests` | `MCGRouterTunnels` | two messages of one hash, two tunnels; other threads between any two parts of the loop and any two call-backs | `KnownTunnelsExist`, `ReadyHasTunnel`, and `WaitingServed` under fairness (84 000 states) |
| `pipe` | `MCGRouterPipe` | four transmissions, sizes 1, 3, 4, 5 with chunks of 2, two losses, one clean-up | `IntactNotMixed`, `WasteBounded` (145 000 states) |
| `config` | `MCConfigFiles` | one configuration, 3 changes, 2 crashes, 1 failing operation, 1 full disc | `SavedIsLoaded`, `NotOlderThanBackup`, `BackupCovers`, `FinalSaveComplete`; `ChangeSaved` under fairness (880 000 states) |
| `transfer` | `MCFileTransfer` | a file of two chunks (2 and 1 packets), two sources, the second with one chunk; any 2 of: lost packet, wrong packet, wrong, repeated or unsolicited checksum, inactive chunk, save, restart | `ChunkAccounted`, `SlicePending`, `CheckedIsWritten`, `CacheExact`, `CounterExact`, `CompleteIsRight`; `ImplementsDownload`; `Completes` under fairness (600 000 states) |
| `turtle` | `MCTurtle` | three nodes, all friends; one hash; two requests; one cache entry that goes too early | `LoopFree`, `RouteStable`, `DataFromOtherEnd`, `EndsRegistered`; `ImplementsVirtualPeers`; `BrokenTunnelsDisappear` under fairness (240 000 states) |
| `resend`, `leak`, `configcrash`, `counter` | | | the [findings](#findings), as violated properties |

Why the bounds are enough. One message suffices in `GRouter`, because entries
of different messages do not read each other; what they share, tunnels and
requests, is the subject of `GRouterTunnels`, which has two. A relay needs a
neighbour on each side: three nodes. Copies in links are not bounded: they are
limited by the clock, as every repetition costs an `AckWait`. Data is re-sent where
`AckWait` is shorter than the cache time (`tunnel`, `crash`); on three nodes
that takes too many states, so `line` lets the message expire first: with one tick,
each thing happens before or after the entries that were there from the beginning expire. As
nothing forces an item to arrive, each link may lose anything without a break; what
breaks is shown with friend links (`line`), with tunnels that one end closes (`tunnel`) and with crashes (`crash`),
which also empty the links. One break and one
crash are enough for each place where something is lost between two steps; further
ones repeat the situation with less time left. In `GRouterPipe` a mixture needs
the remains of two transmissions and a third and a fourth to be spoilt; sizes 3 and
4 have as many chunks but differ.

In `ConfigFiles` configurations only share the mutex and the flags of the manager, so
one is enough for files, and both threads still compete for it; the second crash
meets what the first left. A slice can only be split if it has two packets, and shared
chunks need two sources; a wrong packet behind the hash thread needs a slice that was asked twice, which two
sources give, and a unit on either side of its position; `counter` has chunks of three packets, as the counter goes
wrong only when two parts of a slice are pending. In `Turtle` a triangle is the smallest graph with two routes to the provider and
a cycle; the second request finds routes again that the first found and that
were closed since. `MaxDigs`, `MaxStale`, `MaxFlight` and `Quiet` are bounds of the
model, named in the guards that use them; a new request is dug when the flood of the one before is over,
as `TUNNEL_REQUESTS_LIFE_TIME` and the time between two requests provide. The
proofs hold for all values of `MaxDigs` and `MaxStale`. `LoopFree`, `RouteStable`,
`DataFromOtherEnd` and `ImplementsVirtualPeers` are stated as long as
no cache entry expires while its request still goes round: such an entry
lets the request pass again.

`DeliveredOnce` holds up to `MAX_DESTINATION_KEEP_TIME` only: every relay starts
its own 48 hours, so in a long chain a copy can be younger than the memory of the
destination. `OneVerdict` is stated for networks without cycles (`NoCycles`) and without
crashes: with a cycle, the origin can meet its own message again after the
receipt, cache it as a relay, and report FAILED when that entry expires; a
crash can bring back the entry of a message that was already reported.

`CHECK_DEADLOCK FALSE` is only set for the pipe, whose sender may have nothing
more to send; in the other modules the idle tick is a step, and a file that has
been delivered stays as it is.

## Fairness

`GRouter!FairSpec`: weak fairness of each node's `Tick` and of `Clock`. The data
thread of a running node loops for ever, and time passes. Nothing is assumed about
links, tunnels, arrival of items or clients. `EveryMessageSettled` therefore rests on
the expiry in `autoWash()` alone.

`GRouterTunnels!FairSpec`: weak fairness for the parts of the loop and for the call-backs about
closed tunnels; strong fairness for
a tick with clean-up in which time passes (the thread cannot always
run within the same second); strong fairness for a tunnel to be found for a hash
that is monitored, has no tunnel and is not about to be removed (the destination is reachable, and
each search is an independent attempt: without this nothing can be said about
tunnels); strong fairness for the end of messages that do not wait for a tunnel
(they are answered or expire within 48 hours). The last is not assumed of the
messages the property is about.

`ConfigFiles!FairSpec`: weak fairness of `TickScan`, `TickSave`, the steps of a save,
`FinalSave` and `DisableSaving` (the two threads run), and of `IndicateConfigChanged` (a
service that has changed its data calls it next). Changes, crashes, faults and the end
of the program are free.

`FileTransfer!FairSpec`: weak fairness of `Work`: something is done as long as there is anything to
do, by the thread that asks and checks, by the hash thread or by a source that answers (faults
are bounded, so sources answer in the end: without this no download ends). Nothing is said about each
of them, as no step of `Work` can be repeated for ever without bringing the end closer; lost packets,
inactive chunks, saves and restarts are not part of it.

`Turtle!FairSpec`: weak fairness of `Idle` and `CloseTunnels` of each node: time
passes and `autoWash()` runs. Nothing is assumed about services and the network.

## Proofs

All theorems hold for any set of nodes and messages, any friend lists and any
delays that satisfy the named assumptions (`ParticipantsAssumption`,
`DelaysAssumption`, `HashesAssumption`, `TunnelDelaysAssumption`, `BoundsAssumption`,
`ConfigAssumption`, `SizesAssumption`, `AvailAssumption`, `GraphAssumption`,
`HashAssumption`, `NodeAssumption`, `PipeAssumption`), each of which TLC evaluates on the instances.

`GRouterProofs`
* `TypeCorrect`: `Spec => []TypeOK`. `TypeOK` is inductive; one step per action,
  with lemmas on what the helpers return.
* `Genuine`: `Spec => []Provenance`. `Provenance` says of every place where an item
  or an entry can be (channels, queues, caches, configuration files) that it
  descends from a `sendData()`, and every receipt from a message that its
  destination handled. All four are needed together: a crash copies files to
  caches, routing copies caches to channels, ticks copy channels to queues and
  queues to caches.
* `ReceiptsSound`: `Spec => []ReceiptSound`, from `Provenance`: a queued receipt
  is genuine, and only entries at the origin have the role "origin".
* `KnownReceipts`: `Spec => NoReroute`, an action property: each action keeps
  RECEIPT_OK and DONE among themselves.
* `Implements`: `Spec => ImplementsService`: each step maps to a step of
  `GRouterService` or to a stutter; `Provenance` and `ReceiptSound` provide the
  guards of `Accept`, `Confirm` and `GiveUp`.

`GRouterCacheProofs` (on top of `GRouterProofs`)
* `ReceiptsHaveRoutes`: `Spec => []ReceiptHasRoute`. `CacheInv` gives entries their
  shape by role (`EntryShape`): those at the destination are RECEIPT_OK or DONE and have
  the receipt, the origin never is RECEIPT_OK, and the destination is on no
  incoming route. It says of everything on the way that the destination does not send
  data and nobody sends it receipts (`Direction`), which is what keeps its entry from
  being taken for one that waits; and that a relay has an incoming route until the
  routing round in which it answers the last one (`Answerable`), which the next wash
  ends. Files carry the same shape, because a restart brings them back.
* `DeliveredOncePerRun`: `Spec => []DeliveredOnce`. `Counted` bounds the deliveries by
  the crashes, with one to spare as long as the destination has no entry in memory.
  That a wash does not drop this entry before `DestKeep` has passed is the part that
  rests on time.
* `NoMessageForgotten`: `Spec => []NoSilentLoss`. `OriginDone` says when the entry at
  the origin is DONE: only after the client was told.
* `NoSecondVerdict`: `Spec => [](crashes = 0 => OneVerdict)`, in networks where every
  friendship is the only link between two parts (`NoCycles`, a condition on `Friends`
  that holds of every forest; TLC evaluates it on the instances). `OutwardInv` says of links,
  queues and caches that data over a friendship comes from the side of its origin
  (`Outward`): who sends it on does not send it where it came from, and the friendship
  that brought it separates the origin from all others (`OnwardIsOutward`). So the origin never
  takes its own message for one to relay, and `Reported` says what it then knows of a message
  its client was told of: after RECEIVED the entry is DONE, and expires without a word;
  after FAILED there is no entry, and none comes back, because `sendData()` makes
  new ids. `VerdictStep` lists what each step reports and does to the entry.

`GRouterTunnelsProofs`
* `TunnelViewsAgree`: `Spec => []KnownTunnelsExist`, and `ReadyMessages`:
  `Spec => []ReadyHasTunnel`. A tunnel that the global router knows is open or is in the list of the
  call-backs that are still due (`KnownOrLeaving`), which is empty outside "removal"
  (`NextTurnLeft`). Neither property is inductive alone: the clean-up of the
  global router drops virtual peers without resetting messages, which is harmless
  only because both views agree. `IInv` is their conjunction with the types
  (`TunnelTypes`).

`GRouterPipeProofs`
* `NothingMixed`: `Spec => []IntactNotMixed`. `PipeInv` says that the chunks of an
  intact transmission follow each other on the link (`Unbroken`), and relates the
  buffer to the head of the link: if the next chunk to arrive continues an intact
  transmission, the buffer is empty or holds just the beginning of that one
  (`Continued`), and what it holds is otherwise broken (`Pure`). The lemma on
  `sliceDataItem()` is arithmetic: offsets are multiples of the chunk size and the
  last chunk ends with the item. `PipeTypes` is the type invariant with its bound on
  the buffer.
* `OneWastedPerLoss`: `Spec => []WasteBounded`. `WasteInv` counts the intact
  transmissions that can no longer get through (`Failed`) together with those that lost
  their last chunk and of which remains are left (`Torn`): each loss and each wash adds
  at most one to the sum, and remains that spoil a transmission are used up. It needs
  the order of the chunks on the link and in the buffer (`OrderInv`).

`ConfigFilesProofs`
* `Typing`: `Spec => []TypeOK`, inductive by itself.
* `SavedSurvives`: `Spec => []SavedIsLoaded`. The invariant `FilesInv` adds what each
  place of a save has achieved so far, if it met no fault (`Progress`: the new file
  holds the version of `saveList()`, then the signature its hash, then both are
  installed), and that after a good save the current file and its signature are the
  saved version (`Kept`). Nothing is needed about files that earlier crashes left.
* `FinalSaveIsComplete`: `Spec => []FinalSaveComplete`. `FlagInv` says where each
  indicated version is (`Assigned`): saved, or its second flag is set, or it
  is in the hands of the thread that saves it; and what the final save still has to look
  at (`FinalProgress`). The case of interest is the data thread in the middle of a
  save, which has cleared the flag that the final save would look at: the mutex
  makes the final save wait.
* `BackupIsThere`: `Spec => []BackupCovers`. `CoverInv` follows the current
  pair and the backup pair through the renames: at each place one of them is whole
  and holds the last saved version, except between the renames of the backup.
* `NothingStaleIsLoaded`: `Spec => []NotOlderThanBackup`. `AgeInv` says that, if
  it holds anything, the current file is never older than the last save and the backup
  never older than the one before, at each place of a save and also when a rename
  failed and the save went on (`Aged`).

`FileTransferProofs`
* `FileIsRight`: `Spec => []CompleteIsRight`. The hash thread has to be part of the invariant: as long as
  all it read was right, every unit before its position is right, but for those that got wrong data
  since they were read, which `late` records (`ReadIsRight`); a match has read the whole file
  (`MatchIsWhole`). Each of data that arrives, a unit that is read and the verdict
  keeps this (`DataStep`, `ReadStep`, `ResultStep`), whatever the order.
* `FileTransferTypes`, `BytesAccounted`, `CachesAreExact`, `ChecksWhatIsWritten`,
  `SlicesArePending` and `CountersAreExact`: `TypeOK`, `ChunkAccounted`, `CacheExact`,
  `CheckedIsWritten`, `SlicePending` and `CounterExact` for every size of file, chunk
  and request and any number of sources. None is inductive alone, as the tables of
  `ChunkMap` and `ftFileCreator` only agree because of how the ranges lie. `FileInv` says
  how: the slices of a chunk do not overlap, and lie before the feed (`SlicesFit`), which
  at most one peer has (`FeedsFit`); the parts of a slice lie within it without
  overlapping, belong to one peer, and are as many as the shared counter says
  (`PartsFit`); every missing unit of an active chunk is in a part or still to be fed
  (`ContentFits`); and the sums are right (`SumsFit`). With that, a chunk whose `remains`
  reaches zero has neither slice nor feed left, so nothing of it is missing when it goes to
  the check; and a slice is finished only when all its parts are. A split at a lost
  packet is the hard step: one part becomes two, the counter goes up, and the
  slice must stay covered. TLC found no violation of `FileInv`, on the instance of
  the run and on a larger one, before it was proved.
* `DownloadImplemented`: `Spec => ImplementsDownload`. Data that arrives maps to `Receive` of its
  own chunk: the slice that its last part finishes lies in that chunk (`PartsFit`), and what is then
  checked is written (`ContentFits`, after the step). Giving a chunk up and asking for
  it are stutters. A unit that is read maps to `Read`, or to nothing when an earlier one was
  wrong (`ReadImplements`), and the verdict to `Verify` or to nothing (`ResultImplements`). That the file is only verified when all chunks are done rests on `SumsFit`, and on
  `HashingInv`: the hash thread only works, and its result only waits, while the flag is CHECKING.

`SumTheorems` has the lemmas on `SumFunctionOnSet` that this needs: taking an element out,
adding one, replacing the function where it is not looked at, bounds. The
sum is a recursive function on subsets; that it exists, and each lemma, follows by
well-founded induction on strict subsets, in the form that every good set of
subsets contains the whole set (`SubsetInduction`).

`TurtleProofs`
* `NoLoops`, `RoutesStay`, `OwnData`: `LoopFree`, `RouteStable` and
  `DataFromOtherEnd` for every graph of friends. One invariant, `RouteInv`, serves all
  three: a request that has come along a route is in the cache of every node of that route, with
  its predecessor as origin (`Caches`, and the traces of requests and
  answers in `GoodNet`), so it is dropped where it comes back; a tunnel at a node has its
  neighbours in the id as `local_src` and `local_dst` (`GoodTunnels`), so
  everyone who has the tunnel agrees on it, whichever request it came from; and an item
  moves along the id, away from the end that sent it.
* `TurtleTypes`: `Spec => []TypeOK`, and `TablesAgree`: `Spec => []EndsRegistered`.
  `TableInv` relates the tables of a node. Every tunnel that services were told of is in
  the tunnel table and either begins at the node, under a hash that lists it, or ends
  there (`Beginning`, `Ending`), and what a hash lists is such a tunnel (`Registered`);
  the peers of a tunnel are friends of the node (`Fit`). It is carried together with
  `RouteInv`. The bound of the model that only the first request can outlive a cache entry
  (`stale`) is used.
* `PeersImplemented`: `Spec => ImplementsVirtualPeers`. `PeersInv` adds what services owe each
  other: an answer under way names a tunnel between a client of a hash and somebody who has the
  file (`Joined`); a service that takes requests is at the end of the tunnel and was told of
  it (`Serving`); and a tunnel carries at most one item, or one answer that is owed
  (`OneItem`, from the bound `Quiet`: a client asks for one thing at a time). Tunnel
  requests, answers to them and closing tunnels map to services that are told, or to nothing; an
  item that goes on to the next node maps to nothing; an item that a service takes
  is at the right end by `RouteInv`.

Model-checked only:
* The liveness properties `Completes`, `WaitingServed`, `BrokenTunnelsDisappear` and the
  like: liveness under fairness is out of the prover's reach.

## Findings

1. **The re-send never takes place** (`resend`). `MAX_DELAY_FOR_RESEND` is the
   cache time plus 300 seconds, measured from the time the message was sent;
   `autoWash()` gives up when the cache time has passed since it was received, which is
   earlier. The branch of `routePendingObjects()` that re-sends a SENT message
   is dead. A message whose relays vanish is lost after one attempt.
2. **Requests for tunnels leak** (`leak`). A message that is cancelled, or expires,
   while its tunnel request is open leaves its hash monitored: `handleTunnels()`
   only withdraws requests of messages that still exist. The tunnel that is found
   is not noted by the global router; a later message with the same hash waits
   until that tunnel is gone.
3. **A crash can cost a configuration** (`configcrash`). `saveConfig()` renames the
   current file to the backup, then its signature. A crash in between leaves a backup
   with the signature of the one before, and no current file: both attempts of
   `loadConfig()` fail and the service starts empty. `BackupCovers` shows that this
   is the only such point, for a first crash.
4. **A peer is counted down too often** (`counter`).
   `ftFileCreator::removeInactiveChunks()` decrements `mChunksPerPeer` for each part of a
   slice, though the slice was counted once. After a split the unsigned counter is too
   low or wraps around; in that case `getMissingChunk()` never again asks this peer
   for this file, and a file that only this peer has does not complete until
   a restart. `Completes` excludes that case.

Observations that no run states:
* Data that arrives while the file is hashed is written all the same (`ftfilecreator.cc:221`); the hash thread
  reads without the mutex (`ftfilecreator.cc:682`). A wrong packet for a unit that has been
  read gives a hash that matches and a file that is wrong. Only a late or repeated packet can do
  this, as everything asked for has arrived by then. `CompleteIsRight` excepts exactly these units (`late`);
  no document promises more.
* `autoWash()` of the global router looks up the client of any expired entry: relays,
  and a destination that could not return a receipt, call `notifyDataStatus(FAILED)` with a message
  id that their client never had (`p3grouter.cc:1342`).
* A message that does not wait for a tunnel stops the monitoring of its hash in every
  tick, also when another message asked for it a few seconds ago (`p3grouter.cc:814`). Waiting
  messages are delayed by `MAX_TUNNEL_UNMANAGED_TIME`, but not for ever (`WaitingServed`).
* The age of a tunnel request is kept in a signed 32-bit number and is the time of day
  for a new message (`p3grouter.cc:781`).
* A configuration that cannot be written is signed and installed as an empty one
  (`p3cfgmgr.cc:357`), and a full disc costs a change its save until the next
  change or the end of the program (`p3cfgmgr.cc:87`); `ChangeSaved` excludes both.
* Items of other services than file transfer stamp tunnels in both directions
  (`rsturtleitem.h:319`): the argument of `BrokenTunnelsDisappear` does not
  apply to a client that repeats such items.
* `forceReDiggTunnels()` tests that a hash is monitored, releases the mutex and digs
  (`p3turtle.cc:581`); a hash removed in between is created again, without a service.
* A chunk whose partial file cannot be read stays in the state CHECKING
  (`ftfilecreator.cc:729`); `handleRecvData()` uses a transfer module after it has released the
  mutex of the table that owns it (`ftdatamultiplex.cc:816`).

## Limits

Not modelled, in the global router: encryption and signatures (their outcome is a
free choice), duplication factors, registration of keys and clients (a client is
always registered), memory exhaustion, the size limits of items, wrap-around of
time stamps, duplicate propagation ids, requests for tunnels from other nodes, breaks of a friend link
that its two ends notice at different times. A save is atomic there. Nobody forges
receipts: a signature that verifies is genuine.

Configuration: the content of files, encryption, power failures that lose written
data, configurations added while the program runs.

File transfer: the queue of the controller, uploads, cancel and pause, the user's
request to check a file during its transfer (`ftcontroller.cc:1389`), how sources are found and how
much is asked of them, packets larger than the part they belong to, failing reads and
writes of the partial file.

Turtle router: searches, the choice of friends by probability and depth, speed
estimates, restarts of single nodes, colliding ids, banned hashes and the switch that turns
routing off (both drop items, like a loss), generic services that also answer in tunnels.

All other components of the inventory, for the reasons given in `PROJECT.json`.
