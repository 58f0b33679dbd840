# A TLA+ model of the AmneziaWG driver for Windows

The repository is a WireGuard implementation for the Windows NT kernel with
AmneziaWG's traffic obfuscation. Its core is `driver/`; `api/` is a user-mode
library that installs the driver, manages adapters and passes configuration to
them. These modules model the parts where several processors, worker threads,
timers, requests and processes work on the same peers, queues, keys, sockets
and device nodes, and what two devices promise each other.

## The system

| Component | State | Operations | Interaction | What makes it correct |
|---|---|---|---|---|
| Replay window (`receive.c`, `noise.h`) | `Counter`, `Backtrack` ring, `IsValid` | `DecryptPacket`, `CounterValidate` | decrypt workers read it unlocked, the delivering worker updates it under a spin lock | no counter twice; no fresh counter in the window refused; no overflow at the limit |
| Packet queue `PREV_QUEUE` (`queueing.c`) | linked list with stub, `Count`, `Peeked` | enqueue, dequeue, peek, drop | lock-free, many producers, one consumer | a bounded FIFO |
| Data path (`receive.c`, `send.c`, `queueing.[ch]`) | peer queues, device ring, `PEER_SERIAL` list, packet states | `PacketConsumeData`, `PacketCreateData`, the two workers | ring entries are taken by any worker; a peer is taken from the serial list by one | order per peer; one consumer per peer; no lost wakeup; balanced references |
| Session keys (`noise.c`) | three slots, reference counts, index entries | begin session, confirm, clear, expire, get, put | handshake workers, data packets, timers and configuration | unconfirmed keys unused; keys only age; exact counts |
| Peer lifetime (`peer.c`) | `Refcount`, `InUse` rundown protection | create, remove, get, put, release | every other component | removal ends; nothing uses a released peer |
| Handshake (`noise.c`, `receive.c`, `send.c`) | state word, hashes, indices, timestamps | create and consume initiation and response | two devices over UDP | both ends agree on keys; replays refused |
| Timers (`timers.c`) | five timers per peer, attempt counter, `HandshakeTxAction` | arm, expire, stop | DPCs, worker threads, device stop | retries end; keys are zeroed; stopped timers stay stopped |
| Cookies, load (`cookie.c`, `receive.c`) | secret and its age, `HandshakeRxQueueLen` | make, validate, consume | handshake workers of all devices | under load only valid cookies get through |
| Rate limiter (`ratelimiter.c`) | token buckets, `TotalEntries` | allow, collect | all handshake workers | bounded rate and table |
| Allowed IPs (`allowedips.c`) | two tries under RCU | add, remove, look up | lookups run during updates | longest prefix match |
| Device, configuration, sockets (`device.c`, `ioctl.c`, `socket.c`) | device state, peer list, sockets, obfuscation parameters | set, get, up, down, pause, halt, bind | `DeviceUpdateLock`, NDIS, WSK | consistent after every request, also a failed one |
| RCU (`rcu.c`) | a DPC and a tick per processor, callback list | synchronize, call, free, barrier, unload | everybody who looks up without a lock | no callback before a grace period; nothing left at unload |
| Worker threads, ring (`queueing.c`, `containers.h`) | threads, `NewWork`, `Dead`; places of the ring | spawn, bump, destroy; produce, consume | data path, handshake messages | no wakeup lost; destruction ends; a bounded FIFO |
| Bring-up (`main.c`, `device.c`) | what driver and adapters hold | load, start, halt, unload | every module's own start and end | everything given back, in an order its users survive |
| NSI filter, log (`nsi.c`, `logging.c`) | filter device, list of adapters; ring of lines | attach, detach, notify; write, read | other drivers' requests; the user's reader | no use of what is gone; no line slept through |
| User-mode library (`api/`) | device nodes, two named mutexes, log reader | create, open, close, install, clean up, log | processes that may be killed | what is in use survives; mutexes free of cycles; closing returns |

Hard behaviours, each listed with its line in `PROJECT.json` under `hazards`:
the lock-free list, the hand-over of a peer between workers, auto-reset
wakeups, full queues after a packet has been queued elsewhere, checks without
the lock that are repeated under it, removal of a peer while packets,
handshakes and timers use it, 64-bit counters at their limit, handshake
messages that come twice or late, lookups during updates, every step of a start
that may fail, processes killed half way.

## Modules

**ReplayFilter** is the ideal filter: a set of accepted counters and one rule.
**ReplayCounter** is `NOISE_REPLAY_COUNTER` with `DecryptPacket` (a packet
enters a buffer, or the key becomes invalid) and `CounterValidate` (the early
exits, the slide over the word ring, the test-and-set), with the width of
machine words, the number of words and the size of the counter space as
constants and all additions modulo the latter.

**PacketFifo** is the contract of a packet queue: producers take a place, link
their packet later; a peek returns the oldest packet, or nothing if the queue
is empty or some producer was in mid-enqueue while it ran. **PrevQueue** is the
code, one step per access to shared memory (`Reserve`, `Exchange`,
`LinkPrevious` for producers; `ReadFirst` to `ReadLast` for
`PrevQueueDequeue`). It is checked to implement PacketFifo.

**PacketPipeline** composes that contract with the device ring, the workers,
the serial list and peer removal. Both directions share the control: a call
looks up its peer and takes a reference (`Lookup`), takes rundown protection
and a place in the peer's queue (`Insert`, `Link`, or `Cleanup` when refused),
puts the list into the ring (`Produce`) and wakes a worker (`Bump`), or, if the
ring is full, marks the packets dead itself. A worker takes a list (`Consume`),
publishes each packet's result (`Publish`, `PeerSerialEnqueueIfNotBusy`,
`Put`), and serves peers from the serial list (`PeerSerialDequeue`,
`PrevQueuePeek`, `ReadState`, `Handle`, `PutPacket`, `Indicate`,
`PeerSerialMaybeRetire`). `PeerRemove`, `PeerRemoveDone` and `RcuRelease` take
a peer away. Each operation under a spin lock is one step, each interlocked
operation another. Whether a packet decrypts, passes the replay window and the
checks of `PacketConsumeDataDone` is a free choice. The ring is its contract;
it may refuse up to `Batch - 1` entries early, because consumed slots are
cleared in batches.

**NoiseKeypairs** is one peer's `NOISE_KEYPAIRS` with the handshake's state
word and lock, the reference counts and the index table, and `PeerRemove`.
`NoiseHandshakeBeginSession` is three steps (up to rundown protection,
`AddNewKeypair`, `IndexHashtableReplace`), `NoiseReceivedWithKeypair` two (the
check without and the one with the lock), `NoiseHandshakeConsumeResponse` two.
Handshake messages and packets may arrive at any moment until the peer is
released: a reference may have been taken long before. That allows more than
the code does (a message that finds the peer after its last reference went),
which is on the safe side for the invariants. Clearing and creating an
initiation belong to the handshake send queue, whose entry holds `InUse`;
expiry and removal exclude each other through `DeviceUpdateLock`.

**TimerPrimitives** takes `TimerMod`, `TimerDelete`, `ModPeerTimer`,
`TimerDpcCallback` and `TimersStop` apart into single accesses and kernel calls
(`MarkPending` and `KeSetCoalescableTimer`; `KeCancelTimer`,
`KeRemoveQueueDpc` and `ClearPending`), for any number of timers, of threads
that hold a reference, and of processors that run DPCs and hold none. What a
callback does to timers is a free choice of these operations. `Down` and
`PeerRemove` run against them. The kernel's part (a timer expires and its DPC
is queued on some processor; `KeFlushQueuedDpcs` returns when each processor
has been idle once) is external.

**PeerTimers** is the policy: the five callbacks, every function of `timers.c`
that packets and handshake messages call, `PacketSendQueuedHandshakeInitiation`
and `ExpiredZeroKeyMaterial` with `HandshakeTxAction`, the handshake send queue
with its references and its requeue flag, `PacketHandshakeTxWorker`, and up,
down, pause, restart, the keepalive interval and removal. A thread has a list
`todo` of operations; a handler is the list it begins with, and a call inside
it puts the callee's operations in front. Calls that set and delete timers one
after the other are one operation here, since TimerPrimitives has their
interleavings. Time is reduced to whether `LastSentHandshake` is recent; a
retransmission timer set since then outlasts that. Whether a key is too old,
an allocation or the cryptography fails, is a free choice. `Down` waits for RCU
readers and `Pause` for packets in flight before they stop the timers; the
model leaves out both waits, which allows more behaviours than the code has.

**PtrRing** is `PTR_RING` with a step for every access the two sides can see of
each other: the producer looks at a place, then writes it; the consumer reads,
and clears a batch of places one by one, backwards. **WorkQueue** is
`MULTICORE_WORKQUEUE`: the spawner makes a thread per processor as processors
arrive (which may fail), workers wait on `NewWork` and `Dead`,
`MulticoreWorkQueueDestroy` waits for the spawner and for each worker.

**Handshake** is two devices, `"a"` and `"b"`, each with workers that create and
consume initiations and responses, and a network that keeps every message for
ever (so any of them may come late, twice, in any order or never).
Cryptography is ideal: what is mixed into hash and chaining key is a sequence.
A worker's copy of the handshake and the shared one are separate, so the check
under the shared lock, the work without it and the check under the exclusive
lock are three steps (`NoiseHandshakeConsumeInitiation`, `...Response`).

**CookieExchange** is a device with its ring of handshake messages,
`HandshakeRxQueueLen`, `UnderLoad` and its second of hysteresis, the cookie
secret, and a sender that asks, is sent a cookie, stores and uses it.
**Ratelimiter** is `RatelimiterAllow` against itself, the collector and
`RatelimiterUnload`. A sweep goes entry by entry, with the table lock held from
a bucket's first to its last; callers that need no lock go on meanwhile.
**RatelimiterSelftest** puts the driver's own test (`selftest/ratelimiter.c`) in
front of it.

**AllowedIps** is one trie. A step of the writer is one store that readers can
see, a step of a reader is one load; `table` is the routing table it stands
for. Freed nodes may be used again at once after a grace period. **Rcu** is
`rcu.c` with processors that lower and raise their level, updaters, callbacks,
barriers and the unloading.

**DeviceConfig** is `AWG_IOCTL_SET`, `AWG_IOCTL_GET` and the adapter state, one
step per point where others see the device in between: fields in the order the
code applies them, `PeerCreate` with its failures, the validation of junk,
and prefix sizes; `HandshakeDatagram`, `DataDatagram` and
`PrepareNetBufferListHeader` are what the parameters mean for the two ends.
**Sockets** is `socket.c`: a sender resolves the endpoint's source under the
shared lock and sends, packets move the endpoint, the routing tables change and
their generation follows, a configuration thread binds, swaps and closes.
`config.await` is the readers that its wait is for, `BestRoute` none or one
interface.
**Bringup** is `DriverEntry`, `InitializeEx`, `HaltEx`, `Unload`, `WskInit` and
`WskUnload`: a resource per step, `Needs` says who uses what, each step may
fail and then the labels of the code give back what was taken.
**NsiFilter** and **LogRing** are `nsi.c` and `logging.c`. `ReadLogLine` takes no
lock and the device is opened shared (`api/adapter.c:406`), so LogRing has any
number of readers, each of which may take the one setting of the auto-reset
`NewEntry`; `DispatchPnp` stores `IsDeviceRemoving` and sets the event in two
steps.

**Adapters** is the library: processes call `AmneziaWGCreateAdapter`,
`AmneziaWGOpenAdapter`, `AmneziaWGCloseAdapter`, `AmneziaWGDeleteDriver` (each
with the clean-up of orphans that comes first), under the driver and the device
installation mutex, and a process can be killed at any step. A device node is
`"stub"`, `"phantom"`, `"running"`, `"disabled"` or `"failed"`; what SetupAPI
and the plug-and-play manager do is taken from how `api/` uses them.
**AdapterLogging** is the log reader's thread with its cancellation.

Four modules put components next to each other for the model checker: in
**MCQueues**, **MCKeys**, **MCDevice** and **MCProtocol** a behaviour chooses a
`part` at the start and moves only that one. The parts share no variable, so a
run explores each of them completely, and none with the others. MCProtocol has
the most of them; its `VIEW` is the part and that part's variables, which are
all that changes, and its symmetry swaps two values that stand for the workers,
callers, peers, processors, writers, devices and adapters of the kernel. No
state and no property tells these two apart.

Operators named in a `\* Mutant:` comment are not part of the specification.
Each changes one definition as a plausible bug would, and the property named
with it in `PROJECT.json` is then violated.

## Runs

| Run | Instance | Shows |
|---|---|---|
| `queues` | pipeline: two peers, one removable, 3 packets, 2 producers, 2 workers, queue, ring and budget 1; packet list: 3 producers, 3 packets, capacity 2; ring: 5 places, batches of 2; work queue: 3 processors, 2 items; log reader: 4 changes of the log state, 2 reopenings | `SingleConsumer`, `InOrder`, `ReferencesExact`, `EveryPacketLeaves`, `RemovalCompletes`; `ImplementsFifo`, `EveryPacketPeeked`; `RingIsFifo`; `NoWorkForgotten`, `DestroyEnds`; `CloseReturns` |
| `keys` | keypairs: 2 workers, 1 packet, 3 keypairs; replay: 2 words of 2 bits, counter space 11, 2 buffers; timers: 1 timer, 2 callers, one more processor; symmetric | `KeyConfirmed`, `RefcountExact`, `KeysOnlyAge`; `BitmapExact`, `ImplementsFilter`; `PendingIsHonest`, `ReleasedPeerIsQuiet` |
| `device` | timers: 1 thread, 1 call, 1 configuration request, failures, all timers but the persistent one expire, one retry; configuration: 17 requests, 2 peers fit; sockets: 2 packets out, 1 in, a route change, a rebind | `CountsExact`, `FallsSilent`; `OwnKeyIsNoPeer`, `GetRestoresSet`, `MessagesRecognised`; `SourceFits`, `SocketsAlive` |
| `protocol` | adapters: 2 processes with different driver versions, 2 instances, 3 calls, 1 kill; handshake: 2 workers, 3 initiations, 5 secrets in all, `MaxTai` 2, `FloodInterval` 0; cookies: 2 addresses, threshold 1, ring of 2; rate limiter: 2 sources, 3 entries, 2 allowed; allowed IPs: 2 bits, 3 nodes, 3 nested prefixes, 2 peers, a reader; RCU: 2 processors, 3 objects, a barrier, unload; log ring: 2 writers, 2 readers, 3 lines and places; bring-up: 2 devices, one failure; NSI: 2 adapters, 2 requests; symmetric | `InUseSurvives`, `NoMutexCycle`; `SessionsAgree`, `KeysRepeatOnlyRenewed`, `StaleInitiationsRefused`; `CookieProvesAddress`, `LoadCounted`; `EntriesCounted`; `TrieIsTable`, `LookupHonest`; `GracePeriod`, `UnloadComplete`; `ReaderAwake`; `Unwound`; `FilterSound` |
| `pipeline_release` | the pipeline of `queues` | `NoUseAfterRelease` is violated |
| `keypair_removal` | the keypairs of `keys` | `FreedPeerHasNoKeys` is violated |
| `keepalive_stops` | 1 call, no failures, intervals 0 and 1 | `KeepaliveRecurs` is violated |
| `zeroing_lost` | 1 call, failures | `ZeroingNotForgotten` is violated |
| `ratelimiter_gc` | burst 2, 18 entries, no time to earn a token | `TimingsHold` is violated |
| `keys_reused` | the handshake of `protocol`, 4 secrets, not symmetric | `KeysUsedOnce` is violated |
| `keepalive_prefix` | the configuration of `device` | `KeepalivesRecognised` is violated |
| `lookup_root` | the allowed IPs of `protocol`, with lookups called at PASSIVE_LEVEL (`AtDispatchLevel = FALSE`) | `HeldWhileWalked` is violated |

Bounds. The replay instance is small in every constant, but the window covers
the whole ring less a word, as in the driver, and the ring is lapped below the
limit. In the pipeline the bounds of one make queue full, ring full and budget
exhausted happen in short behaviours; two workers and two producers are the
least for every race on a peer, and the receive list with packets of two peers
crosses the hand-over of one with that of the other. Three keypairs fill all
slots and rotate one out. One timer, with the callers' own processors and one
more, is enough for a DPC that runs while the timer is set and deleted; the
theorems cover any number. In PeerTimers, `MaxCalls`, `MaxRequests` and, for
both, `MaxEvents` count what comes from outside: from each of the initial states
(no session, an idle session, or waiting for the response to an initiation;
device up, down or paused) one packet or message and one configuration request
already set all timers, queue handshakes and run into each other. `Expiring`
names the timers short enough to expire in the run, `MaxInFlight` (1) is the
size of the encrypt queue, `MAX_TIMER_HANDSHAKES` lets retries be given up soon.
The three prefixes of the trie are the default route and two addresses that
share a bit, which needs a branch node, its collapse, and a node with a place
already taken; a lookup can stand at a removed node while updates go on. The
addresses, ports and keys of configuration and sockets are the fewest for which
two of them differ and one is the device's own. In `protocol` the handshake's
three initiations are two of one end and one of the other, the workers are two
per end so that each message can be handled twice at once, and five secrets are
what it takes for an end to begin another session between making a response and
beginning its session. With `MaxTai` two initiations of one end have an older and
a newer timestamp, or the same; a `FloodInterval` of 0 lets all of them be handled
at one moment, so that the timestamps alone must refuse (a device refuses more:
floods, as in `keys_reused`, where it is 1). `MaxRetries`, `MaxBinds`, `MaxSends`, `MaxPackets`,
`MaxClock`, `MaxTime`, `MaxDowns`, `MaxKills`, `MaxFailures`, `MaxItems`,
`MaxLines`, `MaxIntervals`, `MaxReopens`, `MaxChanges` and `MaxFresh` bound how
often the environment acts; each is in a guard of its action. `CHECK_DEADLOCK
FALSE` is set where the environment is finite and the model then comes to rest.

Fairness. `queues`: of the pipeline, weak fairness of every producer that is in
a call, every worker, the end of `PeerRemove`'s wait and of a grace period; the
scheduler runs ready threads, and arrival of packets and removals is not
assumed. The consumer of a packet list keeps polling while the peer has packets,
and a producer that has begun an enqueue finishes it (it runs at raised IRQL);
spawner, workers, a bump and a destruction that have begun go on; the log
reader's thread and the caller of `AmneziaWGCloseAdapter` go on. No packet,
processor, removal or log line is made to arrive. `keepalive_stops`: threads
inside a handler go on, the handshake worker and the send worker take what is
queued, set timers expire, queued DPCs run and `REKEY_TIMEOUT` passes. Nobody has
to call from outside. `device` needs less of the same for `FallsSilent`: weak
fairness of the disjunction of all this (`SomethingMoves`), that is, something
moves while anything can; the rest follows because there is no endless way to
move. Each of these conditions is guarded by the run's `part`.

### What the violations show

*A worker uses a peer it holds no reference to.* A `PEER_SERIAL` entry of the
receive or send list carries no reference. After the loop's last `PeerPut`
(`receive.c:421`, `send.c:396`) the worker still peeks the peer's queue and
retires its entry; a peer can also stay on the list after
`QueueEnqueuePerPeer`'s own `PeerPut`. If `PeerRemove` has finished meanwhile,
that was the last reference, `RcuRelease` zeroes and frees the peer after a
grace period, and a worker at PASSIVE_LEVEL does not hold one up. The handshake
queue, by contrast, keeps a reference and `InUse` until its entry retires. After
such a release PacketPipeline goes on as if the memory were still the peer's
(what a freed page holds is nobody's to say), so the other properties speak of
these behaviours too: `InOrder` and `ReferencesExact` without exception, since a
freed peer has no packets left to disorder, `SingleConsumer` of the peers that
are not freed.

*A session can begin while the peer is being removed.* `PeerRemove` clears the
keypairs (`peer.c:82`) and only then closes `InUse` (`peer.c:84`). A
`NoiseHandshakeBeginSession` that holds `InUse` may add its keypair after the
clear, or add it before and enter it into the index table after the clear has
dropped it. Its index entry then outlives the peer it points to.

*A short persistent keepalive can stop.* `ExpiredSendPersistentKeepalive`
relies on the packet it sends to set the timer again. If the current key is
unusable, a handshake is to be started instead, but that is refused within
`REKEY_TIMEOUT` of the last handshake message, and a handshake response counts
as one. When the response, or the packet that would confirm it, is lost, an
interval below `REKEY_TIMEOUT` (5 s) ends in a state where nothing sets the
timer again until other traffic appears. Longer intervals do not get there this
way: by then the rate limit has passed.

*Zeroing of keys can be lost.* `HandshakeTxAction` holds one action, so a send
request overwrites a pending clear. Normally the new handshake sets timers that
end in another zeroing. If the initiation fails before that (no memory, or
`NoiseHandshakeCreateInitiation` refuses), the old keys stay until the peer is
used again or removed.

*The rate limiter's collector removes fresh entries.* `RatelimiterGcEntries`
reads the time once and then sweeps bucket after bucket. An entry that is made
or charged after that is younger than `Now`, and `Now - Entry->LastTime` wraps
(`ratelimiter.c:77`, `82`). The entry is removed and its source has a full burst
again. The driver's own test expects otherwise and runs beside the collector.

*A lookup walks from a root it read before RCU.* `AllowedIpsLookupSrc` and
`AllowedIpsLookupDst` pass `Root4` or `Root6` by value to `Lookup`, which takes
`RcuReadLock` after that (`allowedips.c:475`, `160`). The receive worker calls at
PASSIVE_LEVEL: the root can be removed and freed between the two. The passing
run has callers at DISPATCH_LEVEL, who hold RCU from the start
(`AtDispatchLevel`); with them `HeldWhileWalked` holds as well.

*An initiator can begin two sessions with the same keys.*
`NoiseHandshakeConsumeResponse` copies the handshake under the shared lock and
compares only the state before it stores its result (`noise.c:795-798`). A new
initiation made meanwhile leaves the state the same. Two workers with copies of
one response: the first begins a session, the next initiation is made, the
second stores the keys of the old exchange over it and begins a session with
those keys once more, whose sending counter starts at zero.

*With a prefix for data, keepalives count as data.* `SocketSendNblsToPeer` knows
a keepalive by its length, `MessageDataLen(0)` (`socket.c:232`), but
`EncryptPacket` has added the prefix to the length (`send.c:322`).
`PacketCreateDataDone` then calls `TimersDataSent` (`send.c:367-368`), which is for
data packets (`timers.c:236`): it sets `TimerNewHandshake`, and since nobody
answers a keepalive, an idle session ends in a new handshake.

### What the passing properties except

Some invariants name an exception, because the code does something a reader of
the property would not expect.

* `KeysRepeatOnlyRenewed` is what is left of `KeysUsedOnce`, which is violated: two
  sessions have the same keys only if they are an initiator's, and the one begun
  while a later initiation was on its way. A responder never reuses keys. The
  property does not say that the reuse is harmless.
* `SessionsAgree`: for the same reason the initiator's index in the responder's
  session may be one that the initiator has replaced. And the handshake is not
  locked between `NoiseHandshakeCreateResponse` and
  `NoiseHandshakeBeginSession` (`send.c:182`): if workers of the responder
  overlap there, the session it then begins is of whatever the handshake holds,
  a later response, or an initiation of its own that was answered meanwhile. The
  initiator is left with a session whose counterpart never came to be.
* `LoadCounted`: `FreeIncomingHandshakes` zeroes `HandshakeRxQueueLen` while
  workers still hold messages and will decrement it (`receive.c:693`, `157`). The
  counter then stays below zero, which is a large unsigned number, and the
  device is under load until it has gone down once more while idle.
* `SourceFits`: an endpoint that moved because of a packet that came in through
  the tunnel itself keeps its source address. A route is also recorded as current
  with a generation that is read apart from the table, so it can be stale until
  the next change.
* `InUseSurvives`: an upgrade that is killed or fails half way leaves adapters
  disabled, and the next clean-up removes them; `AmneziaWGCloseAdapter` takes no
  mutex, so that it can remove an instance that another process has created anew
  meanwhile. A configuration that is set between the upgrade's snapshot and its
  disabling of the adapter is lost.
* `FilterSound` says nothing about the MTUs: `FilterDispatch` applies those of
  two requests in any order.
* `MessagesRecognised` is about handshake messages and data as the receiver tells
  them apart; whether the sender knows its keepalives is `KeepalivesRecognised`,
  which is violated.
* `SingleConsumer` is about peers that are not freed, see above.
* `ReaderAwake` says that the readers of the log do not all sleep while there are
  lines or the device goes. Any one of several may: the single `KeSetEvent` of a
  removal (`ioctl.c:860`) ends one wait, and the reader that leaves passes nothing
  on, so that a second one sleeps until its wait is cancelled. No comment or
  document promises more, and the library has one reader per adapter
  (`api/logger.c`), for which the property is about every reader.
* `LookupHonest` assumes a caller at DISPATCH_LEVEL, see above.
* A log reader that gives up by itself leaves `LogThread` set; its handle is
  closed only when logging is switched off or the adapter is closed.

## Proofs

A theorem holds for every value of the constants that satisfies the assumption
of its module: `ReplayAssumption`, `PipelineAssumption`, `PacketsAssumption`,
`KeypairsAssumption`, `TimerAssumption`, `RcuAssumption`, `RingAssumption`,
`WorkQueueAssumption`, `LogRingAssumption`, `PrevQueueAssumption`,
`AdaptersAssumption`, `HandshakeAssumption`, `CookieAssumption`,
`RatelimiterAssumption`, `ConfigAssumption`, `SocketsAssumption`,
`NsiAssumption`, `BringupAssumption`, `PeerTimersAssumption`. They say that
marks such as `Nil` are no packets, peers or threads, that sizes and bounds are
numbers, and, where something is counted, that packets, entries, threads or
workers are finitely many. Three say more. `PacketsAssumption`: no packet is
passed to the driver twice, since whoever passes it on no longer owns it.
`ConfigAssumption`: the handshake messages differ in size, as their structs do,
and a request's fields are USHORTs or absent. `SocketsAssumption`: addresses,
interfaces and ports are not 0, a received packet's address is of IPv4 or IPv6,
and there is a routing table for each. Each is evaluated by a run.

In every module the argument is the same: an inductive invariant that implies
the property, preserved by each action in a step of its own. What the
invariant has beyond types and the property itself:

**PacketPipelineProofs**: `OneConsumer`, `DeliveredInOrder`,
`ReferencesAccounted`, and the types. Nothing is assumed about how long a grace
period is: a peer may be freed while a worker has it, and the invariant says what
is left then. `FreedInv`: a freed peer has an empty queue and nobody holds a
packet of it, because `ReferencesExact` counts one reference for each; the worker
that still has it finds nothing and gives it up. That a peer not freed is not on
the list twice follows from `Next` being null while nobody has it: `BusyInv` says
that the serial list repeats none of the others and that those which are on it or
in a worker's hands are busy, `ListsInv` and `HandsInv` which threads have a
non-empty list, a packet and a peer at which label. `InOrder` compares what
was delivered with `inserted`, the history of places taken. `PlaceInv` says that
what is in a queue is the end of that history, so that a number, how many have
gone, says where everything is; `TakenInv` that a packet in hand is the last
that went; `EmbedInv` that what was delivered, followed by what a worker is
about to deliver, can be embedded in the part before it. `ReferencesExact` says
how many elements some sets have, and every step adds or removes one packet or
thread. That the one added was not in the set, and that the one removed is in no
other way still in it, is `RefInv`: a packet that has no place yet is in one
call (`FreshInv`), no peer has it (`NewInv`), and one that has a place is in a
single one, of its own peer's queue, or in the hand of the one worker that has
the peer (`KeptInv`).

**NoiseKeypairsProofs**: `OnlyConfirmedKeys`, `KeysAge`, `ReferencesCounted`.
`RolesInv` says which labels a thread or packet can be at, `LockInv` that only
the holder of the handshake lock is between `BeginSession` and `ReplaceIndex`,
`SlotsInv` that slots hold different, created keypairs and the one being added
is in none, `ConfirmInv` that a packet about to confirm was authentic. Counting
needs `CountInv`: what is not created has no references, and what a packet has
was created.

**TeardownProofs** is about taking things away. `ReadersProtected` and
`NothingLeftBehind` are about RCU: `PlacesInv` says that an object is at one
place at a time on its way from the pointer to its callback, `BatchInv` how far
`RcuSynchronize` has come, `ReadersInv` that a reader whose object has reached
the batch is on a processor still waited for, `UnloadInv` that the unloader's
callback is the last. `PendingNeverStuck` and `ReleasedIsQuiet` are about timers:
`Roles` says which steps a kind of thread can be at, `HoldsInUse` ties the
holders of `InUse` to the steps inside `ModPeerTimer`, `Removal` says that after
the wait nobody is there and nobody gets in, `Stopping` that from then on a
deleted timer is not set again and a flushed processor has no DPC, because only
a set timer queues one.

`FilterIsSound` is about the NSI filter. `HeldAt` says what the filter holds, and
how its rundown stands, at each place of `NsiActivate` and `NsiDeactivate`;
`OneAtATime` that only the thread with `FilterLock` is at such a place, and that
the list has those who are in. A request in the filter keeps the rundown from
completing, and a notification under way has an adapter of the list
(`RequestsInv`), which is what makes the deletion safe.

`AllUnwound` is about bring-up. What an owner holds is a function of how much is
left of the order it follows: of a start, the steps before the present one are
held and no others (`Starting`); of an unwinding, an unload or a halt, the
labels from the present one on (`Unwinding`, `UnloadingAt`, `HaltingAt`). Sockets
are made by requests rather than by an order: `WskInv` says that whoever has the
lock of `WskInit` is alone in it and that `wsk.ready` means that all five
resources are there. That a resource is given back after everything that uses it
is then a comparison of two orders, line by line; `BringupTypeCorrect` is the
part of the invariant about types.

**PeerTimersProofs**: `PeerTimersTypeCorrect`, `PeerCountsExact`. The handlers are
lists of operations, and references are held by operations that are still to
come, so the argument counts operations. A step takes one off the front of a list
and puts the callee's in its place; `Continued` and `Begun` say by how much the
number of operations of a kind changes then, for any list and any number of
threads, and the rest is one sum per handler. The counts alone are not
inductive: an operation that retires the entry of the handshake queue drops
what the entry holds, and nothing in the counts says that the entry holds
anything. `Numbers` therefore adds that the worker has the entry exactly while
one operation is left that will put it back or retire it.

**QueueProofs**: `RingOrder`, `WorkIsDone`, `ReaderIsWoken`,
`QueueImplementsFifo`, and about the replay window `BitmapIsExact`,
`WindowImplementsFilter`, `NeverReplayed`. A place of the ring is live, or read and not yet cleared,
or free, and never two of these (`LiveInv`, `ReadInv`, `FreeInv`), so that the
producer finds its place empty only when it is. `NoWorkForgotten` needs that a
thread is of a processor that has arrived and that none is made once the spawner
has ended (`ThreadsInv`); `ReaderAwake` is proved for any number of readers, a
part for the removal (`RemovalHeard`) and one for the lines (`LinesHeard`). The fourth is the
refinement of PacketFifo by the lock-free list. All nodes, the stub included,
have an order, that of the exchanges of `Head`; `SomeOrder` says that the list is
this order with gaps, each gap being a link that some producer, or the consumer
that put the stub back, has still to store. `ExclusiveInv` says that a packet is
with one producer, in the queue, or with the consumer; `CountInv` that `Count`
has the places taken and those reserved, which is why the queue never holds more
than its bound. The filter that the replay window refines is stated about all
accepted counters, the code knows only the counter and the bits of the current
lap; `CounterIsTop` ties the first to the second, and `BitmapExact` says that
words of the current lap hold nothing of an earlier one. It needs no relation
between the two sizes other than that the window fits below the counter's top.

**AdaptersProofs**: `MutexesNeverCycle`, `AdaptersInUse`. `MutexInv` ties each
mutex to the labels of the thread that has it; `PlaceInv` ties where a thread is
to the call it is in; `UseInv` says that an instance is claimed by one thread at a
time, that nobody owns it meanwhile, and what its claimant has made of the node.

**ProtocolProofs**: `ReplaysRefused`, `ReuseIsRenewed`, `EndsAgree` and
`AddressProved`, `QueueLenIsExact` and `NoPlaceLost`. `HandshakeInv` says for each state of a
handshake what it holds: an initiator's chain is made of its newest secret, a
responder's of the two that are agreed on (`PeerOK`); the same for every message
(`MessageOK`), every session, and what a worker copied before it gave up the
lock, relative to a handshake that has only gone on since (`WorkerOK`). A secret
of an initiation belongs to one end (`MadeOnce`), so that two sessions with the
same keys are of one initiation. `CookieInv` follows a cookie from the device
through messages, the ring and a worker's hands: each was sent, to the address
it was made for, with a secret not newer than the present one. For the rate
limiter, `OnePlace` says that a piece of memory is once in the table, or retired,
or with one caller, so that what is counted can be added up. `EntriesInv` bounds
more than the table: a caller that was promised a place inserts later, so the
limit must hold for table, retired entries and promises together, while a caller
about to be refused is counted in `TotalEntries` beyond the limit.
`LastSweepInv` says that the last sweep has nothing behind it but what it is
looking at.

**ConfigProofs**: `DeviceIsNoPeer`, `MessagesAreRecognised`, `SourceIsFound`,
`SocketsStayAlive`. A request is one call of several steps. `KeyInv` says that
the list has a key once and that, when `SetPrivateKey` is about to store a key,
the peer that had it is gone; nothing in between can add it again. `ParamInv`
says that the parameters are valid and that a request in progress was validated
against them; the theorem then is arithmetic: a total length tells the
handshake messages apart although sums may wrap, the type tells data from all
of them, and the product that makes a length of junk does not overflow.
`SourceInv` says what a copy of the endpoint is worth: whoever changes the
endpoint holds the lock alone and increments `UpdateGeneration`, so that a copy
with the present generation is of the endpoint as it is, and the source found
for it fits (`Fits`). `SocketInv` follows the configuration thread: `StageInv`
says what is in place at which step, `NewSocketsInv` and `OldSocketsInv` that
new sockets are not in place yet and old ones no more, `OpenInv` that no open
socket is forgotten; `UsersInv` that a reader's socket is in place, or is to be
closed and `RcuSynchronize` waits for the reader, and that a received packet's
socket is not freed.

The theorems named `TypeCorrect`, `TimersTypeCorrect`, `BringupTypeCorrect` and
`PeerTimersTypeCorrect`, and `NeverReplayed`, have no run of their own: what
they state is part of the other invariants, or follows from them. A proof never
relies on an `EXCEPT` that updates one function twice at indices that might be
equal; such steps name the two values in one update instead.

Only model-checked:

* all liveness (`EveryPacketPeeked`, `EveryPacketLeaves`, `RemovalCompletes`,
  `FallsSilent`, `DestroyEnds`, `CloseReturns`), out of the proof system's reach;
* `TrieIsTable` and `LookupHonest`: what a trie stands for, and what a walk has
  yet to meet, is defined by paths of any length, and a statement about all of
  them takes induction over the path;
* `GetRestoresSet`: what `SetToSeq` and `FlattenSeq` put together is taken apart
  with `SelectSeq`, recursions with an operator as their parameter, which none
  of the provers can instantiate.

## Plan

1. Models: nonce assignment and staged packets; OID requests.
2. Proofs: the structure of the trie (one parent per node, longer prefixes below
   shorter ones, a removed node unreachable after its grace period), on which
   `LookupHonest` rests.

## Not modelled

Cryptography (`crypto.c`, `crypto-amd64.asm`): arithmetic, tested by vectors;
whether a message authenticates is a free choice or decided by terms. Buffer
management (`memory.c`) but for its start and end; padding of packets; the
assignment of nonces (the sending counter is a key that may refuse); OID
requests (statistics and filters that NDIS asks for, answered from one
structure). The registry, resources and rundll32 helpers of `api/`,
`setupapihost` and the example are sequences of calls into Windows. The self
tests of the counter, the allowed IPs and the cipher are sequential. Memory
accesses are sequentially consistent in all modules.
