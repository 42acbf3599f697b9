# Edge Matrix core: a TLA+ model of the node's concurrent parts

This directory models the parts of `src/core` in which several goroutines,
libp2p callbacks and remote peers work on shared state, checks them with TLC
and proves the most important results with TLAPS. Definitions follow the Go
code and keep its names; `PROJECT.json` maps each of them to its lines.

## The system

An Edge Matrix node is a libp2p host with a base networking server
(`network/`), an optional relay client and server (`relay/`), an application
endpoint whose status is gossiped to other nodes (`application/`) and a
JSON-RPC interface (`jsonrpc/web3/`). Keys are in a secrets manager
(`secrets/`). Everything except the key files is in memory and is lost when the
process ends, so recovery after a crash is a concern of the secrets only. The last column
says what one would want of each part; the sections below say how much of it holds.

| Component | State | Operations | Hard behaviour | What makes it correct |
|---|---|---|---|---|
| Dial queue (`network/dial`) | heap of tasks, map peer → last task, `updateCh`, `closeCh` | `AddTask`, `DeleteTask`, `PopTask` (blocking), `Close` | wake-up of a blocked `PopTask`; several tasks of one peer; close at any moment | deletion reaches the last task; the loop wakes for new tasks; close ends it |
| Connection manager (`server.go`, `server_identity.go`, `connections.go`, `bootnodes.go`) | `s.peers` with the directions of each peer, four atomic counters with two limits, bootnode counter | `AddPeer`, `removePeer`, `DisconnectFromPeer`, `HasFreeConnectionSlot` | callbacks of several connections of one peer run concurrently, and disconnects are handled per connection while the table is per peer | counters equal the table; limits; no peer without a connection |
| Identity service (`network/identity`) | pending map peer → direction, handshake goroutines | `ConnectedF`, `Hello`, `removePendingStatus` | check, reserve and count are separate steps; a handshake outlives its connection | every reservation is counted once and released |
| Server (`server.go`) | dial loop, notification channel, event bus, peers' protocol streams | `Start`, `runDial`, `keepAliveMinimumPeerConnections`, `addToDialQueue`, `SubscribeFn`, `SubscribeCh`, `Close` | the loop sleeps in two places; events are merged in a channel of one slot; start-up and shutdown order | a free slot with a task waiting is used; close ends all loops |
| Discovery (`network/discovery`, `server_discovery.go`) | routing table, temporary dials, stored streams | `HandleNetworkEvent`, `bootnodePeerDiscovery`, `regularPeerDiscovery`, `FindPeers` | the table's callbacks fill the dial queue; temporary dials race handshakes | a removed peer is not dialled; a temporary dial is not saved |
| Gossip (`network/gossip.go`) | topic, read loops | `Publish`, `Subscribe`, `Close` | messages lost and reordered; handlers in goroutines of their own | no message ends the process |
| Relay client (`relay/relay_client.go`) | relay peers, relay nodes, reservation and alive loops | `addRelayPeerInfo`, `removeRelayPeerInfo`, `StartRelayReserv`, `StartAlive`, `Close` | loops against `DisconnectedF`; list replaced while it is read; shutdown | a lost relay is replaced; close ends the loops |
| Relay server, alive service (`relay/`) | none of their own | `Hello`, `isInnerIp` | the address and the relay come from two sources | a node that cannot be reached is not published |
| Application endpoint, proofs | one application | HTTP handlers, status ticker | none of its own | a request reaches the application |
| Application events (`subscription.go`) | subscriptions, update channels | `push`, `GetEventCh`, `Close` | one goroutine per `GetEventCh`; dropped updates | the latest status reaches a reader |
| Application status sync (`syncer.go`, `sync_client.go`, `peers.go`) | peer map, gossip topic, channels | gossip handler, peer events, `Start`, `Close` | lost and reordered updates; channels closed while others send; a slow reader backs up to the server | statuses come in; the map moves to newer ones; close is safe |
| Node filters (`node_filter_manager.go`) | filters, heap of timeouts, `updateCh` | new filter, get changes, uninstall, timeout loop, websocket flush | timeout against use; lost signal; writes under the lock | an idle filter goes, a used one stays; updates come once |
| JSON-RPC server, dispatcher (`jsonrpc/web3`) | connections with their filter | HTTP and websocket requests, `edge_subscribe` | a goroutine per message; websocket close against subscribe | a websocket's filter goes with it; requests end |
| Secrets managers (`secrets/`), networking key | key files, map name → path | `HasSecret`, `GetSecret`, `SetSecret`, `RemoveSecret` | crash between two steps; two programs at once | a node keeps its key |
| Types, RLP, crypto, helpers | none | encodings, hashing, addresses | boundaries of lengths | round trips |

How they interact. libp2p calls `ConnectedF` of the identity service and
`DisconnectedF` of the server for every connection. `ConnectedF` asks the
server for a slot and spawns a handshake goroutine, which calls the server's
`AddPeer` and emits an event. `AddPeer` and `removePeer` call the discovery
service, whose routing table callbacks add tasks to the dial queue and delete
them. The dial loop takes tasks when an outbound slot is free, connects, and
sleeps until an event arrives. The application sync listens to the server's events
through `SubscribeCh`, so what it does not take stays on the server's bus; the node
filters and the relay client take application events, the latter to fill the hello
that the relay's alive service publishes by gossip.

## Modules

| Module | Models | Status |
|---|---|---|
| `DialQueue` | `network/dial` | checked, proved |
| `ConnManager` | peer table, counters, slots, identity handshake | checked, proved |
| `PeerTable` | abstract: what the peer table promises | refined by `ConnManager`, checked and proved |
| `DialLoop` | `runDial` with its subscription, keep-alive, `JoinPeer`, `Close`; composes `ConnManager` and `DialQueue` | checked, proved |
| `Discovery` | routing table, its lock and callbacks, discovery goroutines, temporary dials | checked, proved |
| `EventStream` | the update channels of application events | with `NodeFilters` |
| `NodeFilters` | the node filter manager: filters, timeouts, `Run` | with `JsonRpc` |
| `JsonRpc` | HTTP and websocket requests around the manager; extends `NodeFilters` | checked, proved |
| `FilterBoxes` | abstract: what the filter manager promises its clients | refined by `JsonRpc`, checked and proved |
| `LocalSecrets` | the networking key on disk and the start-up that reads or makes it | with `RelayClient` |
| `AliveService` | the relay's `Hello` and its test for private addresses | with `RelayClient` |
| `RelayClient` | both loops of the relay client, relay nodes, `Close`, crash and restart; extends the two above | checked, proved |
| `AppSync` | gossip topic, status sync, `SubscribeCh`, queries to peers | checked, proved |
| `MC...` of each | instances for TLC | |
| `...Proofs` of each that is proved | theorems and proofs | |

### DialQueue

`heap` is the set of tasks with an index on the heap, `tasks` is `d.tasks`. A
task is a pointer in the code, so it carries an identity, and two tasks of a peer
can be queued at once. Each method body under the lock is one action. `PopTask`
is the only method with a loop, and it is three actions: `Pop`, `PopEmpty`
(`popTaskImpl` found nothing and gave up the lock) and `EnterSelect`. A dial loop
in `"empty"` is not a receiver of `updateCh` yet, so the non-blocking send of
`AddTask` (`Signal`) does not wake it. `lastAdded` and `parkedAt` are auxiliary:
no guard reads them. `container/heap` is external and appears as its
contract, that `Pop` returns a least element of `Less` (`Least`).

- `LastAddIsWithdrawable`: `DeleteTask` takes back what the last `AddTask` for
  the peer queued, whatever superseded tasks of that peer are on the heap.
- `SleeperMissesOnlyEarlierTasks`: a dial loop that sleeps can only miss tasks
  added in the gap before its `select`.
- `CloseStopsPopper`: `Close` ends the loop, wherever it is.
- `SleeperIsWoken` is what `dial_queue_test.go` asserts of a waiting `PopTask`.
  It is violated: the gap above loses a wake-up.

### ConnManager

Every libp2p connection `c` has the position of its notifications (`phase[c]`)
and of its handshake goroutine (`shake[c]`). `ConnectedF` is the sequence
`CheckPending`, `LoadActive`, `CheckSlot`, `Reserve`, `CountPending`: one action per
operation on the `sync.Map` or on an atomic counter that another goroutine can
see. `HasFreeConnectionSlot` loads two counters, so it is two actions. The
goroutine is `LockProtocols`, `StreamOpens` or `StreamFails`, `HelloSucceeds` or
`HelloFails`, then `SavePeer` and `RoutePeer` or `DropPeer`, then `Release` and
`Finish`. `NewProtoConnection` holds `protocolsLock` while it opens the stream, so
one goroutine at a time is in `"stream"`; if libp2p dials to open it, that is an
`OpenConn`. `DisconnectedF` is `RemovePeerInfo` and
`UnroutePeer`. A section under `peersLock` is one action: within it, what is
visible without the lock are counters, and a reader of a slot reads only one
direction of them.

`connDirections[p]` is the set of active directions of the entry of `p` in
`s.peers`, empty if there is none: `addPeerInfo` never makes an entry without a
direction. `pending[p]` is empty or holds the direction stored with the pending
entry. The bootnode counter follows `config.NoDiscover = false`; with discovery
off it is the instance `Bootnodes = {}`. Connections open and close whenever
libp2p likes, both on the same name again after everything about the previous
connection is over. `Hello` fails at any time, and succeeds only while some
connection to the peer is open. Whether a handshake belongs to a temporary dial
is an input, because discovery sets that flag. `RoutePeer` and `UnroutePeer` are the
calls into discovery; they change nothing here and are kept as the places where
the routing table will follow.

- `CountsMatchPeers`: the counters used for free slots equal the active
  directions of the table, and the bootnode counter equals that number over the
  bootnodes, although a disconnect of one connection removes a peer with both its
  directions.
- `ImplementsPeerTable`: every step maps to a gained link, a lost peer or a
  stutter of `PeerTable`, with counters that move in the same step.
- `ReservationsAccounted`: the pending counters equal the pending entries, up to
  the calls between a map operation and its counter update. A counter can be
  negative for a moment: another connection's goroutine may release an entry
  before its maker counted it.
- `PendingHasOwner`: a pending entry always has a handler or a goroutine of the
  peer that has its release still to come, on the failing paths too.
- `GhostsAreLateAdds`: a peer without a live connection is in the table only
  because a handshake saved it after its last disconnect was handled.
- `ClosedHandshakeReleases`: a slot reserved for a peer that is gone comes free,
  although the goroutine may have to wait for `protocolsLock`.
- `PeersAreConnected` and `InboundWithinLimit` are what comments say of
  `numPeers` and `MaxInboundPeers`. Both are violated.

### DialLoop

`Conn` is an `INSTANCE` of `ConnManager` and `Queue` one of `DialQueue`; every step of
theirs appears in a step of this module together with what the server does with it.
`loop` is the position of `runDial`: the two loads of `HasFreeOutboundConn`
(`LoadActive`, `CheckOutbound`), `PopTask`, `host.Connect`, the event after a failure,
the select, and the deferred `cancel()` and `close(notifyCh)`. The subscription is a
buffer of `BusSize` events and one goroutine; `Subscription.run` and the bus's buffer
are one buffer here. An emitter blocks while it is full. The handler sends on `notifyCh`
without blocking; when the context is cancelled Go may pick any ready case, and a send
on the closed channel panics (`NotifyPanics`). `Close` is three steps: `host.Close`
(connections close one by one), `dialQueue.Close`, and closing `closeCh`. Nothing keeps a caller from
`AddToDialQueue` while or after that. The keep-alive
loop is the branch for discovery being on. Whether `AddPeer` finds the peer new to the
routing table is an input.

- `SleeperMissesOnlyDisconnects`: the loop never sleeps over a free outbound slot
  that some event announces. Two loads, a channel of one place, dropped sends and
  handshakes that end in between do not lose a wake-up, but a disconnect emits nothing.
- `PanicsOnlyInShutdown`: the send on the closed `notifyCh` needs a closed dial queue.
- `CloseEndsDialLoop`: `Close` ends the loop, also out of `host.Connect`, out of an
  `Emit` that waits for the loop's own subscription, and out of the gap in `PopTask`,
  with tasks added before and after it.
- `OpenSlotsAreFilled` is what the comment of `runDial` says. It is violated, because
  `removePeer` emits no event.

### Discovery

One connection per peer at a time, without slots and counters, because discovery does
not see more; the order of dial tasks is left out too (`queued` is a set). `tableLock`
is the lock of kbucket's routing table, under which it runs the callbacks: `TryAddPeer`
adds the peer, queues a task and starts an emission, and the lock is held until that
emission is over (`Unlock`, `RoutedPeer`). `DeleteTask` may miss a superseded
task, which is what `DialQueue` shows. `Init` is the state after `setupDiscovery`, in
which `ConnectToBootnodes` has put any bootnodes in the table and queued them. Each run of `bootnodePeerDiscovery` or
`regularPeerDiscovery` is a member of `Finders`; the ticker of `startDiscovery` spawns
them at any time, so several can run. Remote peers answer `FindPeers` with any peers.

- `TemporaryDialHasOwner`: a temporary-dial flag belongs to exactly one goroutine,
  and the deferred function of that goroutine is still to come.
- `EventsMove`: the event bus stops for good in one situation only, the cycle in which
  a goroutine emits under the table's lock while discovery's subscription waits for
  that lock and the buffer is full (`LockCycle`). That situation is reachable.
- `PeersAreRouted`: a peer in `s.peers` whose handshake is over is in the routing
  table, unless it was refused or removed since by an earlier connection's failure or
  disconnect. Those removals are reachable as well: the calls to
  `HandleNetworkEvent` are made outside `peersLock`.

### NodeFilters, EventStream and JsonRpc

`NodeFilters` has the manager's state and the steps of `Run`; the calls into it are steps
of a request in `JsonRpc`, split where they give up the manager's lock:
`GetFilterChanges` takes the updates under the read lock (`CanPoll`, `TakeUpdates`) and
refreshes the timeout under the write lock (`RefreshFilterTimeout`), `NewNodeFilter`
chooses an id before `addFilter` installs it. The heap of timeouts is a function from
filters to their expiry: it is changed under the lock only, and its array layout is
seen by nobody. An event goes to the filters one after the other (`ProcessEvent`,
`AppendLog`, `EndProcess`) while `processEvent` holds the read lock over all of them:
a poll, which wants the read lock only, comes between two appends, and what needs the
write lock waits. `work` is the position of `Run`: between looking at the heap (`"next"`)
and blocking in its select (`"select"`) a signal is dropped, as
`emitSignalToUpdateCh` does. The timer of an earlier round stays armed when the heap is
empty (`deadline`), while `filterID` is new in every round (`armed`). `flushWsFilters`
holds the read lock over its writes (`Lock`), and what a write returns is gorilla's
first error from then on. A websocket's message is handled in a goroutine of its own,
so it may come after `RemoveFilterByWs`.

- `PolledFiltersExpire`: every polled filter has a timeout, no websocket's filter has one.
- `TimerIsTrue` (`WorkerWakesInTime` and `EarlyTimeoutsWereUnseen`): the worker never
  sleeps past a timeout that it was told of, and removes a filter early only if its
  poll's signal was dropped. That happens: a poll between `nextTimeoutFilter` and
  `Uninstall` does not save the filter.
- `PolledUpdatesOnce`: a poll neither loses nor repeats an event, except those the stream
  dropped because its one place was taken.
- `ImplementsFilterBoxes`: with all its requests, timeouts, polls and writes the manager is
  a box for each filter, subscriptions included. An id is installed once in its life,
  with an empty box, and no poll, refresh or expiry brings it back. An event goes to the
  boxes that want it one by one, so a client may take it from one filter and not find it
  yet in another; but each box gets it once and in order, and before all have it no
  other event comes and no filter is installed or goes. Nothing leaves a box unless all
  of it does. The abstract state is computed from the filters
  that are installed, with their queries and what they hold; an id is `used` from its
  `addFilter` on, not from the moment it was chosen.
- `OrphansAreLateOrReplaced`: the two ways in which a websocket's filter outlives its
  reader; such a filter goes only when a write to it fails.
- `RequestsAreHandled`: a request waits for ever only while `Run` is in a write to a
  websocket, which has no deadline.
- `IdleFilterIsRemoved`: the timeout works unless one of four things happened. One of them
  is a `Zombies` entry: a poll refreshes the timeout of a filter that is gone already,
  and `Uninstall` of it returns early from then on, so that the worker spins on
  the head of the heap and no filter expires any more.

A filter without a websocket is made by the exported `NewNodeFilter` only, for which the
JSON-RPC methods have no request.

### LocalSecrets, AliveService and RelayClient

`LocalSecrets` is `setupLibp2pKey` of the server, the relay client and the relay server
with the local manager under it: `HasSecret`, then `ReadLibp2pKey` or the new key with
`SetSecret`'s check, then `os.WriteFile` in two steps, `CreateFile` and `WriteFile`,
between which a `Crash` leaves an empty file; at the end `NewHost`, the rest of the
constructor. Several programs (`Starters`) share the directory. `SetSecret` writes in the
clear; `GetSecret` decrypts if there is a password (`pass`). Every call of the file
system may fail: the manager's `Setup`, whose error is dropped, so that the map of paths
is empty and no key can be stored (`Unmapped`, `SetUnmapped`); `os.ReadFile`, whose error
`HasSecret` takes for a missing key; `os.Stat` in `SetSecret`, whose error lets the check
pass; and the two halves of the write. Without a data directory (`path = "none"`)
`SetSecret` returns nil and stores nothing: the node is a new peer at every start, and
`SamePeer` is about nodes that have one.

`RelayClient` begins with that start and goes on with two goroutines, `Loops`:
`keepAliveMinimumRelayConnections` (`Wake`, `DropExpired`, `ConnectToRandomRelayNodes`,
`Reserve`, `AddRelayPeerInfo`) and `startAliveService` (`Tick`, which a select may take
once more after `Close`). Both call
`keepAliveToBootnodes`: `Pick`, `WaitForApplication`, `NewAliveClient`, the call with
`HandleHello` at the relay's end, `HelloReturns`, `HelloFails` (the stream ended) or
`HelloRefused` (an error answer; the stream stays saved), and the relay nodes the answer
brings (`LoadNodes`, `StoreNodes`). `saved` and `cut` are the streams: both loops save theirs under the same protocol, so `CloseProtocolStream` of one may
end the call of the other. `DisconnectedF` comes any time after the disconnect.
`CrashClient` covers also the concurrent map access of `relayPeers`, which is iterated
without the lock that its writers hold: Go ends the process for it.

- `SamePeer`: a program with a data directory is the same peer for ever. It runs with the
  key that is on disk (`KeyOnDisk`), and no start, failure or crash replaces a key that is
  there, also while no program runs (`KeyStays`, of every step). Two cases are excepted:
  two first starts that met, with what started while they did (`met`; starts that only
  read a key are never in it by themselves), and an `os.Stat` that fails in `SetSecret`
  on a file which is there, so that the new key goes over the old one (`blind`).
- `SoundStartGetsKey`: a start in which every file system call works (`faults`) gets its key,
  whatever earlier starts, crashes and failures there were, unless it finds an empty file,
  met another first start, or there is a password. In the last case the first start
  succeeds and every later one fails, because `SetSecret` did not encrypt.
- `OneLiveRelay`: one relay at most, which is connected, about to be removed, or was
  added when its disconnect had been handled already (`late`).
- `NodesAgree`: the array relays are drawn from and the map that tells what is in it
  differ for good only if two `addRelaynodes` overlapped; then a node that is in the map
  alone is never drawn again.
- `HiddenNodes`: a hello that names a relay is published with all its addresses; one that
  names none is not published for a private address, and it names none only if the
  table became empty after the client had chosen the relay it calls.
- `OnlyPrivateHidden` is what the comment of `isInnerIp` says, that the block tested for is
  172.16.0.0/12. It is violated: the second number is compared as text, so 172.2, 172.3 and
  172.160 to 172.255 count as private too.
- `CloseEndsLoops`: `Close` ends both loops, except one that waits for an answer to a
  hello, which has no deadline, or for the application, where nobody looks at `closeCh`.
- `LostRelayIsReplaced`: a lost relay is replaced unless the reservation loop is itself in
  `keepAliveToBootnodes`, where it waits for a relay that only it could bring.

### AppSync

A gossiped message is in one place at a time (`where`): not delivered, in the
subscription's buffer, in a handler goroutine, in `peerStatusUpdateCh`, in the hands of
the update process, stored or lost. pubsub delivers in any order and drops what does
not fit. The server's events go through the bus, `SubscribeCh`'s handler (`pending`) and
`startPeerEventProcess` to `peerConnectionUpdateCh`, for which the repository has no
reader; `ReadLink` is one that may exist. `closing` counts what `syncer.Close` has
closed, one channel after the other. `query` is a call to each peer over a gRPC stream.

- `PanicsOnlyAfterClose`: the ways in which this code ends the process (a send on a closed
  channel, a publish to a nil topic, `SubscribeCh`'s handler against its cleanup) all need
  a `Close`. Each of them is reachable after it.
- `StaleOnlyIfCrossed`: nothing orders statuses, so the map may go back to an older one;
  that needs two messages that overlapped or came in the wrong order.
- `StatusesComeIn`: a status that was read is stored, and asking all peers ends although
  one does not answer.
- `EventsFlow`: the server's bus gets room again, except when the event process is stuck
  behind a link event that nobody reads, or was closed, while the server is open. Then
  every `Emit` of the server blocks.

### Defect variants

The definitions `NewTaskUnprioritised`, `StoreIfAbsent`, `NoSignal`,
`EnterSelectMissingClose`, `AlwaysNew`, `DropPeerAndReturn`, `OwnSlot`,
`HasSettledEntry`, `ClosedDirection`, `EveryDirection`, `NotifyUnbuffered`,
`PopNilWhenEmpty`, `WaitForEvent`, `CanEmitUnbounded`, `CanReceiveWithTable`,
`SavePeerAsKnown`, `LeaveMarked`, `PushUnbounded`, `AddNoTimeout`, `LastToExpire`,
`KeepUpdates`, `FreeId`, `SetNoFilterID`, `EndFlushLocked`, `ReadAnyKey`, `SetSecretAnyway`,
`NeverReadable`, `FewRelaysOrEnough`, `DisconnectedKeeps`, `LoadNodesOnly`,
`isInner172Low`, `PickOpen`, `ConnectedNodes`, `TakeInParallel`, `PublishUnchecked`,
`PutFirst`, `LockUnlessWriting`, `NotifyBlocking`, `NoTimeout` and `ForwardOrReturn` are
used by no action (`NoSignal` stands in `DialQueue` and in `NodeFilters`). Each is a plausible slip in
the definition after it, and `PROJECT.json` says which property notices it.

## Runs

| Run | Bounds | Shows |
|---|---|---|
| `dial_queue` | 2 peers, priorities 1 and 10, 4 tasks | the properties above, under weak fairness of the dial loop |
| `dial_lost_wakeup` | same | counterexample to `SleeperIsWoken` |
| `conn_manager` | 2 peers (1 bootnode), 3 connections: one peer connected in both directions, one slot each way; a connection opens while fewer than 2 are in progress | the invariants, the refinement and, under fairness, `ClosedHandshakeReleases` |
| `conn_ghost` | as `conn_manager`, any connection opens at any time | counterexample to `PeersAreConnected` |
| `conn_inbound_limit` | as `conn_ghost` | counterexample to `InboundWithinLimit` |
| `dial_loop` | 2 peers (1 bootnode), 1 outbound connection, one slot, 1 task, 1 caller, bus of 1 | the properties of `DialLoop`, under fairness |
| `dial_open_slot` | same, one more peer always connected | counterexample to `OpenSlotsAreFilled` |
| `discovery` | 1 peer, a bootnode; 2 discovery goroutines; bus of 1 | the properties of `Discovery` |
| `json_rpc` | 1 request at a time, 1 websocket, 2 filters, 2 events of which the filters want one, timeout 1, clock up to 1 | the properties of `JsonRpc` and `NodeFilters`, under fairness, and the refinement |
| `relay_client` | 2 relays of which 1 is configured, 2 programs with 3 keys to generate, 15 addresses | the properties of `RelayClient` and `LocalSecrets`, under fairness |
| `relay_hidden` | same | counterexample to `OnlyPrivateHidden` |
| `app_sync` | 3 messages of 2 nodes, buffers of 1, 2 peers to ask | the properties of `AppSync`, under fairness |

Why the bounds are enough. Four tasks allow a superseded task of a peer below
or above the last one, a second peer between them, and an `AddTask` in the gap.
`MaxTasks` is the only bound of `DialQueue`. In `ConnManager` nothing is counted without
bound. Two connections of one peer with different directions share a pending
entry and a table entry, which is where the reservation of one is released by
the other, and the third connection competes for a slot. A peer whose
connections come and go again is covered because names of connections are reused.
`MaxInProgress` of `MCConnManager` is a bound on what libp2p opens, not on what happens to
open connections: one opens only while at most one other has a notification or a
handshake under way. All three can be open, close and be handled at once; two can be
between any two steps of `ConnectedF` and the handshake while the third is established.
Three that start together are left to the proofs, which hold for any number, because the
liveness check would take too long.

In `json_rpc` one request runs at a time, but its steps interleave with `Run`, with the
websocket's reader, which ends at any time, and with the clock: with the second filter
that is what it takes for each of the four exceptions of `IdleFilterIsRemoved` and both of
`OrphansAreLateOrReplaced`. Two requests on one filter at once, and the order of several
events that a filter wants, are left to the proofs. A timeout of 1 and a clock up to 1 tell "not yet" from "due", which is all that a
comparison of two times gives the code. In `relay_client` one relay is lost while the
other is learnt; other programs start and end only before the loops do, and the
loops run with one state of the key store (a provisioned key, no password), because the
two have no variable in common. Three keys are what two programs and a file can differ in.
The addresses are the ends of the private blocks, the numbers next to them, and those
that a text comparison gets wrong. In `app_sync` two messages of one node can cross and
the third keeps a channel occupied; the syncer is started and closed once (a second `Close`
would close closed channels), and queries are made before it starts, because they share
nothing with it.

Fairness. `FairSpec` of `DialQueue` asks that the dial loop, a goroutine, runs. Adding,
deleting and closing are never obliged to happen. `FairSpec` of `ConnManager` asks
that callbacks and goroutines run; a remote peer is not obliged to answer `Hello`,
which has no timeout, but a call on a closed connection returns. libp2p gives up on
a stream that is not negotiated in time, so opening one returns. A goroutine that
waits for `protocolsLock` is granted it in the end, which is strong fairness of
`LockProtocols`: a Go mutex hands itself to a waiter that starved for too long, and
the others may take it any number of times before. Two handshakes at once are enough for
one to wait for another's stream.

`CHECK_DEADLOCK FALSE` stands where the system may really stop: the dial queue and the
dial loop after `Close`; discovery, whose `LockCycle` stops everybody and is what
`EventsMove` is about; the filter manager when no client calls and no event is left; the
relay client after `Close`, before its next restart; and the status sync, which a panic
ends. The connection manager never stops.

In `DialLoop` a bus and a `notifyCh` of one place are where waiting and dropping
happen, and one task is enough for the queue to be empty or not when a slot comes free;
the connection opens again and again, so the loop goes round any number of times. The
extra peer of `dial_open_slot` keeps the keep-alive loop quiet, which would otherwise
wake the dial loop every ten seconds while the node has no peer. In `Discovery` the
conflicts are about one peer: two goroutines that pick the same bootnode, a task, a
handshake and a failure of that peer, and a lock and a buffer that all share. What more
peers and goroutines add is left to the proofs, which hold for any number.

`FairSpec` of `DialLoop` asks that the dial loop, the subscription's goroutine, the
keep-alive loop and `Close`, once begun, go on, that libp2p's dial timeout ends
`host.Connect` and that `host.Close` closes connections. Fairness of `Emit` assumes that the
other subscribers of the bus take their events, that is, that `LockCycle` of `Discovery`
has not happened. No caller is obliged to call, and no peer to connect or answer.

`FairSpec` of `JsonRpc` asks that `Run` goes on and that a request that waits for the lock
gets it in the end (strong fairness, for the reason given for `protocolsLock`). A write to
a websocket is not obliged to return. `FairSpec` of `RelayClient` asks that both loops go
on, that libp2p's calls return and that disconnects are notified; nobody has to answer
a hello or to publish an application event. The hello loop's return is under strong
fairness: when its select finds both a tick and the closed channel Go chooses at random,
so a loop that comes back to it again and again takes the channel in the end. `FairSpec` of
`AppSync` asks that goroutines that can go on do and that a timer expires; it asks nothing of pubsub, of peers, of a
reader of the link events or of the server.

## Proofs

Proved for every finite set of peers and connections, any limits and any
bootnodes, from the assumptions in `ConnManager` (`PeersAssumption`,
`ConnsAssumption`), in `DialLoop` and `Discovery` (`BusAssumption` and those about the
constants' sets: `DialLoop` has those of the two modules it composes), in `DialQueue` (`PrioritiesAssumption`, `MaxTasksAssumption`), in
`NodeFilters` (`NamesAssumption`, `QueriesAssumption`, `TimeAssumption`), in
`LocalSecrets` and `RelayClient` (`KeysAssumption`, `RelaysAssumption`,
`FreshKeysAssumption`: a generated key is nobody else's and not the one on disk, and `AddrsAssumption`), and in
`AppSync` (`MsgsAssumption`, `SizesAssumption`). Each theorem names the property of the
same run:

- `QueueTypeOK`, `LastAddSafe`, `QueueSafe`: the three safety properties of the dial
  queue. They are inductive together with the fact that no task on the heap has an
  identity that was not given out yet (`QueueInv`).
- `ConnTypeOK`, `CountersExact`, `ReservationsSafe`, `ReservationsExact`, `OnlyLateAddsGhost`: the
  safety properties of the connection manager. The inductive invariant `ConnInv`
  adds `SpawnedOnce` (a goroutine does not run before its `ConnectedF` spawned
  it, so spawning never overwrites a position) and `FreedWhileFinishing` (a
  direction taken off the pending map is held only between the two updates of
  `removePendingStatus`, so `Release` never overwrites one).
- `Refinement`: the connection manager implements `PeerTable`.
- `Composition`: `DialLoop` implements `ConnManager` and `DialQueue`: what the server does
  to connections and to the queue are steps of theirs.
- `ServerConnsSafe`, `ServerPeerTable`, `ServerQueueSafe`: what is proved of the parts,
  stated of the server as a whole. `DialLoopProofs` instantiates the proof modules of
  the two (`ConnP`, `QueueP`) with the substitution of the composition, discharges their
  assumptions from `DialLoop`'s, and applies their theorems to `Composition`; the lemmas
  `SameConn` and `SameQueue` say that the two instances of a module mean the same.
- `DialLoopTypeOK`: `TypeOK` of the composition: the types of the parts come from the
  theorems above, those of the loop, the bus and the shutdown are inductive beside them.
- `DialLoopSafe` (`SleeperMissesOnlyDisconnects`) and `ShutdownOnlyPanics`. The inductive
  invariant adds that between the two loads of `HasFreeOutboundConn` only a disconnect
  lowers the active count (`LoadedCount`), and what every stopped goroutine implies about
  the shutdown (`StoppedByClose`). `ConnEffect` sums up how a step of a connection
  can change what the loop depends on.
- `DiscoveryTypeOK`, `TemporaryDialsOwned`, `SavedPeersRouted`: types, owners of temporary
  dials, and saved peers in the table, for any number of goroutines. The second needs that
  a goroutine has one target from its pick to its deferred function (`OneTarget`) and
  that it is marked from `LoadOrStore` until it removes the mark (`MarkedWhileRunning`,
  `LeavesMarked`); the third that a peer is in the table while its own handshake is in
  `TryAddPeer` (`HolderIsRouted`).
- `OnlyLockCycleBlocks` (`EventsMove`). The property is stated with the guards of the steps
  (`CanEmit`, `CanReceive`, `CanForget`, `CanUnlock`), which the actions use themselves,
  and so needs no `ENABLED`. `LockInv` adds that whoever holds the table's lock is in
  `TryAddPeer`: a holder that cannot give the lock back has an event to emit.
- `JsonTypeOK`, `PolledExpire`, `TimerSafe`: types and timeouts of the
  node filters. `TimerInv` adds what a request in progress knows of its filter
  (`KnownFilters`), that the timer is in time from the moment it is set and not only in the
  select (`TimerInTime`), and that it does not end before the timeout of the filter it
  was set for, unless a new timeout was missed (`TimerNotEarly`).
- `OrphansSafe`: needs that a websocket's newest filter is the one it has as its own
  (`OwnFilter`).
- `UpdatesSafe`: needs that events pass the stream, `watchCh` and `Run` in their order and
  that those which are in none of them and were not handled were dropped (`Pipeline`),
  and that a filter is added once (`AddsAreNew`).
- `BoxesImplemented`: every step of the JSON-RPC server is a step of `FilterBoxes` or a
  stutter. `InstallStep`, `ArriveStep`, `PutStep`, `TakeStep` and `RemovalStep` are the kinds;
  `OnceNew` and `OnceInstalled` say what choosing an id and `addFilter` do to the ids that
  count as used. `Pipeline`, `AddsAreNew` and `Boxes` are what it needs of the states.
- `PeerIsSame`, `StartFailures`: from `BootInv`. Each first start finds the file as its step
  supposes, unless it met another or a call failed (`StepKnows`); of two first starts each
  has met the other; and whoever has the key on disk or is about to read it meets no writer
  that could change it (`KeyIsSettled`). `KeyNotLost`, the action property's part, follows:
  the two steps that write the file find no key in it. `FailureHasReason` goes through the
  steps in which a start can fail.
- `RelayTypeOK`, `RelaySafe`, `NodesSafe`, `HellosSafe`: the relay client. `TableInv` adds
  that the table is empty from the choice of a relay until it is added; `NodesInv` that the
  loop between the two steps of `addRelaynodes` holds exactly the new map; `HelloInv` that
  a loop past its pick has a relay in the table or saw it become empty, and what the service
  answered. `PrivateIsInner` shows that the text comparison covers the private blocks.
- `SyncTypeOK`, `PanicsSafe`, `StaleSafe`: the status sync. `Counts` adds that one status
  at most is in each channel; `PanicInv` that the topic is nil only after `Close` began;
  `CrossingsNoted` that every pair of messages that can still overtake each other is noted.

All counters count the keys of a function to sets of directions. The lemma
`HoldersAfterUpdate` says what changing one key does to such a count, and
everything about counters follows from it: `SaveKeepsCounts` and
`RemoveKeepsCounts` for the two `peersLock` sections, `ReservedStep` for the four
steps of a reservation. One lemma per conjunct then shows that every step
preserves the invariant.

Only model-checked: liveness (the prover has no fairness or `ENABLED`), that is
`CloseStopsPopper`, `ClosedHandshakeReleases`, `CloseEndsDialLoop`, `RequestsAreHandled`,
`IdleFilterIsRemoved`, `CloseEndsLoops`, `LostRelayIsReplaced`, `StatusesComeIn` and
`EventsFlow`; and the counterexamples. Every other property of a run has a theorem.

## Plan

Done: the server's core (`DialQueue`, `ConnManager`, `DialLoop`, `Discovery`), the
node filters with the JSON-RPC server around them, the relay client with the alive
service and the networking key, and the status sync. Left, in this order:

1. The rest of the server's start-up, in which notifications are registered before
   `s.discovery` is set and `DisconnectedF` after it, and the protocol streams kept in peer
   entries, which the composition of `ConnManager` with `Discovery` would need.
2. `GetEventCh` and its abandoned goroutines beyond the first event.
3. Two requests at once in `json_rpc`, if the state space can be made smaller.

## Not modelled

- The application endpoint with its HTTP and telegram handlers and the proofs
  (`application/endpoint*.go`, `proof/`): plumbing around one application. Nothing
  counts with the slot gauge; its methods have no caller.
- The dispatcher's decoding and reflection, the JSON-RPC methods that only read or
  forward, batches (their limit is never set; the requests of a batch follow each
  other), and formats. A `filterID` that is torn because it is written and read without a
  lock is a filter id that does not exist; the model has whole ids. A subscription whose
  second parameter is `null` makes a nil query (`node_query.go`) that `Match` dereferences
  in `Run`; the model has subscriptions with a query.
- Contents of a status, and the distribution of `GetRandomRelaynode` and of kbucket's
  distances: the models take any choice.
- The methods without callers: `BestPeer` and the other queries of the peer map,
  `initializePeerMap` (which would panic on the nil that `GetConnectedPeerStatuses` returns
  for a peer that failed), `Manager.Close` of the filters outside tests (it is in the model
  as `Close`), `RemoveSecret` outside tests.
- Limits of time that the code does not set: `PostPeerStatusData`, `GetPeerData` and the
  hello have none, and the models do not invent one.
- Cloud secrets managers, cryptography, RLP, hex and address parsing, key stores: sequential
  code or forwarding without shared state of its own. Metrics and logging.
  `server_alive.go` is commented out as a whole. Generated protobuf code.
