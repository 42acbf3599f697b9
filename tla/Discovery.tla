------------------------------ MODULE Discovery ------------------------------
(***************************************************************************)
(* The discovery service and what it shares with the server: the routing   *)
(* table with its lock, the callbacks that queue dial tasks and delete     *)
(* them, the events discovery subscribes to, the goroutines that ask peers *)
(* for their peers, and the temporary dials.                               *)
(*                                                                         *)
(* Of a connection this module keeps what discovery sees: one connection   *)
(* per peer at a time, its handshake goroutine (shake), its notifications  *)
(* (phase) and s.peers.  Slots and counters are in ConnManager, the order  *)
(* and identity of dial tasks in DialQueue, the dial loop in DialLoop.     *)
(*                                                                         *)
(* External: kbucket's TryAddPeer and RemovePeer, with the PeerAdded and   *)
(* PeerRemoved callbacks, run under one lock, and TryAddPeer may refuse a  *)
(* peer.  The event bus blocks an emitter while the subscription's buffer  *)
(* is full.  Remote peers answer FindPeers with any peers, or not at all.  *)
(*                                                                         *)
(* A definition that stands just before another one of the same shape is   *)
(* a variant with a defect, used only to show that the properties notice.  *)
(***************************************************************************)
EXTENDS Integers, Sequences, FiniteSets

CONSTANTS
  Peers,          \* remote peer IDs
  Bootnodes,      \* the bootnodes among them
  Reachable,      \* the peers with which a connection can be opened
  Finders,        \* goroutines startDiscovery has spawned, at most so many at once
  Loop,           \* the dial loop
  BusSize         \* events the subscription can hold back (16 in libp2p)

ASSUME PeersAssumption == Bootnodes \subseteq Peers /\ Reachable \subseteq Peers
ASSUME BusAssumption == BusSize \in Nat \ {0}
ASSUME ActorsAssumption == Peers \cap Finders = {} /\ Loop \notin Peers \cup Finders

VARIABLES
  open,           \* peers with an open connection
  phase,          \* peer -> where the notifications of its connection are
  shake,          \* peer -> where its handshake goroutine is
  peers,          \* the keys of s.peers
  refused,        \* auxiliary: members of peers the routing table had no room for
  forgotten,      \* auxiliary: members of peers removed from the table since
  queued,         \* peers with a task in the dial queue
  dialing,        \* {} or {the peer the dial loop works on}
  table,          \* peers in the routing table
  tableLock,      \* {} or {the actor that is in TryAddPeer}
  emit,           \* actor -> {} or {the event it is handing to the bus}
  inbox,          \* events the subscription holds back
  forgetting,     \* {} or {the peer whose failure the subscription handles}
  stage,          \* finder -> where it is
  target,         \* finder -> {} or {the peer it asks}
  found,          \* finder -> peers it has still to add to the table
  temporaryDials, \* the keys of s.temporaryDials
  isTemporaryDial \* the finders that have marked their target

connVars  == <<open, phase, shake, peers, refused, forgotten>>
dialVars  == <<queued, dialing>>
tableVars == <<table, tableLock>>
busVars   == <<emit, inbox, forgetting>>
findVars  == <<stage, target, found, temporaryDials, isTemporaryDial>>
vars == <<connVars, dialVars, tableVars, busVars, findVars>>

(* Everybody who emits events or calls TryAddPeer; a handshake is named by its peer. *)
Actors == Peers \cup Finders \cup {Loop}

(* "up": until DisconnectedF.  "unrouting": removePeer took the peer out of s.peers. *)
Phases == {"idle", "up", "unrouting"}

(* "start": before constructStatus.  "lasting", "temporary": in Hello, with that status.
   "save": before addPeerInfo.  "route": before HandleNetworkEvent.  "completed",
   "failed": before the event. *)
Stages ==
  {"none", "start", "lasting", "temporary", "save", "route", "completed", "failed"}

(* The steps of bootnodePeerDiscovery; regularPeerDiscovery begins at "query". *)
FinderStages == {"idle", "pick", "count", "mark", "dial", "query", "add", "unmark",
                 "disconnect"}

(* addToTable for each bootnode, before the dial loop and the discovery goroutines start
   and with its events handled; the table may have no room for some. *)
ConnectToBootnodes == \E nodes \in SUBSET Bootnodes : table = nodes /\ queued = nodes

(* setupDiscovery has returned. *)
Init ==
  /\ open = {} /\ peers = {} /\ refused = {} /\ forgotten = {}
  /\ phase = [p \in Peers |-> "idle"]
  /\ shake = [p \in Peers |-> "none"]
  /\ ConnectToBootnodes
  /\ dialing = {} /\ tableLock = {}
  /\ emit = [a \in Actors |-> {}] /\ inbox = <<>> /\ forgetting = {}
  /\ stage = [k \in Finders |-> "idle"]
  /\ target = [k \in Finders |-> {}]
  /\ found = [k \in Finders |-> {}]
  /\ temporaryDials = {} /\ isTemporaryDial = {}

-----------------------------------------------------------------------------
(* Events.  An event is the set of peers discovery has to forget because of it: {p}
   for PeerFailedToConnect, {} for PeerDialCompleted and PeerAddedToDialQueue. *)

Free(a) == emit[a] = {} /\ a \notin tableLock

(* An Emit that never blocks. *)
CanEmitUnbounded(a) == emit[a] # {}

(* The bus takes an event if the subscription's buffer has room. *)
CanEmit(a) == emit[a] # {} /\ Len(inbox) < BusSize

(* emitEvent begins. *)
StartsEmit(a, event) ==
  /\ emit[a] = {}
  /\ emit' = [emit EXCEPT ![a] = {event}]

Emit(a) ==
  /\ CanEmit(a)
  /\ \E event \in emit[a] : inbox' = Append(inbox, event)
  /\ emit' = [emit EXCEPT ![a] = {}]
  /\ UNCHANGED <<connVars, dialVars, tableVars, forgetting, findVars>>

(* A handler that looks at the table for every event. *)
CanReceiveWithTable == inbox # <<>> /\ forgetting = {} /\ tableLock = {}

(* The handler is done with the event before. *)
CanReceive == inbox # <<>> /\ forgetting = {}

(* The subscription's goroutine calls HandleNetworkEvent, for which only
   PeerFailedToConnect matters. *)
Receive ==
  /\ CanReceive
  /\ forgetting' = Head(inbox)
  /\ inbox' = Tail(inbox)
  /\ UNCHANGED <<connVars, dialVars, tableVars, emit, findVars>>

-----------------------------------------------------------------------------
(* The routing table *)

(* addToDialQueue, and DeleteTask, which does not reach a task of p that a later
   AddTask superseded. *)
AddTask(p)    == queued' = queued \cup {p}
DeleteTask(p) == queued' \in {queued, queued \ {p}}

(* TryAddPeer takes p: PeerAdded queues a task and emits, under the table's lock. *)
TryAddPeer(a, p) ==
  /\ tableLock = {} /\ p \notin table
  /\ table' = table \cup {p}
  /\ tableLock' = {a}
  /\ AddTask(p)
  /\ StartsEmit(a, {})

(* PeerAdded is over, and TryAddPeer returns to addPeersToTable or HandleNetworkEvent. *)
CanUnlock(a) ==
  /\ a \in tableLock /\ emit[a] = {}
  /\ a \in Finders \/ (a \in Peers /\ shake[a] = "route")

Unlock(a) ==
  /\ CanUnlock(a)
  /\ tableLock' = {}
  /\ UNCHANGED <<connVars, dialVars, table, busVars, findVars>>

(* RemovePeer: PeerRemoved deletes the task of a peer that was there. *)
RemovePeer(p) ==
  /\ tableLock = {}
  /\ table' = table \ {p}
  /\ IF p \in table THEN DeleteTask(p) ELSE UNCHANGED queued
  /\ forgotten' = IF p \in table \cap peers THEN forgotten \cup {p} ELSE forgotten
  /\ UNCHANGED tableLock

(* HandleNetworkEvent(PeerFailedToConnect) waits for the table's lock. *)
CanForget == forgetting # {} /\ tableLock = {}

Forget ==
  /\ CanForget
  /\ \E p \in forgetting : RemovePeer(p)
  /\ forgetting' = {}
  /\ UNCHANGED <<open, phase, shake, peers, refused, dialing, emit, inbox, findVars>>

-----------------------------------------------------------------------------
(* Connections *)

(* ConnectedF starts a handshake, or finds no slot and is going to disconnect. *)
Opens(p) ==
  /\ p \in Reachable \ open /\ phase[p] = "idle" /\ shake[p] = "none" /\ Free(p)
  /\ open' = open \cup {p}
  /\ phase' = [phase EXCEPT ![p] = "up"]
  /\ shake' \in {shake, [shake EXCEPT ![p] = "start"]}
  /\ UNCHANGED <<peers, refused, forgotten>>

OpenConn(p) == Opens(p) /\ UNCHANGED <<dialVars, tableVars, busVars, findVars>>

CloseConn(p) ==
  /\ p \in open
  /\ open' = open \ {p}
  /\ UNCHANGED <<phase, shake, peers, refused, forgotten, dialVars, tableVars, busVars,
                 findVars>>

Shake(p, from, to) == shake[p] = from /\ shake' = [shake EXCEPT ![p] = to]

(* constructStatus: IsTemporaryDial *)
StartHello(p) ==
  /\ IF p \in temporaryDials THEN Shake(p, "start", "temporary")
                             ELSE Shake(p, "start", "lasting")
  /\ UNCHANGED <<open, phase, peers, refused, forgotten, dialVars, tableVars, busVars,
                 findVars>>

(* The peer is saved if neither side calls the dial temporary. *)
HelloSucceeds(p) ==
  /\ p \in open
  /\ \/ Shake(p, "lasting", "save")
     \/ Shake(p, "lasting", "completed")
     \/ Shake(p, "temporary", "completed")
  /\ UNCHANGED <<open, phase, peers, refused, forgotten, dialVars, tableVars, busVars,
                 findVars>>

(* handleConnected returns an error, and the connection is closed. *)
HelloFails(p) ==
  /\ \E s \in {"start", "lasting", "temporary"} : Shake(p, s, "failed")
  /\ open' = open \ {p}
  /\ UNCHANGED <<phase, peers, refused, forgotten, dialVars, tableVars, busVars, findVars>>

(* An addPeerInfo that always reports the peer as known. *)
SavePeerAsKnown(p) ==
  /\ Shake(p, "save", "completed")
  /\ peers' = peers \cup {p}
  /\ UNCHANGED <<open, phase, refused, forgotten, dialVars, tableVars, busVars, findVars>>

(* addPeerInfo.  A peer that is there already is known with this direction or with
   the other one only. *)
SavePeer(p) ==
  /\ \/ Shake(p, "save", "route")
     \/ p \in peers /\ Shake(p, "save", "completed")
  /\ peers' = peers \cup {p}
  /\ UNCHANGED <<open, phase, refused, forgotten, dialVars, tableVars, busVars, findVars>>

(* HandleNetworkEvent(PeerConnected): TryAddPeer takes the peer ... *)
RoutePeer(p) ==
  /\ shake[p] = "route"
  /\ TryAddPeer(p, p)
  /\ refused' = refused \ {p} /\ forgotten' = forgotten \ {p}
  /\ UNCHANGED <<open, phase, shake, peers, dialing, inbox, forgetting, findVars>>

(* ... and returns, or it knows the peer ... *)
RoutedPeer(p) ==
  /\ \/ CanUnlock(p) /\ tableLock' = {}
     \/ tableLock = {} /\ p \in table /\ UNCHANGED tableLock
  /\ Shake(p, "route", "completed")
  /\ UNCHANGED <<open, phase, peers, refused, forgotten, dialVars, table, busVars, findVars>>

(* ... or has no room for it. *)
RefusePeer(p) ==
  /\ tableLock = {} /\ p \notin table
  /\ Shake(p, "route", "completed")
  /\ refused' = IF p \in peers THEN refused \cup {p} ELSE refused
  /\ UNCHANGED <<open, phase, peers, forgotten, dialVars, tableVars, busVars, findVars>>

(* The handshake's event. *)
Finish(p) ==
  /\ Shake(p, "completed", "none") \/ Shake(p, "failed", "none")
  /\ StartsEmit(p, IF shake[p] = "failed" THEN {p} ELSE {})
  /\ UNCHANGED <<open, phase, peers, refused, forgotten, dialVars, tableVars, inbox,
                 forgetting, findVars>>

(* DisconnectedF: removePeerInfo ... *)
RemovePeerInfo(p) ==
  /\ phase[p] = "up" /\ p \notin open
  /\ phase' = [phase EXCEPT ![p] = IF p \in peers THEN "unrouting" ELSE "idle"]
  /\ peers' = peers \ {p}
  /\ refused' = refused \ {p} /\ forgotten' = forgotten \ {p}
  /\ UNCHANGED <<open, shake, dialVars, tableVars, busVars, findVars>>

(* ... and HandleNetworkEvent(PeerDisconnected). *)
UnroutePeer(p) ==
  /\ phase[p] = "unrouting"
  /\ phase' = [phase EXCEPT ![p] = "idle"]
  /\ RemovePeer(p)
  /\ UNCHANGED <<open, shake, peers, refused, dialing, busVars, findVars>>

-----------------------------------------------------------------------------
(* The dial loop: a task, and host.Connect if the peer is not connected. *)
PopTask ==
  /\ dialing = {} /\ Free(Loop)
  /\ \E p \in queued : dialing' = {p} /\ DeleteTask(p)
  /\ UNCHANGED <<connVars, tableVars, busVars, findVars>>

DialReturns ==
  /\ dialing # {} /\ dialing' = {}
  /\ \E p \in dialing :
       \/ p \in open /\ UNCHANGED <<connVars, emit>>
       \/ Opens(p) /\ UNCHANGED emit
       \/ StartsEmit(Loop, {p}) /\ UNCHANGED connVars
  /\ UNCHANGED <<queued, tableVars, inbox, forgetting, findVars>>

-----------------------------------------------------------------------------
(* The goroutines startDiscovery spawns, if an outbound slot is free. *)

At(k, from, to) == stage[k] = from /\ stage' = [stage EXCEPT ![k] = to]

(* regularPeerDiscovery: GetRandomPeer *)
RegularPeerDiscovery(k) ==
  /\ At(k, "idle", "query")
  /\ \E p \in peers : target' = [target EXCEPT ![k] = {p}]
  /\ UNCHANGED <<connVars, dialVars, tableVars, busVars, found, temporaryDials,
                 isTemporaryDial>>

BootnodePeerDiscovery(k) ==
  /\ At(k, "idle", "pick")
  /\ UNCHANGED <<connVars, dialVars, tableVars, busVars, target, found, temporaryDials,
                 isTemporaryDial>>

(* GetRandomBootnode: one that is not in s.peers, if any *)
GetRandomBootnode(k) ==
  /\ \/ /\ At(k, "pick", "count")
        /\ \E p \in Bootnodes \ peers : target' = [target EXCEPT ![k] = {p}]
     \/ Bootnodes \subseteq peers /\ At(k, "pick", "idle") /\ UNCHANGED target
  /\ UNCHANGED <<connVars, dialVars, tableVars, busVars, found, temporaryDials,
                 isTemporaryDial>>

(* GetBootnodeConnCount() > 0: the dial is to be temporary. *)
GetBootnodeConnCount(k) ==
  /\ IF Bootnodes \cap peers # {} THEN At(k, "count", "mark") ELSE At(k, "count", "dial")
  /\ UNCHANGED <<connVars, dialVars, tableVars, busVars, target, found, temporaryDials,
                 isTemporaryDial>>

(* FetchOrSetTemporaryDial: LoadOrStore; if it was there the search goes on. *)
FetchOrSetTemporaryDial(k) ==
  /\ IF target[k] \subseteq temporaryDials
       THEN /\ At(k, "mark", "pick")
            /\ target' = [target EXCEPT ![k] = {}]
            /\ UNCHANGED <<temporaryDials, isTemporaryDial>>
       ELSE /\ At(k, "mark", "dial")
            /\ temporaryDials' = temporaryDials \cup target[k]
            /\ isTemporaryDial' = isTemporaryDial \cup {k}
            /\ UNCHANGED target
  /\ UNCHANGED <<connVars, dialVars, tableVars, busVars, found>>

TemporaryDialPeer(k) ==
  /\ At(k, "dial", "query")
  /\ \E p \in target[k] : AddTask(p)
  /\ StartsEmit(k, {})
  /\ UNCHANGED <<connVars, dialing, tableVars, inbox, forgetting, target, found,
                 temporaryDials, isTemporaryDial>>

(* A deferred function that is registered too late. *)
LeaveMarked(k, from) == At(k, from, "idle") /\ target' = [target EXCEPT ![k] = {}]

(* The deferred function of bootnodePeerDiscovery, or the end. *)
Leave(k, from) ==
  IF k \in isTemporaryDial
    THEN At(k, from, "unmark") /\ UNCHANGED target
    ELSE At(k, from, "idle") /\ target' = [target EXCEPT ![k] = {}]

(* What a node's FindPeers may answer: some of the peers in its own table. *)
FindPeers == SUBSET Peers

(* findPeersCall: the target is connected and answers, or there is an error. *)
FindPeersCall(k) ==
  /\ Free(k)
  /\ \/ /\ target[k] \subseteq open
        /\ At(k, "query", "add")
        /\ \E nodes \in FindPeers : found' = [found EXCEPT ![k] = nodes]
        /\ UNCHANGED target
     \/ Leave(k, "query") /\ UNCHANGED found
  /\ UNCHANGED <<connVars, dialVars, tableVars, busVars, temporaryDials, isTemporaryDial>>

(* addPeersToTable: the table takes the next peer ... *)
AddToTable(k) ==
  /\ stage[k] = "add"
  /\ \E p \in found[k] : /\ TryAddPeer(k, p)
                         /\ found' = [found EXCEPT ![k] = @ \ {p}]
                         /\ refused' = refused \ {p} /\ forgotten' = forgotten \ {p}
  /\ UNCHANGED <<open, phase, shake, peers, dialing, inbox, forgetting, stage, target,
                 temporaryDials, isTemporaryDial>>

(* ... or knows it, or has no room for it. *)
SkipPeer(k) ==
  /\ stage[k] = "add" /\ Free(k) /\ tableLock = {}
  /\ \E p \in found[k] : found' = [found EXCEPT ![k] = @ \ {p}]
  /\ UNCHANGED <<connVars, dialVars, tableVars, busVars, stage, target, temporaryDials,
                 isTemporaryDial>>

AddedAll(k) ==
  /\ found[k] = {} /\ Free(k)
  /\ Leave(k, "add")
  /\ UNCHANGED <<connVars, dialVars, tableVars, busVars, found, temporaryDials,
                 isTemporaryDial>>

RemoveTemporaryDial(k) ==
  /\ At(k, "unmark", "disconnect")
  /\ temporaryDials' = temporaryDials \ target[k]
  /\ isTemporaryDial' = isTemporaryDial \ {k}
  /\ UNCHANGED <<connVars, dialVars, tableVars, busVars, target, found>>

(* DisconnectFromPeer: "Thank you" *)
DisconnectFromPeer(k) ==
  /\ At(k, "disconnect", "idle")
  /\ open' = open \ target[k]
  /\ target' = [target EXCEPT ![k] = {}]
  /\ UNCHANGED <<phase, shake, peers, refused, forgotten, dialVars, tableVars, busVars,
                 found, temporaryDials, isTemporaryDial>>

-----------------------------------------------------------------------------
Bus == (\E a \in Actors : Emit(a)) \/ Receive \/ Forget \/ \E k \in Finders : Unlock(k)

ConnStep(p) ==
  \/ OpenConn(p) \/ CloseConn(p)
  \/ StartHello(p) \/ HelloSucceeds(p) \/ HelloFails(p)
  \/ SavePeer(p) \/ RoutePeer(p) \/ RoutedPeer(p) \/ RefusePeer(p) \/ Finish(p)
  \/ RemovePeerInfo(p) \/ UnroutePeer(p)

Find(k) ==
  \/ RegularPeerDiscovery(k) \/ BootnodePeerDiscovery(k) \/ GetRandomBootnode(k)
  \/ GetBootnodeConnCount(k) \/ FetchOrSetTemporaryDial(k) \/ TemporaryDialPeer(k)
  \/ FindPeersCall(k) \/ AddToTable(k) \/ SkipPeer(k) \/ AddedAll(k)
  \/ RemoveTemporaryDial(k) \/ DisconnectFromPeer(k)

Next ==
  \/ Bus
  \/ \E p \in Peers : ConnStep(p)
  \/ PopTask \/ DialReturns
  \/ \E k \in Finders : Find(k)

Spec == Init /\ [][Next]_vars

-----------------------------------------------------------------------------
(* The values the variables take. *)
TypeOK ==
  /\ open \subseteq Peers /\ peers \subseteq Peers
  /\ refused \subseteq peers /\ forgotten \subseteq peers
  /\ phase \in [Peers -> Phases] /\ shake \in [Peers -> Stages]
  /\ queued \subseteq Peers /\ dialing \subseteq Peers
  /\ table \subseteq Peers /\ tableLock \subseteq Actors
  /\ emit \in [Actors -> SUBSET SUBSET Peers]
  /\ inbox \in Seq(SUBSET Peers) /\ Len(inbox) <= BusSize
  /\ forgetting \subseteq Peers
  /\ stage \in [Finders -> FinderStages]
  /\ target \in [Finders -> SUBSET Peers] /\ found \in [Finders -> SUBSET Peers]
  /\ temporaryDials \subseteq Peers /\ isTemporaryDial \subseteq Finders

(* A temporary dial belongs to exactly one running discovery goroutine, which will
   remove it: none is left behind, and none is removed by another goroutine than the
   one that relies on it. *)
TemporaryDialHasOwner ==
  /\ temporaryDials = UNION {target[k] : k \in isTemporaryDial}
  /\ \A j, k \in isTemporaryDial : j # k => target[j] \cap target[k] = {}
  /\ \A k \in isTemporaryDial : Cardinality(target[k]) = 1 /\ stage[k] # "idle"

(* The one way events stop moving for good: a goroutine that is in TryAddPeer waits,
   with the table's lock, for room on the bus, and the subscription that would make
   room waits for the lock to remove a peer. *)
LockCycle ==
  /\ \E a \in tableLock : emit[a] # {}
  /\ forgetting # {} /\ Len(inbox) = BusSize
EventsMove ==
  (tableLock # {} \/ forgetting # {} \/ inbox # <<>> \/ \E a \in Actors : emit[a] # {})
    => \/ LockCycle \/ CanReceive \/ CanForget
       \/ \E a \in Actors : CanEmit(a) \/ CanUnlock(a)

(* What FindPeers tells other peers is the routing table: once its notifications and
   its handshake are done, a peer in s.peers is in it, unless the table had no room or
   a removal came after the peer was saved, of an earlier failure or an earlier
   disconnect. *)
PeersAreRouted ==
  \A p \in peers :
    shake[p] = "none" => p \in table \/ p \in refused \/ p \in forgotten

=============================================================================
