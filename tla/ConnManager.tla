----------------------------- MODULE ConnManager -----------------------------
(***************************************************************************)
(* How the networking server keeps track of its connections: the peer      *)
(* table s.peers, the connection counters and slot limits (connections.go),*)
(* the bootnode counter, and the identity handshake with its pending map   *)
(* (identity/identity.go).                                                 *)
(*                                                                         *)
(* Two processes work on every libp2p connection c:                        *)
(*   - the notifications libp2p runs for c, ConnectedF and later           *)
(*     DisconnectedF (phase[c]);                                           *)
(*   - the handshake goroutine ConnectedF may spawn (shake[c]).            *)
(* Notifications of different connections run concurrently; for one        *)
(* connection libp2p calls DisconnectedF after ConnectedF has returned.    *)
(* A step of the model ends where another goroutine can see shared state   *)
(* change: at a sync.Map operation, an atomic add, a peersLock section.    *)
(*                                                                         *)
(* External (libp2p): connections open and close at any time, ClosePeer    *)
(* closes every connection to a peer, Hello can fail at any time and       *)
(* succeeds only while some connection to the peer is open.  Whether the   *)
(* handshake is of a temporary dial is an input here.  The calls into the  *)
(* discovery service are steps of their own (RoutePeer, UnroutePeer) that  *)
(* change nothing this module has.                                         *)
(*                                                                         *)
(* A definition that stands just before another one of the same shape is   *)
(* a variant with a defect, used only to show that the properties notice.  *)
(***************************************************************************)
EXTENDS Integers, FiniteSets

CONSTANTS
  Peers,          \* remote peer IDs
  Bootnodes,      \* the peers s.bootnodes.isBootnode knows
  Conns,          \* connection identities; reused once everything about the
                  \* previous connection of that name is over
  PeerOf,         \* conn.RemotePeer()
  DirOf,          \* conn.Stat().Direction
  MaxConns        \* direction -> config.MaxInboundPeers / MaxOutboundPeers

Dirs == {"in", "out"}

ASSUME PeersAssumption == IsFiniteSet(Peers) /\ Bootnodes \subseteq Peers
ASSUME ConnsAssumption == /\ IsFiniteSet(Conns)
                          /\ PeerOf \in [Conns -> Peers]
                          /\ DirOf \in [Conns -> Dirs]
ASSUME LimitsAssumption == MaxConns \in [Dirs -> Nat]

VARIABLES
  open,              \* the set of connections that are open
  phase,             \* conn -> where its notifications are
  seen,              \* conn -> the active count HasFreeConnectionSlot has loaded
  shake,             \* conn -> where its handshake goroutine is
  failed,            \* the handshake goroutines whose handshake failed
  freed,             \* conn -> {direction} its goroutine took off the pending map
  connDirections,    \* peer -> active directions of its s.peers entry, {} if none
  connCount,         \* direction -> inbound- / outboundConnectionCount
  bootnodeConnCount, \* s.bootnodes.bootnodeConnCount
  pending,           \* peer -> {direction} in pendingPeerConnections, {} if none
  pendingCount,      \* direction -> pendingInbound- / pendingOutboundConnectionCount
  lateAdds           \* auxiliary: peers saved when no connection to them was left

netVars   == <<open, phase, seen>>
shakeVars == <<shake, failed, freed>>
peerVars  == <<connDirections, connCount, bootnodeConnCount, lateAdds>>
slotVars  == <<pending, pendingCount>>
vars      == <<netVars, shakeVars, peerVars, slotVars>>

(* "connected": ConnectedF is called.  "unreserved": it found no pending entry.
   "comparing": it loaded the active count.  "reserving": it found a free slot.
   "counting": it stored the pending entry.  "up": it returned.  "unrouting":
   DisconnectedF removed the peer's entry. *)
Phases ==
  {"idle", "connected", "unreserved", "comparing", "reserving", "counting", "up",
   "unrouting"}

(* "client": waiting for protocolsLock.  "stream": opening the identity stream with
   the lock held.  "hello": waiting for Hello's answer.  "save": before addPeerInfo.
   "route": before HandleNetworkEvent.  "drop": before disconnectFromPeer.
   "release": before removePendingStatus's LoadAndDelete.  "finish": before its
   counter update and the event. *)
Stages ==
  {"none", "client", "stream", "hello", "save", "route", "drop", "release", "finish"}

Init ==
  /\ open = {}
  /\ phase = [c \in Conns |-> "idle"]
  /\ seen = [c \in Conns |-> 0]
  /\ shake = [c \in Conns |-> "none"]
  /\ failed = {}
  /\ freed = [c \in Conns |-> {}]
  /\ connDirections = [p \in Peers |-> {}]
  /\ connCount = [d \in Dirs |-> 0]
  /\ bootnodeConnCount = 0
  /\ pending = [p \in Peers |-> {}]
  /\ pendingCount = [d \in Dirs |-> 0]
  /\ lateAdds = {}

-----------------------------------------------------------------------------
ConnsOf(p) == {c \in Conns : PeerOf[c] = p}

(* network.Connectedness(p) = Connected. *)
IsConnected(p) == ConnsOf(p) \cap open # {}

(* A connection whose DisconnectedF has not removed its peer's entry yet. *)
Live(c) == phase[c] \notin {"idle", "unrouting"}

(* HasFreeConnectionSlot, which loads the active count and then the pending one. *)
HasFreeConnectionSlot(active, d) == active + pendingCount[d] < MaxConns[d]

(* f with 1 added to (taken from) the counters of the directions in S. *)
Incremented(f, S) == [d \in Dirs |-> IF d \in S THEN f[d] + 1 ELSE f[d]]
Decremented(f, S) == [d \in Dirs |-> IF d \in S THEN f[d] - 1 ELSE f[d]]

(* DisconnectFromPeer: ClosePeer closes every connection to the peer. *)
ClosePeer(p) == open' = open \ ConnsOf(p)

Phase(c, from, to) == phase[c] = from /\ phase' = [phase EXCEPT ![c] = to]
Stage(c, from, to) == shake[c] = from /\ shake' = [shake EXCEPT ![c] = to]
Spawn(c)           == shake' = [shake EXCEPT ![c] = "client"]

-----------------------------------------------------------------------------
(* libp2p *)

OpenConn(c) ==
  /\ shake[c] = "none"
  /\ Phase(c, "idle", "connected")
  /\ open' = open \cup {c}
  /\ UNCHANGED <<seen, shakeVars, peerVars, slotVars>>

CloseConn(c) ==
  /\ c \in open
  /\ open' = open \ {c}
  /\ UNCHANGED <<phase, seen, shakeVars, peerVars, slotVars>>

-----------------------------------------------------------------------------
(* ConnectedF *)

(* hasPendingStatus: "handshake has already started". *)
CheckPending(c) ==
  /\ IF pending[PeerOf[c]] # {} THEN Phase(c, "connected", "up")
                                ELSE Phase(c, "connected", "unreserved")
  /\ UNCHANGED <<open, seen, shakeVars, peerVars, slotVars>>

(* HasFreeConnectionSlot: the first of its two atomic loads. *)
LoadActive(c) ==
  /\ Phase(c, "unreserved", "comparing")
  /\ seen' = [seen EXCEPT ![c] = connCount[DirOf[c]]]
  /\ UNCHANGED <<open, shakeVars, peerVars, slotVars>>

(* HasFreeConnectionSlot: the second; and the disconnect when there is no slot. *)
CheckSlot(c) ==
  /\ IF HasFreeConnectionSlot(seen[c], DirOf[c])
       THEN Phase(c, "comparing", "reserving") /\ UNCHANGED open
       ELSE Phase(c, "comparing", "up") /\ ClosePeer(PeerOf[c])
  /\ seen' = [seen EXCEPT ![c] = 0]
  /\ UNCHANGED <<shakeVars, peerVars, slotVars>>

(* addPendingStatus: LoadOrStore.  If another connection stored the peer in the
   meantime nothing is counted, and the goroutine is spawned all the same. *)
Reserve(c) ==
  LET p == PeerOf[c] IN
  /\ IF pending[p] = {}
       THEN /\ Phase(c, "reserving", "counting")
            /\ pending' = [pending EXCEPT ![p] = {DirOf[c]}]
            /\ UNCHANGED shake
       ELSE /\ Phase(c, "reserving", "up")
            /\ Spawn(c)
            /\ UNCHANGED pending
  /\ UNCHANGED <<open, seen, failed, freed, peerVars, pendingCount>>

(* addPendingStatus: UpdatePendingConnCount(1), and go. *)
CountPending(c) ==
  /\ Phase(c, "counting", "up")
  /\ pendingCount' = Incremented(pendingCount, {DirOf[c]})
  /\ Spawn(c)
  /\ UNCHANGED <<open, seen, failed, freed, peerVars, pending>>

-----------------------------------------------------------------------------
(* The handshake goroutine: handleConnected *)

(* NewIdentityClient calls NewProtoConnection, which holds protocolsLock while it
   opens the stream: one goroutine at a time. *)
LockProtocols(c) ==
  /\ \A e \in Conns : shake[e] # "stream"
  /\ Stage(c, "client", "stream")
  /\ UNCHANGED <<netVars, failed, freed, peerVars, slotVars>>

StreamOpens(c) ==
  /\ IsConnected(PeerOf[c])
  /\ Stage(c, "stream", "hello")
  /\ UNCHANGED <<netVars, failed, freed, peerVars, slotVars>>

StreamFails(c) ==
  /\ Stage(c, "stream", "drop")
  /\ UNCHANGED <<netVars, failed, freed, peerVars, slotVars>>

(* Hello's answer names the same network; a temporary dial, on either side, is not
   saved. *)
HelloSucceeds(c) ==
  /\ IsConnected(PeerOf[c])
  /\ \E next \in {"save", "release"} : Stage(c, "hello", next)
  /\ UNCHANGED <<netVars, failed, freed, peerVars, slotVars>>

(* The call fails, or the answer names another network. *)
HelloFails(c) ==
  /\ Stage(c, "hello", "drop")
  /\ UNCHANGED <<netVars, failed, freed, peerVars, slotVars>>

(* connectionExists && connectionInfo.connDirections[direction] *)
AlwaysNew(p, d)     == FALSE
AlreadyActive(p, d) == d \in connDirections[p]

(* addPeerInfo, under peersLock: a noop if the direction is active already. *)
SavePeer(c) ==
  LET p == PeerOf[c]
      d == DirOf[c]
  IN
  /\ IF AlreadyActive(p, d)
       THEN Stage(c, "save", "release") /\ UNCHANGED peerVars
       ELSE /\ Stage(c, "save", "route")
            /\ connDirections' = [connDirections EXCEPT ![p] = @ \cup {d}]
            /\ connCount' = Incremented(connCount, {d})
            /\ bootnodeConnCount' =
                 IF p \in Bootnodes THEN bootnodeConnCount + 1 ELSE bootnodeConnCount
            /\ lateAdds' = IF \E e \in ConnsOf(p) : Live(e) THEN lateAdds
                                                            ELSE lateAdds \cup {p}
  /\ UNCHANGED <<netVars, failed, freed, slotVars>>

(* AddPeer's call of discovery.HandleNetworkEvent(PeerConnected). *)
RoutePeer(c) ==
  /\ Stage(c, "route", "release")
  /\ UNCHANGED <<netVars, failed, freed, peerVars, slotVars>>

(* handleConnected returned an error. *)
DropPeerAndReturn(c) ==
  /\ Stage(c, "drop", "none")
  /\ ClosePeer(PeerOf[c])
  /\ UNCHANGED <<phase, seen, failed, freed, peerVars, slotVars>>

DropPeer(c) ==
  /\ Stage(c, "drop", "release")
  /\ ClosePeer(PeerOf[c])
  /\ failed' = failed \cup {c}
  /\ UNCHANGED <<phase, seen, freed, peerVars, slotVars>>

(* The direction removePendingStatus counts down: the deleted entry's. *)
OwnSlot(c)    == {DirOf[c]}
LoadedSlot(c) == pending[PeerOf[c]]

(* removePendingStatus: LoadAndDelete. *)
Release(c) ==
  LET p == PeerOf[c] IN
  /\ Stage(c, "release", "finish")
  /\ freed' = [freed EXCEPT ![c] = LoadedSlot(c)]
  /\ pending' = [pending EXCEPT ![p] = {}]
  /\ UNCHANGED <<netVars, failed, peerVars, pendingCount>>

(* removePendingStatus: UpdatePendingConnCount(-1) if there was an entry, in the
   entry's direction; then the event, PeerFailedToConnect if c is in failed and
   PeerDialCompleted if not. *)
Finish(c) ==
  /\ Stage(c, "finish", "none")
  /\ pendingCount' = Decremented(pendingCount, freed[c])
  /\ freed' = [freed EXCEPT ![c] = {}]
  /\ failed' = failed \ {c}
  /\ UNCHANGED <<netVars, peerVars, pending>>

-----------------------------------------------------------------------------
(* DisconnectedF: removePeer *)

(* removePeerInfo finds the peer in s.peers. *)
HasSettledEntry(p) == connDirections[p] # {} /\ pending[p] = {}
HasEntry(p)        == connDirections[p] # {}

(* The directions removePeerInfo counts down: the active ones of the entry. *)
ClosedDirection(c) == connDirections[PeerOf[c]] \cap {DirOf[c]}
EveryDirection(c)  == Dirs
LostDirections(c)  == connDirections[PeerOf[c]]

(* removePeerInfo, under peersLock: the whole entry of the peer goes, whichever
   of its connections was closed. *)
RemovePeerInfo(c) ==
  LET p == PeerOf[c] IN
  /\ c \notin open
  /\ IF HasEntry(p)
       THEN /\ Phase(c, "up", "unrouting")
            /\ connDirections' = [connDirections EXCEPT ![p] = {}]
            /\ connCount' = Decremented(connCount, LostDirections(c))
            /\ bootnodeConnCount' =
                 IF p \in Bootnodes THEN bootnodeConnCount - Cardinality(LostDirections(c))
                                    ELSE bootnodeConnCount
            /\ lateAdds' = lateAdds \ {p}
       ELSE Phase(c, "up", "idle") /\ UNCHANGED peerVars
  /\ UNCHANGED <<open, seen, shakeVars, slotVars>>

(* removePeer's call of discovery.HandleNetworkEvent(PeerDisconnected). *)
UnroutePeer(c) ==
  /\ Phase(c, "unrouting", "idle")
  /\ UNCHANGED <<open, seen, shakeVars, peerVars, slotVars>>

-----------------------------------------------------------------------------
Notify(c) ==
  \/ CheckPending(c) \/ LoadActive(c) \/ CheckSlot(c) \/ Reserve(c) \/ CountPending(c)
  \/ RemovePeerInfo(c) \/ UnroutePeer(c)

Handshake(c) ==
  \/ LockProtocols(c) \/ StreamOpens(c) \/ StreamFails(c)
  \/ HelloSucceeds(c) \/ HelloFails(c)
  \/ SavePeer(c) \/ RoutePeer(c) \/ DropPeer(c) \/ Release(c) \/ Finish(c)

Next ==
  \E c \in Conns : OpenConn(c) \/ CloseConn(c) \/ Notify(c) \/ Handshake(c)

Spec == Init /\ [][Next]_vars

(* Notifications and goroutines run; a goroutine that waits for protocolsLock gets
   it in the end (sync.Mutex does not starve).  libp2p gives up on a stream that
   is not negotiated in time.  Nothing obliges the remote peer to answer Hello,
   which has no timeout, but a call on a closed connection returns. *)
BrokenHello(c) == ~IsConnected(PeerOf[c]) /\ HelloFails(c)
HandshakeProgress(c) ==
  \/ StreamOpens(c) \/ StreamFails(c) \/ BrokenHello(c)
  \/ SavePeer(c) \/ RoutePeer(c) \/ DropPeer(c) \/ Release(c) \/ Finish(c)

Fairness ==
  \A c \in Conns : /\ WF_vars(Notify(c))
                   /\ WF_vars(HandshakeProgress(c))
                   /\ SF_vars(LockProtocols(c))
FairSpec == Spec /\ Fairness

-----------------------------------------------------------------------------
(* The values the variables take.  A pending counter can be negative for a
   moment: a reservation can be released before it was counted. *)
TypeOK ==
  /\ open \subseteq Conns
  /\ phase \in [Conns -> Phases]
  /\ seen \in [Conns -> Nat]
  /\ shake \in [Conns -> Stages]
  /\ failed \subseteq Conns
  /\ freed \in [Conns -> SUBSET Dirs]
  /\ connDirections \in [Peers -> SUBSET Dirs]
  /\ connCount \in [Dirs -> Nat]
  /\ bootnodeConnCount \in Nat
  /\ pending \in [Peers -> SUBSET Dirs]
  /\ pendingCount \in [Dirs -> Int]
  /\ lateAdds \subseteq Peers

(* The connection counters, which decide about free slots, are exactly the
   numbers of active directions in the peer table, and the bootnode counter is
   that number over the bootnodes: no sequence of handshakes and disconnects
   of several connections to a peer makes them drift. *)
ActivePeers(d) == {p \in Peers : d \in connDirections[p]}
CountsMatchPeers ==
  /\ \A d \in Dirs : connCount[d] = Cardinality(ActivePeers(d))
  /\ bootnodeConnCount = Cardinality(ActivePeers("in") \cap Bootnodes)
                         + Cardinality(ActivePeers("out") \cap Bootnodes)

(* The peer table implements PeerTable: in every step the counters change
   together with the links, one link gained or one peer lost. *)
Links == {l \in Peers \X Dirs : l[2] \in connDirections[l[1]]}
Table == INSTANCE PeerTable WITH
           links <- Links, count <- connCount, bootnodeCount <- bootnodeConnCount
ImplementsPeerTable == Table!Spec

(* The pending counters are the numbers of pending entries, up to the calls that
   are between their sync.Map operation and their counter update. *)
PendingPeers(d)   == {p \in Peers : d \in pending[p]}
NotYetCounted(d)  == {c \in Conns : phase[c] = "counting" /\ DirOf[c] = d}
StillCounted(d)   == {c \in Conns : d \in freed[c]}
ReservationsAccounted ==
  \A d \in Dirs :
    pendingCount[d] = Cardinality(PendingPeers(d)) - Cardinality(NotYetCounted(d))
                      + Cardinality(StillCounted(d))

(* Every pending entry has an owner, a handler or a handshake goroutine of that
   peer that has its removePendingStatus still to come: no entry, and with it
   no slot, is reserved for ever. *)
WillRelease(c) == phase[c] = "counting" \/ shake[c] \notin {"none", "finish"}
PendingHasOwner ==
  \A p \in Peers : pending[p] # {} => \E c \in ConnsOf(p) : WillRelease(c)

(* A peer whose connections are all gone, their disconnects handled, is still in
   s.peers only if a handshake saved it after that. *)
GhostsAreLateAdds ==
  \A p \in Peers :
    connDirections[p] # {} => p \in lateAdds \/ \E c \in ConnsOf(p) : Live(c)

(* A handshake with a peer that is gone does not keep its slot reserved, although
   it may have to wait for a lock that handshakes with other peers hold while they
   open their streams. *)
ClosedHandshakeReleases ==
  \A p \in Peers :
    (pending[p] # {} /\ ~IsConnected(p)) ~> (pending[p] = {} \/ IsConnected(p))

(* server.go says of numPeers, len(s.peers), that it "returns the number of
   connected peers": when no callback, goroutine or event is under way, every
   peer in s.peers is connected. *)
Quiet ==
  /\ \A c \in Conns : /\ shake[c] = "none"
                      /\ phase[c] = "idle" \/ (phase[c] = "up" /\ c \in open)
PeersAreConnected ==
  Quiet => \A p \in Peers : connDirections[p] # {} => IsConnected(p)

(* config.go says of MaxInboundPeers that it is "the maximum number of inbound
   peer connections". *)
InboundWithinLimit == connCount["in"] <= MaxConns["in"]

=============================================================================
