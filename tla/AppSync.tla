------------------------------ MODULE AppSync ------------------------------
(***************************************************************************)
(* The synchronisation of application statuses: the gossip topic, the      *)
(* client that takes its messages and the server's peer events, the syncer *)
(* with its map of peers, their Close, and the queries of peers' statuses  *)
(* (application/sync_client.go, syncer.go, network/gossip.go, SubscribeCh  *)
(* of network/server.go, network/grpc, sync_service.go).                   *)
(*                                                                         *)
(* A message is a number, in the order in which the nodes publish; a       *)
(* message that does not decode is one that is lost.  The server's events  *)
(* are of two kinds: a link that comes or goes, and others.                *)
(*                                                                         *)
(* Bounds: the syncer is started and closed once; the queries, which share *)
(* nothing with the rest, are made before it starts, one at a time for a   *)
(* peer.                                                                   *)
(*                                                                         *)
(* External: pubsub (delivers in any order, or not at all), the event bus, *)
(* gRPC.  The reader of GetPeerConnectionUpdateEventCh is not in the       *)
(* repository and may not exist; newStatusCh has none.                     *)
(*                                                                         *)
(* A definition that stands just before another one of the same shape is   *)
(* a variant with a defect, used only to show that the properties notice.  *)
(***************************************************************************)
EXTENDS Naturals, Sequences, FiniteSets

CONSTANTS
  Msgs,         \* messages of other nodes, numbered
  Nodes,
  NodeOf,       \* the node a message is about
  BufferSize,   \* subscribeOutputBufferSize
  BusSize,      \* buffer of the event bus for one subscription
  Peers         \* connected peers, to be asked for their status

ASSUME MsgsAssumption == Msgs \subseteq Nat \ {0} /\ NodeOf \in [Msgs -> Nodes]
ASSUME SizesAssumption == BufferSize \in Nat \ {0} /\ BusSize \in Nat \ {0}

VARIABLES
  topic,        \* Topic.topic: "none" before Start, "open", "nil" after its Close
  reading,      \* readLoop: "off", "on", "done"
  where,        \* where a message is
  crossed,      \* auxiliary: pairs of messages that did not come one after the other
  peerMap,      \* the message stored last for a node, 0 if none
  applying,     \* startPeerStatusUpdateProcess: "off", "wait", "put", "done"
  closing,      \* what syncer.Close has closed so far
  bus,          \* events in the bus
  pending,      \* the event that SubscribeCh's handler offers
  forwarding,   \* startPeerEventProcess: "off", "recv", "send", "done"
  links,        \* number of events in peerConnectionUpdateCh
  server,       \* the server: "open", "closed", "cleaned" after SubscribeCh's cleanup
  query,        \* where the call to a peer is
  panicked

gossipVars == <<topic, reading, where, crossed>>
statusVars == <<peerMap, applying>>
eventVars  == <<bus, pending, forwarding, links, server>>
vars       == <<gossipVars, statusVars, closing, eventVars, query, panicked>>

(* "new": not delivered.  "buffer": in the subscription.  "handler": in a goroutine of its
   own, up to the send.  "chan": in peerStatusUpdateCh.  "put": taken by the update
   process.  "done": stored. *)
Places == {"new", "buffer", "handler", "chan", "put", "done", "lost"}

(* Nothing, newStatusCh, the topic, closeCh, peerStatusUpdateCh. *)
Closings == 0..4

Kinds == {"link", "other"}

(* "open": before newSyncPeerClient.  "wait", "served": the stream before and after the
   other side's server has taken it.  "ok", "err": answered or not, until the others are.
   "data": a call of GetPeerData or PostPeerStatusData. *)
QuerySteps == {"idle", "open", "wait", "served", "ok", "err", "data"}

Init ==
  /\ topic = "none" /\ reading = "off"
  /\ where = [m \in Msgs |-> "new"] /\ crossed = {}
  /\ peerMap = [n \in Nodes |-> 0] /\ applying = "off"
  /\ closing = 0
  /\ bus = <<>> /\ pending = <<>> /\ forwarding = "off" /\ links = 0 /\ server = "open"
  /\ query = [p \in Peers |-> "idle"] /\ panicked = FALSE

In(place) == {m \in Msgs : where[m] = place}

Move(m, place) == where' = [where EXCEPT ![m] = place]

Panic == panicked' = TRUE

-----------------------------------------------------------------------------
(* Start *)

(* A client that does not subscribe only publishes. *)
StartGossip == topic' = "open" /\ reading' \in {"off", "on"}

(* Start of the syncer and of the client, if NewTopic does not fail. *)
Start ==
  /\ topic = "none" /\ \A p \in Peers : query[p] = "idle"
  /\ StartGossip
  /\ applying' = "wait" /\ forwarding' = "recv"
  /\ UNCHANGED <<where, crossed, peerMap, closing, bus, pending, links, server, query, panicked>>

-----------------------------------------------------------------------------
(* Gossip *)

(* pubsub delivers a message, drops it if the buffer is full, or loses it. *)
Deliver(m) ==
  /\ reading = "on" /\ where[m] = "new"
  /\ \/ Cardinality(In("buffer")) < BufferSize /\ Move(m, "buffer")
     \/ Move(m, "lost")
  /\ UNCHANGED <<topic, reading, crossed, statusVars, closing, eventVars, query, panicked>>

(* Messages of m's node that m, just read, does not simply follow. *)
Crossing(m) ==
  {k \in Msgs : /\ NodeOf[k] = NodeOf[m] /\ k # m
                /\ \/ where[k] \in {"handler", "chan", "put"}
                   \/ where[k] = "done" /\ k > m}

(* readLoop: a goroutine for each message. *)
ReadMessage(m) ==
  /\ reading = "on" /\ where[m] = "buffer"
  /\ Move(m, "handler")
  /\ crossed' = crossed \cup {{k, m} : k \in Crossing(m)}
  /\ UNCHANGED <<topic, reading, statusVars, closing, eventVars, query, panicked>>

(* closeCh cancels the context of the next read; what is in the buffer stays there. *)
ReadLoopReturns ==
  /\ reading = "on" /\ topic = "nil"
  /\ reading' = "done"
  /\ UNCHANGED <<topic, where, crossed, statusVars, closing, eventVars, query, panicked>>

(* handleGossipAppStatusUpdate: the event for the JSON-RPC server, then the send. *)
HandleMessage(m) ==
  /\ where[m] = "handler"
  /\ IF closing = 4 THEN Panic /\ UNCHANGED where
     ELSE In("chan") = {} /\ Move(m, "chan") /\ UNCHANGED panicked
  /\ UNCHANGED <<topic, reading, crossed, statusVars, closing, eventVars, query>>

(* A publish that does not ask whether there is a topic yet. *)
PublishUnchecked == topic # "open" /\ Panic

(* PublishApplicationStatus: only a topic that was closed is left without the thing it
   wraps. *)
PublishApplicationStatus == topic = "nil" /\ Panic

(* The syncer's ticker, which nobody stops; or the alive service. *)
DoPublishAppStatus ==
  /\ PublishApplicationStatus
  /\ UNCHANGED <<gossipVars, statusVars, closing, eventVars, query>>

-----------------------------------------------------------------------------
(* The map of peers *)

(* Updates that do not wait for one another. *)
TakeInParallel(m) ==
  /\ applying \in {"wait", "put"} /\ where[m] = "chan"
  /\ Move(m, "put")
  /\ applying' = "put"
  /\ UNCHANGED <<topic, reading, crossed, peerMap, closing, eventVars, query, panicked>>

TakeStatus(m) ==
  /\ applying = "wait" /\ where[m] = "chan"
  /\ Move(m, "put")
  /\ applying' = "put"
  /\ UNCHANGED <<topic, reading, crossed, peerMap, closing, eventVars, query, panicked>>

(* PeerMap.Put that keeps what is there. *)
PutFirst(m) ==
  peerMap' = IF peerMap[NodeOf[m]] = 0 THEN [peerMap EXCEPT ![NodeOf[m]] = m] ELSE peerMap

(* PeerMap.Put: whatever is there is replaced. *)
Put(m) == peerMap' = [peerMap EXCEPT ![NodeOf[m]] = m]

(* The signal without the default: nobody ever takes it. *)
NotifyBlocking == applying' = "notify" /\ UNCHANGED panicked

(* notifyNewStatusEvent: never blocks; on the closed channel it panics. *)
Notify == applying' = "wait" /\ panicked' = (closing > 0)

PutToPeerMap(m) ==
  /\ applying = "put" /\ where[m] = "put"
  /\ Put(m) /\ Move(m, "done")
  /\ Notify
  /\ UNCHANGED <<topic, reading, crossed, closing, eventVars, query>>

(* The range over peerStatusUpdateCh ends. *)
UpdateProcessReturns ==
  /\ applying = "wait" /\ closing = 4 /\ In("chan") = {}
  /\ applying' = "done"
  /\ UNCHANGED <<gossipVars, peerMap, closing, eventVars, query, panicked>>

-----------------------------------------------------------------------------
(* The server's events *)

(* The server emits an event, if there is room for it. *)
Emit(kind) ==
  /\ forwarding # "off" /\ server # "cleaned" /\ Len(bus) < BusSize
  /\ bus' = Append(bus, kind)
  /\ UNCHANGED <<gossipVars, statusVars, closing, pending, forwarding, links, server, query, panicked>>

(* Subscription.run and SubscribeFn's loop, up to the handler's select; after the cleanup
   that select may choose the closed channel. *)
HandleEvent ==
  /\ bus # <<>> /\ pending = <<>>
  /\ bus' = Tail(bus)
  /\ IF server = "cleaned" THEN panicked' \in BOOLEAN /\ UNCHANGED pending
                           ELSE pending' = <<Head(bus)>> /\ UNCHANGED panicked
  /\ UNCHANGED <<gossipVars, statusVars, closing, forwarding, links, server, query>>

(* startPeerEventProcess that takes an event it has no use for as the end. *)
ForwardOrReturn ==
  /\ forwarding = "recv" /\ pending # <<>>
  /\ pending' = <<>>
  /\ forwarding' = IF pending = <<"link">> THEN "send" ELSE "done"
  /\ UNCHANGED <<gossipVars, statusVars, closing, bus, links, server, query, panicked>>

(* startPeerEventProcess receives an event. *)
Forward ==
  /\ forwarding = "recv" /\ pending # <<>>
  /\ pending' = <<>>
  /\ forwarding' = IF pending = <<"link">> THEN "send" ELSE "recv"
  /\ UNCHANGED <<gossipVars, statusVars, closing, bus, links, server, query, panicked>>

(* The send to peerConnectionUpdateCh, which does not look at closeCh. *)
SendLink ==
  /\ forwarding = "send" /\ links = 0
  /\ links' = 1 /\ forwarding' = "recv"
  /\ UNCHANGED <<gossipVars, statusVars, closing, bus, pending, server, query, panicked>>

(* A reader of GetPeerConnectionUpdateEventCh. *)
ReadLink ==
  /\ links = 1
  /\ links' = 0
  /\ UNCHANGED <<gossipVars, statusVars, closing, bus, pending, forwarding, server, query, panicked>>

EventProcessReturns ==
  /\ forwarding = "recv" /\ closing >= 3
  /\ forwarding' = "done"
  /\ UNCHANGED <<gossipVars, statusVars, closing, bus, pending, links, server, query, panicked>>

CloseServer ==
  /\ server = "open"
  /\ server' = "closed"
  /\ UNCHANGED <<gossipVars, statusVars, closing, bus, pending, forwarding, links, query, panicked>>

(* SubscribeCh's cleanup: a handler in its select gives up; from then on the event
   process receives nil all the time. *)
CleanUp ==
  /\ server = "closed"
  /\ server' = "cleaned" /\ pending' = <<>>
  /\ UNCHANGED <<gossipVars, statusVars, closing, bus, forwarding, links, query, panicked>>

-----------------------------------------------------------------------------
(* syncer.Close, one channel after the other; the sync service goes on *)

(* Topic.Close.  The subscription is not cancelled. *)
CloseTopic == topic' = "nil"

CloseNext ==
  /\ closing < 4 /\ topic # "none"
  /\ closing' = closing + 1
  /\ IF closing' = 2 THEN CloseTopic ELSE UNCHANGED topic
  /\ UNCHANGED <<reading, where, crossed, statusVars, eventVars, query, panicked>>

-----------------------------------------------------------------------------
(* Queries *)

Ask(p, from, to) ==
  /\ query[p] \in from
  /\ \E q \in to : query' = [query EXCEPT ![p] = q]
  /\ UNCHANGED <<gossipVars, statusVars, closing, eventVars, panicked>>

(* GetConnectedPeerStatuses asks every peer in a goroutine of its own. *)
AskAll ==
  /\ topic = "none" /\ Peers # {} /\ \A p \in Peers : query[p] = "idle"
  /\ query' = [p \in Peers |-> "open"]
  /\ UNCHANGED <<gossipVars, statusVars, closing, eventVars, panicked>>

(* newSyncPeerClient, and the client for the stream. *)
OpenStream(p) == Ask(p, {"open"}, {"wait", "err"})

(* The other side: its stream handler, and the gRPC server's Accept. *)
Accept(p) == Ask(p, {"wait"}, {"served"})

(* The service's GetStatus; nothing makes the other side serve. *)
GetStatus(p) == Ask(p, {"served"}, {"ok"})

(* A call that waits for its answer for good. *)
NoTimeout(p) == Ask(p, {}, {"err"})

(* defaultTimeoutForStatus. *)
StatusTimeout(p) == Ask(p, {"wait", "served"}, {"err"})

(* GetPeerData and PostPeerStatusData, which know no timeout ... *)
AskData(p) == topic = "none" /\ Ask(p, {"idle"}, {"data"})

(* ... and the service, which returns and has sent nothing: the call's Recv fails. *)
GetData(p) == Ask(p, {"data"}, {"idle"})

(* wg.Wait returns; nil stands for the status of a peer that failed. *)
Collect ==
  /\ \A p \in Peers : query[p] \in {"ok", "err"}
  /\ query' = [p \in Peers |-> "idle"]
  /\ UNCHANGED <<gossipVars, statusVars, closing, eventVars, panicked>>

-----------------------------------------------------------------------------

MessageStep(m) == Deliver(m) \/ ReadMessage(m) \/ HandleMessage(m) \/ TakeStatus(m) \/ PutToPeerMap(m)

EventStep ==
  \/ \E kind \in Kinds : Emit(kind)
  \/ HandleEvent \/ Forward \/ SendLink \/ ReadLink \/ EventProcessReturns
  \/ CloseServer \/ CleanUp

QueryStep ==
  \/ AskAll \/ Collect
  \/ \E p \in Peers : \/ OpenStream(p) \/ Accept(p) \/ GetStatus(p) \/ StatusTimeout(p)
                    \/ AskData(p) \/ GetData(p)

(* Nothing runs on after a panic. *)
Next ==
  /\ ~panicked
  /\ \/ Start \/ ReadLoopReturns \/ DoPublishAppStatus \/ UpdateProcessReturns \/ CloseNext
     \/ \E m \in Msgs : MessageStep(m)
     \/ EventStep
     \/ QueryStep

Spec == Init /\ [][Next]_vars

(* Every goroutine that can go on does, a timer expires; nothing is assumed of pubsub, of
   peers, of a reader of the links, of the server or of who starts and closes. *)
FairSpec ==
  /\ Spec
  /\ WF_vars(~panicked /\ Collect)
  /\ WF_vars(~panicked /\ HandleEvent) /\ WF_vars(~panicked /\ Forward)
  /\ WF_vars(~panicked /\ SendLink) /\ WF_vars(~panicked /\ CleanUp)
  /\ \A m \in Msgs : /\ WF_vars(~panicked /\ HandleMessage(m))
                     /\ WF_vars(~panicked /\ TakeStatus(m))
                     /\ WF_vars(~panicked /\ PutToPeerMap(m))
  /\ \A p \in Peers : WF_vars(~panicked /\ OpenStream(p)) /\ WF_vars(~panicked /\ StatusTimeout(p))

-----------------------------------------------------------------------------
(* Properties *)

(* The state is well formed: buffers keep to their sizes, and the update process holds one
   status while it stores it, and none otherwise. *)
TypeOK ==
  /\ topic \in {"none", "open", "nil"} /\ reading \in {"off", "on", "done"}
  /\ where \in [Msgs -> Places] /\ crossed \subseteq SUBSET Msgs
  /\ Cardinality(In("buffer")) <= BufferSize /\ Cardinality(In("chan")) <= 1
  /\ peerMap \in [Nodes -> Msgs \cup {0}]
  /\ applying \in {"off", "wait", "put", "done"}
  /\ Cardinality(In("put")) = IF applying = "put" THEN 1 ELSE 0
  /\ closing \in Closings
  /\ bus \in Seq(Kinds) /\ Len(bus) <= BusSize
  /\ pending \in {<<>>} \cup {<<k>> : k \in Kinds}
  /\ forwarding \in {"off", "recv", "send", "done"} /\ links \in 0..1
  /\ server \in {"open", "closed", "cleaned"}
  /\ query \in [Peers -> QuerySteps] /\ panicked \in BOOLEAN

(* The process dies of the synchronisation only when the syncer is being closed or the
   server is: of a publish to the closed topic, a status that is handled or stored
   after its channel was closed, an event handed on after SubscribeCh's cleanup. *)
PanicsOnlyAfterClose == panicked => (closing > 0 \/ server = "cleaned")

(* Nothing orders the statuses of a node, not even by the time they were published: the
   map may be left with an older status than one it had.  That takes two messages that
   overlapped in their goroutines, or that came in the wrong order: messages that are
   read one after the other's end are stored in their order. *)
StaleOnlyIfCrossed ==
  \A m \in Msgs :
    where[m] = "done" /\ peerMap[NodeOf[m]] < m => {peerMap[NodeOf[m]], m} \in crossed

(* A status that was read is stored although nobody takes the signal that tells of it,
   unless the syncer is closed meanwhile; and asking the peers for their statuses ends
   although one of them never answers. *)
StatusesComeIn ==
  /\ \A m \in Msgs : where[m] = "handler" ~> where[m] = "done" \/ closing > 0 \/ panicked
  /\ \A p \in Peers : query[p] = "open" ~> query[p] = "idle"

(* A full bus, at which every emit of the server would block, gets room again, unless the
   event process waits for a reader of the links or was closed; once the server is
   closed it gets room in any case. *)
EventsFlow ==
  Len(bus) = BusSize
    ~> \/ Len(bus) < BusSize \/ panicked
       \/ server = "open" /\ (closing >= 3 \/ (forwarding = "send" /\ links = 1))
=============================================================================
