------------------------------ MODULE DialLoop ------------------------------
(***************************************************************************)
(* The server's dial loop runDial put together with what it works on: the  *)
(* connections and their slots (ConnManager), the dial queue (DialQueue),  *)
(* the peer events that wake it, the calls that queue tasks, the           *)
(* keep-alive loop among them, and Close.                                  *)
(*                                                                         *)
(* Every kind of peer event that is emitted wakes the dial loop, so an     *)
(* event is only the goroutine that emits it: a handshake (named by its    *)
(* connection), the dial loop itself or one of Callers.  The routing table *)
(* (module Discovery) is an input here: AddPeer may find the peer new.     *)
(*                                                                         *)
(* External: the event bus, which blocks an emitter while the buffer of a  *)
(* subscription is full, and libp2p's host.Connect and host.Close.         *)
(*                                                                         *)
(* A definition that stands just before another one of the same shape is   *)
(* a variant with a defect, used only to show that the properties notice.  *)
(***************************************************************************)
EXTENDS Integers, FiniteSets

CONSTANTS
  Peers, Bootnodes, Conns, PeerOf, DirOf, MaxConns,   \* see ConnManager
  MaxTasks,       \* see DialQueue
  Callers,        \* goroutines outside that queue tasks: JoinPeer, the keep-alive
                  \* loop, the discovery service
  Loop,           \* the dial loop, as an emitter of events
  BusSize,        \* events a subscription can hold back (16 in libp2p)
  OtherPeers      \* peers that stay connected throughout and count in numPeers

RequestedDial == 1   \* common.PriorityRequestedDial
RandomDial    == 10  \* common.PriorityRandomDial
Priorities    == {RequestedDial, RandomDial}

MinimumPeerConnections == 1

ASSUME PeersAssumption == IsFiniteSet(Peers) /\ Bootnodes \subseteq Peers
ASSUME ConnsAssumption == /\ IsFiniteSet(Conns)
                          /\ PeerOf \in [Conns -> Peers]
                          /\ DirOf \in [Conns -> {"in", "out"}]
ASSUME LimitsAssumption == MaxConns \in [{"in", "out"} -> Nat]
ASSUME MaxTasksAssumption == MaxTasks \in Nat
ASSUME BusAssumption == BusSize \in Nat \ {0} /\ OtherPeers \in Nat

VARIABLES
  open, phase, seen, shake, failed, freed, connDirections, connCount,
  bootnodeConnCount, pending, pendingCount, lateAdds,           \* ConnManager
  heap, tasks, queueClosed, popper, added, lastAdded, parkedAt, \* DialQueue
  loop,           \* where runDial is
  loadedActive,   \* the active count HasFreeOutboundConn has loaded
  dialing,        \* {} or {the peer of the task being worked on}
  emitting,       \* the goroutines with an event to hand to the bus
  inbox,          \* number of events the subscription holds back
  sub,            \* where the subscription's goroutine is
  notifyCh,       \* a notification is waiting in notifyCh
  closing,        \* how far Close is
  quietExit       \* auxiliary: a disconnect freed an outbound slot since LoadActive

connVars  == <<open, phase, seen, shake, failed, freed, connDirections, connCount,
               bootnodeConnCount, pending, pendingCount, lateAdds>>
queueVars == <<heap, tasks, queueClosed, popper, added, lastAdded, parkedAt>>
loopVars  == <<loop, loadedActive, dialing, quietExit>>
busVars   == <<inbox, sub, notifyCh>>
vars == <<connVars, queueVars, loopVars, busVars, emitting, closing>>

Conn  == INSTANCE ConnManager
Queue == INSTANCE DialQueue WITH closed <- queueClosed

(* "active", "pending": before the loads of HasFreeOutboundConn.  "pop": in PopTask.
   "dial": has a task.  "connecting": in host.Connect.  "failed": emitting.
   "wait": in the select.  "cancel", "close": before the deferred calls. *)
LoopStates == {"active", "pending", "pop", "dial", "connecting", "failed", "wait",
               "cancel", "close", "done"}

(* SubscribeFn's goroutine: in its select, in the handler, returned, or panicked with
   a send on the closed notifyCh (what the model does after that means nothing). *)
SubStates == {"select", "handle", "gone", "panicked"}

(* What Close has done so far. *)
CloseStates == {"running", "host", "queue", "closed"}

Actors == Conns \cup Callers \cup {Loop}

Init ==
  /\ Conn!Init
  /\ Queue!Init
  /\ loop = "active" /\ loadedActive = 0 /\ dialing = {} /\ quietExit = FALSE
  /\ emitting = {} /\ inbox = 0 /\ sub = "select" /\ notifyCh = FALSE
  /\ closing = "running"

-----------------------------------------------------------------------------
(* Events *)

(* emitEvent begins. *)
StartsEmit(a) == a \notin emitting /\ emitting' = emitting \cup {a}

(* The deferred cancel() and close(notifyCh) of runDial. *)
Cancelled    == loop \in {"close", "done"}
NotifyClosed == loop = "done"

(* The bus hands over the event, or skips a subscription that was closed. *)
Emit(a) ==
  /\ a \in emitting
  /\ \/ sub = "gone" /\ UNCHANGED inbox
     \/ sub # "gone" /\ inbox < BusSize /\ inbox' = inbox + 1
  /\ emitting' = emitting \ {a}
  /\ UNCHANGED <<connVars, queueVars, loopVars, sub, notifyCh, closing>>

(* SubscribeFn's select: an event comes in, or ctx.Done() or s.closeCh ends it. *)
Receive ==
  /\ sub = "select" /\ inbox > 0
  /\ inbox' = inbox - 1
  /\ sub' = "handle"
  /\ UNCHANGED <<connVars, queueVars, loopVars, emitting, notifyCh, closing>>

Unsubscribe ==
  /\ sub = "select" /\ (Cancelled \/ closing = "closed")
  /\ sub' = "gone" /\ inbox' = 0
  /\ UNCHANGED <<connVars, queueVars, loopVars, emitting, notifyCh, closing>>

(* An unbuffered notifyCh: the send needs a loop that is blocked in its select. *)
NotifyUnbuffered ==
  /\ sub = "handle" /\ ~NotifyClosed
  /\ sub' = "select"
  /\ notifyCh' = notifyCh \/ (loop = "wait" /\ notifyCh' = TRUE)
  /\ UNCHANGED <<connVars, queueVars, loopVars, emitting, inbox, closing>>

(* runDial's handler sends without blocking; a full notifyCh keeps what it has. *)
Notify ==
  /\ sub = "handle" /\ ~NotifyClosed
  /\ sub' = "select"
  /\ notifyCh' = TRUE
  /\ UNCHANGED <<connVars, queueVars, loopVars, emitting, inbox, closing>>

(* The handler's select when ctx is done: it may take that case ... *)
NotifyCancelled ==
  /\ sub = "handle" /\ Cancelled
  /\ sub' = "select"
  /\ UNCHANGED <<connVars, queueVars, loopVars, emitting, inbox, notifyCh, closing>>

(* ... or the send, which panics if notifyCh is closed. *)
NotifyPanics ==
  /\ sub = "handle" /\ NotifyClosed
  /\ sub' = "panicked"
  /\ UNCHANGED <<connVars, queueVars, loopVars, emitting, inbox, notifyCh, closing>>

-----------------------------------------------------------------------------
(* The dial loop *)

LoopStep(from, to) == loop = from /\ loop' = to

(* HasFreeOutboundConn: two atomic loads. *)
LoadActive ==
  /\ LoopStep("active", "pending")
  /\ loadedActive' = connCount["out"]
  /\ quietExit' = FALSE
  /\ UNCHANGED <<connVars, queueVars, dialing, busVars, emitting, closing>>

HasFreeOutboundConn(active) == Conn!HasFreeConnectionSlot(active, "out")

CheckOutbound ==
  /\ IF HasFreeOutboundConn(loadedActive) THEN LoopStep("pending", "pop")
                                          ELSE LoopStep("pending", "wait")
  /\ loadedActive' = 0
  /\ UNCHANGED <<connVars, queueVars, dialing, quietExit, busVars, emitting, closing>>

(* PopTask: popTaskImpl returns a task, or PopTask goes to its select. *)
PopTask ==
  /\ \/ \E t \in heap : Queue!Pop(t) /\ LoopStep("pop", "dial") /\ dialing' = {t.peer}
     \/ Queue!PopEmpty /\ LoopStep("pop", "pop") /\ UNCHANGED dialing
     \/ Queue!EnterSelect /\ LoopStep("pop", "pop") /\ UNCHANGED dialing
  /\ UNCHANGED <<connVars, loadedActive, quietExit, busVars, emitting, closing>>

(* A PopTask that returns nil when it finds no task. *)
PopNilWhenEmpty ==
  /\ popper \in {"empty", "stopped"}
  /\ LoopStep("pop", "cancel")
  /\ UNCHANGED <<connVars, queueVars, loadedActive, dialing, quietExit, busVars, emitting,
                 closing>>

(* PopTask returned nil. *)
PopNil ==
  /\ popper = "stopped"
  /\ LoopStep("pop", "cancel")
  /\ UNCHANGED <<connVars, queueVars, loadedActive, dialing, quietExit, busVars, emitting,
                 closing>>

(* A peer that is connected is not dialled. *)
Dial ==
  /\ \E p \in dialing :
       IF Conn!IsConnected(p) THEN LoopStep("dial", "active") /\ dialing' = {}
                              ELSE LoopStep("dial", "connecting") /\ UNCHANGED dialing
  /\ UNCHANGED <<connVars, queueVars, loadedActive, quietExit, busVars, emitting, closing>>

(* host.Connect opens a connection, or finds one that opened in the meantime. *)
Connect ==
  /\ LoopStep("connecting", "active")
  /\ \E p \in dialing :
       \/ \E c \in Conns : /\ PeerOf[c] = p /\ DirOf[c] = "out"
                           /\ closing = "running" /\ c \notin emitting
                           /\ Conn!OpenConn(c)
       \/ Conn!IsConnected(p) /\ UNCHANGED connVars
  /\ dialing' = {}
  /\ UNCHANGED <<queueVars, loadedActive, quietExit, busVars, emitting, closing>>

ConnectFails ==
  /\ LoopStep("connecting", "failed")
  /\ StartsEmit(Loop)
  /\ dialing' = {}
  /\ UNCHANGED <<connVars, queueVars, loadedActive, quietExit, busVars, closing>>

FailureEmitted ==
  /\ LoopStep("failed", "active") /\ Loop \notin emitting
  /\ UNCHANGED <<connVars, queueVars, loadedActive, dialing, quietExit, busVars, emitting,
                 closing>>

(* A select without the closeCh case. *)
WaitForEvent ==
  /\ notifyCh /\ notifyCh' = FALSE /\ LoopStep("wait", "active")
  /\ UNCHANGED <<connVars, queueVars, loadedActive, dialing, quietExit, inbox, sub,
                 emitting, closing>>

(* The select at the end of the loop's body. *)
Wait ==
  /\ \/ notifyCh /\ notifyCh' = FALSE /\ LoopStep("wait", "active")
     \/ closing = "closed" /\ UNCHANGED notifyCh /\ LoopStep("wait", "cancel")
  /\ UNCHANGED <<connVars, queueVars, loadedActive, dialing, quietExit, inbox, sub,
                 emitting, closing>>

(* The deferred calls: cancel(), then close(notifyCh). *)
Return ==
  /\ LoopStep("cancel", "close") \/ LoopStep("close", "done")
  /\ UNCHANGED <<connVars, queueVars, loadedActive, dialing, quietExit, busVars, emitting,
                 closing>>

-----------------------------------------------------------------------------
(* Connections: the steps of ConnManager, with the events they emit. *)

(* AddPeer: TryAddPeer may find the peer new, and PeerAdded queues a task. *)
RoutePeer(c) ==
  /\ Conn!RoutePeer(c)
  /\ \/ UNCHANGED <<queueVars, emitting>>
     \/ Queue!AddTask(PeerOf[c], RandomDial) /\ StartsEmit(c)
  /\ UNCHANGED <<loopVars, busVars, closing>>

(* UpdatePendingConnCount, and then EmitEvent. *)
Finish(c) ==
  /\ Conn!Finish(c)
  /\ StartsEmit(c)
  /\ UNCHANGED <<queueVars, loopVars, busVars, closing>>

(* removePeerInfo; no event is emitted. *)
RemovePeerInfo(c) ==
  /\ Conn!RemovePeerInfo(c)
  /\ quietExit' = (quietExit \/ connCount'["out"] < connCount["out"])
  /\ UNCHANGED <<queueVars, loop, loadedActive, dialing, busVars, emitting, closing>>

(* HandleNetworkEvent(PeerDisconnected): if the peer was in the routing table its
   task is deleted. *)
UnroutePeer(c) ==
  /\ Conn!UnroutePeer(c)
  /\ UNCHANGED queueVars \/ Queue!DeleteTask(PeerOf[c])
  /\ UNCHANGED <<loopVars, busVars, emitting, closing>>

(* A connection opens without the dial loop: the peer dialled this node, or libp2p
   dialled to open a stream. *)
OpenConn(c) ==
  /\ closing = "running"
  /\ Conn!OpenConn(c)
  /\ UNCHANGED <<queueVars, loopVars, busVars, emitting, closing>>

OtherConnStep(c) ==
  /\ \/ Conn!CheckPending(c) \/ Conn!LoadActive(c) \/ Conn!CheckSlot(c)
     \/ Conn!Reserve(c) \/ Conn!CountPending(c)
     \/ Conn!LockProtocols(c) \/ Conn!StreamOpens(c) \/ Conn!StreamFails(c)
     \/ Conn!HelloSucceeds(c) \/ Conn!HelloFails(c)
     \/ Conn!SavePeer(c) \/ Conn!DropPeer(c) \/ Conn!Release(c)
  /\ UNCHANGED <<queueVars, loopVars, busVars, emitting, closing>>

CloseConn(c) ==
  /\ Conn!CloseConn(c)
  /\ UNCHANGED <<queueVars, loopVars, busVars, emitting, closing>>

(* A goroutine that emits does nothing else. *)
ConnStep(c) ==
  \/ c \notin emitting /\ (RoutePeer(c) \/ Finish(c) \/ OpenConn(c))
  \/ RemovePeerInfo(c) \/ UnroutePeer(c) \/ CloseConn(c)
  \/ (shake[c] = "release" => c \notin emitting) /\ OtherConnStep(c)

-----------------------------------------------------------------------------
(* Calls from outside *)

HasPeer(p) == connDirections[p] # {}
NumPeers   == Cardinality({p \in Peers : HasPeer(p)}) + OtherPeers

(* addToDialQueue: AddTask, and then PeerAddedToDialQueue.  Nothing keeps a caller from it
   during Close or after it. *)
AddToDialQueue(k, p, priority) ==
  /\ Queue!AddTask(p, priority)
  /\ StartsEmit(k)
  /\ UNCHANGED <<connVars, loopVars, busVars, closing>>

JoinPeer(k, p) == AddToDialQueue(k, p, RequestedDial)

(* GetRandomBootnode: a bootnode that is not a peer. *)
NonConnectedNodes == {p \in Bootnodes : ~HasPeer(p)}

KeepAlive(k) ==
  /\ NumPeers < MinimumPeerConnections
  /\ \E p \in NonConnectedNodes : AddToDialQueue(k, p, RandomDial)

-----------------------------------------------------------------------------
(* Close: host.Close ends the connections, then dialQueue.Close, then closeCh. *)
CloseHost ==
  /\ closing = "running" /\ closing' = "host"
  /\ UNCHANGED <<connVars, queueVars, loopVars, busVars, emitting>>

CloseQueue ==
  /\ closing = "host" /\ closing' = "queue"
  /\ open = {}
  /\ Queue!Close
  /\ UNCHANGED <<connVars, loopVars, busVars, emitting>>

CloseServer ==
  /\ closing = "queue" /\ closing' = "closed"
  /\ UNCHANGED <<connVars, queueVars, loopVars, busVars, emitting>>

-----------------------------------------------------------------------------
RunDial ==
  \/ LoadActive \/ CheckOutbound \/ PopTask \/ PopNil \/ Dial \/ Connect
  \/ ConnectFails \/ FailureEmitted \/ Wait \/ Return

Subscription == Receive \/ Unsubscribe \/ Notify \/ NotifyCancelled \/ NotifyPanics

Close == CloseHost \/ CloseQueue \/ CloseServer

Next ==
  \/ RunDial
  \/ Subscription
  \/ \E a \in emitting : Emit(a)
  \/ \E c \in Conns : ConnStep(c)
  \/ \E k \in Callers : KeepAlive(k) \/ \E p \in Peers : JoinPeer(k, p)
  \/ Close

Spec == Init /\ [][Next]_vars

(* The goroutines run; libp2p's dial timeout ends host.Connect; host.Close closes
   every connection; the keep-alive loop looks every ten seconds.  Nobody is obliged
   to call JoinPeer or Close, or to connect, answer or disconnect. *)
FairSpec ==
  /\ Spec
  /\ WF_vars(RunDial)
  /\ WF_vars(Subscription)
  /\ \A a \in Actors : WF_vars(Emit(a))
  /\ WF_vars(closing # "closed" /\ \E k \in Callers : KeepAlive(k))
  /\ WF_vars(closing = "host" /\ \E c \in Conns : CloseConn(c))
  /\ WF_vars(CloseQueue \/ CloseServer)

-----------------------------------------------------------------------------
(* The values the variables take. *)
TypeOK ==
  /\ Conn!TypeOK /\ Queue!TypeOK
  /\ loop \in LoopStates
  /\ loadedActive \in Nat
  /\ dialing \in SUBSET Peers
  /\ quietExit \in BOOLEAN
  /\ emitting \subseteq Actors
  /\ inbox \in 0..BusSize
  /\ sub \in SubStates
  /\ notifyCh \in BOOLEAN
  /\ closing \in CloseStates

(* The dial loop does not sleep over a free slot that an event announces, however
   its two loads, the handshakes, the bus and the one place in notifyCh interleave:
   if it sleeps although an outbound slot is free, word is still on its way, or the
   slot was freed by a disconnect, for which no event is emitted. *)
EventUnderWay == emitting # {} \/ inbox > 0 \/ sub = "handle" \/ notifyCh
SleeperMissesOnlyDisconnects ==
  loop = "wait" /\ HasFreeOutboundConn(connCount["out"])
    => EventUnderWay \/ quietExit \/ closing = "closed"

(* runDial closes notifyCh while the subscription may still send on it.  The panic
   this can end in is confined to the shutdown. *)
PanicsOnlyInShutdown == sub = "panicked" => queueClosed

(* Close ends the dial loop, wherever it is and whatever it dials, if nothing panics
   before (AddTask is called finitely often, also after Close). *)
CloseEndsDialLoop == closing = "closed" ~> (loop = "done" \/ sub = "panicked")

(* server.go says of runDial that it "monitors for any open connection slots and
   attempts to fill them as soon as they open up". *)
OpenSlot == HasFreeOutboundConn(connCount["out"]) /\ heap # {}
OpenSlotsAreFilled == (loop = "wait" /\ OpenSlot) ~> (loop # "wait" \/ ~OpenSlot)

=============================================================================
