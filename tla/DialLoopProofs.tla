---------------------------- MODULE DialLoopProofs ----------------------------
(***************************************************************************)
(* Proofs about the dial loop, for any finite sets of peers and            *)
(* connections, any limits, callers and size of the bus.  First, what the  *)
(* composition does to the parts it shares with ConnManager and DialQueue  *)
(* are steps of those modules, so the theorems about them are theorems     *)
(* about the running server.  Then the types, which rest on those          *)
(* theorems, and the two safety properties of the loop itself.  Their      *)
(* inductive invariant says which way the counters can move behind the     *)
(* loop's back, and what the shutdown implies.                             *)
(***************************************************************************)
EXTENDS DialLoop, TLAPS

USE BusAssumption, LimitsAssumption

-----------------------------------------------------------------------------
(* Composition *)

LEMMA ConnActions ==
  ASSUME NEW c \in Conns, ConnStep(c)
  PROVE  [Conn!Next]_connVars
  <1> USE DEF Conn!Next, Conn!Notify, Conn!Handshake
  <1>1. CASE RoutePeer(c)
    BY <1>1 DEF RoutePeer
  <1>2. CASE Finish(c)
    BY <1>2 DEF Finish
  <1>3. CASE OpenConn(c)
    BY <1>3 DEF OpenConn
  <1>4. CASE RemovePeerInfo(c)
    BY <1>4 DEF RemovePeerInfo
  <1>5. CASE UnroutePeer(c)
    BY <1>5 DEF UnroutePeer
  <1>6. CASE CloseConn(c)
    BY <1>6 DEF CloseConn
  <1>7. CASE OtherConnStep(c)
    BY <1>7 DEF OtherConnStep
  <1> QED
    BY <1>1, <1>2, <1>3, <1>4, <1>5, <1>6, <1>7 DEF ConnStep

LEMMA ConnNext == [Next]_vars => [Conn!Next]_connVars
  <1> SUFFICES ASSUME [Next]_vars PROVE [Conn!Next]_connVars
    OBVIOUS
  <1>1. CASE RunDial
    <2>1. CASE Connect
      BY <2>1 DEF Connect, Conn!Next
    <2> QED
      BY <1>1, <2>1 DEF RunDial, LoadActive, CheckOutbound, PopTask, PopNil, Dial,
         ConnectFails, FailureEmitted, Wait, Return
  <1>2. CASE Subscription
    BY <1>2 DEF Subscription, Receive, Unsubscribe, Notify, NotifyCancelled, NotifyPanics
  <1>3. ASSUME NEW a \in emitting, Emit(a) PROVE UNCHANGED connVars
    BY <1>3 DEF Emit
  <1>4. ASSUME NEW c \in Conns, ConnStep(c) PROVE [Conn!Next]_connVars
    BY <1>4, ConnActions
  <1>5. ASSUME NEW k \in Callers, KeepAlive(k) \/ \E p \in Peers : JoinPeer(k, p)
        PROVE  UNCHANGED connVars
    BY <1>5 DEF KeepAlive, JoinPeer, AddToDialQueue
  <1>6. CASE Close
    BY <1>6 DEF Close, CloseHost, CloseQueue, CloseServer
  <1>7. CASE UNCHANGED vars
    BY <1>7 DEF vars
  <1> QED
    BY <1>1, <1>2, <1>3, <1>4, <1>5, <1>6, <1>7 DEF Next

LEMMA QueueNext == [Next]_vars => [Queue!Next]_queueVars
  <1> SUFFICES ASSUME [Next]_vars PROVE [Queue!Next]_queueVars
    OBVIOUS
  <1>1. CASE RunDial
    <2>1. CASE PopTask
      BY <2>1 DEF PopTask, Queue!Next, Queue!PopTask
    <2> QED
      BY <1>1, <2>1 DEF RunDial, LoadActive, CheckOutbound, Connect, PopNil, Dial,
         ConnectFails, FailureEmitted, Wait, Return
  <1>2. CASE Subscription
    BY <1>2 DEF Subscription, Receive, Unsubscribe, Notify, NotifyCancelled, NotifyPanics
  <1>3. ASSUME NEW a \in emitting, Emit(a) PROVE UNCHANGED queueVars
    BY <1>3 DEF Emit
  <1>4. ASSUME NEW c \in Conns, ConnStep(c) PROVE [Queue!Next]_queueVars
    <2>1. PeerOf[c] \in Peers /\ RandomDial \in Priorities
      BY ConnsAssumption DEF Priorities
    <2>2. CASE RoutePeer(c)
      BY <2>1, <2>2 DEF RoutePeer, Queue!Next
    <2>3. CASE UnroutePeer(c)
      BY <2>1, <2>3 DEF UnroutePeer, Queue!Next
    <2> QED
      BY <1>4, <2>2, <2>3 DEF ConnStep, Finish, OpenConn, RemovePeerInfo, CloseConn,
         OtherConnStep
  <1>5. ASSUME NEW k \in Callers, KeepAlive(k) \/ \E p \in Peers : JoinPeer(k, p)
        PROVE  Queue!Next
    <2>1. ASSUME NEW p \in Peers, NEW prio \in Priorities, AddToDialQueue(k, p, prio)
          PROVE  Queue!Next
      BY <2>1 DEF AddToDialQueue, Queue!Next
    <2>2. Bootnodes \subseteq Peers /\ RandomDial \in Priorities /\ RequestedDial \in Priorities
      BY PeersAssumption DEF Priorities
    <2> QED
      BY <1>5, <2>1, <2>2 DEF KeepAlive, JoinPeer, NonConnectedNodes
  <1>6. CASE Close
    BY <1>6 DEF Close, CloseHost, CloseQueue, CloseServer, Queue!Next
  <1>7. CASE UNCHANGED vars
    BY <1>7 DEF vars
  <1> QED
    BY <1>1, <1>2, <1>3, <1>4, <1>5, <1>6, <1>7 DEF Next

(* The server with its dial loop is, for the connections, a connection manager as
   ConnManager describes it, and for the queue a dial queue as DialQueue describes
   it: whatever is proved of those modules holds of the server. *)
THEOREM Composition == Spec => Conn!Spec /\ Queue!Spec
  <1>1. Init => Conn!Init /\ Queue!Init
    BY DEF Init
  <1>2. [Conn!Next]_connVars => [Conn!Next]_(Conn!vars)
    BY DEF connVars, Conn!vars, Conn!netVars, Conn!shakeVars, Conn!peerVars, Conn!slotVars
  <1>3. [Queue!Next]_queueVars => [Queue!Next]_(Queue!vars)
    BY DEF queueVars, Queue!vars
  <1> QED
    BY <1>1, <1>2, <1>3, ConnNext, QueueNext, PTL DEF Spec, Conn!Spec, Queue!Spec

-----------------------------------------------------------------------------
(* What the parts keep.  The theorems of the two proof modules are taken over: the
   assumptions they rest on are assumptions of DialLoop, or hold by the definition of
   Priorities, and ConnP and QueueP speak of what Conn and Queue speak of. *)

ConnP  == INSTANCE ConnManagerProofs
QueueP == INSTANCE DialQueueProofs WITH closed <- queueClosed

LEMMA SameConn == Conn!Spec => ConnP!Spec
  <1>1. Conn!Init => ConnP!Init
    BY DEF Conn!Init, ConnP!Init, Conn!Dirs, ConnP!Dirs
  <1>2. [Conn!Next]_(Conn!vars) => [ConnP!Next]_(ConnP!vars)
    BY DEF Conn!Next, ConnP!Next, Conn!Notify, ConnP!Notify, Conn!Handshake,
       ConnP!Handshake, Conn!vars, ConnP!vars, Conn!netVars, ConnP!netVars,
       Conn!shakeVars, ConnP!shakeVars, Conn!peerVars, ConnP!peerVars, Conn!slotVars,
       ConnP!slotVars, Conn!OpenConn, ConnP!OpenConn, Conn!CloseConn, ConnP!CloseConn,
       Conn!CheckPending, ConnP!CheckPending, Conn!LoadActive, ConnP!LoadActive,
       Conn!CheckSlot, ConnP!CheckSlot, Conn!Reserve, ConnP!Reserve, Conn!CountPending,
       ConnP!CountPending, Conn!LockProtocols, ConnP!LockProtocols, Conn!StreamOpens,
       ConnP!StreamOpens, Conn!StreamFails, ConnP!StreamFails, Conn!HelloSucceeds,
       ConnP!HelloSucceeds, Conn!HelloFails, ConnP!HelloFails, Conn!SavePeer,
       ConnP!SavePeer, Conn!RoutePeer, ConnP!RoutePeer, Conn!DropPeer, ConnP!DropPeer,
       Conn!Release, ConnP!Release, Conn!Finish, ConnP!Finish, Conn!RemovePeerInfo,
       ConnP!RemovePeerInfo, Conn!UnroutePeer, ConnP!UnroutePeer, Conn!Dirs, ConnP!Dirs,
       Conn!ConnsOf, ConnP!ConnsOf, Conn!IsConnected, ConnP!IsConnected, Conn!Live,
       ConnP!Live, Conn!HasFreeConnectionSlot, ConnP!HasFreeConnectionSlot,
       Conn!Incremented, ConnP!Incremented, Conn!Decremented, ConnP!Decremented,
       Conn!ClosePeer, ConnP!ClosePeer, Conn!Phase, ConnP!Phase, Conn!Stage, ConnP!Stage,
       Conn!Spawn, ConnP!Spawn, Conn!AlreadyActive, ConnP!AlreadyActive, Conn!LoadedSlot,
       ConnP!LoadedSlot, Conn!HasEntry, ConnP!HasEntry, Conn!LostDirections,
       ConnP!LostDirections, Conn!Cardinality, ConnP!Cardinality, Cardinality
  <1> QED
    BY <1>1, <1>2, PTL DEF Conn!Spec, ConnP!Spec

LEMMA SameQueue == Queue!Spec => QueueP!Spec
  <1>1. Queue!Init => QueueP!Init
    BY DEF Queue!Init, QueueP!Init
  <1>2. [Queue!Next]_(Queue!vars) => [QueueP!Next]_(QueueP!vars)
    BY DEF Queue!Next, QueueP!Next, Queue!AddTask, QueueP!AddTask, Queue!DeleteTask,
       QueueP!DeleteTask, Queue!PopTask, QueueP!PopTask, Queue!Close, QueueP!Close,
       Queue!NewTask, QueueP!NewTask, Queue!Store, QueueP!Store, Queue!Signal,
       QueueP!Signal, Queue!Pop, QueueP!Pop, Queue!Least, QueueP!Least, Queue!PopEmpty,
       QueueP!PopEmpty, Queue!EnterSelect, QueueP!EnterSelect, Queue!vars, QueueP!vars,
       Queue!queueVars, QueueP!queueVars
  <1> QED
    BY <1>1, <1>2, PTL DEF Queue!Spec, QueueP!Spec

(* In the running server, with the dial loop, the callers and Close interleaved with
   the handshakes, the counters of the connections and of the reservations stay exact,
   no reservation is orphaned, and a peer without connections was saved late. *)
THEOREM ServerConnsSafe ==
  Spec => [](Conn!TypeOK /\ Conn!CountsMatchPeers /\ Conn!ReservationsAccounted
             /\ Conn!PendingHasOwner /\ Conn!GhostsAreLateAdds)
  <1> DEFINE Kept == /\ ConnP!TypeOK /\ ConnP!CountsMatchPeers
                     /\ ConnP!ReservationsAccounted /\ ConnP!PendingHasOwner
                     /\ ConnP!GhostsAreLateAdds
  <1> USE DEF IsFiniteSet, ConnP!IsFiniteSet, ConnP!Dirs
  <1>1. ConnP!Spec => []ConnP!TypeOK
    BY PeersAssumption, ConnsAssumption, LimitsAssumption, ConnP!ConnTypeOK
  <1>2. ConnP!Spec => []ConnP!CountsMatchPeers
    BY PeersAssumption, ConnsAssumption, LimitsAssumption, ConnP!CountersExact
  <1>3. ConnP!Spec => []ConnP!ReservationsAccounted
    BY PeersAssumption, ConnsAssumption, LimitsAssumption, ConnP!ReservationsExact
  <1>4. ConnP!Spec => []ConnP!PendingHasOwner
    BY PeersAssumption, ConnsAssumption, LimitsAssumption, ConnP!ReservationsSafe
  <1>5. ConnP!Spec => []ConnP!GhostsAreLateAdds
    BY PeersAssumption, ConnsAssumption, LimitsAssumption, ConnP!OnlyLateAddsGhost
  <1>6. Kept => Conn!TypeOK /\ Conn!CountsMatchPeers /\ Conn!ReservationsAccounted
                /\ Conn!PendingHasOwner /\ Conn!GhostsAreLateAdds
    BY DEF Conn!TypeOK, ConnP!TypeOK, Conn!Phases, ConnP!Phases, Conn!Stages,
       ConnP!Stages, Conn!Dirs, ConnP!Dirs, Conn!CountsMatchPeers,
       ConnP!CountsMatchPeers, Conn!ActivePeers, ConnP!ActivePeers,
       Conn!ReservationsAccounted, ConnP!ReservationsAccounted, Conn!PendingPeers,
       ConnP!PendingPeers, Conn!NotYetCounted, ConnP!NotYetCounted, Conn!StillCounted,
       ConnP!StillCounted, Conn!PendingHasOwner, ConnP!PendingHasOwner, Conn!WillRelease,
       ConnP!WillRelease, Conn!GhostsAreLateAdds, ConnP!GhostsAreLateAdds, Conn!ConnsOf,
       ConnP!ConnsOf, Conn!Live, ConnP!Live, Conn!Cardinality, ConnP!Cardinality,
       Cardinality
  <1> QED
    BY <1>1, <1>2, <1>3, <1>4, <1>5, <1>6, SameConn, Composition, PTL

(* The peer table of the running server implements PeerTable. *)
THEOREM ServerPeerTable == Spec => Conn!ImplementsPeerTable
  <1>1. ConnP!Spec => ConnP!ImplementsPeerTable
    BY PeersAssumption, ConnsAssumption, LimitsAssumption, ConnP!Refinement
    DEF IsFiniteSet, ConnP!IsFiniteSet, ConnP!Dirs
  <1>2. ConnP!ImplementsPeerTable => Conn!ImplementsPeerTable
    <2>1. ConnP!Table!Init => Conn!Table!Init
      BY DEF ConnP!Table!Init, Conn!Table!Init, ConnP!Table!Dirs, Conn!Table!Dirs,
         ConnP!Links, Conn!Links, ConnP!Dirs, Conn!Dirs
    <2>2. [ConnP!Table!Next]_(ConnP!Table!vars) => [Conn!Table!Next]_(Conn!Table!vars)
      BY DEF ConnP!Table!Next, Conn!Table!Next, ConnP!Table!Gain, Conn!Table!Gain,
         ConnP!Table!Lose, Conn!Table!Lose, ConnP!Table!Counted, Conn!Table!Counted,
         ConnP!Table!Linked, Conn!Table!Linked, ConnP!Table!vars, Conn!Table!vars,
         ConnP!Table!Dirs, Conn!Table!Dirs, ConnP!Links, Conn!Links, ConnP!Dirs, Conn!Dirs,
         ConnP!Table!Cardinality, Conn!Table!Cardinality, Cardinality
    <2> QED
      BY <2>1, <2>2, PTL DEF ConnP!ImplementsPeerTable, Conn!ImplementsPeerTable,
         ConnP!Table!Spec, Conn!Table!Spec
  <1> QED
    BY <1>1, <1>2, SameConn, Composition, PTL

(* In the running server a task of a peer's last AddTask can be withdrawn, and a dial
   loop asleep in PopTask misses only tasks added before it fell asleep. *)
THEOREM ServerQueueSafe ==
  Spec => [](Queue!TypeOK /\ Queue!LastAddIsWithdrawable
             /\ Queue!SleeperMissesOnlyEarlierTasks)
  <1>1. Priorities \subseteq Nat
    BY DEF Priorities, RequestedDial, RandomDial
  <1>2. QueueP!Spec => []QueueP!TypeOK
    BY <1>1, MaxTasksAssumption, QueueP!QueueTypeOK
  <1>3. QueueP!Spec => []QueueP!LastAddIsWithdrawable
    BY <1>1, MaxTasksAssumption, QueueP!LastAddSafe
  <1>4. QueueP!Spec => []QueueP!SleeperMissesOnlyEarlierTasks
    BY <1>1, MaxTasksAssumption, QueueP!QueueSafe
  <1>5. /\ QueueP!TypeOK => Queue!TypeOK
        /\ QueueP!LastAddIsWithdrawable => Queue!LastAddIsWithdrawable
        /\ QueueP!SleeperMissesOnlyEarlierTasks => Queue!SleeperMissesOnlyEarlierTasks
    BY DEF Queue!TypeOK, QueueP!TypeOK, Queue!Task, QueueP!Task, Queue!PopperStates,
       QueueP!PopperStates, Queue!LastAddIsWithdrawable, QueueP!LastAddIsWithdrawable,
       Queue!SleeperMissesOnlyEarlierTasks, QueueP!SleeperMissesOnlyEarlierTasks
  <1> QED
    BY <1>2, <1>3, <1>4, <1>5, SameQueue, Composition, PTL

-----------------------------------------------------------------------------
(* The types of the loop, the events and Close.  loadedActive is a number because
   the counters are, which takes the counting argument of ConnManagerProofs; dialing
   is a set of peers because the tasks on the heap are tasks. *)

LoopTypes ==
  /\ loop \in LoopStates /\ loadedActive \in Nat
  /\ dialing \in SUBSET Peers /\ quietExit \in BOOLEAN

EventTypes ==
  /\ emitting \subseteq Actors /\ inbox \in 0..BusSize
  /\ sub \in SubStates /\ notifyCh \in BOOLEAN /\ closing \in CloseStates

LEMMA LoopTypesPreserved ==
  ASSUME Conn!TypeOK, Queue!TypeOK, LoopTypes, [Next]_vars
  PROVE  LoopTypes'
  <1> USE DEF LoopTypes, LoopStates, LoopStep
  <1>1. CASE LoadActive
    <2>1. connCount["out"] \in Nat
      BY DEF Conn!TypeOK, Conn!Dirs
    <2> QED
      BY <1>1, <2>1 DEF LoadActive
  <1>2. CASE CheckOutbound \/ PopNil \/ Dial \/ Connect \/ ConnectFails \/ FailureEmitted
             \/ Wait \/ Return
    BY <1>2 DEF CheckOutbound, PopNil, Dial, Connect, ConnectFails, FailureEmitted, Wait,
       Return
  <1>3. CASE PopTask
    <2>1. \A t \in heap : t.peer \in Peers
      BY DEF Queue!TypeOK, Queue!Task
    <2> QED
      BY <1>3, <2>1 DEF PopTask
  <1>4. CASE Subscription \/ Close \/ (\E a \in emitting : Emit(a))
             \/ (\E k \in Callers : KeepAlive(k) \/ \E p \in Peers : JoinPeer(k, p))
    BY <1>4 DEF Subscription, Receive, Unsubscribe, Notify, NotifyCancelled, NotifyPanics,
       Close, CloseHost, CloseQueue, CloseServer, Emit, KeepAlive, JoinPeer,
       AddToDialQueue, loopVars
  <1>5. ASSUME NEW c \in Conns, ConnStep(c) PROVE LoopTypes'
    <2>1. CASE RemovePeerInfo(c)
      <3>1. quietExit' \in BOOLEAN
        BY <2>1 DEF RemovePeerInfo
      <3> QED
        BY <2>1, <3>1 DEF RemovePeerInfo
    <2> QED
      BY <1>5, <2>1 DEF ConnStep, RoutePeer, Finish, OpenConn, UnroutePeer, CloseConn,
         OtherConnStep, loopVars
  <1>6. CASE UNCHANGED vars
    BY <1>6 DEF vars, loopVars
  <1> QED
    BY <1>1, <1>2, <1>3, <1>4, <1>5, <1>6 DEF Next, RunDial

LEMMA EventTypesPreserved ==
  ASSUME EventTypes, [Next]_vars
  PROVE  EventTypes'
  <1> USE DEF EventTypes, Actors, SubStates, CloseStates, StartsEmit
  <1>1. CASE RunDial
    BY <1>1 DEF RunDial, LoadActive, CheckOutbound, PopTask, PopNil, Dial, Connect,
       ConnectFails, FailureEmitted, Wait, Return, busVars
  <1>2. CASE Subscription
    <2>1. inbox' \in 0..BusSize
      BY <1>2 DEF Subscription, Receive, Unsubscribe, Notify, NotifyCancelled, NotifyPanics
    <2> QED
      BY <1>2, <2>1 DEF Subscription, Receive, Unsubscribe, Notify, NotifyCancelled,
         NotifyPanics
  <1>3. ASSUME NEW a \in emitting, Emit(a) PROVE EventTypes'
    BY <1>3 DEF Emit
  <1>4. ASSUME NEW c \in Conns, ConnStep(c) PROVE EventTypes'
    BY <1>4 DEF ConnStep, RoutePeer, Finish, OpenConn, RemovePeerInfo, UnroutePeer,
       CloseConn, OtherConnStep, busVars
  <1>5. ASSUME NEW k \in Callers, KeepAlive(k) \/ \E p \in Peers : JoinPeer(k, p)
        PROVE  EventTypes'
    BY <1>5 DEF KeepAlive, JoinPeer, AddToDialQueue, busVars
  <1>6. CASE Close
    BY <1>6 DEF Close, CloseHost, CloseQueue, CloseServer, busVars
  <1>7. CASE UNCHANGED vars
    BY <1>7 DEF vars, busVars
  <1> QED
    BY <1>1, <1>2, <1>3, <1>4, <1>5, <1>6, <1>7 DEF Next

(* Every variable of the running server keeps its type, whatever its peers do and
   wherever Close finds it: among others no connection counter is ever negative, and
   the bus holds back no more events than it has places. *)
THEOREM DialLoopTypeOK == Spec => []TypeOK
  <1>1. Init => LoopTypes /\ EventTypes
    <2> SUFFICES ASSUME Init PROVE LoopTypes /\ EventTypes
      OBVIOUS
    <2>1. LoopTypes
      BY DEF Init, LoopTypes, LoopStates
    <2>2. /\ emitting = {} /\ inbox = 0 /\ sub = "select" /\ notifyCh = FALSE
          /\ closing = "running"
      BY DEF Init
    <2>3. EventTypes
      <3>1. emitting \subseteq Actors
        BY <2>2
      <3>2. inbox \in 0..BusSize
        BY <2>2
      <3>3. notifyCh \in BOOLEAN
        BY <2>2
      <3>4. sub \in SubStates /\ closing \in CloseStates
        BY <2>2 DEF SubStates, CloseStates
      <3> QED
        BY <3>1, <3>2, <3>3, <3>4 DEF EventTypes
    <2> QED
      BY <2>1, <2>3
  <1>2. Conn!TypeOK /\ Queue!TypeOK /\ LoopTypes /\ [Next]_vars => LoopTypes'
    BY LoopTypesPreserved
  <1>3. EventTypes /\ [Next]_vars => EventTypes'
    BY EventTypesPreserved
  <1>4. Conn!TypeOK /\ Queue!TypeOK /\ LoopTypes /\ EventTypes => TypeOK
    BY DEF TypeOK, LoopTypes, EventTypes
  <1> QED
    BY <1>1, <1>2, <1>3, <1>4, ServerConnsSafe, ServerQueueSafe, PTL DEF Spec

-----------------------------------------------------------------------------
(* The inductive invariant *)

Counters ==
  /\ connCount \in [Conn!Dirs -> Int]
  /\ pendingCount \in [Conn!Dirs -> Int]
  /\ inbox \in Nat

(* Everybody who stops was told to: the loop by the queue or by closeCh, the
   subscription by the loop or by closeCh. *)
StoppedByClose ==
  /\ closing \in {"queue", "closed"} => queueClosed
  /\ popper = "stopped" => queueClosed
  /\ loop \in {"cancel", "close", "done"} => queueClosed
  /\ sub = "gone" => Cancelled \/ closing = "closed"
  /\ sub = "panicked" => loop = "done"

(* Between the two loads of HasFreeOutboundConn only a disconnect takes the active
   count below the value that was loaded. *)
LoadedCount ==
  loop = "pending" =>
    loadedActive \in Int /\ (loadedActive <= connCount["out"] \/ quietExit)

LoopInv == Counters /\ StoppedByClose /\ LoadedCount /\ SleeperMissesOnlyDisconnects

LEMMA OutIsDirection == "out" \in Conn!Dirs /\ MaxConns["out"] \in Nat
  BY DEF Conn!Dirs

(* Of the steps of a connection only the end of a handshake, which emits an event,
   and a disconnect, which does not, lower a counter. *)
OutNotLowered ==
  /\ connCount["out"] <= connCount'["out"]
  /\ pendingCount["out"] <= pendingCount'["out"]

LEMMA UpdatedCounters ==
  ASSUME NEW n \in [Conn!Dirs -> Int], NEW S
  PROVE  /\ Conn!Incremented(n, S) \in [Conn!Dirs -> Int]
         /\ Conn!Decremented(n, S) \in [Conn!Dirs -> Int]
         /\ n["out"] <= Conn!Incremented(n, S)["out"]
  BY OutIsDirection DEF Conn!Incremented, Conn!Decremented

LEMMA OpenKeepsCounters ==
  ASSUME Counters, NEW c \in Conns, Conn!OpenConn(c)
  PROVE  UNCHANGED <<connCount, pendingCount>>
  BY DEF Conn!OpenConn, Conn!peerVars, Conn!slotVars

LEMMA OtherStepsCounters ==
  ASSUME Counters, NEW c \in Conns, OtherConnStep(c)
  PROVE  /\ connCount' \in [Conn!Dirs -> Int] /\ pendingCount' \in [Conn!Dirs -> Int]
         /\ OutNotLowered
  <1> USE DEF Counters, OutNotLowered, Conn!peerVars, Conn!slotVars
  <1>0. connCount["out"] \in Int /\ pendingCount["out"] \in Int
    BY OutIsDirection
  <1>1. CASE Conn!SavePeer(c)
    <2>1. /\ pendingCount' = pendingCount
          /\ \/ connCount' = connCount
             \/ connCount' = Conn!Incremented(connCount, {DirOf[c]})
      BY <1>1 DEF Conn!SavePeer
    <2> QED
      BY <1>0, <2>1, UpdatedCounters
  <1>2. CASE Conn!CountPending(c)
    <2>1. /\ connCount' = connCount
          /\ pendingCount' = Conn!Incremented(pendingCount, {DirOf[c]})
      BY <1>2 DEF Conn!CountPending
    <2> QED
      BY <1>0, <2>1, UpdatedCounters
  <1>3. CASE Conn!CheckPending(c) \/ Conn!LoadActive(c) \/ Conn!CheckSlot(c)
             \/ Conn!Reserve(c)
    BY <1>0, <1>3 DEF Conn!CheckPending, Conn!LoadActive, Conn!CheckSlot, Conn!Reserve
  <1>4. CASE Conn!LockProtocols(c) \/ Conn!StreamOpens(c) \/ Conn!StreamFails(c)
             \/ Conn!HelloSucceeds(c) \/ Conn!HelloFails(c)
    BY <1>0, <1>4 DEF Conn!LockProtocols, Conn!StreamOpens, Conn!StreamFails,
       Conn!HelloSucceeds, Conn!HelloFails
  <1>5. CASE Conn!DropPeer(c) \/ Conn!Release(c)
    BY <1>0, <1>5 DEF Conn!DropPeer, Conn!Release
  <1> QED
    BY <1>1, <1>2, <1>3, <1>4, <1>5 DEF OtherConnStep

LEMMA LoopInitial == Init => LoopInv
  BY OutIsDirection DEF Init, LoopInv, Counters, StoppedByClose, LoadedCount,
     SleeperMissesOnlyDisconnects, Conn!Init, Queue!Init

(* Only Close closes the queue, nothing opens it again, and a loop that PopTask
   stopped found it closed. *)
LEMMA QueueStaysClosed ==
  ASSUME [Next]_vars, popper = "stopped" => queueClosed
  PROVE  (queueClosed => queueClosed') /\ (popper' = "stopped" => queueClosed')
  <1>1. [Queue!Next]_queueVars
    BY QueueNext
  <1>2. ASSUME NEW p \in Peers, NEW prio \in Priorities, Queue!AddTask(p, prio)
        PROVE  (queueClosed => queueClosed') /\ (popper' = "stopped" => queueClosed')
    BY <1>2 DEF Queue!AddTask, Queue!Signal
  <1>3. ASSUME NEW p \in Peers, Queue!DeleteTask(p)
        PROVE  (queueClosed => queueClosed') /\ (popper' = "stopped" => queueClosed')
    BY <1>3 DEF Queue!DeleteTask
  <1>4. CASE Queue!PopTask
    BY <1>4 DEF Queue!PopTask, Queue!Pop, Queue!PopEmpty, Queue!EnterSelect, Queue!queueVars
  <1>5. CASE Queue!Close
    BY <1>5 DEF Queue!Close
  <1>6. CASE UNCHANGED queueVars
    BY <1>6 DEF queueVars
  <1> QED
    BY <1>1, <1>2, <1>3, <1>4, <1>5, <1>6 DEF Queue!Next

LEMMA StoppedPreserved ==
  ASSUME StoppedByClose, [Next]_vars
  PROVE  StoppedByClose'
  <1> USE DEF StoppedByClose, Cancelled, NotifyClosed
  <1>1. (queueClosed => queueClosed') /\ (popper' = "stopped" => queueClosed')
    BY QueueStaysClosed
  <1>2. CASE LoadActive \/ CheckOutbound \/ Dial \/ ConnectFails \/ FailureEmitted
    BY <1>1, <1>2 DEF LoadActive, CheckOutbound, Dial, ConnectFails, FailureEmitted,
       LoopStep, busVars
  <1>3. CASE Connect
    BY <1>1, <1>3 DEF Connect, LoopStep, busVars
  <1>4. CASE PopTask
    BY <1>1, <1>4 DEF PopTask, LoopStep, busVars
  <1>5. CASE PopNil
    BY <1>1, <1>5 DEF PopNil, LoopStep, busVars
  <1>6. CASE Wait
    BY <1>1, <1>6 DEF Wait, LoopStep
  <1>7. CASE Return
    BY <1>1, <1>7 DEF Return, LoopStep, busVars
  <1>8. CASE Subscription
    BY <1>1, <1>8 DEF Subscription, Receive, Unsubscribe, Notify, NotifyCancelled,
       NotifyPanics, loopVars
  <1>9. ASSUME NEW a \in emitting, Emit(a) PROVE StoppedByClose'
    BY <1>1, <1>9 DEF Emit, loopVars
  <1>10. ASSUME NEW c \in Conns, ConnStep(c) PROVE StoppedByClose'
    BY <1>1, <1>10 DEF ConnStep, RoutePeer, Finish, OpenConn, RemovePeerInfo, UnroutePeer,
       CloseConn, OtherConnStep, loopVars, busVars
  <1>11. ASSUME NEW k \in Callers, KeepAlive(k) \/ \E p \in Peers : JoinPeer(k, p)
         PROVE  StoppedByClose'
    BY <1>1, <1>11 DEF KeepAlive, JoinPeer, AddToDialQueue, loopVars, busVars
  <1>12. CASE CloseHost
    BY <1>1, <1>12 DEF CloseHost, loopVars, busVars
  <1>13. CASE CloseQueue
    BY <1>1, <1>13 DEF CloseQueue, Queue!Close, loopVars, busVars
  <1>14. CASE CloseServer
    BY <1>1, <1>14 DEF CloseServer, loopVars, busVars
  <1>15. CASE UNCHANGED vars
    BY <1>1, <1>15 DEF vars, loopVars, busVars
  <1> QED
    BY <1>2, <1>3, <1>4, <1>5, <1>6, <1>7, <1>8, <1>9, <1>10, <1>11, <1>12, <1>13, <1>14,
       <1>15 DEF Next, RunDial, Close

(* How the steps of a connection can change what the loop depends on. *)
ConnEffect ==
  /\ connCount' \in [Conn!Dirs -> Int] /\ pendingCount' \in [Conn!Dirs -> Int]
  /\ connCount["out"] <= connCount'["out"] \/ quietExit'
  /\ pendingCount["out"] <= pendingCount'["out"] \/ emitting' # {}
  /\ emitting \subseteq emitting'
  /\ quietExit => quietExit'
  /\ UNCHANGED <<loop, loadedActive, inbox, sub, notifyCh, closing>>

LEMMA ConnStepEffect ==
  ASSUME Counters, NEW c \in Conns, ConnStep(c)
  PROVE  ConnEffect
  <1> USE DEF ConnEffect, loopVars, busVars
  <1>0. connCount["out"] \in Int /\ pendingCount["out"] \in Int
    BY OutIsDirection DEF Counters
  <1>1. CASE RoutePeer(c)
    BY <1>0, <1>1 DEF RoutePeer, Conn!RoutePeer, Conn!peerVars, Conn!slotVars, StartsEmit,
       Counters
  <1>2. CASE Finish(c)
    <2>1. /\ pendingCount' = Conn!Decremented(pendingCount, freed[c])
          /\ connCount' = connCount
          /\ emitting' = emitting \cup {c}
          /\ UNCHANGED <<loopVars, busVars, closing>>
      BY <1>2 DEF Finish, Conn!Finish, Conn!peerVars, StartsEmit
    <2> QED
      BY <1>0, <2>1, UpdatedCounters DEF Counters
  <1>3. CASE OpenConn(c)
    BY <1>0, <1>3, OpenKeepsCounters DEF OpenConn, Counters
  <1>4. CASE RemovePeerInfo(c)
    <2>1. /\ pendingCount' = pendingCount
          /\ \/ connCount' = connCount
             \/ connCount' = Conn!Decremented(connCount, Conn!LostDirections(c))
      BY <1>4 DEF RemovePeerInfo, Conn!RemovePeerInfo, Conn!peerVars, Conn!slotVars
    <2>2. connCount' \in [Conn!Dirs -> Int]
      BY <2>1, UpdatedCounters DEF Counters
    <2>3. connCount'["out"] \in Int
      BY <2>2, OutIsDirection
    <2>4. /\ quietExit' = (quietExit \/ connCount'["out"] < connCount["out"])
          /\ UNCHANGED <<loop, loadedActive, dialing, busVars, emitting, closing>>
      BY <1>4 DEF RemovePeerInfo
    <2>5. connCount'["out"] < connCount["out"] \/ connCount["out"] <= connCount'["out"]
      BY <1>0, <2>3
    <2>6. connCount["out"] <= connCount'["out"] \/ quietExit'
      BY <2>4, <2>5, Zenon
    <2>7. quietExit => quietExit'
      BY <2>4, Zenon
    <2>8. UNCHANGED <<loop, loadedActive, inbox, sub, notifyCh, closing, emitting>>
      BY <2>4
    <2> QED
      BY <1>0, <2>1, <2>2, <2>6, <2>7, <2>8 DEF Counters
  <1>5. CASE UnroutePeer(c)
    BY <1>0, <1>5 DEF UnroutePeer, Conn!UnroutePeer, Conn!peerVars, Conn!slotVars, Counters
  <1>6. CASE CloseConn(c)
    BY <1>0, <1>6 DEF CloseConn, Conn!CloseConn, Conn!peerVars, Conn!slotVars, Counters
  <1>7. CASE OtherConnStep(c)
    BY <1>7, OtherStepsCounters DEF OtherConnStep, OutNotLowered
  <1> QED
    BY <1>1, <1>2, <1>3, <1>4, <1>5, <1>6, <1>7 DEF ConnStep

(* What the other steps leave alone. *)
LEMMA CountersUntouched ==
  ASSUME Subscription \/ Close \/ (\E a \in emitting : Emit(a))
         \/ (\E k \in Callers : KeepAlive(k) \/ \E p \in Peers : JoinPeer(k, p))
  PROVE  UNCHANGED <<connCount, pendingCount, loop, loadedActive, quietExit>>
  BY DEF Subscription, Receive, Unsubscribe, Notify, NotifyCancelled, NotifyPanics, Close,
     CloseHost, CloseQueue, CloseServer, Emit, KeepAlive, JoinPeer, AddToDialQueue,
     connVars, loopVars

LEMMA CountersPreserved ==
  ASSUME Counters, [Next]_vars
  PROVE  Counters'
  <1>1. CASE RunDial
    <2>1. CASE Connect
      BY <2>1, OpenKeepsCounters DEF Connect, Counters, connVars, busVars
    <2> QED
      BY <1>1, <2>1 DEF RunDial, LoadActive, CheckOutbound, PopTask, PopNil, Dial,
         ConnectFails, FailureEmitted, Wait, Return, Counters, connVars, busVars
  <1>2. ASSUME NEW c \in Conns, ConnStep(c) PROVE Counters'
    BY <1>2, ConnStepEffect DEF ConnEffect, Counters
  <1>3. CASE Subscription
    <2>1. inbox' \in Nat
      BY <1>3 DEF Subscription, Receive, Unsubscribe, Notify, NotifyCancelled, NotifyPanics,
         Counters
    <2> QED
      BY <1>3, <2>1, CountersUntouched DEF Counters
  <1>4. ASSUME NEW a \in emitting, Emit(a) PROVE Counters'
    <2>1. inbox' \in Nat
      BY <1>4 DEF Emit, Counters
    <2> QED
      BY <1>4, <2>1, CountersUntouched DEF Counters
  <1>5. CASE Close \/ \E k \in Callers : KeepAlive(k) \/ \E p \in Peers : JoinPeer(k, p)
    <2>1. inbox' = inbox
      BY <1>5 DEF Close, CloseHost, CloseQueue, CloseServer, KeepAlive, JoinPeer,
         AddToDialQueue, busVars
    <2> QED
      BY <1>5, <2>1, CountersUntouched DEF Counters
  <1>6. CASE UNCHANGED vars
    BY <1>6 DEF vars, connVars, busVars, Counters
  <1> QED
    BY <1>1, <1>2, <1>3, <1>4, <1>5, <1>6 DEF Next

LEMMA LoadedPreserved ==
  ASSUME Counters, LoadedCount, [Next]_vars
  PROVE  LoadedCount'
  <1> USE DEF LoadedCount
  <1>0. connCount["out"] \in Int /\ pendingCount["out"] \in Int
    BY OutIsDirection DEF Counters
  <1>1. CASE LoadActive
    BY <1>0, <1>1 DEF LoadActive, LoopStep, connVars
  <1>2. CASE RunDial /\ ~LoadActive
    BY <1>2 DEF RunDial, CheckOutbound, PopTask, PopNil, Dial, Connect, ConnectFails,
       FailureEmitted, Wait, Return, LoopStep
  <1>3. ASSUME NEW c \in Conns, ConnStep(c) PROVE LoadedCount'
    <2>1. ConnEffect
      BY <1>3, ConnStepEffect
    <2>2. connCount'["out"] \in Int
      BY <2>1, OutIsDirection DEF ConnEffect
    <2> QED
      BY <1>0, <2>1, <2>2 DEF ConnEffect
  <1>4. CASE Subscription \/ Close \/ (\E a \in emitting : Emit(a))
             \/ (\E k \in Callers : KeepAlive(k) \/ \E p \in Peers : JoinPeer(k, p))
    BY <1>4, CountersUntouched
  <1>5. CASE UNCHANGED vars
    BY <1>5 DEF vars, connVars, loopVars
  <1> QED
    BY <1>1, <1>2, <1>3, <1>4, <1>5 DEF Next

LEMMA SleeperPreserved ==
  ASSUME LoopInv, [Next]_vars
  PROVE  SleeperMissesOnlyDisconnects'
  <1> USE DEF SleeperMissesOnlyDisconnects, EventUnderWay, HasFreeOutboundConn,
              Conn!HasFreeConnectionSlot
  <1>0. /\ connCount["out"] \in Int /\ pendingCount["out"] \in Int
        /\ MaxConns["out"] \in Nat /\ inbox \in Nat
    BY OutIsDirection DEF LoopInv, Counters
  <1>1. CASE CheckOutbound
    <2>1. UNCHANGED <<connCount, pendingCount, quietExit>>
      BY <1>1 DEF CheckOutbound, connVars
    <2>2. loop = "pending" /\ (loop' = "wait" => ~HasFreeOutboundConn(loadedActive))
      BY <1>1 DEF CheckOutbound, LoopStep
    <2>3. loadedActive \in Int /\ (loadedActive <= connCount["out"] \/ quietExit)
      BY <2>2 DEF LoopInv, LoadedCount
    <2> QED
      BY <1>0, <2>1, <2>2, <2>3
  <1>2. CASE RunDial /\ ~CheckOutbound
    BY <1>2 DEF RunDial, LoadActive, PopTask, PopNil, Dial, Connect, ConnectFails,
       FailureEmitted, Wait, Return, LoopStep
  <1>3. ASSUME NEW c \in Conns, ConnStep(c) PROVE SleeperMissesOnlyDisconnects'
    <2>1. ConnEffect
      BY <1>3, ConnStepEffect DEF LoopInv
    <2>2. connCount'["out"] \in Int /\ pendingCount'["out"] \in Int
      BY <2>1, OutIsDirection DEF ConnEffect
    <2>3. CASE emitting' # {} \/ quietExit'
      BY <2>3
    <2>4. CASE ~(emitting' # {} \/ quietExit')
      <3>1. /\ connCount["out"] <= connCount'["out"]
            /\ pendingCount["out"] <= pendingCount'["out"]
            /\ emitting = {} /\ ~quietExit
            /\ UNCHANGED <<loop, inbox, sub, notifyCh, closing>>
        BY <2>1, <2>4 DEF ConnEffect
      <3> QED
        BY <1>0, <2>2, <3>1 DEF LoopInv
    <2> QED
      BY <2>3, <2>4
  <1>4. CASE Subscription
    <2>1. UNCHANGED <<connCount, pendingCount, loop, quietExit>>
      BY <1>4, CountersUntouched
    <2>2. UNCHANGED <<emitting, closing>>
      BY <1>4 DEF Subscription, Receive, Unsubscribe, Notify, NotifyCancelled, NotifyPanics
    <2>3. CASE Receive \/ Notify
      BY <2>3 DEF Receive, Notify
    <2>4. CASE Unsubscribe \/ NotifyCancelled \/ NotifyPanics
      BY <2>1, <2>2, <2>4 DEF Unsubscribe, NotifyCancelled, NotifyPanics, Cancelled,
         NotifyClosed
    <2> QED
      BY <1>4, <2>3, <2>4 DEF Subscription
  <1>5. ASSUME NEW a \in emitting, Emit(a) PROVE SleeperMissesOnlyDisconnects'
    <2>1. UNCHANGED <<connCount, pendingCount, loop, quietExit>>
      BY <1>5, CountersUntouched
    <2>2. CASE sub = "gone"
      BY <1>5, <2>1, <2>2 DEF Emit, LoopInv, StoppedByClose, Cancelled
    <2>3. CASE sub # "gone"
      BY <1>0, <1>5, <2>3 DEF Emit
    <2> QED
      BY <2>2, <2>3
  <1>6. CASE Close \/ \E k \in Callers : KeepAlive(k) \/ \E p \in Peers : JoinPeer(k, p)
    <2>1. UNCHANGED <<connCount, pendingCount, loop, quietExit>>
      BY <1>6, CountersUntouched
    <2>2. /\ UNCHANGED <<inbox, sub, notifyCh>> /\ emitting \subseteq emitting'
          /\ closing = "closed" => closing' = "closed"
      BY <1>6 DEF Close, CloseHost, CloseQueue, CloseServer, KeepAlive, JoinPeer,
         AddToDialQueue, StartsEmit, busVars
    <2> QED
      BY <2>1, <2>2 DEF LoopInv
  <1>7. CASE UNCHANGED vars
    BY <1>7 DEF vars, connVars, loopVars, busVars, LoopInv
  <1> QED
    BY <1>1, <1>2, <1>3, <1>4, <1>5, <1>6, <1>7 DEF Next

LEMMA LoopInductive == LoopInv /\ [Next]_vars => LoopInv'
  BY CountersPreserved, StoppedPreserved, LoadedPreserved, SleeperPreserved DEF LoopInv

LEMMA LoopInvariant == Spec => []LoopInv
  BY LoopInitial, LoopInductive, PTL DEF Spec

(* For any number of peers, connections, callers and any bus: the dial loop sleeps
   over a free outbound slot only if word of it is on its way to the loop, or if a
   disconnect freed it, for which the code emits no event. *)
THEOREM DialLoopSafe == Spec => []SleeperMissesOnlyDisconnects
  <1>1. LoopInv => SleeperMissesOnlyDisconnects
    BY DEF LoopInv
  <1> QED
    BY <1>1, LoopInvariant, PTL

(* The send on the closed notifyCh can only happen after Close has closed the dial
   queue: no event that arrives while the server runs panics. *)
THEOREM ShutdownOnlyPanics == Spec => []PanicsOnlyInShutdown
  <1>1. LoopInv => PanicsOnlyInShutdown
    BY DEF LoopInv, StoppedByClose, PanicsOnlyInShutdown
  <1> QED
    BY <1>1, LoopInvariant, PTL

=============================================================================
