---------------------------- MODULE DiscoveryProofs ----------------------------
(***************************************************************************)
(* Proofs about the discovery service, for any peers, bootnodes, number of *)
(* discovery goroutines and any size of the bus.                           *)
(***************************************************************************)
EXTENDS Discovery, FiniteSetTheorems, TLAPS

USE PeersAssumption, BusAssumption, ActorsAssumption

LEMMA FindersAreActors == Peers \subseteq Actors /\ Finders \subseteq Actors /\ Loop \in Actors
  BY DEF Actors

-----------------------------------------------------------------------------
(* Types *)

LEMMA InitialTypes == Init => TypeOK
  <1> SUFFICES ASSUME Init PROVE TypeOK
    OBVIOUS
  <1>1. inbox \in Seq(SUBSET Peers) /\ Len(inbox) <= BusSize
    BY DEF Init, ConnectToBootnodes
  <1> QED
    BY <1>1 DEF Init, ConnectToBootnodes, TypeOK, Phases, Stages, FinderStages

LEMMA EmitType ==
  ASSUME TypeOK, NEW a \in Actors, NEW event \in SUBSET Peers, StartsEmit(a, event)
  PROVE  emit' \in [Actors -> SUBSET SUBSET Peers]
  BY DEF TypeOK, StartsEmit

LEMMA BusTypes ==
  ASSUME TypeOK, Bus
  PROVE  TypeOK'
  <1> USE DEF TypeOK
  <1>1. ASSUME NEW a \in Actors, Emit(a) PROVE TypeOK'
    <2>1. PICK event \in emit[a] : /\ Len(inbox) < BusSize
                                   /\ inbox' = Append(inbox, event)
                                   /\ emit' = [emit EXCEPT ![a] = {}]
      BY <1>1 DEF Emit, CanEmit
    <2>2. UNCHANGED <<connVars, dialVars, tableVars, forgetting, findVars>>
      BY <1>1 DEF Emit
    <2>3. event \in SUBSET Peers
      BY <2>1
    <2>4. inbox' \in Seq(SUBSET Peers) /\ Len(inbox') = Len(inbox) + 1 /\ Len(inbox) \in Nat
      BY <2>1, <2>3
    <2>5. emit' \in [Actors -> SUBSET SUBSET Peers]
      BY <2>1
    <2> QED
      BY <2>1, <2>2, <2>4, <2>5 DEF connVars, dialVars, tableVars, findVars
  <1>2. CASE Receive
    <2>1. Head(inbox) \in SUBSET Peers /\ Tail(inbox) \in Seq(SUBSET Peers)
          /\ Len(Tail(inbox)) <= BusSize
      BY <1>2 DEF Receive, CanReceive
    <2> QED
      BY <1>2, <2>1 DEF Receive, connVars, dialVars, tableVars, findVars
  <1>3. CASE Forget
    BY <1>3 DEF Forget, RemovePeer, DeleteTask, findVars
  <1>4. ASSUME NEW k \in Finders, Unlock(k) PROVE TypeOK'
    BY <1>4 DEF Unlock, connVars, dialVars, busVars, findVars
  <1> QED
    BY <1>1, <1>2, <1>3, <1>4 DEF Bus

LEMMA ShakeType ==
  ASSUME TypeOK, NEW p \in Peers, NEW s, NEW t \in Stages, Shake(p, s, t)
  PROVE  shake' \in [Peers -> Stages]
  BY DEF TypeOK, Shake

LEMMA OpensTypes ==
  ASSUME TypeOK, NEW p \in Peers, Opens(p)
  PROVE  /\ open' \subseteq Peers /\ phase' \in [Peers -> Phases]
         /\ shake' \in [Peers -> Stages]
  BY DEF TypeOK, Opens, Phases, Stages

LEMMA ConnTypes ==
  ASSUME TypeOK, NEW p \in Peers, ConnStep(p)
  PROVE  TypeOK'
  <1> USE DEF TypeOK, connVars, dialVars, tableVars, busVars, findVars
  <1>0. {"temporary", "lasting", "completed", "save", "failed", "route", "none"} \subseteq Stages
    BY DEF Stages
  <1>1. CASE OpenConn(p)
    BY <1>1, OpensTypes DEF OpenConn, Opens
  <1>2. CASE CloseConn(p)
    BY <1>2 DEF CloseConn
  <1>3. CASE StartHello(p)
    BY <1>0, <1>3, ShakeType DEF StartHello
  <1>4. CASE HelloSucceeds(p)
    BY <1>0, <1>4, ShakeType DEF HelloSucceeds
  <1>5. CASE HelloFails(p)
    BY <1>0, <1>5, ShakeType DEF HelloFails
  <1>6. CASE SavePeer(p)
    BY <1>0, <1>6, ShakeType DEF SavePeer
  <1>7. CASE RoutePeer(p)
    <2>1. emit' \in [Actors -> SUBSET SUBSET Peers]
      BY <1>7, EmitType, FindersAreActors DEF RoutePeer, TryAddPeer
    <2> QED
      BY <1>7, <2>1, FindersAreActors DEF RoutePeer, TryAddPeer, AddTask
  <1>8. CASE RoutedPeer(p)
    BY <1>0, <1>8, ShakeType DEF RoutedPeer
  <1>9. CASE RefusePeer(p)
    BY <1>0, <1>9, ShakeType DEF RefusePeer
  <1>10. CASE Finish(p)
    <2>1. emit' \in [Actors -> SUBSET SUBSET Peers]
      BY <1>10, EmitType, FindersAreActors DEF Finish
    <2> QED
      BY <1>0, <1>10, <2>1, ShakeType DEF Finish
  <1>11. CASE RemovePeerInfo(p)
    BY <1>11 DEF RemovePeerInfo, Phases
  <1>12. CASE UnroutePeer(p)
    BY <1>12 DEF UnroutePeer, RemovePeer, DeleteTask, Phases
  <1> QED
    BY <1>1, <1>2, <1>3, <1>4, <1>5, <1>6, <1>7, <1>8, <1>9, <1>10, <1>11, <1>12 DEF ConnStep

LEMMA DialTypes ==
  ASSUME TypeOK, PopTask \/ DialReturns
  PROVE  TypeOK'
  <1> USE DEF TypeOK, connVars, dialVars, tableVars, busVars, findVars
  <1>1. CASE PopTask
    BY <1>1 DEF PopTask, DeleteTask
  <1>2. CASE DialReturns
    <2>1. PICK p \in dialing : \/ p \in open /\ UNCHANGED <<connVars, emit>>
                               \/ Opens(p) /\ UNCHANGED emit
                               \/ StartsEmit(Loop, {p}) /\ UNCHANGED connVars
      BY <1>2 DEF DialReturns
    <2>2. dialing' = {} /\ UNCHANGED <<queued, tableVars, inbox, forgetting, findVars>>
      BY <1>2 DEF DialReturns
    <2>3. emit' \in [Actors -> SUBSET SUBSET Peers]
      BY <2>1, EmitType, FindersAreActors
    <2>4. /\ open' \subseteq Peers /\ phase' \in [Peers -> Phases]
          /\ shake' \in [Peers -> Stages]
      BY <2>1, OpensTypes
    <2>5. UNCHANGED <<peers, refused, forgotten>>
      BY <2>1 DEF Opens
    <2> QED
      BY <2>2, <2>3, <2>4, <2>5
  <1> QED
    BY <1>1, <1>2

LEMMA FindTypes ==
  ASSUME TypeOK, NEW k \in Finders, Find(k)
  PROVE  TypeOK'
  <1> USE DEF TypeOK, connVars, dialVars, tableVars, busVars, findVars, At, FinderStages
  <1>1. CASE RegularPeerDiscovery(k) \/ BootnodePeerDiscovery(k) \/ GetRandomBootnode(k)
             \/ GetBootnodeConnCount(k)
    BY <1>1 DEF RegularPeerDiscovery, BootnodePeerDiscovery, GetRandomBootnode,
       GetBootnodeConnCount
  <1>2. CASE FetchOrSetTemporaryDial(k)
    BY <1>2 DEF FetchOrSetTemporaryDial
  <1>3. CASE TemporaryDialPeer(k)
    <2>1. emit' \in [Actors -> SUBSET SUBSET Peers]
      BY <1>3, EmitType, FindersAreActors DEF TemporaryDialPeer
    <2> QED
      BY <1>3, <2>1 DEF TemporaryDialPeer, AddTask
  <1>4. CASE FindPeersCall(k)
    BY <1>4 DEF FindPeersCall, FindPeers, Leave
  <1>5. CASE AddToTable(k)
    <2>1. PICK p \in found[k] : /\ TryAddPeer(k, p)
                                /\ found' = [found EXCEPT ![k] = @ \ {p}]
                                /\ refused' = refused \ {p} /\ forgotten' = forgotten \ {p}
      BY <1>5 DEF AddToTable
    <2>2. p \in Peers
      BY <2>1
    <2>3. emit' \in [Actors -> SUBSET SUBSET Peers]
      BY <2>1, EmitType, FindersAreActors DEF TryAddPeer
    <2> QED
      BY <1>5, <2>1, <2>2, <2>3, FindersAreActors DEF AddToTable, TryAddPeer, AddTask
  <1>6. CASE SkipPeer(k) \/ AddedAll(k)
    BY <1>6 DEF SkipPeer, AddedAll, Leave
  <1>7. CASE RemoveTemporaryDial(k) \/ DisconnectFromPeer(k)
    BY <1>7 DEF RemoveTemporaryDial, DisconnectFromPeer
  <1> QED
    BY <1>1, <1>2, <1>3, <1>4, <1>5, <1>6, <1>7 DEF Find

LEMMA TypesInductive == TypeOK /\ [Next]_vars => TypeOK'
  <1>1. ASSUME TypeOK, UNCHANGED vars PROVE TypeOK'
    BY <1>1 DEF TypeOK, vars, connVars, dialVars, tableVars, busVars, findVars
  <1> QED
    BY <1>1, BusTypes, ConnTypes, DialTypes, FindTypes DEF Next

(* The variables keep their types; in particular, the subscription never holds back
   more events than its buffer takes, and only members of s.peers are counted as
   refused or forgotten. *)
THEOREM DiscoveryTypeOK == Spec => []TypeOK
  BY InitialTypes, TypesInductive, PTL DEF Spec

-----------------------------------------------------------------------------
(* Temporary dials.  A goroutine holds its mark from LoadOrStore to the deferred
   function, and has one target all that time. *)

MarkedStages == {"dial", "query", "add", "unmark"}

MarkedWhileRunning == \A k \in isTemporaryDial : stage[k] \in MarkedStages

LeavesMarked == \A k \in Finders : stage[k] = "unmark" => k \in isTemporaryDial

OneTarget ==
  \A k \in Finders :
    stage[k] \in MarkedStages \cup {"count", "mark"} => \E p \in Peers : target[k] = {p}

OneOwner ==
  /\ temporaryDials = UNION {target[k] : k \in isTemporaryDial}
  /\ \A j, k \in isTemporaryDial : j # k => target[j] \cap target[k] = {}

Marks == MarkedWhileRunning /\ LeavesMarked /\ OneTarget /\ OneOwner

OwnerInv == TypeOK /\ Marks

LEMMA OwnerInitial == Init => OwnerInv
  BY InitialTypes DEF Init, ConnectToBootnodes, OwnerInv, Marks, MarkedWhileRunning, LeavesMarked, OneTarget, OneOwner,
     MarkedStages

(* Steps of a goroutine that leave the marks alone: only its stage changes, or, if it
   has no mark, its target. *)
LEMMA UnmarkedSteps ==
  ASSUME OwnerInv, NEW k \in Finders, UNCHANGED <<temporaryDials, isTemporaryDial>>,
         \A j \in Finders \ {k} : stage'[j] = stage[j] /\ target'[j] = target[j],
         \/ /\ stage'[k] \in {"idle", "pick"} /\ k \notin isTemporaryDial
         \/ /\ stage'[k] \in MarkedStages \cup {"count"}
            /\ stage'[k] = "unmark" => k \in isTemporaryDial
            /\ \E p \in Peers : target'[k] = {p}
            /\ k \in isTemporaryDial => stage'[k] \in MarkedStages /\ target'[k] = target[k]
         \/ /\ stage'[k] = "mark" /\ target'[k] = target[k] /\ k \notin isTemporaryDial
            /\ \E p \in Peers : target'[k] = {p}
         \/ /\ stage'[k] = "disconnect" /\ k \notin isTemporaryDial
  PROVE  Marks'
  <1> USE DEF OwnerInv, Marks, MarkedStages
  <1>1. isTemporaryDial \subseteq Finders
    BY DEF TypeOK
  <1>2. \A j \in isTemporaryDial : target'[j] = target[j]
    BY <1>1
  <1>3. MarkedWhileRunning'
    BY <1>1 DEF MarkedWhileRunning
  <1>4. OneTarget' /\ LeavesMarked'
    BY DEF OneTarget, LeavesMarked
  <1>5. {target'[j] : j \in isTemporaryDial} = {target[j] : j \in isTemporaryDial}
    BY <1>2
  <1>6. OneOwner'
    BY <1>2, <1>5 DEF OneOwner
  <1> QED
    BY <1>3, <1>4, <1>6

LEMMA OwnerOfFind ==
  ASSUME OwnerInv, NEW k \in Finders, Find(k)
  PROVE  Marks'
  <1> USE DEF At, MarkedStages, Marks
  <1>0. /\ stage \in [Finders -> FinderStages] /\ target \in [Finders -> SUBSET Peers]
        /\ isTemporaryDial \subseteq Finders /\ peers \subseteq Peers
    BY DEF OwnerInv, TypeOK
  <1>1. /\ k \in isTemporaryDial => stage[k] \in MarkedStages
        /\ stage[k] \in MarkedStages \cup {"count", "mark"} =>
             \E p \in Peers : target[k] = {p}
    BY DEF OwnerInv, MarkedWhileRunning, OneTarget
  <1>2. CASE RegularPeerDiscovery(k)
    BY <1>0, <1>1, <1>2, UnmarkedSteps DEF RegularPeerDiscovery
  <1>3. CASE BootnodePeerDiscovery(k)
    BY <1>0, <1>1, <1>3, UnmarkedSteps DEF BootnodePeerDiscovery
  <1>4. CASE GetRandomBootnode(k)
    BY <1>0, <1>1, <1>4, UnmarkedSteps DEF GetRandomBootnode
  <1>5. CASE GetBootnodeConnCount(k)
    BY <1>0, <1>1, <1>5, UnmarkedSteps DEF GetBootnodeConnCount
  <1>6. CASE FetchOrSetTemporaryDial(k)
    <2>1. CASE target[k] \subseteq temporaryDials
      BY <1>0, <1>1, <1>6, <2>1, UnmarkedSteps DEF FetchOrSetTemporaryDial
    <2>2. CASE ~(target[k] \subseteq temporaryDials)
      <3>1. /\ stage[k] = "mark" /\ stage' = [stage EXCEPT ![k] = "dial"]
            /\ temporaryDials' = temporaryDials \cup target[k]
            /\ isTemporaryDial' = isTemporaryDial \cup {k}
            /\ target' = target
        BY <1>6, <2>2 DEF FetchOrSetTemporaryDial
      <3>2. k \notin isTemporaryDial
        BY <1>1, <3>1
      <3>3. target[k] \cap temporaryDials = {}
        BY <1>1, <2>2, <3>1
      <3>4. \A j \in isTemporaryDial : target[j] \subseteq temporaryDials
        BY DEF OwnerInv, OneOwner
      <3>5. MarkedWhileRunning'
        BY <1>0, <3>1 DEF OwnerInv, MarkedWhileRunning
      <3>6. OneTarget' /\ LeavesMarked'
        BY <1>0, <1>1, <3>1 DEF OwnerInv, OneTarget, LeavesMarked
      <3>7. temporaryDials' = UNION {target'[j] : j \in isTemporaryDial'}
        BY <3>1 DEF OwnerInv, OneOwner
      <3>8. \A i, j \in isTemporaryDial' : i # j => target'[i] \cap target'[j] = {}
        BY <3>1, <3>3, <3>4 DEF OwnerInv, OneOwner
      <3> QED
        BY <3>5, <3>6, <3>7, <3>8 DEF OneOwner
    <2> QED
      BY <2>1, <2>2
  <1>7. CASE TemporaryDialPeer(k)
    BY <1>0, <1>1, <1>7, UnmarkedSteps DEF TemporaryDialPeer
  <1>8. CASE FindPeersCall(k)
    BY <1>0, <1>1, <1>8, UnmarkedSteps DEF FindPeersCall, FindPeers, Leave
  <1>9. CASE AddToTable(k)
    BY <1>0, <1>1, <1>9, UnmarkedSteps DEF AddToTable
  <1>10. CASE SkipPeer(k)
    BY <1>0, <1>1, <1>10, UnmarkedSteps DEF SkipPeer
  <1>11. CASE AddedAll(k)
    BY <1>0, <1>1, <1>11, UnmarkedSteps DEF AddedAll, Leave
  <1>12. CASE RemoveTemporaryDial(k)
    <2>1. /\ stage[k] = "unmark" /\ stage' = [stage EXCEPT ![k] = "disconnect"]
          /\ temporaryDials' = temporaryDials \ target[k]
          /\ isTemporaryDial' = isTemporaryDial \ {k}
          /\ target' = target
      BY <1>12 DEF RemoveTemporaryDial
    <2>2. k \in isTemporaryDial
      BY <2>1 DEF OwnerInv, LeavesMarked
    <2>3. MarkedWhileRunning' /\ OneTarget' /\ LeavesMarked'
      BY <1>0, <1>1, <2>1 DEF OwnerInv, MarkedWhileRunning, OneTarget, LeavesMarked
    <2>4. OneOwner'
      BY <2>1, <2>2 DEF OwnerInv, OneOwner
    <2> QED
      BY <2>3, <2>4
  <1>13. CASE DisconnectFromPeer(k)
    BY <1>0, <1>1, <1>13, UnmarkedSteps DEF DisconnectFromPeer
  <1> QED
    BY <1>2, <1>3, <1>4, <1>5, <1>6, <1>7, <1>8, <1>9, <1>10, <1>11, <1>12, <1>13 DEF Find

LEMMA OwnerInductive == OwnerInv /\ [Next]_vars => OwnerInv'
  <1> SUFFICES ASSUME OwnerInv, [Next]_vars PROVE OwnerInv'
    OBVIOUS
  <1>1. TypeOK'
    BY TypesInductive DEF OwnerInv
  <1>2. ASSUME UNCHANGED findVars PROVE Marks'
    BY <1>2 DEF findVars, OwnerInv, Marks, MarkedWhileRunning, LeavesMarked, OneTarget, OneOwner
  <1>3. ASSUME Bus PROVE UNCHANGED findVars
    BY <1>3 DEF Bus, Emit, Receive, Forget, Unlock
  <1>4. ASSUME NEW p \in Peers, ConnStep(p) PROVE UNCHANGED findVars
    BY <1>4 DEF ConnStep, OpenConn, CloseConn, StartHello, HelloSucceeds, HelloFails,
       SavePeer, RoutePeer, RoutedPeer, RefusePeer, Finish, RemovePeerInfo, UnroutePeer
  <1>5. ASSUME PopTask \/ DialReturns PROVE UNCHANGED findVars
    BY <1>5 DEF PopTask, DialReturns
  <1>6. ASSUME UNCHANGED vars PROVE UNCHANGED findVars
    BY <1>6 DEF vars
  <1>7. Marks'
    BY <1>2, <1>3, <1>4, <1>5, <1>6, OwnerOfFind DEF Next
  <1> QED
    BY <1>1, <1>7 DEF OwnerInv

(* For any number of discovery goroutines: every temporary dial belongs to exactly one
   of them, which is running and will remove it, however they interleave with each
   other, with handshakes and with the events of the server. *)
THEOREM TemporaryDialsOwned == Spec => []TemporaryDialHasOwner
  <1>1. OwnerInv => TemporaryDialHasOwner
    <2> SUFFICES ASSUME OwnerInv PROVE TemporaryDialHasOwner
      OBVIOUS
    <2>1. ASSUME NEW k \in isTemporaryDial
          PROVE  Cardinality(target[k]) = 1 /\ stage[k] # "idle"
      <3>1. PICK p \in Peers : target[k] = {p}
        BY DEF OwnerInv, Marks, TypeOK, MarkedWhileRunning, OneTarget
      <3>2. stage[k] # "idle"
        BY DEF OwnerInv, Marks, MarkedWhileRunning, MarkedStages
      <3> QED
        BY <3>1, <3>2, FS_Singleton
    <2> QED
      BY <2>1 DEF OwnerInv, Marks, OneOwner, TemporaryDialHasOwner
  <1> QED
    BY OwnerInitial, OwnerInductive, <1>1, PTL DEF Spec

-----------------------------------------------------------------------------
(* The routing table.  Between addPeerInfo and the return of TryAddPeer a new peer may
   be missing in the table; while TryAddPeer has the lock nobody can remove it. *)

Routed(p) == p \in table \/ p \in refused \/ p \in forgotten

SavedAreRouted == \A p \in peers : shake[p] # "route" => Routed(p)

HolderIsRouted == \A p \in tableLock \cap Peers : p \in table

RouteInv == TypeOK /\ SavedAreRouted /\ HolderIsRouted

LEMMA RouteInitial == Init => RouteInv
  BY InitialTypes DEF Init, ConnectToBootnodes, RouteInv, SavedAreRouted, HolderIsRouted

(* A peer that leaves the table is counted as forgotten, and nobody holds the lock. *)
LEMMA RemovalRouted ==
  ASSUME RouteInv, NEW q \in Peers, RemovePeer(q), UNCHANGED <<shake, peers, refused>>
  PROVE  SavedAreRouted' /\ HolderIsRouted'
  BY DEF RouteInv, SavedAreRouted, HolderIsRouted, Routed, RemovePeer

LEMMA InsertionRouted ==
  ASSUME RouteInv, NEW a \in Actors, NEW q \in Peers, a \in Peers => a = q, TryAddPeer(a, q),
         refused' = refused \ {q}, forgotten' = forgotten \ {q},
         UNCHANGED <<shake, peers>>
  PROVE  SavedAreRouted' /\ HolderIsRouted'
  BY DEF RouteInv, SavedAreRouted, HolderIsRouted, Routed, TryAddPeer

(* Steps that leave the table alone. *)
LEMMA TableUntouched ==
  ASSUME RouteInv, UNCHANGED <<table, refused, forgotten, peers>>, tableLock' \subseteq tableLock,
         \A p \in peers : shake'[p] # "route" => shake[p] # "route"
  PROVE  SavedAreRouted' /\ HolderIsRouted'
  BY DEF RouteInv, SavedAreRouted, HolderIsRouted, Routed

LEMMA OpensRouted ==
  ASSUME TypeOK, NEW q \in Peers, Opens(q)
  PROVE  /\ UNCHANGED <<refused, forgotten, peers>>
         /\ \A p \in peers : shake'[p] # "route" => shake[p] # "route"
  BY DEF Opens, TypeOK

LEMMA ConnRouted ==
  ASSUME RouteInv, NEW q \in Peers, ConnStep(q)
  PROVE  SavedAreRouted' /\ HolderIsRouted'
  <1> USE DEF connVars, dialVars, tableVars, busVars, findVars
  <1>0. shake \in [Peers -> Stages] /\ peers \subseteq Peers
    BY DEF RouteInv, TypeOK
  <1>1. CASE OpenConn(q)
    BY <1>1, OpensRouted, TableUntouched DEF OpenConn, RouteInv
  <1>2. CASE CloseConn(q)
    BY <1>2, TableUntouched DEF CloseConn
  <1>3. CASE StartHello(q) \/ HelloSucceeds(q) \/ HelloFails(q) \/ Finish(q)
    BY <1>0, <1>3, TableUntouched DEF StartHello, HelloSucceeds, HelloFails, Finish, Shake
  <1>4. CASE SavePeer(q)
    <2>1. /\ UNCHANGED <<table, tableLock, refused, forgotten>>
          /\ peers' = peers \cup {q}
          /\ shake[q] = "save"
          /\ \/ shake' = [shake EXCEPT ![q] = "route"]
             \/ q \in peers /\ shake' = [shake EXCEPT ![q] = "completed"]
      BY <1>4 DEF SavePeer, Shake
    <2> QED
      BY <1>0, <2>1 DEF RouteInv, SavedAreRouted, HolderIsRouted, Routed
  <1>5. CASE RoutePeer(q)
    BY <1>5, InsertionRouted, FindersAreActors DEF RoutePeer
  <1>6. CASE RoutedPeer(q)
    <2>1. /\ UNCHANGED <<table, refused, forgotten, peers>> /\ tableLock' \subseteq tableLock
          /\ q \in table \/ q \in tableLock
          /\ shake' = [shake EXCEPT ![q] = "completed"]
      BY <1>6 DEF RoutedPeer, CanUnlock, Shake
    <2> QED
      BY <1>0, <2>1 DEF RouteInv, SavedAreRouted, HolderIsRouted, Routed
  <1>7. CASE RefusePeer(q)
    <2>1. /\ UNCHANGED <<table, tableLock, forgotten, peers>>
          /\ refused' = IF q \in peers THEN refused \cup {q} ELSE refused
          /\ shake' = [shake EXCEPT ![q] = "completed"]
      BY <1>7 DEF RefusePeer, Shake
    <2> QED
      BY <1>0, <2>1 DEF RouteInv, SavedAreRouted, HolderIsRouted, Routed
  <1>8. CASE RemovePeerInfo(q)
    BY <1>8 DEF RemovePeerInfo, RouteInv, SavedAreRouted, HolderIsRouted, Routed
  <1>9. CASE UnroutePeer(q)
    BY <1>9, RemovalRouted DEF UnroutePeer
  <1> QED
    BY <1>1, <1>2, <1>3, <1>4, <1>5, <1>6, <1>7, <1>8, <1>9 DEF ConnStep

LEMMA FindRouted ==
  ASSUME RouteInv, NEW k \in Finders, Find(k)
  PROVE  SavedAreRouted' /\ HolderIsRouted'
  <1> USE DEF connVars, dialVars, tableVars, busVars, findVars
  <1>1. CASE AddToTable(k)
    <2>1. PICK p \in found[k] : /\ TryAddPeer(k, p)
                                /\ refused' = refused \ {p} /\ forgotten' = forgotten \ {p}
      BY <1>1 DEF AddToTable
    <2>2. p \in Peers
      BY <2>1 DEF RouteInv, TypeOK
    <2> QED
      BY <1>1, <2>1, <2>2, InsertionRouted, FindersAreActors DEF AddToTable
  <1>2. CASE RegularPeerDiscovery(k) \/ BootnodePeerDiscovery(k) \/ GetRandomBootnode(k)
             \/ GetBootnodeConnCount(k) \/ FetchOrSetTemporaryDial(k) \/ TemporaryDialPeer(k)
    BY <1>2, TableUntouched DEF RegularPeerDiscovery, BootnodePeerDiscovery,
       GetRandomBootnode, GetBootnodeConnCount, FetchOrSetTemporaryDial, TemporaryDialPeer
  <1>3. CASE FindPeersCall(k) \/ SkipPeer(k) \/ AddedAll(k) \/ RemoveTemporaryDial(k)
             \/ DisconnectFromPeer(k)
    BY <1>3, TableUntouched DEF FindPeersCall, FindPeers, SkipPeer, AddedAll, RemoveTemporaryDial,
       DisconnectFromPeer
  <1> QED
    BY <1>1, <1>2, <1>3 DEF Find

LEMMA RouteInductive == RouteInv /\ [Next]_vars => RouteInv'
  <1> SUFFICES ASSUME RouteInv, [Next]_vars PROVE RouteInv'
    OBVIOUS
  <1> USE DEF connVars, dialVars, tableVars, busVars, findVars
  <1>1. TypeOK'
    BY TypesInductive DEF RouteInv
  <1>2. ASSUME Bus PROVE SavedAreRouted' /\ HolderIsRouted'
    <2>1. ASSUME NEW a \in Actors, Emit(a) PROVE SavedAreRouted' /\ HolderIsRouted'
      BY <2>1, TableUntouched DEF Emit
    <2>2. ASSUME NEW k \in Finders, Unlock(k) PROVE SavedAreRouted' /\ HolderIsRouted'
      BY <2>2, TableUntouched DEF Unlock
    <2>3. ASSUME Receive PROVE SavedAreRouted' /\ HolderIsRouted'
      BY <2>3, TableUntouched DEF Receive
    <2>4. ASSUME Forget PROVE SavedAreRouted' /\ HolderIsRouted'
      BY <2>4, RemovalRouted DEF Forget, RouteInv, TypeOK
    <2> QED
      BY <1>2, <2>1, <2>2, <2>3, <2>4 DEF Bus
  <1>3. ASSUME PopTask PROVE SavedAreRouted' /\ HolderIsRouted'
    BY <1>3, TableUntouched DEF PopTask
  <1>4. ASSUME DialReturns PROVE SavedAreRouted' /\ HolderIsRouted'
    <2>1. PICK p \in dialing : \/ UNCHANGED connVars
                               \/ Opens(p)
      BY <1>4 DEF DialReturns
    <2>2. /\ UNCHANGED <<refused, forgotten, peers>>
          /\ \A q \in peers : shake'[q] # "route" => shake[q] # "route"
      BY <2>1, OpensRouted DEF RouteInv, TypeOK
    <2> QED
      BY <1>4, <2>2, TableUntouched DEF DialReturns
  <1>5. ASSUME UNCHANGED vars PROVE SavedAreRouted' /\ HolderIsRouted'
    BY <1>5, TableUntouched DEF vars
  <1>6. SavedAreRouted' /\ HolderIsRouted'
    BY <1>2, <1>3, <1>4, <1>5, ConnRouted, FindRouted DEF Next
  <1> QED
    BY <1>1, <1>6 DEF RouteInv

(* For any peers and goroutines: a peer in s.peers whose handshake is over is in the
   routing table, unless the table had no room for it or it was removed since, by the
   failure or the disconnect of an earlier connection. *)
THEOREM SavedPeersRouted == Spec => []PeersAreRouted
  <1>1. RouteInv => PeersAreRouted
    BY DEF RouteInv, SavedAreRouted, Routed, PeersAreRouted
  <1> QED
    BY RouteInitial, RouteInductive, <1>1, PTL DEF Spec

-----------------------------------------------------------------------------
(* The lock of the table and the bus.  Whoever has the lock is in TryAddPeer, so that
   its guard CanUnlock is the event it has to hand over, and nothing else. *)

HolderInTryAddPeer ==
  \A a \in tableLock : a \in Finders \/ (a \in Peers /\ shake[a] = "route")

LockInv == TypeOK /\ HolderInTryAddPeer

LEMMA LockInductive == LockInv /\ [Next]_vars => LockInv'
  <1> SUFFICES ASSUME LockInv, [Next]_vars PROVE LockInv'
    OBVIOUS
  <1> USE DEF LockInv, HolderInTryAddPeer, connVars, dialVars, tableVars, busVars, findVars
  <1>0. shake \in [Peers -> Stages]
    BY DEF TypeOK
  <1>1. TypeOK'
    BY TypesInductive
  <1>2. ASSUME NEW p \in Peers, Opens(p)
        PROVE  \A a \in Peers : shake[a] = "route" => shake'[a] = "route"
    BY <1>0, <1>2 DEF Opens
  <1>3. ASSUME Bus PROVE HolderInTryAddPeer'
    BY <1>3 DEF Bus, Emit, Receive, Forget, RemovePeer, Unlock
  <1>4. ASSUME PopTask \/ DialReturns PROVE HolderInTryAddPeer'
    <2>1. CASE PopTask
      BY <2>1 DEF PopTask
    <2>2. CASE DialReturns
      <3>1. PICK p \in dialing : UNCHANGED connVars \/ Opens(p)
        BY <2>2 DEF DialReturns
      <3>2. p \in Peers
        BY DEF TypeOK
      <3> QED
        BY <1>2, <2>2, <3>1, <3>2 DEF DialReturns
    <2> QED
      BY <1>4, <2>1, <2>2
  <1>5. ASSUME NEW k \in Finders, Find(k) PROVE HolderInTryAddPeer'
    BY <1>5 DEF Find, RegularPeerDiscovery, BootnodePeerDiscovery, GetRandomBootnode,
       GetBootnodeConnCount, FetchOrSetTemporaryDial, TemporaryDialPeer, FindPeersCall,
       AddToTable, TryAddPeer, SkipPeer, AddedAll, RemoveTemporaryDial, DisconnectFromPeer
  <1>6. ASSUME NEW p \in Peers, ConnStep(p) PROVE HolderInTryAddPeer'
    <2>1. CASE OpenConn(p)
      BY <1>2, <2>1 DEF OpenConn
    <2>2. CASE StartHello(p) \/ HelloSucceeds(p) \/ HelloFails(p) \/ SavePeer(p) \/ Finish(p)
      BY <1>0, <2>2 DEF StartHello, HelloSucceeds, HelloFails, SavePeer, Finish, Shake
    <2>3. CASE RoutePeer(p) \/ RoutedPeer(p) \/ RefusePeer(p)
      BY <2>3 DEF RoutePeer, TryAddPeer, RoutedPeer, CanUnlock, RefusePeer
    <2>4. CASE CloseConn(p) \/ RemovePeerInfo(p) \/ UnroutePeer(p)
      BY <2>4 DEF CloseConn, RemovePeerInfo, UnroutePeer, RemovePeer
    <2> QED
      BY <1>6, <2>1, <2>2, <2>3, <2>4 DEF ConnStep
  <1>7. ASSUME UNCHANGED vars PROVE HolderInTryAddPeer'
    BY <1>7 DEF vars
  <1> QED
    BY <1>1, <1>3, <1>4, <1>5, <1>6, <1>7 DEF Next

(* For any number of emitters and any size of the bus: events, the handler and the lock
   of the table come to a halt in one way only, the cycle of a PeerAdded callback that
   waits for the bus with the lock held and a handler that waits for the lock with the
   bus full. *)
THEOREM OnlyLockCycleBlocks == Spec => []EventsMove
  <1>1. Init => LockInv
    BY InitialTypes DEF Init, LockInv, HolderInTryAddPeer
  <1>2. LockInv => EventsMove
    <2> SUFFICES ASSUME LockInv,
                        \/ tableLock # {} \/ forgetting # {} \/ inbox # <<>>
                        \/ \E a \in Actors : emit[a] # {},
                        ~CanReceive, ~CanForget, ~\E a \in Actors : CanEmit(a) \/ CanUnlock(a)
                 PROVE  LockCycle
      BY DEF EventsMove
    <2>1. tableLock \subseteq Actors /\ Len(inbox) \in Nat /\ Len(inbox) <= BusSize
      BY DEF LockInv, TypeOK
    <2>2. \A a \in tableLock : emit[a] # {}
      BY <2>1 DEF CanUnlock, LockInv, HolderInTryAddPeer
    <2>3. \A a \in Actors : emit[a] # {} => Len(inbox) = BusSize
      BY <2>1 DEF CanEmit
    <2>4. forgetting # {}
      <3> SUFFICES ASSUME forgetting = {} PROVE FALSE
        OBVIOUS
      <3>1. inbox = <<>>
        BY DEF CanReceive
      <3>2. Len(inbox) # BusSize
        BY <3>1
      <3> QED
        BY <2>1, <2>2, <2>3, <3>1, <3>2
    <2>5. tableLock # {}
      BY <2>4 DEF CanForget
    <2> QED
      BY <2>1, <2>2, <2>3, <2>4, <2>5 DEF LockCycle
  <1> QED
    BY <1>1, <1>2, LockInductive, PTL DEF Spec

=============================================================================
