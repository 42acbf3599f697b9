---------------------------- MODULE AppSyncProofs ----------------------------
(***************************************************************************)
(* Proofs about the synchronisation of statuses, for any messages, nodes,  *)
(* peers and buffer sizes.                                                 *)
(***************************************************************************)
EXTENDS AppSync, FiniteSetTheorems, TLAPS

USE MsgsAssumption, SizesAssumption

-----------------------------------------------------------------------------
(* Types *)

(* TypeOK without its counts. *)
Types ==
  /\ topic \in {"none", "open", "nil"} /\ reading \in {"off", "on", "done"}
  /\ where \in [Msgs -> Places] /\ crossed \subseteq SUBSET Msgs
  /\ peerMap \in [Nodes -> Msgs \cup {0}]
  /\ applying \in {"off", "wait", "put", "done"}
  /\ closing \in Closings
  /\ bus \in Seq(Kinds) /\ Len(bus) <= BusSize
  /\ pending \in {<<>>} \cup {<<k>> : k \in Kinds}
  /\ forwarding \in {"off", "recv", "send", "done"} /\ links \in 0..1
  /\ server \in {"open", "closed", "cleaned"}
  /\ query \in [Peers -> QuerySteps] /\ panicked \in BOOLEAN

(* The counts: what is in the buffer, which messages enter one at a time; one status at
   most in the channel, and the one that the update process stores once it runs. *)
Counts ==
  /\ IsFiniteSet(In("buffer")) /\ Cardinality(In("buffer")) <= BufferSize
  /\ \A k, m \in In("chan") : k = m
  /\ applying = "put" => \E m \in Msgs : In("put") = {m}
  /\ applying # "put" => In("put") = {}
  /\ topic = "none" => applying = "off"

LEMMA SyncInitTypes == Init => Types /\ Counts
  <1> SUFFICES ASSUME Init PROVE Types /\ Counts
    OBVIOUS
  <1>1. In("buffer") = {} /\ In("chan") = {} /\ In("put") = {}
    BY DEF Init, In
  <1>2. Counts
    <2>1. IsFiniteSet(In("buffer")) /\ Cardinality(In("buffer")) = 0
      BY <1>1, FS_EmptySet
    <2> QED
      BY <1>1, <2>1 DEF Init, Counts
  <1>3. Types
    <2>1. bus \in Seq(Kinds) /\ Len(bus) = 0 /\ pending = <<>> /\ closing \in Closings
      BY DEF Init, Closings
    <2>2. where \in [Msgs -> Places] /\ peerMap \in [Nodes -> Msgs \cup {0}] /\ crossed = {}
      BY DEF Init, Places
    <2>3. query \in [Peers -> QuerySteps] /\ panicked \in BOOLEAN
      BY DEF Init, QuerySteps
    <2>4. /\ topic = "none" /\ reading = "off" /\ applying = "off" /\ forwarding = "off"
          /\ links = 0 /\ server = "open"
      BY DEF Init
    <2> QED
      BY <2>1, <2>2, <2>3, <2>4 DEF Types
  <1> QED
    BY <1>2, <1>3

LEMMA PositiveOrNot ==
  ASSUME NEW n
  PROVE  (n > 0) \in BOOLEAN
  OBVIOUS

(* Messages and the map of peers. *)
LEMMA MessageTypes ==
  ASSUME Types, NEW m \in Msgs, MessageStep(m)
  PROVE  Types'
  <1> USE DEF Types, Move, Places, statusVars, eventVars
  <1>1. CASE Deliver(m)
    BY <1>1 DEF Deliver
  <1>2. CASE ReadMessage(m)
    <2>1. \A k \in Crossing(m) : {k, m} \in SUBSET Msgs
      BY DEF Crossing
    <2>2. crossed' = crossed \cup {{k, m} : k \in Crossing(m)}
      BY <1>2 DEF ReadMessage
    <2>3. crossed \subseteq SUBSET Msgs
      OBVIOUS
    <2>4. ASSUME NEW x \in crossed' PROVE x \in SUBSET Msgs
      <3>1. x \in crossed \/ \E k \in Crossing(m) : x = {k, m}
        BY <2>2, <2>4, Zenon
      <3> QED
        BY <2>1, <2>3, <3>1, Zenon
    <2>5. crossed' \subseteq SUBSET Msgs
      BY <2>4, Zenon
    <2> QED
      BY <1>2, <2>5 DEF ReadMessage
  <1>3. CASE HandleMessage(m)
    <2>1. /\ where' \in [Msgs -> Places] /\ panicked' \in BOOLEAN
          /\ UNCHANGED <<topic, reading, crossed, statusVars, closing, eventVars, query>>
      BY <1>3 DEF HandleMessage, Panic
    <2> QED
      BY <2>1
  <1>4. CASE TakeStatus(m)
    BY <1>4 DEF TakeStatus
  <1>5. CASE PutToPeerMap(m)
    <2>1. panicked' \in BOOLEAN
      <3>1. panicked' = (closing > 0)
        BY <1>5, Zenon DEF PutToPeerMap, Notify
      <3> QED
        BY <3>1, PositiveOrNot, Zenon
    <2>2. peerMap' \in [Nodes -> Msgs \cup {0}] /\ where' \in [Msgs -> Places] /\ applying' = "wait"
      BY <1>5 DEF PutToPeerMap, Put, Notify
    <2> QED
      BY <1>5, <2>1, <2>2 DEF PutToPeerMap
  <1> QED
    BY <1>1, <1>2, <1>3, <1>4, <1>5 DEF MessageStep

LEMMA EventTypes ==
  ASSUME Types, EventStep
  PROVE  Types'
  <1> USE DEF Types, gossipVars, statusVars, Kinds
  <1>1. ASSUME NEW kind \in Kinds, Emit(kind) PROVE Types'
    BY <1>1 DEF Emit
  <1>2. CASE HandleEvent
    <2>1. bus' \in Seq(Kinds) /\ Len(bus') <= BusSize
      BY <1>2 DEF HandleEvent
    <2>2. pending' \in {<<>>} \cup {<<k>> : k \in Kinds} /\ panicked' \in BOOLEAN
      BY <1>2 DEF HandleEvent
    <2> QED
      BY <1>2, <2>1, <2>2 DEF HandleEvent
  <1>3. CASE Forward
    BY <1>3 DEF Forward
  <1>4. CASE SendLink \/ ReadLink
    <2>1. /\ forwarding' \in {"off", "recv", "send", "done"} /\ links' \in 0..1
          /\ UNCHANGED <<gossipVars, statusVars, closing, bus, pending, server, query, panicked>>
      BY <1>4 DEF SendLink, ReadLink
    <2> QED
      BY <2>1
  <1>5. CASE EventProcessReturns
    BY <1>5 DEF EventProcessReturns
  <1>6. CASE CleanUp
    BY <1>6 DEF CleanUp
  <1>7. CASE CloseServer
    BY <1>7 DEF CloseServer
  <1> QED
    BY <1>1, <1>2, <1>3, <1>4, <1>5, <1>6, <1>7 DEF EventStep

LEMMA QueryTypes ==
  ASSUME Types, QueryStep
  PROVE  Types'
  <1> USE DEF Types, gossipVars, statusVars, eventVars, QuerySteps
  <1>1. CASE AskAll \/ Collect
    <2>1. /\ query' \in [Peers -> QuerySteps]
          /\ UNCHANGED <<gossipVars, statusVars, closing, eventVars, panicked>>
      BY <1>1 DEF AskAll, Collect
    <2> QED
      BY <2>1
  <1>2. ASSUME NEW p \in Peers, NEW from, NEW to \in SUBSET QuerySteps, Ask(p, from, to)
        PROVE  Types'
    BY <1>2 DEF Ask
  <1> QED
    BY <1>1, <1>2 DEF QueryStep, OpenStream, Accept, GetStatus, StatusTimeout, AskData, GetData

LEMMA StartTypes ==
  ASSUME Types,
         \/ Start \/ ReadLoopReturns \/ DoPublishAppStatus \/ UpdateProcessReturns \/ CloseNext
         \/ UNCHANGED vars
  PROVE  Types'
  <1> USE DEF Types, gossipVars, statusVars, eventVars
  <1>1. CASE Start
    BY <1>1 DEF Start, StartGossip
  <1>2. CASE ReadLoopReturns \/ UpdateProcessReturns
    <2>1. /\ reading' \in {"off", "on", "done"} /\ applying' \in {"off", "wait", "put", "done"}
          /\ UNCHANGED <<topic, where, crossed, peerMap, closing, eventVars, query, panicked>>
      BY <1>2 DEF ReadLoopReturns, UpdateProcessReturns
    <2> QED
      BY <2>1
  <1>3. CASE DoPublishAppStatus
    BY <1>3 DEF DoPublishAppStatus, PublishApplicationStatus, Panic
  <1>4. CASE CloseNext
    BY <1>4 DEF CloseNext, CloseTopic, Closings
  <1>5. CASE UNCHANGED vars
    BY <1>5 DEF vars
  <1> QED
    BY <1>1, <1>2, <1>3, <1>4, <1>5

LEMMA SyncTypes ==
  ASSUME Types, [Next]_vars
  PROVE  Types'
  <1>1. ASSUME NEW m \in Msgs, MessageStep(m) PROVE Types'
    BY <1>1, MessageTypes
  <1> QED
    BY <1>1, EventTypes, QueryTypes, StartTypes DEF Next

(* A step that moves one message from one place to another. *)
LEMMA Moved ==
  ASSUME Types, NEW m \in Msgs, NEW place \in Places, Move(m, place)
  PROVE  \A p \in Places : In(p)' = IF p = place THEN In(p) \cup {m} ELSE In(p) \ {m}
  BY DEF Types, Move, In

LEMMA MessageCounts ==
  ASSUME Types, Counts, NEW m \in Msgs, MessageStep(m)
  PROVE  Counts'
  <1> USE DEF Places
  <1>0. UNCHANGED <<where, applying, topic>> => Counts'
    BY DEF Counts, In
  <1>b. ASSUME IsFiniteSet(In("buffer")), Cardinality(In("buffer")) <= BufferSize
        PROVE  /\ IsFiniteSet(In("buffer") \ {m}) /\ Cardinality(In("buffer") \ {m}) <= BufferSize
               /\ Cardinality(In("buffer")) < BufferSize =>
                    /\ IsFiniteSet(In("buffer") \cup {m})
                    /\ Cardinality(In("buffer") \cup {m}) <= BufferSize
    BY <1>b, FS_RemoveElement, FS_AddElement, FS_CardinalityType
  <1>1. CASE Deliver(m)
    <2>1. where[m] = "new" /\ UNCHANGED <<applying, topic>>
      BY <1>1 DEF Deliver, statusVars
    <2>2. m \notin In("chan") /\ m \notin In("put")
      BY <2>1 DEF In
    <2>3. CASE Cardinality(In("buffer")) < BufferSize /\ Move(m, "buffer")
      <3>1. /\ In("buffer")' = In("buffer") \cup {m}
            /\ In("chan")' = In("chan") \ {m} /\ In("put")' = In("put") \ {m}
        BY <2>3, Moved
      <3> QED
        BY <1>b, <2>1, <2>2, <2>3, <3>1 DEF Counts
    <2>4. CASE Move(m, "lost")
      <3>1. /\ In("buffer")' = In("buffer") \ {m}
            /\ In("chan")' = In("chan") \ {m} /\ In("put")' = In("put") \ {m}
        BY <2>4, Moved
      <3> QED
        BY <1>b, <2>1, <2>2, <3>1 DEF Counts
    <2> QED
      BY <1>1, <2>3, <2>4 DEF Deliver
  <1>2. CASE ReadMessage(m)
    <2>1. where[m] = "buffer" /\ UNCHANGED <<applying, topic>> /\ Move(m, "handler")
      BY <1>2 DEF ReadMessage, statusVars
    <2>2. m \notin In("put")
      BY <2>1 DEF In
    <2>3. /\ In("buffer")' = In("buffer") \ {m}
          /\ In("chan")' = In("chan") \ {m} /\ In("put")' = In("put") \ {m}
      BY <2>1, Moved
    <2> QED
      BY <1>b, <2>1, <2>2, <2>3 DEF Counts
  <1>3. CASE HandleMessage(m)
    <2>1. CASE UNCHANGED where
      BY <1>0, <1>3, <2>1 DEF HandleMessage, statusVars
    <2>2. CASE In("chan") = {} /\ Move(m, "chan")
      <3>1. where[m] = "handler" /\ UNCHANGED <<applying, topic>>
        BY <1>3 DEF HandleMessage, statusVars
      <3>2. m \notin In("put")
        BY <3>1 DEF In
      <3>3. /\ In("buffer")' = In("buffer") \ {m}
            /\ In("chan")' = In("chan") \cup {m} /\ In("put")' = In("put") \ {m}
        BY <2>2, Moved
      <3> QED
        BY <1>b, <2>2, <3>1, <3>2, <3>3 DEF Counts
    <2> QED
      BY <1>3, <2>1, <2>2 DEF HandleMessage
  <1>4. CASE TakeStatus(m)
    <2>1. applying = "wait" /\ applying' = "put" /\ Move(m, "put") /\ topic' = topic
      BY <1>4 DEF TakeStatus
    <2>2. /\ In("buffer")' = In("buffer") \ {m}
          /\ In("chan")' = In("chan") \ {m} /\ In("put")' = In("put") \cup {m}
      BY <2>1, Moved
    <2> QED
      BY <1>b, <2>1, <2>2 DEF Counts
  <1>5. CASE PutToPeerMap(m)
    <2>1. applying = "put" /\ applying' = "wait" /\ Move(m, "done") /\ where[m] = "put" /\ topic' = topic
      BY <1>5 DEF PutToPeerMap, Notify
    <2>2. /\ In("buffer")' = In("buffer") \ {m}
          /\ In("chan")' = In("chan") \ {m} /\ In("put")' = In("put") \ {m}
      BY <2>1, Moved
    <2>3. m \in In("put")
      BY <2>1 DEF In
    <2> QED
      BY <1>b, <2>1, <2>2, <2>3 DEF Counts
  <1> QED
    BY <1>1, <1>2, <1>3, <1>4, <1>5 DEF MessageStep

LEMMA SyncCounts ==
  ASSUME Types, Counts, [Next]_vars
  PROVE  Counts'
  <1>1. ASSUME UNCHANGED where, applying' = applying \/ (applying # "put" /\ applying' # "put"),
               topic' = "none" => applying' = "off"
        PROVE  Counts'
    BY <1>1 DEF Counts, In
  <1>2. ASSUME NEW m \in Msgs, MessageStep(m) PROVE Counts'
    BY <1>2, MessageCounts
  <1>3. CASE Start
    <2>1. topic = "none" /\ applying' = "wait" /\ UNCHANGED where /\ topic' = "open"
      BY <1>3 DEF Start, StartGossip
    <2>2. applying = "off"
      BY <2>1 DEF Counts
    <2> QED
      BY <1>1, <2>1, <2>2
  <1>4. CASE ReadLoopReturns \/ DoPublishAppStatus \/ UpdateProcessReturns \/ CloseNext \/ UNCHANGED vars
    BY <1>1, <1>4 DEF ReadLoopReturns, DoPublishAppStatus, UpdateProcessReturns, CloseNext,
       CloseTopic, vars, gossipVars, statusVars, Counts
  <1>5. CASE EventStep
    BY <1>1, <1>5 DEF EventStep, Emit, HandleEvent, Forward, SendLink, ReadLink,
       EventProcessReturns, CloseServer, CleanUp, gossipVars, statusVars, Counts
  <1>6. CASE QueryStep
    BY <1>1, <1>6 DEF QueryStep, AskAll, Collect, OpenStream, Accept, GetStatus, StatusTimeout,
       AskData, GetData, Ask, gossipVars, statusVars, Counts
  <1> QED
    BY <1>2, <1>3, <1>4, <1>5, <1>6 DEF Next

LEMMA TypesInvariant == Spec => [](Types /\ Counts)
  <1>1. Types /\ Counts /\ [Next]_vars => (Types /\ Counts)'
    BY SyncTypes, SyncCounts
  <1> QED
    BY <1>1, SyncInitTypes, PTL DEF Spec

(* Buffers keep to their sizes, whatever is published and however slow the readers are, and
   the update process has one status in hand exactly while it stores it. *)
THEOREM SyncTypeOK == Spec => []TypeOK
  <1>1. Types /\ Counts => TypeOK
    <2> SUFFICES ASSUME Types, Counts PROVE TypeOK
      OBVIOUS
    <2>1. In("chan") = {} \/ \E k : In("chan") = {k}
      BY DEF Counts
    <2>2. Cardinality(In("chan")) = 0 \/ Cardinality(In("chan")) = 1
      BY <2>1, FS_EmptySet, FS_Singleton
    <2>3. Cardinality(In("put")) = IF applying = "put" THEN 1 ELSE 0
      <3>1. CASE applying = "put"
        <4>1. PICK m \in Msgs : In("put") = {m}
          BY <3>1 DEF Counts
        <4> QED
          BY <3>1, <4>1, FS_Singleton
      <3>2. CASE applying # "put"
        BY <3>2, FS_EmptySet DEF Counts
      <3> QED
        BY <3>1, <3>2
    <2>4. Cardinality(In("buffer")) <= BufferSize
      BY DEF Counts
    <2> QED
      BY <2>2, <2>3, <2>4 DEF Types, TypeOK
  <1> QED
    BY <1>1, TypesInvariant, PTL

-----------------------------------------------------------------------------
(* Panics *)

(* The topic is closed by the second step of Close, and by nothing else. *)
PanicInv ==
  /\ topic = "nil" => closing > 0
  /\ panicked = TRUE => closing > 0 \/ server = "cleaned"

LEMMA PanicInductive ==
  ASSUME Types, PanicInv, [Next]_vars
  PROVE  PanicInv'
  <1> USE DEF PanicInv, gossipVars, statusVars, eventVars
  <1>0. closing \in 0..4
    BY DEF Types, Closings
  <1>1. ASSUME NEW m \in Msgs, MessageStep(m) PROVE PanicInv'
    <2>1. CASE Deliver(m) \/ ReadMessage(m) \/ TakeStatus(m)
      BY <2>1 DEF Deliver, ReadMessage, TakeStatus
    <2>2. CASE HandleMessage(m)
      BY <1>0, <2>2 DEF HandleMessage, Panic
    <2>3. CASE PutToPeerMap(m)
      <3>1. panicked' = TRUE => closing > 0
        BY <2>3, Zenon DEF PutToPeerMap, Notify
      <3> QED
        BY <2>3, <3>1 DEF PutToPeerMap
    <2> QED
      BY <1>1, <2>1, <2>2, <2>3 DEF MessageStep
  <1>2. CASE EventStep
    BY <1>2 DEF EventStep, Emit, HandleEvent, Forward, SendLink, ReadLink, EventProcessReturns,
       CloseServer, CleanUp
  <1>3. CASE QueryStep
    BY <1>3 DEF QueryStep, AskAll, Collect, OpenStream, Accept, GetStatus, StatusTimeout, AskData,
       GetData, Ask
  <1>4. CASE CloseNext
    BY <1>0, <1>4 DEF CloseNext
  <1>5. CASE Start
    BY <1>5 DEF Start, StartGossip
  <1>6. CASE ReadLoopReturns \/ DoPublishAppStatus \/ UpdateProcessReturns \/ UNCHANGED vars
    BY <1>6 DEF ReadLoopReturns, DoPublishAppStatus, PublishApplicationStatus, Panic,
       UpdateProcessReturns, vars
  <1> QED
    BY <1>1, <1>2, <1>3, <1>4, <1>5, <1>6 DEF Next

(* The synchronisation cannot end the process before its Close has begun, or the server's
   subscription was cleaned up. *)
THEOREM PanicsSafe == Spec => []PanicsOnlyAfterClose
  <1>1. Init => PanicInv
    BY DEF Init, PanicInv
  <1>2. Types /\ PanicInv /\ [Next]_vars => PanicInv'
    BY PanicInductive
  <1>3. Types /\ PanicInv => PanicsOnlyAfterClose
    <2> SUFFICES ASSUME Types, PanicInv PROVE PanicsOnlyAfterClose
      OBVIOUS
    <2>1. CASE panicked = TRUE
      BY <2>1 DEF PanicInv, PanicsOnlyAfterClose
    <2>2. CASE panicked = FALSE
      BY <2>2 DEF PanicsOnlyAfterClose
    <2> QED
      BY <2>1, <2>2 DEF Types
  <1> QED
    BY <1>1, <1>2, <1>3, TypesInvariant, PTL DEF Spec

-----------------------------------------------------------------------------
(* Stale statuses *)

(* A message that was read and is not stored yet has crossed every other one of its node
   that is on its way too, or that was published later and is stored already. *)
CrossingsNoted ==
  \A m, k \in Msgs :
    where[m] \in {"handler", "chan", "put"} /\ k \in Crossing(m) => {k, m} \in crossed

StaleInv == CrossingsNoted /\ StaleOnlyIfCrossed

LEMMA CrossingsStay ==
  ASSUME Types, CrossingsNoted, NEW m \in Msgs, MessageStep(m)
  PROVE  CrossingsNoted'
  <1> USE DEF Types, Move, CrossingsNoted, Crossing
  <1>1. CASE Deliver(m)
    BY <1>1 DEF Deliver
  <1>2. CASE ReadMessage(m)
    <2>1. /\ where' = [where EXCEPT ![m] = "handler"] /\ where[m] = "buffer"
          /\ crossed \subseteq crossed' /\ \A k \in Crossing(m) : {k, m} \in crossed'
      BY <1>2 DEF ReadMessage
    <2> SUFFICES ASSUME NEW n \in Msgs, NEW k \in Msgs,
                        where'[n] \in {"handler", "chan", "put"}, k \in Crossing(n)'
                 PROVE  {k, n} \in crossed'
      OBVIOUS
    <2>2. CASE n = m
      BY <2>1, <2>2
    <2>3. CASE n # m /\ k # m
      BY <2>1, <2>3
    <2>4. CASE k = m
      <3>1. n \in Crossing(m)
        BY <2>1, <2>4
      <3> QED
        BY <2>1, <2>4, <3>1
    <2> QED
      BY <2>2, <2>3, <2>4
  <1>3. CASE HandleMessage(m)
    BY <1>3 DEF HandleMessage
  <1>4. CASE TakeStatus(m)
    BY <1>4 DEF TakeStatus
  <1>5. CASE PutToPeerMap(m)
    BY <1>5 DEF PutToPeerMap
  <1> QED
    BY <1>1, <1>2, <1>3, <1>4, <1>5 DEF MessageStep

LEMMA StaleStays ==
  ASSUME Types, StaleInv, NEW m \in Msgs, MessageStep(m)
  PROVE  StaleOnlyIfCrossed'
  <1> USE DEF Types, Move, StaleInv, StaleOnlyIfCrossed
  <1>1. CASE Deliver(m)
    BY <1>1 DEF Deliver, statusVars
  <1>2. CASE ReadMessage(m)
    BY <1>2 DEF ReadMessage, statusVars
  <1>3. CASE HandleMessage(m)
    BY <1>3 DEF HandleMessage, statusVars
  <1>4. CASE TakeStatus(m)
    BY <1>4 DEF TakeStatus
  <1>5. CASE PutToPeerMap(m)
    <2>1. /\ where[m] = "put" /\ where' = [where EXCEPT ![m] = "done"]
          /\ peerMap' = [peerMap EXCEPT ![NodeOf[m]] = m] /\ crossed' = crossed
      BY <1>5 DEF PutToPeerMap, Put
    <2> SUFFICES ASSUME NEW k \in Msgs, where'[k] = "done", peerMap'[NodeOf[k]] < k
                 PROVE  {peerMap'[NodeOf[k]], k} \in crossed'
      OBVIOUS
    <2>2. CASE NodeOf[k] # NodeOf[m]
      BY <2>1, <2>2
    <2>3. CASE NodeOf[k] = NodeOf[m]
      <3>1. peerMap'[NodeOf[k]] = m /\ m < k
        BY <2>1, <2>3
      <3>2. k # m /\ where[k] = "done"
        BY <2>1, <3>1
      <3>3. k \in Crossing(m)
        BY <2>3, <3>1, <3>2 DEF Crossing
      <3> QED
        BY <2>1, <3>1, <3>3 DEF CrossingsNoted
    <2> QED
      BY <2>2, <2>3
  <1> QED
    BY <1>1, <1>2, <1>3, <1>4, <1>5 DEF MessageStep

LEMMA StaleInductive ==
  ASSUME Types, StaleInv, [Next]_vars
  PROVE  StaleInv'
  <1>1. ASSUME UNCHANGED <<where, crossed, peerMap>> PROVE StaleInv'
    BY <1>1 DEF StaleInv, CrossingsNoted, Crossing, StaleOnlyIfCrossed
  <1>2. ASSUME NEW m \in Msgs, MessageStep(m) PROVE StaleInv'
    BY <1>2, CrossingsStay, StaleStays DEF StaleInv
  <1>3. CASE EventStep
    BY <1>1, <1>3 DEF EventStep, Emit, HandleEvent, Forward, SendLink, ReadLink,
       EventProcessReturns, CloseServer, CleanUp, gossipVars, statusVars
  <1>4. CASE QueryStep
    BY <1>1, <1>4 DEF QueryStep, AskAll, Collect, OpenStream, Accept, GetStatus, StatusTimeout,
       AskData, GetData, Ask, gossipVars, statusVars
  <1>5. CASE \/ Start \/ ReadLoopReturns \/ DoPublishAppStatus \/ UpdateProcessReturns
             \/ CloseNext \/ UNCHANGED vars
    BY <1>1, <1>5 DEF Start, ReadLoopReturns, DoPublishAppStatus, UpdateProcessReturns, CloseNext,
       vars, gossipVars, statusVars
  <1> QED
    BY <1>2, <1>3, <1>4, <1>5 DEF Next

(* The map of peers is left with an older status than one it had only if the two messages
   overlapped in their goroutines or came in the wrong order. *)
THEOREM StaleSafe == Spec => []StaleOnlyIfCrossed
  <1>1. Init => StaleInv
    BY DEF Init, StaleInv, CrossingsNoted, StaleOnlyIfCrossed
  <1>2. Types /\ StaleInv /\ [Next]_vars => StaleInv'
    BY StaleInductive
  <1>3. StaleInv => StaleOnlyIfCrossed
    BY DEF StaleInv
  <1> QED
    BY <1>1, <1>2, <1>3, TypesInvariant, PTL DEF Spec
=============================================================================
