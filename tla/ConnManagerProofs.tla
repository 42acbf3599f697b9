-------------------------- MODULE ConnManagerProofs --------------------------
(***************************************************************************)
(* Proofs about the connection manager for any finite sets of peers and    *)
(* connections, any limits and any bootnodes.  The inductive invariant     *)
(* adds two facts to the properties: a connection's goroutine is not       *)
(* running while ConnectedF has not spawned it, and only a goroutine that  *)
(* is between its LoadAndDelete and its counter update holds a freed slot. *)
(***************************************************************************)
EXTENDS ConnManager, FiniteSetTheorems, TLAPS

(* Before ConnectedF is over, the goroutine it may spawn is not running. *)
SpawnedOnce ==
  \A c \in Conns :
    phase[c] \in {"connected", "unreserved", "comparing", "reserving", "counting"} =>
      shake[c] = "none"

(* removePendingStatus carries a direction only between its two updates. *)
FreedWhileFinishing == \A c \in Conns : freed[c] # {} => shake[c] = "finish"

ConnInv ==
  /\ TypeOK
  /\ SpawnedOnce
  /\ FreedWhileFinishing
  /\ CountsMatchPeers
  /\ ReservationsAccounted
  /\ PendingHasOwner
  /\ GhostsAreLateAdds

-----------------------------------------------------------------------------
(* Counting.  The counters count keys of functions to sets of directions: the
   peers with an active direction, the pending entries, the freed slots. *)

Holders(B, T, d)  == {k \in B : d \in T[k]}
Holds(B, T, k, d) == IF k \in B /\ d \in T[k] THEN 1 ELSE 0

LEMMA CardinalityAdd ==
  ASSUME NEW S, IsFiniteSet(S), NEW T, NEW x, x \notin S, T = S \cup {x}
  PROVE  IsFiniteSet(T) /\ Cardinality(S) \in Nat /\ Cardinality(T) = Cardinality(S) + 1
  BY FS_AddElement, FS_CardinalityType

LEMMA CardinalityRemove ==
  ASSUME NEW S, IsFiniteSet(S), NEW T, NEW x, x \in S, T = S \ {x}
  PROVE  IsFiniteSet(T) /\ Cardinality(S) \in Nat /\ Cardinality(T) = Cardinality(S) - 1
  BY FS_RemoveElement, FS_CardinalityType

LEMMA HoldersFinite ==
  ASSUME NEW B, IsFiniteSet(B), NEW T, NEW d
  PROVE  IsFiniteSet(Holders(B, T, d)) /\ Cardinality(Holders(B, T, d)) \in Nat
  <1>1. Holders(B, T, d) \subseteq B
    BY DEF Holders
  <1> QED
    BY <1>1, FS_Subset, FS_CardinalityType

(* What changing the set of one key does to the number of holders of e. *)
LEMMA HoldersAfterUpdate ==
  ASSUME NEW B, IsFiniteSet(B), NEW T, NEW U, NEW k, \A j \in B \ {k} : U[j] = T[j], NEW e
  PROVE  Cardinality(Holders(B, U, e)) =
           Cardinality(Holders(B, T, e)) + Holds(B, U, k, e) - Holds(B, T, k, e)
  <1> DEFINE Old == Holders(B, T, e)
             New == Holders(B, U, e)
  <1>1. IsFiniteSet(Old) /\ Cardinality(Old) \in Nat
    BY HoldersFinite
  <1>2. CASE k \in B /\ e \in U[k] /\ e \notin T[k]
    <2>1. k \notin Old /\ New = Old \cup {k}
      BY <1>2 DEF Holders
    <2> HIDE DEF Old, New
    <2>2. Cardinality(New) = Cardinality(Old) + 1
      BY <1>1, <2>1, CardinalityAdd
    <2> QED
      BY <1>1, <1>2, <2>2 DEF Old, New, Holds
  <1>3. CASE k \in B /\ e \notin U[k] /\ e \in T[k]
    <2>1. k \in Old /\ New = Old \ {k}
      BY <1>3 DEF Holders
    <2> HIDE DEF Old, New
    <2>2. Cardinality(New) = Cardinality(Old) - 1
      BY <1>1, <2>1, CardinalityRemove
    <2> QED
      BY <1>1, <1>3, <2>2 DEF Old, New, Holds
  <1>4. CASE k \notin B \/ (e \in U[k] <=> e \in T[k])
    <2>1. New = Old
      BY <1>4 DEF Holders
    <2> HIDE DEF Old, New
    <2>2. Cardinality(New) = Cardinality(Old)
      BY <2>1
    <2> QED
      BY <1>1, <1>4, <2>2 DEF Old, New, Holds
  <1> QED
    BY <1>2, <1>3, <1>4

(* An entry has one active direction, the other one, both or none. *)
LEMMA DirectionsCardinality ==
  ASSUME NEW S \in SUBSET Dirs
  PROVE  Cardinality(S) = (IF "in" \in S THEN 1 ELSE 0) + (IF "out" \in S THEN 1 ELSE 0)
  <1>1. Cardinality({}) = 0
    BY FS_EmptySet
  <1>2. Cardinality({"in"}) = 1 /\ Cardinality({"out"}) = 1 /\ IsFiniteSet({"in"})
    BY FS_Singleton
  <1>3. Cardinality({"in", "out"}) = 2
    <2>1. {"in", "out"} = {"in"} \cup {"out"}
      OBVIOUS
    <2> QED
      BY <1>2, <2>1, CardinalityAdd
  <1>4. S = {} \/ S = {"in"} \/ S = {"out"} \/ S = {"in", "out"}
    BY DEF Dirs
  <1> QED
    BY <1>1, <1>2, <1>3, <1>4

LEMMA BootnodesFinite == IsFiniteSet(Bootnodes) /\ Bootnodes \subseteq Peers
  BY PeersAssumption, FS_Subset

-----------------------------------------------------------------------------
(* The two peersLock sections keep the counters equal to the peer table. *)

(* CountsMatchPeers for a table T, counters n and a bootnode counter b. *)
Counts(T, n, b) ==
  /\ \A d \in Dirs : n[d] = Cardinality(Holders(Peers, T, d))
  /\ b = Cardinality(Holders(Bootnodes, T, "in")) + Cardinality(Holders(Bootnodes, T, "out"))

LEMMA CountsOfTable ==
  /\ CountsMatchPeers <=> Counts(connDirections, connCount, bootnodeConnCount)
  /\ CountsMatchPeers' <=> Counts(connDirections', connCount', bootnodeConnCount')
  <1>1. \A d \in Dirs : /\ ActivePeers(d) = Holders(Peers, connDirections, d)
                        /\ ActivePeers(d) \cap Bootnodes = Holders(Bootnodes, connDirections, d)
                        /\ ActivePeers(d)' = Holders(Peers, connDirections', d)
                        /\ ActivePeers(d)' \cap Bootnodes = Holders(Bootnodes, connDirections', d)
    BY BootnodesFinite DEF ActivePeers, Holders
  <1> QED
    BY <1>1 DEF CountsMatchPeers, Counts, Dirs

LEMMA CountsAreNat ==
  ASSUME NEW T, NEW n, DOMAIN n = Dirs, n = [d \in Dirs |-> n[d]], NEW b, Counts(T, n, b)
  PROVE  n \in [Dirs -> Nat] /\ b \in Nat
  <1>1. \A d \in Dirs : /\ Cardinality(Holders(Peers, T, d)) \in Nat
                        /\ Cardinality(Holders(Bootnodes, T, d)) \in Nat
    BY HoldersFinite, BootnodesFinite, PeersAssumption
  <1> QED
    BY <1>1 DEF Counts, Dirs

(* addPeerInfo for a direction that is not active. *)
LEMMA SaveKeepsCounts ==
  ASSUME NEW T \in [Peers -> SUBSET Dirs], NEW n \in [Dirs -> Nat], NEW b \in Nat,
         Counts(T, n, b), NEW p \in Peers, NEW d \in Dirs, d \notin T[p]
  PROVE  Counts([T EXCEPT ![p] = @ \cup {d}], Incremented(n, {d}),
                IF p \in Bootnodes THEN b + 1 ELSE b)
  <1> DEFINE U == [T EXCEPT ![p] = T[p] \cup {d}]
             all(e)  == Cardinality(Holders(Peers, T, e))
             boot(e) == Cardinality(Holders(Bootnodes, T, e))
  <1>0. /\ U[p] = T[p] \cup {d}
        /\ \A j \in Peers \ {p} : U[j] = T[j]
        /\ \A j \in Bootnodes \ {p} : U[j] = T[j]
    BY BootnodesFinite
  <1>1. \A e \in Dirs : all(e) \in Nat /\ boot(e) \in Nat
    BY HoldersFinite, BootnodesFinite, PeersAssumption
  <1>2. \A e \in Dirs : Cardinality(Holders(Peers, U, e)) = IF e = d THEN all(e) + 1 ELSE all(e)
    <2> TAKE e \in Dirs
    <2> HIDE DEF U
    <2>1. Cardinality(Holders(Peers, U, e)) =
            all(e) + Holds(Peers, U, p, e) - Holds(Peers, T, p, e)
      BY <1>0, HoldersAfterUpdate, PeersAssumption
    <2> HIDE DEF all
    <2> QED
      BY <1>0, <1>1, <2>1 DEF Holds
  <1>3. \A e \in Dirs : Cardinality(Holders(Bootnodes, U, e)) =
                          IF e = d /\ p \in Bootnodes THEN boot(e) + 1 ELSE boot(e)
    <2> TAKE e \in Dirs
    <2> HIDE DEF U
    <2>1. Cardinality(Holders(Bootnodes, U, e)) =
            boot(e) + Holds(Bootnodes, U, p, e) - Holds(Bootnodes, T, p, e)
      BY <1>0, HoldersAfterUpdate, BootnodesFinite
    <2> HIDE DEF boot
    <2> QED
      BY <1>0, <1>1, <2>1 DEF Holds
  <1>4. \A e \in Dirs : Incremented(n, {d})[e] = Cardinality(Holders(Peers, U, e))
    BY <1>1, <1>2 DEF Counts, Incremented
  <1>5. (IF p \in Bootnodes THEN b + 1 ELSE b) =
          Cardinality(Holders(Bootnodes, U, "in")) + Cardinality(Holders(Bootnodes, U, "out"))
    <2>1. b = boot("in") + boot("out") /\ boot("in") \in Nat /\ boot("out") \in Nat
      BY <1>1 DEF Counts, Dirs
    <2>2. /\ Cardinality(Holders(Bootnodes, U, "in")) =
               IF d = "in" /\ p \in Bootnodes THEN boot("in") + 1 ELSE boot("in")
          /\ Cardinality(Holders(Bootnodes, U, "out")) =
               IF d = "out" /\ p \in Bootnodes THEN boot("out") + 1 ELSE boot("out")
      BY <1>3 DEF Dirs
    <2> HIDE DEF boot, U
    <2> QED
      BY <2>1, <2>2 DEF Dirs
  <1> QED
    BY <1>4, <1>5 DEF Counts

(* removePeerInfo for the whole entry of a peer. *)
LEMMA RemoveKeepsCounts ==
  ASSUME NEW T \in [Peers -> SUBSET Dirs], NEW n \in [Dirs -> Nat], NEW b \in Nat,
         Counts(T, n, b), NEW p \in Peers
  PROVE  Counts([T EXCEPT ![p] = {}], Decremented(n, T[p]),
                IF p \in Bootnodes THEN b - Cardinality(T[p]) ELSE b)
  <1> DEFINE U == [T EXCEPT ![p] = {}]
             all(e)  == Cardinality(Holders(Peers, T, e))
             boot(e) == Cardinality(Holders(Bootnodes, T, e))
             had(e)  == IF e \in T[p] THEN 1 ELSE 0
  <1>0. /\ U[p] = {}
        /\ \A j \in Peers \ {p} : U[j] = T[j]
        /\ \A j \in Bootnodes \ {p} : U[j] = T[j]
    BY BootnodesFinite
  <1>1. \A e \in Dirs : all(e) \in Nat /\ boot(e) \in Nat
    BY HoldersFinite, BootnodesFinite, PeersAssumption
  <1>2. \A e \in Dirs : Cardinality(Holders(Peers, U, e)) = all(e) - had(e)
    <2> TAKE e \in Dirs
    <2> HIDE DEF U
    <2>1. Cardinality(Holders(Peers, U, e)) =
            all(e) + Holds(Peers, U, p, e) - Holds(Peers, T, p, e)
      BY <1>0, HoldersAfterUpdate, PeersAssumption
    <2> HIDE DEF all
    <2> QED
      BY <1>0, <1>1, <2>1 DEF Holds
  <1>3. \A e \in Dirs : Cardinality(Holders(Bootnodes, U, e)) =
                          IF p \in Bootnodes THEN boot(e) - had(e) ELSE boot(e)
    <2> TAKE e \in Dirs
    <2> HIDE DEF U
    <2>1. Cardinality(Holders(Bootnodes, U, e)) =
            boot(e) + Holds(Bootnodes, U, p, e) - Holds(Bootnodes, T, p, e)
      BY <1>0, HoldersAfterUpdate, BootnodesFinite
    <2> HIDE DEF boot
    <2> QED
      BY <1>0, <1>1, <2>1 DEF Holds
  <1>4. \A e \in Dirs : Decremented(n, T[p])[e] = Cardinality(Holders(Peers, U, e))
    <2> TAKE e \in Dirs
    <2>1. n[e] = all(e) /\ all(e) \in Nat
      BY <1>1 DEF Counts
    <2>2. Decremented(n, T[p])[e] = IF e \in T[p] THEN n[e] - 1 ELSE n[e]
      BY DEF Decremented
    <2>3. Cardinality(Holders(Peers, U, e)) = all(e) - had(e)
      BY <1>2
    <2> HIDE DEF all, U
    <2> QED
      BY <2>1, <2>2, <2>3
  <1>5. (IF p \in Bootnodes THEN b - Cardinality(T[p]) ELSE b) =
          Cardinality(Holders(Bootnodes, U, "in")) + Cardinality(Holders(Bootnodes, U, "out"))
    <2>1. b = boot("in") + boot("out") /\ boot("in") \in Nat /\ boot("out") \in Nat
      BY <1>1 DEF Counts, Dirs
    <2>2. /\ Cardinality(Holders(Bootnodes, U, "in")) =
               IF p \in Bootnodes THEN boot("in") - had("in") ELSE boot("in")
          /\ Cardinality(Holders(Bootnodes, U, "out")) =
               IF p \in Bootnodes THEN boot("out") - had("out") ELSE boot("out")
      BY <1>3 DEF Dirs
    <2>3. Cardinality(T[p]) = had("in") + had("out") /\ had("in") \in Nat /\ had("out") \in Nat
      BY DirectionsCardinality
    <2> HIDE DEF boot, U, had
    <2> QED
      BY <2>1, <2>2, <2>3
  <1> QED
    BY <1>4, <1>5 DEF Counts

-----------------------------------------------------------------------------
(* The pending counters.  A step of connection c changes at most the pending
   entry of its peer and what c itself has to add to or take off a counter. *)

Counting(ph) == [c \in Conns |-> IF ph[c] = "counting" THEN {DirOf[c]} ELSE {}]

Reserved(P, M, F, n) ==
  \A d \in Dirs : n[d] = Cardinality(Holders(Peers, P, d)) - Cardinality(Holders(Conns, M, d))
                         + Cardinality(Holders(Conns, F, d))

LEMMA ReservedOfState ==
  /\ ReservationsAccounted <=> Reserved(pending, Counting(phase), freed, pendingCount)
  /\ ReservationsAccounted' <=> Reserved(pending', Counting(phase'), freed', pendingCount')
  <1>1. \A d \in Dirs : /\ PendingPeers(d) = Holders(Peers, pending, d)
                        /\ NotYetCounted(d) = Holders(Conns, Counting(phase), d)
                        /\ StillCounted(d) = Holders(Conns, freed, d)
    BY DEF PendingPeers, NotYetCounted, StillCounted, Holders, Counting
  <1>2. \A d \in Dirs : /\ PendingPeers(d)' = Holders(Peers, pending', d)
                        /\ NotYetCounted(d)' = Holders(Conns, Counting(phase'), d)
                        /\ StillCounted(d)' = Holders(Conns, freed', d)
    BY DEF PendingPeers, NotYetCounted, StillCounted, Holders, Counting
  <1> QED
    BY <1>1, <1>2 DEF ReservationsAccounted, Reserved

(* If a step's own changes add up, the counters still match. *)
LEMMA ReservedStep ==
  ASSUME NEW P, NEW M, NEW F, NEW n \in [Dirs -> Int], Reserved(P, M, F, n),
         NEW p \in Peers, NEW c \in Conns, NEW P2, NEW M2, NEW F2, NEW n2,
         \A q \in Peers \ {p} : P2[q] = P[q],
         \A e \in Conns \ {c} : M2[e] = M[e] /\ F2[e] = F[e],
         \A d \in Dirs : n2[d] = n[d] + (Holds(Peers, P2, p, d) - Holds(Peers, P, p, d))
                                      - (Holds(Conns, M2, c, d) - Holds(Conns, M, c, d))
                                      + (Holds(Conns, F2, c, d) - Holds(Conns, F, c, d))
  PROVE  Reserved(P2, M2, F2, n2)
  <1> SUFFICES ASSUME NEW d \in Dirs
               PROVE  n2[d] = Cardinality(Holders(Peers, P2, d))
                        - Cardinality(Holders(Conns, M2, d)) + Cardinality(Holders(Conns, F2, d))
    BY DEF Reserved
  <1>1. Cardinality(Holders(Peers, P2, d)) =
          Cardinality(Holders(Peers, P, d)) + Holds(Peers, P2, p, d) - Holds(Peers, P, p, d)
    BY HoldersAfterUpdate, PeersAssumption
  <1>2. Cardinality(Holders(Conns, M2, d)) =
          Cardinality(Holders(Conns, M, d)) + Holds(Conns, M2, c, d) - Holds(Conns, M, c, d)
    BY HoldersAfterUpdate, ConnsAssumption
  <1>3. Cardinality(Holders(Conns, F2, d)) =
          Cardinality(Holders(Conns, F, d)) + Holds(Conns, F2, c, d) - Holds(Conns, F, c, d)
    BY HoldersAfterUpdate, ConnsAssumption
  <1>4. n[d] = Cardinality(Holders(Peers, P, d)) - Cardinality(Holders(Conns, M, d))
               + Cardinality(Holders(Conns, F, d))
    BY DEF Reserved
  <1>5. /\ Cardinality(Holders(Peers, P, d)) \in Nat /\ Cardinality(Holders(Conns, M, d)) \in Nat
        /\ Cardinality(Holders(Conns, F, d)) \in Nat
    BY HoldersFinite, PeersAssumption, ConnsAssumption
  <1>6. \A B, T, k : Holds(B, T, k, d) \in {0, 1}
    BY DEF Holds
  <1> QED
    BY <1>1, <1>2, <1>3, <1>4, <1>5, <1>6

-----------------------------------------------------------------------------
(* The initial state. *)

LEMMA NoHolders ==
  ASSUME NEW B, NEW T, NEW d, \A k \in B : T[k] = {}
  PROVE  Cardinality(Holders(B, T, d)) = 0
  <1>1. Holders(B, T, d) = {}
    BY DEF Holders
  <1> QED
    BY <1>1, FS_EmptySet

LEMMA ConnInitial == Init => ConnInv
  <1> SUFFICES ASSUME Init PROVE ConnInv
    OBVIOUS
  <1>1. TypeOK
    BY DEF Init, TypeOK, Phases, Stages
  <1>2. SpawnedOnce /\ FreedWhileFinishing /\ PendingHasOwner /\ GhostsAreLateAdds
    BY DEF Init, SpawnedOnce, FreedWhileFinishing, PendingHasOwner, GhostsAreLateAdds
  <1>3. CountsMatchPeers
    <2>1. \A d \in Dirs : /\ Cardinality(Holders(Peers, connDirections, d)) = 0
                          /\ Cardinality(Holders(Bootnodes, connDirections, d)) = 0
      <3>1. /\ \A p \in Peers : connDirections[p] = {}
            /\ \A p \in Bootnodes : connDirections[p] = {}
        BY BootnodesFinite DEF Init
      <3> QED
        BY <3>1, NoHolders
    <2>2. Counts(connDirections, connCount, bootnodeConnCount)
      BY <2>1 DEF Init, Counts, Dirs
    <2> QED
      BY <2>2, CountsOfTable
  <1>4. ReservationsAccounted
    <2> SUFFICES ASSUME NEW d \in Dirs
                 PROVE  pendingCount[d] = Cardinality(PendingPeers(d))
                          - Cardinality(NotYetCounted(d)) + Cardinality(StillCounted(d))
      BY DEF ReservationsAccounted
    <2>1. PendingPeers(d) = {} /\ NotYetCounted(d) = {} /\ StillCounted(d) = {}
      BY DEF Init, PendingPeers, NotYetCounted, StillCounted
    <2> QED
      BY <2>1, FS_EmptySet DEF Init
  <1> QED
    BY <1>1, <1>2, <1>3, <1>4 DEF ConnInv

-----------------------------------------------------------------------------
(* The steps, one lemma for each conjunct of the invariant. *)

(* The two critical sections of peersLock are all that writes the peer table. *)
LEMMA OnlyTableSteps ==
  ASSUME [Next]_vars
  PROVE  \/ \E c \in Conns : SavePeer(c) /\ ~AlreadyActive(PeerOf[c], DirOf[c])
         \/ \E c \in Conns : RemovePeerInfo(c) /\ HasEntry(PeerOf[c])
         \/ UNCHANGED peerVars
  BY DEF Next, Notify, Handshake, OpenConn, CloseConn, CheckPending, LoadActive, CheckSlot,
         Reserve, CountPending, LockProtocols, StreamOpens, StreamFails,
         HelloSucceeds, HelloFails, SavePeer, RoutePeer, DropPeer, Release,
         Finish, RemovePeerInfo, UnroutePeer, vars, peerVars

LEMMA CountsPreserved ==
  ASSUME TypeOK, CountsMatchPeers, [Next]_vars
  PROVE  CountsMatchPeers' /\ connCount' \in [Dirs -> Nat] /\ bootnodeConnCount' \in Nat
  <1>1. Counts(connDirections, connCount, bootnodeConnCount)
    BY CountsOfTable
  <1>2. SUFFICES Counts(connDirections', connCount', bootnodeConnCount')
                 /\ connCount' = [d \in Dirs |-> connCount'[d]]
    BY CountsOfTable, CountsAreNat
  <1>3. CASE \E c \in Conns : SavePeer(c) /\ ~AlreadyActive(PeerOf[c], DirOf[c])
    <2> PICK c \in Conns : SavePeer(c) /\ ~AlreadyActive(PeerOf[c], DirOf[c])
      BY <1>3
    <2>1. PeerOf[c] \in Peers /\ DirOf[c] \in Dirs
      BY ConnsAssumption
    <2>2. /\ connDirections' = [connDirections EXCEPT ![PeerOf[c]] = @ \cup {DirOf[c]}]
          /\ connCount' = Incremented(connCount, {DirOf[c]})
          /\ bootnodeConnCount' = IF PeerOf[c] \in Bootnodes THEN bootnodeConnCount + 1
                                                             ELSE bootnodeConnCount
      BY DEF SavePeer
    <2>3. DirOf[c] \notin connDirections[PeerOf[c]]
      BY DEF AlreadyActive
    <2>4. Counts(connDirections', connCount', bootnodeConnCount')
      BY <1>1, <2>1, <2>2, <2>3, SaveKeepsCounts DEF TypeOK
    <2> QED
      BY <2>2, <2>4 DEF Incremented
  <1>4. CASE \E c \in Conns : RemovePeerInfo(c) /\ HasEntry(PeerOf[c])
    <2> PICK c \in Conns : RemovePeerInfo(c) /\ HasEntry(PeerOf[c])
      BY <1>4
    <2>1. PeerOf[c] \in Peers
      BY ConnsAssumption
    <2>2. /\ connDirections' = [connDirections EXCEPT ![PeerOf[c]] = {}]
          /\ connCount' = Decremented(connCount, connDirections[PeerOf[c]])
          /\ bootnodeConnCount' =
               IF PeerOf[c] \in Bootnodes
                 THEN bootnodeConnCount - Cardinality(connDirections[PeerOf[c]])
                 ELSE bootnodeConnCount
      BY DEF RemovePeerInfo, LostDirections
    <2>3. Counts(connDirections', connCount', bootnodeConnCount')
      BY <1>1, <2>1, <2>2, RemoveKeepsCounts DEF TypeOK
    <2> QED
      BY <2>2, <2>3 DEF Decremented
  <1>5. CASE UNCHANGED peerVars
    BY <1>1, <1>5 DEF peerVars, TypeOK
  <1> QED
    BY <1>3, <1>4, <1>5, OnlyTableSteps

(* Every step takes its connection from one phase, or one stage, to another. *)
LEMMA TypePreserved ==
  ASSUME TypeOK, CountsMatchPeers, [Next]_vars
  PROVE  TypeOK'
  <1>1. connCount' \in [Dirs -> Nat] /\ bootnodeConnCount' \in Nat
    BY CountsPreserved
  <1> SUFFICES /\ (open \subseteq Conns /\ phase \in [Conns -> Phases] /\ seen \in [Conns -> Nat])'
               /\ (shake \in [Conns -> Stages] /\ failed \subseteq Conns)'
               /\ (freed \in [Conns -> SUBSET Dirs])'
               /\ (connDirections \in [Peers -> SUBSET Dirs] /\ lateAdds \subseteq Peers)'
               /\ (pending \in [Peers -> SUBSET Dirs] /\ pendingCount \in [Dirs -> Int])'
    BY <1>1 DEF TypeOK
  <1>2. CASE UNCHANGED vars
    BY <1>2 DEF TypeOK, vars, netVars, shakeVars, peerVars, slotVars
  <1>3. ASSUME NEW c \in Conns, OpenConn(c) \/ CloseConn(c)
        PROVE  TypeOK'
    BY <1>1, <1>3 DEF TypeOK, OpenConn, CloseConn, Phase, Phases, shakeVars, peerVars, slotVars
  <1>4. ASSUME NEW c \in Conns, \/ CheckPending(c) \/ LoadActive(c) \/ CheckSlot(c)
                               \/ UnroutePeer(c)
        PROVE  TypeOK'
    BY <1>1, <1>4, ConnsAssumption
       DEF TypeOK, CheckPending, LoadActive, CheckSlot, UnroutePeer, ClosePeer, Phase,
           Phases, shakeVars, peerVars, slotVars
  <1>5. ASSUME NEW c \in Conns, Reserve(c)
        PROVE  TypeOK'
    BY <1>1, <1>5, ConnsAssumption
       DEF TypeOK, Reserve, Phase, Phases, Spawn, Stages, peerVars
  <1>6. ASSUME NEW c \in Conns, CountPending(c)
        PROVE  TypeOK'
    BY <1>1, <1>6, ConnsAssumption
       DEF TypeOK, CountPending, Phase, Phases, Spawn, Stages, Incremented, peerVars
  <1>7. ASSUME NEW c \in Conns,
               \/ LockProtocols(c) \/ StreamOpens(c) \/ StreamFails(c)
               \/ HelloSucceeds(c) \/ HelloFails(c) \/ RoutePeer(c)
        PROVE  TypeOK'
    BY <1>1, <1>7 DEF TypeOK, LockProtocols, StreamOpens, StreamFails,
                      HelloSucceeds, HelloFails, RoutePeer, Stage, Stages,
                      netVars, peerVars, slotVars
  <1>8. ASSUME NEW c \in Conns, SavePeer(c)
        PROVE  TypeOK'
    BY <1>1, <1>8, ConnsAssumption DEF TypeOK, SavePeer, Stage, Stages,
                      netVars, peerVars, slotVars
  <1>9. ASSUME NEW c \in Conns, DropPeer(c)
        PROVE  TypeOK'
    BY <1>1, <1>9 DEF TypeOK, DropPeer, ClosePeer, Stage, Stages, peerVars, slotVars
  <1>10. ASSUME NEW c \in Conns, Release(c)
         PROVE  TypeOK'
    BY <1>1, <1>10, ConnsAssumption
       DEF TypeOK, Release, LoadedSlot, Stage, Stages, netVars, peerVars
  <1>11. ASSUME NEW c \in Conns, Finish(c)
         PROVE  TypeOK'
    BY <1>1, <1>11 DEF TypeOK, Finish, Decremented, Stage, Stages, netVars, peerVars
  <1>12. ASSUME NEW c \in Conns, RemovePeerInfo(c)
         PROVE  TypeOK'
    BY <1>1, <1>12, ConnsAssumption
       DEF TypeOK, RemovePeerInfo, Phase, Phases, peerVars, shakeVars, slotVars
  <1> QED
    BY <1>2, <1>3, <1>4, <1>5, <1>6, <1>7, <1>8, <1>9, <1>10, <1>11, <1>12
       DEF Next, Notify, Handshake, TypeOK

LEMMA ReservationsPreserved ==
  ASSUME TypeOK, SpawnedOnce, FreedWhileFinishing, ReservationsAccounted, [Next]_vars
  PROVE  ReservationsAccounted'
  <1>1. Reserved(pending, Counting(phase), freed, pendingCount)
    BY ReservedOfState
  <1> SUFFICES Reserved(pending', Counting(phase'), freed', pendingCount')
    BY ReservedOfState
  <1>2. ASSUME NEW c \in Conns,
               \A q \in Peers \ {PeerOf[c]} : pending'[q] = pending[q],
               \A e \in Conns \ {c} : phase'[e] = phase[e] /\ freed'[e] = freed[e],
               \A d \in Dirs : pendingCount'[d] = pendingCount[d]
                 + (Holds(Peers, pending', PeerOf[c], d) - Holds(Peers, pending, PeerOf[c], d))
                 - (Holds(Conns, Counting(phase'), c, d) - Holds(Conns, Counting(phase), c, d))
                 + (Holds(Conns, freed', c, d) - Holds(Conns, freed, c, d))
        PROVE  Reserved(pending', Counting(phase'), freed', pendingCount')
    <2>1. PeerOf[c] \in Peers /\ pendingCount \in [Dirs -> Int]
      BY ConnsAssumption DEF TypeOK
    <2>2. \A e \in Conns \ {c} : Counting(phase')[e] = Counting(phase)[e] /\ freed'[e] = freed[e]
      BY <1>2 DEF Counting
    <2> QED
      BY <1>1, <1>2, <2>1, <2>2, ReservedStep
  <1>3. ASSUME NEW c \in Conns, Reserve(c)
        PROVE  Reserved(pending', Counting(phase'), freed', pendingCount')
    BY <1>2, <1>3, ConnsAssumption
       DEF TypeOK, Reserve, Phase, peerVars, Holds, Counting
  <1>4. ASSUME NEW c \in Conns, CountPending(c)
        PROVE  Reserved(pending', Counting(phase'), freed', pendingCount')
    BY <1>2, <1>4, ConnsAssumption
       DEF TypeOK, CountPending, Phase, peerVars, Holds, Counting, Incremented
  <1>5. ASSUME NEW c \in Conns, Release(c)
        PROVE  Reserved(pending', Counting(phase'), freed', pendingCount')
    <2>1. /\ PeerOf[c] \in Peers /\ phase' = phase /\ pendingCount' = pendingCount
          /\ pending' = [pending EXCEPT ![PeerOf[c]] = {}]
          /\ freed' = [freed EXCEPT ![c] = pending[PeerOf[c]]]
          /\ freed[c] = {}
      BY <1>5, ConnsAssumption
         DEF Release, LoadedSlot, Stage, netVars, FreedWhileFinishing
    <2>2. /\ \A q \in Peers \ {PeerOf[c]} : pending'[q] = pending[q]
          /\ \A e \in Conns \ {c} : phase'[e] = phase[e] /\ freed'[e] = freed[e]
      BY <2>1 DEF TypeOK
    <2>3. ASSUME NEW d \in Dirs
          PROVE  /\ Holds(Peers, pending', PeerOf[c], d) = 0
                 /\ Holds(Peers, pending, PeerOf[c], d) = Holds(Conns, freed', c, d)
                 /\ Holds(Conns, freed, c, d) = 0
      BY <2>1 DEF TypeOK, Holds
    <2>4. /\ \A B, T, k, d : Holds(B, T, k, d) \in {0, 1}
          /\ \A d \in Dirs : pendingCount[d] \in Int
      BY DEF Holds, TypeOK
    <2>5. Counting(phase') = Counting(phase)
      BY <2>1
    <2>6. \A d \in Dirs : pendingCount'[d] = pendingCount[d]
            + (Holds(Peers, pending', PeerOf[c], d) - Holds(Peers, pending, PeerOf[c], d))
            - (Holds(Conns, Counting(phase'), c, d) - Holds(Conns, Counting(phase), c, d))
            + (Holds(Conns, freed', c, d) - Holds(Conns, freed, c, d))
      <3> TAKE d \in Dirs
      <3>1. Holds(Conns, Counting(phase'), c, d) = Holds(Conns, Counting(phase), c, d)
        BY <2>5
      <3>2. /\ Holds(Peers, pending', PeerOf[c], d) = 0
            /\ Holds(Peers, pending, PeerOf[c], d) = Holds(Conns, freed', c, d)
            /\ Holds(Conns, freed, c, d) = 0
        BY <2>3
      <3>3. pendingCount'[d] = pendingCount[d]
        BY <2>1
      <3> QED
        BY <2>4, <3>1, <3>2, <3>3
    <2> QED
      BY <1>2, <2>2, <2>6
  <1>6. ASSUME NEW c \in Conns, Finish(c)
        PROVE  Reserved(pending', Counting(phase'), freed', pendingCount')
    <2>1. /\ PeerOf[c] \in Peers /\ phase' = phase /\ pending' = pending
          /\ pendingCount' = Decremented(pendingCount, freed[c])
          /\ freed' = [freed EXCEPT ![c] = {}]
      BY <1>6, ConnsAssumption DEF Finish, netVars
    <2>2. /\ \A q \in Peers \ {PeerOf[c]} : pending'[q] = pending[q]
          /\ \A e \in Conns \ {c} : phase'[e] = phase[e] /\ freed'[e] = freed[e]
      BY <2>1 DEF TypeOK
    <2>3. ASSUME NEW d \in Dirs
          PROVE  /\ Holds(Conns, freed', c, d) = 0
                 /\ pendingCount'[d] = pendingCount[d] - Holds(Conns, freed, c, d)
      BY <2>1 DEF TypeOK, Holds, Decremented
    <2>4. /\ \A B, T, k, d : Holds(B, T, k, d) \in {0, 1}
          /\ \A d \in Dirs : pendingCount[d] \in Int
      BY DEF Holds, TypeOK
    <2>5. Counting(phase') = Counting(phase)
      BY <2>1
    <2>6. \A d \in Dirs : pendingCount'[d] = pendingCount[d]
            + (Holds(Peers, pending', PeerOf[c], d) - Holds(Peers, pending, PeerOf[c], d))
            - (Holds(Conns, Counting(phase'), c, d) - Holds(Conns, Counting(phase), c, d))
            + (Holds(Conns, freed', c, d) - Holds(Conns, freed, c, d))
      <3> TAKE d \in Dirs
      <3>1. Holds(Conns, Counting(phase'), c, d) = Holds(Conns, Counting(phase), c, d)
        BY <2>5
      <3>2. /\ Holds(Conns, freed', c, d) = 0
            /\ pendingCount'[d] = pendingCount[d] - Holds(Conns, freed, c, d)
        BY <2>3
      <3>3. Holds(Peers, pending', PeerOf[c], d) = Holds(Peers, pending, PeerOf[c], d)
        BY <2>1
      <3> QED
        BY <2>4, <3>1, <3>2, <3>3
    <2> QED
      BY <1>2, <2>2, <2>6
  <1>7. CASE UNCHANGED <<slotVars, freed>> /\ Counting(phase') = Counting(phase)
    BY <1>1, <1>7 DEF slotVars
  <1>8. \/ \E c \in Conns : Reserve(c) \/ CountPending(c) \/ Release(c) \/ Finish(c)
        \/ UNCHANGED <<slotVars, freed>> /\ Counting(phase') = Counting(phase)
    <2>1. CASE UNCHANGED vars
      BY <2>1 DEF vars, netVars, shakeVars, slotVars
    <2>2. ASSUME NEW c \in Conns, NEW from \in Phases \ {"counting"},
                 NEW to \in Phases \ {"counting"}, Phase(c, from, to)
          PROVE  Counting(phase') = Counting(phase)
      BY <2>2 DEF Phase, TypeOK, Counting
    <2>3. ASSUME NEW c \in Conns, OpenConn(c) \/ CloseConn(c)
          PROVE  UNCHANGED <<slotVars, freed>> /\ Counting(phase') = Counting(phase)
      BY <2>2, <2>3 DEF OpenConn, CloseConn, shakeVars, slotVars, Phases
    <2>4. ASSUME NEW c \in Conns,
                 CheckPending(c) \/ LoadActive(c) \/ CheckSlot(c) \/ RemovePeerInfo(c) \/ UnroutePeer(c)
          PROVE  UNCHANGED <<slotVars, freed>> /\ Counting(phase') = Counting(phase)
      BY <2>2, <2>4 DEF CheckPending, LoadActive, CheckSlot, RemovePeerInfo, UnroutePeer, shakeVars,
                        slotVars, Phases
    <2>5. ASSUME NEW c \in Conns,
               \/ LockProtocols(c) \/ StreamOpens(c) \/ StreamFails(c)
               \/ HelloSucceeds(c) \/ HelloFails(c) \/ SavePeer(c)
               \/ RoutePeer(c) \/ DropPeer(c)
          PROVE  UNCHANGED <<slotVars, freed>> /\ Counting(phase') = Counting(phase)
      BY <2>5 DEF LockProtocols, StreamOpens, StreamFails,
                  HelloSucceeds, HelloFails, SavePeer, RoutePeer, DropPeer, netVars, slotVars
    <2> QED
      BY <2>1, <2>3, <2>4, <2>5 DEF Next, Notify, Handshake
  <1> QED
    BY <1>3, <1>4, <1>5, <1>6, <1>7, <1>8

(* A goroutine is spawned by its connection's ConnectedF and not before. *)
LEMMA SpawnedOncePreserved ==
  ASSUME TypeOK, SpawnedOnce, [Next]_vars
  PROVE  SpawnedOnce'
  <1>1. CASE UNCHANGED vars
    BY <1>1 DEF SpawnedOnce, vars, netVars, shakeVars
  <1>2. ASSUME NEW c \in Conns, OpenConn(c) \/ CloseConn(c)
        PROVE  SpawnedOnce'
    BY <1>2 DEF TypeOK, SpawnedOnce, OpenConn, CloseConn, Phase, shakeVars
  <1>3. ASSUME NEW c \in Conns, Notify(c)
        PROVE  SpawnedOnce'
    BY <1>3 DEF TypeOK, SpawnedOnce, Notify, CheckPending, LoadActive, CheckSlot, Reserve, CountPending,
                RemovePeerInfo, UnroutePeer, Phase, Spawn, shakeVars
  <1>4. ASSUME NEW c \in Conns, Handshake(c)
        PROVE  SpawnedOnce'
    <2>1. /\ shake[c] # "none" /\ phase' = phase
          /\ \A e \in Conns \ {c} : shake'[e] = shake[e]
      BY <1>4 DEF TypeOK, Handshake, LockProtocols, StreamOpens, StreamFails,
                  HelloSucceeds, HelloFails, SavePeer, RoutePeer, DropPeer,
                  Release, Finish, Stage, netVars
    <2> QED
      BY <2>1 DEF SpawnedOnce
  <1> QED
    BY <1>1, <1>2, <1>3, <1>4 DEF Next

LEMMA FreedPreserved ==
  ASSUME TypeOK, FreedWhileFinishing, SpawnedOnce, [Next]_vars
  PROVE  FreedWhileFinishing'
  <1>1. CASE UNCHANGED vars
    BY <1>1 DEF FreedWhileFinishing, vars, shakeVars
  <1>2. ASSUME NEW c \in Conns, OpenConn(c) \/ CloseConn(c)
        PROVE  FreedWhileFinishing'
    BY <1>2 DEF FreedWhileFinishing, OpenConn, CloseConn, shakeVars
  <1>3. ASSUME NEW c \in Conns, Notify(c)
        PROVE  FreedWhileFinishing'
    BY <1>3 DEF TypeOK, FreedWhileFinishing, SpawnedOnce, Notify, CheckPending, LoadActive, CheckSlot,
                Reserve, CountPending, RemovePeerInfo, UnroutePeer, Phase, Spawn, shakeVars
  <1>4. ASSUME NEW c \in Conns, Handshake(c)
        PROVE  FreedWhileFinishing'
    <2>1. CASE Release(c)
      BY <2>1 DEF TypeOK, FreedWhileFinishing, Release, Stage
    <2>2. CASE Finish(c)
      BY <2>2 DEF TypeOK, FreedWhileFinishing, Finish, Stage
    <2>3. CASE \/ LockProtocols(c) \/ StreamOpens(c) \/ StreamFails(c)
               \/ HelloSucceeds(c) \/ HelloFails(c) \/ SavePeer(c) \/ RoutePeer(c)
               \/ DropPeer(c)
      <3>1. /\ freed' = freed /\ shake[c] # "finish"
            /\ \A e \in Conns \ {c} : shake'[e] = shake[e]
        BY <2>3 DEF TypeOK, LockProtocols, StreamOpens, StreamFails,
                    HelloSucceeds, HelloFails, SavePeer, RoutePeer, DropPeer, Stage
      <3> QED
        BY <3>1 DEF FreedWhileFinishing
    <2> QED
      BY <1>4, <2>1, <2>2, <2>3 DEF Handshake
  <1> QED
    BY <1>1, <1>2, <1>3, <1>4 DEF Next

(* An owner of a pending entry stays one until it deletes the entry. *)
LEMMA OwnersPreserved ==
  ASSUME TypeOK, SpawnedOnce, PendingHasOwner, [Next]_vars
  PROVE  PendingHasOwner'
  <1>1. CASE UNCHANGED vars
    BY <1>1 DEF PendingHasOwner, ConnsOf, WillRelease, vars, netVars, shakeVars, slotVars
  <1>2. ASSUME NEW c \in Conns, Reserve(c)
        PROVE  PendingHasOwner'
    <2>1. WillRelease(c)' /\ \A e \in Conns : WillRelease(e) => WillRelease(e)'
      BY <1>2 DEF TypeOK, SpawnedOnce, WillRelease, Reserve, Phase, Spawn
    <2>2. \A q \in Peers : pending'[q] # {} => pending[q] # {} \/ q = PeerOf[c]
      BY <1>2 DEF TypeOK, Reserve
    <2> QED
      BY <2>1, <2>2 DEF PendingHasOwner, ConnsOf
  <1>3. ASSUME NEW c \in Conns, Release(c)
        PROVE  PendingHasOwner'
    <2>1. \A e \in Conns \ {c} : WillRelease(e) => WillRelease(e)'
      BY <1>3 DEF TypeOK, WillRelease, Release, Stage, netVars
    <2>2. \A q \in Peers : pending'[q] # {} => pending[q] # {} /\ q # PeerOf[c]
      BY <1>3 DEF TypeOK, Release
    <2> QED
      BY <2>1, <2>2 DEF PendingHasOwner, ConnsOf
  <1>4. ASSUME NEW c \in Conns, pending' = pending,
               \A e \in Conns : WillRelease(e) => WillRelease(e)'
        PROVE  PendingHasOwner'
    BY <1>4 DEF PendingHasOwner, ConnsOf
  <1>5. ASSUME NEW c \in Conns, OpenConn(c) \/ CloseConn(c)
        PROVE  PendingHasOwner'
    BY <1>4, <1>5 DEF TypeOK, WillRelease, OpenConn, CloseConn, Phase, shakeVars, slotVars
  <1>6. ASSUME NEW c \in Conns, \/ CheckPending(c) \/ LoadActive(c) \/ CheckSlot(c) \/ CountPending(c)
                                \/ RemovePeerInfo(c) \/ UnroutePeer(c)
        PROVE  PendingHasOwner'
    BY <1>4, <1>6 DEF TypeOK, WillRelease, CheckPending, LoadActive, CheckSlot, CountPending,
                      RemovePeerInfo, UnroutePeer, Phase, Spawn, shakeVars, slotVars
  <1>7. ASSUME NEW c \in Conns,
               \/ LockProtocols(c) \/ StreamOpens(c) \/ StreamFails(c)
               \/ HelloSucceeds(c) \/ HelloFails(c) \/ SavePeer(c)
               \/ RoutePeer(c) \/ DropPeer(c) \/ Finish(c)
        PROVE  PendingHasOwner'
    BY <1>4, <1>7 DEF TypeOK, WillRelease, LockProtocols, StreamOpens, StreamFails,
                      HelloSucceeds, HelloFails, SavePeer, RoutePeer,
                      DropPeer, Finish, Stage, netVars, slotVars
  <1> QED
    BY <1>1, <1>2, <1>3, <1>5, <1>6, <1>7 DEF Next, Notify, Handshake

(* Only addPeerInfo adds to s.peers, and DisconnectedF is what ends a live
   connection. *)
LEMMA GhostsPreserved ==
  ASSUME TypeOK, GhostsAreLateAdds, [Next]_vars
  PROVE  GhostsAreLateAdds'
  <1>1. ASSUME UNCHANGED peerVars, \A e \in Conns : Live(e) => Live(e)'
        PROVE  GhostsAreLateAdds'
    BY <1>1 DEF GhostsAreLateAdds, ConnsOf, peerVars
  <1>2. CASE UNCHANGED vars
    BY <1>1, <1>2 DEF Live, vars, netVars
  <1>3. ASSUME NEW c \in Conns, OpenConn(c) \/ CloseConn(c)
        PROVE  GhostsAreLateAdds'
    BY <1>1, <1>3 DEF TypeOK, Live, OpenConn, CloseConn, Phase
  <1>4. ASSUME NEW c \in Conns, \/ CheckPending(c) \/ LoadActive(c) \/ CheckSlot(c) \/ Reserve(c)
                                \/ CountPending(c) \/ UnroutePeer(c)
        PROVE  GhostsAreLateAdds'
    BY <1>1, <1>4 DEF TypeOK, Live, CheckPending, LoadActive, CheckSlot, Reserve, CountPending,
                      UnroutePeer, Phase
  <1>5. ASSUME NEW c \in Conns,
               \/ LockProtocols(c) \/ StreamOpens(c) \/ StreamFails(c)
               \/ HelloSucceeds(c) \/ HelloFails(c) \/ RoutePeer(c)
               \/ DropPeer(c) \/ Release(c) \/ Finish(c)
        PROVE  GhostsAreLateAdds'
    BY <1>1, <1>5 DEF Live, LockProtocols, StreamOpens, StreamFails,
                      HelloSucceeds, HelloFails, RoutePeer, DropPeer, Release, Finish,
                      netVars
  <1>6. ASSUME NEW c \in Conns, SavePeer(c)
        PROVE  GhostsAreLateAdds'
    <2>1. PeerOf[c] \in Peers /\ phase' = phase
      BY <1>6, ConnsAssumption DEF SavePeer, netVars
    <2>2. /\ \A q \in Peers \ {PeerOf[c]} : connDirections'[q] = connDirections[q]
          /\ lateAdds \subseteq lateAdds'
      BY <1>6 DEF TypeOK, SavePeer, peerVars
    <2>3. \/ UNCHANGED peerVars
          \/ PeerOf[c] \in lateAdds'
          \/ \E e \in ConnsOf(PeerOf[c]) : Live(e)
      BY <1>6 DEF SavePeer
    <2>4. \A e \in Conns : Live(e) <=> Live(e)'
      BY <2>1 DEF Live
    <2> QED
      BY <2>1, <2>2, <2>3, <2>4 DEF GhostsAreLateAdds, ConnsOf, peerVars
  <1>7. ASSUME NEW c \in Conns, RemovePeerInfo(c)
        PROVE  GhostsAreLateAdds'
    <2>1. PeerOf[c] \in Peers /\ \A e \in Conns \ {c} : Live(e) => Live(e)'
      BY <1>7, ConnsAssumption DEF TypeOK, RemovePeerInfo, Phase, Live
    <2>2. /\ connDirections'[PeerOf[c]] = {}
          /\ \A q \in Peers \ {PeerOf[c]} : /\ connDirections'[q] = connDirections[q]
                                            /\ q \in lateAdds => q \in lateAdds'
      BY <1>7, <2>1 DEF TypeOK, RemovePeerInfo, HasEntry, peerVars
    <2> QED
      BY <2>1, <2>2 DEF GhostsAreLateAdds, ConnsOf
  <1> QED
    BY <1>2, <1>3, <1>4, <1>5, <1>6, <1>7 DEF Next, Notify, Handshake

-----------------------------------------------------------------------------
LEMMA ConnInductive == ConnInv /\ [Next]_vars => ConnInv'
  BY TypePreserved, SpawnedOncePreserved, FreedPreserved, CountsPreserved,
     ReservationsPreserved, OwnersPreserved, GhostsPreserved DEF ConnInv

LEMMA ConnInvariant == Spec => []ConnInv
  BY ConnInitial, ConnInductive, PTL DEF Spec

(* The variables keep their types: no sequence of handshakes and disconnects
   brings a connection counter or the bootnode counter below zero. *)
THEOREM ConnTypeOK == Spec => []TypeOK
  <1>1. ConnInv => TypeOK
    BY DEF ConnInv
  <1> QED
    BY <1>1, ConnInvariant, PTL

(* The counters that decide about free slots never drift from the peer table,
   however many connections a peer has. *)
THEOREM CountersExact == Spec => []CountsMatchPeers
  <1>1. ConnInv => CountsMatchPeers
    BY DEF ConnInv
  <1> QED
    BY <1>1, ConnInvariant, PTL

(* No reservation leaks: every pending entry has a goroutine that will delete it. *)
THEOREM ReservationsSafe == Spec => []PendingHasOwner
  <1>1. ConnInv => PendingHasOwner
    BY DEF ConnInv
  <1> QED
    BY <1>1, ConnInvariant, PTL

(* The pending counters account for every pending entry, also when several connections
   of a peer share the one entry pendingPeerConnections has for it. *)
THEOREM ReservationsExact == Spec => []ReservationsAccounted
  <1>1. ConnInv => ReservationsAccounted
    BY DEF ConnInv
  <1> QED
    BY <1>1, ConnInvariant, PTL

(* The one way a peer without connections stays in s.peers is a handshake that
   saved it after its last disconnect was handled. *)
THEOREM OnlyLateAddsGhost == Spec => []GhostsAreLateAdds
  <1>1. ConnInv => GhostsAreLateAdds
    BY DEF ConnInv
  <1> QED
    BY <1>1, ConnInvariant, PTL

-----------------------------------------------------------------------------
(* The refinement. *)

LEMMA SameCardinality ==
  ASSUME NEW S
  PROVE  Table!Cardinality(S) = Cardinality(S)
  BY DEF Cardinality, Table!Cardinality

LEMMA LinkedAreActive ==
  /\ Table!Dirs = Dirs
  /\ \A d \in Dirs : Table!Linked(d) = ActivePeers(d) /\ Table!Linked(d)' = ActivePeers(d)'
  <1>1. Table!Dirs = Dirs
    BY DEF Dirs, Table!Dirs
  <1>2. \A d \in Dirs : Table!Linked(d) = ActivePeers(d)
    BY DEF Links, ActivePeers, Table!Linked
  <1>3. \A d \in Dirs : Table!Linked(d)' = ActivePeers(d)'
    BY DEF Links, ActivePeers, Table!Linked
  <1> QED
    BY <1>1, <1>2, <1>3

(* The counters of the state a step leads to are those PeerTable asks for. *)
LEMMA CountsFollowLinks ==
  ASSUME TypeOK, CountsMatchPeers, [Next]_vars
  PROVE  Table!Counted
  <1>1. CountsMatchPeers' /\ connCount' \in [Dirs -> Nat]
    BY CountsPreserved
  <1>2. connCount' = [d \in Dirs |-> Cardinality(Table!Linked(d)')]
    BY <1>1, LinkedAreActive DEF CountsMatchPeers
  <1>3. bootnodeConnCount' = Cardinality(Table!Linked("in")' \cap Bootnodes)
                             + Cardinality(Table!Linked("out")' \cap Bootnodes)
    BY <1>1, LinkedAreActive DEF CountsMatchPeers, Dirs
  <1> QED
    BY <1>2, <1>3, LinkedAreActive, SameCardinality DEF Table!Counted

LEMMA TableInit == Init => Table!Init
  BY DEF Init, Links, Table!Init, Dirs, Table!Dirs

LEMMA TableStep ==
  ASSUME TypeOK, CountsMatchPeers, [Next]_vars
  PROVE  [Table!Next]_(Table!vars)
  <1>1. Table!Counted
    BY CountsFollowLinks
  <1>2. CASE \E c \in Conns : SavePeer(c) /\ ~AlreadyActive(PeerOf[c], DirOf[c])
    <2> PICK c \in Conns : SavePeer(c) /\ ~AlreadyActive(PeerOf[c], DirOf[c])
      BY <1>2
    <2> DEFINE l == <<PeerOf[c], DirOf[c]>>
    <2>1. PeerOf[c] \in Peers /\ DirOf[c] \in Dirs
      BY ConnsAssumption
    <2>2. l \notin Links
      BY DEF Links, AlreadyActive
    <2>3. Links' = Links \cup {l}
      BY <2>1 DEF TypeOK, SavePeer, Links
    <2>4. Table!Gain(PeerOf[c], DirOf[c])
      BY <1>1, <2>2, <2>3 DEF Table!Gain
    <2> QED
      BY <2>1, <2>4, LinkedAreActive DEF Table!Next
  <1>3. CASE \E c \in Conns : RemovePeerInfo(c) /\ HasEntry(PeerOf[c])
    <2> PICK c \in Conns : RemovePeerInfo(c) /\ HasEntry(PeerOf[c])
      BY <1>3
    <2>1. PeerOf[c] \in Peers
      BY ConnsAssumption
    <2>2. Links' = Links \ ({PeerOf[c]} \X Dirs)
      BY <2>1 DEF TypeOK, RemovePeerInfo, Links
    <2>3. Links' # Links
      <3>1. PICK d \in Dirs : d \in connDirections[PeerOf[c]]
        BY <2>1 DEF TypeOK, HasEntry
      <3>2. <<PeerOf[c], d>> \in Links /\ <<PeerOf[c], d>> \notin Links'
        BY <2>1, <2>2, <3>1 DEF Links
      <3> QED
        BY <3>2
    <2>4. Table!Lose(PeerOf[c])
      BY <1>1, <2>2, <2>3, LinkedAreActive DEF Table!Lose
    <2> QED
      BY <2>1, <2>4 DEF Table!Next
  <1>4. CASE UNCHANGED peerVars
    BY <1>4 DEF peerVars, Links, Table!vars
  <1>5. \/ \E c \in Conns : SavePeer(c) /\ ~AlreadyActive(PeerOf[c], DirOf[c])
        \/ \E c \in Conns : RemovePeerInfo(c) /\ HasEntry(PeerOf[c])
        \/ UNCHANGED peerVars
    BY OnlyTableSteps
  <1> QED
    BY <1>2, <1>3, <1>4, <1>5

(* The peer table with its counters implements the abstract PeerTable. *)
THEOREM Refinement == Spec => ImplementsPeerTable
  <1>1. ConnInv /\ [Next]_vars => [Table!Next]_(Table!vars)
    BY TableStep DEF ConnInv
  <1> QED
    BY <1>1, TableInit, ConnInvariant, PTL DEF Spec, ImplementsPeerTable, Table!Spec

=============================================================================
