-------------------------- MODULE RelayClientProofs --------------------------
(***************************************************************************)
(* Proofs about the relay client and the networking key, for any programs  *)
(* that share the secrets' directory, any keys, and any relay nodes.  The  *)
(* key and the loops have no variable in common: there is an inductive     *)
(* invariant for the start-up, and one each for the table of relays and    *)
(* for the nodes learnt from answers.                                      *)
(***************************************************************************)
EXTENDS RelayClient, FiniteSetTheorems, TLAPS

USE KeysAssumption, RelaysAssumption DEF Keys

-----------------------------------------------------------------------------
(* The start-up *)

HasKey == {"create", "write", "host", "up"}

Writers == {t \in Starters : boot[t] \in {"create", "write"}}

(* The file is what a first start supposes at its step, unless it met another one. *)
StepKnows(s) ==
  /\ boot[s] = "generate" => file = Absent \/ s \in met \cup faults \/ pass # "none"
  /\ boot[s] = "create" => file = Absent \/ s \in met \/ (s \in faults /\ blind)
  /\ boot[s] = "write" => file = Torn \/ s \in met

(* Who has the key on disk, or is about to read it, meets no writer: none creates the file
   any more, and a single one may be about to write it while a reader finds it empty. *)
KeyIsSettled(s) ==
  /\ boot[s] \in {"host", "up"} => key[s] = file /\ Writers = {}
  /\ boot[s] = "read" =>
       \A t \in Writers : boot[t] = "write" /\ file = Torn /\ Writers = {t}

BootInv ==
  /\ BootTypeOK
  /\ \A s \in Starters :
       /\ boot[s] \in HasKey => key[s] \in Keys
       /\ boot[s] \notin HasKey => key[s] = NoKey
       /\ boot[s] = "read" => file # Absent
       /\ StepKnows(s)
  /\ path = "none" => \A s \in Starters : ~FirstStart(s) /\ boot[s] # "read"
  /\ \A s \in Starters : boot[s] = "unmapped" => path = "none" \/ s \in faults
  /\ \A s, t \in Starters : FirstStart(s) /\ FirstStart(t) => s = t \/ s \in met
  /\ path = "set" /\ ~blind => \A s \in Starters : KeyIsSettled(s) \/ s \in met

SomeBoots == UNCHANGED bootVars \/ \E s \in Starters : BootStep(s) \/ Crash(s)

LEMMA BootInitInv == BootInit => BootInv
  BY DEF BootInit, BootInv, BootTypeOK, BootSteps, HasKey, StepKnows, KeyIsSettled, FirstStart

LEMMA GeneratedIsKey ==
  ASSUME BootInv, NEW s \in Starters, boot[s] \in {"generate", "unmapped"}
  PROVE  GenerateKey \in Generated
  <1>1. \E g \in Generated : g # file /\ \A t \in Starters \ {s} : key[t] # g
    BY FreshKeysAssumption DEF BootInv, BootTypeOK
  <1>2. key[s] = NoKey
    BY DEF BootInv, HasKey
  <1>3. \E g \in Generated : g # file /\ \A t \in Starters : key[t] # g
    BY <1>1, <1>2
  <1> QED
    BY <1>3 DEF GenerateKey

LEMMA BootTypes ==
  ASSUME BootInv, NEW s \in Starters, BootStep(s) \/ Crash(s)
  PROVE  BootTypeOK'
  <1> USE DEF BootInv, BootTypeOK, BootSteps, To, Faulty
  <1>0. ASSUME UNCHANGED blind PROVE blind' \in BOOLEAN
    BY <1>0
  <1>1. CASE HasSecret(s)
    BY <1>0, <1>1 DEF HasSecret, Unmapped, NoSecret, FoundSecret
  <1>2. CASE ReadLibp2pKey(s)
    BY <1>0, <1>2 DEF ReadLibp2pKey, Parses
  <1>3. CASE SetUnmapped(s)
    BY <1>0, <1>3, GeneratedIsKey DEF SetUnmapped
  <1>4. CASE SetSecret(s)
    <2>1. blind' \in BOOLEAN
      BY <1>0, <1>4 DEF SetSecret
    <2> QED
      BY <2>1, <1>4, GeneratedIsKey DEF SetSecret
  <1>5. CASE CreateFile(s)
    BY <1>0, <1>5 DEF CreateFile, NotSaved
  <1>6. CASE WriteFile(s)
    BY <1>0, <1>6 DEF WriteFile, NotSaved, HasKey
  <1>7. CASE NewHost(s) \/ Crash(s)
    BY <1>0, <1>7 DEF NewHost, Crash
  <1> QED
    BY <1>1, <1>2, <1>3, <1>4, <1>5, <1>6, <1>7 DEF BootStep

(* What each program knows by itself. *)
OwnKey(s) ==
  /\ boot[s] \in HasKey => key[s] \in Keys
  /\ boot[s] \notin HasKey => key[s] = NoKey
  /\ boot[s] = "read" => file # Absent
  /\ boot[s] = "unmapped" => path = "none" \/ s \in faults
  /\ path = "none" => ~FirstStart(s) /\ boot[s] # "read"

LEMMA OwnKeys ==
  ASSUME BootInv, NEW s \in Starters, BootStep(s) \/ Crash(s)
  PROVE  \A t \in Starters : OwnKey(t)'
  <1> USE DEF BootInv, BootTypeOK, To, HasKey, OwnKey, FirstStart, Faulty
  <1>1. CASE HasSecret(s)
    BY <1>1 DEF HasSecret, Unmapped, NoSecret, FoundSecret, Unreadable
  <1>2. CASE ReadLibp2pKey(s)
    BY <1>2 DEF ReadLibp2pKey, Parses
  <1>3. CASE SetUnmapped(s)
    BY <1>3, GeneratedIsKey DEF SetUnmapped
  <1>4. CASE SetSecret(s)
    BY <1>4, GeneratedIsKey DEF SetSecret
  <1>5. CASE CreateFile(s)
    BY <1>5 DEF CreateFile, NotSaved
  <1>6. CASE WriteFile(s)
    BY <1>6 DEF WriteFile, NotSaved
  <1>7. CASE NewHost(s) \/ Crash(s)
    BY <1>7 DEF NewHost, Crash
  <1> QED
    BY <1>1, <1>2, <1>3, <1>4, <1>5, <1>6, <1>7 DEF BootStep

(* Two first starts at a time have met, and a single one finds the file as it left it. *)
LEMMA FirstStartsMeet ==
  ASSUME BootInv, NEW s \in Starters, BootStep(s) \/ Crash(s)
  PROVE  \A t \in Starters :
           /\ StepKnows(t)'
           /\ \A u \in Starters : FirstStart(t)' /\ FirstStart(u)' => t = u \/ t \in met'
  <1> USE DEF BootInv, BootTypeOK, To, HasKey, StepKnows, FirstStart, Faulty
  <1>1. CASE HasSecret(s)
    <2>1. CASE Unmapped(s) \/ FoundSecret(s)
      BY <1>1, <2>1 DEF HasSecret, Unmapped, FoundSecret
    <2>2. CASE NoSecret(s)
      BY <1>1, <2>2 DEF HasSecret, NoSecret, Unreadable
    <2> QED
      BY <1>1, <2>1, <2>2 DEF HasSecret
  <1>2. CASE ReadLibp2pKey(s)
    BY <1>2 DEF ReadLibp2pKey
  <1>3. CASE SetUnmapped(s)
    BY <1>3 DEF SetUnmapped
  <1>4. CASE SetSecret(s)
    BY <1>4 DEF SetSecret
  <1>5. CASE CreateFile(s)
    BY <1>5 DEF CreateFile, NotSaved
  <1>6. CASE WriteFile(s)
    BY <1>6 DEF WriteFile, NotSaved
  <1>7. CASE NewHost(s) \/ Crash(s)
    BY <1>7 DEF NewHost, Crash
  <1> QED
    BY <1>1, <1>2, <1>3, <1>4, <1>5, <1>6, <1>7 DEF BootStep

LEMMA KeysSettle ==
  ASSUME BootInv, NEW s \in Starters, BootStep(s) \/ Crash(s), path' = "set", ~blind',
         NEW t \in Starters, t \notin met'
  PROVE  KeyIsSettled(t)'
  <1> USE DEF BootInv, BootTypeOK, To, HasKey, KeyIsSettled, Writers, Faulty
  <1>0. path = "set" /\ ~blind
    BY DEF BootStep, HasSecret, ReadLibp2pKey, SetUnmapped, SetSecret, CreateFile, WriteFile,
       NewHost, Crash
  <1>1. CASE HasSecret(s)
    <2>1. CASE Unmapped(s) \/ NoSecret(s)
      BY <1>0, <1>1, <2>1 DEF HasSecret, Unmapped, NoSecret
    <2>2. CASE FoundSecret(s)
      BY <1>0, <1>1, <2>2 DEF HasSecret, FoundSecret, Unreadable, StepKnows, FirstStart
    <2> QED
      BY <1>1, <2>1, <2>2 DEF HasSecret
  <1>2. CASE ReadLibp2pKey(s)
    BY <1>0, <1>2 DEF ReadLibp2pKey, Parses
  <1>3. CASE SetUnmapped(s)
    BY <1>0, <1>3 DEF SetUnmapped
  <1>4. CASE SetSecret(s)
    BY <1>0, <1>4 DEF SetSecret
  <1>5. CASE CreateFile(s)
    BY <1>0, <1>5 DEF CreateFile, NotSaved
  <1>6. CASE WriteFile(s)
    BY <1>0, <1>6 DEF WriteFile, NotSaved, FirstStart
  <1>7. CASE NewHost(s) \/ Crash(s)
    BY <1>0, <1>7 DEF NewHost, Crash
  <1> QED
    BY <1>1, <1>2, <1>3, <1>4, <1>5, <1>6, <1>7 DEF BootStep

LEMMA BootInductive ==
  ASSUME BootInv, SomeBoots
  PROVE  BootInv'
  <1>1. CASE UNCHANGED bootVars
    BY <1>1 DEF bootVars, BootInv, BootTypeOK, StepKnows, KeyIsSettled, Writers, FirstStart
  <1>2. ASSUME NEW s \in Starters, BootStep(s) \/ Crash(s) PROVE BootInv'
    BY <1>2, BootTypes, OwnKeys, FirstStartsMeet, KeysSettle DEF BootInv, OwnKey
  <1> QED
    BY <1>1, <1>2 DEF SomeBoots

LEMMA NextBoots == [Next]_vars => SomeBoots
  <1> USE DEF SomeBoots
  <1> SUFFICES ASSUME [Next]_vars PROVE SomeBoots
    OBVIOUS
  <1>1. CASE Boot
    BY <1>1 DEF Boot
  <1>2. CASE OthersBoot
    BY <1>2 DEF OthersBoot
  <1>3. CASE CrashClient
    BY <1>3 DEF CrashClient
  <1>4. CASE StartRelayReserv \/ StartAlive
    BY <1>4 DEF StartRelayReserv, StartAlive, Start
  <1>5. CASE ReceiveEvent \/ Close
    BY <1>5 DEF ReceiveEvent, Close
  <1>6. CASE \E r \in Relays : Disconnect(r) \/ DisconnectedF(r) \/ Expire(r)
    BY <1>6 DEF Disconnect, DisconnectedF, Expire
  <1>7. ASSUME NEW g \in Loops, LoopStep(g) \/ HandleHello(g) \/ HelloRefused(g) PROVE SomeBoots
    BY <1>7 DEF LoopStep, HandleHello, KeepAliveStep, ReservStep, Pick, WaitForApplication,
       NoAliveClient, HelloFails, HelloRefused, HelloEnds, HelloReturns, StoreNodes,
       NewAliveClient, Return, Tick, Wake, ConnectToRandomRelayNodes, DropExpired, Reserve,
       AddRelayPeerInfo
  <1>8. CASE UNCHANGED vars
    BY <1>8 DEF vars
  <1> QED
    BY <1>1, <1>2, <1>3, <1>4, <1>5, <1>6, <1>7, <1>8 DEF Next

LEMMA BootInvariant == Spec => []BootInv
  <1>1. Init => BootInv
    BY BootInitInv DEF Init
  <1>2. BootInv /\ [Next]_vars => BootInv'
    BY NextBoots, BootInductive
  <1> QED
    BY <1>1, <1>2, PTL DEF Spec

(* Only CreateFile and WriteFile write the file; they find no key in it, unless two first
   starts met. *)
LEMMA KeyNotLost ==
  ASSUME BootInv, SomeBoots
  PROVE  KeyStays
  <1> SUFFICES ASSUME file \in Keys, file' # file, ~blind
               PROVE  \E s \in met : boot[s] \in {"create", "write"}
    BY DEF KeyStays
  <1>1. PICK s \in Starters : CreateFile(s) \/ WriteFile(s)
    BY DEF SomeBoots, bootVars, BootStep, HasSecret, ReadLibp2pKey, SetUnmapped, SetSecret,
       NewHost, Crash
  <1>2. boot[s] \in {"create", "write"}
    BY <1>1 DEF CreateFile, WriteFile
  <1>3. s \in met
    BY <1>2, KeysAssumption DEF BootInv, StepKnows
  <1> QED
    BY <1>2, <1>3

(* Whatever programs start, end and crash, and whatever calls of the file system fail, a
   program that got past its key runs with the key on disk, and that key stays there for
   the next start, unless two first starts met or a failing os.Stat hid the file. *)
THEOREM PeerIsSame == Spec => SamePeer
  <1>1. BootInv => KeyOnDisk
    BY DEF BootInv, KeyIsSettled, KeyOnDisk
  <1>2. BootInv /\ [Next]_vars => [KeyStays]_bootVars
    BY NextBoots, KeyNotLost
  <1> QED
    BY <1>1, <1>2, BootInvariant, PTL DEF Spec, SamePeer

LEMMA FailureHasReason ==
  ASSUME BootInv, SomeBoots, NEW s \in Starters, boot[s] # "nokey", boot'[s] = "nokey"
  PROVE  file = Torn \/ s \in met' \cup faults' \/ pass # "none"
  <1> USE DEF BootInv, BootTypeOK, To, Faulty, StepKnows
  <1>1. PICK t \in Starters : BootStep(t) \/ Crash(t)
    BY DEF SomeBoots, bootVars
  <1>2. CASE HasSecret(t) \/ NewHost(t) \/ Crash(t)
    BY <1>2 DEF HasSecret, Unmapped, NoSecret, FoundSecret, NewHost, Crash
  <1>3. CASE ReadLibp2pKey(t)
    BY <1>3 DEF ReadLibp2pKey, Parses
  <1>4. CASE SetUnmapped(t)
    BY <1>4 DEF SetUnmapped
  <1>5. CASE SetSecret(t)
    BY <1>5 DEF SetSecret
  <1>6. CASE CreateFile(t)
    BY <1>6 DEF CreateFile, NotSaved
  <1>7. CASE WriteFile(t)
    BY <1>7 DEF WriteFile, NotSaved
  <1> QED
    BY <1>1, <1>2, <1>3, <1>4, <1>5, <1>6, <1>7 DEF BootStep

(* A start that gets no key had a call of the file system fail, found an empty file, met
   another first start as a first start itself, or has a password. *)
THEOREM StartFailures == Spec => SoundStartGetsKey
  <1>1. BootInv /\ [Next]_vars =>
          [\A s \in Starters :
             boot[s] # "nokey" /\ boot'[s] = "nokey" =>
               file = Torn \/ s \in met' \cup faults' \/ pass # "none"]_bootVars
    BY NextBoots, FailureHasReason
  <1> QED
    BY <1>1, BootInvariant, PTL DEF Spec, SoundStartGetsKey

-----------------------------------------------------------------------------
(* Types *)

LEMMA OwnInitTypes == Init => TypeOK
  <1> SUFFICES ASSUME Init PROVE TypeOK
    OBVIOUS
  <1>1. BootTypeOK
    BY BootInitInv DEF Init, BootInv
  <1> QED
    BY <1>1 DEF Init, OwnInit, TypeOK, Loops, LoopSteps

(* The types of what the two loops, the notifications and the calls work on; those of the
   start-up are known. *)
LEMMA TableTypes ==
  ASSUME TypeOK, BootTypeOK', NEW r \in Relays, Disconnect(r) \/ DisconnectedF(r) \/ Expire(r)
  PROVE  TypeOK'
  <1> USE DEF TypeOK, tableVars, nodeVars, netVars, loopVars, callVars
  <1>1. CASE Disconnect(r)
    BY <1>1 DEF Disconnect, Disconnects
  <1>2. CASE DisconnectedF(r)
    BY <1>2 DEF DisconnectedF, RemoveRelayPeerInfo
  <1>3. CASE Expire(r)
    BY <1>3 DEF Expire
  <1> QED
    BY <1>1, <1>2, <1>3

LEMMA ReservTypes ==
  ASSUME TypeOK, BootTypeOK', ReservStep
  PROVE  TypeOK'
  <1> USE DEF TypeOK, tableVars, nodeVars, netVars, loopVars, callVars, Loops, LoopSteps, Go, GoOn, At
  <1>1. CASE Wake
    BY <1>1 DEF Wake
  <1>2. CASE ConnectToRandomRelayNodes
    BY <1>2 DEF ConnectToRandomRelayNodes, NonConnectedNodes
  <1>3. ASSUME NEW r \in Relays, DropExpired(r) PROVE TypeOK'
    <2>1. /\ relayPeers' \subseteq Relays /\ expired' \subseteq relayPeers'
          /\ late' \subseteq relayPeers' /\ emptied' \subseteq Loops
      BY <1>3 DEF DropExpired, RemoveRelayPeerInfo
    <2>2. conn' \subseteq Relays /\ gone' \subseteq Relays /\ peers' \subseteq Relays /\ cut' \subseteq Loops
      BY <1>3 DEF DropExpired, Disconnects
    <2> QED
      BY <1>3, <2>1, <2>2 DEF DropExpired
  <1>4. ASSUME NEW r \in Relays, Reserve(r) PROVE TypeOK'
    BY <1>4 DEF Reserve, Connects
  <1>5. ASSUME NEW r \in Relays, AddRelayPeerInfo(r) PROVE TypeOK'
    BY <1>5 DEF AddRelayPeerInfo
  <1> QED
    BY <1>1, <1>2, <1>3, <1>4, <1>5 DEF ReservStep

LEMMA KeepAliveTypes ==
  ASSUME TypeOK, BootTypeOK', NEW g \in Loops, KeepAliveStep(g) \/ HandleHello(g) \/ HelloRefused(g)
  PROVE  TypeOK'
  <1> USE DEF TypeOK, tableVars, nodeVars, netVars, loopVars, callVars, LoopSteps, Go, GoOn, At
  <1>1. CASE Pick(g)
    BY <1>1 DEF Pick
  <1>2. CASE WaitForApplication(g)
    BY <1>2 DEF WaitForApplication
  <1>3. CASE NoAliveClient(g)
    BY <1>3 DEF NoAliveClient, Forget
  <1>4. CASE HelloFails(g) \/ HelloRefused(g)
    BY <1>4 DEF HelloFails, HelloRefused, HelloEnds, Forget
  <1>5. CASE HelloReturns(g)
    <2>1. saved' \subseteq Loops /\ cut' \subseteq Loops
      BY <1>5 DEF HelloReturns, SavedFor
    <2>2. /\ sent' \in [Loops -> Relays \cup {None}] /\ answer' \in [Loops -> SUBSET Addrs]
          /\ emptied' \subseteq Loops
      BY <1>5 DEF HelloReturns, Forget
    <2>3. /\ arr' \in [Loops -> SUBSET Relays] /\ relaynodesMap' \subseteq Relays
          /\ step' \in [Loops -> LoopSteps] /\ target' \in [Loops -> Relays \cup {None}]
      BY <1>5 DEF HelloReturns, LoadNodes, IsNew
    <2>4. mixed' \in BOOLEAN
      BY <1>5, Zenon DEF HelloReturns
    <2> QED
      BY <1>5, <2>1, <2>2, <2>3, <2>4 DEF HelloReturns
  <1>6. CASE StoreNodes(g)
    BY <1>6 DEF StoreNodes
  <1>7. ASSUME NEW r \in Relays, NewAliveClient(g, r) PROVE TypeOK'
    <2>1. saved' \subseteq Loops /\ conn' \subseteq Relays /\ peers' \subseteq Relays
      BY <1>7 DEF NewAliveClient, SavedFor, Connects
    <2> QED
      BY <1>7, <2>1 DEF NewAliveClient, Connects
  <1>8. CASE HandleHello(g)
    BY <1>8 DEF HandleHello
  <1> QED
    BY <1>1, <1>2, <1>3, <1>4, <1>5, <1>6, <1>7, <1>8 DEF KeepAliveStep

LEMMA StartTypes ==
  ASSUME TypeOK, BootTypeOK',
         \/ ReceiveEvent \/ StartRelayReserv \/ StartAlive \/ Close
         \/ Boot \/ OthersBoot \/ CrashClient \/ Tick \/ UNCHANGED vars
         \/ \E g \in Loops : Return(g)
  PROVE  TypeOK'
  <1> USE DEF TypeOK, tableVars, nodeVars, netVars, loopVars, callVars, LoopSteps, Loops, Go, GoOn, At
  <1>1. CASE ReceiveEvent \/ Close
    BY <1>1 DEF ReceiveEvent, Close
  <1>2. CASE StartRelayReserv \/ StartAlive
    <2>1. step' \in [Loops -> LoopSteps]
      BY <1>2 DEF StartRelayReserv, StartAlive, Start
    <2>2. UNCHANGED <<tableVars, nodeVars, netVars, target, snapshot, arr, callVars, closed, application>>
      BY <1>2 DEF StartRelayReserv, StartAlive, Start
    <2> QED
      BY <2>1, <2>2
  <1>3. CASE Boot \/ OthersBoot \/ UNCHANGED vars
    BY <1>3 DEF Boot, OthersBoot, ownVars, vars
  <1>4. CASE CrashClient
    BY <1>4 DEF CrashClient, Restarted
  <1>5. CASE Tick \/ \E g \in Loops : Return(g)
    <2>1. step' \in [Loops -> LoopSteps]
      BY <1>5 DEF Tick, Return
    <2>2. UNCHANGED <<tableVars, nodeVars, netVars, target, snapshot, arr, callVars, closed, application>>
      BY <1>5 DEF Tick, Return
    <2> QED
      BY <2>1, <2>2
  <1> QED
    BY <1>1, <1>2, <1>3, <1>4, <1>5

LEMMA RelayTypes ==
  ASSUME TypeOK, BootTypeOK', [Next]_vars
  PROVE  TypeOK'
  <1>1. ASSUME NEW g \in Loops, LoopStep(g) \/ HandleHello(g) \/ HelloRefused(g) PROVE TypeOK'
    BY <1>1, ReservTypes, KeepAliveTypes, StartTypes DEF LoopStep
  <1> QED
    BY <1>1, TableTypes, StartTypes DEF Next

(* The relay client keeps to its types: only relays that are in the table are noted as
   expired or late, and only nodes that were configured or named in an answer are known. *)
THEOREM RelayTypeOK == Spec => []TypeOK
  <1>1. BootInv' => BootTypeOK'
    BY DEF BootInv
  <1>2. TypeOK /\ BootInv' /\ [Next]_vars => TypeOK'
    BY <1>1, RelayTypes
  <1> QED
    BY <1>2, OwnInitTypes, BootInvariant, PTL DEF Spec

-----------------------------------------------------------------------------
(* The table of relays *)

(* A relay is reserved only while the table is empty, and nobody else adds one. *)
TableInv ==
  /\ \A r, s \in relayPeers : r = s
  /\ step["resv"] \in {"reserve", "add"} => relayPeers = {}
  /\ \A r \in relayPeers : r \in conn \/ r \in gone \/ r \in late

LEMMA FewIsNone ==
  ASSUME TypeOK
  PROVE  FewRelays <=> relayPeers = {}
  <1>1. IsFiniteSet(relayPeers)
    BY FS_Subset DEF TypeOK
  <1>2. Cardinality(relayPeers) \in Nat /\ (Cardinality(relayPeers) = 0 <=> relayPeers = {})
    BY <1>1, FS_CardinalityType, FS_EmptySet
  <1> QED
    BY <1>2 DEF FewRelays, MinimumRelayConnections

(* Steps that bring no relay into the table and end no connection unnoticed. *)
LEMMA TableStays ==
  ASSUME TableInv, relayPeers' \subseteq relayPeers, conn \cup gone \subseteq conn' \cup gone',
         late' = late \cap relayPeers',
         step'["resv"] \in {"reserve", "add"} => step["resv"] \in {"reserve", "add"} \/ relayPeers = {}
  PROVE  TableInv'
  BY DEF TableInv

LEMMA ReservTable ==
  ASSUME TypeOK, TableInv, ReservStep
  PROVE  TableInv'
  <1> USE DEF tableVars, netVars, Loops, Go, GoOn, At, TypeOK
  <1>1. CASE Wake
    BY <1>1, TableStays DEF Wake
  <1>2. CASE ConnectToRandomRelayNodes
    BY <1>2, TableStays, FewIsNone DEF ConnectToRandomRelayNodes
  <1>3. ASSUME NEW r \in Relays, DropExpired(r) PROVE TableInv'
    BY <1>3 DEF DropExpired, RemoveRelayPeerInfo, Disconnects, TableInv
  <1>4. ASSUME NEW r \in Relays, Reserve(r) PROVE TableInv'
    BY <1>4 DEF Reserve, Connects, TableInv
  <1>5. ASSUME NEW r \in Relays, AddRelayPeerInfo(r) PROVE TableInv'
    BY <1>5 DEF AddRelayPeerInfo, TableInv
  <1> QED
    BY <1>1, <1>2, <1>3, <1>4, <1>5 DEF ReservStep

LEMMA KeepAliveTable ==
  ASSUME TypeOK, TableInv, NEW g \in Loops, KeepAliveStep(g) \/ HandleHello(g) \/ HelloRefused(g)
  PROVE  TableInv'
  <1> USE DEF tableVars, netVars, Loops, Go, GoOn, At, TypeOK
  <1>1. CASE Pick(g)
    BY <1>1, TableStays DEF Pick
  <1>2. CASE WaitForApplication(g)
    BY <1>2, TableStays DEF WaitForApplication
  <1>3. CASE NoAliveClient(g)
    BY <1>3, TableStays DEF NoAliveClient
  <1>4. CASE HelloFails(g) \/ HelloRefused(g)
    BY <1>4, TableStays DEF HelloFails, HelloRefused, HelloEnds
  <1>5. CASE HelloReturns(g)
    BY <1>5, TableStays DEF HelloReturns
  <1>6. CASE StoreNodes(g)
    BY <1>6, TableStays DEF StoreNodes
  <1>7. ASSUME NEW r \in Relays, NewAliveClient(g, r) PROVE TableInv'
    BY <1>7, TableStays DEF NewAliveClient, Connects
  <1>8. CASE HandleHello(g)
    BY <1>8, TableStays DEF HandleHello
  <1> QED
    BY <1>1, <1>2, <1>3, <1>4, <1>5, <1>6, <1>7, <1>8 DEF KeepAliveStep

LEMMA TableInductive ==
  ASSUME TypeOK, TableInv, [Next]_vars
  PROVE  TableInv'
  <1> USE DEF tableVars, netVars, loopVars, ownVars, Loops, Go, At, TypeOK
  <1>1. ASSUME NEW g \in Loops, Return(g) \/ Tick PROVE TableInv'
    BY <1>1, TableStays DEF Return, Tick
  <1>2. ASSUME NEW g \in Loops, LoopStep(g) \/ HandleHello(g) \/ HelloRefused(g) PROVE TableInv'
    BY <1>1, <1>2, ReservTable, KeepAliveTable DEF LoopStep
  <1>3. ASSUME NEW r \in Relays, Disconnect(r) \/ DisconnectedF(r) \/ Expire(r) PROVE TableInv'
    BY <1>3 DEF Disconnect, Disconnects, DisconnectedF, RemoveRelayPeerInfo, Expire, TableInv
  <1>4. CASE ReceiveEvent \/ Close \/ Boot \/ OthersBoot \/ UNCHANGED vars
    BY <1>4, TableStays DEF ReceiveEvent, Close, Boot, OthersBoot, vars
  <1>5. CASE StartRelayReserv \/ StartAlive
    BY <1>5, TableStays DEF StartRelayReserv, StartAlive, Start
  <1>6. CASE CrashClient
    BY <1>6 DEF CrashClient, Restarted, TableInv
  <1> QED
    BY <1>2, <1>3, <1>4, <1>5, <1>6 DEF Next

(* Whatever relays come and go, the client never holds two, and the one that it holds is
   connected, on its way out, or was added too late for its disconnect. *)
THEOREM RelaySafe == Spec => []OneLiveRelay
  <1>1. Init => TableInv
    BY DEF Init, OwnInit, TableInv, Loops
  <1>2. TypeOK /\ TableInv /\ [Next]_vars => TableInv'
    BY TableInductive
  <1>3. TypeOK /\ TableInv => OneLiveRelay
    <2> SUFFICES ASSUME TypeOK, TableInv PROVE OneLiveRelay
      OBVIOUS
    <2>1. relayPeers = {} \/ \E r : relayPeers = {r}
      BY DEF TableInv
    <2>2. Cardinality(relayPeers) = 0 \/ Cardinality(relayPeers) = 1
      BY <2>1, FS_EmptySet, FS_Singleton
    <2> QED
      BY <2>2 DEF TableInv, OneLiveRelay, MinimumRelayConnections
  <1> QED
    BY <1>1, <1>2, <1>3, RelayTypeOK, PTL DEF Spec

-----------------------------------------------------------------------------
(* The nodes learnt from answers *)

(* Between the map and the array there is one loop, and it knows what is missing. *)
NodesInOrder ==
  /\ \A g, h \in Loops : At(g, "store") /\ At(h, "store") => g = h
  /\ \A g \in Loops : At(g, "store") => arr[g] = relaynodesMap
  /\ (\A g \in Loops : ~At(g, "store")) => relaynodeArr = relaynodesMap

NodesInv == mixed = FALSE => NodesInOrder

LEMMA NodesStay ==
  ASSUME NodesInv, UNCHANGED <<mixed, arr, relaynodeArr, relaynodesMap>>,
         \A g \in Loops : step'[g] = "store" <=> step[g] = "store"
  PROVE  NodesInv'
  BY DEF NodesInv, NodesInOrder, At

LEMMA KeepAliveNodes ==
  ASSUME TypeOK, NodesInv, NEW g \in Loops, KeepAliveStep(g) \/ HandleHello(g) \/ HelloRefused(g)
  PROVE  NodesInv'
  <1> USE DEF nodeVars, Go, GoOn, At, TypeOK
  <1>1. CASE Pick(g)
    BY <1>1, NodesStay DEF Pick
  <1>2. CASE WaitForApplication(g)
    BY <1>2, NodesStay DEF WaitForApplication
  <1>3. CASE NoAliveClient(g)
    BY <1>3, NodesStay DEF NoAliveClient
  <1>4. CASE HelloFails(g) \/ HelloRefused(g)
    BY <1>4, NodesStay DEF HelloFails, HelloRefused, HelloEnds, Hello
  <1>5. CASE HelloReturns(g)
    <2>1. CASE UNCHANGED <<arr, relaynodesMap, mixed>> /\ GoOn(g, "wait", None)
      BY <1>5, <2>1, NodesStay DEF HelloReturns
    <2>2. CASE /\ GoOn(g, "store", None)
               /\ \E d \in Relays \cup {None} : LoadNodes(g, d)
               /\ mixed' = (mixed \/ \E h \in Loops : At(h, "store"))
      <3> SUFFICES ASSUME mixed' = FALSE PROVE NodesInOrder'
        BY DEF NodesInv
      <3>1. mixed = FALSE /\ \A h \in Loops : step[h] # "store"
        BY <2>2, Zenon DEF TypeOK
      <3>2. relaynodeArr' = relaynodeArr /\ relaynodeArr = relaynodesMap
        BY <1>5, <3>1 DEF NodesInv, NodesInOrder, HelloReturns
      <3>3. \A h \in Loops : step'[h] = "store" => h = g
        BY <2>2, <3>1
      <3>4. arr'[g] = relaynodesMap'
        BY <2>2, <3>2 DEF LoadNodes
      <3>5. step'[g] = "store"
        BY <2>2
      <3> QED
        BY <3>3, <3>4, <3>5 DEF NodesInOrder
    <2> QED
      BY <1>5, <2>1, <2>2 DEF HelloReturns
  <1>6. CASE StoreNodes(g)
    <2> SUFFICES ASSUME mixed' = FALSE PROVE NodesInOrder'
      BY DEF NodesInv
    <2>1. mixed = FALSE
      BY <1>6 DEF StoreNodes
    <2> QED
      BY <1>6, <2>1 DEF StoreNodes, NodesInv, NodesInOrder
  <1>7. ASSUME NEW r \in Relays, NewAliveClient(g, r) PROVE NodesInv'
    BY <1>7, NodesStay DEF NewAliveClient
  <1>8. CASE HandleHello(g)
    BY <1>8, NodesStay DEF HandleHello
  <1> QED
    BY <1>1, <1>2, <1>3, <1>4, <1>5, <1>6, <1>7, <1>8 DEF KeepAliveStep

LEMMA NodesInductive ==
  ASSUME TypeOK, NodesInv, [Next]_vars
  PROVE  NodesInv'
  <1> USE DEF nodeVars, loopVars, ownVars, Go, GoOn, At, TypeOK
  <1>1. ASSUME NEW g \in Loops, Return(g) \/ Tick PROVE NodesInv'
    BY <1>1, NodesStay DEF Return, Tick
  <1>2. CASE ReservStep
    BY <1>2, NodesStay DEF ReservStep, Wake, ConnectToRandomRelayNodes, DropExpired, Reserve,
       AddRelayPeerInfo
  <1>3. ASSUME NEW g \in Loops, LoopStep(g) \/ HandleHello(g) \/ HelloRefused(g) PROVE NodesInv'
    BY <1>1, <1>2, <1>3, KeepAliveNodes DEF LoopStep
  <1>4. CASE \E r \in Relays : Disconnect(r) \/ DisconnectedF(r) \/ Expire(r)
    BY <1>4, NodesStay DEF Disconnect, DisconnectedF, Expire
  <1>5. CASE ReceiveEvent \/ Close \/ Boot \/ OthersBoot \/ UNCHANGED vars
    BY <1>5, NodesStay DEF ReceiveEvent, Close, Boot, OthersBoot, vars
  <1>6. CASE StartRelayReserv \/ StartAlive
    BY <1>6, NodesStay DEF StartRelayReserv, StartAlive, Start
  <1>7. CASE CrashClient
    BY <1>7 DEF CrashClient, Restarted, NodesInv, NodesInOrder
  <1> QED
    BY <1>3, <1>4, <1>5, <1>6, <1>7 DEF Next

(* The array and the map of relay nodes differ only between the two steps that change them,
   unless two loops took those steps at the same time. *)
THEOREM NodesSafe == Spec => []NodesAgree
  <1>1. Init => NodesInv
    BY DEF Init, OwnInit, NodesInv, NodesInOrder, Loops, At
  <1>2. TypeOK /\ NodesInv /\ [Next]_vars => NodesInv'
    BY NodesInductive
  <1>3. TypeOK /\ NodesInv => NodesAgree
    <2> SUFFICES ASSUME TypeOK, NodesInv PROVE NodesAgree
      OBVIOUS
    <2>1. CASE mixed = FALSE
      BY <2>1 DEF NodesInv, NodesInOrder, NodesAgree
    <2>2. CASE mixed = TRUE
      BY <2>2 DEF NodesAgree
    <2> QED
      BY <2>1, <2>2 DEF TypeOK
  <1> QED
    BY <1>1, <1>2, <1>3, RelayTypeOK, PTL DEF Spec

-----------------------------------------------------------------------------
(* Hellos *)

LEMMA DigitsOfByte ==
  ASSUME NEW b \in 0..255
  PROVE  /\ b < 10 => Digits(b) = <<b>>
         /\ b >= 10 /\ b < 100 =>
              \E u \in 1..9, v \in 0..9 : Digits(b) = <<u, v>> /\ b = 10 * u + v
         /\ b >= 100 =>
              \E u \in 1..2, v \in 0..9, w \in 0..9 :
                Digits(b) = <<u, v, w>> /\ b = 100 * u + 10 * v + w
  <1> DEFINE t == b \div 10
  <1>1. t \in 0..25 /\ b % 10 \in 0..9 /\ b = (10 * t) + (b % 10)
    OBVIOUS
  <1>2. ASSUME b >= 10, b < 100 PROVE t \in 1..9 /\ Digits(b) = <<t, b % 10>>
    BY <1>1, <1>2 DEF Digits
  <1>3. ASSUME b >= 100
        PROVE  /\ b \div 100 \in 1..2 /\ t % 10 \in 0..9
               /\ b = 100 * (b \div 100) + 10 * (t % 10) + (b % 10)
               /\ Digits(b) = <<b \div 100, t % 10, b % 10>>
    <2>1. b \div 100 \in 1..2
      BY <1>3
    <2>2. t % 10 \in 0..9 /\ b = 100 * (b \div 100) + 10 * (t % 10) + (b % 10)
      BY <1>1, <1>3, <2>1, SMTT(60)
    <2> QED
      BY <1>3, <2>1, <2>2 DEF Digits
  <1>4. b < 10 => Digits(b) = <<b>>
    BY DEF Digits
  <1> HIDE DEF t
  <1>5. b >= 10 /\ b < 100 => \E u \in 1..9, v \in 0..9 : Digits(b) = <<u, v>> /\ b = 10 * u + v
    BY <1>1, <1>2
  <1> QED
    BY <1>1, <1>3, <1>4, <1>5

(* The order of strings of two digits with those of one, two and three. *)
LEMMA TextOfOne ==
  ASSUME NEW x \in Nat, NEW y \in Nat, NEW u \in Nat
  PROVE  /\ TextLeq(<<x, y>>, <<u>>) <=> x < u
         /\ TextLeq(<<u>>, <<x, y>>) <=> u <= x
  <1>1. TextLeq(<<x, y>>, <<u>>) <=> x < u
    BY DEF TextLeq
  <1>2. TextLeq(<<u>>, <<x, y>>) <=> u <= x
    BY DEF TextLeq
  <1> QED
    BY <1>1, <1>2

LEMMA TextOfTwo ==
  ASSUME NEW x \in Nat, NEW y \in Nat, NEW u \in Nat, NEW v \in Nat
  PROVE  TextLeq(<<x, y>>, <<u, v>>) <=> x < u \/ (x = u /\ y <= v)
  BY DEF TextLeq

LEMMA TextOfThree ==
  ASSUME NEW x \in Nat, NEW y \in Nat, NEW u \in Nat, NEW v \in Nat, NEW w \in Nat
  PROVE  /\ TextLeq(<<x, y>>, <<u, v, w>>) <=> x < u \/ (x = u /\ y <= v)
         /\ TextLeq(<<u, v, w>>, <<x, y>>) <=> u < x \/ (u = x /\ v < y)
  <1>1. TextLeq(<<x, y>>, <<u, v, w>>) <=> x < u \/ (x = u /\ y <= v)
    BY DEF TextLeq
  <1>2. TextLeq(<<u, v, w>>, <<x, y>>) <=> u < x \/ (u = x /\ v < y)
    BY DEF TextLeq
  <1> QED
    BY <1>1, <1>2

LEMMA Inner172 ==
  ASSUME NEW b \in 0..255
  PROVE  isInner172(b) <=> b \in {2, 3} \cup (16..31) \cup (160..255)
  <1>1. Digits(16) = <<1, 6>> /\ Digits(31) = <<3, 1>>
    BY DEF Digits
  <1>2. isInner172(b) <=> TextLeq(<<1, 6>>, Digits(b)) /\ TextLeq(Digits(b), <<3, 1>>)
    BY <1>1 DEF isInner172
  <1>3. CASE b < 10
    <2>1. Digits(b) = <<b>>
      BY <1>3, DigitsOfByte
    <2>2. TextLeq(<<1, 6>>, <<b>>) <=> 1 < b
      BY TextOfOne
    <2>3. TextLeq(<<b>>, <<3, 1>>) <=> b <= 3
      BY TextOfOne
    <2> QED
      BY <1>2, <1>3, <2>1, <2>2, <2>3
  <1>4. CASE b >= 10 /\ b < 100
    <2>1. PICK u \in 1..9, v \in 0..9 : Digits(b) = <<u, v>> /\ b = 10 * u + v
      BY <1>4, DigitsOfByte
    <2>2. /\ TextLeq(<<1, 6>>, <<u, v>>) <=> 1 < u \/ (1 = u /\ 6 <= v)
          /\ TextLeq(<<u, v>>, <<3, 1>>) <=> u < 3 \/ (u = 3 /\ v <= 1)
      BY TextOfTwo
    <2> QED
      BY <1>2, <1>4, <2>1, <2>2
  <1>5. CASE b >= 100
    <2>1. PICK u \in 1..2, v \in 0..9, w \in 0..9 :
            Digits(b) = <<u, v, w>> /\ b = 100 * u + 10 * v + w
      BY <1>5, DigitsOfByte
    <2>2. TextLeq(<<1, 6>>, <<u, v, w>>) <=> 1 < u \/ (1 = u /\ 6 <= v)
      BY TextOfThree
    <2>3. TextLeq(<<u, v, w>>, <<3, 1>>) <=> u < 3 \/ (u = 3 /\ v < 1)
      BY TextOfThree
    <2> QED
      BY <1>2, <1>5, <2>1, <2>2, <2>3
  <1> QED
    BY <1>3, <1>4, <1>5

(* isInnerIp accepts every address of the private blocks, and some others. *)
LEMMA PrivateIsInner ==
  ASSUME NEW addr \in Addrs, PrivateIp(addr)
  PROVE  isInnerIp(addr)
  <1>1. addr # <<>> /\ addr[2] \in 0..255
    BY AddrsAssumption DEF PrivateIp
  <1>2. addr[2] \in 16..31 => isInner172(addr[2])
    BY <1>1, Inner172
  <1> QED
    BY <1>1, <1>2 DEF isInnerIp, PrivateIp

(* A loop that calls a relay had one in the table, or lost it and is in emptied; what the
   service answered is what it publishes for the relay named. *)
HelloInv ==
  \A g \in Loops :
    /\ step[g] \in {"app", "stream"} => relayPeers # {} \/ g \in emptied
    /\ step[g] \in Hello /\ sent[g] = None => g \in emptied
    /\ step[g] = "answer" => answer[g] = {addr \in Addrs : Published(addr, sent[g] # None)}

LEMMA HelloStays ==
  ASSUME HelloInv, UNCHANGED <<sent, answer>>, emptied \subseteq emptied',
         \A g \in Loops : step'[g] = step[g] \/ step'[g] \notin {"app", "stream"} \cup Hello,
         relayPeers' = {} => \/ relayPeers = {}
                             \/ \A g \in Loops : step[g] \in {"app", "stream"} => g \in emptied'
  PROVE  HelloInv'
  BY DEF HelloInv, Hello

LEMMA KeepAliveHello ==
  ASSUME TypeOK, HelloInv, NEW g \in Loops, KeepAliveStep(g) \/ HandleHello(g) \/ HelloRefused(g)
  PROVE  HelloInv'
  <1> USE DEF tableVars, callVars, Go, GoOn, At, TypeOK, Hello
  <1>1. CASE Pick(g)
    BY <1>1 DEF Pick, HelloInv
  <1>2. CASE WaitForApplication(g)
    BY <1>2 DEF WaitForApplication, HelloInv
  <1>3. CASE NoAliveClient(g)
    BY <1>3 DEF NoAliveClient, Forget, HelloInv
  <1>4. CASE HelloFails(g) \/ HelloRefused(g)
    BY <1>4 DEF HelloFails, HelloRefused, HelloEnds, Forget, HelloInv
  <1>5. CASE HelloReturns(g)
    BY <1>5 DEF HelloReturns, Forget, HelloInv
  <1>6. CASE StoreNodes(g)
    BY <1>6, HelloStays DEF StoreNodes
  <1>7. ASSUME NEW r \in Relays, NewAliveClient(g, r) PROVE HelloInv'
    <2>1. sent'[g] = None => g \in emptied
      BY <1>7 DEF NewAliveClient, HelloInv
    <2>2. /\ step'[g] = "call" /\ UNCHANGED <<relayPeers, emptied, answer>>
          /\ \A h \in Loops \ {g} : sent'[h] = sent[h] /\ step'[h] = step[h]
      BY <1>7 DEF NewAliveClient
    <2> QED
      BY <2>1, <2>2 DEF HelloInv
  <1>8. CASE HandleHello(g)
    BY <1>8 DEF HandleHello, HelloInv
  <1> QED
    BY <1>1, <1>2, <1>3, <1>4, <1>5, <1>6, <1>7, <1>8 DEF KeepAliveStep

LEMMA HelloInductive ==
  ASSUME TypeOK, HelloInv, [Next]_vars
  PROVE  HelloInv'
  <1> USE DEF tableVars, callVars, loopVars, ownVars, Go, GoOn, At, TypeOK, Hello
  <1>1. ASSUME NEW g \in Loops, Return(g) \/ Tick PROVE HelloInv'
    BY <1>1, HelloStays DEF Return, Tick
  <1>2. CASE ReservStep
    <2>1. CASE Wake \/ ConnectToRandomRelayNodes
      BY <2>1, HelloStays DEF Wake, ConnectToRandomRelayNodes
    <2>2. ASSUME NEW r \in Relays, DropExpired(r) PROVE HelloInv'
      BY <2>2, HelloStays DEF DropExpired, RemoveRelayPeerInfo
    <2>3. ASSUME NEW r \in Relays, Reserve(r) \/ AddRelayPeerInfo(r) PROVE HelloInv'
      BY <2>3, HelloStays DEF Reserve, AddRelayPeerInfo
    <2> QED
      BY <1>2, <2>1, <2>2, <2>3 DEF ReservStep
  <1>3. ASSUME NEW g \in Loops, LoopStep(g) \/ HandleHello(g) \/ HelloRefused(g) PROVE HelloInv'
    BY <1>1, <1>2, <1>3, KeepAliveHello DEF LoopStep
  <1>4. CASE \E r \in Relays : Disconnect(r) \/ DisconnectedF(r) \/ Expire(r)
    BY <1>4, HelloStays DEF Disconnect, DisconnectedF, RemoveRelayPeerInfo, Expire
  <1>5. CASE ReceiveEvent \/ Close \/ Boot \/ OthersBoot \/ UNCHANGED vars
    BY <1>5, HelloStays DEF ReceiveEvent, Close, Boot, OthersBoot, vars
  <1>6. CASE StartRelayReserv \/ StartAlive
    BY <1>6, HelloStays DEF StartRelayReserv, StartAlive, Start
  <1>7. CASE CrashClient
    BY <1>7 DEF CrashClient, Restarted, HelloInv
  <1> QED
    BY <1>3, <1>4, <1>5, <1>6, <1>7 DEF Next

(* A hello that names a relay is published for every address of its node; one that names
   none is not published for a private address, and was sent only if the table became
   empty during the call. *)
THEOREM HellosSafe == Spec => []HiddenNodes
  <1>1. Init => HelloInv
    BY DEF Init, OwnInit, HelloInv, Hello
  <1>2. TypeOK /\ HelloInv /\ [Next]_vars => HelloInv'
    BY HelloInductive
  <1>3. HelloInv => HiddenNodes
    <2> SUFFICES ASSUME HelloInv, NEW g \in Loops, At(g, "answer")
                 PROVE  IF sent[g] = None
                        THEN g \in emptied /\ \A addr \in answer[g] : ~PrivateIp(addr)
                        ELSE answer[g] = Addrs
      BY DEF HiddenNodes
    <2>1. /\ sent[g] = None => g \in emptied
          /\ answer[g] = {addr \in Addrs : Published(addr, sent[g] # None)}
      BY DEF HelloInv, At, Hello
    <2> QED
      BY <2>1, PrivateIsInner DEF Published
  <1> QED
    BY <1>1, <1>2, <1>3, RelayTypeOK, PTL DEF Spec
=============================================================================
