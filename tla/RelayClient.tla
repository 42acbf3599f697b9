----------------------------- MODULE RelayClient -----------------------------
(***************************************************************************)
(* The relay client (relay/relay_client.go): its start with the networking *)
(* key, the loop that reserves a slot at a relay, the loop that says hello *)
(* to it, the application events that fill the hello, and Close; with the  *)
(* relay's alive service at the other end of the call.                     *)
(*                                                                         *)
(* relayPeers, relaynodes and application are shared by goroutines, partly *)
(* without a lock: a concurrent map access that ends the process is a      *)
(* Crash.  A relay has one connection at a time.                           *)
(*                                                                         *)
(* External: libp2p (Reserve and NewStream dial if they need to and always *)
(* return, the disconnect notification comes later in a goroutine of its   *)
(* own) and gRPC (a call without a deadline ends only with an answer or    *)
(* with its stream).                                                       *)
(*                                                                         *)
(* A definition that stands just before another one of the same shape is   *)
(* a variant with a defect, used only to show that the properties notice.  *)
(***************************************************************************)
EXTENDS LocalSecrets, AliveService, FiniteSets

CONSTANTS
  Relays,       \* relay nodes other than this one
  Configured,   \* those in the configuration
  Client,       \* the starter that is this relay client
  None,
  Addrs         \* addresses the alive service may know of this node

ASSUME RelaysAssumption ==
  /\ IsFiniteSet(Relays) /\ Configured \subseteq Relays /\ None \notin Relays
  /\ Client \in Starters
ASSUME AddrsAssumption == \A addr \in Addrs : addr = <<>> \/ addr \in [1..4 -> 0..255]

Loops == {"resv", "alive"}

VARIABLES
  conn,         \* relays with a connection
  gone,         \* relays whose DisconnectedF is still to run
  peers,        \* RelayClient.peers
  relayPeers,   \* RelayClient.relayPeers
  expired,      \* relays whose reservation's expiration has passed
  relaynodeArr, relaynodesMap,
  step,         \* where keepAliveMinimumRelayConnections and startAliveService are
  target,       \* the relay they work on
  snapshot,     \* the entries the first one has still to look at
  sent,         \* the relay named in the hello
  answer,       \* the addresses under which the alive service publishes the status
  arr,          \* addRelaynodes: relaynodesArr
  saved,        \* loops whose call's stream is the saved protocol stream of its relay
  cut,          \* loops whose call's stream is gone
  closed,       \* closeCh is closed
  application,  \* the application is known
  late,         \* auxiliary: relays added when their connection's end was already handled
  mixed,        \* auxiliary: two addRelaynodes overlapped
  emptied       \* auxiliary: loops during whose call the table became empty

tableVars == <<relayPeers, expired, late, emptied>>
nodeVars  == <<relaynodeArr, relaynodesMap, mixed>>
netVars   == <<conn, gone, peers, cut>>
loopVars  == <<step, target, snapshot, arr>>
callVars  == <<sent, answer, saved>>
ownVars   == <<tableVars, nodeVars, netVars, loopVars, callVars, closed, application>>
vars      == <<bootVars, ownVars>>

(* "off": not started.  "wait": in the select.  "expire": the rest of
   its round up to the dial.  "reserve", "add": before Reserve returns, before
   addRelayPeerInfo.  "pick": the select of keepAliveToBootnodes.  "app": waiting for
   the application.  "stream": before NewAliveClient.  "call", "answer": Hello before
   and after the service handled it.  "store": before addRelaynodes stores the new
   wrapper.  "done": returned. *)
LoopSteps == {"off", "wait", "expire", "reserve", "add", "pick", "app", "stream", "call",
              "answer", "store", "done"}

Hello == {"call", "answer"}
KeepAlive == {"pick", "app", "stream", "store"} \cup Hello

(* A new process; setupRelaynodes leaves this node itself out. *)
OwnInit ==
  /\ conn = {} /\ gone = {} /\ peers = {} /\ cut = {}
  /\ relayPeers = {} /\ expired = {} /\ late = {} /\ emptied = {}
  /\ relaynodeArr = Configured /\ relaynodesMap = Configured /\ mixed = FALSE
  /\ step = [g \in Loops |-> "off"] /\ target = [g \in Loops |-> None]
  /\ snapshot = {} /\ arr = [g \in Loops |-> {}]
  /\ sent = [g \in Loops |-> None] /\ answer = [g \in Loops |-> {}]
  /\ saved = {}
  /\ closed = FALSE /\ application = FALSE

Restarted ==
  /\ conn' = {} /\ gone' = {} /\ peers' = {} /\ cut' = {}
  /\ relayPeers' = {} /\ expired' = {} /\ late' = {} /\ emptied' = {}
  /\ relaynodeArr' = Configured /\ relaynodesMap' = Configured /\ mixed' = FALSE
  /\ step' = [g \in Loops |-> "off"] /\ target' = [g \in Loops |-> None]
  /\ snapshot' = {} /\ arr' = [g \in Loops |-> {}]
  /\ sent' = [g \in Loops |-> None] /\ answer' = [g \in Loops |-> {}]
  /\ saved' = {}
  /\ closed' = FALSE /\ application' = FALSE

Init == BootInit /\ OwnInit

At(g, s) == step[g] = s
Go(g, s) == step' = [step EXCEPT ![g] = s]

(* g goes on at s with relay r. *)
GoOn(g, s, r) == Go(g, s) /\ target' = [target EXCEPT ![g] = r]

-----------------------------------------------------------------------------
(* The table of relays and the connections *)

(* removeRelayPeerInfo *)
RemoveRelayPeerInfo(r) ==
  /\ relayPeers' = relayPeers \ {r} /\ expired' = expired \ {r} /\ late' = late \ {r}
  /\ emptied' = IF relayPeers = {r}
                THEN emptied \cup {g \in Loops : step[g] \in {"app", "stream"}}
                ELSE emptied

(* A connection to r, dialled if there is none, and ConnectedF. *)
Connects(r) ==
  /\ conn' = conn \cup {r}
  /\ peers' = IF r \notin conn /\ ~At("alive", "off") THEN peers \cup {r} ELSE peers
  /\ UNCHANGED <<gone, cut>>

Disconnects(r) ==
  /\ conn' = conn \ {r} /\ gone' = gone \cup {r}
  /\ cut' = cut \cup {g \in Loops : step[g] \in Hello /\ target[g] = r}
  /\ UNCHANGED peers

Disconnect(r) ==
  /\ r \in conn /\ r \notin gone
  /\ Disconnects(r)
  /\ UNCHANGED <<bootVars, tableVars, nodeVars, loopVars, callVars, closed, application>>

(* A disconnect that leaves the relay in the table. *)
DisconnectedKeeps(r) ==
  /\ r \in gone
  /\ gone' = gone \ {r}
  /\ UNCHANGED <<bootVars, tableVars, nodeVars, conn, peers, cut, loopVars, callVars, closed,
                 application>>

DisconnectedF(r) ==
  /\ r \in gone
  /\ gone' = gone \ {r}
  /\ RemoveRelayPeerInfo(r)
  /\ UNCHANGED <<bootVars, nodeVars, conn, peers, cut, loopVars, callVars, closed, application>>

(* The expiration of a reservation passes. *)
Expire(r) ==
  /\ r \in relayPeers \ expired
  /\ expired' = expired \cup {r}
  /\ UNCHANGED <<bootVars, relayPeers, late, emptied, nodeVars, netVars, loopVars, callVars,
                 closed, application>>

-----------------------------------------------------------------------------
(* keepAliveMinimumRelayConnections *)

(* The timer, and the copy of the table.  The timer is a new one each time: who comes to
   the select after Close finds only closeCh ready. *)
Wake ==
  /\ At("resv", "wait") /\ ~closed
  /\ Go("resv", "expire") /\ snapshot' = relayPeers
  /\ UNCHANGED <<bootVars, tableVars, nodeVars, netVars, target, arr, callVars, closed,
                 application>>

(* An entry of the copy: removed and disconnected if its reservation has expired. *)
DropExpired(r) ==
  /\ At("resv", "expire") /\ r \in snapshot
  /\ snapshot' = snapshot \ {r}
  /\ IF r \in expired
     THEN /\ RemoveRelayPeerInfo(r)
          /\ IF r \in conn THEN Disconnects(r) ELSE UNCHANGED netVars
     ELSE UNCHANGED <<tableVars, netVars>>
  /\ UNCHANGED <<bootVars, nodeVars, step, target, arr, callVars, closed, application>>

MinimumRelayConnections == 1

(* The count with <= for <. *)
FewRelaysOrEnough == Cardinality(relayPeers) <= MinimumRelayConnections

FewRelays == Cardinality(relayPeers) < MinimumRelayConnections

(* GetRandomRelaynode without the negation. *)
ConnectedNodes == relaynodeArr \cap relayPeers

(* GetRandomRelaynode's candidates. *)
NonConnectedNodes == relaynodeArr \ relayPeers

ConnectToRandomRelayNodes ==
  /\ At("resv", "expire") /\ snapshot = {}
  /\ \/ /\ FewRelays
        /\ \E r \in NonConnectedNodes : GoOn("resv", "reserve", r)
     \/ /\ ~FewRelays \/ NonConnectedNodes = {}
        /\ Go("resv", "wait") /\ UNCHANGED target
  /\ UNCHANGED <<bootVars, tableVars, nodeVars, netVars, snapshot, arr, callVars, closed,
                 application>>

(* client.Reserve returns; it may fail with a connection or without one. *)
Reserve(r) ==
  /\ At("resv", "reserve") /\ r = target["resv"]
  /\ \/ Connects(r) /\ \/ Go("resv", "add") /\ UNCHANGED target
                       \/ GoOn("resv", "wait", None)
     \/ GoOn("resv", "wait", None) /\ UNCHANGED netVars
  /\ UNCHANGED <<bootVars, tableVars, nodeVars, snapshot, arr, callVars, closed, application>>

AddRelayPeerInfo(r) ==
  /\ At("resv", "add") /\ r = target["resv"]
  /\ relayPeers' = relayPeers \cup {r}
  /\ late' = IF r \in conn \cup gone THEN late ELSE late \cup {r}
  /\ GoOn("resv", "pick", None)
  /\ UNCHANGED <<bootVars, expired, emptied, nodeVars, netVars, snapshot, arr, callVars,
                 closed, application>>

-----------------------------------------------------------------------------
(* keepAliveToBootnodes *)

(* What a call leaves behind in g. *)
Forget(g) ==
  /\ sent' = [sent EXCEPT ![g] = None] /\ answer' = [answer EXCEPT ![g] = {}]
  /\ emptied' = emptied \ {g}

(* The select that does not look at closeCh. *)
PickOpen(g) ==
  /\ At(g, "pick")
  /\ \E r \in relayPeers : GoOn(g, "app", r)
  /\ UNCHANGED <<bootVars, tableVars, nodeVars, netVars, snapshot, arr, callVars, closed,
                 application>>

Pick(g) ==
  /\ At(g, "pick")
  /\ IF closed THEN GoOn(g, "wait", None) ELSE \E r \in relayPeers : GoOn(g, "app", r)
  /\ UNCHANGED <<bootVars, tableVars, nodeVars, netVars, snapshot, arr, callVars, closed,
                 application>>

WaitForApplication(g) ==
  /\ At(g, "app") /\ application
  /\ Go(g, "stream")
  /\ UNCHANGED <<bootVars, tableVars, nodeVars, netVars, target, snapshot, arr, callVars,
                 closed, application>>

(* Calls whose stream is the one saved for r. *)
SavedFor(r) == {h \in saved : target[h] = r}

(* NewStream and SaveProtocolStream, which saves nothing for an unknown peer; then the
   relay that the hello names, any of the table. *)
NewAliveClient(g, r) ==
  /\ At(g, "stream") /\ r = target[g]
  /\ Connects(r)
  /\ saved' = IF r \in peers' THEN (saved \ SavedFor(r)) \cup {g} ELSE saved
  /\ Go(g, "call")
  /\ \/ relayPeers = {} /\ UNCHANGED sent
     \/ \E s \in relayPeers : sent' = [sent EXCEPT ![g] = s]
  /\ UNCHANGED <<bootVars, tableVars, nodeVars, target, snapshot, arr, answer, closed, application>>

NoAliveClient(g) ==
  /\ At(g, "stream")
  /\ GoOn(g, "pick", None) /\ Forget(g)
  /\ UNCHANGED <<bootVars, relayPeers, expired, late, nodeVars, netVars, snapshot, arr, saved,
                 closed, application>>

(* The alive service handles the hello.  It publishes the status or not, depending on the
   address that it finds for the node; answer has all those for which it does. *)
HandleHello(g) ==
  /\ At(g, "call") /\ g \notin cut
  /\ Go(g, "answer")
  /\ answer' = [answer EXCEPT ![g] = {addr \in Addrs : Published(addr, sent[g] # None)}]
  /\ UNCHANGED <<bootVars, tableVars, nodeVars, netVars, target, snapshot, arr, sent, saved,
                 closed, application>>

(* Hello returns an error.  The stream stays saved for its relay; closing it then ends no
   call. *)
HelloEnds(g) ==
  /\ GoOn(g, "pick", None) /\ Forget(g)
  /\ saved' = saved \ {g} /\ cut' = cut \ {g}
  /\ UNCHANGED <<bootVars, relayPeers, expired, late, nodeVars, conn, gone, peers, snapshot, arr,
                 closed, application>>

(* The stream ended, before the hello was handled or after. *)
HelloFails(g) == step[g] \in Hello /\ g \in cut /\ HelloEnds(g)

(* The other end answers with an error. *)
HelloRefused(g) == At(g, "call") /\ g \notin cut /\ HelloEnds(g)

(* addRelaynodes skips this node itself, here None, and what it has already. *)
IsNew(d) == d # None /\ d \notin relayPeers /\ d \notin relaynodesMap

(* The new node gets into the map only. *)
LoadNodesOnly(g, d) ==
  /\ arr' = [arr EXCEPT ![g] = relaynodeArr]
  /\ relaynodesMap' = IF IsNew(d) THEN relaynodesMap \cup {d} ELSE relaynodesMap

(* addRelaynodes up to the new wrapper: the map is written, the array is a copy. *)
LoadNodes(g, d) ==
  /\ arr' = [arr EXCEPT ![g] = IF IsNew(d) THEN relaynodeArr \cup {d} ELSE relaynodeArr]
  /\ relaynodesMap' = IF IsNew(d) THEN relaynodesMap \cup {d} ELSE relaynodesMap

(* The answer: CloseProtocolStream closes the stream saved last, be it another's.  The
   answer may name no relay node, or one. *)
HelloReturns(g) ==
  /\ At(g, "answer") /\ g \notin cut
  /\ LET closing == IF target[g] \in peers THEN SavedFor(target[g]) ELSE {} IN
     /\ saved' = saved \ (closing \cup {g})
     /\ cut' = cut \cup (closing \ {g})
  /\ Forget(g)
  /\ \/ GoOn(g, "wait", None) /\ UNCHANGED <<arr, relaynodesMap, mixed>>
     \/ /\ GoOn(g, "store", None)
        /\ \E d \in Relays \cup {None} : LoadNodes(g, d)
        /\ mixed' = (mixed \/ \E h \in Loops : At(h, "store"))
  /\ UNCHANGED <<bootVars, relayPeers, expired, late, relaynodeArr, conn, gone, peers, snapshot,
                 closed, application>>

(* The new wrapper, with the array as it was loaded. *)
StoreNodes(g) ==
  /\ At(g, "store")
  /\ GoOn(g, "wait", None)
  /\ relaynodeArr' = arr[g] /\ arr' = [arr EXCEPT ![g] = {}]
  /\ UNCHANGED <<bootVars, tableVars, relaynodesMap, mixed, netVars, snapshot, callVars, closed,
                 application>>

-----------------------------------------------------------------------------
(* Application events *)

(* startApplicationEventProcess: the first event.  Of the later ones, which only renew
   the status, each goroutine of an earlier GetEventCh takes one and keeps it. *)
ReceiveEvent ==
  /\ ~At("alive", "off") /\ ~closed /\ ~application
  /\ application' = TRUE
  /\ UNCHANGED <<bootVars, tableVars, nodeVars, netVars, loopVars, callVars, closed>>

-----------------------------------------------------------------------------
(* Start and end *)

(* NewRelayClient. *)
Boot ==
  /\ BootStep(Client)
  /\ UNCHANGED ownVars

(* Bounds: other programs start and end only while the loops have not been started, and
   the loops run with one state of the key store; the two have no variable in common. *)
OthersBoot ==
  /\ \A g \in Loops : At(g, "off")
  /\ \E s \in Starters \ {Client} : BootStep(s) \/ Crash(s)
  /\ UNCHANGED ownVars

Start(g) ==
  /\ boot[Client] = "up" /\ At(g, "off")
  /\ \A s \in Starters \ {Client} : boot[s] = "off"
  /\ path = "set" /\ file = Provisioned /\ pass = "none"
  /\ met = {} /\ faults = {} /\ ~blind
  /\ Go(g, "wait")
  /\ UNCHANGED <<bootVars, tableVars, nodeVars, netVars, target, snapshot, arr, callVars, closed,
                 application>>

StartRelayReserv == Start("resv")
StartAlive       == Start("alive")

(* The ticker.  A tick that came during the last round may be taken after Close. *)
Tick ==
  /\ At("alive", "wait")
  /\ Go("alive", "pick")
  /\ UNCHANGED <<bootVars, tableVars, nodeVars, netVars, target, snapshot, arr, callVars, closed,
                 application>>

Return(g) ==
  /\ At(g, "wait") /\ closed
  /\ Go(g, "done")
  /\ UNCHANGED <<bootVars, tableVars, nodeVars, netVars, target, snapshot, arr, callVars, closed,
                 application>>

Close ==
  /\ ~closed /\ \E g \in Loops : ~At(g, "off")
  /\ closed' = TRUE
  /\ UNCHANGED <<bootVars, tableVars, nodeVars, netVars, loopVars, callVars, application>>

(* This program ends; what is on disk stays. *)
CrashClient == Crash(Client) /\ Restarted

-----------------------------------------------------------------------------
ReservStep ==
  \/ Wake \/ ConnectToRandomRelayNodes
  \/ \E r \in Relays : DropExpired(r) \/ Reserve(r) \/ AddRelayPeerInfo(r)

KeepAliveStep(g) ==
  \/ Pick(g) \/ WaitForApplication(g) \/ NoAliveClient(g)
  \/ HelloFails(g) \/ HelloReturns(g) \/ StoreNodes(g)
  \/ \E r \in Relays : NewAliveClient(g, r)

LoopStep(g) ==
  KeepAliveStep(g) \/ Return(g) \/ (g = "resv" /\ ReservStep) \/ (g = "alive" /\ Tick)

Next ==
  \/ \E g \in Loops : LoopStep(g) \/ HandleHello(g) \/ HelloRefused(g)
  \/ \E r \in Relays : Disconnect(r) \/ DisconnectedF(r) \/ Expire(r)
  \/ ReceiveEvent \/ StartRelayReserv \/ StartAlive \/ Close
  \/ Boot \/ OthersBoot \/ CrashClient

Spec == Init /\ [][Next]_vars

(* Goroutines run, libp2p's calls return, notifications are delivered; a select that comes
   back to a closed channel and a tick takes the channel some time, as Go chooses at
   random.  Nobody has to answer a hello, to publish an event, or to close. *)
FairSpec ==
  /\ Spec
  /\ \A g \in Loops : WF_vars(LoopStep(g))
  /\ SF_vars(Return("alive"))
  /\ \A r \in Relays : WF_vars(DisconnectedF(r))

-----------------------------------------------------------------------------
TypeOK ==
  /\ BootTypeOK
  /\ conn \subseteq Relays /\ gone \subseteq Relays /\ peers \subseteq Relays
  /\ cut \subseteq Loops
  /\ relayPeers \subseteq Relays /\ expired \subseteq relayPeers /\ late \subseteq relayPeers
  /\ emptied \subseteq Loops
  /\ relaynodeArr \subseteq Relays /\ relaynodesMap \subseteq Relays /\ mixed \in BOOLEAN
  /\ step \in [Loops -> LoopSteps] /\ target \in [Loops -> Relays \cup {None}]
  /\ snapshot \subseteq Relays /\ arr \in [Loops -> SUBSET Relays]
  /\ sent \in [Loops -> Relays \cup {None}]
  /\ answer \in [Loops -> SUBSET Addrs]
  /\ saved \subseteq Loops
  /\ closed \in BOOLEAN /\ application \in BOOLEAN

(* There is one relay at most, and it is connected, or about to be removed by its
   DisconnectedF, or it was added when that had run already: then it stays until its
   reservation expires. *)
OneLiveRelay ==
  /\ Cardinality(relayPeers) <= MinimumRelayConnections
  /\ \A r \in relayPeers : r \in conn \/ r \in gone \/ r \in late

(* The array that relays are drawn from and the map that tells what is in it agree when
   nobody is between the two, unless two addRelaynodes overlapped: then a node may be
   in the map alone and is never drawn nor added again. *)
NodesAgree ==
  (\A g \in Loops : ~At(g, "store")) => relaynodeArr = relaynodesMap \/ mixed

(* A hello that names a relay is published wherever the node is, and one that names none is
   not if the node's address is private; it names none only if the client lost the relay
   that it calls. *)
HiddenNodes ==
  \A g \in Loops : At(g, "answer") =>
    IF sent[g] = None
    THEN g \in emptied /\ \A addr \in answer[g] : ~PrivateIp(addr)
    ELSE answer[g] = Addrs

(* isInnerIp's comment names the blocks that it tests for, 172.16.0.0/12 among them: the
   status of a node with another address is published. *)
OnlyPrivateHidden ==
  \A g \in Loops : At(g, "answer") => \A addr \in Addrs \ answer[g] : PrivateIp(addr)

(* A hello without an answer, or the wait for an application that does not come. *)
Blocked(g) == At(g, "call") \/ (At(g, "app") /\ ~application)

(* After Close both loops return, except one in a call without an answer, and one that
   waits for the application, which nobody brings any more. *)
CloseEndsLoops ==
  \A g \in Loops : <>[]closed => <>[](step[g] \in {"off", "done"} \/ Blocked(g))

Reserves == step["resv"] \in {"reserve", "add"}

(* A relay that is gone is replaced, unless no node is left to draw from or the loop is
   itself saying hello: there it waits for a relay that only it could bring. *)
LostRelayIsReplaced ==
  (relayPeers \cap conn = {} /\ relaynodeArr # {})
    ~> (Reserves \/ step["resv"] \in KeepAlive \cup {"off", "done"}
        \/ relayPeers \cap conn # {} \/ closed)
=============================================================================
