------------------------------- MODULE JsonRpc -------------------------------
(***************************************************************************)
(* The JSON-RPC server around the node filter manager: HTTP requests,      *)
(* websockets with a goroutine for each message, and the calls they make   *)
(* into the manager (jsonrpc/web3).                                        *)
(*                                                                         *)
(* A handler is the goroutine of an HTTP request, of a websocket message,  *)
(* or of a caller of the package in the same process, the only one who can *)
(* install a filter without a websocket.  It shows up with the first step  *)
(* that has an effect, and goes when the request is handled: requests      *)
(* without an effect, messages not yet looked at and answers not yet       *)
(* written are not shown, and WriteMessage is the write of any answer.     *)
(* The requests of a batch are requests that follow each other.            *)
(***************************************************************************)
EXTENDS NodeFilters

CONSTANT Handlers

VARIABLES
  closed,       \* websockets whose reader has removed the filter and closed them
  filterID,     \* wsWrapper.filterID
  hstep,        \* where a handler is
  hfilter,      \* the filter it works on
  late,         \* auxiliary: filters added after their websocket's reader had ended
  replaced      \* auxiliary: filters that lost their websocket's filterID to another one

wsVars      == <<closed, filterID, late, replaced>>
handlerVars == <<hstep, hfilter>>
vars        == <<managerVars, wsVars, handlerVars>>

(* "uninstall", "add", "refresh": before Uninstall, addFilter, refreshFilterTimeout,
   which lock. *)
HandlerSteps == {"idle", "uninstall", "add", "refresh"}

Init ==
  /\ ManagerInit
  /\ closed = {} /\ filterID = [c \in Conns |-> NoFilter]
  /\ hstep = [h \in Handlers |-> "idle"]
  /\ hfilter = [h \in Handlers |-> NoFilter]
  /\ late = {} /\ replaced = {}

(* A request goes on in another step, with filter f. *)
Continue(h, step, f) ==
  /\ hstep[h] = "idle"
  /\ hstep' = [hstep EXCEPT ![h] = step] /\ hfilter' = [hfilter EXCEPT ![h] = f]

(* The request is handled. *)
Done(h) == hstep' = [hstep EXCEPT ![h] = "idle"] /\ hfilter' = [hfilter EXCEPT ![h] = NoFilter]

(* What calls leave alone of Run, of the stream and of the websockets. *)
OthersUnchanged ==
  UNCHANGED <<now, deadline, event, todo, dead, streamVars, writeError>>

-----------------------------------------------------------------------------
(* Requests *)

GetFilterChanges(h, f) ==
  /\ CanPoll(f)
  /\ TakeUpdates(f)
  /\ Continue(h, "refresh", f)
  /\ UNCHANGED <<tableVars, timeouts, loopVars, wsVars>>
  /\ OthersUnchanged

RefreshFilterTimeout(h) ==
  /\ hstep[h] = "refresh"
  /\ RefreshTimeout(hfilter[h])
  /\ Done(h)
  /\ UNCHANGED <<tableVars, boxVars, wsVars>>
  /\ OthersUnchanged

(* uninstallFilter, unsubscribe: the request, and what it does under the lock. *)
UninstallFilter(h, f) ==
  /\ Continue(h, "uninstall", f)
  /\ UNCHANGED <<managerVars, wsVars>>

Uninstall(h) ==
  /\ hstep[h] = "uninstall" /\ Lock
  /\ RemoveFilters({hfilter[h]})
  /\ Done(h)
  /\ UNCHANGED wsVars
  /\ OthersUnchanged

(* A websocket that is not told which filter is its own. *)
SetNoFilterID(c, f) == UNCHANGED <<filterID, replaced>>

SetFilterID(c, f) ==
  /\ filterID' = [filterID EXCEPT ![c] = f]
  /\ replaced' = replaced \cup ({filterID[c]} \ {NoFilter})

(* edge_subscribe: NewNodeFilter up to addFilter. *)
EdgeSubscribe(h, c, q) ==
  /\ NewFilterBase(q, c)
  /\ SetFilterID(c, NewId)
  /\ Continue(h, "add", NewId)
  /\ UNCHANGED <<timeouts, loopVars, boxVars, closed, late>>
  /\ OthersUnchanged

(* NewNodeFilter without a websocket, by a caller in the same process. *)
NewPolledFilter(h, q) ==
  /\ NewFilterBase(q, NoConn)
  /\ Continue(h, "add", NewId)
  /\ UNCHANGED <<timeouts, loopVars, boxVars, wsVars>>
  /\ OthersUnchanged

AddNodeFilter(h) ==
  /\ hstep[h] = "add"
  /\ AddFilter(hfilter[h])
  /\ late' = IF wsOf[hfilter[h]] \in closed THEN late \cup {hfilter[h]} ELSE late
  /\ Done(h)
  /\ UNCHANGED <<closed, filterID, replaced>>
  /\ OthersUnchanged

-----------------------------------------------------------------------------
(* Websockets *)

(* What a write to c may return: the first error stays; after a close frame it is
   ErrCloseSent, after Close net.ErrClosed. *)
WriteResults(c) == IF writeError[c] # "none" THEN {writeError[c]}
                   ELSE IF c \in closed THEN {"closed"} ELSE Errors

(* The write of an answer: nothing else comes of an unknown method, of parameters that
   do not decode, of a filter that cannot be polled. *)
WriteMessage(c) ==
  /\ \E error \in WriteResults(c) : writeError' = [writeError EXCEPT ![c] = error]
  /\ UNCHANGED <<now, tableVars, timeouts, boxVars, workVars, streamVars, unseen,
                 wsVars, handlerVars>>

WriteUpdates(f) ==
  /\ work = "flush" /\ f \in todo
  /\ \E error \in WriteResults(wsOf[f]) : FlushFilter(f, error)
  /\ UNCHANGED <<wsVars, handlerVars>>

(* ReadMessage fails: the reader removes the filter and closes the websocket.  What
   others do between the two they may as well do before. *)
RemoveFilterByWs(c) ==
  /\ c \notin closed /\ Lock
  /\ RemoveFilters({filterID[c]})
  /\ closed' = closed \cup {c}
  /\ UNCHANGED <<filterID, late, replaced, handlerVars>>
  /\ OthersUnchanged

-----------------------------------------------------------------------------
Environment ==
  /\ Tick \/ WatchEvent \/ Close \/ Publish
  /\ UNCHANGED <<wsVars, handlerVars>>

Run == RunStep /\ UNCHANGED <<wsVars, handlerVars>>

(* A request comes in, over HTTP or a websocket; only a websocket can subscribe.  The
   goroutine of a message may run when its websocket is closed already. *)
Handle(h) == \E f \in Filters : GetFilterChanges(h, f) \/ UninstallFilter(h, f)

HandleWs(h, c) == \E q \in Queries : EdgeSubscribe(h, c, q)

HandleOther(h) == \E q \in Queries : NewPolledFilter(h, q)

(* What is left of a request under the lock. *)
Locked(h) == Uninstall(h) \/ AddNodeFilter(h) \/ RefreshFilterTimeout(h)

Next ==
  \/ Run \/ Environment
  \/ \E f \in Filters : WriteUpdates(f)
  \/ \E h \in Handlers : Handle(h) \/ HandleOther(h) \/ Locked(h)
  \/ \E c \in Conns : \/ WriteMessage(c) \/ RemoveFilterByWs(c)
                      \/ \E h \in Handlers : HandleWs(h, c)

Spec == Init /\ [][Next]_vars

(* Goroutines run, and a mutex is handed to whoever starves for it.  Nothing makes a
   write return: it has no deadline.  No client is obliged to call, to read or to close,
   and nobody closes the manager. *)
FairSpec == Spec /\ WF_vars(Run) /\ \A h \in Handlers : SF_vars(Locked(h))

-----------------------------------------------------------------------------
TypeOK ==
  /\ now \in 0..MaxTime /\ created \subseteq Filters
  /\ wsOf \in [Filters -> Conns \cup {NoConn}] /\ query \in [Filters -> Queries]
  /\ filters \subseteq created /\ timeouts \in [Filters -> Nat \cup {NoTimer}]
  /\ msgs \in [Filters -> Seq(Nat)]
  /\ work \in WorkerStates /\ armed \in created \cup {NoFilter}
  /\ deadline \in Nat \cup {NoTimer} /\ event \in 0..published
  /\ todo \subseteq created /\ dead \subseteq created
  /\ updates \in Seq(Nat) /\ Len(updates) <= 1 /\ watch \in Seq(Nat) /\ Len(watch) <= 1
  /\ published \in 0..MaxEvents /\ lost \subseteq Nat /\ handled \in Nat
  /\ writeError \in [Conns -> Errors]
  /\ unseen \subseteq created /\ since \in [Filters -> Nat]
  /\ closed \subseteq Conns /\ filterID \in [Conns -> created \cup {NoFilter}]
  /\ hstep \in [Handlers -> HandlerSteps]
  /\ hfilter \in [Handlers -> Filters \cup {NoFilter}]
  /\ late \subseteq created /\ replaced \subseteq created

Polled(f) == ~HasWSConn(f)

(* The heap of timeouts has every installed filter without a websocket, and no filter
   of a websocket, so that a polled filter can expire and a subscription cannot.  What
   it may have besides are polled filters that were uninstalled (Zombies). *)
PolledFiltersExpire ==
  /\ {f \in filters : Polled(f)} \subseteq Heap
  /\ \A f \in Heap : Polled(f)

(* While Run sleeps its timer ends no later than the timeout of any filter it was told
   of, whatever was added, polled and removed since it looked at the heap. *)
WorkerWakesInTime ==
  work = "select" => \A f \in Heap \ unseen : deadline # NoTimer /\ deadline <= timeouts[f]

(* Run is about to remove a filter that was polled again in time only if that poll's
   signal found Run out of its select. *)
EarlyTimeoutsWereUnseen ==
  work = "expire" /\ armed \in filters /\ timeouts[armed] > now => armed \in unseen

(* Run's timer is neither late nor early for a filter whose timeout it was told of. *)
TimerIsTrue == WorkerWakesInTime /\ EarlyTimeoutsWereUnseen

(* What a polled filter holds are the matching events since it was installed or polled,
   each once and in order, whoever polls it at the same time, also between two appends of
   one event; only events that the stream had to drop are missing. *)
PolledUpdatesOnce ==
  \A f \in filters : Polled(f) =>
    /\ \A i \in 1..Len(msgs[f]) - 1 : msgs[f][i] < msgs[f][i + 1]
    /\ {msgs[f][i] : i \in DOMAIN msgs[f]} =
         {e \in since[f] + 1..Got(f) : e \notin lost /\ Match(query[f], AppOf[e])}

(* A filter outlives the reader of its websocket only if it was added after the reader
   had removed the websocket's filter, or if a later subscription took its place. *)
OrphansAreLateOrReplaced ==
  \A f \in filters : wsOf[f] \in closed => f \in late \cup replaced

(* The node filter manager as a box for each filter: FilterBoxes says what clients may rely
   on, whatever the timeouts, the writes and the requests in between do. *)
Adding == {h \in Handlers : hstep[h] = "add"}

InstalledOnce == created \ {hfilter[h] : h \in Adding}

Wants(f) == {e \in 1..MaxEvents : Match(query[f], AppOf[e])}

BoxOf == [f \in filters |-> [wants |-> Wants(f), holds |-> msgs[f]]]

Box == INSTANCE FilterBoxes
  WITH Events <- 1..MaxEvents, used <- InstalledOnce, box <- BoxOf, last <- handled, owed <- Owed
ImplementsFilterBoxes == Box!Spec

(* A flush is in a write, under the lock that the others wait for. *)
Writing == work = "flush" /\ todo # {}

(* Every request is handled, up to the write of its answer, unless Run is in a write to a
   websocket: there is nothing else that a request can wait for. *)
RequestsAreHandled ==
  \A h \in Handlers : hstep[h] # "idle" ~> hstep[h] = "idle" \/ Writing

(* Timeouts of filters that are gone: a poll came between and put them back. *)
Zombies == Heap \ filters

Idle(f) == f \in filters /\ Polled(f) /\ timeouts[f] <= now

(* Run sleeps and does not know the timeout of f. *)
SleepsUnaware(f) == work = "select" /\ f \in unseen

(* A filter that nobody polled for the timeout is removed, unless Run was not told of
   it, a zombie is in the heap, Run is in a write to a websocket, or it was closed. *)
IdleFilterIsRemoved ==
  (\E f \in Filters : Idle(f))
    ~> (\A f \in Filters : Idle(f) => SleepsUnaware(f)) \/ Zombies # {} \/ Writing \/ work = "done"
=============================================================================
