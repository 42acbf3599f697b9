----------------------------- MODULE NodeFilters -----------------------------
(***************************************************************************)
(* The node filter manager: the filters of JSON-RPC clients, the heap of   *)
(* their timeouts and the worker (Run) that takes application events,      *)
(* expires idle filters and flushes the filters of websockets.  The        *)
(* actions with a parameter are steps of the calls of module JsonRpc.      *)
(*                                                                         *)
(* The heap is the function timeouts from the filters to their expiry:     *)
(* every heap operation runs under the manager's lock and keeps            *)
(* container/heap's order, so its array layout is seen by nobody.  An      *)
(* event carries one application and is named by its number.  What an      *)
(* uninstalled filter still held is out of everybody's reach.              *)
(*                                                                         *)
(* External: gorilla's websocket, whose first write error stays.           *)
(*                                                                         *)
(* A definition that stands just before another one of the same shape is   *)
(* a variant with a defect, used only to show that the properties notice.  *)
(***************************************************************************)
EXTENDS Integers, EventStream

CONSTANTS
  Filters,      \* filter ids (UUIDs)
  Conns,        \* websocket connections
  NoFilter, NoConn, NoTimer, Any,
  AppOf,        \* the application of each event, a record of what a query can ask for
  Queries,      \* queries, the same with Any for an empty field
  Timeout,      \* defaultTimeout
  MaxTime,      \* bound on the clock
  MaxEvents     \* bound on the number of events

Fields == {"tag", "name", "id", "version"}

ASSUME NamesAssumption == /\ NoFilter \notin Filters
                          /\ NoConn \notin Conns
                          /\ NoTimer \notin Nat
ASSUME QueriesAssumption == Queries # {}
ASSUME TimeAssumption == Timeout \in Nat \ {0} /\ MaxTime \in Nat /\ MaxEvents \in Nat

VARIABLES
  now,
  created,      \* ids given out
  wsOf,         \* the websocket of a filter, NoConn for a filter that is polled
  query,
  filters,      \* NodeFilterManager.filters
  timeouts,     \* NodeFilterManager.timeouts: expiresAt, NoTimer if not in the heap
  msgs,         \* nodeFilter.msgs
  work,         \* where Run is
  armed,        \* Run's filterID, which lasts one round of its loop
  deadline,     \* when Run's timeoutCh delivers, NoTimer if it never will
  event,        \* the event being dispatched
  todo,         \* filters the event has still to be appended to, or, in flushWsFilters,
                \* with updates still to be written
  dead,         \* flushWsFilters: closedFilterIDs
  updates,      \* the subscription's updateCh
  watch,        \* the event Run's goroutine offers on watchCh
  writeError,   \* the error that a websocket's writes return, "none" so far
  published,    \* number of events so far
  lost,         \* auxiliary: the events the stream dropped
  handled,      \* auxiliary: the event whose processing began last
  unseen,       \* auxiliary: filters whose new timeout Run was not told of
  since         \* auxiliary: the last event a filter had got, or did not want, when it was
                \* installed or polled

workVars   == <<work, armed, deadline, event, todo, dead>>
streamVars == <<updates, watch, published, lost, handled>>
tableVars  == <<created, wsOf, query, filters>>
boxVars    == <<msgs, since>>
loopVars   == <<work, armed, unseen>>
managerVars == <<now, tableVars, timeouts, boxVars, workVars, streamVars, writeError, unseen>>

(* "next": before nextTimeoutFilter.  "arm": before the select.  "select": blocked in
   it.  "expire": before Uninstall.  "process": before processEvent.  "dispatch": inside
   it, "flush": inside flushWsFilters, both with the read lock.  "lock": between the two.
   "remove": before the removal of the filters of closed websockets.  "done": returned. *)
WorkerStates == {"next", "arm", "select", "expire", "process", "dispatch", "lock", "flush",
                 "remove", "done"}

Errors == {"none", "closed", "other"}

ManagerInit ==
  /\ now = 0 /\ created = {} /\ filters = {}
  /\ timeouts = [f \in Filters |-> NoTimer]
  /\ wsOf = [f \in Filters |-> NoConn] /\ query = [f \in Filters |-> CHOOSE q \in Queries : TRUE]
  /\ msgs = [f \in Filters |-> <<>>]
  /\ work = "next" /\ armed = NoFilter /\ deadline = NoTimer /\ event = 0
  /\ todo = {} /\ dead = {} /\ updates = <<>> /\ watch = <<>>
  /\ writeError = [c \in Conns |-> "none"]
  /\ published = 0 /\ lost = {} /\ handled = 0 /\ unseen = {}
  /\ since = [f \in Filters |-> 0]

HasWSConn(f) == wsOf[f] # NoConn

Heap == {f \in Filters : timeouts[f] # NoTimer}

(* NodeQuery.Match: an empty field of the query matches everything. *)
Match(q, app) == \A x \in Fields : q[x] = Any \/ q[x] = app[x]

-----------------------------------------------------------------------------
(* The manager's lock and its signal *)

(* The write lock taken while an event is being appended. *)
LockUnlessWriting == work # "flush"

(* The write lock is free: processEvent holds the read lock over all its appends,
   flushWsFilters over all its writes.  A poll needs the read lock only. *)
Lock == work \notin {"dispatch", "flush"}

(* What the event being dispatched has still to be appended to. *)
Owed == IF work = "dispatch" THEN todo ELSE {}

(* The signal gets lost although Run waits for it. *)
NoSignal(renewed) == UNCHANGED loopVars

(* emitSignalToUpdateCh, after the timeouts of renewed changed: only a Run that is
   blocked in its select gets it. *)
Signal(renewed) ==
  IF work = "select" THEN work' = "next" /\ armed' = NoFilter /\ UNCHANGED unseen
                     ELSE unseen' = unseen \cup renewed /\ UNCHANGED <<work, armed>>

(* addFilterTimeout that loses the heap entry. *)
AddNoTimeout(f) == Signal({f}) /\ UNCHANGED timeouts

AddFilterTimeout(f) ==
  /\ timeouts' = [timeouts EXCEPT ![f] = now + Timeout]
  /\ Signal({f})

(* removeFilterByID for each of S: nothing if the filter is not installed. *)
Remove(S) ==
  /\ filters' = filters \ S
  /\ timeouts' = [f \in Filters |-> IF f \in S \cap filters THEN NoTimer ELSE timeouts[f]]
  /\ msgs' = [f \in Filters |-> IF f \in S \cap filters THEN <<>> ELSE msgs[f]]
  /\ since' = [f \in Filters |-> IF f \in S \cap filters THEN 0 ELSE since[f]]
  /\ UNCHANGED <<created, wsOf, query>>

(* The same by a caller other than Run, with the signal. *)
RemoveFilters(S) ==
  /\ Remove(S)
  /\ IF timeouts' # timeouts THEN Signal({}) ELSE UNCHANGED loopVars

-----------------------------------------------------------------------------
(* Calls: the steps between which a caller does not hold the lock *)

(* An id that no installed filter has. *)
FreeId == CHOOSE f \in Filters : f \notin filters

(* A new UUID. *)
NewId == CHOOSE f \in Filters : f \notin created

(* NewNodeFilter chooses an id; the filter is not installed yet. *)
NewFilterBase(q, c) ==
  /\ created # Filters
  /\ created' = created \cup {NewId}
  /\ wsOf' = [wsOf EXCEPT ![NewId] = c]
  /\ query' = [query EXCEPT ![NewId] = q]
  /\ UNCHANGED filters

AddFilter(f) ==
  /\ Lock
  /\ filters' = filters \cup {f}
  /\ since' = [since EXCEPT ![f] = handled]
  /\ IF HasWSConn(f) THEN UNCHANGED <<timeouts, loopVars>> ELSE AddFilterTimeout(f)
  /\ UNCHANGED <<created, wsOf, query, msgs>>

(* The last event that f has got, or does not want. *)
Got(f) == IF f \in Owed THEN handled - 1 ELSE handled

(* getUpdates that leaves in the filter what it returns. *)
KeepUpdates(f) ==
  /\ since' = [since EXCEPT ![f] = Got(f)]
  /\ UNCHANGED msgs

(* takeNodeMsgUpdates, for a poll. *)
TakeUpdates(f) ==
  /\ since' = [since EXCEPT ![f] = Got(f)]
  /\ msgs' = [msgs EXCEPT ![f] = <<>>]

(* getFilterAndChanges, under the read lock. *)
CanPoll(f) == f \in filters /\ ~HasWSConn(f)

(* GetFilterChanges, its second part: refreshFilterTimeout, whether or not the filter
   is still installed. *)
RefreshTimeout(f) == Lock /\ AddFilterTimeout(f)

-----------------------------------------------------------------------------
(* Events *)

(* The stream pushes an event to the manager's subscription. *)
Publish ==
  /\ published < MaxEvents
  /\ published' = published + 1
  /\ updates' = Push(updates, published')
  /\ lost' = IF updates' = updates THEN lost \cup {published'} ELSE lost
  /\ UNCHANGED <<now, tableVars, timeouts, boxVars, workVars, watch, handled, writeError, unseen>>

(* Run's goroutine: GetEvent, then the send on watchCh that TakeEvent completes. *)
WatchEvent ==
  /\ watch = <<>> /\ updates # <<>>
  /\ watch' = updates /\ updates' = <<>>
  /\ UNCHANGED <<now, tableVars, timeouts, boxVars, workVars, published, lost,
                 handled, writeError, unseen>>

Tick ==
  /\ now < MaxTime
  /\ now' = now + 1
  /\ UNCHANGED <<tableVars, timeouts, boxVars, workVars, streamVars, writeError,
                 unseen>>

-----------------------------------------------------------------------------
(* Run *)

(* The heap ordered the wrong way round. *)
LastToExpire(f) == \A g \in Heap : timeouts[g] <= timeouts[f]

FirstToExpire(f) == \A g \in Heap : timeouts[f] <= timeouts[g]

(* nextTimeoutFilter, and the timer for what it found; without a filter the timer of
   an earlier round stays. *)
NextTimeoutFilter ==
  /\ work = "next"
  /\ work' = "arm"
  /\ unseen' = {}
  /\ \/ Heap = {} /\ armed' = NoFilter /\ UNCHANGED deadline
     \/ \E f \in Heap : FirstToExpire(f) /\ armed' = f /\ deadline' = timeouts[f]
  /\ UNCHANGED <<now, tableVars, timeouts, boxVars, event, todo, dead, streamVars, writeError>>

TimerDue == deadline # NoTimer /\ deadline <= now

(* The select finds nothing ready and blocks. *)
Park ==
  /\ work = "arm"
  /\ ~TimerDue /\ watch = <<>>
  /\ work' = "select"
  /\ UNCHANGED <<now, tableVars, timeouts, boxVars, armed, deadline, event, todo, dead,
                 streamVars, writeError, unseen>>

TimerFires ==
  /\ work \in {"arm", "select"} /\ TimerDue
  /\ work' = "expire" /\ deadline' = NoTimer
  /\ UNCHANGED <<now, tableVars, timeouts, boxVars, armed, event, todo, dead, streamVars,
                 writeError, unseen>>

(* Run's own Uninstall(filterID): its signal finds nobody waiting. *)
Expire ==
  /\ work = "expire"
  /\ work' = "next" /\ armed' = NoFilter
  /\ Remove({armed})
  /\ UNCHANGED <<now, deadline, event, todo, dead, streamVars, writeError,
                 unseen>>

TakeEvent ==
  /\ work \in {"arm", "select"} /\ watch # <<>>
  /\ work' = "process" /\ event' = Head(watch) /\ watch' = <<>>
  /\ armed' = NoFilter
  /\ UNCHANGED <<now, tableVars, timeouts, boxVars, deadline, todo, dead, updates,
                 published, lost, handled, writeError, unseen>>

(* processEvent takes the read lock and collects the filters; which of them match can be
   decided here, their queries do not change. *)
ProcessEvent ==
  /\ work = "process"
  /\ work' = "dispatch"
  /\ todo' = {f \in filters : Match(query[f], AppOf[event])}
  /\ handled' = event
  /\ UNCHANGED <<now, tableVars, timeouts, boxVars, armed, deadline, event, dead, updates,
                 watch, published, lost, writeError, unseen>>

(* appendLog, under the filter's own lock: polls may come before and after it. *)
AppendLog(f) ==
  /\ work = "dispatch" /\ f \in todo
  /\ msgs' = [msgs EXCEPT ![f] = Append(msgs[f], event)]
  /\ todo' = todo \ {f}
  /\ UNCHANGED <<now, tableVars, timeouts, since, work, armed, deadline, event, dead,
                 streamVars, writeError, unseen>>

EndProcess ==
  /\ work = "dispatch" /\ todo = {}
  /\ work' = "lock" /\ event' = 0
  /\ UNCHANGED <<now, tableVars, timeouts, boxVars, armed, deadline, todo, dead,
                 streamVars, writeError, unseen>>

(* flushWsFilters takes the read lock; a filter without updates needs no write. *)
StartFlush ==
  /\ work = "lock"
  /\ work' = "flush"
  /\ todo' = {f \in filters : HasWSConn(f) /\ msgs[f] # <<>>}
  /\ UNCHANGED <<now, tableVars, timeouts, boxVars, armed, deadline, event, dead,
                 streamVars, writeError, unseen>>

(* sendUpdates: what it has taken is gone, whether or not the write succeeds. *)
FlushFilter(f, error) ==
  /\ work = "flush" /\ f \in todo
  /\ msgs' = [msgs EXCEPT ![f] = <<>>]
  /\ todo' = todo \ {f}
  /\ dead' = IF error = "closed" THEN dead \cup {f} ELSE dead
  /\ writeError' = [writeError EXCEPT ![wsOf[f]] = error]
  /\ UNCHANGED <<now, tableVars, timeouts, since, work, armed, deadline, event, streamVars,
                 unseen>>

(* The lock taken for writing before the read lock is given back: Run waits for itself. *)
EndFlushLocked ==
  /\ work = "flush" /\ todo = {} /\ dead = {}
  /\ work' = "next"
  /\ UNCHANGED <<now, tableVars, timeouts, boxVars, armed, deadline, event, todo, dead,
                 streamVars, writeError, unseen>>

EndFlush ==
  /\ work = "flush" /\ todo = {}
  /\ work' = IF dead = {} THEN "next" ELSE "remove"
  /\ UNCHANGED <<now, tableVars, timeouts, boxVars, armed, deadline, event, todo, dead,
                 streamVars, writeError, unseen>>

RemoveClosed ==
  /\ work = "remove"
  /\ work' = "next" /\ dead' = {}
  /\ Remove(dead)
  /\ UNCHANGED <<now, armed, deadline, event, todo, streamVars, writeError,
                 unseen>>

(* Close, and Run's return: only Run looks at closeCh. *)
Close ==
  /\ work \in {"arm", "select"}
  /\ work' = "done" /\ armed' = NoFilter
  /\ UNCHANGED <<now, tableVars, timeouts, boxVars, deadline, event, todo, dead,
                 streamVars, writeError, unseen>>

(* Run's steps, except the writes, whose outcome the websocket decides. *)
RunStep == \/ NextTimeoutFilter \/ Park \/ TimerFires \/ Expire \/ TakeEvent
           \/ ProcessEvent \/ EndProcess \/ \E f \in Filters : AppendLog(f)
           \/ StartFlush \/ EndFlush \/ RemoveClosed
=============================================================================
