---------------------------- MODULE JsonRpcProofs ----------------------------
(***************************************************************************)
(* Proofs about the JSON-RPC server and its node filter manager, for any   *)
(* filters, websockets, requests, queries and events, and any clock.  The  *)
(* inductive invariant adds to the properties what requests in progress    *)
(* know of their filter, which filter of a websocket is its own, what the  *)
(* worker's timer is worth before and after its select, and which events   *)
(* are on their way.                                                       *)
(***************************************************************************)
EXTENDS JsonRpc, SequenceTheorems, TLAPS

USE NamesAssumption, QueriesAssumption, TimeAssumption

(* Every timeout is that of a filter that was given an id, and requests work on such a
   filter; only polled filters are polled. *)
KnownFilters ==
  /\ Heap \subseteq created
  /\ \A h \in Handlers :
       /\ hstep[h] = "add" => hfilter[h] \in created
       /\ hstep[h] = "refresh" => hfilter[h] \in created /\ Polled(hfilter[h])
       /\ hstep[h] = "uninstall" => hfilter[h] \in Filters

(* What is left of an event's appends are installed filters that it matches; what is left
   of a flush are filters of websockets. *)
KnownTodo ==
  /\ work = "dispatch" => \A f \in todo : f \in filters /\ Match(query[f], AppOf[event])
  /\ work = "flush" => \A f \in todo : HasWSConn(f)

(* Events under way have been published. *)
KnownEvents ==
  /\ updates # <<>> => updates[1] \in 1..published
  /\ watch # <<>> => watch[1] \in 1..published
  /\ work = "process" => event # 0
  /\ work = "dispatch" => handled # 0

(* WorkerWakesInTime from the moment the timer is set; a new timeout is then seen by the
   worker, which looks again, or unseen. *)
TimerInTime ==
  work \in {"arm", "select"} =>
    \A f \in Heap \ unseen : deadline # NoTimer /\ deadline <= timeouts[f]

(* The filter the timer is for is a polled one, and if the worker missed nothing of it
   the timer does not end before its timeout. *)
TimerNotEarly ==
  /\ armed # NoFilter => armed \in created /\ Polled(armed)
  /\ armed \in filters \ unseen =>
       /\ work \in {"arm", "select"} => deadline # NoTimer /\ timeouts[armed] <= deadline
       /\ work = "expire" => timeouts[armed] <= now

TimerInv == /\ TypeOK /\ KnownFilters /\ KnownTodo /\ KnownEvents
            /\ PolledFiltersExpire /\ TimerInTime /\ TimerNotEarly

-----------------------------------------------------------------------------
(* Types *)

LEMMA NewIdIsNew == created \subseteq Filters /\ created # Filters => NewId \in Filters \ created
  BY DEF NewId

LEMMA JsonInitTypes == Init => TypeOK
  BY DEF Init, ManagerInit, TypeOK, WorkerStates, Errors, HandlerSteps

LEMMA SignalTypes ==
  ASSUME TypeOK, NEW S \in SUBSET created, Signal(S)
  PROVE  /\ work' \in WorkerStates /\ armed' \in created \cup {NoFilter}
         /\ unseen' \subseteq created
  BY DEF Signal, TypeOK, WorkerStates

LEMMA RunTypes ==
  ASSUME TypeOK, KnownFilters, KnownEvents, Run
  PROVE  TypeOK'
  <1> USE DEF TypeOK, wsVars, handlerVars, tableVars, boxVars, streamVars, WorkerStates
  <1>1. CASE NextTimeoutFilter
    BY <1>1 DEF NextTimeoutFilter, Run, KnownFilters, Heap
  <1>2. CASE Park
    BY <1>2 DEF Park, Run
  <1>3. CASE TimerFires
    BY <1>3 DEF TimerFires, Run
  <1>4. CASE Expire
    BY <1>4 DEF Expire, Run, Remove
  <1>5. CASE TakeEvent
    BY <1>5 DEF TakeEvent, Run, KnownEvents
  <1>6. CASE ProcessEvent
    BY <1>6 DEF ProcessEvent, Run
  <1>7. CASE StartFlush
    BY <1>7 DEF StartFlush, Run
  <1>8. CASE EndFlush
    BY <1>8 DEF EndFlush, Run
  <1>9. CASE RemoveClosed
    BY <1>9 DEF RemoveClosed, Run, Remove
  <1>10. CASE EndProcess
    BY <1>10 DEF EndProcess, Run
  <1>11. ASSUME NEW f \in Filters, AppendLog(f) PROVE TypeOK'
    <2>1. event \in Nat
      OBVIOUS
    <2>2. msgs' \in [Filters -> Seq(Nat)]
      BY <1>11, <2>1 DEF AppendLog
    <2> QED
      BY <1>11, <2>2 DEF AppendLog, Run
  <1> QED
    BY <1>1, <1>2, <1>3, <1>4, <1>5, <1>6, <1>7, <1>8, <1>9, <1>10, <1>11 DEF Run, RunStep

LEMMA EnvironmentTypes ==
  ASSUME TypeOK, Environment
  PROVE  TypeOK'
  <1> USE DEF TypeOK, wsVars, handlerVars, tableVars, boxVars, streamVars, workVars, WorkerStates
  <1>1. CASE Tick
    BY <1>1 DEF Tick, Environment
  <1>2. CASE WatchEvent
    BY <1>2 DEF WatchEvent, Environment
  <1>3. CASE Close
    BY <1>3 DEF Close, Environment
  <1>4. CASE Publish
    BY <1>4 DEF Publish, Push, Environment
  <1> QED
    BY <1>1, <1>2, <1>3, <1>4 DEF Environment

LEMMA RenewedTypes ==
  ASSUME TypeOK, NEW f,
         timeouts' = timeouts \/ timeouts' = [timeouts EXCEPT ![f] = now + Timeout]
  PROVE  timeouts' \in [Filters -> Nat \cup {NoTimer}]
  <1>1. timeouts \in [Filters -> Nat \cup {NoTimer}] /\ now \in Nat
    BY DEF TypeOK
  <1>2. now + Timeout \in Nat
    BY <1>1
  <1> QED
    BY <1>1, <1>2

LEMMA RequestTypes ==
  ASSUME TypeOK, KnownFilters, KnownEvents, NEW h \in Handlers,
         Handle(h) \/ HandleOther(h) \/ Locked(h)
  PROVE  TypeOK'
  <1> USE DEF TypeOK, wsVars, handlerVars, tableVars, boxVars, streamVars, loopVars, HandlerSteps,
              OthersUnchanged, Continue, Done
  <1>1. ASSUME NEW f \in Filters, GetFilterChanges(h, f) PROVE TypeOK'
    <2>1. Got(f) \in Nat
      BY DEF Got, Owed, KnownEvents
    <2> QED
      BY <1>1, <2>1 DEF GetFilterChanges, TakeUpdates
  <1>2. ASSUME NEW f \in Filters, UninstallFilter(h, f) PROVE TypeOK'
    BY <1>2 DEF UninstallFilter, managerVars, workVars
  <1>3. ASSUME NEW q \in Queries, NewPolledFilter(h, q) PROVE TypeOK'
    BY <1>3, NewIdIsNew DEF NewPolledFilter, NewFilterBase
  <1>4. CASE Uninstall(h)
    <2>1. /\ work' \in WorkerStates /\ armed' \in created \cup {NoFilter}
          /\ unseen' \subseteq created
      BY <1>4, SignalTypes DEF Uninstall, RemoveFilters
    <2> QED
      BY <1>4, <2>1 DEF Uninstall, RemoveFilters, Remove
  <1>5. CASE AddNodeFilter(h)
    <2>0. hfilter[h] \in created
      BY <1>5 DEF AddNodeFilter, KnownFilters
    <2>1. /\ work' \in WorkerStates /\ armed' \in created \cup {NoFilter}
          /\ unseen' \subseteq created
      BY <1>5, <2>0, SignalTypes DEF AddNodeFilter, AddFilter, AddFilterTimeout
    <2>2. timeouts' \in [Filters -> Nat \cup {NoTimer}]
      BY <1>5, RenewedTypes DEF AddNodeFilter, AddFilter, AddFilterTimeout
    <2>3. /\ filters' = filters \cup {hfilter[h]} /\ since' = [since EXCEPT ![hfilter[h]] = handled]
          /\ late' \in {late, late \cup {hfilter[h]}}
          /\ UNCHANGED <<created, wsOf, query, msgs>>
      BY <1>5 DEF AddNodeFilter, AddFilter
    <2> QED
      BY <1>5, <2>0, <2>1, <2>2, <2>3 DEF AddNodeFilter
  <1>6. CASE RefreshFilterTimeout(h)
    <2>0. hfilter[h] \in created
      BY <1>6 DEF RefreshFilterTimeout, KnownFilters
    <2>1. /\ work' \in WorkerStates /\ armed' \in created \cup {NoFilter}
          /\ unseen' \subseteq created
      BY <1>6, <2>0, SignalTypes DEF RefreshFilterTimeout, RefreshTimeout, AddFilterTimeout
    <2> QED
      BY <1>6, <2>0, <2>1 DEF RefreshFilterTimeout, RefreshTimeout, AddFilterTimeout
  <1> QED
    BY <1>1, <1>2, <1>3, <1>4, <1>5, <1>6 DEF Handle, HandleOther, Locked

LEMMA WebsocketTypes ==
  ASSUME TypeOK, KnownFilters, NEW c \in Conns,
         WriteMessage(c) \/ RemoveFilterByWs(c) \/ \E h \in Handlers : HandleWs(h, c)
  PROVE  TypeOK'
  <1> USE DEF TypeOK, wsVars, handlerVars, tableVars, boxVars, streamVars, loopVars, HandlerSteps,
              OthersUnchanged
  <1>1. CASE WriteMessage(c)
    BY <1>1 DEF WriteMessage, WriteResults, Errors, workVars
  <1>2. CASE RemoveFilterByWs(c)
    <2>1. /\ work' \in WorkerStates /\ armed' \in created \cup {NoFilter}
          /\ unseen' \subseteq created
      BY <1>2, SignalTypes DEF RemoveFilterByWs, RemoveFilters
    <2> QED
      BY <1>2, <2>1 DEF RemoveFilterByWs, RemoveFilters, Remove
  <1>3. ASSUME NEW h \in Handlers, NEW q \in Queries, EdgeSubscribe(h, c, q) PROVE TypeOK'
    BY <1>3, NewIdIsNew DEF EdgeSubscribe, NewFilterBase, SetFilterID, Continue
  <1> QED
    BY <1>1, <1>2, <1>3 DEF HandleWs

LEMMA WriteTypes ==
  ASSUME TypeOK, KnownTodo, NEW f \in Filters, WriteUpdates(f)
  PROVE  TypeOK'
  <1>1. wsOf[f] \in Conns
    BY DEF TypeOK, WriteUpdates, KnownTodo, HasWSConn
  <1>2. WriteResults(wsOf[f]) \subseteq Errors
    BY <1>1 DEF TypeOK, WriteResults, Errors
  <1>3. PICK error \in Errors : FlushFilter(f, error)
    BY <1>2 DEF WriteUpdates
  <1>4. writeError' \in [Conns -> Errors] /\ dead' \subseteq created /\ todo' \subseteq created
    BY <1>3 DEF FlushFilter, TypeOK
  <1> QED
    BY <1>3, <1>4 DEF TypeOK, WriteUpdates, FlushFilter, wsVars, handlerVars, tableVars,
       streamVars

LEMMA JsonTypes ==
  ASSUME TypeOK, KnownFilters, KnownTodo, KnownEvents, [Next]_vars
  PROVE  TypeOK'
  <1>1. ASSUME NEW f \in Filters, WriteUpdates(f) PROVE TypeOK'
    BY <1>1, WriteTypes
  <1>2. ASSUME NEW h \in Handlers, Handle(h) \/ HandleOther(h) \/ Locked(h) PROVE TypeOK'
    BY <1>2, RequestTypes
  <1>3. ASSUME NEW c \in Conns,
               WriteMessage(c) \/ RemoveFilterByWs(c) \/ \E h \in Handlers : HandleWs(h, c)
        PROVE  TypeOK'
    BY <1>3, WebsocketTypes
  <1>4. CASE UNCHANGED vars
    BY <1>4 DEF TypeOK, vars, managerVars, wsVars, handlerVars, tableVars, boxVars, workVars, streamVars
  <1> QED
    BY <1>1, <1>2, <1>3, <1>4, RunTypes, EnvironmentTypes DEF Next

-----------------------------------------------------------------------------
(* What is known of filters and events *)

LEMMA FiltersUntouched ==
  ASSUME KnownFilters, UNCHANGED <<created, wsOf, timeouts, hstep, hfilter>>
  PROVE  KnownFilters'
  BY DEF KnownFilters, Heap, Polled, HasWSConn

LEMMA RemovalKnown ==
  ASSUME KnownFilters, NEW S, Remove(S),
         \A h \in Handlers : hstep'[h] = "idle" \/ (hstep'[h] = hstep[h] /\ hfilter'[h] = hfilter[h])
  PROVE  KnownFilters'
  BY DEF KnownFilters, Heap, Polled, HasWSConn, Remove

LEMMA RunKnown ==
  ASSUME TypeOK, KnownFilters, Run
  PROVE  KnownFilters'
  <1> USE DEF handlerVars, wsVars, tableVars, boxVars, streamVars
  <1>1. CASE Expire
    BY <1>1, RemovalKnown DEF Run, Expire
  <1>2. CASE RemoveClosed
    BY <1>2, RemovalKnown DEF Run, RemoveClosed
  <1>3. CASE \/ NextTimeoutFilter \/ Park \/ TimerFires \/ TakeEvent \/ ProcessEvent \/ EndProcess
             \/ StartFlush \/ EndFlush \/ \E f \in Filters : AppendLog(f)
    BY <1>3, FiltersUntouched DEF Run, NextTimeoutFilter, Park, TimerFires, TakeEvent,
       ProcessEvent, AppendLog, EndProcess, StartFlush, EndFlush
  <1> QED
    BY <1>1, <1>2, <1>3 DEF Run, RunStep

LEMMA NewFilterKnown ==
  ASSUME TypeOK, KnownFilters, NEW h \in Handlers, NEW q, NEW c, NewFilterBase(q, c),
         Continue(h, "add", NewId), UNCHANGED timeouts
  PROVE  KnownFilters'
  <1>1. NewId \in Filters \ created /\ created' = created \cup {NewId}
    BY NewIdIsNew DEF NewFilterBase, TypeOK
  <1>2. \A f \in created : wsOf'[f] = wsOf[f]
    BY <1>1 DEF NewFilterBase, TypeOK
  <1> QED
    BY <1>1, <1>2 DEF KnownFilters, Heap, Polled, HasWSConn, Continue, TypeOK

LEMMA RenewalKnown ==
  ASSUME TypeOK, KnownFilters, NEW h \in Handlers, hfilter[h] \in created, Done(h),
         timeouts' = timeouts \/ timeouts' = [timeouts EXCEPT ![hfilter[h]] = now + Timeout],
         UNCHANGED <<created, wsOf>>
  PROVE  KnownFilters'
  BY DEF KnownFilters, Heap, Polled, HasWSConn, Done, TypeOK

LEMMA FiltersKnown ==
  ASSUME TypeOK, KnownFilters, [Next]_vars
  PROVE  KnownFilters'
  <1> USE DEF handlerVars, wsVars, tableVars, boxVars, streamVars, workVars, OthersUnchanged
  <1>1. CASE Run
    BY <1>1, RunKnown
  <1>2. CASE Environment
    BY <1>2, FiltersUntouched DEF Environment, Tick, WatchEvent, Close, Publish
  <1>3. ASSUME NEW f \in Filters, WriteUpdates(f) PROVE KnownFilters'
    BY <1>3, FiltersUntouched DEF WriteUpdates, FlushFilter
  <1>4. ASSUME NEW h \in Handlers, Handle(h) PROVE KnownFilters'
    <2>1. PICK f \in Filters : GetFilterChanges(h, f) \/ UninstallFilter(h, f)
      BY <1>4 DEF Handle
    <2>2. /\ \/ Continue(h, "uninstall", f)
             \/ Continue(h, "refresh", f) /\ f \in created /\ Polled(f)
          /\ UNCHANGED <<created, wsOf, timeouts>>
      BY <2>1 DEF GetFilterChanges, UninstallFilter, managerVars, CanPoll, Polled, TypeOK
    <2>3. CASE Continue(h, "uninstall", f)
      BY <2>2, <2>3 DEF Continue, KnownFilters, Heap, Polled, HasWSConn, TypeOK
    <2>4. CASE Continue(h, "refresh", f) /\ f \in created /\ Polled(f)
      BY <2>2, <2>4 DEF Continue, KnownFilters, Heap, Polled, HasWSConn, TypeOK
    <2> QED
      BY <2>2, <2>3, <2>4
  <1>5. ASSUME NEW h \in Handlers, HandleOther(h) PROVE KnownFilters'
    BY <1>5, NewFilterKnown DEF HandleOther, NewPolledFilter
  <1>6. ASSUME NEW h \in Handlers, Locked(h) PROVE KnownFilters'
    <2>1. CASE Uninstall(h)
      BY <2>1, RemovalKnown DEF Uninstall, RemoveFilters, Done, TypeOK
    <2>2. CASE AddNodeFilter(h)
      BY <2>2, RenewalKnown DEF AddNodeFilter, AddFilter, AddFilterTimeout, KnownFilters
    <2>3. CASE RefreshFilterTimeout(h)
      BY <2>3, RenewalKnown DEF RefreshFilterTimeout, RefreshTimeout, AddFilterTimeout,
         KnownFilters
    <2> QED
      BY <1>6, <2>1, <2>2, <2>3 DEF Locked
  <1>7. ASSUME NEW c \in Conns, WriteMessage(c) PROVE KnownFilters'
    BY <1>7, FiltersUntouched DEF WriteMessage
  <1>8. ASSUME NEW c \in Conns, RemoveFilterByWs(c) PROVE KnownFilters'
    BY <1>8, RemovalKnown DEF RemoveFilterByWs, RemoveFilters
  <1>9. ASSUME NEW c \in Conns, NEW h \in Handlers, HandleWs(h, c) PROVE KnownFilters'
    BY <1>9, NewFilterKnown DEF HandleWs, EdgeSubscribe
  <1>10. CASE UNCHANGED vars
    BY <1>10, FiltersUntouched DEF vars, managerVars
  <1> QED
    BY <1>1, <1>2, <1>3, <1>4, <1>5, <1>6, <1>7, <1>8, <1>9, <1>10 DEF Next

(* What is left to be done for an event or a flush is nobody else's to change. *)
LEMMA TodoStays ==
  ASSUME TypeOK, KnownTodo, UNCHANGED <<todo, event>>,
         work' = work \/ work' \notin {"dispatch", "flush"},
         work = "dispatch" => filters \subseteq filters',
         \A f \in created : wsOf'[f] = wsOf[f] /\ query'[f] = query[f]
  PROVE  KnownTodo'
  BY DEF KnownTodo, TypeOK, HasWSConn

LEMMA NewFilterTodo ==
  ASSUME TypeOK, KnownTodo, NEW q, NEW c, NewFilterBase(q, c), UNCHANGED <<todo, event, work>>
  PROVE  KnownTodo'
  <1>1. NewId \in Filters \ created
    BY NewIdIsNew DEF NewFilterBase, TypeOK
  <1>2. \A f \in created : wsOf'[f] = wsOf[f] /\ query'[f] = query[f]
    BY <1>1 DEF NewFilterBase, TypeOK
  <1> QED
    BY <1>2, TodoStays DEF NewFilterBase

LEMMA TodoKnown ==
  ASSUME TypeOK, KnownTodo, [Next]_vars
  PROVE  KnownTodo'
  <1> USE DEF handlerVars, wsVars, tableVars, boxVars, streamVars, workVars, loopVars, OthersUnchanged
  <1>1. CASE \/ NextTimeoutFilter \/ Park \/ TimerFires \/ Expire \/ TakeEvent \/ EndFlush
             \/ EndProcess \/ RemoveClosed
    BY <1>1 DEF NextTimeoutFilter, Park, TimerFires, Expire, TakeEvent, EndFlush, EndProcess,
       RemoveClosed, KnownTodo
  <1>2. CASE ProcessEvent
    BY <1>2 DEF ProcessEvent, KnownTodo
  <1>3. ASSUME NEW f \in Filters, AppendLog(f) PROVE KnownTodo'
    BY <1>3 DEF AppendLog, KnownTodo
  <1>4. CASE StartFlush
    BY <1>4 DEF StartFlush, KnownTodo, HasWSConn
  <1>5. CASE Environment
    BY <1>5, TodoStays DEF Environment, Tick, WatchEvent, Close, Publish
  <1>6. ASSUME NEW f \in Filters, WriteUpdates(f) PROVE KnownTodo'
    BY <1>6 DEF WriteUpdates, FlushFilter, KnownTodo, HasWSConn
  <1>7. ASSUME NEW h \in Handlers, Handle(h) PROVE KnownTodo'
    BY <1>7, TodoStays DEF Handle, GetFilterChanges, UninstallFilter, managerVars
  <1>8. ASSUME NEW h \in Handlers, HandleOther(h) PROVE KnownTodo'
    BY <1>8, NewFilterTodo DEF HandleOther, NewPolledFilter
  <1>9. ASSUME NEW h \in Handlers, Locked(h) PROVE KnownTodo'
    <2>1. \/ work' = work
          \/ work' = "next"
      BY <1>9 DEF Locked, Uninstall, RemoveFilters, AddNodeFilter, AddFilter,
         RefreshFilterTimeout, RefreshTimeout, AddFilterTimeout, Signal
    <2>2. work # "dispatch" /\ UNCHANGED <<todo, event, wsOf, query>>
      BY <1>9 DEF Locked, Uninstall, RemoveFilters, Remove, AddNodeFilter, AddFilter,
         RefreshFilterTimeout, RefreshTimeout, Lock
    <2> QED
      BY <2>1, <2>2, TodoStays
  <1>10. ASSUME NEW c \in Conns, WriteMessage(c) PROVE KnownTodo'
    BY <1>10, TodoStays DEF WriteMessage
  <1>11. ASSUME NEW c \in Conns, RemoveFilterByWs(c) PROVE KnownTodo'
    BY <1>11, TodoStays DEF RemoveFilterByWs, RemoveFilters, Remove, Signal, Lock
  <1>12. ASSUME NEW c \in Conns, NEW h \in Handlers, HandleWs(h, c) PROVE KnownTodo'
    BY <1>12, NewFilterTodo DEF HandleWs, EdgeSubscribe
  <1>13. CASE UNCHANGED vars
    BY <1>13, TodoStays DEF vars, managerVars
  <1> QED
    BY <1>1, <1>2, <1>3, <1>4, <1>5, <1>6, <1>7, <1>8, <1>9, <1>10, <1>11, <1>12, <1>13
       DEF Next, Run, RunStep

LEMMA EventsKnown ==
  ASSUME TypeOK, KnownEvents, [Next]_vars
  PROVE  KnownEvents'
  <1> USE DEF handlerVars, wsVars, tableVars, boxVars, streamVars, workVars, OthersUnchanged,
              KnownEvents, TypeOK
  <1>1. CASE Environment
    BY <1>1 DEF Environment, Tick, WatchEvent, Close, Publish, Push
  <1>2. CASE Run
    BY <1>2 DEF Run, RunStep, NextTimeoutFilter, Park, TimerFires, Expire, TakeEvent,
       ProcessEvent, AppendLog, EndProcess, StartFlush, EndFlush, RemoveClosed
  <1>3. CASE UNCHANGED vars
    BY <1>3 DEF vars, managerVars
  <1>4. CASE \E f \in Filters : WriteUpdates(f)
    BY <1>4 DEF WriteUpdates, FlushFilter
  <1>5. ASSUME NEW h \in Handlers, Handle(h) \/ HandleOther(h) \/ Locked(h)
        PROVE  KnownEvents'
    BY <1>5 DEF Handle, HandleOther, Locked, GetFilterChanges, UninstallFilter, managerVars,
       NewPolledFilter, Uninstall, RemoveFilters, AddNodeFilter, AddFilter, RefreshFilterTimeout,
       RefreshTimeout, AddFilterTimeout, Signal, loopVars
  <1>6. ASSUME NEW c \in Conns,
               WriteMessage(c) \/ RemoveFilterByWs(c) \/ \E h \in Handlers : HandleWs(h, c)
        PROVE  KnownEvents'
    BY <1>6 DEF WriteMessage, RemoveFilterByWs, RemoveFilters, Signal, HandleWs, EdgeSubscribe, loopVars
  <1> QED
    BY <1>1, <1>2, <1>3, <1>4, <1>5, <1>6 DEF Next

-----------------------------------------------------------------------------
(* Timeouts and the timer *)

LEMMA TimerUntouched ==
  ASSUME TimerInv, UNCHANGED <<filters, timeouts, work, armed, deadline, unseen>>,
         now' \in Nat /\ now <= now', created \subseteq created',
         \A f \in created : wsOf'[f] = wsOf[f]
  PROVE  PolledFiltersExpire' /\ TimerInTime' /\ TimerNotEarly'
  <1> USE DEF TimerInv, TypeOK, Heap, Polled, HasWSConn, KnownFilters
  <1>1. PolledFiltersExpire'
    BY DEF PolledFiltersExpire
  <1>2. TimerInTime'
    BY DEF TimerInTime
  <1>3. TimerNotEarly'
    BY DEF TimerNotEarly, PolledFiltersExpire
  <1> QED
    BY <1>1, <1>2, <1>3

(* Uninstalled filters lose their timeouts, and the worker looks again or is not in its
   select. *)
LEMMA RemovalTimer ==
  ASSUME TimerInv, NEW S, RemoveFilters(S), UNCHANGED <<now, deadline>>
  PROVE  PolledFiltersExpire' /\ TimerInTime' /\ TimerNotEarly'
  <1> USE DEF TimerInv, TypeOK, Heap, Polled, HasWSConn, KnownFilters, RemoveFilters, Remove
  <1>0. \/ work' = "next" /\ armed' = NoFilter
        \/ UNCHANGED loopVars
    BY DEF Signal, loopVars
  <1>1. PolledFiltersExpire'
    BY DEF PolledFiltersExpire
  <1>2. TimerInTime'
    BY <1>0 DEF TimerInTime, loopVars
  <1>3. TimerNotEarly'
    BY <1>0 DEF TimerNotEarly, loopVars
  <1> QED
    BY <1>1, <1>2, <1>3

(* A new timeout of a polled filter, which may be installed at the same time. *)
LEMMA RenewalTimer ==
  ASSUME TimerInv, NEW f \in created, Polled(f), AddFilterTimeout(f),
         filters' = filters \cup {f} \/ filters' = filters,
         UNCHANGED <<now, deadline, created, wsOf>>
  PROVE  PolledFiltersExpire' /\ TimerInTime' /\ TimerNotEarly'
  <1> USE DEF TimerInv, TypeOK, Heap, Polled, HasWSConn, KnownFilters
  <1>0. /\ timeouts' = [timeouts EXCEPT ![f] = now + Timeout]
        /\ \/ work' = "next" /\ armed' = NoFilter
           \/ work' = work /\ armed' = armed /\ unseen' = unseen \cup {f}
    BY DEF AddFilterTimeout, Signal
  <1>1. now + Timeout # NoTimer
    OBVIOUS
  <1>2. PolledFiltersExpire'
    BY <1>0, <1>1 DEF PolledFiltersExpire
  <1>3. TimerInTime'
    BY <1>0 DEF TimerInTime
  <1>4. TimerNotEarly'
    BY <1>0 DEF TimerNotEarly
  <1> QED
    BY <1>2, <1>3, <1>4

(* A subscription is installed without a timeout. *)
LEMMA SubscriptionTimer ==
  ASSUME TimerInv, NEW f \in created, ~Polled(f), filters' = filters \cup {f},
         UNCHANGED <<timeouts, loopVars, now, deadline, created, wsOf>>
  PROVE  PolledFiltersExpire' /\ TimerInTime' /\ TimerNotEarly'
  <1> USE DEF TimerInv, TypeOK, Heap, Polled, HasWSConn, KnownFilters, loopVars
  <1>1. PolledFiltersExpire'
    BY DEF PolledFiltersExpire
  <1>2. TimerInTime'
    BY DEF TimerInTime
  <1>3. TimerNotEarly'
    BY DEF TimerNotEarly
  <1> QED
    BY <1>1, <1>2, <1>3


(* The worker's own steps: it takes the timeout that ends first, and has missed nothing
   then; the timer is its only way to the removal of a filter that still has one. *)
LEMMA RunTimer ==
  ASSUME TimerInv, Run
  PROVE  PolledFiltersExpire' /\ TimerInTime' /\ TimerNotEarly'
  <1> USE DEF TimerInv, TypeOK, Heap, Polled, HasWSConn, KnownFilters, wsVars, handlerVars,
              tableVars, boxVars, streamVars
  <1>1. CASE NextTimeoutFilter
    <2>1. CASE Heap = {} /\ armed' = NoFilter
      BY <1>1, <2>1 DEF NextTimeoutFilter, Run, PolledFiltersExpire, TimerInTime, TimerNotEarly
    <2>2. CASE \E f \in Heap : FirstToExpire(f) /\ armed' = f /\ deadline' = timeouts[f]
      <3>1. PICK f \in Heap : FirstToExpire(f) /\ armed' = f /\ deadline' = timeouts[f]
        BY <2>2
      <3>2. /\ timeouts[f] \in Nat /\ \A g \in Heap : timeouts[f] <= timeouts[g]
            /\ f \in created /\ Polled(f)
        BY <3>1 DEF FirstToExpire, PolledFiltersExpire
      <3>3. PolledFiltersExpire'
        BY <1>1 DEF NextTimeoutFilter, Run, PolledFiltersExpire
      <3>4. TimerInTime'
        BY <1>1, <3>1, <3>2 DEF NextTimeoutFilter, Run, TimerInTime
      <3>5. TimerNotEarly'
        BY <1>1, <3>1, <3>2 DEF NextTimeoutFilter, Run, TimerNotEarly
      <3> QED
        BY <3>3, <3>4, <3>5
    <2> QED
      BY <1>1, <2>1, <2>2 DEF NextTimeoutFilter
  <1>2. CASE Park
    BY <1>2 DEF Park, Run, PolledFiltersExpire, TimerInTime, TimerNotEarly
  <1>3. CASE TimerFires
    BY <1>3 DEF TimerFires, Run, TimerDue, PolledFiltersExpire, TimerInTime, TimerNotEarly
  <1>4. CASE Expire
    BY <1>4 DEF Expire, Run, Remove, PolledFiltersExpire, TimerInTime, TimerNotEarly
  <1>5. CASE TakeEvent
    BY <1>5 DEF TakeEvent, Run, PolledFiltersExpire, TimerInTime, TimerNotEarly
  <1>6. CASE ProcessEvent
    BY <1>6 DEF ProcessEvent, Run, PolledFiltersExpire, TimerInTime, TimerNotEarly
  <1>7. CASE StartFlush
    BY <1>7 DEF StartFlush, Run, PolledFiltersExpire, TimerInTime, TimerNotEarly
  <1>8. CASE EndFlush
    BY <1>8 DEF EndFlush, Run, PolledFiltersExpire, TimerInTime, TimerNotEarly
  <1>9. CASE RemoveClosed
    BY <1>9 DEF RemoveClosed, Run, Remove, PolledFiltersExpire, TimerInTime, TimerNotEarly
  <1>10. CASE EndProcess
    BY <1>10 DEF EndProcess, Run, PolledFiltersExpire, TimerInTime, TimerNotEarly
  <1>11. ASSUME NEW f \in Filters, AppendLog(f)
         PROVE  PolledFiltersExpire' /\ TimerInTime' /\ TimerNotEarly'
    BY <1>11 DEF AppendLog, Run, PolledFiltersExpire, TimerInTime, TimerNotEarly
  <1> QED
    BY <1>1, <1>2, <1>3, <1>4, <1>5, <1>6, <1>7, <1>8, <1>9, <1>10, <1>11 DEF Run, RunStep

LEMMA EnvironmentTimer ==
  ASSUME TimerInv, Environment
  PROVE  PolledFiltersExpire' /\ TimerInTime' /\ TimerNotEarly'
  <1> USE DEF wsVars, handlerVars, tableVars, boxVars, streamVars, workVars
  <1>0. now \in Nat
    BY DEF TimerInv, TypeOK
  <1>1. CASE Close
    BY <1>1 DEF Close, TimerInv, TypeOK, Heap, Polled, HasWSConn, PolledFiltersExpire,
       TimerInTime, TimerNotEarly
  <1>2. CASE Tick \/ WatchEvent \/ Publish
    BY <1>0, <1>2, TimerUntouched DEF Tick, WatchEvent, Publish, Environment
  <1> QED
    BY <1>1, <1>2 DEF Environment

LEMMA LockedTimer ==
  ASSUME TimerInv, NEW h \in Handlers, Locked(h)
  PROVE  PolledFiltersExpire' /\ TimerInTime' /\ TimerNotEarly'
  <1> USE DEF OthersUnchanged
  <1>1. CASE Uninstall(h)
    BY <1>1, RemovalTimer DEF Uninstall
  <1>2. CASE AddNodeFilter(h)
    <2>1. hfilter[h] \in created
      BY <1>2 DEF AddNodeFilter, TimerInv, KnownFilters
    <2>2. CASE HasWSConn(hfilter[h])
      BY <1>2, <2>1, <2>2, SubscriptionTimer DEF AddNodeFilter, AddFilter, Polled
    <2>3. CASE ~HasWSConn(hfilter[h])
      BY <1>2, <2>1, <2>3, RenewalTimer DEF AddNodeFilter, AddFilter, Polled
    <2> QED
      BY <2>2, <2>3
  <1>3. CASE RefreshFilterTimeout(h)
    <2>1. hfilter[h] \in created /\ Polled(hfilter[h])
      BY <1>3 DEF RefreshFilterTimeout, TimerInv, KnownFilters
    <2> QED
      BY <1>3, <2>1, RenewalTimer DEF RefreshFilterTimeout, RefreshTimeout, tableVars
  <1> QED
    BY <1>1, <1>2, <1>3 DEF Locked

(* A new id belongs to no filter that the timer could be about. *)
LEMMA NewFilterTimer ==
  ASSUME TimerInv, NEW q, NEW c, NewFilterBase(q, c), UNCHANGED <<timeouts, loopVars, now, deadline>>
  PROVE  PolledFiltersExpire' /\ TimerInTime' /\ TimerNotEarly'
  <1>1. NewId \in Filters \ created /\ created' = created \cup {NewId}
    BY NewIdIsNew DEF NewFilterBase, TimerInv, TypeOK
  <1>2. \A f \in created : wsOf'[f] = wsOf[f]
    BY <1>1 DEF NewFilterBase, TimerInv, TypeOK
  <1>3. now' \in Nat /\ now <= now'
    BY DEF TimerInv, TypeOK
  <1> QED
    BY <1>1, <1>2, <1>3, TimerUntouched DEF NewFilterBase, loopVars

LEMMA TimerInductive ==
  ASSUME TimerInv, [Next]_vars
  PROVE  TimerInv'
  <1> USE DEF OthersUnchanged, handlerVars, wsVars, tableVars, boxVars, streamVars, workVars, loopVars
  <1>0. TypeOK' /\ KnownFilters' /\ KnownTodo' /\ KnownEvents'
    BY JsonTypes, FiltersKnown, TodoKnown, EventsKnown DEF TimerInv
  <1>n. now \in Nat
    BY DEF TimerInv, TypeOK
  <1>g. SUFFICES PolledFiltersExpire' /\ TimerInTime' /\ TimerNotEarly'
    BY <1>0 DEF TimerInv
  <1>1. CASE Run
    BY <1>1, RunTimer
  <1>2. CASE Environment
    BY <1>2, EnvironmentTimer
  <1>3. CASE \E f \in Filters : WriteUpdates(f)
    BY <1>n, <1>3, TimerUntouched DEF WriteUpdates, FlushFilter
  <1>4. ASSUME NEW h \in Handlers, Handle(h)
        PROVE  PolledFiltersExpire' /\ TimerInTime' /\ TimerNotEarly'
    BY <1>n, <1>4, TimerUntouched DEF Handle, GetFilterChanges, UninstallFilter, managerVars
  <1>5. ASSUME NEW h \in Handlers, HandleOther(h)
        PROVE  PolledFiltersExpire' /\ TimerInTime' /\ TimerNotEarly'
    BY <1>5, NewFilterTimer DEF HandleOther, NewPolledFilter
  <1>6. ASSUME NEW h \in Handlers, Locked(h)
        PROVE  PolledFiltersExpire' /\ TimerInTime' /\ TimerNotEarly'
    BY <1>6, LockedTimer
  <1>7. ASSUME NEW c \in Conns, WriteMessage(c)
        PROVE  PolledFiltersExpire' /\ TimerInTime' /\ TimerNotEarly'
    BY <1>n, <1>7, TimerUntouched DEF WriteMessage
  <1>8. ASSUME NEW c \in Conns, RemoveFilterByWs(c)
        PROVE  PolledFiltersExpire' /\ TimerInTime' /\ TimerNotEarly'
    BY <1>8, RemovalTimer DEF RemoveFilterByWs
  <1>9. ASSUME NEW c \in Conns, NEW h \in Handlers, HandleWs(h, c)
        PROVE  PolledFiltersExpire' /\ TimerInTime' /\ TimerNotEarly'
    BY <1>9, NewFilterTimer DEF HandleWs, EdgeSubscribe
  <1>10. CASE UNCHANGED vars
    BY <1>n, <1>10, TimerUntouched DEF vars, managerVars
  <1> QED
    BY <1>1, <1>2, <1>3, <1>4, <1>5, <1>6, <1>7, <1>8, <1>9, <1>10 DEF Next

LEMMA TimerInit == Init => TimerInv
  <1> SUFFICES ASSUME Init PROVE TimerInv
    OBVIOUS
  <1>1. TypeOK
    BY JsonInitTypes
  <1>2. /\ KnownFilters /\ KnownTodo /\ KnownEvents
        /\ PolledFiltersExpire /\ TimerInTime /\ TimerNotEarly
    BY DEF Init, ManagerInit, KnownFilters, KnownTodo, KnownEvents, PolledFiltersExpire, TimerInTime,
       TimerNotEarly, Heap
  <1> QED
    BY <1>1, <1>2 DEF TimerInv

LEMMA TimerInvariant == Spec => []TimerInv
  BY TimerInit, TimerInductive, PTL DEF Spec

(* The server and its manager keep to their types: an installed filter has an id that was
   given out, no buffer holds more than it can, a websocket's filter is one of those. *)
THEOREM JsonTypeOK == Spec => []TypeOK
  <1>1. TimerInv => TypeOK
    BY DEF TimerInv
  <1> QED
    BY <1>1, TimerInvariant, PTL

(* A polled filter that is installed always has a timeout, and a filter of a websocket
   never has one, whatever was added, polled, expired and removed meanwhile. *)
THEOREM PolledExpire == Spec => []PolledFiltersExpire
  <1>1. TimerInv => PolledFiltersExpire
    BY DEF TimerInv
  <1> QED
    BY <1>1, TimerInvariant, PTL

(* The worker never sleeps past the timeout of a filter that it was told of, and removes a
   filter before its timeout only if the filter was polled after the worker had looked at
   the heap, and the poll's signal was dropped. *)
THEOREM TimerSafe == Spec => []TimerIsTrue
  <1>1. TimerInv => WorkerWakesInTime
    BY DEF TimerInv, TimerInTime, WorkerWakesInTime
  <1>2. TimerInv => EarlyTimeoutsWereUnseen
    BY DEF TimerInv, TypeOK, TimerNotEarly, PolledFiltersExpire, Heap, Polled, EarlyTimeoutsWereUnseen
  <1> QED
    BY <1>1, <1>2, TimerInvariant, PTL DEF TimerIsTrue

-----------------------------------------------------------------------------
(* Filters whose websocket's reader has ended *)

(* A websocket's own filter is its latest subscription, and each earlier one is known to
   have been replaced. *)
OwnFilter ==
  \A f \in created : wsOf[f] \in Conns => filterID[wsOf[f]] = f \/ f \in replaced

OrphanInv == OwnFilter /\ OrphansAreLateOrReplaced

LEMMA NewFilterOrphan ==
  ASSUME TypeOK, OrphanInv, NEW q, NEW c, NewFilterBase(q, c), UNCHANGED <<closed, late>>,
         \/ c = NoConn /\ UNCHANGED <<filterID, replaced>>
         \/ c \in Conns /\ SetFilterID(c, NewId)
  PROVE  OrphanInv'
  <1>1. NewId \in Filters \ created /\ created' = created \cup {NewId}
    BY NewIdIsNew DEF NewFilterBase, TypeOK
  <1>2. /\ wsOf' = [wsOf EXCEPT ![NewId] = c] /\ filters' = filters
        /\ \A f \in created : wsOf'[f] = wsOf[f]
    BY <1>1 DEF NewFilterBase, TypeOK
  <1>3. OwnFilter'
    BY <1>1, <1>2 DEF OrphanInv, OwnFilter, SetFilterID, TypeOK
  <1>4. OrphansAreLateOrReplaced'
    BY <1>1, <1>2 DEF OrphanInv, OrphansAreLateOrReplaced, SetFilterID, TypeOK
  <1> QED
    BY <1>3, <1>4 DEF OrphanInv

LEMMA OrphanInductive ==
  ASSUME TypeOK, KnownFilters, OrphanInv, [Next]_vars
  PROVE  OrphanInv'
  <1> USE DEF OthersUnchanged, handlerVars, wsVars, tableVars, boxVars, streamVars, workVars
  <1>0. ASSUME filters' \subseteq filters, UNCHANGED <<created, wsOf, filterID, closed, late, replaced>>
        PROVE  OrphanInv'
    BY <1>0 DEF OrphanInv, OwnFilter, OrphansAreLateOrReplaced, TypeOK
  <1>1. CASE Run
    BY <1>0, <1>1 DEF Run, RunStep, NextTimeoutFilter, Park, TimerFires, Expire, TakeEvent,
       ProcessEvent, AppendLog, EndProcess, StartFlush, EndFlush, RemoveClosed, Remove
  <1>2. CASE Environment
    BY <1>0, <1>2 DEF Environment, Tick, WatchEvent, Close, Publish
  <1>3. CASE \E f \in Filters : WriteUpdates(f)
    BY <1>0, <1>3 DEF WriteUpdates, FlushFilter
  <1>4. ASSUME NEW h \in Handlers, Handle(h) PROVE OrphanInv'
    BY <1>0, <1>4 DEF Handle, GetFilterChanges, UninstallFilter, managerVars
  <1>5. ASSUME NEW h \in Handlers, HandleOther(h) PROVE OrphanInv'
    BY <1>5, NewFilterOrphan DEF HandleOther, NewPolledFilter
  <1>6. ASSUME NEW h \in Handlers, Locked(h) PROVE OrphanInv'
    <2>1. CASE Uninstall(h)
      BY <1>0, <2>1 DEF Uninstall, RemoveFilters, Remove
    <2>2. CASE AddNodeFilter(h)
      BY <2>2 DEF AddNodeFilter, AddFilter, KnownFilters, OrphanInv, OwnFilter,
         OrphansAreLateOrReplaced, TypeOK
    <2>3. CASE RefreshFilterTimeout(h)
      BY <1>0, <2>3 DEF RefreshFilterTimeout
    <2> QED
      BY <1>6, <2>1, <2>2, <2>3 DEF Locked
  <1>7. ASSUME NEW c \in Conns, WriteMessage(c) PROVE OrphanInv'
    BY <1>0, <1>7 DEF WriteMessage
  <1>8. ASSUME NEW c \in Conns, RemoveFilterByWs(c) PROVE OrphanInv'
    BY <1>8 DEF RemoveFilterByWs, RemoveFilters, Remove, OrphanInv, OwnFilter,
       OrphansAreLateOrReplaced, TypeOK
  <1>9. ASSUME NEW c \in Conns, NEW h \in Handlers, HandleWs(h, c) PROVE OrphanInv'
    BY <1>9, NewFilterOrphan DEF HandleWs, EdgeSubscribe
  <1>10. CASE UNCHANGED vars
    BY <1>0, <1>10 DEF vars, managerVars
  <1> QED
    BY <1>1, <1>2, <1>3, <1>4, <1>5, <1>6, <1>7, <1>8, <1>9, <1>10 DEF Next

(* A filter is left behind by the reader of its websocket only if it was added after that
   reader had removed the websocket's filter, or had lost its place to a later one. *)
THEOREM OrphansSafe == Spec => []OrphansAreLateOrReplaced
  <1>1. Init => OrphanInv
    BY DEF Init, ManagerInit, OrphanInv, OwnFilter, OrphansAreLateOrReplaced
  <1>2. TimerInv /\ OrphanInv /\ [Next]_vars => OrphanInv'
    BY OrphanInductive DEF TimerInv
  <1>3. OrphanInv => OrphansAreLateOrReplaced
    BY DEF OrphanInv
  <1> QED
    BY <1>1, <1>2, <1>3, TimerInvariant, PTL DEF Spec

-----------------------------------------------------------------------------
(* Updates of polled filters *)

(* An id is added by one request, once. *)
AddsAreNew ==
  \A h \in Handlers : hstep[h] = "add" =>
    /\ hfilter[h] \notin filters
    /\ \A k \in Handlers : hstep[k] = "add" /\ hfilter[k] = hfilter[h] => k = h

(* The events on their way to the worker. *)
UnderWay(e) == (work = "process" /\ e = event) \/ watch = <<e>> \/ updates = <<e>>

(* Events come to the worker in order, and those that do not come were dropped. *)
Pipeline ==
  /\ handled <= published
  /\ work = "process" => handled < event
  /\ work = "dispatch" => handled = event /\ event \notin lost
  /\ watch # <<>> => handled < watch[1] /\ event < watch[1]
  /\ updates # <<>> => /\ handled < updates[1] /\ event < updates[1]
                       /\ watch # <<>> => watch[1] < updates[1]
  /\ \A e \in Nat : handled < e /\ e <= published => (UnderWay(e) <=> e \notin lost)
  /\ \A e \in lost : e <= published
  /\ event # 0 <=> work \in {"process", "dispatch"}

Ascending(s) == \A i \in 1..Len(s) - 1 : s[i] < s[i + 1]

Elements(s) == {s[i] : i \in DOMAIN s}

(* The events that filter f should hold. *)
Due(f) == {e \in since[f] + 1..Got(f) : e \notin lost /\ Match(query[f], AppOf[e])}

UpdatesOnce == \A f \in filters : Polled(f) => Ascending(msgs[f]) /\ Elements(msgs[f]) = Due(f)

LEMMA AppendedOnce ==
  ASSUME NEW s \in Seq(Nat), NEW e \in Nat, Ascending(s), \A x \in Elements(s) : x < e
  PROVE  Ascending(Append(s, e)) /\ Elements(Append(s, e)) = Elements(s) \cup {e}
  <1>1. /\ Append(s, e) \in Seq(Nat) /\ Len(Append(s, e)) = Len(s) + 1
        /\ Append(s, e)[Len(s) + 1] = e
        /\ \A i \in 1..Len(s) : Append(s, e)[i] = s[i]
    OBVIOUS
  <1>2. DOMAIN s = 1..Len(s) /\ DOMAIN Append(s, e) = 1..Len(s) + 1 /\ Len(s) \in Nat
    BY <1>1
  <1>3. \A i \in 1..Len(s) : s[i] \in Nat /\ s[i] < e
    BY <1>2 DEF Elements
  <1>4. Ascending(Append(s, e))
    BY <1>1, <1>2, <1>3 DEF Ascending
  <1>5. Elements(Append(s, e)) = Elements(s) \cup {e}
    BY <1>1, <1>2 DEF Elements
  <1> QED
    BY <1>4, <1>5

LEMMA OneElement ==
  ASSUME NEW s \in Seq(Nat), Len(s) <= 1, s # <<>>
  PROVE  s[1] \in Nat /\ s = <<s[1]>>
  <1> DEFINE n == Len(s)
  <1>0. n \in Nat \ {0} /\ n <= 1
    BY EmptySeq
  <1> HIDE DEF n
  <1>l. n = 1
    BY <1>0
  <1>a. Len(s) = 1
    BY <1>l DEF n
  <1>b. 1 \in 1..Len(s)
    BY <1>a
  <1>1. s[1] \in Nat
    BY <1>b, ElementOfSeq
  <1>2. <<s[1]>> \in Seq(Nat) /\ Len(<<s[1]>>) = 1 /\ <<s[1]>>[1] = s[1]
    BY <1>1
  <1>3. \A i \in 1..Len(s) : s[i] = <<s[1]>>[i]
    BY <1>a, <1>2
  <1> QED
    BY <1>a, <1>1, <1>2, <1>3, SeqEqual

LEMMA PipelinePreserved ==
  ASSUME TypeOK, KnownEvents, Pipeline, [Next]_vars
  PROVE  Pipeline'
  <1> USE DEF TypeOK, tableVars, boxVars, streamVars, workVars, loopVars, wsVars, handlerVars,
              OthersUnchanged
  <1>0. ASSUME UNCHANGED <<published, lost, handled, updates, watch, event>>,
               work' = work \/ {work, work'} \cap {"process", "dispatch"} = {}
        PROVE  Pipeline'
    BY <1>0 DEF Pipeline, UnderWay
  <1>1. CASE Publish
    <2>0. /\ published \in Nat /\ published' = published + 1
          /\ UNCHANGED <<watch, event, handled, work>>
      BY <1>1 DEF Publish
    <2>1. CASE updates = <<>>
      <3>1. updates' = <<published + 1>> /\ lost' = lost
        BY <1>1, <2>0, <2>1 DEF Publish, Push
      <3>2. \A e \in Nat : e <= published + 1 <=> e <= published \/ e = published + 1
        BY <2>0
      <3>3. \A e \in Nat : UnderWay(e)' <=> UnderWay(e) \/ e = published + 1
        BY <2>0, <2>1, <3>1 DEF UnderWay
      <3>4. /\ handled < published + 1 /\ event < published + 1
            /\ watch # <<>> => watch[1] < published + 1
        BY <2>0, <2>1 DEF KnownEvents, Pipeline
      <3> QED
        BY <2>0, <3>1, <3>2, <3>3, <3>4 DEF Pipeline
    <2>2. CASE updates # <<>>
      <3>1. updates' = updates /\ lost' = lost \cup {published + 1}
        BY <1>1, <2>0, <2>2 DEF Publish, Push
      <3>2. \A e \in Nat : UnderWay(e)' <=> UnderWay(e)
        BY <2>0, <3>1 DEF UnderWay
      <3>3. ~UnderWay(published + 1)
        <4>1. \A s : s = <<published + 1>> => s # <<>> /\ s[1] = published + 1
          OBVIOUS
        <4>2. watch # <<published + 1>> /\ updates # <<published + 1>>
          BY <2>0, <4>1 DEF KnownEvents
        <4> QED
          BY <2>0, <4>2 DEF UnderWay
      <3> QED
        BY <2>0, <3>1, <3>2, <3>3 DEF Pipeline
    <2> QED
      BY <2>1, <2>2
  <1>2. CASE WatchEvent
    BY <1>2 DEF WatchEvent, Pipeline, UnderWay
  <1>3. CASE TakeEvent
    <2>1. /\ watch # <<>> /\ event' = watch[1] /\ watch' = <<>> /\ work' = "process"
          /\ UNCHANGED <<published, lost, handled, updates>>
      BY <1>3 DEF TakeEvent
    <2>2. event = 0 /\ work # "process"
      BY <1>3 DEF TakeEvent, Pipeline
    <2>3. watch = <<watch[1]>> /\ watch[1] \in Nat /\ watch[1] # 0
      <3>1. watch = <<watch[1]>> /\ watch[1] \in Nat
        BY <2>1, OneElement
      <3> QED
        BY <2>1, <3>1 DEF Pipeline
    <2>4. \A e \in Nat : UnderWay(e)' <=> UnderWay(e)
      BY <2>1, <2>2, <2>3 DEF UnderWay
    <2> QED
      BY <2>1, <2>2, <2>3, <2>4 DEF Pipeline
  <1>4. CASE ProcessEvent
    BY <1>4 DEF ProcessEvent, Pipeline, UnderWay
  <1>14. ASSUME NEW f \in Filters, AppendLog(f) PROVE Pipeline'
    BY <1>0, <1>14 DEF AppendLog
  <1>15. CASE EndProcess
    BY <1>15 DEF EndProcess, Pipeline, UnderWay
  <1>5. CASE Tick \/ Close
    BY <1>0, <1>5 DEF Tick, Close
  <1>6. CASE \/ NextTimeoutFilter \/ Park \/ TimerFires \/ Expire \/ StartFlush \/ EndFlush
             \/ RemoveClosed
    BY <1>0, <1>6 DEF NextTimeoutFilter, Park, TimerFires, Expire, StartFlush, EndFlush, RemoveClosed
  <1>7. CASE \E f \in Filters : WriteUpdates(f)
    BY <1>0, <1>7 DEF WriteUpdates, FlushFilter
  <1>8. ASSUME NEW h \in Handlers, Handle(h) \/ HandleOther(h) PROVE Pipeline'
    BY <1>0, <1>8 DEF Handle, HandleOther, GetFilterChanges, UninstallFilter, managerVars,
       NewPolledFilter
  <1>9. ASSUME NEW h \in Handlers, Locked(h) PROVE Pipeline'
    BY <1>0, <1>9 DEF Locked, Uninstall, RemoveFilters, AddNodeFilter, AddFilter,
       RefreshFilterTimeout, RefreshTimeout, AddFilterTimeout, Signal
  <1>10. ASSUME NEW c \in Conns, WriteMessage(c) PROVE Pipeline'
    BY <1>0, <1>10 DEF WriteMessage
  <1>11. ASSUME NEW c \in Conns, RemoveFilterByWs(c) PROVE Pipeline'
    BY <1>0, <1>11 DEF RemoveFilterByWs, RemoveFilters, Signal
  <1>12. ASSUME NEW c \in Conns, NEW h \in Handlers, HandleWs(h, c) PROVE Pipeline'
    BY <1>0, <1>12 DEF HandleWs, EdgeSubscribe
  <1>13. CASE UNCHANGED vars
    BY <1>0, <1>13 DEF vars, managerVars
  <1> QED
    BY <1>1, <1>2, <1>3, <1>4, <1>5, <1>6, <1>7, <1>8, <1>9, <1>10, <1>11, <1>12, <1>13, <1>14,
       <1>15 DEF Next, Run, RunStep, Environment

LEMMA AddsPreserved ==
  ASSUME TypeOK, KnownFilters, AddsAreNew, [Next]_vars
  PROVE  AddsAreNew'
  <1> USE DEF TypeOK, tableVars, boxVars, streamVars, workVars, wsVars, handlerVars, OthersUnchanged
  <1>0. ASSUME filters' \subseteq filters, UNCHANGED handlerVars PROVE AddsAreNew'
    BY <1>0 DEF AddsAreNew
  <1>1. CASE Run
    BY <1>0, <1>1 DEF Run, RunStep, NextTimeoutFilter, Park, TimerFires, Expire, TakeEvent,
       ProcessEvent, AppendLog, EndProcess, StartFlush, EndFlush, RemoveClosed, Remove
  <1>2. CASE Environment
    BY <1>0, <1>2 DEF Environment, Tick, WatchEvent, Close, Publish
  <1>3. CASE \E f \in Filters : WriteUpdates(f)
    BY <1>0, <1>3 DEF WriteUpdates, FlushFilter
  <1>4. ASSUME NEW h \in Handlers, Handle(h) PROVE AddsAreNew'
    <2>1. filters' = filters /\ (Continue(h, "refresh", hfilter'[h]) \/ Continue(h, "uninstall", hfilter'[h]))
      BY <1>4 DEF Handle, GetFilterChanges, UninstallFilter, managerVars, Continue
    <2>2. \A k \in Handlers : hstep'[k] = "add" => hstep[k] = "add" /\ hfilter'[k] = hfilter[k]
      BY <2>1 DEF Continue
    <2> QED
      BY <2>1, <2>2 DEF AddsAreNew
  <1>5. ASSUME NEW h \in Handlers, Continue(h, "add", NewId), created # Filters, UNCHANGED filters
        PROVE  AddsAreNew'
    <2>1. NewId \in Filters \ created
      BY <1>5, NewIdIsNew
    <2> QED
      BY <1>5, <2>1 DEF Continue, AddsAreNew, KnownFilters
  <1>6. ASSUME NEW h \in Handlers, Locked(h) PROVE AddsAreNew'
    <2>1. CASE Uninstall(h)
      BY <2>1 DEF Uninstall, RemoveFilters, Remove, Done, AddsAreNew
    <2>2. CASE AddNodeFilter(h)
      BY <2>2 DEF AddNodeFilter, AddFilter, Done, AddsAreNew
    <2>3. CASE RefreshFilterTimeout(h)
      BY <2>3 DEF RefreshFilterTimeout, Done, AddsAreNew
    <2> QED
      BY <1>6, <2>1, <2>2, <2>3 DEF Locked
  <1>7. ASSUME NEW c \in Conns, WriteMessage(c) PROVE AddsAreNew'
    BY <1>0, <1>7 DEF WriteMessage
  <1>8. ASSUME NEW c \in Conns, RemoveFilterByWs(c) PROVE AddsAreNew'
    BY <1>0, <1>8 DEF RemoveFilterByWs, RemoveFilters, Remove
  <1>9. ASSUME NEW h \in Handlers, HandleOther(h) PROVE AddsAreNew'
    BY <1>5, <1>9 DEF HandleOther, NewPolledFilter, NewFilterBase
  <1>10. ASSUME NEW c \in Conns, NEW h \in Handlers, HandleWs(h, c) PROVE AddsAreNew'
    BY <1>5, <1>10 DEF HandleWs, EdgeSubscribe, NewFilterBase
  <1>11. CASE UNCHANGED vars
    BY <1>0, <1>11 DEF vars, managerVars
  <1> QED
    BY <1>1, <1>2, <1>3, <1>4, <1>6, <1>7, <1>8, <1>9, <1>10, <1>11 DEF Next

Boxes ==
  /\ UpdatesOnce
  /\ \A f \in Filters : since[f] <= Got(f) /\ (f \notin filters => msgs[f] = <<>>)

LEMMA GotNat ==
  ASSUME TypeOK, Pipeline, NEW f
  PROVE  Got(f) \in Nat /\ Got(f) <= handled
  <1>1. CASE f \in Owed
    <2>1. handled \in Nat /\ handled # 0
      BY <1>1 DEF Owed, Pipeline, TypeOK
    <2> QED
      BY <1>1, <2>1 DEF Got
  <1>2. CASE f \notin Owed
    BY <1>2 DEF Got, TypeOK
  <1> QED
    BY <1>1, <1>2

(* Nothing that a box depends on changes, except that some boxes are removed, or emptied by
   a poll, or are those of websockets. *)
LEMMA BoxesStay ==
  ASSUME TypeOK, Pipeline, Boxes, UNCHANGED <<handled, Owed>>,
         lost' = lost \/ lost' = lost \cup {published + 1}, filters' \subseteq filters,
         \A f \in created : wsOf'[f] = wsOf[f] /\ query'[f] = query[f],
         \A f \in Filters :
           \/ msgs'[f] = msgs[f] /\ since'[f] = since[f] /\ (f \in filters => f \in filters')
           \/ msgs'[f] = <<>> /\ since'[f] = 0 /\ f \notin filters'
           \/ msgs'[f] = <<>> /\ since'[f] = Got(f)
           \/ msgs'[f] = <<>> /\ since'[f] = since[f] /\ ~Polled(f)
  PROVE  Boxes'
  <1> USE DEF TypeOK
  <1>g. \A f \in Filters : Got(f)' = Got(f) /\ Got(f) \in Nat /\ Got(f) <= published
    BY GotNat DEF Got, Pipeline
  <1>0. \A f \in Filters : since'[f] <= Got(f)' /\ (f \notin filters' => msgs'[f] = <<>>)
    BY <1>g DEF Boxes
  <1>1. ASSUME NEW f \in filters', Polled(f)'
        PROVE  Ascending(msgs'[f]) /\ Elements(msgs'[f]) = Due(f)'
    <2>1. f \in filters /\ f \in created /\ f \in Filters /\ Polled(f)
      BY <1>1 DEF Polled, HasWSConn
    <2>2. \A e \in since[f] + 1..Got(f) : e \in lost' <=> e \in lost
      BY <2>1, <1>g
    <2>3. CASE msgs'[f] = msgs[f] /\ since'[f] = since[f]
      BY <1>g, <2>1, <2>2, <2>3 DEF Boxes, UpdatesOnce, Due
    <2>4. CASE msgs'[f] = <<>> /\ since'[f] = Got(f)
      <3>1. Ascending(<<>>) /\ Elements(<<>>) = {}
        BY DEF Ascending, Elements
      <3>2. Due(f)' = {}
        BY <1>g, <2>1, <2>4 DEF Due
      <3> QED
        BY <2>4, <3>1, <3>2
    <2> QED
      BY <1>1, <2>1, <2>3, <2>4
  <1>2. UpdatesOnce'
    BY <1>1 DEF UpdatesOnce
  <1> QED
    BY <1>0, <1>2 DEF Boxes

(* The events between the last one and the one that comes now were lost, so that a filter
   which the new one has not reached is due what it was. *)
LEMMA BegunOnce ==
  ASSUME TypeOK, Pipeline, Boxes, ProcessEvent
  PROVE  Boxes'
  <1> USE DEF TypeOK
  <1>1. /\ event \in Nat /\ event # 0 /\ handled < event /\ handled' = event /\ event <= published
        /\ UNCHANGED <<msgs, since, lost, filters, query, wsOf>>
        /\ \A e \in Nat : handled < e /\ e < event => e \in lost
    <2>1. event \in Nat /\ event # 0 /\ handled < event /\ event <= published
      BY DEF Pipeline, ProcessEvent
    <2>2. \A e \in Nat : e < event => ~UnderWay(e)
      <3>1. ASSUME NEW e \in Nat, e < event PROVE watch # <<e>> /\ updates # <<e>>
        <4>1. <<e>> # <<>> /\ <<e>>[1] = e
          OBVIOUS
        <4> QED
          BY <2>1, <3>1, <4>1 DEF Pipeline
      <3> QED
        BY <2>1, <3>1 DEF UnderWay
    <2>3. \A e \in Nat : handled < e /\ e < event => e \in lost
      BY <2>1, <2>2 DEF Pipeline
    <2> QED
      BY <2>1, <2>3 DEF ProcessEvent, tableVars, boxVars
  <1>2. /\ Owed = {} /\ \A f \in Filters : Got(f) = handled
        /\ Owed' = {f \in filters : Match(query[f], AppOf[event])}
    BY DEF ProcessEvent, Owed, Got
  <1>3. \A f \in Filters : Got(f)' = IF f \in Owed' THEN event - 1 ELSE event
    BY <1>1 DEF Got
  <1>4. ASSUME NEW f \in Filters
        PROVE  since'[f] <= Got(f)' /\ (f \notin filters' => msgs'[f] = <<>>)
    <2>1. since[f] \in Nat /\ since[f] <= handled /\ since'[f] = since[f]
      BY <1>1, <1>2 DEF Boxes
    <2>2. Got(f)' \in {event - 1, event}
      BY <1>3
    <2>3. since'[f] <= Got(f)'
      BY <1>1, <2>1, <2>2
    <2> QED
      BY <1>1, <2>3 DEF Boxes
  <1>5. ASSUME NEW f \in filters PROVE Due(f)' = Due(f)
    <2>1. since[f] \in Nat /\ since[f] <= handled /\ f \in Filters
      BY <1>2 DEF Boxes
    <2>2. CASE Match(query[f], AppOf[event])
      <3>1. Got(f)' = event - 1
        BY <1>2, <1>3, <2>1, <2>2
      <3> QED
        BY <1>1, <1>2, <2>1, <3>1 DEF Due
    <2>3. CASE ~Match(query[f], AppOf[event])
      <3>1. Got(f)' = event
        BY <1>2, <1>3, <2>1, <2>3
      <3> QED
        BY <1>1, <1>2, <2>1, <2>3, <3>1 DEF Due
    <2> QED
      BY <2>2, <2>3
  <1>6. UpdatesOnce'
    BY <1>1, <1>5 DEF Boxes, UpdatesOnce, Polled, HasWSConn
  <1> QED
    BY <1>4, <1>6 DEF Boxes

LEMMA AppendedToOne ==
  ASSUME TypeOK, KnownTodo, Pipeline, Boxes, NEW f \in Filters, AppendLog(f)
  PROVE  Boxes'
  <1> USE DEF TypeOK
  <1>1. /\ event = handled /\ event \in Nat /\ event # 0 /\ event \notin lost
        /\ f \in filters /\ Match(query[f], AppOf[event])
        /\ msgs' = [msgs EXCEPT ![f] = Append(msgs[f], event)]
        /\ UNCHANGED <<since, lost, handled, filters, query, wsOf>>
    BY DEF AppendLog, KnownTodo, Pipeline, streamVars, tableVars
  <1>2. /\ Got(f) = event - 1 /\ Got(f)' = event
        /\ \A g \in Filters \ {f} : Got(g)' = Got(g)
    BY <1>1 DEF AppendLog, Owed, Got
  <1>3. \A g \in Filters : since'[g] <= Got(g)' /\ (g \notin filters' => msgs'[g] = <<>>)
    BY <1>1, <1>2 DEF Boxes
  <1>4. ASSUME NEW g \in filters, Polled(g)
        PROVE  Ascending(msgs'[g]) /\ Elements(msgs'[g]) = Due(g)'
    <2>1. /\ msgs[g] \in Seq(Nat) /\ Ascending(msgs[g]) /\ Elements(msgs[g]) = Due(g)
          /\ since[g] \in Nat /\ since[g] <= Got(g)
      BY <1>4 DEF Boxes, UpdatesOnce
    <2>2. CASE g = f
      <3>1. \A x \in Elements(msgs[g]) : x < event
        BY <1>1, <1>2, <2>1, <2>2 DEF Due
      <3>2. Due(g)' = Due(g) \cup {event}
        BY <1>1, <1>2, <2>1, <2>2 DEF Due
      <3>3. msgs'[g] = Append(msgs[g], event)
        BY <1>1, <2>2
      <3> QED
        BY <1>1, <2>1, <3>1, <3>2, <3>3, AppendedOnce
    <2>3. CASE g # f
      <3>1. Due(g)' = Due(g) /\ msgs'[g] = msgs[g]
        BY <1>1, <1>2, <2>3 DEF Due
      <3> QED
        BY <2>1, <3>1
    <2> QED
      BY <2>2, <2>3
  <1>5. UpdatesOnce'
    BY <1>1, <1>4 DEF UpdatesOnce, Polled, HasWSConn
  <1> QED
    BY <1>3, <1>5 DEF Boxes

LEMMA AddedEmpty ==
  ASSUME TypeOK, KnownFilters, AddsAreNew, Pipeline, Boxes, NEW h \in Handlers, AddNodeFilter(h)
  PROVE  Boxes'
  <1> USE DEF TypeOK
  <1>1. /\ hfilter[h] \in created \ filters /\ filters' = filters \cup {hfilter[h]}
        /\ since' = [since EXCEPT ![hfilter[h]] = handled]
        /\ UNCHANGED <<msgs, lost, handled, query, wsOf, created>>
    BY DEF AddNodeFilter, AddFilter, KnownFilters, AddsAreNew, OthersUnchanged, streamVars
  <1>2. msgs[hfilter[h]] = <<>>
    BY <1>1 DEF Boxes
  <1>g. Owed = {} /\ Owed' = {} /\ \A f \in Filters : Got(f) = handled /\ Got(f)' = handled
    <2>1. work # "dispatch" /\ (work' = work \/ work' = "next")
      BY DEF AddNodeFilter, AddFilter, AddFilterTimeout, Signal, Lock, loopVars
    <2> QED
      BY <1>1, <2>1 DEF Owed, Got
  <1>3. \A f \in Filters : since'[f] <= Got(f)' /\ (f \notin filters' => msgs'[f] = <<>>)
    BY <1>1, <1>g DEF Boxes
  <1>4. ASSUME NEW f \in filters', Polled(f)
        PROVE  Ascending(msgs'[f]) /\ Elements(msgs'[f]) = Due(f)'
    <2>1. CASE f = hfilter[h]
      <3>1. Ascending(<<>>) /\ Elements(<<>>) = {}
        BY DEF Ascending, Elements
      <3>2. Due(f)' = {}
        BY <1>1, <1>g, <2>1 DEF Due
      <3> QED
        BY <1>1, <1>2, <2>1, <3>1, <3>2
    <2>2. CASE f # hfilter[h]
      BY <1>1, <1>g, <1>4, <2>2 DEF Boxes, UpdatesOnce, Due
    <2> QED
      BY <2>1, <2>2
  <1>5. UpdatesOnce'
    BY <1>1, <1>4 DEF UpdatesOnce, Polled, HasWSConn
  <1> QED
    BY <1>3, <1>5 DEF Boxes

LEMMA RemovalBoxes ==
  ASSUME TypeOK, Pipeline, Boxes, NEW S, Remove(S), UNCHANGED <<handled, lost, Owed>>
  PROVE  Boxes'
  <1>1. \A f \in Filters :
          \/ msgs'[f] = msgs[f] /\ since'[f] = since[f] /\ (f \in filters => f \in filters')
          \/ msgs'[f] = <<>> /\ since'[f] = 0 /\ f \notin filters'
    BY DEF Remove
  <1> QED
    BY <1>1, BoxesStay DEF Remove

(* Whoever has the write lock finds no event half appended, and leaves none. *)
LEMMA LockedOwesNothing ==
  ASSUME (\E h \in Handlers : Locked(h)) \/ (\E c \in Conns : RemoveFilterByWs(c))
  PROVE  Owed = {} /\ Owed' = {}
  <1>1. ASSUME NEW h \in Handlers, Locked(h)
        PROVE  work # "dispatch" /\ (work' = work \/ work' = "next")
    BY <1>1 DEF Locked, Uninstall, RemoveFilters, AddNodeFilter, AddFilter, RefreshFilterTimeout,
       RefreshTimeout, AddFilterTimeout, Signal, Lock, loopVars
  <1>2. ASSUME NEW c \in Conns, RemoveFilterByWs(c)
        PROVE  work # "dispatch" /\ (work' = work \/ work' = "next")
    BY <1>2 DEF RemoveFilterByWs, RemoveFilters, Signal, Lock, loopVars
  <1> QED
    BY <1>1, <1>2 DEF Owed

LEMMA BoxesPreserved ==
  ASSUME TypeOK, KnownFilters, KnownTodo, AddsAreNew, Pipeline, Boxes, [Next]_vars
  PROVE  Boxes'
  <1> USE DEF tableVars, boxVars, streamVars, workVars, wsVars, handlerVars, OthersUnchanged
  <1>0. ASSUME UNCHANGED <<msgs, since, filters, query, wsOf, handled, Owed>>,
               lost' = lost \/ lost' = lost \cup {published + 1}
        PROVE  Boxes'
    BY <1>0, BoxesStay
  <1>1. CASE ProcessEvent
    BY <1>1, BegunOnce
  <1>2. CASE Expire \/ RemoveClosed
    BY <1>2, RemovalBoxes DEF Expire, RemoveClosed, Owed
  <1>3. CASE \/ NextTimeoutFilter \/ Park \/ TimerFires \/ TakeEvent \/ EndProcess \/ StartFlush
             \/ EndFlush
    BY <1>0, <1>3 DEF NextTimeoutFilter, Park, TimerFires, TakeEvent, EndProcess, StartFlush,
       EndFlush, Owed
  <1>14. ASSUME NEW f \in Filters, AppendLog(f) PROVE Boxes'
    BY <1>14, AppendedToOne
  <1>4. CASE Environment
    BY <1>0, <1>4 DEF Environment, Tick, WatchEvent, Close, Publish, Owed
  <1>5. ASSUME NEW f \in Filters, WriteUpdates(f) PROVE Boxes'
    <2>1. /\ msgs' = [msgs EXCEPT ![f] = <<>>] /\ ~Polled(f)
          /\ UNCHANGED <<since, filters, query, wsOf, handled, lost, created, Owed>>
      BY <1>5 DEF WriteUpdates, FlushFilter, KnownTodo, Polled, Owed
    <2>2. \A g \in Filters : \/ msgs'[g] = msgs[g]
                             \/ msgs'[g] = <<>> /\ ~Polled(g)
      BY <2>1 DEF TypeOK
    <2> QED
      BY <2>1, <2>2, BoxesStay
  <1>6. ASSUME NEW h \in Handlers, Handle(h) PROVE Boxes'
    <2>1. CASE \E f \in Filters : UninstallFilter(h, f)
      BY <1>0, <2>1 DEF UninstallFilter, managerVars, Owed
    <2>2. ASSUME NEW f \in Filters, GetFilterChanges(h, f) PROVE Boxes'
      <3>1. /\ msgs' = [msgs EXCEPT ![f] = <<>>] /\ since' = [since EXCEPT ![f] = Got(f)]
            /\ UNCHANGED <<filters, query, wsOf, handled, lost, created, Owed>>
        BY <2>2 DEF GetFilterChanges, TakeUpdates, loopVars, Owed
      <3>2. \A g \in Filters : \/ msgs'[g] = msgs[g] /\ since'[g] = since[g]
                               \/ msgs'[g] = <<>> /\ since'[g] = Got(g)
        BY <3>1 DEF TypeOK
      <3> QED
        BY <3>1, <3>2, BoxesStay
    <2> QED
      BY <1>6, <2>1, <2>2 DEF Handle
  <1>7. ASSUME NEW q, NEW c, NewFilterBase(q, c), UNCHANGED <<msgs, since, handled, lost, Owed>>
        PROVE  Boxes'
    <2>1. NewId \in Filters \ created
      BY <1>7, NewIdIsNew DEF NewFilterBase, TypeOK
    <2>2. \A f \in created : wsOf'[f] = wsOf[f] /\ query'[f] = query[f]
      BY <1>7, <2>1 DEF NewFilterBase, TypeOK
    <2> QED
      BY <1>7, <2>2, BoxesStay DEF NewFilterBase
  <1>8. ASSUME NEW h \in Handlers, HandleOther(h) PROVE Boxes'
    BY <1>7, <1>8 DEF HandleOther, NewPolledFilter, loopVars, Owed
  <1>9. ASSUME NEW c \in Conns, NEW h \in Handlers, HandleWs(h, c) PROVE Boxes'
    BY <1>7, <1>9 DEF HandleWs, EdgeSubscribe, loopVars, Owed
  <1>10. ASSUME NEW h \in Handlers, Locked(h) PROVE Boxes'
    <2>0. UNCHANGED Owed
      BY <1>10, LockedOwesNothing
    <2>1. CASE Uninstall(h)
      BY <2>0, <2>1, RemovalBoxes DEF Uninstall, RemoveFilters
    <2>2. CASE AddNodeFilter(h)
      BY <2>2, AddedEmpty
    <2>3. CASE RefreshFilterTimeout(h)
      BY <1>0, <2>0, <2>3 DEF RefreshFilterTimeout
    <2> QED
      BY <1>10, <2>1, <2>2, <2>3 DEF Locked
  <1>11. ASSUME NEW c \in Conns, WriteMessage(c) PROVE Boxes'
    BY <1>0, <1>11 DEF WriteMessage, Owed
  <1>12. ASSUME NEW c \in Conns, RemoveFilterByWs(c) PROVE Boxes'
    BY <1>12, LockedOwesNothing, RemovalBoxes DEF RemoveFilterByWs, RemoveFilters
  <1>13. CASE UNCHANGED vars
    BY <1>0, <1>13 DEF vars, managerVars, Owed
  <1> QED
    BY <1>1, <1>2, <1>3, <1>4, <1>5, <1>6, <1>8, <1>9, <1>10, <1>11, <1>12, <1>13, <1>14
       DEF Next, Run, RunStep

UpdatesInv == AddsAreNew /\ Pipeline /\ Boxes

LEMMA UpdatesInvariant == Spec => []UpdatesInv
  <1>1. Init => UpdatesInv
    BY DEF Init, ManagerInit, UpdatesInv, AddsAreNew, Pipeline, Boxes, UpdatesOnce, Got, Owed
  <1>2. TimerInv /\ UpdatesInv /\ [Next]_vars => UpdatesInv'
    BY AddsPreserved, PipelinePreserved, BoxesPreserved DEF TimerInv, UpdatesInv
  <1> QED
    BY <1>1, <1>2, TimerInvariant, PTL DEF Spec

(* For any filters, queries and events, whoever polls a filter at the same time: what it holds
   are the matching events since it was installed or polled, once each and in order, except
   those that the stream dropped. *)
THEOREM UpdatesSafe == Spec => []PolledUpdatesOnce
  <1>1. UpdatesInv => PolledUpdatesOnce
    BY DEF UpdatesInv, Boxes, UpdatesOnce, Ascending, Elements, Due, PolledUpdatesOnce
  <1> QED
    BY <1>1, UpdatesInvariant, PTL

-----------------------------------------------------------------------------
(* A box for each filter: the steps of FilterBoxes *)

LEMMA BoxStays ==
  ASSUME TypeOK, UNCHANGED filters,
         \A f \in filters : msgs'[f] = msgs[f] /\ query'[f] = query[f]
  PROVE  BoxOf' = BoxOf
  BY DEF BoxOf, Wants

LEMMA OnceStays ==
  ASSUME UNCHANGED created,
         \A h \in Handlers : hstep'[h] = "add" <=> hstep[h] = "add",
         \A h \in Handlers : hstep[h] = "add" => hfilter'[h] = hfilter[h]
  PROVE  InstalledOnce' = InstalledOnce
  BY DEF InstalledOnce, Adding

(* A new id is not yet that of an installed filter. *)
LEMMA OnceNew ==
  ASSUME TypeOK, KnownFilters, NEW h \in Handlers, NEW q, NEW c, NewFilterBase(q, c),
         Continue(h, "add", NewId)
  PROVE  InstalledOnce' = InstalledOnce
  <1>1. NewId \in Filters \ created /\ created' = created \cup {NewId}
    BY NewIdIsNew DEF NewFilterBase, TypeOK
  <1>2. /\ hstep[h] = "idle" /\ hstep'[h] = "add" /\ hfilter'[h] = NewId
        /\ \A k \in Handlers \ {h} : hstep'[k] = hstep[k] /\ hfilter'[k] = hfilter[k]
    BY DEF Continue, TypeOK
  <1>3. {hfilter[k] : k \in Adding}' = {hfilter[k] : k \in Adding} \cup {NewId}
    BY <1>2 DEF Adding
  <1> QED
    BY <1>1, <1>3 DEF InstalledOnce

(* addFilter ends the one request that has the id. *)
LEMMA OnceInstalled ==
  ASSUME TypeOK, KnownFilters, AddsAreNew, NEW h \in Handlers, hstep[h] = "add", Done(h),
         UNCHANGED created
  PROVE  /\ hfilter[h] \notin InstalledOnce
         /\ InstalledOnce' = InstalledOnce \cup {hfilter[h]}
  <1>1. hfilter[h] \in created
    BY DEF KnownFilters
  <1>2. /\ hstep'[h] = "idle"
        /\ \A k \in Handlers \ {h} : hstep'[k] = hstep[k] /\ hfilter'[k] = hfilter[k]
    BY DEF Done, TypeOK
  <1>3. {hfilter[k] : k \in Adding}' = {hfilter[k] : k \in Adding} \ {hfilter[h]}
    BY <1>2 DEF Adding, AddsAreNew
  <1>4. hfilter[h] \in {hfilter[k] : k \in Adding}
    BY DEF Adding
  <1> QED
    BY <1>1, <1>3, <1>4 DEF InstalledOnce

(* An uninstalled filter's box goes with all it held. *)
LEMMA RemovalStep ==
  ASSUME TypeOK, NEW S, Remove(S), UNCHANGED <<InstalledOnce, handled, Owed>>, Owed = {}
  PROVE  Box!Next
  <1>1. BoxOf' = [f \in DOMAIN BoxOf \ S |-> BoxOf[f]]
    <2>1. filters' = filters \ S /\ \A f \in filters \ S : msgs'[f] = msgs[f]
      BY DEF Remove, TypeOK
    <2> QED
      BY <2>1 DEF BoxOf, Wants, Remove
  <1>2. DOMAIN BoxOf = filters /\ filters \subseteq Filters
    BY DEF BoxOf, TypeOK
  <1>3. Box!Uninstall(S \cap Filters)
    BY <1>1, <1>2 DEF Box!Uninstall
  <1> QED
    BY <1>3 DEF Box!Next

(* A poll or a write takes all that a filter holds; the filter may be gone. *)
LEMMA TakeStep ==
  ASSUME TypeOK, NEW f \in Filters, msgs' = [msgs EXCEPT ![f] = <<>>],
         UNCHANGED <<filters, query, InstalledOnce, handled, Owed>>
  PROVE  [Box!Next]_Box!vars
  <1>1. CASE f \in filters
    <2>1. BoxOf' = [BoxOf EXCEPT ![f].holds = <<>>]
      BY <1>1 DEF BoxOf, Wants, TypeOK
    <2>2. Box!Take(f)
      BY <1>1, <2>1 DEF Box!Take, BoxOf
    <2> QED
      BY <2>2 DEF Box!Next
  <1>2. CASE f \notin filters
    <2>1. BoxOf' = BoxOf
      BY <1>2, BoxStays DEF TypeOK
    <2> QED
      BY <2>1 DEF Box!vars
  <1> QED
    BY <1>1, <1>2

LEMMA InstallStep ==
  ASSUME TypeOK, KnownFilters, UpdatesInv, NEW h \in Handlers, AddNodeFilter(h)
  PROVE  Box!Next
  <1> DEFINE f == hfilter[h]
  <1>1. /\ f \in created /\ f \in Filters /\ f \notin filters /\ msgs[f] = <<>>
        /\ filters' = filters \cup {f} /\ UNCHANGED <<msgs, query, created, handled>>
    BY DEF AddNodeFilter, AddFilter, OthersUnchanged, streamVars, KnownFilters, UpdatesInv,
       AddsAreNew, Boxes, TypeOK
  <1>2. f \notin InstalledOnce /\ InstalledOnce' = InstalledOnce \cup {f}
    BY <1>1, OnceInstalled DEF AddNodeFilter, UpdatesInv
  <1>3. BoxOf' = [g \in DOMAIN BoxOf \cup {f} |->
                    IF g = f THEN [wants |-> Wants(f), holds |-> <<>>] ELSE BoxOf[g]]
    BY <1>1 DEF BoxOf, Wants
  <1>4. Wants(f) \in SUBSET (1..MaxEvents)
    BY DEF Wants
  <1>5. Owed = {} /\ Owed' = {}
    BY LockedOwesNothing DEF Locked
  <1>6. Box!Install(f)
    BY <1>1, <1>2, <1>3, <1>4, <1>5 DEF Box!Install
  <1> QED
    BY <1>1, <1>6 DEF Box!Next

(* processEvent: an event comes, and is owed to the filters that want it. *)
LEMMA ArriveStep ==
  ASSUME TypeOK, UpdatesInv, ProcessEvent, UNCHANGED InstalledOnce
  PROVE  Box!Next
  <1>1. event \in 1..MaxEvents /\ event > handled /\ handled' = event
    BY DEF UpdatesInv, Pipeline, ProcessEvent, TypeOK
  <1>2. UNCHANGED <<filters, query, msgs>>
    BY DEF ProcessEvent, tableVars, boxVars
  <1>3. BoxOf' = BoxOf
    BY <1>2, BoxStays
  <1>4. Owed = {} /\ Owed' = {f \in filters : Match(query[f], AppOf[event])}
    BY DEF ProcessEvent, Owed
  <1>5. Owed' = {f \in DOMAIN BoxOf : event \in BoxOf[f].wants}
    BY <1>1, <1>4 DEF BoxOf, Wants
  <1>6. Box!Arrive(event)
    BY <1>1, <1>3, <1>4, <1>5 DEF Box!Arrive
  <1> QED
    BY <1>1, <1>6 DEF Box!Next

LEMMA PutStep ==
  ASSUME TypeOK, KnownTodo, UpdatesInv, NEW f \in Filters, AppendLog(f), UNCHANGED InstalledOnce
  PROVE  Box!Next
  <1>1. /\ f \in filters /\ event = handled
        /\ msgs' = [msgs EXCEPT ![f] = Append(msgs[f], handled)]
        /\ UNCHANGED <<filters, query, handled>>
    BY DEF AppendLog, KnownTodo, UpdatesInv, Pipeline, streamVars, tableVars
  <1>2. BoxOf' = [BoxOf EXCEPT ![f].holds = Append(BoxOf[f].holds, handled)]
    BY <1>1 DEF BoxOf, Wants, TypeOK
  <1>3. f \in Owed /\ Owed' = Owed \ {f}
    BY DEF AppendLog, Owed
  <1>4. Box!Put(f)
    BY <1>1, <1>2, <1>3 DEF Box!Put
  <1> QED
    BY <1>4 DEF Box!Next

LEMMA BoxStep ==
  ASSUME TypeOK, KnownFilters, KnownTodo, UpdatesInv, [Next]_vars
  PROVE  [Box!Next]_Box!vars
  <1> USE DEF OthersUnchanged, handlerVars, wsVars, tableVars, boxVars, streamVars, workVars
  <1>h. ASSUME UNCHANGED <<created, hstep, hfilter>> PROVE InstalledOnce' = InstalledOnce
    BY <1>h, OnceStays
  <1>0. ASSUME UNCHANGED <<filters, msgs, query, handled, InstalledOnce, Owed>>
        PROVE  [Box!Next]_Box!vars
    BY <1>0, BoxStays DEF Box!vars
  <1>1. CASE ProcessEvent /\ UNCHANGED handlerVars
    BY <1>1, <1>h, ArriveStep DEF ProcessEvent
  <1>2. CASE (Expire \/ RemoveClosed) /\ UNCHANGED handlerVars
    BY <1>2, <1>h, RemovalStep DEF Expire, RemoveClosed, Remove, Owed
  <1>3. CASE /\ \/ NextTimeoutFilter \/ Park \/ TimerFires \/ TakeEvent \/ EndProcess \/ StartFlush
                \/ EndFlush
             /\ UNCHANGED handlerVars
    BY <1>0, <1>h, <1>3 DEF NextTimeoutFilter, Park, TimerFires, TakeEvent, EndProcess, StartFlush,
       EndFlush, Owed
  <1>14. ASSUME NEW f \in Filters, AppendLog(f), UNCHANGED handlerVars PROVE Box!Next
    BY <1>h, <1>14, PutStep DEF AppendLog
  <1>4. CASE Environment
    BY <1>0, <1>h, <1>4 DEF Environment, Tick, WatchEvent, Close, Publish, Owed
  <1>5. ASSUME NEW f \in Filters, WriteUpdates(f) PROVE [Box!Next]_Box!vars
    BY <1>5, <1>h, TakeStep DEF WriteUpdates, FlushFilter, Owed
  <1>6. ASSUME NEW h \in Handlers, Handle(h) PROVE [Box!Next]_Box!vars
    <2>1. PICK f \in Filters : GetFilterChanges(h, f) \/ UninstallFilter(h, f)
      BY <1>6 DEF Handle
    <2>2. created' = created /\ (Continue(h, "refresh", f) \/ Continue(h, "uninstall", f))
      BY <2>1 DEF GetFilterChanges, UninstallFilter, managerVars
    <2>3. InstalledOnce' = InstalledOnce
      BY <2>2, OnceStays DEF Continue, TypeOK
    <2> QED
      BY <1>0, <2>1, <2>3, TakeStep DEF GetFilterChanges, TakeUpdates, UninstallFilter, managerVars,
         loopVars, Owed
  <1>7. ASSUME NEW h \in Handlers, NEW q, NEW c, NewFilterBase(q, c), Continue(h, "add", NewId),
               UNCHANGED <<msgs, handled, Owed>>
        PROVE  [Box!Next]_Box!vars
    <2>1. NewId \in Filters \ created /\ filters' = filters
      BY <1>7, NewIdIsNew DEF NewFilterBase, TypeOK
    <2>2. \A f \in filters : query'[f] = query[f]
      BY <1>7, <2>1 DEF NewFilterBase, TypeOK
    <2> QED
      BY <1>7, <2>1, <2>2, OnceNew, BoxStays DEF Box!vars
  <1>8. ASSUME NEW h \in Handlers, HandleOther(h) PROVE [Box!Next]_Box!vars
    BY <1>7, <1>8 DEF HandleOther, NewPolledFilter, loopVars, Owed
  <1>9. ASSUME NEW c \in Conns, NEW h \in Handlers, HandleWs(h, c) PROVE [Box!Next]_Box!vars
    BY <1>7, <1>9 DEF HandleWs, EdgeSubscribe, loopVars, Owed
  <1>10. ASSUME NEW h \in Handlers, Locked(h) PROVE [Box!Next]_Box!vars
    <2>1. ASSUME hstep[h] # "add", Done(h), UNCHANGED created PROVE InstalledOnce' = InstalledOnce
      BY <2>1, OnceStays DEF Done, TypeOK
    <2>0. Owed = {} /\ Owed' = {}
      BY <1>10, LockedOwesNothing
    <2>2. CASE Uninstall(h)
      BY <2>0, <2>1, <2>2, RemovalStep DEF Uninstall, RemoveFilters, Remove
    <2>3. CASE AddNodeFilter(h)
      BY <2>3, InstallStep
    <2>4. CASE RefreshFilterTimeout(h)
      BY <1>0, <2>0, <2>1, <2>4 DEF RefreshFilterTimeout
    <2> QED
      BY <1>10, <2>2, <2>3, <2>4 DEF Locked
  <1>11. ASSUME NEW c \in Conns, WriteMessage(c) PROVE [Box!Next]_Box!vars
    BY <1>0, <1>h, <1>11 DEF WriteMessage, Owed
  <1>12. ASSUME NEW c \in Conns, RemoveFilterByWs(c) PROVE [Box!Next]_Box!vars
    BY <1>h, <1>12, LockedOwesNothing, RemovalStep DEF RemoveFilterByWs, RemoveFilters, Remove
  <1>13. CASE UNCHANGED vars
    BY <1>0, <1>h, <1>13 DEF vars, managerVars, Owed
  <1> QED
    BY <1>1, <1>2, <1>3, <1>4, <1>5, <1>6, <1>8, <1>9, <1>10, <1>11, <1>12, <1>13, <1>14
       DEF Next, Run, RunStep

(* The manager with all its requests, timeouts and writes is a box for each filter, for any
   numbers of them, although polls come between the appends of one event: an id is installed
   once, every event that comes is put once and in order in the box of each filter that wants
   it, no filter comes or goes before it is in all of them, and nothing is taken out but by
   emptying a box or removing its filter. *)
THEOREM BoxesImplemented == Spec => ImplementsFilterBoxes
  <1>1. Init => Box!Init
    <2>1. ASSUME Init PROVE InstalledOnce = {} /\ BoxOf = [f \in {} |-> {}] /\ handled = 0 /\ Owed = {}
      BY <2>1 DEF Init, ManagerInit, InstalledOnce, BoxOf, Owed
    <2> QED
      BY <2>1 DEF Box!Init
  <1>2. TimerInv /\ UpdatesInv /\ [Next]_vars => [Box!Next]_Box!vars
    BY BoxStep DEF TimerInv
  <1> QED
    BY <1>1, <1>2, TimerInvariant, UpdatesInvariant, PTL DEF Spec, ImplementsFilterBoxes, Box!Spec
=============================================================================
