------------------------------ MODULE DialQueue ------------------------------
(***************************************************************************)
(* The dial queue of the networking server (network/dial): the tasks for   *)
(* peers to be dialled, filled by AddTask and emptied by one dial loop     *)
(* (Server.runDial) that calls PopTask again and again.                    *)
(*                                                                         *)
(* d.heap is the set of the tasks whose index is >= 0: container/heap      *)
(* promises only that Pop returns a least element of Less.  d.tasks maps a *)
(* peer to the task AddTask stored last.  A task is a pointer in the code, *)
(* so two tasks of one peer are different tasks: `id` stands for identity  *)
(* and grows with every AddTask.                                           *)
(*                                                                         *)
(* Every method body under d.Lock() is one action.  PopTask is a loop of   *)
(* three: the locked popTaskImpl, entering the select, and being woken.    *)
(* The gap between the first two is where AddTask's non-blocking send on   *)
(* the unbuffered updateCh finds no receiver.                              *)
(*                                                                         *)
(* A definition that stands just before another one of the same shape is   *)
(* a variant with a defect, used only to show that the properties notice.  *)
(***************************************************************************)
EXTENDS Integers

CONSTANTS
  Peers,          \* remote peer IDs
  Priorities,     \* common.DialPriority values
  MaxTasks        \* bound of the model: how many tasks are ever added

ASSUME PrioritiesAssumption == Priorities \subseteq Nat
ASSUME MaxTasksAssumption == MaxTasks \in Nat

VARIABLES
  heap,           \* d.heap: the tasks that PopTask can still return
  tasks,          \* d.tasks: peer -> {} or {the task stored last}
  closed,         \* closeCh is closed
  popper,         \* where the dial loop is in PopTask
  added,          \* number of AddTask calls so far; the next task's identity
  lastAdded,      \* auxiliary: peer -> identity of its last task, -1 if none
  parkedAt        \* auxiliary: `added` when the dial loop entered the select

queueVars == <<heap, tasks, closed, added, lastAdded>>
vars == <<heap, tasks, closed, popper, added, lastAdded, parkedAt>>

Task == [id : Nat, peer : Peers, priority : Priorities]

(* "locking": about to call popTaskImpl.  "empty": popTaskImpl returned nil,
   the select is not entered yet.  "parked": blocked in the select.
   "stopped": PopTask returned nil, and runDial with it. *)
PopperStates == {"locking", "empty", "parked", "stopped"}

Init ==
  /\ heap = {}
  /\ tasks = [p \in Peers |-> {}]
  /\ closed = FALSE
  /\ popper = "locking"
  /\ added = 0
  /\ lastAdded = [p \in Peers |-> -1]
  /\ parkedAt = 0

-----------------------------------------------------------------------------
(* Less(i, j) is priority(i) < priority(j), and heap.Pop returns a least task. *)
Least(S) == {t \in S : \A u \in S : t.priority <= u.priority}

(* The task AddTask allocates. *)
NewTaskUnprioritised(p, prio) == [id |-> added, peer |-> p, priority |-> 0]
NewTask(p, prio) == [id |-> added, peer |-> p, priority |-> prio]

(* d.tasks[p] = task, replacing the pointer that was there. *)
StoreIfAbsent(p, t) == IF tasks[p] = {} THEN [tasks EXCEPT ![p] = {t}] ELSE tasks
Store(p, t) == [tasks EXCEPT ![p] = {t}]

(* The non-blocking send on updateCh: received only by a dial loop that is
   blocked in the select, which then goes back to popTaskImpl. *)
NoSignal == popper
Signal == IF popper = "parked" THEN "locking" ELSE popper

(* AddTask: the task is stored in d.tasks and pushed, whatever was there, and
   the dial loop is signalled.  MaxTasks bounds the number of calls. *)
AddTask(p, prio) ==
  LET t == NewTask(p, prio) IN
  /\ added < MaxTasks
  /\ added' = added + 1
  /\ lastAdded' = [lastAdded EXCEPT ![p] = added]
  /\ tasks' = Store(p, t)
  /\ heap' = heap \cup {t}
  /\ popper' = Signal
  /\ UNCHANGED <<closed, parkedAt>>

(* DeleteTask: only the task d.tasks knows is taken off the heap, and only if
   it was not popped (index >= 0). *)
DeleteTask(p) ==
  /\ tasks[p] # {}
  /\ heap' = heap \ tasks[p]
  /\ tasks' = [tasks EXCEPT ![p] = {}]
  /\ UNCHANGED <<closed, popper, added, lastAdded, parkedAt>>

(* popTaskImpl with a task on the heap: PopTask returns it and runDial, when it
   is done with it, calls PopTask again.  d.tasks keeps the popped task. *)
Pop(t) ==
  /\ popper = "locking"
  /\ t \in Least(heap)
  /\ heap' = heap \ {t}
  /\ UNCHANGED <<tasks, closed, popper, added, lastAdded, parkedAt>>

(* popTaskImpl with an empty heap returns nil; the lock is released here. *)
PopEmpty ==
  /\ popper = "locking"
  /\ heap = {}
  /\ popper' = "empty"
  /\ UNCHANGED <<queueVars, parkedAt>>

(* A select that would only see the act of closing, not the closed channel. *)
EnterSelectMissingClose ==
  /\ popper = "empty"
  /\ popper' = "parked"
  /\ parkedAt' = added
  /\ UNCHANGED queueVars

(* The select: no sender ever waits on updateCh, so it either sees closeCh
   closed and returns nil, or blocks. *)
EnterSelect ==
  /\ popper = "empty"
  /\ popper' = IF closed THEN "stopped" ELSE "parked"
  /\ parkedAt' = IF closed THEN parkedAt ELSE added
  /\ UNCHANGED queueVars

(* Close wakes the dial loop out of the select, and it returns nil. *)
Close ==
  /\ ~closed
  /\ closed' = TRUE
  /\ popper' = IF popper = "parked" THEN "stopped" ELSE popper
  /\ UNCHANGED <<heap, tasks, added, lastAdded, parkedAt>>

PopTask == (\E t \in heap : Pop(t)) \/ PopEmpty \/ EnterSelect

Next ==
  \/ \E p \in Peers, prio \in Priorities : AddTask(p, prio)
  \/ \E p \in Peers : DeleteTask(p)
  \/ PopTask
  \/ Close

Spec == Init /\ [][Next]_vars

(* The dial loop is a goroutine of its own that blocks only in the select.
   Nothing obliges anybody to add, delete or close. *)
FairSpec == Spec /\ WF_vars(PopTask)

-----------------------------------------------------------------------------
(* The values the variables take; the loop of PopTask is in one of its states. *)
TypeOK ==
  /\ heap \subseteq Task
  /\ tasks \in [Peers -> SUBSET Task]
  /\ closed \in BOOLEAN
  /\ popper \in PopperStates
  /\ added \in Nat
  /\ lastAdded \in [Peers -> Nat \cup {-1}]
  /\ parkedAt \in Nat

(* DeleteTask(p) always withdraws what the last AddTask(p) queued: as long as
   that task is on the heap, d.tasks points to it.  (Tasks of p that a later
   AddTask superseded stay on the heap and are still dialled.) *)
LastAddIsWithdrawable ==
  \A t \in heap : t.id = lastAdded[t.peer] => tasks[t.peer] = {t}

(* A dial loop that sleeps in PopTask can only be missing tasks that were
   added before it entered the select, in the gap after popTaskImpl gave up
   the lock: every later AddTask wakes it. *)
SleeperMissesOnlyEarlierTasks ==
  popper = "parked" => \A t \in heap : t.id < parkedAt

(* Server.Close ends runDial: once closeCh is closed, PopTask eventually
   returns nil, wherever the loop was (AddTask is called finitely often). *)
CloseStopsPopper == closed ~> popper = "stopped"

(* What dial_queue_test.go's TestDialQueue asserts of a dial loop blocked in
   PopTask: a queued task is handed to it (t.Fatal("timeout") otherwise). *)
SleeperIsWoken ==
  (popper = "parked" /\ heap # {}) ~> (popper # "parked" \/ heap = {})

=============================================================================
