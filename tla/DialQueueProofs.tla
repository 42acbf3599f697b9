---------------------------- MODULE DialQueueProofs ----------------------------
(***************************************************************************)
(* Proofs about the dial queue, for any set of peers and any number of     *)
(* tasks.  Identities order the tasks in time, so the inductive invariant  *)
(* adds to the type invariant that every identity in use was handed out    *)
(* and that a task is determined by its identity.                          *)
(***************************************************************************)
EXTENDS DialQueue, TLAPS

(* Every task the queue refers to was made by an AddTask call that is over. *)
IssuedTasks ==
  /\ \A t \in heap : t.id < added
  /\ \A p \in Peers : \A t \in tasks[p] : t.id < added
  /\ \A p \in Peers : lastAdded[p] < added
  /\ parkedAt <= added

(* d.tasks[p] is at most the task of the last AddTask(p), never another one. *)
TasksAreLast ==
  \A p \in Peers : \A t \in tasks[p] : t.peer = p /\ t.id = lastAdded[p]

QueueInv ==
  /\ TypeOK
  /\ IssuedTasks
  /\ TasksAreLast
  /\ LastAddIsWithdrawable
  /\ SleeperMissesOnlyEarlierTasks

USE PrioritiesAssumption, MaxTasksAssumption

LEMMA QueueInitial == Init => QueueInv
  <1> SUFFICES ASSUME Init PROVE QueueInv
    OBVIOUS
  <1> USE DEF Init
  <1>1. TypeOK
    <2>1. lastAdded \in [Peers -> Nat \cup {-1}]
      OBVIOUS
    <2>2. tasks \in [Peers -> SUBSET Task]
      OBVIOUS
    <2> QED
      BY <2>1, <2>2 DEF TypeOK, PopperStates
  <1>2. IssuedTasks
    BY DEF IssuedTasks
  <1>3. TasksAreLast /\ LastAddIsWithdrawable /\ SleeperMissesOnlyEarlierTasks
    BY DEF TasksAreLast, LastAddIsWithdrawable, SleeperMissesOnlyEarlierTasks
  <1> QED
    BY <1>1, <1>2, <1>3 DEF QueueInv

LEMMA QueueInductive == QueueInv /\ [Next]_vars => QueueInv'
  <1> SUFFICES ASSUME QueueInv, [Next]_vars PROVE QueueInv'
    OBVIOUS
  <1> USE DEF QueueInv, TypeOK, IssuedTasks, TasksAreLast, LastAddIsWithdrawable,
              SleeperMissesOnlyEarlierTasks, PopperStates
  <1>1. ASSUME NEW p \in Peers, NEW prio \in Priorities, AddTask(p, prio)
        PROVE  QueueInv'
    <2> DEFINE t == NewTask(p, prio)
    <2>1. /\ added' = added + 1
          /\ lastAdded' = [lastAdded EXCEPT ![p] = added]
          /\ tasks' = [tasks EXCEPT ![p] = {t}]
          /\ heap' = heap \cup {t}
          /\ popper' = IF popper = "parked" THEN "locking" ELSE popper
          /\ closed' = closed
          /\ parkedAt' = parkedAt
      BY <1>1 DEF AddTask, Store, Signal
    <2>2. t \in Task /\ t.id = added /\ t.peer = p
      BY DEF Task, NewTask
    <2> HIDE DEF t
    <2>3. TypeOK'
      BY <2>1, <2>2
    <2>4. IssuedTasks'
      BY <2>1, <2>2 DEF Task
    <2>5. TasksAreLast'
      BY <2>1, <2>2
    <2>6. LastAddIsWithdrawable'
      BY <2>1, <2>2 DEF Task
    <2>7. SleeperMissesOnlyEarlierTasks'
      BY <2>1, <2>2
    <2> QED
      BY <2>3, <2>4, <2>5, <2>6, <2>7
  <1>2. ASSUME NEW p \in Peers, DeleteTask(p)
        PROVE  QueueInv'
    BY <1>2 DEF DeleteTask, Task
  <1>3. ASSUME NEW t \in heap, Pop(t)
        PROVE  QueueInv'
    BY <1>3 DEF Pop
  <1>4. CASE PopEmpty
    BY <1>4 DEF PopEmpty, queueVars
  <1>5. CASE EnterSelect
    BY <1>5 DEF EnterSelect, queueVars
  <1>6. CASE Close
    BY <1>6 DEF Close
  <1>7. CASE UNCHANGED vars
    BY <1>7 DEF vars
  <1> QED
    BY <1>1, <1>2, <1>3, <1>4, <1>5, <1>6, <1>7 DEF Next, PopTask

LEMMA QueueInvariant == Spec => []QueueInv
  BY QueueInitial, QueueInductive, PTL DEF Spec

(* The heap, the task map and the dial loop keep their types, for every set of peers:
   what is on the heap is a task of a peer with one of Priorities. *)
THEOREM QueueTypeOK == Spec => []TypeOK
  <1>1. QueueInv => TypeOK
    BY DEF QueueInv
  <1> QED
    BY <1>1, QueueInvariant, PTL

(* However often a peer is added again, deleted and popped, DeleteTask reaches the
   task of the peer's last AddTask if it is still on the heap. *)
THEOREM LastAddSafe == Spec => []LastAddIsWithdrawable
  <1>1. QueueInv => LastAddIsWithdrawable
    BY DEF QueueInv
  <1> QED
    BY <1>1, QueueInvariant, PTL

(* A sleeping dial loop misses at most tasks that were added before it entered the
   select of PopTask. *)
THEOREM QueueSafe == Spec => []SleeperMissesOnlyEarlierTasks
  <1>1. QueueInv => SleeperMissesOnlyEarlierTasks
    BY DEF QueueInv
  <1> QED
    BY <1>1, QueueInvariant, PTL

=============================================================================
