----------------------------- MODULE FilterBoxes -----------------------------
(***************************************************************************)
(* What the node filter manager promises its clients, without timeouts,    *)
(* locks, websockets or a worker: a box for each installed filter.  A      *)
(* filter is installed once in its life, with an empty box.  Events come   *)
(* once and in order; each is put in the boxes that want it, one after     *)
(* the other and in no order, and before it is in all of them no other     *)
(* event comes and no filter is installed or uninstalled.  A box is        *)
(* emptied as a whole, at any time, and goes with its filter.              *)
(***************************************************************************)
EXTENDS Integers, Sequences

CONSTANTS Filters, Events   \* events are numbers, in the order in which they happen

VARIABLES
  used,   \* filters that were installed once
  box,    \* of each filter that is: the events it wants and those it holds
  last,   \* the event that came last
  owed    \* the filters that want it and have not got it

vars == <<used, box, last, owed>>

Init == used = {} /\ box = [f \in {} |-> {}] /\ last = 0 /\ owed = {}

Install(f) ==
  /\ owed = {} /\ f \notin used
  /\ used' = used \cup {f}
  /\ \E W \in SUBSET Events :
       box' = [g \in DOMAIN box \cup {f} |->
                 IF g = f THEN [wants |-> W, holds |-> <<>>] ELSE box[g]]
  /\ UNCHANGED <<last, owed>>

Uninstall(S) ==
  /\ owed = {}
  /\ box' = [f \in DOMAIN box \ S |-> box[f]]
  /\ UNCHANGED <<used, last, owed>>

Arrive(e) ==
  /\ owed = {} /\ e > last
  /\ last' = e
  /\ owed' = {f \in DOMAIN box : e \in box[f].wants}
  /\ UNCHANGED <<used, box>>

Put(f) ==
  /\ f \in owed
  /\ box' = [box EXCEPT ![f].holds = Append(box[f].holds, last)]
  /\ owed' = owed \ {f}
  /\ UNCHANGED <<used, last>>

Take(f) ==
  /\ f \in DOMAIN box
  /\ box' = [box EXCEPT ![f].holds = <<>>]
  /\ UNCHANGED <<used, last, owed>>

Next ==
  \/ \E f \in Filters : Install(f) \/ Put(f) \/ Take(f)
  \/ \E S \in SUBSET Filters : Uninstall(S)
  \/ \E e \in Events : Arrive(e)

Spec == Init /\ [][Next]_vars
=============================================================================
