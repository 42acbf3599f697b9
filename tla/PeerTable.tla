------------------------------ MODULE PeerTable ------------------------------
(***************************************************************************)
(* What the networking server's bookkeeping promises to the rest of the    *)
(* program, without locks, handshakes or pending connections: a set of     *)
(* links, a link being a peer connected in a direction, and counters that  *)
(* are at every moment the numbers an observer of the links would count.   *)
(* Links are gained one at a time and lost a whole peer at a time.         *)
(***************************************************************************)
EXTENDS Integers, FiniteSets

CONSTANTS Peers, Bootnodes

Dirs == {"in", "out"}

VARIABLES
  links,          \* the set of <<peer, direction>> that are active
  count,          \* direction -> number of links in it
  bootnodeCount   \* number of links to bootnodes

vars == <<links, count, bootnodeCount>>

Linked(d) == {p \in Peers : <<p, d>> \in links}

Init ==
  /\ links = {}
  /\ count = [d \in Dirs |-> 0]
  /\ bootnodeCount = 0

(* The counters follow the links in the same step. *)
Counted ==
  /\ count' = [d \in Dirs |-> Cardinality(Linked(d)')]
  /\ bootnodeCount' = Cardinality(Linked("in")' \cap Bootnodes)
                      + Cardinality(Linked("out")' \cap Bootnodes)

Gain(p, d) ==
  /\ <<p, d>> \notin links
  /\ links' = links \cup {<<p, d>>}
  /\ Counted

Lose(p) ==
  /\ links' = links \ ({p} \X Dirs)
  /\ links' # links
  /\ Counted

Next ==
  \/ \E p \in Peers, d \in Dirs : Gain(p, d)
  \/ \E p \in Peers : Lose(p)

Spec == Init /\ [][Next]_vars

=============================================================================
