---------------------------- MODULE MCConnManager ----------------------------
(* Two peers, one of them a bootnode that can be connected in both directions
   at once, and one slot in each direction. *)
EXTENDS ConnManager

CONSTANTS p1, p2, c1, c2, c3,
          MaxInProgress   \* a connection opens only while fewer are in progress

MCPeerOf == [c \in Conns |-> IF c = c3 THEN p2 ELSE p1]
MCDirOf  == [c \in Conns |-> IF c = c2 THEN "out" ELSE "in"]
MCMaxConns == [d \in {"in", "out"} |-> 1]

(* A connection with a notification or a handshake under way. *)
InProgress(c) == phase[c] \notin {"idle", "up"} \/ shake[c] # "none"
MayOpen       == Cardinality({c \in Conns : InProgress(c)}) < MaxInProgress

(* FairSpec for a libp2p that opens connections only within the bound: what
   happens to the open ones is not bounded. *)
MCNext ==
  \E c \in Conns :
    (MayOpen /\ OpenConn(c)) \/ CloseConn(c) \/ Notify(c) \/ Handshake(c)
MCFairSpec == Init /\ [][MCNext]_vars /\ Fairness

=============================================================================
