----------------------------- MODULE MCDialQueue -----------------------------
(* The dial queue with two peers, the two priorities of network/common
   (RequestedDial = 1 and RandomDial = 10) and a few tasks. *)
EXTENDS DialQueue

MCPriorities == {1, 10}

=============================================================================
