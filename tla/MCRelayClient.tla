---------------------------- MODULE MCRelayClient ----------------------------
(* Addresses inside the private blocks, next to them, and without a number. *)
EXTENDS RelayClient

MCAddrs == {<<172, b, 0, 1>> : b \in {2, 3, 4, 15, 16, 24, 31, 32, 159, 160, 255}} \cup
           {<<127, 0, 0, 1>>, <<10, 1, 2, 3>>, <<11, 1, 2, 3>>, <<>>}
=============================================================================
