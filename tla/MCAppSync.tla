----------------------------- MODULE MCAppSync -----------------------------
(* Two messages of one node and one of another, buffers of one, two peers. *)
EXTENDS AppSync

MCNodeOf == <<"n1", "n1", "n2">>
=============================================================================
