------------------------------ MODULE MCJsonRpc ------------------------------
(* Two events, of which the filters want the second. *)
EXTENDS JsonRpc

App(name) == [tag |-> "t", name |-> name, id |-> "p", version |-> "v"]
Query(name) == [tag |-> Any, name |-> name, id |-> Any, version |-> Any]

MCAppOf == <<App("b"), App("a")>>
MCQueries == {Query("a")}
=============================================================================
