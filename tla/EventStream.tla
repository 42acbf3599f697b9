----------------------------- MODULE EventStream -----------------------------
(***************************************************************************)
(* The application event stream (application/subscription.go): an update   *)
(* channel of one element per subscription, written without blocking.      *)
(***************************************************************************)
EXTENDS Sequences

(* A push that overwrites nothing and refuses nothing: an unbounded channel. *)
PushUnbounded(ch, event) == Append(ch, event)

(* eventStream.push for one subscription: a full channel loses the new event. *)
Push(ch, event) == IF ch = <<>> THEN <<event>> ELSE ch
=============================================================================
