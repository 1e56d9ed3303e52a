----------------------- MODULE MCSessionProjectStore -----------------------
(* Instance of SessionProjectStore for TLC: two sessions, and one call of   *)
(* every kind the plugin makes on them.                                     *)
EXTENDS SessionProjectStore

CONSTANTS k1, k2, c1, c2, p1, d1

MCKeys == {k1, k2}
MCCalls == {c1, c2}
MCValues == {NULL, p1, d1, "manual", "route"}

Call(op, key, patch) == [op |-> op, key |-> key, patch |-> patch]
NoPatch == [f \in {} |-> NULL]

MCRequests ==
  { Call("get", k1, NoPatch),
    Call("set", k1, [current_project_id |-> p1, selected_via |-> "route"]),
    Call("set", k1, [pending_semantic_execution |-> NULL]),
    Call("set", k2, [pending_semantic_execution |-> d1]),
    Call("invalidate", k1, NoPatch),
    Call("clear", k2, NoPatch),
    Call("cleanup", k1, NoPatch) }
=============================================================================
