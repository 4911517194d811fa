---------------------------- MODULE MCClientCache ----------------------------
(* Two changes of the data: one by the request (or one by each of its steps) *)
(* and one by somebody else, in either order.                                *)
EXTENDS ClientCache
=============================================================================
