--------------------------- MODULE MCControlLane ---------------------------
(* Instances of ControlLane: a chain of two items whose first may be
   optional, a request by itself, a delegation. *)
EXTENDS ControlLane

Chain == {<<"a", "b", "c">>}
Pair == {<<"a", "b">>}
Single == {<<"s">>}
=============================================================================
