-------------------------- MODULE MCMissingUncles --------------------------
(* An instance of MissingUncles: two of the blocks have uncles. *)
EXTENDS MissingUncles

SomeUncles == [n \in Height |-> CASE n = 2 -> 1 [] n = 3 -> 2 [] OTHER -> 0]
=============================================================================
