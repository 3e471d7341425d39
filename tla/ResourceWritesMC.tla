-------------------------- MODULE ResourceWritesMC --------------------------
(* A small instance of ResourceWrites: two tool calls and other writers on *)
(* one object.                                                             *)
EXTENDS ResourceWrites, TLC

Symmetry == Permutations(Calls)
=============================================================================
