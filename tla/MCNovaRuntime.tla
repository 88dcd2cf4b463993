---------------------------- MODULE MCNovaRuntime ----------------------------
(* NovaRuntime on a small instance.  Addresses are                         *)
(* interchangeable: nothing compares them except for equality.             *)
EXTENDS NovaRuntime, TLC

Addresses == Permutations(Blocks)
=============================================================================
