----------------------------- MODULE MCRegistries -----------------------------
(* A small instance of Registries.                                           *)
EXTENDS Registries, TLC

RequestSymmetry == Permutations(Sessions) \cup Permutations(Files)
==============================================================================
