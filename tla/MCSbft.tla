------------------------------- MODULE MCSbft -------------------------------
(* Sbft for TLC: request digests are interchangeable. *)
EXTENDS Sbft, TLC
CONSTANTS d1, d2
RequestSymmetry == Permutations(Requests)
=============================================================================
