----------------------------- MODULE MCErasure -----------------------------
(* Erasure for TLC: handlers and row ids are interchangeable.              *)
EXTENDS Erasure, TLC

Symmetry == Permutations(Requests) \cup Permutations(Rows)
=============================================================================
