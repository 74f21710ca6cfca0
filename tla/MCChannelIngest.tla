-------------------------- MODULE MCChannelIngest --------------------------
(* ChannelIngest for TLC: deliveries are interchangeable.                  *)
EXTENDS ChannelIngest, TLC

Symmetry == Permutations(Deliveries)
=============================================================================
