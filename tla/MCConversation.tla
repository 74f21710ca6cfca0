--------------------------- MODULE MCConversation ---------------------------
(* Instances of Conversation for TLC: the requests are interchangeable, and  *)
(* so are the agents, so the safety runs use both symmetries.                *)
EXTENDS Conversation, TLC

Symmetry == Permutations(Requests) \cup Permutations(Agents)
=============================================================================
