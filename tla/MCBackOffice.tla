---------------------------- MODULE MCBackOffice ----------------------------
(* An instance of BackOffice for TLC: two shops of which one has an order,  *)
(* and the coach bounded to three changes by one caller at a time or two    *)
(* changes by any.                                                          *)
EXTENDS BackOffice, TLC

OneOrder == {<<"s1", 1>>}
Symmetry == Permutations(Callers)

\* The change that is drafted only where one caller acts at a time, and there first.
Extra == CHOOSE p \in Changes : TRUE
Drafted(p) == coaching[p].status # "none"

FewChanges ==
  /\ Drafted(Extra)' => Drafted(Extra) \/ \A p \in Changes : ~Drafted(p)
  /\ IF Drafted(Extra)' THEN Cardinality({c \in Callers : coachCall'[c].pc # "idle"}) <= 1
     ELSE Cardinality(work') <= 2

MCNext == Next /\ FewChanges
MCSpec == Init /\ [][MCNext]_vars
=============================================================================
