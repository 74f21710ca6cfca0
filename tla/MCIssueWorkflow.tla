-------------------------- MODULE MCIssueWorkflow --------------------------
(* Instances of IssueWorkflow for TLC: the handlers are interchangeable,    *)
(* and so are the conversations whose issue is only opened.                 *)
EXTENDS IssueWorkflow, TLC

Symmetry == Permutations(Requests) \cup Permutations(Convs \ Worked)
=============================================================================
