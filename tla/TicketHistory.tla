--------------------------- MODULE TicketHistory ---------------------------
(***************************************************************************)
(* What the issues table promises whatever handlers run on it at once: an  *)
(* issue is opened once, under the next number, and every version of it    *)
(* that is ever stored follows by one operation from an earlier version.   *)
(* It need not be the last one: handlers save whole rows they read         *)
(* earlier, so an update may be lost, but no version comes from nowhere    *)
(* and none mixes the columns of two others.                               *)
(***************************************************************************)
EXTENDS TicketRows

VARIABLES
  issue,  \* the row of each conversation's issue
  live    \* the versions of it that an operation may still start from

vars == <<issue, live>>

Opened == {c \in Convs : issue[c] # NoIssue}

Init == issue = [c \in Convs |-> NoIssue] /\ live = [c \in Convs |-> {}]

\* The first version, under the next number.
Open(c) ==
  /\ issue[c] = NoIssue
  /\ issue' = [issue EXCEPT ![c] = Fresh(Cardinality(Opened) + 1)]
  /\ live' = [live EXCEPT ![c] = {issue'[c]}]

\* A further version; some that nobody will come back to are forgotten.
Revise(c) ==
  /\ \E old \in live[c] : Follows(old, issue'[c])
  /\ issue' = [issue EXCEPT ![c] = issue'[c]]
  /\ issue'[c] \in live'[c] /\ live'[c] \subseteq live[c] \cup {issue'[c]}
  /\ live' = [live EXCEPT ![c] = live'[c]]

Next == \E c \in Convs : Open(c) \/ Revise(c)

Spec == Init /\ [][Next]_vars
=============================================================================
