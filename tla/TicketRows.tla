---------------------------- MODULE TicketRows ----------------------------
(***************************************************************************)
(* The issues rows and what one operation of IssueService may make of one: *)
(* the transition table, the stamps a transition leaves, the assignments   *)
(* and the priority.  Type, label, note and customer of an issue play no   *)
(* part in any condition and are left out; a date is whether it is set.    *)
(***************************************************************************)
EXTENDS Integers, FiniteSets

CONSTANTS
  Users,      \* console users
  Managers,   \* those of manager rank or above
  Nobody,     \* assignee_user_id NULL
  Priorities, \* the values of priority
  Normal,     \* the one an issue is opened with
  Convs,      \* the conversations, each of which has at most one issue
  MaxReopens  \* bound on reopen_count

ASSUME UsersAssumption == Managers \subseteq Users /\ Managers # {} /\ Nobody \notin Users
ASSUME PrioritiesAssumption == Normal \in Priorities
ASSUME TicketBoundsAssumption == IsFiniteSet(Convs) /\ MaxReopens \in Nat

Statuses == {"received", "in_progress", "resolved", "rejected", "closed"}
Settled == {"resolved", "rejected", "closed"}
Tiers == {"none", "bot", "agent"} \* scenario and ai are both the bot's

Tickets == [no: 1..Cardinality(Convs), status: Statuses, tier: Tiers, assignee: Users \cup {Nobody},
            reason: BOOLEAN, resolvedAt: BOOLEAN, closedAt: BOOLEAN,
            reopens: 0..MaxReopens, priority: Priorities]

NoIssue == [no |-> 0]

Fresh(n) == [no |-> n, status |-> "received", tier |-> "none", assignee |-> Nobody,
             reason |-> FALSE, resolvedAt |-> FALSE, closedAt |-> FALSE,
             reopens |-> 0, priority |-> Normal]

TransitionsFrom(status) ==
  CASE status = "received" -> {"in_progress", "resolved", "rejected"}
    [] status = "in_progress" -> {"resolved", "rejected"}
    [] status = "resolved" -> {"closed", "in_progress"}
    [] status = "rejected" -> {"closed", "in_progress"}
    [] OTHER -> {"in_progress"}

Reopens(row, to) == row.status \in Settled /\ to = "in_progress"
Allowed(row, to) ==
  /\ to \in TransitionsFrom(row.status)
  /\ Reopens(row, to) => row.reopens < MaxReopens

\* Mutant: the resolution is not stamped.
Transit_Unstamped(row, to) ==
  [row EXCEPT !.status = to,
              !.reopens = @ + IF Reopens(row, to) THEN 1 ELSE 0,
              !.reason = @ \/ to = "rejected",
              !.closedAt = @ \/ to = "closed"]

\* applyTransition.
Transit(row, to) ==
  [row EXCEPT !.status = to,
              !.reopens = @ + IF Reopens(row, to) THEN 1 ELSE 0,
              !.resolvedAt = @ \/ to = "resolved",
              !.tier = IF to = "resolved" /\ @ = "none" THEN "agent" ELSE @,
              !.reason = @ \/ to = "rejected",
              !.closedAt = @ \/ to = "closed"]

\* The bot settled it: only an issue no agent has touched.
Untouched(row) == row.status = "received" /\ row.assignee = Nobody
SettleByBot(row) == Transit([row EXCEPT !.tier = "bot"], "resolved")

TakeOver(row, u) == [row EXCEPT !.assignee = u]

HandTo(row, u) ==
  [row EXCEPT !.assignee = u, !.status = IF @ = "received" THEN "in_progress" ELSE @]

Prioritise(row, p) == [row EXCEPT !.priority = p]

\* One operation makes new of old.
Follows(old, new) ==
  \/ \E to \in Statuses : Allowed(old, to) /\ new = Transit(old, to)
  \/ Untouched(old) /\ new = SettleByBot(old)
  \/ \E u \in Users : new = TakeOver(old, u) \/ new = HandTo(old, u)
  \/ \E p \in Priorities : new = Prioritise(old, p)

\* The columns tell one story: what the reports, the customer's notices and the
\* reopening count read off an issue is consistent with its status.
CoherentTicket(row) ==
  /\ row.status = "received" =>
       ~row.resolvedAt /\ ~row.reason /\ ~row.closedAt /\ row.tier = "none" /\ row.reopens = 0
  /\ row.status = "resolved" => row.resolvedAt
  /\ row.status = "rejected" => row.reason
  /\ row.status = "closed" => row.closedAt
  /\ row.closedAt => row.resolvedAt \/ row.reason
  /\ row.reopens > 0 => row.resolvedAt \/ row.reason
  /\ row.resolvedAt <=> row.tier # "none"
=============================================================================
