---------------------------- MODULE TurnRouting ----------------------------
(***************************************************************************)
(* What the gates of TurnGates promise, as a one-step specification: Init  *)
(* picks the answers of the gates, Route runs the chain.                   *)
(***************************************************************************)
EXTENDS TurnGates

VARIABLES turn, verdict

vars == <<turn, verdict>>

Pending == [speak |-> "pending"]

Init == turn \in TurnInputs /\ verdict = Pending

Route == /\ verdict = Pending
         /\ verdict' = Decide(turn)
         /\ UNCHANGED turn

Next == Route

Spec == Init /\ [][Next]_vars

-----------------------------------------------------------------------------
Decided == verdict # Pending

TypeOK == turn \in TurnInputs /\ verdict \in Verdicts \cup {Pending}

\* The promise of the deny list: a typed message on a denied topic reaches a
\* person on every path through the gates, unless the thread is already queued
\* (chat.service.ts, denyHandoffNow: answering first only defers the handoff).
DenyAlwaysHandsOff ==
  Decided /\ Denied(turn) /\ ~turn.queued /\ ~turn.fileOnly => verdict.handoff

\* Text the moderator refused is never said, drafted or kept (FR-069), whether
\* it came from retrieval, from the reuse store or from small talk.
BlockedTextIsNeverUsed ==
  Decided /\ turn.blocked => verdict.speak # "ai" /\ ~verdict.draft

\* A confident answer never silences a handoff the rule owed, and an unsure one
\* is never shown: whoever is left without an answer is handed off, queued, or
\* told what to do next.
NobodyIsLeftSilent ==
  Decided /\ verdict.speak = "none" /\ ~verdict.draft
    => verdict.handoff \/ turn.queued

\* chat.service.ts: a queued thread is not escalated again, its agents have been
\* paged already.  The one path on which the code does page them again is a
\* small-talk reply that the moderator refuses.
QueuedIsNotPagedAgain ==
  Decided /\ turn.queued /\ verdict.handoff => turn.chat /\ turn.blocked
=============================================================================
