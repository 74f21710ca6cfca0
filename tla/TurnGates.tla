----------------------------- MODULE TurnGates -----------------------------
(***************************************************************************)
(* The chain of gates one customer message goes through once a bot may     *)
(* answer it: ChatService.handleUserMessage, after the test that a human   *)
(* owns the thread.  The model calls, rule tables and thresholds are       *)
(* abstracted to what they answer (a record of booleans, one per gate); the *)
(* order of the gates and every early return are kept.  Operators only:    *)
(* TurnRouting states what the chain promises, Conversation runs it inside *)
(* the life of a thread.                                                   *)
(***************************************************************************)

\* What the gates see.  queued: the thread is WAITING and unowned; deny: the
\* mode of the tenant's deny rule the text hits; draft: approval mode (the
\* messenger channels); chat: classified as smalltalk, out_of_scope or
\* unintelligible; blocked: the moderator refuses the bot's text; unsure: the
\* answer's confidence is under the escalation threshold.
TurnInputs ==
  [queued: BOOLEAN, fileOnly: BOOLEAN, deny: {"none", "silent", "answerFirst"},
   draft: BOOLEAN, human: BOOLEAN, chat: BOOLEAN, order: BOOLEAN,
   guest: BOOLEAN, blocked: BOOLEAN, unsure: BOOLEAN]

\* What the turn does to the thread: who speaks before any handoff, whether it
\* hands off, whether the handoff carries the deny rule's issue stamp, and
\* whether the answer is returned as an unpersisted draft.
Verdicts ==
  [speak: {"none", "ai", "system"}, handoff: BOOLEAN, stamp: BOOLEAN, draft: BOOLEAN]

Say(who) == [speak |-> who, handoff |-> FALSE, stamp |-> FALSE, draft |-> FALSE]
Silent == Say("none")
HandOff(stamped) == [Silent EXCEPT !.handoff = TRUE, !.stamp = stamped]

\* Mutant: the rule's mode "silent" is read as an order to say nothing.
HandOffUnlessQueued_Mute(t, stamped) ==
  IF t.queued \/ t.deny = "silent" THEN Silent ELSE HandOff(stamped)

\* Mutant: the queue is not looked at.
HandOffUnlessQueued_Again(t, stamped) == HandOff(stamped)

\* A queued thread stays silent where a fresh one is handed off.
HandOffUnlessQueued(t, stamped) == IF t.queued THEN Silent ELSE HandOff(stamped)

\* denyAnswersFirst: the rule defers its handoff until the answer is out.
AnswersFirst(t) == t.deny = "answerFirst" /\ ~t.draft /\ ~t.queued
Denied(t) == t.deny # "none"

\* Mutants: the reply is stored as a word of the customer; the test
\* for an answer-first rule is forgotten.
SmallTalk_AsCustomer(t) ==
  IF AnswersFirst(t) THEN HandOff(TRUE) ELSE IF t.blocked THEN HandOff(Denied(t)) ELSE Say("user")
SmallTalk_DenyForgotten(t) == IF t.blocked THEN HandOff(Denied(t)) ELSE Say("ai")

\* answerWithoutKnowledge: moderated, but neither the queue nor approval mode
\* is looked at before the handoff or the message.
SmallTalk(t) ==
  IF AnswersFirst(t) THEN HandOff(TRUE)
  ELSE IF t.blocked THEN HandOff(Denied(t))
  ELSE Say("ai")

\* Mutant: approval mode returns its draft before the moderator is asked.
Retrieval_DraftFirst(t) ==
  IF t.draft THEN [Silent EXCEPT !.draft = TRUE]
  ELSE IF t.blocked \/ t.unsure THEN HandOffUnlessQueued(t, Denied(t))
  ELSE [Say("ai") EXCEPT !.handoff = AnswersFirst(t), !.stamp = AnswersFirst(t)]

\* Retrieval: the answer, its moderation, its confidence, approval mode, and
\* the handoff an answer-first rule still owes.
Retrieval(t) ==
  IF t.blocked \/ t.unsure THEN HandOffUnlessQueued(t, Denied(t))
  ELSE IF t.draft THEN [Silent EXCEPT !.draft = TRUE]
  ELSE [Say("ai") EXCEPT !.handoff = AnswersFirst(t), !.stamp = AnswersFirst(t)]

\* The whole chain, in the order of the code.
Decide(t) ==
  IF t.fileOnly THEN (IF t.queued THEN Silent ELSE Say("system"))
  ELSE IF Denied(t) /\ ~AnswersFirst(t) THEN HandOffUnlessQueued(t, TRUE)
  ELSE IF t.human THEN HandOffUnlessQueued(t, FALSE)
  ELSE IF t.chat THEN SmallTalk(t)
  ELSE IF t.order /\ t.guest /\ ~AnswersFirst(t) THEN Say("system")
  ELSE Retrieval(t)
=============================================================================
