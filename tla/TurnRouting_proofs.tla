------------------------- MODULE TurnRouting_proofs -------------------------
(* The promises of the chain of gates, proved from the chain itself: what   *)
(* every decision satisfies, and that the one step of TurnRouting shows it. *)
EXTENDS TurnRouting, TLAPS

(* Every path of the chain returns a verdict.                               *)

LEMMA SayIsVerdict == \A who \in {"none", "ai", "system"} : Say(who) \in Verdicts
  BY DEF Say, Verdicts

LEMMA SilentIsVerdict == Silent \in Verdicts
  BY SayIsVerdict DEF Silent

LEMMA HandOffIsVerdict == \A b \in BOOLEAN : HandOff(b) \in Verdicts
  BY SilentIsVerdict DEF HandOff, Verdicts

LEMMA HandOffUnlessQueuedIsVerdict ==
  \A t \in TurnInputs : \A b \in BOOLEAN : HandOffUnlessQueued(t, b) \in Verdicts
  BY SilentIsVerdict, HandOffIsVerdict DEF HandOffUnlessQueued

LEMMA RuleIsBoolean == \A t \in TurnInputs : Denied(t) \in BOOLEAN /\ AnswersFirst(t) \in BOOLEAN
  BY DEF TurnInputs, Denied, AnswersFirst

LEMMA SmallTalkIsVerdict == \A t \in TurnInputs : SmallTalk(t) \in Verdicts
  BY SayIsVerdict, HandOffIsVerdict, RuleIsBoolean DEF SmallTalk

LEMMA RetrievalIsVerdict == \A t \in TurnInputs : Retrieval(t) \in Verdicts
<1> SUFFICES ASSUME NEW t \in TurnInputs PROVE Retrieval(t) \in Verdicts
  OBVIOUS
<1>1. [Silent EXCEPT !.draft = TRUE] \in Verdicts
  BY SilentIsVerdict DEF Verdicts
<1>2. [Say("ai") EXCEPT !.handoff = AnswersFirst(t), !.stamp = AnswersFirst(t)] \in Verdicts
  BY SayIsVerdict, RuleIsBoolean DEF Verdicts
<1> QED
  BY <1>1, <1>2, HandOffUnlessQueuedIsVerdict, RuleIsBoolean DEF Retrieval

\* Whatever the gates answer, the chain ends in one of its verdicts.
THEOREM DecideIsVerdict == \A t \in TurnInputs : Decide(t) \in Verdicts
  BY SayIsVerdict, SilentIsVerdict, HandOffUnlessQueuedIsVerdict, SmallTalkIsVerdict,
     RetrievalIsVerdict DEF Decide

-----------------------------------------------------------------------------
\* Once decided, the verdict is the one of the chain.
Routed == turn \in TurnInputs /\ verdict \in {Pending, Decide(turn)}

THEOREM RoutedAlways == Spec => []Routed
<1>1. Init => Routed
  BY DEF Init, Routed
<1>2. Routed /\ [Next]_vars => Routed'
  BY DEF Routed, Next, Route, vars
<1> QED
  BY <1>1, <1>2, PTL DEF Spec

-----------------------------------------------------------------------------
(* What the two ends of the chain answer, field by field.                   *)

LEMMA HandOffFields ==
  \A t \in TurnInputs : \A b \in BOOLEAN :
    /\ ~t.queued => HandOffUnlessQueued(t, b).handoff
    /\ t.queued => ~HandOffUnlessQueued(t, b).handoff
    /\ HandOffUnlessQueued(t, b).speak = "none"
    /\ ~HandOffUnlessQueued(t, b).draft
  BY DEF HandOffUnlessQueued, HandOff, Silent, Say, TurnInputs

LEMMA SayFields ==
  \A who \in {"none", "ai", "system"} :
    Say(who).speak = who /\ ~Say(who).handoff /\ ~Say(who).draft
  BY DEF Say

LEMMA SmallTalkFields ==
  \A t \in TurnInputs :
    /\ Denied(t) /\ AnswersFirst(t) => SmallTalk(t).handoff
    /\ t.blocked => SmallTalk(t).speak = "none"
    /\ ~SmallTalk(t).draft
    /\ SmallTalk(t).speak = "none" => SmallTalk(t).handoff
    /\ t.queued /\ SmallTalk(t).handoff => t.blocked
  BY RuleIsBoolean DEF SmallTalk, AnswersFirst, HandOff, Silent, Say

LEMMA RetrievalFields ==
  \A t \in TurnInputs :
    /\ Denied(t) /\ AnswersFirst(t) => Retrieval(t).handoff
    /\ t.blocked => Retrieval(t).speak = "none" /\ ~Retrieval(t).draft
    /\ Retrieval(t).speak = "none" /\ ~Retrieval(t).draft => Retrieval(t).handoff \/ t.queued
    /\ t.queued => ~Retrieval(t).handoff
<1> SUFFICES ASSUME NEW t \in TurnInputs
             PROVE  /\ Denied(t) /\ AnswersFirst(t) => Retrieval(t).handoff
                    /\ t.blocked => Retrieval(t).speak = "none" /\ ~Retrieval(t).draft
                    /\ Retrieval(t).speak = "none" /\ ~Retrieval(t).draft
                         => Retrieval(t).handoff \/ t.queued
                    /\ t.queued => ~Retrieval(t).handoff
  OBVIOUS
<1>1. CASE t.blocked \/ t.unsure
  BY <1>1, HandOffFields, RuleIsBoolean DEF Retrieval, AnswersFirst
<1>2. CASE ~(t.blocked \/ t.unsure) /\ t.draft
  BY <1>2 DEF Retrieval, AnswersFirst, Silent, Say
<1>3. CASE ~(t.blocked \/ t.unsure) /\ ~t.draft
  BY <1>3, RuleIsBoolean DEF Retrieval, AnswersFirst, Say
<1> QED
  BY <1>1, <1>2, <1>3

(* The promises, of every decision.                                         *)
LEMMA DecideHandsOff ==
  \A t \in TurnInputs :
    Denied(t) /\ ~t.queued /\ ~t.fileOnly => Decide(t).handoff
<1> SUFFICES ASSUME NEW t \in TurnInputs, Denied(t), ~t.queued, ~t.fileOnly
             PROVE  Decide(t).handoff
  OBVIOUS
<1>1. CASE ~AnswersFirst(t) \/ t.human
  BY <1>1, HandOffFields DEF Decide
<1>2. CASE AnswersFirst(t) /\ ~t.human
  BY <1>2, SmallTalkFields, RetrievalFields DEF Decide
<1> QED
  BY <1>1, <1>2

LEMMA DecideUsesNothingBlocked ==
  \A t \in TurnInputs : t.blocked => Decide(t).speak # "ai" /\ ~Decide(t).draft
<1> SUFFICES ASSUME NEW t \in TurnInputs, t.blocked
             PROVE  Decide(t).speak # "ai" /\ ~Decide(t).draft
  OBVIOUS
<1> QED
  BY HandOffFields, SayFields, SmallTalkFields, RetrievalFields DEF Decide, Silent

LEMMA DecideLeavesNobodySilent ==
  \A t \in TurnInputs :
    Decide(t).speak = "none" /\ ~Decide(t).draft => Decide(t).handoff \/ t.queued
  BY HandOffFields, SayFields, SmallTalkFields, RetrievalFields DEF Decide, Silent

LEMMA DecidePagesOnce ==
  \A t \in TurnInputs : t.queued /\ Decide(t).handoff => t.chat /\ t.blocked
  BY HandOffFields, SayFields, SmallTalkFields, RetrievalFields DEF Decide, Silent

-----------------------------------------------------------------------------
LEMMA PendingIsNoVerdict == Pending \notin Verdicts
  BY DEF Pending, Verdicts

\* Whatever the gates answer, the turn ends in one of the verdicts.
THEOREM TypeCorrect == Spec => []TypeOK
<1>1. Routed => TypeOK
  BY DecideIsVerdict DEF Routed, TypeOK
<1> QED
  BY <1>1, RoutedAlways, PTL

\* A message on a denied topic reaches a person.
THEOREM DenyHandsOff == Spec => []DenyAlwaysHandsOff
<1>1. Routed => DenyAlwaysHandsOff
  BY DecideHandsOff DEF Routed, Decided, DenyAlwaysHandsOff
<1> QED
  BY <1>1, RoutedAlways, PTL

\* Text the moderator refused is neither said nor drafted.
THEOREM BlockedIsUnused == Spec => []BlockedTextIsNeverUsed
<1>1. Routed => BlockedTextIsNeverUsed
  BY DecideUsesNothingBlocked DEF Routed, Decided, BlockedTextIsNeverUsed
<1> QED
  BY <1>1, RoutedAlways, PTL

\* Whoever gets no answer gets a person.
THEOREM NobodySilent == Spec => []NobodyIsLeftSilent
<1>1. Routed => NobodyIsLeftSilent
  BY DecideLeavesNobodySilent DEF Routed, Decided, NobodyIsLeftSilent
<1> QED
  BY <1>1, RoutedAlways, PTL

\* A queued thread is paged again only after a refused small-talk reply.
THEOREM QueuedPagedOnce == Spec => []QueuedIsNotPagedAgain
<1>1. Routed => QueuedIsNotPagedAgain
  BY DecidePagesOnce DEF Routed, Decided, QueuedIsNotPagedAgain
<1> QED
  BY <1>1, RoutedAlways, PTL
=============================================================================
