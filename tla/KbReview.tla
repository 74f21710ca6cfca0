------------------------------ MODULE KbReview ------------------------------
(***************************************************************************)
(* Two review queues of the knowledge base.  A scan looks for pairs of     *)
(* documents that contradict each other and records a row per pair; a      *)
(* reviewer resolves the pair, dismisses it or has it judged again.  An    *)
(* agent proposes an answer; a reviewer approves it, which writes a        *)
(* document, or rejects it.  Both promise that a decision stands.          *)
(*                                                                         *)
(* One pair and one question here: rows of others are not touched by the   *)
(* calls on these.  Every call loads, then waits for a model, a document   *)
(* or the database, then saves the row it loaded.                          *)
(***************************************************************************)
EXTENDS Naturals, FiniteSets

CONSTANTS
  Tasks,       \* calls in flight
  Rows,        \* ids of kb_conflicts rows
  Drafts,      \* ids of kb_answer_proposals rows
  MaxAttempts  \* MAX_JUDGE_ATTEMPTS

VARIABLES
  conflict,   \* kb_conflicts: the rows of the pair
  hidden,     \* documents of the pair with active = 0
  proposal,   \* kb_answer_proposals: the rows of the question
  articles,   \* history: for each proposal, the documents it became
  task,       \* the calls
  crossed,    \* history: pairs and proposals decided while another call had them loaded
  asked,      \* history: rows judged again because a reviewer asked after the decision
  decided     \* history: the pair and the proposals a reviewer has decided

vars == <<conflict, hidden, proposal, articles, task, crossed, asked, decided>>

NoRow == [status |-> "none", attempts |-> 0]
Pair == 0  \* stands for the pair among the ids of proposals
Idle == [op |-> "none", pc |-> "idle", id |-> 0, attempts |-> 0]  \* attempts: of the row as it was loaded
Open == {"pending", "failed"}
Recorded == {r \in Rows : conflict[r].status # "none"}

Init ==
  /\ conflict = [r \in Rows |-> NoRow]
  /\ hidden = {}
  /\ proposal = [d \in Drafts |-> "none"]
  /\ articles = [d \in Drafts |-> 0]
  /\ task = [t \in Tasks |-> Idle]
  /\ crossed = {} /\ asked = {} /\ decided = {}

Begin(t, slot) == task[t].pc = "idle" /\ task' = [task EXCEPT ![t] = slot]
End(t) == task' = [task EXCEPT ![t] = Idle]
OnPair == {"scan", "retry", "resolve", "dismiss"}
Others(t, ops) == {u \in Tasks \ {t} : task[u].op \in ops}
KeepPair == UNCHANGED <<conflict, hidden>>
KeepProposals == UNCHANGED <<proposal, articles>>
KeepHistory == UNCHANGED <<crossed, asked, decided>>

-----------------------------------------------------------------------------
\* Mutant: failures are judged again for ever.
Known_NoBudget == {r \in Recorded : conflict[r].status # "failed"}

\* knownPairs: a row in any state, but for failures within the budget, stops a scan.
Known == {r \in Recorded : conflict[r].status # "failed" \/ conflict[r].attempts >= MaxAttempts}

\* scan takes the pair up when both documents are active and it is not known; the model is
\* asked next.  A failed row is judged again in place, otherwise a new row will be written.
ScanTake(t) ==
  /\ hidden = {} /\ Known = {}
  /\ \E id \in IF Recorded = {} THEN {0} ELSE Recorded :
       Begin(t, [op |-> "scan", pc |-> "save", id |-> id,
                 attempts |-> IF id = 0 THEN 0 ELSE conflict[id].attempts])
  /\ KeepPair /\ KeepProposals /\ KeepHistory

\* The verdict, or the failure, is written by id whatever the row says by now.
ScanSave(t) ==
  /\ task[t].op = "scan"
  /\ \E r \in IF task[t].id = 0 THEN Rows \ Recorded ELSE {task[t].id} :
     \E status \in Open :
       conflict' = [conflict EXCEPT ![r] = [status |-> status, attempts |-> task[t].attempts + 1]]
  /\ End(t)
  /\ UNCHANGED hidden /\ KeepProposals /\ KeepHistory

\* retry and rejudge: an operator asks, whatever was decided and tried before.
RetryLoad(t) ==
  /\ \E r \in Recorded :
       /\ conflict[r].attempts < MaxAttempts  \* bound: the code counts on
       /\ Begin(t, [op |-> "retry", pc |-> "save", id |-> r, attempts |-> conflict[r].attempts])
       /\ asked' = asked \cup {r}
  /\ KeepPair /\ KeepProposals /\ UNCHANGED <<crossed, decided>>

RetrySave(t) ==
  /\ task[t].op = "retry"
  /\ \E status \in Open :
       conflict' = [conflict EXCEPT ![task[t].id] =
                      [status |-> status, attempts |-> task[t].attempts + 1]]
  /\ End(t)
  /\ UNCHANGED hidden /\ KeepProposals /\ KeepHistory

\* A decision on the row; the pair counts as decided when no other row of it is open.
DecidePair(t, r, status) ==
  /\ conflict' = [conflict EXCEPT ![r] = [status |-> status, attempts |-> task[t].attempts]]
  /\ decided' = decided \cup {Pair}
  /\ crossed' = IF Others(t, OnPair) # {} \/ \E q \in Recorded \ {r} : conflict[q].status \in Open
                THEN crossed \cup {Pair} ELSE crossed
  /\ asked' = asked \ {r}

\* resolve loads the row in any state and hides the document that loses ...
ResolveLoad(t) ==
  /\ \E r \in Recorded : Begin(t, [op |-> "resolve", pc |-> "hide", id |-> r, attempts |-> conflict[r].attempts])
  /\ KeepPair /\ KeepProposals /\ KeepHistory

ResolveHide(t) ==
  /\ task[t].op = "resolve" /\ task[t].pc = "hide"
  /\ hidden' \in {hidden, hidden \cup {"a"}, hidden \cup {"b"}}
  /\ task' = [task EXCEPT ![t].pc = "save"]
  /\ UNCHANGED conflict /\ KeepProposals /\ KeepHistory

\* ... before it saves the row.
ResolveSave(t) ==
  /\ task[t].op = "resolve" /\ task[t].pc = "save"
  /\ DecidePair(t, task[t].id, "resolved")
  /\ End(t)
  /\ UNCHANGED hidden /\ KeepProposals

DismissLoad(t) ==
  /\ \E r \in Recorded : Begin(t, [op |-> "dismiss", pc |-> "save", id |-> r, attempts |-> conflict[r].attempts])
  /\ KeepPair /\ KeepProposals /\ KeepHistory

DismissSave(t) ==
  /\ task[t].op = "dismiss"
  /\ DecidePair(t, task[t].id, "dismissed")
  /\ End(t)
  /\ UNCHANGED hidden /\ KeepProposals

\* The console shows a hidden document again.
Unhide ==
  /\ \E doc \in hidden : hidden' = hidden \ {doc}
  /\ UNCHANGED <<conflict, task>> /\ KeepProposals /\ KeepHistory

-----------------------------------------------------------------------------
\* propose refuses a question that is waiting already; two that look at once both enter it.
ProposeLook(t) ==
  /\ \A d \in Drafts : proposal[d] # "pending"
  /\ Begin(t, [Idle EXCEPT !.op = "propose", !.pc = "save"])
  /\ KeepPair /\ KeepProposals /\ KeepHistory

ProposeSave(t) ==
  /\ task[t].op = "propose"
  /\ \E d \in Drafts :
       /\ proposal[d] = "none"
       /\ proposal' = [proposal EXCEPT ![d] = "pending"]
  /\ End(t)
  /\ UNCHANGED articles /\ KeepPair /\ KeepHistory

\* Mutant: the state of the proposal is not looked at.
RequirePending_Any(d) == proposal[d] # "none"

RequirePending(d) == proposal[d] = "pending"

ReviewLoad(t) ==
  /\ \E d \in Drafts, op \in {"approve", "reject"} :
       /\ RequirePending(d)
       /\ Begin(t, [Idle EXCEPT !.op = op, !.id = d,
                                !.pc = IF op = "approve" THEN "document" ELSE "save"])
  /\ KeepPair /\ KeepProposals /\ KeepHistory

\* approve: createDocument writes, embeds and indexes before the proposal is saved; a
\* failure after the document exists leaves the proposal pending.
ApproveDocument(t) ==
  /\ task[t].op = "approve" /\ task[t].pc = "document"
  /\ articles[task[t].id] < Cardinality(Tasks) + 1
  /\ articles' = [articles EXCEPT ![task[t].id] = @ + 1]
  /\ \/ task' = [task EXCEPT ![t].pc = "save"] /\ UNCHANGED crossed
     \/ End(t) /\ crossed' = crossed \cup {task[t].id}
  /\ UNCHANGED <<proposal, asked, decided>> /\ KeepPair

ReviewSave(t) ==
  LET d == task[t].id
  IN /\ task[t].op \in {"approve", "reject"} /\ task[t].pc = "save"
     /\ proposal' = [proposal EXCEPT ![d] = IF task[t].op = "approve" THEN "approved" ELSE "rejected"]
     /\ decided' = decided \cup {d}
     /\ crossed' = IF \E u \in Others(t, {"approve", "reject"}) : task[u].id = d
                   THEN crossed \cup {d} ELSE crossed
     /\ End(t)
     /\ UNCHANGED <<articles, asked>> /\ KeepPair

PairNext ==
  \/ \E t \in Tasks :
       \/ ScanTake(t) \/ ScanSave(t) \/ RetryLoad(t) \/ RetrySave(t)
       \/ ResolveLoad(t) \/ ResolveHide(t) \/ ResolveSave(t) \/ DismissLoad(t) \/ DismissSave(t)
  \/ Unhide

ProposalNext ==
  \E t \in Tasks : ProposeLook(t) \/ ProposeSave(t) \/ ReviewLoad(t) \/ ApproveDocument(t) \/ ReviewSave(t)

Next == PairNext \/ ProposalNext

Spec == Init /\ [][Next]_vars

-----------------------------------------------------------------------------
TypeOK ==
  /\ conflict \in [Rows -> [status : Open \cup {"none", "resolved", "dismissed"},
                            attempts : 0 .. MaxAttempts]]
  /\ hidden \subseteq {"a", "b"}
  /\ proposal \in [Drafts -> {"none", "pending", "approved", "rejected"}]
  /\ \A d \in Drafts : articles[d] \in 0 .. Cardinality(Tasks) + 1
  /\ asked \subseteq Rows
  /\ crossed \cup decided \subseteq Drafts \cup {Pair}

(* A decision stands.  No later scan brings a decided pair back, whatever  *)
(* was judged, failed or hidden before, and a decided proposal is what its *)
(* reviewer made it: approved with one document, or rejected with none.    *)
(* Only a call that had loaded the row before the decision, a failure      *)
(* after the document was written, or a reviewer who asks for a new        *)
(* judgement undoes that.                                                  *)
DecisionsStand ==
  /\ Pair \in decided \ crossed =>
       \A r \in Recorded \ asked : conflict[r].status \notin Open
  /\ \A d \in Drafts \cap decided : d \notin crossed =>
       articles[d] = IF proposal[d] = "approved" THEN 1 ELSE 0
=============================================================================
