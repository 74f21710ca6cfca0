--------------------------- MODULE IssueWorkflow ---------------------------
(***************************************************************************)
(* IssueService for one native tenant: escalations and manual filings open *)
(* the conversation's issue, and the console, the accept hook and the end  *)
(* hook write it.  A handler reads the row once and saves it whole later,  *)
(* in one or two saves; TypeORM's save writes back every column that       *)
(* differs from the row as it then stands.  Slots are reused, so any       *)
(* number of calls follow one another; those of two slots interleave at    *)
(* the awaits.  A handler that dies half way is one that never goes on.    *)
(*                                                                         *)
(* Left out: the events, notices and audit lines a call writes (nothing    *)
(* reads them back), and its writes to assignments and conversations,      *)
(* which Conversation models.                                              *)
(***************************************************************************)
EXTENDS TicketRows, Sequences

CONSTANTS
  Requests,  \* handlers in flight at once
  NoConv,    \* no conversation
  Worked     \* bound: the conversations whose issue is worked on once it is open

ASSUME WorkedAssumption == Worked \subseteq Convs /\ NoConv \notin Convs

VARIABLES
  issue,  \* the issues table, by conversation (uk_issue_conv)
  req     \* the handlers in flight

vars == <<issue, req>>

Exists(c) == issue[c] # NoIssue
Opened == {c \in Convs : Exists(c)}
Numbers == {issue[c].no : c \in Opened}

\* lost: the numbers an insert has lost to other issues; row: the version the
\* handler works on; writes: what it makes of it, still to be saved.
Free == [pc |-> "free", c |-> NoConv, no |-> 0, lost |-> {}, row |-> NoIssue, writes |-> <<>>]

Init ==
  /\ issue = [c \in Convs |-> NoIssue]
  /\ req = [r \in Requests |-> Free]

Is(r, pc) == req[r].pc = pc
Becomes(r, slot) == req' = [req EXCEPT ![r] = slot]
Finish(r) == Becomes(r, Free)
Number(r, c) == Becomes(r, [Free EXCEPT !.pc = "max", !.c = c])
Write(r, c, rows) ==
  rows # <<>> /\ Becomes(r, [Free EXCEPT !.pc = "save", !.c = c, !.row = issue[c], !.writes = rows])
TableKept == UNCHANGED issue

\* A call on the issue of a conversation, by the row it reads.
OnIssue(r, c) == Is(r, "free") /\ c \in Worked /\ Exists(c)

-----------------------------------------------------------------------------
\* openForEscalation: a new issue, or a settled one reopened; an open one stays.
Escalation(r, c) ==
  /\ \/ Is(r, "free") /\ ~Exists(c) /\ Number(r, c)
     \/ /\ OnIssue(r, c)
        /\ issue[c].status \in Settled /\ Allowed(issue[c], "in_progress")
        /\ Write(r, c, <<Transit(issue[c], "in_progress")>>)
  /\ TableKept

\* createManual: a thread without an issue gets one; otherwise it is a memo.
FileIssue(r, c) ==
  /\ Is(r, "free") /\ ~Exists(c) /\ Number(r, c)
  /\ TableKept

\* Mutant: the highest number is taken for the next one.
ReadMax_Highest(r) ==
  /\ Is(r, "max")
  /\ \E n \in 0..Cardinality(Convs) :
       /\ n \in Numbers \cup {0} /\ \A m \in Numbers : m <= n
       /\ Becomes(r, [req[r] EXCEPT !.pc = "insert", !.no = n])
  /\ TableKept

\* insertWithSequence: the highest number is read, the insert follows.
ReadMax(r) ==
  /\ Is(r, "max")
  /\ \E n \in 0..Cardinality(Convs) :
       /\ n \in Numbers \cup {0} /\ \A m \in Numbers : m <= n
       /\ Becomes(r, [req[r] EXCEPT !.pc = "insert", !.no = n + 1])
  /\ TableKept

NumberTaken(r) == req[r].no \in Numbers

\* Mutant: the unique key on the number is missing.
Insert_AnyNumber(r) ==
  /\ Is(r, "insert") /\ ~Exists(req[r].c)
  /\ issue' = [issue EXCEPT ![req[r].c] = Fresh(req[r].no)]
  /\ Finish(r)

Insert(r) ==
  /\ Is(r, "insert") /\ ~NumberTaken(r) /\ ~Exists(req[r].c)
  /\ issue' = [issue EXCEPT ![req[r].c] = Fresh(req[r].no)]
  /\ Finish(r)

\* uk_issue_conv: another worker promoted the conversation, its row is taken.
InsertFindsIssue(r) ==
  /\ Is(r, "insert") /\ ~NumberTaken(r) /\ Exists(req[r].c)
  /\ Finish(r)
  /\ TableKept

\* Mutant: one attempt only.
LastAttempt_First(r) == TRUE
LastAttempt(r) == req[r].lost # {}

\* uk_issue_no, the key MySQL checks first: one retry, then the promotion fails.
InsertRetries(r) ==
  /\ Is(r, "insert") /\ NumberTaken(r) /\ ~LastAttempt(r)
  /\ Becomes(r, [req[r] EXCEPT !.pc = "max", !.lost = @ \cup {req[r].no}])
  /\ TableKept

InsertGivesUp(r) ==
  /\ Is(r, "insert") /\ NumberTaken(r) /\ LastAttempt(r)
  /\ Finish(r)
  /\ TableKept

-----------------------------------------------------------------------------
\* onAgentAccept: the assignee is saved, then the received issue goes to work.
AgentAccept(r, c, u) ==
  LET row == issue[c]
      taken == TakeOver(row, u) IN
  /\ OnIssue(r, c)
  /\ Write(r, c, (IF row.assignee # u THEN <<taken>> ELSE <<>>)
                 \o IF row.status = "received" THEN <<Transit(taken, "in_progress")>> ELSE <<>>)
  /\ TableKept

\* Mutant: the end closes whatever issue is still open.
ConversationEnded_ClosesAny(r, c) ==
  /\ OnIssue(r, c) /\ issue[c].status # "closed"
  /\ Write(r, c, <<Transit(issue[c], "closed")>>)
  /\ TableKept

\* onConversationEnded: a settled issue closes; one that only the bot has worked
\* on is settled and closed when the customer ends the chat and its last answer
\* was a scenario's or a confident one.
ConversationEnded(r, c) ==
  LET row == issue[c] IN
  /\ OnIssue(r, c)
  /\ \/ row.status \in {"resolved", "rejected"} /\ Write(r, c, <<Transit(row, "closed")>>)
     \/ /\ Untouched(row)
        /\ Write(r, c, <<SettleByBot(row), Transit(SettleByBot(row), "closed")>>)
  /\ TableKept

\* transition: the assignee or a manager; only a manager rejects.
Transition(r, c, u, to) ==
  LET row == issue[c] IN
  /\ OnIssue(r, c)
  /\ u \in Managers \/ (u = row.assignee /\ to # "rejected")
  /\ Allowed(row, to)
  /\ Write(r, c, <<Transit(row, to)>>)
  /\ TableKept

\* assign: a manager hands the issue to a user.
Assign(r, c, u) ==
  /\ OnIssue(r, c)
  /\ Write(r, c, <<HandTo(issue[c], u)>>)
  /\ TableKept

\* setPriority: the assignee or a manager, so somebody always may.
SetPriority(r, c, p) ==
  /\ OnIssue(r, c) /\ Write(r, c, <<Prioritise(issue[c], p)>>)
  /\ TableKept

\* issueRepo.save: the next of the handler's rows is stored over what is there.
Save(r) ==
  LET c == req[r].c
      row == Head(req[r].writes)
      rest == Tail(req[r].writes) IN
  /\ Is(r, "save")
  /\ issue' = [issue EXCEPT ![c] = row]
  /\ IF rest = <<>> THEN Finish(r) ELSE Becomes(r, [req[r] EXCEPT !.row = row, !.writes = rest])

Arrive(r) ==
  \E c \in Convs :
    \/ Escalation(r, c) \/ FileIssue(r, c) \/ ConversationEnded(r, c)
    \/ \E u \in Users : AgentAccept(r, c, u) \/ Assign(r, c, u)
                        \/ \E to \in Statuses : Transition(r, c, u, to)
    \/ \E p \in Priorities : SetPriority(r, c, p)

Continue(r) ==
  ReadMax(r) \/ Insert(r) \/ InsertFindsIssue(r) \/ InsertRetries(r) \/ InsertGivesUp(r) \/ Save(r)

Next == \E r \in Requests : Arrive(r) \/ Continue(r)

Spec == Init /\ [][Next]_vars

-----------------------------------------------------------------------------
\* A handler's numbers stay within the table's, and the rows it will save are
\* those of an issue that exists.
SlotTypes ==
  [pc: {"free", "max", "insert", "save"}, c: Convs \cup {NoConv}, no: 0..Cardinality(Convs) + 1,
   lost: SUBSET (1..Cardinality(Convs)),
   row: Tickets \cup {NoIssue}, writes: Seq(Tickets)]

TypeOK ==
  /\ issue \in [Convs -> Tickets \cup {NoIssue}]
  /\ req \in [Requests -> SlotTypes]
  /\ \A r \in Requests :
       /\ ~Is(r, "free") => req[r].c \in Convs
       /\ Is(r, "insert") => req[r].no # 0
       /\ Is(r, "save") => Exists(req[r].c) /\ req[r].row # NoIssue /\ req[r].writes # <<>>

\* The versions of an issue that are still in play: the stored one and those
\* that handlers have read and will build on.
Live == [c \in Convs |->
  ({issue[c]} \ {NoIssue}) \cup {req[r].row : r \in {q \in Requests : Is(q, "save") /\ req[q].c = c}}]

\* An issue's columns tell one story in the table and in every version that a
\* handler has in hand, so a lost update can lose a change but never leave half
\* of one.
TicketsAreCoherent ==
  /\ \A c \in Convs : \A row \in Live[c] : CoherentTicket(row)
  /\ \A r \in Requests : \A i \in DOMAIN req[r].writes : CoherentTicket(req[r].writes[i])

\* The numbers a tenant sees are 1, 2, 3...: no gap and no number twice, through
\* any race for the next one.
NumbersAreDense ==
  /\ Numbers = 1..Cardinality(Opened)
  /\ \A c, d \in Opened : issue[c].no = issue[d].no => c = d

\* A promotion that fails has lost two different numbers to other issues while
\* it ran, unless its conversation has its issue by then.
GivesUpOnlyWhenCrowded ==
  [][\A r \in Requests : InsertGivesUp(r) /\ ~Exists(req[r].c)
       => Cardinality(Numbers \cap (req[r].lost \cup {req[r].no})) = 2]_vars

\* The table is the promised history.
History == INSTANCE TicketHistory WITH live <- Live
ImplementsHistory == History!Spec
=============================================================================
