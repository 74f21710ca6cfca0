---------------------------- MODULE Conversation ----------------------------
(***************************************************************************)
(* The life of a chat thread (ChatService, AgentService,                   *)
(* IdleConversationService): customer turns, handoffs, the agent console   *)
(* and the idle sweep, all writing the same conversations and assignments  *)
(* rows without transactions.                                              *)
(*                                                                         *)
(* An HTTP request is a slot of Requests.  A handler is cut at its awaits: *)
(* one action is the code between two of them that touches shared rows, so *)
(* whatever it read before is stale when it goes on.  Adjacent awaits that *)
(* no other handler can tell apart are one action (a notice and the update *)
(* that follows it).  A crash of the process kills every handler and the   *)
(* sweep where they stand and leaves the rows.                             *)
(*                                                                         *)
(* Left out: consent (every session here has granted it), preview          *)
(* sessions, attachments and languages, and the bodies of messages.  Of    *)
(* the messages table the model keeps what the sweep asks it: the age of   *)
(* the last message and who spoke since the idle question.                 *)
(***************************************************************************)
EXTENDS Integers, FiniteSets, TurnGates

CONSTANTS
  Sessions,    \* widget visitors of one tenant
  Agents,      \* console users
  NoAgent,     \* agent_id NULL
  Requests,    \* HTTP requests: each serves one call of one kind
  Kinds,       \* the calls a run explores, a subset of AllKinds
  NumConvs,    \* bound on the conversations rows
  MaxConcurrent, \* agent_profiles.max_concurrent of every agent
  PinLimit,    \* 3 in setConversationPin
  Batch,       \* BATCH of the sweep
  MaxCrashes   \* bound on the restarts of the process

AllKinds == {"message", "escalate", "customerEnd", "rate", "accept", "assign", "issueAssign",
             "handBack", "end", "reply", "pin", "unpin"}

ASSUME NoAgentAssumption == NoAgent \notin Agents
ASSUME KindsAssumption == Kinds \subseteq AllKinds
ASSUME BoundsAssumption ==
  /\ NumConvs \in Nat /\ MaxConcurrent \in Nat /\ PinLimit \in Nat
  /\ Batch \in Nat \ {0} /\ MaxCrashes \in Nat

VARIABLES
  conv,    \* the conversations rows
  asg,     \* active assignments rows of each conversation and agent
  talk,    \* what the messages say: who spoke last, whether the customer spoke
           \* since the latch, and whether the idle question is unanswered
           \* (neither a word of theirs nor an idle close has come after it)
  clock,   \* age of the last message; whether the grace period is over
  req,     \* the request slots
  sweep,   \* the idle sweep
  crashes

vars == <<conv, asg, talk, clock, req, sweep, crashes>>

-----------------------------------------------------------------------------
Convs == 1..NumConvs
OpenStatuses == {"ai_active", "waiting", "agent"}

Rows == [session: Sessions, status: OpenStatuses \cup {"ended"},
         agent: Agents \cup {NoAgent}, escalated: BOOLEAN, email: BOOLEAN,
         idle: BOOLEAN, ended: BOOLEAN, pinned: BOOLEAN, rated: BOOLEAN]

NewRow(s) == [session |-> s, status |-> "ai_active", agent |-> NoAgent,
              escalated |-> FALSE, email |-> FALSE, idle |-> FALSE,
              ended |-> FALSE, pinned |-> FALSE, rated |-> FALSE]

NoRow == [status |-> "none"]
Exists(c) == conv[c] # NoRow

\* humanOwnsThread, and the thread that only waits for somebody.
HumanOwns(row) == row.status = "agent" \/ (row.status = "waiting" /\ row.agent # NoAgent)
Queued(row) == row.status = "waiting"

OpenOf(s) == {c \in Convs : Exists(c) /\ conv[c].session = s /\ conv[c].status \in OpenStatuses}
IsNewest(c, S) == c \in S /\ \A d \in S : d <= c

\* The verdicts a widget turn can meet: approval mode is the messengers'.
QueuedVerdicts == {Decide(t) : t \in {u \in TurnInputs : u.queued /\ ~u.draft}}
AnyVerdicts == {Decide(t) : t \in {u \in TurnInputs : ~u.draft}} \* mutant: queued is forgotten
FreshVerdicts == {Decide(t) : t \in {u \in TurnInputs : ~u.queued /\ ~u.draft}}

NoneActive == [a \in Agents |-> 0]
OnlyActive(a) == [NoneActive EXCEPT ![a] = 1]
Held(c) == {a \in Agents : asg[c][a] > 0}
\* Active assignments of one agent over all conversations (capped counting is
\* enough: AcceptCheck compares it with MaxConcurrent).
Load(a) == Cardinality(UNION {{c} \X (1..asg[c][a]) : c \in Convs})

Speakers == {"none", "user", "ai", "agent", "system", "prompt"}

\* A message of who joins conversation c.
Speak(c, who) ==
  /\ talk' = [talk EXCEPT ![c] =
       [last |-> who,
        answered |-> talk[c].answered \/ who = "user",
        asked |-> who # "user" /\ (talk[c].asked \/ who = "prompt")]]
  /\ clock' = [clock EXCEPT ![c].age = "fresh"]

\* UPDATE conversations SET ... WHERE id = c, and the save of a whole row.
Put(c, row) == conv' = [conv EXCEPT ![c] = row]

Quietly == UNCHANGED <<talk, clock>>

FreeSlot == [kind |-> "none", pc |-> "new", c |-> 0, a |-> NoAgent, row |-> NoRow]
Finished == [FreeSlot EXCEPT !.pc = "done"]

At(r, pc) == req[r].pc = pc
Serves(r, kind) == At(r, "new") /\ kind \in Kinds
GoTo(r, slot) == req' = [req EXCEPT ![r] = slot]
Then(r, pc) == GoTo(r, [req[r] EXCEPT !.pc = pc])
Finish(r) == GoTo(r, Finished)
Slot(kind, pc, c, a, row) == [kind |-> kind, pc |-> pc, c |-> c, a |-> a, row |-> row]

Resting == [pc |-> "idle", todo |-> {}, cur |-> 0, back |-> "idle", said |-> 0]

-----------------------------------------------------------------------------
Init ==
  /\ conv = [c \in Convs |-> NoRow]
  /\ asg = [c \in Convs |-> NoneActive]
  /\ talk = [c \in Convs |-> [last |-> "none", answered |-> FALSE, asked |-> FALSE]]
  /\ clock = [c \in Convs |-> [age |-> "fresh", due |-> FALSE]]
  /\ req = [r \in Requests |-> FreeSlot]
  /\ sweep = Resting
  /\ crashes = 0

\* Mutant: the insert of a new thread is forgotten.
MessageFind_NoInsert(r, s) ==
  /\ Serves(r, "message")
  /\ \/ \E c \in Convs : IsNewest(c, OpenOf(s)) /\ GoTo(r, Slot("message", "persist", c, NoAgent, conv[c]))
     \/ OpenOf(s) = {} /\ GoTo(r, Slot("message", "persist", 0, NoAgent, NewRow(s)))
  /\ UNCHANGED <<conv, asg, talk, clock, sweep, crashes>>

\* The customer writes: the newest open thread is read, or a new one is due.
MessageFind(r, s) ==
  /\ Serves(r, "message")
  /\ \/ \E c \in Convs : IsNewest(c, OpenOf(s)) /\ GoTo(r, Slot("message", "persist", c, NoAgent, conv[c]))
     \/ OpenOf(s) = {} /\ GoTo(r, Slot("message", "create", 0, NoAgent, NewRow(s)))
  /\ UNCHANGED <<conv, asg, talk, clock, sweep, crashes>>

\* getOrCreateConversation's insert, at the next id.
MessageCreate(r) ==
  /\ At(r, "create")
  /\ \E c \in Convs :
       /\ ~Exists(c) /\ \A d \in Convs : d < c => Exists(d)
       /\ Put(c, req[r].row)
       /\ GoTo(r, [req[r] EXCEPT !.pc = "persist", !.c = c])
  /\ UNCHANGED <<asg, talk, clock, sweep, crashes>>

\* The turn is stored and the idle latch cleared if the row read had it; a
\* thread a human owned when it was read ends the turn.  onShift: the text is
\* typed, and the router finds the shop inside business hours.
MessagePersist(r) ==
  LET c == req[r].c
      row == req[r].row IN
  /\ At(r, "persist")
  /\ Speak(c, "user")
  /\ \E onShift \in BOOLEAN :
       Put(c, [conv[c] EXCEPT
         !.idle = @ /\ ~row.idle,
         !.email = @ /\ ~(row.email /\ onShift /\ ~HumanOwns(row))])
  /\ IF HumanOwns(row) THEN Finish(r) ELSE Then(r, "think")
  /\ UNCHANGED <<asg, sweep, crashes>>

\* The gates have run, seconds later: what they decided is said into the thread
\* whatever has become of it since.
MessageThink(r) ==
  /\ At(r, "think")
  /\ \E v \in IF Queued(req[r].row) THEN QueuedVerdicts ELSE FreshVerdicts :
       /\ IF v.speak = "none" THEN Quietly ELSE Speak(req[r].c, v.speak)
       /\ IF v.handoff THEN Then(r, "handoff") ELSE Finish(r)
  /\ UNCHANGED <<conv, asg, sweep, crashes>>

\* handoff: the notice, markWaiting, and off hours the email channel.
MessageHandoff(r) ==
  LET c == req[r].c IN
  /\ At(r, "handoff")
  /\ Speak(c, "system")
  /\ \E offHours \in BOOLEAN :
       Put(c, [conv[c] EXCEPT !.status = "waiting", !.escalated = TRUE, !.email = @ \/ offHours])
  /\ Finish(r)
  /\ UNCHANGED <<asg, sweep, crashes>>

\* escalate: the widget's "talk to an agent", on any thread of its own session.
Escalate(r, c) ==
  /\ Serves(r, "escalate") /\ Exists(c)
  /\ \E offHours \in BOOLEAN : IF offHours THEN Speak(c, "system") ELSE Quietly
  /\ Put(c, [conv[c] EXCEPT !.status = "waiting", !.escalated = TRUE])
  /\ Finish(r)
  /\ UNCHANGED <<asg, sweep, crashes>>

\* endBySession and end: find the thread, mark it ended, release it.
CustomerEnd(r, s, c) ==
  /\ Serves(r, "customerEnd") /\ IsNewest(c, OpenOf(s))
  /\ GoTo(r, Slot("customerEnd", "end", c, NoAgent, NoRow))
  /\ UNCHANGED <<conv, asg, talk, clock, sweep, crashes>>

AgentEnd(r, c) ==
  /\ Serves(r, "end") /\ Exists(c)
  /\ GoTo(r, Slot("end", "end", c, NoAgent, NoRow))
  /\ UNCHANGED <<conv, asg, talk, clock, sweep, crashes>>

\* Mutants: the end date is forgotten; the assignment is.
EndUpdate_Undated(r) ==
  /\ At(r, "end")
  /\ Put(req[r].c, [conv[req[r].c] EXCEPT !.status = "ended"])
  /\ Then(r, "release")
  /\ UNCHANGED <<asg, talk, clock, sweep, crashes>>
EndUpdate_KeepsAssignment(r) ==
  /\ At(r, "end")
  /\ Put(req[r].c, [conv[req[r].c] EXCEPT !.status = "ended", !.ended = TRUE])
  /\ Finish(r)
  /\ UNCHANGED <<asg, talk, clock, sweep, crashes>>

EndUpdate(r) ==
  /\ At(r, "end")
  /\ Put(req[r].c, [conv[req[r].c] EXCEPT !.status = "ended", !.ended = TRUE])
  /\ Then(r, "release")
  /\ UNCHANGED <<asg, talk, clock, sweep, crashes>>

\* Every active assignment of the thread is released; a handback goes on.
Release(r) ==
  /\ At(r, "release")
  /\ asg' = [asg EXCEPT ![req[r].c] = NoneActive]
  /\ IF req[r].kind = "handBack" THEN Then(r, "toBot") ELSE Finish(r)
  /\ UNCHANGED <<conv, talk, clock, sweep, crashes>>

\* rate: only a finished thread, but the check and the write are apart.
RateCheck(r, c) ==
  /\ Serves(r, "rate") /\ Exists(c)
  /\ conv[c].status = "ended" /\ conv[c].ended
  /\ GoTo(r, Slot("rate", "rate", c, NoAgent, NoRow))
  /\ UNCHANGED <<conv, asg, talk, clock, sweep, crashes>>

RateWrite(r) ==
  /\ At(r, "rate")
  /\ Put(req[r].c, [conv[req[r].c] EXCEPT !.rated = TRUE])
  /\ Finish(r)
  /\ UNCHANGED <<asg, talk, clock, sweep, crashes>>

-----------------------------------------------------------------------------
\* accept: count the agent's active assignments, add one, take the thread.
AcceptCheck(r, a, c) ==
  /\ Serves(r, "accept") /\ Exists(c)
  /\ Load(a) < MaxConcurrent
  /\ GoTo(r, Slot("accept", "accept", c, a, NoRow))
  /\ UNCHANGED <<conv, asg, talk, clock, sweep, crashes>>

AcceptSave(r) ==
  /\ At(r, "accept")
  /\ asg' = [asg EXCEPT ![req[r].c][req[r].a] = @ + 1]
  /\ Then(r, "take")
  /\ UNCHANGED <<conv, talk, clock, sweep, crashes>>

AcceptTake(r) ==
  /\ At(r, "take")
  /\ Put(req[r].c, [conv[req[r].c] EXCEPT !.status = "agent", !.agent = req[r].a])
  /\ Finish(r)
  /\ UNCHANGED <<asg, talk, clock, sweep, crashes>>

\* assignConversation: the row is read first and saved whole at the end.
AssignRead(r, a, c) ==
  /\ Serves(r, "assign") /\ Exists(c)
  /\ GoTo(r, Slot("assign", "assign", c, a, [conv[c] EXCEPT !.status = "agent", !.agent = a]))
  /\ UNCHANGED <<conv, asg, talk, clock, sweep, crashes>>

AssignSave(r) ==
  /\ At(r, "assign")
  /\ asg' = [asg EXCEPT ![req[r].c] = OnlyActive(req[r].a)]
  /\ Then(r, "save")
  /\ UNCHANGED <<conv, talk, clock, sweep, crashes>>

\* convRepo.save(conversation): every column that differs from the row as it
\* now stands is written back.
RowSave(r) ==
  /\ At(r, "save")
  /\ Put(req[r].c, req[r].row)
  /\ Finish(r)
  /\ UNCHANGED <<asg, talk, clock, sweep, crashes>>

Pinned == {c \in Convs : Exists(c) /\ conv[c].pinned}

\* setConversationPin: row and count are read, then the row is saved whole.
PinRead(r, c) ==
  /\ Serves(r, "pin") /\ Exists(c)
  /\ ~conv[c].pinned /\ Cardinality(Pinned) < PinLimit
  /\ GoTo(r, Slot("pin", "save", c, NoAgent, [conv[c] EXCEPT !.pinned = TRUE]))
  /\ UNCHANGED <<conv, asg, talk, clock, sweep, crashes>>

UnpinRead(r, c) ==
  /\ Serves(r, "unpin") /\ Exists(c) /\ conv[c].pinned
  /\ GoTo(r, Slot("unpin", "save", c, NoAgent, [conv[c] EXCEPT !.pinned = FALSE]))
  /\ UNCHANGED <<conv, asg, talk, clock, sweep, crashes>>

\* IssueService.assign on the thread's issue (a handoff opens one, and fileIssue
\* files one on any thread): assignments move, then agent_id is repointed; the
\* status of the thread is neither read nor written.
IssueAssign(r, a, c) ==
  /\ Serves(r, "issueAssign") /\ Exists(c)
  /\ asg' = [asg EXCEPT ![c] = OnlyActive(a)]
  /\ GoTo(r, Slot("issueAssign", "repoint", c, a, NoRow))
  /\ UNCHANGED <<conv, talk, clock, sweep, crashes>>

IssueRepoint(r) ==
  /\ At(r, "repoint")
  /\ Put(req[r].c, [conv[req[r].c] EXCEPT !.agent = req[r].a])
  /\ Finish(r)
  /\ UNCHANGED <<asg, talk, clock, sweep, crashes>>

\* handBack: only an agent's thread; release (above), then back to the bot.
HandBackCheck(r, c) ==
  /\ Serves(r, "handBack") /\ Exists(c) /\ conv[c].status = "agent"
  /\ GoTo(r, Slot("handBack", "release", c, NoAgent, NoRow))
  /\ UNCHANGED <<conv, asg, talk, clock, sweep, crashes>>

HandBackUpdate(r) ==
  LET c == req[r].c IN
  /\ At(r, "toBot")
  /\ Put(c, [conv[c] EXCEPT !.status = "ai_active", !.agent = NoAgent])
  /\ Speak(c, "system")
  /\ Finish(r)
  /\ UNCHANGED <<asg, sweep, crashes>>

\* sendMessage: any agent of the tenant may write into any thread.
AgentReply(r, c) ==
  /\ Serves(r, "reply") /\ Exists(c)
  /\ Speak(c, "agent")
  /\ Finish(r)
  /\ UNCHANGED <<conv, asg, sweep, crashes>>

-----------------------------------------------------------------------------
\* The rows each pass of the sweep reads; LIMIT returns any of them.
Sweepable(c) == Exists(c) /\ conv[c].status \in {"agent", "waiting"} /\ ~conv[c].email
DueToClose == {c \in Convs : Sweepable(c) /\ conv[c].idle /\ clock[c].due}
\* Mutant: only the queue is asked, not the agents' threads.
Candidates_Queued == {c \in Convs : Sweepable(c) /\ ~conv[c].idle /\ Queued(conv[c])}
Candidates == {c \in Convs : Sweepable(c) /\ ~conv[c].idle}
Take(n, S) == {T \in SUBSET S : Cardinality(T) = IF Cardinality(S) <= n THEN Cardinality(S) ELSE n}

\* sweep: closeDue's query.
SweepClose ==
  /\ sweep.pc = "idle"
  /\ \E T \in Take(Batch, DueToClose) : sweep' = [sweep EXCEPT !.pc = "close", !.todo = T]
  /\ UNCHANGED <<conv, asg, talk, clock, req, crashes>>

\* The re-check: a customer who answered keeps the thread, otherwise the
\* closing copy is said and the close follows.
CloseCheck(c) ==
  /\ sweep.pc = "close" /\ c \in sweep.todo
  /\ IF talk[c].answered
     THEN /\ Put(c, [conv[c] EXCEPT !.idle = FALSE])
          /\ sweep' = [sweep EXCEPT !.todo = @ \ {c}]
          /\ Quietly
     ELSE /\ sweep' = [sweep EXCEPT !.pc = "closing", !.todo = @ \ {c}, !.cur = c, !.back = "close"]
          /\ Speak(c, "system")
          /\ UNCHANGED conv
  /\ UNCHANGED <<asg, req, crashes>>

\* close: ended, by id and whatever the row says now, then released.
CloseUpdate ==
  /\ sweep.pc = "closing"
  /\ Put(sweep.cur, [conv[sweep.cur] EXCEPT !.status = "ended", !.ended = TRUE, !.idle = FALSE])
  /\ talk' = [talk EXCEPT ![sweep.cur].asked = FALSE]
  /\ sweep' = [sweep EXCEPT !.pc = "releasing"]
  /\ UNCHANGED <<asg, clock, req, crashes>>

CloseRelease ==
  /\ sweep.pc = "releasing"
  /\ asg' = [asg EXCEPT ![sweep.cur] = NoneActive]
  /\ sweep' = [sweep EXCEPT !.pc = sweep.back, !.cur = 0, !.back = "idle"]
  /\ UNCHANGED <<conv, talk, clock, req, crashes>>

\* promptIdle's query, once every due thread is dealt with.
SweepAsk ==
  /\ sweep.pc = "close" /\ sweep.todo = {}
  /\ \E T \in Take(4 * Batch, Candidates) : sweep' = [sweep EXCEPT !.pc = "ask", !.todo = T]
  /\ UNCHANGED <<conv, asg, talk, clock, req, crashes>>

\* One candidate: left alone, closed without a word past STALE_AFTER_DAYS, or
\* asked, after which the latch is still to be set.
AskCheck(c) ==
  /\ sweep.pc = "ask" /\ c \in sweep.todo
  /\ CASE clock[c].age = "fresh" ->
            sweep' = [sweep EXCEPT !.todo = @ \ {c}] /\ Quietly
       [] clock[c].age = "stale" ->
            /\ sweep' = [sweep EXCEPT !.pc = "closing", !.todo = @ \ {c}, !.cur = c, !.back = "ask"]
            /\ Quietly
       [] OTHER ->
            /\ sweep' = [sweep EXCEPT !.pc = "latch", !.todo = @ \ {c}, !.cur = c]
            /\ Speak(c, "prompt")
  /\ UNCHANGED <<conv, asg, req, crashes>>

\* Mutant: the latch is never written.
AskLatch_Unlatched ==
  /\ sweep.pc = "latch"
  /\ sweep' = IF sweep.said + 1 >= Batch THEN Resting
              ELSE [sweep EXCEPT !.pc = "ask", !.cur = 0, !.said = @ + 1]
  /\ UNCHANGED <<conv, asg, talk, clock, req, crashes>>

AskLatch ==
  LET c == sweep.cur IN
  /\ sweep.pc = "latch"
  /\ Put(c, [conv[c] EXCEPT !.idle = TRUE])
  /\ talk' = [talk EXCEPT ![c].answered = FALSE]
  /\ clock' = [clock EXCEPT ![c].due = FALSE]
  /\ sweep' = IF sweep.said + 1 >= Batch THEN Resting
              ELSE [sweep EXCEPT !.pc = "ask", !.cur = 0, !.said = @ + 1]
  /\ UNCHANGED <<asg, req, crashes>>

SweepEnd ==
  /\ sweep.pc = "ask" /\ sweep.todo = {}
  /\ sweep' = Resting
  /\ UNCHANGED <<conv, asg, talk, clock, req, crashes>>

-----------------------------------------------------------------------------
\* 30 minutes, then 7 days, of silence.  No request and no sweep item on the
\* thread takes that long.
Busy(c) == (\E r \in Requests : req[r].c = c) \/ sweep.cur = c

TickAge(c) ==
  /\ Exists(c) /\ ~Busy(c) /\ clock[c].age # "stale"
  /\ clock' = [clock EXCEPT ![c].age = IF @ = "fresh" THEN "quiet" ELSE "stale",
                            ![c].due = @ \/ conv[c].idle]
  /\ UNCHANGED <<conv, asg, talk, req, sweep, crashes>>

\* The 60 seconds of grace, which a slow model call can outlast.
TickGrace(c) ==
  /\ Exists(c) /\ conv[c].idle /\ ~clock[c].due
  /\ clock' = [clock EXCEPT ![c].due = TRUE]
  /\ UNCHANGED <<conv, asg, talk, req, sweep, crashes>>

\* The process dies and starts again: its handlers and its sweep are gone.
Crash ==
  /\ crashes < MaxCrashes
  /\ crashes' = crashes + 1
  /\ req' = [r \in Requests |-> IF At(r, "new") THEN FreeSlot ELSE Finished]
  /\ sweep' = Resting
  /\ UNCHANGED <<conv, asg, talk, clock>>

\* A request arrives, a handler goes on, the sweep goes on, time passes.
Arrive(r) ==
  \/ \E s \in Sessions : MessageFind(r, s) \/ \E c \in Convs : CustomerEnd(r, s, c)
  \/ \E c \in Convs :
       \/ Escalate(r, c) \/ AgentEnd(r, c) \/ RateCheck(r, c) \/ PinRead(r, c)
       \/ UnpinRead(r, c) \/ HandBackCheck(r, c) \/ AgentReply(r, c)
       \/ \E a \in Agents : AcceptCheck(r, a, c) \/ AssignRead(r, a, c) \/ IssueAssign(r, a, c)

Continue(r) ==
  \/ MessageCreate(r) \/ MessagePersist(r) \/ MessageThink(r) \/ MessageHandoff(r)
  \/ EndUpdate(r) \/ Release(r) \/ RateWrite(r) \/ AcceptSave(r) \/ AcceptTake(r)
  \/ AssignSave(r) \/ RowSave(r) \/ IssueRepoint(r) \/ HandBackUpdate(r)

Sweep ==
  \/ SweepClose \/ CloseUpdate \/ CloseRelease \/ SweepAsk \/ AskLatch \/ SweepEnd
  \/ \E c \in Convs : CloseCheck(c) \/ AskCheck(c)

Time == \E c \in Convs : TickAge(c) \/ TickGrace(c)

Next == (\E r \in Requests : Arrive(r) \/ Continue(r)) \/ Sweep \/ Time \/ Crash

Spec == Init /\ [][Next]_vars

\* The event loop runs every handler on and the sweep's timer fires for ever;
\* clocks do not stop.  No request has to arrive.
Fairness ==
  /\ \A r \in Requests : WF_vars(Continue(r))
  /\ WF_vars(Sweep)
  /\ \A c \in Convs : WF_vars(TickAge(c)) /\ WF_vars(TickGrace(c))

FairSpec == Spec /\ Fairness

-----------------------------------------------------------------------------
Slots ==
  [kind: AllKinds \cup {"none"},
   pc: {"new", "done", "create", "persist", "think", "handoff", "end", "release",
        "rate", "accept", "take", "assign", "save", "repoint", "toBot"},
   c: Convs \cup {0}, a: Agents \cup {NoAgent}, row: Rows \cup {NoRow}]

TableTypes ==
  /\ conv \in [Convs -> Rows \cup {NoRow}]
  /\ asg \in [Convs -> [Agents -> Nat]]
  /\ talk \in [Convs -> [last: Speakers, answered: BOOLEAN, asked: BOOLEAN]]
  /\ clock \in [Convs -> [age: {"fresh", "quiet", "stale"}, due: BOOLEAN]]

WorkerTypes ==
  /\ req \in [Requests -> Slots]
  /\ sweep \in [pc: {"idle", "close", "closing", "releasing", "ask", "latch"},
                todo: SUBSET Convs, cur: Convs \cup {0}, back: {"idle", "close", "ask"},
                said: 0..Batch]
  /\ crashes \in 0..MaxCrashes

\* What the handlers in flight hold: the thread they name is a row of the
\* table, and the row or the agent they carry to a later step is a real one.
Existing == {c \in Convs : Exists(c)}
CarriesRow(slot) == slot.pc \in {"create", "persist", "think", "assign", "save"}

SlotIsLive(slot, rows) ==
  /\ slot.pc \notin {"new", "done", "create"} => slot.c \in rows
  /\ CarriesRow(slot) => slot.row \in Rows
  /\ slot.pc \in {"accept", "take", "assign", "repoint"} => slot.a \in Agents
  /\ slot.pc \in {"assign", "save"} => slot.kind \in Kinds \cap {"assign", "pin", "unpin"}
  /\ CarriesRow(slot) /\ slot.kind = "assign" => slot.row.status = "agent"
  /\ slot.pc = "create" => slot.row.status = "ai_active"

SweepIsLive(sw, rows) ==
  /\ sw.todo \subseteq rows
  /\ sw.pc \in {"closing", "releasing", "latch"} => sw.cur \in rows

TypeOK ==
  /\ TableTypes /\ WorkerTypes
  /\ \A r \in Requests : SlotIsLive(req[r], Existing)
  /\ SweepIsLive(sweep, Existing)

CoherentRow(row) ==
  /\ row.status = "agent" => row.agent # NoAgent
  /\ row.status = "waiting" => row.escalated
  /\ row.status = "ended" => row.ended

TableIsCoherent == \A c \in Convs : Exists(c) => CoherentRow(conv[c])
HandlersAreCoherent == \A r \in Requests : CarriesRow(req[r]) => CoherentRow(req[r].row)

\* Columns that only make sense together stay together, through every mix of
\* column updates and whole-row saves of stale rows, in the table and in the
\* rows that handlers still carry: an agent's thread names its agent (the
\* silence rule reads it), a queued thread has been escalated (the queue and
\* the issues count on it), an ended one has its end date (ratings and
\* statistics filter on it).
RowsAreCoherent == TableIsCoherent /\ HandlersAreCoherent

\* Capacity is released at the end: an ended thread that nobody is working on
\* keeps no active assignment, whatever accepts and assignments raced its end
\* (an active row counts against maxConcurrent for ever, nothing else frees
\* it).  A handler that has saved its assignment and not yet taken the thread
\* still reopens it.
Settling(c) ==
  \/ \E r \in Requests : req[r].c = c /\ req[r].pc \in {"release", "take", "save"}
  \/ sweep.cur = c /\ sweep.pc = "releasing"

EndedHoldsNoAssignment ==
  \A c \in Convs : Exists(c) /\ conv[c].status = "ended" /\ ~Settling(c) => Held(c) = {}

\* No thread is forgotten in a human's hands: one that is queued or owned and
\* owes no mail does not stay so for ever once everybody has gone silent.
NoThreadForgotten == \A c \in Convs : []<>(~Sweepable(c))

\* conversation.entity.ts: idle_prompt_at is the guard that keeps the sweep from
\* asking twice.  No idle question follows another that neither the customer nor
\* an idle close has answered, whoever else wrote in between.
AskedOnce == [][\A c \in Convs : AskCheck(c) /\ sweep'.pc = "latch" => ~talk[c].asked]_vars

\* Nobody talks to a wall: a customer's last word is answered, or it sits in a
\* thread that is queued, owned or ended; it does not stay for ever in a thread
\* that only the bot tends and the sweep does not visit.
EveryTurnIsHeard ==
  \A c \in Convs : []<>(Exists(c) => talk[c].last # "user" \/ conv[c].status # "ai_active")

\* chat.service.ts: once a human owns the thread the bot stays silent.
BotSilentOnceOwned ==
  [][\A r \in Requests : MessageThink(r) /\ talk' # talk /\ talk'[req[r].c].last = "ai"
                         => ~HumanOwns(conv[req[r].c])]_vars
=============================================================================
