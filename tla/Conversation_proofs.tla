------------------------ MODULE Conversation_proofs ------------------------
(***************************************************************************)
(* Theorems about Conversation, for every value of its constants.  An      *)
(* action writes a few rows and moves one handler or the sweep; the lemmas *)
(* of the first part say what each such write keeps (typing, liveness of   *)
(* the rows that handlers name), those of the second part say it of the    *)
(* actions, and the theorems collect them.                                 *)
(***************************************************************************)
EXTENDS Conversation, TLAPS

LEMMA VerdictSpeaks ==
  \A v \in QueuedVerdicts \cup FreshVerdicts : v.speak \in Speakers /\ v.handoff \in BOOLEAN
<1> SUFFICES ASSUME NEW t \in TurnInputs
             PROVE  Decide(t).speak \in Speakers /\ Decide(t).handoff \in BOOLEAN
  BY DEF QueuedVerdicts, FreshVerdicts
<1> DEFINE Spoken(v) == v.speak \in Speakers /\ v.handoff \in BOOLEAN
<1>1. Denied(t) \in BOOLEAN /\ AnswersFirst(t) \in BOOLEAN
  BY DEF TurnInputs, Denied, AnswersFirst
<1>2. /\ \A who \in {"none", "ai", "system"} : Spoken(Say(who))
      /\ \A b \in BOOLEAN : Spoken(HandOff(b)) /\ Spoken(HandOffUnlessQueued(t, b))
  BY DEF Say, Silent, HandOff, HandOffUnlessQueued, Speakers
<1>3. Spoken(SmallTalk(t))
  BY <1>1, <1>2 DEF SmallTalk
<1>4. Spoken(Retrieval(t))
  BY <1>1, <1>2 DEF Retrieval, Say, Silent, Speakers
<1> QED
  BY <1>1, <1>2, <1>3, <1>4 DEF Decide, Silent

LEMMA VerdictNeverPrompts == \A v \in QueuedVerdicts \cup FreshVerdicts : v.speak # "prompt"
<1> SUFFICES ASSUME NEW t \in TurnInputs PROVE Decide(t).speak # "prompt"
  BY DEF QueuedVerdicts, FreshVerdicts
<1>1. /\ \A who \in {"none", "ai", "system"} : Say(who).speak # "prompt"
      /\ \A b : HandOff(b).speak # "prompt" /\ HandOffUnlessQueued(t, b).speak # "prompt"
  BY DEF Say, Silent, HandOff, HandOffUnlessQueued
<1>2. SmallTalk(t).speak # "prompt" /\ Retrieval(t).speak # "prompt"
  BY <1>1 DEF SmallTalk, Retrieval, Say, Silent
<1> QED
  BY <1>1, <1>2 DEF Decide, Silent

LEMMA NoRowIsNoRow == NoRow \notin Rows
  BY DEF NoRow, Rows, OpenStatuses

LEMMA MarkedRow ==
  ASSUME NEW row \in Rows, NEW idle \in BOOLEAN, NEW email \in BOOLEAN
  PROVE  [row EXCEPT !.idle = idle, !.email = email] \in Rows
  BY DEF Rows

LEMMA BooleanColumns ==
  ASSUME NEW row \in Rows
  PROVE  row.idle \in BOOLEAN /\ row.email \in BOOLEAN /\ row.escalated \in BOOLEAN
  BY DEF Rows

LEMMA ExistingRows ==
  ASSUME TableTypes, NEW c \in Existing
  PROVE  c \in Convs /\ conv[c] \in Rows
  BY DEF TableTypes, Existing, Exists

\* One message, wherever it comes from, keeps the shape of talk and clock.
TalkTypes ==
  /\ talk \in [Convs -> [last: Speakers, answered: BOOLEAN, asked: BOOLEAN]]
  /\ clock \in [Convs -> [age: {"fresh", "quiet", "stale"}, due: BOOLEAN]]

ConvTypes == conv \in [Convs -> Rows \cup {NoRow}]
AsgTypes == asg \in [Convs -> [Agents -> Nat]]

LEMMA SpeakTypes ==
  ASSUME TalkTypes, NEW c \in Convs, NEW who \in Speakers, Speak(c, who)
  PROVE  TalkTypes'
<1>1. [last |-> who, answered |-> talk[c].answered \/ who = "user",
       asked |-> who # "user" /\ (talk[c].asked \/ who = "prompt")]
        \in [last: Speakers, answered: BOOLEAN, asked: BOOLEAN]
  BY DEF TalkTypes
<1>2. [clock[c] EXCEPT !.age = "fresh"] \in [age: {"fresh", "quiet", "stale"}, due: BOOLEAN]
  BY DEF TalkTypes
<1> QED
  BY <1>1, <1>2 DEF TalkTypes, Speak

LEMMA QuietlyTypes ==
  ASSUME TalkTypes, Quietly
  PROVE  TalkTypes'
  BY DEF TalkTypes, Quietly

\* A row written over another keeps the table's shape, and no row disappears.
LEMMA PutTypes ==
  ASSUME ConvTypes, NEW c \in Convs, NEW row \in Rows, Put(c, row)
  PROVE  ConvTypes' /\ Existing \subseteq Existing' /\ c \in Existing'
  BY NoRowIsNoRow DEF ConvTypes, Put, Existing, Exists

LEMMA PutRows ==
  ASSUME ConvTypes, NEW c \in Convs, NEW row \in Rows, Put(c, row)
  PROVE  conv'[c] = row /\ \A d \in Convs \ {c} : conv'[d] = conv[d]
  BY DEF ConvTypes, Put

LEMMA SameRows ==
  ASSUME UNCHANGED conv
  PROVE  Existing' = Existing /\ (ConvTypes => ConvTypes')
  BY DEF ConvTypes, Existing, Exists

\* A handler moves: the others keep the rows they name.
LEMMA HandlerStep ==
  ASSUME TypeOK, NEW r \in Requests, NEW slot \in Slots, GoTo(r, slot),
         ConvTypes', AsgTypes', TalkTypes', Existing \subseteq Existing',
         SlotIsLive(slot, Existing'), UNCHANGED <<sweep, crashes>>
  PROVE  TypeOK'
<1>1. req' \in [Requests -> Slots] /\ req'[r] = slot /\ \A q \in Requests \ {r} : req'[q] = req[q]
  BY DEF TypeOK, WorkerTypes, GoTo
<1>2. TableTypes' /\ WorkerTypes'
  BY <1>1 DEF TypeOK, WorkerTypes, TableTypes, ConvTypes, AsgTypes, TalkTypes
<1>3. \A q \in Requests : SlotIsLive(req'[q], Existing')
  BY <1>1 DEF TypeOK, SlotIsLive
<1>4. SweepIsLive(sweep', Existing')
  BY DEF TypeOK, SweepIsLive
<1> QED
  BY <1>2, <1>3, <1>4 DEF TypeOK

\* The sweep moves: the handlers keep the rows they name.
LEMMA SweepStep ==
  ASSUME TypeOK, ConvTypes', AsgTypes', TalkTypes', Existing \subseteq Existing',
         sweep' \in [pc: {"idle", "close", "closing", "releasing", "ask", "latch"},
                     todo: SUBSET Convs, cur: Convs \cup {0}, back: {"idle", "close", "ask"},
                     said: 0..Batch],
         SweepIsLive(sweep', Existing'), UNCHANGED <<req, crashes>>
  PROVE  TypeOK'
<1>1. TableTypes' /\ WorkerTypes'
  BY DEF TypeOK, WorkerTypes, TableTypes, ConvTypes, AsgTypes, TalkTypes
<1>2. \A q \in Requests : SlotIsLive(req'[q], Existing')
  BY DEF TypeOK, SlotIsLive
<1> QED
  BY <1>1, <1>2 DEF TypeOK

LEMMA TypeParts == TypeOK => ConvTypes /\ AsgTypes /\ TalkTypes /\ TableTypes
  BY DEF TypeOK, TableTypes, ConvTypes, AsgTypes, TalkTypes

LEMMA FinishedIsLive ==
  /\ Finished \in Slots
  /\ \A rows : SlotIsLive(Finished, rows)
  BY DEF Finished, FreeSlot, Slots, SlotIsLive, CarriesRow

\* A handler that leaves the tables alone, or only ends.
LEMMA QuietStep ==
  ASSUME TypeOK, NEW r \in Requests, NEW slot \in Slots, GoTo(r, slot),
         SlotIsLive(slot, Existing), UNCHANGED <<conv, asg, talk, clock, sweep, crashes>>
  PROVE  TypeOK'
  BY TypeParts, SameRows, HandlerStep, QuietlyTypes DEF AsgTypes, Quietly

\* What a handler at work may rely on.
LEMMA LiveSlot ==
  ASSUME TypeOK, NEW r \in Requests
  PROVE  /\ req[r] \in Slots
         /\ req[r].pc \notin {"new", "done", "create"} =>
              req[r].c \in Existing /\ req[r].c \in Convs /\ conv[req[r].c] \in Rows
         /\ CarriesRow(req[r]) => req[r].row \in Rows
         /\ req[r].pc \in {"accept", "take", "assign", "repoint"} => req[r].a \in Agents
         /\ req[r].pc \in {"assign", "save"} => req[r].kind \in Kinds \cap {"assign", "pin", "unpin"}
         /\ CarriesRow(req[r]) /\ req[r].kind = "assign" => req[r].row.status = "agent"
         /\ req[r].pc = "create" => req[r].row.status = "ai_active"
<1>1. req[r] \in Slots /\ SlotIsLive(req[r], Existing)
  BY DEF TypeOK, WorkerTypes
<1> QED
  BY <1>1, TypeParts, ExistingRows DEF SlotIsLive

-----------------------------------------------------------------------------
LEMMA CustomerTypes ==
  ASSUME TypeOK, NEW r \in Requests,
         \/ \E s \in Sessions : MessageFind(r, s) \/ \E c \in Convs : CustomerEnd(r, s, c)
         \/ \E c \in Convs : Escalate(r, c) \/ RateCheck(r, c)
         \/ MessageCreate(r) \/ MessagePersist(r) \/ MessageThink(r) \/ MessageHandoff(r)
         \/ RateWrite(r)
  PROVE  TypeOK'
<1> USE DEF OpenStatuses
<1>1. ASSUME NEW s \in Sessions, MessageFind(r, s) PROVE TypeOK'
  <2>1. ASSUME NEW c \in Convs, IsNewest(c, OpenOf(s)),
               GoTo(r, Slot("message", "persist", c, NoAgent, conv[c]))
        PROVE TypeOK'
    <3>1. c \in Existing /\ conv[c] \in Rows
      BY <2>1, TypeParts, ExistingRows DEF IsNewest, OpenOf, Existing
    <3>2. Slot("message", "persist", c, NoAgent, conv[c]) \in Slots
      BY <3>1 DEF Slots, Slot, AllKinds
    <3>3. SlotIsLive(Slot("message", "persist", c, NoAgent, conv[c]), Existing)
      BY <3>1 DEF SlotIsLive, Slot, CarriesRow
    <3> QED
      BY <1>1, <2>1, <3>2, <3>3, QuietStep DEF MessageFind
  <2>2. ASSUME GoTo(r, Slot("message", "create", 0, NoAgent, NewRow(s)))
        PROVE TypeOK'
    <3>1. NewRow(s) \in Rows
      BY DEF NewRow, Rows
    <3>2. Slot("message", "create", 0, NoAgent, NewRow(s)) \in Slots
      BY <3>1 DEF Slots, Slot, AllKinds
    <3>3. SlotIsLive(Slot("message", "create", 0, NoAgent, NewRow(s)), Existing)
      BY <3>1 DEF SlotIsLive, Slot, CarriesRow, NewRow
    <3> QED
      BY <1>1, <2>2, <3>2, <3>3, QuietStep DEF MessageFind
  <2> QED
    BY <1>1, <2>1, <2>2 DEF MessageFind
<1>2. ASSUME NEW s \in Sessions, NEW c \in Convs, CustomerEnd(r, s, c) PROVE TypeOK'
  <2>1. c \in Existing
    BY <1>2 DEF CustomerEnd, IsNewest, OpenOf, Existing
  <2>2. Slot("customerEnd", "end", c, NoAgent, NoRow) \in Slots
    BY DEF Slots, Slot, AllKinds
  <2>3. SlotIsLive(Slot("customerEnd", "end", c, NoAgent, NoRow), Existing)
    BY <2>1 DEF SlotIsLive, Slot, CarriesRow
  <2> QED
    BY <1>2, <2>2, <2>3, QuietStep DEF CustomerEnd
<1>3. ASSUME NEW c \in Convs, Escalate(r, c) PROVE TypeOK'
  <2>1. c \in Existing /\ conv[c] \in Rows
    BY <1>3, TypeParts, ExistingRows DEF Escalate, Existing
  <2>2. [conv[c] EXCEPT !.status = "waiting", !.escalated = TRUE] \in Rows
    BY <2>1 DEF Rows
  <2>3. ConvTypes' /\ Existing \subseteq Existing'
    BY <1>3, <2>2, PutTypes, TypeParts DEF Escalate
  <2>4. TalkTypes'
    BY <1>3, SpeakTypes, QuietlyTypes, TypeParts DEF Escalate, Speakers
  <2>5. AsgTypes'
    BY <1>3, TypeParts DEF AsgTypes, Escalate
  <2> QED
    BY <1>3, <2>3, <2>4, <2>5, FinishedIsLive, HandlerStep DEF Escalate, Finish
<1>4. ASSUME NEW c \in Convs, RateCheck(r, c) PROVE TypeOK'
  <2>1. c \in Existing
    BY <1>4 DEF RateCheck, Existing
  <2>2. Slot("rate", "rate", c, NoAgent, NoRow) \in Slots
    BY DEF Slots, Slot, AllKinds
  <2>3. SlotIsLive(Slot("rate", "rate", c, NoAgent, NoRow), Existing)
    BY <2>1 DEF SlotIsLive, Slot, CarriesRow
  <2> QED
    BY <1>4, <2>2, <2>3, QuietStep DEF RateCheck
<1>5. ASSUME MessageCreate(r) PROVE TypeOK'
  <2>1. PICK c \in Convs : /\ Put(c, req[r].row)
                           /\ GoTo(r, [req[r] EXCEPT !.pc = "persist", !.c = c])
    BY <1>5 DEF MessageCreate
  <2>2. req[r] \in Slots /\ req[r].pc = "create" /\ req[r].row \in Rows
        /\ (req[r].kind = "assign" => req[r].row.status = "agent")
    BY <1>5, LiveSlot DEF MessageCreate, At, CarriesRow
  <2>3. ConvTypes' /\ Existing \subseteq Existing' /\ c \in Existing'
    BY <2>1, <2>2, PutTypes, TypeParts
  <2>4. [req[r] EXCEPT !.pc = "persist", !.c = c] \in Slots
    BY <2>2 DEF Slots
  <2>5. SlotIsLive([req[r] EXCEPT !.pc = "persist", !.c = c], Existing')
    BY <2>2, <2>3 DEF SlotIsLive, CarriesRow, Slots
  <2>6. AsgTypes' /\ TalkTypes'
    BY <1>5, TypeParts, QuietlyTypes DEF AsgTypes, MessageCreate, Quietly
  <2> QED
    BY <1>5, <2>1, <2>3, <2>4, <2>5, <2>6, HandlerStep DEF MessageCreate
<1>6. ASSUME MessagePersist(r) PROVE TypeOK'
  <2> DEFINE c == req[r].c
             row == req[r].row
             idle == conv[c].idle /\ ~row.idle
             email(onShift) == conv[c].email /\ ~(row.email /\ onShift /\ ~HumanOwns(row))
             saved(onShift) == [conv[c] EXCEPT !.idle = idle, !.email = email(onShift)]
  <2>1. /\ req[r] \in Slots /\ req[r].pc = "persist" /\ row \in Rows
        /\ c \in Existing /\ c \in Convs /\ conv[c] \in Rows
        /\ (req[r].kind = "assign" => row.status = "agent")
    BY <1>6, LiveSlot DEF MessagePersist, At, CarriesRow
  <2>2. PICK onShift \in BOOLEAN : Put(c, saved(onShift))
    BY <1>6 DEF MessagePersist
  <2>3. saved(onShift) \in Rows
    <3>1. idle \in BOOLEAN /\ email(onShift) \in BOOLEAN
      BY <2>1, Zenon
    <3> HIDE DEF idle, email, c, row
    <3> QED
      BY <2>1, <3>1, MarkedRow
  <2>4. ConvTypes' /\ Existing \subseteq Existing'
    BY <2>1, <2>2, <2>3, PutTypes, TypeParts
  <2>5. AsgTypes' /\ TalkTypes'
    BY <1>6, <2>1, TypeParts, SpeakTypes DEF AsgTypes, MessagePersist, Speakers
  <2>6. [req[r] EXCEPT !.pc = "think"] \in Slots
    BY <2>1 DEF Slots
  <2>7. SlotIsLive([req[r] EXCEPT !.pc = "think"], Existing')
    BY <2>1, <2>4 DEF SlotIsLive, CarriesRow, Slots
  <2>8. CASE HumanOwns(row)
    BY <1>6, <2>4, <2>5, <2>8, FinishedIsLive, HandlerStep DEF MessagePersist, Finish
  <2>9. CASE ~HumanOwns(row)
    BY <1>6, <2>4, <2>5, <2>6, <2>7, <2>9, HandlerStep DEF MessagePersist, Then
  <2> QED
    BY <2>8, <2>9
<1>7. ASSUME MessageThink(r) PROVE TypeOK'
  <2>1. /\ req[r] \in Slots /\ req[r].pc = "think"
        /\ req[r].c \in Existing /\ req[r].c \in Convs
    BY <1>7, LiveSlot DEF MessageThink, At
  <2>2. PICK v \in QueuedVerdicts \cup FreshVerdicts :
          /\ IF v.speak = "none" THEN Quietly ELSE Speak(req[r].c, v.speak)
          /\ IF v.handoff THEN Then(r, "handoff") ELSE Finish(r)
    BY <1>7 DEF MessageThink
  <2>3. TalkTypes'
    BY <2>1, <2>2, VerdictSpeaks, SpeakTypes, QuietlyTypes, TypeParts
  <2>4. ConvTypes' /\ AsgTypes' /\ Existing \subseteq Existing'
    BY <1>7, SameRows, TypeParts DEF AsgTypes, MessageThink
  <2>5. [req[r] EXCEPT !.pc = "handoff"] \in Slots
    BY <2>1 DEF Slots
  <2>6. SlotIsLive([req[r] EXCEPT !.pc = "handoff"], Existing')
    BY <2>1, <2>4 DEF SlotIsLive, CarriesRow, Slots
  <2>7. CASE v.handoff
    BY <1>7, <2>2, <2>3, <2>4, <2>5, <2>6, <2>7, HandlerStep DEF MessageThink, Then
  <2>8. CASE ~v.handoff
    BY <1>7, <2>2, <2>3, <2>4, <2>8, FinishedIsLive, HandlerStep DEF MessageThink, Finish
  <2> QED
    BY <2>7, <2>8
<1>8. ASSUME MessageHandoff(r) PROVE TypeOK'
  <2> DEFINE c == req[r].c
  <2>1. c \in Existing /\ c \in Convs /\ conv[c] \in Rows
    BY <1>8, LiveSlot DEF MessageHandoff, At
  <2>2. PICK offHours \in BOOLEAN :
          Put(c, [conv[c] EXCEPT !.status = "waiting", !.escalated = TRUE, !.email = @ \/ offHours])
    BY <1>8 DEF MessageHandoff
  <2>3. [conv[c] EXCEPT !.status = "waiting", !.escalated = TRUE, !.email = @ \/ offHours] \in Rows
    BY <2>1, Zenon DEF Rows
  <2>4. ConvTypes' /\ Existing \subseteq Existing'
    BY <2>1, <2>2, <2>3, PutTypes, TypeParts
  <2>5. AsgTypes' /\ TalkTypes'
    BY <1>8, <2>1, TypeParts, SpeakTypes DEF AsgTypes, MessageHandoff, Speakers
  <2> QED
    BY <1>8, <2>4, <2>5, FinishedIsLive, HandlerStep DEF MessageHandoff, Finish
<1>9. ASSUME RateWrite(r) PROVE TypeOK'
  <2> DEFINE c == req[r].c
  <2>1. c \in Existing /\ c \in Convs /\ conv[c] \in Rows
    BY <1>9, LiveSlot DEF RateWrite, At
  <2>2. [conv[c] EXCEPT !.rated = TRUE] \in Rows
    BY <2>1 DEF Rows
  <2>3. ConvTypes' /\ Existing \subseteq Existing'
    BY <1>9, <2>1, <2>2, PutTypes, TypeParts DEF RateWrite
  <2>4. AsgTypes' /\ TalkTypes'
    BY <1>9, TypeParts, QuietlyTypes DEF AsgTypes, RateWrite, Quietly
  <2> QED
    BY <1>9, <2>3, <2>4, FinishedIsLive, HandlerStep DEF RateWrite, Finish
<1> QED
  BY <1>1, <1>2, <1>3, <1>4, <1>5, <1>6, <1>7, <1>8, <1>9

LEMMA AgentTypes ==
  ASSUME TypeOK, NEW r \in Requests,
         \/ \E c \in Convs : \/ AgentEnd(r, c) \/ PinRead(r, c) \/ UnpinRead(r, c)
                             \/ HandBackCheck(r, c) \/ AgentReply(r, c)
                             \/ \E a \in Agents : \/ AcceptCheck(r, a, c) \/ AssignRead(r, a, c)
                                                 \/ IssueAssign(r, a, c)
         \/ EndUpdate(r) \/ Release(r) \/ AcceptSave(r) \/ AcceptTake(r) \/ AssignSave(r)
         \/ RowSave(r) \/ IssueRepoint(r) \/ HandBackUpdate(r)
  PROVE  TypeOK'
<1> USE DEF OpenStatuses
<1>1. ASSUME NEW c \in Convs, AgentEnd(r, c) PROVE TypeOK'
  <2> DEFINE slot == Slot("end", "end", c, NoAgent, NoRow)
  <2>1. c \in Existing /\ conv[c] \in Rows
    BY <1>1, TypeParts, ExistingRows DEF AgentEnd, Existing
  <2>2. slot \in Slots
    BY <2>1 DEF Slots, Slot, AllKinds
  <2>3. SlotIsLive(slot, Existing)
    BY <2>1 DEF SlotIsLive, Slot, CarriesRow
  <2> QED
    BY <1>1, <2>2, <2>3, QuietStep DEF AgentEnd
<1>2. ASSUME NEW c \in Convs, PinRead(r, c) PROVE TypeOK'
  <2> DEFINE slot == Slot("pin", "save", c, NoAgent, [conv[c] EXCEPT !.pinned = TRUE])
  <2>1. c \in Existing /\ conv[c] \in Rows
    BY <1>2, TypeParts, ExistingRows DEF PinRead, Existing
  <2>2. [conv[c] EXCEPT !.pinned = TRUE] \in Rows
    BY <2>1 DEF Rows
  <2>3. slot \in Slots
    BY <2>1, <2>2 DEF Slots, Slot, AllKinds
  <2>4. SlotIsLive(slot, Existing)
    BY <2>1, <2>2, <1>2 DEF SlotIsLive, Slot, CarriesRow, PinRead, Serves
  <2> QED
    BY <1>2, <2>3, <2>4, QuietStep DEF PinRead
<1>3. ASSUME NEW c \in Convs, UnpinRead(r, c) PROVE TypeOK'
  <2> DEFINE slot == Slot("unpin", "save", c, NoAgent, [conv[c] EXCEPT !.pinned = FALSE])
  <2>1. c \in Existing /\ conv[c] \in Rows
    BY <1>3, TypeParts, ExistingRows DEF UnpinRead, Existing
  <2>2. [conv[c] EXCEPT !.pinned = FALSE] \in Rows
    BY <2>1 DEF Rows
  <2>3. slot \in Slots
    BY <2>1, <2>2 DEF Slots, Slot, AllKinds
  <2>4. SlotIsLive(slot, Existing)
    BY <2>1, <2>2, <1>3 DEF SlotIsLive, Slot, CarriesRow, UnpinRead, Serves
  <2> QED
    BY <1>3, <2>3, <2>4, QuietStep DEF UnpinRead
<1>4. ASSUME NEW c \in Convs, HandBackCheck(r, c) PROVE TypeOK'
  <2> DEFINE slot == Slot("handBack", "release", c, NoAgent, NoRow)
  <2>1. c \in Existing /\ conv[c] \in Rows
    BY <1>4, TypeParts, ExistingRows DEF HandBackCheck, Existing
  <2>2. slot \in Slots
    BY <2>1 DEF Slots, Slot, AllKinds
  <2>3. SlotIsLive(slot, Existing)
    BY <2>1 DEF SlotIsLive, Slot, CarriesRow
  <2> QED
    BY <1>4, <2>2, <2>3, QuietStep DEF HandBackCheck
<1>5. ASSUME NEW c \in Convs, NEW a \in Agents, AcceptCheck(r, a, c) PROVE TypeOK'
  <2> DEFINE slot == Slot("accept", "accept", c, a, NoRow)
  <2>1. c \in Existing /\ conv[c] \in Rows
    BY <1>5, TypeParts, ExistingRows DEF AcceptCheck, Existing
  <2>2. slot \in Slots
    BY <2>1 DEF Slots, Slot, AllKinds
  <2>3. SlotIsLive(slot, Existing)
    BY <2>1 DEF SlotIsLive, Slot, CarriesRow
  <2> QED
    BY <1>5, <2>2, <2>3, QuietStep DEF AcceptCheck
<1>6. ASSUME NEW c \in Convs, NEW a \in Agents, AssignRead(r, a, c) PROVE TypeOK'
  <2> DEFINE row == [conv[c] EXCEPT !.status = "agent", !.agent = a]
             slot == Slot("assign", "assign", c, a, row)
  <2>1. c \in Existing /\ conv[c] \in Rows
    BY <1>6, TypeParts, ExistingRows DEF AssignRead, Existing
  <2>2. row \in Rows /\ row.status = "agent"
    BY <2>1 DEF Rows
  <2>3. GoTo(r, slot) /\ "assign" \in Kinds /\ UNCHANGED <<conv, asg, talk, clock, sweep, crashes>>
    BY <1>6 DEF AssignRead, Serves
  <2> HIDE DEF row
  <2>4. slot \in Slots
    BY <2>1, <2>2 DEF Slots, Slot, AllKinds
  <2>5. SlotIsLive(slot, Existing)
    BY <2>1, <2>2, <2>3 DEF SlotIsLive, Slot, CarriesRow
  <2> QED
    BY <2>3, <2>4, <2>5, QuietStep
<1>7. ASSUME NEW c \in Convs, AgentReply(r, c) PROVE TypeOK'
  <2>1. TalkTypes'
    BY <1>7, SpeakTypes, TypeParts DEF AgentReply, Speakers
  <2>2. ConvTypes' /\ AsgTypes' /\ Existing \subseteq Existing'
    BY <1>7, SameRows, TypeParts DEF AsgTypes, AgentReply
  <2> QED
    BY <1>7, <2>1, <2>2, FinishedIsLive, HandlerStep DEF AgentReply, Finish
<1>8. ASSUME NEW c \in Convs, NEW a \in Agents, IssueAssign(r, a, c) PROVE TypeOK'
  <2> DEFINE slot == Slot("issueAssign", "repoint", c, a, NoRow)
  <2>1. c \in Existing
    BY <1>8 DEF IssueAssign, Existing
  <2>2. slot \in Slots
    BY DEF Slots, Slot, AllKinds
  <2>3. ConvTypes' /\ TalkTypes' /\ Existing' = Existing
    BY <1>8, SameRows, QuietlyTypes, TypeParts DEF IssueAssign, Quietly
  <2>4. AsgTypes'
    BY <1>8, TypeParts DEF AsgTypes, IssueAssign, OnlyActive, NoneActive
  <2>5. SlotIsLive(slot, Existing')
    BY <2>1, <2>3 DEF SlotIsLive, Slot, CarriesRow
  <2> QED
    BY <1>8, <2>2, <2>3, <2>4, <2>5, HandlerStep DEF IssueAssign
<1>9. ASSUME EndUpdate(r) PROVE TypeOK'
  <2> DEFINE c == req[r].c
             row == [conv[c] EXCEPT !.status = "ended", !.ended = TRUE]
  <2>1. /\ req[r] \in Slots /\ c \in Existing /\ c \in Convs /\ conv[c] \in Rows
        /\ (req[r].pc \in {"take", "repoint"} => req[r].a \in Agents)
    BY <1>9, LiveSlot DEF EndUpdate, At
  <2>2. row \in Rows
    BY <1>9, <2>1 DEF Rows, EndUpdate, At
  <2>3. ConvTypes' /\ Existing \subseteq Existing'
    BY <1>9, <2>1, <2>2, PutTypes, TypeParts DEF EndUpdate
  <2>4. AsgTypes' /\ TalkTypes'
    BY <1>9, <2>1, TypeParts, QuietlyTypes, SpeakTypes DEF AsgTypes, EndUpdate, Quietly, Speakers
  <2>5. [req[r] EXCEPT !.pc = "release"] \in Slots
    BY <2>1 DEF Slots
  <2>6. SlotIsLive([req[r] EXCEPT !.pc = "release"], Existing')
    BY <2>1, <2>3 DEF SlotIsLive, CarriesRow, Slots
  <2> QED
    BY <1>9, <2>3, <2>4, <2>5, <2>6, HandlerStep DEF EndUpdate, Then
<1>10. ASSUME AcceptTake(r) PROVE TypeOK'
  <2> DEFINE c == req[r].c
             row == [conv[c] EXCEPT !.status = "agent", !.agent = req[r].a]
  <2>1. /\ req[r] \in Slots /\ c \in Existing /\ c \in Convs /\ conv[c] \in Rows
        /\ (req[r].pc \in {"take", "repoint"} => req[r].a \in Agents)
    BY <1>10, LiveSlot DEF AcceptTake, At
  <2>2. row \in Rows
    BY <1>10, <2>1 DEF Rows, AcceptTake, At
  <2>3. ConvTypes' /\ Existing \subseteq Existing'
    BY <1>10, <2>1, <2>2, PutTypes, TypeParts DEF AcceptTake
  <2>4. AsgTypes' /\ TalkTypes'
    BY <1>10, <2>1, TypeParts, QuietlyTypes, SpeakTypes DEF AsgTypes, AcceptTake, Quietly, Speakers
  <2> QED
    BY <1>10, <2>3, <2>4, FinishedIsLive, HandlerStep DEF AcceptTake, Finish
<1>11. ASSUME IssueRepoint(r) PROVE TypeOK'
  <2> DEFINE c == req[r].c
             row == [conv[c] EXCEPT !.agent = req[r].a]
  <2>1. /\ req[r] \in Slots /\ c \in Existing /\ c \in Convs /\ conv[c] \in Rows
        /\ (req[r].pc \in {"take", "repoint"} => req[r].a \in Agents)
    BY <1>11, LiveSlot DEF IssueRepoint, At
  <2>2. row \in Rows
    BY <1>11, <2>1 DEF Rows, IssueRepoint, At
  <2>3. ConvTypes' /\ Existing \subseteq Existing'
    BY <1>11, <2>1, <2>2, PutTypes, TypeParts DEF IssueRepoint
  <2>4. AsgTypes' /\ TalkTypes'
    BY <1>11, <2>1, TypeParts, QuietlyTypes, SpeakTypes DEF AsgTypes, IssueRepoint, Quietly, Speakers
  <2> QED
    BY <1>11, <2>3, <2>4, FinishedIsLive, HandlerStep DEF IssueRepoint, Finish
<1>12. ASSUME HandBackUpdate(r) PROVE TypeOK'
  <2> DEFINE c == req[r].c
             row == [conv[c] EXCEPT !.status = "ai_active", !.agent = NoAgent]
  <2>1. /\ req[r] \in Slots /\ c \in Existing /\ c \in Convs /\ conv[c] \in Rows
        /\ (req[r].pc \in {"take", "repoint"} => req[r].a \in Agents)
    BY <1>12, LiveSlot DEF HandBackUpdate, At
  <2>2. row \in Rows
    BY <1>12, <2>1 DEF Rows, HandBackUpdate, At
  <2>3. ConvTypes' /\ Existing \subseteq Existing'
    BY <1>12, <2>1, <2>2, PutTypes, TypeParts DEF HandBackUpdate
  <2>4. AsgTypes' /\ TalkTypes'
    BY <1>12, <2>1, TypeParts, QuietlyTypes, SpeakTypes DEF AsgTypes, HandBackUpdate, Quietly, Speakers
  <2> QED
    BY <1>12, <2>3, <2>4, FinishedIsLive, HandlerStep DEF HandBackUpdate, Finish
<1>13. ASSUME RowSave(r) PROVE TypeOK'
  <2>1. req[r].c \in Convs /\ req[r].row \in Rows
    BY <1>13, LiveSlot DEF RowSave, At, CarriesRow
  <2>2. ConvTypes' /\ Existing \subseteq Existing'
    BY <1>13, <2>1, PutTypes, TypeParts DEF RowSave
  <2>3. AsgTypes' /\ TalkTypes'
    BY <1>13, TypeParts, QuietlyTypes DEF AsgTypes, RowSave, Quietly
  <2> QED
    BY <1>13, <2>2, <2>3, FinishedIsLive, HandlerStep DEF RowSave, Finish
<1>14. ASSUME Release(r) PROVE TypeOK'
  <2>1. /\ req[r] \in Slots /\ SlotIsLive(req[r], Existing) /\ req[r].c \in Existing /\ req[r].c \in Convs
        /\ (req[r].pc \in {"accept", "assign"} => req[r].a \in Agents)
    BY <1>14, LiveSlot DEF Release, At, TypeOK
  <2>2. AsgTypes'
    BY <1>14, <2>1, TypeParts DEF AsgTypes, Release, OnlyActive, NoneActive, At
  <2>3. ConvTypes' /\ TalkTypes' /\ Existing' = Existing
    BY <1>14, SameRows, QuietlyTypes, TypeParts DEF Release, Quietly
  <2>4. [req[r] EXCEPT !.pc = "toBot"] \in Slots
    BY <2>1 DEF Slots
  <2>5. SlotIsLive([req[r] EXCEPT !.pc = "toBot"], Existing')
    BY <1>14, <2>1, <2>3 DEF SlotIsLive, CarriesRow, Slots, Release, At
  <2>6. CASE req[r].kind = "handBack"
    BY <1>14, <2>2, <2>3, <2>4, <2>5, <2>6, HandlerStep DEF Release, Then
  <2>7. CASE req[r].kind # "handBack"
    BY <1>14, <2>2, <2>3, <2>7, FinishedIsLive, HandlerStep DEF Release, Finish
  <2> QED
    BY <2>6, <2>7
<1>15. ASSUME AcceptSave(r) PROVE TypeOK'
  <2>1. /\ req[r] \in Slots /\ SlotIsLive(req[r], Existing) /\ req[r].c \in Existing /\ req[r].c \in Convs
        /\ (req[r].pc \in {"accept", "assign"} => req[r].a \in Agents)
    BY <1>15, LiveSlot DEF AcceptSave, At, TypeOK
  <2>2. AsgTypes'
    BY <1>15, <2>1, TypeParts DEF AsgTypes, AcceptSave, OnlyActive, NoneActive, At
  <2>3. ConvTypes' /\ TalkTypes' /\ Existing' = Existing
    BY <1>15, SameRows, QuietlyTypes, TypeParts DEF AcceptSave, Quietly
  <2>4. [req[r] EXCEPT !.pc = "take"] \in Slots
    BY <2>1 DEF Slots
  <2>5. SlotIsLive([req[r] EXCEPT !.pc = "take"], Existing')
    BY <1>15, <2>1, <2>3 DEF SlotIsLive, CarriesRow, Slots, AcceptSave, At
  <2> QED
    BY <1>15, <2>2, <2>3, <2>4, <2>5, HandlerStep DEF AcceptSave, Then
<1>16. ASSUME AssignSave(r) PROVE TypeOK'
  <2>1. /\ req[r] \in Slots /\ SlotIsLive(req[r], Existing) /\ req[r].c \in Existing /\ req[r].c \in Convs
        /\ (req[r].pc \in {"accept", "assign"} => req[r].a \in Agents)
    BY <1>16, LiveSlot DEF AssignSave, At, TypeOK
  <2>2. AsgTypes'
    BY <1>16, <2>1, TypeParts DEF AsgTypes, AssignSave, OnlyActive, NoneActive, At
  <2>3. ConvTypes' /\ TalkTypes' /\ Existing' = Existing
    BY <1>16, SameRows, QuietlyTypes, TypeParts DEF AssignSave, Quietly
  <2>4. [req[r] EXCEPT !.pc = "save"] \in Slots
    BY <2>1 DEF Slots
  <2>5. SlotIsLive([req[r] EXCEPT !.pc = "save"], Existing')
    BY <1>16, <2>1, <2>3 DEF SlotIsLive, CarriesRow, Slots, AssignSave, At
  <2> QED
    BY <1>16, <2>2, <2>3, <2>4, <2>5, HandlerStep DEF AssignSave, Then
<1> QED
  BY <1>1, <1>2, <1>3, <1>4, <1>5, <1>6, <1>7, <1>8, <1>9, <1>10, <1>11, <1>12, <1>13, <1>14, <1>15, <1>16

SweepRecords ==
  [pc: {"idle", "close", "closing", "releasing", "ask", "latch"},
   todo: SUBSET Convs, cur: Convs \cup {0}, back: {"idle", "close", "ask"}, said: 0..Batch]

LEMMA RestingIsLive == Resting \in SweepRecords /\ \A rows : SweepIsLive(Resting, rows)
  BY BoundsAssumption DEF Resting, SweepRecords, SweepIsLive

LEMMA SweepMoves ==
  ASSUME sweep \in SweepRecords, NEW c \in Convs,
         NEW back \in {"idle", "close", "ask"},
         sweep' = [sweep EXCEPT !.pc = "closing", !.todo = @ \ {c}, !.cur = c, !.back = back]
  PROVE  sweep' \in SweepRecords /\ sweep'.todo = sweep.todo \ {c} /\ sweep'.cur = c
  BY DEF SweepRecords

LEMMA SweepTypes ==
  ASSUME TypeOK, Sweep
  PROVE  TypeOK'
<1> USE DEF OpenStatuses
<1>0. /\ sweep \in SweepRecords /\ sweep.todo \subseteq Existing
      /\ sweep.pc \in {"closing", "releasing", "latch"} =>
           sweep.cur \in Existing /\ sweep.cur \in Convs /\ conv[sweep.cur] \in Rows
  <2>1. sweep \in SweepRecords /\ SweepIsLive(sweep, Existing)
    BY DEF TypeOK, WorkerTypes, SweepRecords
  <2> QED
    BY <2>1, TypeParts, ExistingRows DEF SweepIsLive
<1>1. ASSUME sweep' \in SweepRecords, SweepIsLive(sweep', Existing'), Existing \subseteq Existing',
             ConvTypes', AsgTypes', TalkTypes', UNCHANGED <<req, crashes>>
      PROVE  TypeOK'
  BY <1>1, SweepStep DEF SweepRecords
<1>2. ASSUME UNCHANGED <<conv, asg>>
      PROVE  Existing' = Existing /\ ConvTypes' /\ AsgTypes'
  BY <1>2, SameRows, TypeParts DEF AsgTypes
<1>3. ASSUME SweepClose PROVE TypeOK'
  <2>1. PICK T \in SUBSET DueToClose : sweep' = [sweep EXCEPT !.pc = "close", !.todo = T]
    BY <1>3 DEF SweepClose, Take
  <2>2. T \subseteq Existing /\ T \subseteq Convs
    BY DEF DueToClose, Sweepable, Existing
  <2>3. sweep' \in SweepRecords /\ SweepIsLive(sweep', Existing)
    BY <1>0, <2>1, <2>2 DEF SweepRecords, SweepIsLive
  <2> QED
    BY <1>1, <1>2, <1>3, <2>3, QuietlyTypes, TypeParts DEF SweepClose, Quietly
<1>4. ASSUME NEW c \in Convs, CloseCheck(c) PROVE TypeOK'
  <2>1. c \in Existing /\ conv[c] \in Rows
    BY <1>0, <1>4, TypeParts, ExistingRows DEF CloseCheck
  <2>2. [conv[c] EXCEPT !.idle = FALSE] \in Rows
    BY <2>1 DEF Rows
  <2>3. CASE talk[c].answered
    <3>1. ConvTypes' /\ Existing \subseteq Existing'
      BY <1>4, <2>2, <2>3, PutTypes, TypeParts DEF CloseCheck
    <3>2. AsgTypes' /\ TalkTypes'
      BY <1>4, <2>3, QuietlyTypes, TypeParts DEF CloseCheck, AsgTypes
    <3>3. sweep' \in SweepRecords /\ SweepIsLive(sweep', Existing')
      BY <1>0, <1>4, <2>3, <3>1 DEF CloseCheck, SweepRecords, SweepIsLive
    <3> QED
      BY <1>1, <1>4, <3>1, <3>2, <3>3 DEF CloseCheck
  <2>4. CASE ~talk[c].answered
    <3>1. ConvTypes' /\ Existing' = Existing /\ AsgTypes'
      BY <1>2, <1>4, <2>4 DEF CloseCheck
    <3>2. TalkTypes'
      BY <1>4, <2>4, SpeakTypes, TypeParts DEF CloseCheck, Speakers
    <3>3. sweep' \in SweepRecords /\ SweepIsLive(sweep', Existing')
      <4>1. sweep' = [sweep EXCEPT !.pc = "closing", !.todo = @ \ {c}, !.cur = c, !.back = "close"]
        BY <1>4, <2>4 DEF CloseCheck
      <4>2. sweep' \in SweepRecords /\ sweep'.todo = sweep.todo \ {c} /\ sweep'.cur = c
        BY <1>0, <4>1, SweepMoves
      <4> QED
        BY <1>0, <2>1, <3>1, <4>2 DEF SweepIsLive
    <3> QED
      BY <1>1, <1>4, <3>1, <3>2, <3>3 DEF CloseCheck
  <2> QED
    BY <2>3, <2>4
<1>5. ASSUME CloseUpdate PROVE TypeOK'
  <2>1. [conv[sweep.cur] EXCEPT !.status = "ended", !.ended = TRUE, !.idle = FALSE] \in Rows
    BY <1>0, <1>5 DEF Rows, CloseUpdate
  <2>2. ConvTypes' /\ Existing \subseteq Existing'
    BY <1>0, <1>5, <2>1, PutTypes, TypeParts DEF CloseUpdate
  <2>3. TalkTypes'
    <3>1. [talk[sweep.cur] EXCEPT !.asked = FALSE]
            \in [last: Speakers, answered: BOOLEAN, asked: BOOLEAN]
      BY <1>0, <1>5, TypeParts DEF CloseUpdate, TalkTypes
    <3> QED
      BY <1>0, <1>5, <3>1, TypeParts DEF CloseUpdate, TalkTypes
  <2>4. AsgTypes'
    BY <1>5, TypeParts DEF CloseUpdate, AsgTypes
  <2>5. sweep' \in SweepRecords /\ SweepIsLive(sweep', Existing')
    BY <1>0, <1>5, <2>2 DEF CloseUpdate, SweepRecords, SweepIsLive
  <2> QED
    BY <1>1, <1>5, <2>2, <2>3, <2>4, <2>5 DEF CloseUpdate
<1>6. ASSUME CloseRelease PROVE TypeOK'
  <2>1. AsgTypes'
    BY <1>6, TypeParts DEF CloseRelease, AsgTypes, NoneActive
  <2>2. ConvTypes' /\ TalkTypes' /\ Existing' = Existing
    BY <1>6, SameRows, QuietlyTypes, TypeParts DEF CloseRelease, Quietly
  <2>3. sweep' \in SweepRecords /\ SweepIsLive(sweep', Existing')
    BY <1>0, <1>6, <2>2 DEF CloseRelease, SweepRecords, SweepIsLive
  <2> QED
    BY <1>1, <1>6, <2>1, <2>2, <2>3 DEF CloseRelease
<1>7. ASSUME SweepAsk PROVE TypeOK'
  <2>1. PICK T \in SUBSET Candidates : sweep' = [sweep EXCEPT !.pc = "ask", !.todo = T]
    BY <1>7 DEF SweepAsk, Take
  <2>2. T \subseteq Existing /\ T \subseteq Convs
    BY DEF Candidates, Sweepable, Existing
  <2>3. sweep' \in SweepRecords /\ SweepIsLive(sweep', Existing)
    BY <1>0, <2>1, <2>2 DEF SweepRecords, SweepIsLive
  <2> QED
    BY <1>1, <1>2, <1>7, <2>3, QuietlyTypes, TypeParts DEF SweepAsk, Quietly
<1>8. ASSUME NEW c \in Convs, AskCheck(c) PROVE TypeOK'
  <2>1. c \in Existing
    BY <1>0, <1>8 DEF AskCheck
  <2>2. ConvTypes' /\ Existing' = Existing /\ AsgTypes'
    BY <1>2, <1>8 DEF AskCheck
  <2>3. clock[c].age \in {"fresh", "quiet", "stale"}
    BY TypeParts DEF TalkTypes
  <2>4. TalkTypes'
    BY <1>8, <2>3, SpeakTypes, QuietlyTypes, TypeParts DEF AskCheck, Speakers
  <2>5. sweep' \in SweepRecords /\ SweepIsLive(sweep', Existing')
    <3>1. CASE clock[c].age = "fresh"
      BY <1>0, <1>8, <2>2, <3>1 DEF AskCheck, SweepRecords, SweepIsLive
    <3>2. CASE clock[c].age = "stale"
      <4>1. sweep' = [sweep EXCEPT !.pc = "closing", !.todo = @ \ {c}, !.cur = c, !.back = "ask"]
        BY <1>8, <3>2 DEF AskCheck
      <4>2. sweep' \in SweepRecords /\ sweep'.todo = sweep.todo \ {c} /\ sweep'.cur = c
        BY <1>0, <4>1, SweepMoves
      <4> QED
        BY <1>0, <2>1, <2>2, <4>2 DEF SweepIsLive
    <3>3. CASE clock[c].age = "quiet"
      <4>1. sweep' = [sweep EXCEPT !.pc = "latch", !.todo = @ \ {c}, !.cur = c]
        BY <1>8, <3>3 DEF AskCheck
      <4> QED
        BY <1>0, <2>1, <2>2, <4>1 DEF SweepRecords, SweepIsLive
    <3> QED
      BY <2>3, <3>1, <3>2, <3>3
  <2> QED
    BY <1>1, <1>8, <2>2, <2>4, <2>5 DEF AskCheck
<1>9. ASSUME AskLatch PROVE TypeOK'
  <2> DEFINE c == sweep.cur
  <2>1. [conv[c] EXCEPT !.idle = TRUE] \in Rows
    BY <1>0, <1>9 DEF Rows, AskLatch
  <2>2. ConvTypes' /\ Existing \subseteq Existing'
    BY <1>0, <1>9, <2>1, PutTypes, TypeParts DEF AskLatch
  <2>3. c \in Convs
    BY <1>0, <1>9 DEF AskLatch
  <2>4. TalkTypes' /\ AsgTypes'
    <3>1. [talk[c] EXCEPT !.answered = FALSE]
            \in [last: Speakers, answered: BOOLEAN, asked: BOOLEAN]
      BY ZenonT(30), <2>3, TypeParts DEF TalkTypes
    <3>2. [clock[c] EXCEPT !.due = FALSE] \in [age: {"fresh", "quiet", "stale"}, due: BOOLEAN]
      BY <2>3, TypeParts DEF TalkTypes
    <3>3. TalkTypes'
      BY <1>9, <2>3, <3>1, <3>2, TypeParts DEF AskLatch, TalkTypes
    <3> QED
      BY <1>9, <3>3, TypeParts DEF AskLatch, AsgTypes
  <2>5. sweep' \in SweepRecords /\ SweepIsLive(sweep', Existing')
    <3>1. CASE sweep.said + 1 >= Batch
      BY <1>9, <3>1, RestingIsLive DEF AskLatch
    <3>2. CASE ~(sweep.said + 1 >= Batch)
      <4>1. sweep' = [sweep EXCEPT !.pc = "ask", !.cur = 0, !.said = @ + 1]
        BY <1>9, <3>2 DEF AskLatch
      <4>2. sweep.said + 1 \in 0..Batch
        BY <1>0, <3>2, BoundsAssumption DEF SweepRecords
      <4> QED
        BY <1>0, <2>2, <4>1, <4>2 DEF SweepRecords, SweepIsLive
    <3> QED
      BY <3>1, <3>2
  <2> QED
    BY <1>1, <1>9, <2>2, <2>4, <2>5 DEF AskLatch
<1>10. ASSUME SweepEnd PROVE TypeOK'
  BY <1>1, <1>2, <1>10, RestingIsLive, QuietlyTypes, TypeParts DEF SweepEnd, Quietly
<1> QED
  BY <1>3, <1>4, <1>5, <1>6, <1>7, <1>8, <1>9, <1>10 DEF Sweep

LEMMA TimeTypes ==
  ASSUME TypeOK, NEW c \in Convs, TickAge(c) \/ TickGrace(c)
  PROVE  TypeOK'
<1>1. ASSUME NEW age \in {"fresh", "quiet", "stale"}, NEW due \in BOOLEAN,
             clock' = [clock EXCEPT ![c].age = age, ![c].due = due]
      PROVE  clock' \in [Convs -> [age: {"fresh", "quiet", "stale"}, due: BOOLEAN]]
  BY <1>1, TypeParts DEF TalkTypes
<1>2. clock' \in [Convs -> [age: {"fresh", "quiet", "stale"}, due: BOOLEAN]]
  <2>1. CASE TickAge(c)
    <3> DEFINE age == IF clock[c].age = "fresh" THEN "quiet" ELSE "stale"
               due == clock[c].due \/ conv[c].idle
    <3>1. conv[c] \in Rows
      BY <2>1, TypeParts, ExistingRows DEF TickAge, Existing
    <3>2. age \in {"fresh", "quiet", "stale"} /\ due \in BOOLEAN
      BY Zenon
    <3>3. clock' = [clock EXCEPT ![c].age = age, ![c].due = due]
      BY <2>1, Zenon DEF TickAge
    <3> HIDE DEF age, due
    <3> QED
      BY <1>1, <3>2, <3>3
  <2>2. CASE TickGrace(c)
    BY <2>2, TypeParts DEF TickGrace, TalkTypes
  <2> QED
    BY <2>1, <2>2
<1>3. UNCHANGED <<conv, asg, talk, req, sweep, crashes>>
  BY DEF TickAge, TickGrace
<1>4. Existing' = Existing
  BY <1>3, SameRows
<1> QED
  BY <1>2, <1>3, <1>4 DEF TypeOK, TableTypes, WorkerTypes, SlotIsLive, SweepIsLive

LEMMA CrashTypes ==
  ASSUME TypeOK, Crash
  PROVE  TypeOK'
<1>1. Existing' = Existing
  BY SameRows DEF Crash
<1>2. req' \in [Requests -> Slots] /\ \A r \in Requests : SlotIsLive(req'[r], Existing)
  <2>1. FreeSlot \in Slots /\ SlotIsLive(FreeSlot, Existing)
    BY DEF FreeSlot, Slots, SlotIsLive, CarriesRow
  <2> QED
    BY <2>1, FinishedIsLive DEF Crash
<1>3. sweep' \in SweepRecords /\ SweepIsLive(sweep', Existing)
  BY RestingIsLive DEF Crash
<1>4. crashes' \in 0..MaxCrashes
  BY BoundsAssumption DEF Crash, TypeOK, WorkerTypes
<1> QED
  BY <1>1, <1>2, <1>3, <1>4 DEF TypeOK, TableTypes, WorkerTypes, SweepRecords, Crash

-----------------------------------------------------------------------------
LEMMA InitTypes == Init => TypeOK
<1> SUFFICES ASSUME Init PROVE TypeOK
  OBVIOUS
<1>1. FreeSlot \in Slots /\ SlotIsLive(FreeSlot, Existing)
  BY DEF FreeSlot, Slots, SlotIsLive, CarriesRow
<1>2. TableTypes
  BY DEF Init, TableTypes, NoneActive, Speakers
<1>3. WorkerTypes /\ SweepIsLive(sweep, Existing)
  BY <1>1, RestingIsLive, BoundsAssumption DEF Init, WorkerTypes, SweepRecords
<1> QED
  BY <1>1, <1>2, <1>3 DEF TypeOK, Init

LEMMA NextTypes == TypeOK /\ [Next]_vars => TypeOK'
<1> SUFFICES ASSUME TypeOK, [Next]_vars PROVE TypeOK'
  OBVIOUS
<1>1. ASSUME NEW r \in Requests, Arrive(r) \/ Continue(r) PROVE TypeOK'
  BY <1>1, CustomerTypes, AgentTypes DEF Arrive, Continue
<1>2. CASE UNCHANGED vars
  BY <1>2, SameRows DEF vars, TypeOK, TableTypes, WorkerTypes, SlotIsLive, SweepIsLive
<1> QED
  BY <1>1, <1>2, SweepTypes, TimeTypes, CrashTypes DEF Next, Time

\* Every step of every handler, of the sweep, of time and of a crash keeps the
\* tables well formed, and no handler or sweep item in flight ever names a row
\* that is not in the table.
THEOREM TypeCorrect == Spec => []TypeOK
  BY InitTypes, NextTypes, PTL DEF Spec

-----------------------------------------------------------------------------
LEMMA CoherentWrite ==
  ASSUME TypeOK, TableIsCoherent, NEW c \in Convs, NEW row \in Rows, CoherentRow(row), Put(c, row)
  PROVE  TableIsCoherent'
<1>1. conv'[c] = row /\ \A d \in Convs \ {c} : conv'[d] = conv[d]
  BY PutRows, TypeParts
<1> QED
  BY <1>1 DEF TableIsCoherent, Exists

LEMMA CoherentRest ==
  ASSUME TableIsCoherent, UNCHANGED conv
  PROVE  TableIsCoherent'
  BY DEF TableIsCoherent, Exists

LEMMA CoherentMove ==
  ASSUME TypeOK, HandlersAreCoherent, NEW r \in Requests, NEW slot, GoTo(r, slot),
         CarriesRow(slot) => CoherentRow(slot.row)
  PROVE  HandlersAreCoherent'
<1>1. req'[r] = slot /\ \A q \in Requests \ {r} : req'[q] = req[q]
  BY DEF TypeOK, WorkerTypes, GoTo
<1> QED
  BY <1>1 DEF HandlersAreCoherent

LEMMA CoherentThen ==
  ASSUME TypeOK, HandlersAreCoherent, NEW r \in Requests, NEW pc, Then(r, pc),
         CarriesRow(req[r]) \/ pc \notin {"create", "persist", "think", "assign", "save"}
  PROVE  HandlersAreCoherent'
<1> DEFINE slot == [req[r] EXCEPT !.pc = pc]
<1>1. req[r] \in Slots
  BY DEF TypeOK, WorkerTypes
<1>2. slot.pc = pc /\ slot.row = req[r].row
  BY <1>1 DEF Slots
<1>3. CarriesRow(slot) => CoherentRow(slot.row)
  BY <1>2 DEF HandlersAreCoherent, CarriesRow
<1> QED
  BY <1>3, CoherentMove DEF Then

LEMMA CoherentFinish ==
  ASSUME TypeOK, HandlersAreCoherent, NEW r \in Requests, Finish(r)
  PROVE  HandlersAreCoherent'
<1>1. ~CarriesRow(Finished)
  BY DEF CarriesRow, Finished, FreeSlot
<1> QED
  BY <1>1, CoherentMove DEF Finish

LEMMA CoherentIdle ==
  ASSUME HandlersAreCoherent, UNCHANGED req
  PROVE  HandlersAreCoherent'
  BY DEF HandlersAreCoherent

LEMMA ArriveCoherent ==
  ASSUME TypeOK, TableIsCoherent, HandlersAreCoherent, NEW r \in Requests, Arrive(r)
  PROVE  TableIsCoherent' /\ HandlersAreCoherent'
<1>1. ASSUME NEW s \in Sessions, MessageFind(r, s) PROVE HandlersAreCoherent' /\ UNCHANGED conv
  <2>1. CoherentRow(NewRow(s))
    BY DEF CoherentRow, NewRow
  <2>2. \A c \in Convs : IsNewest(c, OpenOf(s)) => CoherentRow(conv[c])
    BY DEF TableIsCoherent, IsNewest, OpenOf
  <2>3. ASSUME NEW c \in Convs, IsNewest(c, OpenOf(s)),
               GoTo(r, Slot("message", "persist", c, NoAgent, conv[c]))
        PROVE  HandlersAreCoherent'
    <3>1. CoherentRow(Slot("message", "persist", c, NoAgent, conv[c]).row)
      BY <2>2, <2>3 DEF Slot
    <3> QED
      BY <2>3, <3>1, CoherentMove
  <2>4. ASSUME GoTo(r, Slot("message", "create", 0, NoAgent, NewRow(s)))
        PROVE  HandlersAreCoherent'
    <3>1. CoherentRow(Slot("message", "create", 0, NoAgent, NewRow(s)).row)
      BY <2>1 DEF Slot
    <3> QED
      BY <2>4, <3>1, CoherentMove
  <2> QED
    BY <1>1, <2>3, <2>4 DEF MessageFind
<1>2. ASSUME NEW c \in Convs,
             (\E s \in Sessions : CustomerEnd(r, s, c)) \/ AgentEnd(r, c) \/ RateCheck(r, c) \/ HandBackCheck(r, c)
      PROVE  HandlersAreCoherent' /\ UNCHANGED conv
  <2>1. PICK slot : GoTo(r, slot) /\ ~CarriesRow(slot)
    BY <1>2 DEF CustomerEnd, AgentEnd, RateCheck, HandBackCheck, Slot, CarriesRow
  <2> QED
    BY <1>2, <2>1, CoherentMove DEF CustomerEnd, AgentEnd, RateCheck, HandBackCheck
<1>3. ASSUME NEW c \in Convs, Escalate(r, c) PROVE HandlersAreCoherent' /\ TableIsCoherent'
  <2>1. conv[c] \in Rows /\ CoherentRow(conv[c])
    BY <1>3, TypeParts, ExistingRows DEF Escalate, Existing, TableIsCoherent
  <2> DEFINE row == [conv[c] EXCEPT !.status = "waiting", !.escalated = TRUE]
  <2>2. row \in Rows /\ CoherentRow(row)
    BY <2>1 DEF Rows, OpenStatuses, CoherentRow
  <2> QED
    BY <1>3, <2>2, CoherentWrite, CoherentFinish DEF Escalate
<1>4. ASSUME NEW c \in Convs, PinRead(r, c) PROVE HandlersAreCoherent' /\ UNCHANGED conv
  <2>1. conv[c] \in Rows /\ CoherentRow(conv[c])
    BY <1>4, TypeParts, ExistingRows DEF PinRead, Existing, TableIsCoherent
  <2>2. CoherentRow([conv[c] EXCEPT !.pinned = TRUE])
    BY <2>1 DEF Rows, OpenStatuses, CoherentRow
  <2> DEFINE slot == Slot("pin", "save", c, NoAgent, [conv[c] EXCEPT !.pinned = TRUE])
  <2>3. CoherentRow(slot.row)
    BY <2>2 DEF Slot
  <2>4. GoTo(r, slot) /\ UNCHANGED conv
    BY <1>4 DEF PinRead
  <2> QED
    BY <2>3, <2>4, CoherentMove
<1>5. ASSUME NEW c \in Convs, UnpinRead(r, c) PROVE HandlersAreCoherent' /\ UNCHANGED conv
  <2>1. conv[c] \in Rows /\ CoherentRow(conv[c])
    BY <1>5, TypeParts, ExistingRows DEF UnpinRead, Existing, TableIsCoherent
  <2>2. CoherentRow([conv[c] EXCEPT !.pinned = FALSE])
    BY <2>1 DEF Rows, OpenStatuses, CoherentRow
  <2> DEFINE slot == Slot("unpin", "save", c, NoAgent, [conv[c] EXCEPT !.pinned = FALSE])
  <2>3. CoherentRow(slot.row)
    BY <2>2 DEF Slot
  <2>4. GoTo(r, slot) /\ UNCHANGED conv
    BY <1>5 DEF UnpinRead
  <2> QED
    BY <2>3, <2>4, CoherentMove
<1>6. ASSUME NEW c \in Convs, AgentReply(r, c) PROVE HandlersAreCoherent' /\ UNCHANGED conv
  BY <1>6, CoherentFinish DEF AgentReply
<1>7. ASSUME NEW c \in Convs, NEW a \in Agents, AcceptCheck(r, a, c) \/ IssueAssign(r, a, c)
      PROVE  HandlersAreCoherent' /\ UNCHANGED conv
  <2>1. PICK slot : GoTo(r, slot) /\ ~CarriesRow(slot)
    BY <1>7 DEF AcceptCheck, IssueAssign, Slot, CarriesRow
  <2> QED
    BY <1>7, <2>1, CoherentMove DEF AcceptCheck, IssueAssign
<1>8. ASSUME NEW c \in Convs, NEW a \in Agents, AssignRead(r, a, c)
      PROVE  HandlersAreCoherent' /\ UNCHANGED conv
  <2>1. conv[c] \in Rows /\ CoherentRow(conv[c])
    BY <1>8, TypeParts, ExistingRows DEF AssignRead, Existing, TableIsCoherent
  <2>2. CoherentRow([conv[c] EXCEPT !.status = "agent", !.agent = a])
    BY <2>1, NoAgentAssumption DEF Rows, CoherentRow
  <2> DEFINE slot == Slot("assign", "assign", c, a, [conv[c] EXCEPT !.status = "agent", !.agent = a])
  <2>3. CoherentRow(slot.row)
    BY <2>2 DEF Slot
  <2>4. GoTo(r, slot) /\ UNCHANGED conv
    BY <1>8 DEF AssignRead
  <2> QED
    BY <2>3, <2>4, CoherentMove
<1> QED
  BY <1>1, <1>2, <1>3, <1>4, <1>5, <1>6, <1>7, <1>8, CoherentRest DEF Arrive

LEMMA ContinueCoherent ==
  ASSUME TypeOK, TableIsCoherent, HandlersAreCoherent, NEW r \in Requests, Continue(r)
  PROVE  TableIsCoherent' /\ HandlersAreCoherent'
<1>1. ASSUME MessageCreate(r) PROVE TableIsCoherent' /\ HandlersAreCoherent'
  <2>1. req[r].row \in Rows /\ CoherentRow(req[r].row) /\ req[r] \in Slots
    BY <1>1, LiveSlot DEF MessageCreate, At, CarriesRow, HandlersAreCoherent
  <2>2. PICK c \in Convs : /\ Put(c, req[r].row)
                           /\ GoTo(r, [req[r] EXCEPT !.pc = "persist", !.c = c])
    BY <1>1 DEF MessageCreate
  <2>3. [req[r] EXCEPT !.pc = "persist", !.c = c].row = req[r].row
    BY <2>1 DEF Slots
  <2> QED
    BY <2>1, <2>2, <2>3, CoherentWrite, CoherentMove
<1>2. ASSUME MessagePersist(r) PROVE TableIsCoherent' /\ HandlersAreCoherent'
  <2> DEFINE c == req[r].c
             old == req[r].row
             idle == conv[c].idle /\ ~old.idle
             email(onShift) == conv[c].email /\ ~(old.email /\ onShift /\ ~HumanOwns(old))
  <2>1. c \in Convs /\ conv[c] \in Rows /\ CoherentRow(conv[c])
    BY <1>2, LiveSlot DEF MessagePersist, At, TableIsCoherent, Existing
  <2>2. PICK onShift \in BOOLEAN : Put(c, [conv[c] EXCEPT !.idle = idle, !.email = email(onShift)])
    BY <1>2 DEF MessagePersist
  <2>3. idle \in BOOLEAN /\ email(onShift) \in BOOLEAN
    BY <2>1, BooleanColumns, Zenon
  <2>4. (HumanOwns(old) /\ Finish(r)) \/ Then(r, "think")
    BY <1>2 DEF MessagePersist
  <2>5. CarriesRow(req[r])
    BY <1>2 DEF MessagePersist, At, CarriesRow
  <2> HIDE DEF idle, email, c, old
  <2>6. CoherentRow([conv[c] EXCEPT !.idle = idle, !.email = email(onShift)])
    BY <2>1, <2>3 DEF Rows, CoherentRow
  <2>7. [conv[c] EXCEPT !.idle = idle, !.email = email(onShift)] \in Rows
    BY <2>1, <2>3, MarkedRow
  <2> QED
    BY <2>1, <2>2, <2>4, <2>5, <2>6, <2>7, CoherentWrite, CoherentThen, CoherentFinish
<1>3. ASSUME MessageThink(r) PROVE TableIsCoherent' /\ HandlersAreCoherent'
  <2>1. CarriesRow(req[r]) /\ (Then(r, "handoff") \/ Finish(r)) /\ UNCHANGED conv
    BY <1>3 DEF MessageThink, At, CarriesRow
  <2> QED
    BY <2>1, CoherentThen, CoherentFinish, CoherentRest
<1>4. ASSUME MessageHandoff(r) PROVE TableIsCoherent' /\ HandlersAreCoherent'
  <2> DEFINE c == req[r].c
             row(offHours) == [conv[c] EXCEPT !.status = "waiting", !.escalated = TRUE,
                                              !.email = @ \/ offHours]
  <2>1. c \in Convs /\ conv[c] \in Rows /\ CoherentRow(conv[c])
    BY <1>4, LiveSlot DEF MessageHandoff, At, TableIsCoherent, Existing
  <2>2. PICK offHours \in BOOLEAN : Put(c, row(offHours))
    BY <1>4 DEF MessageHandoff
  <2>3. row(offHours) \in Rows
    BY <2>1, Zenon DEF Rows, OpenStatuses
  <2>4. row(offHours).status = "waiting" /\ row(offHours).escalated
    BY <2>1, Zenon DEF Rows, OpenStatuses
  <2> HIDE DEF row
  <2>5. CoherentRow(row(offHours))
    BY <2>4 DEF CoherentRow
  <2> QED
    BY <1>4, <2>1, <2>2, <2>3, <2>5, CoherentWrite, CoherentFinish DEF MessageHandoff
<1>5. ASSUME EndUpdate(r) PROVE TableIsCoherent' /\ HandlersAreCoherent'
  <2> DEFINE c == req[r].c
             row == [conv[c] EXCEPT !.status = "ended", !.ended = TRUE]
  <2>1. /\ c \in Convs /\ conv[c] \in Rows /\ CoherentRow(conv[c])
        /\ (req[r].pc \in {"take", "repoint"} => req[r].a \in Agents)
    BY <1>5, LiveSlot DEF EndUpdate, At, TableIsCoherent, Existing
  <2>2. row \in Rows /\ CoherentRow(row)
    BY <1>5, <2>1, NoAgentAssumption DEF Rows, OpenStatuses, CoherentRow, EndUpdate, At
  <2>3. TableIsCoherent'
    BY <1>5, <2>1, <2>2, CoherentWrite DEF EndUpdate
  <2> QED
    BY <1>5, <2>3, CoherentThen DEF EndUpdate
<1>6. ASSUME RateWrite(r) PROVE TableIsCoherent' /\ HandlersAreCoherent'
  <2> DEFINE c == req[r].c
             row == [conv[c] EXCEPT !.rated = TRUE]
  <2>1. /\ c \in Convs /\ conv[c] \in Rows /\ CoherentRow(conv[c])
        /\ (req[r].pc \in {"take", "repoint"} => req[r].a \in Agents)
    BY <1>6, LiveSlot DEF RateWrite, At, TableIsCoherent, Existing
  <2>2. row \in Rows /\ CoherentRow(row)
    BY <1>6, <2>1, NoAgentAssumption DEF Rows, OpenStatuses, CoherentRow, RateWrite, At
  <2>3. TableIsCoherent'
    BY <1>6, <2>1, <2>2, CoherentWrite DEF RateWrite
  <2> QED
    BY <1>6, <2>3, CoherentFinish DEF RateWrite
<1>7. ASSUME AcceptTake(r) PROVE TableIsCoherent' /\ HandlersAreCoherent'
  <2> DEFINE c == req[r].c
             row == [conv[c] EXCEPT !.status = "agent", !.agent = req[r].a]
  <2>1. /\ c \in Convs /\ conv[c] \in Rows /\ CoherentRow(conv[c])
        /\ (req[r].pc \in {"take", "repoint"} => req[r].a \in Agents)
    BY <1>7, LiveSlot DEF AcceptTake, At, TableIsCoherent, Existing
  <2>2. row \in Rows /\ CoherentRow(row)
    BY <1>7, <2>1, NoAgentAssumption DEF Rows, OpenStatuses, CoherentRow, AcceptTake, At
  <2>3. TableIsCoherent'
    BY <1>7, <2>1, <2>2, CoherentWrite DEF AcceptTake
  <2> QED
    BY <1>7, <2>3, CoherentFinish DEF AcceptTake
<1>8. ASSUME IssueRepoint(r) PROVE TableIsCoherent' /\ HandlersAreCoherent'
  <2> DEFINE c == req[r].c
             row == [conv[c] EXCEPT !.agent = req[r].a]
  <2>1. /\ c \in Convs /\ conv[c] \in Rows /\ CoherentRow(conv[c])
        /\ (req[r].pc \in {"take", "repoint"} => req[r].a \in Agents)
    BY <1>8, LiveSlot DEF IssueRepoint, At, TableIsCoherent, Existing
  <2>2. row \in Rows /\ CoherentRow(row)
    BY <1>8, <2>1, NoAgentAssumption DEF Rows, OpenStatuses, CoherentRow, IssueRepoint, At
  <2>3. TableIsCoherent'
    BY <1>8, <2>1, <2>2, CoherentWrite DEF IssueRepoint
  <2> QED
    BY <1>8, <2>3, CoherentFinish DEF IssueRepoint
<1>9. ASSUME HandBackUpdate(r) PROVE TableIsCoherent' /\ HandlersAreCoherent'
  <2> DEFINE c == req[r].c
             row == [conv[c] EXCEPT !.status = "ai_active", !.agent = NoAgent]
  <2>1. /\ c \in Convs /\ conv[c] \in Rows /\ CoherentRow(conv[c])
        /\ (req[r].pc \in {"take", "repoint"} => req[r].a \in Agents)
    BY <1>9, LiveSlot DEF HandBackUpdate, At, TableIsCoherent, Existing
  <2>2. row \in Rows /\ CoherentRow(row)
    BY <1>9, <2>1, NoAgentAssumption DEF Rows, OpenStatuses, CoherentRow, HandBackUpdate, At
  <2>3. TableIsCoherent'
    BY <1>9, <2>1, <2>2, CoherentWrite DEF HandBackUpdate
  <2> QED
    BY <1>9, <2>3, CoherentFinish DEF HandBackUpdate
<1>10. ASSUME RowSave(r) PROVE TableIsCoherent' /\ HandlersAreCoherent'
  <2>1. req[r].c \in Convs /\ req[r].row \in Rows /\ CoherentRow(req[r].row)
    BY <1>10, LiveSlot DEF RowSave, At, CarriesRow, HandlersAreCoherent
  <2> QED
    BY <1>10, <2>1, CoherentWrite, CoherentFinish DEF RowSave
<1>11. ASSUME Release(r) \/ AcceptSave(r) \/ AssignSave(r)
      PROVE  TableIsCoherent' /\ HandlersAreCoherent'
  <2>1. UNCHANGED conv /\ (Finish(r) \/ Then(r, "toBot") \/ Then(r, "take")
                          \/ (CarriesRow(req[r]) /\ Then(r, "save")))
    BY <1>11 DEF Release, AcceptSave, AssignSave, At, CarriesRow
  <2> QED
    BY <2>1, CoherentRest, CoherentThen, CoherentFinish
<1> QED
  BY <1>1, <1>2, <1>3, <1>4, <1>5, <1>6, <1>7, <1>8, <1>9, <1>10, <1>11 DEF Continue

LEMMA SweepCoherent ==
  ASSUME TypeOK, TableIsCoherent, Sweep
  PROVE  TableIsCoherent'
<1>1. \A c \in sweep.todo \cup (IF sweep.pc \in {"closing", "latch"} THEN {sweep.cur} ELSE {}) :
        c \in Convs /\ conv[c] \in Rows /\ CoherentRow(conv[c])
  BY TypeParts, ExistingRows DEF TypeOK, SweepIsLive, TableIsCoherent, Existing
<1>2. ASSUME NEW c \in Convs, CloseCheck(c) PROVE TableIsCoherent'
  <2>1. [conv[c] EXCEPT !.idle = FALSE] \in Rows /\ CoherentRow([conv[c] EXCEPT !.idle = FALSE])
    BY <1>1, <1>2 DEF CloseCheck, Rows, CoherentRow
  <2> QED
    BY <1>2, <2>1, CoherentWrite, CoherentRest DEF CloseCheck
<1>3. ASSUME CloseUpdate PROVE TableIsCoherent'
  <2> DEFINE row == [conv[sweep.cur] EXCEPT !.status = "ended", !.ended = TRUE, !.idle = FALSE]
  <2>1. sweep.cur \in Convs /\ conv[sweep.cur] \in Rows /\ CoherentRow(conv[sweep.cur])
    BY <1>1, <1>3 DEF CloseUpdate
  <2>2. row \in Rows
    BY <2>1 DEF Rows, OpenStatuses
  <2>3. row.status = "ended" /\ row.ended
    BY <2>1 DEF Rows
  <2> HIDE DEF row
  <2>4. CoherentRow(row)
    BY <2>3 DEF CoherentRow
  <2> QED
    BY <1>3, <2>1, <2>2, <2>4, CoherentWrite DEF CloseUpdate, row
<1>4. ASSUME AskLatch PROVE TableIsCoherent'
  <2> DEFINE row == [conv[sweep.cur] EXCEPT !.idle = TRUE]
  <2>1. sweep.cur \in Convs /\ conv[sweep.cur] \in Rows /\ CoherentRow(conv[sweep.cur])
    BY <1>1, <1>4 DEF AskLatch
  <2>2. row \in Rows /\ CoherentRow(row)
    BY <2>1 DEF Rows, CoherentRow
  <2> QED
    BY <1>4, <2>1, <2>2, CoherentWrite DEF AskLatch
<1>5. ASSUME SweepClose \/ CloseRelease \/ SweepAsk \/ SweepEnd \/ \E c \in Convs : AskCheck(c)
      PROVE  TableIsCoherent'
  BY <1>5, CoherentRest DEF SweepClose, CloseRelease, SweepAsk, SweepEnd, AskCheck
<1> QED
  BY <1>2, <1>3, <1>4, <1>5 DEF Sweep

LEMMA NextCoherent == TypeOK /\ RowsAreCoherent /\ [Next]_vars => RowsAreCoherent'
<1> SUFFICES ASSUME TypeOK, TableIsCoherent, HandlersAreCoherent, [Next]_vars
             PROVE  TableIsCoherent' /\ HandlersAreCoherent'
  BY DEF RowsAreCoherent
<1>1. CASE Sweep
  BY <1>1, SweepCoherent, CoherentIdle
     DEF Sweep, SweepClose, CloseUpdate, CloseRelease, SweepAsk, AskLatch, SweepEnd, CloseCheck, AskCheck
<1>2. CASE Time
  BY <1>2, CoherentRest, CoherentIdle DEF Time, TickAge, TickGrace
<1>3. CASE Crash
  <2>1. \A r \in Requests : ~CarriesRow(req'[r])
    BY <1>3 DEF Crash, CarriesRow, FreeSlot, Finished
  <2> QED
    BY <1>3, <2>1, CoherentRest DEF Crash, HandlersAreCoherent
<1>4. CASE UNCHANGED vars
  BY <1>4, CoherentRest, CoherentIdle DEF vars
<1> QED
  BY <1>1, <1>2, <1>3, <1>4, ArriveCoherent, ContinueCoherent DEF Next

\* Every row of the table, and every row a handler still carries, keeps the
\* columns that only make sense together: no mix of column updates and of saves
\* of stale rows (accept, assign, pin, issue assignment, handback, end, idle
\* close) tears status, agent, escalation and end date apart.
THEOREM RowsCoherent == Spec => []RowsAreCoherent
<1>1. Init => RowsAreCoherent
  BY DEF Init, RowsAreCoherent, TableIsCoherent, HandlersAreCoherent, Exists, CarriesRow, FreeSlot
<1> QED
  BY <1>1, TypeCorrect, NextCoherent, PTL DEF Spec

-----------------------------------------------------------------------------
EndedRow(c) == Exists(c) /\ conv[c].status = "ended"
SettlingPcs == {"release", "take", "save"}

\* A handler outside the settling steps moves: no assignment changes, and a
\* thread it ends is one it goes on to release.
LEMMA PassingStep ==
  ASSUME TypeOK, EndedHoldsNoAssignment, NEW r \in Requests, NEW slot, GoTo(r, slot),
         req[r].pc \notin SettlingPcs, UNCHANGED <<asg, sweep>>,
         \A c \in Convs : EndedRow(c)' => EndedRow(c) \/ (slot.c = c /\ slot.pc = "release")
  PROVE  EndedHoldsNoAssignment'
<1>1. req'[r] = slot /\ \A q \in Requests \ {r} : req'[q] = req[q]
  BY DEF TypeOK, WorkerTypes, GoTo
<1>2. ASSUME NEW c \in Convs, EndedRow(c)', ~Settling(c)' PROVE Held(c)' = {}
  <2>1. EndedRow(c)
    BY <1>1, <1>2 DEF Settling
  <2>2. ~Settling(c)
    BY <1>1, <1>2 DEF Settling, SettlingPcs
  <2> QED
    BY <2>1, <2>2 DEF EndedHoldsNoAssignment, EndedRow, Held
<1> QED
  BY <1>2 DEF EndedHoldsNoAssignment, EndedRow

\* A handler acts on the thread it names and leaves the others alone; on its own
\* the thread is settling, released or in an agent's hands.
LEMMA OwnThreadStep ==
  ASSUME TypeOK, EndedHoldsNoAssignment, NEW r \in Requests, NEW slot, GoTo(r, slot),
         UNCHANGED sweep, NEW c \in Convs, req[r].c = c,
         \A d \in Convs \ {c} : conv'[d] = conv[d] /\ asg'[d] = asg[d],
         (slot.c = c /\ slot.pc \in SettlingPcs) \/ Held(c)' = {} \/ ~EndedRow(c)'
  PROVE  EndedHoldsNoAssignment'
<1>1. req'[r] = slot /\ \A q \in Requests \ {r} : req'[q] = req[q]
  BY DEF TypeOK, WorkerTypes, GoTo
<1>2. ASSUME NEW d \in Convs, EndedRow(d)', ~Settling(d)' PROVE Held(d)' = {}
  <2>1. CASE d = c
    <3>1. ~(slot.c = c /\ slot.pc \in SettlingPcs)
      BY <1>1, <1>2, <2>1 DEF Settling, SettlingPcs
    <3> QED
      BY <1>2, <2>1, <3>1
  <2>2. CASE d # c
    <3>1. EndedRow(d) /\ ~Settling(d)
      BY <1>1, <1>2, <2>2 DEF Settling, EndedRow, Exists
    <3> QED
      BY <2>2, <3>1 DEF EndedHoldsNoAssignment, EndedRow, Held
  <2> QED
    BY <2>1, <2>2
<1> QED
  BY <1>2 DEF EndedHoldsNoAssignment, EndedRow

\* A row written with another status, or with the status it had, ends nothing.
LEMMA PutEndsNothing ==
  ASSUME TypeOK, NEW c \in Convs, NEW row \in Rows, Put(c, row),
         row.status # "ended" \/ (c \in Existing /\ row.status = conv[c].status),
         NEW d \in Convs, EndedRow(d)'
  PROVE  EndedRow(d)
<1>1. conv'[c] = row /\ \A e \in Convs \ {c} : conv'[e] = conv[e]
  BY PutRows, TypeParts
<1> QED
  BY <1>1 DEF EndedRow, Exists, Existing

LEMMA RestEndsNothing ==
  ASSUME UNCHANGED conv
  PROVE  \A d \in Convs : EndedRow(d)' => EndedRow(d)
  BY DEF EndedRow, Exists

LEMMA ArriveEnded ==
  ASSUME TypeOK, EndedHoldsNoAssignment, Kinds \cap {"pin", "unpin", "issueAssign"} = {},
         NEW r \in Requests, Arrive(r)
  PROVE  EndedHoldsNoAssignment'
<1>1. At(r, "new") /\ req[r].pc \notin SettlingPcs
  BY DEF Arrive, Serves, At, SettlingPcs, MessageFind, CustomerEnd, Escalate, AgentEnd, RateCheck,
         PinRead, UnpinRead, HandBackCheck, AgentReply, AcceptCheck, AssignRead, IssueAssign
<1>2. ASSUME NEW slot, GoTo(r, slot), UNCHANGED <<conv, asg, sweep>> PROVE EndedHoldsNoAssignment'
  BY <1>1, <1>2, PassingStep, RestEndsNothing
<1>3. ASSUME NEW s \in Sessions, MessageFind(r, s) PROVE EndedHoldsNoAssignment'
  BY <1>2, <1>3 DEF MessageFind
<1>4. ASSUME NEW c \in Convs,
             \/ (\E s \in Sessions : CustomerEnd(r, s, c)) \/ AgentEnd(r, c) \/ RateCheck(r, c)
             \/ HandBackCheck(r, c) \/ AgentReply(r, c)
             \/ \E a \in Agents : AcceptCheck(r, a, c) \/ AssignRead(r, a, c)
      PROVE  EndedHoldsNoAssignment'
  BY <1>2, <1>4 DEF CustomerEnd, AgentEnd, RateCheck, HandBackCheck, AgentReply, Finish,
                    AcceptCheck, AssignRead
<1>5. ASSUME NEW c \in Convs, Escalate(r, c) PROVE EndedHoldsNoAssignment'
  <2> DEFINE row == [conv[c] EXCEPT !.status = "waiting", !.escalated = TRUE]
  <2>1. conv[c] \in Rows
    BY <1>5, TypeParts, ExistingRows DEF Escalate, Existing
  <2>2. row \in Rows /\ row.status # "ended"
    BY <2>1 DEF Rows, OpenStatuses
  <2>3. Put(c, row) /\ Finish(r) /\ UNCHANGED <<asg, sweep>>
    BY <1>5 DEF Escalate
  <2> HIDE DEF row
  <2>4. \A d \in Convs : EndedRow(d)' => EndedRow(d)
    BY <2>2, <2>3, PutEndsNothing
  <2> QED
    BY <1>1, <2>3, <2>4, PassingStep DEF Finish
<1>6. ASSUME NEW c \in Convs,
             PinRead(r, c) \/ UnpinRead(r, c) \/ \E a \in Agents : IssueAssign(r, a, c)
      PROVE  FALSE
  BY <1>6 DEF PinRead, UnpinRead, IssueAssign, Serves
<1> QED
  BY <1>3, <1>4, <1>5, <1>6 DEF Arrive

LEMMA ContinueEnded ==
  ASSUME TypeOK, EndedHoldsNoAssignment, Kinds \cap {"pin", "unpin", "issueAssign"} = {},
         NEW r \in Requests, Continue(r)
  PROVE  EndedHoldsNoAssignment'
<1>0. ASSUME NEW slot, GoTo(r, slot), req[r].pc \notin SettlingPcs, UNCHANGED <<asg, sweep>>,
             NEW c \in Convs, NEW row \in Rows, Put(c, row),
             row.status # "ended" \/ (c \in Existing /\ row.status = conv[c].status)
      PROVE  EndedHoldsNoAssignment'
  <2>1. \A d \in Convs : EndedRow(d)' => EndedRow(d)
    BY <1>0, PutEndsNothing
  <2> QED
    BY <1>0, <2>1, PassingStep
<1>1. ASSUME MessageCreate(r) PROVE EndedHoldsNoAssignment'
  <2>1. req[r].row \in Rows /\ req[r].row.status = "ai_active" /\ req[r].pc = "create"
    BY <1>1, LiveSlot DEF MessageCreate, At, CarriesRow
  <2>2. PICK c \in Convs : /\ Put(c, req[r].row)
                           /\ GoTo(r, [req[r] EXCEPT !.pc = "persist", !.c = c])
    BY <1>1 DEF MessageCreate
  <2> QED
    BY <1>0, <1>1, <2>1, <2>2 DEF MessageCreate, SettlingPcs
<1>2. ASSUME MessagePersist(r) PROVE EndedHoldsNoAssignment'
  <2> DEFINE c == req[r].c
             old == req[r].row
             idle == conv[c].idle /\ ~old.idle
             email(onShift) == conv[c].email /\ ~(old.email /\ onShift /\ ~HumanOwns(old))
  <2>1. c \in Convs /\ c \in Existing /\ conv[c] \in Rows /\ req[r].pc = "persist"
    BY <1>2, LiveSlot DEF MessagePersist, At
  <2>2. PICK onShift \in BOOLEAN : Put(c, [conv[c] EXCEPT !.idle = idle, !.email = email(onShift)])
    BY <1>2 DEF MessagePersist
  <2>3. idle \in BOOLEAN /\ email(onShift) \in BOOLEAN
    BY <2>1, BooleanColumns, Zenon
  <2>4. PICK slot : GoTo(r, slot)
    BY <1>2 DEF MessagePersist, Finish, Then
  <2>5. UNCHANGED <<asg, sweep>>
    BY <1>2 DEF MessagePersist
  <2> HIDE DEF idle, email, c, old
  <2>6. [conv[c] EXCEPT !.idle = idle, !.email = email(onShift)].status = conv[c].status
    BY <2>1 DEF Rows
  <2>7. [conv[c] EXCEPT !.idle = idle, !.email = email(onShift)] \in Rows
    BY <2>1, <2>3, MarkedRow
  <2> QED
    BY <1>0, <2>1, <2>2, <2>4, <2>5, <2>6, <2>7 DEF SettlingPcs
<1>3. ASSUME MessageThink(r) PROVE EndedHoldsNoAssignment'
  <2>1. PICK slot : GoTo(r, slot)
    BY <1>3 DEF MessageThink, Finish, Then
  <2> QED
    BY <1>3, <2>1, PassingStep, RestEndsNothing DEF MessageThink, At, SettlingPcs
<1>4. ASSUME MessageHandoff(r) PROVE EndedHoldsNoAssignment'
  <2> DEFINE c == req[r].c
             row(offHours) == [conv[c] EXCEPT !.status = "waiting", !.escalated = TRUE,
                                              !.email = @ \/ offHours]
  <2>1. c \in Convs /\ conv[c] \in Rows /\ req[r].pc = "handoff"
    BY <1>4, LiveSlot DEF MessageHandoff, At
  <2>2. PICK offHours \in BOOLEAN : Put(c, row(offHours))
    BY <1>4 DEF MessageHandoff
  <2>3. row(offHours) \in Rows
    BY <2>1, Zenon DEF Rows, OpenStatuses
  <2>4. row(offHours).status = "waiting"
    BY <2>1, Zenon DEF Rows
  <2>5. GoTo(r, Finished) /\ UNCHANGED <<asg, sweep>>
    BY <1>4 DEF MessageHandoff, Finish
  <2> HIDE DEF row, c
  <2> QED
    BY <1>0, <2>1, <2>2, <2>3, <2>4, <2>5 DEF SettlingPcs
<1>5. ASSUME RateWrite(r) PROVE EndedHoldsNoAssignment'
  <2> DEFINE c == req[r].c
             row == [conv[c] EXCEPT !.rated = TRUE]
  <2>1. /\ c \in Convs /\ c \in Existing /\ conv[c] \in Rows /\ req[r].pc \notin SettlingPcs
        /\ (req[r].pc = "repoint" => req[r].a \in Agents)
    BY <1>5, LiveSlot DEF RateWrite, At, SettlingPcs
  <2>2. row \in Rows /\ row.status = conv[c].status
    BY <1>5, <2>1 DEF Rows, OpenStatuses, RateWrite, At
  <2>3. GoTo(r, Finished) /\ Put(c, row) /\ UNCHANGED <<asg, sweep>>
    BY <1>5 DEF RateWrite, Finish
  <2> HIDE DEF row, c
  <2> QED
    BY <1>0, <2>1, <2>2, <2>3
<1>6. ASSUME IssueRepoint(r) PROVE EndedHoldsNoAssignment'
  <2> DEFINE c == req[r].c
             row == [conv[c] EXCEPT !.agent = req[r].a]
  <2>1. /\ c \in Convs /\ c \in Existing /\ conv[c] \in Rows /\ req[r].pc \notin SettlingPcs
        /\ (req[r].pc = "repoint" => req[r].a \in Agents)
    BY <1>6, LiveSlot DEF IssueRepoint, At, SettlingPcs
  <2>2. row \in Rows /\ row.status = conv[c].status
    BY <1>6, <2>1 DEF Rows, OpenStatuses, IssueRepoint, At
  <2>3. GoTo(r, Finished) /\ Put(c, row) /\ UNCHANGED <<asg, sweep>>
    BY <1>6 DEF IssueRepoint, Finish
  <2> HIDE DEF row, c
  <2> QED
    BY <1>0, <2>1, <2>2, <2>3
<1>7. ASSUME HandBackUpdate(r) PROVE EndedHoldsNoAssignment'
  <2> DEFINE c == req[r].c
             row == [conv[c] EXCEPT !.status = "ai_active", !.agent = NoAgent]
  <2>1. /\ c \in Convs /\ c \in Existing /\ conv[c] \in Rows /\ req[r].pc \notin SettlingPcs
        /\ (req[r].pc = "repoint" => req[r].a \in Agents)
    BY <1>7, LiveSlot DEF HandBackUpdate, At, SettlingPcs
  <2>2. row \in Rows /\ row.status = "ai_active"
    BY <1>7, <2>1 DEF Rows, OpenStatuses, HandBackUpdate, At
  <2>3. GoTo(r, Finished) /\ Put(c, row) /\ UNCHANGED <<asg, sweep>>
    BY <1>7 DEF HandBackUpdate, Finish
  <2> HIDE DEF row, c
  <2> QED
    BY <1>0, <2>1, <2>2, <2>3
<1>8. ASSUME EndUpdate(r) PROVE EndedHoldsNoAssignment'
  <2> DEFINE c == req[r].c
             row == [conv[c] EXCEPT !.status = "ended", !.ended = TRUE]
             slot == [req[r] EXCEPT !.pc = "release"]
  <2>1. req[r] \in Slots /\ c \in Convs /\ conv[c] \in Rows /\ req[r].pc = "end"
    BY <1>8, LiveSlot DEF EndUpdate, At
  <2>2. row \in Rows
    BY <2>1 DEF Rows
  <2>3. slot.c = c /\ slot.pc = "release"
    BY <2>1 DEF Slots
  <2>4. Put(c, row) /\ GoTo(r, slot) /\ UNCHANGED <<asg, sweep>>
    BY <1>8 DEF EndUpdate, Then
  <2> HIDE DEF row, slot, c
  <2>5. \A d \in Convs \ {c} : conv'[d] = conv[d]
    BY <2>1, <2>2, <2>4, PutRows, TypeParts
  <2>6. \A d \in Convs : EndedRow(d)' => EndedRow(d) \/ (slot.c = d /\ slot.pc = "release")
    BY <2>3, <2>5 DEF EndedRow, Exists
  <2> QED
    BY <2>1, <2>4, <2>6, PassingStep DEF SettlingPcs
<1>9. ASSUME AcceptSave(r) \/ AssignSave(r) PROVE EndedHoldsNoAssignment'
  <2>0. PICK c \in Convs : c = req[r].c
    BY <1>9, LiveSlot DEF AcceptSave, AssignSave, At
  <2>1. req[r] \in Slots
    BY LiveSlot
  <2>2. \A d \in Convs \ {c} : conv'[d] = conv[d] /\ asg'[d] = asg[d]
    BY <1>9, <2>0, TypeParts DEF AcceptSave, AssignSave, AsgTypes
  <2>3. PICK pc \in SettlingPcs : Then(r, pc)
    BY <1>9 DEF AcceptSave, AssignSave, SettlingPcs
  <2> DEFINE slot == [req[r] EXCEPT !.pc = pc]
  <2>4. slot.c = c /\ slot.pc \in SettlingPcs
    BY <2>0, <2>1 DEF Slots
  <2>5. GoTo(r, slot) /\ UNCHANGED sweep
    BY <1>9, <2>3 DEF AcceptSave, AssignSave, Then
  <2> HIDE DEF slot
  <2> QED
    BY <2>0, <2>2, <2>4, <2>5, OwnThreadStep
<1>10. ASSUME AcceptTake(r) PROVE EndedHoldsNoAssignment'
  <2>0. PICK c \in Convs : c = req[r].c
    BY <1>10, LiveSlot DEF AcceptTake, At
  <2> DEFINE row == [conv[c] EXCEPT !.status = "agent", !.agent = req[r].a]
  <2>1. conv[c] \in Rows /\ req[r].a \in Agents
    BY <1>10, <2>0, LiveSlot DEF AcceptTake, At
  <2>2. row \in Rows /\ row.status = "agent"
    BY <2>1 DEF Rows, OpenStatuses
  <2>3. Put(c, row) /\ GoTo(r, Finished) /\ UNCHANGED <<asg, sweep>>
    BY <1>10, <2>0 DEF AcceptTake, Finish
  <2> HIDE DEF row
  <2>4. conv'[c] = row /\ \A d \in Convs \ {c} : conv'[d] = conv[d]
    BY <2>2, <2>3, PutRows, TypeParts
  <2>5. ~EndedRow(c)'
    BY <2>2, <2>4 DEF EndedRow
  <2> QED
    BY <2>0, <2>3, <2>4, <2>5, OwnThreadStep
<1>11. ASSUME RowSave(r) PROVE EndedHoldsNoAssignment'
  <2>0. PICK c \in Convs : c = req[r].c
    BY <1>11, LiveSlot DEF RowSave, At
  <2>1. req[r].row \in Rows /\ req[r].row.status = "agent"
    BY <1>11, LiveSlot DEF RowSave, At, CarriesRow
  <2>2. Put(c, req[r].row) /\ GoTo(r, Finished) /\ UNCHANGED <<asg, sweep>>
    BY <1>11, <2>0 DEF RowSave, Finish
  <2>3. conv'[c] = req[r].row /\ \A d \in Convs \ {c} : conv'[d] = conv[d]
    BY <2>1, <2>2, PutRows, TypeParts
  <2>4. ~EndedRow(c)'
    BY <2>1, <2>3 DEF EndedRow
  <2> QED
    BY <2>0, <2>2, <2>3, <2>4, OwnThreadStep
<1>12. ASSUME Release(r) PROVE EndedHoldsNoAssignment'
  <2>0. PICK c \in Convs : c = req[r].c
    BY <1>12, LiveSlot DEF Release, At
  <2>1. asg'[c] = NoneActive /\ \A d \in Convs \ {c} : conv'[d] = conv[d] /\ asg'[d] = asg[d]
    BY <1>12, <2>0, TypeParts DEF Release, AsgTypes
  <2>2. Held(c)' = {}
    BY <2>1 DEF Held, NoneActive
  <2>3. PICK slot : GoTo(r, slot)
    BY <1>12 DEF Release, Then, Finish
  <2> QED
    BY <1>12, <2>0, <2>1, <2>2, <2>3, OwnThreadStep DEF Release
<1> QED
  BY <1>1, <1>2, <1>3, <1>4, <1>5, <1>6, <1>7, <1>8, <1>9, <1>10, <1>11, <1>12 DEF Continue

LEMMA SweepEnded ==
  ASSUME TypeOK, EndedHoldsNoAssignment, Sweep
  PROVE  EndedHoldsNoAssignment'
<1>0. /\ UNCHANGED req
      /\ sweep \in SweepRecords
      /\ \A c \in sweep.todo : c \in Existing /\ c \in Convs /\ conv[c] \in Rows
      /\ sweep.pc \in {"closing", "releasing", "latch"} =>
           sweep.cur \in Existing /\ sweep.cur \in Convs /\ conv[sweep.cur] \in Rows
  BY TypeParts, ExistingRows
     DEF TypeOK, WorkerTypes, SweepRecords, SweepIsLive, Sweep, SweepClose, CloseUpdate, CloseRelease,
         SweepAsk, AskLatch, SweepEnd, CloseCheck, AskCheck
<1>1. ASSUME sweep.pc # "releasing", UNCHANGED asg, \A c \in Convs : EndedRow(c)' => EndedRow(c)
      PROVE  EndedHoldsNoAssignment'
  <2>1. ASSUME NEW c \in Convs, EndedRow(c)', ~Settling(c)' PROVE Held(c)' = {}
    <3>1. ~Settling(c)
      BY <1>0, <1>1, <2>1 DEF Settling
    <3> QED
      BY <1>1, <2>1, <3>1 DEF EndedHoldsNoAssignment, EndedRow, Held
  <2> QED
    BY <2>1 DEF EndedHoldsNoAssignment, EndedRow
<1>2. ASSUME SweepClose \/ SweepAsk \/ SweepEnd \/ \E c \in Convs : AskCheck(c)
      PROVE  EndedHoldsNoAssignment'
  BY <1>1, <1>2, RestEndsNothing DEF SweepClose, SweepAsk, SweepEnd, AskCheck
<1>3. ASSUME NEW c \in Convs, CloseCheck(c) PROVE EndedHoldsNoAssignment'
  <2> DEFINE row == [conv[c] EXCEPT !.idle = FALSE]
  <2>1. c \in Existing /\ row \in Rows /\ row.status = conv[c].status
    BY <1>0, <1>3 DEF CloseCheck, Rows
  <2>2. Put(c, row) \/ UNCHANGED conv
    BY <1>3 DEF CloseCheck
  <2> HIDE DEF row
  <2>3. \A d \in Convs : EndedRow(d)' => EndedRow(d)
    BY <2>1, <2>2, PutEndsNothing, RestEndsNothing
  <2> QED
    BY <1>1, <1>3, <2>3 DEF CloseCheck
<1>4. ASSUME AskLatch PROVE EndedHoldsNoAssignment'
  <2>0. PICK c \in Convs : c = sweep.cur /\ c \in Existing /\ conv[c] \in Rows
    BY <1>0, <1>4 DEF AskLatch
  <2> DEFINE row == [conv[c] EXCEPT !.idle = TRUE]
  <2>1. row \in Rows /\ row.status = conv[c].status
    BY <2>0 DEF Rows
  <2>2. Put(c, row)
    BY <1>4, <2>0 DEF AskLatch
  <2> HIDE DEF row
  <2>3. \A d \in Convs : EndedRow(d)' => EndedRow(d)
    BY <2>0, <2>1, <2>2, PutEndsNothing
  <2> QED
    BY <1>1, <1>4, <2>3 DEF AskLatch
<1>5. ASSUME CloseUpdate PROVE EndedHoldsNoAssignment'
  <2>0. PICK c \in Convs : c = sweep.cur /\ conv[c] \in Rows
    BY <1>0, <1>5 DEF CloseUpdate
  <2>1. \A d \in Convs \ {c} : conv'[d] = conv[d]
    BY <1>5, <2>0, TypeParts DEF CloseUpdate, Put, ConvTypes
  <2>2. sweep'.cur = c /\ sweep'.pc = "releasing" /\ UNCHANGED asg /\ sweep.pc = "closing"
    BY <1>0, <1>5, <2>0 DEF CloseUpdate, SweepRecords
  <2>3. ASSUME NEW d \in Convs, EndedRow(d)', ~Settling(d)' PROVE Held(d)' = {}
    <3>1. d # c
      BY <2>2, <2>3 DEF Settling
    <3>2. EndedRow(d) /\ ~Settling(d)
      BY <1>0, <2>1, <2>2, <2>3, <3>1 DEF EndedRow, Exists, Settling
    <3> QED
      BY <2>2, <3>2 DEF EndedHoldsNoAssignment, EndedRow, Held
  <2> QED
    BY <2>3 DEF EndedHoldsNoAssignment, EndedRow
<1>6. ASSUME CloseRelease PROVE EndedHoldsNoAssignment'
  <2>0. PICK c \in Convs : c = sweep.cur
    BY <1>0, <1>6 DEF CloseRelease
  <2>1. asg'[c] = NoneActive /\ (\A d \in Convs \ {c} : asg'[d] = asg[d]) /\ UNCHANGED conv
    BY <1>6, <2>0, TypeParts DEF CloseRelease, AsgTypes
  <2>2. ASSUME NEW d \in Convs, EndedRow(d)', ~Settling(d)' PROVE Held(d)' = {}
    <3>1. CASE d = c
      BY <2>1, <3>1 DEF Held, NoneActive
    <3>2. CASE d # c
      <4>1. EndedRow(d) /\ ~Settling(d)
        BY <1>0, <2>0, <2>1, <2>2, <3>2 DEF EndedRow, Exists, Settling
      <4> QED
        BY <2>1, <3>2, <4>1 DEF EndedHoldsNoAssignment, EndedRow, Held
    <3> QED
      BY <3>1, <3>2
  <2> QED
    BY <2>2 DEF EndedHoldsNoAssignment, EndedRow
<1> QED
  BY <1>2, <1>3, <1>4, <1>5, <1>6 DEF Sweep

\* Without pins, without assignments through the issue and without a crash, an
\* ended thread that nobody is working on keeps no active assignment, however
\* accepts, assignments, handbacks, ends and the idle sweep interleave.  Each
\* hypothesis is needed: a pin or an unpin saves a stale row back, the issue
\* assigns without looking at the status, and a crash falls between the end and
\* the release.
THEOREM EndReleases ==
  ASSUME Kinds \cap {"pin", "unpin", "issueAssign"} = {}, MaxCrashes = 0
  PROVE  Spec => []EndedHoldsNoAssignment
<1>1. Init => EndedHoldsNoAssignment
  BY DEF Init, EndedHoldsNoAssignment, Exists
<1>2. TypeOK /\ EndedHoldsNoAssignment /\ [Next]_vars => EndedHoldsNoAssignment'
  <2> SUFFICES ASSUME TypeOK, EndedHoldsNoAssignment, [Next]_vars PROVE EndedHoldsNoAssignment'
    OBVIOUS
  <2>1. ~Crash
    BY DEF Crash, TypeOK, WorkerTypes
  <2>2. CASE UNCHANGED vars \/ Time
    BY <2>2 DEF vars, Time, TickAge, TickGrace, EndedHoldsNoAssignment, Exists, Held, Settling
  <2> QED
    BY <2>1, <2>2, ArriveEnded, ContinueEnded, SweepEnded DEF Next
<1> QED
  BY <1>1, <1>2, TypeCorrect, PTL DEF Spec

-----------------------------------------------------------------------------
(* The idle question is asked once: the latch, and what stands in for it    *)
(* between the question and the latch.                                      *)

Latching(c) == sweep.pc = "latch" /\ sweep.cur = c
Asks == sweep.pc \in {"ask", "latch"} \/ (sweep.pc \in {"closing", "releasing"} /\ sweep.back = "ask")

\* An open question is latched, or about to be.
QuestionIsLatched == \A c \in Convs : talk[c].asked => Exists(c) /\ (conv[c].idle \/ Latching(c))
\* What the sweep has still to ask has no open question.
TodoIsUnasked == Asks => \A c \in sweep.todo : ~talk[c].asked
\* An answer closes the question.
AnswerCloses == \A c \in Convs : talk[c].answered /\ talk[c].asked => Latching(c)

OneQuestion == QuestionIsLatched /\ TodoIsUnasked /\ AnswerCloses

\* Nothing is asked, and no thread forgets that it was.
NothingAsked ==
  \A d \in Convs : talk'[d].asked => talk[d].asked /\ (talk'[d].answered => talk[d].answered)
LatchesStay ==
  \A d \in Convs : Exists(d) => Exists(d)' /\ (conv[d].idle /\ talk'[d].asked => conv'[d].idle)

LEMMA RestAsksNothing ==
  ASSUME TypeOK, OneQuestion, NothingAsked, LatchesStay, UNCHANGED sweep
  PROVE  OneQuestion'
<1>1. QuestionIsLatched'
  BY DEF OneQuestion, QuestionIsLatched, NothingAsked, LatchesStay, Latching
<1>2. TodoIsUnasked'
  BY DEF OneQuestion, TodoIsUnasked, NothingAsked, Asks, TypeOK, WorkerTypes
<1>3. AnswerCloses'
  BY DEF OneQuestion, AnswerCloses, NothingAsked, Latching
<1> QED
  BY <1>1, <1>2, <1>3 DEF OneQuestion

LEMMA SpeakAsksNothing ==
  ASSUME TalkTypes, NEW c \in Convs, NEW who \in Speakers \ {"prompt"}, Speak(c, who)
  PROVE  NothingAsked /\ (who = "user" => ~talk'[c].asked)
<1>1. /\ talk'[c] = [last |-> who, answered |-> talk[c].answered \/ who = "user",
                     asked |-> who # "user" /\ (talk[c].asked \/ who = "prompt")]
      /\ \A d \in Convs \ {c} : talk'[d] = talk[d]
  BY DEF TalkTypes, Speak
<1>2. PICK answered, asked :
        /\ answered = (talk[c].answered \/ who = "user")
        /\ asked = (who # "user" /\ (talk[c].asked \/ who = "prompt"))
  OBVIOUS
<1>3. talk'[c].answered = answered /\ talk'[c].asked = asked
  BY <1>1, <1>2
<1> QED
  BY <1>1, <1>2, <1>3 DEF NothingAsked

LEMMA QuietAsksNothing == ASSUME UNCHANGED talk PROVE NothingAsked
  BY DEF NothingAsked

LEMMA PutLatches ==
  ASSUME ConvTypes, NEW c \in Convs, NEW row \in Rows, Put(c, row),
         Exists(c) /\ conv[c].idle /\ talk'[c].asked => row.idle
  PROVE  LatchesStay
  BY PutTypes, PutRows DEF LatchesStay, Existing

LEMMA RestLatches == ASSUME UNCHANGED conv PROVE LatchesStay
  BY DEF LatchesStay, Exists

LEMMA ArriveAsksNothing ==
  ASSUME TypeOK, NEW r \in Requests, Arrive(r)
  PROVE  NothingAsked /\ LatchesStay /\ UNCHANGED sweep
<1>1. ASSUME NEW c \in Convs, Escalate(r, c) PROVE NothingAsked /\ LatchesStay
  <2> DEFINE row == [conv[c] EXCEPT !.status = "waiting", !.escalated = TRUE]
  <2>1. conv[c] \in Rows
    BY <1>1, TypeParts, ExistingRows DEF Escalate, Existing
  <2>2. row \in Rows /\ row.idle = conv[c].idle
    BY <2>1 DEF Rows, OpenStatuses
  <2>3. LatchesStay
    BY <1>1, <2>2, TypeParts, PutLatches DEF Escalate
  <2>4. NothingAsked
    BY <1>1, TypeParts, SpeakAsksNothing, QuietAsksNothing DEF Escalate, Quietly, Speakers
  <2> QED
    BY <2>3, <2>4
<1>2. ASSUME NEW c \in Convs, AgentReply(r, c) PROVE NothingAsked /\ LatchesStay
  BY <1>2, TypeParts, SpeakAsksNothing, RestLatches DEF AgentReply, Speakers
<1>3. UNCHANGED sweep /\
      (UNCHANGED <<conv, talk>> \/ \E c \in Convs : Escalate(r, c) \/ AgentReply(r, c))
  BY DEF Arrive, MessageFind, CustomerEnd, Escalate, AgentEnd, RateCheck, PinRead, UnpinRead,
         HandBackCheck, AgentReply, AcceptCheck, AssignRead, IssueAssign
<1> QED
  BY <1>1, <1>2, <1>3, QuietAsksNothing, RestLatches

\* A column update by id that does not touch the latch.
LEMMA UpdateLatches ==
  ASSUME TypeOK, NEW c \in Existing, NEW row, Put(c, row), row \in Rows, row.idle = conv[c].idle
  PROVE  LatchesStay
  BY TypeParts, PutLatches DEF Existing

LEMMA ContinueAsksNothing ==
  ASSUME TypeOK, NEW r \in Requests, Continue(r), Kinds \cap {"assign", "pin", "unpin"} = {}
  PROVE  NothingAsked /\ LatchesStay /\ UNCHANGED sweep
<1> DEFINE c == req[r].c
<1>0. /\ req[r].pc \notin {"new", "done", "create"} => c \in Existing /\ c \in Convs /\ conv[c] \in Rows
      /\ CarriesRow(req[r]) => req[r].row \in Rows
      /\ req[r].pc \in {"take", "repoint"} => req[r].a \in Agents
      /\ req[r].pc # "save"
  BY TypeParts, ExistingRows DEF TypeOK, SlotIsLive
<1> HIDE DEF c
<1>1. CASE MessageCreate(r)
  <2>1. PICK d \in Convs : ~Exists(d) /\ Put(d, req[r].row)
    BY <1>1 DEF MessageCreate
  <2>2. req[r].row \in Rows
    BY <1>0, <1>1 DEF MessageCreate, At, CarriesRow
  <2> QED
    BY <1>1, <2>1, <2>2, TypeParts, PutLatches, QuietAsksNothing DEF MessageCreate
<1>2. CASE MessagePersist(r)
  <2>1. c \in Convs /\ conv[c] \in Rows /\ req[r].row \in Rows
    BY <1>0, <1>2 DEF MessagePersist, At, CarriesRow
  <2>2. NothingAsked /\ ~talk'[c].asked /\ UNCHANGED sweep
    BY <1>2, <2>1, TypeParts, SpeakAsksNothing DEF MessagePersist, c, Speakers
  <2>3. PICK row : /\ \E onShift \in BOOLEAN :
                        row = [conv[c] EXCEPT
                          !.idle = @ /\ ~req[r].row.idle,
                          !.email = @ /\ ~(req[r].row.email /\ onShift /\ ~HumanOwns(req[r].row))]
                   /\ Put(c, row)
    BY <1>2 DEF MessagePersist, c
  <2>4. row \in Rows
    <3>1. PICK onShift \in BOOLEAN :
            row = [conv[c] EXCEPT
                     !.idle = @ /\ ~req[r].row.idle,
                     !.email = @ /\ ~(req[r].row.email /\ onShift /\ ~HumanOwns(req[r].row))]
      BY <2>3
    <3> DEFINE idle == conv[c].idle /\ ~req[r].row.idle
               email == conv[c].email /\ ~(req[r].row.email /\ onShift /\ ~HumanOwns(req[r].row))
    <3>2. idle \in BOOLEAN /\ email \in BOOLEAN
      OBVIOUS
    <3>3. row = [conv[c] EXCEPT !.idle = idle, !.email = email]
      BY <3>1
    <3> HIDE DEF idle, email
    <3> QED
      BY <2>1, <3>2, <3>3, MarkedRow
  <2> QED
    BY <2>1, <2>2, <2>3, <2>4, TypeParts, PutLatches
<1>3. CASE MessageThink(r)
  <2>1. c \in Convs
    BY <1>0, <1>3 DEF MessageThink, At
  <2>2. PICK v \in QueuedVerdicts \cup FreshVerdicts :
          IF v.speak = "none" THEN Quietly ELSE Speak(c, v.speak)
    BY <1>3 DEF MessageThink, c
  <2>3. v.speak \in Speakers \ {"prompt"}
    BY VerdictSpeaks, VerdictNeverPrompts
  <2> QED
    BY <1>3, <2>1, <2>2, <2>3, TypeParts, SpeakAsksNothing, QuietAsksNothing, RestLatches
       DEF MessageThink, Quietly
<1>4. CASE MessageHandoff(r)
  <2>1. c \in Existing /\ c \in Convs /\ conv[c] \in Rows
    BY <1>0, <1>4 DEF MessageHandoff, At
  <2>2. NothingAsked /\ UNCHANGED sweep
    BY <1>4, <2>1, TypeParts, SpeakAsksNothing DEF MessageHandoff, c, Speakers
  <2>3. PICK offHours \in BOOLEAN :
          Put(c, [conv[c] EXCEPT !.status = "waiting", !.escalated = TRUE, !.email = @ \/ offHours])
    BY <1>4 DEF MessageHandoff, c
  <2> DEFINE email == conv[c].email \/ offHours
             row == [conv[c] EXCEPT !.status = "waiting", !.escalated = TRUE, !.email = email]
  <2>4. email \in BOOLEAN /\ Put(c, row)
    BY <2>3
  <2> HIDE DEF email
  <2>5. row \in Rows /\ row.idle = conv[c].idle
    BY <2>1, <2>4 DEF Rows, OpenStatuses
  <2> HIDE DEF row
  <2> QED
    BY <2>1, <2>2, <2>4, <2>5, UpdateLatches
<1>5. CASE EndUpdate(r)
  <2>1. c \in Existing /\ conv[c] \in Rows
    BY <1>0, <1>5 DEF EndUpdate, At
  <2> DEFINE row == [conv[c] EXCEPT !.status = "ended", !.ended = TRUE]
  <2>2. row \in Rows /\ row.idle = conv[c].idle
    BY <2>1 DEF Rows, OpenStatuses
  <2> QED
    BY <1>5, <2>1, <2>2, UpdateLatches, QuietAsksNothing DEF EndUpdate, c
<1>6. CASE RateWrite(r)
  <2>1. c \in Existing /\ conv[c] \in Rows
    BY <1>0, <1>6 DEF RateWrite, At
  <2> DEFINE row == [conv[c] EXCEPT !.rated = TRUE]
  <2>2. row \in Rows /\ row.idle = conv[c].idle
    BY <2>1 DEF Rows
  <2> QED
    BY <1>6, <2>1, <2>2, UpdateLatches, QuietAsksNothing DEF RateWrite, c
<1>7. CASE AcceptTake(r)
  <2>1. c \in Existing /\ conv[c] \in Rows /\ req[r].a \in Agents
    BY <1>0, <1>7 DEF AcceptTake, At
  <2> DEFINE row == [conv[c] EXCEPT !.status = "agent", !.agent = req[r].a]
  <2>2. row \in Rows /\ row.idle = conv[c].idle
    BY <2>1 DEF Rows, OpenStatuses
  <2> QED
    BY <1>7, <2>1, <2>2, UpdateLatches, QuietAsksNothing DEF AcceptTake, c
<1>8. CASE IssueRepoint(r)
  <2>1. c \in Existing /\ conv[c] \in Rows /\ req[r].a \in Agents
    BY <1>0, <1>8 DEF IssueRepoint, At
  <2> DEFINE row == [conv[c] EXCEPT !.agent = req[r].a]
  <2>2. row \in Rows /\ row.idle = conv[c].idle
    BY <2>1 DEF Rows
  <2> QED
    BY <1>8, <2>1, <2>2, UpdateLatches, QuietAsksNothing DEF IssueRepoint, c
<1>9. CASE HandBackUpdate(r)
  <2>1. c \in Existing /\ c \in Convs /\ conv[c] \in Rows
    BY <1>0, <1>9 DEF HandBackUpdate, At
  <2> DEFINE row == [conv[c] EXCEPT !.status = "ai_active", !.agent = NoAgent]
  <2>2. row \in Rows /\ row.idle = conv[c].idle
    BY <2>1 DEF Rows, OpenStatuses
  <2>3. NothingAsked
    BY <1>9, <2>1, TypeParts, SpeakAsksNothing DEF HandBackUpdate, c, Speakers
  <2> QED
    BY <1>9, <2>1, <2>2, <2>3, UpdateLatches DEF HandBackUpdate, c
<1>10. ~RowSave(r)
  BY <1>0 DEF RowSave, At
<1>11. CASE Release(r) \/ AcceptSave(r) \/ AssignSave(r)
  BY <1>11, QuietAsksNothing, RestLatches DEF Release, AcceptSave, AssignSave
<1> QED
  BY <1>1, <1>2, <1>3, <1>4, <1>5, <1>6, <1>7, <1>8, <1>9, <1>10, <1>11 DEF Continue

LEMMA SweepAsksOnce ==
  ASSUME TypeOK, OneQuestion, Sweep
  PROVE  OneQuestion'
<1>0. /\ TalkTypes /\ ConvTypes
      /\ sweep \in [pc: {"idle", "close", "closing", "releasing", "ask", "latch"},
                    todo: SUBSET Convs, cur: Convs \cup {0}, back: {"idle", "close", "ask"},
                    said: 0..Batch]
      /\ \A c \in sweep.todo : c \in Convs /\ conv[c] \in Rows /\ Exists(c)
      /\ sweep.pc \in {"closing", "releasing", "latch"} =>
           sweep.cur \in Convs /\ conv[sweep.cur] \in Rows /\ Exists(sweep.cur)
  BY TypeParts, ExistingRows DEF TypeOK, WorkerTypes, SweepIsLive, Existing
<1>1. CASE SweepClose \/ CloseRelease \/ SweepEnd
  <2>1. UNCHANGED <<conv, talk>> /\ sweep.pc # "latch"
    BY <1>1 DEF SweepClose, CloseRelease, SweepEnd
  <2>2. Asks' => Asks /\ sweep'.todo = sweep.todo
    <3>1. CASE SweepClose
      BY <1>0, <3>1 DEF SweepClose, Asks
    <3>2. CASE CloseRelease
      <4>1. sweep'.pc = sweep.back /\ sweep'.todo = sweep.todo /\ sweep.pc = "releasing"
        BY <1>0, <3>2 DEF CloseRelease
      <4>2. sweep.back \in {"idle", "close", "ask"}
        BY <1>0
      <4> QED
        BY <4>1, <4>2 DEF Asks
    <3>3. CASE SweepEnd
      BY <3>3 DEF SweepEnd, Asks, Resting
    <3> QED
      BY <1>1, <3>1, <3>2, <3>3
  <2> QED
    BY <2>1, <2>2 DEF OneQuestion, QuestionIsLatched, TodoIsUnasked, AnswerCloses, Latching, Exists
<1>2. ASSUME NEW c \in Convs, CloseCheck(c) PROVE OneQuestion'
  <2>1. sweep.pc = "close" /\ c \in sweep.todo /\ conv[c] \in Rows /\ Exists(c) /\ ~Asks'
    BY <1>0, <1>2 DEF CloseCheck, Asks
  <2>2. \A d \in Convs : talk[d].asked => ~talk[d].answered /\ Exists(d) /\ conv[d].idle
    BY <2>1 DEF OneQuestion, QuestionIsLatched, AnswerCloses, Latching
  <2>3. CASE talk[c].answered
    <3> DEFINE row == [conv[c] EXCEPT !.idle = FALSE]
    <3>1. row \in Rows /\ Put(c, row) /\ UNCHANGED talk
      BY <1>2, <2>1, <2>3 DEF CloseCheck, Quietly, Rows
    <3> HIDE DEF row
    <3>2. \A d \in Convs \ {c} : conv'[d] = conv[d]
      BY <1>0, <3>1, PutRows
    <3>3. ~talk[c].asked
      BY <2>2, <2>3
    <3> QED
      BY <2>1, <2>2, <3>1, <3>2, <3>3
         DEF OneQuestion, QuestionIsLatched, TodoIsUnasked, AnswerCloses, Exists
  <2>4. CASE ~talk[c].answered
    <3>1. NothingAsked /\ UNCHANGED conv
      BY <1>0, <1>2, <2>4, SpeakAsksNothing DEF CloseCheck, Speakers
    <3> QED
      BY <2>1, <2>2, <3>1
         DEF OneQuestion, QuestionIsLatched, TodoIsUnasked, AnswerCloses, Exists, NothingAsked
  <2> QED
    BY <2>3, <2>4
<1>3. CASE CloseUpdate
  <2> DEFINE c == sweep.cur
             row == [conv[c] EXCEPT !.status = "ended", !.ended = TRUE, !.idle = FALSE]
  <2>1. sweep.pc = "closing" /\ c \in Convs /\ conv[c] \in Rows
    BY <1>0, <1>3 DEF CloseUpdate
  <2>2. row \in Rows
    BY <2>1 DEF Rows, OpenStatuses
  <2>3. Put(c, row) /\ talk' = [talk EXCEPT ![c].asked = FALSE] /\ sweep' = [sweep EXCEPT !.pc = "releasing"]
    BY <1>3 DEF CloseUpdate
  <2> HIDE DEF row, c
  <2>4. /\ \A d \in Convs \ {c} : conv'[d] = conv[d] /\ talk'[d] = talk[d]
        /\ ~talk'[c].asked
    BY <1>0, <2>1, <2>2, <2>3, PutRows DEF TalkTypes
  <2>5. (Asks' => Asks) /\ sweep'.todo = sweep.todo /\ sweep.pc # "latch"
    BY <1>0, <2>1, <2>3 DEF Asks
  <2> QED
    BY <1>0, <2>1, <2>4, <2>5
       DEF OneQuestion, QuestionIsLatched, TodoIsUnasked, AnswerCloses, Latching, Exists
<1>4. CASE SweepAsk
  <2>1. UNCHANGED <<conv, talk>> /\ sweep.pc = "close"
    BY <1>4 DEF SweepAsk
  <2>2. sweep'.todo \subseteq Candidates
    BY <1>0, <1>4 DEF SweepAsk, Take
  <2>3. \A c \in Candidates : ~talk[c].asked
    BY <2>1 DEF Candidates, OneQuestion, QuestionIsLatched, Latching
  <2> QED
    BY <2>1, <2>2, <2>3
       DEF OneQuestion, QuestionIsLatched, TodoIsUnasked, AnswerCloses, Latching, Exists
<1>5. ASSUME NEW c \in Convs, AskCheck(c) PROVE OneQuestion'
  <2>1. sweep.pc = "ask" /\ c \in sweep.todo /\ Exists(c) /\ UNCHANGED conv
    BY <1>0, <1>5 DEF AskCheck
  <2>2. sweep'.todo = sweep.todo \ {c}
    BY <1>0, <1>5 DEF AskCheck
  <2>3. CASE Quietly
    BY <2>1, <2>2, <2>3
       DEF OneQuestion, QuestionIsLatched, TodoIsUnasked, AnswerCloses, Latching, Exists, Quietly, Asks
  <2>4. CASE /\ sweep' = [sweep EXCEPT !.pc = "latch", !.todo = @ \ {c}, !.cur = c]
             /\ Speak(c, "prompt")
    <3>1. \A d \in Convs \ {c} : talk'[d] = talk[d]
      BY <1>0, <2>4 DEF Speak, TalkTypes
    <3>2. Latching(c)'
      BY <1>0, <2>4 DEF Latching
    <3> QED
      BY <1>0, <2>1, <2>2, <3>1, <3>2
         DEF OneQuestion, QuestionIsLatched, TodoIsUnasked, AnswerCloses, Latching, Exists, Asks
  <2> QED
    BY <1>5, <2>3, <2>4 DEF AskCheck
<1>6. CASE AskLatch
  <2> DEFINE c == sweep.cur
             row == [conv[c] EXCEPT !.idle = TRUE]
  <2>1. sweep.pc = "latch" /\ c \in Convs /\ conv[c] \in Rows
    BY <1>0, <1>6 DEF AskLatch
  <2>2. row \in Rows /\ row.idle
    BY <2>1 DEF Rows
  <2>3. /\ Put(c, row) /\ talk' = [talk EXCEPT ![c].answered = FALSE]
        /\ sweep'.pc # "latch" /\ (Asks' => sweep'.todo = sweep.todo)
    BY <1>0, <1>6 DEF AskLatch, Resting, Asks
  <2>4. Asks /\ \A d \in Convs : Latching(d) => d = c
    BY <2>1 DEF Asks, Latching
  <2> HIDE DEF row, c
  <2>5. /\ \A d \in Convs \ {c} : conv'[d] = conv[d] /\ talk'[d] = talk[d]
        /\ conv'[c] = row /\ c \in Existing'
    BY <1>0, <2>1, <2>2, <2>3, PutRows, PutTypes
  <2>6. ~talk'[c].answered /\ talk'[c].asked = talk[c].asked
    BY <1>0, <2>1, <2>3 DEF TalkTypes
  <2> QED
    BY <1>0, <2>1, <2>2, <2>3, <2>4, <2>5, <2>6
       DEF OneQuestion, QuestionIsLatched, TodoIsUnasked, AnswerCloses, Existing, Exists
<1> QED
  BY <1>1, <1>2, <1>3, <1>4, <1>5, <1>6 DEF Sweep

\* Where no call saves a whole row of a thread (an assignment by a manager, a pin, an unpin)
\* and no crash falls between the question and its latch, no customer is asked a second time
\* before they have answered or the sweep has closed the thread.
THEOREM QuestionIsAskedOnce ==
  ASSUME Kinds \cap {"assign", "pin", "unpin"} = {}, MaxCrashes = 0
  PROVE  Spec => AskedOnce
<1>1. Init => OneQuestion
  BY DEF Init, OneQuestion, QuestionIsLatched, TodoIsUnasked, AnswerCloses, Asks, Resting
<1>2. TypeOK /\ OneQuestion /\ [Next]_vars => OneQuestion'
  <2> SUFFICES ASSUME TypeOK, OneQuestion, [Next]_vars PROVE OneQuestion'
    OBVIOUS
  <2>1. ~Crash
    BY DEF Crash, TypeOK, WorkerTypes
  <2>2. CASE UNCHANGED vars \/ Time
    <3>1. UNCHANGED <<conv, talk, sweep>>
      BY <2>2 DEF vars, Time, TickAge, TickGrace
    <3> QED
      BY <3>1, RestAsksNothing, QuietAsksNothing, RestLatches
  <2> QED
    BY <2>1, <2>2, ArriveAsksNothing, ContinueAsksNothing, SweepAsksOnce, RestAsksNothing DEF Next
<1>3. TypeOK /\ OneQuestion => \A c \in Convs : AskCheck(c) /\ sweep'.pc = "latch" => ~talk[c].asked
  BY DEF OneQuestion, TodoIsUnasked, Asks, AskCheck
<1>4. TypeOK /\ OneQuestion /\ [Next]_vars =>
        [\A c \in Convs : AskCheck(c) /\ sweep'.pc = "latch" => ~talk[c].asked]_vars
  BY <1>3
<1> QED
  BY <1>1, <1>2, <1>4, TypeCorrect, PTL DEF Spec, AskedOnce
=============================================================================
