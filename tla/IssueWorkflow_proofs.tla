------------------------ MODULE IssueWorkflow_proofs ------------------------
(* For any number of handlers, conversations and users: the issue numbers   *)
(* are dense, no version of an issue is torn, and the table with its        *)
(* handlers implements the promised history.                                *)
EXTENDS IssueWorkflow, FiniteSetTheorems, SequenceTheorems, TLAPS

(* The rows: no operation tears the columns of an issue apart or renumbers *)
(* it, whatever Fresh, Transit and every way of Follows make of a row.       *)

GoodTicket(row) == row \in Tickets /\ CoherentTicket(row)

LEMMA FreshIsGood == \A n \in 1..Cardinality(Convs) : GoodTicket(Fresh(n))
<1> SUFFICES ASSUME NEW n \in 1..Cardinality(Convs) PROVE GoodTicket(Fresh(n))
  OBVIOUS
<1>1. Fresh(n) \in Tickets
  BY TicketBoundsAssumption, PrioritiesAssumption DEF Fresh, Tickets, Statuses, Tiers
<1>2. CoherentTicket(Fresh(n))
  BY DEF Fresh, CoherentTicket
<1> QED
  BY <1>1, <1>2 DEF GoodTicket

\* What applyTransition writes, column by column.
LEMMA TransitColumns ==
  ASSUME NEW row \in Tickets, NEW to \in Statuses, NEW new, new = Transit(row, to)
  PROVE  /\ new.no = row.no /\ new.status = to /\ new.assignee = row.assignee
         /\ new.priority = row.priority
         /\ new.reopens = row.reopens + IF Reopens(row, to) THEN 1 ELSE 0
         /\ new.resolvedAt = (row.resolvedAt \/ to = "resolved")
         /\ new.reason = (row.reason \/ to = "rejected")
         /\ new.closedAt = (row.closedAt \/ to = "closed")
         /\ new.tier = IF to = "resolved" /\ row.tier = "none" THEN "agent" ELSE row.tier
<1>1. /\ new.no = row.no /\ new.status = to /\ new.assignee = row.assignee
      /\ new.priority = row.priority
      /\ new.reopens = row.reopens + IF Reopens(row, to) THEN 1 ELSE 0
  BY DEF Transit, Tickets
<1>2. /\ new.resolvedAt = (row.resolvedAt \/ to = "resolved")
      /\ new.reason = (row.reason \/ to = "rejected")
      /\ new.closedAt = (row.closedAt \/ to = "closed")
      /\ new.tier = IF to = "resolved" /\ row.tier = "none" THEN "agent" ELSE row.tier
  BY Zenon DEF Transit, Tickets
<1> QED
  BY <1>1, <1>2

\* Nothing goes back to received, and only a settled issue is closed.
LEMMA MovesOfTheTable ==
  ASSUME NEW status \in Statuses, NEW to \in TransitionsFrom(status)
  PROVE  /\ to # "received"
         /\ to = "closed" => status \in {"resolved", "rejected"}
<1>1. CASE status = "received"
  <2>1. TransitionsFrom(status) = {"in_progress", "resolved", "rejected"}
    BY <1>1 DEF TransitionsFrom
  <2> QED
    BY <1>1, <2>1
<1>2. CASE status = "in_progress"
  <2>1. TransitionsFrom(status) = {"resolved", "rejected"}
    BY <1>2 DEF TransitionsFrom
  <2> QED
    BY <1>2, <2>1
<1>3. CASE status = "resolved"
  <2>1. TransitionsFrom(status) = {"closed", "in_progress"}
    BY <1>3 DEF TransitionsFrom
  <2> QED
    BY <1>3, <2>1
<1>4. CASE status = "rejected"
  <2>1. TransitionsFrom(status) = {"closed", "in_progress"}
    BY <1>4 DEF TransitionsFrom
  <2> QED
    BY <1>4, <2>1
<1>5. CASE status = "closed"
  <2>1. TransitionsFrom(status) = {"in_progress"}
    BY <1>5 DEF TransitionsFrom
  <2> QED
    BY <1>5, <2>1
<1> QED
  BY <1>1, <1>2, <1>3, <1>4, <1>5 DEF Statuses

\* A transition the table allows leaves every column in its type.
LEMMA TransitIsTicket ==
  ASSUME NEW row \in Tickets, NEW to \in Statuses, Allowed(row, to)
  PROVE  Transit(row, to) \in Tickets
<1>1. /\ row.reopens \in 0..MaxReopens /\ MaxReopens \in Nat
      /\ row.resolvedAt \in BOOLEAN /\ row.reason \in BOOLEAN /\ row.closedAt \in BOOLEAN
      /\ row.tier \in Tiers
  BY TicketBoundsAssumption DEF Tickets
<1>2. row.reopens + (IF Reopens(row, to) THEN 1 ELSE 0) \in 0..MaxReopens
  BY <1>1 DEF Allowed
<1>3. /\ (row.resolvedAt \/ to = "resolved") \in BOOLEAN
      /\ (row.reason \/ to = "rejected") \in BOOLEAN
      /\ (row.closedAt \/ to = "closed") \in BOOLEAN
      /\ (IF to = "resolved" /\ row.tier = "none" THEN "agent" ELSE row.tier) \in Tiers
  BY <1>1 DEF Tiers
<1> QED
  BY ZenonT(30), <1>2, <1>3 DEF Transit, Tickets

\* A transition the table allows keeps an issue in one piece.
LEMMA TransitIsGood ==
  ASSUME NEW row, GoodTicket(row), NEW to \in Statuses, Allowed(row, to)
  PROVE  GoodTicket(Transit(row, to))
<1>1. /\ row \in Tickets /\ CoherentTicket(row) /\ to \in TransitionsFrom(row.status)
      /\ row.status \in Statuses /\ row.reopens \in 0..MaxReopens /\ MaxReopens \in Nat
      /\ row.resolvedAt \in BOOLEAN /\ row.reason \in BOOLEAN /\ row.closedAt \in BOOLEAN
      /\ row.tier \in Tiers
  BY TicketBoundsAssumption DEF GoodTicket, Tickets, Allowed
<1> DEFINE new == Transit(row, to)
<1>2. /\ new.no = row.no /\ new.status = to /\ new.assignee = row.assignee
      /\ new.priority = row.priority
      /\ new.reopens = row.reopens + IF Reopens(row, to) THEN 1 ELSE 0
      /\ new.resolvedAt = (row.resolvedAt \/ to = "resolved")
      /\ new.reason = (row.reason \/ to = "rejected")
      /\ new.closedAt = (row.closedAt \/ to = "closed")
      /\ new.tier = IF to = "resolved" /\ row.tier = "none" THEN "agent" ELSE row.tier
  BY <1>1, TransitColumns
<1>3. new \in Tickets
  BY <1>1, TransitIsTicket
<1>4. /\ to # "received"
      /\ to = "closed" => row.status \in {"resolved", "rejected"}
  BY <1>1, MovesOfTheTable
<1> HIDE DEF new
<1>5. CoherentTicket(new)
  <2>1. Reopens(row, to) => row.resolvedAt \/ row.reason
    BY <1>1 DEF CoherentTicket, Reopens, Settled
  <2>2. ~Reopens(row, to) => new.reopens = row.reopens
    BY <1>1, <1>2
  <2>3. new.reopens > 0 => row.resolvedAt \/ row.reason
    BY <1>1, <2>1, <2>2 DEF CoherentTicket
  <2>4. new.resolvedAt <=> new.tier # "none"
    BY <1>1, <1>2 DEF CoherentTicket
  <2>5. new.closedAt => row.resolvedAt \/ row.reason
    BY <1>1, <1>2, <1>4 DEF CoherentTicket
  <2> QED
    BY <1>2, <1>4, <2>3, <2>4, <2>5 DEF CoherentTicket
<1> QED
  BY <1>3, <1>5 DEF GoodTicket, new

\* So does every other operation.
LEMMA FollowsIsGood ==
  ASSUME NEW old, GoodTicket(old), NEW new, Follows(old, new)
  PROVE  GoodTicket(new)
<1>1. ASSUME NEW to \in Statuses, Allowed(old, to), new = Transit(old, to)
      PROVE  GoodTicket(new)
  BY <1>1, TransitIsGood
<1>2. CASE Untouched(old) /\ new = SettleByBot(old)
  <2> DEFINE half == [old EXCEPT !.tier = "bot"]
  <2>1. old \in Tickets /\ CoherentTicket(old) /\ old.status = "received"
    BY <1>2 DEF GoodTicket, Untouched
  <2>2. half \in Tickets /\ new = Transit(half, "resolved")
    BY <1>2, <2>1 DEF SettleByBot, Tickets, Tiers
  <2>3. /\ half.status = "received" /\ half.tier = "bot" /\ half.reopens = 0
        /\ ~half.resolvedAt /\ ~half.reason /\ ~half.closedAt
    BY <2>1 DEF CoherentTicket, Tickets
  <2> HIDE DEF half
  <2>4. ~Reopens(half, "resolved")
    BY <2>3 DEF Reopens, Settled
  <2>5. /\ new.status = "resolved" /\ new.tier = "bot" /\ new.reopens = half.reopens
        /\ new.resolvedAt = (half.resolvedAt \/ "resolved" = "resolved")
        /\ new.reason = (half.reason \/ "resolved" = "rejected")
        /\ new.closedAt = (half.closedAt \/ "resolved" = "closed")
    <3>1. "resolved" \in Statuses
      BY DEF Statuses
    <3>2. new.reopens = half.reopens + 0
      BY <2>2, <2>4, <3>1, TransitColumns
    <3> QED
      BY <2>2, <2>3, <3>1, <3>2, TransitColumns
  <2>6. CoherentTicket(new)
    BY <2>3, <2>5 DEF CoherentTicket
  <2>7. new \in Tickets
    <3>1. Allowed(half, "resolved")
      BY <2>3, <2>4 DEF Allowed, TransitionsFrom
    <3>2. "resolved" \in Statuses
      BY DEF Statuses
    <3> QED
      BY <2>2, <3>1, <3>2, TransitIsTicket
  <2> QED
    BY <2>6, <2>7 DEF GoodTicket
<1>3. ASSUME NEW u \in Users, new = TakeOver(old, u) \/ new = HandTo(old, u)
      PROVE  GoodTicket(new)
  BY <1>3 DEF GoodTicket, TakeOver, HandTo, Tickets, Statuses, CoherentTicket
<1>4. ASSUME NEW p \in Priorities, new = Prioritise(old, p)
      PROVE  GoodTicket(new)
  BY <1>4 DEF GoodTicket, Prioritise, Tickets, CoherentTicket
<1> QED
  BY <1>1, <1>2, <1>3, <1>4 DEF Follows

\* No operation renumbers an issue.
LEMMA FollowsKeepsNumber ==
  ASSUME NEW old \in Tickets, NEW new, Follows(old, new)
  PROVE  new.no = old.no
<1>1. ASSUME NEW to \in Statuses, new = Transit(old, to)
      PROVE  new.no = old.no
  BY <1>1, TransitColumns
<1>2. CASE new = SettleByBot(old)
  <2> DEFINE half == [old EXCEPT !.tier = "bot"]
  <2>1. half \in Tickets /\ half.no = old.no
    BY DEF Tickets, Tiers
  <2>2. new = Transit(half, "resolved") /\ "resolved" \in Statuses
    BY <1>2 DEF SettleByBot, Statuses
  <2> HIDE DEF half
  <2> QED
    BY <2>1, <2>2, TransitColumns
<1>3. ASSUME NEW u \in Users, new = TakeOver(old, u) \/ new = HandTo(old, u)
      PROVE  new.no = old.no
  BY <1>3 DEF TakeOver, HandTo, Tickets
<1>4. ASSUME NEW p \in Priorities, new = Prioritise(old, p)
      PROVE  new.no = old.no
  BY <1>4 DEF Prioritise, Tickets
<1> QED
  BY <1>1, <1>2, <1>3, <1>4 DEF Follows

\* The bot's settlement, and the closing that comes with it.
LEMMA SettlingIsClosed ==
  ASSUME NEW row, GoodTicket(row), Untouched(row)
  PROVE  Allowed(SettleByBot(row), "closed")
<1> DEFINE half == [row EXCEPT !.tier = "bot"]
<1>1. half \in Tickets /\ SettleByBot(row) = Transit(half, "resolved") /\ "resolved" \in Statuses
  BY DEF GoodTicket, Tickets, Tiers, SettleByBot, Statuses
<1> HIDE DEF half
<1>2. SettleByBot(row).status = "resolved"
  BY <1>1, TransitColumns
<1> QED
  BY <1>2 DEF Allowed, TransitionsFrom, Reopens

-----------------------------------------------------------------------------

(* Each row a handler will save follows from the one before it, starting    *)
(* from the version the handler read, and keeps the issue's number.         *)
Before(slot, i) == IF i = 1 THEN slot.row ELSE slot.writes[i - 1]

Sound(slot) ==
  /\ GoodTicket(slot.row)
  /\ slot.row.no = issue[slot.c].no
  /\ slot.writes \in Seq(Tickets)
  /\ \A i \in 1..Len(slot.writes) :
       /\ GoodTicket(slot.writes[i])
       /\ slot.writes[i].no = issue[slot.c].no
       /\ Follows(Before(slot, i), slot.writes[i])

Slot(r) ==
  /\ req[r] \in SlotTypes
  /\ ~Is(r, "free") => req[r].c \in Convs
  /\ Is(r, "insert") => req[r].no \in 1..(Cardinality(Opened) + 1)
  /\ Is(r, "save") => Exists(req[r].c) /\ req[r].writes # <<>> /\ Sound(req[r])
  /\ ~Is(r, "save") => req[r].writes = <<>>

Table ==
  /\ issue \in [Convs -> Tickets \cup {NoIssue}]
  /\ \A c \in Opened : GoodTicket(issue[c])

IInv ==
  /\ Table
  /\ NumbersAreDense
  /\ req \in [Requests -> SlotTypes]
  /\ \A r \in Requests : Slot(r)

-----------------------------------------------------------------------------
(* Counting the issues.                                                     *)

LEMMA OpenedIsFinite ==
  /\ IsFiniteSet(Convs) /\ Cardinality(Convs) \in Nat
  /\ IsFiniteSet(Opened) /\ Cardinality(Opened) \in Nat
  /\ Cardinality(Opened) =< Cardinality(Convs)
<1>1. Opened \subseteq Convs
  BY DEF Opened
<1> QED
  BY <1>1, TicketBoundsAssumption, FS_Subset, FS_CardinalityType

LEMMA RowOfOpened == ASSUME Table, NEW c \in Convs PROVE Exists(c) <=> issue[c] \in Tickets
<1>1. NoIssue \notin Tickets
  <2>1. \A row \in Tickets : row.no # 0
    BY OpenedIsFinite DEF Tickets
  <2> QED
    BY <2>1 DEF NoIssue
<1> QED
  BY <1>1 DEF Table, Exists

\* Rewriting an issue under its number leaves the count and the numbers alone.
LEMMA SavingKeepsNumbers ==
  ASSUME IInv, NEW c \in Convs, Exists(c), NEW row, GoodTicket(row), row.no = issue[c].no,
         issue' = [issue EXCEPT ![c] = row]
  PROVE  /\ Table' /\ NumbersAreDense' /\ Opened' = Opened
         /\ \A d \in Convs : Exists(d) => Exists(d)' /\ issue'[d].no = issue[d].no
<1>1. /\ issue \in [Convs -> Tickets \cup {NoIssue}] /\ row \in Tickets /\ Table
      /\ \A d \in Convs : issue'[d] = IF d = c THEN row ELSE issue[d]
  BY DEF IInv, Table, GoodTicket
<1>2. row # NoIssue
  <2>1. row.no \in 1..Cardinality(Convs)
    BY <1>1 DEF Tickets
  <2> QED
    BY <2>1, OpenedIsFinite DEF NoIssue
<1>3. /\ Opened' = Opened
      /\ \A d \in Convs : (Exists(d) => Exists(d)') /\ issue'[d].no = issue[d].no
  BY <1>1, <1>2 DEF Opened, Exists
<1>4. Numbers' = Numbers
  BY <1>3 DEF Numbers, Opened
<1>5. NumbersAreDense'
  <2>1. Numbers' = 1..Cardinality(Opened)
    BY <1>4 DEF IInv, NumbersAreDense
  <2>2. \A d, e \in Opened : issue'[d].no = issue'[e].no => d = e
    BY <1>3 DEF IInv, NumbersAreDense, Opened
  <2> QED
    BY <1>3, <2>1, <2>2 DEF NumbersAreDense
<1>6. Table'
  BY <1>1, <1>3 DEF IInv, Table
<1> QED
  BY <1>3, <1>5, <1>6

\* The next number is the count plus one, whatever was read: a lower one is taken.
LEMMA FreeNumberIsNext ==
  ASSUME IInv, NEW r \in Requests, Is(r, "insert"), ~NumberTaken(r)
  PROVE  req[r].no = Cardinality(Opened) + 1
<1>1. req[r].no \in 1..(Cardinality(Opened) + 1) /\ req[r].no \notin 1..Cardinality(Opened)
  BY DEF IInv, Slot, NumbersAreDense, NumberTaken
<1> QED
  BY <1>1, OpenedIsFinite

LEMMA InsertNumbers ==
  ASSUME IInv, NEW r \in Requests, Insert(r)
  PROVE  LET c == req[r].c IN
         /\ c \in Convs /\ Opened' = Opened \cup {c} /\ c \notin Opened
         /\ Cardinality(Opened') = Cardinality(Opened) + 1
         /\ issue' = [issue EXCEPT ![c] = Fresh(Cardinality(Opened) + 1)]
         /\ Table' /\ NumbersAreDense'
<1> DEFINE c == req[r].c
           n == Cardinality(Opened) + 1
<1>1. /\ c \in Convs /\ ~Exists(c) /\ c \notin Opened
      /\ issue' = [issue EXCEPT ![c] = Fresh(n)]
      /\ issue \in [Convs -> Tickets \cup {NoIssue}]
  BY FreeNumberIsNext DEF IInv, Slot, Table, Insert, Is, Opened
<1>2. Fresh(n) # NoIssue /\ Fresh(n).no = n
  BY OpenedIsFinite DEF Fresh, NoIssue
<1>3. \A d \in Convs : issue'[d] = IF d = c THEN Fresh(n) ELSE issue[d]
  BY <1>1
<1>4. Opened' = Opened \cup {c}
  BY <1>1, <1>2, <1>3 DEF Opened, Exists
<1>5. Cardinality(Opened') = n /\ n =< Cardinality(Convs) /\ n \in 1..Cardinality(Convs)
  <2>1. Cardinality(Opened \cup {c}) = n
    BY <1>1, OpenedIsFinite, FS_AddElement
  <2>2. Opened \cup {c} \subseteq Convs
    BY <1>1 DEF Opened
  <2>3. Cardinality(Opened \cup {c}) =< Cardinality(Convs)
    BY <2>2, OpenedIsFinite, FS_Subset
  <2> QED
    BY <1>4, <2>1, <2>3, OpenedIsFinite
<1>6. GoodTicket(Fresh(n))
  BY <1>5, FreshIsGood
<1>7. Table'
  BY <1>1, <1>3, <1>4, <1>6 DEF IInv, Table, GoodTicket, Opened
<1>8. Numbers' = Numbers \cup {n}
  <2>1. Numbers' = {issue'[d].no : d \in Opened \cup {c}}
    BY <1>4 DEF Numbers
  <2>2. issue'[c].no = n /\ \A d \in Opened : issue'[d].no = issue[d].no
    BY <1>1, <1>2, <1>3 DEF Opened
  <2> QED
    BY <2>1, <2>2 DEF Numbers
<1>9. NumbersAreDense'
  <2>1. Numbers = 1..Cardinality(Opened) /\ \A d, e \in Opened : issue[d].no = issue[e].no => d = e
    BY DEF IInv, NumbersAreDense
  <2>2. Numbers' = 1..n
    BY <1>8, <2>1, OpenedIsFinite
  <2>3. \A d \in Opened : issue[d].no # n
    BY <2>1, OpenedIsFinite DEF Numbers
  <2>4. \A d, e \in Opened' : issue'[d].no = issue'[e].no => d = e
    BY <1>1, <1>2, <1>3, <1>4, <2>1, <2>3 DEF Opened
  <2> QED
    BY <1>5, <2>2, <2>4 DEF NumbersAreDense
<1> QED
  BY <1>1, <1>4, <1>5, <1>7, <1>9

-----------------------------------------------------------------------------
(* What the arrivals do.                                                    *)

Kept(r) == UNCHANGED issue /\ \A q \in Requests \ {r} : req'[q] = req[q]

\* A handler that changes its own slot only leaves the rest of the invariant.
LEMMA OwnSlotOnly ==
  ASSUME IInv, NEW r \in Requests, UNCHANGED issue, NEW slot, slot \in SlotTypes, Becomes(r, slot),
         Slot(r)'
  PROVE  IInv'
<1>1. \A q \in Requests : req'[q] = IF q = r THEN slot ELSE req[q]
  BY DEF IInv, Becomes
<1>2. req' \in [Requests -> SlotTypes]
  BY <1>1 DEF IInv, Becomes
<1>3. Table' /\ NumbersAreDense' /\ Opened' = Opened
  BY DEF IInv, Table, NumbersAreDense, Numbers, Opened, Exists
<1>4. \A q \in Requests \ {r} : Slot(q)'
  BY <1>1, <1>3 DEF IInv, Slot, Is, Exists, Sound
<1> QED
  BY <1>2, <1>3, <1>4 DEF IInv

LEMMA BecomesSlot ==
  ASSUME IInv, NEW r \in Requests, NEW slot, Becomes(r, slot)
  PROVE  req'[r] = slot /\ \A q \in Requests \ {r} : req'[q] = req[q]
  BY DEF IInv, Becomes

LEMMA FreeIsSlot == Free \in SlotTypes /\ Free.pc = "free" /\ Free.writes = <<>>
<1>1. <<>> \in Seq(Tickets)
  OBVIOUS
<1>2. 0 \in 0..(Cardinality(Convs) + 1)
  BY OpenedIsFinite
<1> QED
  BY <1>1, <1>2 DEF Free, SlotTypes

LEMMA FinishKeeps ==
  ASSUME IInv, NEW r \in Requests, Finish(r), UNCHANGED issue
  PROVE  IInv'
<1>1. req'[r] = Free
  BY DEF IInv, Finish, Becomes
<1>2. Slot(r)'
  BY <1>1, FreeIsSlot DEF Slot, Is
<1> QED
  BY <1>2, FreeIsSlot, OwnSlotOnly DEF Finish

LEMMA NumberKeeps ==
  ASSUME IInv, NEW r \in Requests, NEW c \in Convs, Number(r, c), UNCHANGED issue
  PROVE  IInv'
<1> DEFINE slot == [Free EXCEPT !.pc = "max", !.c = c]
<1>1. slot \in SlotTypes /\ slot.pc = "max" /\ slot.c = c /\ slot.writes = <<>>
  BY FreeIsSlot DEF Free, SlotTypes
<1>2. Becomes(r, slot)
  BY DEF Number
<1> HIDE DEF slot
<1>3. req'[r] = slot
  BY <1>2 DEF IInv, Becomes
<1>4. Slot(r)'
  BY <1>1, <1>3 DEF Slot, Is
<1> QED
  BY <1>1, <1>2, <1>4, OwnSlotOnly

LEMMA LenIsNat == \A rows \in Seq(Tickets) : Len(rows) \in Nat
  OBVIOUS

LEMMA AtMostTwo == \A rows \in Seq(Tickets) : Len(rows) =< 2 => Len(rows) \in 0..2
<1>1. \A n \in Nat : n =< 2 => n \in 0..2
  OBVIOUS
<1> QED
  BY <1>1, LenIsNat

LEMMA OneThenTwo == \A one, two \in Tickets : <<one>> \o <<two>> = <<one, two>>
<1> SUFFICES ASSUME NEW one \in Tickets, NEW two \in Tickets
             PROVE  <<one>> \o <<two>> = <<one, two>>
  OBVIOUS
<1>1. <<one>> \in Seq(Tickets) /\ <<two>> \in Seq(Tickets) /\ <<one, two>> \in Seq(Tickets)
  OBVIOUS
<1>2. Len(<<one>>) = 1 /\ Len(<<two>>) = 1 /\ Len(<<one, two>>) = 2
  OBVIOUS
<1>3. <<one>>[1] = one /\ <<two>>[1] = two /\ <<one, two>>[1] = one /\ <<one, two>>[2] = two
  OBVIOUS
<1>4. /\ <<one>> \o <<two>> \in Seq(Tickets) /\ Len(<<one>> \o <<two>>) = 2
      /\ (<<one>> \o <<two>>)[1] = one /\ (<<one>> \o <<two>>)[2] = two
  BY <1>1, <1>2, <1>3, ConcatProperties
<1>5. \A i \in 1..2 : i = 1 \/ i = 2
  OBVIOUS
<1> QED
  BY <1>1, <1>2, <1>3, <1>4, <1>5, SeqEqual

\* A handler is about to save a chain of versions that starts from the row it read.
LEMMA WriteKeeps ==
  ASSUME IInv, NEW r \in Requests, NEW c \in Convs, Exists(c), UNCHANGED issue,
         NEW rows \in Seq(Tickets), Len(rows) =< 2, Write(r, c, rows),
         \A i \in 1..Len(rows) : Follows(IF i = 1 THEN issue[c] ELSE rows[i - 1], rows[i])
  PROVE  IInv'
<1>0. PICK slot : slot = [Free EXCEPT !.pc = "save", !.c = c, !.row = issue[c], !.writes = rows]
  OBVIOUS
<1>1. /\ slot \in SlotTypes /\ slot.pc = "save" /\ slot.c = c /\ slot.row = issue[c]
      /\ slot.writes = rows
  BY <1>0, FreeIsSlot DEF Free, SlotTypes, IInv, Table
<1>2. Becomes(r, slot) /\ rows # <<>>
  BY <1>0 DEF Write
<1>3. req'[r] = slot
  BY <1>2 DEF IInv, Becomes
<1>4. GoodTicket(issue[c])
  BY DEF IInv, Table, Opened
<1>5. \A i \in 1..Len(rows) : GoodTicket(rows[i]) /\ rows[i].no = issue[c].no
  <2>1. Len(rows) >= 1 => GoodTicket(rows[1]) /\ rows[1].no = issue[c].no
    <3>1. Len(rows) >= 1 => Follows(issue[c], rows[1])
      OBVIOUS
    <3> QED
      BY <1>4, <3>1, FollowsIsGood, FollowsKeepsNumber DEF GoodTicket
  <2>2. Len(rows) >= 2 => GoodTicket(rows[2]) /\ rows[2].no = issue[c].no
    <3>1. Len(rows) >= 2 => Follows(rows[1], rows[2])
      OBVIOUS
    <3> QED
      BY <2>1, <3>1, FollowsIsGood, FollowsKeepsNumber DEF GoodTicket
  <2>3. Len(rows) \in 0..2
    BY AtMostTwo
  <2> QED
    BY <2>1, <2>2, <2>3
<1>6. /\ GoodTicket(issue[c])' /\ issue'[c] = issue[c]
      /\ \A i \in 1..Len(rows) : GoodTicket(rows[i])'
  BY <1>4, <1>5 DEF GoodTicket, CoherentTicket
<1>7. Sound(slot)'
  BY <1>1, <1>5, <1>6 DEF Sound, Before
<1>8. Slot(r)'
  BY <1>1, <1>2, <1>3, <1>7 DEF Slot, Is, Exists
<1> QED
  BY <1>1, <1>2, <1>8, OwnSlotOnly

\* One version to save, or two.
LEMMA WriteOne ==
  ASSUME IInv, NEW r \in Requests, NEW c \in Convs, Exists(c), UNCHANGED issue,
         NEW one, Follows(issue[c], one), Write(r, c, <<one>>)
  PROVE  IInv'
<1>1. GoodTicket(one)
  BY FollowsIsGood DEF IInv, Table, Opened
<1>2. <<one>> \in Seq(Tickets) /\ Len(<<one>>) = 1 /\ <<one>>[1] = one
  BY <1>1 DEF GoodTicket
<1> QED
  BY <1>2, WriteKeeps

LEMMA WriteTwo ==
  ASSUME IInv, NEW r \in Requests, NEW c \in Convs, Exists(c), UNCHANGED issue,
         NEW one, NEW two, Follows(issue[c], one), Follows(one, two), Write(r, c, <<one, two>>)
  PROVE  IInv'
<1>1. GoodTicket(one) /\ GoodTicket(two)
  BY FollowsIsGood DEF IInv, Table, Opened
<1>2. /\ <<one, two>> \in Seq(Tickets) /\ Len(<<one, two>>) = 2
      /\ <<one, two>>[1] = one /\ <<one, two>>[2] = two
  BY <1>1 DEF GoodTicket
<1>3. \A i \in 1..2 : i = 1 \/ (i = 2 /\ i - 1 = 1)
  OBVIOUS
<1>4. \A i \in 1..2 : Follows(IF i = 1 THEN issue[c] ELSE <<one, two>>[i - 1], <<one, two>>[i])
  BY <1>2, <1>3
<1>5. \A i \in 1..Len(<<one, two>>) :
       Follows(IF i = 1 THEN issue[c] ELSE <<one, two>>[i - 1], <<one, two>>[i])
  BY <1>2, <1>4
<1>6. Len(<<one, two>>) =< 2
  BY <1>2
<1> QED
  BY <1>2, <1>5, <1>6, WriteKeeps

LEMMA AgentAcceptWrites ==
  ASSUME IInv, NEW r \in Requests, NEW c \in Convs, NEW u \in Users, AgentAccept(r, c, u)
  PROVE  IInv'
<1> DEFINE row == issue[c]
           taken == TakeOver(row, u)
           worked == Transit(taken, "in_progress")
<1>1. /\ Exists(c) /\ UNCHANGED issue /\ GoodTicket(row)
      /\ Write(r, c, (IF row.assignee # u THEN <<taken>> ELSE <<>>)
                     \o IF row.status = "received" THEN <<worked>> ELSE <<>>)
  BY DEF AgentAccept, OnIssue, TableKept, IInv, Table, Opened
<1>2. Follows(row, taken)
  BY DEF Follows
<1>3. row.status = "received" => Follows(taken, worked)
  <2>1. taken.status = row.status
    BY <1>1 DEF TakeOver, GoodTicket, Tickets
  <2> QED
    BY <2>1 DEF Follows, Allowed, TransitionsFrom, Reopens, Settled, Statuses
<1>4. row.assignee = u => taken = row
  BY <1>1 DEF TakeOver, GoodTicket, Tickets
<1>5. CASE row.assignee # u /\ row.status = "received"
  <2>1. <<taken>> \o <<worked>> = <<taken, worked>>
    <3>1. taken \in Tickets /\ worked \in Tickets
      BY <1>1, <1>2, <1>3, <1>5, FollowsIsGood DEF GoodTicket
    <3> QED
      BY <3>1, OneThenTwo
  <2>2. Write(r, c, <<taken, worked>>)
    BY <1>1, <1>5, <2>1
  <2> QED
    BY <1>1, <1>2, <1>3, <1>5, <2>2, WriteTwo
<1>6. CASE row.assignee # u /\ row.status # "received"
  <2>1. <<taken>> \o <<>> = <<taken>>
    OBVIOUS
  <2>2. Write(r, c, <<taken>>)
    BY <1>1, <1>6, <2>1
  <2> QED
    BY <1>1, <1>2, <2>2, WriteOne
<1>7. CASE row.assignee = u /\ row.status = "received"
  <2>1. <<>> \o <<worked>> = <<worked>>
    OBVIOUS
  <2>2. Write(r, c, <<worked>>)
    BY <1>1, <1>7, <2>1
  <2> QED
    BY <1>1, <1>3, <1>4, <1>7, <2>2, WriteOne
<1>8. CASE row.assignee = u /\ row.status # "received"
  <2>1. <<>> \o <<>> = <<>>
    OBVIOUS
  <2> QED
    BY <1>1, <1>8, <2>1 DEF Write
<1> QED
  BY <1>5, <1>6, <1>7, <1>8

\* Every call of the console and the hooks saves versions that follow from the row it read.
LEMMA ArriveKeeps ==
  ASSUME IInv, NEW r \in Requests, Arrive(r)
  PROVE  IInv'
<1>0. PICK c \in Convs :
    \/ Escalation(r, c) \/ FileIssue(r, c) \/ ConversationEnded(r, c)
    \/ \E u \in Users : AgentAccept(r, c, u) \/ Assign(r, c, u)
                        \/ \E to \in Statuses : Transition(r, c, u, to)
    \/ \E p \in Priorities : SetPriority(r, c, p)
  BY DEF Arrive
<1>1. CASE Escalation(r, c)
  <2>1. CASE Number(r, c)
    BY <1>1, <2>1, NumberKeeps DEF Escalation, TableKept
  <2>2. CASE /\ OnIssue(r, c) /\ Allowed(issue[c], "in_progress")
             /\ Write(r, c, <<Transit(issue[c], "in_progress")>>)
    <3>1. Follows(issue[c], Transit(issue[c], "in_progress"))
      BY <2>2 DEF Follows, Statuses
    <3> QED
      BY <1>1, <2>2, <3>1, WriteOne DEF Escalation, TableKept, OnIssue
  <2> QED
    BY <1>1, <2>1, <2>2 DEF Escalation
<1>2. CASE FileIssue(r, c)
  BY <1>2, NumberKeeps DEF FileIssue, TableKept
<1>3. CASE ConversationEnded(r, c)
  <2> DEFINE row == issue[c]
             settled == SettleByBot(row)
  <2>1. Exists(c) /\ UNCHANGED issue /\ GoodTicket(row)
    BY <1>3 DEF ConversationEnded, OnIssue, TableKept, IInv, Table, Opened
  <2>2. CASE row.status \in {"resolved", "rejected"} /\ Write(r, c, <<Transit(row, "closed")>>)
    <3>1. Allowed(row, "closed")
      BY <2>2 DEF Allowed, TransitionsFrom, Reopens
    <3>2. Follows(row, Transit(row, "closed"))
      BY <3>1 DEF Follows, Statuses
    <3> QED
      BY <2>1, <2>2, <3>2, WriteOne
  <2>3. CASE Untouched(row) /\ Write(r, c, <<settled, Transit(settled, "closed")>>)
    <3>1. Follows(row, settled)
      BY <2>3 DEF Follows
    <3>2. Allowed(settled, "closed")
      BY <2>1, <2>3, SettlingIsClosed
    <3>3. Follows(settled, Transit(settled, "closed"))
      BY <3>2 DEF Follows, Statuses
    <3> QED
      BY <2>1, <2>3, <3>1, <3>3, WriteTwo
  <2> QED
    BY <1>3, <2>2, <2>3 DEF ConversationEnded
<1>4. ASSUME NEW u \in Users, AgentAccept(r, c, u) PROVE IInv'
  BY <1>4, AgentAcceptWrites
<1>5. ASSUME NEW u \in Users, Assign(r, c, u) PROVE IInv'
  <2>1. Follows(issue[c], HandTo(issue[c], u))
    BY DEF Follows
  <2> QED
    BY <1>5, <2>1, WriteOne DEF Assign, OnIssue, TableKept
<1>6. ASSUME NEW u \in Users, NEW to \in Statuses, Transition(r, c, u, to) PROVE IInv'
  <2>1. Allowed(issue[c], to) /\ Write(r, c, <<Transit(issue[c], to)>>)
    BY <1>6 DEF Transition
  <2>2. Follows(issue[c], Transit(issue[c], to))
    BY <2>1 DEF Follows
  <2> QED
    BY <1>6, <2>1, <2>2, WriteOne DEF Transition, OnIssue, TableKept
<1>7. ASSUME NEW p \in Priorities, SetPriority(r, c, p) PROVE IInv'
  <2>1. Follows(issue[c], Prioritise(issue[c], p))
    BY DEF Follows
  <2> QED
    BY <1>7, <2>1, WriteOne DEF SetPriority, OnIssue, TableKept
<1> QED
  BY <1>0, <1>1, <1>2, <1>3, <1>4, <1>5, <1>6, <1>7

-----------------------------------------------------------------------------
(* What the handlers do next.                                               *)

LEMMA ReadMaxKeeps ==
  ASSUME IInv, NEW r \in Requests, ReadMax(r)
  PROVE  IInv'
<1>1. PICK n \in 0..Cardinality(Convs) :
       n \in Numbers \cup {0} /\ Becomes(r, [req[r] EXCEPT !.pc = "insert", !.no = n + 1])
  BY DEF ReadMax
<1>2. n \in 0..Cardinality(Opened)
  BY <1>1, OpenedIsFinite DEF IInv, NumbersAreDense
<1>3. PICK slot : slot = [req[r] EXCEPT !.pc = "insert", !.no = n + 1]
  OBVIOUS
<1>4. /\ slot \in SlotTypes /\ slot.pc = "insert" /\ slot.c = req[r].c /\ slot.no = n + 1
      /\ slot.writes = req[r].writes
  <2>1. n + 1 \in 0..(Cardinality(Convs) + 1)
    BY OpenedIsFinite
  <2> QED
    BY <1>3, <2>1 DEF IInv, SlotTypes
<1>5. UNCHANGED issue /\ req[r].c \in Convs /\ req'[r] = slot /\ req[r].writes = <<>>
  BY <1>1, <1>3 DEF ReadMax, TableKept, IInv, Slot, Is, Becomes
<1>6. Opened' = Opened
  BY <1>5 DEF Opened, Exists
<1>7. Slot(r)'
  <2>1. n + 1 \in 1..(Cardinality(Opened) + 1)
    BY <1>2, OpenedIsFinite
  <2> QED
    BY <1>4, <1>5, <1>6, <2>1 DEF Slot, Is
<1> QED
  BY <1>1, <1>3, <1>4, <1>5, <1>7, OwnSlotOnly

LEMMA InsertRetriesKeeps ==
  ASSUME IInv, NEW r \in Requests, InsertRetries(r)
  PROVE  IInv'
<1>1. PICK slot : slot = [req[r] EXCEPT !.pc = "max", !.lost = @ \cup {req[r].no}]
  OBVIOUS
<1>2. req[r].no \in 1..Cardinality(Convs)
  <2>1. req[r].no \in 1..Cardinality(Opened)
    BY DEF IInv, NumbersAreDense, InsertRetries, NumberTaken
  <2> QED
    BY <2>1, OpenedIsFinite
<1>3. slot \in SlotTypes /\ slot.pc = "max" /\ slot.c = req[r].c /\ slot.writes = req[r].writes
  BY <1>1, <1>2 DEF IInv, SlotTypes
<1>4. /\ UNCHANGED issue /\ req[r].c \in Convs /\ Becomes(r, slot) /\ req'[r] = slot
      /\ req[r].writes = <<>>
  BY <1>1 DEF InsertRetries, TableKept, IInv, Slot, Is, Becomes
<1>5. Slot(r)'
  BY <1>3, <1>4 DEF Slot, Is
<1> QED
  BY <1>3, <1>4, <1>5, OwnSlotOnly

LEMMA InsertKeeps ==
  ASSUME IInv, NEW r \in Requests, Insert(r)
  PROVE  IInv'
<1> DEFINE c == req[r].c
<1>1. /\ c \in Convs /\ c \notin Opened
      /\ Cardinality(Opened') = Cardinality(Opened) + 1
      /\ \A d \in Convs \ {c} : issue'[d] = issue[d]
      /\ Table' /\ NumbersAreDense'
  BY InsertNumbers DEF IInv, Table
<1>2. \A q \in Requests : req'[q] = IF q = r THEN Free ELSE req[q]
  BY DEF IInv, Insert, Finish, Becomes
<1>3. req' \in [Requests -> SlotTypes]
  BY FreeIsSlot DEF IInv, Insert, Finish, Becomes
<1>4. Slot(r)'
  BY <1>2, FreeIsSlot DEF Slot, Is
<1>5. ASSUME NEW q \in Requests \ {r} PROVE Slot(q)'
  <2>1. Slot(q) /\ req'[q] = req[q]
    BY <1>2 DEF IInv
  <2>2. Is(q, "insert") => req[q].no \in 1..(Cardinality(Opened') + 1)
    BY <1>1, <2>1, OpenedIsFinite DEF Slot
  <2>3. CASE Is(q, "save")
    <3>1. req[q].c \in Convs \ {c} /\ issue'[req[q].c] = issue[req[q].c]
      BY <1>1, <2>1, <2>3 DEF Slot, Is, Opened
    <3>2. Sound(req[q])'
      BY <2>1, <2>3, <3>1 DEF Slot, Sound
    <3> QED
      BY <2>1, <2>3, <3>1, <3>2 DEF Slot, Is, Exists
  <2> QED
    BY <2>1, <2>2, <2>3 DEF Slot, Is
<1> QED
  BY <1>1, <1>3, <1>4, <1>5 DEF IInv

\* What a save leaves in the table, and what is left of it.
LEMMA SaveRow ==
  ASSUME IInv, NEW r \in Requests, Save(r)
  PROVE  LET c == req[r].c
             row == req[r].writes[1] IN
         /\ c \in Convs /\ Exists(c) /\ GoodTicket(row) /\ row.no = issue[c].no
         /\ Follows(req[r].row, row)
         /\ issue' = [issue EXCEPT ![c] = row]
<1>1. Is(r, "save") /\ Slot(r)
  BY DEF Save, IInv
<1>2. req[r].c \in Convs /\ Exists(req[r].c) /\ req[r].writes # <<>> /\ Sound(req[r])
  BY <1>1 DEF Slot, Is
<1>3. req[r].writes \in Seq(Tickets) /\ 1 \in 1..Len(req[r].writes)
  BY <1>2 DEF Sound
<1>4. Head(req[r].writes) = req[r].writes[1]
  BY <1>2, <1>3
<1>5. Before(req[r], 1) = req[r].row
  BY DEF Before
<1> QED
  BY <1>2, <1>3, <1>4, <1>5 DEF Save, Sound

LEMMA SaveKeeps ==
  ASSUME IInv, NEW r \in Requests, Save(r)
  PROVE  IInv'
<1> DEFINE c == req[r].c
           old == req[r].writes
           row == old[1]
<1>1. /\ c \in Convs /\ Exists(c) /\ GoodTicket(row) /\ row.no = issue[c].no
      /\ issue' = [issue EXCEPT ![c] = row]
  BY SaveRow
<1>2. /\ Table' /\ NumbersAreDense' /\ Opened' = Opened
      /\ \A d \in Convs : Exists(d) => Exists(d)' /\ issue'[d].no = issue[d].no
  BY <1>1, SavingKeepsNumbers
<1>3. Sound(req[r]) /\ Slot(r) /\ old \in Seq(Tickets) /\ old # <<>>
  BY DEF Save, IInv, Slot, Sound
<1>4. PICK slot : /\ slot \in SlotTypes /\ Becomes(r, slot)
                  /\ \/ slot = Free
                     \/ Tail(old) # <<>> /\ slot = [req[r] EXCEPT !.row = row, !.writes = Tail(old)]
  <2>1. CASE Tail(old) = <<>>
    BY <2>1, FreeIsSlot DEF Save, Finish
  <2>2. CASE Tail(old) # <<>>
    <3>1. Tail(old) \in Seq(Tickets) /\ Head(old) = row
      BY <1>3
    <3>2. [req[r] EXCEPT !.row = row, !.writes = Tail(old)] \in SlotTypes
      <4>1. req[r] \in SlotTypes /\ row \in Tickets \cup {NoIssue}
        BY <1>1 DEF IInv, GoodTicket
      <4> HIDE DEF old, row
      <4> QED
        BY <3>1, <4>1 DEF SlotTypes
    <3> QED
      BY <2>2, <3>1, <3>2 DEF Save
  <2> QED
    BY <2>1, <2>2
<1>5. \A q \in Requests : req'[q] = IF q = r THEN slot ELSE req[q]
  BY <1>4 DEF IInv, Becomes
<1>6. req' \in [Requests -> SlotTypes]
  BY <1>4 DEF IInv, Becomes
<1>7. ASSUME NEW q \in Requests \ {r} PROVE Slot(q)'
  <2>1. Slot(q) /\ req'[q] = req[q]
    BY <1>5 DEF IInv
  <2>2. CASE Is(q, "save")
    <3>1. req[q].c \in Convs /\ Exists(req[q].c)' /\ issue'[req[q].c].no = issue[req[q].c].no
      BY <1>2, <2>1, <2>2 DEF Slot, Is
    <3>2. Sound(req[q])'
      BY <2>1, <2>2, <3>1 DEF Slot, Sound
    <3> QED
      BY <2>1, <2>2, <3>1, <3>2 DEF Slot, Is
  <2> QED
    BY <1>2, <2>1, <2>2 DEF Slot, Is
<1>8. Slot(r)'
  <2>1. CASE slot = Free
    BY <1>5, <2>1, FreeIsSlot DEF Slot, Is
  <2>2. CASE Tail(old) # <<>> /\ slot = [req[r] EXCEPT !.row = row, !.writes = Tail(old)]
    <3>1. /\ slot.pc = "save" /\ slot.c = c /\ slot.row = row /\ slot.writes = Tail(old)
      BY <2>2 DEF IInv, SlotTypes, Save, Is
    <3>2. /\ Tail(old) \in Seq(Tickets) /\ Len(old) \in Nat /\ Len(Tail(old)) = Len(old) - 1
          /\ \A i \in 1..Len(Tail(old)) : i + 1 \in 1..Len(old) /\ Tail(old)[i] = old[i + 1]
      BY <1>3, HeadTailProperties
    <3>3. ASSUME NEW i \in 1..Len(slot.writes)
          PROVE  /\ GoodTicket(slot.writes[i])
                 /\ slot.writes[i].no = issue[c].no
                 /\ Follows(Before(slot, i), slot.writes[i])
      <4>1. /\ i + 1 \in 1..Len(old) /\ slot.writes[i] = old[i + 1] /\ i + 1 # 1 /\ i \in Nat
        BY <3>1, <3>2
      <4>2. Before(req[r], i + 1) = old[i]
        BY <4>1 DEF Before
      <4>3. Before(slot, i) = old[i]
        <5>1. CASE i = 1
          BY <3>1, <5>1 DEF Before
        <5>2. CASE i # 1
          <6>1. i - 1 \in 1..Len(Tail(old))
            BY <3>1, <5>2, <4>1, <3>2
          <6> QED
            BY <3>1, <3>2, <5>2, <6>1 DEF Before
        <5> QED
          BY <5>1, <5>2
      <4> QED
        BY <1>3, <4>1, <4>2, <4>3 DEF Sound
    <3>4. /\ issue'[c].no = issue[c].no /\ issue'[c] # NoIssue
      BY <1>1, <1>2 DEF Exists
    <3>5. Sound(slot)'
      BY <1>1, <3>1, <3>2, <3>3, <3>4 DEF Sound, Before, GoodTicket
    <3> QED
      BY <1>1, <1>4, <1>5, <2>2, <3>1, <3>4, <3>5 DEF Slot, Is, Exists
  <2> QED
    BY <1>4, <2>1, <2>2
<1> QED
  BY <1>2, <1>6, <1>7, <1>8 DEF IInv

\* The invariant, and what it says.
THEOREM Invariant == Spec => []IInv
<1>1. Init => IInv
  <2> SUFFICES ASSUME Init PROVE IInv
    OBVIOUS
  <2>1. Table /\ Opened = {} /\ Numbers = {}
    BY DEF Init, Table, Opened, Exists, Numbers
  <2>2. NumbersAreDense
    <3>1. Cardinality(Opened) = 0
      BY <2>1, FS_EmptySet
    <3>2. 1..0 = {}
      OBVIOUS
    <3> QED
      BY <2>1, <3>1, <3>2 DEF NumbersAreDense
  <2>3. \A r \in Requests : req[r] = Free
    BY DEF Init
  <2>4. req \in [Requests -> SlotTypes] /\ \A r \in Requests : Slot(r)
    BY <2>3, FreeIsSlot DEF Init, Slot, Is
  <2> QED
    BY <2>1, <2>2, <2>4 DEF IInv
<1>2. IInv /\ [Next]_vars => IInv'
  <2> SUFFICES ASSUME IInv, [Next]_vars PROVE IInv'
    OBVIOUS
  <2>1. ASSUME NEW r \in Requests, Arrive(r) PROVE IInv'
    BY <2>1, ArriveKeeps
  <2>2. ASSUME NEW r \in Requests, Continue(r) PROVE IInv'
    <3>1. CASE ReadMax(r)
      BY <3>1, ReadMaxKeeps
    <3>2. CASE Insert(r)
      BY <3>2, InsertKeeps
    <3>3. CASE InsertFindsIssue(r) \/ InsertGivesUp(r)
      BY <3>3, FinishKeeps DEF InsertFindsIssue, InsertGivesUp, TableKept
    <3>4. CASE InsertRetries(r)
      BY <3>4, InsertRetriesKeeps
    <3>5. CASE Save(r)
      BY <3>5, SaveKeeps
    <3> QED
      BY <2>2, <3>1, <3>2, <3>3, <3>4, <3>5 DEF Continue
  <2>3. CASE UNCHANGED vars
    <3>1. issue' = issue /\ req' = req
      BY <2>3 DEF vars
    <3>2. Table' /\ NumbersAreDense' /\ Opened' = Opened
      BY <3>1 DEF IInv, Table, NumbersAreDense, Numbers, Opened, Exists
    <3>3. \A r \in Requests : Slot(r)'
      BY <3>1, <3>2 DEF IInv, Slot, Is, Exists, Sound
    <3> QED
      BY <3>1, <3>2, <3>3 DEF IInv
  <2> QED
    BY <2>1, <2>2, <2>3 DEF Next
<1> QED
  BY <1>1, <1>2, PTL DEF Spec

\* No handler in flight writes a row that is not in the table, or for an issue
\* that was never opened.
THEOREM TypeCorrect == Spec => []TypeOK
<1>1. IInv => TypeOK
  <2> SUFFICES ASSUME IInv PROVE TypeOK
    OBVIOUS
  <2>1. ASSUME NEW r \in Requests
        PROVE  /\ ~Is(r, "free") => req[r].c \in Convs
               /\ Is(r, "insert") => req[r].no # 0
               /\ Is(r, "save") => Exists(req[r].c) /\ req[r].row # NoIssue /\ req[r].writes # <<>>
    <3>1. Slot(r)
      BY DEF IInv
    <3>2. Is(r, "insert") => req[r].no # 0
      BY <3>1, OpenedIsFinite DEF Slot
    <3>3. Is(r, "save") => req[r].row # NoIssue
      <4>1. \A row \in Tickets : row # NoIssue
        <5>1. \A row \in Tickets : row.no # 0
          BY OpenedIsFinite DEF Tickets
        <5> QED
          BY <5>1 DEF NoIssue
      <4> QED
        BY <3>1, <4>1 DEF Slot, Sound, GoodTicket
    <3> QED
      BY <3>1, <3>2, <3>3 DEF Slot
  <2> QED
    BY <2>1 DEF IInv, Table, TypeOK
<1> QED
  BY <1>1, Invariant, PTL

\* The numbers of a tenant's issues are 1, 2, 3... through any race.
THEOREM DenseNumbers == Spec => []NumbersAreDense
<1>1. IInv => NumbersAreDense
  BY DEF IInv
<1> QED
  BY <1>1, Invariant, PTL

-----------------------------------------------------------------------------
(* What a promotion has lost: at most one number, one that an issue now     *)
(* has, and lower than the one it tries next.                               *)
Lost(slot, n) ==
  /\ slot.lost \subseteq 1..n
  /\ slot.lost = {} \/ \E a : slot.lost = {a}
  /\ slot.pc = "insert" => \A a \in slot.lost : a < slot.no

Losses == \A r \in Requests : Lost(req[r], Cardinality(Opened))

\* Issues are never deleted, so a number that was lost stays lost.
LEMMA LostStays ==
  ASSUME NEW slot, NEW n \in Nat, NEW m \in Nat, n =< m, Lost(slot, n)
  PROVE  Lost(slot, m)
<1>1. 1..n \subseteq 1..m
  OBVIOUS
<1> QED
  BY <1>1 DEF Lost

\* What one step makes of the losses of its own handler.
LEMMA StepLost ==
  ASSUME IInv, Losses, NEW r \in Requests, Arrive(r) \/ Continue(r)
  PROVE  Lost(req'[r], Cardinality(Opened)) /\ \A q \in Requests \ {r} : req'[q] = req[q]
<1>0. /\ Lost(req[r], Cardinality(Opened)) /\ req[r] \in SlotTypes /\ req \in [Requests -> SlotTypes]
      /\ Cardinality(Opened) \in Nat
  BY OpenedIsFinite DEF Losses, IInv
<1>1. ASSUME NEW slot, Becomes(r, slot), Lost(slot, Cardinality(Opened))
      PROVE  Lost(req'[r], Cardinality(Opened)) /\ \A q \in Requests \ {r} : req'[q] = req[q]
  BY <1>1, BecomesSlot
<1>2. ASSUME NEW slot, slot.lost = {}
      PROVE  Lost(slot, Cardinality(Opened))
  BY <1>2 DEF Lost
<1>3. CASE Arrive(r)
  <2>1. PICK c, rows :
          \/ Becomes(r, [Free EXCEPT !.pc = "max", !.c = c])
          \/ Becomes(r, [Free EXCEPT !.pc = "save", !.c = c, !.row = issue[c], !.writes = rows])
    BY ZenonT(30), <1>3 DEF Arrive, Escalation, FileIssue, ConversationEnded, AgentAccept, Assign,
                Transition, SetPriority, Number, Write
  <2>2. /\ [Free EXCEPT !.pc = "max", !.c = c].lost = {}
        /\ [Free EXCEPT !.pc = "save", !.c = c, !.row = issue[c], !.writes = rows].lost = {}
    BY DEF Free
  <2> QED
    BY <1>1, <1>2, <2>1, <2>2
<1>4. CASE ReadMax(r)
  <2>1. PICK n \in 0..Cardinality(Convs) :
          /\ n \in Numbers \cup {0} /\ \A m \in Numbers : m <= n
          /\ Becomes(r, [req[r] EXCEPT !.pc = "insert", !.no = n + 1])
    BY <1>4 DEF ReadMax
  <2>2. PICK slot : slot = [req[r] EXCEPT !.pc = "insert", !.no = n + 1]
    OBVIOUS
  <2>3. slot.lost = req[r].lost /\ slot.no = n + 1
    BY <1>0, <2>2 DEF SlotTypes
  <2>4. \A a \in req[r].lost : a < n + 1
    <3>1. req[r].lost \subseteq Numbers /\ req[r].lost \subseteq Nat
      BY <1>0 DEF Lost, IInv, NumbersAreDense
    <3>2. \A a \in req[r].lost : a <= n /\ a \in Nat /\ n \in Nat
      BY <2>1, <3>1, OpenedIsFinite
    <3>3. \A a, b \in Nat : a <= b => a < b + 1
      OBVIOUS
    <3> QED
      BY <3>2, <3>3
  <2>5. Lost(slot, Cardinality(Opened))
    BY <1>0, <2>3, <2>4 DEF Lost
  <2> QED
    BY <1>1, <2>1, <2>2, <2>5
<1>5. CASE Insert(r) \/ InsertFindsIssue(r) \/ InsertGivesUp(r)
  BY <1>1, <1>2, <1>5 DEF Insert, InsertFindsIssue, InsertGivesUp, Finish, Free
<1>6. CASE InsertRetries(r)
  <2>1. PICK slot : slot = [req[r] EXCEPT !.pc = "max", !.lost = @ \cup {req[r].no}]
    OBVIOUS
  <2>2. slot.pc = "max" /\ slot.lost = {req[r].no} /\ req[r].no \in 1..Cardinality(Opened)
    BY <1>0, <1>6, <2>1 DEF InsertRetries, LastAttempt, NumberTaken, IInv, NumbersAreDense, SlotTypes
  <2>3. Lost(slot, Cardinality(Opened))
    BY <2>2 DEF Lost
  <2> QED
    BY <1>1, <1>6, <2>1, <2>3 DEF InsertRetries
<1>7. CASE Save(r)
  <2>1. PICK row, rest : \/ Becomes(r, Free)
                         \/ Becomes(r, [req[r] EXCEPT !.row = row, !.writes = rest])
    BY <1>7 DEF Save, Finish
  <2>2. PICK slot : slot = [req[r] EXCEPT !.row = row, !.writes = rest]
    OBVIOUS
  <2>3. slot.lost = req[r].lost /\ slot.pc = "save"
    BY <1>0, <1>7, <2>2 DEF SlotTypes, Save, Is
  <2>4. Lost(slot, Cardinality(Opened)) /\ Free.lost = {}
    BY <1>0, <2>3 DEF Lost, Free
  <2> QED
    BY <1>1, <1>2, <2>1, <2>2, <2>4
<1> QED
  BY <1>3, <1>4, <1>5, <1>6, <1>7 DEF Continue

LEMMA IssuesStay ==
  ASSUME IInv, [Next]_vars
  PROVE  Cardinality(Opened) \in Nat /\ Cardinality(Opened') \in Nat
         /\ Cardinality(Opened) =< Cardinality(Opened')
<1>1. ASSUME NEW r \in Requests, Insert(r)
      PROVE  Cardinality(Opened') = Cardinality(Opened) + 1
  BY <1>1, InsertNumbers
<1>2. ASSUME NEW r \in Requests, Save(r)
      PROVE  Opened' = Opened
  BY <1>2, SaveRow, SavingKeepsNumbers
<1>3. ASSUME NEW r \in Requests, Arrive(r)
      PROVE  UNCHANGED issue
  BY <1>3 DEF Arrive, TableKept, Escalation, FileIssue, ConversationEnded, AgentAccept, Assign,
              Transition, SetPriority
<1>4. UNCHANGED issue => Opened' = Opened
  BY DEF Opened, Exists
<1>5. Opened' = Opened \/ Cardinality(Opened') = Cardinality(Opened) + 1
  BY <1>1, <1>2, <1>3, <1>4
     DEF Next, vars, Continue, TableKept, ReadMax, InsertFindsIssue, InsertRetries, InsertGivesUp
<1> QED
  BY <1>5, OpenedIsFinite

THEOREM LossesAlways == Spec => []Losses
<1>1. Init => Losses
  <2> SUFFICES ASSUME Init PROVE Losses
    OBVIOUS
  <2>1. \A r \in Requests : req[r] = Free
    BY DEF Init
  <2> QED
    BY <2>1 DEF Losses, Lost, Free
<1>2. IInv /\ Losses /\ [Next]_vars => Losses'
  <2> SUFFICES ASSUME IInv, Losses, [Next]_vars PROVE Losses'
    OBVIOUS
  <2>1. ASSUME NEW q \in Requests, Lost(req'[q], Cardinality(Opened))
        PROVE  Lost(req'[q], Cardinality(Opened'))
    BY <2>1, IssuesStay, LostStays
  <2>2. CASE UNCHANGED vars
    BY <2>1, <2>2 DEF vars, Losses
  <2>3. ASSUME NEW r \in Requests, Arrive(r) \/ Continue(r)
        PROVE  \A q \in Requests : Lost(req'[q], Cardinality(Opened))
    BY <2>3, StepLost DEF Losses
  <2> QED
    BY <2>1, <2>2, <2>3 DEF Next, Losses
<1> QED
  BY <1>1, <1>2, Invariant, PTL DEF Spec

\* A promotion that fails while its conversation has no issue has lost two
\* different numbers to other issues: the one retry is never spent on its own.
THEOREM GivesUpCrowded == Spec => GivesUpOnlyWhenCrowded
<1>1. ASSUME IInv, Losses, NEW r \in Requests, InsertGivesUp(r)
      PROVE  Cardinality(Numbers \cap (req[r].lost \cup {req[r].no})) = 2
  <2>1. /\ Is(r, "insert") /\ req[r].no \in Numbers /\ req[r].lost # {}
        /\ Lost(req[r], Cardinality(Opened))
    BY <1>1 DEF InsertGivesUp, NumberTaken, LastAttempt, Losses
  <2>2. PICK a : req[r].lost = {a}
    BY <2>1 DEF Lost
  <2>3. a \in Numbers /\ a # req[r].no
    BY <1>1, <2>1, <2>2, OpenedIsFinite DEF Lost, Is, IInv, NumbersAreDense
  <2>4. Numbers \cap (req[r].lost \cup {req[r].no}) = {a} \cup {req[r].no}
    BY <2>1, <2>2, <2>3
  <2>5. Cardinality({a}) = 1 /\ IsFiniteSet({a}) /\ req[r].no \notin {a}
    BY <2>3, FS_Singleton
  <2>6. Cardinality({a} \cup {req[r].no}) = Cardinality({a}) + 1
    BY <2>5, FS_AddElement
  <2> QED
    BY <2>4, <2>5, <2>6
<1>2. IInv /\ Losses /\ [Next]_vars
        => [\A r \in Requests : InsertGivesUp(r) /\ ~Exists(req[r].c)
              => Cardinality(Numbers \cap (req[r].lost \cup {req[r].no})) = 2]_vars
  BY <1>1
<1> QED
  BY <1>2, Invariant, LossesAlways, PTL DEF Spec, GivesUpOnlyWhenCrowded

-----------------------------------------------------------------------------
LEMMA LiveRows ==
  \A c \in Convs : \A row :
    row \in Live[c] <=> \/ Exists(c) /\ row = issue[c]
                       \/ \E q \in Requests : Is(q, "save") /\ req[q].c = c /\ row = req[q].row
  BY DEF Live, Exists

\* No version of an issue, stored, read or about to be stored, is torn.
THEOREM Coherent == Spec => []TicketsAreCoherent
<1>1. IInv => TicketsAreCoherent
  <2> SUFFICES ASSUME IInv PROVE TicketsAreCoherent
    OBVIOUS
  <2>1. ASSUME NEW c \in Convs, NEW row \in Live[c] PROVE CoherentTicket(row)
    <3>1. CASE Exists(c) /\ row = issue[c]
      BY <3>1 DEF IInv, Table, Opened, GoodTicket
    <3>2. CASE \E q \in Requests : Is(q, "save") /\ req[q].c = c /\ row = req[q].row
      BY <3>2 DEF IInv, Slot, Sound, GoodTicket
    <3> QED
      BY <2>1, <3>1, <3>2, LiveRows
  <2>2. ASSUME NEW r \in Requests, NEW i \in DOMAIN req[r].writes
        PROVE  CoherentTicket(req[r].writes[i])
    <3>1. Slot(r)
      BY DEF IInv
    <3>2. Is(r, "save")
      <4>1. DOMAIN <<>> = {}
        OBVIOUS
      <4> QED
        BY <2>2, <3>1, <4>1 DEF Slot
    <3>3. req[r].writes \in Seq(Tickets) /\ i \in 1..Len(req[r].writes)
      BY <2>2, <3>1, <3>2 DEF Slot, Sound
    <3> QED
      BY <3>1, <3>2, <3>3 DEF Slot, Sound, GoodTicket
  <2> QED
    BY <2>1, <2>2 DEF TicketsAreCoherent
<1> QED
  BY <1>1, Invariant, PTL

-----------------------------------------------------------------------------
(* The refinement: the table and its handlers' versions are the history.    *)

LEMMA SameRows ==
  /\ History!NoIssue = NoIssue
  /\ \A n : History!Fresh(n) = Fresh(n)
  /\ \A old, new : Follows(old, new) => History!Follows(old, new)
<1>1. /\ History!NoIssue = NoIssue
      /\ \A n : History!Fresh(n) = Fresh(n)
  BY DEF History!NoIssue, NoIssue, History!Fresh, Fresh
<1>2. /\ History!Statuses = Statuses
      /\ \A row, to : Allowed(row, to) = History!Allowed(row, to)
      /\ \A row, to : Transit(row, to) = History!Transit(row, to)
  BY Zenon DEF History!Statuses, Statuses, History!Allowed, Allowed, History!Transit, Transit,
     History!Reopens, Reopens, History!Settled, Settled, History!TransitionsFrom, TransitionsFrom
<1>3. /\ \A row : Untouched(row) = History!Untouched(row)
      /\ \A row, u : TakeOver(row, u) = History!TakeOver(row, u)
      /\ \A row, u : HandTo(row, u) = History!HandTo(row, u)
      /\ \A row, p : Prioritise(row, p) = History!Prioritise(row, p)
  BY Zenon DEF History!Untouched, Untouched, History!TakeOver, TakeOver, History!HandTo, HandTo,
     History!Prioritise, Prioritise
<1>4. \A row : SettleByBot(row) = History!SettleByBot(row)
  BY <1>2 DEF History!SettleByBot, SettleByBot
<1>5. \A old, new : Follows(old, new) => History!Follows(old, new)
  BY <1>2, <1>3, <1>4 DEF Follows, History!Follows
<1> QED
  BY <1>1, <1>5

LEMMA SameCount == History!Cardinality(History!Opened) = Cardinality(Opened)
<1>1. \A S : History!Cardinality(S) = Cardinality(S)
  BY DEF History!Cardinality, Cardinality
<1>2. History!Opened = Opened
  BY SameRows DEF History!Opened, Opened, Exists
<1> QED
  BY <1>1, <1>2

\* Two tables of live versions are the same if they have the same versions.
LEMMA LiveIsKept ==
  ASSUME \A c \in Convs : \A row : row \in Live'[c] <=> row \in Live[c]
  PROVE  Live' = Live
<1>1. Live' = [c \in Convs |-> Live'[c]] /\ Live = [c \in Convs |-> Live[c]]
  BY DEF Live
<1>2. \A c \in Convs : Live'[c] = Live[c]
  OBVIOUS
<1> QED
  BY <1>1, <1>2

LEMMA LiveRowsNext ==
  \A c \in Convs : \A row :
    row \in Live'[c] <=> \/ issue'[c] # NoIssue /\ row = issue'[c]
                        \/ \E q \in Requests : req'[q].pc = "save" /\ req'[q].c = c /\ row = req'[q].row
  BY DEF Live, Is

\* A call that reads a row adds no version that was not there.
LEMMA ReadingStutters ==
  ASSUME NEW r \in Requests, UNCHANGED issue, ~Is(r, "save"),
         \A q \in Requests \ {r} : req'[q] = req[q],
         req'[r].pc = "save" => Exists(req'[r].c) /\ req'[r].row = issue[req'[r].c]
  PROVE  UNCHANGED History!vars
<1>1. ASSUME NEW c \in Convs, NEW row PROVE row \in Live'[c] <=> row \in Live[c]
  <2>1. ASSUME row \in Live'[c] PROVE row \in Live[c]
    <3>1. CASE issue'[c] # NoIssue /\ row = issue'[c]
      BY <3>1, LiveRows DEF Exists
    <3>2. ASSUME NEW q \in Requests, req'[q].pc = "save", req'[q].c = c, row = req'[q].row
          PROVE  row \in Live[c]
      <4>1. CASE q = r
        BY <3>2, <4>1, LiveRows
      <4>2. CASE q # r
        BY <3>2, <4>2, LiveRows DEF Is
      <4> QED
        BY <4>1, <4>2
    <3> QED
      BY <2>1, <3>1, <3>2, LiveRowsNext
  <2>2. ASSUME row \in Live[c] PROVE row \in Live'[c]
    <3>1. CASE Exists(c) /\ row = issue[c]
      BY <3>1, LiveRowsNext DEF Exists
    <3>2. ASSUME NEW q \in Requests, Is(q, "save"), req[q].c = c, row = req[q].row
          PROVE  row \in Live'[c]
      BY <3>2, LiveRowsNext DEF Is
    <3> QED
      BY <2>2, <3>1, <3>2, LiveRows
  <2> QED
    BY <2>1, <2>2
<1> QED
  BY <1>1, LiveIsKept DEF History!vars

LEMMA NumberStutters ==
  ASSUME IInv, NEW r \in Requests, NEW c \in Convs, Number(r, c), UNCHANGED issue, ~Is(r, "save")
  PROVE  UNCHANGED History!vars
<1>1. /\ req'[r] = [Free EXCEPT !.pc = "max", !.c = c]
      /\ \A q \in Requests \ {r} : req'[q] = req[q]
  BY BecomesSlot DEF Number
<1>2. req'[r].pc = "max"
  BY <1>1 DEF Free
<1> QED
  BY <1>1, <1>2, ReadingStutters

LEMMA WriteStutters ==
  ASSUME IInv, NEW r \in Requests, NEW c \in Convs, NEW rows, Write(r, c, rows), OnIssue(r, c),
         UNCHANGED issue
  PROVE  UNCHANGED History!vars
<1>1. /\ req'[r] = [Free EXCEPT !.pc = "save", !.c = c, !.row = issue[c], !.writes = rows]
      /\ \A q \in Requests \ {r} : req'[q] = req[q]
  BY BecomesSlot DEF Write
<1>2. req'[r].c = c /\ req'[r].row = issue[c]
  BY <1>1 DEF Free
<1> QED
  BY <1>1, <1>2, ReadingStutters DEF OnIssue, Is

LEMMA ArriveStutters ==
  ASSUME IInv, NEW r \in Requests, Arrive(r)
  PROVE  UNCHANGED History!vars
<1>1. PICK c \in Convs :
    \/ Escalation(r, c) \/ FileIssue(r, c) \/ ConversationEnded(r, c)
    \/ \E u \in Users : AgentAccept(r, c, u) \/ Assign(r, c, u)
                        \/ \E to \in Statuses : Transition(r, c, u, to)
    \/ \E p \in Priorities : SetPriority(r, c, p)
  BY DEF Arrive
<1>2. Is(r, "free") => ~Is(r, "save")
  BY DEF Is
<1>3. CASE Escalation(r, c) \/ FileIssue(r, c)
  BY <1>2, <1>3, NumberStutters, WriteStutters DEF Escalation, FileIssue, TableKept
<1>4. CASE ConversationEnded(r, c)
  BY <1>4, WriteStutters DEF ConversationEnded, TableKept
<1>5. ASSUME NEW u \in Users, AgentAccept(r, c, u) \/ Assign(r, c, u)
      PROVE  UNCHANGED History!vars
  BY <1>5, WriteStutters DEF AgentAccept, Assign, TableKept
<1>6. ASSUME NEW u \in Users, NEW to \in Statuses, Transition(r, c, u, to)
      PROVE  UNCHANGED History!vars
  BY <1>6, WriteStutters DEF Transition, TableKept
<1>7. ASSUME NEW p \in Priorities, SetPriority(r, c, p)
      PROVE  UNCHANGED History!vars
  BY <1>7, WriteStutters DEF SetPriority, TableKept
<1> QED
  BY <1>1, <1>3, <1>4, <1>5, <1>6, <1>7

\* So is a promotion that has not inserted its issue, or never will.
LEMMA PromotionStutters ==
  ASSUME IInv, NEW r \in Requests,
         ReadMax(r) \/ InsertFindsIssue(r) \/ InsertRetries(r) \/ InsertGivesUp(r)
  PROVE  UNCHANGED History!vars
<1>1. UNCHANGED issue /\ ~Is(r, "save")
  BY DEF ReadMax, InsertFindsIssue, InsertRetries, InsertGivesUp, TableKept, Is
<1>2. PICK slot : Becomes(r, slot) /\ slot.pc # "save"
  <2>1. req[r] \in SlotTypes
    BY DEF IInv
  <2>3. CASE InsertFindsIssue(r) \/ InsertGivesUp(r)
    BY <2>3 DEF InsertFindsIssue, InsertGivesUp, Finish, Free
  <2>4. CASE ReadMax(r)
    <3>1. PICK n : Becomes(r, [req[r] EXCEPT !.pc = "insert", !.no = n + 1])
      BY <2>4 DEF ReadMax
    <3>2. [req[r] EXCEPT !.pc = "insert", !.no = n + 1].pc = "insert"
      BY <2>1 DEF SlotTypes
    <3> QED
      BY <3>1, <3>2
  <2>5. CASE InsertRetries(r)
    <3>1. [req[r] EXCEPT !.pc = "max", !.lost = @ \cup {req[r].no}].pc = "max"
      BY <2>1 DEF SlotTypes
    <3> QED
      BY <2>5, <3>1 DEF InsertRetries
  <2> QED
    BY <2>3, <2>4, <2>5
<1>3. req'[r] = slot /\ \A q \in Requests \ {r} : req'[q] = req[q]
  BY <1>2, BecomesSlot
<1> QED
  BY <1>1, <1>2, <1>3, ReadingStutters

\* Inserting an issue opens it in the history.
LEMMA InsertOpens ==
  ASSUME IInv, NEW r \in Requests, Insert(r)
  PROVE  History!Open(req[r].c)
<1>0. PICK c \in Convs : c = req[r].c /\ ~Exists(c)
  BY DEF IInv, Slot, Insert, Is
<1> DEFINE row == Fresh(Cardinality(Opened) + 1)
<1>1. /\ issue' = [issue EXCEPT ![c] = row]
      /\ issue \in [Convs -> Tickets \cup {NoIssue}]
  BY <1>0, InsertNumbers DEF IInv, Table
<1>2. row # NoIssue
  BY OpenedIsFinite DEF Fresh, NoIssue
<1> HIDE DEF row
<1>3. \A q \in Requests : req'[q] = IF q = r THEN Free ELSE req[q]
  BY DEF IInv, Insert, Finish, Becomes
<1>4. \A q \in Requests : Is(q, "save") => req[q].c # c
  BY <1>0 DEF IInv, Slot
<1>5. \A q \in Requests : req'[q].pc = "save" <=> Is(q, "save")
  BY <1>3, FreeIsSlot DEF Is, Insert
<1>6. \A d \in Convs : \A x : x \in Live'[d] <=> x \in IF d = c THEN {row} ELSE Live[d]
  <2>1. ASSUME NEW x PROVE x \in Live'[c] <=> x = row
    <3>1. issue'[c] = row
      BY <1>1
    <3>2. ~\E q \in Requests : req'[q].pc = "save" /\ req'[q].c = c
      <4>1. ~Is(r, "save")
        BY DEF Insert, Is
      <4> QED
        BY <1>3, <1>4, <1>5, <4>1
    <3> QED
      BY <1>2, <3>1, <3>2, LiveRowsNext
  <2>2. ASSUME NEW d \in Convs \ {c}, NEW x PROVE x \in Live'[d] <=> x \in Live[d]
    <3>1. issue'[d] = issue[d]
      BY <1>1
    <3>2. \A q \in Requests :
             req'[q].pc = "save" /\ req'[q].c = d /\ x = req'[q].row
             <=> Is(q, "save") /\ req[q].c = d /\ x = req[q].row
      BY <1>3, <1>5 DEF Is, Insert
    <3> QED
      BY <3>1, <3>2, LiveRows, LiveRowsNext DEF Exists
  <2> QED
    BY <2>1, <2>2
<1>7. Live' = [Live EXCEPT ![c] = {issue'[c]}]
  <2>1. Live' = [d \in Convs |-> Live'[d]] /\ Live = [d \in Convs |-> Live[d]]
    BY DEF Live
  <2>2. \A d \in Convs : Live'[d] = IF d = c THEN {row} ELSE Live[d]
    BY <1>6
  <2>3. issue'[c] = row
    BY <1>1
  <2> QED
    BY <2>1, <2>2, <2>3
<1>8. issue' = [issue EXCEPT ![c] = History!Fresh(History!Cardinality(History!Opened) + 1)]
  BY <1>1, SameRows, SameCount DEF row
<1>9. issue[c] = History!NoIssue
  BY <1>0, SameRows DEF Exists
<1> QED
  BY <1>0, <1>7, <1>8, <1>9 DEF History!Open

\* Saving a version revises the issue from the version the handler started from.
LEMMA SaveRevises ==
  ASSUME IInv, NEW r \in Requests, Save(r)
  PROVE  History!Revise(req[r].c)
<1>0. PICK c \in Convs : c = req[r].c
  BY SaveRow
<1>1. PICK row : row = req[r].writes[1]
  OBVIOUS
<1>2. /\ row # NoIssue /\ Follows(req[r].row, row)
      /\ issue' = [issue EXCEPT ![c] = row]
      /\ issue \in [Convs -> Tickets \cup {NoIssue}]
  <2>1. row # NoIssue
    <3>1. row.no \in 1..Cardinality(Convs)
      BY <1>1, SaveRow DEF GoodTicket, Tickets
    <3> QED
      BY <3>1, OpenedIsFinite DEF NoIssue
  <2> QED
    BY <1>0, <1>1, <2>1, SaveRow DEF IInv, Table
<1>3. issue'[c] = row /\ \A d \in Convs \ {c} : issue'[d] = issue[d]
  BY <1>2
<1>4. /\ \A q \in Requests \ {r} : req'[q] = req[q]
      /\ req'[r].pc = "save" => req'[r].c = c /\ req'[r].row = row
  <2>1. req[r].writes \in Seq(Tickets) /\ req[r].writes # <<>> /\ req[r] \in SlotTypes
    BY DEF Save, IInv, Slot, Sound
  <2>2. Head(req[r].writes) = row
    BY <1>1, <2>1
  <2>3. CASE Tail(req[r].writes) = <<>>
    <3>1. Becomes(r, Free)
      BY <2>3 DEF Save, Finish
    <3> QED
      BY <3>1, BecomesSlot, FreeIsSlot
  <2>4. CASE Tail(req[r].writes) # <<>>
    <3>1. PICK slot : slot = [req[r] EXCEPT !.row = row, !.writes = Tail(req[r].writes)]
      OBVIOUS
    <3>2. Becomes(r, slot)
      BY <2>2, <2>4, <3>1 DEF Save
    <3>3. slot.c = c /\ slot.row = row
      BY <1>0, <2>1, <3>1 DEF SlotTypes
    <3> QED
      BY <3>2, <3>3, BecomesSlot
  <2> QED
    BY <2>3, <2>4
<1>5. /\ issue'[c] \in Live'[c] /\ req[r].row \in Live[c]
  <2>1. Is(r, "save")
    BY DEF Save
  <2> QED
    BY <1>0, <1>2, <1>3, <2>1, LiveRows, LiveRowsNext
<1>6. Live'[c] \subseteq Live[c] \cup {issue'[c]}
  <2> SUFFICES ASSUME NEW x, x \in Live'[c], x # row PROVE x \in Live[c]
    BY <1>3
  <2>1. PICK q \in Requests : req'[q].pc = "save" /\ req'[q].c = c /\ x = req'[q].row
    BY <1>3, LiveRowsNext
  <2>2. q # r
    BY <1>4, <2>1
  <2> QED
    BY <1>4, <2>1, <2>2, LiveRows DEF Is
<1>7. Live' = [Live EXCEPT ![c] = Live'[c]]
  <2>1. ASSUME NEW d \in Convs \ {c}, NEW x PROVE x \in Live'[d] <=> x \in Live[d]
    <3>1. \A q \in Requests :
             req'[q].pc = "save" /\ req'[q].c = d /\ x = req'[q].row
             <=> Is(q, "save") /\ req[q].c = d /\ x = req[q].row
      BY <1>0, <1>4 DEF Is
    <3> QED
      BY <1>3, <3>1, LiveRows, LiveRowsNext DEF Exists
  <2>2. Live' = [d \in Convs |-> Live'[d]] /\ Live = [d \in Convs |-> Live[d]]
    BY DEF Live
  <2>3. \A d \in Convs \ {c} : Live'[d] = Live[d]
    BY <2>1
  <2> QED
    BY <2>2, <2>3
<1>8. History!Follows(req[r].row, issue'[c])
  BY <1>2, <1>3, SameRows
<1>9. issue' = [issue EXCEPT ![c] = issue'[c]]
  BY <1>2, <1>3
<1> QED
  BY <1>0, <1>5, <1>6, <1>7, <1>8, <1>9 DEF History!Revise

\* Whatever handlers run at once, the table is a history of issues that were
\* opened once, under the next number, and revised one operation at a time.
THEOREM Implements == Spec => ImplementsHistory
<1>1. Init => History!Init
  <2> SUFFICES ASSUME Init PROVE History!Init
    OBVIOUS
  <2>1. issue = [c \in Convs |-> History!NoIssue]
    BY SameRows DEF Init
  <2>2. \A c \in Convs : \A x : x \notin Live[c]
    BY LiveRows DEF Init, Exists, Is, Free
  <2>3. Live = [c \in Convs |-> Live[c]]
    BY DEF Live
  <2>4. \A c \in Convs : Live[c] = {}
    BY <2>2
  <2> QED
    BY <2>1, <2>3, <2>4 DEF History!Init
<1>2. IInv /\ [Next]_vars => [History!Next]_(History!vars)
  <2> SUFFICES ASSUME IInv, [Next]_vars PROVE [History!Next]_(History!vars)
    OBVIOUS
  <2>1. ASSUME NEW r \in Requests, Arrive(r) PROVE UNCHANGED History!vars
    BY <2>1, ArriveStutters
  <2>2. ASSUME NEW r \in Requests, Continue(r) PROVE [History!Next]_(History!vars)
    <3>1. CASE Insert(r)
      BY <3>1, InsertOpens DEF IInv, Slot, Insert, Is, History!Next
    <3>2. CASE Save(r)
      BY <3>2, SaveRevises, SaveRow DEF History!Next
    <3> QED
      BY <2>2, <3>1, <3>2, PromotionStutters DEF Continue
  <2>3. CASE UNCHANGED vars
    BY <2>3 DEF vars, History!vars, Live, Is
  <2> QED
    BY <2>1, <2>2, <2>3 DEF Next
<1> QED
  BY <1>1, <1>2, Invariant, PTL DEF Spec, ImplementsHistory, History!Spec
=============================================================================
