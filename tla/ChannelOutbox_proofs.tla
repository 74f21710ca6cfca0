------------------------ MODULE ChannelOutbox_proofs ------------------------
(* The outbound relay, for any number of flushes, messages, conversations, *)
(* attempts and crashes: types, that what says sent was taken by the       *)
(* provider, and that the cursor passes no reply that is not queued.       *)
EXTENDS ChannelOutbox, FiniteSetTheorems, TLAPS

Pcs == {"idle", "queue", "list", "due", "next", "send", "map", "mark", "confirm", "ask"}
Messages == [who: {"user", "staff"}, conv: 1..NumConvs]
Rows == [status: {"none", "pending", "sent", "unconfirmed", "failed"},
         attempts: 0..MaxAttempts, due: BOOLEAN]
Slots == [pc: Pcs, scan: SUBSET Nat, top: Nat, todo: SUBSET Snapshots,
          cur: Snapshots \cup {NoRow}, stage: {"flush", "due"}]

\* The state is an argument of what follows, so that the same lemma speaks of the
\* state before a step and of the one after it.

\* Every reply of conversation cv up to top is queued, but for those still to come.
Passed(top, left, ms, cv, ob) ==
  \A m \in 1..top : ms[m].who = "staff" /\ ms[m].conv = cv /\ m \notin left => ob[m] # NotQueued

Untired(rows) == \A row \in rows : row.attempts < MaxAttempts

\* What a flush carries: rows that may be tried once more, the proof of what it
\* is about to call sent, and what it has passed over.
Good(slot, ms, cv, ob, acc) ==
  /\ slot \in Slots
  /\ slot.scan \subseteq 1..Len(ms) /\ slot.top \in 0..Len(ms)
  /\ slot.pc \in {"next", "send", "map", "mark"} => Untired(slot.todo)
  /\ slot.pc \in {"send", "map", "mark"} => slot.cur \in Snapshots /\ slot.cur.attempts < MaxAttempts
  /\ slot.pc \in {"map", "mark"} => slot.cur.m \in acc
  /\ slot.pc = "ask" => \A row \in slot.todo : row.m \in acc
  /\ slot.pc = "queue" => Passed(slot.top, slot.scan, ms, cv, ob)

RowsGood(ob, acc) ==
  /\ ob \in [Msgs -> Rows]
  /\ \A m \in Msgs : /\ ob[m].status = "pending" => ob[m].attempts < MaxAttempts
                     /\ ob[m].status \in {"sent", "unconfirmed"} => m \in acc

QueuedStay(ob, next) == \A m \in Msgs : ob[m] # NotQueued => next[m] # NotQueued

Inv ==
  /\ msgs \in Seq(Messages) /\ Len(msgs) <= NumMsgs
  /\ conv \in 1..NumConvs /\ \A m \in 1..Len(msgs) : msgs[m].conv <= conv
  /\ cursor \in 0..Len(msgs) /\ Passed(cursor, {}, msgs, conv, outbox)
  /\ accepted \subseteq Msgs /\ mapped \subseteq accepted
  /\ RowsGood(outbox, accepted)
  /\ crashes \in 0..MaxCrashes
  /\ proc \in [Procs -> Slots]
  /\ \A p \in Procs : Good(proc[p], msgs, conv, outbox, accepted)

-----------------------------------------------------------------------------
LEMMA Limits ==
  /\ NumConvs \in Nat \ {0} /\ MaxAttempts \in Nat \ {0} /\ ScanLimit \in Nat \ {0}
  /\ NumMsgs \in Nat /\ MaxCrashes \in Nat
  BY LimitsAssumption

LEMMA GoodKept ==
  ASSUME NEW slot, NEW ms, NEW cv, NEW ob, NEW next, NEW acc, NEW more,
         Good(slot, ms, cv, ob, acc), acc \subseteq more, QueuedStay(ob, next),
         Len(ms) \in Nat, Len(ms) <= NumMsgs
  PROVE  Good(slot, ms, cv, next, more)
<1>1. slot.top \in 0..NumMsgs
  BY Limits DEF Good
<1>2. slot.pc = "queue" => Passed(slot.top, slot.scan, ms, cv, next)
  BY <1>1, Limits DEF Good, Passed, QueuedStay, Msgs
<1> QED
  BY <1>2 DEF Good

LEMMA PassedKept ==
  ASSUME NEW top \in 0..NumMsgs, NEW ms, NEW cv, NEW ob, NEW next, NEW left,
         Passed(top, left, ms, cv, ob), QueuedStay(ob, next)
  PROVE  Passed(top, left, ms, cv, next)
  BY Limits DEF Passed, QueuedStay, Msgs

LEMMA WriteRow ==
  ASSUME NEW ob, NEW acc, RowsGood(ob, acc), NEW m, NEW new \in Rows,
         new # NotQueued, new.status = "pending" => new.attempts < MaxAttempts,
         new.status \in {"sent", "unconfirmed"} => m \in acc
  PROVE  /\ RowsGood([ob EXCEPT ![m] = new], acc)
         /\ QueuedStay(ob, [ob EXCEPT ![m] = new])
  BY DEF RowsGood, QueuedStay

LEMMA MoreAccepted ==
  ASSUME NEW ob, NEW acc, NEW more, RowsGood(ob, acc), acc \subseteq more
  PROVE  RowsGood(ob, more)
  BY DEF RowsGood

LEMMA StayRefl == \A ob : QueuedStay(ob, ob)
  BY DEF QueuedStay

\* A flush moves on: what has to be shown of the slot it leaves behind.
LEMMA StepInv ==
  ASSUME Inv, NEW p \in Procs, NEW slot, Moves(p, slot),
         Elsewhere, Good(slot, msgs, conv, outbox', accepted'),
         accepted \subseteq accepted', accepted' \subseteq Msgs, mapped' \subseteq accepted',
         RowsGood(outbox', accepted'), QueuedStay(outbox, outbox'),
         cursor' \in 0..Len(msgs), Passed(cursor', {}, msgs, conv, outbox')
  PROVE  Inv'
<1>1. UNCHANGED <<msgs, conv, crashes>>
  BY DEF Elsewhere
<1>2. slot \in Slots
  BY DEF Good
<1>3. proc' \in [Procs -> Slots] /\ proc'[p] = slot /\ \A q \in Procs \ {p} : proc'[q] = proc[q]
  BY <1>2 DEF Inv, Moves
<1>4. ASSUME NEW q \in Procs PROVE Good(proc'[q], msgs', conv', outbox', accepted')
  <2>1. CASE q = p
    BY <1>1, <1>3, <2>1
  <2>2. CASE q # p
    <3>1. Good(proc[q], msgs, conv, outbox, accepted) /\ Len(msgs) \in Nat /\ Len(msgs) <= NumMsgs
      BY DEF Inv
    <3>2. Good(proc[q], msgs, conv, outbox', accepted')
      BY <3>1, GoodKept
    <3> QED
      BY <1>1, <1>3, <2>2, <3>2
  <2> QED
    BY <2>1, <2>2
<1> QED
  BY <1>1, <1>3, <1>4 DEF Inv

\* The same, when the cursor stays.
LEMMA StayInv ==
  ASSUME Inv, NEW p \in Procs, NEW slot, Moves(p, slot), UNCHANGED cursor,
         Elsewhere, Good(slot, msgs, conv, outbox', accepted'),
         accepted \subseteq accepted', accepted' \subseteq Msgs, mapped' \subseteq accepted',
         RowsGood(outbox', accepted'), QueuedStay(outbox, outbox')
  PROVE  Inv'
<1>1. cursor \in 0..NumMsgs /\ cursor' \in 0..Len(msgs)
  BY Limits DEF Inv
<1>2. Passed(cursor', {}, msgs, conv, outbox')
  BY <1>1, PassedKept DEF Inv
<1> QED
  BY <1>1, <1>2, StepInv

\* And when nothing but the slot changes.
LEMMA SlotInv ==
  ASSUME Inv, NEW p \in Procs, NEW slot, Moves(p, slot),
         UNCHANGED <<cursor, outbox, mapped, accepted>>, Elsewhere,
         Good(slot, msgs, conv, outbox, accepted)
  PROVE  Inv'
<1>1. accepted \subseteq Msgs /\ mapped \subseteq accepted /\ RowsGood(outbox, accepted)
  BY DEF Inv
<1> QED
  BY <1>1, StayInv, StayRefl

LEMMA SlotGood == ASSUME Inv, NEW p \in Procs PROVE Good(proc[p], msgs, conv, outbox, accepted)
  BY DEF Inv

\* Slots that carry nothing, and lists of rows.
LEMMA EmptyGood ==
  ASSUME Inv, NEW pc \in {"idle", "list", "due", "confirm"}
  PROVE  Good([Idle EXCEPT !.pc = pc], msgs, conv, outbox, accepted)
<1>1. Len(msgs) \in Nat
  BY DEF Inv
<1> QED
  BY <1>1 DEF Good, Idle, Slots, Pcs

LEMMA IdleGood == Inv => Good(Idle, msgs, conv, outbox, accepted)
<1>1. Idle = [Idle EXCEPT !.pc = "idle"]
  BY DEF Idle
<1> QED
  BY <1>1, EmptyGood

LEMMA RestGood ==
  ASSUME Inv, NEW p \in Procs, NEW stage \in {"flush", "due"},
         NEW rows \in SUBSET Snapshots, Untired(rows)
  PROVE  Good(Rest(p, stage, rows), msgs, conv, outbox, accepted)
<1>1. Len(msgs) \in Nat
  BY DEF Inv
<1>2. CASE rows # {}
  <2> DEFINE slot == [Idle EXCEPT !.pc = "next", !.stage = stage, !.todo = rows]
  <2>1. Rest(p, stage, rows) = slot
    BY <1>2 DEF Rest
  <2>2. slot \in Slots /\ slot.scan = {} /\ slot.top = 0 /\ slot.pc = "next" /\ slot.todo = rows
    BY DEF Idle, Slots, Pcs
  <2> HIDE DEF slot
  <2> QED
    BY <1>1, <2>1, <2>2 DEF Good
<1>3. CASE rows = {} /\ p = "worker"
  BY <1>3, EmptyGood DEF Rest
<1>4. CASE rows = {} /\ p # "worker"
  BY <1>4, IdleGood DEF Rest
<1> QED
  BY <1>2, <1>3, <1>4

LEMMA AskGood ==
  ASSUME Inv, NEW rows \in SUBSET Snapshots, \A row \in rows : row.m \in accepted
  PROVE  Good(RestToAsk(rows), msgs, conv, outbox, accepted)
<1>1. Len(msgs) \in Nat
  BY DEF Inv
<1>2. CASE rows # {}
  <2> DEFINE slot == [Idle EXCEPT !.pc = "ask", !.todo = rows]
  <2>1. RestToAsk(rows) = slot
    BY <1>2 DEF RestToAsk
  <2>2. slot \in Slots /\ slot.scan = {} /\ slot.top = 0 /\ slot.pc = "ask" /\ slot.todo = rows
    BY DEF Idle, Slots, Pcs
  <2> HIDE DEF slot
  <2> QED
    BY <1>1, <2>1, <2>2 DEF Good
<1> QED
  BY <1>2, IdleGood DEF RestToAsk

LEMMA SnapshotOf ==
  ASSUME Inv, NEW S \in SUBSET Msgs
  PROVE  /\ Snapshot(S) \in SUBSET Snapshots
         /\ S \subseteq Pending => Untired(Snapshot(S))
         /\ \A row \in Snapshot(S) : row.m \in S
<1>1. \A m \in S : [m |-> m, attempts |-> outbox[m].attempts] \in Snapshots
  BY DEF Inv, RowsGood, Rows, Snapshots
<1>2. ASSUME S \subseteq Pending, NEW m \in S PROVE outbox[m].attempts < MaxAttempts
  BY <1>2 DEF Inv, RowsGood, Pending
<1> QED
  BY <1>1, <1>2 DEF Snapshot, Untired

-----------------------------------------------------------------------------
(* The scan.                                                                *)

\* The first n of a finite set of ids: with a member, every smaller one.
LEMMA FirstOfDown ==
  ASSUME NEW n \in Nat, NEW S \in SUBSET Nat, IsFiniteSet(S),
         NEW top \in FirstOf(n, S), NEW m \in S, m <= top
  PROVE  m \in FirstOf(n, S)
<1> DEFINE below(k) == {i \in S : i < k}
<1>1. below(m) \subseteq below(top) /\ IsFiniteSet(below(top))
  <2>1. below(top) \subseteq S
    OBVIOUS
  <2>2. IsFiniteSet(below(top))
    BY <2>1, FS_Subset
  <2>3. top \in Nat /\ m \in Nat
    BY DEF FirstOf
  <2>4. ASSUME NEW i \in S, i < m PROVE i < top
    <3>1. i \in Nat
      OBVIOUS
    <3> QED
      BY <2>3, <2>4, <3>1
  <2> QED
    BY <2>2, <2>4
<1>2. /\ Cardinality(below(m)) <= Cardinality(below(top))
      /\ Cardinality(below(m)) \in Nat /\ Cardinality(below(top)) \in Nat
  BY <1>1, FS_Subset, FS_CardinalityType
<1>3. Cardinality(below(top)) < n
  BY DEF FirstOf
<1> HIDE DEF below
<1>4. Cardinality(below(m)) < n
  BY <1>2, <1>3
<1> QED
  BY <1>4 DEF FirstOf, below

LEMMA ScanPasses ==
  ASSUME Inv, NEW top \in Scan, \A m \in Scan : m <= top
  PROVE  /\ Scan \subseteq 1..Len(msgs) /\ top \in 1..Len(msgs)
         /\ Passed(top, Scan, msgs, conv, outbox)
<1> DEFINE S == {m \in DOMAIN msgs : m > cursor /\ msgs[m].conv = conv}
<1>1. Len(msgs) \in Nat /\ DOMAIN msgs = 1..Len(msgs) /\ cursor \in 0..Len(msgs)
  BY DEF Inv
<1>2. IsFiniteSet(S) /\ S \in SUBSET Nat
  <2>1. IsFiniteSet(1..Len(msgs))
    BY <1>1, FS_Interval
  <2>2. S \subseteq 1..Len(msgs)
    BY <1>1
  <2> QED
    BY <2>1, <2>2, FS_Subset
<1>3. Scan = FirstOf(ScanLimit, S) /\ Scan \subseteq S
  BY DEF Scan, FirstOf
<1>4. Scan \subseteq 1..Len(msgs) /\ top \in 1..Len(msgs)
  BY <1>1, <1>3
<1>5. ASSUME NEW m \in 1..top, msgs[m].who = "staff", msgs[m].conv = conv, m \notin Scan
      PROVE  outbox[m] # NotQueued
  <2>1. CASE m <= cursor
    BY <1>1, <1>5, <2>1 DEF Inv, Passed
  <2>2. CASE m > cursor
    <3>1. m \in S
      BY <1>1, <1>4, <1>5, <2>2
    <3> HIDE DEF S
    <3>2. m \in Scan
      BY <1>2, <1>3, <1>4, <3>1, FirstOfDown, Limits
    <3> QED
      BY <1>5, <3>2
  <2> QED
    BY <1>1, <1>4, <2>1, <2>2
<1> QED
  BY <1>4, <1>5 DEF Passed

-----------------------------------------------------------------------------
(* Who writes messages, and the thread.                                     *)

LEMMA PostInv == ASSUME Inv, NEW who \in {"user", "staff"}, Post(who) PROVE Inv'
<1>1. PICK c \in 1..conv : msgs' = Append(msgs, [who |-> who, conv |-> c])
  BY DEF Post
<1>2. UNCHANGED <<conv, outbox, cursor, mapped, accepted, proc, crashes>> /\ Len(msgs) < NumMsgs
  BY DEF Post
<1>3. msgs \in Seq(Messages) /\ Len(msgs) \in Nat /\ conv \in 1..NumConvs
  BY DEF Inv
<1>4. [who |-> who, conv |-> c] \in Messages
  BY <1>3, Limits DEF Messages
<1>5. /\ msgs' \in Seq(Messages) /\ Len(msgs') = Len(msgs) + 1
      /\ \A m \in 1..Len(msgs) : msgs'[m] = msgs[m]
      /\ msgs'[Len(msgs) + 1].conv = c
  BY <1>1, <1>3, <1>4
<1>6. \A m \in 1..Len(msgs') : msgs'[m].conv <= conv
  BY <1>3, <1>5 DEF Inv
<1>7. ASSUME NEW top \in 0..Len(msgs), NEW left, Passed(top, left, msgs, conv, outbox)
      PROVE  Passed(top, left, msgs', conv, outbox)
  BY <1>3, <1>5, <1>7 DEF Passed
<1>8. ASSUME NEW p \in Procs PROVE Good(proc[p], msgs', conv, outbox, accepted)
  <2>1. Good(proc[p], msgs, conv, outbox, accepted)
    BY DEF Inv
  <2> QED
    BY <1>3, <1>5, <1>7, <2>1 DEF Good
<1>9. cursor \in 0..Len(msgs') /\ Passed(cursor, {}, msgs', conv, outbox) /\ Len(msgs') <= NumMsgs
  BY <1>2, <1>3, <1>5, <1>7, Limits DEF Inv
<1> QED
  BY <1>2, <1>5, <1>6, <1>8, <1>9 DEF Inv

LEMMA RepointInv == ASSUME Inv, Repoint PROVE Inv'
<1>1. conv' = conv + 1 /\ conv' \in 1..NumConvs /\ conv \in Nat
      /\ UNCHANGED <<msgs, outbox, cursor, mapped, accepted, proc, crashes>>
  BY Limits DEF Repoint, Inv
<1>2. \A m \in 1..Len(msgs) : msgs[m].conv \in Nat /\ msgs[m].conv < conv'
  <2> SUFFICES ASSUME NEW m \in 1..Len(msgs)
               PROVE  msgs[m].conv \in Nat /\ msgs[m].conv < conv'
    OBVIOUS
  <2>1. msgs \in Seq(Messages) /\ msgs[m].conv <= conv
    BY DEF Inv
  <2>2. msgs[m] \in Messages
    BY <2>1
  <2>3. msgs[m].conv \in Nat
    BY <2>2, Limits DEF Messages
  <2> QED
    BY <1>1, <2>1, <2>3
<1>3. ASSUME NEW top \in 0..Len(msgs), NEW left PROVE Passed(top, left, msgs, conv', outbox)
  BY <1>1, <1>2 DEF Passed, Inv
<1>4. ASSUME NEW p \in Procs PROVE Good(proc[p], msgs, conv', outbox, accepted)
  <2>1. Good(proc[p], msgs, conv, outbox, accepted)
    BY DEF Inv
  <2> QED
    BY <1>3, <2>1 DEF Good
<1>5. \A m \in 1..Len(msgs) : msgs[m].conv <= conv'
  BY <1>1, <1>2
<1>6. cursor \in 0..Len(msgs)
  BY DEF Inv
<1> QED
  BY <1>1, <1>3, <1>4, <1>5, <1>6 DEF Inv

LEMMA CrashInv == ASSUME Inv, Crash PROVE Inv'
<1>1. UNCHANGED <<msgs, conv, outbox, cursor, mapped, accepted>> /\ crashes' \in 0..MaxCrashes
  BY Limits DEF Crash, Inv
<1>2. Idle \in Slots /\ Good(Idle, msgs, conv, outbox, accepted)
  BY IdleGood DEF Good
<1>3. proc' \in [Procs -> Slots] /\ \A p \in Procs : proc'[p] = Idle
  BY <1>2 DEF Crash
<1>4. \A p \in Procs : Good(proc'[p], msgs', conv', outbox', accepted')
  BY <1>1, <1>2, <1>3
<1> QED
  BY <1>1, <1>3, <1>4 DEF Inv

LEMMA BackoffInv == ASSUME Inv, NEW m \in Msgs, BackoffEnds(m) PROVE Inv'
<1>1. UNCHANGED <<msgs, conv, cursor, mapped, accepted, proc, crashes>>
  BY DEF BackoffEnds
<1> DEFINE new == [outbox[m] EXCEPT !.due = TRUE]
<1>2. outbox[m] \in Rows /\ outbox[m].status = "pending" /\ outbox[m].attempts < MaxAttempts
  BY DEF BackoffEnds, Pending, Inv, RowsGood
<1>3. new \in Rows /\ new.status = "pending" /\ new.attempts < MaxAttempts /\ new # NotQueued
  BY <1>2 DEF Rows, NotQueued
<1>4. outbox' = [outbox EXCEPT ![m] = new]
  BY DEF BackoffEnds
<1> HIDE DEF new
<1>5. RowsGood(outbox', accepted) /\ QueuedStay(outbox, outbox')
  BY <1>3, <1>4, WriteRow DEF Inv
<1>6. Len(msgs) \in Nat /\ Len(msgs) <= NumMsgs /\ cursor \in 0..NumMsgs
  BY Limits DEF Inv
<1>7. \A p \in Procs : Good(proc[p], msgs, conv, outbox', accepted)
  BY <1>5, <1>6, SlotGood, GoodKept
<1>8. Passed(cursor, {}, msgs, conv, outbox')
  BY <1>5, <1>6, PassedKept DEF Inv
<1> QED
  BY <1>1, <1>5, <1>7, <1>8 DEF Inv

-----------------------------------------------------------------------------
(* The steps of a flush.                                                    *)

LEMMA FlushReadInv == ASSUME Inv, NEW p \in Procs, FlushRead(p) PROVE Inv'
<1>1. UNCHANGED <<cursor, outbox, mapped, accepted>> /\ Elsewhere
  BY DEF FlushRead
<1>2. CASE \E pc \in {"due", "list"} : GoTo(p, pc)
  <2>1. PICK pc \in {"due", "list"} : GoTo(p, pc)
    BY <1>2
  <2> DEFINE slot == [proc[p] EXCEPT !.pc = pc]
  <2>2. Good(proc[p], msgs, conv, outbox, accepted)
    BY SlotGood
  <2>3. slot \in Slots /\ slot.pc = pc /\ slot.scan = proc[p].scan /\ slot.top = proc[p].top
    BY <2>2 DEF Good, Slots, Pcs
  <2>4. Moves(p, slot)
    BY <2>1 DEF GoTo
  <2> HIDE DEF slot
  <2>5. Good(slot, msgs, conv, outbox, accepted)
    BY <2>2, <2>3 DEF Good
  <2> QED
    BY <1>1, <2>4, <2>5, SlotInv
<1>3. CASE \E top \in Scan : (\A m \in Scan : m <= top)
             /\ Moves(p, [Idle EXCEPT !.pc = "queue", !.scan = Scan, !.top = top])
  <2>1. PICK top \in Scan : (\A m \in Scan : m <= top)
             /\ Moves(p, [Idle EXCEPT !.pc = "queue", !.scan = Scan, !.top = top])
    BY <1>3
  <2> DEFINE slot == [Idle EXCEPT !.pc = "queue", !.scan = Scan, !.top = top]
  <2>2. Scan \subseteq 1..Len(msgs) /\ top \in 1..Len(msgs) /\ Passed(top, Scan, msgs, conv, outbox)
    BY <2>1, ScanPasses
  <2>3. Scan \in SUBSET Nat /\ top \in Nat /\ top \in 0..Len(msgs)
    BY <2>2 DEF Inv
  <2>4. slot \in Slots /\ slot.pc = "queue" /\ slot.scan = Scan /\ slot.top = top
    BY <2>3 DEF Idle, Slots, Pcs
  <2>5. Moves(p, slot)
    BY <2>1
  <2> HIDE DEF slot
  <2>6. Good(slot, msgs, conv, outbox, accepted)
    BY <2>2, <2>3, <2>4 DEF Good
  <2> QED
    BY <1>1, <2>5, <2>6, SlotInv
<1> QED
  BY <1>2, <1>3 DEF FlushRead

LEMMA QueueInv == ASSUME Inv, NEW p \in Procs, Queue(p) PROVE Inv'
<1>1. PICK m \in proc[p].scan :
        /\ outbox' = IF msgs[m].who = "staff" /\ outbox[m] = NotQueued
                     THEN [outbox EXCEPT ![m] = Queued] ELSE outbox
        /\ Moves(p, [proc[p] EXCEPT !.scan = @ \ {m}])
  BY DEF Queue
<1>2. UNCHANGED <<cursor, mapped, accepted>> /\ Elsewhere /\ proc[p].pc = "queue"
  BY DEF Queue, At
<1>3. Good(proc[p], msgs, conv, outbox, accepted)
  BY SlotGood
<1>4. /\ Len(msgs) \in Nat /\ Len(msgs) <= NumMsgs /\ RowsGood(outbox, accepted)
      /\ accepted \subseteq Msgs /\ mapped \subseteq accepted
  BY DEF Inv
<1>5. m \in Msgs
  BY <1>3, <1>4, Limits DEF Good, Msgs
<1>6. Queued \in Rows /\ Queued # NotQueued /\ Queued.status = "pending" /\ Queued.attempts < MaxAttempts
  BY Limits DEF Queued, NotQueued, Rows
<1>7. RowsGood(outbox', accepted) /\ QueuedStay(outbox, outbox')
  <2>1. CASE msgs[m].who = "staff" /\ outbox[m] = NotQueued
    BY <1>1, <1>4, <1>6, <2>1, WriteRow
  <2>2. CASE ~(msgs[m].who = "staff" /\ outbox[m] = NotQueued)
    BY <1>1, <1>4, <2>2, StayRefl
  <2> QED
    BY <2>1, <2>2
<1>8. msgs[m].who = "staff" => outbox'[m] # NotQueued
  BY <1>1, <1>4, <1>5, <1>6 DEF RowsGood
<1> DEFINE slot == [proc[p] EXCEPT !.scan = @ \ {m}]
<1>9. /\ slot \in Slots /\ slot.pc = "queue" /\ slot.top = proc[p].top
      /\ slot.scan = proc[p].scan \ {m}
  BY <1>2, <1>3 DEF Good, Slots
<1>10. Moves(p, slot)
  BY <1>1
<1> HIDE DEF slot
<1>11. Passed(slot.top, slot.scan, msgs, conv, outbox')
  BY <1>2, <1>3, <1>4, <1>7, <1>8, <1>9, Limits DEF Good, Passed, QueuedStay, Msgs
<1>12. Good(slot, msgs, conv, outbox', accepted)
  BY <1>3, <1>9, <1>11 DEF Good
<1> QED
  BY <1>2, <1>4, <1>7, <1>10, <1>12, StayInv

LEMMA SetCursorInv == ASSUME Inv, NEW p \in Procs, SetCursor(p) PROVE Inv'
<1>1. /\ cursor' = proc[p].top /\ UNCHANGED <<outbox, mapped, accepted>> /\ Elsewhere
      /\ Moves(p, [Idle EXCEPT !.pc = "list"])
  BY DEF SetCursor, Begins
<1>2. Good([Idle EXCEPT !.pc = "list"], msgs, conv, outbox, accepted)
  BY EmptyGood
<1>3. proc[p].top \in 0..Len(msgs) /\ Passed(proc[p].top, {}, msgs, conv, outbox)
  BY SlotGood DEF SetCursor, At, Good
<1>4. accepted \subseteq Msgs /\ mapped \subseteq accepted /\ RowsGood(outbox, accepted)
  BY DEF Inv
<1> QED
  BY <1>1, <1>2, <1>3, <1>4, StepInv, StayRefl

LEMMA ListInv ==
  ASSUME Inv, NEW p \in Procs, ListPending(p) \/ ListDue(p) \/ ListUnconfirmed(p) PROVE Inv'
<1>1. /\ Pending \subseteq Msgs /\ Due \subseteq Pending /\ Unconfirmed \subseteq Msgs
      /\ \A n : \A S : FirstOf(n, S) \subseteq S
  BY DEF Pending, Due, Unconfirmed, FirstOf
<1>2. CASE ListPending(p) \/ ListDue(p)
  <2>1. PICK stage \in {"flush", "due"}, S \in SUBSET Pending : Moves(p, Rest(p, stage, Snapshot(S)))
    BY <1>1, <1>2 DEF ListPending, ListDue
  <2>2. UNCHANGED <<cursor, outbox, mapped, accepted>> /\ Elsewhere
    BY <1>2 DEF ListPending, ListDue
  <2>3. Good(Rest(p, stage, Snapshot(S)), msgs, conv, outbox, accepted)
    BY <1>1, SnapshotOf, RestGood
  <2> QED
    BY <2>1, <2>2, <2>3, SlotInv
<1>3. CASE ListUnconfirmed(p)
  <2>1. PICK S \in SUBSET Unconfirmed : Moves(p, RestToAsk(Snapshot(S)))
    BY <1>1, <1>3 DEF ListUnconfirmed
  <2>2. UNCHANGED <<cursor, outbox, mapped, accepted>> /\ Elsewhere
    BY <1>3 DEF ListUnconfirmed
  <2>3. Unconfirmed \subseteq accepted
    BY DEF Unconfirmed, Inv, RowsGood
  <2>4. Good(RestToAsk(Snapshot(S)), msgs, conv, outbox, accepted)
    BY <1>1, <2>3, SnapshotOf, AskGood
  <2> QED
    BY <2>1, <2>2, <2>4, SlotInv
<1> QED
  BY <1>2, <1>3

\* A failed attempt leaves a row that may be tried again, or a failed one.
LEMMA FailedRow ==
  ASSUME NEW row \in Snapshots, row.attempts < MaxAttempts, NEW terminal \in BOOLEAN
  PROVE  /\ Failed(row, terminal) \in Rows /\ Failed(row, terminal) # NotQueued
         /\ Failed(row, terminal).status \in {"pending", "failed"}
         /\ Failed(row, terminal).status = "pending" => Failed(row, terminal).attempts < MaxAttempts
<1>1. row.attempts + 1 \in 0..MaxAttempts
  BY Limits DEF Snapshots
<1>2. row.attempts + 1 >= MaxAttempts \/ row.attempts + 1 < MaxAttempts
  BY Limits DEF Snapshots
<1> QED
  BY <1>1, <1>2 DEF Failed, Rows, NotQueued

LEMMA FailInv ==
  ASSUME Inv, NEW p \in Procs, NEW slot, NEW row \in Snapshots, row.attempts < MaxAttempts,
         NEW terminal \in BOOLEAN, Moves(p, slot), SetRow(row.m, Failed(row, terminal)),
         UNCHANGED <<cursor, mapped, accepted>>, Elsewhere,
         Good(slot, msgs, conv, outbox, accepted)
  PROVE  Inv'
<1>1. /\ Len(msgs) \in Nat /\ Len(msgs) <= NumMsgs /\ RowsGood(outbox, accepted)
      /\ accepted \subseteq Msgs /\ mapped \subseteq accepted
  BY DEF Inv
<1>2. RowsGood(outbox', accepted) /\ QueuedStay(outbox, outbox')
  BY <1>1, FailedRow, WriteRow DEF SetRow
<1>3. Good(slot, msgs, conv, outbox', accepted)
  BY <1>1, <1>2, GoodKept
<1> QED
  BY <1>1, <1>2, <1>3, StayInv

\* Settling a row that was there: only what was accepted is called sent.
LEMMA SettleInv ==
  ASSUME Inv, NEW p \in Procs, NEW slot, NEW m \in Msgs, NEW status \in {"sent", "unconfirmed", "failed"},
         status # "failed" => m \in accepted, Moves(p, slot), SetStatus(m, status),
         UNCHANGED <<cursor, mapped, accepted>>, Elsewhere,
         Good(slot, msgs, conv, outbox, accepted)
  PROVE  Inv'
<1>1. /\ Len(msgs) \in Nat /\ Len(msgs) <= NumMsgs /\ RowsGood(outbox, accepted)
      /\ accepted \subseteq Msgs /\ mapped \subseteq accepted
  BY DEF Inv
<1> DEFINE new == [outbox[m] EXCEPT !.status = status]
<1>2. new \in Rows /\ new.status = status /\ new # NotQueued
  BY <1>1 DEF RowsGood, Rows, NotQueued
<1>3. outbox' = [outbox EXCEPT ![m] = new]
  BY DEF SetStatus
<1> HIDE DEF new
<1>4. RowsGood(outbox', accepted) /\ QueuedStay(outbox, outbox')
  BY <1>1, <1>2, <1>3, WriteRow
<1>5. Good(slot, msgs, conv, outbox', accepted)
  BY <1>1, <1>4, GoodKept
<1> QED
  BY <1>1, <1>4, <1>5, StayInv

\* The list a flush delivers, and what is left of it.
LEMMA ListFacts ==
  ASSUME Inv, NEW p \in Procs, proc[p].pc \in {"next", "send", "map", "mark"}, NEW row
  PROVE  /\ proc[p].todo \subseteq Snapshots /\ Untired(proc[p].todo)
         /\ Good(Rest(p, proc[p].stage, proc[p].todo \ {row}), msgs, conv, outbox, accepted)
         /\ Good(Rest(p, proc[p].stage, proc[p].todo), msgs, conv, outbox, accepted)
<1>1. proc[p].todo \in SUBSET Snapshots /\ Untired(proc[p].todo) /\ proc[p].stage \in {"flush", "due"}
  BY SlotGood DEF Good, Slots
<1>2. proc[p].todo \ {row} \in SUBSET Snapshots /\ Untired(proc[p].todo \ {row})
  BY <1>1 DEF Untired
<1> QED
  BY <1>1, <1>2, RestGood

LEMMA DeliverInv ==
  ASSUME Inv, NEW p \in Procs, Terminal(p) \/ Inactive(p) \/ Already(p) PROVE Inv'
<1>1. UNCHANGED <<cursor, mapped, accepted>> /\ Elsewhere /\ proc[p].pc = "next"
  BY DEF Terminal, Inactive, Already, Delivers, At
<1>2. CASE Terminal(p) \/ Inactive(p)
  <2>1. PICK row \in proc[p].todo, terminal \in BOOLEAN :
          Drops(p, row) /\ SetRow(row.m, Failed(row, terminal))
    BY <1>2 DEF Terminal, Inactive
  <2>2. row \in Snapshots /\ row.attempts < MaxAttempts
    BY <1>1, ListFacts DEF Untired
  <2> QED
    BY <1>1, <2>1, <2>2, ListFacts, FailInv DEF Drops
<1>3. CASE Already(p)
  <2>1. PICK row \in proc[p].todo : row.m \in mapped /\ Drops(p, row) /\ SetStatus(row.m, "sent")
    BY <1>3 DEF Already
  <2>2. row.m \in Msgs /\ row.m \in accepted
    BY <2>1 DEF Inv
  <2> QED
    BY <1>1, <2>1, <2>2, ListFacts, SettleInv DEF Drops
<1> QED
  BY <1>2, <1>3

LEMMA CallInv == ASSUME Inv, NEW p \in Procs, Call(p) PROVE Inv'
<1>1. PICK row \in proc[p].todo :
        Moves(p, [proc[p] EXCEPT !.pc = "send", !.todo = @ \ {row}, !.cur = row])
  BY DEF Call
<1>2. UNCHANGED <<cursor, outbox, mapped, accepted>> /\ Elsewhere /\ proc[p].pc = "next"
  BY DEF Call, Delivers, At
<1>3. Good(proc[p], msgs, conv, outbox, accepted)
  BY SlotGood
<1>4. row \in Snapshots /\ row.attempts < MaxAttempts
  BY <1>2, ListFacts DEF Untired
<1> DEFINE slot == [proc[p] EXCEPT !.pc = "send", !.todo = @ \ {row}, !.cur = row]
<1>5. /\ slot \in Slots /\ slot.pc = "send" /\ slot.cur = row /\ slot.todo = proc[p].todo \ {row}
      /\ slot.scan = proc[p].scan /\ slot.top = proc[p].top
  BY <1>3, <1>4 DEF Good, Slots, Pcs
<1>6. Moves(p, slot)
  BY <1>1
<1> HIDE DEF slot
<1>7. Good(slot, msgs, conv, outbox, accepted)
  BY <1>2, <1>3, <1>4, <1>5 DEF Good, Untired
<1> QED
  BY <1>2, <1>6, <1>7, SlotInv

\* The row under way goes from the call to its record.
LEMMA OnwardGood ==
  ASSUME Inv, NEW p \in Procs, proc[p].pc \in {"send", "map"}, NEW pc \in {"map", "mark"},
         NEW more, accepted \subseteq more, proc[p].cur.m \in more
  PROVE  Good([proc[p] EXCEPT !.pc = pc], msgs, conv, outbox, more)
<1>1. Good(proc[p], msgs, conv, outbox, accepted)
  BY SlotGood
<1> DEFINE slot == [proc[p] EXCEPT !.pc = pc]
<1>2. /\ slot \in Slots /\ slot.pc = pc /\ slot.cur = proc[p].cur /\ slot.todo = proc[p].todo
      /\ slot.scan = proc[p].scan /\ slot.top = proc[p].top
  BY <1>1 DEF Good, Slots, Pcs
<1> HIDE DEF slot
<1>3. Good(slot, msgs, conv, outbox, more)
  BY <1>1, <1>2 DEF Good
<1> QED
  BY <1>3 DEF slot

LEMMA CurFacts ==
  ASSUME Inv, NEW p \in Procs, proc[p].pc \in {"send", "map", "mark"}
  PROVE  /\ proc[p].cur \in Snapshots /\ proc[p].cur.m \in Msgs
         /\ proc[p].cur.attempts < MaxAttempts
         /\ proc[p].pc \in {"map", "mark"} => proc[p].cur.m \in accepted
<1>1. Good(proc[p], msgs, conv, outbox, accepted)
  BY SlotGood
<1> QED
  BY <1>1 DEF Good, Snapshots

LEMMA SendInv == ASSUME Inv, NEW p \in Procs, Send(p) PROVE Inv'
<1>1. UNCHANGED <<cursor, mapped>> /\ Elsewhere /\ proc[p].pc = "send"
  BY DEF Send, At
<1>2. CASE GoTo(p, "map") /\ accepted' = accepted \cup {proc[p].cur.m} /\ UNCHANGED outbox
  <2>1. accepted \subseteq accepted' /\ accepted' \subseteq Msgs /\ proc[p].cur.m \in accepted'
    BY <1>1, <1>2, CurFacts DEF Inv
  <2>2. Good([proc[p] EXCEPT !.pc = "map"], msgs, conv, outbox', accepted')
    BY <1>1, <1>2, <2>1, OnwardGood
  <2>3. RowsGood(outbox', accepted') /\ mapped' \subseteq accepted'
    BY <1>1, <1>2, <2>1, MoreAccepted DEF Inv
  <2>4. QueuedStay(outbox, outbox')
    BY <1>2, StayRefl
  <2> QED
    BY <1>1, <1>2, <2>1, <2>2, <2>3, <2>4, StayInv DEF GoTo
<1>3. CASE /\ NextRow(p) /\ SetRow(proc[p].cur.m, Failed(proc[p].cur, FALSE))
           /\ UNCHANGED accepted
  BY <1>1, <1>3, CurFacts, ListFacts, FailInv DEF NextRow
<1> QED
  BY <1>2, <1>3 DEF Send

LEMMA MapSentInv == ASSUME Inv, NEW p \in Procs, MapSent(p) PROVE Inv'
<1>1. /\ mapped' = mapped \cup {proc[p].cur.m} /\ Moves(p, [proc[p] EXCEPT !.pc = "mark"])
      /\ UNCHANGED <<outbox, cursor, accepted>> /\ Elsewhere /\ proc[p].pc = "map"
  BY DEF MapSent, GoTo, At
<1>2. proc[p].cur.m \in accepted
  BY <1>1, CurFacts
<1>3. Good([proc[p] EXCEPT !.pc = "mark"], msgs, conv, outbox, accepted)
  BY <1>1, <1>2, OnwardGood
<1>4. accepted \subseteq Msgs /\ mapped' \subseteq accepted /\ RowsGood(outbox, accepted)
  BY <1>1, <1>2 DEF Inv
<1> QED
  BY <1>1, <1>3, <1>4, StayInv, StayRefl

LEMMA MarkSentInv == ASSUME Inv, NEW p \in Procs, MarkSent(p) PROVE Inv'
<1>1. PICK status \in {"sent", "unconfirmed"} : SetStatus(proc[p].cur.m, status)
  BY DEF MarkSent
<1>2. /\ Moves(p, Rest(p, proc[p].stage, proc[p].todo)) /\ proc[p].pc = "mark"
      /\ UNCHANGED <<cursor, mapped, accepted>> /\ Elsewhere
  BY DEF MarkSent, NextRow, At
<1> QED
  BY <1>1, <1>2, CurFacts, ListFacts, SettleInv

LEMMA ConfirmInv == ASSUME Inv, NEW p \in Procs, Confirm(p) PROVE Inv'
<1>1. PICK row \in proc[p].todo :
        /\ \/ \E verdict \in {"sent", "failed"} : SetStatus(row.m, verdict)
           \/ UNCHANGED outbox
        /\ Moves(p, RestToAsk(proc[p].todo \ {row}))
  BY DEF Confirm
<1>2. UNCHANGED <<cursor, mapped, accepted>> /\ Elsewhere /\ proc[p].pc = "ask"
  BY DEF Confirm, At
<1>3. proc[p].todo \in SUBSET Snapshots /\ \A other \in proc[p].todo : other.m \in accepted
  BY <1>2, SlotGood DEF Good, Slots
<1>4. Good(RestToAsk(proc[p].todo \ {row}), msgs, conv, outbox, accepted)
  BY <1>3, AskGood
<1>5. row.m \in accepted /\ row.m \in Msgs
  BY <1>3 DEF Inv
<1>6. CASE \E verdict \in {"sent", "failed"} : SetStatus(row.m, verdict)
  BY <1>1, <1>2, <1>4, <1>5, <1>6, SettleInv
<1>7. CASE UNCHANGED outbox
  BY <1>1, <1>2, <1>4, <1>7, SlotInv
<1> QED
  BY <1>1, <1>6, <1>7

-----------------------------------------------------------------------------
LEMMA InitInv == Init => Inv
<1> SUFFICES ASSUME Init PROVE Inv
  OBVIOUS
<1>1. msgs = <<>> /\ Len(msgs) = 0 /\ msgs \in Seq(Messages) /\ conv \in 1..NumConvs
  BY Limits DEF Init
<1>2. RowsGood(outbox, accepted)
  BY Limits DEF Init, RowsGood, NotQueued, Rows
<1>3. proc \in [Procs -> Slots] /\ \A p \in Procs : proc[p] = Idle
  BY DEF Init, Idle, Slots, Pcs
<1>4. Good(Idle, msgs, conv, outbox, accepted)
  BY <1>1 DEF Good, Idle, Slots, Pcs
<1> QED
  BY <1>1, <1>2, <1>3, <1>4, Limits DEF Init, Inv, Passed

LEMMA NextInv == Inv /\ [Next]_vars => Inv'
<1> SUFFICES ASSUME Inv, [Next]_vars PROVE Inv'
  OBVIOUS
<1>1. CASE UNCHANGED vars
  BY <1>1 DEF vars, Inv
<1>2. ASSUME NEW p \in Procs, FlushRead(p) \/ Work(p) PROVE Inv'
  BY <1>2, FlushReadInv, QueueInv, SetCursorInv, ListInv, DeliverInv, CallInv, SendInv,
     MapSentInv, MarkSentInv, ConfirmInv DEF Work
<1> QED
  BY <1>1, <1>2, PostInv, RepointInv, CrashInv, BackoffInv DEF Next

LEMMA InvAlways == Spec => []Inv
  BY InitInv, NextInv, PTL DEF Spec

\* Every variable keeps its type; attempts stay within MAX_ATTEMPTS although two
\* flushes may count the same row.
THEOREM TypeCorrect == Spec => []TypeOK
<1>1. Inv => FlushTypes
  <2> SUFFICES ASSUME Inv, NEW p \in Procs
               PROVE  /\ proc[p].pc \in Pcs
                      /\ proc[p].scan \subseteq 1..Len(msgs) /\ proc[p].top \in 0..Len(msgs)
                      /\ proc[p].todo \subseteq Snapshots /\ proc[p].cur \in Snapshots \cup {NoRow}
                      /\ proc[p].stage \in {"flush", "due"}
    BY DEF FlushTypes, Pcs, Inv
  <2> QED
    BY SlotGood DEF Good, Slots
<1>2. Inv => TypeOK
  BY <1>1 DEF Inv, TypeOK, Messages, Rows, RowsGood
<1> QED
  BY <1>2, InvAlways, PTL

\* What says sent was taken by the provider, whatever retries, flushes and crashes.
THEOREM ProvenSent == Spec => []SentIsProven
<1>1. Inv => SentIsProven
  BY DEF Inv, RowsGood, SentIsProven
<1> QED
  BY <1>1, InvAlways, PTL

\* The cursor passes no reply of the thread's conversation that is not queued.
THEOREM NothingSkipped == Spec => []NoReplySkipped
<1>1. Inv => NoReplySkipped
  BY DEF Inv, Passed, NoReplySkipped, Reply
<1> QED
  BY <1>1, InvAlways, PTL
=============================================================================
