--------------------------- MODULE ChannelOutbox ---------------------------
(***************************************************************************)
(* The outbound relay of one messenger thread (MessengerOutboxService and  *)
(* its worker): messages that chat and console code store are found by a   *)
(* cursor, queued as outbox rows and sent through the channel's adapter,   *)
(* with retries, by the worker's tick and by the flush that ends every     *)
(* inbound message.  Nothing serialises the two, and a crash may fall      *)
(* between any two steps.                                                  *)
(*                                                                         *)
(* The messenger thread follows the customer: when the conversation has    *)
(* ended, the next inbound message opens another and points the thread to  *)
(* it (MessengerIngestService).                                            *)
(*                                                                         *)
(* Left out: bodies and files, the channel's status columns, other         *)
(* threads, and inserts that become visible out of the order of their ids. *)
(***************************************************************************)
EXTENDS Integers, Sequences, FiniteSets

CONSTANTS
  Inlines,      \* flushes that ingestOne runs, at once with the worker
  NumConvs,     \* bound on the conversations it is pointed to, one after the other
  NumMsgs,      \* bound on the messages of the thread
  MaxAttempts,  \* MAX_ATTEMPTS
  ScanLimit,    \* SCAN_LIMIT
  Batch,        \* BATCH
  MaxCrashes    \* bound on the restarts of the process

ASSUME InlinesAssumption == "worker" \notin Inlines
ASSUME LimitsAssumption ==
  /\ {NumConvs, MaxAttempts, ScanLimit, Batch} \subseteq Nat \ {0}
  /\ {NumMsgs, MaxCrashes} \subseteq Nat

VARIABLES
  msgs,      \* who wrote each message, and in which conversation, in the order of ids
  conv,      \* channel_threads.conversation_id
  outbox,    \* the channel_outbox rows, by message
  cursor,    \* channel_threads.outbound_cursor
  mapped,    \* messages with an outbound channel_message_map row
  accepted,  \* messages the provider has acknowledged at least once
  proc,      \* the worker and the inline flushes
  crashes

vars == <<msgs, conv, outbox, cursor, mapped, accepted, proc, crashes>>

-----------------------------------------------------------------------------
Procs == Inlines \cup {"worker"}
Msgs == 1..NumMsgs
NotQueued == [status |-> "none", attempts |-> 0, due |-> FALSE]
Queued == [status |-> "pending", attempts |-> 0, due |-> TRUE]
Pending == {m \in Msgs : outbox[m].status = "pending"}
Due == {m \in Pending : outbox[m].due}
Unconfirmed == {m \in Msgs : outbox[m].status = "unconfirmed"}

\* Mutant: a failure is not counted.
Failed_NotCounted(row, terminal) ==
  [status |-> IF terminal THEN "failed" ELSE "pending", attempts |-> row.attempts, due |-> FALSE]

\* Mutant: only a terminal reason fails a row.
Failed_NeverExhausted(row, terminal) ==
  [status |-> IF terminal THEN "failed" ELSE "pending", attempts |-> row.attempts + 1, due |-> FALSE]

\* fail: one attempt more than the row had when it was read; the last one, or a
\* terminal reason, fails it for good.
Failed(row, terminal) ==
  [status |-> IF terminal \/ row.attempts + 1 >= MaxAttempts THEN "failed" ELSE "pending",
   attempts |-> row.attempts + 1, due |-> FALSE]

\* The first n of S in the order of ids, with the attempts each row then has.
FirstOf(n, S) == {m \in S : Cardinality({k \in S : k < m}) < n}
Snapshot(S) == {[m |-> m, attempts |-> outbox[m].attempts] : m \in S}

\* scan, top: the messages a flush has still to queue and the last it has read, 0
\* for none; todo: rows still to be delivered, as they were read; cur:
\* the one under way.
NoRow == [m |-> 0, attempts |-> 0]
Idle == [pc |-> "idle", scan |-> {}, top |-> 0, todo |-> {}, cur |-> NoRow, stage |-> "flush"]

Init ==
  /\ msgs = <<>> /\ conv = 1
  /\ outbox = [m \in Msgs |-> NotQueued]
  /\ cursor = 0 /\ mapped = {} /\ accepted = {}
  /\ proc = [p \in Procs |-> Idle]
  /\ crashes = 0

At(p, pc) == proc[p].pc = pc
Moves(p, slot) == proc' = [proc EXCEPT ![p] = slot]
GoTo(p, pc) == Moves(p, [proc[p] EXCEPT !.pc = pc])
Begins(p, pc) == Moves(p, [Idle EXCEPT !.pc = pc])

\* The rest of a list; once it is done, an inline flush ends and the worker goes
\* on to its next list.
Rest(p, stage, rows) ==
  IF rows # {} THEN [Idle EXCEPT !.pc = "next", !.stage = stage, !.todo = rows]
  ELSE IF p = "worker" THEN [Idle EXCEPT !.pc = IF stage = "flush" THEN "due" ELSE "confirm"]
  ELSE Idle
RestToAsk(rows) == IF rows = {} THEN Idle ELSE [Idle EXCEPT !.pc = "ask", !.todo = rows]
NextRow(p) == Moves(p, Rest(p, proc[p].stage, proc[p].todo))
SetStatus(m, status) == outbox' = [outbox EXCEPT ![m].status = status]
Elsewhere == UNCHANGED <<msgs, conv, crashes>>

\* ChatService and AgentService store messages, late ones in an old conversation.
Post(who) ==
  /\ Len(msgs) < NumMsgs
  /\ \E c \in 1..conv : msgs' = Append(msgs, [who |-> who, conv |-> c])
  /\ UNCHANGED <<conv, outbox, cursor, mapped, accepted, proc, crashes>>

\* resolveConversation: the conversation has ended, another one is opened.
Repoint ==
  /\ conv < NumConvs
  /\ conv' = conv + 1
  /\ UNCHANGED <<msgs, outbox, cursor, mapped, accepted, proc, crashes>>

-----------------------------------------------------------------------------
\* The messages of the thread's conversation past the cursor, as far as one scan goes.
Scan == FirstOf(ScanLimit, {m \in DOMAIN msgs : m > cursor /\ msgs[m].conv = conv})

\* Mutant: the cursor is moved before the messages are queued.
FlushRead_CursorFirst(p) ==
  /\ At(p, "idle")
  /\ \/ Scan = {} /\ UNCHANGED cursor /\ \E pc \in {"due", "list"} : GoTo(p, pc)
     \/ \E top \in Scan : (\A m \in Scan : m <= top) /\ cursor' = top
          /\ Moves(p, [Idle EXCEPT !.pc = "queue", !.scan = Scan, !.top = top])
  /\ UNCHANGED <<outbox, mapped, accepted>> /\ Elsewhere

\* flushThread reads the cursor and the messages past it; the worker's sweep
\* leaves out a thread that has none, unless they were queued since it looked.
FlushRead(p) ==
  /\ At(p, "idle")
  /\ \/ p = "worker" /\ Scan = {} /\ GoTo(p, "due")
     \/ Scan = {} /\ GoTo(p, "list")
     \/ \E top \in Scan : (\A m \in Scan : m <= top)
          /\ Moves(p, [Idle EXCEPT !.pc = "queue", !.scan = Scan, !.top = top])
  /\ UNCHANGED <<outbox, cursor, mapped, accepted>> /\ Elsewhere

\* The next message: the shopper's own words are passed over, a row that is
\* already there keeps its state (uk_co_message).
Queue(p) ==
  /\ At(p, "queue")
  /\ \E m \in proc[p].scan :
       /\ \A other \in proc[p].scan : m <= other
       /\ outbox' = IF msgs[m].who = "staff" /\ outbox[m] = NotQueued
                    THEN [outbox EXCEPT ![m] = Queued] ELSE outbox
       /\ Moves(p, [proc[p] EXCEPT !.scan = @ \ {m}])
  /\ UNCHANGED <<cursor, mapped, accepted>> /\ Elsewhere

\* The cursor is written when the scan moved it, wherever it now is.
SetCursor(p) ==
  /\ At(p, "queue") /\ proc[p].scan = {}
  /\ cursor' = proc[p].top
  /\ Begins(p, "list")
  /\ UNCHANGED <<outbox, mapped, accepted>> /\ Elsewhere

\* deliverPendingForThread: every pending row, due or not; deliverDue: those
\* whose backoff is over.
ListPending(p) ==
  /\ At(p, "list")
  /\ Moves(p, Rest(p, "flush", Snapshot(FirstOf(ScanLimit, Pending))))
  /\ UNCHANGED <<outbox, cursor, mapped, accepted>> /\ Elsewhere

ListDue(p) ==
  /\ At(p, "due")
  /\ Moves(p, Rest(p, "due", Snapshot(FirstOf(Batch, Due))))
  /\ UNCHANGED <<outbox, cursor, mapped, accepted>> /\ Elsewhere

\* deliver, the next row.  What it finds in the thread, the channel and the map is
\* one step with the write it leads to: a row is in the list as it was read, and
\* a map row stays, so no step in between could change that write.
Delivers(p, row) ==
  /\ At(p, "next") /\ row \in proc[p].todo
  /\ \A other \in proc[p].todo : row.m <= other.m

Drops(p, row) == Moves(p, Rest(p, proc[p].stage, proc[p].todo \ {row}))
SetRow(m, new) == outbox' = [outbox EXCEPT ![m] = new]

\* The thread may have turned receive-only, the message or the adapter be gone.
Terminal(p) ==
  /\ \E row \in proc[p].todo :
       Delivers(p, row) /\ Drops(p, row) /\ SetRow(row.m, Failed(row, TRUE))
  /\ UNCHANGED <<cursor, mapped, accepted>> /\ Elsewhere

\* An operator may have switched the channel off, as often as he likes.
Inactive(p) ==
  /\ \E row \in proc[p].todo :
       Delivers(p, row) /\ Drops(p, row) /\ SetRow(row.m, Failed(row, FALSE))
  /\ UNCHANGED <<cursor, mapped, accepted>> /\ Elsewhere

\* The row was sent before: a retry finds its map row.
Already(p) ==
  /\ \E row \in proc[p].todo :
       row.m \in mapped /\ Delivers(p, row) /\ Drops(p, row) /\ SetStatus(row.m, "sent")
  /\ UNCHANGED <<cursor, mapped, accepted>> /\ Elsewhere

Call(p) ==
  /\ \E row \in proc[p].todo :
       /\ row.m \notin mapped /\ Delivers(p, row)
       /\ Moves(p, [proc[p] EXCEPT !.pc = "send", !.todo = @ \ {row}, !.cur = row])
  /\ UNCHANGED <<outbox, cursor, mapped, accepted>> /\ Elsewhere

\* Mutant: the map row is written before the provider answers.
Send_MapFirst(p) ==
  /\ At(p, "send")
  /\ mapped' = mapped \cup {proc[p].cur.m}
  /\ \/ GoTo(p, "mark") /\ accepted' = accepted \cup {proc[p].cur.m} /\ UNCHANGED outbox
     \/ /\ NextRow(p) /\ SetRow(proc[p].cur.m, Failed(proc[p].cur, FALSE))
        /\ UNCHANGED accepted
  /\ UNCHANGED cursor /\ Elsewhere

\* adapter.send: taken by the provider or its device agent, or an error, which
\* counts as an attempt.
Send(p) ==
  /\ At(p, "send")
  /\ \/ GoTo(p, "map") /\ accepted' = accepted \cup {proc[p].cur.m} /\ UNCHANGED outbox
     \/ /\ NextRow(p) /\ SetRow(proc[p].cur.m, Failed(proc[p].cur, FALSE))
        /\ UNCHANGED accepted
  /\ UNCHANGED <<cursor, mapped>> /\ Elsewhere

MapSent(p) ==
  /\ At(p, "map")
  /\ mapped' = mapped \cup {proc[p].cur.m}
  /\ GoTo(p, "mark")
  /\ UNCHANGED <<outbox, cursor, accepted>> /\ Elsewhere

\* What only a device agent has is unconfirmed.
MarkSent(p) ==
  /\ At(p, "mark")
  /\ \E status \in {"sent", "unconfirmed"} : SetStatus(proc[p].cur.m, status)
  /\ NextRow(p)
  /\ UNCHANGED <<cursor, mapped, accepted>> /\ Elsewhere

-----------------------------------------------------------------------------
\* confirmUnconfirmed: the oldest rows are asked for; the agent's report settles
\* a row, anything else leaves it.
ListUnconfirmed(p) ==
  /\ At(p, "confirm")
  /\ Moves(p, RestToAsk(Snapshot(FirstOf(Batch, Unconfirmed))))
  /\ UNCHANGED <<outbox, cursor, mapped, accepted>> /\ Elsewhere

Confirm(p) ==
  /\ At(p, "ask")
  /\ \E row \in proc[p].todo :
       /\ \A other \in proc[p].todo : row.m <= other.m
       /\ \/ \E verdict \in {"sent", "failed"} : SetStatus(row.m, verdict)
          \/ UNCHANGED outbox
       /\ Moves(p, RestToAsk(proc[p].todo \ {row}))
  /\ UNCHANGED <<cursor, mapped, accepted>> /\ Elsewhere

\* The backoff of a row is over.
BackoffEnds(m) ==
  /\ m \in Pending /\ ~outbox[m].due
  /\ outbox' = [outbox EXCEPT ![m].due = TRUE]
  /\ UNCHANGED <<msgs, conv, cursor, mapped, accepted, proc, crashes>>

\* The process dies and starts again.
Crash ==
  /\ crashes < MaxCrashes
  /\ crashes' = crashes + 1
  /\ proc' = [p \in Procs |-> Idle]
  /\ UNCHANGED <<msgs, conv, outbox, cursor, mapped, accepted>>

Work(p) ==
  \/ Queue(p) \/ SetCursor(p) \/ ListPending(p) \/ ListDue(p)
  \/ Terminal(p) \/ Inactive(p) \/ Already(p) \/ Call(p) \/ Send(p) \/ MapSent(p) \/ MarkSent(p)
  \/ ListUnconfirmed(p) \/ Confirm(p)

Next ==
  \/ \E who \in {"user", "staff"} : Post(who)
  \/ Repoint \/ Crash
  \/ \E m \in Msgs : BackoffEnds(m)
  \/ \E p \in Procs : FlushRead(p) \/ Work(p)

Spec == Init /\ [][Next]_vars

\* The worker's timer fires for ever, every flush that has begun goes on, and
\* clocks do not stop.  No inbound message has to come, and no send has to succeed.
Fairness ==
  /\ WF_vars(FlushRead("worker") \/ Work("worker"))
  /\ \A p \in Inlines : WF_vars(Work(p))
  /\ \A m \in Msgs : WF_vars(BackoffEnds(m))

FairSpec == Spec /\ Fairness

-----------------------------------------------------------------------------
Snapshots == [m: Msgs, attempts: 0..MaxAttempts]

\* A flush under way: what it scans exists, what it delivers is queued and, past
\* the provider's answer, accepted.
FlushTypes ==
  \A p \in Procs :
    /\ proc[p].pc \in {"idle", "queue", "list", "due", "next", "send", "map", "mark", "confirm", "ask"}
    /\ proc[p].scan \subseteq DOMAIN msgs /\ proc[p].top \in 0..Len(msgs)
    /\ proc[p].todo \subseteq Snapshots /\ proc[p].cur \in Snapshots \cup {NoRow}
    /\ proc[p].stage \in {"flush", "due"}

TypeOK ==
  /\ msgs \in Seq([who: {"user", "staff"}, conv: 1..NumConvs]) /\ Len(msgs) <= NumMsgs
  /\ conv \in 1..NumConvs
  /\ outbox \in [Msgs -> [status: {"none", "pending", "sent", "unconfirmed", "failed"},
                          attempts: 0..MaxAttempts, due: BOOLEAN]]
  /\ cursor \in 0..Len(msgs)
  /\ mapped \subseteq Msgs /\ accepted \subseteq Msgs
  /\ crashes \in 0..MaxCrashes
  /\ FlushTypes

Reply(m) == m \in DOMAIN msgs /\ msgs[m].who = "staff"
Settled(m) == outbox[m].status \in {"sent", "unconfirmed", "failed"}

\* Answers reach the channel by the cursor alone, so it never passes a reply of
\* the conversation at hand that is not queued: not through a crash between the
\* two, nor through flushes that move it back and forth.
NoReplySkipped ==
  \A m \in 1..cursor : Reply(m) /\ msgs[m].conv = conv => outbox[m] # NotQueued

\* A row that says sent or unconfirmed, and a map row, which stops every retry,
\* stand for a message the provider has really taken.
SentIsProven ==
  /\ mapped \subseteq accepted
  /\ \A m \in Msgs : outbox[m].status \in {"sent", "unconfirmed"} => m \in accepted

\* Every reply in the thread's conversation, and every one that was ever queued, is
\* settled: sent, handed to a device agent, or failed where an operator sees it;
\* none is retried or forgotten for ever, whatever the provider answers and
\* however often the channel is off.
EveryReplySettles ==
  \A m \in Msgs : []<>(Reply(m) /\ (msgs[m].conv = conv \/ outbox[m] # NotQueued) => Settled(m))
=============================================================================
