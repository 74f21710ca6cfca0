--------------------------- MODULE ChannelIngest ---------------------------
(***************************************************************************)
(* The inbound side of one messenger thread: messages the platform pushes, *)
(* as often as it likes, or that a poll pulls past the thread's cursor,    *)
(* become turns of the session's open conversation and are remembered in a *)
(* map, so that a redelivery is not stored again.  Pushes, the poll's tick *)
(* and a manual fetch may run at once, and a delivery may throw or die     *)
(* with the process at any await; meanwhile agents take conversations,     *)
(* give them back and close them.                                          *)
(*                                                                         *)
(* The thread row exists: creating it twice ends in one row                *)
(* (uk_ct_channel_thread).  The relay back to the channel is ChannelOutbox, *)
(* the turn itself Conversation; here it stores, and answers or hands off. *)
(***************************************************************************)
EXTENDS Naturals, Sequences, FiniteSets

CONSTANTS
  Deliveries,  \* deliveries in flight at once
  Modes,       \* reply modes a behaviour may have
  NumInbounds, \* bound: messages the shopper sends
  NumConvs,    \* bound: conversations opened
  MaxPushes,   \* bound: pushes, redeliveries included
  MaxTroubles  \* bound: failures, restarts, notices, and conversations taken or closed

ASSUME IngestAssumption ==
  /\ Modes \subseteq {"auto", "approve", "off"}
  /\ {NumInbounds, NumConvs} \subseteq Nat \ {0} /\ {MaxPushes, MaxTroubles} \subseteq Nat
  /\ IsFiniteSet(Deliveries)

VARIABLES
  kind,     \* how the platform is read: "push" or "poll"
  mode,     \* reply mode of the thread (resolveReplyMode of its session and channel)
  arrived,  \* messages the platform has
  thread,   \* channel_threads: session_id, conversation_id, inbound_cursor
  sessions, \* sessions of the thread, and those whose grant is of an older notice
  convs,    \* conversations, in the order of ids
  msgs,     \* messages of the shopper, in the order of ids
  mapped,   \* inbound channel_message_map rows: the message of each inbound, or 0
  deliv,    \* the deliveries
  pushes, troubles,
  odd,      \* history: inbounds that met another delivery, or lost their conversation
  cut,      \* history: inbounds of a delivery that failed
  dropped,  \* history: inbounds turned away for want of consent
  stray,    \* history: inbounds answered where the thread does not look
  unseen    \* history: inbounds left to people who are not called, with a draft or not

vars == <<kind, mode, arrived, thread, sessions, convs, msgs, mapped, deliv, pushes, troubles,
          odd, cut, dropped, stray, unseen>>

Inbounds == 1..NumInbounds
Idle == [pc |-> "idle", batch |-> {}, session |-> 0, at |-> 0, conv |-> 0, human |-> FALSE,
         escalated |-> FALSE, off |-> FALSE, since |-> 0, turn |-> 0]
Fresh(s) == [session |-> s, status |-> "ai", escalated |-> FALSE, back |-> FALSE]

Init ==
  /\ kind \in {"push", "poll"} /\ mode \in Modes /\ arrived = 0
  /\ thread = [session |-> 0, conv |-> 0, cursor |-> 0]
  /\ sessions = [count |-> 0, outdated |-> {}]
  /\ convs = <<>> /\ msgs = <<>>
  /\ mapped = [i \in Inbounds |-> 0]
  /\ deliv = [d \in Deliveries |-> Idle]
  /\ pushes = 0 /\ troubles = 0
  /\ odd = {} /\ cut = {} /\ dropped = {} /\ stray = {} /\ unseen = {}

At(d, pc) == deliv[d].pc = pc

\* Mutant: the newest message of a batch is handled first.
First_Newest(batch) == CHOOSE i \in batch : \A j \in batch : j <= i
\* A batch is handled in the order of the platform's ids.
First(batch) == CHOOSE i \in batch : \A j \in batch : i <= j

Cur(d) == First(deliv[d].batch)
Under(ds) == {d \in Deliveries : ds[d].pc # "idle"}
Met(ds) == IF Cardinality(Under(ds)) > 1 THEN {First(ds[d].batch) : d \in Under(ds)} ELSE {}

Move(d, slot) ==
  /\ deliv' = [deliv EXCEPT ![d] = slot]
  /\ odd' = odd \cup Met([deliv EXCEPT ![d] = slot])
Goto(d, pc) == Move(d, [deliv[d] EXCEPT !.pc = pc])
NextInbound(d) ==
  LET left == deliv[d].batch \ {Cur(d)}
  IN Move(d, IF left = {} THEN Idle ELSE [Idle EXCEPT !.pc = "look", !.batch = left])

Open == {"ai", "waiting", "human"}
OpenOf(s) == {c \in DOMAIN convs : convs[c].session = s /\ convs[c].status \in Open}
Latest(cs) == CHOOSE c \in cs : \A k \in cs : k <= c
History == <<cut, dropped, stray, unseen>>
World == <<kind, mode, arrived, pushes, troubles>>
Trouble == troubles < MaxTroubles /\ troubles' = troubles + 1

-----------------------------------------------------------------------------
\* A push of one message, or a pull of all past the cursor.
Start(d) ==
  /\ At(d, "idle")
  /\ \E batch \in (SUBSET (1..arrived)) \ {{}} :
       /\ IF kind = "poll" THEN batch = {i \in 1..arrived : i > thread.cursor}
          ELSE Cardinality(batch) = 1
       /\ Move(d, [Idle EXCEPT !.pc = "look", !.batch = batch])
  /\ IF kind = "push" THEN pushes < MaxPushes /\ pushes' = pushes + 1 ELSE UNCHANGED pushes
  /\ UNCHANGED <<kind, mode, arrived, troubles, thread, sessions, convs, msgs, mapped>>
  /\ UNCHANGED History

ReadThread(d) ==
  Move(d, [deliv[d] EXCEPT !.pc = IF thread.session = 0 THEN "session" ELSE "conv",
                           !.session = thread.session, !.at = thread.conv])

\* Mutant: redeliveries are not looked for.
Look_Always(d) ==
  /\ At(d, "look")
  /\ ReadThread(d)
  /\ UNCHANGED <<thread, sessions, convs, msgs, mapped>> /\ UNCHANGED World /\ UNCHANGED History

\* The thread as it is now; a message that has its map row was handled before.
Look(d) ==
  /\ At(d, "look")
  /\ IF mapped[Cur(d)] # 0 THEN NextInbound(d)
     ELSE ReadThread(d)
  /\ UNCHANGED <<thread, sessions, convs, msgs, mapped>> /\ UNCHANGED World /\ UNCHANGED History

\* resolveSession: a thread without one gets a session, granted as of now.
ResolveSession(d) ==
  /\ At(d, "session")
  /\ sessions' = [sessions EXCEPT !.count = @ + 1]
  /\ thread' = [thread EXCEPT !.session = sessions.count + 1]
  /\ Move(d, [deliv[d] EXCEPT !.pc = "conv", !.session = sessions.count + 1])
  /\ UNCHANGED <<convs, msgs, mapped>> /\ UNCHANGED World /\ UNCHANGED History

\* The conversation as it is resolved, then the high-water mark and the way to answer: an
\* agent on the thread beats every setting.
Enter(d, c, row) ==
  LET human == row.status = "human"
      off == human \/ mode = "off"
  IN Move(d, [deliv[d] EXCEPT !.pc = IF off THEN "store" ELSE "turn", !.off = off, !.conv = c,
                              !.human = human, !.escalated = row.escalated,
                              !.since = Len(msgs), !.at = 0])

\* Mutant: the thread is pointed to new conversations only.
ResolveConversation_KeepsPointer(d) ==
  /\ At(d, "conv")
  /\ LET open == OpenOf(deliv[d].session)
         c == Latest(open)
     IN IF open = {} THEN Goto(d, "open")
        ELSE Enter(d, c, convs[c])
  /\ UNCHANGED <<thread, sessions, convs, msgs, mapped>> /\ UNCHANGED World /\ UNCHANGED History

\* resolveConversation: the thread follows the open conversation of the session.
ResolveConversation(d) ==
  /\ At(d, "conv")
  /\ LET open == OpenOf(deliv[d].session)
         c == Latest(open)
     IN IF open = {} THEN Goto(d, "open") /\ UNCHANGED thread
        ELSE /\ Enter(d, c, convs[c])
             /\ thread' = IF deliv[d].at = c THEN thread ELSE [thread EXCEPT !.conv = c]
  /\ UNCHANGED <<sessions, convs, msgs, mapped>> /\ UNCHANGED World /\ UNCHANGED History

OpenConversation(d) ==
  /\ At(d, "open") /\ Len(convs) < NumConvs
  /\ convs' = Append(convs, Fresh(deliv[d].session))
  /\ thread' = [thread EXCEPT !.conv = Len(convs')]
  /\ Enter(d, Len(convs'), convs'[Len(convs')])
  /\ UNCHANGED <<sessions, msgs, mapped>> /\ UNCHANGED World /\ UNCHANGED History

\* handleUserMessage: an outdated grant keeps nothing; else the message goes to the
\* conversation that is open now, or to a new one.
Turn(d) ==
  LET open == OpenOf(deliv[d].session)
      c == IF open = {} THEN Len(convs) + 1 ELSE Latest(open)
      blocked == deliv[d].session \in sessions.outdated
  IN /\ At(d, "turn")
     /\ IF blocked
        THEN /\ Goto(d, IF mode = "auto" THEN "map" ELSE "page")
             /\ dropped' = dropped \cup {Cur(d)}
             /\ UNCHANGED <<convs, msgs>>
        ELSE /\ c <= NumConvs
             /\ convs' = IF open = {} THEN Append(convs, Fresh(deliv[d].session)) ELSE convs
             /\ msgs' = Append(msgs, [conv |-> c, inbound |-> Cur(d)])
             /\ Move(d, [deliv[d] EXCEPT !.pc = "answer", !.turn = c,
                                         !.human = (convs'[c].status = "human")])
             /\ UNCHANGED dropped
     /\ UNCHANGED <<thread, sessions, mapped, cut, stray, unseen>> /\ UNCHANGED World

Waiting(c) == convs' = [convs EXCEPT ![c].status = "waiting", ![c].escalated = TRUE]

\* The bot is silent under an agent; else it answers or hands off, or leaves a draft.
Answer(d) ==
  /\ At(d, "answer")
  /\ Goto(d, IF mode = "auto" THEN "map" ELSE "page")
  /\ UNCHANGED convs \/ (~deliv[d].human /\ Waiting(deliv[d].turn))
  /\ stray' = IF mode = "auto" /\ ~deliv[d].human /\ deliv[d].turn # thread.conv
              THEN stray \cup {Cur(d)} ELSE stray
  /\ UNCHANGED <<thread, sessions, msgs, mapped, cut, dropped, unseen>> /\ UNCHANGED World

\* Auto-reply off, or a human owned the thread: the message alone.
Store(d) ==
  /\ At(d, "store")
  /\ msgs' = Append(msgs, [conv |-> deliv[d].conv, inbound |-> Cur(d)])
  /\ Move(d, [deliv[d] EXCEPT !.pc = "page", !.turn = deliv[d].conv])
  /\ UNCHANGED <<thread, sessions, convs, mapped>> /\ UNCHANGED World /\ UNCHANGED History

\* Mutant: a draft does not put the conversation in the queue.
Pages_NoDraft(d) == deliv[d].off /\ ~deliv[d].human /\ ~deliv[d].escalated
\* Once per conversation, as it was when it was resolved.
Pages(d) == (~deliv[d].off \/ ~deliv[d].human) /\ ~deliv[d].escalated

Called(c) == convs[c].status \in {"waiting", "human"}

\* escalate, whose failure is swallowed.
Page(d) ==
  /\ At(d, "page")
  /\ IF Pages(d) THEN Waiting(deliv[d].conv) ELSE UNCHANGED convs
  /\ unseen' = IF deliv[d].turn # 0 /\ ~Pages(d) /\ ~Called(deliv[d].turn)
               THEN unseen \cup {[of |-> Cur(d), draft |-> ~deliv[d].off /\ ~deliv[d].human]}
               ELSE unseen
  /\ Goto(d, "map")
  /\ UNCHANGED <<thread, sessions, msgs, mapped, cut, dropped, stray>> /\ UNCHANGED World

PageFails(d) ==
  /\ At(d, "page") /\ Pages(d) /\ Trouble
  /\ cut' = cut \cup {Cur(d)}
  /\ Goto(d, "map")
  /\ UNCHANGED <<kind, mode, arrived, pushes, thread, sessions, convs, msgs, mapped, dropped, stray, unseen>>

\* The first message of the shopper past the mark, taken to be the one just stored; then the
\* cursor, in the same step: a message that is mapped and not yet passed is only looked up again.
TurnsSince(d) == {m \in DOMAIN msgs : m > deliv[d].since /\ msgs[m].conv = deliv[d].conv}
\* Mutant: the cursor names the message to come.
Passed_Next(d) == Cur(d) + 1
Passed(d) == Cur(d)
MapTurn(d) ==
  LET i == Cur(d)
  IN /\ At(d, "map")
     /\ mapped' = IF TurnsSince(d) = {} \/ mapped[i] # 0 THEN mapped
                  ELSE [mapped EXCEPT ![i] = First(TurnsSince(d))]
     /\ thread' = [thread EXCEPT !.cursor = Passed(d)]
     /\ NextInbound(d)
     /\ UNCHANGED <<sessions, convs, msgs>> /\ UNCHANGED History /\ UNCHANGED World

-----------------------------------------------------------------------------
\* ingestBatch: one message that throws does not stop the others.
Throw(d) ==
  /\ deliv[d].pc \in {"look", "session", "conv", "open", "turn", "answer", "store", "map"}
  /\ Trouble
  /\ cut' = cut \cup {Cur(d)}
  /\ NextInbound(d)
  /\ UNCHANGED <<kind, mode, arrived, pushes, thread, sessions, convs, msgs, mapped, dropped, stray, unseen>>

Restart ==
  /\ Trouble
  /\ cut' = cut \cup {Cur(d) : d \in Under(deliv)}
  /\ deliv' = [d \in Deliveries |-> Idle]
  /\ UNCHANGED <<kind, mode, arrived, pushes, thread, sessions, convs, msgs, mapped, odd, dropped, stray, unseen>>

Arrive ==
  /\ arrived < NumInbounds
  /\ arrived' = arrived + 1
  /\ UNCHANGED <<kind, mode, pushes, thread, sessions, convs, msgs, mapped, deliv, troubles, odd>> /\ UNCHANGED History

\* The tenant publishes another notice version: every grant so far is outdated.
Publish ==
  /\ sessions' = [sessions EXCEPT !.outdated = 1..sessions.count]
  /\ sessions' # sessions /\ Trouble
  /\ UNCHANGED <<kind, mode, arrived, pushes, thread, convs, msgs, mapped, deliv, odd>> /\ UNCHANGED History

SetStatus(c, from, to) ==
  /\ convs[c].status \in from
  /\ convs' = [convs EXCEPT ![c].status = to, ![c].back = @ \/ to = "ai"]
  /\ UNCHANGED <<kind, mode, arrived, pushes, thread, sessions, msgs, mapped, deliv>> /\ UNCHANGED History

Accept(c) == SetStatus(c, {"ai", "waiting"}, "human") /\ Trouble /\ UNCHANGED odd
\* handBack: the escalation latch of the conversation stays.
HandBack(c) == SetStatus(c, {"human"}, "ai") /\ UNCHANGED <<troubles, odd>>
Close(c) ==
  /\ Trouble
  /\ SetStatus(c, Open, "closed")
  /\ odd' = odd \cup {Cur(d) : d \in {e \in Under(deliv) : c \in {deliv[e].conv, deliv[e].turn}}}

Next ==
  \/ \E d \in Deliveries :
       \/ Start(d) \/ Look(d) \/ ResolveSession(d) \/ ResolveConversation(d) \/ OpenConversation(d)
       \/ Turn(d) \/ Answer(d) \/ Store(d) \/ Page(d) \/ PageFails(d)
       \/ MapTurn(d) \/ Throw(d)
  \/ \E c \in DOMAIN convs : Accept(c) \/ HandBack(c) \/ Close(c)
  \/ Arrive \/ Publish \/ Restart

Spec == Init /\ [][Next]_vars

-----------------------------------------------------------------------------
TypeOK ==
  /\ kind \in {"push", "poll"} /\ mode \in Modes /\ arrived \in 0..NumInbounds
  /\ thread \in [session : 0..sessions.count, conv : 0..Len(convs), cursor : 0..arrived]
  /\ sessions.outdated \subseteq 1..sessions.count
  /\ \A c \in DOMAIN convs :
       convs[c] \in [session : 1..sessions.count, status : Open \cup {"closed"},
                     escalated : BOOLEAN, back : BOOLEAN]
  /\ \A m \in DOMAIN msgs : msgs[m] \in [conv : DOMAIN convs, inbound : 1..arrived]
  /\ mapped \in [Inbounds -> 0..Len(msgs)]
  /\ \A d \in Under(deliv) : deliv[d].batch \in (SUBSET (1..arrived)) \ {{}} /\ deliv[d].conv <= Len(convs)
  /\ odd \cup cut \cup dropped \cup stray \subseteq 1..arrived
  /\ unseen \subseteq [of : 1..arrived, draft : BOOLEAN]

Copies(i) == {m \in DOMAIN msgs : msgs[m].inbound = i}

(* A message the platform delivers again is stored once and mapped to that *)
(* very turn, for good, unless two deliveries of the thread ran together,  *)
(* its conversation was closed under it, or a delivery of it failed.       *)
RedeliveryIsHarmless ==
  \A i \in 1..arrived \ (odd \cup cut) :
    /\ Cardinality(Copies(i)) <= 1
    /\ mapped[i] # 0 => mapped[i] \in Copies(i)

(* A poll never leaves a message behind its cursor that is not stored,     *)
(* with whatever a manual fetch does at the same time, unless a delivery   *)
(* of this message failed or lacked consent.                               *)
PollPassesNone ==
  kind = "poll" => \A i \in 1..thread.cursor \ (cut \cup dropped) : Copies(i) # {}

(* The bot answers in the conversation the relay reads, also after the     *)
(* thread's session or conversation was made twice: one later delivery     *)
(* that runs alone sets the thread right.                                  *)
AnswersAreRelayed == stray \subseteq odd

(* With the answer left to people, somebody is called or has the           *)
(* conversation once the message is handled, unless an agent gave this     *)
(* conversation back before.                                               *)
SomebodyIsCalled ==
  \A u \in unseen : u.of \in odd \cup cut \/ \E m \in Copies(u.of) : convs[msgs[m].conv].back
=============================================================================
