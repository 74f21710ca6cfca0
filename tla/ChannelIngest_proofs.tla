------------------------ MODULE ChannelIngest_proofs ------------------------
(***************************************************************************)
(* For any number of deliveries, messages and conversations: a poll passes *)
(* no message by, a redelivery stores nothing again, the bot answers where *)
(* the relay reads, and people who are left with a message are called.     *)
(*                                                                         *)
(* The invariants come in layers, each proved from those before it: what   *)
(* the state is made of (Shape), what a poll has passed (Passing), *)
(* what a delivery that runs alone may rely on (Certain), the rows of a    *)
(* message (Rows), and the latches of the queue (Latches).                 *)
(***************************************************************************)
EXTENDS ChannelIngest, SequenceTheorems, FiniteSetTheorems, WellFoundedInduction, TLAPS

Before == {"look", "session", "conv", "open"}
Entered == {"turn", "answer", "store", "page", "map"}
Done == {"answer", "page", "map"}
Works(d) == deliv[d].pc # "idle"

SlotTypes ==
  [pc : {"idle"} \cup Before \cup Entered, batch : SUBSET Inbounds, session : Nat, at : Nat,
   conv : Nat, human : BOOLEAN, escalated : BOOLEAN, off : BOOLEAN, since : Nat, turn : Nat]
ConvRows == [session : Nat \ {0}, status : Open \cup {"closed"}, escalated : BOOLEAN, back : BOOLEAN]
MsgRows == [conv : Nat \ {0}, inbound : Inbounds]

TypedRows ==
  /\ kind \in {"push", "poll"} /\ mode \in Modes /\ arrived \in 0..NumInbounds
  /\ thread \in [session : Nat, conv : Nat, cursor : Nat]
  /\ sessions \in [count : Nat, outdated : SUBSET Nat]
  /\ convs \in Seq(ConvRows) /\ msgs \in Seq(MsgRows)
  /\ mapped \in [Inbounds -> Nat]
TypedSlots ==
  /\ deliv \in [Deliveries -> SlotTypes]
  /\ \A d \in Deliveries : Works(d) => deliv[d].batch # {}
Typed == TypedRows /\ TypedSlots

\* What a delivery refers to, at each of its steps.
SlotOK(slot) ==
  /\ slot.batch \subseteq 1..arrived
  /\ slot.session <= sessions.count /\ slot.at <= Len(convs) /\ slot.conv <= Len(convs)
  /\ slot.turn <= Len(convs) /\ slot.since <= Len(msgs)
  /\ slot.pc \in {"conv", "open"} \cup Entered => slot.session # 0
  /\ slot.pc \in Entered => slot.conv # 0
  /\ slot.pc = "answer" => slot.turn # 0
  /\ slot.pc \in Before \cup {"turn", "store"} => slot.turn = 0

BoundedRows ==
  /\ thread.session <= sessions.count /\ thread.conv <= Len(convs) /\ thread.cursor <= arrived
  /\ sessions.outdated \subseteq 1..sessions.count
  /\ \A c \in 1..Len(convs) : convs[c].session <= sessions.count
  /\ \A m \in 1..Len(msgs) : msgs[m].conv <= Len(convs) /\ msgs[m].inbound <= arrived
  /\ \A i \in Inbounds : mapped[i] <= Len(msgs)
  /\ cut \cup dropped \cup stray \subseteq 1..arrived
  /\ unseen \subseteq [of : 1..arrived, draft : BOOLEAN]
BoundedSlots == (\A d \in Deliveries : SlotOK(deliv[d])) /\ odd \subseteq 1..arrived

Shape == Typed /\ BoundedRows /\ BoundedSlots

-----------------------------------------------------------------------------
(* Least and greatest: a family of subsets of a finite set has a minimal    *)
(* member, hence a bounded set of numbers a least and a greatest one.       *)

HasMinimal(T) == \E A \in T : \A B \in T : B \subseteq A => B = A

\* A family of subsets of a finite set has a minimal member.
LEMMA MinimalSet ==
  ASSUME NEW U, IsFiniteSet(U), NEW T, T \subseteq SUBSET U, T # {}
  PROVE  HasMinimal(T)
<1> DEFINE R == StrictSubsetOrdering(U)
<1>1. IsWellFoundedOn(R, SUBSET U)
  BY FS_FiniteSubsetsOfFinite, FS_StrictSubsetOrderingWellFounded
<1> HIDE DEF R
<1>2. PICK A \in T : \A B \in T : ~(<<B, A>> \in R)
  BY <1>1, WFMin
<1> QED
  BY <1>2 DEF R, StrictSubsetOrdering, HasMinimal

LEMMA LeastOf ==
  ASSUME NEW n \in Nat, NEW S, S \subseteq 1..n, S # {}
  PROVE  \E k \in S : \A m \in S : k <= m
<1> DEFINE Below(x) == {m \in S : m <= x}
<1>1. IsFiniteSet(S)
  <2>1. IsFiniteSet(1..n)
    BY FS_Interval
  <2>2. PICK U : U = 1..n
    OBVIOUS
  <2>3. IsFiniteSet(U) /\ S \in SUBSET U
    BY <2>1, <2>2
  <2> QED
    BY <2>3, FS_Subset
<1>2. PICK T : T = {Below(x) : x \in S}
  OBVIOUS
<1>3. T \subseteq SUBSET S /\ T # {}
  BY <1>2
<1>4. PICK A \in T : \A B \in T : B \subseteq A => B = A
  <2>1. HasMinimal(T)
    BY <1>1, <1>3, MinimalSet
  <2> QED
    BY <2>1 DEF HasMinimal
<1>5. PICK k \in S : A = Below(k)
  BY <1>2
<1>6. ASSUME NEW m \in S PROVE k <= m
  <2>1. k \in Nat /\ m \in Nat /\ \A x \in S : x \in Nat
    OBVIOUS
  <2>2. m < k => Below(m) \subseteq Below(k)
    <3>1. \A x \in Nat : m < k /\ x <= m => x <= k
      BY <2>1
    <3> QED
      BY <2>1, <3>1
  <2>3. m < k => Below(m) = Below(k)
    BY <1>2, <1>4, <1>5, <2>2
  <2>4. k \in Below(k)
    BY <2>1
  <2> QED
    BY <2>1, <2>3, <2>4
<1> QED
  BY <1>6

LEMMA GreatestOf ==
  ASSUME NEW n \in Nat, NEW S, S \subseteq 1..n, S # {}
  PROVE  \E k \in S : \A m \in S : m <= k
<1> DEFINE T == {n + 1 - k : k \in S}
<1>1. \A k \in S : k \in 1..n /\ n + 1 - k \in 1..n
  OBVIOUS
<1>2. T \subseteq 1..n /\ T # {}
  BY <1>1
<1>3. \A k \in S : n + 1 - k \in T
  OBVIOUS
<1>4. \A t \in T : \E k \in S : t = n + 1 - k
  OBVIOUS
<1> HIDE DEF T
<1>5. PICK t \in T : \A u \in T : t <= u
  BY <1>2, LeastOf
<1>6. PICK k \in S : t = n + 1 - k
  BY <1>4
<1>7. ASSUME NEW m \in S PROVE m <= k
  <2>1. n + 1 - k <= n + 1 - m
    BY <1>3, <1>5, <1>6
  <2> QED
    BY <1>1, <2>1
<1> QED
  BY <1>7

LEMMA FirstOf ==
  ASSUME NEW n \in Nat, NEW S, S \subseteq 1..n, S # {}
  PROVE  First(S) \in S /\ \A j \in S : First(S) <= j
<1>1. PICK k \in S : \A j \in S : k <= j
  BY LeastOf
<1> QED
  BY <1>1 DEF First

LEMMA LatestOf ==
  ASSUME NEW n \in Nat, NEW S, S \subseteq 1..n, S # {}
  PROVE  Latest(S) \in S /\ \A j \in S : j <= Latest(S)
<1>1. PICK k \in S : \A j \in S : j <= k
  BY GreatestOf
<1> QED
  BY <1>1 DEF Latest

LEMMA CurOf ==
  ASSUME Typed, NEW d \in Deliveries, Works(d)
  PROVE  /\ Cur(d) \in deliv[d].batch /\ Cur(d) \in Inbounds
         /\ \A j \in deliv[d].batch : Cur(d) <= j
<1>1. deliv[d].batch \subseteq 1..NumInbounds /\ deliv[d].batch # {}
  BY DEF Typed, TypedSlots, SlotTypes, Works, Inbounds
<1>2. NumInbounds \in Nat
  BY IngestAssumption
<1> QED
  BY <1>1, <1>2, FirstOf DEF Cur, Inbounds

LEMMA OpenConvs ==
  ASSUME Typed, NEW s
  PROVE  /\ OpenOf(s) \subseteq 1..Len(convs)
         /\ OpenOf(s) # {} => /\ Latest(OpenOf(s)) \in OpenOf(s)
                              /\ \A k \in OpenOf(s) : k <= Latest(OpenOf(s))
<1>1. OpenOf(s) \subseteq 1..Len(convs) /\ Len(convs) \in Nat
  BY LenProperties DEF Typed, TypedRows, OpenOf
<1> QED
  BY <1>1, LatestOf

\* Two deliveries that work at once are both seen to meet.
LEMMA MetOf ==
  ASSUME NEW ds, NEW d \in Under(ds), NEW e \in Under(ds), d # e
  PROVE  {First(ds[d].batch), First(ds[e].batch)} \subseteq Met(ds)
<1>1. IsFiniteSet(Under(ds))
  BY IngestAssumption, FS_Subset DEF Under
<1>2. {d, e} \in SUBSET Under(ds)
  OBVIOUS
<1>3. Cardinality({d, e}) = 2
  <2>1. IsFiniteSet({d}) /\ Cardinality({d}) = 1
    BY FS_Singleton
  <2>2. Cardinality({d} \cup {e}) = Cardinality({d}) + 1
    BY <2>1, FS_AddElement
  <2>3. {d} \cup {e} = {d, e}
    OBVIOUS
  <2> QED
    BY <2>1, <2>2, <2>3
<1>4. Cardinality({d, e}) <= Cardinality(Under(ds)) /\ Cardinality(Under(ds)) \in Nat
  BY <1>1, <1>2, FS_Subset, FS_CardinalityType
<1>5. Cardinality(Under(ds)) > 1
  BY <1>3, <1>4
<1> QED
  BY <1>5 DEF Met

-----------------------------------------------------------------------------
(* What each step makes of the slot of its delivery.                        *)

Keeps(a, b) ==
  /\ b.batch = a.batch /\ b.session = a.session /\ b.at = a.at /\ b.conv = a.conv
  /\ b.human = a.human /\ b.escalated = a.escalated /\ b.off = a.off
  /\ b.since = a.since /\ b.turn = a.turn

Moves(d) ==
  /\ deliv' \in [Deliveries -> SlotTypes]
  /\ \A e \in Deliveries \ {d} : deliv'[e] = deliv[e]
  /\ odd' = odd \cup Met(deliv')

LEMMA MoveSlot ==
  ASSUME Typed, NEW d \in Deliveries, NEW slot \in SlotTypes, Move(d, slot)
  PROVE  Moves(d) /\ deliv'[d] = slot
  BY DEF Typed, TypedSlots, Move, Moves

LEMMA IdleSlot == Idle \in SlotTypes /\ Idle.pc = "idle" /\ Idle.turn = 0 /\ Idle.session = 0
                  /\ Idle.at = 0 /\ Idle.conv = 0 /\ Idle.since = 0 /\ Idle.batch = {}
  BY DEF Idle, SlotTypes

LEMMA GotoSlot ==
  ASSUME Typed, NEW d \in Deliveries, NEW pc \in {"idle"} \cup Before \cup Entered, Goto(d, pc)
  PROVE  Moves(d) /\ deliv'[d].pc = pc /\ Keeps(deliv[d], deliv'[d])
<1>1. PICK slot : slot = [deliv[d] EXCEPT !.pc = pc]
  OBVIOUS
<1>2. slot \in SlotTypes /\ slot.pc = pc /\ Keeps(deliv[d], slot)
  BY <1>1 DEF Typed, TypedSlots, SlotTypes, Keeps
<1>3. Move(d, slot)
  BY <1>1 DEF Goto
<1> QED
  BY <1>2, <1>3, MoveSlot

\* A delivery at the first message of what is left of a batch.
Looks(slot, batch) ==
  /\ slot.pc = "look" /\ slot.batch = batch /\ batch # {}
  /\ slot.session = 0 /\ slot.at = 0 /\ slot.conv = 0 /\ slot.since = 0 /\ slot.turn = 0

LEMMA LookSlot ==
  ASSUME Typed, NEW d \in Deliveries, NEW batch \in SUBSET Inbounds, batch # {},
         Move(d, [Idle EXCEPT !.pc = "look", !.batch = batch])
  PROVE  Moves(d) /\ Looks(deliv'[d], batch)
<1>1. PICK slot : slot = [Idle EXCEPT !.pc = "look", !.batch = batch]
  OBVIOUS
<1>2. slot \in SlotTypes /\ Looks(slot, batch)
  BY <1>1 DEF SlotTypes, Looks, Idle, Before
<1>3. Move(d, slot)
  BY <1>1
<1> QED
  BY <1>2, <1>3, MoveSlot

\* The delivery is through with a message.
Leaves(d) ==
  /\ Moves(d)
  /\ \/ deliv'[d] = Idle /\ deliv[d].batch \ {Cur(d)} = {}
     \/ Looks(deliv'[d], deliv[d].batch \ {Cur(d)})

LEMMA LeaveSlot ==
  ASSUME Typed, NEW d \in Deliveries, NextInbound(d)
  PROVE  Leaves(d)
<1>1. PICK left : left = deliv[d].batch \ {Cur(d)}
  OBVIOUS
<1>2. left \in SUBSET Inbounds
  BY <1>1 DEF Typed, TypedSlots, SlotTypes
<1>3. CASE left = {}
  <2>1. Move(d, Idle)
    BY <1>1, <1>3 DEF NextInbound
  <2> QED
    BY <1>1, <1>3, <2>1, IdleSlot, MoveSlot DEF Leaves
<1>4. CASE left # {}
  <2>1. Move(d, [Idle EXCEPT !.pc = "look", !.batch = left])
    BY <1>1, <1>4 DEF NextInbound
  <2> QED
    BY <1>1, <1>2, <1>4, <2>1, LookSlot DEF Leaves
<1> QED
  BY <1>3, <1>4

LEMMA ReadSlot ==
  ASSUME Typed, NEW d \in Deliveries, ReadThread(d)
  PROVE  /\ Moves(d)
         /\ deliv'[d].pc = IF thread.session = 0 THEN "session" ELSE "conv"
         /\ deliv'[d].batch = deliv[d].batch
         /\ deliv'[d].session = thread.session /\ deliv'[d].at = thread.conv
         /\ deliv'[d].conv = deliv[d].conv /\ deliv'[d].since = deliv[d].since
         /\ deliv'[d].turn = deliv[d].turn
<1>1. PICK pc : pc = IF thread.session = 0 THEN "session" ELSE "conv"
  OBVIOUS
<1>2. PICK slot : slot = [deliv[d] EXCEPT !.pc = pc, !.session = thread.session, !.at = thread.conv]
  OBVIOUS
<1>3. pc \in {"session", "conv"} /\ thread.session \in Nat /\ thread.conv \in Nat
  BY <1>1 DEF Typed, TypedRows
<1>4. /\ slot \in SlotTypes /\ slot.pc = pc /\ slot.batch = deliv[d].batch
      /\ slot.session = thread.session /\ slot.at = thread.conv /\ slot.conv = deliv[d].conv
      /\ slot.since = deliv[d].since /\ slot.turn = deliv[d].turn
  BY <1>2, <1>3 DEF Typed, TypedSlots, SlotTypes, Before
<1>5. Move(d, slot)
  BY <1>1, <1>2 DEF ReadThread
<1> QED
  BY <1>1, <1>4, <1>5, MoveSlot

LEMMA ResolveSessionSlot ==
  ASSUME Typed, NEW d \in Deliveries, ResolveSession(d)
  PROVE  /\ Moves(d) /\ deliv'[d].pc = "conv" /\ deliv'[d].batch = deliv[d].batch
         /\ deliv'[d].session = sessions.count + 1 /\ deliv'[d].at = deliv[d].at
         /\ deliv'[d].conv = deliv[d].conv /\ deliv'[d].since = deliv[d].since
         /\ deliv'[d].turn = deliv[d].turn
<1>1. PICK slot : slot = [deliv[d] EXCEPT !.pc = "conv", !.session = sessions.count + 1]
  OBVIOUS
<1>2. sessions.count + 1 \in Nat
  BY DEF Typed, TypedRows
<1>3. /\ slot \in SlotTypes /\ slot.pc = "conv" /\ slot.batch = deliv[d].batch
      /\ slot.session = sessions.count + 1 /\ slot.at = deliv[d].at /\ slot.conv = deliv[d].conv
      /\ slot.since = deliv[d].since /\ slot.turn = deliv[d].turn
  BY <1>1, <1>2 DEF Typed, TypedSlots, SlotTypes, Before
<1> QED
  BY <1>1, <1>3, MoveSlot DEF ResolveSession

\* What a delivery keeps of the conversation it enters.
Enters(d, c, row) ==
  /\ Moves(d)
  /\ deliv'[d].batch = deliv[d].batch /\ deliv'[d].session = deliv[d].session
  /\ deliv'[d].conv = c /\ deliv'[d].at = 0 /\ deliv'[d].since = Len(msgs)
  /\ deliv'[d].turn = deliv[d].turn
  /\ deliv'[d].pc \in {"turn", "store"}
  /\ deliv'[d].human <=> row.status = "human"
  /\ deliv'[d].escalated <=> row.escalated
  /\ deliv'[d].off <=> deliv'[d].pc = "store"
  /\ row.status = "human" => deliv'[d].off

LEMMA EnterSlot ==
  ASSUME Typed, NEW d \in Deliveries, NEW c \in Nat, NEW row \in ConvRows, Enter(d, c, row)
  PROVE  Enters(d, c, row)
<1>1. PICK human \in BOOLEAN : human = (row.status = "human")
  OBVIOUS
<1>2. PICK off \in BOOLEAN : off = ((row.status = "human") \/ mode = "off")
  OBVIOUS
<1>3. PICK pc : pc = IF (row.status = "human") \/ mode = "off" THEN "store" ELSE "turn"
  OBVIOUS
<1>4. PICK slot : slot = [deliv[d] EXCEPT !.pc = pc, !.off = off, !.conv = c, !.human = human,
                                          !.escalated = row.escalated, !.since = Len(msgs), !.at = 0]
  OBVIOUS
<1>5. pc \in {"store", "turn"} /\ row.escalated \in BOOLEAN /\ Len(msgs) \in Nat
  BY <1>3, LenProperties DEF Typed, TypedRows, ConvRows
<1>6. /\ slot \in SlotTypes /\ slot.pc = pc /\ slot.batch = deliv[d].batch
      /\ slot.session = deliv[d].session /\ slot.at = 0 /\ slot.conv = c
      /\ slot.human = human /\ slot.escalated = row.escalated /\ slot.off = off
      /\ slot.since = Len(msgs) /\ slot.turn = deliv[d].turn
  BY ZenonT(30), <1>4, <1>5 DEF Typed, TypedSlots, SlotTypes, Entered
<1>7. Move(d, slot)
  BY Zenon, <1>1, <1>2, <1>3, <1>4 DEF Enter
<1>8. Moves(d) /\ deliv'[d] = slot
  BY <1>6, <1>7, MoveSlot
<1>9. off <=> pc = "store"
  BY <1>2, <1>3
<1> QED
  BY <1>1, <1>2, <1>5, <1>6, <1>8, <1>9 DEF Enters

LEMMA StoreSlot ==
  ASSUME Typed, NEW d \in Deliveries, Store(d)
  PROVE  /\ Moves(d) /\ deliv'[d].pc = "page" /\ deliv'[d].batch = deliv[d].batch
         /\ deliv'[d].session = deliv[d].session /\ deliv'[d].at = deliv[d].at
         /\ deliv'[d].conv = deliv[d].conv /\ deliv'[d].turn = deliv[d].conv
         /\ deliv'[d].human = deliv[d].human /\ deliv'[d].escalated = deliv[d].escalated
         /\ deliv'[d].off = deliv[d].off /\ deliv'[d].since = deliv[d].since
<1>1. PICK slot : slot = [deliv[d] EXCEPT !.pc = "page", !.turn = deliv[d].conv]
  OBVIOUS
<1>2. /\ slot \in SlotTypes /\ slot.pc = "page" /\ slot.batch = deliv[d].batch
      /\ slot.session = deliv[d].session /\ slot.at = deliv[d].at /\ slot.conv = deliv[d].conv
      /\ slot.turn = deliv[d].conv /\ slot.human = deliv[d].human
      /\ slot.escalated = deliv[d].escalated /\ slot.off = deliv[d].off
      /\ slot.since = deliv[d].since
  BY <1>1 DEF Typed, TypedSlots, SlotTypes, Entered
<1> QED
  BY <1>1, <1>2, MoveSlot DEF Store

\* A turn the session consented to goes to its open conversation, or to a new one.
TurnConv(d) == IF OpenOf(deliv[d].session) = {} THEN Len(convs) + 1 ELSE Latest(OpenOf(deliv[d].session))

Blocked(d) == deliv[d].session \in sessions.outdated

LEMMA TurnConvOf ==
  ASSUME Typed, NEW d \in Deliveries
  PROVE  TurnConv(d) \in Nat \ {0} /\ TurnConv(d) <= Len(convs) + 1
<1>1. Len(convs) \in Nat
  BY LenProperties DEF Typed, TypedRows
<1>2. CASE OpenOf(deliv[d].session) = {}
  BY <1>1, <1>2 DEF TurnConv
<1>3. CASE OpenOf(deliv[d].session) # {}
  <2>1. Latest(OpenOf(deliv[d].session)) \in 1..Len(convs)
    BY <1>3, OpenConvs
  <2> QED
    BY <1>1, <1>3, <2>1 DEF TurnConv
<1> QED
  BY <1>2, <1>3

LEMMA TurnSlot ==
  ASSUME Typed, NEW d \in Deliveries, Turn(d), ~Blocked(d)
  PROVE  /\ Moves(d) /\ deliv'[d].pc = "answer" /\ deliv'[d].batch = deliv[d].batch
         /\ deliv'[d].session = deliv[d].session /\ deliv'[d].at = deliv[d].at
         /\ deliv'[d].conv = deliv[d].conv /\ deliv'[d].turn = TurnConv(d)
         /\ deliv'[d].escalated = deliv[d].escalated
         /\ deliv'[d].off = deliv[d].off /\ deliv'[d].since = deliv[d].since
<1>1. PICK c : c = TurnConv(d)
  OBVIOUS
<1>2. PICK human \in BOOLEAN : human = (convs'[c].status = "human")
  OBVIOUS
<1>3. PICK slot : slot = [deliv[d] EXCEPT !.pc = "answer", !.turn = c, !.human = human]
  OBVIOUS
<1>4. c \in Nat
  BY <1>1, TurnConvOf
<1>5. /\ slot \in SlotTypes /\ slot.pc = "answer" /\ slot.batch = deliv[d].batch
      /\ slot.session = deliv[d].session /\ slot.at = deliv[d].at /\ slot.conv = deliv[d].conv
      /\ slot.turn = c /\ slot.escalated = deliv[d].escalated /\ slot.off = deliv[d].off
      /\ slot.since = deliv[d].since
  BY <1>3, <1>4 DEF Typed, TypedSlots, SlotTypes, Entered
<1>6. Move(d, slot)
  BY Zenon, <1>1, <1>2, <1>3 DEF Turn, TurnConv, Blocked
<1> QED
  BY <1>1, <1>5, <1>6, MoveSlot

-----------------------------------------------------------------------------
(* What a step may do to the rows: they are never removed, a message stays  *)
(* as it is, a conversation keeps its session and its latches.              *)

RowsGrow ==
  /\ convs' \in Seq(ConvRows) /\ Len(convs) <= Len(convs')
  /\ \A c \in 1..Len(convs) :
       /\ convs'[c].session = convs[c].session
       /\ convs[c].escalated => convs'[c].escalated
       /\ convs[c].back => convs'[c].back
       /\ convs[c].status # "ai" => convs'[c].status # "ai" \/ convs'[c].back
  /\ \A c \in 1..Len(convs') :
       /\ c > Len(convs) => convs'[c].session <= sessions'.count /\ ~convs'[c].escalated
       /\ c <= Len(convs) /\ convs'[c].escalated /\ convs'[c].status = "ai"
            => convs'[c].back \/ (convs[c].escalated /\ convs[c].status = "ai")

MsgsGrow ==
  /\ msgs' \in Seq(MsgRows) /\ Len(msgs) <= Len(msgs')
  /\ \A m \in 1..Len(msgs) : msgs'[m] = msgs[m]

Grow ==
  /\ kind' = kind /\ mode' = mode
  /\ arrived <= arrived' /\ sessions.count <= sessions'.count
  /\ RowsGrow /\ MsgsGrow
  /\ odd \subseteq odd' /\ cut \subseteq cut' /\ dropped \subseteq dropped' /\ unseen \subseteq unseen'

LEMMA SetRow ==
  ASSUME Typed, NEW c \in 1..Len(convs), NEW row \in ConvRows, convs' = [convs EXCEPT ![c] = row]
  PROVE  /\ convs' \in Seq(ConvRows) /\ Len(convs') = Len(convs) /\ convs'[c] = row
         /\ \A k \in 1..Len(convs) \ {c} : convs'[k] = convs[k]
<1>1. convs \in Seq(ConvRows)
  BY DEF Typed, TypedRows
<1> QED
  BY <1>1, ExceptSeq

LEMMA RowOf ==
  ASSUME Typed
  PROVE  /\ Len(convs) \in Nat /\ DOMAIN convs = 1..Len(convs)
         /\ \A c \in 1..Len(convs) :
              /\ convs[c] \in ConvRows /\ convs[c].session \in Nat \ {0}
              /\ convs[c].status \in Open \cup {"closed"}
              /\ convs[c].escalated \in BOOLEAN /\ convs[c].back \in BOOLEAN
         /\ Len(msgs) \in Nat /\ DOMAIN msgs = 1..Len(msgs)
         /\ \A m \in 1..Len(msgs) : /\ msgs[m] \in MsgRows /\ msgs[m].conv \in Nat \ {0}
                                    /\ msgs[m].inbound \in Inbounds
<1>1. convs \in Seq(ConvRows) /\ msgs \in Seq(MsgRows)
  BY DEF Typed, TypedRows
<1>2. Len(convs) \in Nat /\ DOMAIN convs = 1..Len(convs) /\ Len(msgs) \in Nat /\ DOMAIN msgs = 1..Len(msgs)
  BY <1>1, LenProperties
<1>3. \A c \in 1..Len(convs) : convs[c] \in ConvRows
  BY <1>1, ElementOfSeq
<1>4. \A m \in 1..Len(msgs) : msgs[m] \in MsgRows
  BY <1>1, ElementOfSeq
<1> QED
  BY <1>2, <1>3, <1>4 DEF ConvRows, MsgRows

\* Only row c changes, and only its status and latches.
Changes(c) ==
  /\ convs' \in Seq(ConvRows) /\ Len(convs') = Len(convs)
  /\ \A k \in 1..Len(convs) \ {c} : convs'[k] = convs[k]
  /\ convs'[c].session = convs[c].session

LEMMA WaitingRow ==
  ASSUME Typed, NEW c \in 1..Len(convs), Waiting(c)
  PROVE  /\ Changes(c) /\ RowsGrow
         /\ convs'[c].status = "waiting" /\ convs'[c].escalated /\ convs'[c].back = convs[c].back
<1>1. PICK row : row = [convs[c] EXCEPT !.status = "waiting", !.escalated = TRUE]
  OBVIOUS
<1>2. /\ row \in ConvRows /\ row.session = convs[c].session /\ row.status = "waiting"
      /\ row.escalated /\ row.back = convs[c].back
  BY <1>1, RowOf DEF ConvRows, Open
<1>3. convs' = [convs EXCEPT ![c] = row]
  BY <1>1 DEF Waiting
<1>4. Changes(c) /\ convs'[c] = row
  BY <1>2, <1>3, SetRow DEF Changes
<1>5. RowsGrow
  BY <1>2, <1>4, RowOf DEF Changes, RowsGrow
<1> QED
  BY <1>2, <1>4, <1>5

LEMMA StatusRow ==
  ASSUME Typed, NEW c \in 1..Len(convs), NEW from, NEW to \in Open \cup {"closed"},
         SetStatus(c, from, to)
  PROVE  Changes(c) /\ RowsGrow /\ convs'[c].status = to
<1>1. PICK back \in BOOLEAN : back = (convs[c].back \/ to = "ai")
  OBVIOUS
<1>2. PICK row : row = [convs[c] EXCEPT !.status = to, !.back = back]
  OBVIOUS
<1>3. /\ row \in ConvRows /\ row.session = convs[c].session /\ row.status = to
      /\ row.escalated = convs[c].escalated /\ row.back = back
  BY <1>2, RowOf DEF ConvRows
<1>4. convs' = [convs EXCEPT ![c] = row]
  BY Zenon, <1>1, <1>2 DEF SetStatus
<1>5. Changes(c) /\ convs'[c] = row
  BY <1>3, <1>4, SetRow DEF Changes
<1>6. (convs[c].back => convs'[c].back) /\ (to = "ai" => convs'[c].back)
  BY <1>1, <1>3, <1>5
<1> QED
  BY <1>3, <1>5, <1>6, RowOf DEF Changes, RowsGrow

LEMMA NewRow ==
  ASSUME Typed, NEW s \in Nat \ {0}, s <= sessions'.count, convs' = Append(convs, Fresh(s))
  PROVE  /\ RowsGrow /\ Len(convs') = Len(convs) + 1
         /\ \A c \in 1..Len(convs) : convs'[c] = convs[c]
         /\ convs'[Len(convs) + 1] = Fresh(s)
<1>1. convs \in Seq(ConvRows)
  BY DEF Typed, TypedRows
<1>2. PICK row : row = Fresh(s)
  OBVIOUS
<1>3. row \in ConvRows /\ row.session = s /\ row.status = "ai" /\ ~row.escalated
  BY <1>2 DEF Fresh, ConvRows, Open
<1>4. /\ convs' \in Seq(ConvRows) /\ Len(convs') = Len(convs) + 1
      /\ \A c \in 1..Len(convs) : convs'[c] = convs[c]
      /\ convs'[Len(convs) + 1] = row
  BY <1>1, <1>2, <1>3, AppendProperties
<1>5. \A c \in 1..Len(convs') : c > Len(convs) => c = Len(convs) + 1
  BY <1>4, RowOf
<1> QED
  BY <1>2, <1>3, <1>4, <1>5, RowOf DEF RowsGrow

LEMMA SameRows ==
  ASSUME Typed, convs' = convs
  PROVE  RowsGrow
  BY RowOf DEF Typed, TypedRows, RowsGrow

LEMMA NewMsg ==
  ASSUME Typed, NEW c \in Nat \ {0}, NEW i \in Inbounds,
         msgs' = Append(msgs, [conv |-> c, inbound |-> i])
  PROVE  /\ MsgsGrow /\ Len(msgs') = Len(msgs) + 1
         /\ msgs'[Len(msgs) + 1] = [conv |-> c, inbound |-> i]
<1>1. msgs \in Seq(MsgRows)
  BY DEF Typed, TypedRows
<1>2. PICK row : row = [conv |-> c, inbound |-> i]
  OBVIOUS
<1>3. row \in MsgRows
  BY <1>2 DEF MsgRows
<1>4. /\ msgs' \in Seq(MsgRows) /\ Len(msgs') = Len(msgs) + 1
      /\ \A m \in 1..Len(msgs) : msgs'[m] = msgs[m]
      /\ msgs'[Len(msgs) + 1] = row
  BY <1>1, <1>2, <1>3, AppendProperties
<1> QED
  BY <1>2, <1>4, RowOf DEF MsgsGrow

LEMMA SameMsgs ==
  ASSUME Typed, msgs' = msgs
  PROVE  MsgsGrow
  BY RowOf DEF Typed, TypedRows, MsgsGrow

-----------------------------------------------------------------------------
(* The shape of the state is kept, and rows only grow.                      *)

LEMMA CurArrived ==
  ASSUME Shape, NEW d \in Deliveries, Works(d)
  PROVE  Cur(d) \in 1..arrived
  BY CurOf DEF Shape, BoundedSlots, SlotOK

LEMMA SlotStays ==
  ASSUME Shape, Grow, arrived' \in Nat, sessions'.count \in Nat, NEW e \in Deliveries,
         deliv'[e] = deliv[e]
  PROVE  SlotOK(deliv[e])'
<1>1. PICK slot : slot = deliv[e]
  OBVIOUS
<1>2. SlotOK(slot) /\ slot \in SlotTypes
  BY <1>1 DEF Shape, BoundedSlots, Typed, TypedSlots
<1>3. /\ slot.session \in Nat /\ slot.at \in Nat /\ slot.conv \in Nat /\ slot.turn \in Nat
      /\ slot.since \in Nat
  BY <1>2 DEF SlotTypes
<1>4. /\ arrived <= arrived' /\ sessions.count <= sessions'.count /\ Len(convs) <= Len(convs')
      /\ Len(msgs) <= Len(msgs')
  BY DEF Grow, RowsGrow, MsgsGrow
<1>5. /\ arrived \in Nat /\ sessions.count \in Nat /\ Len(convs) \in Nat /\ Len(msgs) \in Nat
      /\ Len(convs') \in Nat /\ Len(msgs') \in Nat
  <2>1. convs' \in Seq(ConvRows) /\ msgs' \in Seq(MsgRows)
    BY DEF Grow, RowsGrow, MsgsGrow
  <2> QED
    BY <2>1, IngestAssumption, RowOf, LenProperties DEF Shape, Typed, TypedRows
<1>6. slot.batch \subseteq 1..arrived'
  BY <1>2, <1>4, <1>5 DEF SlotOK
<1>7. SlotOK(slot)'
  <2>1. /\ slot.session <= sessions'.count /\ slot.at <= Len(convs') /\ slot.conv <= Len(convs')
        /\ slot.turn <= Len(convs') /\ slot.since <= Len(msgs')
    BY SMTT(20), <1>2, <1>3, <1>4, <1>5 DEF SlotOK
  <2> QED
    BY <1>2, <1>6, <2>1 DEF SlotOK
<1> QED
  BY <1>1, <1>7

SlotFits(d) ==
  Moves(d) /\ SlotOK(deliv[d])' /\ (deliv'[d].pc # "idle" => deliv'[d].batch # {})

RowsOK == TypedRows /\ BoundedRows

LEMMA SlotsFit ==
  ASSUME Shape, Grow, RowsOK', NEW d \in Deliveries, SlotFits(d)
  PROVE  Shape'
<1>1. arrived' \in Nat /\ sessions'.count \in Nat
  BY IngestAssumption DEF RowsOK, TypedRows
<1>2. \A e \in Deliveries \ {d} : SlotOK(deliv[e])'
  BY <1>1, SlotStays DEF SlotFits, Moves
<1>3. TypedSlots' /\ (\A e \in Deliveries : SlotOK(deliv[e])')
  BY <1>2 DEF SlotFits, Moves, TypedSlots, Shape, Typed, Works
<1>4. Typed'
  BY <1>3 DEF Typed, RowsOK
<1>5. \A e \in Deliveries : deliv'[e].pc # "idle" => First(deliv'[e].batch) \in 1..arrived'
  <2>1. SUFFICES ASSUME NEW e \in Deliveries, deliv'[e].pc # "idle"
                 PROVE  First(deliv'[e].batch) \in 1..arrived'
    OBVIOUS
  <2>2. deliv'[e].batch \subseteq 1..arrived' /\ deliv'[e].batch # {}
    BY <1>3, <2>1 DEF SlotOK, TypedSlots, Works
  <2> QED
    BY <1>1, <2>2, FirstOf
<1>6. Met(deliv') \subseteq 1..arrived'
  BY <1>5 DEF Met, Under
<1>7. odd' \subseteq 1..arrived'
  <2>1. arrived \in Nat /\ arrived <= arrived' /\ odd \subseteq 1..arrived
    BY IngestAssumption DEF Shape, Typed, TypedRows, BoundedSlots, Grow
  <2>2. 1..arrived \subseteq 1..arrived'
    BY <1>1, <2>1
  <2> QED
    BY <1>6, <2>1, <2>2 DEF SlotFits, Moves
<1> QED
  BY <1>3, <1>4, <1>7 DEF Shape, BoundedSlots, RowsOK

LEMMA RowsFit ==
  ASSUME Shape, Grow, arrived' \in 0..NumInbounds,
         thread' \in [session : Nat, conv : Nat, cursor : Nat],
         thread'.session <= sessions'.count, thread'.conv <= Len(convs'), thread'.cursor <= arrived',
         sessions' \in [count : Nat, outdated : SUBSET Nat],
         sessions'.outdated \subseteq 1..sessions'.count,
         \A m \in 1..Len(msgs') :
           m > Len(msgs) => msgs'[m].conv <= Len(convs') /\ msgs'[m].inbound <= arrived',
         mapped' \in [Inbounds -> Nat], \A i \in Inbounds : mapped'[i] <= Len(msgs'),
         cut' \cup dropped' \cup stray' \subseteq cut \cup dropped \cup stray \cup (1..arrived),
         unseen' \subseteq unseen \cup [of : 1..arrived, draft : BOOLEAN]
  PROVE  RowsOK'
<1>1. TypedRows'
  BY DEF TypedRows, Grow, RowsGrow, MsgsGrow, Shape, Typed
<1>2. 1..arrived \subseteq 1..arrived'
  BY IngestAssumption DEF Shape, Typed, TypedRows, Grow
<1>3. cut' \cup dropped' \cup stray' \subseteq 1..arrived'
  BY <1>2 DEF Shape, BoundedRows
<1>4. unseen' \subseteq [of : 1..arrived', draft : BOOLEAN]
  BY <1>2 DEF Shape, BoundedRows
<1>5. Len(convs) <= Len(convs') /\ Len(msgs) <= Len(msgs') /\ arrived <= arrived'
  BY DEF Grow, RowsGrow, MsgsGrow
<1>6. Len(convs') \in Nat /\ Len(msgs') \in Nat /\ arrived \in Nat /\ arrived' \in Nat
  BY <1>1, LenProperties, IngestAssumption DEF TypedRows, Shape, Typed
<1>7. \A c \in 1..Len(convs') : convs'[c].session <= sessions'.count
  <2>1. SUFFICES ASSUME NEW c \in 1..Len(convs')
                 PROVE  convs'[c].session <= sessions'.count
    OBVIOUS
  <2>2. CASE c <= Len(convs)
    <3>1. c \in 1..Len(convs) /\ convs[c].session \in Nat /\ sessions.count \in Nat
      <4>1. c \in 1..Len(convs) /\ convs[c].session \in Nat
        BY <1>6, <2>2, RowOf DEF Shape
      <4> QED
        BY <4>1 DEF Shape, Typed, TypedRows
    <3>2. convs[c].session <= sessions.count /\ convs'[c].session = convs[c].session
      BY <3>1 DEF Shape, BoundedRows, Grow, RowsGrow
    <3>3. sessions.count <= sessions'.count /\ sessions'.count \in Nat
      BY DEF Grow
    <3> QED
      BY <3>1, <3>2, <3>3
  <2>3. CASE c > Len(convs)
    BY <2>3 DEF Grow, RowsGrow
  <2> QED
    BY <1>6, <2>2, <2>3, RowOf DEF Shape
<1>8. \A m \in 1..Len(msgs') : msgs'[m].conv <= Len(convs') /\ msgs'[m].inbound <= arrived'
  <2>1. SUFFICES ASSUME NEW m \in 1..Len(msgs'), m <= Len(msgs)
                 PROVE  msgs'[m].conv <= Len(convs') /\ msgs'[m].inbound <= arrived'
    BY <1>6, RowOf DEF Shape
  <2>2. m \in 1..Len(msgs)
    BY <1>6, <2>1, RowOf DEF Shape
  <2>3. /\ msgs'[m] = msgs[m] /\ msgs[m].conv <= Len(convs) /\ msgs[m].inbound <= arrived
        /\ msgs[m].conv \in Nat /\ msgs[m].inbound \in Nat /\ Len(convs) \in Nat
    BY <2>2, RowOf DEF Shape, BoundedRows, Grow, MsgsGrow, Inbounds
  <2> QED
    BY SMTT(20), <1>5, <1>6, <2>3
<1> QED
  BY <1>1, <1>3, <1>4, <1>7, <1>8 DEF RowsOK, BoundedRows

\* The steps that touch neither the thread, its sessions nor the map.
LEMMA QuietRows ==
  ASSUME Shape, Grow, UNCHANGED <<arrived, thread, sessions, msgs, mapped>>,
         cut' \cup dropped' \cup stray' \subseteq cut \cup dropped \cup stray \cup (1..arrived),
         unseen' \subseteq unseen \cup [of : 1..arrived, draft : BOOLEAN]
  PROVE  RowsOK'
<1>1. /\ Len(convs) <= Len(convs') /\ thread.conv <= Len(convs) /\ thread.conv \in Nat
      /\ Len(convs) \in Nat /\ Len(convs') \in Nat
  <2>1. convs' \in Seq(ConvRows)
    BY DEF Grow, RowsGrow
  <2> QED
    BY <2>1, LenProperties, RowOf DEF Shape, Grow, RowsGrow, BoundedRows, Typed, TypedRows
<1>2. \A m \in 1..Len(msgs') : ~(m > Len(msgs))
  BY RowOf DEF Shape
<1> QED
  BY SMTT(20), <1>1, <1>2, RowsFit DEF Shape, Typed, TypedRows, BoundedRows

LEMMA SizesOK ==
  ASSUME RowsOK
  PROVE  /\ arrived \in Nat /\ sessions.count \in Nat /\ Len(convs) \in Nat /\ Len(msgs) \in Nat
         /\ thread.session \in Nat /\ thread.conv \in Nat /\ thread.cursor \in Nat
  BY IngestAssumption, LenProperties DEF RowsOK, TypedRows

LEMMA SizesNext ==
  ASSUME RowsOK'
  PROVE  /\ arrived' \in Nat /\ sessions'.count \in Nat /\ Len(convs') \in Nat /\ Len(msgs') \in Nat
         /\ thread'.session \in Nat /\ thread'.conv \in Nat /\ thread'.cursor \in Nat
  BY IngestAssumption, LenProperties DEF RowsOK, TypedRows

LEMMA ShapeRows == Shape => RowsOK
  BY DEF Shape, RowsOK, Typed

LEMMA LooksFit ==
  ASSUME RowsOK', NEW d \in Deliveries, Moves(d), NEW batch,
         Looks(deliv'[d], batch), batch \subseteq 1..arrived'
  PROVE  SlotFits(d)
<1>1. /\ arrived' \in Nat /\ sessions'.count \in Nat /\ Len(convs') \in Nat /\ Len(msgs') \in Nat
  BY SizesNext
<1>2. /\ deliv'[d].pc = "look" /\ deliv'[d].batch = batch /\ batch # {}
      /\ deliv'[d].session = 0 /\ deliv'[d].at = 0 /\ deliv'[d].conv = 0 /\ deliv'[d].since = 0
      /\ deliv'[d].turn = 0
  BY DEF Looks
<1>3. SlotOK(deliv[d])'
  BY <1>1, <1>2 DEF SlotOK, Entered, Before
<1> QED
  BY <1>2, <1>3 DEF SlotFits

LEMMA LeavesFit ==
  ASSUME Shape, Grow, RowsOK', NEW d \in Deliveries, Works(d), Leaves(d)
  PROVE  SlotFits(d)
<1>1. deliv[d].batch \subseteq 1..arrived'
  <2>1. arrived \in Nat /\ arrived' \in Nat /\ arrived <= arrived'
    BY SizesOK, SizesNext, ShapeRows DEF Grow
  <2>2. deliv[d].batch \subseteq 1..arrived
    BY DEF Shape, BoundedSlots, SlotOK
  <2> QED
    BY <2>1, <2>2
<1>2. CASE Looks(deliv'[d], deliv[d].batch \ {Cur(d)})
  BY <1>1, <1>2, LooksFit DEF Leaves
<1>3. CASE deliv'[d] = Idle
  <2>1. sessions'.count \in Nat /\ Len(convs') \in Nat /\ Len(msgs') \in Nat
    BY SizesNext
  <2>2. SlotOK(deliv[d])'
    BY <1>3, <2>1, IdleSlot DEF SlotOK, Entered, Before
  <2> QED
    BY <1>3, <2>2, IdleSlot DEF SlotFits, Leaves
<1> QED
  BY <1>2, <1>3 DEF Leaves

LEMMA StartShape ==
  ASSUME Shape, NEW d \in Deliveries, Start(d)
  PROVE  Shape' /\ Grow
<1>1. PICK batch \in (SUBSET (1..arrived)) \ {{}} : Move(d, [Idle EXCEPT !.pc = "look", !.batch = batch])
  BY DEF Start
<1>2. batch \in SUBSET Inbounds /\ batch # {}
  <2>1. NumInbounds \in Nat /\ arrived \in 0..NumInbounds
    BY IngestAssumption DEF Shape, Typed, TypedRows
  <2>2. 1..arrived \subseteq Inbounds
    BY <2>1 DEF Inbounds
  <2> QED
    BY <2>2
<1>3. Moves(d) /\ Looks(deliv'[d], batch)
  <2>1. Typed
    BY DEF Shape
  <2> QED
    BY <1>1, <1>2, <2>1, LookSlot
<1>4. /\ UNCHANGED <<kind, mode, arrived, thread, sessions, convs, msgs, mapped>>
      /\ UNCHANGED <<cut, dropped, stray, unseen>>
  BY DEF Start, History
<1>5. Grow
  BY <1>3, <1>4, SameRows, SameMsgs, SizesOK, ShapeRows DEF Grow, Shape, Moves
<1>6. RowsOK'
  BY <1>4, <1>5, QuietRows
<1>7. SlotFits(d)
  BY <1>1, <1>3, <1>4, <1>6, LooksFit
<1> QED
  BY <1>5, <1>6, <1>7, SlotsFit

LEMMA LookShape ==
  ASSUME Shape, NEW d \in Deliveries, Look(d)
  PROVE  Shape' /\ Grow
<1>1. Works(d) /\ deliv[d].pc = "look"
  BY DEF Look, At, Works
<1>2. /\ UNCHANGED <<kind, mode, arrived, thread, sessions, convs, msgs, mapped>>
      /\ UNCHANGED <<cut, dropped, stray, unseen>>
  BY DEF Look, History, World
<1>3. Moves(d)
  BY LeaveSlot, ReadSlot DEF Look, Leaves, Shape
<1>4. Grow
  BY <1>2, <1>3, SameRows, SameMsgs, SizesOK, ShapeRows DEF Grow, Shape, Moves
<1>5. RowsOK'
  BY <1>2, <1>4, QuietRows
<1>6. CASE NextInbound(d)
  BY <1>1, <1>4, <1>5, <1>6, LeaveSlot, LeavesFit, SlotsFit DEF Shape
<1>7. CASE ReadThread(d)
  <2>1. PICK slot : slot = deliv[d]
    OBVIOUS
  <2>2. SlotOK(slot) /\ slot.batch # {} /\ slot.pc = "look"
    BY <1>1, <2>1 DEF Shape, BoundedSlots, Typed, TypedSlots
  <2>3. /\ deliv'[d].pc = IF thread.session = 0 THEN "session" ELSE "conv"
        /\ deliv'[d].batch = slot.batch
        /\ deliv'[d].session = thread.session /\ deliv'[d].at = thread.conv
        /\ deliv'[d].conv = slot.conv /\ deliv'[d].since = slot.since /\ deliv'[d].turn = slot.turn
    BY <1>7, <2>1, ReadSlot DEF Shape
  <2>4. thread.session <= sessions.count /\ thread.conv <= Len(convs)
    BY DEF Shape, BoundedRows
  <2>5. SlotOK(deliv[d])'
    BY <1>2, <2>2, <2>3, <2>4 DEF SlotOK, Entered, Before
  <2> QED
    BY <1>3, <1>4, <1>5, <2>2, <2>3, <2>5, SlotsFit DEF SlotFits
<1> QED
  BY <1>6, <1>7 DEF Look

LEMMA ResolveSessionShape ==
  ASSUME Shape, NEW d \in Deliveries, ResolveSession(d)
  PROVE  Shape' /\ Grow
<1>1. deliv[d].pc = "session" /\ UNCHANGED <<kind, mode, arrived, convs, msgs, mapped, cut, dropped, stray, unseen>>
  BY DEF ResolveSession, At, World, History
<1>2. /\ sessions' \in [count : Nat, outdated : SUBSET Nat]
      /\ sessions'.count = sessions.count + 1 /\ sessions'.outdated = sessions.outdated
      /\ thread' \in [session : Nat, conv : Nat, cursor : Nat]
      /\ thread'.session = sessions'.count /\ thread'.conv = thread.conv
      /\ thread'.cursor = thread.cursor
  <2>1. /\ sessions \in [count : Nat, outdated : SUBSET Nat]
        /\ thread \in [session : Nat, conv : Nat, cursor : Nat]
    BY DEF Shape, Typed, TypedRows
  <2>2. /\ sessions' = [sessions EXCEPT !.count = sessions.count + 1]
        /\ thread' = [thread EXCEPT !.session = sessions.count + 1]
    BY DEF ResolveSession
  <2> QED
    BY <2>1, <2>2
<1>3. PICK slot : slot = deliv[d]
  OBVIOUS
<1>4. SlotOK(slot) /\ slot.batch # {} /\ slot.pc = "session"
  BY <1>1, <1>3 DEF Shape, BoundedSlots, Typed, TypedSlots, Works
<1>5. /\ Moves(d) /\ deliv'[d].pc = "conv" /\ deliv'[d].batch = slot.batch
      /\ deliv'[d].session = sessions.count + 1 /\ deliv'[d].at = slot.at
      /\ deliv'[d].conv = slot.conv /\ deliv'[d].since = slot.since /\ deliv'[d].turn = slot.turn
  BY <1>3, ResolveSessionSlot DEF Shape
<1>6. Grow
  BY <1>1, <1>2, <1>5, SameRows, SameMsgs, SizesOK, ShapeRows DEF Grow, Shape, Moves
<1>7. RowsOK'
  <2>1. \A m \in 1..Len(msgs') : ~(m > Len(msgs))
    BY <1>1, RowOf DEF Shape
  <2>2. sessions'.outdated \subseteq 1..sessions'.count
    BY <1>2, SizesOK, ShapeRows DEF Shape, BoundedRows
  <2>3. arrived \in 0..NumInbounds /\ mapped \in [Inbounds -> Nat]
    BY DEF Shape, Typed, TypedRows
  <2>4. thread.conv <= Len(convs) /\ thread.cursor <= arrived /\ \A i \in Inbounds : mapped[i] <= Len(msgs)
    BY DEF Shape, BoundedRows
  <2>5. sessions'.count \in Nat
    BY <1>2
  <2> QED
    BY <1>1, <1>2, <1>6, <2>1, <2>2, <2>3, <2>4, <2>5, RowsFit
<1>8. SlotOK(deliv[d])'
  BY <1>1, <1>2, <1>4, <1>5, SizesOK, ShapeRows DEF SlotOK, Entered, Before
<1> QED
  BY <1>4, <1>5, <1>6, <1>7, <1>8, SlotsFit DEF SlotFits

\* A delivery that goes on with what it knows.
LEMMA KeepsFit ==
  ASSUME Shape, Grow, RowsOK', NEW d \in Deliveries, Works(d), Moves(d), Keeps(deliv[d], deliv'[d]),
         \/ deliv[d].pc = "conv" /\ deliv'[d].pc = "open"
         \/ deliv[d].pc \in Entered /\ deliv'[d].pc \in {"page", "map"}
  PROVE  Shape'
<1>1. PICK a : a = deliv[d]
  OBVIOUS
<1>2. a \in SlotTypes /\ SlotOK(a) /\ a.batch # {}
  BY <1>1 DEF Shape, Typed, TypedSlots, BoundedSlots, Works
<1>3. PICK b : b = deliv'[d]
  OBVIOUS
<1>4. /\ b.batch = a.batch /\ b.session = a.session /\ b.at = a.at /\ b.conv = a.conv
      /\ b.since = a.since /\ b.turn = a.turn
  BY <1>1, <1>3 DEF Keeps
<1>5. /\ a.session \in Nat /\ a.at \in Nat /\ a.conv \in Nat /\ a.since \in Nat /\ a.turn \in Nat
  BY <1>2 DEF SlotTypes
<1>6. /\ arrived <= arrived' /\ sessions.count <= sessions'.count
      /\ Len(convs) <= Len(convs') /\ Len(msgs) <= Len(msgs')
  BY DEF Grow, RowsGrow, MsgsGrow
<1>7. b.batch \subseteq 1..arrived'
  <2>1. arrived \in Nat /\ arrived' \in Nat
    BY SizesOK, SizesNext, ShapeRows
  <2>2. a.batch \subseteq 1..arrived
    BY <1>2 DEF SlotOK
  <2> QED
    BY <1>4, <1>6, <2>1, <2>2
<1>8. /\ b.session <= sessions'.count /\ b.at <= Len(convs') /\ b.conv <= Len(convs')
      /\ b.turn <= Len(convs') /\ b.since <= Len(msgs')
  <2>1. /\ sessions.count \in Nat /\ sessions'.count \in Nat /\ Len(convs) \in Nat
        /\ Len(convs') \in Nat /\ Len(msgs) \in Nat /\ Len(msgs') \in Nat
    BY SizesOK, SizesNext, ShapeRows
  <2>2. /\ a.session <= sessions.count /\ a.at <= Len(convs) /\ a.conv <= Len(convs)
        /\ a.turn <= Len(convs) /\ a.since <= Len(msgs)
    BY <1>2 DEF SlotOK
  <2> QED
    BY SMTT(20), <1>4, <1>5, <1>6, <2>1, <2>2
<1>9. SlotOK(b)'
  BY <1>1, <1>2, <1>3, <1>4, <1>7, <1>8 DEF SlotOK, Entered, Before
<1>10. SlotOK(deliv[d])'
  BY <1>3, <1>9
<1> QED
  BY <1>2, <1>3, <1>4, <1>10, SlotsFit DEF SlotFits

\* A delivery that enters conversation c, a row of the next state.
LEMMA EntersFit ==
  ASSUME Shape, Grow, RowsOK', NEW d \in Deliveries, deliv[d].pc \in {"conv", "open"},
         NEW c \in Nat \ {0}, c <= Len(convs'), NEW row, Enters(d, c, row)
  PROVE  Shape'
<1>1. PICK a : a = deliv[d]
  OBVIOUS
<1>2. a \in SlotTypes /\ SlotOK(a) /\ a.batch # {} /\ a.pc \in {"conv", "open"}
  BY <1>1 DEF Shape, Typed, TypedSlots, BoundedSlots, Works
<1>3. PICK b : b = deliv'[d]
  OBVIOUS
<1>4. /\ b.batch = a.batch /\ b.session = a.session /\ b.at = 0 /\ b.conv = c
      /\ b.since = Len(msgs) /\ b.turn = a.turn /\ b.pc \in {"turn", "store"}
  BY <1>1, <1>3 DEF Enters
<1>5. a.session \in Nat /\ a.session # 0 /\ a.turn = 0
  BY <1>2 DEF SlotTypes, SlotOK, Before, Entered
<1>6. /\ arrived <= arrived' /\ sessions.count <= sessions'.count /\ Len(msgs) <= Len(msgs')
  BY DEF Grow, RowsGrow, MsgsGrow
<1>7. b.batch \subseteq 1..arrived'
  <2>1. arrived \in Nat /\ arrived' \in Nat
    BY SizesOK, SizesNext, ShapeRows
  <2>2. a.batch \subseteq 1..arrived
    BY <1>2 DEF SlotOK
  <2> QED
    BY <1>4, <1>6, <2>1, <2>2
<1>8. /\ b.session <= sessions'.count /\ b.at <= Len(convs') /\ b.conv <= Len(convs')
      /\ b.turn <= Len(convs') /\ b.since <= Len(msgs')
  BY SMTT(20), <1>2, <1>4, <1>5, <1>6, SizesOK, SizesNext, ShapeRows DEF SlotOK
<1>9. SlotOK(b)'
  BY <1>2, <1>4, <1>5, <1>7, <1>8 DEF SlotOK, Entered, Before
<1>10. SlotOK(deliv[d])'
  BY <1>3, <1>9
<1>11. Moves(d)
  BY DEF Enters
<1> QED
  BY <1>2, <1>3, <1>4, <1>10, <1>11, SlotsFit DEF SlotFits

LEMMA ResolveConversationShape ==
  ASSUME Shape, NEW d \in Deliveries, ResolveConversation(d)
  PROVE  Shape' /\ Grow
<1>1. /\ deliv[d].pc = "conv" /\ Works(d)
      /\ UNCHANGED <<kind, mode, arrived, sessions, convs, msgs, mapped, cut, dropped, stray, unseen>>
  BY DEF ResolveConversation, At, Works, World, History
<1>2. Typed /\ RowsOK
  BY ShapeRows DEF Shape
<1>3. CASE OpenOf(deliv[d].session) = {}
  <2>1. Goto(d, "open") /\ UNCHANGED thread
    BY <1>3 DEF ResolveConversation
  <2>2. Moves(d) /\ deliv'[d].pc = "open" /\ Keeps(deliv[d], deliv'[d])
    BY <1>2, <2>1, GotoSlot DEF Before
  <2>3. Grow
    BY <1>1, <1>2, <2>2, SameRows, SameMsgs, SizesOK DEF Grow, Moves
  <2>4. RowsOK'
    BY <1>1, <2>1, <2>3, QuietRows
  <2> QED
    BY <1>1, <2>2, <2>3, <2>4, KeepsFit
<1>4. CASE OpenOf(deliv[d].session) # {}
  <2>1. PICK c : c = Latest(OpenOf(deliv[d].session))
    OBVIOUS
  <2>2. /\ c \in 1..Len(convs) /\ Enter(d, c, convs[c])
        /\ thread' = IF deliv[d].at = c THEN thread ELSE [thread EXCEPT !.conv = c]
    BY <1>2, <1>4, <2>1, OpenConvs DEF ResolveConversation
  <2>3. c \in Nat \ {0} /\ convs[c] \in ConvRows /\ c <= Len(convs)
    BY <1>2, <2>2, RowOf
  <2>4. Enters(d, c, convs[c])
    BY <1>2, <2>2, <2>3, EnterSlot
  <2>5. Grow
    BY <1>1, <1>2, <2>4, SameRows, SameMsgs, SizesOK DEF Grow, Enters, Moves
  <2>6. /\ thread' \in [session : Nat, conv : Nat, cursor : Nat] /\ thread'.session = thread.session
        /\ thread'.cursor = thread.cursor /\ thread'.conv \in {thread.conv, c}
    BY <1>2, <2>2, <2>3 DEF Typed, TypedRows
  <2>7. RowsOK'
    <3>1. \A m \in 1..Len(msgs') : ~(m > Len(msgs))
      BY <1>1, <1>2, RowOf
    <3> QED
      BY <1>1, <1>2, <2>3, <2>5, <2>6, <3>1, RowsFit DEF RowsOK, BoundedRows, TypedRows
  <2> QED
    BY <1>1, <2>3, <2>4, <2>5, <2>7, EntersFit
<1> QED
  BY <1>3, <1>4

LEMMA OpenConversationShape ==
  ASSUME Shape, NEW d \in Deliveries, OpenConversation(d)
  PROVE  Shape' /\ Grow
<1>1. /\ deliv[d].pc = "open" /\ convs' = Append(convs, Fresh(deliv[d].session))
      /\ UNCHANGED <<kind, mode, arrived, sessions, msgs, mapped, cut, dropped, stray, unseen>>
  BY DEF OpenConversation, At, World, History
<1>2. Typed /\ RowsOK
  BY ShapeRows DEF Shape
<1>3. PICK s : s = deliv[d].session
  OBVIOUS
<1>4. s \in Nat \ {0} /\ s <= sessions'.count
  BY <1>1, <1>3 DEF Shape, BoundedSlots, SlotOK, Typed, TypedSlots, SlotTypes
<1>5. /\ RowsGrow /\ Len(convs') = Len(convs) + 1
      /\ convs'[Len(convs')] \in ConvRows
  <2>1. RowsGrow /\ Len(convs') = Len(convs) + 1
    BY <1>1, <1>2, <1>3, <1>4, NewRow
  <2>2. convs' \in Seq(ConvRows) /\ Len(convs) \in Nat
    BY <1>2, <2>1, RowOf DEF RowsGrow
  <2> QED
    BY <2>1, <2>2, ElementOfSeq
<1>6. PICK c : c = Len(convs')
  OBVIOUS
<1>7. PICK row : row = convs'[Len(convs')]
  OBVIOUS
<1>8. c \in Nat \ {0} /\ c <= Len(convs') /\ row \in ConvRows /\ Enter(d, c, row)
  BY <1>2, <1>5, <1>6, <1>7, RowOf DEF OpenConversation
<1>9. Enters(d, c, row)
  BY <1>2, <1>8, EnterSlot
<1>10. Grow
  BY <1>1, <1>2, <1>5, <1>9, SameMsgs, SizesOK DEF Grow, Enters, Moves
<1>11. /\ thread' \in [session : Nat, conv : Nat, cursor : Nat] /\ thread'.session = thread.session
       /\ thread'.cursor = thread.cursor /\ thread'.conv = c
  BY <1>2, <1>6, <1>8 DEF OpenConversation, Typed, TypedRows
<1>12. RowsOK'
  <2>1. \A m \in 1..Len(msgs') : ~(m > Len(msgs))
    BY <1>1, <1>2, RowOf
  <2> QED
    BY <1>1, <1>2, <1>8, <1>10, <1>11, <2>1, RowsFit DEF RowsOK, BoundedRows, TypedRows
<1> QED
  BY <1>1, <1>8, <1>9, <1>10, <1>12, EntersFit

LEMMA TurnShape ==
  ASSUME Shape, NEW d \in Deliveries, Turn(d)
  PROVE  Shape' /\ Grow
<1>1. /\ deliv[d].pc = "turn" /\ Works(d)
      /\ UNCHANGED <<kind, mode, arrived, thread, sessions, mapped, cut, stray, unseen>>
  BY DEF Turn, At, Works, World
<1>2. Typed /\ RowsOK /\ Cur(d) \in 1..arrived /\ Cur(d) \in Inbounds
  BY <1>1, ShapeRows, CurArrived, CurOf DEF Shape
<1>3. CASE Blocked(d)
  <2>1. /\ Goto(d, IF mode = "auto" THEN "map" ELSE "page")
        /\ dropped' = dropped \cup {Cur(d)} /\ convs' = convs /\ msgs' = msgs
    BY <1>3 DEF Turn, Blocked
  <2>2. Moves(d) /\ deliv'[d].pc \in {"page", "map"} /\ Keeps(deliv[d], deliv'[d])
    <3>1. CASE mode = "auto"
      BY <1>2, <2>1, <3>1, GotoSlot DEF Entered
    <3>2. CASE mode # "auto"
      BY <1>2, <2>1, <3>2, GotoSlot DEF Entered
    <3> QED
      BY <3>1, <3>2
  <2>3. Grow
    BY <1>1, <1>2, <2>1, <2>2, SameRows, SameMsgs, SizesOK DEF Grow, Moves
  <2>4. RowsOK'
    BY <1>1, <1>2, <2>1, <2>3, QuietRows
  <2> QED
    BY <1>1, <2>2, <2>3, <2>4, KeepsFit DEF Entered
<1>4. CASE ~Blocked(d)
  <2>1. PICK c : c = TurnConv(d)
    OBVIOUS
  <2>2. c \in Nat \ {0} /\ c <= Len(convs) + 1
    BY <1>2, <2>1, TurnConvOf
  <2>3. PICK s : s = deliv[d].session
    OBVIOUS
  <2>4. s \in Nat \ {0} /\ s <= sessions'.count
    BY <1>1, <2>3 DEF Shape, BoundedSlots, SlotOK, Typed, TypedSlots, SlotTypes, Entered
  <2>5. convs' = (IF OpenOf(s) = {} THEN Append(convs, Fresh(s)) ELSE convs)
        /\ msgs' = Append(msgs, [conv |-> c, inbound |-> Cur(d)]) /\ dropped' = dropped
    BY <1>4, <2>1, <2>3 DEF Turn, TurnConv, Blocked
  <2>6. RowsGrow /\ c <= Len(convs')
    <3>1. CASE OpenOf(s) = {}
      BY <1>2, <2>2, <2>4, <2>5, <3>1, NewRow
    <3>2. CASE OpenOf(s) # {}
      <4>1. c \in 1..Len(convs)
        BY <1>2, <2>1, <2>3, <3>2, OpenConvs DEF TurnConv
      <4>2. convs' = convs
        BY <2>5, <3>2
      <4>3. RowsGrow
        BY <1>2, <4>2, SameRows
      <4> QED
        BY <1>2, <4>1, <4>2, <4>3, RowOf
    <3> QED
      BY <3>1, <3>2
  <2>7. /\ MsgsGrow /\ Len(msgs') = Len(msgs) + 1
        /\ msgs'[Len(msgs) + 1] = [conv |-> c, inbound |-> Cur(d)]
    BY <1>2, <2>2, <2>5, NewMsg
  <2>8. /\ Moves(d) /\ deliv'[d].pc = "answer" /\ deliv'[d].batch = deliv[d].batch
        /\ deliv'[d].session = deliv[d].session /\ deliv'[d].at = deliv[d].at
        /\ deliv'[d].conv = deliv[d].conv /\ deliv'[d].turn = c
        /\ deliv'[d].since = deliv[d].since
    BY <1>2, <1>4, <2>1, TurnSlot
  <2>9. Grow
    BY <1>1, <1>2, <2>5, <2>6, <2>7, <2>8, SizesOK DEF Grow, Moves
  <2>10. RowsOK'
    <3>1. \A m \in 1..Len(msgs') : m > Len(msgs) => m = Len(msgs) + 1
      BY <1>2, <2>7, SizesOK
    <3>2. \A m \in 1..Len(msgs') :
            m > Len(msgs) => msgs'[m].conv <= Len(convs') /\ msgs'[m].inbound <= arrived'
      BY <1>1, <1>2, <2>6, <2>7, <3>1
    <3>3. thread.conv <= Len(convs') /\ \A i \in Inbounds : mapped[i] <= Len(msgs')
      <4>1. /\ Len(convs) \in Nat /\ Len(convs') \in Nat /\ Len(msgs) \in Nat /\ Len(msgs') \in Nat
            /\ thread.conv \in Nat
        <5>1. convs' \in Seq(ConvRows) /\ msgs' \in Seq(MsgRows)
          BY <2>6, <2>7 DEF RowsGrow, MsgsGrow
        <5>2. Len(convs') \in Nat /\ Len(msgs') \in Nat
          BY <5>1, LenProperties
        <5> QED
          BY <1>2, <5>2, SizesOK
      <4>2. thread.conv <= Len(convs) /\ Len(convs) <= Len(convs')
        BY <2>6 DEF RowsGrow, Shape, BoundedRows
      <4>3. \A i \in Inbounds : mapped[i] \in Nat /\ mapped[i] <= Len(msgs)
        BY <1>2 DEF Shape, BoundedRows, RowsOK, TypedRows
      <4> QED
        BY <2>7, <4>1, <4>2, <4>3
    <3> QED
      BY <1>1, <1>2, <2>5, <2>9, <3>2, <3>3, RowsFit DEF RowsOK, BoundedRows, TypedRows
  <2>11. PICK a : a = deliv[d]
    OBVIOUS
  <2>12. a \in SlotTypes /\ SlotOK(a) /\ a.batch # {} /\ a.pc = "turn"
    BY <1>1, <2>11 DEF Shape, Typed, TypedSlots, BoundedSlots, Works
  <2>13. /\ a.session \in Nat /\ a.at \in Nat /\ a.conv \in Nat /\ a.since \in Nat
         /\ a.batch \subseteq 1..arrived /\ a.session <= sessions.count /\ a.at <= Len(convs)
         /\ a.conv <= Len(convs) /\ a.since <= Len(msgs) /\ a.session # 0 /\ a.conv # 0
    BY <2>12 DEF SlotTypes, SlotOK, Entered
  <2>14. /\ Len(convs) <= Len(convs') /\ Len(msgs) <= Len(msgs')
         /\ Len(convs) \in Nat /\ Len(convs') \in Nat /\ Len(msgs) \in Nat /\ Len(msgs') \in Nat
    BY <1>2, <2>10, SizesOK, SizesNext, <2>6, <2>7 DEF RowsGrow, MsgsGrow
  <2>15. SlotOK(deliv[d])'
    BY <1>1, <2>2, <2>6, <2>8, <2>11, <2>13, <2>14 DEF SlotOK, Entered, Before
  <2> QED
    BY <2>8, <2>9, <2>10, <2>11, <2>12, <2>15, SlotsFit DEF SlotFits
<1> QED
  BY <1>3, <1>4

LEMMA StoreShape ==
  ASSUME Shape, NEW d \in Deliveries, Store(d)
  PROVE  Shape' /\ Grow
<1>1. /\ deliv[d].pc = "store" /\ Works(d)
      /\ UNCHANGED <<kind, mode, arrived, thread, sessions, convs, mapped, cut, dropped, stray, unseen>>
  BY DEF Store, At, Works, World, History
<1>2. Typed /\ RowsOK /\ Cur(d) \in 1..arrived /\ Cur(d) \in Inbounds
  BY <1>1, ShapeRows, CurArrived, CurOf DEF Shape
<1>3. PICK a : a = deliv[d]
  OBVIOUS
<1>4. a \in SlotTypes /\ SlotOK(a) /\ a.batch # {} /\ a.pc = "store"
  BY <1>1, <1>3 DEF Shape, Typed, TypedSlots, BoundedSlots, Works
<1>5. /\ a.session \in Nat /\ a.at \in Nat /\ a.conv \in Nat \ {0} /\ a.since \in Nat
      /\ a.batch \subseteq 1..arrived /\ a.session <= sessions.count /\ a.at <= Len(convs)
      /\ a.conv <= Len(convs) /\ a.since <= Len(msgs) /\ a.session # 0
  BY <1>4 DEF SlotTypes, SlotOK, Entered
<1>6. msgs' = Append(msgs, [conv |-> a.conv, inbound |-> Cur(d)])
  BY <1>3 DEF Store
<1>7. /\ MsgsGrow /\ Len(msgs') = Len(msgs) + 1
      /\ msgs'[Len(msgs) + 1] = [conv |-> a.conv, inbound |-> Cur(d)]
  BY <1>2, <1>5, <1>6, NewMsg
<1>8. /\ Moves(d) /\ deliv'[d].pc = "page" /\ deliv'[d].batch = a.batch
      /\ deliv'[d].session = a.session /\ deliv'[d].at = a.at
      /\ deliv'[d].conv = a.conv /\ deliv'[d].turn = a.conv /\ deliv'[d].since = a.since
  BY <1>2, <1>3, StoreSlot
<1>9. Grow
  BY <1>1, <1>2, <1>7, <1>8, SameRows, SizesOK DEF Grow, Moves
<1>10. RowsOK'
  <2>1. \A m \in 1..Len(msgs') : m > Len(msgs) => m = Len(msgs) + 1
    BY <1>2, <1>7, SizesOK
  <2>2. \A m \in 1..Len(msgs') :
          m > Len(msgs) => msgs'[m].conv <= Len(convs') /\ msgs'[m].inbound <= arrived'
    BY <1>1, <1>2, <1>5, <1>7, <2>1
  <2>3. \A i \in Inbounds : mapped[i] <= Len(msgs')
    <3>1. \A i \in Inbounds : mapped[i] \in Nat /\ mapped[i] <= Len(msgs)
      BY <1>2 DEF Shape, BoundedRows, RowsOK, TypedRows
    <3>2. Len(msgs) \in Nat
      BY <1>2, SizesOK
    <3> QED
      BY <1>7, <3>1, <3>2
  <2> QED
    BY <1>1, <1>2, <1>9, <2>2, <2>3, RowsFit DEF RowsOK, BoundedRows, TypedRows
<1>11. Len(msgs) <= Len(msgs') /\ Len(msgs) \in Nat /\ Len(msgs') \in Nat /\ Len(convs) \in Nat
  BY <1>2, <1>10, SizesOK, SizesNext, <1>7 DEF MsgsGrow
<1>12. SlotOK(deliv[d])'
  BY <1>1, <1>5, <1>8, <1>11 DEF SlotOK, Entered, Before
<1> QED
  BY <1>4, <1>8, <1>9, <1>10, <1>12, SlotsFit DEF SlotFits

LEMMA AnswerShape ==
  ASSUME Shape, NEW d \in Deliveries, Answer(d)
  PROVE  Shape' /\ Grow
<1>1. /\ deliv[d].pc = "answer" /\ Works(d)
      /\ UNCHANGED <<kind, mode, arrived, thread, sessions, msgs, mapped, cut, dropped, unseen>>
      /\ stray' \subseteq stray \cup {Cur(d)}
  BY DEF Answer, At, Works, World
<1>2. Typed /\ RowsOK /\ Cur(d) \in 1..arrived
  BY <1>1, ShapeRows, CurArrived DEF Shape
<1>3. Goto(d, "map") \/ Goto(d, "page")
  BY DEF Answer
<1>4. Moves(d) /\ deliv'[d].pc \in {"page", "map"} /\ Keeps(deliv[d], deliv'[d])
  BY <1>2, <1>3, GotoSlot DEF Entered
<1>5. RowsGrow
  <2>1. deliv[d].turn \in 1..Len(convs)
    BY <1>1, <1>2, SizesOK DEF Shape, BoundedSlots, SlotOK, Typed, TypedSlots, SlotTypes
  <2> QED
    BY <1>2, <2>1, SameRows, WaitingRow DEF Answer
<1>6. Grow
  BY <1>1, <1>2, <1>4, <1>5, SameMsgs, SizesOK DEF Grow, Moves
<1>7. RowsOK'
  BY <1>1, <1>2, <1>6, QuietRows
<1> QED
  BY <1>1, <1>4, <1>6, <1>7, KeepsFit DEF Entered

LEMMA PageShape ==
  ASSUME Shape, NEW d \in Deliveries, Page(d) \/ PageFails(d)
  PROVE  Shape' /\ Grow
<1>1. /\ deliv[d].pc = "page" /\ Works(d)
      /\ UNCHANGED <<kind, mode, arrived, thread, sessions, msgs, mapped, dropped, stray>>
      /\ cut \subseteq cut' /\ cut' \subseteq cut \cup {Cur(d)} /\ Goto(d, "map")
  BY DEF Page, PageFails, At, Works, World
<1>2. Typed /\ RowsOK /\ Cur(d) \in 1..arrived
  BY <1>1, ShapeRows, CurArrived DEF Shape
<1>3. Moves(d) /\ deliv'[d].pc = "map" /\ Keeps(deliv[d], deliv'[d])
  BY <1>1, <1>2, GotoSlot DEF Entered
<1>4. deliv[d].off \in BOOLEAN /\ deliv[d].human \in BOOLEAN
  BY <1>2 DEF Typed, TypedSlots, SlotTypes
<1>5. PICK draft \in BOOLEAN : draft = (~deliv[d].off /\ ~deliv[d].human)
  BY <1>4
<1>6. unseen' = unseen \/ unseen' = unseen \cup {[of |-> Cur(d), draft |-> draft]}
  BY <1>5 DEF Page, PageFails
<1>7. [of |-> Cur(d), draft |-> draft] \in [of : 1..arrived, draft : BOOLEAN]
  BY <1>2
<1>8. RowsGrow
  <2>1. deliv[d].conv \in 1..Len(convs)
    BY <1>1, <1>2, SizesOK DEF Shape, BoundedSlots, SlotOK, Typed, TypedSlots, SlotTypes, Entered
  <2> QED
    BY <1>2, <2>1, SameRows, WaitingRow DEF Page, PageFails
<1>9. Grow
  BY <1>1, <1>2, <1>3, <1>6, <1>8, SameMsgs, SizesOK DEF Grow, Moves
<1>10. RowsOK'
  BY <1>1, <1>2, <1>6, <1>7, <1>9, QuietRows
<1> QED
  BY <1>1, <1>3, <1>9, <1>10, KeepsFit DEF Entered

LEMMA TurnsSinceOf ==
  ASSUME Typed, NEW d \in Deliveries, TurnsSince(d) # {}
  PROVE  First(TurnsSince(d)) \in TurnsSince(d) /\ First(TurnsSince(d)) \in 1..Len(msgs)
<1>1. TurnsSince(d) \subseteq 1..Len(msgs) /\ Len(msgs) \in Nat
  BY RowOf DEF TurnsSince
<1> QED
  BY <1>1, FirstOf

LEMMA MapTurnShape ==
  ASSUME Shape, NEW d \in Deliveries, MapTurn(d)
  PROVE  Shape' /\ Grow
<1>1. /\ deliv[d].pc = "map" /\ Works(d) /\ NextInbound(d)
      /\ UNCHANGED <<kind, mode, arrived, sessions, convs, msgs, cut, dropped, stray, unseen>>
  BY DEF MapTurn, At, Works, World, History
<1>2. Typed /\ RowsOK /\ Cur(d) \in 1..arrived /\ Cur(d) \in Inbounds
  BY <1>1, ShapeRows, CurArrived, CurOf DEF Shape
<1>3. Leaves(d)
  BY <1>1, <1>2, LeaveSlot
<1>4. Grow
  BY <1>1, <1>2, <1>3, SameRows, SameMsgs, SizesOK DEF Grow, Leaves, Moves
<1>5. /\ thread' \in [session : Nat, conv : Nat, cursor : Nat] /\ thread'.session = thread.session
      /\ thread'.conv = thread.conv /\ thread'.cursor = Cur(d)
  <2>1. thread' = [thread EXCEPT !.cursor = Cur(d)] /\ Cur(d) \in Nat
    BY <1>2 DEF MapTurn, Passed
  <2> QED
    BY <1>2, <2>1 DEF Typed, TypedRows
<1>6. mapped' \in [Inbounds -> Nat] /\ \A i \in Inbounds : mapped'[i] <= Len(msgs)
  <2>1. mapped \in [Inbounds -> Nat] /\ \A i \in Inbounds : mapped[i] <= Len(msgs)
    BY <1>2 DEF Typed, TypedRows, RowsOK, BoundedRows
  <2>2. CASE TurnsSince(d) = {} \/ mapped[Cur(d)] # 0
    <3>1. mapped' = mapped
      BY <2>2 DEF MapTurn
    <3> QED
      BY <2>1, <3>1
  <2>3. CASE ~(TurnsSince(d) = {} \/ mapped[Cur(d)] # 0)
    <3>1. PICK m : m = First(TurnsSince(d))
      OBVIOUS
    <3>2. mapped' = [mapped EXCEPT ![Cur(d)] = m]
      BY <2>3, <3>1 DEF MapTurn
    <3>3. m \in Nat /\ m <= Len(msgs)
      BY <1>2, <2>3, <3>1, TurnsSinceOf, SizesOK
    <3> QED
      BY <2>1, <3>2, <3>3
  <2> QED
    BY <2>2, <2>3
<1>7. RowsOK'
  <2>1. \A m \in 1..Len(msgs') : ~(m > Len(msgs))
    BY <1>1, <1>2, RowOf
  <2>2. Cur(d) <= arrived
    BY <1>2, SizesOK
  <2> QED
    BY <1>1, <1>2, <1>4, <1>5, <1>6, <2>1, <2>2, RowsFit DEF RowsOK, BoundedRows, TypedRows
<1> QED
  BY <1>1, <1>3, <1>4, <1>7, LeavesFit, SlotsFit

LEMMA ThrowShape ==
  ASSUME Shape, NEW d \in Deliveries, Throw(d)
  PROVE  Shape' /\ Grow
<1>1. /\ Works(d) /\ NextInbound(d) /\ cut' = cut \cup {Cur(d)}
      /\ UNCHANGED <<kind, mode, arrived, thread, sessions, convs, msgs, mapped, dropped, stray, unseen>>
  BY DEF Throw, Works
<1>2. Typed /\ RowsOK /\ Cur(d) \in 1..arrived
  BY <1>1, ShapeRows, CurArrived DEF Shape
<1>3. Leaves(d)
  BY <1>1, <1>2, LeaveSlot
<1>4. Grow
  BY <1>1, <1>2, <1>3, SameRows, SameMsgs, SizesOK DEF Grow, Leaves, Moves
<1>5. RowsOK'
  BY <1>1, <1>2, <1>4, QuietRows
<1> QED
  BY <1>1, <1>3, <1>4, <1>5, LeavesFit, SlotsFit

\* The steps that leave every delivery where it is.
LEMMA StillFits ==
  ASSUME Shape, Grow, RowsOK', deliv' = deliv, odd' \subseteq odd \cup (1..arrived)
  PROVE  Shape'
<1>1. arrived \in Nat /\ arrived' \in Nat /\ sessions'.count \in Nat /\ arrived <= arrived'
  BY SizesOK, SizesNext, ShapeRows DEF Grow
<1>2. \A e \in Deliveries : SlotOK(deliv[e])'
  BY <1>1, SlotStays
<1>3. TypedSlots'
  BY DEF Shape, Typed, TypedSlots, Works
<1>4. 1..arrived \subseteq 1..arrived' /\ odd \subseteq 1..arrived
  BY <1>1 DEF Shape, BoundedSlots
<1> QED
  BY <1>2, <1>3, <1>4 DEF Shape, BoundedSlots, Typed, RowsOK

\* An agent takes, gives back or closes a conversation.
Agents(c) == Accept(c) \/ HandBack(c) \/ Close(c)

LEMMA AgentsRow ==
  ASSUME Shape, NEW c \in DOMAIN convs, Agents(c)
  PROVE  /\ Changes(c) /\ RowsGrow
         /\ UNCHANGED <<kind, mode, arrived, thread, sessions, msgs, mapped, deliv>>
         /\ UNCHANGED <<cut, dropped, stray, unseen>>
         /\ odd \subseteq odd'
         /\ \/ convs[c].status \in Open /\ convs'[c].status \in Open /\ odd' = odd
            \/ /\ convs'[c].status = "closed"
               /\ odd' = odd \cup {Cur(d) : d \in {e \in Under(deliv) : c \in {deliv[e].conv, deliv[e].turn}}}
<1>1. Typed /\ c \in 1..Len(convs)
  BY RowOf DEF Shape
<1>2. CASE Accept(c)
  <2>1. SetStatus(c, {"ai", "waiting"}, "human") /\ odd' = odd
    BY <1>2 DEF Accept
  <2>2. Changes(c) /\ RowsGrow /\ convs'[c].status = "human"
    BY <1>1, <2>1, StatusRow DEF Open
  <2> QED
    BY <2>1, <2>2 DEF SetStatus, History, Open
<1>3. CASE HandBack(c)
  <2>1. SetStatus(c, {"human"}, "ai") /\ odd' = odd
    BY <1>3 DEF HandBack
  <2>2. Changes(c) /\ RowsGrow /\ convs'[c].status = "ai"
    BY <1>1, <2>1, StatusRow DEF Open
  <2> QED
    BY <2>1, <2>2 DEF SetStatus, History, Open
<1>4. CASE Close(c)
  <2>1. /\ SetStatus(c, Open, "closed")
        /\ odd' = odd \cup {Cur(d) : d \in {e \in Under(deliv) : c \in {deliv[e].conv, deliv[e].turn}}}
    BY <1>4 DEF Close
  <2>2. Changes(c) /\ RowsGrow /\ convs'[c].status = "closed"
    BY <1>1, <2>1, StatusRow
  <2> QED
    BY <2>1, <2>2 DEF SetStatus, History
<1> QED
  BY <1>2, <1>3, <1>4 DEF Agents

LEMMA AgentsShape ==
  ASSUME Shape, NEW c \in DOMAIN convs, Agents(c)
  PROVE  Shape' /\ Grow
<1>1. /\ RowsGrow /\ odd \subseteq odd'
      /\ UNCHANGED <<kind, mode, arrived, thread, sessions, msgs, mapped, deliv>>
      /\ UNCHANGED <<cut, dropped, stray, unseen>>
  BY AgentsRow
<1>2. Typed /\ RowsOK
  BY ShapeRows DEF Shape
<1>3. Grow
  BY <1>1, <1>2, SameMsgs, SizesOK DEF Grow
<1>4. RowsOK'
  BY <1>1, <1>3, QuietRows
<1>5. odd' \subseteq odd \cup (1..arrived)
  <2>1. \A d \in Under(deliv) : Cur(d) \in 1..arrived
    BY CurArrived DEF Under, Works
  <2> QED
    BY <2>1, AgentsRow
<1> QED
  BY <1>1, <1>3, <1>4, <1>5, StillFits

LEMMA ArriveShape ==
  ASSUME Shape, Arrive
  PROVE  Shape' /\ Grow
<1>1. Typed /\ RowsOK
  BY ShapeRows DEF Shape
<1>2. /\ UNCHANGED <<kind, mode, thread, sessions, convs, msgs, mapped, deliv, odd>>
      /\ UNCHANGED <<cut, dropped, stray, unseen>>
      /\ arrived' = arrived + 1 /\ arrived' \in 0..NumInbounds
  BY <1>1, IngestAssumption DEF Arrive, History, RowsOK, TypedRows
<1>3. Grow
  BY <1>1, <1>2, SameRows, SameMsgs, SizesOK DEF Grow
<1>4. RowsOK'
  <2>1. \A m \in 1..Len(msgs') : ~(m > Len(msgs))
    BY <1>1, <1>2, RowOf
  <2>2. thread.cursor <= arrived'
    BY <1>1, <1>2, SizesOK DEF RowsOK, BoundedRows
  <2> QED
    BY <1>1, <1>2, <1>3, <2>1, <2>2, RowsFit DEF RowsOK, BoundedRows, TypedRows
<1> QED
  BY <1>2, <1>3, <1>4, StillFits

LEMMA PublishShape ==
  ASSUME Shape, Publish
  PROVE  Shape' /\ Grow
<1>1. Typed /\ RowsOK
  BY ShapeRows DEF Shape
<1>2. /\ UNCHANGED <<kind, mode, arrived, thread, convs, msgs, mapped, deliv, odd>>
      /\ UNCHANGED <<cut, dropped, stray, unseen>>
  BY DEF Publish, History
<1>3. /\ sessions' \in [count : Nat, outdated : SUBSET Nat] /\ sessions'.count = sessions.count
      /\ sessions'.outdated = 1..sessions.count
  <2>1. sessions \in [count : Nat, outdated : SUBSET Nat] /\ 1..sessions.count \in SUBSET Nat
    BY <1>1 DEF RowsOK, TypedRows
  <2>2. sessions' = [sessions EXCEPT !.outdated = 1..sessions.count]
    BY DEF Publish
  <2> QED
    BY <2>1, <2>2
<1>4. Grow
  BY <1>1, <1>2, <1>3, SameRows, SameMsgs, SizesOK DEF Grow
<1>5. RowsOK'
  <2>1. \A m \in 1..Len(msgs') : ~(m > Len(msgs))
    BY <1>1, <1>2, RowOf
  <2> QED
    BY <1>1, <1>2, <1>3, <1>4, <2>1, RowsFit DEF RowsOK, BoundedRows, TypedRows
<1> QED
  BY <1>2, <1>4, <1>5, StillFits

LEMMA RestartShape ==
  ASSUME Shape, Restart
  PROVE  Shape' /\ Grow
<1>1. Typed /\ RowsOK
  BY ShapeRows DEF Shape
<1>2. /\ UNCHANGED <<kind, mode, arrived, thread, sessions, convs, msgs, mapped, odd, dropped, stray, unseen>>
      /\ deliv' = [d \in Deliveries |-> Idle] /\ cut \subseteq cut'
      /\ cut' \subseteq cut \cup (1..arrived)
  <2>1. \A d \in Under(deliv) : Cur(d) \in 1..arrived
    BY CurArrived DEF Under, Works
  <2> QED
    BY <2>1 DEF Restart
<1>3. Grow
  BY <1>1, <1>2, SameRows, SameMsgs, SizesOK DEF Grow
<1>4. RowsOK'
  BY <1>2, <1>3, QuietRows
<1>5. TypedSlots' /\ \A d \in Deliveries : SlotOK(deliv[d])'
  <2>1. sessions'.count \in Nat /\ Len(convs') \in Nat /\ Len(msgs') \in Nat
    BY <1>4, SizesNext
  <2>2. PICK slot : slot = Idle
    OBVIOUS
  <2>3. SlotOK(slot)'
    BY <2>1, <2>2, IdleSlot DEF SlotOK, Entered, Before
  <2>4. \A d \in Deliveries : deliv'[d] = slot
    BY <1>2, <2>2
  <2> QED
    BY <1>2, <2>2, <2>3, <2>4, IdleSlot DEF TypedSlots, Works
<1> QED
  BY <1>2, <1>3, <1>4, <1>5 DEF Shape, BoundedSlots, Typed, RowsOK

LEMMA StutterShape ==
  ASSUME Shape, UNCHANGED vars
  PROVE  Shape' /\ Grow
<1>1. Typed /\ RowsOK
  BY ShapeRows DEF Shape
<1>2. /\ UNCHANGED <<kind, mode, arrived, thread, sessions, convs, msgs, mapped, deliv, odd>>
      /\ UNCHANGED <<cut, dropped, stray, unseen>>
  BY DEF vars
<1>3. Grow
  BY <1>1, <1>2, SameRows, SameMsgs, SizesOK DEF Grow
<1>4. RowsOK'
  BY <1>2, <1>3, QuietRows
<1> QED
  BY <1>2, <1>3, <1>4, StillFits

DeliveryStep(d) ==
  \/ Start(d) \/ Look(d) \/ ResolveSession(d) \/ ResolveConversation(d) \/ OpenConversation(d)
  \/ Turn(d) \/ Answer(d) \/ Store(d) \/ Page(d) \/ PageFails(d)
  \/ MapTurn(d) \/ Throw(d)

LEMMA StepCases ==
  ASSUME [Next]_vars
  PROVE  \/ \E d \in Deliveries : DeliveryStep(d)
         \/ \E c \in DOMAIN convs : Agents(c)
         \/ Arrive \/ Publish \/ Restart \/ UNCHANGED vars
  BY DEF Next, DeliveryStep, Agents

LEMMA ShapeStep ==
  ASSUME Shape, [Next]_vars
  PROVE  Shape' /\ Grow
<1>1. ASSUME NEW d \in Deliveries, DeliveryStep(d)
      PROVE  Shape' /\ Grow
  BY <1>1, StartShape, LookShape, ResolveSessionShape, ResolveConversationShape,
     OpenConversationShape, TurnShape, AnswerShape, StoreShape, PageShape, MapTurnShape, ThrowShape
     DEF DeliveryStep
<1>2. ASSUME NEW c \in DOMAIN convs, Agents(c)
      PROVE  Shape' /\ Grow
  BY <1>2, AgentsShape
<1> QED
  BY <1>1, <1>2, StepCases, ArriveShape, PublishShape, RestartShape, StutterShape

LEMMA ShapeInit == Init => Shape
<1> SUFFICES ASSUME Init PROVE Shape
  OBVIOUS
<1>1. TypedRows
  <2>1. convs \in Seq(ConvRows) /\ msgs \in Seq(MsgRows)
    BY EmptySeq DEF Init
  <2>2. mapped \in [Inbounds -> Nat]
    BY DEF Init
  <2>3. arrived \in 0..NumInbounds
    BY IngestAssumption DEF Init
  <2> QED
    BY <2>1, <2>2, <2>3 DEF Init, TypedRows
<1>2. TypedSlots
  BY IdleSlot DEF Init, TypedSlots, Works
<1>3. Len(convs) = 0 /\ Len(msgs) = 0
  BY EmptySeq DEF Init
<1>4. BoundedRows
  BY <1>3 DEF Init, BoundedRows
<1>5. \A d \in Deliveries : deliv[d] = Idle
  BY DEF Init
<1>6. \A d \in Deliveries : SlotOK(deliv[d])
  <2>1. SlotOK(Idle)
    BY <1>3, IdleSlot DEF Init, SlotOK, Entered, Before
  <2> QED
    BY <1>5, <2>1
<1> QED
  BY <1>1, <1>2, <1>4, <1>6 DEF Init, Shape, Typed, BoundedSlots

LEMMA ShapeAlways == Spec => [](Shape)
<1>1. Init => Shape
  BY ShapeInit
<1>2. Shape /\ [Next]_vars => Shape'
  BY ShapeStep
<1> QED
  BY <1>1, <1>2, PTL DEF Spec

LEMMA ShapeImpliesType == Shape => TypeOK
<1> SUFFICES ASSUME Shape PROVE TypeOK
  OBVIOUS
<1>1. Typed /\ BoundedRows /\ BoundedSlots
  BY DEF Shape
<1>2. RowsOK
  BY ShapeRows
<1>3. thread \in [session : 0..sessions.count, conv : 0..Len(convs), cursor : 0..arrived]
  BY <1>1, <1>2, SizesOK DEF Typed, TypedRows, BoundedRows
<1>4. \A c \in DOMAIN convs :
        convs[c] \in [session : 1..sessions.count, status : Open \cup {"closed"},
                      escalated : BOOLEAN, back : BOOLEAN]
  <2>1. SUFFICES ASSUME NEW c \in 1..Len(convs)
                 PROVE  convs[c] \in [session : 1..sessions.count, status : Open \cup {"closed"},
                                      escalated : BOOLEAN, back : BOOLEAN]
    BY <1>1, RowOf
  <2>2. convs[c] \in ConvRows /\ convs[c].session \in 1..sessions.count
    BY <1>1, <1>2, RowOf, SizesOK DEF BoundedRows
  <2> QED
    BY <2>2 DEF ConvRows
<1>5. \A m \in DOMAIN msgs : msgs[m] \in [conv : DOMAIN convs, inbound : 1..arrived]
  <2>1. SUFFICES ASSUME NEW m \in 1..Len(msgs)
                 PROVE  msgs[m] \in [conv : 1..Len(convs), inbound : 1..arrived]
    BY <1>1, RowOf
  <2>2. msgs[m] \in MsgRows /\ msgs[m].conv \in 1..Len(convs) /\ msgs[m].inbound \in 1..arrived
    BY <1>1, <1>2, RowOf, SizesOK DEF BoundedRows, Inbounds
  <2> QED
    BY <2>2 DEF MsgRows
<1>6. mapped \in [Inbounds -> 0..Len(msgs)]
  BY <1>1, <1>2, SizesOK DEF Typed, TypedRows, BoundedRows
<1>7. \A d \in Under(deliv) :
        deliv[d].batch \in (SUBSET (1..arrived)) \ {{}} /\ deliv[d].conv <= Len(convs)
  BY <1>1 DEF Under, Works, Typed, TypedSlots, BoundedSlots, SlotOK
<1> QED
  BY <1>1, <1>3, <1>4, <1>5, <1>6, <1>7 DEF TypeOK, Typed, TypedRows, BoundedRows, BoundedSlots

(* The rows and what the deliveries hold of them fit together: a thread    *)
(* points to a session and a conversation that exist, a message to its     *)
(* conversation, a map row to its message.                                 *)
THEOREM TypeCorrect == Spec => []TypeOK
  BY ShapeAlways, ShapeImpliesType, PTL

-----------------------------------------------------------------------------
(* A poll passes no message by.                                             *)

\* How a delivery moves: it takes a batch, is through with a message, or goes on with it.
LEMMA SlotStep ==
  ASSUME Shape, NEW d \in Deliveries, DeliveryStep(d)
  PROVE  /\ Moves(d)
         /\ \/ Start(d) /\ ~Works(d) /\ deliv'[d].pc = "look"
            \/ /\ Works(d) /\ Leaves(d)
               /\ (Look(d) /\ mapped[Cur(d)] # 0) \/ Throw(d) \/ MapTurn(d)
            \/ /\ Works(d) /\ deliv'[d].batch = deliv[d].batch
               /\ \/ /\ deliv'[d].pc \in {"session", "conv", "open", "turn", "store"}
                     /\ \/ Look(d) /\ mapped[Cur(d)] = 0 /\ ReadThread(d)
                        \/ ResolveSession(d) \/ ResolveConversation(d) \/ OpenConversation(d)
                  \/ Turn(d) /\ deliv[d].pc = "turn" /\ deliv'[d].pc \in Done
                  \/ Store(d) /\ deliv[d].pc = "store" /\ deliv'[d].pc = "page"
                  \/ /\ deliv[d].pc \in Done /\ deliv'[d].pc \in {"page", "map"}
                     /\ Answer(d) \/ Page(d) \/ PageFails(d)
<1>1. Typed
  BY DEF Shape
<1>2. CASE Start(d)
  <2>1. PICK batch \in (SUBSET (1..arrived)) \ {{}} : Move(d, [Idle EXCEPT !.pc = "look", !.batch = batch])
    BY <1>2 DEF Start
  <2>2. 1..arrived \subseteq Inbounds
    BY IngestAssumption DEF Shape, Typed, TypedRows, Inbounds
  <2>3. batch \in SUBSET Inbounds /\ batch # {}
    BY <2>2
  <2> QED
    BY <1>1, <1>2, <2>1, <2>3, LookSlot DEF Looks, Start, At, Works
<1>3. CASE Look(d) /\ NextInbound(d) /\ mapped[Cur(d)] # 0
  BY <1>1, <1>3, LeaveSlot DEF Look, At, Works, Leaves
<1>4. CASE Look(d) /\ ReadThread(d) /\ mapped[Cur(d)] = 0
  <2>1. Works(d) /\ Moves(d) /\ deliv'[d].batch = deliv[d].batch /\ deliv'[d].pc \in {"session", "conv"}
    BY <1>1, <1>4, ReadSlot DEF Look, At, Works
  <2> QED
    BY <1>4, <2>1
<1>5. CASE ResolveSession(d)
  BY <1>1, <1>5, ResolveSessionSlot DEF ResolveSession, At, Works
<1>6. CASE ResolveConversation(d)
  <2>1. Works(d)
    BY <1>6 DEF ResolveConversation, At, Works
  <2>2. CASE OpenOf(deliv[d].session) = {}
    BY <1>1, <1>6, <2>1, <2>2, GotoSlot DEF ResolveConversation, Keeps, Before
  <2>3. CASE OpenOf(deliv[d].session) # {}
    <3>1. PICK c : c = Latest(OpenOf(deliv[d].session))
      OBVIOUS
    <3>2. c \in 1..Len(convs) /\ Enter(d, c, convs[c])
      BY <1>1, <1>6, <2>3, <3>1, OpenConvs DEF ResolveConversation
    <3>3. c \in Nat /\ convs[c] \in ConvRows
      BY <1>1, <3>2, RowOf
    <3>4. Enters(d, c, convs[c])
      BY <1>1, <3>2, <3>3, EnterSlot
    <3> QED
      BY <1>6, <2>1, <3>4 DEF Enters
  <2> QED
    BY <2>2, <2>3
<1>7. CASE OpenConversation(d)
  <2>1. Works(d)
    BY <1>7 DEF OpenConversation, At, Works
  <2>2. PICK c, row : c = Len(convs') /\ row = convs'[Len(convs')]
    OBVIOUS
  <2>3. Shape' /\ Grow
    BY <1>7, OpenConversationShape
  <2>4. convs' \in Seq(ConvRows) /\ Len(convs) < Len(convs')
    <3>1. deliv[d].session \in Nat \ {0} /\ deliv[d].session <= sessions'.count
      BY <1>7 DEF OpenConversation, At, Shape, BoundedSlots, SlotOK, Typed, TypedSlots, SlotTypes, Entered
    <3>2. RowsGrow /\ Len(convs') = Len(convs) + 1
      BY <1>1, <1>7, <3>1, NewRow DEF OpenConversation
    <3> QED
      BY <1>1, <3>2, RowOf DEF RowsGrow
  <2>5. c \in Nat /\ row \in ConvRows
    BY <1>1, <2>2, <2>4, RowOf, LenProperties, ElementOfSeq
  <2>6. Enter(d, c, row)
    BY <1>7, <2>2 DEF OpenConversation
  <2> QED
    BY <1>1, <1>7, <2>1, <2>5, <2>6, EnterSlot DEF Enters
<1>8. CASE Turn(d)
  <2>1. Works(d) /\ deliv[d].pc = "turn"
    BY <1>8 DEF Turn, At, Works
  <2>2. CASE Blocked(d)
    <3>1. Goto(d, "map") \/ Goto(d, "page")
      BY <1>8, <2>2 DEF Turn, Blocked
    <3> QED
      BY <1>1, <1>8, <2>1, <3>1, GotoSlot DEF Keeps, Entered, Done
  <2>3. CASE ~Blocked(d)
    BY <1>1, <1>8, <2>1, <2>3, TurnSlot DEF Done
  <2> QED
    BY <2>2, <2>3
<1>9. CASE Store(d)
  BY <1>1, <1>9, StoreSlot DEF Store, At, Works
<1>10. CASE Answer(d) \/ Page(d) \/ PageFails(d)
  <2>1. deliv[d].pc \in Done /\ Works(d) /\ (Goto(d, "map") \/ Goto(d, "page"))
    BY <1>10 DEF Answer, Page, PageFails, At, Works, Done
  <2> QED
    BY <1>1, <1>10, <2>1, GotoSlot DEF Keeps, Entered
<1>11. CASE MapTurn(d)
  BY <1>1, <1>11, LeaveSlot DEF MapTurn, At, Works, Leaves
<1>12. CASE Throw(d)
  BY <1>1, <1>12, LeaveSlot DEF Throw, Works, Leaves
<1> QED
  BY <1>2, <1>3, <1>4, <1>5, <1>6, <1>7, <1>8, <1>9, <1>10, <1>11, <1>12 DEF DeliveryStep, Look

\* The message is stored, turned away, or a delivery of it failed.
Handled(i) == i \in cut \cup dropped \/ \E m \in 1..Len(msgs) : msgs[m].inbound = i

\* The first of a batch is handled before it is left, and nothing between two of a poll's is not.
SlotPasses(slot) ==
  /\ slot.pc \in Done => Handled(First(slot.batch))
  /\ kind = "poll" /\ slot.pc # "idle" =>
       \A b \in slot.batch : \A i \in (1..b) \ slot.batch : Handled(i)

Passing ==
  /\ \A i \in Inbounds : mapped[i] # 0 => Handled(i)
  /\ kind = "poll" => \A i \in 1..thread.cursor : Handled(i)
  /\ \A d \in Deliveries : SlotPasses(deliv[d])

LEMMA HandledStays ==
  ASSUME Shape, Grow
  PROVE  \A i : Handled(i) => Handled(i)'
<1>1. /\ Len(msgs) <= Len(msgs') /\ \A m \in 1..Len(msgs) : msgs'[m] = msgs[m]
      /\ cut \subseteq cut' /\ dropped \subseteq dropped' /\ msgs' \in Seq(MsgRows)
  BY DEF Grow, MsgsGrow
<1>2. Len(msgs) \in Nat /\ Len(msgs') \in Nat
  BY <1>1, LenProperties, ShapeRows, SizesOK
<1>3. 1..Len(msgs) \subseteq 1..Len(msgs')
  BY <1>1, <1>2
<1> QED
  BY <1>1, <1>3 DEF Handled

LEMMA SlotPassesStays ==
  ASSUME Shape, Grow, NEW e \in Deliveries, SlotPasses(deliv[e]), deliv'[e] = deliv[e]
  PROVE  SlotPasses(deliv[e])'
<1>1. kind' = kind
  BY DEF Grow
<1>2. \A i : Handled(i) => Handled(i)'
  BY HandledStays
<1> QED
  BY <1>1, <1>2 DEF SlotPasses

\* The map and the cursor move in MapTurn alone.
Unpassed == mapped' = mapped /\ thread'.cursor = thread.cursor

LEMMA PassingRows ==
  ASSUME Shape, Grow, Passing, Unpassed
  PROVE  /\ \A i \in Inbounds : mapped'[i] # 0 => Handled(i)'
         /\ kind' = "poll" => \A i \in 1..thread'.cursor : Handled(i)'
<1>1. kind' = kind
  BY DEF Grow
<1>2. \A i : Handled(i) => Handled(i)'
  BY HandledStays
<1> QED
  BY <1>1, <1>2 DEF Passing, Unpassed

LEMMA LeavesPasses ==
  ASSUME Shape, Grow, Passing, NEW d \in Deliveries, Works(d), Leaves(d),
         \E x : x = Cur(d) /\ Handled(x)'
  PROVE  SlotPasses(deliv[d])'
<1>1. kind' = kind
  BY DEF Grow
<1>2. \A i : Handled(i) => Handled(i)'
  BY HandledStays
<1>3. CASE deliv'[d] = Idle
  <2>1. (deliv[d].pc = "idle")'
    BY <1>3, IdleSlot
  <2> QED
    BY <2>1 DEF SlotPasses, Done
<1>4. CASE Looks(deliv'[d], deliv[d].batch \ {Cur(d)})
  <2>1. deliv'[d].pc = "look" /\ deliv'[d].batch = deliv[d].batch \ {Cur(d)}
    BY <1>4 DEF Looks
  <2>2. kind = "poll" => \A b \in deliv[d].batch : \A i \in (1..b) \ deliv[d].batch : Handled(i)
    BY DEF Passing, SlotPasses, Works
  <2>3. PICK x : x = Cur(d) /\ Handled(x)'
    OBVIOUS
  <2>4. Handled(x)'
    BY <2>3
  <2>5. kind = "poll" =>
          \A b \in deliv'[d].batch : \A i \in (1..b) \ deliv'[d].batch : Handled(i)'
    BY <1>2, <2>1, <2>2, <2>3, <2>4
  <2> QED
    BY <1>1, <2>1, <2>5 DEF SlotPasses, Done
<1> QED
  BY <1>3, <1>4 DEF Leaves

LEMMA StaysPasses ==
  ASSUME Shape, Grow, Passing, NEW d \in Deliveries, Works(d), deliv'[d].batch = deliv[d].batch,
         deliv'[d].pc \in Done => \E x : x = Cur(d) /\ Handled(x)'
  PROVE  SlotPasses(deliv[d])'
<1>1. kind' = kind
  BY DEF Grow
<1>2. \A i : Handled(i) => Handled(i)'
  BY HandledStays
<1>3. kind = "poll" => \A b \in deliv[d].batch : \A i \in (1..b) \ deliv[d].batch : Handled(i)
  BY DEF Passing, SlotPasses, Works
<1>4. First(deliv'[d].batch) = Cur(d)
  BY DEF Cur
<1> QED
  BY <1>1, <1>2, <1>3, <1>4 DEF SlotPasses

LEMMA PassingDelivery ==
  ASSUME Shape, Passing, NEW d \in Deliveries, DeliveryStep(d)
  PROVE  Passing'
<1>1. Shape' /\ Grow
  <2>1. [Next]_vars
    BY DEF Next, DeliveryStep
  <2> QED
    BY <2>1, ShapeStep
<1>2. Moves(d)
  BY SlotStep
<1>3. \A e \in Deliveries \ {d} : SlotPasses(deliv[e])'
  BY <1>1, <1>2, SlotPassesStays DEF Moves, Passing
<1>4. \A i : Handled(i) => Handled(i)'
  BY <1>1, HandledStays
<1>5. PICK x : x = Cur(d)
  OBVIOUS
<1>6. CASE Start(d)
  <2>1. Unpassed
    BY <1>6 DEF Start, Unpassed
  <2>2. PICK batch \in (SUBSET (1..arrived)) \ {{}} :
          /\ kind = "poll" => batch = {i \in 1..arrived : i > thread.cursor}
          /\ Move(d, [Idle EXCEPT !.pc = "look", !.batch = batch])
    BY <1>6 DEF Start
  <2>3. 1..arrived \subseteq Inbounds /\ arrived \in Nat /\ thread.cursor \in Nat
    BY IngestAssumption, SizesOK, ShapeRows DEF Shape, Typed, TypedRows, Inbounds
  <2>4. batch \in SUBSET Inbounds /\ batch # {} /\ Typed
    BY <2>3 DEF Shape
  <2>5. deliv'[d].pc = "look" /\ deliv'[d].batch = batch
    BY <2>2, <2>4, LookSlot DEF Looks
  <2>6. kind = "poll" => \A b \in batch : \A i \in (1..b) \ batch : i \in 1..thread.cursor
    BY <2>2, <2>3
  <2>7. kind = "poll" => \A b \in batch : \A i \in (1..b) \ batch : Handled(i)'
    BY <1>4, <2>6 DEF Passing
  <2>8. kind' = kind
    BY <1>1 DEF Grow
  <2>9. SlotPasses(deliv[d])'
    BY <2>5, <2>7, <2>8 DEF SlotPasses, Done
  <2> QED
    BY <1>1, <1>3, <2>1, <2>9, PassingRows DEF Passing
<1>7. CASE Works(d) /\ Leaves(d) /\ ((Look(d) /\ mapped[Cur(d)] # 0) \/ Throw(d))
  <2>1. Unpassed
    BY <1>7 DEF Look, Throw, Unpassed
  <2>2. Handled(x)'
    <3>1. CASE Look(d) /\ mapped[Cur(d)] # 0
      BY <1>4, <1>5, <1>7, <3>1, CurOf DEF Passing, Shape
    <3>2. CASE Throw(d)
      BY <1>5, <3>2 DEF Throw, Handled
    <3> QED
      BY <1>7, <3>1, <3>2
  <2>3. SlotPasses(deliv[d])'
    BY <1>1, <1>5, <1>7, <2>2, LeavesPasses
  <2> QED
    BY <1>1, <1>3, <2>1, <2>3, PassingRows DEF Passing
<1>8. CASE MapTurn(d)
  <2>1. deliv[d].pc = "map" /\ Works(d) /\ NextInbound(d) /\ Typed
    BY <1>8 DEF MapTurn, At, Works, Shape
  <2>2. Handled(x)
    BY <1>5, <2>1 DEF Passing, SlotPasses, Done, Cur
  <2>3. SlotPasses(deliv[d])'
    BY <1>1, <1>4, <1>5, <1>8, <2>1, <2>2, LeaveSlot, LeavesPasses
  <2>4. \A i \in Inbounds : mapped'[i] # 0 => Handled(i)
    <3>1. \A i \in Inbounds : mapped'[i] # 0 => mapped[i] # 0 \/ i = x
      <4>1. mapped \in [Inbounds -> Nat]
        BY <2>1 DEF Typed, TypedRows
      <4>2. mapped' = mapped \/ \E m : mapped' = [mapped EXCEPT ![x] = m]
        BY <1>5, <1>8 DEF MapTurn
      <4> QED
        BY <4>1, <4>2
    <3> QED
      BY <2>2, <3>1 DEF Passing
  <2>5. thread'.cursor = x
    BY <1>5, <1>8, <2>1 DEF MapTurn, Passed, Typed, TypedRows
  <2>6. kind = "poll" => \A i \in 1..x : Handled(i)
    <3>1. x \in deliv[d].batch /\ (\A j \in deliv[d].batch : x <= j) /\ x \in Nat
      BY <1>5, <2>1, CurOf DEF Inbounds
    <3>2. \A i \in 1..x : i = x \/ i \in (1..x) \ deliv[d].batch
      BY <3>1
    <3>3. kind = "poll" => \A i \in (1..x) \ deliv[d].batch : Handled(i)
      BY <2>1, <3>1 DEF Passing, SlotPasses
    <3> QED
      BY <2>2, <3>2, <3>3
  <2>7. kind' = kind
    BY <1>1 DEF Grow
  <2> QED
    BY <1>3, <1>4, <2>3, <2>4, <2>5, <2>6, <2>7 DEF Passing
<1>9. CASE /\ Works(d) /\ deliv'[d].batch = deliv[d].batch
           /\ Look(d) \/ ResolveSession(d) \/ ResolveConversation(d) \/ OpenConversation(d)
           /\ deliv'[d].pc \notin Done
  <2>1. Unpassed
    <3>1. thread \in [session : Nat, conv : Nat, cursor : Nat]
      BY DEF Shape, Typed, TypedRows
    <3> QED
      BY <1>9, <3>1
         DEF Look, ResolveSession, ResolveConversation, OpenConversation, Unpassed
  <2> QED
    BY <1>1, <1>3, <1>9, <2>1, StaysPasses, PassingRows DEF Passing
<1>10. CASE /\ Works(d) /\ deliv'[d].batch = deliv[d].batch
            /\ \/ Turn(d) \/ Store(d)
               \/ deliv[d].pc \in Done /\ (Answer(d) \/ Page(d) \/ PageFails(d))
  <2>1. Unpassed
    BY <1>10 DEF Turn, Store, Answer, Page, PageFails, Unpassed
  <2>2. Handled(x)'
    <3>1. Typed /\ Cur(d) \in Inbounds
      BY <1>10, CurOf DEF Shape
    <3>2. CASE Turn(d) /\ Blocked(d)
      BY <1>5, <3>2 DEF Turn, Blocked, Handled
    <3>3. CASE Turn(d) /\ ~Blocked(d)
      <4>1. PICK c : c = TurnConv(d)
        OBVIOUS
      <4>2. msgs' = Append(msgs, [conv |-> c, inbound |-> x]) /\ c \in Nat \ {0} /\ x \in Inbounds
        BY <1>5, <3>1, <3>3, <4>1, TurnConvOf DEF Turn, TurnConv, Blocked
      <4>3. Len(msgs') = Len(msgs) + 1 /\ msgs'[Len(msgs) + 1] = [conv |-> c, inbound |-> x]
        BY <3>1, <4>2, NewMsg
      <4> QED
        BY <3>1, <4>3, RowOf DEF Handled
    <3>4. CASE Store(d)
      <4>1. PICK c : c = deliv[d].conv
        OBVIOUS
      <4>2. c \in Nat \ {0}
        BY <3>4, <4>1 DEF Store, At, Shape, BoundedSlots, SlotOK, Typed, TypedSlots, SlotTypes, Entered
      <4>3. msgs' = Append(msgs, [conv |-> c, inbound |-> x]) /\ x \in Inbounds
        BY <1>5, <3>1, <3>4, <4>1 DEF Store
      <4>4. Len(msgs') = Len(msgs) + 1 /\ msgs'[Len(msgs) + 1] = [conv |-> c, inbound |-> x]
        BY <3>1, <4>2, <4>3, NewMsg
      <4> QED
        BY <3>1, <4>4, RowOf DEF Handled
    <3>5. CASE deliv[d].pc \in Done
      BY <1>4, <1>5, <3>5 DEF Passing, SlotPasses, Cur
    <3> QED
      BY <1>10, <3>2, <3>3, <3>4, <3>5
  <2>3. SlotPasses(deliv[d])'
    BY <1>1, <1>5, <1>10, <2>2, StaysPasses
  <2> QED
    BY <1>1, <1>3, <2>1, <2>3, PassingRows DEF Passing
<1> QED
  BY <1>6, <1>7, <1>8, <1>9, <1>10, SlotStep DEF Done

LEMMA PassingOthers ==
  ASSUME Shape, Passing, [Next]_vars,
         \/ \E c \in DOMAIN convs : Agents(c)
         \/ Arrive \/ Publish \/ Restart \/ UNCHANGED vars
  PROVE  Passing'
<1>1. Shape' /\ Grow
  BY ShapeStep
<1>2. Unpassed
  BY AgentsRow DEF Arrive, Publish, Restart, vars, Unpassed
<1>3. \A e \in Deliveries : SlotPasses(deliv[e])'
  <2>1. CASE deliv' = deliv
    BY <1>1, <2>1, SlotPassesStays DEF Passing
  <2>2. CASE Restart
    <3>1. \A e \in Deliveries : (deliv[e].pc = "idle")'
      BY <2>2, IdleSlot DEF Restart
    <3> QED
      BY <3>1 DEF SlotPasses, Done
  <2> QED
    BY <2>1, <2>2, AgentsRow DEF Arrive, Publish, vars
<1> QED
  BY <1>1, <1>2, <1>3, PassingRows DEF Passing

LEMMA PassingInit == Init => Passing
<1> SUFFICES ASSUME Init PROVE Passing
  OBVIOUS
<1>1. \A d \in Deliveries : SlotPasses(deliv[d])
  BY IdleSlot DEF Init, SlotPasses, Done
<1> QED
  BY <1>1 DEF Init, Passing

LEMMA PassingAlways == Spec => [](Shape /\ Passing)
<1>1. Init => Shape /\ Passing
  BY ShapeInit, PassingInit
<1>2. Shape /\ Passing /\ [Next]_vars => (Shape /\ Passing)'
  BY ShapeStep, StepCases, PassingDelivery, PassingOthers
<1> QED
  BY <1>1, <1>2, PTL DEF Spec

(* A poll leaves no message behind its cursor that is not stored: what the *)
(* cursor has passed was stored, turned away for want of consent, or met a *)
(* failure, whatever ran at the same time.                                 *)
THEOREM NonePassed == Spec => []PollPassesNone
<1>1. Shape /\ Passing => PollPassesNone
  BY RowOf DEF Shape, Passing, PollPassesNone, Handled, Copies
<1> QED
  BY <1>1, PassingAlways, PTL

-----------------------------------------------------------------------------
(* What a delivery that met no other and kept its conversation can rely on. *)

Alone(d) == Works(d) /\ Cur(d) \notin odd

Right(slot) ==
  /\ slot.pc \in {"session", "conv"} => slot.at = thread.conv
  /\ slot.pc = "open" => OpenOf(slot.session) = {}
  /\ slot.pc \in Entered => /\ slot.conv \in OpenOf(slot.session)
                            /\ \A k \in OpenOf(slot.session) : k <= slot.conv
                            /\ thread.conv = slot.conv
  /\ slot.pc \in {"turn", "store"} => slot.since = Len(msgs)
  /\ slot.pc \in Done =>
       \/ slot.turn = 0 /\ slot.since = Len(msgs) /\ slot.pc # "answer"
       \/ /\ slot.turn = slot.conv /\ Len(msgs) = slot.since + 1
          /\ msgs[slot.since + 1] = [conv |-> slot.conv, inbound |-> First(slot.batch)]

Sole == \A d, e \in Deliveries : Alone(d) /\ Works(e) => e = d

Certain == Sole /\ (\A d \in Deliveries : Alone(d) => Right(deliv[d])) /\ stray \subseteq odd

\* Whoever is alone after a step of a delivery is this delivery.
LEMMA SoleMover ==
  ASSUME Shape, Sole, NEW d \in Deliveries, DeliveryStep(d)
  PROVE  \A e, f \in Deliveries : Alone(e)' => e = d /\ (Works(f)' => f = d)
<1>1. /\ Moves(d)
      /\ Works(d) \/ deliv'[d].pc = "look"
  BY SlotStep
<1>2. SUFFICES ASSUME NEW e \in Deliveries, Alone(e)'
               PROVE  e = d /\ \A f \in Deliveries : Works(f)' => f = d
  OBVIOUS
<1>3. ASSUME NEW f \in Deliveries, Works(f)', f # e
      PROVE  FALSE
  <2>1. PICK ds : ds = deliv'
    OBVIOUS
  <2>2. e \in Under(ds) /\ f \in Under(ds)
    BY <1>2, <1>3, <2>1 DEF Alone, Works, Under
  <2>3. First(ds[e].batch) \in Met(ds)
    BY <1>3, <2>2, MetOf
  <2>4. First(deliv'[e].batch) \in odd'
    BY <1>1, <2>1, <2>3 DEF Moves
  <2> QED
    BY <1>2, <2>4 DEF Alone, Cur
<1>4. e = d
  <2>1. SUFFICES ASSUME e # d PROVE FALSE
    OBVIOUS
  <2>2. deliv'[e] = deliv[e] /\ odd \subseteq odd'
    BY <1>1, <2>1 DEF Moves
  <2>3. Alone(e)
    BY <1>2, <2>2 DEF Alone, Works, Cur
  <2>4. ~Works(d)
    BY <2>1, <2>3 DEF Sole
  <2>5. Works(d)'
    BY <1>1, <2>4 DEF Works
  <2> QED
    BY <1>3, <2>1, <2>5
<1> QED
  BY <1>3, <1>4

\* A delivery that goes on with its message was alone before, if it is alone after.
LEMMA AloneBefore ==
  ASSUME NEW d \in Deliveries, Works(d), deliv'[d].batch = deliv[d].batch, odd \subseteq odd', Alone(d)'
  PROVE  Alone(d)
  BY DEF Alone, Cur

LEMMA OpenChanges ==
  ASSUME Typed, NEW c \in 1..Len(convs), Changes(c)
  PROVE  \A s : /\ (convs[c].status \in Open <=> convs'[c].status \in Open) => OpenOf(s)' = OpenOf(s)
                /\ convs'[c].status \notin Open => OpenOf(s)' = OpenOf(s) \ {c}
<1>1. DOMAIN convs = 1..Len(convs) /\ DOMAIN convs' = 1..Len(convs)
  <2>1. convs' \in Seq(ConvRows) /\ Len(convs') = Len(convs)
    BY DEF Changes
  <2> QED
    BY <2>1, RowOf, LenProperties
<1>2. \A k \in 1..Len(convs) : /\ k # c => convs'[k] = convs[k]
                               /\ convs'[k].session = convs[k].session
  BY DEF Changes
<1> QED
  BY <1>1, <1>2 DEF OpenOf

LEMMA OpenNew ==
  ASSUME Typed, NEW s \in Nat \ {0}, s <= sessions'.count, convs' = Append(convs, Fresh(s)),
         OpenOf(s) = {}
  PROVE  OpenOf(s)' = {Len(convs) + 1}
<1>1. /\ Len(convs') = Len(convs) + 1 /\ \A c \in 1..Len(convs) : convs'[c] = convs[c]
      /\ convs'[Len(convs) + 1] = Fresh(s) /\ RowsGrow
  BY NewRow
<1>2. DOMAIN convs' = 1..Len(convs) + 1 /\ DOMAIN convs = 1..Len(convs) /\ Len(convs) \in Nat
  <2>1. convs' \in Seq(ConvRows)
    BY <1>1 DEF RowsGrow
  <2> QED
    BY <1>1, <2>1, RowOf, LenProperties
<1>3. Fresh(s).session = s /\ Fresh(s).status \in Open
  BY DEF Fresh, Open
<1> QED
  BY <1>1, <1>2, <1>3 DEF OpenOf

LEMMA RightReads ==
  ASSUME Shape, NEW d \in Deliveries, Right(deliv[d]),
         (Look(d) /\ ReadThread(d)) \/ ResolveSession(d) \/ ResolveConversation(d) \/ OpenConversation(d)
  PROVE  Right(deliv[d])'
<1>1. Typed /\ RowsOK
  BY ShapeRows DEF Shape
<1>2. CASE Look(d) /\ ReadThread(d)
  <2>1. deliv'[d].pc \in {"session", "conv"} /\ deliv'[d].at = thread'.conv
    BY <1>1, <1>2, ReadSlot DEF Look
  <2> QED
    BY <2>1 DEF Right, Entered, Done
<1>3. CASE ResolveSession(d)
  <2>1. deliv'[d].pc = "conv" /\ deliv'[d].at = deliv[d].at /\ deliv[d].pc = "session"
    BY <1>1, <1>3, ResolveSessionSlot DEF ResolveSession, At
  <2>2. thread'.conv = thread.conv
    BY <1>1, <1>3 DEF ResolveSession, Typed, TypedRows
  <2> QED
    BY <2>1, <2>2 DEF Right, Entered, Done
<1>4. CASE ResolveConversation(d)
  <2>1. PICK s : s = deliv[d].session
    OBVIOUS
  <2>2. deliv[d].pc = "conv" /\ convs' = convs /\ msgs' = msgs /\ OpenOf(s)' = OpenOf(s)
    BY <1>4 DEF ResolveConversation, At, OpenOf
  <2>3. CASE OpenOf(s) = {}
    <3>1. deliv'[d].pc = "open" /\ deliv'[d].session = s
      BY <1>1, <1>4, <2>1, <2>3, GotoSlot DEF ResolveConversation, Keeps, Before
    <3> QED
      BY <2>2, <2>3, <3>1 DEF Right, Entered, Done
  <2>4. CASE OpenOf(s) # {}
    <3>1. PICK c : c = Latest(OpenOf(s))
      OBVIOUS
    <3>2. c \in OpenOf(s) /\ c \in 1..Len(convs) /\ \A k \in OpenOf(s) : k <= c
      BY <1>1, <2>4, <3>1, OpenConvs
    <3>3. Enter(d, c, convs[c]) /\ thread' = IF deliv[d].at = c THEN thread ELSE [thread EXCEPT !.conv = c]
      BY <1>4, <2>1, <2>4, <3>1 DEF ResolveConversation
    <3>4. Enters(d, c, convs[c])
      BY <1>1, <3>2, <3>3, RowOf, EnterSlot
    <3>5. thread'.conv = c
      BY <1>1, <2>2, <3>3 DEF Right, Typed, TypedRows
    <3> QED
      BY <2>1, <2>2, <3>2, <3>4, <3>5 DEF Right, Enters, Entered, Done
  <2> QED
    BY <2>3, <2>4
<1>5. CASE OpenConversation(d)
  <2>1. PICK s : s = deliv[d].session
    OBVIOUS
  <2>2. /\ deliv[d].pc = "open" /\ convs' = Append(convs, Fresh(s)) /\ msgs' = msgs
        /\ sessions' = sessions
    BY <1>5, <2>1 DEF OpenConversation, At
  <2>3. s \in Nat \ {0} /\ s <= sessions'.count
    BY <2>1, <2>2 DEF Shape, BoundedSlots, SlotOK, Typed, TypedSlots, SlotTypes
  <2>4. OpenOf(s) = {}
    BY <2>1, <2>2 DEF Right
  <2>5. OpenOf(s)' = {Len(convs) + 1}
    BY <1>1, <2>2, <2>3, <2>4, OpenNew
  <2>6. PICK c, row : c = Len(convs') /\ row = convs'[Len(convs')]
    OBVIOUS
  <2>7. c = Len(convs) + 1 /\ row \in ConvRows /\ Len(convs) \in Nat
    <3>1. RowsGrow /\ Len(convs') = Len(convs) + 1
      BY <1>1, <2>2, <2>3, NewRow
    <3>2. convs' \in Seq(ConvRows) /\ Len(convs) \in Nat
      BY <1>1, <3>1, RowOf DEF RowsGrow
    <3> QED
      BY <2>6, <3>1, <3>2, ElementOfSeq
  <2>8. Enter(d, c, row) /\ thread' = [thread EXCEPT !.conv = c]
    BY <1>5, <2>6 DEF OpenConversation
  <2>9. Enters(d, c, row) /\ thread'.conv = c
    <3>1. thread'.conv = c
      BY <1>1, <2>8 DEF Typed, TypedRows
    <3>2. c \in Nat
      BY <2>7
    <3> QED
      BY <1>1, <2>7, <2>8, <3>1, <3>2, EnterSlot
  <2> QED
    BY <2>1, <2>2, <2>5, <2>7, <2>9 DEF Right, Enters, Entered, Done
<1> QED
  BY <1>2, <1>3, <1>4, <1>5

\* The conversation of a delivery that is alone is the open one of its session.
LEMMA RightConv ==
  ASSUME Shape, NEW d \in Deliveries, Right(deliv[d]), deliv[d].pc \in Entered
  PROVE  /\ deliv[d].conv \in 1..Len(convs) /\ convs[deliv[d].conv].status \in Open
         /\ OpenOf(deliv[d].session) # {} /\ Latest(OpenOf(deliv[d].session)) = deliv[d].conv
         /\ TurnConv(d) = deliv[d].conv
<1>1. PICK s, c : s = deliv[d].session /\ c = deliv[d].conv
  OBVIOUS
<1>2. c \in OpenOf(s) /\ \A k \in OpenOf(s) : k <= c
  BY <1>1 DEF Right
<1>3. /\ OpenOf(s) \subseteq 1..Len(convs) /\ Len(convs) \in Nat /\ Latest(OpenOf(s)) \in OpenOf(s)
      /\ c <= Latest(OpenOf(s))
  BY <1>2, OpenConvs, RowOf DEF Shape
<1>4. Latest(OpenOf(s)) <= c /\ Latest(OpenOf(s)) \in Nat /\ c \in Nat
  BY <1>2, <1>3
<1>5. Latest(OpenOf(s)) = c
  BY <1>3, <1>4
<1>6. convs[c].status \in Open
  BY <1>2 DEF OpenOf
<1> QED
  BY <1>1, <1>2, <1>3, <1>5, <1>6 DEF TurnConv

LEMMA RightTurn ==
  ASSUME Shape, NEW d \in Deliveries, Right(deliv[d]), Turn(d)
  PROVE  Right(deliv[d])'
<1>1. Typed /\ RowsOK /\ deliv[d].pc = "turn" /\ thread' = thread
  BY ShapeRows DEF Shape, Turn, At
<1>2. PICK a : a = deliv[d]
  OBVIOUS
<1>3. /\ a.conv \in OpenOf(a.session) /\ (\A k \in OpenOf(a.session) : k <= a.conv)
      /\ thread.conv = a.conv /\ a.since = Len(msgs) /\ a.turn = 0
  BY <1>1, <1>2 DEF Right, Entered, Shape, BoundedSlots, SlotOK
<1>4. CASE Blocked(d)
  <2>1. Goto(d, "map") \/ Goto(d, "page")
    BY <1>4 DEF Turn, Blocked
  <2>2. deliv'[d].pc \in {"map", "page"} /\ Keeps(a, deliv'[d])
    BY <1>1, <1>2, <2>1, GotoSlot DEF Entered
  <2>3. convs' = convs /\ msgs' = msgs
    BY <1>4 DEF Turn, Blocked
  <2> QED
    BY <1>1, <1>3, <2>2, <2>3 DEF Right, Keeps, OpenOf
<1>5. CASE ~Blocked(d)
  <2>1. TurnConv(d) = a.conv /\ OpenOf(a.session) # {}
    BY <1>1, <1>2, RightConv DEF Entered
  <2>2. convs' = convs /\ msgs' = Append(msgs, [conv |-> a.conv, inbound |-> Cur(d)])
    BY <1>2, <1>5, <2>1 DEF Turn, TurnConv, Blocked
  <2>3. a.conv \in Nat \ {0} /\ Cur(d) \in Inbounds
    BY <1>1, <1>2, CurOf DEF Works, Shape, BoundedSlots, SlotOK, Typed, TypedSlots, SlotTypes, Entered
  <2>4. /\ Len(msgs') = Len(msgs) + 1
        /\ msgs'[Len(msgs) + 1] = [conv |-> a.conv, inbound |-> Cur(d)]
    BY <1>1, <2>2, <2>3, NewMsg
  <2>5. /\ deliv'[d].pc = "answer" /\ deliv'[d].batch = a.batch /\ deliv'[d].session = a.session
        /\ deliv'[d].conv = a.conv /\ deliv'[d].turn = a.conv /\ deliv'[d].since = a.since
    BY <1>1, <1>2, <1>5, <2>1, TurnSlot
  <2>6. OpenOf(a.session)' = OpenOf(a.session)
    BY <1>2, <2>2, <2>5 DEF OpenOf
  <2>7. Cur(d) = First(a.batch)
    BY <1>2 DEF Cur
  <2> QED
    BY <1>1, <1>3, <2>2, <2>4, <2>5, <2>7 DEF Right, Done, Entered, OpenOf
<1> QED
  BY <1>4, <1>5

LEMMA RightStore ==
  ASSUME Shape, NEW d \in Deliveries, Right(deliv[d]), Store(d)
  PROVE  Right(deliv[d])'
<1>1. Typed /\ deliv[d].pc = "store" /\ thread' = thread /\ convs' = convs
  BY DEF Shape, Store, At
<1>2. PICK a : a = deliv[d]
  OBVIOUS
<1>3. /\ a.conv \in OpenOf(a.session) /\ (\A k \in OpenOf(a.session) : k <= a.conv)
      /\ thread.conv = a.conv /\ a.since = Len(msgs)
  BY <1>1, <1>2 DEF Right, Entered
<1>4. a.conv \in Nat \ {0} /\ Cur(d) \in Inbounds
  BY <1>1, <1>2, CurOf DEF Works, Shape, BoundedSlots, SlotOK, Typed, TypedSlots, SlotTypes, Entered
<1>5. msgs' = Append(msgs, [conv |-> a.conv, inbound |-> Cur(d)])
  BY <1>2 DEF Store
<1>6. Len(msgs') = Len(msgs) + 1 /\ msgs'[Len(msgs) + 1] = [conv |-> a.conv, inbound |-> Cur(d)]
  BY <1>1, <1>4, <1>5, NewMsg
<1>7. /\ deliv'[d].pc = "page" /\ deliv'[d].batch = a.batch /\ deliv'[d].session = a.session
      /\ deliv'[d].conv = a.conv /\ deliv'[d].turn = a.conv /\ deliv'[d].since = a.since
  BY <1>1, <1>2, StoreSlot
<1>8. Cur(d) = First(a.batch)
  BY <1>2 DEF Cur
<1> QED
  BY <1>1, <1>3, <1>6, <1>7, <1>8 DEF Right, Done, Entered, OpenOf

LEMMA RightDone ==
  ASSUME Shape, NEW d \in Deliveries, Right(deliv[d]), Answer(d) \/ Page(d) \/ PageFails(d)
  PROVE  Right(deliv[d])'
<1>1. Typed /\ deliv[d].pc \in {"answer", "page"} /\ thread' = thread /\ msgs' = msgs
  BY DEF Shape, Answer, Page, PageFails, At
<1>2. PICK a : a = deliv[d]
  OBVIOUS
<1>3. /\ a.conv \in OpenOf(a.session) /\ (\A k \in OpenOf(a.session) : k <= a.conv)
      /\ thread.conv = a.conv
      /\ \/ a.turn = 0 /\ a.since = Len(msgs) /\ a.pc # "answer"
         \/ /\ a.turn = a.conv /\ Len(msgs) = a.since + 1
            /\ msgs[a.since + 1] = [conv |-> a.conv, inbound |-> First(a.batch)]
  BY <1>1, <1>2 DEF Right, Entered, Done
<1>4. /\ deliv'[d].pc \in {"map", "page"} /\ Keeps(a, deliv'[d])
  <2>1. Goto(d, "map") \/ Goto(d, "page")
    BY DEF Answer, Page, PageFails
  <2> QED
    BY <1>1, <1>2, <2>1, GotoSlot DEF Entered
<1>5. convs' = convs \/ Waiting(a.conv)
  BY <1>1, <1>2, <1>3 DEF Answer, Page, PageFails, At
<1>6. OpenOf(a.session)' = OpenOf(a.session)
  <2>1. PICK s, c : s = a.session /\ c = a.conv
    OBVIOUS
  <2>2. CASE convs' = convs
    BY <1>2, <1>4, <2>2 DEF OpenOf, Keeps
  <2>3. CASE Waiting(c)
    <3>1. c \in 1..Len(convs) /\ convs[c].status \in Open
      BY <1>1, <1>2, <2>1, RightConv DEF Entered
    <3>2. Changes(c) /\ convs'[c].status = "waiting"
      BY <1>1, <2>3, <3>1, WaitingRow
    <3>3. OpenOf(s)' = OpenOf(s)
      BY <1>1, <3>1, <3>2, OpenChanges DEF Open
    <3> QED
      BY <2>1, <3>3
  <2> QED
    BY <1>5, <2>1, <2>2, <2>3
<1> QED
  BY <1>1, <1>3, <1>4, <1>6 DEF Right, Keeps, Done

LEMMA CertainDelivery ==
  ASSUME Shape, Certain, NEW d \in Deliveries, DeliveryStep(d)
  PROVE  Certain'
<1>1. Shape' /\ Grow
  <2>1. [Next]_vars
    BY DEF Next, DeliveryStep
  <2> QED
    BY <2>1, ShapeStep
<1>2. \A e, f \in Deliveries : Alone(e)' => e = d /\ (Works(f)' => f = d)
  BY SoleMover DEF Certain
<1>3. Sole'
  BY <1>2 DEF Sole
<1>4. odd \subseteq odd'
  BY <1>1 DEF Grow
<1>5. Alone(d)' => Right(deliv[d])'
  <2>1. SUFFICES ASSUME Alone(d)' PROVE Right(deliv[d])'
    OBVIOUS
  <2>2. CASE deliv'[d].pc = "look"
    BY <2>2 DEF Right, Entered, Done
  <2>3. CASE Leaves(d)
    BY <2>1, <2>3, IdleSlot DEF Leaves, Looks, Right, Entered, Done, Alone, Works
  <2>4. CASE Works(d) /\ deliv'[d].batch = deliv[d].batch
    <3>1. Right(deliv[d])
      BY <1>4, <2>1, <2>4, AloneBefore DEF Certain
    <3>2. CASE (Look(d) /\ ReadThread(d)) \/ ResolveSession(d) \/ ResolveConversation(d) \/ OpenConversation(d)
      BY <3>1, <3>2, RightReads
    <3>3. CASE Turn(d)
      BY <3>1, <3>3, RightTurn
    <3>4. CASE Store(d)
      BY <3>1, <3>4, RightStore
    <3>5. CASE Answer(d) \/ Page(d) \/ PageFails(d)
      BY <3>1, <3>5, RightDone
    <3> QED
      BY <2>2, <2>3, <3>2, <3>3, <3>4, <3>5, SlotStep
  <2> QED
    BY <2>2, <2>3, <2>4, SlotStep
<1>6. stray' \subseteq odd'
  <2>1. CASE Answer(d)
    <3>1. deliv[d].pc = "answer" /\ Works(d)
      BY <2>1 DEF Answer, At, Works
    <3>2. deliv[d].turn # thread.conv => Cur(d) \in odd
      <4>1. Alone(d) => Right(deliv[d])
        BY DEF Certain
      <4>2. Right(deliv[d]) => deliv[d].turn = thread.conv
        BY <3>1 DEF Right, Entered, Done
      <4> QED
        BY <3>1, <4>1, <4>2 DEF Alone
    <3>3. stray' = stray \/ (stray' = stray \cup {Cur(d)} /\ deliv[d].turn # thread.conv)
      BY <2>1 DEF Answer
    <3> QED
      BY <1>4, <3>2, <3>3 DEF Certain
  <2>2. CASE ~Answer(d)
    <3>1. stray' = stray
      BY <2>2 DEF DeliveryStep, Start, Look, ResolveSession, ResolveConversation, OpenConversation,
                  Turn, Store, Page, PageFails, MapTurn, Throw, History
    <3> QED
      BY <1>4, <3>1 DEF Certain
  <2> QED
    BY <2>1, <2>2
<1> QED
  BY <1>2, <1>3, <1>5, <1>6 DEF Certain

\* An agent leaves a delivery that is alone its open conversation.
LEMMA RightAgents ==
  ASSUME Shape, NEW c \in DOMAIN convs, Agents(c), NEW e \in Deliveries, Right(deliv[e]), Alone(e)'
  PROVE  Right(deliv[e])'
<1>1. Typed /\ c \in 1..Len(convs)
  BY RowOf DEF Shape
<1>2. /\ Changes(c) /\ thread' = thread /\ msgs' = msgs /\ deliv' = deliv
      /\ \/ convs[c].status \in Open /\ convs'[c].status \in Open
         \/ /\ convs'[c].status = "closed"
            /\ odd' = odd \cup {Cur(d) : d \in {x \in Under(deliv) : c \in {deliv[x].conv, deliv[x].turn}}}
  BY AgentsRow
<1>3. PICK a, s : a = deliv[e] /\ s = deliv[e].session
  OBVIOUS
<1>4. \/ OpenOf(s)' = OpenOf(s)
      \/ OpenOf(s)' = OpenOf(s) \ {c} /\ c # a.conv
  <2>1. CASE convs[c].status \in Open /\ convs'[c].status \in Open
    BY <1>1, <1>2, <2>1, OpenChanges
  <2>2. CASE /\ convs'[c].status = "closed"
             /\ odd' = odd \cup {Cur(d) : d \in {x \in Under(deliv) : c \in {deliv[x].conv, deliv[x].turn}}}
    <3>1. OpenOf(s)' = OpenOf(s) \ {c}
      BY <1>1, <1>2, <2>2, OpenChanges DEF Open
    <3>2. e \in Under(deliv) /\ Cur(e) \notin odd'
      BY <1>2 DEF Alone, Works, Under, Cur
    <3>3. c # a.conv
      BY <1>3, <2>2, <3>2
    <3> QED
      BY <3>1, <3>3
  <2> QED
    BY <1>2, <2>1, <2>2
<1>5. Right(a)
  BY <1>3
<1>6. a.session = s
  BY <1>3
<1>7. deliv'[e] = a /\ deliv'[e].session = s
  BY <1>2, <1>3
<1>8. /\ OpenOf(s) = {} => OpenOf(s)' = {}
      /\ a.conv \in OpenOf(s) => a.conv \in OpenOf(s)'
      /\ (\A k \in OpenOf(s) : k <= a.conv) => \A k \in OpenOf(s)' : k <= a.conv
  BY <1>4
<1>9. Right(a)'
  BY <1>2, <1>5, <1>6, <1>8 DEF Right
<1> QED
  BY <1>7, <1>9

LEMMA CertainOthers ==
  ASSUME Shape, Certain, [Next]_vars,
         \/ \E c \in DOMAIN convs : Agents(c)
         \/ Arrive \/ Publish \/ Restart \/ UNCHANGED vars
  PROVE  Certain'
<1>1. odd \subseteq odd'
  BY ShapeStep DEF Grow
<1>2. stray' = stray
  BY AgentsRow DEF Arrive, Publish, Restart, vars, History
<1>3. CASE Restart
  <2>1. \A e \in Deliveries : ~Works(e)'
    BY <1>3, IdleSlot DEF Restart, Works
  <2> QED
    BY <1>1, <1>2, <2>1 DEF Certain, Sole, Alone
<1>4. CASE deliv' = deliv
  <2>1. \A e \in Deliveries : Alone(e)' => Alone(e) /\ Right(deliv[e])
    BY <1>1, <1>4 DEF Alone, Works, Cur, Certain
  <2>2. Sole'
    BY <1>4, <2>1 DEF Certain, Sole, Works
  <2>3. ASSUME NEW e \in Deliveries, Alone(e)'
        PROVE  Right(deliv[e])'
    <3>1. CASE \E c \in DOMAIN convs : Agents(c)
      BY <2>1, <2>3, <3>1, RightAgents
    <3>2. CASE thread' = thread /\ convs' = convs /\ msgs' = msgs
      BY <1>4, <2>1, <2>3, <3>2 DEF Right, OpenOf
    <3>3. CASE Restart
      BY <1>3, <2>3, <3>3 DEF Restart, Alone, Works, Idle
    <3> QED
      BY <3>1, <3>2, <3>3 DEF Arrive, Publish, vars
  <2> QED
    BY <1>1, <1>2, <2>2, <2>3 DEF Certain
<1> QED
  BY <1>3, <1>4, AgentsRow DEF Arrive, Publish, vars

LEMMA CertainInit == Init => Certain
<1> SUFFICES ASSUME Init PROVE Certain
  OBVIOUS
<1>1. \A e \in Deliveries : ~Works(e)
  BY IdleSlot DEF Init, Works
<1> QED
  BY <1>1 DEF Init, Certain, Sole, Alone

LEMMA CertainAlways == Spec => [](Shape /\ Certain)
<1>1. Init => Shape /\ Certain
  BY ShapeInit, CertainInit
<1>2. Shape /\ Certain /\ [Next]_vars => (Shape /\ Certain)'
  BY ShapeStep, StepCases, CertainDelivery, CertainOthers
<1> QED
  BY <1>1, <1>2, PTL DEF Spec

(* The bot answers in the conversation the relay of the thread reads: a    *)
(* message whose delivery met no other and kept its conversation is        *)
(* answered where the thread points, whatever came before it.              *)
THEOREM AnswersReachTheRelay == Spec => []AnswersAreRelayed
<1>1. Certain => AnswersAreRelayed
  BY DEF Certain, AnswersAreRelayed
<1> QED
  BY <1>1, CertainAlways, PTL

-----------------------------------------------------------------------------
(* A redelivery stores nothing again.                                       *)

CleanSlot(slot) ==
  LET i == First(slot.batch)
  IN /\ slot.pc \in {"session", "conv", "open", "turn", "store"} => mapped[i] = 0 /\ Copies(i) = {}
     /\ slot.pc \in Done => mapped[i] = 0 /\ Copies(i) = (slot.since + 1)..Len(msgs)

\* A message with a copy has its map row, or a delivery of it is about to write one.
Once(i) ==
  /\ \A m, n \in Copies(i) : m = n
  /\ mapped[i] # 0 => mapped[i] \in Copies(i)
  /\ Copies(i) # {} /\ mapped[i] = 0 => \E d \in Deliveries : deliv[d].pc \in Done /\ Cur(d) = i

Clean == \A d \in Deliveries : Alone(d) /\ Cur(d) \notin cut => CleanSlot(deliv[d])
Rows == (\A i \in Inbounds \ (odd \cup cut) : Once(i)) /\ Clean

LEMMA NewCopy ==
  ASSUME Typed, NEW c \in Nat \ {0}, NEW x \in Inbounds,
         msgs' = Append(msgs, [conv |-> c, inbound |-> x])
  PROVE  /\ Copies(x)' = Copies(x) \cup {Len(msgs) + 1}
         /\ \A i : i # x => Copies(i)' = Copies(i)
<1>1. /\ Len(msgs') = Len(msgs) + 1 /\ msgs'[Len(msgs) + 1] = [conv |-> c, inbound |-> x]
      /\ msgs' \in Seq(MsgRows) /\ \A m \in 1..Len(msgs) : msgs'[m] = msgs[m]
  BY NewMsg DEF MsgsGrow
<1>2. Len(msgs) \in Nat /\ DOMAIN msgs = 1..Len(msgs) /\ DOMAIN msgs' = 1..Len(msgs')
  BY <1>1, RowOf, LenProperties
<1>3. 1..Len(msgs') = 1..Len(msgs) \cup {Len(msgs) + 1} /\ Len(msgs) + 1 \notin 1..Len(msgs)
  BY <1>1, <1>2
<1> QED
  BY <1>1, <1>2, <1>3 DEF Copies

\* What a Turn or a Store makes of the copies of its message.
Stores(d, x) ==
  \/ msgs' = msgs
  \/ /\ Len(msgs') = Len(msgs) + 1 /\ Copies(x)' = Copies(x) \cup {Len(msgs) + 1}
     /\ \A i : i # x => Copies(i)' = Copies(i)

LEMMA StoresCopy ==
  ASSUME Shape, NEW d \in Deliveries, NEW x, x = Cur(d), Turn(d) \/ Store(d)
  PROVE  Stores(d, x) /\ mapped' = mapped
<1>1. Typed /\ deliv[d].pc \in {"turn", "store"} /\ x \in Inbounds
  BY CurOf DEF Shape, Turn, Store, At, Works
<1>2. CASE Turn(d) /\ Blocked(d)
  BY <1>2 DEF Turn, Blocked, Stores
<1>3. CASE Turn(d) /\ ~Blocked(d)
  <2>1. PICK c : c = TurnConv(d)
    OBVIOUS
  <2>2. msgs' = Append(msgs, [conv |-> c, inbound |-> x]) /\ c \in Nat \ {0}
    BY <1>1, <1>3, <2>1, TurnConvOf DEF Turn, TurnConv, Blocked
  <2>3. Len(msgs') = Len(msgs) + 1
    BY <1>1, <2>2, NewMsg
  <2> QED
    BY <1>1, <1>3, <2>2, <2>3, NewCopy DEF Stores, Turn
<1>4. CASE Store(d)
  <2>1. PICK c : c = deliv[d].conv
    OBVIOUS
  <2>2. c \in Nat \ {0}
    BY <1>1, <2>1 DEF Shape, BoundedSlots, SlotOK, Typed, TypedSlots, SlotTypes, Entered
  <2>3. msgs' = Append(msgs, [conv |-> c, inbound |-> x])
    BY <1>4, <2>1 DEF Store
  <2>4. Len(msgs') = Len(msgs) + 1
    BY <1>1, <2>2, <2>3, NewMsg
  <2> QED
    BY <1>1, <1>4, <2>2, <2>3, <2>4, NewCopy DEF Stores, Store
<1> QED
  BY <1>2, <1>3, <1>4

LEMMA OnceStays ==
  ASSUME Grow, \A i \in Inbounds \ (odd \cup cut) : Once(i), msgs' = msgs, mapped' = mapped,
         \A e \in Deliveries :
           deliv[e].pc \in Done =>
             Cur(e) \in cut' \/ (deliv'[e].pc \in Done /\ deliv'[e].batch = deliv[e].batch)
  PROVE  \A i \in Inbounds \ (odd' \cup cut') : Once(i)'
<1>1. SUFFICES ASSUME NEW i \in Inbounds, i \notin odd' \cup cut'
               PROVE  Once(i)'
  OBVIOUS
<1>2. Once(i) /\ Copies(i)' = Copies(i)
  BY <1>1 DEF Grow, Copies
<1>3. \A e \in Deliveries : deliv[e].pc \in Done /\ Cur(e) = i => deliv'[e].pc \in Done /\ Cur(e)' = i
  BY <1>1 DEF Cur
<1> QED
  BY <1>2, <1>3 DEF Once

LEMMA CleanReads ==
  ASSUME Shape, Certain, Rows, NEW d \in Deliveries, Alone(d), Cur(d) \notin cut,
         (Look(d) /\ ReadThread(d) /\ mapped[Cur(d)] = 0)
           \/ ResolveSession(d) \/ ResolveConversation(d) \/ OpenConversation(d)
  PROVE  mapped[Cur(d)] = 0 /\ Copies(Cur(d)) = {} /\ msgs' = msgs /\ mapped' = mapped
<1>1. msgs' = msgs /\ mapped' = mapped
  BY DEF Look, ResolveSession, ResolveConversation, OpenConversation
<1>2. CASE Look(d) /\ mapped[Cur(d)] = 0
  <2>1. deliv[d].pc = "look" /\ Cur(d) \in Inbounds \ (odd \cup cut)
    BY <1>2, CurOf DEF Look, At, Alone, Shape
  <2>2. \A e \in Deliveries : deliv[e].pc \in Done => FALSE
    BY <2>1 DEF Certain, Sole, Works, Done
  <2> QED
    BY <1>1, <1>2, <2>1, <2>2 DEF Rows, Once
<1>3. CASE deliv[d].pc \in {"session", "conv", "open"}
  <2>1. CleanSlot(deliv[d])
    BY DEF Rows, Clean
  <2> QED
    BY <1>1, <1>3, <2>1 DEF CleanSlot, Cur
<1> QED
  BY <1>2, <1>3 DEF ResolveSession, ResolveConversation, OpenConversation, At

LEMMA CleanMover ==
  ASSUME Shape, Certain, Rows, NEW d \in Deliveries, DeliveryStep(d), Grow, Alone(d)', (Cur(d) \notin cut)'
  PROVE  CleanSlot(deliv[d])'
<1>1. CASE deliv'[d].pc = "look"
  BY <1>1 DEF CleanSlot, Done
<1>2. CASE Leaves(d)
  BY <1>1, <1>2, IdleSlot DEF Leaves, Looks, Alone, Works
<1>3. CASE Works(d) /\ deliv'[d].batch = deliv[d].batch
  <2>1. PICK x : x = Cur(d)
    OBVIOUS
  <2>2. First(deliv'[d].batch) = x
    BY <1>3, <2>1 DEF Cur
  <2>3. Alone(d) /\ x \notin cut /\ Right(deliv[d]) /\ CleanSlot(deliv[d])
    <3>1. Alone(d)
      BY <1>3, AloneBefore DEF Grow
    <3>2. x \notin cut
      BY <1>3, <2>1 DEF Grow, Cur
    <3> QED
      BY <2>1, <3>1, <3>2 DEF Certain, Rows, Clean
  <2>4. CASE /\ deliv'[d].pc \in {"session", "conv", "open", "turn", "store"}
             /\ \/ Look(d) /\ mapped[Cur(d)] = 0 /\ ReadThread(d)
                \/ ResolveSession(d) \/ ResolveConversation(d) \/ OpenConversation(d)
    <3>1. mapped[x] = 0 /\ Copies(x) = {} /\ msgs' = msgs /\ mapped' = mapped
      BY <2>1, <2>3, <2>4, CleanReads
    <3> QED
      BY <2>2, <2>4, <3>1 DEF CleanSlot, Copies, Done
  <2>5. CASE (Turn(d) \/ Store(d)) /\ deliv'[d].pc \in Done
    <3>1. deliv[d].pc \in {"turn", "store"} /\ Stores(d, x) /\ mapped' = mapped
      BY <2>1, <2>5, StoresCopy DEF Turn, Store, At
    <3>2. /\ mapped[x] = 0 /\ Copies(x) = {} /\ deliv[d].since = Len(msgs) /\ Len(msgs) \in Nat
      BY <2>1, <2>3, <3>1, RowOf DEF CleanSlot, Right, Cur, Shape
    <3>3. deliv'[d].since = deliv[d].since
      <4>1. Typed
        BY DEF Shape
      <4>2. CASE Turn(d) /\ Blocked(d)
        BY <4>1, <4>2, GotoSlot DEF Turn, Blocked, Keeps, Entered
      <4>3. CASE Turn(d) /\ ~Blocked(d)
        BY <4>1, <4>3, TurnSlot
      <4>4. CASE Store(d)
        BY <4>1, <4>4, StoreSlot
      <4> QED
        BY <2>5, <4>2, <4>3, <4>4
    <3>4. Copies(x)' = (Len(msgs) + 1)..Len(msgs')
      <4>1. CASE msgs' = msgs
        <5>1. Copies(x)' = {} /\ (Len(msgs) + 1)..Len(msgs') = {}
          BY <3>2, <4>1 DEF Copies
        <5> QED
          BY <5>1
      <4>2. CASE Len(msgs') = Len(msgs) + 1 /\ Copies(x)' = Copies(x) \cup {Len(msgs) + 1}
        <5>1. (Len(msgs) + 1)..(Len(msgs) + 1) = {Len(msgs) + 1}
          BY <3>2
        <5> QED
          BY <3>2, <4>2, <5>1
      <4> QED
        BY <3>1, <4>1, <4>2 DEF Stores
    <3>5. mapped'[x] = 0
      BY <3>1, <3>2
    <3> QED
      BY <2>2, <2>5, <3>2, <3>3, <3>4, <3>5 DEF CleanSlot, Done
  <2>6. CASE /\ deliv[d].pc \in Done /\ deliv'[d].pc \in {"page", "map"}
             /\ Answer(d) \/ Page(d) \/ PageFails(d)
    <3>1. msgs' = msgs /\ mapped' = mapped
      BY <2>6 DEF Answer, Page, PageFails
    <3>2. deliv'[d].since = deliv[d].since
      <4>1. Goto(d, "map") \/ Goto(d, "page")
        BY <2>6 DEF Answer, Page, PageFails
      <4> QED
        BY <4>1, GotoSlot DEF Shape, Keeps, Entered
    <3>3. mapped[x] = 0 /\ Copies(x) = (deliv[d].since + 1)..Len(msgs)
      BY <2>1, <2>3, <2>6 DEF CleanSlot, Cur
    <3> QED
      BY <2>2, <2>6, <3>1, <3>2, <3>3 DEF CleanSlot, Copies, Done
  <2> QED
    BY <1>1, <1>2, <2>4, <2>5, <2>6, SlotStep DEF Done
<1> QED
  BY <1>1, <1>2, <1>3, SlotStep

\* MapTurn maps the message of a delivery that was alone to its only copy.
LEMMA OnceMapped ==
  ASSUME Shape, Certain, Rows, NEW d \in Deliveries, MapTurn(d), NEW x, x = Cur(d),
         x \notin odd \cup cut
  PROVE  Once(x)'
<1>1. Typed /\ deliv[d].pc = "map" /\ Works(d) /\ msgs' = msgs
  BY DEF Shape, MapTurn, At, Works
<1>2. x \in Inbounds
  BY <1>1, CurOf
<1>3. Alone(d) /\ Right(deliv[d]) /\ CleanSlot(deliv[d])
  BY <1>1 DEF Alone, Certain, Rows, Clean
<1>4. PICK a : a = deliv[d]
  OBVIOUS
<1>5. /\ mapped[x] = 0 /\ Copies(x) = (a.since + 1)..Len(msgs)
      /\ \/ a.since = Len(msgs)
         \/ /\ Len(msgs) = a.since + 1
            /\ msgs[a.since + 1] = [conv |-> a.conv, inbound |-> x]
  BY <1>1, <1>3, <1>4 DEF CleanSlot, Right, Done, Cur
<1>6. a.since \in Nat /\ Len(msgs) \in Nat /\ DOMAIN msgs = 1..Len(msgs)
  BY <1>1, <1>4, RowOf DEF Typed, TypedSlots, SlotTypes
<1>7. Copies(x)' = Copies(x)
  BY <1>1 DEF Copies
<1>8. TurnsSince(d) = {m \in 1..Len(msgs) : m > a.since /\ msgs[m].conv = a.conv}
  BY <1>4, <1>6 DEF TurnsSince
<1>9. CASE a.since = Len(msgs)
  <2>1. Copies(x) = {} /\ TurnsSince(d) = {}
    BY <1>5, <1>6, <1>8, <1>9
  <2>2. mapped' = mapped
    BY <2>1 DEF MapTurn
  <2> QED
    BY <1>5, <1>7, <2>1, <2>2 DEF Once
<1>10. CASE Len(msgs) = a.since + 1 /\ msgs[a.since + 1] = [conv |-> a.conv, inbound |-> x]
  <2>1. PICK k : k = a.since + 1
    OBVIOUS
  <2>2. Copies(x) = {k} /\ k \in Nat \ {0}
    BY <1>5, <1>6, <1>10, <2>1
  <2>3. TurnsSince(d) = {k}
    BY <1>6, <1>8, <1>10, <2>1
  <2>4. First(TurnsSince(d)) = k
    BY <1>1, <2>3, TurnsSinceOf
  <2>5. mapped' = [mapped EXCEPT ![x] = k]
    BY <1>5, <2>3, <2>4 DEF MapTurn
  <2>6. mapped'[x] = k
    BY <1>1, <1>2, <2>5 DEF Typed, TypedRows
  <2> QED
    BY <1>7, <2>2, <2>6 DEF Once
<1> QED
  BY <1>5, <1>9, <1>10

LEMMA OnceDelivery ==
  ASSUME Shape, Certain, Rows, NEW d \in Deliveries, DeliveryStep(d), Grow
  PROVE  \A i \in Inbounds \ (odd' \cup cut') : Once(i)'
<1>1. Moves(d) /\ \A i \in Inbounds \ (odd \cup cut) : Once(i)
  BY SlotStep DEF Rows
<1>2. PICK x : x = Cur(d)
  OBVIOUS
<1>3. CASE MapTurn(d)
  <2>1. Typed /\ deliv[d].pc = "map" /\ Works(d) /\ msgs' = msgs
    BY <1>3 DEF Shape, MapTurn, At, Works
  <2>2. SUFFICES ASSUME NEW i \in Inbounds, i \notin odd' \cup cut', i # x
                 PROVE  Once(i)'
    <3>1. x \notin odd' \cup cut' => Once(x)'
      BY <1>2, <1>3, OnceMapped DEF Grow
    <3> QED
      BY <3>1
  <2>3. Once(i) /\ Copies(i)' = Copies(i)
    BY <1>1, <2>1, <2>2 DEF Grow, Copies
  <2>4. mapped'[i] = mapped[i]
    <3>1. mapped' = mapped \/ \E m : mapped' = [mapped EXCEPT ![x] = m]
      BY <1>2, <1>3 DEF MapTurn
    <3> QED
      BY <2>1, <2>2, <3>1 DEF Typed, TypedRows
  <2>5. \A e \in Deliveries : deliv[e].pc \in Done /\ Cur(e) = i => deliv'[e].pc \in Done /\ Cur(e)' = i
    BY <1>1, <1>2, <2>2 DEF Moves, Cur
  <2> QED
    BY <2>3, <2>4, <2>5 DEF Once
<1>4. CASE (Turn(d) \/ Store(d)) /\ Works(d) /\ deliv'[d].batch = deliv[d].batch /\ deliv'[d].pc \in Done
  <2>1. Stores(d, x) /\ mapped' = mapped /\ deliv[d].pc \in {"turn", "store"}
    BY <1>2, <1>4, StoresCopy DEF Turn, Store, At
  <2>2. \A e \in Deliveries : deliv[e].pc \in Done => deliv'[e] = deliv[e]
    BY <1>1, <2>1 DEF Moves, Done
  <2>3. SUFFICES ASSUME NEW i \in Inbounds, i \notin odd' \cup cut'
                 PROVE  Once(i)'
    OBVIOUS
  <2>4. i \notin odd \cup cut /\ Once(i)
    BY <1>1, <2>3 DEF Grow
  <2>5. CASE i # x
    <3>1. Copies(i)' = Copies(i)
      BY <2>1, <2>5 DEF Stores, Copies
    <3>2. \A e \in Deliveries : deliv[e].pc \in Done /\ Cur(e) = i => deliv'[e].pc \in Done /\ Cur(e)' = i
      BY <2>2 DEF Cur
    <3> QED
      BY <2>1, <2>4, <3>1, <3>2 DEF Once
  <2>6. CASE i = x
    <3>1. mapped[x] = 0 /\ Copies(x) = {}
      <4>1. CleanSlot(deliv[d])
        BY <1>2, <1>4, <2>4, <2>6 DEF Alone, Rows, Clean
      <4> QED
        BY <1>2, <2>1, <4>1 DEF CleanSlot, Cur
    <3>2. \A m, n \in Copies(x)' : m = n
      BY <2>1, <3>1 DEF Stores, Copies
    <3>3. (deliv[d].pc \in Done /\ Cur(d) = i)'
      BY <1>2, <1>4, <2>6 DEF Cur
    <3> QED
      BY <2>1, <2>6, <3>1, <3>2, <3>3 DEF Once
  <2> QED
    BY <2>5, <2>6
<1>5. CASE ~MapTurn(d) /\ msgs' = msgs /\ mapped' = mapped
  <2>1. \A e \in Deliveries \ {d} : deliv[e].pc \in Done => deliv'[e] = deliv[e]
    BY <1>1 DEF Moves
  <2>2. deliv[d].pc \in Done =>
          Cur(d) \in cut' \/ (deliv'[d].pc \in Done /\ deliv'[d].batch = deliv[d].batch)
    <3>1. CASE Throw(d)
      BY <3>1 DEF Throw
    <3>2. CASE deliv[d].pc \notin Done
      BY <3>2
    <3>3. CASE deliv'[d].batch = deliv[d].batch /\ deliv'[d].pc \in {"page", "map"}
      BY <3>3 DEF Done
    <3> QED
      BY <1>5, <3>1, <3>2, <3>3, SlotStep
         DEF Start, Look, ResolveSession, ResolveConversation, OpenConversation, Turn, Store, At, Done, Works
  <2> QED
    BY <1>1, <1>5, <2>1, <2>2, OnceStays
<1> QED
  BY <1>3, <1>4, <1>5, SlotStep
     DEF Start, Look, Throw, ResolveSession, ResolveConversation, OpenConversation, Answer, Page,
         PageFails, Done

LEMMA RowsDelivery ==
  ASSUME Shape, Certain, Rows, NEW d \in Deliveries, DeliveryStep(d)
  PROVE  Rows'
<1>1. Grow
  <2>1. [Next]_vars
    BY DEF Next, DeliveryStep
  <2> QED
    BY <2>1, ShapeStep
<1>2. Clean'
  <2>1. SUFFICES ASSUME NEW e \in Deliveries, Alone(e)', (Cur(e) \notin cut)'
                 PROVE  CleanSlot(deliv[e])'
    BY DEF Clean
  <2>2. e = d
    BY <2>1, SoleMover DEF Certain
  <2> QED
    BY <1>1, <2>1, <2>2, CleanMover
<1> QED
  BY <1>1, <1>2, OnceDelivery DEF Rows

LEMMA RowsOthers ==
  ASSUME Shape, Rows, [Next]_vars,
         \/ \E c \in DOMAIN convs : Agents(c)
         \/ Arrive \/ Publish \/ Restart \/ UNCHANGED vars
  PROVE  Rows'
<1>1. Grow
  BY ShapeStep
<1>2. msgs' = msgs /\ mapped' = mapped
  BY AgentsRow DEF Arrive, Publish, Restart, vars
<1>3. CASE Restart
  <2>1. \A e \in Deliveries : deliv[e].pc \in Done => Cur(e) \in cut'
    BY <1>3 DEF Restart, Under, Done
  <2>2. \A e \in Deliveries : ~Works(e)'
    BY <1>3, IdleSlot DEF Restart, Works
  <2>3. \A i \in Inbounds \ (odd' \cup cut') : Once(i)'
    BY <1>1, <1>2, <2>1, OnceStays DEF Rows
  <2> QED
    BY <2>2, <2>3 DEF Rows, Clean, Alone
<1>4. CASE deliv' = deliv
  <2>1. \A i \in Inbounds \ (odd' \cup cut') : Once(i)'
    BY <1>1, <1>2, <1>4, OnceStays DEF Rows
  <2>2. Clean'
    <3>1. SUFFICES ASSUME NEW e \in Deliveries, Alone(e)', (Cur(e) \notin cut)'
                   PROVE  CleanSlot(deliv[e])'
      BY DEF Clean
    <3>2. Alone(e) /\ Cur(e) \notin cut
      BY <1>1, <1>4, <3>1 DEF Alone, Works, Cur, Grow
    <3>3. CleanSlot(deliv[e])
      BY <3>2 DEF Rows, Clean
    <3> QED
      BY <1>2, <1>4, <3>3 DEF CleanSlot, Copies
  <2> QED
    BY <2>1, <2>2 DEF Rows
<1> QED
  BY <1>3, <1>4, AgentsRow DEF Arrive, Publish, vars

LEMMA RowsInit == Init => Rows
<1> SUFFICES ASSUME Init PROVE Rows
  OBVIOUS
<1>1. \A e \in Deliveries : ~Works(e)
  BY IdleSlot DEF Init, Works
<1>2. \A i : Copies(i) = {}
  BY EmptySeq DEF Init, Copies
<1>3. \A i \in Inbounds : mapped[i] = 0
  BY DEF Init
<1> QED
  BY <1>1, <1>2, <1>3 DEF Rows, Once, Clean, Alone

LEMMA RowsAlways == Spec => [](Shape /\ Certain /\ Rows)
<1>1. Init => Shape /\ Certain /\ Rows
  BY ShapeInit, CertainInit, RowsInit
<1>2. Shape /\ Certain /\ Rows /\ [Next]_vars => (Shape /\ Certain /\ Rows)'
  BY ShapeStep, StepCases, CertainDelivery, CertainOthers, RowsDelivery, RowsOthers
<1> QED
  BY <1>1, <1>2, PTL DEF Spec

(* A message the platform delivers again is stored once and mapped to that *)
(* very turn, unless its delivery met another, lost its conversation to an *)
(* agent, or failed.                                                       *)
THEOREM StoredOnce == Spec => []RedeliveryIsHarmless
<1>1. Shape /\ Rows => RedeliveryIsHarmless
  <2>1. SUFFICES ASSUME Shape, Rows, NEW i \in 1..arrived, i \notin odd \cup cut
                 PROVE  /\ Cardinality(Copies(i)) <= 1
                        /\ mapped[i] # 0 => mapped[i] \in Copies(i)
    BY DEF RedeliveryIsHarmless
  <2>2. i \in Inbounds
    BY <2>1, IngestAssumption DEF Shape, Typed, TypedRows, Inbounds
  <2>3. (\A m, n \in Copies(i) : m = n) /\ (mapped[i] # 0 => mapped[i] \in Copies(i))
    BY <2>1, <2>2 DEF Rows, Once
  <2>4. Cardinality(Copies(i)) <= 1
    <3>1. CASE Copies(i) = {}
      BY <3>1, FS_EmptySet
    <3>2. CASE Copies(i) # {}
      <4>1. PICK m : m \in Copies(i)
        BY <3>2
      <4>2. Copies(i) = {m}
        BY <2>3, <4>1
      <4> QED
        BY <4>2, FS_Singleton
    <3> QED
      BY <3>1, <3>2
  <2> QED
    BY <2>3, <2>4
<1> QED
  BY <1>1, RowsAlways, PTL

-----------------------------------------------------------------------------
(* Somebody is called.                                                      *)

\* What a delivery read of its conversation still holds, or the conversation was given back.
Latch(slot) ==
  /\ slot.pc \in Entered /\ slot.escalated => convs[slot.conv].escalated
  /\ slot.pc \in {"turn", "answer"} => ~slot.off
  /\ slot.pc \in {"store", "page"} /\ slot.off /\ slot.human =>
       convs[slot.conv].status # "ai" \/ convs[slot.conv].back

GivenBack(i) == \E m \in 1..Len(msgs) : msgs[m].inbound = i /\ convs[msgs[m].conv].back

Latches ==
  /\ \A c \in 1..Len(convs) : convs[c].escalated /\ convs[c].status = "ai" => convs[c].back
  /\ \A d \in Deliveries : Latch(deliv[d])
  /\ \A u \in unseen : u.of \in odd \cup cut \/ GivenBack(u.of)

LEMMA RowsLatch ==
  ASSUME Shape, Grow, Latches
  PROVE  \A c \in 1..Len(convs') : convs'[c].escalated /\ convs'[c].status = "ai" => convs'[c].back
<1>1. SUFFICES ASSUME NEW c \in 1..Len(convs'), convs'[c].escalated, convs'[c].status = "ai"
               PROVE  convs'[c].back
  OBVIOUS
<1>2. convs' \in Seq(ConvRows) /\ Len(convs) \in Nat
  BY RowOf DEF Shape, Grow, RowsGrow
<1>3. Len(convs') \in Nat
  BY <1>2, LenProperties
<1>4. c <= Len(convs)
  BY <1>1, <1>2, <1>3 DEF Grow, RowsGrow
<1>5. c \in 1..Len(convs)
  BY <1>2, <1>3, <1>4
<1> QED
  BY <1>1, <1>4, <1>5 DEF Grow, RowsGrow, Latches

LEMMA BackStays ==
  ASSUME Shape, Grow
  PROVE  \A i : GivenBack(i) => GivenBack(i)'
<1>1. Typed /\ msgs' \in Seq(MsgRows) /\ Len(msgs) <= Len(msgs')
      /\ (\A m \in 1..Len(msgs) : msgs'[m] = msgs[m])
      /\ \A c \in 1..Len(convs) : convs[c].back => convs'[c].back
  BY DEF Shape, Grow, RowsGrow, MsgsGrow
<1>2. Len(msgs) \in Nat /\ Len(msgs') \in Nat /\ Len(convs) \in Nat
  BY <1>1, RowOf, LenProperties
<1>3. \A m \in 1..Len(msgs) : msgs[m].conv \in 1..Len(convs) /\ m \in 1..Len(msgs')
  BY <1>1, <1>2, RowOf DEF Shape, BoundedRows
<1> QED
  BY <1>1, <1>3 DEF GivenBack

\* A slot that keeps what it read keeps its latch, whatever becomes of the rows.
LEMMA LatchStays ==
  ASSUME Shape, Grow, NEW e \in Deliveries, Latch(deliv[e]),
         deliv'[e].conv = deliv[e].conv, deliv'[e].escalated = deliv[e].escalated,
         deliv'[e].off = deliv[e].off, deliv'[e].human = deliv[e].human \/ ~deliv[e].off,
         deliv[e].pc \in Entered,
         \/ deliv'[e].pc = deliv[e].pc
         \/ deliv[e].pc = "turn" /\ deliv'[e].pc = "answer"
         \/ deliv[e].pc \in {"turn", "answer"} /\ deliv'[e].pc \in {"page", "map"}
         \/ deliv[e].pc = "store" /\ deliv'[e].pc = "page"
         \/ deliv[e].pc = "page" /\ deliv'[e].pc = "map"
  PROVE  Latch(deliv[e])'
<1>1. PICK c : c = deliv[e].conv
  OBVIOUS
<1>2. c \in 1..Len(convs)
  BY <1>1, RowOf DEF Shape, BoundedSlots, SlotOK, Typed, TypedSlots, SlotTypes
<1>3. /\ convs[c].escalated => convs'[c].escalated
      /\ convs[c].back => convs'[c].back
      /\ convs[c].status # "ai" => convs'[c].status # "ai" \/ convs'[c].back
  BY <1>2 DEF Grow, RowsGrow
<1> QED
  BY <1>1, <1>3 DEF Latch, Entered

LEMMA LatchQuiet ==
  ASSUME Shape, Grow, NEW e \in Deliveries, Latch(deliv[e]), deliv'[e] = deliv[e]
  PROVE  Latch(deliv[e])'
<1>1. CASE deliv[e].pc \in Entered
  BY <1>1, LatchStays
<1>2. CASE deliv[e].pc \notin Entered
  BY <1>2 DEF Latch, Entered
<1> QED
  BY <1>1, <1>2

LEMMA LatchEnters ==
  ASSUME NEW d \in Deliveries, NEW c, NEW row, row = convs'[c], Enters(d, c, row)
  PROVE  Latch(deliv[d])'
<1>1. /\ deliv'[d].conv = c /\ deliv'[d].pc \in {"turn", "store"}
      /\ deliv'[d].human <=> row.status = "human"
      /\ deliv'[d].escalated <=> row.escalated
      /\ deliv'[d].off <=> deliv'[d].pc = "store"
  BY DEF Enters
<1> QED
  BY <1>1 DEF Latch

LEMMA LatchMover ==
  ASSUME Shape, Grow, Latches, NEW d \in Deliveries, DeliveryStep(d)
  PROVE  Latch(deliv[d])'
<1>1. Typed /\ Latch(deliv[d])
  BY DEF Shape, Latches
<1>2. CASE deliv'[d].pc \notin Entered
  BY <1>2 DEF Latch, Entered
<1>3. CASE ResolveConversation(d) /\ OpenOf(deliv[d].session) # {}
  <2>1. PICK c, row : c = Latest(OpenOf(deliv[d].session)) /\ row = convs[c]
    OBVIOUS
  <2>2. Enter(d, c, row) /\ convs' = convs
    BY <1>3, <2>1 DEF ResolveConversation
  <2>3. c \in 1..Len(convs)
    BY <1>1, <1>3, <2>1, OpenConvs
  <2>4. c \in Nat /\ row \in ConvRows /\ row = convs'[c]
    BY <1>1, <2>1, <2>2, <2>3, RowOf
  <2> QED
    BY <1>1, <2>2, <2>4, EnterSlot, LatchEnters
<1>4. CASE OpenConversation(d)
  <2>1. PICK c, row : c = Len(convs') /\ row = convs'[c]
    OBVIOUS
  <2>2. Enter(d, c, row)
    BY <1>4, <2>1 DEF OpenConversation
  <2>3. deliv[d].session \in Nat \ {0} /\ deliv[d].session <= sessions'.count
    BY <1>4 DEF OpenConversation, At, Shape, BoundedSlots, SlotOK, Typed, TypedSlots, SlotTypes, Entered
  <2>4. RowsGrow /\ Len(convs') = Len(convs) + 1
    BY <1>1, <1>4, <2>3, NewRow DEF OpenConversation
  <2>5. convs' \in Seq(ConvRows) /\ Len(convs) \in Nat
    BY <1>1, <2>4, RowOf DEF RowsGrow
  <2>6. c \in Nat /\ row \in ConvRows
    BY <2>1, <2>4, <2>5, ElementOfSeq
  <2> QED
    BY <1>1, <2>1, <2>2, <2>6, EnterSlot, LatchEnters
<1>5. CASE Turn(d)
  <2>1. deliv[d].pc = "turn" /\ ~deliv[d].off
    BY <1>1, <1>5 DEF Turn, At, Latch
  <2>2. CASE Blocked(d)
    <3>1. Goto(d, "map") \/ Goto(d, "page")
      BY <1>5, <2>2 DEF Turn, Blocked
    <3>2. deliv'[d].pc \in {"page", "map"} /\ Keeps(deliv[d], deliv'[d])
      BY <1>1, <3>1, GotoSlot DEF Entered
    <3> QED
      BY <1>1, <2>1, <3>2, LatchStays DEF Keeps, Entered
  <2>3. CASE ~Blocked(d)
    BY <1>1, <1>5, <2>1, <2>3, TurnSlot, LatchStays DEF Entered
  <2> QED
    BY <2>2, <2>3
<1>6. CASE Store(d)
  BY <1>1, <1>6, StoreSlot, LatchStays DEF Store, At, Entered
<1>7. CASE Answer(d) \/ Page(d) \/ PageFails(d)
  <2>1. deliv[d].pc = "answer" \/ (deliv[d].pc = "page" /\ Goto(d, "map"))
    <3>1. Answer(d) => deliv[d].pc = "answer"
      BY DEF Answer, At
    <3>2. Page(d) => deliv[d].pc = "page" /\ Goto(d, "map")
      BY DEF Page, At
    <3>3. PageFails(d) => deliv[d].pc = "page" /\ Goto(d, "map")
      BY DEF PageFails, At
    <3> QED
      BY <1>7, <3>1, <3>2, <3>3
  <2>2. Goto(d, "map") \/ Goto(d, "page")
    BY <1>7 DEF Answer, Page, PageFails
  <2>3. deliv'[d].pc \in {"page", "map"} /\ Keeps(deliv[d], deliv'[d])
    BY <1>1, <2>2, GotoSlot DEF Entered
  <2>4. deliv[d].pc = "page" => deliv'[d].pc = "map"
    BY <1>1, <2>1, GotoSlot DEF Entered
  <2> QED
    BY <1>1, <2>1, <2>3, <2>4, LatchStays DEF Keeps, Entered
<1>8. CASE ResolveConversation(d) /\ OpenOf(deliv[d].session) = {}
  BY <1>1, <1>2, <1>8, GotoSlot DEF ResolveConversation, Before, Entered
<1>9. CASE (Look(d) /\ ReadThread(d)) \/ ResolveSession(d)
  BY <1>1, <1>2, <1>9, ReadSlot, ResolveSessionSlot DEF Entered
<1>10. CASE Leaves(d) \/ deliv'[d].pc = "look"
  BY <1>2, <1>10, IdleSlot DEF Leaves, Looks, Entered
<1> QED
  BY <1>3, <1>4, <1>5, <1>6, <1>7, <1>8, <1>9, <1>10, SlotStep

\* A message left without a call is one whose conversation was given back.
LEMMA UnseenMover ==
  ASSUME Shape, Certain, Latches, NEW d \in Deliveries, Page(d),
         deliv[d].turn # 0, ~Pages(d), ~Called(deliv[d].turn), Cur(d) \notin odd
  PROVE  GivenBack(Cur(d))
<1>1. Typed /\ deliv[d].pc = "page" /\ Works(d)
  BY DEF Shape, Page, At, Works
<1>2. Right(deliv[d]) /\ Latch(deliv[d])
  BY <1>1 DEF Alone, Certain, Latches
<1>3. PICK a : a = deliv[d]
  OBVIOUS
<1>4. PICK c : c = a.conv
  OBVIOUS
<1>5. /\ a.turn = c /\ Len(msgs) = a.since + 1
      /\ msgs[a.since + 1] = [conv |-> c, inbound |-> Cur(d)]
  BY <1>1, <1>2, <1>3, <1>4 DEF Right, Done, Cur
<1>6. c \in 1..Len(convs) /\ convs[c].status \in Open
  BY <1>1, <1>2, <1>3, <1>4, RightConv DEF Entered
<1>7. convs[c].status = "ai"
  BY <1>3, <1>5, <1>6 DEF Called, Open
<1>8. (a.off /\ a.human) \/ a.escalated
  BY <1>1, <1>3 DEF Pages, Typed, TypedSlots, SlotTypes
<1>9. convs[c].back
  BY <1>1, <1>2, <1>3, <1>4, <1>6, <1>7, <1>8 DEF Latch, Latches, Entered
<1>10. a.since + 1 \in 1..Len(msgs)
  BY <1>1, <1>3, <1>5, RowOf DEF Typed, TypedSlots, SlotTypes
<1> QED
  BY <1>5, <1>9, <1>10 DEF GivenBack

LEMMA LatchesDelivery ==
  ASSUME Shape, Certain, Latches, NEW d \in Deliveries, DeliveryStep(d)
  PROVE  Latches'
<1>1. Grow
  <2>1. [Next]_vars
    BY DEF Next, DeliveryStep
  <2> QED
    BY <2>1, ShapeStep
<1>2. \A e \in Deliveries : Latch(deliv[e])'
  <2>1. \A e \in Deliveries \ {d} : deliv'[e] = deliv[e]
    BY SlotStep DEF Moves
  <2> QED
    BY <1>1, <2>1, LatchQuiet, LatchMover DEF Latches
<1>3. \A i : GivenBack(i) => GivenBack(i)'
  BY <1>1, BackStays
<1>4. \A u \in unseen' : u \in unseen \/ u.of \in odd \cup cut \/ GivenBack(u.of)
  <2>1. CASE unseen' = unseen
    BY <2>1
  <2>2. CASE Page(d) /\ deliv[d].turn # 0 /\ ~Pages(d) /\ ~Called(deliv[d].turn)
    <3>1. \A u \in unseen' : u \in unseen \/ u.of = Cur(d)
      BY <2>2 DEF Page
    <3>2. Cur(d) \in odd \/ GivenBack(Cur(d))
      BY <2>2, UnseenMover
    <3> QED
      BY <3>1, <3>2
  <2>3. unseen' = unseen \/ (Page(d) /\ deliv[d].turn # 0 /\ ~Pages(d) /\ ~Called(deliv[d].turn))
    BY DEF DeliveryStep, Start, Look, ResolveSession, ResolveConversation, OpenConversation,
           Turn, Answer, Store, Page, PageFails, MapTurn, Throw, History
  <2> QED
    BY <2>1, <2>2, <2>3
<1>5. \A u \in unseen' : u.of \in odd' \cup cut' \/ GivenBack(u.of)'
  BY <1>1, <1>3, <1>4 DEF Latches, Grow
<1> QED
  BY <1>1, <1>2, <1>5, RowsLatch DEF Latches

LEMMA LatchesOthers ==
  ASSUME Shape, Latches, [Next]_vars,
         \/ \E c \in DOMAIN convs : Agents(c)
         \/ Arrive \/ Publish \/ Restart \/ UNCHANGED vars
  PROVE  Latches'
<1>1. Grow
  BY ShapeStep
<1>2. \A e \in Deliveries : Latch(deliv[e])'
  <2>1. CASE deliv' = deliv
    BY <1>1, <2>1, LatchQuiet DEF Latches
  <2>2. CASE Restart
    <3>1. \A e \in Deliveries : (deliv[e].pc = "idle")'
      BY <2>2, IdleSlot DEF Restart
    <3> QED
      BY <3>1 DEF Latch, Entered
  <2> QED
    BY <2>1, <2>2, AgentsRow DEF Arrive, Publish, vars
<1>3. unseen' = unseen
  BY AgentsRow DEF Arrive, Publish, Restart, vars, History
<1>4. \A u \in unseen' : u.of \in odd' \cup cut' \/ GivenBack(u.of)'
  BY <1>1, <1>3, BackStays DEF Latches, Grow
<1> QED
  BY <1>1, <1>2, <1>4, RowsLatch DEF Latches

LEMMA LatchesInit == Init => Latches
<1> SUFFICES ASSUME Init PROVE Latches
  OBVIOUS
<1>1. \A d \in Deliveries : Latch(deliv[d])
  BY IdleSlot DEF Init, Latch, Entered
<1>2. 1..Len(convs) = {}
  BY EmptySeq DEF Init
<1> QED
  BY <1>1, <1>2 DEF Init, Latches

LEMMA LatchesAlways == Spec => [](Shape /\ Certain /\ Latches)
<1>1. Init => Shape /\ Certain /\ Latches
  BY ShapeInit, CertainInit, LatchesInit
<1>2. Shape /\ Certain /\ Latches /\ [Next]_vars => (Shape /\ Certain /\ Latches)'
  BY ShapeStep, StepCases, CertainDelivery, CertainOthers, LatchesDelivery, LatchesOthers
<1> QED
  BY <1>1, <1>2, PTL DEF Spec

(* With the answer left to people, somebody is called or has the           *)
(* conversation once the message is handled: what is left uncalled is a    *)
(* conversation an agent gave back, whose latch stayed, or a message whose *)
(* delivery met another, lost its conversation or failed.                  *)
THEOREM PeopleAreCalled == Spec => []SomebodyIsCalled
<1>1. Shape /\ Latches => SomebodyIsCalled
  <2>1. SUFFICES ASSUME Shape, Latches, NEW u \in unseen, u.of \notin odd \cup cut
                 PROVE  \E m \in Copies(u.of) : convs[msgs[m].conv].back
    BY DEF SomebodyIsCalled
  <2>2. GivenBack(u.of)
    BY <2>1 DEF Latches
  <2> QED
    BY <2>1, <2>2, RowOf DEF GivenBack, Copies, Shape
<1> QED
  BY <1>1, LatchesAlways, PTL
=============================================================================
