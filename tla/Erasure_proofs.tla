--------------------------- MODULE Erasure_proofs ---------------------------
(***************************************************************************)
(* For any number of handlers, customer rows and orders: an erasure that   *)
(* may die anywhere destroys nothing it has not remembered, leaves nothing *)
(* that points to the row but what a call in flight wrote, and no path of  *)
(* the shop platform undoes one.                                           *)
(***************************************************************************)
EXTENDS Erasure, TLAPS

SlotTypes ==
  [op : {"none", "sync", "login", "lead", "identify", "profile", "redact", "erase"},
   pc : {"idle", "check", "find", "write", "order", "bind", "record", "orders", "sessions", "scrub"},
   ids : SUBSET Ids, row : Rows \cup {None}, held : SUBSET Ids, order : Orders \cup {None},
   before : Rows \cup Orders \cup {None}, erased : BOOLEAN, sessions : BOOLEAN, knew : SUBSET Ids]

\* The handler is past the record of its erasure.
Erases(slot) == slot.pc \in {"orders", "sessions", "scrub"}

\* What a handler knows at each of its steps.
GoodSlot(slot) ==
  /\ slot.pc \in {"bind", "record", "orders", "sessions", "scrub"} => slot.row \in Rows
  /\ slot.op = "sync" => slot.order \in Orders /\ slot.before \in Rows \cup {None, slot.order}
  /\ slot.pc = "order" => slot.op = "sync"
  /\ slot.pc \in {"check", "find", "write"} => slot.ids \cap Erasable # {}
  /\ slot.pc \in {"check", "find"} /\ slot.op = "profile" => "sid" \in slot.ids
  /\ slot.pc \in {"find", "write"} /\ slot.op # "identify" => slot.ids \cap slot.knew = {}

Slots == req \in [Requests -> SlotTypes] /\ \A r \in Requests : GoodSlot(req[r])

RememberedInTime ==
  \A r \in Requests :
    Erases(req[r]) => req[r].held \cap Erasable = {} \/ IsSuppressed(req[r].held \cap Erasable)

\* A row that is scrubbed, or that an erasure has brought to one of these steps.
Past(x, pcs) == x \in Scrubbed \/ \E r \in Requests : req[r].pc \in pcs /\ req[r].row = x

LinksKnown ==
  \A x \in Rows : Past(x, {"sessions", "scrub"}) => \A o \in Orders : link[o] = x => o \in raced

\* A session that the erasure did not see when it listed them was bound after that.
BindingKnown ==
  /\ \A x \in Rows : Past(x, {"scrub"}) /\ bound = x => "session" \in raced
  /\ \A r \in Requests :
       req[r].pc \in {"orders", "sessions"} /\ ~req[r].sessions /\ bound = req[r].row
         => "session" \in raced

IInv == TypeOK /\ Slots /\ RememberedInTime /\ LinksKnown /\ BindingKnown

-----------------------------------------------------------------------------
(* What each step makes of the slot of its handler.                         *)

Moved(r, slot) ==
  /\ req'[r] = slot /\ \A q \in Requests \ {r} : req'[q] = req[q]
  /\ req' = [req EXCEPT ![r] = slot]

LEMMA MoveSlot ==
  ASSUME Slots, NEW r \in Requests, NEW slot, Move(r, slot)
  PROVE  Moved(r, slot)
  BY DEF Slots, Move, Moved

LEMMA IdleSlot == Idle \in SlotTypes /\ GoodSlot(Idle) /\ ~Erases(Idle) /\ Idle.pc = "idle"
  BY DEF Idle, SlotTypes, GoodSlot, Erases

LEMMA Identifiers ==
  /\ Erasable \subseteq Ids /\ {"ext", "email"} \subseteq Ids
  /\ TypeOK => Remembered \subseteq Erasable
  /\ TypeOK => \A x \in Rows : Row(x) \in SUBSET Ids
  BY DEF Erasable, Ids, TypeOK, Remembered, Row

\* isSuppressed asks whether any of the identifiers is remembered.
LEMMA SuppressedIds == \A ids : IsSuppressed(ids) <=> ids \cap Remembered # {}
  BY DEF IsSuppressed, Remembered

\* The next slot of a handler, and whether it is one of an erasure past its record.
Goes(r, slot) == Moved(r, slot) /\ slot \in SlotTypes /\ GoodSlot(slot)

LEMMA EndGoes ==
  ASSUME Slots, NEW r \in Requests, End(r)
  PROVE  Goes(r, Idle)
  BY MoveSlot, IdleSlot DEF End, Goes

LEMMA StartSyncGoes ==
  ASSUME IInv, NEW r \in Requests, NEW o \in Orders, StartSync(r, o)
  PROVE  \E slot : Goes(r, slot) /\ ~Erases(slot)
<1>1. PICK ids \in {{}, {"email"}, Erasable}, read \in {None, o} :
        Move(r, [Idle EXCEPT !.op = "sync", !.ids = ids, !.order = o,
                             !.pc = IF ids = {} THEN "order" ELSE "check",
                             !.before = IF read = o THEN link[o] ELSE o])
  BY DEF StartSync
<1>2. PICK pc, before : /\ pc = IF ids = {} THEN "order" ELSE "check"
                        /\ before = IF read = o THEN link[o] ELSE o
  OBVIOUS
<1>3. PICK slot : /\ slot = [Idle EXCEPT !.op = "sync", !.ids = ids, !.order = o, !.pc = pc,
                                         !.before = before]
                  /\ Move(r, slot)
  BY Zenon, <1>1, <1>2
<1>4. /\ before \in Rows \cup {None, o} /\ before \in Rows \cup Orders \cup {None}
      /\ ids \in SUBSET Ids /\ pc \in {"order", "check"}
  BY <1>2, Identifiers DEF IInv, TypeOK, Ids
<1>5. /\ slot \in SlotTypes /\ slot.op = "sync" /\ slot.ids = ids /\ slot.order = o /\ slot.pc = pc
      /\ slot.before = before
  BY <1>3, <1>4, IdleSlot DEF SlotTypes, Idle
<1>6. GoodSlot(slot) /\ ~Erases(slot)
  BY <1>2, <1>4, <1>5 DEF GoodSlot, Erases, Erasable
<1> QED
  BY <1>3, <1>5, <1>6, MoveSlot DEF IInv, Goes

LEMMA StartGoes ==
  ASSUME IInv, NEW r \in Requests, StartLogin(r) \/ StartLead(r) \/ StartIdentify(r)
  PROVE  \E slot : Goes(r, slot) /\ ~Erases(slot)
<1>1. CASE StartLogin(r)
  <2>1. PICK slot : slot = [Idle EXCEPT !.op = "login", !.pc = "check", !.ids = {"sid"}]
    OBVIOUS
  <2>2. slot \in SlotTypes /\ slot.op = "login" /\ slot.pc = "check" /\ slot.ids = {"sid"}
    BY <2>1, IdleSlot DEF SlotTypes, Idle, Ids
  <2>3. GoodSlot(slot) /\ ~Erases(slot)
    BY <2>2 DEF GoodSlot, Erases, Erasable
  <2> QED
    BY <1>1, <2>1, <2>2, <2>3, MoveSlot DEF IInv, Goes, StartLogin
<1>2. CASE StartLead(r)
  <2>1. PICK slot : slot = [Idle EXCEPT !.op = "lead", !.pc = "check", !.ids = {"email"}]
    OBVIOUS
  <2>2. slot \in SlotTypes /\ slot.op = "lead" /\ slot.pc = "check" /\ slot.ids = {"email"}
    BY <2>1, IdleSlot DEF SlotTypes, Idle, Ids
  <2>3. GoodSlot(slot) /\ ~Erases(slot)
    BY <2>2 DEF GoodSlot, Erases, Erasable
  <2> QED
    BY <1>2, <2>1, <2>2, <2>3, MoveSlot DEF IInv, Goes, StartLead
<1>3. CASE StartIdentify(r)
  <2>1. PICK slot : slot = [Idle EXCEPT !.op = "identify", !.pc = "find", !.ids = {"ext", "email"},
                                        !.knew = Remembered]
    OBVIOUS
  <2>2. slot \in SlotTypes /\ slot.op = "identify" /\ slot.pc = "find" /\ slot.ids = {"ext", "email"}
    BY <2>1, IdleSlot, Identifiers DEF SlotTypes, Idle, IInv, Ids
  <2>3. GoodSlot(slot) /\ ~Erases(slot)
    BY <2>2 DEF GoodSlot, Erases, Erasable
  <2> QED
    BY <1>3, <2>1, <2>2, <2>3, MoveSlot DEF IInv, Goes, StartIdentify
<1> QED
  BY <1>1, <1>2, <1>3

\* A check that lets its call through has compared it with the whole list.
LEMMA CheckGoes ==
  ASSUME IInv, NEW r \in Requests, Check(r)
  PROVE  \E slot : Goes(r, slot) /\ ~Erases(slot)
<1>0. req[r] \in SlotTypes /\ GoodSlot(req[r]) /\ req[r].pc = "check"
  BY DEF IInv, Slots, Check, At
<1>1. CASE ~IsSuppressed(req[r].ids)
  <2>1. PICK slot : slot = [req[r] EXCEPT !.pc = "find", !.knew = Remembered]
    OBVIOUS
  <2>2. /\ slot \in SlotTypes /\ slot.pc = "find" /\ slot.knew = Remembered
        /\ slot.ids = req[r].ids /\ slot.op = req[r].op /\ slot.order = req[r].order /\ slot.before = req[r].before
    BY <1>0, <2>1, Identifiers DEF SlotTypes, IInv
  <2>3. GoodSlot(slot) /\ ~Erases(slot)
    BY <1>0, <1>1, <2>2, SuppressedIds DEF GoodSlot, Erases
  <2> QED
    BY <1>1, <2>1, <2>2, <2>3, MoveSlot DEF IInv, Goes, Check
<1>2. CASE IsSuppressed(req[r].ids) /\ Is(r, "sync")
  <2>1. PICK slot : slot = [req[r] EXCEPT !.pc = "order", !.ids = {}, !.erased = TRUE]
    OBVIOUS
  <2>2. /\ slot \in SlotTypes /\ slot.pc = "order" /\ slot.op = req[r].op
        /\ slot.order = req[r].order /\ slot.before = req[r].before
    BY <1>0, <2>1 DEF SlotTypes
  <2>3. GoodSlot(slot) /\ ~Erases(slot)
    BY <1>0, <1>2, <2>2 DEF GoodSlot, Erases, Is
  <2> QED
    BY <1>2, <2>1, <2>2, <2>3, MoveSlot DEF IInv, Goes, Check
<1>3. CASE IsSuppressed(req[r].ids) /\ ~Is(r, "sync")
  BY <1>3, EndGoes, IdleSlot DEF IInv, Check
<1> QED
  BY <1>1, <1>2, <1>3

LEMMA FindGoes ==
  ASSUME IInv, NEW r \in Requests, Find(r)
  PROVE  \E slot : Goes(r, slot) /\ ~Erases(slot)
<1>0. req[r] \in SlotTypes /\ GoodSlot(req[r]) /\ req[r].pc = "find"
  BY DEF IInv, Slots, Find, At
<1>1. ASSUME NEW x, x \in Used,
             Move(r, [req[r] EXCEPT !.pc = "write", !.row = x, !.held = Row(x), !.ids = Brought(r)])
      PROVE  \E slot : Goes(r, slot) /\ ~Erases(slot)
  <2>1. PICK slot : slot = [req[r] EXCEPT !.pc = "write", !.row = x, !.held = Row(x), !.ids = Brought(r)]
    OBVIOUS
  <2>2. Brought(r) \subseteq req[r].ids /\ Brought(r) \cap Erasable # {}
    BY <1>0 DEF Brought, GoodSlot, Is, Erasable
  <2>3. x \in Rows /\ Row(x) \in SUBSET Ids /\ Brought(r) \in SUBSET Ids
    BY <1>0, <1>1, <2>2, Identifiers DEF Used, IInv, SlotTypes
  <2>4. /\ slot \in SlotTypes /\ slot.pc = "write" /\ slot.op = req[r].op
        /\ slot.order = req[r].order /\ slot.before = req[r].before /\ slot.ids = Brought(r) /\ slot.knew = req[r].knew
    BY <1>0, <2>1, <2>3 DEF SlotTypes
  <2>5. GoodSlot(slot) /\ ~Erases(slot)
    BY <1>0, <2>2, <2>4 DEF GoodSlot, Erases
  <2> QED
    BY <1>1, <2>1, <2>4, <2>5, MoveSlot DEF IInv, Goes
<1>2. CASE Goto(r, "write")
  <2>1. PICK slot : slot = [req[r] EXCEPT !.pc = "write"]
    OBVIOUS
  <2>2. /\ slot \in SlotTypes /\ slot.pc = "write" /\ slot.op = req[r].op
        /\ slot.order = req[r].order /\ slot.before = req[r].before /\ slot.ids = req[r].ids /\ slot.knew = req[r].knew
    BY <1>0, <2>1 DEF SlotTypes
  <2>3. GoodSlot(slot) /\ ~Erases(slot)
    BY <1>0, <2>2 DEF GoodSlot, Erases
  <2> QED
    BY <1>2, <2>1, <2>2, <2>3, MoveSlot DEF IInv, Goes, Goto
<1>3. CASE End(r)
  BY <1>3, EndGoes, IdleSlot DEF IInv
<1>4. \A ids : Candidates(ids) \subseteq Used
  BY DEF Candidates, Having
<1> QED
  BY <1>1, <1>2, <1>3, <1>4 DEF Find

\* Past its write a call goes on to the order, to the session, or ends.
LEMMA ProceedGoes ==
  ASSUME IInv, NEW r \in Requests, NEW x \in Rows, At(r, "write"), Proceed(r, x)
  PROVE  \E slot : Goes(r, slot) /\ ~Erases(slot) /\ slot.pc # "write"
<1>0. req[r] \in SlotTypes /\ GoodSlot(req[r])
  BY DEF IInv, Slots
<1>1. PICK on : on = [req[r] EXCEPT !.row = x, !.ids = {}, !.held = {}, !.knew = {}]
  OBVIOUS
<1>2. on \in SlotTypes /\ on.row = x /\ on.op = req[r].op /\ on.order = req[r].order /\ on.before = req[r].before
  BY <1>0, <1>1 DEF SlotTypes
<1>3. ASSUME NEW pc \in {"order", "bind"}, pc = "order" => on.op = "sync", Move(r, [on EXCEPT !.pc = pc])
      PROVE  \E slot : Goes(r, slot) /\ ~Erases(slot) /\ slot.pc # "write"
  <2>1. PICK slot : slot = [on EXCEPT !.pc = pc]
    OBVIOUS
  <2>2. slot \in SlotTypes /\ slot.pc = pc /\ slot.row = x /\ slot.op = on.op
        /\ slot.order = on.order /\ slot.before = on.before
    BY <1>2, <2>1 DEF SlotTypes
  <2>3. GoodSlot(slot) /\ ~Erases(slot) /\ slot.pc # "write"
    BY <1>0, <1>2, <1>3, <2>2 DEF GoodSlot, Erases
  <2> QED
    BY <1>3, <2>1, <2>2, <2>3, MoveSlot DEF IInv, Goes
<1>4. CASE Move(r, Idle)
  BY <1>4, MoveSlot, IdleSlot DEF IInv, Goes
<1> QED
  BY <1>1, <1>2, <1>3, <1>4 DEF Proceed, Is

\* The steps of an erasure: the row it works on stays its row.
LEMMA StartErasureGoes ==
  ASSUME IInv, NEW r \in Requests, NEW op \in {"redact", "erase"}, NEW x \in Rows,
         Move(r, [Idle EXCEPT !.op = op, !.pc = "record", !.row = x, !.held = Row(x)])
  PROVE  \E slot : Goes(r, slot) /\ ~Erases(slot)
<1>1. PICK slot : slot = [Idle EXCEPT !.op = op, !.pc = "record", !.row = x, !.held = Row(x)]
  OBVIOUS
<1>2. slot \in SlotTypes /\ slot.pc = "record" /\ slot.row = x /\ slot.op = op
  BY <1>1, IdleSlot, Identifiers DEF IInv, SlotTypes, Idle
<1>3. GoodSlot(slot) /\ ~Erases(slot)
  BY <1>2 DEF GoodSlot, Erases
<1> QED
  BY <1>1, <1>2, <1>3, MoveSlot DEF IInv, Goes

LEMMA RecordGoes ==
  ASSUME IInv, NEW r \in Requests, Record(r)
  PROVE  \E slot : /\ Goes(r, slot) /\ slot.pc = "orders" /\ slot.row = req[r].row
                   /\ slot.held = req[r].held /\ slot.sessions = (bound = req[r].row)
                   /\ slot.row \in Rows
<1>0. req[r] \in SlotTypes /\ GoodSlot(req[r]) /\ req[r].pc = "record"
  BY DEF IInv, Slots, Record, At
<1>1. PICK slot : slot = [req[r] EXCEPT !.pc = "orders", !.sessions = (bound = req[r].row)]
  OBVIOUS
<1>2. slot \in SlotTypes
  BY <1>0, <1>1 DEF SlotTypes
<1>3. /\ slot.pc = "orders" /\ slot.row = req[r].row /\ slot.held = req[r].held
      /\ slot.op = req[r].op /\ slot.order = req[r].order /\ slot.before = req[r].before
  BY <1>0, <1>1 DEF SlotTypes
<1>4. slot.sessions = (bound = req[r].row)
  BY <1>0, <1>1, Zenon DEF SlotTypes
<1>5. GoodSlot(slot)
  BY <1>0, <1>3 DEF GoodSlot
<1> QED
  BY <1>0, <1>1, <1>2, <1>3, <1>4, <1>5, MoveSlot DEF IInv, Goes, Record, GoodSlot

LEMMA ErasureGoes ==
  ASSUME IInv, NEW r \in Requests, NEW pc \in {"sessions", "scrub"}, Erases(req[r]), Goto(r, pc)
  PROVE  \E slot : /\ Goes(r, slot) /\ slot.pc = pc /\ slot.row = req[r].row
                   /\ slot.held = req[r].held /\ slot.sessions = req[r].sessions
                   /\ slot.row \in Rows
<1>0. req[r] \in SlotTypes /\ GoodSlot(req[r])
  BY DEF IInv, Slots
<1>1. PICK slot : slot = [req[r] EXCEPT !.pc = pc]
  OBVIOUS
<1>2. /\ slot \in SlotTypes /\ slot.pc = pc /\ slot.row = req[r].row /\ slot.held = req[r].held
      /\ slot.op = req[r].op /\ slot.order = req[r].order /\ slot.before = req[r].before
  BY <1>0, <1>1 DEF SlotTypes
<1>3. slot.sessions = req[r].sessions
  BY <1>0, <1>1 DEF SlotTypes
<1>4. GoodSlot(slot) /\ slot.row \in Rows
  BY <1>0, <1>2 DEF GoodSlot, Erases
<1> QED
  BY <1>1, <1>2, <1>3, <1>4, MoveSlot DEF IInv, Goes, Goto

\* A session bound at sign-in goes on with the profile, or is done.
LEMMA BindGoes ==
  ASSUME IInv, NEW r \in Requests, Bind(r)
  PROVE  \E slot : Goes(r, slot) /\ ~Erases(slot)
<1>1. CASE Move(r, [Idle EXCEPT !.op = "profile", !.pc = "check", !.ids = Erasable])
  <2>1. PICK slot : slot = [Idle EXCEPT !.op = "profile", !.pc = "check", !.ids = Erasable]
    OBVIOUS
  <2>2. slot \in SlotTypes /\ slot.op = "profile" /\ slot.pc = "check" /\ slot.ids = Erasable
    BY <2>1, IdleSlot, Identifiers DEF SlotTypes, Idle
  <2>3. GoodSlot(slot) /\ ~Erases(slot)
    BY <2>2 DEF GoodSlot, Erases, Erasable
  <2> QED
    BY <1>1, <2>1, <2>2, <2>3, MoveSlot DEF IInv, Goes
<1>2. CASE End(r)
  BY <1>2, EndGoes, IdleSlot DEF IInv
<1> QED
  BY <1>1, <1>2 DEF Bind

LEMMA GoesKeepsSlots ==
  ASSUME Slots, NEW r \in Requests, NEW slot, Goes(r, slot)
  PROVE  Slots'
  BY DEF Slots, Goes, Moved, GoodSlot

-----------------------------------------------------------------------------
(* What stays true of rows, links and list over a step.                     *)

\* No erasure gets further, the list only grows, no row becomes empty.
Harmless ==
  /\ \A r \in Requests : Erases(req'[r]) => req'[r] = req[r]
  /\ Remembered \subseteq Remembered' /\ Scrubbed' \subseteq Scrubbed
  /\ UNCHANGED <<link, bound, raced>>

LEMMA HarmlessKeeps ==
  ASSUME IInv, Harmless
  PROVE  RememberedInTime' /\ LinksKnown' /\ BindingKnown'
<1>1. \A r \in Requests : req'[r].pc \in {"orders", "sessions", "scrub"} => req'[r] = req[r]
  BY DEF Harmless, Erases
<1>2. RememberedInTime'
  <2>1. \A ids : IsSuppressed(ids)' <=> ids \cap Remembered' # {}
    BY DEF IsSuppressed, Remembered
  <2> QED
    BY <1>1, <2>1, SuppressedIds DEF IInv, RememberedInTime, Erases, Harmless
<1>3. \A x : /\ Past(x, {"sessions", "scrub"})' => Past(x, {"sessions", "scrub"})
             /\ Past(x, {"scrub"})' => Past(x, {"scrub"})
  BY <1>1 DEF Past, Harmless
<1>4. LinksKnown'
  BY <1>3 DEF IInv, LinksKnown, Harmless
<1>5. BindingKnown'
  BY <1>1, <1>3 DEF IInv, BindingKnown, Harmless
<1> QED
  BY <1>2, <1>4, <1>5

\* A handler that is not past a record after its step harms nothing by moving.
LEMMA QuietStep ==
  ASSUME IInv, NEW r \in Requests, NEW slot, Goes(r, slot), ~Erases(slot),
         UNCHANGED <<link, bound, raced, restarts>>, list' = list, redact' \in BOOLEAN,
         cust' \in [Rows -> [used : BOOLEAN, ids : SUBSET Ids]], Scrubbed' \subseteq Scrubbed
  PROVE  IInv'
<1>1. Slots'
  BY GoesKeepsSlots DEF IInv
<1>2. \A q \in Requests : Erases(req'[q]) => req'[q] = req[q]
  BY DEF Goes, Moved
<1>3. Harmless
  BY <1>2 DEF Harmless, Remembered
<1>4. TypeOK'
  BY DEF IInv, TypeOK
<1> QED
  BY <1>1, <1>3, <1>4, HarmlessKeeps DEF IInv

\* Steps that leave the tables alone.
LEMMA ReadingKeeps ==
  ASSUME IInv, NEW r \in Requests, NEW slot, Goes(r, slot), ~Erases(slot),
         UNCHANGED Tables, UNCHANGED <<raced, restarts>>, redact' \in BOOLEAN
  PROVE  IInv'
<1>1. cust' = cust /\ Scrubbed' = Scrubbed
  BY DEF Tables, Scrubbed, Used, Row
<1> QED
  BY <1>1, QuietStep DEF Tables, IInv, TypeOK

-----------------------------------------------------------------------------
(* The calls that write customer rows, orders and sessions.                 *)

\* Every write of a row brings an identifier that counts.
LEMMA SaveFoundKeeps ==
  ASSUME IInv, NEW r \in Requests, SaveFound(r)
  PROVE  IInv'
<1> DEFINE x == req[r].row
           ids == req[r].held \cup req[r].ids
<1>0. /\ req[r] \in SlotTypes /\ GoodSlot(req[r]) /\ req[r].pc = "write" /\ x \in Rows
      /\ cust \in [Rows -> [used : BOOLEAN, ids : SUBSET Ids]] /\ redact \in BOOLEAN
  BY DEF IInv, TypeOK, Slots, SaveFound, At, SlotTypes
<1>1. CASE End(r) /\ UNCHANGED cust
  BY <1>1, EndGoes, IdleSlot, ReadingKeeps DEF IInv, TypeOK, SaveFound, Tables, Rest
<1>2. CASE cust' = [cust EXCEPT ![x].ids = ids] /\ Proceed(r, x)
  <2>1. ids \in SUBSET Ids /\ ids \cap Erasable # {}
    BY <1>0 DEF SlotTypes, GoodSlot
  <2> HIDE DEF ids, x
  <2>2. cust' \in [Rows -> [used : BOOLEAN, ids : SUBSET Ids]]
    BY <1>0, <1>2, <2>1
  <2>3. \A y \in Rows : /\ cust'[y].used = cust[y].used
                        /\ cust'[y].ids = IF y = x THEN ids ELSE cust[y].ids
    BY <1>0, <1>2, <2>1
  <2>4. Scrubbed' \subseteq Scrubbed
    BY <2>1, <2>3 DEF Scrubbed, Used, Row
  <2> QED
    BY <1>0, <1>2, <2>2, <2>4, ProceedGoes, QuietStep DEF SaveFound, Rest, x
<1> QED
  BY <1>1, <1>2 DEF SaveFound

LEMMA CreateKeeps ==
  ASSUME IInv, NEW r \in Requests, Create(r)
  PROVE  IInv'
<1>0. /\ req[r] \in SlotTypes /\ GoodSlot(req[r]) /\ req[r].pc = "write"
      /\ cust \in [Rows -> [used : BOOLEAN, ids : SUBSET Ids]] /\ redact \in BOOLEAN
  BY DEF IInv, TypeOK, Slots, Create, At
<1>1. CASE End(r) /\ UNCHANGED cust
  BY <1>1, EndGoes, IdleSlot, ReadingKeeps DEF IInv, TypeOK, Create, Tables, Rest
<1>2. ASSUME NEW x \in Rows, Proceed(r, x),
             cust' = [cust EXCEPT ![x] = [used |-> TRUE, ids |-> req[r].ids]]
      PROVE  IInv'
  <2>1. req[r].ids \in SUBSET Ids /\ req[r].ids \cap Erasable # {}
    BY <1>0 DEF SlotTypes, GoodSlot
  <2>2. cust' \in [Rows -> [used : BOOLEAN, ids : SUBSET Ids]]
    BY <1>0, <1>2, <2>1
  <2>3. /\ \A y \in Rows \ {x} : cust'[y] = cust[y]
        /\ cust'[x].ids = req[r].ids
    BY <1>0, <1>2
  <2>4. Scrubbed' \subseteq Scrubbed
    BY <2>1, <2>3 DEF Scrubbed, Used, Row
  <2> QED
    BY <1>0, <1>2, <2>2, <2>4, ProceedGoes, QuietStep DEF Create, Rest
<1> QED
  BY <1>1, <1>2 DEF Create

\* An order linked to a row under erasure or scrubbed is marked; one linked
\* to another row is not, and needs no mark.
LEMMA SaveOrderKeeps ==
  ASSUME IInv, NEW r \in Requests, SaveOrder(r)
  PROVE  IInv'
<1> DEFINE o == req[r].order
<1>0. /\ req[r] \in SlotTypes /\ GoodSlot(req[r]) /\ req[r].pc = "order" /\ o \in Orders
      /\ TypeOK /\ LinksKnown
  BY DEF IInv, Slots, SaveOrder, At, GoodSlot
<1>1. Goes(r, Idle) /\ Slots'
  BY EndGoes, GoesKeepsSlots DEF IInv, SaveOrder
<1>2. PICK x : x = Linked(r, IF req[r].before = o THEN link[o] ELSE req[r].before)
  OBVIOUS
<1>3. /\ UNCHANGED <<cust, list, bound, redact, restarts>>
      /\ link' = [link EXCEPT ![o] = x] /\ link'[o] = x
      /\ Mark(o, IF req[r].erased THEN None ELSE x)
      /\ req[r].erased => x = None
  BY <1>0, <1>2 DEF SaveOrder, Linked, TypeOK
<1>4. x \in Rows \cup {None}
  BY <1>0, <1>2 DEF Linked, SlotTypes, GoodSlot, TypeOK
<1>5. TypeOK'
  BY <1>0, <1>3, <1>4 DEF TypeOK, Mark
<1>6. Scrubbed' = Scrubbed /\ Remembered' = Remembered
  BY <1>3 DEF Scrubbed, Used, Row, Remembered
<1>7. \A q \in Requests : Erases(req'[q]) => req'[q] = req[q] /\ q # r
  BY <1>1, IdleSlot DEF Goes, Moved
<1>8. ASSUME NEW y \in Rows, NEW p \in Orders, Past(y, {"sessions", "scrub"})', link'[p] = y
      PROVE  p \in raced'
  <2>1. Past(y, {"sessions", "scrub"})
    BY <1>6, <1>7, <1>8 DEF Past, Erases
  <2>2. CASE p = o
    <3>1. x = y /\ ~req[r].erased
      BY <1>3, <1>8, <2>2, ErasureAssumption
    <3>2. y \in Erasing \cup Scrubbed
      BY <2>1 DEF Past, Erasing
    <3> QED
      BY <1>3, <2>2, <3>1, <3>2 DEF Mark
  <2>3. CASE p # o
    <3>1. p \in raced
      BY <1>0, <1>3, <1>8, <2>1, <2>3 DEF LinksKnown, TypeOK
    <3> QED
      BY <1>3, <2>3, <3>1 DEF Mark
  <2> QED
    BY <2>2, <2>3
<1>9. "session" \in raced => "session" \in raced'
  BY <1>0, <1>3, ErasureAssumption DEF Mark
<1>10. BindingKnown'
  <2>1. \A y : Past(y, {"scrub"})' => Past(y, {"scrub"})
    BY <1>6, <1>7 DEF Past, Erases
  <2> QED
    BY <1>3, <1>7, <1>9, <2>1 DEF BindingKnown, IInv, Erases
<1>11. RememberedInTime'
  <2>1. \A ids : IsSuppressed(ids)' <=> IsSuppressed(ids)
    BY <1>3 DEF IsSuppressed
  <2> QED
    BY <1>7, <2>1 DEF RememberedInTime, IInv
<1> QED
  BY <1>1, <1>5, <1>8, <1>10, <1>11 DEF IInv, LinksKnown

LEMMA BindKeeps ==
  ASSUME IInv, NEW r \in Requests, Bind(r)
  PROVE  IInv'
<1>0. /\ GoodSlot(req[r]) /\ req[r].pc = "bind" /\ req[r].row \in Rows
      /\ TypeOK /\ LinksKnown /\ BindingKnown
  BY DEF IInv, Slots, Bind, At, GoodSlot
<1>1. PICK slot : Goes(r, slot) /\ ~Erases(slot)
  BY BindGoes
<1>2. PICK x : x = req[r].row
  OBVIOUS
<1>3. UNCHANGED <<cust, list, link, redact, restarts>> /\ bound' = x /\ Mark("session", x)
  BY <1>2 DEF Bind
<1>4. TypeOK'
  BY <1>0, <1>2, <1>3 DEF TypeOK, Mark
<1>5. Scrubbed' = Scrubbed /\ Slots'
  BY <1>1, <1>3, GoesKeepsSlots DEF Scrubbed, Used, Row, IInv
<1>6. \A q \in Requests : Erases(req'[q]) => req'[q] = req[q] /\ q # r
  BY <1>1 DEF Goes, Moved
<1>7. x \in Erasing \cup Scrubbed => "session" \in raced'
  BY <1>3 DEF Mark
<1>8. LinksKnown'
  <2>1. \A y : Past(y, {"sessions", "scrub"})' => Past(y, {"sessions", "scrub"})
    BY <1>5, <1>6 DEF Past, Erases
  <2>2. \A o \in Orders : o \in raced => o \in raced'
    BY <1>3, ErasureAssumption DEF Mark
  <2> QED
    BY <1>0, <1>3, <2>1, <2>2 DEF LinksKnown
<1>9. BindingKnown'
  <2>1. ASSUME NEW y \in Rows, Past(y, {"scrub"})', bound' = y PROVE "session" \in raced'
    BY <1>3, <1>5, <1>6, <1>7, <2>1 DEF Past, Erases, Erasing
  <2>2. ASSUME NEW q \in Requests, req'[q].pc \in {"orders", "sessions"}, bound' = req'[q].row
        PROVE  "session" \in raced'
    BY <1>3, <1>6, <1>7, <2>2 DEF Erases, Erasing
  <2> QED
    BY <2>1, <2>2 DEF BindingKnown
<1>10. RememberedInTime'
  <2>1. \A ids : IsSuppressed(ids)' <=> IsSuppressed(ids)
    BY <1>3 DEF IsSuppressed
  <2> QED
    BY <1>6, <2>1 DEF RememberedInTime, IInv
<1> QED
  BY <1>4, <1>5, <1>8, <1>9, <1>10 DEF IInv

-----------------------------------------------------------------------------
(* The steps of an erasure.                                                 *)

\* The record covers what was read of the row before anything is destroyed.
LEMMA RecordKeeps ==
  ASSUME IInv, NEW r \in Requests, Record(r)
  PROVE  IInv'
<1>1. PICK slot : /\ Goes(r, slot) /\ slot.pc = "orders" /\ slot.row = req[r].row
                  /\ slot.held = req[r].held /\ slot.sessions = (bound = req[r].row)
  BY RecordGoes
<1>2. PICK ids : ids = req[r].held \cap Erasable
  OBVIOUS
<1>3. /\ list' = (IF ids = {} \/ IsSuppressed(ids) THEN list ELSE list \cup {ids})
      /\ UNCHANGED <<cust, link, bound, redact, raced, restarts>>
  BY <1>2 DEF Record, Rest
<1>4. TypeOK' /\ Slots'
  BY <1>1, <1>2, <1>3, GoesKeepsSlots DEF IInv, TypeOK
<1>5. Scrubbed' = Scrubbed
  BY <1>3 DEF Scrubbed, Used, Row
<1>6. /\ req'[r] = slot /\ \A q \in Requests \ {r} : req'[q] = req[q]
  BY <1>1 DEF Goes, Moved
<1>7. RememberedInTime'
  <2>1. \A i : IsSuppressed(i) => IsSuppressed(i)'
    BY <1>3 DEF IsSuppressed
  <2>2. ids = {} \/ IsSuppressed(ids)'
    <3>1. CASE ids # {} /\ ~IsSuppressed(ids)
      <4>1. ids \in list' /\ ids \cap ids # {}
        BY <1>3, <3>1
      <4> QED
        BY <4>1 DEF IsSuppressed
    <3> QED
      BY <2>1, <3>1
  <2>3. ASSUME NEW q \in Requests, Erases(req'[q]), q # r
        PROVE  \/ req'[q].held \cap Erasable = {}
               \/ IsSuppressed(req[q].held \cap Erasable)'
    <3>1. PICK held : held = req[q].held \cap Erasable /\ held = req'[q].held \cap Erasable
      BY <1>6, <2>3
    <3>2. held = {} \/ IsSuppressed(held)
      BY <1>6, <2>3, <3>1 DEF IInv, RememberedInTime
    <3> QED
      BY <2>1, <3>1, <3>2
  <2>4. req'[r].held \cap Erasable = {} \/ IsSuppressed(req[r].held \cap Erasable)'
    <3>1. req'[r].held \cap Erasable = ids
      BY <1>1, <1>2, <1>6
    <3> QED
      BY <2>2, <3>1
  <2> QED
    BY <2>3, <2>4 DEF RememberedInTime
<1>8. \A y : /\ Past(y, {"sessions", "scrub"})' => Past(y, {"sessions", "scrub"})
             /\ Past(y, {"scrub"})' => Past(y, {"scrub"})
  BY <1>1, <1>5, <1>6 DEF Past
<1>9. LinksKnown'
  BY <1>3, <1>8 DEF IInv, LinksKnown
<1>10. BindingKnown'
  <2>1. ASSUME NEW q \in Requests, req'[q].pc \in {"orders", "sessions"}, ~req'[q].sessions,
               bound = req'[q].row
        PROVE  "session" \in raced
    BY <1>1, <1>6, <2>1 DEF IInv, BindingKnown
  <2> QED
    BY <1>3, <1>8, <2>1 DEF IInv, BindingKnown
<1> QED
  BY <1>4, <1>7, <1>9, <1>10 DEF IInv

\* After it no order points to the row but one linked meanwhile.
LEMMA UnlinkOrdersKeeps ==
  ASSUME IInv, NEW r \in Requests, UnlinkOrders(r)
  PROVE  IInv'
<1>0. Erases(req[r]) /\ TypeOK /\ req[r].pc = "orders"
  BY DEF UnlinkOrders, At, Erases, IInv
<1>1. PICK slot : /\ Goes(r, slot) /\ slot.pc = "sessions" /\ slot.row = req[r].row
                  /\ slot.held = req[r].held /\ slot.sessions = req[r].sessions
                  /\ slot.row \in Rows
  BY <1>0, ErasureGoes DEF UnlinkOrders
<1>2. PICK x : x = req[r].row
  OBVIOUS
<1>3. /\ UNCHANGED <<cust, list, bound, redact, restarts>> /\ x \in Rows
      /\ link' = [o \in Orders |-> IF link[o] = x THEN None ELSE link[o]]
      /\ raced' = {t \in raced : t \notin Orders \/ link[t] # x}
  BY <1>1, <1>2 DEF UnlinkOrders
<1>4. TypeOK' /\ Slots'
  BY <1>0, <1>1, <1>3, GoesKeepsSlots DEF IInv, TypeOK
<1>5. Scrubbed' = Scrubbed /\ \A i : IsSuppressed(i)' <=> IsSuppressed(i)
  BY <1>3 DEF Scrubbed, Used, Row, IsSuppressed
<1>6. /\ req'[r] = slot /\ \A q \in Requests \ {r} : req'[q] = req[q]
  BY <1>1 DEF Goes, Moved
<1>7. RememberedInTime'
  BY <1>0, <1>1, <1>5, <1>6 DEF IInv, RememberedInTime, Erases
<1>8. LinksKnown'
  <2>1. ASSUME NEW y \in Rows, NEW o \in Orders, Past(y, {"sessions", "scrub"})', link'[o] = y
        PROVE  o \in raced'
    <3>1. y # x /\ link[o] = y
      BY <1>3, <2>1, ErasureAssumption
    <3>2. Past(y, {"sessions", "scrub"})
      BY <1>1, <1>2, <1>5, <1>6, <2>1, <3>1 DEF Past
    <3> QED
      BY <1>3, <3>1, <3>2 DEF IInv, LinksKnown
  <2> QED
    BY <2>1 DEF LinksKnown
<1>9. "session" \in raced => "session" \in raced'
  BY <1>3, ErasureAssumption
<1>10. BindingKnown'
  <2>1. \A y : Past(y, {"scrub"})' => Past(y, {"scrub"})
    BY <1>1, <1>5, <1>6 DEF Past
  <2> QED
    BY <1>0, <1>1, <1>3, <1>6, <1>9, <2>1 DEF IInv, BindingKnown
<1> QED
  BY <1>4, <1>7, <1>8, <1>10 DEF IInv

LEMMA UnbindSessionsKeeps ==
  ASSUME IInv, NEW r \in Requests, UnbindSessions(r)
  PROVE  IInv'
<1>0. Erases(req[r]) /\ TypeOK /\ req[r].pc = "sessions"
  BY DEF UnbindSessions, At, Erases, IInv
<1>1. PICK slot : /\ Goes(r, slot) /\ slot.pc = "scrub" /\ slot.row = req[r].row
                  /\ slot.held = req[r].held /\ slot.sessions = req[r].sessions
                  /\ slot.row \in Rows
  BY <1>0, ErasureGoes DEF UnbindSessions
<1>2. /\ UNCHANGED <<cust, list, link, redact, raced, restarts>>
      /\ bound' = IF req[r].sessions /\ bound = req[r].row THEN None ELSE bound
  BY DEF UnbindSessions, Rest
<1>3. TypeOK' /\ Slots'
  BY <1>0, <1>1, <1>2, GoesKeepsSlots DEF IInv, TypeOK
<1>4. Scrubbed' = Scrubbed /\ \A i : IsSuppressed(i)' <=> IsSuppressed(i)
  BY <1>2 DEF Scrubbed, Used, Row, IsSuppressed
<1>5. /\ req'[r] = slot /\ \A q \in Requests \ {r} : req'[q] = req[q]
  BY <1>1 DEF Goes, Moved
<1>6. RememberedInTime'
  BY <1>0, <1>1, <1>4, <1>5 DEF IInv, RememberedInTime, Erases
<1>7. LinksKnown'
  <2>1. \A y : Past(y, {"sessions", "scrub"})' => Past(y, {"sessions", "scrub"})
    BY <1>0, <1>1, <1>4, <1>5 DEF Past
  <2> QED
    BY <1>2, <2>1 DEF IInv, LinksKnown
<1>8. BindingKnown'
  <2>1. ASSUME NEW y \in Rows, Past(y, {"scrub"})', bound' = y
        PROVE  "session" \in raced
    <3>1. bound = y
      BY <1>2, <2>1, ErasureAssumption
    <3>2. CASE y = req[r].row
      BY <1>0, <1>2, <2>1, <3>1, <3>2, ErasureAssumption DEF IInv, BindingKnown
    <3>3. CASE y # req[r].row
      <4>1. Past(y, {"scrub"})
        BY <1>1, <1>4, <1>5, <2>1, <3>3 DEF Past
      <4> QED
        BY <3>1, <4>1 DEF IInv, BindingKnown
    <3> QED
      BY <3>2, <3>3
  <2>2. ASSUME NEW q \in Requests, req'[q].pc \in {"orders", "sessions"}, ~req'[q].sessions,
               bound' = req'[q].row
        PROVE  "session" \in raced
    <3>1. q # r /\ req'[q] = req[q]
      BY <1>1, <1>5, <2>2
    <3>2. req[q].row \in Rows
      BY <2>2, <3>1 DEF IInv, Slots, GoodSlot
    <3>3. bound = req[q].row
      BY <1>2, <2>2, <3>1, <3>2, ErasureAssumption
    <3> QED
      BY <2>2, <3>1, <3>3 DEF IInv, BindingKnown
  <2> QED
    BY <1>2, <2>1, <2>2 DEF BindingKnown
<1> QED
  BY <1>3, <1>6, <1>7, <1>8 DEF IInv

\* The last step empties the row, and everything that pointed to it is known.
LEMMA ScrubKeeps ==
  ASSUME IInv, NEW r \in Requests, Scrub(r)
  PROVE  IInv'
<1> DEFINE x == req[r].row
           left == req[r].held \ Erasable
<1>0. /\ TypeOK /\ req[r].pc = "scrub" /\ x \in Rows /\ left \in SUBSET Ids /\ redact' \in BOOLEAN
  BY DEF Scrub, At, IInv, Slots, GoodSlot, SlotTypes, TypeOK
<1>1. Goes(r, Idle) /\ Slots'
  BY EndGoes, GoesKeepsSlots DEF IInv, Scrub
<1>2. UNCHANGED <<list, link, bound, raced, restarts>> /\ cust' = [cust EXCEPT ![x].ids = left]
  BY DEF Scrub
<1>3. TypeOK'
  BY <1>0, <1>2 DEF TypeOK
<1>4. Scrubbed' \subseteq Scrubbed \cup {x}
  <2>1. \A y \in Rows \ {x} : cust'[y] = cust[y]
    BY <1>0, <1>2 DEF TypeOK
  <2> QED
    BY <2>1 DEF Scrubbed, Used, Row
<1>5. \A q \in Requests : Erases(req'[q]) => req'[q] = req[q] /\ q # r
  BY <1>1, IdleSlot DEF Goes, Moved
<1>6. \A y : /\ Past(y, {"sessions", "scrub"})' => Past(y, {"sessions", "scrub"})
             /\ Past(y, {"scrub"})' => Past(y, {"scrub"})
  BY <1>0, <1>4, <1>5 DEF Past, Erases
<1>7. RememberedInTime'
  <2>1. \A i : IsSuppressed(i)' <=> IsSuppressed(i)
    BY <1>2 DEF IsSuppressed
  <2> QED
    BY <1>5, <2>1 DEF IInv, RememberedInTime
<1>8. LinksKnown' /\ BindingKnown'
  BY <1>2, <1>5, <1>6 DEF IInv, LinksKnown, BindingKnown, Erases
<1> QED
  BY <1>1, <1>3, <1>7, <1>8 DEF IInv

LEMMA RestartKeeps ==
  ASSUME IInv, Restart
  PROVE  IInv'
<1>1. \A r \in Requests : req'[r] = Idle
  BY DEF Restart
<1>2. Slots'
  BY <1>1, IdleSlot DEF Restart, Slots
<1>3. TypeOK'
  BY ErasureAssumption DEF IInv, TypeOK, Restart, Tables
<1>4. Harmless
  BY <1>1, IdleSlot DEF Harmless, Restart, Tables, Remembered, Scrubbed, Used, Row
<1> QED
  BY <1>2, <1>3, <1>4, HarmlessKeeps DEF IInv

\* A call that starts, checks, looks up or keeps what it found.
LEMMA CallReads ==
  ASSUME IInv, NEW r \in Requests,
         \/ \E o \in Orders : StartSync(r, o)
         \/ StartLogin(r) \/ StartLead(r) \/ StartIdentify(r)
         \/ Check(r) \/ Find(r) \/ KeepFound(r) \/ StartRedact(r) \/ StartErase(r)
  PROVE  IInv'
<1>1. TypeOK /\ Slots
  BY DEF IInv
<1>2. CASE \E o \in Orders : StartSync(r, o)
  BY <1>1, <1>2, StartSyncGoes, ReadingKeeps DEF StartSync, Rest, TypeOK
<1>3. CASE StartLogin(r) \/ StartLead(r) \/ StartIdentify(r)
  BY <1>1, <1>3, StartGoes, ReadingKeeps DEF StartLogin, StartLead, StartIdentify, Rest, TypeOK
<1>4. CASE Check(r)
  BY <1>1, <1>4, CheckGoes, ReadingKeeps DEF Check, Rest, TypeOK
<1>5. CASE Find(r)
  BY <1>1, <1>5, FindGoes, ReadingKeeps DEF Find, Rest, TypeOK
<1>6. CASE KeepFound(r)
  <2>1. req[r].row \in Rows
    BY <1>1, <1>6 DEF Slots, SlotTypes, KeepFound
  <2> QED
    BY <1>1, <1>6, <2>1, ProceedGoes, ReadingKeeps DEF KeepFound, Rest, TypeOK
<1>7. CASE StartRedact(r)
  <2>1. CASE UNCHANGED req
    <3>1. Goes(r, req[r])
      BY <1>1, <2>1 DEF Slots, Goes, Moved
    <3>2. ~Erases(req[r])
      BY <1>7 DEF StartRedact, At, Erases
    <3> QED
      BY <1>1, <1>7, <3>1, <3>2, ReadingKeeps DEF StartRedact, TypeOK
  <2>2. ASSUME NEW x \in Used,
               Move(r, [Idle EXCEPT !.op = "redact", !.pc = "record", !.row = x, !.held = Row(x)])
        PROVE  IInv'
    <3>1. x \in Rows /\ redact' \in BOOLEAN
      BY <1>1, <1>7 DEF Used, StartRedact, TypeOK
    <3> QED
      BY <1>7, <2>2, <3>1, StartErasureGoes, ReadingKeeps DEF StartRedact
  <2>3. Having("sid") \subseteq Used /\ Having("email") \subseteq Used
    BY DEF Having
  <2> QED
    BY <1>7, <2>1, <2>2, <2>3 DEF StartRedact
<1>8. CASE StartErase(r)
  <2>1. bound \in Rows
    BY <1>1, <1>8 DEF StartErase, TypeOK
  <2> QED
    BY <1>1, <1>8, <2>1, StartErasureGoes, ReadingKeeps DEF StartErase, Rest, TypeOK
<1> QED
  BY <1>2, <1>3, <1>4, <1>5, <1>6, <1>7, <1>8

LEMMA AskRedactKeeps ==
  ASSUME IInv, AskRedact
  PROVE  IInv'
<1>1. Harmless
  BY DEF Harmless, AskRedact, Tables, Remembered, Scrubbed, Used, Row
<1>2. TypeOK' /\ Slots'
  BY DEF IInv, TypeOK, Slots, AskRedact, Tables
<1> QED
  BY <1>1, <1>2, HarmlessKeeps DEF IInv

LEMMA StutterKeeps ==
  ASSUME IInv, UNCHANGED vars
  PROVE  IInv'
<1>1. Harmless
  BY DEF Harmless, vars, Remembered, Scrubbed, Used, Row
<1>2. TypeOK' /\ Slots'
  BY DEF IInv, TypeOK, Slots, vars
<1> QED
  BY <1>1, <1>2, HarmlessKeeps DEF IInv

THEOREM Invariant == Spec => []IInv
<1>1. Init => IInv
  <2> SUFFICES ASSUME Init PROVE IInv
    OBVIOUS
  <2>1. TypeOK
    <3>1. cust \in [Rows -> [used : BOOLEAN, ids : SUBSET Ids]]
      BY DEF Init, Missing
    <3>2. link \in [Orders -> Rows \cup {None}] /\ restarts \in 0..MaxRestarts
      BY ErasureAssumption DEF Init
    <3> QED
      BY <3>1, <3>2 DEF Init, TypeOK
  <2>2. \A r \in Requests : req[r] = Idle
    BY DEF Init
  <2>3. Slots /\ RememberedInTime
    BY <2>2, IdleSlot DEF Init, Slots, RememberedInTime
  <2>4. \A x \in Rows : ~Past(x, {"sessions", "scrub"}) /\ ~Past(x, {"scrub"})
    BY <2>2, IdleSlot DEF Init, Past, Scrubbed, Used, Missing
  <2>5. LinksKnown /\ BindingKnown
    BY <2>2, <2>4, IdleSlot DEF LinksKnown, BindingKnown
  <2> QED
    BY <2>1, <2>3, <2>5 DEF IInv
<1>2. IInv /\ [Next]_vars => IInv'
  <2> SUFFICES ASSUME IInv, [Next]_vars PROVE IInv'
    OBVIOUS
  <2>1. ASSUME NEW r \in Requests,
               SaveFound(r) \/ Create(r) \/ SaveOrder(r) \/ Bind(r) \/ Record(r)
               \/ UnlinkOrders(r) \/ UnbindSessions(r) \/ Scrub(r)
        PROVE  IInv'
    BY <2>1, SaveFoundKeeps, CreateKeeps, SaveOrderKeeps, BindKeeps, RecordKeeps,
       UnlinkOrdersKeeps, UnbindSessionsKeeps, ScrubKeeps
  <2> QED
    BY <2>1, CallReads, AskRedactKeeps, RestartKeeps, StutterKeeps DEF Next
<1> QED
  BY <1>1, <1>2, PTL DEF Spec

\* Rows, list, links and binding keep their types.
THEOREM TypeCorrect == Spec => []TypeOK
<1>1. IInv => TypeOK
  BY DEF IInv
<1> QED
  BY <1>1, Invariant, PTL

\* An erasure destroys nothing of a shopper whom the list does not know by one
\* of the identifiers it read, wherever it or another erasure died before.
THEOREM RememberedFirst == Spec => []RememberedBeforeScrubbed
<1>1. IInv => RememberedBeforeScrubbed
  BY DEF IInv, RememberedInTime, RememberedBeforeScrubbed, Erases
<1> QED
  BY <1>1, Invariant, PTL

\* Nothing points to a scrubbed row but what a call that had found it before wrote.
THEOREM NothingLeft == Spec => []NothingLeftBehind
<1>1. IInv => NothingLeftBehind
  <2> SUFFICES ASSUME IInv, NEW x \in Scrubbed
               PROVE  /\ \A o \in Orders : link[o] = x => o \in raced
                      /\ bound = x => "session" \in raced
    BY DEF NothingLeftBehind
  <2>1. x \in Rows /\ Past(x, {"sessions", "scrub"}) /\ Past(x, {"scrub"})
    BY DEF Scrubbed, Used, Past
  <2> QED
    BY <2>1 DEF IInv, LinksKnown, BindingKnown
<1> QED
  BY <1>1, Invariant, PTL

-----------------------------------------------------------------------------
(* Nothing undoes an erasure.                                               *)

Revives(x, i) == i \in (cust'[x].ids \ Row(x)) \cap Remembered

LEMMA SaveRevives ==
  ASSUME IInv, NEW r \in Requests, SaveFound(r) \/ Create(r),
         NEW x \in Rows, NEW i, Revives(x, i)
  PROVE  Writes(r) /\ (Outrun(r, i) \/ Is(r, "identify"))
<1>1. /\ req[r] \in SlotTypes /\ GoodSlot(req[r]) /\ req[r].pc = "write"
      /\ cust \in [Rows -> [used : BOOLEAN, ids : SUBSET Ids]]
  BY DEF IInv, TypeOK, Slots, SaveFound, Create, At
<1>2. req'[r].pc # "write"
  <2>1. CASE End(r)
    BY <2>1, EndGoes, IdleSlot DEF Goes, Moved, IInv
  <2>2. ASSUME NEW y \in Rows, Proceed(r, y) PROVE req'[r].pc # "write"
    <3>1. PICK slot : Goes(r, slot) /\ slot.pc # "write"
      BY <1>1, <2>2, ProceedGoes DEF At
    <3> QED
      BY <3>1 DEF Goes, Moved
  <2>3. SaveFound(r) => req[r].row \in Rows
    BY <1>1 DEF SlotTypes, SaveFound
  <2>4. CASE SaveFound(r)
    BY <2>1, <2>2, <2>3, <2>4 DEF SaveFound
  <2>5. CASE Create(r)
    BY <2>1, <2>2, <2>5 DEF Create
  <2> QED
    BY <2>4, <2>5
<1>3. i \in req[r].held \cup req[r].ids
  <2>1. i \in cust'[x].ids /\ i \notin cust[x].ids
    BY DEF Revives, Row
  <2>2. ASSUME NEW ids, SaveFound(r), cust' = [cust EXCEPT ![req[r].row].ids = ids]
        PROVE  i \in ids
    BY <1>1, <2>1, <2>2
  <2>3. ASSUME NEW y \in Rows, cust' = [cust EXCEPT ![y] = [used |-> TRUE, ids |-> req[r].ids]]
        PROVE  i \in req[r].ids
    BY <1>1, <2>1, <2>3
  <2> QED
    BY <2>1, <2>2, <2>3 DEF SaveFound, Create
<1> QED
  BY <1>1, <1>2, <1>3 DEF Writes, At, Outrun, GoodSlot, Is

LEMMA ScrubRevives ==
  ASSUME IInv, NEW r \in Requests, Scrub(r), NEW x \in Rows, NEW i
  PROVE  ~Revives(x, i)
<1>1. /\ cust \in [Rows -> [used : BOOLEAN, ids : SUBSET Ids]]
      /\ cust' = [cust EXCEPT ![req[r].row].ids = req[r].held \ Erasable]
      /\ Remembered \subseteq Erasable
  BY Identifiers DEF IInv, TypeOK, Scrub
<1> QED
  BY <1>1 DEF Revives, Row

\* Order sync, sign-in, backfill and lead bring no identifier back that was on
\* the list when they asked; only the signed identify of the shop does.
THEOREM OnlyRaces == Spec => OnlyRacesRevive
<1>1. ASSUME IInv, Next, NEW x \in Rows, NEW i, Revives(x, i)
      PROVE  \E r \in Requests : Writes(r) /\ (Outrun(r, i) \/ Is(r, "identify"))
  <2>1. cust' # cust
    BY <1>1 DEF Revives, Row
  <2>2. \E r \in Requests : SaveFound(r) \/ Create(r) \/ Scrub(r)
    <3>1. ASSUME NEW r \in Requests,
                 \/ \E o \in Orders : StartSync(r, o)
                 \/ StartLogin(r) \/ StartLead(r) \/ StartIdentify(r)
                 \/ Check(r) \/ Find(r) \/ KeepFound(r) \/ SaveOrder(r) \/ Bind(r)
          PROVE  UNCHANGED cust
      BY <3>1 DEF StartSync, StartLogin, StartLead, StartIdentify, Check, Find, KeepFound,
                  SaveOrder, Bind, Tables
    <3>2. ASSUME NEW r \in Requests,
                 StartRedact(r) \/ StartErase(r) \/ Record(r) \/ UnlinkOrders(r) \/ UnbindSessions(r)
          PROVE  UNCHANGED cust
      BY <3>2 DEF StartRedact, StartErase, Record, UnlinkOrders, UnbindSessions, Tables
    <3>3. AskRedact \/ Restart => UNCHANGED cust
      BY DEF AskRedact, Restart, Tables
    <3> QED
      BY <1>1, <2>1, <3>1, <3>2, <3>3 DEF Next
  <2> QED
    BY <1>1, <2>2, SaveRevives, ScrubRevives
<1>2. IInv /\ [Next]_vars
        => [\A x \in Rows : \A i \in (cust'[x].ids \ Row(x)) \cap Remembered :
              \E r \in Requests : Writes(r) /\ (Outrun(r, i) \/ Is(r, "identify"))]_vars
  BY <1>1 DEF Revives
<1> QED
  BY <1>2, Invariant, PTL DEF Spec, OnlyRacesRevive
=============================================================================
