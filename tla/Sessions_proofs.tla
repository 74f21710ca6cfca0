--------------------------- MODULE Sessions_proofs ---------------------------
(* The session row and its copy, for any number of calls: types, that a    *)
(* stale copy has a known reason, and that a withdrawal stored alone holds. *)
EXTENDS Sessions, TLAPS

Slots == [op : Ops \cup {"none"},
          pc : {"idle", "stamp", "save", "drop", "unbind", "fill", "gate",
                "version", "blocked", "answered", "done"},
          row : Row \cup {NoRow}, consent : Row,
          barred : {"no", "alone", "raced"}]

\* TypeOK is not inductive: a call that will store the row it loaded has loaded one.
Carried ==
  \A r \in Requests : req[r].pc \in {"stamp", "save", "fill", "gate"} => req[r].row \in Row

Typed == TypeOK /\ Carried

LEMMA Constants == Versions # {} /\ 1 \in Versions /\ MaxNotices \in Nat \ {0}
  BY SessionsAssumption DEF Versions

LEMMA NewRowIsRow == NewRow \in Row
  BY DEF NewRow, Row

LEMMA IdleIsSlot == Idle \in Slots
  BY NewRowIsRow DEF Idle, Slots

LEMMA SlotOf == ASSUME TypeOK, NEW r \in Requests PROVE req[r] \in Slots
  BY DEF TypeOK, Slots

\* Writing one slot.
LEMMA MoveTyped ==
  ASSUME Typed, NEW r \in Requests, NEW slot \in Slots, Move(r, slot),
         slot.pc \in {"stamp", "save", "fill", "gate"} => slot.row \in Row
  PROVE  req' \in [Requests -> Slots] /\ Carried'
<1>1. req \in [Requests -> Slots]
  BY DEF Typed, TypeOK, Slots
<1> QED
  BY <1>1 DEF Typed, Carried, Move

LEMMA LeaveTyped ==
  ASSUME Typed, NEW r \in Requests, NEW pc \in {"drop", "done", "answered", "blocked"},
         Leave(r, pc)
  PROVE  req' \in [Requests -> Slots] /\ Carried'
<1> DEFINE slot == [Idle EXCEPT !.pc = pc, !.barred = req[r].barred]
<1>1. slot \in Slots /\ slot.pc = pc
  BY IdleIsSlot, SlotOf DEF Slots, Typed
<1>2. Move(r, slot)
  BY DEF Leave
<1> HIDE DEF slot
<1> QED
  BY <1>1, <1>2, MoveTyped

LEMMA BeginTyped ==
  ASSUME Typed, NEW r \in Requests, NEW op \in Ops, NEW held \in Row,
         NEW pc \in {"stamp", "save", "unbind", "gate", "fill"}, Begin(r, op, pc, held)
  PROVE  Typed'
<1> DEFINE slot == [Idle EXCEPT !.op = op, !.pc = pc, !.row = held]
           turn == [slot EXCEPT !.barred = declined]
<1>1. slot \in Slots /\ slot.row = held
  BY IdleIsSlot DEF Slots
<1>2. turn \in Slots /\ turn.row = held
  BY <1>1 DEF Typed, TypeOK, Slots
<1>3. UNCHANGED <<row, notice, copy, touched>> /\ declined' \in {"no", "alone", "raced"}
  BY DEF Begin, Typed, TypeOK
<1>4. req' \in [Requests -> Slots] /\ Carried'
  <2>1. CASE op = "grant"
    <3>1. req' = [q \in Requests |-> IF q = r THEN slot ELSE [req[q] EXCEPT !.barred = "no"]]
      BY <2>1 DEF Begin
    <3> HIDE DEF slot, turn
    <3>2. \A q \in Requests : [req[q] EXCEPT !.barred = "no"] \in Slots
      BY SlotOf DEF Slots, Typed
    <3>3. \A q \in Requests \ {r} : req'[q].pc = req[q].pc /\ req'[q].row = req[q].row
      BY <3>1, SlotOf DEF Slots, Typed
    <3>4. Row' = Row
      OBVIOUS
    <3> QED
      BY <1>1, <3>1, <3>2, <3>3, <3>4 DEF Carried, Typed
  <2>2. CASE op # "grant"
    <3>1. Move(r, slot) \/ Move(r, turn)
      BY <2>2 DEF Begin
    <3> HIDE DEF slot, turn
    <3> QED
      BY <3>1, <1>1, <1>2, MoveTyped
  <2> QED
    BY <2>1, <2>2
<1> QED
  BY <1>3, <1>4 DEF Typed, TypeOK, Slots

-----------------------------------------------------------------------------
LEMMA InitTyped == Init => Typed
<1> SUFFICES ASSUME Init PROVE Typed
  OBVIOUS
<1>3. row \in Row
  BY DEF Init, StartRows
<1>4. copy \in [row : Row, late : BOOLEAN] \cup {NoCopy}
  <2>1. [row |-> row, late |-> FALSE] \in [row : Row, late : BOOLEAN]
    BY <1>3
  <2>2. copy = NoCopy \/ copy = [row |-> row, late |-> FALSE]
    BY Zenon DEF Init
  <2> QED
    BY <2>1, <2>2
<1>2. req \in [Requests -> Slots] /\ Carried
  BY IdleIsSlot DEF Init, Carried, Idle
<1> QED
  BY <1>2, <1>3, <1>4, Constants DEF Init, Typed, TypeOK, Slots

LEMMA OutcomeIsRow ==
  ASSUME Typed, NEW r \in Requests, At(r, "save"), NEW k \in Customers
  PROVE  Outcome(r, k) \in Row
<1>1. req[r].row \in Row
  BY DEF At, Typed, Carried
<1> QED
  BY <1>1 DEF Outcome, SetLanguage, GuestLookup, Identify, Row, Is

LEMMA NextTyped == Typed /\ [Next]_vars => Typed'
<1> SUFFICES ASSUME Typed, [Next]_vars PROVE Typed'
  OBVIOUS
<1>0. TypeOK /\ Carried
  BY DEF Typed
<1>1. ASSUME NEW r \in Requests, Load(r) PROVE Typed'
  <2>1. row \in Row
    BY <1>0 DEF TypeOK
  <2> QED
    BY <1>1, <2>1, BeginTyped DEF Load, Ops
<1>2. ASSUME NEW r \in Requests, Stamp(r) PROVE Typed'
  <2> DEFINE slot == [req[r] EXCEPT !.pc = "save", !.row.version = notice,
                            !.row.consent = IF Is(r, "grant") THEN "granted" ELSE "declined"]
  <2>1. req[r].row \in Row /\ notice \in Versions /\ req[r] \in Slots
    BY <1>0, <1>2, SlotOf DEF Stamp, At, Carried, TypeOK
  <2>2. slot \in Slots /\ slot.row \in Row
    BY <2>1 DEF Slots, Row
  <2>3. Move(r, slot)
    BY <1>2 DEF Stamp
  <2> HIDE DEF slot
  <2>4. req' \in [Requests -> Slots] /\ Carried'
    BY <2>2, <2>3, MoveTyped
  <2> QED
    BY <1>0, <1>2, <2>4 DEF Stamp, Keep, Typed, TypeOK, Slots
<1>3. ASSUME NEW r \in Requests, Save(r) PROVE Typed'
  <2>1. row' \in Row
    BY <1>3, OutcomeIsRow DEF Save
  <2>2. req' \in [Requests -> Slots] /\ Carried'
    BY <1>3, LeaveTyped DEF Save
  <2>3. declined' \in {"no", "alone", "raced"} /\ touched' \in BOOLEAN
    BY <1>0, <1>3 DEF Save, TypeOK
  <2> QED
    BY <1>0, <1>3, <2>1, <2>2, <2>3 DEF Save, Typed, TypeOK, Slots
<1>4. ASSUME NEW r \in Requests, UpdateTag(r) PROVE Typed'
  <2>1. row' \in Row
    BY <1>0, <1>4 DEF UpdateTag, TypeOK, Row
  <2>2. req' \in [Requests -> Slots] /\ Carried'
    BY <1>4, LeaveTyped DEF UpdateTag
  <2> QED
    BY <1>0, <1>4, <2>1, <2>2 DEF UpdateTag, Keep, Typed, TypeOK, Slots
<1>5. ASSUME NEW r \in Requests, LinkCustomer(r) PROVE Typed'
  <2>1. row' \in Row
    BY <1>0, <1>5 DEF LinkCustomer, TypeOK, Row
  <2>2. req' \in [Requests -> Slots] /\ Carried'
    BY <1>5, LeaveTyped DEF LinkCustomer
  <2> QED
    BY <1>0, <1>5, <2>1, <2>2 DEF LinkCustomer, Keep, Typed, TypeOK, Slots
<1>6. ASSUME NEW r \in Requests, Drop(r) PROVE Typed'
  <2>1. req' \in [Requests -> Slots] /\ Carried'
    BY <1>6, LeaveTyped DEF Drop
  <2> QED
    BY <1>0, <1>6, <2>1 DEF Drop, Typed, TypeOK, Slots
<1>7. ASSUME NEW r \in Requests, Redact(r) \/ Erase(r) PROVE Typed'
  <2>1. row \in Row
    BY <1>0 DEF TypeOK
  <2> QED
    BY <1>7, <2>1, BeginTyped DEF Redact, Erase, Ops
<1>8. ASSUME NEW r \in Requests, Unbind(r) PROVE Typed'
  <2>1. row' \in Row
    BY <1>0, <1>8 DEF Unbind, TypeOK, Row
  <2>2. req' \in [Requests -> Slots] /\ Carried'
    BY <1>8, LeaveTyped DEF Unbind
  <2> QED
    BY <1>0, <1>8, <2>1, <2>2 DEF Unbind, Keep, Typed, TypeOK, Slots
<1>9. ASSUME NEW r \in Requests, View(r) PROVE Typed'
  <2>1. row \in Row /\ (copy # NoCopy => copy.row \in Row)
    BY <1>0 DEF TypeOK
  <2> QED
    BY <1>9, <2>1, BeginTyped DEF View, Ops
<1>10. ASSUME NEW r \in Requests, Fill(r) PROVE Typed'
  <2> DEFINE slot == [req[r] EXCEPT !.pc = "gate"]
  <2>1. req[r].row \in Row /\ req[r] \in Slots
    BY <1>0, <1>10, SlotOf DEF Fill, At, Carried
  <2>2. slot \in Slots /\ slot.row \in Row /\ Move(r, slot)
    BY <1>10, <2>1 DEF Slots, Fill, Goto
  <2> HIDE DEF slot
  <2>3. req' \in [Requests -> Slots] /\ Carried'
    BY <2>2, MoveTyped
  <2>4. copy' \in [row : Row, late : BOOLEAN]
    BY <1>10, <2>1 DEF Fill
  <2> QED
    BY <1>0, <1>10, <2>3, <2>4 DEF Fill, Keep, Typed, TypeOK, Slots
<1>11. ASSUME NEW r \in Requests, ReadConsent(r) PROVE Typed'
  <2> DEFINE slot == [req[r] EXCEPT !.pc = "version", !.consent = row]
  <2>1. row \in Row /\ req[r] \in Slots
    BY <1>0, SlotOf DEF TypeOK
  <2>2. slot \in Slots /\ slot.pc = "version" /\ Move(r, slot)
    BY <1>11, <2>1 DEF Slots, ReadConsent
  <2> HIDE DEF slot
  <2>3. req' \in [Requests -> Slots] /\ Carried'
    BY <2>2, MoveTyped
  <2> QED
    BY <1>0, <1>11, <2>3 DEF ReadConsent, Keep, Typed, TypeOK, Slots
<1>12. ASSUME NEW r \in Requests, Verdict(r) PROVE Typed'
  <2>1. req' \in [Requests -> Slots] /\ Carried'
    BY <1>12, LeaveTyped DEF Verdict
  <2> QED
    BY <1>0, <1>12, <2>1 DEF Verdict, Keep, Typed, TypeOK, Slots
<1>13. ASSUME NEW r \in Requests, SaveContact(r) PROVE Typed'
  <2>1. row' \in Row
    BY <1>0, <1>13 DEF SaveContact, TypeOK, Row
  <2>2. req' \in [Requests -> Slots] /\ Carried'
    BY <1>13, LeaveTyped DEF SaveContact
  <2> QED
    BY <1>0, <1>13, <2>1, <2>2 DEF SaveContact, Keep, Typed, TypeOK, Slots
<1>14. CASE Publish
  <2>1. notice' \in Versions
    BY <1>0, <1>14, Constants DEF Publish, TypeOK, Versions
  <2> QED
    BY <1>0, <1>14, <2>1 DEF Publish, Keep, Typed, TypeOK, Carried
<1>15. CASE Expire
  BY <1>0, <1>15 DEF Expire, Typed, TypeOK, Carried
<1>16. CASE UNCHANGED vars
  BY <1>0, <1>16 DEF vars, Typed, TypeOK, Carried
<1> QED
  BY <1>1, <1>2, <1>3, <1>4, <1>5, <1>6, <1>7, <1>8, <1>9, <1>10, <1>11, <1>12, <1>13,
     <1>14, <1>15, <1>16 DEF Next, Step

\* Every variable keeps its type, whatever calls overlap.
THEOREM TypeCorrect == Spec => []TypeOK
<1>1. Typed => TypeOK
  BY DEF Typed
<1> QED
  BY <1>1, InitTyped, NextTyped, PTL DEF Spec

-----------------------------------------------------------------------------
(* The stale copy.                                                          *)

\* A call that has written the row owes the delete until it drops the copy.
LEMMA LeaveToDrop ==
  ASSUME Typed, NEW r \in Requests, Leave(r, "drop")
  PROVE  \E q \in Requests : At(q, "drop")'
<1>1. req'[r].pc = "drop"
  BY DEF Leave, Move, Typed, TypeOK, Idle
<1> QED
  BY <1>1 DEF At

\* A call that is not about to drop the copy takes no reason away.
LEMMA OthersKeepOwing ==
  ASSUME Typed, NEW r \in Requests, ~At(r, "drop"),
         \A q \in Requests \ {r} : req'[q].pc = req[q].pc,
         \E q \in Requests : At(q, "drop")
  PROVE  \E q \in Requests : At(q, "drop")'
  BY DEF At

LEMMA MoveOthers ==
  ASSUME Typed, NEW r \in Requests, NEW slot, Move(r, slot)
  PROVE  \A q \in Requests \ {r} : req'[q] = req[q]
  BY DEF Move, Typed, TypeOK

LEMMA LeaveOthers ==
  ASSUME Typed, NEW r \in Requests, NEW pc, Leave(r, pc)
  PROVE  \A q \in Requests \ {r} : req'[q] = req[q]
  BY MoveOthers DEF Leave

LEMMA BeginOthers ==
  ASSUME Typed, NEW r \in Requests, NEW op, NEW pc, NEW held, Begin(r, op, pc, held)
  PROVE  /\ \A q \in Requests \ {r} : req'[q].pc = req[q].pc
         /\ ~At(r, "drop") /\ UNCHANGED <<row, notice, copy, touched>>
<1>1. ~At(r, "drop") /\ UNCHANGED <<row, notice, copy, touched>>
  BY DEF Begin, At
<1>2. CASE op = "grant"
  BY <1>1, <1>2, SlotOf DEF Begin, Typed, Slots
<1>3. CASE op # "grant"
  BY <1>1, <1>3, MoveOthers DEF Begin
<1> QED
  BY <1>1, <1>2, <1>3

LEMMA ReasonKept ==
  ASSUME Typed, StaleCopyHasAReason, NEW r \in Requests, ~At(r, "drop"),
         \A q \in Requests \ {r} : req'[q].pc = req[q].pc,
         UNCHANGED <<row, copy, touched>>
  PROVE  StaleCopyHasAReason'
<1>1. (\E q \in Requests : At(q, "drop")) => \E q \in Requests : At(q, "drop")'
  BY OthersKeepOwing
<1> QED
  BY <1>1 DEF StaleCopyHasAReason

LEMMA NextStale == Typed /\ StaleCopyHasAReason /\ [Next]_vars => StaleCopyHasAReason'
<1> SUFFICES ASSUME Typed, StaleCopyHasAReason, [Next]_vars PROVE StaleCopyHasAReason'
  OBVIOUS
<1>1. ASSUME NEW r \in Requests, Load(r) \/ Redact(r) \/ Erase(r) \/ View(r)
      PROVE  StaleCopyHasAReason'
  <2>1. PICK op, pc, held : Begin(r, op, pc, held)
    BY <1>1 DEF Load, Redact, Erase, View
  <2> QED
    BY <2>1, BeginOthers, ReasonKept
<1>2. ASSUME NEW r \in Requests, Stamp(r) \/ ReadConsent(r) PROVE StaleCopyHasAReason'
  <2>1. PICK slot : Move(r, slot)
    BY <1>2 DEF Stamp, ReadConsent
  <2>2. ~At(r, "drop") /\ UNCHANGED <<row, copy, touched>>
    BY <1>2 DEF Stamp, ReadConsent, Keep, At
  <2> QED
    BY <2>1, <2>2, MoveOthers, ReasonKept
<1>3. ASSUME NEW r \in Requests, Save(r) PROVE StaleCopyHasAReason'
  <2>1. CASE Is(r, "touch")
    <3>1. Leave(r, "done") /\ ~At(r, "drop") /\ copy' = copy
          /\ touched' = (touched \/ row' # row)
      BY <1>3, <2>1 DEF Save, At
    <3>2. CASE row' = row
      <4>1. (\E q \in Requests : At(q, "drop")) => \E q \in Requests : At(q, "drop")'
        BY <3>1, LeaveOthers, OthersKeepOwing
      <4> QED
        BY <3>1, <3>2, <4>1 DEF StaleCopyHasAReason
    <3>3. CASE row' # row
      BY <3>1, <3>3 DEF StaleCopyHasAReason
    <3> QED
      BY <3>2, <3>3
  <2>2. CASE ~Is(r, "touch")
    BY <1>3, <2>2, LeaveToDrop DEF Save, StaleCopyHasAReason
  <2> QED
    BY <2>1, <2>2
<1>4. ASSUME NEW r \in Requests, UpdateTag(r) \/ LinkCustomer(r) \/ Unbind(r)
      PROVE  StaleCopyHasAReason'
  BY <1>4, LeaveToDrop DEF UpdateTag, LinkCustomer, Unbind, StaleCopyHasAReason
<1>5. ASSUME NEW r \in Requests, Drop(r) PROVE StaleCopyHasAReason'
  BY <1>5 DEF Drop, StaleCopyHasAReason
<1>6. ASSUME NEW r \in Requests, Fill(r) PROVE StaleCopyHasAReason'
  <2>1. copy'.row = req[r].row /\ copy'.late = (req[r].row # row) /\ row' = row
    BY <1>6 DEF Fill
  <2> QED
    BY <2>1 DEF StaleCopyHasAReason
<1>7. ASSUME NEW r \in Requests, Verdict(r) PROVE StaleCopyHasAReason'
  <2>1. ~At(r, "drop") /\ UNCHANGED <<row, copy, touched>>
    BY <1>7 DEF Verdict, Keep, At
  <2>2. \A q \in Requests \ {r} : req'[q] = req[q]
    BY <1>7, LeaveOthers DEF Verdict
  <2> QED
    BY <2>1, <2>2, ReasonKept
<1>8. ASSUME NEW r \in Requests, SaveContact(r) PROVE StaleCopyHasAReason'
  <2>1. CASE Leave(r, "drop")
    BY <1>8, <2>1, LeaveToDrop DEF SaveContact, StaleCopyHasAReason
  <2>2. CASE Leave(r, "done") /\ UNCHANGED row
    <3>1. ~At(r, "drop") /\ UNCHANGED <<row, copy, touched>>
      BY <1>8, <2>2 DEF SaveContact, Keep, At
    <3> QED
      BY <2>2, <3>1, LeaveOthers, ReasonKept
  <2> QED
    BY <1>8, <2>1, <2>2 DEF SaveContact
<1>9. CASE Publish \/ UNCHANGED vars
  BY <1>9 DEF Publish, Keep, vars, StaleCopyHasAReason, At
<1>10. CASE Expire
  BY <1>10 DEF Expire, StaleCopyHasAReason
<1> QED
  BY <1>1, <1>2, <1>3, <1>4, <1>5, <1>6, <1>7, <1>8, <1>9, <1>10 DEF Next, Step

LEMMA InitStale == Init => StaleCopyHasAReason
<1> SUFFICES ASSUME Init, copy # NoCopy PROVE copy.row = row
  BY DEF StaleCopyHasAReason
<1> QED
  BY DEF Init

\* Whatever overlaps: a copy that is not the row was stored late, is about to be
\* dropped, or was passed by a touch.
THEOREM StaleCopyExplained == Spec => []StaleCopyHasAReason
  BY InitTyped, NextTyped, InitStale, NextStale, PTL DEF Spec

-----------------------------------------------------------------------------
(* The withdrawal.                                                          *)

\* A withdrawal stored alone is in force, or some turn began while one was.
Withdrawn == declined = "alone" \/ \E r \in Requests : req[r].barred = "alone"

\* From then on nothing that is stored or may be stored says "granted" ...
Closed ==
  Withdrawn =>
    /\ row.consent # "granted"
    /\ \A r \in Requests : Holds(r) => ~Is(r, "grant") /\ req[r].row.consent # "granted"

\* ... and neither does what a turn that began since has read.
ReadClosed ==
  \A r \in Requests :
    At(r, "version") /\ req[r].barred = "alone" => req[r].consent.consent # "granted"

\* A decline about to be saved says so.
Stamped ==
  \A r \in Requests : At(r, "save") /\ Is(r, "decline") => req[r].row.consent = "declined"

WInv == Closed /\ ReadClosed /\ Stamped /\ WithdrawalIsHonoured

LEMMA InitWInv == Init => WInv
<1> SUFFICES ASSUME Init PROVE WInv
  OBVIOUS
<1>1. \A r \in Requests : req[r].barred = "no" /\ req[r].pc = "idle"
  BY DEF Init, Idle
<1>2. declined = "no"
  BY DEF Init
<1> QED
  BY <1>1, <1>2 DEF WInv, Closed, Withdrawn, ReadClosed, Stamped, WithdrawalIsHonoured, At, Is

\* What the beginning of a call makes of the slots.
LEMMA BeginSlots ==
  ASSUME Typed, NEW r \in Requests, NEW op, NEW pc, NEW held, Begin(r, op, pc, held)
  PROVE  /\ req'[r].op = op /\ req'[r].pc = pc /\ req'[r].row = held
         /\ op = "grant" => declined' = "no" /\ \A q \in Requests : req'[q].barred = "no"
         /\ \A q \in Requests \ {r} :
              req'[q].op = req[q].op /\ req'[q].pc = req[q].pc /\ req'[q].row = req[q].row
         /\ op # "grant" => /\ declined' = declined
                            /\ req'[r].barred \in {"no", declined}
                            /\ \A q \in Requests \ {r} : req'[q] = req[q]
<1> DEFINE slot == [Idle EXCEPT !.op = op, !.pc = pc, !.row = held]
           turn == [slot EXCEPT !.barred = declined]
<1>1. slot.op = op /\ slot.pc = pc /\ slot.row = held /\ slot.barred = "no"
  BY DEF Idle
<1>2. turn.op = op /\ turn.pc = pc /\ turn.row = held /\ turn.barred = declined
  BY DEF Idle
<1>3. CASE op = "grant"
  <2>1. req' = [q \in Requests |-> IF q = r THEN slot ELSE [req[q] EXCEPT !.barred = "no"]]
        /\ declined' = "no"
    BY <1>3 DEF Begin
  <2> HIDE DEF slot, turn
  <2>2. \A q \in Requests :
          LET freed == [req[q] EXCEPT !.barred = "no"]
          IN  /\ freed.barred = "no" /\ freed.op = req[q].op
              /\ freed.pc = req[q].pc /\ freed.row = req[q].row
    BY SlotOf DEF Typed, Slots
  <2> QED
    BY <1>1, <1>3, <2>1, <2>2
<1>4. CASE op # "grant"
  <2>1. (Move(r, slot) \/ Move(r, turn)) /\ declined' = declined
    BY <1>4 DEF Begin
  <2> HIDE DEF slot, turn
  <2>2. req'[r] \in {slot, turn} /\ \A q \in Requests \ {r} : req'[q] = req[q]
    BY <2>1 DEF Move, Typed, TypeOK
  <2> QED
    BY <1>1, <1>2, <1>4, <2>1, <2>2
<1> QED
  BY <1>3, <1>4

LEMMA BeginWInv ==
  ASSUME Typed, WInv, NEW r \in Requests, NEW op, NEW held,
         NEW pc \in {"stamp", "save", "unbind", "gate", "fill"}, Begin(r, op, pc, held),
         pc \in {"stamp", "save"} => held = row,
         pc = "save" => op # "decline"
  PROVE  WInv'
<1>1. row' = row
  BY DEF Begin
<1>2. CASE op = "grant"
  <2>1. declined' = "no" /\ \A q \in Requests : req'[q].barred = "no"
    BY <1>2, BeginSlots
  <2>2. /\ req'[r].op = "grant"
        /\ \A q \in Requests \ {r} :
             req'[q].op = req[q].op /\ req'[q].pc = req[q].pc /\ req'[q].row = req[q].row
    BY <1>2, BeginSlots
  <2> QED
    BY <2>1, <2>2 DEF WInv, Closed, Withdrawn, ReadClosed, Stamped, WithdrawalIsHonoured, At, Is
<1>3. CASE op # "grant"
  <2>1. /\ req'[r].op = op /\ req'[r].pc = pc /\ req'[r].row = held
        /\ declined' = declined /\ req'[r].barred \in {"no", declined}
        /\ \A q \in Requests \ {r} : req'[q] = req[q]
    BY <1>3, BeginSlots
  <2>2. Withdrawn' => Withdrawn
    BY <2>1 DEF Withdrawn
  <2>3. Closed'
    BY <1>1, <1>3, <2>1, <2>2 DEF WInv, Closed, Holds, Is
  <2>4. ReadClosed' /\ Stamped' /\ WithdrawalIsHonoured'
    BY <2>1 DEF WInv, ReadClosed, Stamped, WithdrawalIsHonoured, At, Is
  <2> QED
    BY <2>3, <2>4 DEF WInv
<1> QED
  BY <1>2, <1>3

\* A call that leaves what it read behind.
LEMMA LeaveSlots ==
  ASSUME Typed, NEW r \in Requests, NEW pc \in {"drop", "done", "answered", "blocked"},
         Leave(r, pc)
  PROVE  /\ req'[r].pc = pc /\ req'[r].barred = req[r].barred
         /\ \A q \in Requests \ {r} : req'[q] = req[q]
  BY DEF Leave, Move, Typed, TypeOK, Idle

LEMMA LeaveWInv ==
  ASSUME Typed, WInv, NEW r \in Requests, NEW pc \in {"drop", "done", "answered", "blocked"},
         Leave(r, pc), declined' = declined,
         Withdrawn => row'.consent # "granted",
         pc = "answered" => req[r].barred # "alone"
  PROVE  WInv'
<1>1. /\ req'[r].pc = pc /\ req'[r].barred = req[r].barred
      /\ \A q \in Requests \ {r} : req'[q] = req[q]
  BY LeaveSlots
<1>2. Withdrawn' => Withdrawn
  BY <1>1 DEF Withdrawn
<1>3. Closed'
  BY <1>1, <1>2 DEF WInv, Closed, Holds, Is
<1>4. ReadClosed' /\ Stamped' /\ WithdrawalIsHonoured'
  BY <1>1 DEF WInv, ReadClosed, Stamped, WithdrawalIsHonoured, At, Is
<1> QED
  BY <1>3, <1>4 DEF WInv

LEMMA NextWInv == Typed /\ WInv /\ [Next]_vars => WInv'
<1> SUFFICES ASSUME Typed, WInv, [Next]_vars PROVE WInv'
  OBVIOUS
<1>0. Closed /\ ReadClosed /\ Stamped /\ WithdrawalIsHonoured /\ row \in Row
  BY DEF WInv, Typed, TypeOK
<1>1. ASSUME NEW r \in Requests, Load(r) PROVE WInv'
  BY <1>1, BeginWInv DEF Load
<1>2. ASSUME NEW r \in Requests, Redact(r) \/ Erase(r) \/ View(r) PROVE WInv'
  BY <1>2, BeginWInv DEF Redact, Erase, View
<1>3. ASSUME NEW r \in Requests, Stamp(r) PROVE WInv'
  <2>1. req[r].row \in Row /\ req[r] \in Slots
    BY <1>3, SlotOf DEF Stamp, At, Typed, Carried
  <2>2. /\ req'[r].pc = "save" /\ req'[r].op = req[r].op /\ req'[r].barred = req[r].barred
        /\ ~Is(r, "grant") => req'[r].row.consent = "declined"
        /\ \A q \in Requests \ {r} : req'[q] = req[q]
    BY <1>3, <2>1 DEF Stamp, Move, Typed, TypeOK, Slots, Row
  <2>3. row' = row /\ declined' = declined /\ Holds(r)
    BY <1>3 DEF Stamp, Keep, At, Holds
  <2>4. Withdrawn' => Withdrawn
    BY <2>2, <2>3 DEF Withdrawn
  <2>5. Closed'
    BY <1>0, <2>2, <2>3, <2>4 DEF Closed, Holds, Is
  <2>6. ReadClosed' /\ Stamped' /\ WithdrawalIsHonoured'
    BY <1>0, <2>2 DEF ReadClosed, Stamped, WithdrawalIsHonoured, At, Is
  <2> QED
    BY <2>5, <2>6 DEF WInv
<1>4. ASSUME NEW r \in Requests, Save(r) PROVE WInv'
  <2>1. /\ req'[r].pc \in {"done", "drop"} /\ req'[r].barred = req[r].barred
        /\ \A q \in Requests \ {r} : req'[q] = req[q]
    BY <1>4, LeaveSlots DEF Save
  <2>2. row'.consent = req[r].row.consent
    <3>1. PICK k \in Customers : row' = Outcome(r, k)
      BY <1>4 DEF Save
    <3>2. req[r].row \in Row
      BY <1>4 DEF Save, At, Typed, Carried
    <3> QED
      BY <3>1, <3>2 DEF Outcome, SetLanguage, GuestLookup, Identify, Row
  <2>3. Closed'
    <3>1. CASE Withdrawn
      BY <1>0, <1>4, <2>1, <2>2, <3>1 DEF Closed, Save, Holds, Is, At
    <3>2. CASE ~Withdrawn /\ declined' = "alone"
      <4>1. Is(r, "decline") /\ Others(r) = {}
        BY <1>4, <3>2 DEF Save, Withdrawn
      <4>2. \A q \in Requests : ~Holds(q)'
        BY <2>1, <4>1 DEF Others, Holds
      <4>3. row'.consent # "granted"
        BY <1>0, <1>4, <2>2, <4>1 DEF Save, Stamped
      <4> QED
        BY <4>2, <4>3 DEF Closed
    <3>3. CASE ~Withdrawn /\ declined' # "alone"
      BY <2>1, <3>3 DEF Closed, Withdrawn
    <3> QED
      BY <3>1, <3>2, <3>3
  <2>4. ReadClosed' /\ Stamped' /\ WithdrawalIsHonoured'
    BY <1>0, <2>1 DEF ReadClosed, Stamped, WithdrawalIsHonoured, At, Is
  <2> QED
    BY <2>3, <2>4 DEF WInv
<1>5. ASSUME NEW r \in Requests, UpdateTag(r) \/ LinkCustomer(r) \/ Drop(r) \/ Unbind(r)
      PROVE  WInv'
  <2>1. row'.consent = row.consent /\ declined' = declined
    BY <1>0, <1>5 DEF UpdateTag, LinkCustomer, Drop, Unbind, Keep, Row
  <2>2. Leave(r, "drop") \/ Leave(r, "done")
    BY <1>5 DEF UpdateTag, LinkCustomer, Drop, Unbind
  <2> QED
    BY <1>0, <2>1, <2>2, LeaveWInv DEF Closed
<1>6. ASSUME NEW r \in Requests, Fill(r) PROVE WInv'
  <2>1. /\ req'[r].pc = "gate" /\ req'[r].barred = req[r].barred
        /\ \A q \in Requests \ {r} : req'[q] = req[q]
        /\ row' = row /\ declined' = declined
    BY <1>6, SlotOf DEF Fill, Goto, Move, Keep, Typed, TypeOK, Slots
  <2> QED
    BY <1>0, <2>1 DEF WInv, Closed, Withdrawn, ReadClosed, Stamped, WithdrawalIsHonoured, At, Holds, Is
<1>7. ASSUME NEW r \in Requests, ReadConsent(r) PROVE WInv'
  <2>1. /\ req'[r].pc = "version" /\ req'[r].barred = req[r].barred /\ req'[r].consent = row
        /\ \A q \in Requests \ {r} : req'[q] = req[q]
        /\ row' = row /\ declined' = declined
    BY <1>7, SlotOf DEF ReadConsent, Move, Keep, Typed, TypeOK, Slots
  <2> QED
    BY <1>0, <2>1 DEF WInv, Closed, Withdrawn, ReadClosed, Stamped, WithdrawalIsHonoured, At, Holds, Is
<1>8. ASSUME NEW r \in Requests, Verdict(r) PROVE WInv'
  <2>1. Granted(r) => req[r].barred # "alone"
    BY <1>0, <1>8 DEF Verdict, Granted, ReadClosed
  <2>2. PICK pc \in {"answered", "blocked"} : Leave(r, pc) /\ (pc = "answered" => Granted(r))
    BY <1>8 DEF Verdict
  <2>3. declined' = declined /\ row' = row
    BY <1>8 DEF Verdict, Keep
  <2> QED
    BY <1>0, <2>1, <2>2, <2>3, LeaveWInv DEF Closed
<1>9. ASSUME NEW r \in Requests, SaveContact(r) PROVE WInv'
  <2>1. row'.consent = row.consent /\ declined' = declined
    BY <1>0, <1>9 DEF SaveContact, Keep, Row
  <2>2. Leave(r, "drop") \/ Leave(r, "done")
    BY <1>9 DEF SaveContact
  <2> QED
    BY <1>0, <2>1, <2>2, LeaveWInv DEF Closed
<1>10. CASE Publish \/ Expire \/ UNCHANGED vars
  <2>1. UNCHANGED <<row, req, declined>>
    BY <1>10 DEF Publish, Expire, Keep, vars
  <2> QED
    BY <1>0, <2>1 DEF WInv, Closed, Withdrawn, ReadClosed, Stamped, WithdrawalIsHonoured, At, Holds, Is
<1> QED
  BY <1>1, <1>2, <1>3, <1>4, <1>5, <1>6, <1>7, <1>8, <1>9, <1>10 DEF Next, Step

\* A withdrawal stored while no other call held the row keeps every later turn
\* from being answered, however many calls come after it.
THEOREM WithdrawalHolds == Spec => []WithdrawalIsHonoured
<1>1. WInv => WithdrawalIsHonoured
  BY DEF WInv
<1> QED
  BY <1>1, InitTyped, NextTyped, InitWInv, NextWInv, PTL DEF Spec
=============================================================================
