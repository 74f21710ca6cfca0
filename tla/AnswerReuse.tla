---------------------------- MODULE AnswerReuse ----------------------------
(***************************************************************************)
(* Answers kept for replay: a table row and a vector point per answer, in  *)
(* two stores nothing keeps in step.  A lookup and a new answer both start *)
(* from the nearest ACTIVE point alone, so a point left active over a row  *)
(* that is off or gone hides the question from both.  The console edits    *)
(* and deletes, moderation and age switch off, an erasure deletes what     *)
(* came from a person's messages, a reindex writes every point again.      *)
(*                                                                         *)
(* All answers here are near-duplicates of one question.  Left out: scores *)
(* and scrubbing, the agent scope of a replay, hit counts.                 *)
(***************************************************************************)
EXTENDS Naturals, FiniteSets

CONSTANTS
  Ids,     \* ids of answers, used once
  Calls,   \* calls in flight
  Cap      \* TENANT_CAP

VARIABLES
  rows,    \* answer_reuse
  points,  \* the vector collection: "none", "on" or "off"
  call,    \* the calls
  offed,   \* history: answers switched off, deleted or erased, and not switched on again
  raced,   \* history: those that a console edit held while they were
  loose    \* history: answers whose point may differ from the row

vars == <<rows, points, call, offed, raced, loose>>

Unused == [state |-> "unused", active |-> FALSE, mine |-> FALSE]
Live == {x \in Ids : rows[x].state = "live"}
Replayable == {x \in Live : rows[x].active}
Idle == [op |-> "none", pc |-> "idle", ids |-> {}, on |-> {}, active |-> FALSE, mine |-> FALSE]

Init ==
  /\ rows = [x \in Ids |-> Unused]
  /\ points = [x \in Ids |-> "none"]
  /\ call = [c \in Calls |-> Idle]
  /\ offed = {} /\ raced = {} /\ loose = {}

At(c, op, pc) == call[c].op = op /\ call[c].pc = pc
Move(c, slot) == call' = [call EXCEPT ![c] = slot]
End(c) == Move(c, Idle)
Begin(c, slot) == call[c].pc = "idle" /\ Move(c, slot)
Keep == UNCHANGED <<offed, raced, loose>>
Holding(c, ops) == UNION {call[d].ids : d \in {e \in Calls \ {c} : call[e].op \in ops}}
\* Slow calls write, or delete by, what they read before: two calls meet on an answer when
\* one of them is slow.
Slow == {"store", "edit", "erase", "reindex"}
Met(c, op) == Holding(c, IF op \in Slow THEN Slow \cup {"off", "remove"} ELSE Slow)
Meet(c, xs, op) == loose' = loose \cup (xs \cap Met(c, op))

\* Points are set one by one; a failure is swallowed or leaves the call.
SetPoints(c, xs, value) ==
  \/ points' = [x \in Ids |-> IF x \notin xs THEN points[x]
                               ELSE IF value = "none" \/ points[x] = "none" THEN "none" ELSE value]
     /\ Meet(c, xs, call[c].op)
  \/ UNCHANGED points /\ loose' = loose \cup xs
PutOff(xs, c, op) ==
  /\ offed' = offed \cup xs
  /\ raced' = raced \cup (xs \cap Holding(c, {"edit"}))
  /\ Meet(c, xs, op)

-----------------------------------------------------------------------------
\* store: the nearest active point, then the tenant's number of rows.
StoreSearch(c) ==
  /\ \A x \in Ids : points[x] # "on"
  /\ \E mine \in BOOLEAN : Begin(c, [Idle EXCEPT !.op = "store", !.pc = "count", !.mine = mine])
  /\ UNCHANGED <<rows, points>> /\ Keep

StoreCount(c) ==
  /\ At(c, "store", "count")
  /\ IF Cardinality(Live) >= Cap THEN End(c) ELSE Move(c, [call[c] EXCEPT !.pc = "row"])
  /\ UNCHANGED <<rows, points>> /\ Keep

StoreRow(c) ==
  /\ At(c, "store", "row")
  /\ \E x \in Ids :
       /\ rows[x] = Unused
       /\ rows' = [rows EXCEPT ![x] = [state |-> "live", active |-> TRUE, mine |-> call[c].mine]]
       /\ Move(c, [call[c] EXCEPT !.pc = "point", !.ids = {x}])
       /\ loose' = IF call[c].mine /\ \E d \in Calls : At(d, "erase", "rows") THEN loose \cup {x} ELSE loose
  /\ UNCHANGED <<points, offed, raced>>

\* upsert: writes the point whatever the row is by now.
StorePoint(c) ==
  /\ At(c, "store", "point")
  /\ \/ points' = [x \in Ids |-> IF x \in call[c].ids THEN "on" ELSE points[x]]
        /\ Meet(c, call[c].ids, "store")
     \/ UNCHANGED points /\ loose' = loose \cup call[c].ids
  /\ End(c)
  /\ UNCHANGED <<rows, offed, raced>>

-----------------------------------------------------------------------------
\* update: the row is loaded, its point set when the switch is, the row saved whole; a row
\* deleted meanwhile is inserted again.
EditLoad(c) ==
  /\ \E x \in Live : \E patch \in {"text", "on", "off"} :
       Begin(c, [Idle EXCEPT !.op = "edit", !.ids = {x}, !.mine = rows[x].mine,
                   !.pc = IF patch = "text" THEN "save" ELSE "flag",
                   !.active = IF patch = "text" THEN rows[x].active ELSE patch = "on",
                   !.on = IF patch = "on" THEN {x} ELSE {}])
  /\ UNCHANGED <<rows, points>> /\ Keep

EditFlag(c) ==
  /\ At(c, "edit", "flag")
  /\ SetPoints(c, call[c].ids, IF call[c].active THEN "on" ELSE "off")
  /\ Move(c, [call[c] EXCEPT !.pc = "save"])
  /\ UNCHANGED <<rows, offed, raced>>

EditSave(c) ==
  LET xs == call[c].ids
  IN /\ At(c, "edit", "save")
     /\ rows' = [x \in Ids |-> IF x \notin xs THEN rows[x]
                               ELSE [state |-> "live", active |-> call[c].active, mine |-> call[c].mine]]
     /\ IF call[c].on # {} THEN offed' = offed \ xs /\ raced' = raced \ xs
        ELSE IF call[c].active THEN UNCHANGED <<offed, raced>>
        ELSE offed' = offed \cup xs /\ raced' = raced \cup (xs \cap Holding(c, {"edit"}))
     /\ Meet(c, xs, "edit")
     /\ End(c)
     /\ UNCHANGED points

-----------------------------------------------------------------------------
\* Mutant: the row of a switched-off answer is left to the next save.
SwitchOff_PointOnly(c, xs, targets) ==
  /\ Begin(c, [Idle EXCEPT !.op = "off", !.pc = "points", !.ids = targets])
  /\ UNCHANGED rows

\* The rows in xs go off at once, the points in targets will follow.
SwitchOff(c, xs, targets) ==
  /\ rows' = [x \in Ids |-> IF x \in xs THEN [rows[x] EXCEPT !.active = FALSE] ELSE rows[x]]
  /\ Begin(c, [Idle EXCEPT !.op = "off", !.pc = "points", !.ids = targets])

\* deactivate: moderation blocked a replay, or a lookup found the answer too old.
Deactivate(c) ==
  /\ \E x \in Live : SwitchOff(c, {x}, {x}) /\ PutOff({x}, c, "off")
  /\ UNCHANGED points

DeactivateAll(c) ==
  /\ SwitchOff(c, Replayable, Ids) /\ PutOff(Replayable, c, "off")
  /\ UNCHANGED points

\* deactivateAll sets every point of the tenant there is by now, deactivate its own.
OffPoints(c) ==
  /\ At(c, "off", "points")
  /\ SetPoints(c, call[c].ids, "off")
  /\ End(c)
  /\ UNCHANGED <<rows, offed, raced>>

Delete(xs) == rows' = [x \in Ids |-> IF x \in xs THEN [Unused EXCEPT !.state = "gone"] ELSE rows[x]]

Remove(c) ==
  /\ \E x \in Live :
       /\ Delete({x}) /\ PutOff({x}, c, "remove")
       /\ Begin(c, [Idle EXCEPT !.op = "remove", !.pc = "points", !.ids = {x}])
  /\ UNCHANGED points

\* eraseByMessageIds finds the person's answers, deletes by the messages, then the points
\* of those it had found.
EraseFind(c) ==
  LET found == {x \in Live : rows[x].mine}
  IN /\ found # {}
     /\ Begin(c, [Idle EXCEPT !.op = "erase", !.pc = "rows", !.ids = found])
     /\ UNCHANGED <<rows, points>> /\ Keep

EraseRows(c) ==
  LET xs == {x \in Live : rows[x].mine}
  IN /\ At(c, "erase", "rows")
     /\ Delete(xs) /\ PutOff(xs, c, "erase")
     /\ Move(c, [call[c] EXCEPT !.pc = "points"])
     /\ UNCHANGED points

\* Mutant: the points stay.
DeletePoints_Kept(c) ==
  /\ call[c].op \in {"remove", "erase"} /\ call[c].pc = "points"
  /\ End(c) /\ UNCHANGED <<rows, points>> /\ Keep

DeletePoints(c) ==
  /\ call[c].op \in {"remove", "erase"} /\ call[c].pc = "points"
  /\ SetPoints(c, call[c].ids, "none")
  /\ End(c)
  /\ UNCHANGED <<rows, offed, raced>>

-----------------------------------------------------------------------------
\* reindex: all rows as they were at the start, one upsert after the other.
ReindexLoad(c) ==
  /\ Live # {}
  /\ Begin(c, [Idle EXCEPT !.op = "reindex", !.pc = "points", !.ids = Live, !.on = Replayable])
  /\ UNCHANGED <<rows, points>> /\ Keep

ReindexPoint(c) ==
  /\ At(c, "reindex", "points")
  /\ \E x \in call[c].ids :
       /\ \/ points' = [points EXCEPT ![x] = IF x \in call[c].on THEN "on" ELSE "off"]
          \/ UNCHANGED points
       /\ Meet(c, {x}, "reindex")
       /\ Move(c, IF call[c].ids = {x} THEN Idle ELSE [call[c] EXCEPT !.ids = @ \ {x}])
  /\ UNCHANGED <<rows, offed, raced>>

Next ==
  \E c \in Calls :
    \/ StoreSearch(c) \/ StoreCount(c) \/ StoreRow(c) \/ StorePoint(c)
    \/ EditLoad(c) \/ EditFlag(c) \/ EditSave(c)
    \/ Deactivate(c) \/ DeactivateAll(c) \/ OffPoints(c) \/ Remove(c)
    \/ EraseFind(c) \/ EraseRows(c) \/ DeletePoints(c)
    \/ ReindexLoad(c) \/ ReindexPoint(c)

Spec == Init /\ [][Next]_vars

-----------------------------------------------------------------------------
TypeOK ==
  /\ rows \in [Ids -> [state : {"unused", "live", "gone"}, active : BOOLEAN, mine : BOOLEAN]]
  /\ points \in [Ids -> {"none", "on", "off"}]
  /\ offed \cup raced \cup loose \subseteq Ids
  /\ \A c \in Calls : call[c].ids \cup call[c].on \subseteq Ids

(* An answer that was switched off, deleted or erased is not replayed by   *)
(* any later lookup until the console switches it on: only a console edit  *)
(* that had loaded the row before can bring it back.                       *)
OffStaysOff == Replayable \cap offed \subseteq raced

(* With no call under way the two stores agree on what is replayed, so no  *)
(* point hides its question from lookups and new answers for ever, but for *)
(* a failed write of a point and for a call that wrote late what it had    *)
(* read before.                                                            *)
NothingHidesTheQuestion ==
  (\A c \in Calls : call[c].pc = "idle") =>
    \A x \in Ids \ loose : x \in Replayable <=> points[x] = "on"
=============================================================================
