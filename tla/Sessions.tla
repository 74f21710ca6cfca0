------------------------------ MODULE Sessions ------------------------------
(***************************************************************************)
(* One widget session: its row, the 30-second copy of it under the token,  *)
(* and the calls that read and write them.  Some calls write columns, and  *)
(* some save the whole row they loaded, which writes back whatever others  *)
(* stored meanwhile.  A customer's turn takes its session from the copy    *)
(* and its consent from the row.                                           *)
(*                                                                         *)
(* One action is the code between two awaits that touch the row, the copy  *)
(* or the notice version.  tag stands for the columns no rule below reads  *)
(* (language and its lock, pinned agent, alias, reply mode).  Left out: a  *)
(* cache that is down, for then there is no copy.                          *)
(***************************************************************************)
EXTENDS Naturals, FiniteSets

CONSTANTS
  Requests,    \* the calls of a behaviour
  Calls,       \* the operations they may be
  Customers, Nobody,
  MaxNotices   \* bound: versions of the privacy notice

Ops == {"grant", "decline", "language", "lookup", "identify", "touch",
        "tag", "link", "contact", "redact", "erase", "turn"}

ASSUME SessionsAssumption ==
  /\ Calls \subseteq Ops
  /\ Nobody \notin Customers
  /\ MaxNotices \in Nat \ {0}

VARIABLES
  row,      \* sessions: the row
  notice,   \* the tenant's effective notice version
  copy,     \* sess:tok:<token> in the cache
  req,      \* the calls
  declined, \* history: how the last withdrawal was stored: "no", "alone" or "raced"
  touched   \* history: a touch wrote an older row back since the copy was dropped

vars == <<row, notice, copy, req, declined, touched>>

Versions == 1..MaxNotices
Unset == 0
Row == [consent : {"pending", "granted", "declined"}, version : Versions \cup {Unset},
        customer : Customers \cup {Nobody}, verified : BOOLEAN, tag : BOOLEAN]
NewRow == [consent |-> "pending", version |-> Unset, customer |-> Nobody,
           verified |-> FALSE, tag |-> FALSE]
NoRow == [NewRow EXCEPT !.version = MaxNotices + 1]
\* late: the row had changed between its load and its storing as the copy.
NoCopy == [row |-> NoRow, late |-> FALSE]

Idle == [op |-> "none", pc |-> "idle", row |-> NoRow, consent |-> NewRow, barred |-> "no"]

\* ensure, createForCustomer, and what a visit before may have left.
StartRows ==
  {started \in Row :
     /\ started.consent # "declined" /\ ~started.tag
     /\ started.version = IF started.consent = "pending" THEN Unset ELSE 1
     /\ started.verified = (started.customer # Nobody)}

Init ==
  /\ row \in StartRows
  /\ notice = 1
  /\ copy \in {NoCopy, [row |-> row, late |-> FALSE]}
  /\ req = [r \in Requests |-> Idle]
  /\ declined = "no"
  /\ touched = FALSE

-----------------------------------------------------------------------------
At(r, pc) == req[r].pc = pc
Holds(r) == req[r].pc \in {"stamp", "save"}
Is(r, op) == req[r].op = op
Move(r, slot) == req' = [req EXCEPT ![r] = slot]
Goto(r, pc) == Move(r, [req[r] EXCEPT !.pc = pc])
\* The last awaits of a call: what it read is of no use any more.
Leave(r, pc) == Move(r, [Idle EXCEPT !.pc = pc, !.barred = req[r].barred])
Keep == UNCHANGED <<declined, touched>>

\* A grant the customer asks for now ends an earlier withdrawal, for every turn under way.
Begin(r, op, pc, held) ==
  LET slot == [Idle EXCEPT !.op = op, !.pc = pc, !.row = held]
      turn == [slot EXCEPT !.barred = declined]
  IN /\ At(r, "idle") /\ op \in Calls
     /\ IF op = "grant"
        THEN /\ req' = [q \in Requests |-> IF q = r THEN slot ELSE [req[q] EXCEPT !.barred = "no"]]
             /\ declined' = "no"
        ELSE /\ Move(r, IF op = "turn" THEN turn ELSE slot)
             /\ UNCHANGED declined
     /\ UNCHANGED <<row, notice, copy, touched>>

\* loadByToken, loadSession: the calls that save the row never start from the copy.
Load(r) ==
  \/ \E op \in {"grant", "decline"} : Begin(r, op, "stamp", row)
  \/ \E op \in {"language", "lookup", "identify"} : Begin(r, op, "save", row)
  \/ row.customer # Nobody /\ row.verified /\ Begin(r, "touch", "save", row)

\* Mutant: the stamp is the version the tenant will publish next.
Stamp_NextVersion(r) ==
  /\ At(r, "stamp")
  /\ Move(r, [req[r] EXCEPT !.pc = "save", !.row.version = notice + 1,
                            !.row.consent = IF Is(r, "grant") THEN "granted" ELSE "declined"])
  /\ UNCHANGED <<row, notice, copy>> /\ Keep

\* setConsent awaits the version in force before it saves.
Stamp(r) ==
  /\ At(r, "stamp")
  /\ Move(r, [req[r] EXCEPT !.pc = "save", !.row.version = notice,
                            !.row.consent = IF Is(r, "grant") THEN "granted" ELSE "declined"])
  /\ UNCHANGED <<row, notice, copy>> /\ Keep

\* What the calls make of the row they loaded.
SetLanguage(loaded) == [loaded EXCEPT !.tag = TRUE]
GuestLookup(loaded, k) == [loaded EXCEPT !.customer = k]
Identify(loaded, k) == [loaded EXCEPT !.customer = k, !.verified = TRUE]
Outcome(r, k) ==
  CASE Is(r, "language") -> SetLanguage(req[r].row)
    [] Is(r, "lookup")   -> GuestLookup(req[r].row, k)
    [] Is(r, "identify") -> Identify(req[r].row, k)
    [] OTHER             -> req[r].row

Others(r) == {q \in Requests \ {r} : Holds(q)}

Save(r) ==
  /\ At(r, "save")
  /\ \E k \in Customers : row' = Outcome(r, k)
  /\ Leave(r, IF Is(r, "touch") THEN "done" ELSE "drop")
  /\ declined' = IF ~Is(r, "decline") THEN declined
                 ELSE IF Others(r) = {} THEN "alone"
                 ELSE IF \E q \in Others(r) : Is(q, "grant") THEN "no" ELSE "raced"
  /\ touched' = (touched \/ (Is(r, "touch") /\ row' # row))
  /\ UNCHANGED <<notice, copy>>

\* Updates of single columns: applyDetectedLanguage, and ensure and the console for the
\* pinned agent, the alias and the reply mode.
UpdateTag(r) ==
  /\ At(r, "idle") /\ "tag" \in Calls
  /\ row' = [row EXCEPT !.tag = ~@]
  /\ Leave(r, "drop")
  /\ UNCHANGED <<notice, copy>> /\ Keep

LinkCustomer(r) ==
  /\ At(r, "idle") /\ "link" \in Calls
  /\ \E k \in Customers : row' = [row EXCEPT !.customer = k]
  /\ Leave(r, "drop")
  /\ UNCHANGED <<notice, copy>> /\ Keep

\* Mutant: a delete that is lost.
Drop_Lost(r) ==
  /\ At(r, "drop")
  /\ Leave(r, "done")
  /\ UNCHANGED <<row, notice, copy>> /\ Keep

\* redis.del after the write.
Drop(r) ==
  /\ At(r, "drop")
  /\ copy' = NoCopy /\ touched' = FALSE
  /\ Leave(r, "done")
  /\ UNCHANGED <<row, notice, declined>>

-----------------------------------------------------------------------------
\* anonymizeCustomer: the sessions of the customer are listed, unbound, and dropped.
Redact(r) ==
  /\ row.customer # Nobody
  /\ Begin(r, "redact", "unbind", row)
\* deleteData: the same, asked by the verified customer of the session, who may be
\* known from the copy; if the row has another customer by now, it is not listed.
Erase(r) ==
  LET seen == IF copy # NoCopy THEN copy.row ELSE row
  IN /\ seen.verified /\ seen.customer # Nobody
     /\ row.customer = seen.customer
     /\ Begin(r, "erase", "unbind", row)

Unbind(r) ==
  /\ At(r, "unbind")
  /\ row' = IF row.customer = req[r].row.customer THEN [row EXCEPT !.customer = Nobody] ELSE row
  /\ Leave(r, "drop")
  /\ UNCHANGED <<notice, copy>> /\ Keep

-----------------------------------------------------------------------------
\* findByToken for a turn or an address: the copy, or the row, which then becomes the copy.
View(r) ==
  \E op \in {"turn", "contact"} :
    \/ copy # NoCopy /\ Begin(r, op, "gate", copy.row)
    \/ copy = NoCopy /\ Begin(r, op, "fill", row)

Fill(r) ==
  /\ At(r, "fill")
  /\ copy' = [row |-> req[r].row, late |-> req[r].row # row]
  /\ Goto(r, "gate")
  /\ UNCHANGED <<row, notice>> /\ Keep

\* Mutant: the gate trusts the session it was given.
ReadConsent_Cached(r) ==
  /\ At(r, "gate")
  /\ Move(r, [req[r] EXCEPT !.pc = "version", !.consent = req[r].row])
  /\ UNCHANGED <<row, notice, copy>> /\ Keep

\* effectiveConsentFor: loadConsentFresh, then the version in force.
ReadConsent(r) ==
  /\ At(r, "gate")
  /\ Move(r, [req[r] EXCEPT !.pc = "version", !.consent = row])
  /\ UNCHANGED <<row, notice, copy>> /\ Keep

Granted(r) == req[r].consent.consent = "granted" /\ req[r].consent.version = notice

Verdict(r) ==
  /\ At(r, "version") /\ (Granted(r) => Is(r, "turn"))
  /\ Leave(r, IF Granted(r) THEN "answered" ELSE "blocked")
  /\ UNCHANGED <<row, notice, copy>> /\ Keep

\* saveContactEmail binds the customer of the address.
SaveContact(r) ==
  /\ At(r, "version") /\ Granted(r) /\ Is(r, "contact")
  /\ \E k \in Customers :
       IF req[r].row.customer = k THEN Leave(r, "done") /\ UNCHANGED row
       ELSE Leave(r, "drop") /\ row' = [row EXCEPT !.customer = k]
  /\ UNCHANGED <<notice, copy>> /\ Keep

-----------------------------------------------------------------------------
\* The tenant publishes another version of its notice.
Publish ==
  /\ notice < MaxNotices
  /\ notice' = notice + 1
  /\ UNCHANGED <<row, copy, req>> /\ Keep

\* Mutant: a copy without a time to live.
Expire_Never == FALSE /\ UNCHANGED vars

\* SESSION_CACHE_TTL_SEC
Expire ==
  /\ copy # NoCopy
  /\ copy' = NoCopy /\ touched' = FALSE
  /\ UNCHANGED <<row, notice, req, declined>>

Step(r) ==
  \/ Load(r) \/ Stamp(r) \/ Save(r) \/ UpdateTag(r) \/ LinkCustomer(r) \/ Drop(r)
  \/ Redact(r) \/ Erase(r) \/ Unbind(r)
  \/ View(r) \/ Fill(r) \/ ReadConsent(r) \/ Verdict(r) \/ SaveContact(r)

Next == (\E r \in Requests : Step(r)) \/ Publish \/ Expire

Spec == Init /\ [][Next]_vars /\ WF_vars(Expire)

-----------------------------------------------------------------------------
TypeOK ==
  /\ row \in Row
  /\ notice \in Versions
  /\ copy \in [row : Row, late : BOOLEAN] \cup {NoCopy}
  /\ req \in [Requests -> [op : Ops \cup {"none"},
                           pc : {"idle", "stamp", "save", "drop", "unbind", "fill", "gate",
                                 "version", "blocked", "answered", "done"},
                           row : Row \cup {NoRow}, consent : Row,
                           barred : {"no", "alone", "raced"}]]
  /\ declined \in {"no", "alone", "raced"}
  /\ touched \in BOOLEAN

(* A copy that differs from the row is one a reader stored after the row   *)
(* had moved on, one whose delete is about to come, or one a touch passed  *)
(* by: every other writer of the row drops the copy.                       *)
StaleCopyHasAReason ==
  copy # NoCopy /\ copy.row # row =>
    copy.late \/ touched \/ \E r \in Requests : At(r, "drop")

(* A withdrawal of consent that was stored while no other call held the    *)
(* row keeps every later turn from being answered, until the customer asks *)
(* to grant again: whatever the copy says and whatever the calls that come *)
(* after it save.                                                          *)
WithdrawalIsHonoured ==
  \A r \in Requests : At(r, "answered") => req[r].barred # "alone"

(* The copy catches up with the row: it is gone, or equal to it, again and *)
(* again.                                                                  *)
CopyCatchesUp == []<>(copy = NoCopy \/ copy.row = row)
=============================================================================
