------------------------------ MODULE Erasure ------------------------------
(***************************************************************************)
(* The right to erasure of one shopper of one tenant.  An erasure first    *)
(* remembers the identifiers on a suppression list, then unlinks orders    *)
(* and sessions, and scrubs the customer row last; it may die anywhere and *)
(* be asked again.  The paths that create or complete a customer row (the  *)
(* order sync, the storefront sign-in and its profile backfill, a lead, a  *)
(* signed identify) run meanwhile, each over rows it read before.          *)
(*                                                                         *)
(* A row is the identifiers it carries; name, phone and tier go with them. *)
(* Left out: what an erasure redacts or deletes outright (messages,        *)
(* notices, preferences, files), which no other step here reads.           *)
(***************************************************************************)
EXTENDS Naturals, FiniteSets

CONSTANTS
  Rows,        \* ids of customer rows
  Orders,      \* cached orders of the shopper
  None,        \* no row
  Requests,    \* handlers in flight at once
  MaxRestarts  \* bound: restarts of the process

ASSUME ErasureAssumption == None \notin Rows /\ "session" \notin Orders /\ MaxRestarts \in Nat

VARIABLES
  cust,     \* customers, by row
  list,     \* erased_identities: the identifiers of each record
  link,     \* orders_cache.customer_id
  bound,    \* sessions.customer_id of the shopper's session
  req,      \* the handlers
  redact,   \* a redact webhook Shopify still has to see answered
  raced,    \* history: orders linked, and the session bound, to a row under erasure or scrubbed
  restarts

vars == <<cust, list, link, bound, req, redact, raced, restarts>>

\* Blind index of the address, the Shopify id, and the id of the shop's own system.
Ids == {"email", "sid", "ext"}
Erasable == {"email", "sid"}
Missing == [used |-> FALSE, ids |-> {}]
Remembered == UNION list
Row(x) == cust[x].ids
Used == {x \in Rows : cust[x].used}
Having(id) == {x \in Used : id \in Row(x)}

Idle == [op |-> "none", pc |-> "idle", ids |-> {}, row |-> None, held |-> {},
         order |-> None, before |-> None, erased |-> FALSE, sessions |-> FALSE, knew |-> {}]

Init ==
  /\ cust = [x \in Rows |-> Missing]
  /\ list = {}
  /\ link = [o \in Orders |-> None]
  /\ bound = None
  /\ req = [r \in Requests |-> Idle]
  /\ redact = FALSE
  /\ raced = {}
  /\ restarts = 0

At(r, pc) == req[r].pc = pc
Is(r, op) == req[r].op = op
Move(r, slot) == req' = [req EXCEPT ![r] = slot]
Goto(r, pc) == Move(r, [req[r] EXCEPT !.pc = pc])
End(r) == Move(r, Idle)
Tables == <<cust, list, link, bound>>
Rest == <<redact, raced, restarts>>

\* Rows an erasure works on now, and rows one has emptied.
Erasing == {req[r].row : r \in {q \in Requests : req[q].pc \in {"orders", "sessions", "scrub"}}}
Scrubbed == {x \in Used : Row(x) \cap Erasable = {}}
Mark(thing, x) ==
  raced' = IF x \in Erasing \cup Scrubbed THEN raced \cup {thing} ELSE raced \ {thing}

-----------------------------------------------------------------------------
\* upsertOrder: a page prefetches the cached row, a webhook reads it when it saves.
StartSync(r, o) ==
  /\ At(r, "idle")
  /\ \E ids \in {{}, {"email"}, Erasable} : \E read \in {None, o} :
       Move(r, [Idle EXCEPT !.op = "sync", !.ids = ids, !.order = o,
                            !.pc = IF ids = {} THEN "order" ELSE "check",
                            !.before = IF read = o THEN link[o] ELSE o])
  /\ UNCHANGED Tables /\ UNCHANGED Rest

\* identity of the app proxy: a shopper signed in to the storefront.
StartLogin(r) ==
  /\ At(r, "idle")
  /\ Move(r, [Idle EXCEPT !.op = "login", !.pc = "check", !.ids = {"sid"}])
  /\ UNCHANGED Tables /\ UNCHANGED Rest

\* An address captured in the chat, by the console or by the widget.
StartLead(r) ==
  /\ At(r, "idle")
  /\ Move(r, [Idle EXCEPT !.op = "lead", !.pc = "check", !.ids = {"email"}])
  /\ UNCHANGED Tables /\ UNCHANGED Rest

\* identify of the SDK: upsertCustomer looks the row up at once.
StartIdentify(r) ==
  /\ At(r, "idle")
  /\ Move(r, [Idle EXCEPT !.op = "identify", !.pc = "find", !.ids = {"ext", "email"},
                          !.knew = Remembered])
  /\ UNCHANGED Tables /\ UNCHANGED Rest

\* Mutant: a record must match both identifiers.
IsSuppressed_All(ids) == \E rec \in list : ids # {} /\ ids \subseteq rec
\* isSuppressed: one identifier in common is enough.
IsSuppressed(ids) == \E rec \in list : rec \cap ids # {}

\* findOrCreateByEmail, findOrCreateByShopifyId, createFromLead, backfillProfileByShopifyId
Check(r) ==
  /\ At(r, "check")
  /\ IF ~IsSuppressed(req[r].ids) THEN Move(r, [req[r] EXCEPT !.pc = "find", !.knew = Remembered])
     ELSE IF Is(r, "sync") THEN Move(r, [req[r] EXCEPT !.pc = "order", !.ids = {}, !.erased = TRUE])
     ELSE End(r)
  /\ UNCHANGED Tables /\ UNCHANGED Rest

\* The row by its address first, else by the id the caller has.
Candidates(ids) ==
  IF "ext" \in ids THEN Having("ext")
  ELSE IF "email" \in ids /\ Having("email") # {} THEN Having("email")
  ELSE IF "sid" \in ids THEN Having("sid") ELSE {}

\* backfillProfileByShopifyId leaves an address another row owns to it.
Brought(r) == IF Is(r, "profile") /\ Having("email") # {} THEN {"sid"} ELSE req[r].ids

Find(r) ==
  /\ At(r, "find")
  /\ LET rows == Candidates(IF Is(r, "profile") THEN {"sid"} ELSE req[r].ids)
     IN \/ \E x \in rows :
             Move(r, [req[r] EXCEPT !.pc = "write", !.row = x, !.held = Row(x), !.ids = Brought(r)])
        \/ rows = {} /\ IF Is(r, "profile") THEN End(r) ELSE Goto(r, "write")
  /\ UNCHANGED Tables /\ UNCHANGED Rest

\* Unique keys on the Shopify id and on the id of the shop's own system.
Taken(x, ids) == \E y \in Used \ {x} : \E id \in {"sid", "ext"} : id \in ids \cap Row(y)

Proceed(r, x) ==
  LET on == [req[r] EXCEPT !.row = x, !.ids = {}, !.held = {}, !.knew = {}]
  IN Move(r, IF Is(r, "sync") THEN [on EXCEPT !.pc = "order"]
             ELSE IF Is(r, "profile") THEN Idle
             ELSE [on EXCEPT !.pc = "bind"])

\* A row that changes (an identifier, or the name that comes with it) is saved whole,
\* with what it held when it was found.
SaveFound(r) ==
  LET x == req[r].row  ids == req[r].held \cup req[r].ids
  IN /\ At(r, "write") /\ x # None
     /\ \/ ~Taken(x, ids) /\ cust' = [cust EXCEPT ![x].ids = ids] /\ Proceed(r, x)
        \/ Taken(x, ids) /\ End(r) /\ UNCHANGED cust
     /\ UNCHANGED <<list, link, bound>> /\ UNCHANGED Rest

\* Nothing new: the row is not saved.
KeepFound(r) ==
  /\ At(r, "write") /\ req[r].row # None /\ ~Is(r, "identify")
  /\ req[r].ids \subseteq req[r].held
  /\ Proceed(r, req[r].row)
  /\ UNCHANGED Tables /\ UNCHANGED Rest

Create(r) ==
  /\ At(r, "write") /\ req[r].row = None
  /\ \/ /\ ~Taken(None, req[r].ids)
        /\ \E x \in Rows \ Used :
             cust' = [cust EXCEPT ![x] = [used |-> TRUE, ids |-> req[r].ids]] /\ Proceed(r, x)
     \/ Taken(None, req[r].ids) /\ End(r) /\ UNCHANGED cust
  /\ UNCHANGED <<list, link, bound>> /\ UNCHANGED Rest

Linked(r, known) ==
  IF req[r].erased THEN None ELSE IF req[r].row # None THEN req[r].row ELSE known

SaveOrder(r) ==
  LET o == req[r].order
      known == IF req[r].before = o THEN link[o] ELSE req[r].before
  IN /\ At(r, "order")
     /\ link' = [link EXCEPT ![o] = Linked(r, known)]
     /\ Mark(o, IF req[r].erased THEN None ELSE link'[o])
     /\ End(r)
     /\ UNCHANGED <<cust, list, bound, redact, restarts>>

\* The session is bound; a sign-in then reads the profile, unawaited.
Bind(r) ==
  /\ At(r, "bind")
  /\ bound' = req[r].row
  /\ Mark("session", req[r].row)
  /\ \/ Is(r, "login") /\ "email" \notin Row(req[r].row)
        /\ Move(r, [Idle EXCEPT !.op = "profile", !.pc = "check", !.ids = Erasable])
     \/ End(r)
  /\ UNCHANGED <<cust, list, link, redact, restarts>>

-----------------------------------------------------------------------------
\* Shopify asks, and asks again until it is answered.
AskRedact ==
  /\ ~redact /\ redact' = TRUE
  /\ UNCHANGED Tables /\ UNCHANGED <<req, raced, restarts>>

\* handleCustomerRedact: findCustomer, by the Shopify id first.
StartRedact(r) ==
  LET rows == IF Having("sid") # {} THEN Having("sid") ELSE Having("email")
  IN /\ At(r, "idle") /\ redact
     /\ \/ \E x \in rows : /\ Move(r, [Idle EXCEPT !.op = "redact", !.pc = "record", !.row = x, !.held = Row(x)])
                           /\ UNCHANGED redact
        \/ rows = {} /\ redact' = FALSE /\ UNCHANGED req
     /\ UNCHANGED Tables /\ UNCHANGED <<raced, restarts>>

\* deleteData of the verified customer of the session.
StartErase(r) ==
  /\ At(r, "idle") /\ bound # None
  /\ Move(r, [Idle EXCEPT !.op = "erase", !.pc = "record", !.row = bound, !.held = Row(bound)])
  /\ UNCHANGED Tables /\ UNCHANGED Rest

\* Mutant: the record is written with what is left after the scrub.
Record_Late(r) ==
  /\ At(r, "record")
  /\ Goto(r, "orders")
  /\ UNCHANGED Tables /\ UNCHANGED Rest

\* Mutant: the id of the shop's own system is kept on the list too.
Record_All(r) ==
  LET ids == req[r].held
  IN /\ At(r, "record")
     /\ list' = IF ids = {} \/ IsSuppressed(ids) THEN list ELSE list \cup {ids}
     /\ Move(r, [req[r] EXCEPT !.pc = "orders", !.sessions = (bound = req[r].row)])
     /\ UNCHANGED <<cust, link, bound>> /\ UNCHANGED Rest

\* record: nothing to key on, or a record with one identifier in common, adds none.
Record(r) ==
  LET ids == req[r].held \cap Erasable
  IN /\ At(r, "record")
     /\ list' = IF ids = {} \/ IsSuppressed(ids) THEN list ELSE list \cup {ids}
     /\ Move(r, [req[r] EXCEPT !.pc = "orders", !.sessions = (bound = req[r].row)])
     /\ UNCHANGED <<cust, link, bound>> /\ UNCHANGED Rest

\* Mutant: the row is scrubbed before everything that points to it has been let go.
UnlinkOrders_ScrubsFirst(r) ==
  /\ At(r, "orders")
  /\ link' = [o \in Orders |-> IF link[o] = req[r].row THEN None ELSE link[o]]
  /\ raced' = {t \in raced : t \notin Orders \/ link[t] # req[r].row}
  /\ cust' = [cust EXCEPT ![req[r].row].ids = req[r].held \ Erasable]
  /\ Goto(r, "sessions")
  /\ UNCHANGED <<list, bound, redact, restarts>>

UnlinkOrders(r) ==
  /\ At(r, "orders")
  /\ link' = [o \in Orders |-> IF link[o] = req[r].row THEN None ELSE link[o]]
  /\ raced' = {t \in raced : t \notin Orders \/ link[t] # req[r].row}
  /\ Goto(r, "sessions")
  /\ UNCHANGED <<cust, list, bound, redact, restarts>>

\* Only when the customer had sessions when they were listed.
UnbindSessions(r) ==
  /\ At(r, "sessions")
  /\ bound' = IF req[r].sessions /\ bound = req[r].row THEN None ELSE bound
  /\ Goto(r, "scrub")
  /\ UNCHANGED <<cust, list, link>> /\ UNCHANGED Rest

Scrub(r) ==
  /\ At(r, "scrub")
  /\ cust' = [cust EXCEPT ![req[r].row].ids = req[r].held \ Erasable]
  /\ redact' = (redact /\ ~Is(r, "redact"))
  /\ End(r)
  /\ UNCHANGED <<list, link, bound, raced, restarts>>

Restart ==
  /\ restarts < MaxRestarts
  /\ restarts' = restarts + 1
  /\ req' = [r \in Requests |-> Idle]
  /\ UNCHANGED Tables /\ UNCHANGED <<redact, raced>>

Next ==
  \/ \E r \in Requests :
       \/ \E o \in Orders : StartSync(r, o)
       \/ StartLogin(r) \/ StartLead(r) \/ StartIdentify(r)
       \/ Check(r) \/ Find(r) \/ SaveFound(r) \/ KeepFound(r) \/ Create(r)
       \/ SaveOrder(r) \/ Bind(r)
       \/ StartRedact(r) \/ StartErase(r)
       \/ Record(r) \/ UnlinkOrders(r) \/ UnbindSessions(r) \/ Scrub(r)
  \/ AskRedact \/ Restart

Spec == Init /\ [][Next]_vars

-----------------------------------------------------------------------------
TypeOK ==
  /\ cust \in [Rows -> [used : BOOLEAN, ids : SUBSET Ids]]
  /\ list \subseteq SUBSET Erasable
  /\ link \in [Orders -> Rows \cup {None}]
  /\ bound \in Rows \cup {None}
  /\ redact \in BOOLEAN
  /\ raced \subseteq Orders \cup {"session"}
  /\ restarts \in 0..MaxRestarts

(* Whatever an erasure destroys, it has remembered the shopper by one of   *)
(* the identifiers it read: after a death anywhere, none can come back as  *)
(* a stranger.                                                             *)
RememberedBeforeScrubbed ==
  \A r \in Requests :
    LET ids == req[r].held \cap Erasable
    IN req[r].pc \in {"sessions", "scrub"} /\ ids # {} => IsSuppressed(ids)

\* The write of identifier i by r was decided before i was remembered, or restores a row
\* r had read before the scrub.
Outrun(r, i) == i \in req[r].held \/ i \notin req[r].knew
Writes(r) == At(r, "write") /\ req'[r] # req[r]

(* No path of the shop platform writes an identifier back that was on the  *)
(* list when it asked: sync, sign-in, backfill and lead can only outrun an *)
(* erasure, never undo one.                                                *)
OnlyRacesRevive ==
  [][\A x \in Rows : \A i \in (cust'[x].ids \ Row(x)) \cap Remembered :
       \E r \in Requests : Writes(r) /\ (Outrun(r, i) \/ Is(r, "identify"))]_vars

(* Once a row is scrubbed and its erasure is over, no order and no session *)
(* points to it, over any deaths and repetitions, but for what was written *)
(* by a call that had found the row before.                                *)
NothingLeftBehind ==
  \A x \in Scrubbed \ Erasing :
    /\ \A o \in Orders : link[o] = x => o \in raced
    /\ bound = x => "session" \in raced
=============================================================================
