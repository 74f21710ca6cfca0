----------------------------- MODULE OrderSync -----------------------------
(***************************************************************************)
(* The cache of Shopify orders.  A sync run asks the shop for the orders   *)
(* updated since the last stamp, less an overlap, writes them and stamps   *)
(* again; webhooks bring single orders at any time; a login pulls the      *)
(* orders of one customer.  All shops share one stamp, and a run stamps    *)
(* whether or not it got what it asked for.                                *)
(*                                                                         *)
(* The version of an order is the time of its last update.  The pages of a *)
(* run are one answer here, and a run that was cut short, failed or        *)
(* skipped a row brings a part of it.  Left out: customers (see Erasure),  *)
(* line items, journey events.                                             *)
(***************************************************************************)
EXTENDS Naturals

CONSTANTS
  Shops,
  Orders,    \* <<shop, number>>
  Runners,   \* the timer, console users and logins: what can pull at once
  Lookback,  \* CURSOR_LOOKBACK_MS
  MaxTime    \* bound: the clock stops here

VARIABLES
  now,
  updated,    \* the shop: when an order was last updated, 0 for not placed
  cached,     \* orders_cache: the version held, 0 for none
  hooks,      \* webhooks sent
  lastSyncAt, \* integration_status of the name 'shopify', 0 for no row
  run,        \* what each runner is doing
  clean,      \* history: shops for which every stamp came from their own full, timely runs
  overtaken   \* history: orders over whose newer version a late writer put an older one

vars == <<now, updated, cached, hooks, lastSyncAt, run, clean, overtaken>>

Times == 0 .. MaxTime
OrdersOf(s) == {o \in Orders : o[1] = s}
Idle == [kind |-> "none", pc |-> "idle", shop |-> "none", since |-> 0, began |-> 0,
         page |-> << >>, full |-> FALSE]

Init ==
  /\ now = 1
  /\ updated = [o \in Orders |-> 0]
  /\ cached = [o \in Orders |-> 0]
  /\ hooks = {}
  /\ lastSyncAt = 0
  /\ run = [r \in Runners |-> Idle]
  /\ clean = Shops /\ overtaken = {}

Step(r, slot) == run' = [run EXCEPT ![r] = slot]
\* A write of the versions in page; late holds those it put over newer ones.
Write(page, late) ==
  /\ cached' = [o \in Orders |-> IF o \in DOMAIN page THEN page[o] ELSE cached[o]]
  /\ overtaken' = {o \in overtaken \cup late : cached'[o] < updated[o]}
Older(page) == {o \in DOMAIN page : page[o] < cached[o]}

-----------------------------------------------------------------------------
Tick ==
  /\ now < MaxTime
  /\ now' = now + 1
  /\ UNCHANGED <<updated, cached, hooks, lastSyncAt, run, clean, overtaken>>

\* The shop places or updates an order and sends the webhook.
Change(o) ==
  /\ updated[o] < now
  /\ updated' = [updated EXCEPT ![o] = now]
  /\ hooks' = hooks \cup {[order |-> o, version |-> now]}
  /\ UNCHANGED <<now, cached, lastSyncAt, run, clean, overtaken>>

\* handleOrderUpsert: the payload is written whatever the row holds.  A webhook comes at any
\* time, again, or never.
Deliver(h) ==
  LET page == [o \in {h.order} |-> h.version]
  IN /\ Write(page, Older(page))
     /\ UNCHANGED <<now, updated, hooks, lastSyncAt, run, clean>>

-----------------------------------------------------------------------------
\* Mutant: the stamp itself is the cursor.
Since_NoOverlap == lastSyncAt

Since == IF lastSyncAt > Lookback THEN lastSyncAt - Lookback ELSE 0

\* syncOrders reads the stamp first.
Begin(r, s) ==
  /\ run[r].pc = "idle"
  /\ Step(r, [Idle EXCEPT !.kind = "sync", !.pc = "fetch", !.shop = s,
                          !.since = Since, !.began = now])
  /\ UNCHANGED <<now, updated, cached, hooks, lastSyncAt, clean, overtaken>>

\* syncOrdersForCustomer has no cursor: it wants a part of the orders whatever their age.
BeginLogin(r, s) ==
  /\ run[r].pc = "idle"
  /\ Step(r, [Idle EXCEPT !.kind = "login", !.pc = "fetch", !.shop = s])
  /\ UNCHANGED <<now, updated, cached, hooks, lastSyncAt, clean, overtaken>>

\* A store without a token, an error and a cut at MAX_PAGES all bring less than what is due.
Fetch(r) ==
  LET due == {o \in OrdersOf(run[r].shop) : updated[o] > 0 /\ updated[o] >= run[r].since}
  IN /\ run[r].pc = "fetch"
     /\ \E got \in SUBSET due :
          Step(r, [run[r] EXCEPT !.pc = "upsert", !.since = 0, !.page = [o \in got |-> updated[o]],
                                 !.full = (got = due)])
     /\ UNCHANGED <<now, updated, cached, hooks, lastSyncAt, clean, overtaken>>

\* upsertPage
Upsert(r) ==
  LET beside == \E q \in Runners \ {r} : run[q].shop = run[r].shop
      slow == run[r].kind = "login" \/ now - run[r].began > Lookback
  IN /\ run[r].pc = "upsert"
     /\ Write(run[r].page, IF beside \/ slow THEN Older(run[r].page) ELSE {})
     /\ Step(r, IF run[r].kind = "login" THEN Idle ELSE [run[r] EXCEPT !.pc = "record", !.page = << >>])
     /\ UNCHANGED <<now, updated, hooks, lastSyncAt, clean>>

\* record: every outcome stamps the one row.
Record(r) ==
  /\ run[r].pc = "record"
  /\ lastSyncAt' = now
  /\ clean' = IF run[r].full /\ now - run[r].began <= Lookback
              THEN clean \cap {run[r].shop} ELSE {}
  /\ Step(r, Idle)
  /\ UNCHANGED <<now, updated, cached, hooks, overtaken>>

Next ==
  \/ Tick
  \/ \E o \in Orders : Change(o)
  \/ \E h \in hooks : Deliver(h)
  \/ \E r \in Runners :
       \/ \E s \in Shops : Begin(r, s) \/ BeginLogin(r, s)
       \/ Fetch(r) \/ Upsert(r) \/ Record(r)

Spec == Init /\ [][Next]_vars

-----------------------------------------------------------------------------
TypeOK ==
  /\ now \in Times /\ lastSyncAt \in Times
  /\ updated \in [Orders -> Times] /\ cached \in [Orders -> Times]
  /\ hooks \subseteq [order : Orders, version : Times]
  /\ clean \subseteq Shops /\ overtaken \subseteq Orders
  /\ \A r \in Runners : run[r].pc \in {"idle", "fetch", "upsert", "record"}

(* Whatever webhooks are lost, late or repeated, the next run of a shop    *)
(* asks again for every order the cache is behind on: the overlap makes up *)
(* for updates that arrive, and pages that grow old, while a run is on.    *)
(* It fails to only after another shop, a run that got a part of its       *)
(* orders or one longer than the overlap has moved the shared stamp, or    *)
(* for an order that a late webhook, a login or a second run of the shop   *)
(* has put back.                                                           *)
CursorSkipsNothing ==
  \A o \in Orders :
    cached[o] < updated[o] /\ o[1] \in clean /\ o \notin overtaken => updated[o] >= Since
=============================================================================
