-------------------------- MODULE BackOffice_proofs --------------------------
(* The back-office components, for every number of calls, answers, orders,  *)
(* tokens, drafts and changes: one inductive invariant for each of them,    *)
(* which the other components cannot disturb, and what it says.             *)
EXTENDS BackOffice, FiniteSetTheorems, TLAPS

-----------------------------------------------------------------------------
(* Cafe24Token: the grant a caller holds is the one the mall takes, or the  *)
(* next one is on its way to the row.                                       *)
TokenSlot == [pc : {"idle", "decide", "wait", "ask", "save"},
         token : 0 .. MaxTokens, next : 0 .. MaxTokens]

LEMMA IdleIsTokenSlot == Token!Idle \in TokenSlot
  BY BoundsAssumption DEF Token!Idle, TokenSlot

LEMMA InitTokenType == Token!Init => Token!TypeOK
<1> SUFFICES ASSUME Token!Init PROVE Token!TypeOK
  OBVIOUS
<1> USE BoundsAssumption
<1>1. caller \in [Callers -> TokenSlot]
  BY IdleIsTokenSlot DEF Token!Init
<1>2. handed \in 0 .. MaxTokens /\ stored \in 0 .. MaxTokens /\ install \in 0 .. MaxTokens
  BY DEF Token!Init
<1>3. /\ cachedToken \in BOOLEAN /\ inFlight \in BOOLEAN
      /\ mishap \in BOOLEAN /\ refused \in BOOLEAN /\ accepted \subseteq Token!Tokens
  BY Zenon DEF Token!Init
<1> QED
  BY <1>1, <1>2, <1>3 DEF Token!TypeOK, TokenSlot

LEMMA EndRefreshType ==
  ASSUME Token!TypeOK, NEW c \in Callers, Token!EndRefresh(c)
  PROVE  inFlight' \in BOOLEAN /\ caller' \in [Callers -> TokenSlot]
  BY BoundsAssumption, IdleIsTokenSlot DEF Token!TypeOK, Token!EndRefresh, TokenSlot

LEMMA NextTokenType == Token!TypeOK /\ (Token!Next \/ UNCHANGED tokenVars) => Token!TypeOK'
<1> SUFFICES ASSUME Token!TypeOK, (Token!Next \/ UNCHANGED tokenVars) PROVE Token!TypeOK'
  OBVIOUS
<1> USE BoundsAssumption
<1>0. 0 \in 0 .. MaxTokens
  OBVIOUS
<1>1. ASSUME NEW c \in Callers, Token!ReadRow(c) PROVE Token!TypeOK'
  BY <1>0, <1>1 DEF Token!ReadRow, Token!TypeOK, Token!Step, Token!Idle
<1>2. ASSUME NEW c \in Callers, Token!UseCached(c) PROVE Token!TypeOK'
  BY <1>0, <1>2 DEF Token!UseCached, Token!TypeOK, Token!Step, Token!Idle
<1>3. ASSUME NEW c \in Callers, Token!Join(c) PROVE Token!TypeOK'
  BY <1>0, <1>3 DEF Token!Join, Token!TypeOK, Token!Step, Token!Idle
<1>4. ASSUME NEW c \in Callers, Token!StartRefresh(c) PROVE Token!TypeOK'
  BY <1>4 DEF Token!StartRefresh, Token!TypeOK, Token!Step
<1>5. ASSUME NEW c \in Callers, Token!Rotate(c) PROVE Token!TypeOK'
  <2>1. handed + 1 \in Token!Tokens /\ handed' = handed + 1 /\ accepted' \subseteq Token!Tokens
    BY <1>5 DEF Token!Rotate, Token!Hand, Token!TypeOK
  <2>2. CASE Token!EndRefresh(c) /\ mishap' = TRUE
    BY <1>5, <2>1, <2>2, EndRefreshType DEF Token!Rotate, Token!TypeOK, Token!Tokens, TokenSlot
  <2>3. CASE Token!Step(c, [caller[c] EXCEPT !.pc = "save", !.next = handed + 1])
             /\ UNCHANGED <<inFlight, mishap>>
    <3>1. [caller[c] EXCEPT !.pc = "save", !.next = handed + 1] \in TokenSlot
      <4>1. caller[c] \in TokenSlot
        BY DEF Token!TypeOK, TokenSlot
      <4>2. handed + 1 \in 0 .. MaxTokens
        BY <2>1 DEF Token!Tokens
      <4> QED
        BY <4>1, <4>2 DEF TokenSlot
    <3> QED
      BY <1>5, <2>1, <2>3, <3>1 DEF Token!Rotate, Token!TypeOK, Token!Tokens, Token!Step, TokenSlot
  <2> QED
    BY <1>5, <2>2, <2>3 DEF Token!Rotate
<1>6. ASSUME NEW c \in Callers, Token!Refuse(c) PROVE Token!TypeOK'
  BY <1>6, EndRefreshType DEF Token!Refuse, Token!TypeOK, TokenSlot
<1>7. ASSUME NEW c \in Callers, Token!Unreachable(c) PROVE Token!TypeOK'
  BY <1>7, EndRefreshType DEF Token!Unreachable, Token!TypeOK, TokenSlot
<1>8. ASSUME NEW c \in Callers, Token!Save(c) PROVE Token!TypeOK'
  BY <1>8, EndRefreshType DEF Token!Save, Token!TypeOK, TokenSlot
<1>9. CASE Token!Expire
  BY <1>9 DEF Token!Expire, Token!TypeOK
<1>10. CASE Token!Exchange
  BY <1>10 DEF Token!Exchange, Token!Hand, Token!TypeOK, Token!Tokens
<1>11. CASE Token!Connect
  BY <1>0, <1>11 DEF Token!Connect, Token!TypeOK
<1>12. CASE Token!Restart
  BY <1>0, <1>12 DEF Token!Restart, Token!TypeOK, Token!Idle
<1>13. CASE UNCHANGED tokenVars
  BY <1>13 DEF tokenVars, Token!TypeOK
<1> QED
  BY <1>1, <1>2, <1>3, <1>4, <1>5, <1>6, <1>7, <1>8, <1>9, <1>10, <1>11, <1>12, <1>13
  DEF Token!Next

Refreshing(c) == caller[c].pc \in {"ask", "save"}

\* The flag is up while a refresh is under way, and there is one at a time.
SingleFlight ==
  /\ \A c \in Callers : Refreshing(c) => inFlight
  /\ \A c, d \in Callers : Refreshing(c) /\ Refreshing(d) => c = d

\* A grant that waits to be stored is good, and nobody else knows its token.
GrantIsFresh ==
  install # 0 =>
    /\ install \in accepted /\ install # stored
    /\ \A c \in Callers : caller[c].token # install /\ caller[c].next # install

\* Nobody knows a token the mall has not handed out.
TokensAreKnown ==
  /\ stored <= handed /\ install <= handed
  /\ \A c \in Callers : caller[c].token <= handed /\ caller[c].next <= handed

\* A caller that will use the token it read has the stored one: a decision on an
\* older one finds the access token of the refresh in between.
RowIsCurrent ==
  ~mishap => \A c \in Callers :
    /\ caller[c].pc = "decide" => cachedToken \/ caller[c].token = stored
    /\ caller[c].pc = "ask" => caller[c].token = stored
    /\ caller[c].pc \in {"decide", "ask"} => caller[c].token # 0

\* A successor on its way to the row is one the mall takes.
SuccessorWorks ==
  ~mishap /\ install = 0 =>
    \A c \in Callers : caller[c].pc = "save" => caller[c].next \in accepted

TokenInv == Token!TypeOK /\ SingleFlight /\ GrantIsFresh /\ TokensAreKnown /\ RowIsCurrent
        /\ SuccessorWorks /\ Token!StoredTokenWorks

LEMMA InitToken == Token!Init => TokenInv
<1> SUFFICES ASSUME Token!Init PROVE TokenInv
  OBVIOUS
<1> USE BoundsAssumption
<1>1. \A c \in Callers : caller[c].pc = "idle" /\ caller[c].token = 0 /\ caller[c].next = 0
  BY DEF Token!Init, Token!Idle
<1>2. handed = 0 /\ stored = 0 /\ install = 0 /\ ~refused
  BY DEF Token!Init
<1>3. SingleFlight /\ GrantIsFresh /\ TokensAreKnown
  BY <1>1, <1>2 DEF SingleFlight, Refreshing, GrantIsFresh, TokensAreKnown
<1>4. RowIsCurrent /\ SuccessorWorks /\ Token!StoredTokenWorks
  BY <1>1, <1>2 DEF RowIsCurrent, SuccessorWorks, Token!StoredTokenWorks
<1> QED
  BY <1>3, <1>4, InitTokenType DEF TokenInv

LEMMA EndRefreshSlots ==
  ASSUME Token!TypeOK, NEW c \in Callers, Token!EndRefresh(c), NEW d \in Callers
  PROVE  /\ caller'[d] \in {Token!Idle, caller[d]}
         /\ caller'[c] = Token!Idle
  BY DEF Token!EndRefresh, Token!TypeOK

LEMMA NextToken == TokenInv /\ (Token!Next \/ UNCHANGED tokenVars) => TokenInv'
<1> SUFFICES ASSUME TokenInv, (Token!Next \/ UNCHANGED tokenVars) PROVE TokenInv'
  OBVIOUS
<1> USE BoundsAssumption
<1> USE DEF Token!Idle
<1> DEFINE Rest == /\ SingleFlight /\ GrantIsFresh /\ TokensAreKnown /\ RowIsCurrent
                   /\ SuccessorWorks /\ Token!StoredTokenWorks
<1>0. Token!TypeOK /\ Rest /\ Token!TypeOK'
  BY NextTokenType DEF TokenInv
<1> SUFFICES Rest'
  BY <1>0 DEF TokenInv
<1>1. ASSUME NEW c \in Callers, Token!ReadRow(c) PROVE Rest'
  BY <1>0, <1>1 DEF Token!ReadRow, Token!Step, Token!TypeOK, SingleFlight, Refreshing, GrantIsFresh,
     TokensAreKnown, RowIsCurrent, SuccessorWorks, Token!StoredTokenWorks
<1>2. ASSUME NEW c \in Callers, Token!UseCached(c) PROVE Rest'
  BY <1>0, <1>2 DEF Token!UseCached, Token!Step, Token!TypeOK, SingleFlight, Refreshing, GrantIsFresh,
     TokensAreKnown, RowIsCurrent, SuccessorWorks, Token!StoredTokenWorks
<1>3. ASSUME NEW c \in Callers, Token!Join(c) PROVE Rest'
  BY <1>0, <1>3 DEF Token!Join, Token!Step, Token!TypeOK, SingleFlight, Refreshing, GrantIsFresh,
     TokensAreKnown, RowIsCurrent, SuccessorWorks, Token!StoredTokenWorks
<1>4. ASSUME NEW c \in Callers, Token!StartRefresh(c) PROVE Rest'
  BY <1>0, <1>4 DEF Token!StartRefresh, Token!MayRefresh, Token!Step, Token!TypeOK, SingleFlight, Refreshing, GrantIsFresh,
     TokensAreKnown, RowIsCurrent, SuccessorWorks, Token!StoredTokenWorks
<1>5. ASSUME NEW c \in Callers, Token!Rotate(c) PROVE Rest'
  <2>1. /\ handed' = handed + 1 /\ handed \in Nat /\ Refreshing(c)
        /\ accepted' = (accepted \ {caller[c].token}) \cup {handed + 1}
        /\ UNCHANGED <<stored, cachedToken, install, refused>>
    BY <1>0, <1>5 DEF Token!Rotate, Token!Hand, Token!TypeOK, Refreshing
  <2>2. CASE Token!EndRefresh(c) /\ mishap' = TRUE
    <3>1. \A d \in Callers : caller'[d] \in {Token!Idle, caller[d]} /\ caller'[c] = Token!Idle
      BY <1>0, <2>2, EndRefreshSlots
    <3>2. SingleFlight' 
      BY <1>0, <2>1, <3>1 DEF SingleFlight, Refreshing
    <3>3. GrantIsFresh' /\ TokensAreKnown'
      BY <1>0, <2>1, <3>1 DEF GrantIsFresh, TokensAreKnown, Token!TypeOK
    <3> QED
      BY <2>2, <3>2, <3>3 DEF RowIsCurrent, SuccessorWorks, Token!StoredTokenWorks
  <2>3. CASE Token!Step(c, [caller[c] EXCEPT !.pc = "save", !.next = handed + 1])
             /\ UNCHANGED <<inFlight, mishap>>
    <3>1. /\ caller'[c].pc = "save" /\ caller'[c].next = handed + 1
          /\ caller'[c].token = caller[c].token
          /\ \A d \in Callers \ {c} : caller'[d] = caller[d]
      BY <1>0, <2>3 DEF Token!Step, Token!TypeOK
    <3>2. SingleFlight'
      BY <1>0, <2>1, <2>3, <3>1 DEF SingleFlight, Refreshing
    <3>3. GrantIsFresh' /\ TokensAreKnown'
      BY <1>0, <2>1, <3>1 DEF GrantIsFresh, TokensAreKnown, Token!TypeOK
    <3>4. RowIsCurrent' /\ SuccessorWorks' /\ Token!StoredTokenWorks'
      BY <1>0, <2>1, <2>3, <3>1, <3>2
      DEF RowIsCurrent, SuccessorWorks, Token!StoredTokenWorks, SingleFlight, Refreshing
    <3> QED
      BY <3>2, <3>3, <3>4
  <2> QED
    BY <1>5, <2>2, <2>3 DEF Token!Rotate
<1>6. ASSUME NEW c \in Callers, Token!Refuse(c) PROVE Rest'
  <2>1. \A d \in Callers : caller'[d] \in {Token!Idle, caller[d]} /\ caller'[c] = Token!Idle
    BY <1>0, <1>6, EndRefreshSlots DEF Token!Refuse
  <2>2. SingleFlight' /\ GrantIsFresh' /\ TokensAreKnown' /\ RowIsCurrent' /\ SuccessorWorks'
    BY <1>0, <1>6, <2>1 DEF Token!Refuse, Token!TypeOK, SingleFlight, Refreshing, GrantIsFresh,
       TokensAreKnown, RowIsCurrent, SuccessorWorks
  <2>3. ~mishap => install # 0
    BY <1>0, <1>6 DEF Token!Refuse, SingleFlight, Refreshing, RowIsCurrent, Token!StoredTokenWorks
  <2>4. Token!StoredTokenWorks'
    BY <1>0, <1>6, <2>3 DEF Token!Refuse, Token!StoredTokenWorks
  <2> QED
    BY <2>2, <2>4
<1>7. ASSUME NEW c \in Callers, Token!Unreachable(c) PROVE Rest'
  <2>1. \A d \in Callers : caller'[d] \in {Token!Idle, caller[d]} /\ caller'[c] = Token!Idle
    BY <1>0, <1>7, EndRefreshSlots DEF Token!Unreachable
  <2> QED
    BY <1>0, <1>7, <2>1 DEF Token!Unreachable, Token!TypeOK, SingleFlight, Refreshing, GrantIsFresh,
       TokensAreKnown, RowIsCurrent, SuccessorWorks, Token!StoredTokenWorks
<1>8. ASSUME NEW c \in Callers, Token!Save(c) PROVE Rest'
  <2>1. \A d \in Callers : caller'[d] \in {Token!Idle, caller[d]} /\ caller'[c] = Token!Idle
    BY <1>0, <1>8, EndRefreshSlots DEF Token!Save
  <2>2. \A d \in Callers : caller'[d].pc \notin {"ask", "save"}
    BY <1>0, <1>8, <2>1 DEF Token!Save, SingleFlight, Refreshing
  <2>3. GrantIsFresh' /\ TokensAreKnown' /\ SingleFlight' /\ SuccessorWorks'
    BY <1>0, <1>8, <2>1, <2>2 DEF Token!Save, Token!TypeOK, SingleFlight, Refreshing, GrantIsFresh,
       TokensAreKnown, SuccessorWorks
  <2>4. RowIsCurrent' /\ Token!StoredTokenWorks'
    BY <1>0, <1>8, <2>1, <2>2 DEF Token!Save, RowIsCurrent, SuccessorWorks, Token!StoredTokenWorks
  <2> QED
    BY <2>3, <2>4
<1>9. CASE Token!Expire
  BY <1>0, <1>9 DEF Token!Expire, SingleFlight, Refreshing, GrantIsFresh,
     TokensAreKnown, RowIsCurrent, SuccessorWorks, Token!StoredTokenWorks
<1>10. CASE Token!Exchange
  <2>1. handed \in Nat /\ handed' = handed + 1 /\ install' = handed + 1 /\ handed + 1 \in accepted'
        /\ UNCHANGED <<stored, cachedToken, inFlight, caller, mishap, refused>>
    BY <1>0, <1>10 DEF Token!Exchange, Token!Hand, Token!TypeOK
  <2>2. stored \in Nat /\ \A c \in Callers : caller[c].token \in Nat /\ caller[c].next \in Nat
    BY <1>0 DEF Token!TypeOK
  <2> QED
    BY <1>0, <2>1, <2>2 DEF SingleFlight, Refreshing, GrantIsFresh,
       TokensAreKnown, RowIsCurrent, SuccessorWorks, Token!StoredTokenWorks
<1>11. CASE Token!Connect
  <2>1. GrantIsFresh' /\ TokensAreKnown' /\ SingleFlight'
    BY <1>0, <1>11 DEF Token!Connect, Token!TypeOK, SingleFlight, Refreshing, GrantIsFresh, TokensAreKnown
  <2>2. RowIsCurrent' /\ SuccessorWorks' /\ Token!StoredTokenWorks'
    BY <1>0, <1>11 DEF Token!Connect, Token!Holding, GrantIsFresh, RowIsCurrent, SuccessorWorks, Token!StoredTokenWorks
  <2> QED
    BY <2>1, <2>2
<1>12. CASE Token!Restart
  <2>1. \A d \in Callers : caller'[d] = Token!Idle
    BY <1>12 DEF Token!Restart
  <2>2. install' = 0 /\ UNCHANGED <<handed, accepted, stored, refused>>
    BY <1>12 DEF Token!Restart
  <2>3. SingleFlight' /\ GrantIsFresh' /\ TokensAreKnown'
    BY <1>0, <2>1, <2>2 DEF Token!TypeOK, SingleFlight, Refreshing, GrantIsFresh, TokensAreKnown
  <2>4. RowIsCurrent' /\ SuccessorWorks'
    BY <2>1 DEF RowIsCurrent, SuccessorWorks
  <2>5. ASSUME ~mishap' PROVE ~mishap /\ install = 0 /\ \A c \in Callers : caller[c].pc # "save"
    BY <1>12, <2>5 DEF Token!Restart
  <2>6. Token!StoredTokenWorks'
    BY <1>0, <2>2, <2>5 DEF Token!StoredTokenWorks
  <2> QED
    BY <2>3, <2>4, <2>6
<1>13. CASE UNCHANGED tokenVars
  BY <1>0, <1>13 DEF tokenVars, SingleFlight, Refreshing, GrantIsFresh,
     TokensAreKnown, RowIsCurrent, SuccessorWorks, Token!StoredTokenWorks
<1> QED
  BY <1>1, <1>2, <1>3, <1>4, <1>5, <1>6, <1>7, <1>8, <1>9, <1>10, <1>11, <1>12, <1>13
  DEF Token!Next

-----------------------------------------------------------------------------
(* OrderSync: a run that is under way makes up for what the cache is behind *)
(* on, or the next one will ask for it.                                     *)
Pages == {<< >>} \cup UNION {[S -> Nat] : S \in SUBSET Orders}
RunSlot == [kind : {"none", "sync", "login"}, pc : {"idle", "fetch", "upsert", "record"},
            shop : Shops \cup {"none"}, since : Nat, began : Nat, page : Pages, full : BOOLEAN]

\* A page holds orders of its shop, each as it was or as it is since the run began.
PageIsOf(slot) ==
  /\ slot.page \in [DOMAIN slot.page -> Nat] /\ DOMAIN slot.page \subseteq Order!OrdersOf(slot.shop)
  /\ \A o \in DOMAIN slot.page :
       slot.page[o] <= updated[o] /\ (slot.page[o] = updated[o] \/ updated[o] >= slot.began)

RunOK(slot) ==
  /\ slot.began <= now /\ slot.since <= now
  /\ slot.pc # "idle" => slot.shop \in Shops /\ slot.kind \in {"sync", "login"}
  /\ slot.pc = "record" => slot.kind = "sync"
  /\ slot.pc = "upsert" => PageIsOf(slot)

\* No version is ahead of the shop's, no stamp and no update ahead of the clock.
Timely ==
  /\ run \in [Callers -> RunSlot] /\ (\A r \in Callers : RunOK(run[r]))
  /\ now \in Nat /\ lastSyncAt \in Nat /\ lastSyncAt <= now
  /\ updated \in [Orders -> Nat] /\ cached \in [Orders -> Nat]
  /\ \A o \in Orders : cached[o] <= updated[o] /\ updated[o] <= now
  /\ \A h \in hooks : h.order \in Orders /\ h.version \in Nat /\ h.version <= updated[h.order]

\* What the cache is behind on and nothing has excused.
Behind(o) == cached[o] < updated[o] /\ o[1] \in clean /\ o \notin overtaken

\* What a run that is under way will not make up for was updated after it began.
Covers(slot) ==
  \A o \in Order!OrdersOf(slot.shop) : Behind(o) =>
    CASE slot.pc = "fetch"  -> updated[o] >= slot.since
      [] slot.pc = "upsert" ->
           slot.full => updated[o] >= slot.began \/ (o \in DOMAIN slot.page /\ slot.page[o] = updated[o])
      [] slot.pc = "record" -> slot.full => updated[o] >= slot.began
      [] OTHER -> TRUE

OrderInv == Order!TypeOK /\ Timely /\ (\A r \in Callers : Covers(run[r])) /\ Order!CursorSkipsNothing

LEMMA OrderTypes ==
  ASSUME Order!TypeOK PROVE MaxTime \in Nat /\ Order!Times \subseteq Nat
  BY BoundsAssumption DEF Order!Times

LEMMA IdleRun == Order!Idle \in RunSlot /\ Order!Idle.pc = "idle"
                 /\ Order!Idle.since = 0 /\ Order!Idle.began = 0
  BY DEF Order!Idle, RunSlot, Pages

LEMMA InitOrder == Order!Init => OrderInv
<1> SUFFICES ASSUME Order!Init PROVE OrderInv
  OBVIOUS
<1> USE BoundsAssumption
<1>1. Order!TypeOK
  BY DEF Order!Init, Order!TypeOK, Order!Times, Order!Idle
<1>2. \A r \in Callers : RunOK(run[r]) /\ Covers(run[r])
  BY IdleRun DEF Order!Init, RunOK, Covers
<1>3. Timely
  BY <1>2, IdleRun DEF Order!Init, Timely
<1>4. Order!CursorSkipsNothing
  BY DEF Order!Init, Order!CursorSkipsNothing
<1> QED
  BY <1>1, <1>2, <1>3, <1>4 DEF OrderInv

\* One run moves.
LEMMA RunStep ==
  ASSUME Timely, NEW r \in Callers, NEW slot \in RunSlot, Order!Step(r, slot)
  PROVE  run' \in [Callers -> RunSlot] /\ run'[r] = slot /\ \A q \in Callers \ {r} : run'[q] = run[q]
  BY DEF Timely, Order!Step

\* A write of a page of versions that are not ahead.
LEMMA WriteEffect ==
  ASSUME Timely, Order!TypeOK, NEW page, NEW late \in SUBSET Orders, Order!Write(page, late),
         DOMAIN page \subseteq Orders, \A o \in DOMAIN page : page[o] \in Nat /\ page[o] <= updated[o]
  PROVE  /\ cached' \in [Orders -> Nat] /\ overtaken' \subseteq Orders
         /\ \A o \in Orders : cached'[o] = IF o \in DOMAIN page THEN page[o] ELSE cached[o]
         /\ \A o \in Orders : cached'[o] <= updated[o]
         /\ \A o \in Orders :
              cached'[o] < updated[o] => (o \in overtaken' <=> o \in overtaken \/ o \in late)
<1>1. /\ cached' \in [Orders -> Nat]
      /\ \A o \in Orders : cached'[o] = IF o \in DOMAIN page THEN page[o] ELSE cached[o]
  BY DEF Timely, Order!Write
<1>2. \A o \in Orders : cached'[o] <= updated[o]
  BY <1>1 DEF Timely
<1> QED
  BY <1>1, <1>2 DEF Order!Write, Order!TypeOK

LEMMA TickKeeps == ASSUME OrderInv, Order!Tick PROVE OrderInv'
<1> USE BoundsAssumption
<1>1. Order!TypeOK'
  BY DEF OrderInv, Order!Tick, Order!TypeOK, Order!Times
<1>2. \A r \in Callers : RunOK(run[r])'
  <2> SUFFICES ASSUME NEW r \in Callers PROVE RunOK(run[r])'
    OBVIOUS
  <2>1. RunOK(run[r]) /\ run[r].began \in Nat /\ run[r].since \in Nat
    BY DEF OrderInv, Timely, RunSlot
  <2> QED
    BY <2>1 DEF RunOK, PageIsOf, Order!Tick, OrderInv, Timely
<1>3. Timely'
  BY <1>2 DEF OrderInv, Order!Tick, Timely
<1>4. \A r \in Callers : Covers(run[r])'
  BY DEF OrderInv, Order!Tick, Covers, Behind
<1>5. Order!CursorSkipsNothing'
  BY DEF OrderInv, Order!Tick, Order!CursorSkipsNothing, Order!Since
<1> QED
  BY <1>1, <1>3, <1>4, <1>5 DEF OrderInv

LEMMA ChangeKeeps == ASSUME OrderInv, NEW o \in Orders, Order!Change(o) PROVE OrderInv'
<1> USE BoundsAssumption
<1>0. /\ now \in Nat /\ now \in Order!Times /\ updated \in [Orders -> Nat] /\ updated \in [Orders -> Order!Times]
      /\ run \in [Callers -> RunSlot] /\ hooks \subseteq [order : Orders, version : Order!Times]
  BY DEF OrderInv, Timely, Order!TypeOK
<1>1. /\ updated' \in [Orders -> Nat] /\ updated'[o] = now /\ updated[o] < now
      /\ \A p \in Orders \ {o} : updated'[p] = updated[p]
      /\ updated' \in [Orders -> Order!Times]
      /\ UNCHANGED <<now, cached, lastSyncAt, run, clean, overtaken>>
  BY <1>0 DEF Order!Change
<1>2. hooks' = hooks \cup {[order |-> o, version |-> now]}
  BY DEF Order!Change
<1>3. Order!TypeOK'
  <2>1. hooks' \subseteq [order : Orders, version : Order!Times]
    BY <1>0, <1>2
  <2> QED
    BY <1>1, <2>1 DEF Order!TypeOK, OrderInv
<1>4. \A p \in Orders : updated[p] <= updated'[p] /\ (updated'[p] = updated[p] \/ updated'[p] = now)
  BY <1>0, <1>1 DEF OrderInv, Timely
<1>5. \A r \in Callers : RunOK(run[r])'
  <2> SUFFICES ASSUME NEW r \in Callers PROVE RunOK(run[r])'
    OBVIOUS
  <2>1. RunOK(run[r]) /\ run[r].began \in Nat /\ run[r].began <= now
    BY <1>0 DEF OrderInv, Timely, RunOK, RunSlot
  <2>2. ASSUME PageIsOf(run[r]) PROVE PageIsOf(run[r])'
    <3>1. \A p \in DOMAIN run[r].page : p \in Orders /\ run[r].page[p] \in Nat
      BY <2>2 DEF PageIsOf, Order!OrdersOf
    <3>2. \A p \in DOMAIN run[r].page :
            run[r].page[p] <= updated'[p] /\ (run[r].page[p] = updated'[p] \/ updated'[p] >= run[r].began)
      BY <1>0, <1>1, <1>4, <2>1, <2>2, <3>1 DEF PageIsOf
    <3> QED
      BY <1>1, <2>2, <3>2 DEF PageIsOf, Order!OrdersOf
  <2> QED
    BY <1>1, <2>1, <2>2 DEF RunOK
<1>6. Timely'
  <2>1. \A p \in Orders : cached'[p] <= updated'[p] /\ updated'[p] <= now'
    BY <1>0, <1>1, <1>4 DEF OrderInv, Timely
  <2>2. \A h \in hooks' : h.order \in Orders /\ h.version \in Nat /\ h.version <= updated'[h.order]
    BY <1>0, <1>1, <1>2, <1>4 DEF OrderInv, Timely
  <2> QED
    BY <1>1, <1>5, <2>1, <2>2 DEF OrderInv, Timely
<1>7. \A p \in Orders : Behind(p)' => p = o \/ (Behind(p) /\ updated'[p] = updated[p])
  BY <1>1 DEF Behind
<1>8. \A r \in Callers : Covers(run[r])'
  <2> SUFFICES ASSUME NEW r \in Callers PROVE Covers(run[r])'
    OBVIOUS
  <2>1. Covers(run[r]) /\ run[r].began <= now /\ run[r].since <= now /\ run'[r] = run[r]
    BY <1>1 DEF OrderInv, Timely, RunOK
  <2>2. \A p \in Order!OrdersOf(run[r].shop) : p \in Orders
    BY DEF Order!OrdersOf
  <2> QED
    BY <1>1, <1>7, <2>1, <2>2 DEF Covers, Order!OrdersOf
<1>9. Order!CursorSkipsNothing'
  <2>1. Order!Since' = Order!Since /\ Order!Since <= now
    BY <1>0, <1>1 DEF Order!Since, OrderInv, Timely
  <2> QED
    BY <1>1, <1>7, <2>1 DEF Order!CursorSkipsNothing, Behind, OrderInv
<1> QED
  BY <1>3, <1>6, <1>8, <1>9 DEF OrderInv

\* A write after which whatever the cache has fallen behind on is excused.
LEMMA ExcusedWrite ==
  ASSUME OrderInv, Order!TypeOK', Timely', UNCHANGED <<updated, lastSyncAt, clean>>,
         \A o \in Orders : Behind(o)' => Behind(o)
  PROVE  Order!CursorSkipsNothing' /\ \A slot : Covers(slot) => Covers(slot)'
<1>1. Order!CursorSkipsNothing'
  BY DEF Order!CursorSkipsNothing, Order!Since, OrderInv, Behind
<1>2. ASSUME NEW slot, Covers(slot) PROVE Covers(slot)'
  <2>1. \A o \in Order!OrdersOf(slot.shop) : o \in Orders
    BY DEF Order!OrdersOf
  <2> QED
    BY <1>2, <2>1 DEF Covers, Order!OrdersOf
<1> QED
  BY <1>1, <1>2

LEMMA DeliverKeeps == ASSUME OrderInv, NEW h \in hooks, Order!Deliver(h) PROVE OrderInv'
<1> USE BoundsAssumption
<1> DEFINE page == [o \in {h.order} |-> h.version]
<1>1. /\ h.order \in Orders /\ h.version \in Nat /\ h.version <= updated[h.order]
      /\ UNCHANGED <<now, updated, hooks, lastSyncAt, run, clean>>
      /\ Order!Write(page, Order!Older(page))
  BY DEF OrderInv, Timely, Order!Deliver
<1>2. /\ DOMAIN page \subseteq Orders /\ DOMAIN page = {h.order}
      /\ \A o \in DOMAIN page : page[o] \in Nat /\ page[o] <= updated[o]
      /\ page[h.order] = h.version
      /\ Order!Older(page) \in SUBSET Orders
  BY <1>1 DEF Order!Older
<1> HIDE DEF page
<1>3. /\ cached' \in [Orders -> Nat] /\ overtaken' \subseteq Orders
      /\ \A o \in Orders : cached'[o] = IF o \in DOMAIN page THEN page[o] ELSE cached[o]
      /\ \A o \in Orders : cached'[o] <= updated[o]
      /\ \A o \in Orders :
           cached'[o] < updated[o] => (o \in overtaken' <=> o \in overtaken \/ o \in Order!Older(page))
  BY <1>1, <1>2, WriteEffect DEF OrderInv
<1>4. \A o \in Orders : cached'[o] \in Order!Times
  BY <1>1, <1>2, <1>3 DEF OrderInv, Order!TypeOK, Order!Times, Timely
<1>5. Order!TypeOK'
  BY <1>1, <1>3, <1>4 DEF Order!TypeOK, OrderInv
<1>6. Timely'
  BY <1>1, <1>3 DEF Timely, OrderInv, RunOK, PageIsOf, Order!OrdersOf
<1>7. \A o \in Orders : Behind(o)' => Behind(o)
  <2> SUFFICES ASSUME NEW o \in Orders, Behind(o)' PROVE Behind(o)
    OBVIOUS
  <2>1. o \notin overtaken /\ o \notin Order!Older(page) /\ cached'[o] < updated[o]
    BY <1>1, <1>3 DEF Behind
  <2>2. cached[o] \in Nat /\ updated[o] \in Nat /\ cached'[o] \in Nat
    BY <1>3 DEF OrderInv, Timely
  <2>3. CASE o \in DOMAIN page
    BY <1>1, <1>3, <2>1, <2>2, <2>3 DEF Order!Older, Behind
  <2>4. CASE o \notin DOMAIN page
    BY <1>1, <1>3, <2>1, <2>4 DEF Behind
  <2> QED
    BY <2>3, <2>4
<1> QED
  BY <1>1, <1>5, <1>6, <1>7, ExcusedWrite DEF OrderInv

\* One run moves, and nothing else that another run speaks of.
LEMMA OthersKeep ==
  ASSUME OrderInv, NEW r \in Callers, NEW slot \in RunSlot, Order!Step(r, slot),
         UNCHANGED <<now, updated, cached, hooks, lastSyncAt, clean, overtaken>>,
         RunOK(slot), Covers(slot)
  PROVE  OrderInv'
<1>1. run' \in [Callers -> RunSlot] /\ run'[r] = slot /\ \A q \in Callers \ {r} : run'[q] = run[q]
  BY RunStep DEF OrderInv
<1>2. \A q \in Callers : RunOK(run'[q]) /\ Covers(run'[q])
  BY <1>1 DEF OrderInv, Timely
<1>3. \A q \in Callers : RunOK(run[q])' /\ Covers(run[q])'
  BY <1>2 DEF RunOK, PageIsOf, Covers, Behind
<1>4. \A q \in Callers : run'[q].pc \in {"idle", "fetch", "upsert", "record"}
  BY <1>1 DEF RunSlot
<1>5. Order!TypeOK'
  BY <1>4 DEF OrderInv, Order!TypeOK
<1>6. Timely'
  BY <1>1, <1>3 DEF OrderInv, Timely
<1>7. Order!CursorSkipsNothing'
  BY DEF OrderInv, Order!CursorSkipsNothing, Order!Since
<1> QED
  BY <1>3, <1>5, <1>6, <1>7 DEF OrderInv

LEMMA SinceBounds ==
  ASSUME OrderInv
  PROVE  Order!Since \in Nat /\ Order!Since <= now /\ (Order!Since > 0 => Order!Since + Lookback <= now)
  BY BoundsAssumption DEF Order!Since, OrderInv, Timely

LEMMA BeginKeeps ==
  ASSUME OrderInv, NEW r \in Callers, NEW s \in Shops, Order!Begin(r, s) \/ Order!BeginLogin(r, s)
  PROVE  OrderInv'
<1>1. now \in Nat /\ Order!Since \in Nat /\ Order!Since <= now
  BY SinceBounds DEF OrderInv, Timely
<1>2. CASE Order!Begin(r, s)
  <2> DEFINE slot == [Order!Idle EXCEPT !.kind = "sync", !.pc = "fetch", !.shop = s,
                                        !.since = Order!Since, !.began = now]
  <2>1. slot \in RunSlot
    BY <1>1, IdleRun DEF RunSlot
  <2>2. slot.pc = "fetch" /\ slot.shop = s /\ slot.since = Order!Since /\ slot.began = now
        /\ slot.kind = "sync"
    BY DEF Order!Idle
  <2>3. Order!Step(r, slot) /\ UNCHANGED <<now, updated, cached, hooks, lastSyncAt, clean, overtaken>>
    BY <1>2 DEF Order!Begin
  <2> HIDE DEF slot
  <2>4. RunOK(slot)
    BY <1>1, <2>2 DEF RunOK
  <2>5. Covers(slot)
    BY <2>2 DEF Covers, OrderInv, Order!CursorSkipsNothing, Behind, Order!OrdersOf
  <2> QED
    BY <2>1, <2>3, <2>4, <2>5, OthersKeep
<1>3. CASE Order!BeginLogin(r, s)
  <2> DEFINE slot == [Order!Idle EXCEPT !.kind = "login", !.pc = "fetch", !.shop = s]
  <2>1. slot \in RunSlot
    BY <1>1, IdleRun DEF RunSlot
  <2>2. slot.pc = "fetch" /\ slot.shop = s /\ slot.since = 0 /\ slot.began = 0
        /\ slot.kind = "login"
    BY DEF Order!Idle
  <2>3. Order!Step(r, slot) /\ UNCHANGED <<now, updated, cached, hooks, lastSyncAt, clean, overtaken>>
    BY <1>3 DEF Order!BeginLogin
  <2> HIDE DEF slot
  <2>4. RunOK(slot)
    BY <1>1, <2>2 DEF RunOK
  <2>5. Covers(slot)
    BY <2>2 DEF Covers, OrderInv, Timely, Order!OrdersOf
  <2> QED
    BY <2>1, <2>3, <2>4, <2>5, OthersKeep
<1> QED
  BY <1>2, <1>3

LEMMA FetchKeeps == ASSUME OrderInv, NEW r \in Callers, Order!Fetch(r) PROVE OrderInv'
<1> DEFINE s == run[r].shop
           due == {o \in Order!OrdersOf(s) : updated[o] > 0 /\ updated[o] >= run[r].since}
<1>1. PICK got \in SUBSET due :
        Order!Step(r, [run[r] EXCEPT !.pc = "upsert", !.since = 0, !.page = [o \in got |-> updated[o]],
                                     !.full = (got = due)])
  BY DEF Order!Fetch
<1>2. PICK full \in BOOLEAN : full = (got = due)
  OBVIOUS
<1>3. PICK page : page = [o \in got |-> updated[o]]
  OBVIOUS
<1>4. PICK slot : slot = [run[r] EXCEPT !.pc = "upsert", !.since = 0, !.page = page, !.full = full]
  OBVIOUS
<1>5. Order!Step(r, slot) /\ UNCHANGED <<now, updated, cached, hooks, lastSyncAt, clean, overtaken>>
  BY <1>1, <1>2, <1>3, <1>4 DEF Order!Fetch
<1>6. /\ run[r] \in RunSlot /\ run[r].pc = "fetch" /\ RunOK(run[r]) /\ Covers(run[r])
      /\ updated \in [Orders -> Nat] /\ now \in Nat
  BY DEF Order!Fetch, OrderInv, Timely
<1>7. /\ page \in [got -> Nat] /\ DOMAIN page = got /\ \A o \in got : page[o] = updated[o]
      /\ got \subseteq Order!OrdersOf(s) /\ got \subseteq Orders
  BY <1>3, <1>6 DEF Order!OrdersOf
<1>8. page \in Pages
  BY <1>7 DEF Pages
<1>9. /\ slot \in RunSlot /\ slot.pc = "upsert" /\ slot.shop = s /\ slot.since = 0
      /\ slot.page = page /\ slot.full = full /\ slot.began = run[r].began
      /\ slot.kind = run[r].kind
  BY <1>4, <1>6, <1>8 DEF RunSlot
<1>10. RunOK(slot)
  <2>1. \A o \in got : page[o] <= updated[o]
    BY <1>6, <1>7
  <2>2. PageIsOf(slot)
    BY <1>7, <1>9, <2>1 DEF PageIsOf
  <2> QED
    BY <1>6, <1>9, <2>2 DEF RunOK
<1>11. Covers(slot)
  <2> SUFFICES ASSUME NEW o \in Order!OrdersOf(s), Behind(o), full
               PROVE  o \in got /\ page[o] = updated[o]
    BY <1>7, <1>9 DEF Covers
  <2>1. updated[o] >= run[r].since
    BY <1>6 DEF Covers
  <2>2. updated[o] > 0
    BY DEF Behind, OrderInv, Timely, Order!OrdersOf
  <2>3. o \in got
    BY <1>2, <2>1, <2>2
  <2> QED
    BY <1>7, <2>3
<1> QED
  BY <1>5, <1>9, <1>10, <1>11, OthersKeep

LEMMA UpsertKeeps == ASSUME OrderInv, NEW r \in Callers, Order!Upsert(r) PROVE OrderInv'
<1> USE BoundsAssumption
<1> DEFINE s == run[r].shop
           beside == \E q \in Callers \ {r} : run[q].shop = s
           slow == run[r].kind = "login" \/ now - run[r].began > Lookback
           late == IF beside \/ slow THEN Order!Older(run[r].page) ELSE {}
<1>1. /\ run[r] \in RunSlot /\ run[r].pc = "upsert" /\ RunOK(run[r]) /\ PageIsOf(run[r])
      /\ Covers(run[r]) /\ s \in Shops /\ now \in Nat /\ run[r].began \in Nat
      /\ updated \in [Orders -> Nat] /\ cached \in [Orders -> Nat]
  BY DEF Order!Upsert, OrderInv, Timely, RunOK, RunSlot
<1>2. PICK page : page = run[r].page
  OBVIOUS
<1>3. /\ DOMAIN page \subseteq Orders /\ DOMAIN page \subseteq Order!OrdersOf(s)
      /\ \A o \in DOMAIN page :
           /\ page[o] \in Nat /\ page[o] <= updated[o]
           /\ page[o] = updated[o] \/ updated[o] >= run[r].began
  BY <1>1, <1>2 DEF PageIsOf, Order!OrdersOf
<1>4. late \in SUBSET Orders /\ late \subseteq Order!Older(page) /\ Order!Write(page, late)
      /\ UNCHANGED <<now, updated, hooks, lastSyncAt, clean>>
  BY <1>2, <1>3 DEF Order!Upsert, Order!Older
<1>5. /\ cached' \in [Orders -> Nat] /\ overtaken' \subseteq Orders
      /\ \A o \in Orders : cached'[o] = IF o \in DOMAIN page THEN page[o] ELSE cached[o]
      /\ \A o \in Orders : cached'[o] <= updated[o]
      /\ \A o \in Orders : cached'[o] < updated[o] => (o \in overtaken' <=> o \in overtaken \/ o \in late)
  BY <1>3, <1>4, WriteEffect DEF OrderInv
<1>6. PICK slot : slot = IF run[r].kind = "login" THEN Order!Idle
                         ELSE [run[r] EXCEPT !.pc = "record", !.page = << >>]
  OBVIOUS
<1>7. /\ slot \in RunSlot /\ RunOK(slot)
      /\ slot.pc = "idle" \/ (slot.pc = "record" /\ run[r].kind = "sync" /\ slot.shop = s
                               /\ slot.full = run[r].full /\ slot.began = run[r].began)
  <2>1. CASE run[r].kind = "login"
    BY <1>1, <1>6, <2>1, IdleRun DEF RunOK
  <2>2. CASE run[r].kind # "login"
    <3>1. slot = [run[r] EXCEPT !.pc = "record", !.page = << >>]
      BY <1>6, <2>2
    <3>2. << >> \in Pages
      BY DEF Pages
    <3>3. /\ slot \in RunSlot /\ slot.pc = "record" /\ slot.shop = s /\ slot.kind = run[r].kind
          /\ slot.full = run[r].full /\ slot.began = run[r].began /\ slot.since = run[r].since
      BY <1>1, <3>1, <3>2 DEF RunSlot
    <3>4. run[r].kind = "sync"
      <4>1. run[r].kind \in {"none", "sync", "login"}
        BY <1>1 DEF RunSlot
      <4> QED
        BY <1>1, <2>2, <4>1 DEF RunOK
    <3> QED
      BY <1>1, <3>3, <3>4 DEF RunOK
  <2> QED
    BY <2>1, <2>2
<1>8. run' \in [Callers -> RunSlot] /\ run'[r] = slot /\ \A q \in Callers \ {r} : run'[q] = run[q]
  BY <1>6, <1>7, RunStep DEF Order!Upsert, OrderInv
<1>9. \A q \in Callers : RunOK(run[q])'
  <2>1. \A q \in Callers : RunOK(run'[q])
    BY <1>7, <1>8 DEF OrderInv, Timely
  <2> QED
    BY <1>4, <2>1 DEF RunOK, PageIsOf
<1>10. Timely'
  BY <1>4, <1>5, <1>8, <1>9 DEF OrderInv, Timely
<1>11. Order!TypeOK'
  <2>1. \A o \in Orders : cached'[o] \in Order!Times
    BY <1>1, <1>3, <1>5 DEF OrderInv, Order!TypeOK, Order!Times, Timely
  <2>2. \A q \in Callers : run'[q].pc \in {"idle", "fetch", "upsert", "record"}
    BY <1>8 DEF RunSlot
  <2> QED
    BY <1>4, <1>5, <2>1, <2>2 DEF Order!TypeOK, OrderInv
\* What the cache falls behind on in this step was updated after the run began, and the run
\* was quick and on its own.
<1>12. \A o \in Orders : Behind(o)' =>
         Behind(o) \/ (~beside /\ ~slow /\ o \in Order!OrdersOf(s) /\ updated[o] >= run[r].began)
  <2> SUFFICES ASSUME NEW o \in Orders, Behind(o)', ~Behind(o)
               PROVE  ~beside /\ ~slow /\ o \in Order!OrdersOf(s) /\ updated[o] >= run[r].began
    OBVIOUS
  <2>1. cached'[o] < updated[o] /\ o \notin overtaken /\ o \notin late /\ cached[o] >= updated[o]
    BY <1>1, <1>4, <1>5 DEF Behind
  <2>2. o \in DOMAIN page /\ cached'[o] = page[o] /\ page[o] < cached[o]
    BY <1>1, <1>3, <1>5, <2>1
  <2>3. o \in Order!Older(page)
    BY <2>2 DEF Order!Older
  <2>4. ~beside /\ ~slow
    BY <1>2, <2>1, <2>3
  <2>5. updated[o] >= run[r].began
    BY <1>1, <1>3, <2>1, <2>2
  <2> QED
    BY <1>3, <2>2, <2>4, <2>5
<1>13. Covers(slot)'
  <2>1. CASE slot.pc = "idle"
    BY <2>1 DEF Covers
  <2>2. CASE slot.pc = "record"
    <3> SUFFICES ASSUME NEW o \in Order!OrdersOf(s), Behind(o)', run[r].full
                 PROVE  updated[o] >= run[r].began
      BY <1>4, <1>7, <2>2 DEF Covers
    <3>1. o \in Orders
      BY DEF Order!OrdersOf
    <3>2. CASE Behind(o)
      <4>1. updated[o] >= run[r].began \/ (o \in DOMAIN page /\ page[o] = updated[o])
        BY <1>1, <1>2, <3>2 DEF Covers
      <4>2. ~(o \in DOMAIN page /\ page[o] = updated[o])
        BY <1>1, <1>4, <1>5, <3>1 DEF Behind
      <4> QED
        BY <4>1, <4>2
    <3>3. CASE ~Behind(o)
      BY <1>12, <3>1, <3>3
    <3> QED
      BY <3>2, <3>3
  <2> QED
    BY <1>7, <2>1, <2>2
<1>14. \A q \in Callers : Covers(run[q])'
  <2>1. ASSUME NEW q \in Callers, q # r PROVE Covers(run[q])'
    <3>1. run'[q] = run[q] /\ Covers(run[q])
      BY <1>8, <2>1 DEF OrderInv
    <3>2. \A o \in Order!OrdersOf(run[q].shop) : Behind(o)' => Behind(o)
      <4> SUFFICES ASSUME NEW o \in Order!OrdersOf(run[q].shop), Behind(o)', ~Behind(o)
                   PROVE  run[q].shop = s /\ ~beside
        BY <2>1
      <4> QED
        BY <1>12 DEF Order!OrdersOf
    <3> QED
      BY <1>4, <3>1, <3>2 DEF Covers, Order!OrdersOf
  <2>2. Covers(run[r])'
    BY <1>8, <1>13 DEF Covers
  <2> QED
    BY <2>1, <2>2
<1>15. Order!CursorSkipsNothing'
  <2> SUFFICES ASSUME NEW o \in Orders, Behind(o)' PROVE updated[o] >= Order!Since
    BY <1>4 DEF Order!CursorSkipsNothing, Order!Since, Behind
  <2>1. CASE Behind(o)
    BY <2>1 DEF OrderInv, Order!CursorSkipsNothing, Behind
  <2>2. CASE ~Behind(o)
    <3>1. ~slow /\ updated[o] >= run[r].began
      BY <1>12, <2>2
    <3>2. Order!Since \in Nat /\ (Order!Since > 0 => Order!Since + Lookback <= now) /\ updated[o] \in Nat
      BY <1>1, SinceBounds
    <3> QED
      BY <1>1, <3>1, <3>2
  <2> QED
    BY <2>1, <2>2
<1> QED
  BY <1>10, <1>11, <1>14, <1>15 DEF OrderInv

LEMMA RecordKeeps == ASSUME OrderInv, NEW r \in Callers, Order!Record(r) PROVE OrderInv'
<1> USE BoundsAssumption
<1>1. /\ run[r] \in RunSlot /\ run[r].pc = "record" /\ Covers(run[r]) /\ run[r].began \in Nat
      /\ now \in Nat /\ now \in Order!Times /\ updated \in [Orders -> Nat]
      /\ lastSyncAt' = now /\ UNCHANGED <<now, updated, cached, hooks, overtaken>>
      /\ Order!Step(r, Order!Idle) /\ clean \subseteq Shops
  BY DEF Order!Record, OrderInv, Timely, RunSlot, Order!TypeOK
<1>2. /\ run' \in [Callers -> RunSlot] /\ run'[r] = Order!Idle
      /\ \A q \in Callers \ {r} : run'[q] = run[q]
  BY <1>1, IdleRun, RunStep DEF OrderInv
<1>3. /\ clean' \subseteq clean
      /\ clean' # {} => clean' \subseteq {run[r].shop} /\ run[r].full /\ now - run[r].began <= Lookback
  BY DEF Order!Record
<1>4. \A q \in Callers : RunOK(run[q])'
  <2>1. \A q \in Callers : RunOK(run'[q])
    BY <1>1, <1>2, IdleRun DEF OrderInv, Timely, RunOK
  <2> QED
    BY <1>1, <2>1 DEF RunOK, PageIsOf
<1>5. Timely'
  BY <1>1, <1>2, <1>4 DEF OrderInv, Timely
<1>6. Order!TypeOK'
  <2>1. \A q \in Callers : run'[q].pc \in {"idle", "fetch", "upsert", "record"}
    BY <1>2 DEF RunSlot
  <2> QED
    BY <1>1, <1>3, <2>1 DEF OrderInv, Order!TypeOK
<1>7. \A o \in Orders : Behind(o)' => Behind(o)
  BY <1>1, <1>3 DEF Behind
<1>8. \A q \in Callers : Covers(run[q])'
  <2>1. \A q \in Callers : Covers(run'[q])
    BY <1>2, IdleRun DEF OrderInv, Covers
  <2> QED
    BY <1>1, <1>7, <2>1 DEF Covers, Order!OrdersOf
<1>9. Order!CursorSkipsNothing'
  <2> SUFFICES ASSUME NEW o \in Orders, Behind(o)' PROVE updated[o] >= Order!Since'
    BY <1>1 DEF Order!CursorSkipsNothing, Behind
  <2>1. /\ Behind(o) /\ o[1] = run[r].shop /\ run[r].full /\ now - run[r].began <= Lookback
    BY <1>3, <1>7 DEF Behind
  <2>2. updated[o] >= run[r].began
    BY <1>1, <2>1 DEF Covers, Order!OrdersOf
  <2>3. Order!Since' <= run[r].began
    BY <1>1, <2>1 DEF Order!Since
  <2> QED
    BY <1>1, <2>2, <2>3 DEF Order!Since
<1> QED
  BY <1>5, <1>6, <1>8, <1>9 DEF OrderInv

LEMMA NextOrder == OrderInv /\ (Order!Next \/ UNCHANGED orderVars) => OrderInv'
<1> SUFFICES ASSUME OrderInv, Order!Next \/ UNCHANGED orderVars PROVE OrderInv'
  OBVIOUS
<1>1. CASE UNCHANGED orderVars
  BY <1>1 DEF orderVars, OrderInv, Timely, RunOK, PageIsOf, Covers, Behind, Order!TypeOK,
              Order!CursorSkipsNothing, Order!Since
<1> QED
  BY <1>1, TickKeeps, ChangeKeeps, DeliverKeeps, BeginKeeps, FetchKeeps, UpsertKeeps, RecordKeeps
     DEF Order!Next

-----------------------------------------------------------------------------
(* KbReview, the pair: once it is decided, whatever is judged again was     *)
(* asked for.                                                               *)

TaskSlots == [op : {"none", "scan", "retry", "resolve", "dismiss", "propose", "approve", "reject"},
              pc : {"idle", "save", "hide", "document"},
              id : Pairs \cup Drafts \cup {0}, attempts : Nat]

\* What a call on the pair carries: the row, and attempts that leave room for a judgement.
OnRow(slot) ==
  /\ slot.op \in {"none", "scan", "retry", "resolve", "dismiss"}
  /\ slot.op \in {"retry", "resolve", "dismiss"} => slot.id \in Pairs
  /\ slot.op = "scan" => slot.id \in Pairs \cup {0}
  /\ slot.op \in {"scan", "retry"} => slot.attempts < MaxAttempts
  /\ slot.attempts <= MaxAttempts

NoNewJudgement ==
  /\ Kb!Recorded # {}
  /\ \A r \in Kb!Recorded \ asked : conflict[r].status \notin Kb!Open
  /\ \A t \in Callers : task[t].op \in {"scan", "retry"} => task[t].id \in asked

PairInv ==
  /\ Kb!TypeOK /\ articles \in [Drafts -> Nat]
  /\ task \in [Callers -> TaskSlots] /\ (\A t \in Callers : OnRow(task[t]))
  /\ decided \subseteq {Kb!Pair}
  /\ Kb!Pair \in decided \ crossed => NoNewJudgement

LEMMA PairDecides == PairInv => Kb!DecisionsStand
  BY MarksAssumption DEF PairInv, NoNewJudgement, Kb!DecisionsStand, Kb!Pair

LEMMA IdleTask == Kb!Idle \in TaskSlots /\ Kb!Idle.op = "none" /\ Kb!Idle.pc = "idle"
                  /\ Kb!Idle.attempts = 0 /\ Kb!Idle.id = 0
  BY DEF Kb!Idle, TaskSlots

LEMMA CallersCount == Kb!Cardinality(Callers) + 1 \in Nat
<1>1. Cardinality(Callers) \in Nat
  BY CallersAssumption, FS_CardinalityType
<1>2. Kb!Cardinality(Callers) = Cardinality(Callers)
  BY DEF Kb!Cardinality, Cardinality
<1> QED
  BY <1>1, <1>2

LEMMA InitTypes == Kb!Init => Kb!TypeOK /\ articles \in [Drafts -> Nat] /\ task \in [Callers -> TaskSlots]
<1> SUFFICES ASSUME Kb!Init
             PROVE  Kb!TypeOK /\ articles \in [Drafts -> Nat] /\ task \in [Callers -> TaskSlots]
  OBVIOUS
<1>1. task \in [Callers -> TaskSlots] /\ articles \in [Drafts -> Nat]
  BY IdleTask DEF Kb!Init
<1>2. conflict \in [Pairs -> [status : Kb!Open \cup {"none", "resolved", "dismissed"},
                              attempts : 0 .. MaxAttempts]]
  BY BoundsAssumption DEF Kb!Init, Kb!NoRow
<1>3. PICK n \in Nat : n = Kb!Cardinality(Callers) + 1
  BY CallersCount
<1>4. \A d \in Drafts : articles[d] \in 0 .. n
  BY DEF Kb!Init
<1>5. proposal \in [Drafts -> {"none", "pending", "approved", "rejected"}] /\ hidden \subseteq {"a", "b"}
      /\ asked \subseteq Pairs /\ crossed \cup decided \subseteq Drafts \cup {Kb!Pair}
  BY DEF Kb!Init
<1> QED
  BY <1>1, <1>2, <1>3, <1>4, <1>5 DEF Kb!TypeOK

LEMMA InitPair == Kb!Init => PairInv
<1> SUFFICES ASSUME Kb!Init PROVE PairInv
  OBVIOUS
<1>1. \A t \in Callers : OnRow(task[t])
  BY BoundsAssumption, IdleTask DEF Kb!Init, OnRow
<1> QED
  BY <1>1, InitTypes DEF Kb!Init, PairInv

LEMMA TaskMoves ==
  ASSUME task \in [Callers -> TaskSlots], NEW t \in Callers, NEW slot \in TaskSlots,
         task' = [task EXCEPT ![t] = slot]
  PROVE  task' \in [Callers -> TaskSlots] /\ task'[t] = slot /\ \A u \in Callers \ {t} : task'[u] = task[u]
  OBVIOUS

\* A call on the pair moves and no row of it is written.
LEMMA PairLoads ==
  ASSUME PairInv, NEW t \in Callers, NEW slot \in TaskSlots, task' = [task EXCEPT ![t] = slot],
         OnRow(slot), hidden' \subseteq {"a", "b"}, asked' \subseteq Pairs, asked \subseteq asked',
         UNCHANGED <<conflict, proposal, articles, crossed, decided>>,
         Kb!Pair \in decided \ crossed /\ slot.op \in {"scan", "retry"} => slot.id \in asked'
  PROVE  PairInv'
<1>1. task' \in [Callers -> TaskSlots] /\ task'[t] = slot /\ \A u \in Callers \ {t} : task'[u] = task[u]
  BY TaskMoves DEF PairInv
<1>2. \A u \in Callers : OnRow(task'[u])
  BY <1>1 DEF PairInv
<1>3. Kb!TypeOK'
  BY DEF PairInv, Kb!TypeOK
<1>4. ASSUME Kb!Pair \in decided \ crossed PROVE NoNewJudgement'
  BY <1>1, <1>4 DEF PairInv, NoNewJudgement, Kb!Recorded
<1> QED
  BY <1>1, <1>2, <1>3, <1>4 DEF PairInv, OnRow

\* A row of the pair is judged.
LEMMA PairJudged ==
  ASSUME PairInv, NEW t \in Callers, NEW r \in Pairs, NEW status \in Kb!Open, NEW tried \in Nat,
         tried <= MaxAttempts,
         conflict' = [conflict EXCEPT ![r] = [status |-> status, attempts |-> tried]],
         Kb!End(t), UNCHANGED <<hidden, proposal, articles, crossed, asked, decided>>,
         Kb!Pair \in decided \ crossed => r \in asked
  PROVE  PairInv'
<1>1. task' \in [Callers -> TaskSlots] /\ task'[t] = Kb!Idle /\ \A u \in Callers \ {t} : task'[u] = task[u]
  BY TaskMoves, IdleTask DEF PairInv, Kb!End
<1>2. \A u \in Callers : OnRow(task'[u])
  BY <1>1, IdleTask, BoundsAssumption DEF PairInv, OnRow
<1>3. PICK row : row = [status |-> status, attempts |-> tried]
  OBVIOUS
<1>4. /\ row \in [status : Kb!Open \cup {"none", "resolved", "dismissed"}, attempts : 0 .. MaxAttempts]
      /\ row.status # "none"
  BY <1>3, BoundsAssumption DEF Kb!Open
<1>5. /\ conflict' \in [Pairs -> [status : Kb!Open \cup {"none", "resolved", "dismissed"},
                                  attempts : 0 .. MaxAttempts]]
      /\ conflict'[r] = row /\ \A q \in Pairs \ {r} : conflict'[q] = conflict[q]
  BY <1>3, <1>4 DEF PairInv, Kb!TypeOK
<1>6. Kb!TypeOK'
  BY <1>5 DEF PairInv, Kb!TypeOK
<1>7. ASSUME Kb!Pair \in decided \ crossed PROVE NoNewJudgement'
  <2>1. r \in Kb!Recorded'
    BY <1>4, <1>5 DEF Kb!Recorded
  <2>2. \A q \in (Kb!Recorded \ asked)' : conflict'[q].status \notin Kb!Open
    BY <1>5, <1>7 DEF PairInv, NoNewJudgement, Kb!Recorded
  <2>3. \A u \in Callers : task'[u].op \in {"scan", "retry"} => task'[u].id \in asked'
    BY <1>1, <1>7, IdleTask DEF PairInv, NoNewJudgement
  <2> QED
    BY <2>1, <2>2, <2>3 DEF NoNewJudgement
<1> QED
  BY <1>1, <1>2, <1>6, <1>7 DEF PairInv, OnRow

\* A reviewer decides on a row.
LEMMA PairDecided ==
  ASSUME PairInv, NEW t \in Callers, task[t].op \in {"resolve", "dismiss"},
         NEW status \in {"resolved", "dismissed"}, Kb!DecidePair(t, task[t].id, status), Kb!End(t),
         UNCHANGED <<hidden, proposal, articles>>
  PROVE  PairInv'
<1>1. task' \in [Callers -> TaskSlots] /\ task'[t] = Kb!Idle /\ \A u \in Callers \ {t} : task'[u] = task[u]
  BY TaskMoves, IdleTask DEF PairInv, Kb!End
<1>2. \A u \in Callers : OnRow(task'[u])
  BY <1>1, IdleTask, BoundsAssumption DEF PairInv, OnRow
<1>3. PICK r : r = task[t].id
  OBVIOUS
<1>4. r \in Pairs /\ task[t].attempts \in Nat /\ task[t].attempts <= MaxAttempts
  BY <1>3 DEF PairInv, OnRow, TaskSlots
<1>5. PICK row : row = [status |-> status, attempts |-> task[t].attempts]
  OBVIOUS
<1>6. /\ row \in [status : Kb!Open \cup {"none", "resolved", "dismissed"}, attempts : 0 .. MaxAttempts]
      /\ row.status \notin Kb!Open /\ row.status # "none"
  BY <1>4, <1>5, BoundsAssumption DEF Kb!Open
<1>7. /\ conflict' = [conflict EXCEPT ![r] = row]
      /\ decided' = decided \cup {Kb!Pair} /\ asked' = asked \ {r}
  BY <1>3, <1>5 DEF Kb!DecidePair
<1>8. /\ conflict' \in [Pairs -> [status : Kb!Open \cup {"none", "resolved", "dismissed"},
                                  attempts : 0 .. MaxAttempts]]
      /\ conflict'[r] = row /\ \A q \in Pairs \ {r} : conflict'[q] = conflict[q]
  BY <1>4, <1>6, <1>7 DEF PairInv, Kb!TypeOK
<1>9. crossed' \in {crossed, crossed \cup {Kb!Pair}}
  BY DEF Kb!DecidePair
<1>10. Kb!TypeOK'
  BY <1>7, <1>8, <1>9 DEF PairInv, Kb!TypeOK
<1>11. ASSUME Kb!Pair \in decided' \ crossed' PROVE NoNewJudgement'
  <2>1. /\ \A u \in Callers \ {t} : task[u].op \notin Kb!OnPair
        /\ \A q \in Kb!Recorded \ {r} : conflict[q].status \notin Kb!Open
    BY <1>3, <1>11 DEF Kb!DecidePair, Kb!Others
  <2>2. r \in Kb!Recorded'
    BY <1>4, <1>6, <1>8 DEF Kb!Recorded
  <2>3. \A q \in (Kb!Recorded \ asked)' : conflict'[q].status \notin Kb!Open
    BY <1>6, <1>8, <2>1 DEF Kb!Recorded
  <2>4. \A u \in Callers : task'[u].op \in {"scan", "retry"} => task'[u].id \in asked'
    BY <1>1, <2>1, IdleTask DEF Kb!OnPair
  <2> QED
    BY <2>2, <2>3, <2>4 DEF NoNewJudgement
<1> QED
  BY <1>1, <1>2, <1>7, <1>10, <1>11 DEF PairInv, OnRow

LEMMA ScanKeeps == ASSUME PairInv, NEW t \in Callers, Kb!ScanTake(t) \/ Kb!ScanSave(t) PROVE PairInv'
<1> USE BoundsAssumption
<1>1. CASE Kb!ScanTake(t)
  <2>1. PICK id \in IF Kb!Recorded = {} THEN {0} ELSE Kb!Recorded :
          Kb!Begin(t, [op |-> "scan", pc |-> "save", id |-> id,
                       attempts |-> IF id = 0 THEN 0 ELSE conflict[id].attempts])
    BY <1>1 DEF Kb!ScanTake
  <2>2. PICK tried : tried = IF id = 0 THEN 0 ELSE conflict[id].attempts
    OBVIOUS
  <2>3. PICK slot : slot = [op |-> "scan", pc |-> "save", id |-> id, attempts |-> tried]
    OBVIOUS
  <2>4. /\ task' = [task EXCEPT ![t] = slot] /\ Kb!Known = {}
        /\ UNCHANGED <<hidden, asked, conflict, proposal, articles, crossed, decided>>
    BY <1>1, <2>1, <2>2, <2>3
       DEF Kb!ScanTake, Kb!Begin, Kb!KeepPair, Kb!KeepProposals, Kb!KeepHistory
  <2>5. id \in Pairs \cup {0}
    BY <2>1 DEF Kb!Recorded
  <2>6. id # 0 => id \in Kb!Recorded /\ conflict[id].status = "failed" /\ conflict[id].attempts < MaxAttempts
                  /\ conflict[id].attempts \in Nat
    <3> SUFFICES ASSUME id # 0 PROVE id \in Kb!Recorded /\ conflict[id].status = "failed"
                                     /\ conflict[id].attempts < MaxAttempts /\ conflict[id].attempts \in Nat
      OBVIOUS
    <3>1. id \in Kb!Recorded
      BY <2>1
    <3>2. conflict[id] \in [status : Kb!Open \cup {"none", "resolved", "dismissed"}, attempts : 0 .. MaxAttempts]
      BY <3>1 DEF Kb!Recorded, PairInv, Kb!TypeOK
    <3>3. conflict[id].attempts \in 0 .. MaxAttempts
      BY <3>2
    <3> QED
      BY <2>4, <3>1, <3>3 DEF Kb!Known
  <2>7. tried \in Nat /\ tried < MaxAttempts
    BY <2>2, <2>6
  <2>8. slot \in TaskSlots /\ slot.op = "scan" /\ slot.id = id /\ slot.attempts = tried
    BY <2>3, <2>5, <2>7 DEF TaskSlots
  <2>9. OnRow(slot)
    BY <2>5, <2>7, <2>8 DEF OnRow
  <2>10. Kb!Pair \in decided \ crossed => id \in asked
    <3> SUFFICES ASSUME Kb!Pair \in decided \ crossed PROVE id \in asked
      OBVIOUS
    <3>1. id \in Kb!Recorded
      BY <2>1 DEF PairInv, NoNewJudgement
    <3>2. id # 0
      BY <3>1, MarksAssumption DEF Kb!Recorded
    <3> QED
      BY <2>6, <3>1, <3>2 DEF PairInv, NoNewJudgement, Kb!Open
  <2> QED
    BY <2>4, <2>8, <2>9, <2>10, PairLoads DEF PairInv, Kb!TypeOK
<1>2. CASE Kb!ScanSave(t)
  <2>1. PICK r \in IF task[t].id = 0 THEN Pairs \ Kb!Recorded ELSE {task[t].id} : \E status \in Kb!Open :
          conflict' = [conflict EXCEPT ![r] = [status |-> status, attempts |-> task[t].attempts + 1]]
    BY <1>2 DEF Kb!ScanSave
  <2>2. PICK status \in Kb!Open :
          conflict' = [conflict EXCEPT ![r] = [status |-> status, attempts |-> task[t].attempts + 1]]
    BY <2>1
  <2>3. PICK tried : tried = task[t].attempts + 1
    OBVIOUS
  <2>4. task[t].op = "scan" /\ task[t].attempts \in Nat /\ OnRow(task[t])
    BY <1>2 DEF Kb!ScanSave, PairInv, TaskSlots
  <2>5. r \in Pairs /\ tried \in Nat /\ tried <= MaxAttempts
    BY <2>1, <2>3, <2>4 DEF OnRow
  <2>6. conflict' = [conflict EXCEPT ![r] = [status |-> status, attempts |-> tried]]
    BY <2>2, <2>3
  <2>7. Kb!Pair \in decided \ crossed => r \in asked
    <3> SUFFICES ASSUME Kb!Pair \in decided \ crossed PROVE r \in asked
      OBVIOUS
    <3>1. task[t].id \in asked /\ asked \subseteq Pairs
      BY <2>4 DEF PairInv, NoNewJudgement, Kb!TypeOK
    <3>2. task[t].id # 0
      BY <3>1, MarksAssumption
    <3> QED
      BY <2>1, <3>1, <3>2
  <2>8. Kb!End(t) /\ UNCHANGED <<hidden, proposal, articles, crossed, asked, decided>>
    BY <1>2 DEF Kb!ScanSave, Kb!KeepProposals, Kb!KeepHistory
  <2> QED
    BY <2>5, <2>6, <2>7, <2>8, PairJudged
<1> QED
  BY <1>1, <1>2

\* A call that loads a row of the pair.
LEMMA RowLoaded ==
  ASSUME PairInv, NEW r \in Kb!Recorded, NEW op \in {"retry", "resolve", "dismiss"}, NEW pc \in {"save", "hide"},
         op = "retry" => conflict[r].attempts < MaxAttempts,
         NEW slot, slot = [op |-> op, pc |-> pc, id |-> r, attempts |-> conflict[r].attempts]
  PROVE  slot \in TaskSlots /\ OnRow(slot) /\ slot.op = op /\ slot.id = r
<1>1. conflict[r] \in [status : Kb!Open \cup {"none", "resolved", "dismissed"}, attempts : 0 .. MaxAttempts]
      /\ r \in Pairs
  BY DEF Kb!Recorded, PairInv, Kb!TypeOK
<1>2. conflict[r].attempts \in Nat /\ conflict[r].attempts <= MaxAttempts
  BY <1>1, BoundsAssumption
<1>3. slot \in TaskSlots /\ slot.op = op /\ slot.id = r /\ slot.attempts = conflict[r].attempts
  BY <1>1, <1>2 DEF TaskSlots
<1> QED
  BY <1>1, <1>2, <1>3 DEF OnRow

LEMMA RetryKeeps == ASSUME PairInv, NEW t \in Callers, Kb!RetryLoad(t) \/ Kb!RetrySave(t) PROVE PairInv'
<1> USE BoundsAssumption
<1>1. CASE Kb!RetryLoad(t)
  <2>1. PICK r \in Kb!Recorded :
          /\ conflict[r].attempts < MaxAttempts
          /\ Kb!Begin(t, [op |-> "retry", pc |-> "save", id |-> r, attempts |-> conflict[r].attempts])
          /\ asked' = asked \cup {r}
    BY <1>1 DEF Kb!RetryLoad
  <2>2. PICK slot : slot = [op |-> "retry", pc |-> "save", id |-> r, attempts |-> conflict[r].attempts]
    OBVIOUS
  <2>3. /\ task' = [task EXCEPT ![t] = slot]
        /\ UNCHANGED <<hidden, conflict, proposal, articles, crossed, decided>>
    BY <1>1, <2>1, <2>2 DEF Kb!RetryLoad, Kb!Begin, Kb!KeepPair, Kb!KeepProposals
  <2>4. slot \in TaskSlots /\ OnRow(slot) /\ slot.op = "retry" /\ slot.id = r
    BY <2>1, <2>2, RowLoaded
  <2>5. asked' \subseteq Pairs /\ asked \subseteq asked' /\ r \in asked'
    BY <2>1 DEF PairInv, Kb!TypeOK, Kb!Recorded
  <2>6. hidden' \subseteq {"a", "b"}
    BY <2>3 DEF PairInv, Kb!TypeOK
  <2> QED
    BY <2>3, <2>4, <2>5, <2>6, PairLoads
<1>2. CASE Kb!RetrySave(t)
  <2>1. PICK r : r = task[t].id
    OBVIOUS
  <2>2. PICK tried : tried = task[t].attempts + 1
    OBVIOUS
  <2>3. PICK status \in Kb!Open : conflict' = [conflict EXCEPT ![r] = [status |-> status, attempts |-> tried]]
    BY <1>2, <2>1, <2>2 DEF Kb!RetrySave
  <2>4. task[t].op = "retry" /\ task[t].attempts \in Nat /\ OnRow(task[t])
    BY <1>2 DEF Kb!RetrySave, PairInv, TaskSlots
  <2>5. r \in Pairs /\ tried \in Nat /\ tried <= MaxAttempts
    BY <2>1, <2>2, <2>4 DEF OnRow
  <2>6. Kb!Pair \in decided \ crossed => r \in asked
    BY <2>1, <2>4 DEF PairInv, NoNewJudgement
  <2>7. Kb!End(t) /\ UNCHANGED <<hidden, proposal, articles, crossed, asked, decided>>
    BY <1>2 DEF Kb!RetrySave, Kb!KeepProposals, Kb!KeepHistory
  <2> QED
    BY <2>3, <2>5, <2>6, <2>7, PairJudged
<1> QED
  BY <1>1, <1>2

LEMMA ReviewPairKeeps ==
  ASSUME PairInv, NEW t \in Callers,
         \/ Kb!ResolveLoad(t) \/ Kb!ResolveHide(t) \/ Kb!ResolveSave(t)
         \/ Kb!DismissLoad(t) \/ Kb!DismissSave(t)
  PROVE  PairInv'
<1>0. asked \subseteq Pairs /\ hidden \subseteq {"a", "b"}
  BY DEF PairInv, Kb!TypeOK
<1>1. CASE Kb!ResolveLoad(t) \/ Kb!DismissLoad(t)
  <2>1. PICK r \in Kb!Recorded, op \in {"resolve", "dismiss"}, pc \in {"hide", "save"} :
          Kb!Begin(t, [op |-> op, pc |-> pc, id |-> r, attempts |-> conflict[r].attempts])
    BY <1>1 DEF Kb!ResolveLoad, Kb!DismissLoad
  <2>2. PICK slot : slot = [op |-> op, pc |-> pc, id |-> r, attempts |-> conflict[r].attempts]
    OBVIOUS
  <2>3. /\ task' = [task EXCEPT ![t] = slot]
        /\ UNCHANGED <<hidden, conflict, proposal, articles, crossed, asked, decided>>
    BY <1>1, <2>1, <2>2
       DEF Kb!ResolveLoad, Kb!DismissLoad, Kb!Begin, Kb!KeepPair, Kb!KeepProposals, Kb!KeepHistory
  <2>4. slot \in TaskSlots /\ OnRow(slot) /\ slot.op = op
    BY <2>1, <2>2, RowLoaded
  <2> QED
    BY <1>0, <2>1, <2>3, <2>4, PairLoads
<1>2. CASE Kb!ResolveHide(t)
  <2>1. PICK slot : slot = [task[t] EXCEPT !.pc = "save"]
    OBVIOUS
  <2>2. task[t] \in TaskSlots /\ OnRow(task[t]) /\ task[t].op = "resolve"
    BY <1>2 DEF PairInv, Kb!ResolveHide
  <2>3. /\ slot \in TaskSlots /\ slot.op = "resolve" /\ slot.id = task[t].id
        /\ slot.attempts = task[t].attempts
    BY <2>1, <2>2 DEF TaskSlots
  <2>4. OnRow(slot)
    BY <2>2, <2>3 DEF OnRow
  <2>5. /\ task' = [task EXCEPT ![t] = slot]
        /\ hidden' \in {hidden, hidden \cup {"a"}, hidden \cup {"b"}}
        /\ UNCHANGED <<conflict, proposal, articles, crossed, asked, decided>>
    BY <1>2, <2>1, <2>2 DEF Kb!ResolveHide, Kb!KeepProposals, Kb!KeepHistory, PairInv
  <2>6. hidden' \subseteq {"a", "b"}
    BY <1>0, <2>5
  <2> QED
    BY <1>0, <2>3, <2>4, <2>5, <2>6, PairLoads
<1>3. CASE Kb!ResolveSave(t)
  BY <1>3, PairDecided DEF Kb!ResolveSave, Kb!KeepProposals
<1>4. CASE Kb!DismissSave(t)
  BY <1>4, PairDecided DEF Kb!DismissSave, Kb!KeepProposals
<1> QED
  BY <1>1, <1>2, <1>3, <1>4

LEMMA NextPair == PairInv /\ (Kb!PairNext \/ UNCHANGED kbVars) => PairInv'
<1> SUFFICES ASSUME PairInv, Kb!PairNext \/ UNCHANGED kbVars PROVE PairInv'
  OBVIOUS
<1>1. CASE UNCHANGED <<conflict, proposal, articles, task, crossed, asked, decided>> /\ hidden' \subseteq {"a", "b"}
  BY <1>1 DEF PairInv, Kb!TypeOK, OnRow, NoNewJudgement, Kb!Recorded
<1>2. Kb!Unhide \/ UNCHANGED kbVars =>
        UNCHANGED <<conflict, proposal, articles, task, crossed, asked, decided>> /\ hidden' \subseteq {"a", "b"}
  BY DEF Kb!Unhide, kbVars, PairInv, Kb!TypeOK, Kb!KeepProposals, Kb!KeepHistory
<1> QED
  BY <1>1, <1>2, ScanKeeps, RetryKeeps, ReviewPairKeeps DEF Kb!PairNext

-----------------------------------------------------------------------------
(* KbReview, the proposals: how many documents one has become, as long as   *)
(* no decision on it has crossed another.                                   *)

\* What a call on proposals carries.
OnDraft(slot) ==
  /\ slot.op \in {"none", "propose", "approve", "reject"}
  /\ slot.op \in {"approve", "reject"} => slot.id \in Drafts
  /\ slot.op = "approve" => slot.pc \in {"document", "save"}
  /\ slot.op = "reject" => slot.pc = "save"

Reviewing(d) == {t \in Callers : task[t].op \in {"approve", "reject"} /\ task[t].id = d}
Written(slot) == IF slot.op = "approve" /\ slot.pc = "save" THEN 1 ELSE 0

\* A proposal under review keeps its reviewer until it is decided; with one reviewer, the
\* documents are those that this one has written.
OneDocument(d) ==
  d \notin crossed =>
    IF d \in decided
    THEN /\ Reviewing(d) = {} /\ proposal[d] \in {"approved", "rejected"}
         /\ articles[d] = IF proposal[d] = "approved" THEN 1 ELSE 0
    ELSE /\ Reviewing(d) = {} => articles[d] = 0
         /\ \A t \in Callers : Reviewing(d) = {t} => articles[d] = Written(task[t])

ProposalInv ==
  /\ Kb!TypeOK /\ articles \in [Drafts -> Nat]
  /\ task \in [Callers -> TaskSlots] /\ (\A t \in Callers : OnDraft(task[t]))
  /\ decided \subseteq Drafts
  /\ \A d \in Drafts : OneDocument(d)

LEMMA ProposalDecides == ProposalInv => Kb!DecisionsStand
  BY MarksAssumption DEF ProposalInv, OneDocument, Kb!DecisionsStand, Kb!Pair

LEMMA InitProposal == Kb!Init => ProposalInv
<1> SUFFICES ASSUME Kb!Init PROVE ProposalInv
  OBVIOUS
<1>1. \A t \in Callers : OnDraft(task[t])
  BY IdleTask DEF Kb!Init, OnDraft
<1>2. \A d \in Drafts : OneDocument(d)
  BY IdleTask DEF Kb!Init, OneDocument, Reviewing
<1> QED
  BY <1>1, <1>2, InitTypes DEF Kb!Init, ProposalInv

\* A call that reviews nothing moves, and the documents stay.
LEMMA NotReviewed ==
  ASSUME ProposalInv, NEW t \in Callers, NEW slot \in TaskSlots, task' = [task EXCEPT ![t] = slot],
         task[t].op \in {"none", "propose"}, slot.op \in {"none", "propose"},
         UNCHANGED <<articles, crossed, decided>>,
         \A d \in decided \ crossed : proposal'[d] = proposal[d]
  PROVE  (\A u \in Callers : OnDraft(task'[u])) /\ \A d \in Drafts : OneDocument(d)'
<1>1. task' \in [Callers -> TaskSlots] /\ task'[t] = slot /\ \A u \in Callers \ {t} : task'[u] = task[u]
  BY TaskMoves DEF ProposalInv
<1>2. \A u \in Callers : OnDraft(task'[u])
  BY <1>1 DEF ProposalInv, OnDraft
<1>3. ASSUME NEW d \in Drafts PROVE OneDocument(d)'
  <2>1. Reviewing(d)' = Reviewing(d) /\ t \notin Reviewing(d)
    BY <1>1 DEF Reviewing
  <2>2. \A u \in Reviewing(d) : Written(task'[u]) = Written(task[u])
    BY <1>1, <2>1 DEF Reviewing
  <2>3. OneDocument(d)
    BY DEF ProposalInv
  <2>4. CASE d \in decided
    BY <2>1, <2>3, <2>4 DEF OneDocument
  <2>5. CASE d \notin decided
    <3>1. \A u \in Callers : Reviewing(d) = {u} => u \in Reviewing(d)
      OBVIOUS
    <3>2. \A u \in Callers : Reviewing(d) = {u} /\ d \notin crossed => articles[d] = Written(task'[u])
      BY <2>2, <2>3, <2>5, <3>1 DEF OneDocument
    <3>3. \A u \in Callers : Written(task'[u]) = Written(task[u])'
      BY DEF Written
    <3> QED
      BY <2>1, <2>3, <2>5, <3>2, <3>3 DEF OneDocument
  <2> QED
    BY <2>4, <2>5
<1> QED
  BY <1>2, <1>3

LEMMA ProposeKeeps ==
  ASSUME ProposalInv, NEW t \in Callers, Kb!ProposeLook(t) \/ Kb!ProposeSave(t) PROVE ProposalInv'
<1>1. CASE Kb!ProposeLook(t)
  <2>1. PICK slot : slot = [Kb!Idle EXCEPT !.op = "propose", !.pc = "save"]
    OBVIOUS
  <2>2. slot \in TaskSlots /\ slot.op = "propose" /\ slot.pc = "save"
    BY <2>1, IdleTask DEF TaskSlots
  <2>3. /\ task' = [task EXCEPT ![t] = slot] /\ task[t].pc = "idle"
        /\ UNCHANGED <<hidden, asked, conflict, proposal, articles, crossed, decided>>
    BY <1>1, <2>1 DEF Kb!ProposeLook, Kb!Begin, Kb!KeepPair, Kb!KeepProposals, Kb!KeepHistory
  <2>4. task[t].op \in {"none", "propose"}
    <3>1. OnDraft(task[t])
      BY DEF ProposalInv
    <3> QED
      BY <2>3, <3>1 DEF OnDraft
  <2>5. task' \in [Callers -> TaskSlots]
    BY <2>2, <2>3, TaskMoves DEF ProposalInv
  <2>6. (\A u \in Callers : OnDraft(task'[u])) /\ \A d \in Drafts : OneDocument(d)'
    BY <2>2, <2>3, <2>4, NotReviewed
  <2> QED
    BY <2>3, <2>5, <2>6 DEF ProposalInv, Kb!TypeOK, OnDraft
<1>2. CASE Kb!ProposeSave(t)
  <2>1. PICK d \in Drafts : proposal[d] = "none" /\ proposal' = [proposal EXCEPT ![d] = "pending"]
    BY <1>2 DEF Kb!ProposeSave
  <2>2. /\ task' = [task EXCEPT ![t] = Kb!Idle] /\ task[t].op = "propose"
        /\ UNCHANGED <<hidden, asked, conflict, articles, crossed, decided>>
    BY <1>2 DEF Kb!ProposeSave, Kb!End, Kb!KeepPair, Kb!KeepHistory
  <2>3. proposal' \in [Drafts -> {"none", "pending", "approved", "rejected"}]
    BY <2>1 DEF ProposalInv, Kb!TypeOK
  <2>4. task' \in [Callers -> TaskSlots]
    BY <2>2, IdleTask, TaskMoves DEF ProposalInv
  <2>5. \A e \in decided \ crossed : proposal'[e] = proposal[e]
    BY <2>1 DEF ProposalInv, OneDocument, Kb!TypeOK
  <2>6. (\A u \in Callers : OnDraft(task'[u])) /\ \A e \in Drafts : OneDocument(e)'
    BY <2>2, <2>5, IdleTask, NotReviewed
  <2> QED
    BY <2>2, <2>3, <2>4, <2>6 DEF ProposalInv, Kb!TypeOK, OnDraft
<1> QED
  BY <1>1, <1>2

LEMMA ReviewLoadKeeps == ASSUME ProposalInv, NEW t \in Callers, Kb!ReviewLoad(t) PROVE ProposalInv'
<1>1. PICK d \in Drafts, op \in {"approve", "reject"} :
        /\ proposal[d] = "pending" /\ task[t].pc = "idle"
        /\ task' = [task EXCEPT ![t] = [Kb!Idle EXCEPT !.op = op, !.id = d,
                                              !.pc = IF op = "approve" THEN "document" ELSE "save"]]
  BY DEF Kb!ReviewLoad, Kb!RequirePending, Kb!Begin
<1>2. PICK pc \in {"document", "save"} : pc = IF op = "approve" THEN "document" ELSE "save"
  OBVIOUS
<1>3. PICK slot : slot = [Kb!Idle EXCEPT !.op = op, !.id = d, !.pc = pc]
  OBVIOUS
<1>4. slot \in TaskSlots /\ slot.op = op /\ slot.id = d /\ slot.pc = pc
  BY <1>3, IdleTask DEF TaskSlots
<1>5. UNCHANGED <<conflict, hidden, proposal, articles, crossed, asked, decided>>
  BY DEF Kb!ReviewLoad, Kb!KeepPair, Kb!KeepProposals, Kb!KeepHistory
<1>6. task' \in [Callers -> TaskSlots] /\ task'[t] = slot /\ \A u \in Callers \ {t} : task'[u] = task[u]
  BY <1>1, <1>2, <1>3, <1>4, TaskMoves DEF ProposalInv
<1>7. \A u \in Callers : OnDraft(task'[u])
  BY <1>2, <1>4, <1>6 DEF ProposalInv, OnDraft
<1>8. task[t].op \in {"none", "propose"}
  <2>1. OnDraft(task[t])
    BY DEF ProposalInv
  <2> QED
    BY <1>1, <2>1 DEF OnDraft
<1>9. \A e \in Drafts : OneDocument(e)'
  <2> SUFFICES ASSUME NEW e \in Drafts, e \notin crossed PROVE OneDocument(e)'
    BY <1>5 DEF OneDocument
  <2>0. OneDocument(e)
    BY DEF ProposalInv
  <2>1. CASE e = d
    <3>1. d \notin decided
      BY <1>1, <2>0, <2>1 DEF OneDocument
    <3>2. Reviewing(d)' = Reviewing(d) \cup {t} /\ t \notin Reviewing(d)
      BY <1>4, <1>6, <1>8 DEF Reviewing
    <3>3. ASSUME NEW u \in Callers, Reviewing(d)' = {u} PROVE articles[d] = 0 /\ Written(task'[u]) = 0
      BY <1>2, <1>4, <1>6, <2>0, <2>1, <3>1, <3>2, <3>3 DEF OneDocument, Written
    <3>4. \A u \in Callers : Written(task'[u]) = Written(task[u])'
      BY DEF Written
    <3> QED
      BY <1>5, <2>1, <3>1, <3>2, <3>3, <3>4 DEF OneDocument
  <2>2. CASE e # d
    <3>1. Reviewing(e)' = Reviewing(e) /\ t \notin Reviewing(e)
      BY <1>4, <1>6, <1>8, <2>2 DEF Reviewing
    <3>2. \A u \in Callers : Reviewing(e) = {u} => Written(task[u])' = Written(task[u])
      BY <1>6, <3>1 DEF Reviewing, Written
    <3> QED
      BY <1>5, <2>0, <3>1, <3>2 DEF OneDocument
  <2> QED
    BY <2>1, <2>2
<1> QED
  BY <1>5, <1>6, <1>7, <1>9 DEF ProposalInv, Kb!TypeOK, OnDraft

\* A review ends, or is given up after its document was written.
LEMMA DocumentKeeps == ASSUME ProposalInv, NEW t \in Callers, Kb!ApproveDocument(t) PROVE ProposalInv'
<1>1. PICK d : d = task[t].id
  OBVIOUS
<1>2. PICK slot \in {[task[t] EXCEPT !.pc = "save"], Kb!Idle} :
        /\ task' = [task EXCEPT ![t] = slot]
        /\ IF slot.op = "approve" THEN slot = [task[t] EXCEPT !.pc = "save"] /\ crossed' = crossed
           ELSE slot = Kb!Idle /\ crossed' = crossed \cup {d}
  <2>1. task[t] \in TaskSlots /\ task[t].op = "approve"
    BY DEF ProposalInv, Kb!ApproveDocument
  <2>2. [task[t] EXCEPT !.pc = "save"].op = "approve"
    BY <2>1 DEF TaskSlots
  <2>3. CASE task' = [task EXCEPT ![t].pc = "save"] /\ UNCHANGED crossed
    BY <2>2, <2>3 DEF ProposalInv
  <2>4. CASE Kb!End(t) /\ crossed' = crossed \cup {task[t].id}
    BY <1>1, <2>4, IdleTask DEF Kb!End
  <2> QED
    BY <2>3, <2>4 DEF Kb!ApproveDocument
<1>3. /\ task[t] \in TaskSlots /\ OnDraft(task[t]) /\ task[t].op = "approve" /\ task[t].pc = "document"
      /\ articles[d] < Kb!Cardinality(Callers) + 1
      /\ articles' = [articles EXCEPT ![d] = @ + 1]
      /\ UNCHANGED <<proposal, asked, decided, conflict, hidden>>
      /\ d \in Drafts /\ articles[d] \in Nat
  <2>1. task[t] \in TaskSlots /\ OnDraft(task[t]) /\ articles \in [Drafts -> Nat]
    BY DEF ProposalInv
  <2>2. /\ task[t].op = "approve" /\ task[t].pc = "document"
        /\ articles[d] < Kb!Cardinality(Callers) + 1
        /\ articles' = [articles EXCEPT ![d] = @ + 1]
        /\ UNCHANGED <<proposal, asked, decided, conflict, hidden>>
    BY <1>1 DEF Kb!ApproveDocument, Kb!KeepPair
  <2>3. d \in Drafts
    BY <1>1, <2>1, <2>2 DEF OnDraft
  <2> QED
    BY <2>1, <2>2, <2>3
<1>4. /\ slot \in TaskSlots
      /\ slot.op = "approve" => slot.pc = "save" /\ slot.id = d /\ crossed' = crossed
      /\ slot.op # "approve" => slot.op = "none" /\ crossed' = crossed \cup {d}
  BY <1>1, <1>2, <1>3, IdleTask DEF TaskSlots
<1>5. task' \in [Callers -> TaskSlots] /\ task'[t] = slot /\ \A u \in Callers \ {t} : task'[u] = task[u]
  BY <1>2, <1>4, TaskMoves DEF ProposalInv
<1>6. \A u \in Callers : OnDraft(task'[u])
  BY <1>3, <1>4, <1>5 DEF ProposalInv, OnDraft
<1>7. /\ articles' \in [Drafts -> Nat] /\ articles'[d] = articles[d] + 1
      /\ \A e \in Drafts \ {d} : articles'[e] = articles[e]
  BY <1>3 DEF ProposalInv
<1>8. \A e \in Drafts : articles'[e] \in 0 .. Kb!Cardinality(Callers) + 1
  <2>1. PICK n \in Nat : n = Kb!Cardinality(Callers) + 1
    BY CallersCount
  <2>2. \A e \in Drafts : articles[e] \in 0 .. n
    BY <2>1 DEF ProposalInv, Kb!TypeOK
  <2>3. articles[d] < n
    BY <1>3, <2>1
  <2>4. \A e \in Drafts : articles'[e] \in 0 .. n
    BY <1>3, <1>7, <2>2, <2>3
  <2> QED
    BY <2>1, <2>4
<1>9. crossed' \subseteq Drafts \cup {Kb!Pair}
  BY <1>3, <1>4 DEF ProposalInv, Kb!TypeOK
<1>10. Kb!TypeOK'
  BY <1>3, <1>8, <1>9 DEF ProposalInv, Kb!TypeOK
<1>11. \A e \in Drafts : OneDocument(e)'
  <2> SUFFICES ASSUME NEW e \in Drafts, e \notin crossed' PROVE OneDocument(e)'
    BY DEF OneDocument
  <2>0. OneDocument(e) /\ e \notin crossed
    BY <1>4 DEF ProposalInv
  <2>1. CASE e = d
    <3>1. slot.op = "approve" /\ slot.pc = "save" /\ slot.id = d
      BY <1>4, <2>1
    <3>2. t \in Reviewing(d)
      BY <1>1, <1>3 DEF Reviewing
    <3>3. d \notin decided
      BY <2>0, <2>1, <3>2 DEF OneDocument
    <3>4. Reviewing(d)' = Reviewing(d)
      BY <1>5, <3>1, <3>2 DEF Reviewing
    <3>5. ASSUME NEW u \in Callers, Reviewing(d) = {u} PROVE articles'[d] = Written(task[u])'
      <4>1. u = t
        BY <3>2, <3>5
      <4>2. articles[d] = Written(task[t])
        BY <2>0, <2>1, <3>3, <3>5, <4>1 DEF OneDocument
      <4>3. articles[d] = 0
        BY <1>3, <4>2 DEF Written
      <4>4. Written(task[t])' = 1
        BY <1>5, <3>1 DEF Written
      <4> QED
        BY <1>7, <4>1, <4>3, <4>4
    <3> QED
      BY <1>3, <2>1, <3>2, <3>3, <3>4, <3>5 DEF OneDocument
  <2>2. CASE e # d
    <3>1. t \notin Reviewing(e) /\ Reviewing(e)' = Reviewing(e)
      BY <1>1, <1>4, <1>5, <2>2 DEF Reviewing
    <3>2. \A u \in Callers : Reviewing(e) = {u} => Written(task[u])' = Written(task[u])
      BY <1>5, <3>1 DEF Reviewing, Written
    <3> QED
      BY <1>3, <1>7, <2>0, <2>2, <3>1, <3>2 DEF OneDocument
  <2> QED
    BY <2>1, <2>2
<1> QED
  BY <1>3, <1>5, <1>6, <1>7, <1>10, <1>11 DEF ProposalInv, OnDraft

LEMMA ReviewSaveKeeps == ASSUME ProposalInv, NEW t \in Callers, Kb!ReviewSave(t) PROVE ProposalInv'
<1>1. PICK d : d = task[t].id
  OBVIOUS
<1>2. PICK made \in {"approved", "rejected"} :
        made = IF task[t].op = "approve" THEN "approved" ELSE "rejected"
  OBVIOUS
<1>3. /\ task[t].op \in {"approve", "reject"} /\ task[t].pc = "save" /\ d \in Drafts
      /\ proposal' = [proposal EXCEPT ![d] = made]
      /\ decided' = decided \cup {d}
      /\ crossed' = IF \E u \in Callers \ {t} : task[u].op \in {"approve", "reject"} /\ task[u].id = d
                    THEN crossed \cup {d} ELSE crossed
      /\ task' = [task EXCEPT ![t] = Kb!Idle]
      /\ UNCHANGED <<articles, asked, conflict, hidden>>
  BY <1>1, <1>2 DEF Kb!ReviewSave, Kb!KeepPair, Kb!End, Kb!Others, ProposalInv, OnDraft
<1>4. task' \in [Callers -> TaskSlots] /\ task'[t] = Kb!Idle /\ \A u \in Callers \ {t} : task'[u] = task[u]
  BY <1>3, IdleTask, TaskMoves DEF ProposalInv
<1>5. \A u \in Callers : OnDraft(task'[u])
  BY <1>4, IdleTask DEF ProposalInv, OnDraft
<1>6. /\ proposal' \in [Drafts -> {"none", "pending", "approved", "rejected"}]
      /\ proposal'[d] = made /\ \A e \in Drafts \ {d} : proposal'[e] = proposal[e]
  BY <1>3 DEF ProposalInv, Kb!TypeOK
<1>7. crossed \subseteq crossed' /\ crossed' \subseteq crossed \cup {d}
  BY <1>3
<1>8. Kb!TypeOK'
  BY <1>3, <1>6, <1>7 DEF ProposalInv, Kb!TypeOK
<1>9. \A e \in Drafts : OneDocument(e)'
  <2> SUFFICES ASSUME NEW e \in Drafts, e \notin crossed' PROVE OneDocument(e)'
    BY DEF OneDocument
  <2>0. OneDocument(e) /\ e \notin crossed
    BY <1>7 DEF ProposalInv
  <2>1. CASE e = d
    <3>1. Reviewing(d) = {t} /\ Reviewing(d)' = {}
      BY <1>1, <1>3, <1>4, <2>1, IdleTask DEF Reviewing
    <3>2. d \notin decided
      BY <2>0, <2>1, <3>1 DEF OneDocument
    <3>3. articles[d] = Written(task[t])
      BY <2>0, <2>1, <3>1, <3>2 DEF OneDocument
    <3>4. articles[d] = IF made = "approved" THEN 1 ELSE 0
      BY <1>2, <1>3, <3>3 DEF Written
    <3> QED
      BY <1>3, <1>6, <2>1, <3>1, <3>4 DEF OneDocument
  <2>2. CASE e # d
    <3>1. t \notin Reviewing(e) /\ Reviewing(e)' = Reviewing(e)
      BY <1>1, <1>4, <2>2, IdleTask DEF Reviewing
    <3>2. \A u \in Callers : Reviewing(e) = {u} => Written(task[u])' = Written(task[u])
      BY <1>4, <3>1 DEF Reviewing, Written
    <3>3. e \in decided' <=> e \in decided
      BY <1>3, <2>2
    <3> QED
      BY <1>3, <1>6, <2>0, <2>2, <3>1, <3>2, <3>3 DEF OneDocument
  <2> QED
    BY <2>1, <2>2
<1>10. decided' \subseteq Drafts
  BY <1>3 DEF ProposalInv
<1> QED
  BY <1>3, <1>4, <1>5, <1>8, <1>9, <1>10 DEF ProposalInv, OnDraft

LEMMA NextProposal == ProposalInv /\ (Kb!ProposalNext \/ UNCHANGED kbVars) => ProposalInv'
<1> SUFFICES ASSUME ProposalInv, Kb!ProposalNext \/ UNCHANGED kbVars PROVE ProposalInv'
  OBVIOUS
<1>1. CASE UNCHANGED kbVars
  BY <1>1 DEF kbVars, ProposalInv, Kb!TypeOK, OnDraft, OneDocument, Reviewing, Written
<1> QED
  BY <1>1, ProposeKeeps, ReviewLoadKeeps, DocumentKeeps, ReviewSaveKeeps DEF Kb!ProposalNext

-----------------------------------------------------------------------------
(* AnswerReuse: what each call carries.                                     *)

ReuseSlots == [op : {"none", "store", "edit", "off", "remove", "erase", "reindex"},
               pc : {"idle", "count", "row", "point", "flag", "save", "points", "rows"},
               ids : SUBSET Answers, on : SUBSET Answers, active : BOOLEAN, mine : BOOLEAN]

Formed(slot) ==
  /\ slot.pc = "idle" <=> slot.op = "none"
  /\ slot.op = "none" => slot.ids = {}
  /\ slot.op = "store" /\ slot.pc # "point" => slot.ids = {}
  /\ slot.op = "edit" => slot.pc \in {"flag", "save"}

ReuseTypes == Reuse!TypeOK /\ call \in [Callers -> ReuseSlots] /\ \A c \in Callers : Formed(call[c])

RowTypes == [Answers -> [state : {"unused", "live", "gone"}, active : BOOLEAN, mine : BOOLEAN]]
PointTypes == [Answers -> {"none", "on", "off"}]

(* What was switched off is known to have been in an edit, or will not be   *)
(* made active again.                                                       *)
OffKnown ==
  /\ \A x \in offed : rows[x].state # "unused"
  /\ Reuse!OffStaysOff
  /\ \A c \in Callers : call[c].op = "edit" /\ call[c].active /\ call[c].on = {} =>
       call[c].ids \cap offed \subseteq raced

IsLive(x) == rows[x].state = "live"
\* The table and the vectors agree on x.
Sound(x) ==
  /\ IsLive(x) /\ rows[x].active <=> points[x] = "on"
  /\ IsLive(x) => points[x] # "none"

\* What a call that holds x finds there, so that it leaves x sound.
Fits(slot, x) ==
  /\ slot.op = "store" => IsLive(x) /\ rows[x].active
  /\ slot.op = "edit" => /\ IsLive(x) /\ rows[x].mine = slot.mine
                         /\ slot.pc = "flag" => Sound(x)
                         /\ slot.pc = "save" => points[x] = IF slot.active THEN "on" ELSE "off"
  /\ slot.op = "off" /\ IsLive(x) => ~rows[x].active /\ points[x] # "none"
  /\ slot.op = "remove" => ~IsLive(x)
  /\ slot.op = "erase" => IF slot.pc = "rows" THEN IsLive(x) /\ rows[x].mine /\ Sound(x) ELSE ~IsLive(x)
  /\ slot.op = "reindex" => IsLive(x) /\ Sound(x) /\ (x \in slot.on <=> rows[x].active)

Holds(c, x) == x \in call[c].ids
\* Two calls hold x and one of them is slow: whichever ends first makes x loose.
Clash(x) == \E c, d \in Callers : c # d /\ Holds(c, x) /\ Holds(d, x) /\ call[c].op \in Reuse!Slow
Settled(x) ==
  /\ \A c \in Callers : Holds(c, x) => Fits(call[c], x)
  /\ (\A c \in Callers : ~Holds(c, x)) => Sound(x)
Good(x) == Clash(x) \/ Settled(x)

\* An erasure has found what it will delete.
Found == \A c \in Callers : Reuse!At(c, "erase", "rows") =>
           \A x \in Answers \ loose : IsLive(x) /\ rows[x].mine => Holds(c, x)

Kept == Found /\ \A x \in Answers \ loose : Good(x)

ReuseInv == ReuseTypes /\ OffKnown /\ Kept

-----------------------------------------------------------------------------
LEMMA IdleCall == Reuse!Idle \in ReuseSlots /\ Formed(Reuse!Idle) /\ Reuse!Idle.op = "none"
                  /\ Reuse!Idle.ids = {} /\ Reuse!Idle.on = {} /\ Reuse!Idle.pc = "idle"
                  /\ Reuse!Idle.active = FALSE
  BY DEF Reuse!Idle, ReuseSlots, Formed

LEMMA InitReuse == Reuse!Init => ReuseInv
<1> SUFFICES ASSUME Reuse!Init PROVE ReuseInv
  OBVIOUS
<1>0. /\ call \in [Callers -> ReuseSlots]
      /\ \A c \in Callers : Formed(call[c]) /\ call[c].op = "none" /\ call[c].ids = {} /\ call[c].on = {}
  BY IdleCall DEF Reuse!Init
<1>1. rows \in RowTypes /\ points \in PointTypes
  BY DEF Reuse!Init, Reuse!Unused, RowTypes, PointTypes
<1>2. \A x \in Answers : rows[x].state = "unused" /\ ~rows[x].active /\ points[x] = "none"
  BY DEF Reuse!Init, Reuse!Unused
<1>3. ReuseTypes
  BY <1>0, <1>1 DEF Reuse!Init, ReuseTypes, Reuse!TypeOK, RowTypes, PointTypes
<1>4. OffKnown
  BY <1>0 DEF Reuse!Init, OffKnown, Reuse!OffStaysOff
<1>5. \A x \in Answers : Good(x)
  BY <1>0, <1>2 DEF Good, Settled, Holds, Sound, IsLive
<1>6. Found
  BY <1>0 DEF Found, Reuse!At
<1> QED
  BY <1>3, <1>4, <1>5, <1>6 DEF ReuseInv, Kept

LEMMA ReuseRests == ReuseInv /\ UNCHANGED reuseVars => ReuseInv'
  BY DEF reuseVars, ReuseInv, ReuseTypes, Reuse!TypeOK, Formed, OffKnown, Reuse!OffStaysOff, Reuse!Replayable,
         Reuse!Live, Kept, Found, Reuse!At, Good, Clash, Settled, Holds, Fits, Sound, IsLive

LEMMA ReuseSays == ReuseInv => Reuse!OffStaysOff /\ Reuse!NothingHidesTheQuestion
<1> SUFFICES ASSUME ReuseInv PROVE Reuse!OffStaysOff /\ Reuse!NothingHidesTheQuestion
  OBVIOUS
<1>1. Reuse!NothingHidesTheQuestion
  <2> SUFFICES ASSUME \A c \in Callers : call[c].pc = "idle", NEW x \in Answers \ loose
               PROVE  x \in Reuse!Replayable <=> points[x] = "on"
    BY DEF Reuse!NothingHidesTheQuestion
  <2>1. \A c \in Callers : ~Holds(c, x)
    BY DEF ReuseInv, ReuseTypes, Formed, Holds
  <2>2. Sound(x)
    BY <2>1 DEF ReuseInv, Kept, Good, Clash, Settled
  <2> QED
    BY <2>2 DEF Sound, IsLive, Reuse!Replayable, Reuse!Live
<1> QED
  BY <1>1 DEF ReuseInv, OffKnown

\* A call moves.
LEMMA CallMoves ==
  ASSUME ReuseTypes, NEW c \in Callers, NEW slot \in ReuseSlots, Formed(slot), Reuse!Move(c, slot)
  PROVE  /\ call' \in [Callers -> ReuseSlots] /\ call'[c] = slot
         /\ \A d \in Callers \ {c} : call'[d] = call[d]
         /\ \A d \in Callers : Formed(call[d])'
<1>1. /\ call' \in [Callers -> ReuseSlots] /\ call'[c] = slot
      /\ \A d \in Callers \ {c} : call'[d] = call[d]
  BY DEF ReuseTypes, Reuse!Move
<1>2. \A d \in Callers : Formed(call'[d])
  BY <1>1 DEF ReuseTypes
<1> QED
  BY <1>1, <1>2 DEF Formed

LEMMA MetBy ==
  ASSUME NEW c \in Callers, NEW op, NEW x
  PROVE  x \in Reuse!Met(c, op) <=>
           \E d \in Callers \ {c} : /\ Holds(d, x)
              /\ call[d].op \in IF op \in Reuse!Slow THEN Reuse!Slow \cup {"off", "remove"} ELSE Reuse!Slow
<1>1. ASSUME NEW ops PROVE x \in Reuse!Holding(c, ops) <=> \E d \in Callers \ {c} : Holds(d, x) /\ call[d].op \in ops
  BY DEF Reuse!Holding, Holds
<1> QED
  BY <1>1 DEF Reuse!Met

LEMMA HoldersWork ==
  ASSUME ReuseTypes, NEW d \in Callers, NEW x, Holds(d, x)
  PROVE  call[d].op \in Reuse!Slow \cup {"off", "remove"}
  BY DEF ReuseTypes, ReuseSlots, Formed, Holds, Reuse!Slow

\* A call that has met no other on x has found x as it should, and only quick calls hold x besides.
LEMMA Unmet ==
  ASSUME ReuseTypes, NEW c \in Callers, NEW x, Good(x), Holds(c, x), x \notin Reuse!Met(c, call[c].op)
  PROVE  /\ Fits(call[c], x)
         /\ \A d \in Callers \ {c} : Holds(d, x) =>
              /\ Fits(call[d], x)
              /\ call[d].op \in {"off", "remove"} /\ call[c].op \notin Reuse!Slow
<1>1. \A d \in Callers \ {c} : Holds(d, x) => call[d].op \in {"off", "remove"} /\ call[c].op \notin Reuse!Slow
  BY MetBy, HoldersWork
<1>2. \A d \in {"off", "remove"} : d \notin Reuse!Slow
  BY DEF Reuse!Slow
<1>3. ~Clash(x)
  BY <1>1, <1>2 DEF Clash
<1> QED
  BY <1>1, <1>3 DEF Good, Settled

\* x is in none of the hands that move.
LEMMA Stays ==
  ASSUME NEW c \in Callers, NEW x, \A d \in Callers \ {c} : call'[d] = call[d],
         x \notin call[c].ids, x \notin call'[c].ids, rows'[x] = rows[x], points'[x] = points[x], Good(x)
  PROVE  Good(x)'
<1>1. \A d \in Callers : Holds(d, x)' <=> Holds(d, x)
  BY DEF Holds
<1>2. \A d \in Callers : Holds(d, x) => d # c
  BY DEF Holds
<1>3. ASSUME NEW d \in Callers, Holds(d, x), Fits(call[d], x) PROVE Fits(call[d], x)'
  BY <1>2, <1>3 DEF Fits, Sound, IsLive
<1>4. Sound(x) => Sound(x)'
  BY DEF Sound, IsLive
<1>5. Clash(x) => Clash(x)'
  BY <1>1, <1>2 DEF Clash
<1> QED
  BY <1>1, <1>3, <1>4, <1>5 DEF Good, Settled

\* A call takes x into its hands; slow ones are alone with it, or there is a clash.
LEMMA Joins ==
  ASSUME ReuseTypes, NEW c \in Callers, NEW x, \A d \in Callers \ {c} : call'[d] = call[d],
         x \notin call[c].ids, x \in call'[c].ids, Good(x),
         /\ Settled(x)
         /\ \A d \in Callers : Holds(d, x) => call[d].op \in {"off", "remove"}
         /\ call'[c].op \in Reuse!Slow => \A d \in Callers : ~Holds(d, x)
         => \A d \in Callers : Holds(d, x)' => Fits(call[d], x)'
  PROVE  Good(x)'
<1>1. \A d \in Callers : Holds(d, x)' <=> Holds(d, x) \/ d = c
  BY DEF Holds
<1>2. \A d \in Callers : Holds(d, x) => d # c /\ call'[d] = call[d] /\ call[d].op \in Reuse!Slow \cup {"off", "remove"}
  BY HoldersWork DEF Holds
<1>3. CASE \E d \in Callers : Holds(d, x) /\ (call[d].op \in Reuse!Slow \/ call'[c].op \in Reuse!Slow)
  BY <1>1, <1>2, <1>3 DEF Good, Clash
<1>4. CASE ~\E d \in Callers : Holds(d, x) /\ (call[d].op \in Reuse!Slow \/ call'[c].op \in Reuse!Slow)
  <2>1. Settled(x)
    BY <1>4 DEF Good, Clash
  <2>2. \A d \in Callers : Holds(d, x) => call[d].op \in {"off", "remove"}
    BY <1>2, <1>4
  <2>3. call'[c].op \in Reuse!Slow => \A d \in Callers : ~Holds(d, x)
    BY <1>4
  <2>4. \A d \in Callers : Holds(d, x)' => Fits(call[d], x)'
    BY <2>1, <2>2, <2>3
  <2> QED
    BY <1>1, <2>4 DEF Good, Settled
<1> QED
  BY <1>3, <1>4

\* A call goes on with x in its hands.
LEMMA GoesOn ==
  ASSUME NEW c \in Callers, NEW x, \A d \in Callers \ {c} : call'[d] = call[d],
         x \in call[c].ids, x \in call'[c].ids, call'[c].op = call[c].op, Good(x),
         Settled(x) => \A d \in Callers : Holds(d, x)' => Fits(call[d], x)'
  PROVE  Good(x)'
<1>1. \A d \in Callers : (Holds(d, x)' <=> Holds(d, x)) /\ call'[d].op = call[d].op
  BY DEF Holds
<1>2. Clash(x) => Clash(x)'
  BY <1>1 DEF Clash
<1> QED
  BY <1>2 DEF Good, Settled, Holds

\* What is kept, from the answers one by one.
LEMMA KeptOne ==
  ASSUME ReuseInv, ReuseTypes', OffKnown', loose \subseteq loose', Found',
         \A x \in Answers \ loose' : Good(x) => Good(x)'
  PROVE  ReuseInv'
  BY DEF ReuseInv, Kept

\* An erasure has still found what it will delete when no other answer became the person's.
LEMMA StillFound ==
  ASSUME ReuseInv, NEW c \in Callers, \A d \in Callers \ {c} : call'[d] = call[d], loose \subseteq loose',
         ~Reuse!At(c, "erase", "rows")',
         \A x \in Answers \ loose' : (IsLive(x) /\ rows[x].mine)' => IsLive(x) /\ rows[x].mine
  PROVE  Found'
<1> SUFFICES ASSUME NEW d \in Callers, Reuse!At(d, "erase", "rows")',
                    NEW x \in Answers \ loose', (IsLive(x) /\ rows[x].mine)'
             PROVE  Holds(d, x)'
  BY DEF Found
<1>1. d # c /\ call'[d] = call[d]
  OBVIOUS
<1>2. Reuse!At(d, "erase", "rows")
  BY <1>1 DEF Reuse!At
<1> QED
  BY <1>1, <1>2 DEF ReuseInv, Kept, Found, Holds

\* Nothing is switched off or on, and a call that is about to save an active row loaded one.
LEMMA OffStays ==
  ASSUME ReuseInv, NEW c \in Callers, \A d \in Callers \ {c} : call'[d] = call[d],
         UNCHANGED <<rows, offed, raced>>,
         call'[c].op = "edit" /\ call'[c].active /\ call'[c].on = {} => call'[c].ids \cap offed \subseteq raced
  PROVE  OffKnown'
<1>1. \A d \in Callers : call'[d].op = "edit" /\ call'[d].active /\ call'[d].on = {} =>
        call'[d].ids \cap offed \subseteq raced
  BY DEF ReuseInv, OffKnown
<1> QED
  BY <1>1 DEF ReuseInv, OffKnown, Reuse!OffStaysOff, Reuse!Replayable, Reuse!Live

\* Answers go off.
LEMMA OffGrows ==
  ASSUME ReuseInv, NEW c \in Callers, \A d \in Callers \ {c} : call'[d] = call[d],
         call'[c].op # "edit", NEW xs \in SUBSET Answers,
         offed' = offed \cup xs, raced' = raced \cup (xs \cap Reuse!Holding(c, {"edit"})),
         \A x \in Answers : rows'[x] = rows[x] \/ (x \in xs /\ rows'[x].state # "unused" /\ ~rows'[x].active),
         \A x \in xs : rows'[x].state # "unused" /\ ~(rows'[x].state = "live" /\ rows'[x].active)
  PROVE  OffKnown'
<1>0. offed \subseteq Answers
  BY DEF ReuseInv, ReuseTypes, Reuse!TypeOK
<1>1. \A x \in offed' : rows'[x].state # "unused"
  BY <1>0 DEF ReuseInv, OffKnown
<1>2. Reuse!OffStaysOff'
  BY DEF ReuseInv, OffKnown, Reuse!OffStaysOff, Reuse!Replayable, Reuse!Live
<1>3. ASSUME NEW d \in Callers, call'[d].op = "edit", call'[d].active, call'[d].on = {}
      PROVE  call'[d].ids \cap offed' \subseteq raced'
  <2>1. d # c /\ call'[d] = call[d]
    BY <1>3
  <2>2. call[d].ids \subseteq Reuse!Holding(c, {"edit"})
    BY <1>3, <2>1 DEF Reuse!Holding
  <2>3. call[d].ids \cap offed \subseteq raced
    BY <1>3, <2>1 DEF ReuseInv, OffKnown
  <2> QED
    BY <2>1, <2>2, <2>3
<1> QED
  BY <1>1, <1>2, <1>3 DEF OffKnown

LEMMA TypesStay ==
  ASSUME ReuseTypes, NEW c \in Callers, NEW slot \in ReuseSlots, Formed(slot), Reuse!Move(c, slot),
         rows' \in RowTypes, points' \in PointTypes,
         offed' \subseteq Answers, raced' \subseteq Answers, loose' \subseteq Answers
  PROVE  ReuseTypes'
<1>1. call' \in [Callers -> ReuseSlots] /\ \A d \in Callers : Formed(call[d])'
  BY CallMoves
<1>2. \A d \in Callers : call'[d].ids \cup call'[d].on \subseteq Answers
  BY <1>1 DEF ReuseSlots
<1> QED
  BY <1>1, <1>2 DEF ReuseTypes, Reuse!TypeOK, RowTypes, PointTypes

LEMMA ReuseTyped ==
  ASSUME ReuseTypes
  PROVE  /\ rows \in RowTypes /\ points \in PointTypes /\ call \in [Callers -> ReuseSlots]
         /\ offed \subseteq Answers /\ raced \subseteq Answers /\ loose \subseteq Answers
  BY DEF ReuseTypes, Reuse!TypeOK, RowTypes, PointTypes

LEMMA PointsSet ==
  ASSUME ReuseTypes, NEW c \in Callers, NEW xs \in SUBSET Answers, NEW value \in {"none", "on", "off"},
         Reuse!SetPoints(c, xs, value)
  PROVE  /\ points' \in PointTypes /\ loose \subseteq loose' /\ loose' \subseteq Answers
         /\ \A x \in Answers \ xs : points'[x] = points[x]
         /\ \A x \in xs \ loose' :
              /\ x \notin Reuse!Met(c, call[c].op)
              /\ points'[x] = IF value = "none" \/ points[x] = "none" THEN "none" ELSE value
<1>0. points \in PointTypes /\ loose \subseteq Answers
  BY ReuseTyped
<1>1. CASE UNCHANGED points /\ loose' = loose \cup xs
  BY <1>0, <1>1
<1>2. CASE /\ points' = [x \in Answers |-> IF x \notin xs THEN points[x]
                         ELSE IF value = "none" \/ points[x] = "none" THEN "none" ELSE value]
           /\ Reuse!Meet(c, xs, call[c].op)
  <2>1. points' \in PointTypes
    BY <1>0, <1>2 DEF PointTypes
  <2> QED
    BY <1>0, <1>2, <2>1 DEF Reuse!Meet
<1> QED
  BY <1>1, <1>2 DEF Reuse!SetPoints

-----------------------------------------------------------------------------
(* Calls that write no row.                                                 *)

\* A call that holds nothing and begins to look.
LEMMA StoreLooks ==
  ASSUME ReuseInv, NEW c \in Callers, Reuse!StoreSearch(c) \/ Reuse!StoreCount(c) PROVE ReuseInv'
<1>0. rows \in RowTypes /\ points \in PointTypes /\ call[c] \in ReuseSlots /\ Formed(call[c])
      /\ offed \subseteq Answers /\ raced \subseteq Answers /\ loose \subseteq Answers
  BY ReuseTyped DEF ReuseInv, ReuseTypes
<1>1. PICK slot \in ReuseSlots : /\ Reuse!Move(c, slot) /\ Formed(slot)
                                 /\ slot.op \in {"none", "store"} /\ slot.ids = {}
  <2>1. CASE Reuse!StoreSearch(c)
    <3>1. PICK mine \in BOOLEAN :
            Reuse!Begin(c, [Reuse!Idle EXCEPT !.op = "store", !.pc = "count", !.mine = mine])
      BY <2>1 DEF Reuse!StoreSearch
    <3>2. PICK slot : slot = [Reuse!Idle EXCEPT !.op = "store", !.pc = "count", !.mine = mine]
      OBVIOUS
    <3>3. slot \in ReuseSlots /\ slot.op = "store" /\ slot.pc = "count" /\ slot.ids = {}
      BY <3>2, IdleCall DEF ReuseSlots
    <3>4. Formed(slot)
      BY <3>3 DEF Formed
    <3> QED
      BY <3>1, <3>2, <3>3, <3>4 DEF Reuse!Begin
  <2>2. CASE Reuse!StoreCount(c)
    <3>1. call[c].op = "store" /\ call[c].pc = "count" /\ call[c].ids = {}
      BY <1>0, <2>2 DEF Reuse!StoreCount, Reuse!At, Formed
    <3>2. CASE Reuse!End(c)
      BY <3>2, IdleCall DEF Reuse!End
    <3>3. CASE Reuse!Move(c, [call[c] EXCEPT !.pc = "row"])
      <4>1. PICK slot : slot = [call[c] EXCEPT !.pc = "row"]
        OBVIOUS
      <4>2. slot \in ReuseSlots /\ slot.op = "store" /\ slot.pc = "row" /\ slot.ids = {}
        BY <1>0, <3>1, <4>1 DEF ReuseSlots
      <4>3. Formed(slot)
        BY <4>2 DEF Formed
      <4> QED
        BY <3>3, <4>1, <4>2, <4>3
    <3> QED
      BY <2>2, <3>2, <3>3 DEF Reuse!StoreCount
  <2> QED
    BY <2>1, <2>2
<1>2. UNCHANGED <<rows, points, offed, raced, loose>>
  BY DEF Reuse!StoreSearch, Reuse!StoreCount, Reuse!Keep
<1>3. call[c].ids = {}
  BY <1>0 DEF Reuse!StoreSearch, Reuse!StoreCount, Reuse!Begin, Reuse!At, Formed
<1>4. call'[c] = slot /\ \A d \in Callers \ {c} : call'[d] = call[d]
  BY <1>1, CallMoves DEF ReuseInv
<1>5. ReuseTypes'
  BY <1>0, <1>1, <1>2, TypesStay DEF ReuseInv
<1>6. OffKnown'
  BY <1>1, <1>2, <1>4, OffStays
<1>7. Found'
  BY <1>1, <1>2, <1>4, StillFound DEF Reuse!At, IsLive
<1>8. \A x \in Answers \ loose' : Good(x) => Good(x)'
  BY <1>1, <1>2, <1>3, <1>4, Stays
<1> QED
  BY <1>2, <1>5, <1>6, <1>7, <1>8, KeptOne

LEMMA StorePointKeeps == ASSUME ReuseInv, NEW c \in Callers, Reuse!StorePoint(c) PROVE ReuseInv'
<1>0. rows \in RowTypes /\ points \in PointTypes /\ call[c] \in ReuseSlots
      /\ offed \subseteq Answers /\ raced \subseteq Answers /\ loose \subseteq Answers
  BY ReuseTyped DEF ReuseInv, ReuseTypes
<1>1. call'[c] = Reuse!Idle /\ \A d \in Callers \ {c} : call'[d] = call[d]
  BY IdleCall, CallMoves DEF ReuseInv, Reuse!StorePoint, Reuse!End
<1>2. UNCHANGED <<rows, offed, raced>> /\ call[c].op = "store" /\ call[c].ids \subseteq Answers
  BY <1>0 DEF Reuse!StorePoint, Reuse!At, ReuseSlots
<1>3. /\ points' \in PointTypes /\ loose \subseteq loose' /\ loose' \subseteq Answers
      /\ \A x \in Answers \ call[c].ids : points'[x] = points[x]
      /\ \A x \in call[c].ids \ loose' : x \notin Reuse!Met(c, "store") /\ points'[x] = "on"
  <2>1. CASE UNCHANGED points /\ loose' = loose \cup call[c].ids
    BY <1>0, <1>2, <2>1
  <2>2. CASE /\ points' = [x \in Answers |-> IF x \in call[c].ids THEN "on" ELSE points[x]]
             /\ Reuse!Meet(c, call[c].ids, "store")
    <3>1. points' \in PointTypes
      BY <1>0, <2>2 DEF PointTypes
    <3> QED
      BY <1>0, <1>2, <2>2, <3>1 DEF Reuse!Meet
  <2> QED
    BY <2>1, <2>2 DEF Reuse!StorePoint
<1>4. ReuseTypes'
  BY <1>0, <1>2, <1>3, IdleCall, TypesStay DEF ReuseInv, Reuse!StorePoint, Reuse!End
<1>5. OffKnown'
  BY <1>1, <1>2, IdleCall, OffStays
<1>6. Found'
  BY <1>1, <1>2, <1>3, IdleCall, StillFound DEF Reuse!At, IsLive
<1>7. ASSUME NEW x \in Answers \ loose', Good(x) PROVE Good(x)'
  <2>1. CASE x \notin call[c].ids
    BY <1>1, <1>2, <1>3, <1>7, <2>1, IdleCall, Stays
  <2>2. CASE x \in call[c].ids
    <3>1. Fits(call[c], x) /\ \A d \in Callers \ {c} : ~Holds(d, x)
      BY <1>2, <1>3, <1>7, <2>2, Unmet DEF ReuseInv, Holds, Reuse!Slow
    <3>2. \A d \in Callers : ~Holds(d, x)'
      BY <1>1, <3>1, IdleCall DEF Holds
    <3>3. Sound(x)'
      BY <1>2, <1>3, <1>7, <2>2, <3>1 DEF Fits, Sound, IsLive
    <3> QED
      BY <3>2, <3>3 DEF Good, Settled
  <2> QED
    BY <2>1, <2>2
<1> QED
  BY <1>3, <1>4, <1>5, <1>6, <1>7, KeptOne

LEMMA EditLoadKeeps == ASSUME ReuseInv, NEW c \in Callers, Reuse!EditLoad(c) PROVE ReuseInv'
<1>0. rows \in RowTypes /\ points \in PointTypes /\ call[c] \in ReuseSlots /\ Formed(call[c])
      /\ offed \subseteq Answers /\ raced \subseteq Answers /\ loose \subseteq Answers
  BY ReuseTyped DEF ReuseInv, ReuseTypes
<1>1. PICK y \in Reuse!Live, patch \in {"text", "on", "off"} :
        Reuse!Begin(c, [Reuse!Idle EXCEPT !.op = "edit", !.ids = {y}, !.mine = rows[y].mine,
                          !.pc = IF patch = "text" THEN "save" ELSE "flag",
                          !.active = IF patch = "text" THEN rows[y].active ELSE patch = "on",
                          !.on = IF patch = "on" THEN {y} ELSE {}])
  BY DEF Reuse!EditLoad
<1>2. y \in Answers /\ IsLive(y) /\ rows[y].active \in BOOLEAN /\ rows[y].mine \in BOOLEAN
  BY <1>0 DEF Reuse!Live, IsLive, RowTypes
<1>3. PICK pc \in {"save", "flag"} : pc = IF patch = "text" THEN "save" ELSE "flag"
  OBVIOUS
<1>4. PICK active \in BOOLEAN : active = IF patch = "text" THEN rows[y].active ELSE patch = "on"
  BY <1>2
<1>5. PICK on \in SUBSET {y} : on = IF patch = "on" THEN {y} ELSE {}
  OBVIOUS
<1>6. PICK slot : slot = [Reuse!Idle EXCEPT !.op = "edit", !.ids = {y}, !.mine = rows[y].mine,
                          !.pc = IF patch = "text" THEN "save" ELSE "flag",
                          !.active = IF patch = "text" THEN rows[y].active ELSE patch = "on",
                          !.on = IF patch = "on" THEN {y} ELSE {}]
  OBVIOUS
<1>7. Reuse!Begin(c, slot)
  BY <1>1, <1>6
<1>8. /\ slot \in ReuseSlots /\ slot.op = "edit" /\ slot.ids = {y} /\ slot.mine = rows[y].mine
      /\ slot.pc = pc /\ slot.active = active /\ slot.on = on
  BY <1>2, <1>3, <1>4, <1>5, <1>6, IdleCall DEF ReuseSlots
<1>9. Formed(slot)
  BY <1>3, <1>8 DEF Formed
<1>10. UNCHANGED <<rows, points, offed, raced, loose>> /\ Reuse!Move(c, slot) /\ call[c].ids = {}
  BY <1>0, <1>7 DEF Reuse!EditLoad, Reuse!Keep, Reuse!Begin, Formed
<1>11. call'[c] = slot /\ \A d \in Callers \ {c} : call'[d] = call[d]
  BY <1>8, <1>9, <1>10, CallMoves DEF ReuseInv
<1>12. ReuseTypes'
  BY <1>0, <1>8, <1>9, <1>10, TypesStay DEF ReuseInv
<1>13. OffKnown'
  <2>1. active /\ on = {} => y \in Reuse!Replayable
    BY <1>1, <1>4, <1>5 DEF Reuse!Replayable
  <2>2. active /\ on = {} => {y} \cap offed \subseteq raced
    BY <2>1 DEF ReuseInv, OffKnown, Reuse!OffStaysOff
  <2> QED
    BY <1>8, <1>10, <1>11, <2>2, OffStays
<1>14. Found'
  BY <1>8, <1>10, <1>11, StillFound DEF Reuse!At, IsLive
<1>15. ASSUME NEW x \in Answers \ loose', Good(x) PROVE Good(x)'
  <2>1. CASE x # y
    BY <1>8, <1>10, <1>11, <1>15, <2>1, Stays
  <2>2. CASE x = y
    <3>1. ASSUME Sound(x) PROVE Fits(slot, x)'
      <4>1. IsLive(x)' /\ rows'[x].mine = slot.mine /\ Sound(x)'
        BY <1>2, <1>8, <1>10, <2>2, <3>1 DEF IsLive, Sound
      <4>2. pc = "save" => points[x] = IF active THEN "on" ELSE "off"
        <5> SUFFICES ASSUME pc = "save" PROVE points[x] = IF active THEN "on" ELSE "off"
          OBVIOUS
        <5>1. active = rows[x].active
          BY <1>3, <1>4, <2>2
        <5>2. points[x] \in {"none", "on", "off"}
          BY <1>0 DEF PointTypes
        <5> QED
          BY <1>2, <2>2, <3>1, <5>1, <5>2 DEF Sound
      <4> QED
        BY <1>8, <1>10, <4>1, <4>2 DEF Fits
    <3>2. Fits(slot, x)' <=> Fits(call[c], x)'
      BY <1>11 DEF Fits
    <3>3. /\ Settled(x)
          /\ call'[c].op \in Reuse!Slow => \A d \in Callers : ~Holds(d, x)
          => \A d \in Callers : Holds(d, x)' => Fits(call[d], x)'
      BY <1>8, <1>11, <3>1, <3>2 DEF Settled, Holds, Reuse!Slow
    <3> QED
      BY <1>8, <1>10, <1>11, <1>15, <2>2, <3>3, Joins DEF ReuseInv
  <2> QED
    BY <2>1, <2>2
<1> QED
  BY <1>10, <1>12, <1>13, <1>14, <1>15, KeptOne

LEMMA EditFlagKeeps == ASSUME ReuseInv, NEW c \in Callers, Reuse!EditFlag(c) PROVE ReuseInv'
<1>0. rows \in RowTypes /\ points \in PointTypes /\ call[c] \in ReuseSlots /\ Formed(call[c])
      /\ offed \subseteq Answers /\ raced \subseteq Answers /\ loose \subseteq Answers
  BY ReuseTyped DEF ReuseInv, ReuseTypes
<1>1. call[c].op = "edit" /\ call[c].pc = "flag" /\ UNCHANGED <<rows, offed, raced>>
      /\ call[c].ids \in SUBSET Answers
  BY <1>0 DEF Reuse!EditFlag, Reuse!At, ReuseSlots
<1>2. PICK slot : slot = [call[c] EXCEPT !.pc = "save"]
  OBVIOUS
<1>3. /\ slot \in ReuseSlots /\ slot.op = "edit" /\ slot.pc = "save" /\ slot.ids = call[c].ids
      /\ slot.mine = call[c].mine /\ slot.active = call[c].active /\ slot.on = call[c].on
  BY <1>0, <1>1, <1>2 DEF ReuseSlots
<1>4. Formed(slot)
  BY <1>3 DEF Formed
<1>5. PICK value \in {"on", "off"} : value = IF call[c].active THEN "on" ELSE "off"
  OBVIOUS
<1>6. Reuse!SetPoints(c, call[c].ids, value) /\ Reuse!Move(c, slot)
  BY <1>2, <1>5 DEF Reuse!EditFlag
<1>7. /\ points' \in PointTypes /\ loose \subseteq loose' /\ loose' \subseteq Answers
      /\ \A x \in Answers \ call[c].ids : points'[x] = points[x]
      /\ \A x \in call[c].ids \ loose' :
           /\ x \notin Reuse!Met(c, call[c].op)
           /\ points'[x] = IF points[x] = "none" THEN "none" ELSE value
  BY <1>1, <1>5, <1>6, PointsSet DEF ReuseInv
<1>8. call'[c] = slot /\ \A d \in Callers \ {c} : call'[d] = call[d]
  BY <1>3, <1>4, <1>6, CallMoves DEF ReuseInv
<1>9. ReuseTypes'
  BY <1>0, <1>1, <1>3, <1>4, <1>6, <1>7, TypesStay DEF ReuseInv
<1>10. OffKnown'
  BY <1>1, <1>3, <1>8, OffStays DEF ReuseInv, OffKnown
<1>11. Found'
  BY <1>1, <1>3, <1>7, <1>8, StillFound DEF Reuse!At, IsLive
<1>12. ASSUME NEW x \in Answers \ loose', Good(x) PROVE Good(x)'
  <2>1. CASE x \notin call[c].ids
    BY <1>1, <1>3, <1>7, <1>8, <1>12, <2>1, Stays
  <2>2. CASE x \in call[c].ids
    <3>1. Fits(call[c], x) /\ \A d \in Callers \ {c} : ~Holds(d, x)
      BY <1>1, <1>7, <1>12, <2>2, Unmet DEF ReuseInv, Holds, Reuse!Slow
    <3>2. IsLive(x) /\ rows[x].mine = slot.mine /\ points[x] # "none"
      BY <1>1, <1>3, <3>1 DEF Fits, Sound
    <3>3. points'[x] = value
      BY <1>7, <1>12, <2>2, <3>2
    <3>4. Fits(call[c], x)'
      BY <1>1, <1>3, <1>5, <1>8, <3>2, <3>3 DEF Fits, IsLive
    <3> QED
      BY <1>8, <2>2, <1>3, <3>1, <3>4 DEF Good, Settled, Holds
  <2> QED
    BY <2>1, <2>2
<1> QED
  BY <1>7, <1>9, <1>10, <1>11, <1>12, KeptOne
LEMMA EditSaveKeeps == ASSUME ReuseInv, NEW c \in Callers, Reuse!EditSave(c) PROVE ReuseInv'
<1>0. rows \in RowTypes /\ points \in PointTypes /\ call[c] \in ReuseSlots /\ Formed(call[c])
      /\ offed \subseteq Answers /\ raced \subseteq Answers /\ loose \subseteq Answers
  BY ReuseTyped DEF ReuseInv, ReuseTypes
<1>1. PICK xs : xs = call[c].ids
  OBVIOUS
<1>2. PICK row : row = [state |-> "live", active |-> call[c].active, mine |-> call[c].mine]
  OBVIOUS
<1>3. /\ call[c].op = "edit" /\ call[c].pc = "save" /\ xs \in SUBSET Answers
      /\ row \in [state : {"unused", "live", "gone"}, active : BOOLEAN, mine : BOOLEAN]
      /\ row.state = "live" /\ row.active = call[c].active /\ row.mine = call[c].mine
  BY <1>0, <1>1, <1>2 DEF Reuse!EditSave, Reuse!At, ReuseSlots
<1>4. rows' \in RowTypes /\ \A x \in Answers : rows'[x] = IF x \notin xs THEN rows[x] ELSE row
  <2>1. rows' = [x \in Answers |-> IF x \notin xs THEN rows[x] ELSE row]
    BY <1>1, <1>2 DEF Reuse!EditSave
  <2> QED
    BY <1>0, <1>3, <2>1 DEF RowTypes
<1>5. /\ UNCHANGED points /\ loose \subseteq loose' /\ loose' \subseteq Answers
      /\ \A x \in xs \ loose' : x \notin Reuse!Met(c, call[c].op)
  BY <1>0, <1>1, <1>3 DEF Reuse!EditSave, Reuse!Meet
<1>6. call'[c] = Reuse!Idle /\ \A d \in Callers \ {c} : call'[d] = call[d]
  BY IdleCall, CallMoves DEF ReuseInv, Reuse!EditSave, Reuse!End
<1>7. offed' \subseteq Answers /\ raced' \subseteq Answers
  BY <1>0, <1>1, <1>3 DEF Reuse!EditSave
<1>8. ReuseTypes'
  BY <1>0, <1>4, <1>5, <1>7, IdleCall, TypesStay DEF ReuseInv, Reuse!EditSave, Reuse!End
<1>9. OffKnown'
  <2>1. CASE call[c].on # {}
    <3>1. offed' = offed \ xs /\ raced' = raced \ xs
      BY <1>1, <2>1 DEF Reuse!EditSave
    <3>2. \A x \in offed' : rows'[x] = rows[x] /\ x \in offed
      BY <1>0, <1>4, <3>1
    <3>3. Reuse!OffStaysOff'
      BY <3>1, <3>2 DEF ReuseInv, OffKnown, Reuse!OffStaysOff, Reuse!Replayable, Reuse!Live
    <3>4. \A d \in Callers : call'[d].op = "edit" /\ call'[d].active /\ call'[d].on = {} =>
            call'[d].ids \cap offed' \subseteq raced'
      BY <1>6, <3>1, IdleCall DEF ReuseInv, OffKnown
    <3> QED
      BY <3>2, <3>3, <3>4 DEF ReuseInv, OffKnown
  <2>2. CASE call[c].on = {} /\ call[c].active
    <3>1. UNCHANGED <<offed, raced>> /\ xs \cap offed \subseteq raced
      BY <1>1, <1>3, <2>2 DEF Reuse!EditSave, ReuseInv, OffKnown
    <3>2. \A x \in offed' : rows'[x].state # "unused"
      BY <1>0, <1>3, <1>4, <3>1 DEF ReuseInv, OffKnown
    <3>3. Reuse!OffStaysOff'
      BY <1>4, <3>1 DEF ReuseInv, OffKnown, Reuse!OffStaysOff, Reuse!Replayable, Reuse!Live
    <3>4. \A d \in Callers : call'[d].op = "edit" /\ call'[d].active /\ call'[d].on = {} =>
            call'[d].ids \cap offed' \subseteq raced'
      BY <1>6, <3>1, IdleCall DEF ReuseInv, OffKnown
    <3> QED
      BY <3>2, <3>3, <3>4 DEF OffKnown
  <2>3. CASE call[c].on = {} /\ ~call[c].active
    <3>1. offed' = offed \cup xs /\ raced' = raced \cup (xs \cap Reuse!Holding(c, {"edit"}))
      BY <1>1, <2>3 DEF Reuse!EditSave
    <3>2. \A x \in xs : rows'[x].state # "unused" /\ ~(rows'[x].state = "live" /\ rows'[x].active)
      BY <1>3, <1>4, <2>3
    <3>3. \A x \in Answers : rows'[x] = rows[x] \/ (x \in xs /\ rows'[x].state # "unused" /\ ~rows'[x].active)
      BY <1>3, <1>4, <2>3
    <3> QED
      BY <1>3, <1>6, <3>1, <3>2, <3>3, IdleCall, OffGrows
  <2> QED
    BY <2>1, <2>2, <2>3
<1>10. \A x \in Answers \ loose' : Good(x) /\ x \in xs =>
         /\ Fits(call[c], x) /\ \A d \in Callers \ {c} : ~Holds(d, x)
  BY <1>1, <1>3, <1>5, Unmet DEF ReuseInv, Holds, Reuse!Slow
<1>11. Found'
  <2>1. \A x \in Answers \ loose' : Good(x)
    BY <1>5 DEF ReuseInv, Kept
  <2>2. \A x \in Answers \ loose' : (IsLive(x) /\ rows[x].mine)' => IsLive(x) /\ rows[x].mine
    BY <1>3, <1>4, <1>10, <2>1 DEF Fits, IsLive
  <2> QED
    BY <1>5, <1>6, <2>2, IdleCall, StillFound DEF Reuse!At
<1>12. ASSUME NEW x \in Answers \ loose', Good(x) PROVE Good(x)'
  <2>1. CASE x \notin xs
    BY <1>1, <1>4, <1>5, <1>6, <1>12, <2>1, IdleCall, Stays
  <2>2. CASE x \in xs
    <3>1. Fits(call[c], x) /\ \A d \in Callers \ {c} : ~Holds(d, x)
      BY <1>10, <1>12, <2>2
    <3>2. \A d \in Callers : ~Holds(d, x)'
      BY <1>6, <3>1, IdleCall DEF Holds
    <3>3. Sound(x)'
      BY <1>3, <1>4, <1>5, <1>12, <2>2, <3>1 DEF Fits, Sound, IsLive
    <3> QED
      BY <3>2, <3>3 DEF Good, Settled
  <2> QED
    BY <2>1, <2>2
<1> QED
  BY <1>5, <1>8, <1>9, <1>11, <1>12, KeptOne

LEMMA StoreRowKeeps == ASSUME ReuseInv, NEW c \in Callers, Reuse!StoreRow(c) PROVE ReuseInv'
<1>0. rows \in RowTypes /\ points \in PointTypes /\ call[c] \in ReuseSlots /\ Formed(call[c])
      /\ offed \subseteq Answers /\ raced \subseteq Answers /\ loose \subseteq Answers
  BY ReuseTyped DEF ReuseInv, ReuseTypes
<1>1. call[c].op = "store" /\ call[c].pc = "row" /\ call[c].ids = {}
  BY <1>0 DEF Reuse!StoreRow, Reuse!At, Formed
<1>2. PICK y \in Answers :
        /\ rows[y] = Reuse!Unused
        /\ rows' = [rows EXCEPT ![y] = [state |-> "live", active |-> TRUE, mine |-> call[c].mine]]
        /\ Reuse!Move(c, [call[c] EXCEPT !.pc = "point", !.ids = {y}])
        /\ loose' = IF call[c].mine /\ \E d \in Callers : Reuse!At(d, "erase", "rows")
                    THEN loose \cup {y} ELSE loose
  BY DEF Reuse!StoreRow
<1>3. PICK slot : slot = [call[c] EXCEPT !.pc = "point", !.ids = {y}]
  OBVIOUS
<1>4. slot \in ReuseSlots /\ slot.op = "store" /\ slot.pc = "point" /\ slot.ids = {y}
  BY <1>0, <1>1, <1>3 DEF ReuseSlots
<1>5. Formed(slot) /\ Reuse!Move(c, slot)
  BY <1>2, <1>3, <1>4 DEF Formed
<1>6. PICK row : row = [state |-> "live", active |-> TRUE, mine |-> call[c].mine]
  OBVIOUS
<1>7. /\ row \in [state : {"unused", "live", "gone"}, active : BOOLEAN, mine : BOOLEAN]
      /\ row.state = "live" /\ row.active /\ row.mine = call[c].mine
  BY <1>0, <1>6 DEF ReuseSlots
<1>8. rows' \in RowTypes /\ rows'[y] = row /\ \A x \in Answers \ {y} : rows'[x] = rows[x]
  BY <1>0, <1>2, <1>6, <1>7 DEF RowTypes
<1>9. UNCHANGED <<points, offed, raced>> /\ loose \subseteq loose' /\ loose' \subseteq Answers
  BY <1>0, <1>2 DEF Reuse!StoreRow
<1>10. call'[c] = slot /\ \A d \in Callers \ {c} : call'[d] = call[d]
  BY <1>4, <1>5, CallMoves DEF ReuseInv
<1>11. ReuseTypes'
  BY <1>0, <1>4, <1>5, <1>8, <1>9, TypesStay DEF ReuseInv
<1>12. rows[y].state = "unused" /\ y \notin offed
  BY <1>2 DEF Reuse!Unused, ReuseInv, OffKnown
<1>13. OffKnown'
  <2>1. \A x \in offed : rows'[x] = rows[x]
    BY <1>0, <1>8, <1>12
  <2>2. \A d \in Callers : call'[d].op = "edit" => d # c /\ call'[d] = call[d]
    BY <1>4, <1>10
  <2>3. Reuse!OffStaysOff'
    BY <1>9, <1>12, <2>1 DEF ReuseInv, OffKnown, Reuse!OffStaysOff, Reuse!Replayable, Reuse!Live
  <2> QED
    BY <1>9, <2>1, <2>2, <2>3 DEF ReuseInv, OffKnown
<1>14. Found'
  <2> SUFFICES ASSUME NEW d \in Callers, Reuse!At(d, "erase", "rows")',
                      NEW x \in Answers \ loose', (IsLive(x) /\ rows[x].mine)'
               PROVE  Holds(d, x)'
    BY DEF Found
  <2>1. d # c /\ call'[d] = call[d] /\ Reuse!At(d, "erase", "rows")
    BY <1>4, <1>10 DEF Reuse!At
  <2>2. x # y
    BY <1>2, <1>7, <1>8, <2>1
  <2> QED
    BY <1>8, <1>9, <2>1, <2>2 DEF ReuseInv, Kept, Found, Holds, IsLive
<1>15. ASSUME NEW x \in Answers \ loose', Good(x) PROVE Good(x)'
  <2>1. CASE x # y
    BY <1>1, <1>4, <1>8, <1>9, <1>10, <1>15, <2>1, Stays
  <2>2. CASE x = y
    <3>1. Fits(call[c], x)'
      BY <1>4, <1>7, <1>8, <1>10, <2>2 DEF Fits, IsLive
    <3>2. /\ call'[c].op \in Reuse!Slow => \A d \in Callers : ~Holds(d, x)
          => \A d \in Callers : Holds(d, x)' => Fits(call[d], x)'
      BY <1>4, <1>10, <3>1 DEF Holds, Reuse!Slow
    <3> QED
      BY <1>1, <1>4, <1>10, <1>15, <2>2, <3>2, Joins DEF ReuseInv
  <2> QED
    BY <2>1, <2>2
<1> QED
  BY <1>9, <1>11, <1>13, <1>14, <1>15, KeptOne

-----------------------------------------------------------------------------
(* Calls that take answers away.                                            *)

LEMMA OffPointsKeeps == ASSUME ReuseInv, NEW c \in Callers, Reuse!OffPoints(c) PROVE ReuseInv'
<1>0. rows \in RowTypes /\ points \in PointTypes /\ call[c] \in ReuseSlots
      /\ offed \subseteq Answers /\ raced \subseteq Answers /\ loose \subseteq Answers
  BY ReuseTyped DEF ReuseInv, ReuseTypes
<1>1. call[c].op = "off" /\ UNCHANGED <<rows, offed, raced>> /\ call[c].ids \in SUBSET Answers
  BY <1>0 DEF Reuse!OffPoints, Reuse!At, ReuseSlots
<1>2. call'[c] = Reuse!Idle /\ \A d \in Callers \ {c} : call'[d] = call[d]
  BY IdleCall, CallMoves DEF ReuseInv, Reuse!OffPoints, Reuse!End
<1>3. /\ points' \in PointTypes /\ loose \subseteq loose' /\ loose' \subseteq Answers
      /\ \A x \in Answers \ call[c].ids : points'[x] = points[x]
      /\ \A x \in call[c].ids \ loose' :
           /\ x \notin Reuse!Met(c, call[c].op)
           /\ points'[x] = IF points[x] = "none" THEN "none" ELSE "off"
  BY <1>1, PointsSet DEF ReuseInv, Reuse!OffPoints
<1>4. ReuseTypes'
  BY <1>0, <1>1, <1>3, IdleCall, TypesStay DEF ReuseInv, Reuse!OffPoints, Reuse!End
<1>5. OffKnown'
  BY <1>1, <1>2, IdleCall, OffStays
<1>6. Found'
  BY <1>1, <1>2, <1>3, IdleCall, StillFound DEF Reuse!At, IsLive
<1>7. ASSUME NEW x \in Answers \ loose', Good(x) PROVE Good(x)'
  <2>1. CASE x \notin call[c].ids
    BY <1>1, <1>2, <1>3, <1>7, <2>1, IdleCall, Stays
  <2>2. CASE x \in call[c].ids
    <3>1. /\ Fits(call[c], x)
          /\ \A d \in Callers \ {c} : Holds(d, x) => Fits(call[d], x) /\ call[d].op \in {"off", "remove"}
      BY <1>3, <1>7, <2>2, Unmet DEF ReuseInv, Holds
    <3>2. points'[x] = IF points[x] = "none" THEN "none" ELSE "off"
      BY <1>3, <1>7, <2>2
    <3>3. \A d \in Callers : Holds(d, x)' => d # c /\ Holds(d, x) /\ call'[d] = call[d]
      BY <1>2, IdleCall DEF Holds
    <3>4. \A d \in Callers : Holds(d, x)' => Fits(call[d], x)'
      BY <1>1, <3>1, <3>2, <3>3 DEF Fits, IsLive
    <3>5. Sound(x)'
      BY <1>1, <3>1, <3>2 DEF Fits, Sound, IsLive
    <3> QED
      BY <3>4, <3>5 DEF Good, Settled
  <2> QED
    BY <2>1, <2>2
<1> QED
  BY <1>3, <1>4, <1>5, <1>6, <1>7, KeptOne

LEMMA DeletePointsKeeps == ASSUME ReuseInv, NEW c \in Callers, Reuse!DeletePoints(c) PROVE ReuseInv'
<1>0. rows \in RowTypes /\ points \in PointTypes /\ call[c] \in ReuseSlots
      /\ offed \subseteq Answers /\ raced \subseteq Answers /\ loose \subseteq Answers
  BY ReuseTyped DEF ReuseInv, ReuseTypes
<1>1. /\ call[c].op \in {"remove", "erase"} /\ call[c].pc = "points"
      /\ UNCHANGED <<rows, offed, raced>> /\ call[c].ids \in SUBSET Answers
  BY <1>0 DEF Reuse!DeletePoints, Reuse!At, ReuseSlots
<1>2. call'[c] = Reuse!Idle /\ \A d \in Callers \ {c} : call'[d] = call[d]
  BY IdleCall, CallMoves DEF ReuseInv, Reuse!DeletePoints, Reuse!End
<1>3. /\ points' \in PointTypes /\ loose \subseteq loose' /\ loose' \subseteq Answers
      /\ \A x \in Answers \ call[c].ids : points'[x] = points[x]
      /\ \A x \in call[c].ids \ loose' : x \notin Reuse!Met(c, call[c].op) /\ points'[x] = "none"
  BY <1>1, PointsSet DEF ReuseInv, Reuse!DeletePoints
<1>4. ReuseTypes'
  BY <1>0, <1>1, <1>3, IdleCall, TypesStay DEF ReuseInv, Reuse!DeletePoints, Reuse!End
<1>5. OffKnown'
  BY <1>1, <1>2, IdleCall, OffStays
<1>6. Found'
  BY <1>1, <1>2, <1>3, IdleCall, StillFound DEF Reuse!At, IsLive
<1>7. ASSUME NEW x \in Answers \ loose', Good(x) PROVE Good(x)'
  <2>1. CASE x \notin call[c].ids
    BY <1>1, <1>2, <1>3, <1>7, <2>1, IdleCall, Stays
  <2>2. CASE x \in call[c].ids
    <3>1. /\ Fits(call[c], x)
          /\ \A d \in Callers \ {c} : Holds(d, x) => Fits(call[d], x) /\ call[d].op \in {"off", "remove"}
      BY <1>3, <1>7, <2>2, Unmet DEF ReuseInv, Holds
    <3>2. points'[x] = "none" /\ ~IsLive(x)
      BY <1>1, <1>3, <1>7, <2>2, <3>1 DEF Fits
    <3>3. \A d \in Callers : Holds(d, x)' => d # c /\ Holds(d, x) /\ call'[d] = call[d]
      BY <1>2, IdleCall DEF Holds
    <3>4. \A d \in Callers : Holds(d, x)' => Fits(call[d], x)'
      BY <1>1, <3>1, <3>2, <3>3 DEF Fits, IsLive
    <3>5. Sound(x)'
      BY <1>1, <3>2 DEF Sound, IsLive
    <3> QED
      BY <3>4, <3>5 DEF Good, Settled
  <2> QED
    BY <2>1, <2>2
<1> QED
  BY <1>3, <1>4, <1>5, <1>6, <1>7, KeptOne

\* A quick call takes the answers in targets and switches off, or deletes, those in xs.
LEMMA QuickTakes ==
  ASSUME ReuseInv, NEW c \in Callers, call[c].pc = "idle",
         NEW op \in {"off", "remove"}, NEW xs \in SUBSET Reuse!Live, NEW targets \in SUBSET Answers,
         xs \subseteq targets,
         Reuse!Move(c, [Reuse!Idle EXCEPT !.op = op, !.pc = "points", !.ids = targets]),
         rows' \in RowTypes, UNCHANGED points, Reuse!PutOff(xs, c, op),
         \A x \in Answers : rows'[x] = rows[x] \/ (x \in xs /\ rows'[x].state # "unused" /\ ~rows'[x].active),
         \A x \in xs : rows'[x].state # "unused" /\ ~rows'[x].active /\ (rows'[x].mine => rows[x].mine),
         \A x \in targets : IF op = "off" THEN ~(rows'[x].state = "live" /\ rows'[x].active) ELSE rows'[x].state = "gone"
  PROVE  ReuseInv'
<1>0. rows \in RowTypes /\ points \in PointTypes /\ call[c] \in ReuseSlots /\ Formed(call[c])
      /\ offed \subseteq Answers /\ raced \subseteq Answers /\ loose \subseteq Answers
      /\ xs \subseteq Answers
  BY ReuseTyped DEF ReuseInv, ReuseTypes, Reuse!Live
<1>1. PICK slot : slot = [Reuse!Idle EXCEPT !.op = op, !.pc = "points", !.ids = targets]
  OBVIOUS
<1>2. slot \in ReuseSlots /\ slot.op = op /\ slot.pc = "points" /\ slot.ids = targets
  BY <1>1, IdleCall DEF ReuseSlots
<1>3. Formed(slot) /\ Reuse!Move(c, slot) /\ call[c].ids = {}
  BY <1>0, <1>1, <1>2 DEF Formed
<1>4. call'[c] = slot /\ \A d \in Callers \ {c} : call'[d] = call[d]
  BY <1>2, <1>3, CallMoves DEF ReuseInv
<1>5. /\ offed' = offed \cup xs /\ raced' = raced \cup (xs \cap Reuse!Holding(c, {"edit"}))
      /\ loose' = loose \cup (xs \cap Reuse!Met(c, op))
  BY DEF Reuse!PutOff, Reuse!Meet
<1>6. offed' \subseteq Answers /\ raced' \subseteq Answers /\ loose' \subseteq Answers /\ loose \subseteq loose'
  BY <1>0, <1>5
<1>7. ReuseTypes'
  BY <1>0, <1>2, <1>3, <1>6, TypesStay DEF ReuseInv
<1>8. OffKnown'
  BY <1>0, <1>2, <1>4, <1>5, OffGrows
<1>9. \A x \in Answers : IsLive(x)' /\ rows'[x].mine => IsLive(x) /\ rows[x].mine
  BY <1>0 DEF IsLive, Reuse!Live
<1>10. Found'
  BY <1>2, <1>4, <1>6, <1>9, StillFound DEF Reuse!At
<1>11. ASSUME NEW x \in Answers \ loose', Good(x) PROVE Good(x)'
  <2>1. CASE x \notin targets
    BY <1>2, <1>3, <1>4, <1>11, <2>1, Stays
  <2>2. CASE x \in targets
    <3> SUFFICES ASSUME Settled(x), \A d \in Callers : Holds(d, x) => call[d].op \in {"off", "remove"}
                 PROVE  \A d \in Callers : Holds(d, x)' => Fits(call[d], x)'
      BY <1>2, <1>3, <1>4, <1>11, <2>2, Joins DEF ReuseInv
    <3>2. ASSUME NEW d \in Callers, Holds(d, x)', d # c PROVE Fits(call[d], x)'
      <4>1. Holds(d, x) /\ call'[d] = call[d] /\ Fits(call[d], x) /\ call[d].op \in {"off", "remove"}
        BY <1>4, <3>2 DEF Holds, Settled
      <4>2. rows'[x] = rows[x] \/ (x \in xs /\ ~rows'[x].active /\ IsLive(x))
        BY <1>11 DEF IsLive, Reuse!Live
      <4> QED
        BY <4>1, <4>2 DEF Fits, IsLive
    <3>3. Fits(slot, x)'
      <4>1. CASE op = "remove"
        BY <1>2, <2>2, <4>1 DEF Fits, IsLive
      <4>2. CASE op = "off"
        <5>1. IsLive(x)' => ~rows'[x].active
          BY <2>2, <4>2 DEF IsLive
        <5>2. IsLive(x)' => IsLive(x)
          BY <1>11 DEF IsLive, Reuse!Live
        <5>3. IsLive(x) => points[x] # "none"
          BY DEF Settled, Sound, Fits
        <5> QED
          BY <1>2, <4>2, <5>1, <5>2, <5>3 DEF Fits
      <4> QED
        BY <4>1, <4>2
    <3>4. Fits(call[c], x)' <=> Fits(slot, x)'
      BY <1>4 DEF Fits
    <3> QED
      BY <3>2, <3>3, <3>4
  <2> QED
    BY <2>1, <2>2
<1> QED
  BY <1>6, <1>7, <1>8, <1>10, <1>11, KeptOne

LEMMA SwitchesOff ==
  ASSUME ReuseInv, NEW c \in Callers, NEW xs \in SUBSET Reuse!Live, NEW targets \in SUBSET Answers,
         xs \subseteq targets, Reuse!SwitchOff(c, xs, targets), Reuse!PutOff(xs, c, "off"), UNCHANGED points,
         \A x \in targets : x \in xs \/ x \notin Reuse!Replayable
  PROVE  ReuseInv'
<1>0. rows \in RowTypes
  BY ReuseTyped DEF ReuseInv
<1>1. /\ rows' = [x \in Answers |-> IF x \in xs THEN [rows[x] EXCEPT !.active = FALSE] ELSE rows[x]]
      /\ call[c].pc = "idle"
      /\ Reuse!Move(c, [Reuse!Idle EXCEPT !.op = "off", !.pc = "points", !.ids = targets])
  BY DEF Reuse!SwitchOff, Reuse!Begin
<1>2. rows' \in RowTypes
  BY <1>0, <1>1 DEF RowTypes
<1>3. \A x \in xs : x \in Answers /\ rows'[x].state = "live" /\ ~rows'[x].active /\ rows'[x].mine = rows[x].mine
  BY <1>0, <1>1 DEF RowTypes, Reuse!Live
<1>4. \A x \in Answers : x \notin xs => rows'[x] = rows[x]
  BY <1>1
<1>5. \A x \in targets : ~(rows'[x].state = "live" /\ rows'[x].active)
  BY <1>3, <1>4 DEF Reuse!Replayable, Reuse!Live
<1> QED
  BY <1>1, <1>2, <1>3, <1>4, <1>5, QuickTakes

LEMMA OffKeeps ==
  ASSUME ReuseInv, NEW c \in Callers, Reuse!Deactivate(c) \/ Reuse!DeactivateAll(c) PROVE ReuseInv'
<1>1. CASE Reuse!Deactivate(c)
  <2>1. PICK x \in Reuse!Live : Reuse!SwitchOff(c, {x}, {x}) /\ Reuse!PutOff({x}, c, "off")
    BY <1>1 DEF Reuse!Deactivate
  <2>2. {x} \in SUBSET Reuse!Live /\ {x} \in SUBSET Answers
    BY DEF Reuse!Live
  <2>3. UNCHANGED points
    BY <1>1 DEF Reuse!Deactivate
  <2> QED
    BY <2>1, <2>2, <2>3, SwitchesOff
<1>2. CASE Reuse!DeactivateAll(c)
  <2>1. Reuse!Replayable \in SUBSET Reuse!Live /\ Reuse!Replayable \subseteq Answers
    BY DEF Reuse!Replayable, Reuse!Live
  <2> QED
    BY <1>2, <2>1, SwitchesOff DEF Reuse!DeactivateAll
<1> QED
  BY <1>1, <1>2

\* Deleted rows.
LEMMA RowsDeleted ==
  ASSUME rows \in RowTypes, NEW xs \in SUBSET Answers, Reuse!Delete(xs)
  PROVE  /\ rows' \in RowTypes
         /\ \A x \in xs : rows'[x].state = "gone" /\ ~rows'[x].active /\ ~rows'[x].mine
         /\ \A x \in Answers \ xs : rows'[x] = rows[x]
<1>1. PICK row : row = [Reuse!Unused EXCEPT !.state = "gone"]
  OBVIOUS
<1>2. /\ row \in [state : {"unused", "live", "gone"}, active : BOOLEAN, mine : BOOLEAN]
      /\ row.state = "gone" /\ ~row.active /\ ~row.mine
  BY <1>1 DEF Reuse!Unused
<1>3. rows' = [x \in Answers |-> IF x \in xs THEN row ELSE rows[x]]
  BY <1>1 DEF Reuse!Delete
<1> QED
  BY <1>2, <1>3 DEF RowTypes

LEMMA RemoveKeeps == ASSUME ReuseInv, NEW c \in Callers, Reuse!Remove(c) PROVE ReuseInv'
<1>1. PICK y \in Reuse!Live :
        /\ Reuse!Delete({y}) /\ Reuse!PutOff({y}, c, "remove")
        /\ call[c].pc = "idle"
        /\ Reuse!Move(c, [Reuse!Idle EXCEPT !.op = "remove", !.pc = "points", !.ids = {y}])
  BY DEF Reuse!Remove, Reuse!Begin
<1>2. {y} \in SUBSET Reuse!Live /\ {y} \in SUBSET Answers
  BY DEF Reuse!Live
<1>3. /\ rows' \in RowTypes
      /\ \A x \in {y} : rows'[x].state = "gone" /\ ~rows'[x].active /\ ~rows'[x].mine
      /\ \A x \in Answers \ {y} : rows'[x] = rows[x]
  BY <1>1, <1>2, ReuseTyped, RowsDeleted DEF ReuseInv
<1>4. UNCHANGED points
  BY DEF Reuse!Remove
<1> QED
  BY ZenonT(30), <1>1, <1>2, <1>3, <1>4, QuickTakes
\* A slow call looks answers up, and finds each as it needs it.
LEMMA SlowTakes ==
  ASSUME ReuseInv, NEW c \in Callers, NEW slot \in ReuseSlots, slot.op \in {"erase", "reindex"}, Formed(slot),
         Reuse!Begin(c, slot), UNCHANGED <<rows, points, offed, raced, loose>>,
         slot.op = "erase" => slot.pc = "rows" /\ \A x \in Answers : IsLive(x) /\ rows[x].mine => x \in slot.ids,
         \A x \in slot.ids : Sound(x) => Fits(slot, x)
  PROVE  ReuseInv'
<1>0. rows \in RowTypes /\ points \in PointTypes /\ call[c] \in ReuseSlots /\ Formed(call[c])
      /\ offed \subseteq Answers /\ raced \subseteq Answers /\ loose \subseteq Answers
  BY ReuseTyped DEF ReuseInv, ReuseTypes
<1>1. Reuse!Move(c, slot) /\ call[c].ids = {}
  BY <1>0 DEF Reuse!Begin, Formed
<1>2. call'[c] = slot /\ \A d \in Callers \ {c} : call'[d] = call[d]
  BY <1>1, CallMoves DEF ReuseInv
<1>3. ReuseTypes'
  BY <1>0, <1>1, TypesStay DEF ReuseInv
<1>4. OffKnown'
  BY <1>2, OffStays
<1>5. Found'
  <2> SUFFICES ASSUME NEW d \in Callers, Reuse!At(d, "erase", "rows")',
                      NEW x \in Answers \ loose, IsLive(x), rows[x].mine
               PROVE  Holds(d, x)'
    BY DEF Found, IsLive
  <2>1. CASE d = c
    BY <1>2, <2>1 DEF Reuse!At, Holds
  <2>2. CASE d # c
    <3>1. Reuse!At(d, "erase", "rows")
      BY <1>2, <2>2 DEF Reuse!At
    <3> QED
      BY <1>2, <2>2, <3>1 DEF ReuseInv, Kept, Found, Holds
  <2> QED
    BY <2>1, <2>2
<1>6. ASSUME NEW x \in Answers \ loose', Good(x) PROVE Good(x)'
  <2>1. CASE x \notin slot.ids
    BY <1>1, <1>2, <1>6, <2>1, Stays
  <2>2. CASE x \in slot.ids
    <3>1. Fits(slot, x) => Fits(call[c], x)'
      BY <1>2 DEF Fits, Sound, IsLive
    <3>2. /\ Settled(x)
          /\ call'[c].op \in Reuse!Slow => \A d \in Callers : ~Holds(d, x)
          => \A d \in Callers : Holds(d, x)' => Fits(call[d], x)'
      BY <1>2, <2>2, <3>1 DEF Settled, Holds, Reuse!Slow
    <3> QED
      BY <1>1, <1>2, <1>6, <2>2, <3>2, Joins DEF ReuseInv
  <2> QED
    BY <2>1, <2>2
<1> QED
  BY <1>3, <1>4, <1>5, <1>6, KeptOne

LEMMA FindsKeep == ASSUME ReuseInv, NEW c \in Callers, Reuse!EraseFind(c) \/ Reuse!ReindexLoad(c) PROVE ReuseInv'
<1>0. rows \in RowTypes /\ points \in PointTypes
  BY ReuseTyped DEF ReuseInv
<1>1. CASE Reuse!EraseFind(c)
  <2>1. PICK found : found = {x \in Reuse!Live : rows[x].mine}
    OBVIOUS
  <2>2. PICK slot : slot = [Reuse!Idle EXCEPT !.op = "erase", !.pc = "rows", !.ids = found]
    OBVIOUS
  <2>3. found \subseteq Answers /\ \A x \in Answers : x \in found <=> IsLive(x) /\ rows[x].mine
    BY <2>1 DEF Reuse!Live, IsLive
  <2>4. slot \in ReuseSlots /\ slot.op = "erase" /\ slot.pc = "rows" /\ slot.ids = found
    BY <2>2, <2>3, IdleCall DEF ReuseSlots
  <2>5. Formed(slot) /\ Reuse!Begin(c, slot) /\ UNCHANGED <<rows, points, offed, raced, loose>>
    BY <1>1, <2>1, <2>2, <2>4 DEF Reuse!EraseFind, Reuse!Keep, Formed
  <2>6. \A x \in slot.ids : Sound(x) => Fits(slot, x)
    BY <2>3, <2>4 DEF Fits
  <2> QED
    BY <2>3, <2>4, <2>5, <2>6, SlowTakes
<1>2. CASE Reuse!ReindexLoad(c)
  <2>1. PICK live : live = Reuse!Live
    OBVIOUS
  <2>2. PICK on : on = Reuse!Replayable
    OBVIOUS
  <2>3. PICK slot : slot = [Reuse!Idle EXCEPT !.op = "reindex", !.pc = "points", !.ids = live, !.on = on]
    OBVIOUS
  <2>4. /\ live \subseteq Answers /\ on \subseteq Answers
        /\ \A x \in live : IsLive(x) /\ (x \in on <=> rows[x].active)
    BY <2>1, <2>2 DEF Reuse!Live, Reuse!Replayable, IsLive
  <2>5. /\ slot \in ReuseSlots /\ slot.op = "reindex" /\ slot.pc = "points" /\ slot.ids = live
        /\ slot.on = on
    BY <2>3, <2>4, IdleCall DEF ReuseSlots
  <2>6. Formed(slot) /\ Reuse!Begin(c, slot) /\ UNCHANGED <<rows, points, offed, raced, loose>>
    BY <1>2, <2>1, <2>2, <2>3, <2>5 DEF Reuse!ReindexLoad, Reuse!Keep, Formed
  <2>7. \A x \in slot.ids : Sound(x) => Fits(slot, x)
    BY <2>4, <2>5 DEF Fits
  <2> QED
    BY <2>5, <2>6, <2>7, SlowTakes
<1> QED
  BY <1>1, <1>2

LEMMA EraseRowsKeeps == ASSUME ReuseInv, NEW c \in Callers, Reuse!EraseRows(c) PROVE ReuseInv'
<1>0. rows \in RowTypes /\ points \in PointTypes /\ call[c] \in ReuseSlots /\ Formed(call[c])
      /\ offed \subseteq Answers /\ raced \subseteq Answers /\ loose \subseteq Answers
  BY ReuseTyped DEF ReuseInv, ReuseTypes
<1>1. PICK xs : xs = {x \in Reuse!Live : rows[x].mine}
  OBVIOUS
<1>2. xs \subseteq Answers /\ \A x \in Answers : x \in xs <=> IsLive(x) /\ rows[x].mine
  BY <1>1 DEF Reuse!Live, IsLive
<1>3. /\ call[c].op = "erase" /\ call[c].pc = "rows" /\ UNCHANGED points
      /\ Reuse!Delete(xs) /\ Reuse!PutOff(xs, c, "erase")
      /\ Reuse!Move(c, [call[c] EXCEPT !.pc = "points"])
  BY <1>1 DEF Reuse!EraseRows, Reuse!At
<1>4. PICK slot : slot = [call[c] EXCEPT !.pc = "points"]
  OBVIOUS
<1>5. slot \in ReuseSlots /\ slot.op = "erase" /\ slot.pc = "points" /\ slot.ids = call[c].ids
  BY <1>0, <1>3, <1>4 DEF ReuseSlots
<1>6. Formed(slot) /\ Reuse!Move(c, slot)
  BY <1>3, <1>4, <1>5 DEF Formed
<1>7. call'[c] = slot /\ \A d \in Callers \ {c} : call'[d] = call[d]
  BY <1>5, <1>6, CallMoves DEF ReuseInv
<1>8. /\ rows' \in RowTypes
      /\ \A x \in xs : rows'[x].state = "gone" /\ ~rows'[x].active /\ ~rows'[x].mine
      /\ \A x \in Answers \ xs : rows'[x] = rows[x]
  BY <1>0, <1>2, <1>3, RowsDeleted
<1>9. /\ offed' = offed \cup xs /\ raced' = raced \cup (xs \cap Reuse!Holding(c, {"edit"}))
      /\ loose' = loose \cup (xs \cap Reuse!Met(c, "erase"))
  BY <1>3 DEF Reuse!PutOff, Reuse!Meet
<1>10. offed' \subseteq Answers /\ raced' \subseteq Answers /\ loose' \subseteq Answers /\ loose \subseteq loose'
  BY <1>0, <1>2, <1>9
<1>11. ReuseTypes'
  BY <1>0, <1>3, <1>5, <1>6, <1>8, <1>10, TypesStay DEF ReuseInv
<1>12. OffKnown'
  BY <1>2, <1>5, <1>7, <1>8, <1>9, OffGrows
<1>13. Found'
  <2>1. \A x \in Answers \ loose' : (IsLive(x) /\ rows[x].mine)' => IsLive(x) /\ rows[x].mine
    BY <1>8 DEF IsLive
  <2> QED
    BY <1>5, <1>7, <1>10, <2>1, StillFound DEF Reuse!At
<1>14. ASSUME NEW x \in Answers \ loose', Good(x) PROVE Good(x)'
  <2>0. x \in xs => x \in call[c].ids /\ x \notin Reuse!Met(c, call[c].op)
    BY <1>2, <1>3, <1>9, <1>10, <1>14 DEF ReuseInv, Kept, Found, Reuse!At, Holds
  <2>1. CASE x \notin call[c].ids
    <3>1. rows'[x] = rows[x]
      BY <1>8, <1>14, <2>0, <2>1
    <3> QED
      BY <1>3, <1>5, <1>7, <1>14, <2>1, <3>1, Stays
  <2>2. CASE x \in call[c].ids /\ x \notin xs
    <3>1. ~Settled(x)
      BY <1>2, <1>3, <1>14, <2>2 DEF Settled, Holds, Fits
    <3> QED
      BY <1>3, <1>5, <1>7, <1>14, <2>2, <3>1, GoesOn
  <2>3. CASE x \in xs
    <3>1. \A d \in Callers \ {c} : ~Holds(d, x)
      BY <1>3, <1>14, <2>0, <2>3, Unmet DEF ReuseInv, Holds, Reuse!Slow
    <3>2. Fits(call[c], x)'
      BY <1>5, <1>7, <1>8, <2>3 DEF Fits, IsLive
    <3>3. \A d \in Callers : Holds(d, x)' <=> d = c
      BY <1>5, <1>7, <2>0, <2>3, <3>1 DEF Holds
    <3> QED
      BY <3>2, <3>3 DEF Good, Settled
  <2> QED
    BY <2>1, <2>2, <2>3
<1> QED
  BY <1>10, <1>11, <1>12, <1>13, <1>14, KeptOne

LEMMA ReindexPointKeeps == ASSUME ReuseInv, NEW c \in Callers, Reuse!ReindexPoint(c) PROVE ReuseInv'
<1>0. rows \in RowTypes /\ points \in PointTypes /\ call[c] \in ReuseSlots /\ Formed(call[c])
      /\ offed \subseteq Answers /\ raced \subseteq Answers /\ loose \subseteq Answers
  BY ReuseTyped DEF ReuseInv, ReuseTypes
<1>1. /\ call[c].op = "reindex" /\ call[c].pc = "points" /\ call[c].ids \subseteq Answers
      /\ UNCHANGED <<rows, offed, raced>>
  BY <1>0 DEF Reuse!ReindexPoint, Reuse!At, ReuseSlots
<1>2. PICK y \in call[c].ids :
        /\ \/ points' = [points EXCEPT ![y] = IF y \in call[c].on THEN "on" ELSE "off"]
           \/ UNCHANGED points
        /\ Reuse!Meet(c, {y}, "reindex")
        /\ Reuse!Move(c, IF call[c].ids = {y} THEN Reuse!Idle ELSE [call[c] EXCEPT !.ids = @ \ {y}])
  BY DEF Reuse!ReindexPoint
<1>3. PICK slot : slot = IF call[c].ids = {y} THEN Reuse!Idle ELSE [call[c] EXCEPT !.ids = @ \ {y}]
  OBVIOUS
<1>4. /\ slot \in ReuseSlots /\ Formed(slot) /\ slot.ids = call[c].ids \ {y}
      /\ slot.op # "erase" /\ slot.op # "edit"
      /\ slot.ids # {} => slot.op = "reindex" /\ slot.on = call[c].on /\ slot.pc = "points"
  <2>1. CASE call[c].ids = {y}
    BY <1>3, <2>1, IdleCall
  <2>2. CASE call[c].ids # {y}
    <3>1. slot = [call[c] EXCEPT !.ids = call[c].ids \ {y}]
      BY <1>3, <2>2
    <3>2. /\ slot \in ReuseSlots /\ slot.op = "reindex" /\ slot.pc = "points"
          /\ slot.ids = call[c].ids \ {y} /\ slot.on = call[c].on
      BY <1>0, <1>1, <3>1 DEF ReuseSlots
    <3> QED
      BY <3>2 DEF Formed
  <2> QED
    BY <2>1, <2>2
<1>5. /\ points' \in PointTypes
      /\ points'[y] \in {points[y], IF y \in call[c].on THEN "on" ELSE "off"}
      /\ \A x \in Answers \ {y} : points'[x] = points[x]
  BY <1>0, <1>1, <1>2 DEF PointTypes
<1>6. loose \subseteq loose' /\ loose' \subseteq Answers /\ (y \in loose' \/ y \notin Reuse!Met(c, "reindex"))
  BY <1>0, <1>1, <1>2 DEF Reuse!Meet
<1>7. Reuse!Move(c, slot)
  BY <1>2, <1>3
<1>8. call'[c] = slot /\ \A d \in Callers \ {c} : call'[d] = call[d]
  BY <1>4, <1>7, CallMoves DEF ReuseInv
<1>9. ReuseTypes'
  BY <1>0, <1>1, <1>4, <1>5, <1>6, <1>7, TypesStay DEF ReuseInv
<1>10. OffKnown'
  BY <1>1, <1>4, <1>8, OffStays
<1>11. Found'
  BY <1>1, <1>4, <1>6, <1>8, StillFound DEF Reuse!At, IsLive
<1>12. ASSUME NEW x \in Answers \ loose', Good(x) PROVE Good(x)'
  <2>1. CASE x \notin call[c].ids
    BY <1>1, <1>2, <1>4, <1>5, <1>8, <1>12, <2>1, Stays
  <2>2. CASE x = y
    <3>1. Fits(call[c], x) /\ \A d \in Callers \ {c} : ~Holds(d, x)
      BY <1>1, <1>2, <1>6, <1>12, <2>2, Unmet DEF ReuseInv, Holds, Reuse!Slow
    <3>2. \A d \in Callers : ~Holds(d, x)'
      BY <1>4, <1>8, <2>2, <3>1 DEF Holds
    <3>3. IsLive(x) /\ Sound(x) /\ (x \in call[c].on <=> rows[x].active)
      BY <1>1, <3>1 DEF Fits
    <3>4. Sound(x)'
      BY <1>1, <1>5, <2>2, <3>3 DEF Sound, IsLive
    <3> QED
      BY <3>2, <3>4 DEF Good, Settled
  <2>3. CASE x \in call[c].ids /\ x # y
    <3>1. x \in slot.ids /\ slot.op = "reindex" /\ slot.on = call[c].on
      BY <1>4, <2>3
    <3>2. \A d \in Callers : Holds(d, x)' <=> Holds(d, x)
      BY <1>8, <2>3, <3>1 DEF Holds
    <3>3. points'[x] = points[x] /\ rows'[x] = rows[x]
      BY <1>1, <1>5, <1>12, <2>3
    <3>4. Fits(call[c], x) => Fits(call[c], x)'
      BY <1>1, <1>8, <3>1, <3>3 DEF Fits, Sound, IsLive
    <3>5. \A d \in Callers \ {c} : Fits(call[d], x) => Fits(call[d], x)'
      BY <1>8, <3>3 DEF Fits, Sound, IsLive
    <3>6. Settled(x) => \A d \in Callers : Holds(d, x)' => Fits(call[d], x)'
      BY <3>2, <3>4, <3>5 DEF Settled
    <3> QED
      BY <1>1, <1>8, <1>12, <2>3, <3>1, <3>6, GoesOn
  <2> QED
    BY <2>1, <2>2, <2>3
<1> QED
  BY <1>6, <1>9, <1>10, <1>11, <1>12, KeptOne

LEMMA NextReuse == ReuseInv /\ (Reuse!Next \/ UNCHANGED reuseVars) => ReuseInv'
<1> SUFFICES ASSUME ReuseInv, Reuse!Next \/ UNCHANGED reuseVars PROVE ReuseInv'
  OBVIOUS
<1>1. CASE UNCHANGED reuseVars
  BY <1>1, ReuseRests
<1>2. CASE Reuse!Next
  <2>1. PICK c \in Callers :
          \/ Reuse!StoreSearch(c) \/ Reuse!StoreCount(c) \/ Reuse!StoreRow(c) \/ Reuse!StorePoint(c)
          \/ Reuse!EditLoad(c) \/ Reuse!EditFlag(c) \/ Reuse!EditSave(c)
          \/ Reuse!Deactivate(c) \/ Reuse!DeactivateAll(c) \/ Reuse!OffPoints(c) \/ Reuse!Remove(c)
          \/ Reuse!EraseFind(c) \/ Reuse!EraseRows(c) \/ Reuse!DeletePoints(c)
          \/ Reuse!ReindexLoad(c) \/ Reuse!ReindexPoint(c)
    BY <1>2 DEF Reuse!Next
  <2> QED
    BY <2>1, StoreLooks, StoreRowKeeps, StorePointKeeps, EditLoadKeeps, EditFlagKeeps, EditSaveKeeps,
       OffKeeps, OffPointsKeeps, RemoveKeeps, FindsKeep, EraseRowsKeeps, DeletePointsKeeps, ReindexPointKeeps
<1> QED
  BY <1>1, <1>2

-----------------------------------------------------------------------------
(* CoachProposals: what each call carries.                                  *)

CoachSlots == [op : {"none", "apply", "reject", "revert"}, pc : {"idle", "write", "status", "peers"},
               id : Changes \cup {"base"}, previous : SUBSET Coach!Texts, value : SUBSET Coach!Texts]
ChangeTypes == [type : Coach!Types, previous : SUBSET Coach!Texts,
                status : {"none", "pending", "applied", "rejected", "superseded", "reverted"}]

Drawn(p) == coaching[p].status # "none"
Commissioned(slot) ==
  /\ slot.pc = "idle" <=> slot.op = "none"
  /\ slot.op = "reject" => slot.pc = "status"
  /\ slot.op = "revert" => slot.pc \in {"write", "status"}
  /\ slot.op # "none" => slot.id \in Changes /\ Drawn(slot.id)

\* The changes in force are those of drafted proposals, and made one after the other.
InOrder ==
  /\ \A x \in work : x = "console" \/ Drawn(x)
  /\ \A x, y \in work : <<x, y>> \in order <=> x # y /\ <<y, x>> \notin order

CoachTypes ==
  /\ Coach!TypeOK /\ coachCall \in [Callers -> CoachSlots]
  /\ \A c \in Callers : Commissioned(coachCall[c])
  /\ InOrder

\* What p found when it was made, as far as that is still in force.
Below(part, p) == {x \in Coach!InForce(part) : <<x, p>> \in order}
Before(part, p) == Coach!Outcome(part, Below(part, p))

Performs(c, op, pc, part) ==
  coachCall[c].op = op /\ coachCall[c].pc = pc /\ Coach!PartOf(coachCall[c].id) = part
About(c, part) == coachCall[c].op \in {"apply", "revert"} /\ Coach!PartOf(coachCall[c].id) = part
Under(p, op) == \E c \in Callers : coachCall[c].op = op /\ coachCall[c].pc = "status" /\ coachCall[c].id = p

\* The configuration of a part is the outcome of the changes in force.
Reached(part) == config[part] = Coach!Outcome(part, Coach!InForce(part))

\* One call at a time is about the part.
Alone(part) == \A c, d \in Callers : About(c, part) /\ About(d, part) => c = d

\* What a call writes and remembers is right for what is in force.
Carried(part, c) ==
  LET p == coachCall[c].id IN
  /\ Performs(c, "apply", "write", part) =>
       /\ p \notin work /\ coachCall[c].previous = config[part]
       /\ coachCall[c].value = Coach!Applied(p, config[part])
  /\ Performs(c, "apply", "status", part) => p \in work /\ coachCall[c].previous = Before(part, p)
  /\ Performs(c, "revert", "write", part) =>
       /\ p \in work /\ coachCall[c].value = Before(part, p)
       /\ part = "persona" => \A x \in Coach!InForce(part) \ {p} : <<x, p>> \in order
  /\ Performs(c, "revert", "status", part) => p \notin work

\* What a proposal remembers is what was there before it, unless the console has edited since.
Remembered(part, p) ==
  /\ p \in work /\ ~Under(p, "apply") =>
       /\ coaching[p].status # "pending"
       /\ \/ part = "persona" /\ <<p, "console">> \in order
          \/ coaching[p].previous = Before(part, p)
  /\ coaching[p].status = "applied" /\ ~Under(p, "revert") => p \in work

PartKept(part) ==
  /\ Reached(part) /\ Alone(part)
  /\ \A c \in Callers : Carried(part, c)
  /\ \A p \in Changes : Coach!PartOf(p) = part => Remembered(part, p)

CoachInv ==
  /\ CoachTypes
  /\ \A part \in Coach!Parts : part \in overlapped \cup swept \/ PartKept(part)

-----------------------------------------------------------------------------
LEMMA CoachNames ==
  /\ Coach!Base = "base" /\ Coach!Console = "console"
  /\ "base" \notin Changes /\ "console" \notin Changes
  /\ Coach!Texts = Changes \cup {"base", "console"}
  /\ Coach!Parts = {"persona", "rules", "scenario"}
BY MarksAssumption DEF Coach!Base, Coach!Console, Coach!Texts, Coach!Parts

LEMMA CoachTypeFacts ==
  ASSUME CoachTypes
  PROVE  /\ coaching \in [Changes -> ChangeTypes]
         /\ config \in [Coach!Parts -> SUBSET Coach!Texts]
         /\ coachCall \in [Callers -> CoachSlots]
         /\ work \subseteq Changes \cup {"console"} /\ order \subseteq work \X work
         /\ overlapped \subseteq Coach!Parts /\ swept \subseteq {"rules", "scenario"}
BY CoachNames DEF CoachTypes, Coach!TypeOK, ChangeTypes

LEMMA PartsOfAll ==
  /\ \A x : Coach!PartOf(x) = IF x = "console" THEN "persona" ELSE Coach!Part(coaching[x].type)
  /\ \A x : Coach!PartOf(x)' = IF x = "console" THEN "persona" ELSE Coach!Part(coaching'[x].type)
  /\ \A type : Coach!Part(type) \in Coach!Parts
  /\ \A type : Coach!Part(type) = IF type = "persona" THEN "persona"
                                  ELSE IF type = "scenario" THEN "scenario" ELSE "rules"
<1>1. \A x : Coach!PartOf(x) = IF x = "console" THEN "persona" ELSE Coach!Part(coaching[x].type)
  BY CoachNames DEF Coach!PartOf
<1>2. \A x : Coach!PartOf(x)' = IF x = "console" THEN "persona" ELSE Coach!Part(coaching'[x].type)
  BY CoachNames DEF Coach!PartOf
<1>3. \A type : Coach!Part(type) = IF type = "persona" THEN "persona"
                                  ELSE IF type = "scenario" THEN "scenario" ELSE "rules"
  BY DEF Coach!Part
<1>4. QED
  BY <1>1, <1>2, <1>3, CoachNames

(* The outcome of changes, as a function of what it is computed from.       *)
Result(part, xs, drafts, later) ==
  IF part = "rules"
  THEN {x \in xs : drafts[x].type # "rule_remove"}
       \cup IF \E x \in xs : drafts[x].type # "rule_add" THEN {} ELSE {"base"}
  ELSE IF xs = {} THEN {"base"} ELSE {x \in xs : \A y \in xs \ {x} : <<y, x>> \in later}

LEMMA OutcomeIs ==
  /\ \A part, xs : Coach!Outcome(part, xs) = Result(part, xs, coaching, order)
  /\ \A part, xs : Coach!Outcome(part, xs)' = Result(part, xs, coaching', order')
BY CoachNames DEF Coach!Outcome, Coach!Latest, Result

LEMMA SameResult ==
  ASSUME NEW part, NEW xs, NEW drafts, NEW later, NEW drafts2, NEW later2,
         part = "rules" => \A x \in xs : drafts2[x].type = drafts[x].type,
         \A x, y \in xs : <<x, y>> \in later2 <=> <<x, y>> \in later
  PROVE  Result(part, xs, drafts2, later2) = Result(part, xs, drafts, later)
<1>1. CASE part = "rules"
  BY <1>1 DEF Result
<1>2. CASE part # "rules"
  <2>1. {x \in xs : \A y \in xs \ {x} : <<y, x>> \in later2} = {x \in xs : \A y \in xs \ {x} : <<y, x>> \in later}
    OBVIOUS
  <2>2. QED
    BY <1>2, <2>1 DEF Result
<1>3. QED
  BY <1>1, <1>2

(* A drafted proposal keeps its type.                                       *)
DraftsStay == \A x \in Changes : Drawn(x) => coaching'[x].type = coaching[x].type

LEMMA PartsStay ==
  ASSUME CoachTypes, DraftsStay
  PROVE  /\ \A x : x = "console" \/ (x \in Changes /\ Drawn(x)) => Coach!PartOf(x)' = Coach!PartOf(x)
         /\ \A x \in work : Coach!PartOf(x)' = Coach!PartOf(x)
<1>1. \A x : x = "console" \/ (x \in Changes /\ Drawn(x)) => Coach!PartOf(x)' = Coach!PartOf(x)
  BY PartsOfAll DEF DraftsStay
<1>2. \A x \in work : x = "console" \/ (x \in Changes /\ Drawn(x))
  BY CoachTypeFacts DEF CoachTypes, InOrder
<1>3. QED
  BY <1>1, <1>2

(* Where the changes in force and their order stay, what they come to stays. *)
LEMMA OutcomesStay ==
  ASSUME CoachTypes, DraftsStay, NEW part,
         Coach!InForce(part)' = Coach!InForce(part),
         \A x, y \in Coach!InForce(part) : <<x, y>> \in order' <=> <<x, y>> \in order
  PROVE  /\ Coach!Outcome(part, Coach!InForce(part))' = Coach!Outcome(part, Coach!InForce(part))
         /\ \A p \in Coach!InForce(part) : Before(part, p)' = Before(part, p)
<1>1. PICK xs : xs = Coach!InForce(part)
  OBVIOUS
<1>2. xs = Coach!InForce(part)'
  BY <1>1
<1>3. \A x \in xs : part = "rules" => coaching'[x].type = coaching[x].type
  <2>1. \A x \in xs : x \in work /\ Coach!PartOf(x) = part
    BY <1>1 DEF Coach!InForce
  <2>2. \A x \in xs : part = "rules" => x # "console"
    BY <2>1, PartsOfAll
  <2>3. QED
    BY <2>1, <2>2, CoachTypeFacts DEF CoachTypes, InOrder, DraftsStay
<1>4. \A ys \in SUBSET xs : Coach!Outcome(part, ys)' = Coach!Outcome(part, ys)
  <2> TAKE ys \in SUBSET xs
  <2>1. Result(part, ys, coaching', order') = Result(part, ys, coaching, order)
    BY <1>1, <1>3, SameResult
  <2>2. QED
    BY <2>1, OutcomeIs
<1>5. Coach!Outcome(part, Coach!InForce(part))' = Coach!Outcome(part, Coach!InForce(part))
  <2>1. Coach!Outcome(part, Coach!InForce(part)) = Coach!Outcome(part, xs)
    BY <1>1
  <2>2. Coach!Outcome(part, Coach!InForce(part))' = Coach!Outcome(part, xs)'
    BY <1>2
  <2>3. QED
    BY <1>4, <2>1, <2>2
<1>6. ASSUME NEW p \in xs PROVE Before(part, p)' = Before(part, p)
  <2>1. PICK ys : ys = Below(part, p)
    OBVIOUS
  <2>2. ys \in SUBSET xs
    BY <1>1, <2>1 DEF Below
  <2>3. ys = Below(part, p)'
    BY <1>1, <1>2, <2>1, <1>6 DEF Below
  <2>4. Before(part, p) = Coach!Outcome(part, ys)
    BY <2>1 DEF Before
  <2>5. Before(part, p)' = Coach!Outcome(part, ys)'
    BY <2>3 DEF Before
  <2>6. QED
    BY <1>4, <2>2, <2>4, <2>5
<1>7. QED
  BY <1>1, <1>5, <1>6

-----------------------------------------------------------------------------
(* Steps that leave the configuration and the changes in force alone.       *)

QuietStep == DraftsStay /\ config' = config /\ work' = work /\ order' = order /\ swept' = swept
StillDrawn == \A x \in Changes : Drawn(x) => Drawn(x)'

LEMMA QuietFrame ==
  ASSUME CoachTypes, QuietStep
  PROVE  /\ \A part : Coach!InForce(part)' = Coach!InForce(part)
         /\ \A part : Reached(part) => Reached(part)'
         /\ \A part : \A p \in work : Coach!PartOf(p) = part => Before(part, p)' = Before(part, p)
<1>1. \A part : Coach!InForce(part)' = Coach!InForce(part)
  BY PartsStay DEF Coach!InForce, QuietStep
<1>2. ASSUME NEW part
      PROVE  /\ Coach!Outcome(part, Coach!InForce(part))' = Coach!Outcome(part, Coach!InForce(part))
             /\ \A p \in Coach!InForce(part) : Before(part, p)' = Before(part, p)
  BY <1>1, OutcomesStay DEF QuietStep
<1>3. \A part : Reached(part) => Reached(part)'
  BY <1>2 DEF Reached, QuietStep
<1>4. \A part : \A p \in work : Coach!PartOf(p) = part => p \in Coach!InForce(part)
  BY DEF Coach!InForce
<1>5. QED
  BY <1>1, <1>2, <1>3, <1>4

LEMMA SlotFacts ==
  ASSUME CoachTypes, NEW c \in Callers
  PROVE  /\ coachCall[c] \in CoachSlots
         /\ coachCall[c].pc = "idle" <=> coachCall[c].op = "none"
         /\ coachCall[c].op = "reject" => coachCall[c].pc = "status"
         /\ coachCall[c].op = "revert" => coachCall[c].pc \in {"write", "status"}
         /\ coachCall[c].op # "none" => coachCall[c].id \in Changes /\ Drawn(coachCall[c].id)
<1>1. coachCall[c] \in CoachSlots /\ Commissioned(coachCall[c])
  BY DEF CoachTypes
<1>2. QED
  BY <1>1 DEF Commissioned

LEMMA QuietTypes ==
  ASSUME CoachTypes, QuietStep, StillDrawn, NEW c \in Callers, NEW slot \in CoachSlots,
         coachCall' = [coachCall EXCEPT ![c] = slot], Commissioned(slot)',
         coaching' \in [Changes -> ChangeTypes], overlapped' \subseteq Coach!Parts
  PROVE  CoachTypes'
<1>1. coachCall' \in [Callers -> CoachSlots]
  BY CoachTypeFacts
<1>2. \A d \in Callers : coachCall'[d].pc \in {"idle", "write", "status", "peers"}
  BY <1>1 DEF CoachSlots
<1>3. config' \in [Coach!Parts -> SUBSET Coach!Texts] /\ work' \subseteq Changes \cup {"console"}
      /\ order' \subseteq work' \X work' /\ swept' \subseteq {"rules", "scenario"}
  BY CoachTypeFacts DEF QuietStep
<1>4. Coach!TypeOK'
  BY <1>2, <1>3, CoachNames DEF Coach!TypeOK, ChangeTypes
<1>5. ASSUME NEW d \in Callers PROVE Commissioned(coachCall[d])'
  <2>1. CASE d = c
    BY <2>1, CoachTypeFacts
  <2>2. CASE d # c
    <3>1. coachCall'[d] = coachCall[d]
      BY <2>2, CoachTypeFacts
    <3>2. PICK old : old = coachCall[d]
      OBVIOUS
    <3>3. Commissioned(old)
      BY <3>2 DEF CoachTypes
    <3>4. Commissioned(old)'
      BY <3>3 DEF Commissioned, StillDrawn
    <3>5. QED
      BY <3>1, <3>2, <3>4
  <2>3. QED
    BY <2>1, <2>2
<1>6. InOrder'
  <2>1. \A x \in work' : x = "console" \/ Drawn(x)'
    BY CoachTypeFacts DEF CoachTypes, InOrder, QuietStep, StillDrawn
  <2>2. \A x, y \in work' : <<x, y>> \in order' <=> x # y /\ <<y, x>> \notin order'
    BY DEF CoachTypes, InOrder, QuietStep
  <2>3. QED
    BY <2>1, <2>2 DEF InOrder
<1>7. QED
  BY <1>1, <1>4, <1>5, <1>6 DEF CoachTypes

(* The calls that do not take the step carry what they carried.             *)
LEMMA QuietCarried ==
  ASSUME CoachTypes, QuietStep, NEW d \in Callers, coachCall'[d] = coachCall[d],
         NEW q, Carried(q, d)
  PROVE  Carried(q, d)'
<1>1. CASE coachCall[d].op = "none"
  BY <1>1 DEF Carried, Performs
<1>2. CASE coachCall[d].op # "none"
  <2>1. PICK p : p = coachCall[d].id
    OBVIOUS
  <2>2. p \in Changes /\ Drawn(p)
    BY <1>2, <2>1, SlotFacts
  <2>3. Coach!PartOf(p)' = Coach!PartOf(p)
    BY <2>2, PartsStay DEF QuietStep
  <2>4. coachCall'[d].id = p /\ coachCall'[d].op = coachCall[d].op /\ coachCall'[d].pc = coachCall[d].pc
        /\ coachCall'[d].value = coachCall[d].value /\ coachCall'[d].previous = coachCall[d].previous
    BY <2>1
  <2>5. \A op, pc : Performs(d, op, pc, q)' <=> Performs(d, op, pc, q)
    BY <2>1, <2>3, <2>4 DEF Performs
  <2>6. \A was : Coach!Applied(p, was)' = Coach!Applied(p, was)
    BY <2>2, CoachNames DEF Coach!Applied, QuietStep, DraftsStay
  <2>7. Coach!Applied(p, config[q])' = Coach!Applied(p, config[q])
    <3>1. PICK was : was = config[q]
      OBVIOUS
    <3>2. Coach!Applied(p, config[q])' = Coach!Applied(p, was)'
      BY <3>1 DEF QuietStep
    <3>3. QED
      BY <2>6, <3>1, <3>2
  <2>8. p \in work /\ Coach!PartOf(p) = q => Before(q, p)' = Before(q, p)
    BY QuietFrame
  <2>9. Coach!InForce(q)' = Coach!InForce(q)
    BY QuietFrame
  <2>10. \A op, pc : Performs(d, op, pc, q) => Coach!PartOf(p) = q
    BY <2>1 DEF Performs
  <2>11. Performs(d, "apply", "write", q)' =>
           /\ p \notin work' /\ coachCall'[d].previous = config'[q]
           /\ coachCall'[d].value = Coach!Applied(p, config[q])'
    BY <2>1, <2>4, <2>5, <2>7 DEF Carried, QuietStep
  <2>12. Performs(d, "apply", "status", q)' => p \in work' /\ coachCall'[d].previous = Before(q, p)'
    BY <2>1, <2>4, <2>5, <2>8, <2>10 DEF Carried, QuietStep
  <2>13. Performs(d, "revert", "write", q)' =>
           /\ p \in work' /\ coachCall'[d].value = Before(q, p)'
           /\ q = "persona" => \A x \in Coach!InForce(q)' \ {p} : <<x, p>> \in order'
    BY <2>1, <2>4, <2>5, <2>8, <2>9, <2>10 DEF Carried, QuietStep
  <2>14. Performs(d, "revert", "status", q)' => p \notin work'
    BY <2>1, <2>4, <2>5 DEF Carried, QuietStep
  <2>15. QED
    BY <2>4, <2>11, <2>12, <2>13, <2>14 DEF Carried
<1>3. QED
  BY <1>1, <1>2

LEMMA QuietRemembered ==
  ASSUME CoachTypes, QuietStep, NEW q, NEW p \in Changes, Coach!PartOf(p) = q, Remembered(q, p),
         coaching'[p] = coaching[p],
         \A op \in {"apply", "revert"} : Under(p, op) => Under(p, op)'
  PROVE  Remembered(q, p)'
<1>1. p \in work => Before(q, p)' = Before(q, p)
  BY QuietFrame
<1>2. p \in work' /\ ~Under(p, "apply")' =>
        /\ coaching'[p].status # "pending"
        /\ \/ q = "persona" /\ <<p, "console">> \in order'
           \/ coaching'[p].previous = Before(q, p)'
  BY <1>1 DEF Remembered, QuietStep
<1>3. coaching'[p].status = "applied" /\ ~Under(p, "revert")' => p \in work'
  BY DEF Remembered, QuietStep
<1>4. QED
  BY <1>2, <1>3 DEF Remembered

LEMMA UnderStays ==
  ASSUME CoachTypes, NEW c \in Callers, NEW slot, coachCall' = [coachCall EXCEPT ![c] = slot],
         NEW p, NEW op, ~(coachCall[c].op = op /\ coachCall[c].pc = "status" /\ coachCall[c].id = p),
         Under(p, op)
  PROVE  Under(p, op)'
<1>1. PICK d \in Callers : coachCall[d].op = op /\ coachCall[d].pc = "status" /\ coachCall[d].id = p
  BY DEF Under
<1>2. coachCall'[d] = coachCall[d]
  BY <1>1, CoachTypeFacts
<1>3. QED
  BY <1>1, <1>2 DEF Under

(* A quiet step of c keeps the invariant of a part if it keeps what c       *)
(* carries, and what the proposals remember that it is about.               *)
LEMMA QuietKeeps ==
  ASSUME CoachInv, QuietStep, NEW c \in Callers, NEW slot, coachCall' = [coachCall EXCEPT ![c] = slot],
         overlapped \subseteq overlapped',
         NEW q \in Coach!Parts, q \notin overlapped' \cup swept', Alone(q)', Carried(q, c)',
         \A p \in Changes : Coach!PartOf(p)' = q =>
           \/ Remembered(q, p)'
           \/ /\ coaching'[p] = coaching[p]
              /\ ~(coachCall[c].op \in {"apply", "revert"} /\ coachCall[c].pc = "status" /\ coachCall[c].id = p)
  PROVE  PartKept(q)'
<1> USE DEF CoachInv
<1>1. PartKept(q)
  BY DEF QuietStep
<1>2. Reached(q)'
  BY <1>1, QuietFrame DEF PartKept
<1>3. ASSUME NEW d \in Callers PROVE Carried(q, d)'
  <2>1. CASE d = c
    BY <2>1
  <2>2. CASE d # c
    <3>1. coachCall'[d] = coachCall[d]
      BY <2>2, CoachTypeFacts
    <3>2. QED
      BY <1>1, <3>1, QuietCarried DEF PartKept
  <2>3. QED
    BY <2>1, <2>2
<1>4. ASSUME NEW p \in Changes, Coach!PartOf(p)' = q PROVE Remembered(q, p)'
  <2>1. CASE Remembered(q, p)'
    BY <2>1
  <2>2. CASE /\ coaching'[p] = coaching[p]
             /\ ~(coachCall[c].op \in {"apply", "revert"} /\ coachCall[c].pc = "status" /\ coachCall[c].id = p)
    <3>1. Coach!PartOf(p) = q
      BY <1>4, <2>2, PartsOfAll
    <3>2. Remembered(q, p)
      BY <1>1, <3>1 DEF PartKept
    <3>3. \A op \in {"apply", "revert"} : Under(p, op) => Under(p, op)'
      BY <2>2, UnderStays
    <3>4. QED
      BY <2>2, <3>1, <3>2, <3>3, QuietRemembered
  <2>3. QED
    BY <1>4, <2>1, <2>2
<1>5. QED
  BY <1>2, <1>3, <1>4 DEF PartKept

LEMMA AloneStays ==
  ASSUME NEW q, Alone(q), \A d \in Callers : About(d, q)' => About(d, q)
  PROVE  Alone(q)'
BY DEF Alone

LEMMA AboutOthers ==
  ASSUME CoachTypes, DraftsStay, NEW c \in Callers, NEW slot, coachCall' = [coachCall EXCEPT ![c] = slot],
         NEW d \in Callers, d # c, NEW q
  PROVE  About(d, q)' <=> About(d, q)
<1>1. coachCall'[d] = coachCall[d]
  BY CoachTypeFacts
<1>2. coachCall[d].op # "none" => coachCall[d].id \in Changes /\ Drawn(coachCall[d].id)
  BY SlotFacts
<1>3. PICK p : p = coachCall[d].id
  OBVIOUS
<1>4. coachCall[d].op # "none" => Coach!PartOf(p)' = Coach!PartOf(p)
  BY <1>2, <1>3, PartsStay
<1>5. coachCall'[d].id = p /\ coachCall'[d].op = coachCall[d].op
  BY <1>1, <1>3
<1>6. QED
  BY <1>3, <1>4, <1>5 DEF About

\* A step of c after which c is about nothing it was not about before.
LEMMA AloneUnlessNew ==
  ASSUME CoachTypes, DraftsStay, NEW c \in Callers, NEW slot, coachCall' = [coachCall EXCEPT ![c] = slot],
         NEW q, Alone(q), About(c, q)' => About(c, q)
  PROVE  Alone(q)'
BY AboutOthers, AloneStays

(* A call that begins is the only one about its part, or the part is one of *)
(* the overlapped.                                                          *)
LEMMA BeginFacts ==
  ASSUME CoachTypes, NEW c \in Callers, NEW slot, Coach!Begin(c, slot),
         slot.id \in Changes, Drawn(slot.id), coaching' = coaching
  PROVE  /\ overlapped \subseteq overlapped' /\ overlapped' \subseteq Coach!Parts
         /\ coachCall' = [coachCall EXCEPT ![c] = slot] /\ coachCall[c].pc = "idle"
         /\ \A q : q \notin overlapped' /\ Alone(q) =>
              /\ Alone(q)'
              /\ Coach!PartOf(slot.id) = q => \A d \in Callers : ~About(d, q)
<1>1. PICK p : p = slot.id
  OBVIOUS
<1>2. /\ coachCall' = [coachCall EXCEPT ![c] = slot] /\ coachCall[c].pc = "idle"
      /\ overlapped' = IF \E d \in Coach!Busy : Coach!PartOf(coachCall[d].id) = Coach!PartOf(p)
                       THEN overlapped \cup {Coach!PartOf(p)} ELSE overlapped
  BY <1>1 DEF Coach!Begin, Coach!Start, Coach!Cross
<1>3. Coach!PartOf(p) \in Coach!Parts
  BY <1>1, PartsOfAll, CoachNames
<1>4. overlapped \subseteq overlapped' /\ overlapped' \subseteq Coach!Parts
  BY <1>2, <1>3, CoachTypeFacts
<1>5. \A q : q \notin overlapped' /\ Coach!PartOf(p) = q => \A d \in Callers : ~About(d, q)
  BY <1>2 DEF About, Coach!Busy
<1>6. DraftsStay
  BY DEF DraftsStay
<1>7. ASSUME NEW q, q \notin overlapped', Alone(q) PROVE Alone(q)'
  <2>1. CASE Coach!PartOf(p) = q
    <3>1. \A d \in Callers : d # c => ~About(d, q)'
      BY <1>2, <1>5, <1>6, <1>7, <2>1, AboutOthers
    <3>2. QED
      BY <3>1 DEF Alone
  <2>2. CASE Coach!PartOf(p) # q
    <3>1. coachCall'[c] = slot
      BY <1>2, CoachTypeFacts
    <3>2. Coach!PartOf(p)' # q
      BY <2>2, PartsOfAll
    <3>3. ~About(c, q)'
      BY <1>1, <3>1, <3>2 DEF About
    <3>4. QED
      BY <1>2, <1>6, <1>7, <3>3, AloneUnlessNew
  <2>3. QED
    BY <2>1, <2>2
<1>8. QED
  BY <1>1, <1>2, <1>4, <1>5, <1>7

-----------------------------------------------------------------------------
(* The actions that leave the configuration alone.                          *)

LEMMA PersistKeeps ==
  ASSUME CoachInv, NEW p \in Changes, Coach!Persist(p)
  PROVE  CoachInv'
<1> USE DEF CoachInv
<1>1. PICK type \in Coach!Types :
        coaching' = [coaching EXCEPT ![p] = [type |-> type, status |-> "pending", previous |-> {}]]
  BY DEF Coach!Persist
<1>2. /\ ~Drawn(p) /\ config' = config /\ coachCall' = coachCall /\ work' = work /\ order' = order
      /\ overlapped' = overlapped /\ swept' = swept
  BY DEF Coach!Persist, Drawn
<1>3. [type |-> type, status |-> "pending", previous |-> {}] \in ChangeTypes
  BY <1>1 DEF ChangeTypes
<1>4. coaching' \in [Changes -> ChangeTypes]
  BY <1>1, <1>3, CoachTypeFacts
<1>5. /\ \A x \in Changes : x # p => coaching'[x] = coaching[x]
      /\ coaching'[p].status = "pending"
  BY <1>1, CoachTypeFacts
<1>6. QuietStep /\ StillDrawn
  BY <1>2, <1>5 DEF QuietStep, DraftsStay, StillDrawn, Drawn
<1>7. CoachTypes'
  <2>1. Coach!TypeOK'
    BY <1>2, <1>4, CoachNames DEF CoachTypes, Coach!TypeOK, ChangeTypes
  <2>2. ASSUME NEW d \in Callers PROVE Commissioned(coachCall[d])'
    <3>1. PICK old : old = coachCall[d]
      OBVIOUS
    <3>2. Commissioned(old)'
      BY <1>6, <3>1 DEF CoachTypes, Commissioned, StillDrawn
    <3>3. QED
      BY <1>2, <3>1, <3>2
  <2>3. InOrder'
    <3>1. \A x \in work' : x = "console" \/ Drawn(x)'
      BY <1>2, <1>6, CoachTypeFacts DEF CoachTypes, InOrder, StillDrawn
    <3>2. QED
      BY <1>2, <3>1 DEF CoachTypes, InOrder
  <2>4. QED
    BY <1>2, <2>1, <2>2, <2>3 DEF CoachTypes
<1>8. ASSUME NEW q \in Coach!Parts, q \notin overlapped' \cup swept'
      PROVE  PartKept(q)'
  <2>1. PartKept(q)
    BY <1>2, <1>8
  <2>2. Reached(q)'
    BY <1>6, <2>1, QuietFrame DEF PartKept
  <2>3. \A d \in Callers : Carried(q, d)'
    BY <1>2, <1>6, <2>1, QuietCarried DEF PartKept
  <2>4. \A d \in Callers : About(d, q)' => About(d, q)
    <3> TAKE d \in Callers
    <3>1. PICK x : x = coachCall[d].id
      OBVIOUS
    <3>2. coachCall[d].op # "none" => x \in Changes /\ Drawn(x)
      BY <3>1, SlotFacts
    <3>3. coachCall[d].op # "none" => Coach!PartOf(x)' = Coach!PartOf(x)
      BY <1>6, <3>2, PartsStay DEF QuietStep
    <3>4. QED
      BY <1>2, <3>1, <3>3 DEF About
  <2>5. Alone(q)'
    BY <2>1, <2>4, AloneStays DEF PartKept
  <2>6. ASSUME NEW x \in Changes, Coach!PartOf(x)' = q PROVE Remembered(q, x)'
    <3>1. CASE x = p
      <4>1. p \notin work'
        BY <1>2, CoachNames DEF CoachTypes, InOrder
      <4>2. QED
        BY <1>5, <3>1, <4>1 DEF Remembered
    <3>2. CASE x # p
      <4>1. coaching'[x] = coaching[x]
        BY <1>5, <3>2
      <4>2. Coach!PartOf(x) = q
        BY <2>6, <4>1, PartsOfAll
      <4>3. \A op : Under(x, op) => Under(x, op)'
        BY <1>2 DEF Under
      <4>4. QED
        BY <1>6, <2>1, <4>1, <4>2, <4>3, QuietRemembered DEF PartKept
    <3>3. QED
      BY <3>1, <3>2
  <2>7. QED
    BY <2>2, <2>3, <2>5, <2>6 DEF PartKept
<1>9. QED
  BY <1>7, <1>8

LEMMA AppliedTypes ==
  ASSUME CoachTypes, NEW p \in Changes, NEW was \in SUBSET Coach!Texts
  PROVE  Coach!Applied(p, was) \in SUBSET Coach!Texts
<1>1. p \in Coach!Texts
  BY CoachNames
<1>2. CASE coaching[p].type \in {"rule_add", "rule_edit", "rule_remove"}
  <2>1. CASE coaching[p].type = "rule_add"
    BY <1>1, <2>1 DEF Coach!Applied
  <2>2. CASE coaching[p].type = "rule_edit"
    BY <1>1, <2>2 DEF Coach!Applied
  <2>3. CASE coaching[p].type = "rule_remove"
    BY <1>1, <2>3 DEF Coach!Applied
  <2>4. QED
    BY <1>2, <2>1, <2>2, <2>3
<1>3. CASE coaching[p].type \notin {"rule_add", "rule_edit", "rule_remove"}
  BY <1>1, <1>3 DEF Coach!Applied
<1>4. QED
  BY <1>2, <1>3

LEMMA ApplyReadKeeps ==
  ASSUME CoachInv, NEW c \in Callers, NEW p \in Changes, Coach!ApplyRead(c, p)
  PROVE  CoachInv'
<1> USE DEF CoachInv
<1>1. PICK part : part = Coach!Part(coaching[p].type)
  OBVIOUS
<1>2. PICK was : was = config[part]
  OBVIOUS
<1>3. PICK value : value = Coach!Applied(p, was)
  OBVIOUS
<1>4. PICK slot : slot = [op |-> "apply", pc |-> "write", id |-> p, previous |-> was, value |-> value]
  OBVIOUS
<1>5. /\ coaching[p].status = "pending" /\ Coach!Begin(c, slot)
      /\ coaching' = coaching /\ config' = config /\ work' = work /\ order' = order /\ swept' = swept
  BY <1>1, <1>2, <1>3, <1>4 DEF Coach!ApplyRead
<1>6. part \in Coach!Parts /\ was \in SUBSET Coach!Texts
  BY <1>1, <1>2, PartsOfAll, CoachTypeFacts
<1>7. slot \in CoachSlots
  <2>1. value \in SUBSET Coach!Texts
    BY <1>3, <1>6, AppliedTypes
  <2>2. QED
    BY <1>4, <1>6, <2>1 DEF CoachSlots
<1>8. QuietStep /\ StillDrawn /\ Drawn(p)
  BY <1>5 DEF QuietStep, DraftsStay, StillDrawn, Drawn
<1>9. /\ overlapped \subseteq overlapped' /\ overlapped' \subseteq Coach!Parts
      /\ coachCall' = [coachCall EXCEPT ![c] = slot] /\ coachCall[c].pc = "idle"
      /\ \A q : q \notin overlapped' /\ Alone(q) =>
           /\ Alone(q)'
           /\ Coach!PartOf(p) = q => \A d \in Callers : ~About(d, q)
  BY <1>4, <1>5, <1>8, BeginFacts
<1>10. CoachTypes'
  <2>1. Commissioned(slot)'
    BY <1>4, <1>8 DEF Commissioned, StillDrawn
  <2>2. QED
    BY <1>5, <1>7, <1>8, <1>9, <2>1, CoachTypeFacts, QuietTypes
<1>11. Coach!PartOf(p) = part /\ Coach!PartOf(p)' = part
  BY <1>1, <1>5, PartsOfAll, CoachNames
<1>12. coachCall'[c] = slot
  BY <1>9, CoachTypeFacts
<1>13. ASSUME NEW q \in Coach!Parts, q \notin overlapped' \cup swept'
       PROVE  PartKept(q)'
  <2>1. PartKept(q)
    BY <1>8, <1>9, <1>13 DEF QuietStep
  <2>2. Carried(q, c)'
    <3>1. CASE part = q
      <4>1. \A d \in Callers : ~About(d, q)
        BY <1>9, <1>11, <1>13, <2>1, <3>1 DEF PartKept
      <4>2. ~Under(p, "apply")
        BY <1>11, <3>1, <4>1 DEF Under, About
      <4>3. p \notin work
        BY <1>5, <1>11, <2>1, <3>1, <4>2 DEF PartKept, Remembered
      <4>4. \A x : Coach!Applied(p, x)' = Coach!Applied(p, x)
        BY <1>5 DEF Coach!Applied
      <4>5. Coach!Applied(p, config[q])' = value
        <5>1. config'[q] = was
          BY <1>2, <1>5, <3>1
        <5>2. Coach!Applied(p, config[q])' = Coach!Applied(p, was)'
          BY <5>1
        <5>3. QED
          BY <1>3, <4>4, <5>2
      <4>6. p \notin work' /\ was = config'[q] /\ value = Coach!Applied(p, config[q])'
        BY <1>2, <1>5, <3>1, <4>3, <4>5
      <4>7. QED
        BY <1>4, <1>12, <4>6 DEF Carried, Performs
    <3>2. CASE part # q
      BY <1>4, <1>11, <1>12, <3>2 DEF Carried, Performs
    <3>3. QED
      BY <3>1, <3>2
  <2>3. \A x \in Changes : coaching'[x] = coaching[x]
          /\ ~(coachCall[c].op \in {"apply", "revert"} /\ coachCall[c].pc = "status" /\ coachCall[c].id = x)
    BY <1>5, <1>9
  <2>4. Alone(q)'
    BY <1>9, <1>13, <2>1 DEF PartKept
  <2>5. QED
    BY <1>8, <1>9, <1>13, <2>2, <2>3, <2>4, QuietKeeps
<1>14. QED
  BY <1>10, <1>13

LEMMA ApplyStatusKeeps ==
  ASSUME CoachInv, NEW c \in Callers, Coach!ApplyStatus(c)
  PROVE  CoachInv'
<1> USE DEF CoachInv
<1>1. PICK old : old = coachCall[c]
  OBVIOUS
<1>2. PICK p : p = old.id
  OBVIOUS
<1>3. PICK slot : slot = [old EXCEPT !.pc = "peers", !.previous = {}]
  OBVIOUS
<1>4. /\ old.op = "apply" /\ old.pc = "status"
      /\ coaching' = [coaching EXCEPT ![p].status = "applied", ![p].previous = old.previous]
      /\ config' = config /\ work' = work /\ order' = order /\ swept' = swept /\ overlapped' = overlapped
  BY <1>1, <1>2 DEF Coach!ApplyStatus
<1>5. old \in CoachSlots /\ p \in Changes /\ Drawn(p)
  BY <1>1, <1>2, <1>4, SlotFacts
<1>6. /\ slot \in CoachSlots /\ slot.op = "apply" /\ slot.pc = "peers" /\ slot.id = p
  BY <1>2, <1>3, <1>4, <1>5 DEF CoachSlots
<1>7. coachCall' = [coachCall EXCEPT ![c] = slot]
  BY <1>1, <1>3, CoachTypeFacts DEF Coach!ApplyStatus, CoachSlots
<1>8. /\ coaching' \in [Changes -> ChangeTypes]
      /\ coaching'[p].status = "applied" /\ coaching'[p].previous = old.previous
      /\ \A x \in Changes : x # p => coaching'[x] = coaching[x]
      /\ \A x \in Changes : coaching'[x].type = coaching[x].type
  <2>1. old.previous \in SUBSET Coach!Texts
    BY <1>5 DEF CoachSlots
  <2>2. PICK saved : saved = [coaching[p] EXCEPT !.status = "applied", !.previous = old.previous]
    OBVIOUS
  <2>3. coaching[p] \in ChangeTypes
    BY <1>5, CoachTypeFacts
  <2>4. /\ saved \in ChangeTypes /\ saved.status = "applied" /\ saved.previous = old.previous
        /\ saved.type = coaching[p].type
    BY <2>1, <2>2, <2>3 DEF ChangeTypes
  <2>5. coaching' = [coaching EXCEPT ![p] = saved]
    BY <1>4, <1>5, <2>2, CoachTypeFacts
  <2>6. QED
    BY <1>5, <2>4, <2>5, CoachTypeFacts
<1>9. QuietStep /\ StillDrawn
  BY <1>4, <1>8 DEF QuietStep, DraftsStay, StillDrawn, Drawn
<1>10. CoachTypes'
  <2>1. Commissioned(slot)'
    BY <1>5, <1>6, <1>9 DEF Commissioned, StillDrawn
  <2>2. QED
    BY <1>4, <1>6, <1>7, <1>8, <1>9, <2>1, CoachTypeFacts, QuietTypes
<1>11. coachCall'[c] = slot
  BY <1>7, CoachTypeFacts
<1>12. Coach!PartOf(p)' = Coach!PartOf(p)
  BY <1>8, <1>5, PartsOfAll
<1>13. ASSUME NEW q \in Coach!Parts, q \notin overlapped' \cup swept'
       PROVE  PartKept(q)'
  <2>1. PartKept(q)
    BY <1>4, <1>13
  <2>2. Carried(q, c)'
    BY <1>6, <1>11 DEF Carried, Performs
  <2>3. About(c, q)' => About(c, q)
    BY <1>1, <1>2, <1>4, <1>6, <1>11, <1>12 DEF About
  <2>4. Alone(q)'
    BY <1>7, <1>9, <2>1, <2>3, AloneUnlessNew DEF PartKept, QuietStep
  <2>5. Coach!PartOf(p)' = q => Remembered(q, p)'
    <3> HAVE Coach!PartOf(p)' = q
    <3>1. p \in work /\ old.previous = Before(q, p)
      BY <1>1, <1>2, <1>4, <1>12, <2>1 DEF PartKept, Carried, Performs
    <3>2. Before(q, p)' = Before(q, p)
      BY <1>9, <1>12, <3>1, QuietFrame
    <3>3. QED
      BY <1>4, <1>8, <3>1, <3>2 DEF Remembered
  <2>6. \A x \in Changes : Coach!PartOf(x)' = q =>
          \/ Remembered(q, x)'
          \/ /\ coaching'[x] = coaching[x]
             /\ ~(coachCall[c].op \in {"apply", "revert"} /\ coachCall[c].pc = "status" /\ coachCall[c].id = x)
    BY <1>1, <1>2, <1>8, <2>5
  <2>7. QED
    BY <1>4, <1>7, <1>9, <1>13, <2>2, <2>4, <2>6, QuietKeeps
<1>14. QED
  BY <1>10, <1>13

\* A proposal that is given up keeps what it remembers.
LEMMA GivenUp ==
  ASSUME CoachTypes, QuietStep, NEW q, NEW p \in Changes, Coach!PartOf(p) = q, Remembered(q, p),
         coaching'[p].previous = coaching[p].previous,
         coaching'[p].status \in {"rejected", "superseded"},
         Under(p, "apply") => Under(p, "apply")'
  PROVE  Remembered(q, p)'
<1>1. p \in work => Before(q, p)' = Before(q, p)
  BY QuietFrame
<1>2. p \in work' /\ ~Under(p, "apply")' =>
        /\ coaching'[p].status # "pending"
        /\ \/ q = "persona" /\ <<p, "console">> \in order'
           \/ coaching'[p].previous = Before(q, p)'
  BY <1>1 DEF Remembered, QuietStep
<1>3. coaching'[p].status # "applied"
  OBVIOUS
<1>4. QED
  BY <1>2, <1>3 DEF Remembered

LEMMA IdleFacts ==
  /\ Coach!Idle \in CoachSlots /\ Coach!Idle.op = "none" /\ Coach!Idle.pc = "idle"
  /\ Commissioned(Coach!Idle)' /\ \A c, q : coachCall'[c] = Coach!Idle => Carried(q, c)' /\ ~About(c, q)'
<1>1. Coach!Idle = [op |-> "none", pc |-> "idle", id |-> "base", previous |-> {}, value |-> {}]
  BY DEF Coach!Idle, Coach!Base
<1>2. Coach!Idle \in CoachSlots
  BY <1>1 DEF CoachSlots
<1>3. Commissioned(Coach!Idle)'
  BY <1>1 DEF Commissioned
<1>4. \A c, q : coachCall'[c] = Coach!Idle => Carried(q, c)' /\ ~About(c, q)'
  BY <1>1 DEF Carried, Performs, About
<1>5. QED
  BY <1>1, <1>2, <1>3, <1>4

LEMMA SupersedeKeeps ==
  ASSUME CoachInv, NEW c \in Callers, Coach!Supersede(c)
  PROVE  CoachInv'
<1> USE DEF CoachInv
<1>1. PICK slot : slot = Coach!Idle
  OBVIOUS
<1>2. PICK peers \in SUBSET Changes :
        /\ \A x \in peers : coaching[x].status = "pending"
        /\ coaching' = [x \in Changes |-> IF x \in peers THEN [coaching[x] EXCEPT !.status = "superseded"]
                                          ELSE coaching[x]]
  <2> DEFINE p == coachCall[c].id
             peers == {x \in Changes : x # p /\ coaching[x].status = "pending" /\ Coach!SharesTargetWith(p, x)}
  <2>1. coaching' = [x \in Changes |-> IF x \in peers THEN [coaching[x] EXCEPT !.status = "superseded"]
                                       ELSE coaching[x]]
    BY DEF Coach!Supersede
  <2>2. QED
    BY <2>1
<1>3. /\ coachCall[c].op = "apply" /\ coachCall[c].pc = "peers" /\ coachCall' = [coachCall EXCEPT ![c] = slot]
      /\ config' = config /\ work' = work /\ order' = order /\ swept' = swept /\ overlapped' = overlapped
  BY <1>1 DEF Coach!Supersede, Coach!End
<1>4. /\ coaching' \in [Changes -> ChangeTypes]
      /\ \A x \in Changes : coaching'[x].type = coaching[x].type
      /\ \A x \in Changes : x \notin peers => coaching'[x] = coaching[x]
      /\ \A x \in peers : coaching'[x].status = "superseded" /\ coaching'[x].previous = coaching[x].previous
  BY <1>2, CoachTypeFacts DEF ChangeTypes
<1>5. QuietStep /\ StillDrawn
  BY <1>2, <1>3, <1>4 DEF QuietStep, DraftsStay, StillDrawn, Drawn
<1>6. CoachTypes'
  BY <1>1, <1>3, <1>4, <1>5, IdleFacts, CoachTypeFacts, QuietTypes
<1>7. coachCall'[c] = slot
  BY <1>3, CoachTypeFacts
<1>8. ASSUME NEW q \in Coach!Parts, q \notin overlapped' \cup swept'
      PROVE  PartKept(q)'
  <2>1. PartKept(q)
    BY <1>3, <1>8
  <2>2. Carried(q, c)' /\ ~About(c, q)'
    BY <1>1, <1>7, IdleFacts
  <2>3. Alone(q)'
    BY <1>3, <1>5, <2>1, <2>2, AloneUnlessNew DEF PartKept, QuietStep
  <2>4. ASSUME NEW x \in peers, Coach!PartOf(x)' = q PROVE Remembered(q, x)'
    <3>1. Coach!PartOf(x) = q
      BY <1>4, <2>4, PartsOfAll
    <3>2. Remembered(q, x)
      BY <2>1, <3>1 DEF PartKept
    <3>3. Under(x, "apply") => Under(x, "apply")'
      BY <1>3, UnderStays
    <3>4. QED
      BY <1>4, <1>5, <3>1, <3>2, <3>3, GivenUp
  <2>5. \A x \in Changes : Coach!PartOf(x)' = q =>
          \/ Remembered(q, x)'
          \/ /\ coaching'[x] = coaching[x]
             /\ ~(coachCall[c].op \in {"apply", "revert"} /\ coachCall[c].pc = "status" /\ coachCall[c].id = x)
    BY <1>3, <1>4, <2>4
  <2>6. QED
    BY <1>3, <1>5, <1>8, <2>2, <2>3, <2>5, QuietKeeps
<1>9. QED
  BY <1>6, <1>8

LEMMA RejectReadKeeps ==
  ASSUME CoachInv, NEW c \in Callers, NEW p \in Changes, Coach!RejectRead(c, p)
  PROVE  CoachInv'
<1> USE DEF CoachInv
<1>1. PICK slot : slot = [Coach!Idle EXCEPT !.op = "reject", !.pc = "status", !.id = p]
  OBVIOUS
<1>2. /\ coaching[p].status = "pending" /\ coachCall[c].pc = "idle"
      /\ coachCall' = [coachCall EXCEPT ![c] = slot]
      /\ coaching' = coaching /\ config' = config /\ work' = work /\ order' = order
      /\ swept' = swept /\ overlapped' = overlapped
  <2>1. /\ coaching[p].status = "pending" /\ Coach!Start(c, slot)
        /\ coaching' = coaching /\ config' = config /\ work' = work /\ order' = order
        /\ swept' = swept /\ overlapped' = overlapped
    BY <1>1 DEF Coach!RejectRead
  <2>2. QED
    BY <2>1 DEF Coach!Start
<1>3. slot \in CoachSlots /\ slot.op = "reject" /\ slot.pc = "status" /\ slot.id = p
  <2>1. Coach!Idle \in CoachSlots
    BY IdleFacts
  <2>2. QED
    BY <1>1, <2>1 DEF CoachSlots
<1>4. QuietStep /\ StillDrawn /\ Drawn(p)
  BY <1>2 DEF QuietStep, DraftsStay, StillDrawn, Drawn
<1>5. CoachTypes'
  <2>1. Commissioned(slot)'
    BY <1>3, <1>4 DEF Commissioned, StillDrawn
  <2>2. QED
    BY <1>2, <1>3, <1>4, <2>1, CoachTypeFacts, QuietTypes
<1>6. coachCall'[c] = slot
  BY <1>2, CoachTypeFacts
<1>7. ASSUME NEW q \in Coach!Parts, q \notin overlapped' \cup swept'
      PROVE  PartKept(q)'
  <2>1. PartKept(q)
    BY <1>2, <1>7
  <2>2. Carried(q, c)' /\ ~About(c, q)'
    BY <1>3, <1>6 DEF Carried, Performs, About
  <2>3. Alone(q)'
    BY <1>2, <1>4, <2>1, <2>2, AloneUnlessNew DEF PartKept, QuietStep
  <2>4. QED
    BY <1>2, <1>4, <1>7, <2>2, <2>3, QuietKeeps
<1>8. QED
  BY <1>5, <1>7

LEMMA RejectStatusKeeps ==
  ASSUME CoachInv, NEW c \in Callers, Coach!RejectStatus(c)
  PROVE  CoachInv'
<1> USE DEF CoachInv
<1>1. PICK slot : slot = Coach!Idle
  OBVIOUS
<1>2. PICK p : p = coachCall[c].id
  OBVIOUS
<1>3. /\ coachCall[c].op = "reject" /\ coachCall' = [coachCall EXCEPT ![c] = slot]
      /\ coaching' = [coaching EXCEPT ![p].status = "rejected"]
      /\ config' = config /\ work' = work /\ order' = order /\ swept' = swept /\ overlapped' = overlapped
  BY <1>1, <1>2 DEF Coach!RejectStatus, Coach!End
<1>4. p \in Changes /\ Drawn(p)
  BY <1>2, <1>3, SlotFacts
<1>5. /\ coaching' \in [Changes -> ChangeTypes]
      /\ \A x \in Changes : coaching'[x].type = coaching[x].type
      /\ \A x \in Changes : x # p => coaching'[x] = coaching[x]
      /\ coaching'[p].status = "rejected" /\ coaching'[p].previous = coaching[p].previous
  BY <1>3, <1>4, CoachTypeFacts DEF ChangeTypes
<1>6. QuietStep /\ StillDrawn
  BY <1>3, <1>5 DEF QuietStep, DraftsStay, StillDrawn, Drawn
<1>7. CoachTypes'
  BY <1>1, <1>3, <1>5, <1>6, IdleFacts, CoachTypeFacts, QuietTypes
<1>8. coachCall'[c] = slot
  BY <1>3, CoachTypeFacts
<1>9. ASSUME NEW q \in Coach!Parts, q \notin overlapped' \cup swept'
      PROVE  PartKept(q)'
  <2>1. PartKept(q)
    BY <1>3, <1>9
  <2>2. Carried(q, c)' /\ ~About(c, q)'
    BY <1>1, <1>8, IdleFacts
  <2>3. Alone(q)'
    BY <1>3, <1>6, <2>1, <2>2, AloneUnlessNew DEF PartKept, QuietStep
  <2>4. Coach!PartOf(p)' = q => Remembered(q, p)'
    <3> HAVE Coach!PartOf(p)' = q
    <3>1. Coach!PartOf(p) = q
      BY <1>4, <1>5, PartsOfAll
    <3>2. Remembered(q, p)
      BY <1>4, <2>1, <3>1 DEF PartKept
    <3>3. Under(p, "apply") => Under(p, "apply")'
      BY <1>3, UnderStays
    <3>4. QED
      BY <1>4, <1>5, <1>6, <3>1, <3>2, <3>3, GivenUp
  <2>5. \A x \in Changes : Coach!PartOf(x)' = q =>
          \/ Remembered(q, x)'
          \/ /\ coaching'[x] = coaching[x]
             /\ ~(coachCall[c].op \in {"apply", "revert"} /\ coachCall[c].pc = "status" /\ coachCall[c].id = x)
    BY <1>3, <1>5, <2>4
  <2>6. QED
    BY <1>3, <1>6, <1>9, <2>2, <2>3, <2>5, QuietKeeps
<1>10. QED
  BY <1>7, <1>9

LEMMA RevertReadKeeps ==
  ASSUME CoachInv, NEW c \in Callers, NEW p \in Changes, Coach!RevertRead(c, p)
  PROVE  CoachInv'
<1> USE DEF CoachInv
<1>1. PICK value : value = coaching[p].previous
  OBVIOUS
<1>2. PICK slot : slot = [op |-> "revert", pc |-> "write", id |-> p, previous |-> {}, value |-> value]
  OBVIOUS
<1>3. /\ coaching[p].status = "applied" /\ Coach!Begin(c, slot)
      /\ coaching[p].type = "persona" => config.persona = {p}
      /\ coaching' = coaching /\ config' = config /\ work' = work /\ order' = order /\ swept' = swept
  BY <1>1, <1>2 DEF Coach!RevertRead, Coach!Revertible
<1>4. slot \in CoachSlots /\ slot.op = "revert" /\ slot.pc = "write" /\ slot.id = p /\ slot.value = value
  <2>1. value \in SUBSET Coach!Texts
    BY <1>1, CoachTypeFacts DEF ChangeTypes
  <2>2. QED
    BY <1>2, <2>1 DEF CoachSlots
<1>5. QuietStep /\ StillDrawn /\ Drawn(p)
  BY <1>3 DEF QuietStep, DraftsStay, StillDrawn, Drawn
<1>6. /\ overlapped \subseteq overlapped' /\ overlapped' \subseteq Coach!Parts
      /\ coachCall' = [coachCall EXCEPT ![c] = slot] /\ coachCall[c].pc = "idle"
      /\ \A q : q \notin overlapped' /\ Alone(q) =>
           /\ Alone(q)'
           /\ Coach!PartOf(p) = q => \A d \in Callers : ~About(d, q)
  BY <1>3, <1>4, <1>5, BeginFacts
<1>7. CoachTypes'
  <2>1. Commissioned(slot)'
    BY <1>4, <1>5 DEF Commissioned, StillDrawn
  <2>2. QED
    BY <1>3, <1>4, <1>5, <1>6, <2>1, CoachTypeFacts, QuietTypes
<1>8. coachCall'[c] = slot
  BY <1>6, CoachTypeFacts
<1>9. Coach!PartOf(p)' = Coach!PartOf(p)
  BY <1>3, PartsOfAll
<1>10. ASSUME NEW q \in Coach!Parts, q \notin overlapped' \cup swept'
       PROVE  PartKept(q)'
  <2>1. PartKept(q)
    BY <1>5, <1>6, <1>10 DEF QuietStep
  <2>2. Carried(q, c)'
    <3>1. CASE Coach!PartOf(p) = q
      <4>1. \A d \in Callers : ~About(d, q)
        BY <1>6, <1>10, <2>1, <3>1 DEF PartKept
      <4>2. ~Under(p, "apply") /\ ~Under(p, "revert")
        BY <3>1, <4>1 DEF Under, About
      <4>3. Remembered(q, p)
        BY <2>1, <3>1 DEF PartKept
      <4>4. p \in work /\ p \in Coach!InForce(q)
        BY <1>3, <3>1, <4>2, <4>3 DEF Remembered, Coach!InForce
      <4>5. (q = "persona" /\ <<p, "console">> \in order) \/ value = Before(q, p)
        BY <1>1, <4>2, <4>3, <4>4 DEF Remembered
      <4>6. q = "persona" => \A x \in Coach!InForce(q) \ {p} : <<x, p>> \in order
        <5> HAVE q = "persona"
        <5>1. coaching[p].type = "persona"
          BY <3>1, PartsOfAll, CoachNames
        <5>2. config["persona"] = {p}
          BY <1>3, <5>1
        <5>3. Coach!Outcome(q, Coach!InForce(q)) = {p}
          BY <2>1, <5>2 DEF PartKept, Reached
        <5>4. PICK xs : xs = Coach!InForce(q)
          OBVIOUS
        <5>5. Result(q, xs, coaching, order) = {x \in xs : \A y \in xs \ {x} : <<y, x>> \in order}
          BY <4>4, <5>4 DEF Result
        <5>6. {x \in xs : \A y \in xs \ {x} : <<y, x>> \in order} = {p}
          BY <5>3, <5>4, <5>5, OutcomeIs
        <5>7. QED
          BY <5>4, <5>6
      <4>7. ~(q = "persona" /\ <<p, "console">> \in order)
        <5> SUFFICES ASSUME q = "persona", <<p, "console">> \in order PROVE FALSE
          OBVIOUS
        <5>1. "console" \in work
          BY CoachTypeFacts
        <5>2. "console" \in Coach!InForce(q) \ {p}
          BY <5>1, CoachNames, PartsOfAll DEF Coach!InForce
        <5>3. <<"console", p>> \in order
          BY <4>6, <5>2
        <5>4. QED
          BY <4>4, <5>1, <5>3 DEF CoachTypes, InOrder
      <4>8. value = Before(q, p)'
        BY <1>5, <3>1, <4>4, <4>5, <4>7, QuietFrame
      <4>9. Coach!InForce(q)' = Coach!InForce(q)
        BY <1>5, QuietFrame
      <4>10. /\ p \in work'
             /\ q = "persona" => \A x \in Coach!InForce(q)' \ {p} : <<x, p>> \in order'
        BY <1>3, <4>4, <4>6, <4>9
      <4>11. QED
        BY <1>4, <1>8, <4>8, <4>10 DEF Carried, Performs
    <3>2. CASE Coach!PartOf(p) # q
      BY <1>4, <1>8, <1>9, <3>2 DEF Carried, Performs
    <3>3. QED
      BY <3>1, <3>2
  <2>3. \A x \in Changes : coaching'[x] = coaching[x]
          /\ ~(coachCall[c].op \in {"apply", "revert"} /\ coachCall[c].pc = "status" /\ coachCall[c].id = x)
    BY <1>3, <1>6
  <2>4. Alone(q)'
    BY <1>6, <1>10, <2>1 DEF PartKept
  <2>5. QED
    BY <1>5, <1>6, <1>10, <2>2, <2>3, <2>4, QuietKeeps
<1>11. QED
  BY <1>7, <1>10

LEMMA RevertStatusKeeps ==
  ASSUME CoachInv, NEW c \in Callers, Coach!RevertStatus(c)
  PROVE  CoachInv'
<1> USE DEF CoachInv
<1>1. PICK slot : slot = Coach!Idle
  OBVIOUS
<1>2. PICK p : p = coachCall[c].id
  OBVIOUS
<1>3. /\ coachCall[c].op = "revert" /\ coachCall[c].pc = "status"
      /\ coachCall' = [coachCall EXCEPT ![c] = slot]
      /\ coaching' = [coaching EXCEPT ![p].status = "reverted", ![p].previous = {}]
      /\ config' = config /\ work' = work /\ order' = order /\ swept' = swept /\ overlapped' = overlapped
  BY <1>1, <1>2 DEF Coach!RevertStatus, Coach!End
<1>4. p \in Changes /\ Drawn(p)
  BY <1>2, <1>3, SlotFacts
<1>5. /\ coaching' \in [Changes -> ChangeTypes]
      /\ \A x \in Changes : coaching'[x].type = coaching[x].type
      /\ \A x \in Changes : x # p => coaching'[x] = coaching[x]
      /\ coaching'[p].status = "reverted"
  <2>1. PICK saved : saved = [coaching[p] EXCEPT !.status = "reverted", !.previous = {}]
    OBVIOUS
  <2>2. coaching[p] \in ChangeTypes
    BY <1>4, CoachTypeFacts
  <2>3. saved \in ChangeTypes /\ saved.status = "reverted" /\ saved.type = coaching[p].type
    BY <2>1, <2>2 DEF ChangeTypes
  <2>4. coaching' = [coaching EXCEPT ![p] = saved]
    BY <1>3, <1>4, <2>1, CoachTypeFacts
  <2>5. QED
    BY <1>4, <2>3, <2>4, CoachTypeFacts
<1>6. QuietStep /\ StillDrawn
  BY <1>3, <1>5 DEF QuietStep, DraftsStay, StillDrawn, Drawn
<1>7. CoachTypes'
  BY <1>1, <1>3, <1>5, <1>6, IdleFacts, CoachTypeFacts, QuietTypes
<1>8. coachCall'[c] = slot
  BY <1>3, CoachTypeFacts
<1>9. ASSUME NEW q \in Coach!Parts, q \notin overlapped' \cup swept'
      PROVE  PartKept(q)'
  <2>1. PartKept(q)
    BY <1>3, <1>9
  <2>2. Carried(q, c)' /\ ~About(c, q)'
    BY <1>1, <1>8, IdleFacts
  <2>3. Alone(q)'
    BY <1>3, <1>6, <2>1, <2>2, AloneUnlessNew DEF PartKept, QuietStep
  <2>4. Coach!PartOf(p)' = q => Remembered(q, p)'
    <3> HAVE Coach!PartOf(p)' = q
    <3>1. Coach!PartOf(p) = q
      BY <1>4, <1>5, PartsOfAll
    <3>2. p \notin work'
      BY <1>2, <1>3, <2>1, <3>1 DEF PartKept, Carried, Performs
    <3>3. QED
      BY <1>5, <3>2 DEF Remembered
  <2>5. \A x \in Changes : Coach!PartOf(x)' = q =>
          \/ Remembered(q, x)'
          \/ /\ coaching'[x] = coaching[x]
             /\ ~(coachCall[c].op \in {"apply", "revert"} /\ coachCall[c].pc = "status" /\ coachCall[c].id = x)
    BY <1>2, <1>5, <2>4
  <2>6. QED
    BY <1>3, <1>6, <1>9, <2>2, <2>3, <2>5, QuietKeeps
<1>10. QED
  BY <1>7, <1>9

-----------------------------------------------------------------------------
(* The actions that write the configuration.                                *)

Total(xs, later) == \A x, y \in xs : <<x, y>> \in later <=> x # y /\ <<y, x>> \notin later

LEMMA MadeFacts ==
  ASSUME CoachTypes, NEW z, Coach!Made(z)
  PROVE  /\ work' = work \cup {z} /\ order' \subseteq work' \X work'
         /\ \A a, b : <<a, b>> \in order' <=> IF b = z THEN a \in work /\ a # z ELSE a # z /\ <<a, b>> \in order
         /\ Total(work', order')
<1>1. /\ work' = work \cup {z}
      /\ order' = {pair \in order : z \notin {pair[1], pair[2]}} \cup ((work \ {z}) \X {z})
  BY DEF Coach!Made
<1>2. \A a, b : <<a, b>> \in order => a \in work /\ b \in work
  BY CoachTypeFacts
<1>3. \A pair \in order' : pair \in work' \X work'
  BY <1>1, CoachTypeFacts
<1>4. \A a, b : <<a, b>> \in order' <=> IF b = z THEN a \in work /\ a # z ELSE a # z /\ <<a, b>> \in order
  BY <1>1, <1>2
<1>5. Total(work', order')
  <2> SUFFICES ASSUME NEW x \in work', NEW y \in work'
               PROVE  <<x, y>> \in order' <=> x # y /\ <<y, x>> \notin order'
    BY DEF Total
  <2>1. CASE x = z \/ y = z
    BY <1>1, <1>2, <1>4, <2>1
  <2>2. CASE x # z /\ y # z
    BY <1>1, <1>4, <2>2 DEF CoachTypes, InOrder
  <2>3. QED
    BY <2>1, <2>2
<1>6. QED
  BY <1>1, <1>3, <1>4, <1>5

LEMMA UndoneFacts ==
  ASSUME CoachTypes, NEW z,
         work' = work \ {z}, order' = {pair \in order : z \notin {pair[1], pair[2]}}
  PROVE  /\ order' \subseteq work' \X work'
         /\ \A a, b : <<a, b>> \in order' <=> a # z /\ b # z /\ <<a, b>> \in order
         /\ Total(work', order')
<1>1. \A pair \in order' : pair \in work' \X work'
  BY CoachTypeFacts
<1>2. \A a, b : <<a, b>> \in order' <=> a # z /\ b # z /\ <<a, b>> \in order
  OBVIOUS
<1>3. Total(work', order')
  BY <1>2 DEF Total, CoachTypes, InOrder
<1>4. QED
  BY <1>1, <1>2, <1>3

LEMMA WriteTypes ==
  ASSUME CoachTypes, coaching' = coaching, coachCall' \in [Callers -> CoachSlots],
         \A c \in Callers : Commissioned(coachCall'[c]),
         config' \in [Coach!Parts -> SUBSET Coach!Texts], overlapped' \subseteq Coach!Parts,
         swept' \subseteq {"rules", "scenario"}, order' \subseteq work' \X work', Total(work', order'),
         \A x \in work' : x = "console" \/ (x \in Changes /\ Drawn(x))
  PROVE  CoachTypes'
<1>1. \A d \in Callers : coachCall'[d].pc \in {"idle", "write", "status", "peers"}
  BY DEF CoachSlots
<1>2. Coach!TypeOK'
  BY <1>1, CoachNames DEF CoachTypes, Coach!TypeOK
<1>3. \A d \in Callers : Commissioned(coachCall[d])'
  BY DEF Commissioned, Drawn
<1>4. InOrder'
  BY DEF InOrder, Total, Drawn
<1>5. QED
  BY <1>2, <1>3, <1>4 DEF CoachTypes

(* A write about another part: nothing of part q is touched.                *)
LEMMA ElsewhereKept ==
  ASSUME CoachTypes, coaching' = coaching, NEW q, PartKept(q), config'[q] = config[q],
         NEW z, Coach!PartOf(z) # q,
         \A x : x # z => (x \in work' <=> x \in work),
         \A a, b : a # z /\ b # z => (<<a, b>> \in order' <=> <<a, b>> \in order),
         q = "persona" => z # "console",
         \A d \in Callers : coachCall'[d] = coachCall[d] \/ (~About(d, q) /\ ~About(d, q)')
  PROVE  PartKept(q)'
<1>1. \A x : Coach!PartOf(x)' = Coach!PartOf(x)
  BY PartsOfAll
<1>2. DraftsStay
  BY DEF DraftsStay
<1>3. \A x : Coach!PartOf(x) = q => x # z /\ (x \in work' <=> x \in work)
  OBVIOUS
<1>4. Coach!InForce(q)' = Coach!InForce(q)
  BY <1>1, <1>3 DEF Coach!InForce
<1>5. \A x \in Coach!InForce(q) : Coach!PartOf(x) = q /\ x # z
  BY <1>3 DEF Coach!InForce
<1>6. /\ Coach!Outcome(q, Coach!InForce(q))' = Coach!Outcome(q, Coach!InForce(q))
      /\ \A p \in Coach!InForce(q) : Before(q, p)' = Before(q, p)
  BY <1>2, <1>4, <1>5, OutcomesStay
<1>7. \A p \in work : Coach!PartOf(p) = q => Before(q, p)' = Before(q, p)
  BY <1>6 DEF Coach!InForce
<1>8. Reached(q)'
  BY <1>6 DEF PartKept, Reached
<1>9. \A d \in Callers : About(d, q)' => About(d, q)
  BY <1>1 DEF About
<1>10. Alone(q)'
  BY <1>9, AloneStays DEF PartKept
<1>11. ASSUME NEW d \in Callers PROVE Carried(q, d)'
  <2>1. CASE ~About(d, q)'
    BY <2>1 DEF About, Carried, Performs
  <2>2. CASE About(d, q)'
    <3>1. PICK old : old = coachCall[d]
      OBVIOUS
    <3>2. PICK p : p = old.id
      OBVIOUS
    <3>3. coachCall'[d] = old /\ Coach!PartOf(p) = q
      BY <1>1, <2>2, <3>1, <3>2 DEF About
    <3>4. Carried(q, d)
      BY DEF PartKept
    <3>5. \A op, pc : Performs(d, op, pc, q)' <=> Performs(d, op, pc, q)
      BY <1>1, <3>1, <3>2, <3>3 DEF Performs
    <3>6. \A was : Coach!Applied(p, was)' = Coach!Applied(p, was)
      BY DEF Coach!Applied
    <3>7. Coach!Applied(p, config[q])' = Coach!Applied(p, config[q])
      <4>1. PICK was : was = config[q]
        OBVIOUS
      <4>2. Coach!Applied(p, config[q])' = Coach!Applied(p, was)'
        BY <4>1
      <4>3. QED
        BY <3>6, <4>1, <4>2
    <3>8. p # z /\ (p \in work' <=> p \in work)
      BY <1>3, <3>3
    <3>9. Performs(d, "apply", "write", q)' =>
            /\ p \notin work' /\ old.previous = config'[q] /\ old.value = Coach!Applied(p, config[q])'
      BY <3>1, <3>2, <3>4, <3>5, <3>7, <3>8 DEF Carried
    <3>10. Performs(d, "apply", "status", q)' => p \in work' /\ old.previous = Before(q, p)'
      BY <1>7, <3>1, <3>2, <3>3, <3>4, <3>5, <3>8 DEF Carried
    <3>11. Performs(d, "revert", "write", q)' => p \in work' /\ old.value = Before(q, p)'
      BY <1>7, <3>1, <3>2, <3>3, <3>4, <3>5, <3>8 DEF Carried
    <3>12. Performs(d, "revert", "write", q)' =>
             (q = "persona" => \A x \in Coach!InForce(q)' \ {p} : <<x, p>> \in order')
      BY <1>4, <1>5, <3>1, <3>2, <3>4, <3>5, <3>8 DEF Carried
    <3>13. Performs(d, "revert", "status", q)' => p \notin work'
      BY <3>1, <3>2, <3>4, <3>5, <3>8 DEF Carried
    <3>14. QED
      BY <3>2, <3>3, <3>9, <3>10, <3>11, <3>12, <3>13 DEF Carried
  <2>3. QED
    BY <2>1, <2>2
<1>12. ASSUME NEW p \in Changes, Coach!PartOf(p)' = q PROVE Remembered(q, p)'
  <2>1. Coach!PartOf(p) = q /\ p # z /\ (p \in work' <=> p \in work)
    BY <1>1, <1>3, <1>12
  <2>2. Remembered(q, p)
    BY <2>1 DEF PartKept
  <2>3. \A op \in {"apply", "revert"} : Under(p, op) => Under(p, op)'
    <3> SUFFICES ASSUME NEW op \in {"apply", "revert"}, NEW d \in Callers,
                        coachCall[d].op = op, coachCall[d].pc = "status", coachCall[d].id = p
                 PROVE  coachCall'[d].op = op /\ coachCall'[d].pc = "status" /\ coachCall'[d].id = p
      BY DEF Under
    <3>1. About(d, q)
      BY <2>1 DEF About
    <3>2. QED
      BY <3>1
  <2>4. p \in work => Before(q, p)' = Before(q, p)
    BY <1>7, <2>1
  <2>5. q = "persona" /\ <<p, "console">> \in order => <<p, "console">> \in order'
    BY <2>1
  <2>6. p \in work' /\ ~Under(p, "apply")' =>
          /\ coaching'[p].status # "pending"
          /\ \/ q = "persona" /\ <<p, "console">> \in order'
             \/ coaching'[p].previous = Before(q, p)'
    BY <2>1, <2>2, <2>3, <2>4, <2>5 DEF Remembered
  <2>7. coaching'[p].status = "applied" /\ ~Under(p, "revert")' => p \in work'
    BY <2>1, <2>2, <2>3 DEF Remembered
  <2>8. QED
    BY <2>6, <2>7 DEF Remembered
<1>13. QED
  BY <1>8, <1>10, <1>11, <1>12 DEF PartKept

\* What a change of a type makes of what was there.
Grown(type, p, was) ==
  CASE type = "rule_add" -> was \cup {p}
    [] type = "rule_edit" -> (was \ {"base"}) \cup {p}
    [] type = "rule_remove" -> was \ {"base"}
    [] OTHER -> {p}

(* One more change, made last, does to the outcome what it does to the      *)
(* configuration.                                                           *)
LEMMA ResultGrows ==
  ASSUME NEW drafts, NEW part, NEW xs, NEW p, p \notin xs, "base" \notin xs, p # "base",
         NEW later, NEW later2,
         \A a, b \in xs : <<a, b>> \in later2 <=> <<a, b>> \in later,
         \A a \in xs : <<a, p>> \in later2 /\ <<p, a>> \notin later2,
         part = "rules" <=> drafts[p].type \in {"rule_add", "rule_edit", "rule_remove"},
         NEW was, was = Result(part, xs, drafts, later)
  PROVE  Result(part, xs \cup {p}, drafts, later2) = Grown(drafts[p].type, p, was)
<1>1. CASE part = "rules"
  <2>1. PICK some : some = IF \E x \in xs : drafts[x].type # "rule_add" THEN {} ELSE {"base"}
    OBVIOUS
  <2>2. PICK kept : kept = {x \in xs : drafts[x].type # "rule_remove"}
    OBVIOUS
  <2>3. was = kept \cup some
    BY <1>1, <2>1, <2>2 DEF Result
  <2>4. "base" \notin kept /\ some \subseteq {"base"}
    BY <2>1, <2>2
  <2>5. CASE drafts[p].type = "rule_add"
    <3>1. (IF \E x \in xs \cup {p} : drafts[x].type # "rule_add" THEN {} ELSE {"base"}) = some
      BY <2>1, <2>5
    <3>2. {x \in xs \cup {p} : drafts[x].type # "rule_remove"} = kept \cup {p}
      BY <2>2, <2>5
    <3>3. Result(part, xs \cup {p}, drafts, later2) = (kept \cup {p}) \cup some
      BY <1>1, <3>1, <3>2 DEF Result
    <3>4. QED
      BY <2>3, <2>5, <3>3 DEF Grown
  <2>6. CASE drafts[p].type \in {"rule_edit", "rule_remove"}
    <3>1. (IF \E x \in xs \cup {p} : drafts[x].type # "rule_add" THEN {} ELSE {"base"}) = {}
      BY <2>6
    <3>2. {x \in xs \cup {p} : drafts[x].type # "rule_remove"}
            = kept \cup IF drafts[p].type = "rule_edit" THEN {p} ELSE {}
      BY <2>2, <2>6
    <3>3. Result(part, xs \cup {p}, drafts, later2) = kept \cup IF drafts[p].type = "rule_edit" THEN {p} ELSE {}
      BY <1>1, <3>1, <3>2 DEF Result
    <3>4. was \ {"base"} = kept
      BY <2>3, <2>4
    <3>5. CASE drafts[p].type = "rule_edit"
      BY <3>3, <3>4, <3>5 DEF Grown
    <3>6. CASE drafts[p].type = "rule_remove"
      BY <3>3, <3>4, <3>6 DEF Grown
    <3>7. QED
      BY <2>6, <3>5, <3>6
  <2>7. QED
    BY <1>1, <2>5, <2>6
<1>2. CASE part # "rules"
  <2>1. Result(part, xs \cup {p}, drafts, later2)
          = {x \in xs \cup {p} : \A y \in (xs \cup {p}) \ {x} : <<y, x>> \in later2}
    BY <1>2 DEF Result
  <2>2. \A x \in xs : ~ \A y \in (xs \cup {p}) \ {x} : <<y, x>> \in later2
    OBVIOUS
  <2>3. \A y \in (xs \cup {p}) \ {p} : <<y, p>> \in later2
    OBVIOUS
  <2>4. Result(part, xs \cup {p}, drafts, later2) = {p}
    BY <2>1, <2>2, <2>3
  <2>5. QED
    BY <1>2, <2>4 DEF Grown
<1>3. QED
  BY <1>1, <1>2

LEMMA ApplyWriteKeeps ==
  ASSUME CoachInv, NEW c \in Callers, Coach!ApplyWrite(c)
  PROVE  CoachInv'
<1> USE DEF CoachInv
<1>1. PICK old : old = coachCall[c]
  OBVIOUS
<1>2. PICK p : p = old.id
  OBVIOUS
<1>3. PICK slot : slot = [old EXCEPT !.pc = "status", !.value = {}]
  OBVIOUS
<1>4. PICK part : part = Coach!PartOf(p)
  OBVIOUS
<1>5. /\ old.op = "apply" /\ old.pc = "write" /\ Coach!Made(p)
      /\ config' = [config EXCEPT ![part] = old.value]
      /\ coaching' = coaching /\ swept' = swept /\ overlapped' = overlapped
  BY <1>1, <1>2, <1>4 DEF Coach!ApplyWrite
<1>6. old \in CoachSlots /\ p \in Changes /\ Drawn(p)
  BY <1>1, <1>2, <1>5, SlotFacts
<1>7. /\ slot \in CoachSlots /\ slot.op = "apply" /\ slot.pc = "status" /\ slot.id = p
      /\ slot.previous = old.previous
  BY <1>2, <1>3, <1>5, <1>6 DEF CoachSlots
<1>8. coachCall' = [coachCall EXCEPT ![c] = slot]
  BY <1>1, <1>3, CoachTypeFacts DEF Coach!ApplyWrite, CoachSlots
<1>9. coachCall'[c] = slot /\ \A d \in Callers : d # c => coachCall'[d] = coachCall[d]
  BY <1>8, CoachTypeFacts
<1>10. /\ work' = work \cup {p} /\ order' \subseteq work' \X work'
       /\ \A a, b : <<a, b>> \in order' <=> IF b = p THEN a \in work /\ a # p ELSE a # p /\ <<a, b>> \in order
       /\ Total(work', order')
  BY <1>5, MadeFacts
<1>11. part \in Coach!Parts
  BY <1>4, <1>6, PartsOfAll, CoachNames
<1>12. CoachTypes'
  <2>1. coachCall' \in [Callers -> CoachSlots]
    BY <1>7, <1>8, CoachTypeFacts
  <2>2. \A d \in Callers : Commissioned(coachCall'[d])
    BY <1>6, <1>7, <1>9 DEF CoachTypes, Commissioned
  <2>3. config' \in [Coach!Parts -> SUBSET Coach!Texts]
    <3>1. old.value \in SUBSET Coach!Texts
      BY <1>6 DEF CoachSlots
    <3>2. QED
      BY <1>5, <3>1, CoachTypeFacts
  <2>4. \A x \in work' : x = "console" \/ (x \in Changes /\ Drawn(x))
    BY <1>6, <1>10, CoachTypeFacts DEF CoachTypes, InOrder
  <2>5. QED
    BY <1>5, <1>10, <2>1, <2>2, <2>3, <2>4, CoachTypeFacts, WriteTypes
<1>13. \A x : Coach!PartOf(x)' = Coach!PartOf(x)
  BY <1>5, PartsOfAll
<1>14. DraftsStay
  BY <1>5 DEF DraftsStay
<1>15. ASSUME NEW q \in Coach!Parts, q \notin overlapped' \cup swept'
       PROVE  PartKept(q)'
  <2>1. PartKept(q)
    BY <1>5, <1>15
  <2>2. CASE q # part
    <3>1. ~About(c, q) /\ ~About(c, q)'
      BY <1>1, <1>2, <1>4, <1>7, <1>9, <1>13, <2>2 DEF About
    <3>2. config'[q] = config[q]
      BY <1>5, <2>2, CoachTypeFacts
    <3>3. \A d \in Callers : coachCall'[d] = coachCall[d] \/ (~About(d, q) /\ ~About(d, q)')
      BY <1>9, <3>1
    <3>4. \A x : x # p => (x \in work' <=> x \in work)
      BY <1>10
    <3>5. \A a, b : a # p /\ b # p => (<<a, b>> \in order' <=> <<a, b>> \in order)
      BY <1>10
    <3>6. Coach!PartOf(p) # q /\ p # "console"
      BY <1>4, <1>6, <2>2, CoachNames
    <3>7. QED
      BY <1>5, <2>1, <3>2, <3>3, <3>4, <3>5, <3>6, ElsewhereKept
  <2>3. CASE q = part
    <3>1. /\ p \notin work /\ old.previous = config[q] /\ old.value = Coach!Applied(p, config[q])
          /\ About(c, q)
      BY <1>1, <1>2, <1>4, <1>5, <2>1, <2>3 DEF PartKept, Carried, Performs, About
    <3>2. PICK xs : xs = Coach!InForce(q)
      OBVIOUS
    <3>3. xs = {x \in work : Coach!PartOf(x) = q}
      BY <3>2 DEF Coach!InForce
    <3>4. Coach!InForce(q)' = xs \cup {p}
      BY <1>4, <1>10, <1>13, <2>3, <3>3 DEF Coach!InForce
    <3>5. p \notin xs /\ "base" \notin xs /\ p # "base"
      BY <1>6, <3>1, <3>3, CoachTypeFacts, CoachNames
    <3>6. /\ \A a, b \in xs : <<a, b>> \in order' <=> <<a, b>> \in order
          /\ \A a \in xs : <<a, p>> \in order' /\ <<p, a>> \notin order'
      BY <1>10, <3>3, <3>5
    <3>7. \A ys \in SUBSET xs : Coach!Outcome(q, ys)' = Coach!Outcome(q, ys)
      <4> TAKE ys \in SUBSET xs
      <4>1. Result(q, ys, coaching', order') = Result(q, ys, coaching, order)
        BY <1>5, <3>6, SameResult
      <4>2. QED
        BY <4>1, OutcomeIs
    <3>8. PICK was : was = config[q]
      OBVIOUS
    <3>9. was = Result(q, xs, coaching, order)
      BY <2>1, <3>2, <3>8, OutcomeIs DEF PartKept, Reached
    <3>10. Reached(q)'
      <4>1. q = "rules" <=> coaching[p].type \in {"rule_add", "rule_edit", "rule_remove"}
        <5>1. coaching[p].type \in Coach!Types
          BY <1>6, CoachTypeFacts DEF ChangeTypes
        <5>2. p # "console"
          BY <1>6, CoachNames
        <5>3. QED
          BY <1>4, <2>3, <5>1, <5>2, PartsOfAll DEF Coach!Types
      <4>2. Result(q, xs \cup {p}, coaching, order') = Coach!Applied(p, was)
        <5>1. Result(q, xs \cup {p}, coaching, order') = Grown(coaching[p].type, p, was)
          BY <3>5, <3>6, <3>9, <4>1, ResultGrows
        <5>2. Coach!Applied(p, was) = Grown(coaching[p].type, p, was)
          BY CoachNames DEF Coach!Applied, Grown
        <5>3. QED
          BY <5>1, <5>2
      <4>3. config'[q] = Coach!Applied(p, was)
        BY <1>5, <1>11, <2>3, <3>1, <3>8, CoachTypeFacts
      <4>4. PICK ys : ys = xs \cup {p}
        OBVIOUS
      <4>5. Coach!Outcome(q, Coach!InForce(q))' = Coach!Outcome(q, ys)'
        BY <3>4, <4>4
      <4>6. Coach!Outcome(q, ys)' = Result(q, ys, coaching, order')
        BY <1>5, OutcomeIs
      <4>7. QED
        BY <4>2, <4>3, <4>4, <4>5, <4>6 DEF Reached
    <3>11. About(c, q)' => About(c, q)
      BY <3>1
    <3>12. Alone(q)'
      BY <1>8, <1>14, <2>1, <3>11, AloneUnlessNew DEF PartKept
    <3>13. ASSUME NEW d \in Callers PROVE Carried(q, d)'
      <4>1. CASE d = c
        <5>1. Below(q, p)' = xs
          BY <3>4, <3>5, <3>6, <1>10 DEF Below
        <5>2. Before(q, p)' = Coach!Outcome(q, xs)'
          BY <5>1 DEF Before
        <5>3. Before(q, p)' = Coach!Outcome(q, xs)
          BY <3>7, <5>2
        <5>4. slot.previous = Before(q, p)'
          BY <1>7, <3>1, <3>8, <3>9, <5>3, OutcomeIs
        <5>5. p \in work'
          BY <1>10
        <5>6. QED
          BY <1>7, <1>9, <4>1, <5>4, <5>5 DEF Carried, Performs
      <4>2. CASE d # c
        <5>1. ~About(d, q)
          BY <2>1, <3>1, <4>2 DEF PartKept, Alone
        <5>2. ~About(d, q)'
          BY <1>8, <1>14, <4>2, <5>1, AboutOthers
        <5>3. QED
          BY <5>2 DEF About, Carried, Performs
      <4>3. QED
        BY <4>1, <4>2
    <3>14. ASSUME NEW x \in Changes, Coach!PartOf(x)' = q PROVE Remembered(q, x)'
      <4>1. CASE x = p
        <5>1. Under(p, "apply")' /\ p \in work'
          BY <1>7, <1>9, <1>10 DEF Under
        <5>2. QED
          BY <4>1, <5>1 DEF Remembered
      <4>2. CASE x # p
        <5>1. Coach!PartOf(x) = q /\ (x \in work' <=> x \in work)
          BY <1>10, <1>13, <3>14, <4>2
        <5>2. Remembered(q, x)
          BY <2>1, <5>1 DEF PartKept
        <5>3. \A op : Under(x, op) => Under(x, op)'
          BY <1>1, <1>2, <1>8, <4>2, UnderStays
        <5>4. ASSUME x \in work PROVE Before(q, x)' = Before(q, x)
          <6>1. x \in xs
            BY <3>3, <5>1, <5>4
          <6>2. PICK ys : ys = Below(q, x)
            OBVIOUS
          <6>3. ys \in SUBSET xs
            BY <3>2, <6>2 DEF Below
          <6>4. Below(q, x)' = ys
            BY <3>2, <3>4, <3>6, <6>1, <6>2 DEF Below
          <6>5. Before(q, x)' = Coach!Outcome(q, ys)'
            BY <6>4 DEF Before
          <6>6. QED
            BY <3>7, <6>2, <6>3, <6>5 DEF Before
        <5>5. <<x, "console">> \in order => <<x, "console">> \in order'
          BY <1>6, <1>10, <4>2, CoachNames
        <5>6. x \in work' /\ ~Under(x, "apply")' =>
                /\ coaching'[x].status # "pending"
                /\ \/ q = "persona" /\ <<x, "console">> \in order'
                   \/ coaching'[x].previous = Before(q, x)'
          BY <1>5, <5>1, <5>2, <5>3, <5>4, <5>5 DEF Remembered
        <5>7. coaching'[x].status = "applied" /\ ~Under(x, "revert")' => x \in work'
          BY <1>5, <5>1, <5>2, <5>3 DEF Remembered
        <5>8. QED
          BY <5>6, <5>7 DEF Remembered
      <4>3. QED
        BY <4>1, <4>2
    <3>15. QED
      BY <3>10, <3>12, <3>13, <3>14 DEF PartKept
  <2>4. QED
    BY <2>2, <2>3
<1>16. QED
  BY <1>12, <1>15

LEMMA RevertWriteKeeps ==
  ASSUME CoachInv, NEW c \in Callers, Coach!RevertWrite(c)
  PROVE  CoachInv'
<1> USE DEF CoachInv
<1>1. PICK old : old = coachCall[c]
  OBVIOUS
<1>2. PICK p : p = old.id
  OBVIOUS
<1>3. PICK slot : slot = [old EXCEPT !.pc = "status", !.value = {}]
  OBVIOUS
<1>4. PICK part : part = Coach!PartOf(p)
  OBVIOUS
<1>5. /\ old.op = "revert" /\ old.pc = "write"
      /\ config' = [config EXCEPT ![part] = old.value]
      /\ work' = work \ {p} /\ order' = {pair \in order : p \notin {pair[1], pair[2]}}
      /\ swept' = IF part # "persona" /\ \E x \in work : Coach!PartOf(x) = part /\ <<p, x>> \in order
                  THEN swept \cup {part} ELSE swept
      /\ coaching' = coaching /\ overlapped' = overlapped
  BY <1>1, <1>2, <1>4 DEF Coach!RevertWrite
<1>6. old \in CoachSlots /\ p \in Changes /\ Drawn(p)
  BY <1>1, <1>2, <1>5, SlotFacts
<1>7. slot \in CoachSlots /\ slot.op = "revert" /\ slot.pc = "status" /\ slot.id = p
  BY <1>2, <1>3, <1>5, <1>6 DEF CoachSlots
<1>8. coachCall' = [coachCall EXCEPT ![c] = slot]
  BY <1>1, <1>3, CoachTypeFacts DEF Coach!RevertWrite, CoachSlots
<1>9. coachCall'[c] = slot /\ \A d \in Callers : d # c => coachCall'[d] = coachCall[d]
  BY <1>8, CoachTypeFacts
<1>10. /\ order' \subseteq work' \X work'
       /\ \A a, b : <<a, b>> \in order' <=> a # p /\ b # p /\ <<a, b>> \in order
       /\ Total(work', order')
  BY <1>5, UndoneFacts
<1>11. part \in Coach!Parts
  BY <1>4, <1>6, PartsOfAll, CoachNames
<1>12. CoachTypes'
  <2>1. coachCall' \in [Callers -> CoachSlots]
    BY <1>7, <1>8, CoachTypeFacts
  <2>2. \A d \in Callers : Commissioned(coachCall'[d])
    BY <1>6, <1>7, <1>9 DEF CoachTypes, Commissioned
  <2>3. config' \in [Coach!Parts -> SUBSET Coach!Texts]
    <3>1. old.value \in SUBSET Coach!Texts
      BY <1>6 DEF CoachSlots
    <3>2. QED
      BY <1>5, <3>1, CoachTypeFacts
  <2>4. \A x \in work' : x = "console" \/ (x \in Changes /\ Drawn(x))
    BY <1>5, CoachTypeFacts DEF CoachTypes, InOrder
  <2>5. swept' \subseteq {"rules", "scenario"}
    BY <1>5, <1>11, CoachTypeFacts, CoachNames
  <2>6. QED
    BY <1>5, <1>10, <2>1, <2>2, <2>3, <2>4, <2>5, CoachTypeFacts, WriteTypes
<1>13. \A x : Coach!PartOf(x)' = Coach!PartOf(x)
  BY <1>5, PartsOfAll
<1>14. DraftsStay
  BY <1>5 DEF DraftsStay
<1>15. ASSUME NEW q \in Coach!Parts, q \notin overlapped' \cup swept'
       PROVE  PartKept(q)'
  <2>1. PartKept(q)
    BY <1>5, <1>15
  <2>2. CASE q # part
    <3>1. ~About(c, q) /\ ~About(c, q)'
      BY <1>1, <1>2, <1>4, <1>7, <1>9, <1>13, <2>2 DEF About
    <3>2. config'[q] = config[q]
      BY <1>5, <2>2, CoachTypeFacts
    <3>3. \A d \in Callers : coachCall'[d] = coachCall[d] \/ (~About(d, q) /\ ~About(d, q)')
      BY <1>9, <3>1
    <3>4. \A x : x # p => (x \in work' <=> x \in work)
      BY <1>5
    <3>5. \A a, b : a # p /\ b # p => (<<a, b>> \in order' <=> <<a, b>> \in order)
      BY <1>10
    <3>6. Coach!PartOf(p) # q /\ p # "console"
      BY <1>4, <1>6, <2>2, CoachNames
    <3>7. QED
      BY <1>5, <2>1, <3>2, <3>3, <3>4, <3>5, <3>6, ElsewhereKept
  <2>3. CASE q = part
    <3>1. /\ p \in work /\ old.value = Before(q, p) /\ About(c, q)
          /\ q = "persona" => \A x \in Coach!InForce(q) \ {p} : <<x, p>> \in order
      BY <1>1, <1>2, <1>4, <1>5, <2>1, <2>3 DEF PartKept, Carried, Performs, About
    <3>2. PICK xs : xs = Coach!InForce(q) \ {p}
      OBVIOUS
    <3>3. xs = {x \in work : Coach!PartOf(x) = q} \ {p}
      BY <3>2 DEF Coach!InForce
    <3>4. Coach!InForce(q)' = xs
      BY <1>5, <1>13, <3>3 DEF Coach!InForce
    <3>5. \A x \in xs : <<x, p>> \in order /\ <<p, x>> \notin order
      <4>1. CASE q = "persona"
        BY <3>1, <3>2, <3>3, <4>1 DEF CoachTypes, InOrder
      <4>2. CASE q # "persona"
        <5>1. \A x \in xs : <<p, x>> \notin order
          BY <1>5, <1>15, <2>3, <3>3, <4>2
        <5>2. QED
          BY <3>1, <3>3, <5>1 DEF CoachTypes, InOrder
      <4>3. QED
        BY <4>1, <4>2
    <3>6. \A a, b \in xs : <<a, b>> \in order' <=> <<a, b>> \in order
      BY <1>10, <3>3
    <3>7. \A ys \in SUBSET xs : Coach!Outcome(q, ys)' = Coach!Outcome(q, ys)
      <4> TAKE ys \in SUBSET xs
      <4>1. Result(q, ys, coaching', order') = Result(q, ys, coaching, order)
        BY <1>5, <3>6, SameResult
      <4>2. QED
        BY <4>1, OutcomeIs
    <3>8. <<p, p>> \notin order
      BY <3>1 DEF CoachTypes, InOrder
    <3>9. Reached(q)'
      <4>1. Below(q, p) = xs
        BY <3>2, <3>5, <3>8 DEF Below
      <4>2. config'[q] = Coach!Outcome(q, xs)
        BY <1>5, <1>11, <2>3, <3>1, <4>1, CoachTypeFacts DEF Before
      <4>3. Coach!Outcome(q, Coach!InForce(q))' = Coach!Outcome(q, xs)'
        BY <3>4
      <4>4. QED
        BY <3>7, <4>2, <4>3 DEF Reached
    <3>10. About(c, q)' => About(c, q)
      BY <3>1
    <3>11. Alone(q)'
      BY <1>8, <1>14, <2>1, <3>10, AloneUnlessNew DEF PartKept
    <3>12. ASSUME NEW d \in Callers PROVE Carried(q, d)'
      <4>1. CASE d = c
        <5>1. p \notin work'
          BY <1>5
        <5>2. QED
          BY <1>7, <1>9, <4>1, <5>1 DEF Carried, Performs
      <4>2. CASE d # c
        <5>1. ~About(d, q)
          BY <2>1, <3>1, <4>2 DEF PartKept, Alone
        <5>2. ~About(d, q)'
          BY <1>8, <1>14, <4>2, <5>1, AboutOthers
        <5>3. QED
          BY <5>2 DEF About, Carried, Performs
      <4>3. QED
        BY <4>1, <4>2
    <3>13. ASSUME NEW x \in Changes, Coach!PartOf(x)' = q PROVE Remembered(q, x)'
      <4>1. CASE x = p
        <5>1. Under(p, "revert")' /\ p \notin work'
          BY <1>5, <1>7, <1>9 DEF Under
        <5>2. QED
          BY <4>1, <5>1 DEF Remembered
      <4>2. CASE x # p
        <5>1. Coach!PartOf(x) = q /\ (x \in work' <=> x \in work)
          BY <1>5, <1>13, <3>13, <4>2
        <5>2. Remembered(q, x)
          BY <2>1, <5>1 DEF PartKept
        <5>3. \A op : Under(x, op) => Under(x, op)'
          BY <1>1, <1>2, <1>8, <4>2, UnderStays
        <5>4. ASSUME x \in work PROVE Before(q, x)' = Before(q, x)
          <6>1. x \in xs
            BY <3>3, <4>2, <5>1, <5>4
          <6>2. PICK ys : ys = Below(q, x)
            OBVIOUS
          <6>3. ys \in SUBSET xs
            BY <3>2, <3>5, <6>1, <6>2 DEF Below
          <6>4. Below(q, x)' = ys
            <7>1. Below(q, x)' = {y \in xs : <<y, x>> \in order'}
              BY <3>4 DEF Below
            <7>2. {y \in xs : <<y, x>> \in order'} = {y \in xs : <<y, x>> \in order}
              BY <3>6, <6>1
            <7>3. ys = {y \in xs : <<y, x>> \in order}
              BY <3>2, <6>2, <6>3 DEF Below
            <7>4. QED
              BY <7>1, <7>2, <7>3
          <6>5. Before(q, x)' = Coach!Outcome(q, ys)'
            BY <6>4 DEF Before
          <6>6. QED
            BY <3>7, <6>2, <6>3, <6>5 DEF Before
        <5>5. <<x, "console">> \in order => <<x, "console">> \in order'
          BY <1>6, <1>10, <4>2, CoachNames
        <5>6. x \in work' /\ ~Under(x, "apply")' =>
                /\ coaching'[x].status # "pending"
                /\ \/ q = "persona" /\ <<x, "console">> \in order'
                   \/ coaching'[x].previous = Before(q, x)'
          BY <1>5, <5>1, <5>2, <5>3, <5>4, <5>5 DEF Remembered
        <5>7. coaching'[x].status = "applied" /\ ~Under(x, "revert")' => x \in work'
          BY <1>5, <5>1, <5>2, <5>3 DEF Remembered
        <5>8. QED
          BY <5>6, <5>7 DEF Remembered
      <4>3. QED
        BY <4>1, <4>2
    <3>14. QED
      BY <3>9, <3>11, <3>12, <3>13 DEF PartKept
  <2>4. QED
    BY <2>2, <2>3
<1>16. QED
  BY <1>12, <1>15

LEMMA ConsoleEditKeeps ==
  ASSUME CoachInv, Coach!ConsoleEdit
  PROVE  CoachInv'
<1> USE DEF CoachInv
<1>1. /\ config' = [config EXCEPT !["persona"] = {"console"}] /\ Coach!Made("console")
      /\ overlapped' = IF \E d \in Coach!Busy : Coach!PartOf(coachCall[d].id) = "persona"
                       THEN overlapped \cup {"persona"} ELSE overlapped
      /\ coaching' = coaching /\ coachCall' = coachCall /\ swept' = swept
  BY CoachNames DEF Coach!ConsoleEdit, Coach!Cross
<1>2. /\ work' = work \cup {"console"} /\ order' \subseteq work' \X work'
      /\ \A a, b : <<a, b>> \in order' <=>
           IF b = "console" THEN a \in work /\ a # "console" ELSE a # "console" /\ <<a, b>> \in order
      /\ Total(work', order')
  BY <1>1, MadeFacts
<1>3. overlapped \subseteq overlapped' /\ overlapped' \subseteq Coach!Parts
  BY <1>1, CoachTypeFacts, CoachNames
<1>4. CoachTypes'
  <2>1. \A d \in Callers : Commissioned(coachCall'[d])
    BY <1>1 DEF CoachTypes
  <2>2. config' \in [Coach!Parts -> SUBSET Coach!Texts]
    BY <1>1, CoachTypeFacts, CoachNames
  <2>3. \A x \in work' : x = "console" \/ (x \in Changes /\ Drawn(x))
    BY <1>2, CoachTypeFacts DEF CoachTypes, InOrder
  <2>4. QED
    BY <1>1, <1>2, <1>3, <2>1, <2>2, <2>3, CoachTypeFacts, WriteTypes
<1>5. \A x : Coach!PartOf(x)' = Coach!PartOf(x)
  BY <1>1, PartsOfAll
<1>6. ASSUME NEW q \in Coach!Parts, q \notin overlapped' \cup swept'
      PROVE  PartKept(q)'
  <2>1. PartKept(q)
    BY <1>1, <1>3, <1>6
  <2>2. CASE q # "persona"
    <3>1. config'[q] = config[q]
      BY <1>1, <2>2, CoachTypeFacts
    <3>2. \A x : x # "console" => (x \in work' <=> x \in work)
      BY <1>2
    <3>3. \A a, b : a # "console" /\ b # "console" => (<<a, b>> \in order' <=> <<a, b>> \in order)
      BY <1>2
    <3>4. Coach!PartOf("console") # q
      BY <2>2, PartsOfAll
    <3>5. \A d \in Callers : coachCall'[d] = coachCall[d]
      BY <1>1
    <3>6. QED
      BY <1>1, <2>1, <2>2, <3>1, <3>2, <3>3, <3>4, <3>5, ElsewhereKept
  <2>3. CASE q = "persona"
    <3>1. \A d \in Callers : ~About(d, q) /\ ~About(d, q)'
      BY <1>1, <1>5, <1>6, <2>3 DEF About, Coach!Busy
    <3>2. Reached(q)'
      <4>1. PICK xs : xs = Coach!InForce(q)'
        OBVIOUS
      <4>2. xs = {x \in work' : Coach!PartOf(x) = q}
        BY <1>5, <4>1 DEF Coach!InForce
      <4>3. "console" \in xs /\ xs \subseteq work \cup {"console"}
        BY <1>2, <2>3, <4>2, PartsOfAll
      <4>4. \A x \in xs : (\A y \in xs \ {x} : <<y, x>> \in order') <=> x = "console"
        BY <1>2, <4>3
      <4>5. Result(q, xs, coaching', order') = {x \in xs : \A y \in xs \ {x} : <<y, x>> \in order'}
        BY <2>3, <4>3 DEF Result
      <4>6. Result(q, xs, coaching', order') = {"console"}
        BY <4>3, <4>4, <4>5
      <4>7. Coach!Outcome(q, Coach!InForce(q))' = Coach!Outcome(q, xs)'
        BY <4>1
      <4>8. config'[q] = {"console"}
        BY <1>1, <2>3, CoachTypeFacts, CoachNames
      <4>9. QED
        BY <4>6, <4>7, <4>8, OutcomeIs DEF Reached
    <3>3. Alone(q)' /\ \A d \in Callers : Carried(q, d)'
      BY <3>1 DEF Alone, About, Carried, Performs
    <3>4. ASSUME NEW x \in Changes, Coach!PartOf(x)' = q PROVE Remembered(q, x)'
      <4>1. Coach!PartOf(x) = q /\ x # "console" /\ (x \in work' <=> x \in work)
        BY <1>2, <1>5, <3>4, CoachNames
      <4>2. Remembered(q, x)
        BY <2>1, <4>1 DEF PartKept
      <4>3. \A op : Under(x, op) <=> Under(x, op)'
        BY <1>1 DEF Under
      <4>4. x \in work => <<x, "console">> \in order'
        BY <1>2, <4>1
      <4>5. x \in work' /\ ~Under(x, "apply")' =>
              coaching'[x].status # "pending" /\ q = "persona" /\ <<x, "console">> \in order'
        BY <1>1, <2>3, <4>1, <4>2, <4>3, <4>4 DEF Remembered
      <4>6. coaching'[x].status = "applied" /\ ~Under(x, "revert")' => x \in work'
        BY <1>1, <4>1, <4>2, <4>3 DEF Remembered
      <4>7. QED
        BY <4>5, <4>6 DEF Remembered
    <3>5. QED
      BY <3>2, <3>3, <3>4 DEF PartKept
  <2>4. QED
    BY <2>2, <2>3
<1>7. QED
  BY <1>4, <1>6

-----------------------------------------------------------------------------
(* The coach begins with nothing done, and every step keeps its invariant.  *)

LEMMA InitCoach ==
  ASSUME Coach!Init
  PROVE  CoachInv
<1>1. /\ coaching = [p \in Changes |-> [type |-> "persona", status |-> "none", previous |-> {}]]
      /\ config = [part \in Coach!Parts |-> {"base"}]
      /\ coachCall = [c \in Callers |-> Coach!Idle]
      /\ work = {} /\ order = {} /\ overlapped = {} /\ swept = {}
  BY CoachNames DEF Coach!Init, Coach!NoProposal
<1>2. /\ Coach!Idle \in CoachSlots /\ Coach!Idle.op = "none" /\ Coach!Idle.pc = "idle"
      /\ Commissioned(Coach!Idle)
  <2>1. Coach!Idle = [op |-> "none", pc |-> "idle", id |-> "base", previous |-> {}, value |-> {}]
    BY DEF Coach!Idle, Coach!Base
  <2>2. QED
    BY <2>1 DEF CoachSlots, Commissioned
<1>3. CoachTypes
  <2>1. [type |-> "persona", status |-> "none", previous |-> {}] \in ChangeTypes
    BY DEF ChangeTypes, Coach!Types
  <2>2. coaching \in [Changes -> ChangeTypes]
    BY <1>1, <2>1
  <2>3. config \in [Coach!Parts -> SUBSET Coach!Texts]
    BY <1>1, CoachNames
  <2>4. Coach!TypeOK
    BY <1>1, <1>2, <2>2, <2>3, CoachNames DEF Coach!TypeOK, ChangeTypes
  <2>5. InOrder
    BY <1>1 DEF InOrder
  <2>6. QED
    BY <1>1, <1>2, <2>4, <2>5 DEF CoachTypes
<1>4. ASSUME NEW q \in Coach!Parts PROVE PartKept(q)
  <2>1. Coach!InForce(q) = {}
    BY <1>1 DEF Coach!InForce
  <2>2. Result(q, {}, coaching, order) = {"base"}
    BY DEF Result
  <2>3. Reached(q)
    BY <1>1, <2>1, <2>2, OutcomeIs DEF Reached
  <2>4. Alone(q) /\ \A c \in Callers : Carried(q, c)
    BY <1>1, <1>2 DEF Alone, About, Carried, Performs
  <2>5. \A p \in Changes : Remembered(q, p)
    BY <1>1 DEF Remembered
  <2>6. QED
    BY <2>3, <2>4, <2>5 DEF PartKept
<1>5. QED
  BY <1>3, <1>4 DEF CoachInv

LEMMA NextCoach ==
  ASSUME CoachInv, Coach!Next \/ UNCHANGED coachVars
  PROVE  CoachInv'
<1>1. ASSUME NEW p \in Changes, Coach!Persist(p) PROVE CoachInv'
  BY <1>1, PersistKeeps
<1>2. ASSUME NEW c \in Callers, NEW p \in Changes, Coach!ApplyRead(c, p) PROVE CoachInv'
  BY <1>2, ApplyReadKeeps
<1>3. ASSUME NEW c \in Callers, NEW p \in Changes, Coach!RejectRead(c, p) PROVE CoachInv'
  BY <1>3, RejectReadKeeps
<1>4. ASSUME NEW c \in Callers, NEW p \in Changes, Coach!RevertRead(c, p) PROVE CoachInv'
  BY <1>4, RevertReadKeeps
<1>5. ASSUME NEW c \in Callers, Coach!RejectStatus(c) PROVE CoachInv'
  BY <1>5, RejectStatusKeeps
<1>6. ASSUME NEW c \in Callers, Coach!ApplyWrite(c) PROVE CoachInv'
  BY <1>6, ApplyWriteKeeps
<1>7. ASSUME NEW c \in Callers, Coach!ApplyStatus(c) PROVE CoachInv'
  BY <1>7, ApplyStatusKeeps
<1>8. ASSUME NEW c \in Callers, Coach!Supersede(c) PROVE CoachInv'
  BY <1>8, SupersedeKeeps
<1>9. ASSUME NEW c \in Callers, Coach!RevertWrite(c) PROVE CoachInv'
  BY <1>9, RevertWriteKeeps
<1>10. ASSUME NEW c \in Callers, Coach!RevertStatus(c) PROVE CoachInv'
  BY <1>10, RevertStatusKeeps
<1>11. CASE Coach!ConsoleEdit
  BY <1>11, ConsoleEditKeeps
<1>12. CASE UNCHANGED coachVars
  <2>1. /\ coaching' = coaching /\ config' = config /\ coachCall' = coachCall /\ work' = work
        /\ order' = order /\ overlapped' = overlapped /\ swept' = swept
    BY <1>12 DEF coachVars
  <2>2. CoachTypes'
    BY <2>1 DEF CoachInv, CoachTypes, Coach!TypeOK, Commissioned, Drawn, InOrder
  <2>3. QuietStep
    BY <2>1 DEF QuietStep, DraftsStay
  <2>4. ASSUME NEW q \in Coach!Parts, q \notin overlapped' \cup swept' PROVE PartKept(q)'
    <3>1. PartKept(q) /\ CoachTypes
      BY <2>1, <2>4 DEF CoachInv
    <3>2. Reached(q)'
      BY <2>3, <3>1, QuietFrame DEF PartKept
    <3>3. Alone(q)'
      BY <2>1, <3>1, PartsOfAll DEF PartKept, Alone, About
    <3>4. \A d \in Callers : Carried(q, d)'
      BY <2>1, <2>3, <3>1, QuietCarried DEF PartKept
    <3>5. ASSUME NEW x \in Changes, Coach!PartOf(x)' = q PROVE Remembered(q, x)'
      <4>1. Coach!PartOf(x) = q
        BY <2>1, <3>5, PartsOfAll
      <4>2. \A op : Under(x, op) => Under(x, op)'
        BY <2>1 DEF Under
      <4>3. QED
        BY <2>1, <2>3, <3>1, <4>1, <4>2, QuietRemembered DEF PartKept
    <3>6. QED
      BY <3>2, <3>3, <3>4, <3>5 DEF PartKept
  <2>5. QED
    BY <2>2, <2>4 DEF CoachInv
<1>13. QED
  BY <1>1, <1>2, <1>3, <1>4, <1>5, <1>6, <1>7, <1>8, <1>9, <1>10, <1>11, <1>12 DEF Coach!Next

LEMMA CoachSays ==
  ASSUME CoachInv
  PROVE  Coach!TypeOK /\ Coach!ConfigIsTheWorkDone
BY DEF CoachInv, CoachTypes, PartKept, Reached, Coach!ConfigIsTheWorkDone

-----------------------------------------------------------------------------
(* The components side by side: the one in focus keeps its invariant.       *)

BackOfficeInv ==
  /\ focus \in {"reuse", "order", "token", "pair", "proposal", "coach"}
  /\ focus = "reuse" => ReuseInv
  /\ focus = "order" => OrderInv
  /\ focus = "token" => TokenInv
  /\ focus = "pair" => PairInv
  /\ focus = "proposal" => ProposalInv
  /\ focus = "coach" => CoachInv

LEMMA InitBackOffice == Init => BackOfficeInv
  BY InitReuse, InitOrder, InitToken, InitPair, InitProposal, InitCoach DEF Init, BackOfficeInv

LEMMA NextBackOffice == BackOfficeInv /\ [Next]_vars => BackOfficeInv'
<1> SUFFICES ASSUME BackOfficeInv, [Next]_vars PROVE BackOfficeInv'
  OBVIOUS
<1>1. focus' = focus
  BY DEF Next, vars
<1>2. focus = "reuse" => ReuseInv'
  <2>1. focus = "reuse" => Reuse!Next \/ UNCHANGED reuseVars
    BY DEF Next, vars
  <2>2. QED
    BY <2>1, NextReuse DEF BackOfficeInv
<1>3. focus = "order" => OrderInv'
  <2>1. focus = "order" => Order!Next \/ UNCHANGED orderVars
    BY DEF Next, vars
  <2>2. QED
    BY <2>1, NextOrder DEF BackOfficeInv
<1>4. focus = "token" => TokenInv'
  <2>1. focus = "token" => Token!Next \/ UNCHANGED tokenVars
    BY DEF Next, vars
  <2>2. QED
    BY <2>1, NextToken DEF BackOfficeInv
<1>5. focus = "pair" => PairInv'
  <2>1. focus = "pair" => Kb!PairNext \/ UNCHANGED kbVars
    BY DEF Next, vars
  <2>2. QED
    BY <2>1, NextPair DEF BackOfficeInv
<1>6. focus = "proposal" => ProposalInv'
  <2>1. focus = "proposal" => Kb!ProposalNext \/ UNCHANGED kbVars
    BY DEF Next, vars
  <2>2. QED
    BY <2>1, NextProposal DEF BackOfficeInv
<1>7. focus = "coach" => CoachInv'
  <2>1. focus = "coach" => Coach!Next \/ UNCHANGED coachVars
    BY DEF Next, vars
  <2>2. QED
    BY <2>1, NextCoach DEF BackOfficeInv
<1>8. QED
  BY <1>1, <1>2, <1>3, <1>4, <1>5, <1>6, <1>7 DEF BackOfficeInv

LEMMA BackOfficeInvariant == Spec => []BackOfficeInv
  BY InitBackOffice, NextBackOffice, PTL DEF Spec

(* Every variable of the component in focus keeps its type.                 *)
THEOREM TypeCorrect == Spec => []TypeOK
<1>1. BackOfficeInv => TypeOK
  BY CoachSays DEF BackOfficeInv, TypeOK, Knowledge, ReuseInv, ReuseTypes, OrderInv, TokenInv, PairInv, ProposalInv
<1>2. QED
  BY <1>1, BackOfficeInvariant, PTL

(* An answer that was switched off, deleted or erased is not replayed again, *)
(* whatever calls overlap, but by an edit that had loaded it before.         *)
THEOREM AnswersStayOff == Spec => []OffStaysOff
<1>1. BackOfficeInv => OffStaysOff
  BY ReuseSays DEF BackOfficeInv, OffStaysOff
<1>2. QED
  BY <1>1, BackOfficeInvariant, PTL

(* Once no call is under way, the table and the vectors agree on what is    *)
(* replayed, but for what a failed or a late write left loose.              *)
THEOREM AnswersAreFound == Spec => []NothingHidesTheQuestion
<1>1. BackOfficeInv => NothingHidesTheQuestion
  BY ReuseSays DEF BackOfficeInv, NothingHidesTheQuestion
<1>2. QED
  BY <1>1, BackOfficeInvariant, PTL

(* The next sync of a shop asks for every order the cache is behind on,     *)
(* whatever webhooks are lost or late and whatever runs overlap, but where  *)
(* the shared stamp or an older version was written over it.                *)
THEOREM NoOrderSkipped == Spec => []CursorSkipsNothing
<1>1. BackOfficeInv => CursorSkipsNothing
  BY DEF BackOfficeInv, OrderInv, CursorSkipsNothing
<1>2. QED
  BY <1>1, BackOfficeInvariant, PTL

(* The mall still takes the stored refresh token, for any number of         *)
(* requests that refresh it, unless its successor was lost in an answer     *)
(* that never arrived or in a crash.                                        *)
THEOREM CredentialSurvives == Spec => []StoredTokenWorks
<1>1. BackOfficeInv => StoredTokenWorks
  BY DEF BackOfficeInv, TokenInv, StoredTokenWorks
<1>2. QED
  BY <1>1, BackOfficeInvariant, PTL

(* What a reviewer of the knowledge base has decided is not reopened unless *)
(* a reviewer asks, and an approved draft is published once, but for calls  *)
(* and failures that crossed the decision.                                  *)
THEOREM ReviewStands == Spec => []DecisionsStand
<1>1. BackOfficeInv => DecisionsStand
  BY PairDecides, ProposalDecides DEF BackOfficeInv, DecisionsStand, Knowledge
<1>2. QED
  BY <1>1, BackOfficeInvariant, PTL

(* What the agent is configured with is the work that was applied and not   *)
(* reverted, for any number of proposals and calls, but for parts where two *)
(* calls overlapped or a change under a later one was reverted.             *)
THEOREM WorkIsConfigured == Spec => []ConfigIsTheWorkDone
<1>1. BackOfficeInv => ConfigIsTheWorkDone
  BY CoachSays DEF BackOfficeInv, ConfigIsTheWorkDone
<1>2. QED
  BY <1>1, BackOfficeInvariant, PTL
=============================================================================
