---------------------------- MODULE Cafe24Token ----------------------------
(***************************************************************************)
(* The Cafe24 credential of a tenant.  The mall replaces the refresh token *)
(* each time it is used, so the stored one must be used by one caller at a *)
(* time and its successor must be saved, or the tenant has to authorise    *)
(* the mall again.  The access token is kept in memory only.               *)
(*                                                                         *)
(* Callers run getConnection; a reconnection goes through the OAuth        *)
(* callback.  Left out: scopes, several malls (see the README), encryption *)
(* and the answers that carry no new refresh token.                        *)
(***************************************************************************)
EXTENDS Naturals

CONSTANTS
  Callers,   \* getConnection calls in flight
  MaxTokens  \* bound: refresh tokens the mall hands out

VARIABLES
  handed,     \* the mall: refresh tokens handed out so far
  accepted,   \* the mall: those it still takes
  stored,     \* integration_credentials: the refresh token, 0 for no row
  cachedToken,\* accessCache: an access token that has not run out
  inFlight,   \* refreshInFlight
  caller,     \* the callers
  install,    \* handleCallback: the token it got and has not stored, 0 for none
  mishap,     \* history: a successor was not saved, or two writers of the row met
  refused     \* history: the mall refused a refresh token

vars == <<handed, accepted, stored, cachedToken, inFlight, caller, install, mishap, refused>>

Tokens == 1 .. MaxTokens
Idle == [pc |-> "idle", token |-> 0, next |-> 0]
Step(c, slot) == caller' = [caller EXCEPT ![c] = slot]
Holding == {c \in Callers : caller[c].pc \in {"decide", "ask", "save"}}

Init ==
  /\ handed = 0 /\ accepted = {} /\ stored = 0
  /\ cachedToken = FALSE /\ inFlight = FALSE
  /\ caller = [c \in Callers |-> Idle]
  /\ install = 0
  /\ mishap = FALSE /\ refused = FALSE

Hand(t) == handed' = t /\ t \in Tokens

-----------------------------------------------------------------------------
\* getConnection reads the row ...
ReadRow(c) ==
  /\ caller[c].pc = "idle" /\ stored # 0
  /\ Step(c, [Idle EXCEPT !.pc = "decide", !.token = stored])
  /\ UNCHANGED <<handed, accepted, stored, cachedToken, inFlight, install, mishap, refused>>

\* ... then uses the cached access token ...
UseCached(c) ==
  /\ caller[c].pc = "decide" /\ cachedToken
  /\ Step(c, Idle)
  /\ UNCHANGED <<handed, accepted, stored, cachedToken, inFlight, install, mishap, refused>>

\* ... or waits for the refresh under way ...
Join(c) ==
  /\ caller[c].pc = "decide" /\ ~cachedToken /\ inFlight
  /\ Step(c, [Idle EXCEPT !.pc = "wait"])
  /\ UNCHANGED <<handed, accepted, stored, cachedToken, inFlight, install, mishap, refused>>

\* Mutant: no single flight, every caller refreshes for itself.
MayRefresh_Always == TRUE

MayRefresh == ~inFlight

\* ... or starts one with the token it read.
StartRefresh(c) ==
  /\ caller[c].pc = "decide" /\ ~cachedToken /\ MayRefresh
  /\ inFlight' = TRUE
  /\ Step(c, [caller[c] EXCEPT !.pc = "ask"])
  /\ UNCHANGED <<handed, accepted, stored, cachedToken, install, mishap, refused>>

\* finally: the waiting callers share the outcome.
EndRefresh(c) ==
  /\ inFlight' = FALSE
  /\ caller' = [d \in Callers |-> IF d = c \/ caller[d].pc = "wait" THEN Idle ELSE caller[d]]

\* The mall takes the token and hands out its successor; the answer may be lost on the way.
Rotate(c) ==
  LET new == handed + 1
  IN /\ caller[c].pc = "ask" /\ caller[c].token \in accepted
     /\ Hand(new)
     /\ accepted' = (accepted \ {caller[c].token}) \cup {new}
     /\ \/ /\ Step(c, [caller[c] EXCEPT !.pc = "save", !.next = new])
           /\ UNCHANGED <<inFlight, mishap>>
        \/ /\ EndRefresh(c)
           /\ mishap' = TRUE
     /\ UNCHANGED <<stored, cachedToken, install, refused>>

Refuse(c) ==
  /\ caller[c].pc = "ask" /\ caller[c].token \notin accepted
  /\ refused' = TRUE
  /\ EndRefresh(c)
  /\ UNCHANGED <<handed, accepted, stored, cachedToken, install, mishap>>

\* The request does not reach the mall.
Unreachable(c) ==
  /\ caller[c].pc = "ask"
  /\ EndRefresh(c)
  /\ UNCHANGED <<handed, accepted, stored, cachedToken, install, mishap, refused>>

\* The row is saved before the access token is cached; a failed save leaves through the catch.
Save(c) ==
  /\ caller[c].pc = "save"
  /\ \/ /\ stored' = caller[c].next
        /\ cachedToken' = TRUE
        /\ UNCHANGED mishap
     \/ /\ mishap' = TRUE
        /\ UNCHANGED <<stored, cachedToken>>
  /\ EndRefresh(c)
  /\ UNCHANGED <<handed, accepted, install, refused>>

-----------------------------------------------------------------------------
\* Access tokens live two hours: none runs out between a row read and the next step.
Expire ==
  /\ cachedToken /\ \A c \in Callers : caller[c].pc # "decide"
  /\ cachedToken' = FALSE
  /\ UNCHANGED <<handed, accepted, stored, inFlight, caller, install, mishap, refused>>

\* handleCallback exchanges the code for a new grant; whether the mall keeps taking the
\* tokens of the old one is the mall's affair ...
Exchange ==
  /\ install = 0
  /\ Hand(handed + 1)
  /\ install' = handed + 1
  /\ accepted' \in {{handed + 1}, accepted \cup {handed + 1}}
  /\ UNCHANGED <<stored, cachedToken, inFlight, caller, mishap, refused>>

\* ... and stores it over the row.  The cached access token stays.
Connect ==
  /\ install # 0
  /\ stored' = install /\ install' = 0
  /\ mishap' = (Holding # {}) /\ refused' = FALSE
  /\ UNCHANGED <<handed, accepted, cachedToken, inFlight, caller>>

\* The process dies: memory is gone, so is a successor or a grant not yet saved.
Restart ==
  /\ cachedToken' = FALSE /\ inFlight' = FALSE
  /\ caller' = [c \in Callers |-> Idle]
  /\ install' = 0
  /\ mishap' = (mishap \/ install # 0 \/ \E c \in Callers : caller[c].pc = "save")
  /\ UNCHANGED <<handed, accepted, stored, refused>>

Next ==
  \/ \E c \in Callers :
       \/ ReadRow(c) \/ UseCached(c) \/ Join(c) \/ StartRefresh(c)
       \/ Rotate(c) \/ Refuse(c) \/ Unreachable(c) \/ Save(c)
  \/ Expire \/ Exchange \/ Connect \/ Restart

Spec == Init /\ [][Next]_vars

-----------------------------------------------------------------------------
TypeOK ==
  /\ handed \in 0 .. MaxTokens /\ stored \in 0 .. MaxTokens /\ install \in 0 .. MaxTokens
  /\ accepted \subseteq Tokens
  /\ cachedToken \in BOOLEAN /\ inFlight \in BOOLEAN
  /\ mishap \in BOOLEAN /\ refused \in BOOLEAN
  /\ caller \in [Callers -> [pc : {"idle", "decide", "wait", "ask", "save"},
                             token : 0 .. MaxTokens, next : 0 .. MaxTokens]]

(* However many calls find the access token gone at once, each with a row  *)
(* it read at its own moment, the mall is never shown a token it has       *)
(* already replaced, and with nothing under way it still takes the stored  *)
(* one.  That fails only after a successor was lost before it was saved,   *)
(* or a reconnection met a call that held the row.                         *)
StoredTokenWorks ==
  ~mishap =>
    /\ refused => install # 0
    /\ (\A c \in Callers : caller[c].pc # "save") /\ install = 0 /\ stored # 0 => stored \in accepted
=============================================================================
