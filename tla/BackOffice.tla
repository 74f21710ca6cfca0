----------------------------- MODULE BackOffice -----------------------------
(***************************************************************************)
(* Five back-office components side by side: the answers kept for replay,  *)
(* the order cache, the Cafe24 credential, the review of the knowledge     *)
(* base and the proposals of the coach.  They share no state, so a         *)
(* behaviour here is one of a single component: focus says which, and the  *)
(* others stay as they start.                                              *)
(***************************************************************************)
EXTENDS Naturals, FiniteSets

CONSTANTS
  Callers,                           \* calls, runners, handlers or tasks at a time
  Answers, Cap,                      \* AnswerReuse
  Shops, Orders, Lookback, MaxTime,  \* OrderSync
  MaxTokens,                         \* Cafe24Token
  Pairs, Drafts, MaxAttempts,        \* KbReview; Pairs are the rows of one pair
  Changes, MaxWork                   \* CoachProposals

ASSUME CallersAssumption == IsFiniteSet(Callers)
ASSUME BoundsAssumption ==
  /\ Lookback \in Nat /\ MaxTime \in Nat \ {0}
  /\ MaxTokens \in Nat /\ MaxAttempts \in Nat \ {0}
\* The marks that stand for "no row", the pair, and what no proposal wrote are no ids.
ASSUME MarksAssumption == 0 \notin Pairs \cup Drafts /\ {"base", "console"} \cap Changes = {}

VARIABLES
  focus,
  rows, points, call, offed, raced, loose,
  now, updated, cached, hooks, lastSyncAt, run, clean, overtaken,
  handed, accepted, stored, cachedToken, inFlight, caller, install, mishap, refused,
  conflict, hidden, proposal, articles, task, crossed, asked, decided,
  coaching, config, coachCall, work, order, overlapped, swept

Reuse == INSTANCE AnswerReuse WITH Ids <- Answers, Calls <- Callers
Order == INSTANCE OrderSync WITH Runners <- Callers
Token == INSTANCE Cafe24Token
Kb == INSTANCE KbReview WITH Tasks <- Callers, Rows <- Pairs
Coach == INSTANCE CoachProposals WITH
  Proposals <- Changes, Calls <- Callers,
  proposal <- coaching, call <- coachCall, crossed <- overlapped

reuseVars == <<rows, points, call, offed, raced, loose>>
orderVars == <<now, updated, cached, hooks, lastSyncAt, run, clean, overtaken>>
tokenVars == <<handed, accepted, stored, cachedToken, inFlight, caller, install, mishap, refused>>
kbVars == <<conflict, hidden, proposal, articles, task, crossed, asked, decided>>
coachVars == <<coaching, config, coachCall, work, order, overlapped, swept>>
vars == <<focus, reuseVars, orderVars, tokenVars, kbVars, coachVars>>

Init ==
  /\ focus \in {"reuse", "order", "token", "pair", "proposal", "coach"}
  /\ Reuse!Init /\ Order!Init /\ Token!Init /\ Kb!Init /\ Coach!Init

Next ==
  /\ UNCHANGED focus
  /\ \/ focus = "reuse" /\ Reuse!Next /\ UNCHANGED <<orderVars, tokenVars, kbVars, coachVars>>
     \/ focus = "order" /\ Order!Next /\ UNCHANGED <<reuseVars, tokenVars, kbVars, coachVars>>
     \/ focus = "token" /\ Token!Next /\ UNCHANGED <<reuseVars, orderVars, kbVars, coachVars>>
     \/ focus = "pair" /\ Kb!PairNext /\ UNCHANGED <<reuseVars, orderVars, tokenVars, coachVars>>
     \/ focus = "proposal" /\ Kb!ProposalNext /\ UNCHANGED <<reuseVars, orderVars, tokenVars, coachVars>>
     \/ focus = "coach" /\ Coach!Next /\ UNCHANGED <<reuseVars, orderVars, tokenVars, kbVars>>

Spec == Init /\ [][Next]_vars

-----------------------------------------------------------------------------
\* A component is looked at in its own behaviours: in the others it does not move.
Knowledge == {"pair", "proposal"}

(* The types of the component that runs.                                   *)
TypeOK ==
  /\ focus = "reuse" => Reuse!TypeOK
  /\ focus = "order" => Order!TypeOK
  /\ focus = "token" => Token!TypeOK
  /\ focus \in Knowledge => Kb!TypeOK
  /\ focus = "coach" => Coach!TypeOK

(* An answer switched off, deleted or erased is not replayed again, but by *)
(* a console edit that had loaded it before.                               *)
OffStaysOff == focus = "reuse" => Reuse!OffStaysOff

(* Once the calls are over, the table and the vectors agree on what is     *)
(* replayed.                                                               *)
NothingHidesTheQuestion == focus = "reuse" => Reuse!NothingHidesTheQuestion

(* The next sync of a shop asks for every order the cache is behind on.    *)
CursorSkipsNothing == focus = "order" => Order!CursorSkipsNothing

(* The mall still takes the stored refresh token.                          *)
StoredTokenWorks == focus = "token" => Token!StoredTokenWorks

(* What a reviewer of the knowledge base decided stays decided.            *)
DecisionsStand == focus \in Knowledge => Kb!DecisionsStand

(* The configuration is the work that was applied and not reverted.        *)
ConfigIsTheWorkDone == focus = "coach" => Coach!ConfigIsTheWorkDone
=============================================================================
