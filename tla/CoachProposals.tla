--------------------------- MODULE CoachProposals ---------------------------
(***************************************************************************)
(* Proposals of the AI coach.  The coach drafts changes of the persona,    *)
(* the rules or a scripted reply; an administrator applies one, which      *)
(* writes the configuration, or rejects it, and may revert one later,      *)
(* which writes back what the proposal had found.  The console edits the   *)
(* persona too.                                                            *)
(*                                                                         *)
(* A value is named after the change that wrote it.  Edits and removals    *)
(* aim at the one rule that was there first.  Left out: proposals that     *)
(* write a document (they cannot be reverted), edited wording, the cap on  *)
(* rules, their order, the revision history.                               *)
(***************************************************************************)
EXTENDS Naturals, FiniteSets

CONSTANTS
  Proposals,  \* ids, used once
  Calls,      \* calls in flight
  MaxWork     \* bound: changes in force

VARIABLES
  proposal,   \* coaching_proposals; previous is what a revert would write back
  config,     \* ai_agents.persona and .rules, ai_config.scenario_overrides
  call,       \* the calls
  work,       \* history: the changes made and not reverted
  order,      \* history: <<x, y>> where y was made after x
  crossed,    \* history: parts that two calls were about at once
  swept       \* history: what a revert rewrote although a later change was in force

vars == <<proposal, config, call, work, order, crossed, swept>>

Parts == {"persona", "rules", "scenario"}
Types == {"persona", "rule_add", "rule_edit", "rule_remove", "scenario"}
Base == "base"
Console == "console"
Texts == Proposals \cup {Base, Console}
NoProposal == [type |-> "persona", status |-> "none", previous |-> {}]
Idle == [op |-> "none", pc |-> "idle", id |-> Base, previous |-> {}, value |-> {}]

\* The part of the configuration a change is about.
Part(type) == IF type \in {"persona", "scenario"} THEN type ELSE "rules"
PartOf(x) == IF x = Console THEN "persona" ELSE Part(proposal[x].type)

Init ==
  /\ proposal = [p \in Proposals |-> NoProposal]
  /\ config = [part \in Parts |-> {Base}]
  /\ call = [c \in Calls |-> Idle]
  /\ work = {} /\ order = {}
  /\ crossed = {} /\ swept = {}

\* Calls that are about to change the configuration.
Busy == {d \in Calls : call[d].op \in {"apply", "revert"}}
Cross(part) ==
  crossed' = IF \E d \in Busy : PartOf(call[d].id) = part THEN crossed \cup {part} ELSE crossed
Start(c, slot) == call[c].pc = "idle" /\ call' = [call EXCEPT ![c] = slot]
Begin(c, slot) == Start(c, slot) /\ Cross(PartOf(slot.id))
End(c) == call' = [call EXCEPT ![c] = Idle]
Room == Cardinality(work) + Cardinality(Busy) < MaxWork

\* x is now the change made last.
Made(x) ==
  /\ work' = work \cup {x}
  /\ order' = {pair \in order : x \notin {pair[1], pair[2]}} \cup ((work \ {x}) \X {x})

-----------------------------------------------------------------------------
\* persist: the coach has drafted a change.
Persist(p) ==
  /\ proposal[p].status = "none"
  /\ \E type \in Types :
       proposal' = [proposal EXCEPT ![p] = [type |-> type, status |-> "pending", previous |-> {}]]
  /\ UNCHANGED <<config, call, work, order, crossed, swept>>

\* What the part holds after p.
Applied(p, now) ==
  CASE proposal[p].type = "rule_add" -> now \cup {p}
    [] proposal[p].type = "rule_edit" -> (now \ {Base}) \cup {p}
    [] proposal[p].type = "rule_remove" -> now \ {Base}
    [] OTHER -> {p}

\* apply: the proposal, then the configuration; an edit or a removal whose rule is gone is
\* refused as stale.
ApplyRead(c, p) ==
  LET now == config[Part(proposal[p].type)]
  IN /\ proposal[p].status = "pending"
     /\ proposal[p].type \in {"rule_edit", "rule_remove"} => Base \in now
     /\ Room
     /\ Begin(c, [op |-> "apply", pc |-> "write", id |-> p, previous |-> now, value |-> Applied(p, now)])
     /\ UNCHANGED <<proposal, config, work, order, swept>>

ApplyWrite(c) ==
  LET p == call[c].id
  IN /\ call[c].op = "apply" /\ call[c].pc = "write"
     /\ config' = [config EXCEPT ![PartOf(p)] = call[c].value]
     /\ Made(p)
     /\ call' = [call EXCEPT ![c].pc = "status", ![c].value = {}]
     /\ UNCHANGED <<proposal, crossed, swept>>

ApplyStatus(c) ==
  LET p == call[c].id
  IN /\ call[c].op = "apply" /\ call[c].pc = "status"
     /\ proposal' = [proposal EXCEPT ![p].status = "applied", ![p].previous = call[c].previous]
     /\ call' = [call EXCEPT ![c].pc = "peers", ![c].previous = {}]
     /\ UNCHANGED <<config, work, order, crossed, swept>>

SharesTargetWith(p, q) ==
  proposal[p].type = proposal[q].type /\ proposal[p].type # "rule_add"

\* supersedePeers: proposals that aim at what has just changed.
Supersede(c) ==
  LET p == call[c].id
  IN /\ call[c].op = "apply" /\ call[c].pc = "peers"
     /\ proposal' = [q \in Proposals |->
          IF q # p /\ proposal[q].status = "pending" /\ SharesTargetWith(p, q)
          THEN [proposal[q] EXCEPT !.status = "superseded"] ELSE proposal[q]]
     /\ End(c)
     /\ UNCHANGED <<config, work, order, crossed, swept>>

\* reject: the status as it was loaded is tested, whatever it is when the row is saved.
RejectRead(c, p) ==
  /\ proposal[p].status = "pending"
  /\ Start(c, [Idle EXCEPT !.op = "reject", !.pc = "status", !.id = p])
  /\ UNCHANGED <<proposal, config, work, order, crossed, swept>>

RejectStatus(c) ==
  /\ call[c].op = "reject" /\ call[c].pc = "status"
  /\ proposal' = [proposal EXCEPT ![call[c].id].status = "rejected"]
  /\ End(c)
  /\ UNCHANGED <<config, work, order, crossed, swept>>

-----------------------------------------------------------------------------
\* Mutant: the persona is given back like the rules are.
Revertible_Always(p) == proposal[p].status = "applied"

\* revert: a persona only while it is still the one the proposal wrote; rules and replies
\* are written back as they were before it, whatever has happened to them since.
Revertible(p) ==
  /\ proposal[p].status = "applied"
  /\ proposal[p].type = "persona" => config.persona = {p}

RevertRead(c, p) ==
  /\ Revertible(p)
  /\ Begin(c, [op |-> "revert", pc |-> "write", id |-> p,
               previous |-> {}, value |-> proposal[p].previous])
  /\ UNCHANGED <<proposal, config, work, order, swept>>

RevertWrite(c) ==
  LET p == call[c].id
  IN /\ call[c].op = "revert" /\ call[c].pc = "write"
     /\ config' = [config EXCEPT ![PartOf(p)] = call[c].value]
     /\ work' = work \ {p} /\ order' = {pair \in order : p \notin {pair[1], pair[2]}}
     /\ swept' = IF PartOf(p) # "persona" /\ \E x \in work : PartOf(x) = PartOf(p) /\ <<p, x>> \in order
                 THEN swept \cup {PartOf(p)} ELSE swept
     /\ call' = [call EXCEPT ![c].pc = "status", ![c].value = {}]
     /\ UNCHANGED <<proposal, crossed>>

RevertStatus(c) ==
  /\ call[c].op = "revert" /\ call[c].pc = "status"
  /\ proposal' = [proposal EXCEPT ![call[c].id].status = "reverted", ![call[c].id].previous = {}]
  /\ End(c)
  /\ UNCHANGED <<config, work, order, crossed, swept>>

\* The console saves another persona.
ConsoleEdit ==
  /\ config.persona # {Console} /\ Room
  /\ config' = [config EXCEPT !.persona = {Console}]
  /\ Made(Console)
  /\ Cross("persona")
  /\ UNCHANGED <<proposal, call, swept>>

Next ==
  \/ \E p \in Proposals : Persist(p)
  \/ \E c \in Calls :
       \/ \E p \in Proposals : ApplyRead(c, p) \/ RejectRead(c, p) \/ RevertRead(c, p)
       \/ RejectStatus(c) \/ ApplyWrite(c) \/ ApplyStatus(c) \/ Supersede(c) \/ RevertWrite(c) \/ RevertStatus(c)
  \/ ConsoleEdit

Spec == Init /\ [][Next]_vars

-----------------------------------------------------------------------------
TypeOK ==
  /\ proposal \in [Proposals ->
       [type : Types, previous : SUBSET Texts,
        status : {"none", "pending", "applied", "rejected", "superseded", "reverted"}]]
  /\ config \in [Parts -> SUBSET Texts]
  /\ \A c \in Calls : call[c].pc \in {"idle", "write", "status", "peers"}
  /\ work \subseteq Proposals \cup {Console} /\ order \subseteq work \X work
  /\ crossed \subseteq Parts /\ swept \subseteq {"rules", "scenario"}

InForce(part) == {x \in work : PartOf(x) = part}
Latest(xs) == {x \in xs : \A y \in xs \ {x} : <<y, x>> \in order}

\* What a part holds when the changes xs of it are in force.
Outcome(part, xs) ==
  IF part = "rules"
  THEN {x \in xs : proposal[x].type # "rule_remove"}
       \cup IF \E x \in xs : proposal[x].type # "rule_add" THEN {} ELSE {Base}
  ELSE IF xs = {} THEN {Base} ELSE Latest(xs)

(* What the agent is configured with is the work that was done and not     *)
(* undone: the latest persona and reply, every rule added, none removed.   *)
(* Applying, superseding, reverting and editing in any order keep that, so *)
(* no revert of a persona ever discards a later one, and calls about one   *)
(* part never touch another.  It is lost for a part where two calls about  *)
(* it overlap, and for rules and replies once a change that was not the    *)
(* latest is reverted.                                                     *)
ConfigIsTheWorkDone ==
  \A part \in Parts \ (crossed \cup swept) :
    config[part] = Outcome(part, InForce(part))
=============================================================================
