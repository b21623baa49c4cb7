---------------------------- MODULE AdvisorPlans ----------------------------
(***************************************************************************)
(* Action plans of the Advisor and the planning settings they change, as   *)
(* requests of one owner share them: several tabs, one thread each.        *)
(*                                                                         *)
(* A request is one database transaction.  Everything it reads comes from  *)
(* the snapshot of its first SELECT, the status of the plan and the        *)
(* precondition included; no SELECT of these services asks for a lock.     *)
(* What it writes it locks, row by row and in program order, until it      *)
(* commits.  A request refused by a check changes nothing (even the        *)
(* "expired" that apply_proposal flushes is rolled back with the session), *)
(* so only requests that pass their checks are opened here.                *)
(*                                                                         *)
(* A few operators have a wrong sibling, defined just before them and      *)
(* used nowhere, that stands for a bug in the code.                        *)
(***************************************************************************)
EXTENDS Naturals, FiniteSets

CONSTANTS
  Settings,   \* goals, debts, the payoff strategy, the reserve, a month's budget
  Months,     \* those that are the budget of a month
  Removable,  \* those the user may delete: goals, debts, budgets of months
  Values,
  Missing,    \* the row does not exist
  Plans,
  NoPlan,
  Wants,      \* what each plan makes of the settings it reaches
  Order,      \* the places of a plan's settings in the order of its actions
  UndoOrder,  \* the places of all settings in the order an undo restores them in
  Requests    \* requests handled at the same time

Kept == [Settings -> Values \cup {Missing}]
Reach(p) == DOMAIN Wants[p]

PlansAssumption ==
  /\ Months \subseteq Removable /\ Removable \subseteq Settings
  /\ Missing \notin Values /\ NoPlan \notin Plans
  /\ \A p \in Plans :
       /\ Wants[p] \in [Reach(p) -> Values] /\ Reach(p) \subseteq Settings
       /\ Order[p] \in [Reach(p) -> Nat]
       /\ \A s, t \in Reach(p) : Order[p][s] = Order[p][t] => s = t
  /\ UndoOrder \in [Settings -> Nat]
  /\ \A s, t \in Settings : UndoOrder[s] = UndoOrder[t] => s = t
ASSUME PlansAssumption

VARIABLES
  settings,   \* the rows of goals, debts, strategy, forecast, monthly budgets
  plans,      \* advisor_proposals: status, precondition_json (and rollback_json)
  expired,    \* drafts older than PROPOSAL_TTL
  executions, \* advisor_proposal_executions, counted
  requests    \* the open transactions

vars == <<settings, plans, expired, executions, requests>>

Statuses == {"none", "draft", "applied", "rejected", "undone", "deleted"}
Operations == {"create", "apply", "reject", "undo", "edit"}
Empty == [s \in {} |-> Missing]

Idle == [op |-> "idle", plan |-> NoPlan, seen |-> Empty, new |-> Empty, todo |-> {}, held |-> {}]

Reached(p, view) == [s \in Reach(p) |-> view[s]]
NoDraft(p) == [status |-> "none", before |-> [s \in Reach(p) |-> Missing]]

-----------------------------------------------------------------------------
(* A transaction.                                                          *)

(* An UPDATE of a value that does not change is not sent; the budget of a  *)
(* month is written anew, its categories deleted and inserted.             *)
SendsToRows(new, s) == s \in DOMAIN new /\ new[s] # settings[s] /\ settings[s] # Missing
Sends(new, s) == s \in DOMAIN new /\ (s \in Months \/ new[s] # settings[s])

Open(r, op, plan, new) ==
  /\ requests[r] = Idle
  /\ requests' = [requests EXCEPT ![r] =
       [op |-> op, plan |-> plan, seen |-> [s \in DOMAIN new |-> settings[s]], new |-> new,
        todo |-> {s \in DOMAIN new : Sends(new, s)}, held |-> {}]]
  /\ UNCHANGED <<settings, plans, expired, executions>>

CloseHolding(r) == requests' = [requests EXCEPT ![r] = [Idle EXCEPT !.held = requests[r].held]]
Close(r) == requests' = [requests EXCEPT ![r] = Idle]

Waiting(r) == requests[r].todo # {}

(* The place of a row among those that r writes. *)
Place(r, s) ==
  IF requests[r].op = "undo" THEN UndoOrder[s]
  ELSE IF requests[r].plan # NoPlan THEN Order[requests[r].plan][s] ELSE 0
Row(r, s) == s \in requests[r].todo /\ \A t \in requests[r].todo : Place(r, s) <= Place(r, t)
Free(s) == \A q \in Requests : s \notin requests[q].held

(* An INSERT meets a row that the snapshot did not show, an UPDATE misses  *)
(* one that it did.                                                        *)
Fits(r, s) ==
  \/ requests[r].new[s] = Missing
  \/ (requests[r].seen[s] = Missing) = (settings[s] = Missing)

Write(r, s) ==
  /\ Row(r, s) /\ Free(s) /\ Fits(r, s)
  /\ requests' = [requests EXCEPT ![r].todo = @ \ {s}, ![r].held = @ \cup {s}]
  /\ UNCHANGED <<settings, plans, expired, executions>>

WriteFails(r, s) ==
  /\ Row(r, s) /\ Free(s) /\ ~Fits(r, s)
  /\ Close(r)
  /\ UNCHANGED <<settings, plans, expired, executions>>

(* The lock wait ends in a timeout, or InnoDB picks this transaction to    *)
(* break a deadlock.                                                       *)
GiveUpNever(r, s) == FALSE
GiveUp(r, s) ==
  /\ Row(r, s) /\ ~Free(s)
  /\ Close(r)
  /\ UNCHANGED <<settings, plans, expired, executions>>

(* The process or its connection dies. *)
Abandon(r) ==
  /\ requests[r] # Idle
  /\ Close(r)
  /\ UNCHANGED <<settings, plans, expired, executions>>

Written(r) ==
  [s \in Settings |-> IF s \in requests[r].held THEN requests[r].new[s] ELSE settings[s]]

-----------------------------------------------------------------------------
(* The operations.                                                         *)

(* The suggested actions are simulated against the real rows and rolled    *)
(* back; the settings as they were are stored with the draft.              *)
CreateBegins(r, p) ==
  /\ plans[p].status = "none"
  /\ \A q \in Requests : requests[q].plan # p
  /\ \A s \in Reach(p) \ Months : settings[s] # Missing
  /\ Open(r, "create", p, Wants[p])

CreateCommits(r) ==
  /\ requests[r].op = "create" /\ ~Waiting(r)
  /\ plans' = [plans EXCEPT ![requests[r].plan] =
       [status |-> "draft", before |-> requests[r].seen]]
  /\ Close(r)
  /\ UNCHANGED <<settings, expired, executions>>

(* The settings are as the draft was computed against. *)
Expected(p) == Reached(p, settings) = plans[p].before

ApplyBegins(r, p) ==
  /\ plans[p].status = "draft" /\ p \notin expired
  /\ Expected(p)
  /\ Open(r, "apply", p, Wants[p])

(* A draft may be dismissed however old or outdated it is. *)
RejectBegins(r, p) ==
  /\ plans[p].status = "draft"
  /\ Open(r, "reject", p, Empty)

RestoredButMonths(p) == [s \in Reach(p) \ Months |-> plans[p].before[s]]
(* Undo restores the settings the draft was computed against; the budget   *)
(* of a month that did not exist is deleted again.                         *)
Restored(p) == plans[p].before

UndoBegins(r, p) ==
  /\ plans[p].status = "applied"
  /\ Reached(p, settings) = Wants[p]
  /\ Open(r, "undo", p, Restored(p))

Outcome == [apply |-> "applied", reject |-> "rejected", undo |-> "undone"]

CountedApplies(p, op) ==
  IF op = "apply" THEN [executions EXCEPT ![p].apply = @ + 1] ELSE executions
Counted(p, op) ==
  IF op \in {"apply", "undo"} THEN [executions EXCEPT ![p][op] = @ + 1] ELSE executions

(* The new status is written last, over whatever it is by now. *)
Decide(r) ==
  LET op == requests[r].op
      p == requests[r].plan
  IN /\ op \in DOMAIN Outcome /\ ~Waiting(r)
     /\ plans[p].status # "deleted"
     /\ settings' = Written(r)
     /\ plans' = [plans EXCEPT ![p].status = Outcome[op]]
     /\ executions' = Counted(p, op)
     /\ Close(r)
     /\ UNCHANGED expired

(* The plan was deleted meanwhile: its UPDATE finds no row. *)
DecideFails(r) ==
  /\ requests[r].op \in DOMAIN Outcome /\ ~Waiting(r)
  /\ plans[requests[r].plan].status = "deleted"
  /\ Close(r)
  /\ UNCHANGED <<settings, plans, expired, executions>>

(* The user changes a setting by hand, creates the budget of a month or    *)
(* deletes something.                                                      *)
EditBegins(r, s, value) ==
  /\ value = Missing => s \in Removable /\ settings[s] # Missing
  /\ settings[s] = Missing => s \in Months
  /\ Open(r, "edit", NoPlan, [x \in {s} |-> value])

EditCommits(r) ==
  /\ requests[r].op = "edit" /\ ~Waiting(r)
  /\ settings' = Written(r)
  /\ Close(r)
  /\ UNCHANGED <<plans, expired, executions>>

(* Twenty-four hours. *)
Expire(p) ==
  /\ plans[p].status = "draft" /\ p \notin expired
  /\ expired' = expired \cup {p}
  /\ UNCHANGED <<settings, plans, executions, requests>>

(* Deleting a conversation deletes its plan and what is recorded about it. *)
DeleteConversation(p) ==
  /\ plans[p].status \notin {"none", "deleted"}
  /\ plans' = [plans EXCEPT ![p] = [NoDraft(p) EXCEPT !.status = "deleted"]]
  /\ executions' = [executions EXCEPT ![p] = [apply |-> 0, undo |-> 0]]
  /\ expired' = expired \ {p}
  /\ UNCHANGED <<settings, requests>>

-----------------------------------------------------------------------------
Init ==
  /\ settings \in {view \in Kept : \A s \in Settings \ Months : view[s] # Missing}
  /\ plans = [p \in Plans |-> NoDraft(p)]
  /\ expired = {}
  /\ executions = [p \in Plans |-> [apply |-> 0, undo |-> 0]]
  /\ requests = [r \in Requests |-> Idle]

Starts(r) ==
  \/ \E p \in Plans : CreateBegins(r, p) \/ ApplyBegins(r, p) \/ RejectBegins(r, p) \/ UndoBegins(r, p)
  \/ \E s \in Settings, value \in Values \cup {Missing} : EditBegins(r, s, value)

Advances(r) ==
  \/ \E s \in Settings : Write(r, s) \/ WriteFails(r, s) \/ GiveUp(r, s)
  \/ CreateCommits(r) \/ Decide(r) \/ DecideFails(r) \/ EditCommits(r)

Next ==
  \/ \E r \in Requests : Starts(r) \/ Advances(r) \/ Abandon(r)
  \/ \E p \in Plans : Expire(p) \/ DeleteConversation(p)

Spec == Init /\ [][Next]_vars

(* A running request goes on, or waits for a lock until it is granted or   *)
(* the wait is ended.                                                      *)
FairSpec == Spec /\ \A r \in Requests : WF_vars(Advances(r))

(* One person who waits for each answer, as the pages do that disable      *)
(* their buttons: requests overlap only if they have nothing in common.    *)
Touched(r) == DOMAIN requests[r].new
Polite ==
  \A q, r \in Requests :
    q # r => /\ Touched(q) \cap Touched(r) = {}
             /\ requests[q].plan = NoPlan \/ requests[q].plan # requests[r].plan

PoliteSpec == Init /\ [][Next /\ Polite']_vars

-----------------------------------------------------------------------------
(* Properties.                                                             *)

TypeOK ==
  /\ settings \in Kept
  /\ DOMAIN plans = Plans
  /\ \A p \in Plans :
       /\ plans[p].status \in Statuses
       /\ plans[p].before \in [Reach(p) -> Values \cup {Missing}]
  /\ expired \subseteq Plans
  /\ executions \in [Plans -> [apply : Nat, undo : Nat]]
  /\ \A r \in Requests :
       /\ requests[r].op \in Operations \cup {"idle"}
       /\ requests[r].plan \in Plans \cup {NoPlan}
       /\ requests[r].seen \in [DOMAIN requests[r].new -> Values \cup {Missing}]
       /\ requests[r].held \subseteq DOMAIN requests[r].new
       /\ requests[r].todo \subseteq DOMAIN requests[r].new

(* Every request is answered: though an undo locks its rows in another     *)
(* order than the actions of a plan, nobody waits for ever.                *)
RequestsEnd == \A r \in Requests : requests[r] # Idle ~> requests[r] = Idle

(* With one person who waits for the answers, plans behave as promised:    *)
(* whatever row-by-row writes, refusals, failures and restarts happen, a   *)
(* plan is applied and undone in one step and against the right settings.  *)
Lifecycle == INSTANCE PlanLifecycle WITH settings <- settings, plans <- plans
ImplementsLifecycle == Lifecycle!Spec

(* ... and the execution history says what the status says. *)
HistoryAgrees ==
  \A p \in Plans :
    /\ executions[p].apply = IF plans[p].status \in {"applied", "undone"} THEN 1 ELSE 0
    /\ executions[p].undo = IF plans[p].status = "undone" THEN 1 ELSE 0

(* Whatever overlaps, a plan is applied whole or not at all: when its      *)
(* status becomes applied, every setting it changes has the wanted value   *)
(* (the row-by-row flushes of _apply_actions against refused and failing   *)
(* writes).                                                                *)
NoPartOfAPlan ==
  [][\A p \in Plans :
       plans[p].status # "applied" /\ plans'[p].status = "applied"
         => \A s \in Reach(p) : s \in Months \/ plans[p].before[s] # Wants[p][s]
                                  => settings'[s] = Wants[p][s]]_vars

(* README.md 521 and 523: the preconditions are checked again, so that a   *)
(* plan cannot overwrite changes made after it was generated, and an undo  *)
(* refuses to overwrite newer manual edits.                                *)
NewerChangesSurvive ==
  [][\A p \in Plans :
       /\ plans[p].status = "draft" /\ plans'[p].status = "applied"
            => Reached(p, settings) = plans[p].before
       /\ plans[p].status = "applied" /\ plans'[p].status = "undone"
            => Reached(p, settings) = Wants[p]]_vars
==============================================================================
