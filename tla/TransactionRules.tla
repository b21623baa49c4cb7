--------------------------- MODULE TransactionRules ---------------------------
(***************************************************************************)
(* How a transaction is interpreted: what the provider or its owner said,  *)
(* the user's overrides and the user's rules (services/                    *)
(* transaction_intelligence.py, manual_finance.py and the upsert of        *)
(* plaid_transactions.py).                                                 *)
(*                                                                         *)
(* A mark holds the columns beside the stored ones that change the         *)
(* interpretation; the displayed merchant is treated like the category.    *)
(***************************************************************************)
EXTENDS Integers, FiniteSetsExt

CONSTANTS
  Txns,     \* transactions, under the identifier the provider gives them
  Manual,   \* those entered or imported by hand
  Entries,  \* what may be said about each: amount, kind, category, pending
  Rules,    \* numbered in the order of their priority
  Matches,  \* the transactions whose merchant or description a rule names
  Effects,  \* the mark a rule gives
  Overrides,\* what a user sets or takes back: some fields of a mark
  None

Kinds == {"income", "expense", "transfer", "refund"}
Marks == [category : Nat \cup {None}, kind : Kinds \cup {None}, excluded : BOOLEAN]
Unmarked == [category |-> None, kind |-> None, excluded |-> FALSE]

(* A request changes the fields it has. *)
Chosen(m, choice) == [field \in DOMAIN m |-> IF field \in DOMAIN choice THEN choice[field] ELSE m[field]]

RulesAssumption ==
  /\ Manual \subseteq Txns /\ Rules \subseteq Nat
  /\ None \notin Nat /\ \A t \in Txns : None \notin Entries[t]
  /\ Entries \in [Txns -> SUBSET [amount : Int, kind : Kinds, category : Nat \cup {None}, pending : BOOLEAN]]
  /\ Matches \in [Rules -> SUBSET Txns]
  /\ Effects \in [Rules -> Marks]
  /\ \A choice \in Overrides : Chosen(Unmarked, choice) \in Marks
ASSUME RulesAssumption

VARIABLES
  entry,   \* the stored transactions, None for those that do not exist
  mark,    \* category override, kind override, excluded
  byRule,  \* the rule that set the mark
  rules    \* the rules that exist

ruleVars == <<entry, mark, byRule, rules>>

Present == {t \in Txns : entry[t] # None}

(* _kind of plaid_transactions.py and validate_transaction_sign: what may  *)
(* be stored has the sign of its kind.  An override is not checked again.  *)
SignFits(e) ==
  /\ e.kind \in {"income", "refund"} => e.amount >= 0
  /\ e.kind = "expense" => e.amount <= 0

-----------------------------------------------------------------------------
(* What the views read.                                                    *)

EffectiveKind(t) == IF mark[t].kind # None THEN mark[t].kind ELSE entry[t].kind
EffectiveCategory(t) == IF mark[t].category # None THEN mark[t].category ELSE entry[t].category

-----------------------------------------------------------------------------
(* apply_rules_to_transaction, against the rules in R.                     *)

Tuned(m, r) == r = None /\ m # Unmarked
Matching(t, R) == {r \in R : t \in Matches[r]}

RuleForOnce(t, m, r, R) ==
  IF Tuned(m, r) THEN None
  ELSE IF r # None THEN r
  ELSE IF Matching(t, R) = {} THEN None ELSE Min(Matching(t, R))
RuleFor(t, m, r, R) ==
  IF Tuned(m, r) \/ Matching(t, R) = {} THEN None ELSE Min(Matching(t, R))
MarkForAll(t, m, r, R) ==
  IF Matching(t, R) = {} THEN Unmarked ELSE Effects[Min(Matching(t, R))]
MarkFor(t, m, r, R) ==
  IF Tuned(m, r) THEN m
  ELSE IF Matching(t, R) = {} THEN Unmarked ELSE Effects[Min(Matching(t, R))]

(* Only the provider's transactions are interpreted by rules. *)
Reapply(m, r, R) ==
  LET automatic == Present \ Manual
  IN /\ mark' = [t \in Txns |-> IF t \in automatic THEN MarkFor(t, m[t], r[t], R) ELSE m[t]]
     /\ byRule' = [t \in Txns |-> IF t \in automatic THEN RuleFor(t, m[t], r[t], R) ELSE r[t]]

-----------------------------------------------------------------------------
(* The operations.                                                         *)

(* The upsert of a synchronization.  A posted transaction has another      *)
(* identifier than the pending one it replaces: the pending row is deleted *)
(* and with it what the user made of it.                                   *)
Replaces(t, e) == entry[t] # None /\ entry[t].pending /\ ~e.pending
Sync(t) ==
  /\ t \notin Manual
  /\ \E e \in Entries[t] :
       LET anew == entry[t] = None \/ Replaces(t, e)
           m == IF anew THEN Unmarked ELSE mark[t]
           r == IF anew THEN None ELSE byRule[t]
       IN /\ SignFits(e)
          /\ entry' = [entry EXCEPT ![t] = e]
          /\ mark' = [mark EXCEPT ![t] = MarkFor(t, m, r, rules)]
          /\ byRule' = [byRule EXCEPT ![t] = RuleFor(t, m, r, rules)]
  /\ UNCHANGED rules

(* create_manual_transaction and update_manual_transaction. *)
Enter(t) ==
  /\ t \in Manual
  /\ \E e \in Entries[t] : SignFits(e) /\ entry' = [entry EXCEPT ![t] = e]
  /\ UNCHANGED <<mark, byRule, rules>>

(* delete_manual_transaction, or the provider removes it. *)
DeleteTransaction(t) ==
  /\ t \in Present
  /\ entry' = [entry EXCEPT ![t] = None]
  /\ mark' = [mark EXCEPT ![t] = Unmarked]
  /\ byRule' = [byRule EXCEPT ![t] = None]
  /\ UNCHANGED rules

(* override_transaction: the fields the request has, and no rule any more. *)
OverrideTransaction(t) ==
  /\ t \in Present
  /\ \E choice \in Overrides :
       mark' = [mark EXCEPT ![t] = Chosen(@, choice)]
  /\ byRule' = [byRule EXCEPT ![t] = None]
  /\ UNCHANGED <<entry, rules>>

CreateRule(r) ==
  /\ r \notin rules
  /\ rules' = rules \cup {r}
  /\ Reapply(mark, byRule, rules')
  /\ UNCHANGED entry

DeleteRule(r) ==
  /\ r \in rules
  /\ rules' = rules \ {r}
  /\ LET affected == {t \in Present : byRule[t] = r}
     IN Reapply([t \in Txns |-> IF t \in affected THEN Unmarked ELSE mark[t]],
                [t \in Txns |-> IF t \in affected THEN None ELSE byRule[t]], rules')
  /\ UNCHANGED entry

RulesInit ==
  /\ entry = [t \in Txns |-> None]
  /\ mark = [t \in Txns |-> Unmarked]
  /\ byRule = [t \in Txns |-> None]
  /\ rules = {}

RulesNext ==
  \/ \E t \in Txns : Sync(t) \/ Enter(t) \/ DeleteTransaction(t) \/ OverrideTransaction(t)
  \/ \E r \in Rules : CreateRule(r) \/ DeleteRule(r)

RulesSpec == RulesInit /\ [][RulesNext]_ruleVars

-----------------------------------------------------------------------------
(* Properties.                                                             *)

(* What automation made of a transaction is what the rules that exist now  *)
(* make of it: the first one that matches, and no rule that was deleted or *)
(* overtaken by a later one (create_rule, delete_rule and the upsert).     *)
RulesAreCurrent ==
  \A t \in Txns : byRule[t] # None =>
    /\ t \in Present \ Manual
    /\ byRule[t] \in rules /\ byRule[t] = Min(Matching(t, rules))
    /\ mark[t] = Effects[byRule[t]]

(* docs/ARCHITECTURE.md 204: what a user tuned stays as it is, whatever    *)
(* rules are created or deleted, matched it once or match it now, and      *)
(* whatever the provider changes, until the row itself is replaced.        *)
TunedStays ==
  [][\A t \in Txns :
       /\ Tuned(mark[t], byRule[t])
       /\ \/ rules' # rules
          \/ entry' # entry /\ entry'[t] # None /\ ~Replaces(t, entry'[t])
       => mark'[t] = mark[t]]_ruleVars
=============================================================================
