--------------------------- MODULE MCAdvisorPlans ---------------------------
(* Small instances of AdvisorPlans. *)
EXTENDS AdvisorPlans, TLC

CONSTANTS goal, july,  \* settings: july is the budget of a month
          save, cut,         \* plans
          tabOne, tabTwo     \* requests

(* save reaches every setting, cut only the month's budget. *)
MCWants == [p \in Plans |-> IF p = save THEN [s \in Settings |-> 1] ELSE [s \in {july} |-> 2]]
MCOrder == [p \in Plans |-> [s \in DOMAIN MCWants[p] |-> IF s = goal THEN 1 ELSE 2]]
MCUndoOrder == [s \in Settings |-> IF s = july THEN 1 ELSE 2]

Tabs == Permutations(Requests)
============================================================================
