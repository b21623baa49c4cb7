----------------------------- MODULE CashForecast -----------------------------
(***************************************************************************)
(* What is left to spend: goals, the 30/60/90-day forecast with its        *)
(* scenarios (services/financial_planning.py) and the safe-to-spend figure *)
(* of the month (budget_planning.py).  All of them set money aside for the *)
(* same obligations from different sources.                                *)
(***************************************************************************)
EXTENDS Integers, FiniteSets, FiniteSetsExt

CONSTANTS
  Goals,
  GoalStates,  \* what is entered of a goal: target, current, monthly, link
  Accounts,    \* depository and investment accounts
  Liquid,      \* the depository ones
  Balances,    \* balances accounts may have
  Budgets,     \* what a budget of 30 days says: income, general, savings, debt
  Patterns,    \* recurring streams of 30 days: income, outgo
  Payments,    \* monthly payments of debts that are owed
  Scenarios,   \* what-if requests: extra, goal, cut, added
  Unlinked,
  NoGoal

ForecastAssumption ==
  /\ IsFiniteSet(Goals) /\ NoGoal \notin GoalStates
  /\ IsFiniteSet(Accounts) /\ Liquid \subseteq Accounts /\ Balances \subseteq Int
  /\ GoalStates \subseteq [target : Nat, current : Nat, monthly : Nat, link : Accounts \cup {Unlinked}]
  /\ Budgets \subseteq [income : Nat, general : Nat, savings : Nat, debt : Nat]
  /\ Patterns \subseteq [income : Nat, outgo : Nat]
  /\ Payments \subseteq Nat
  /\ Scenarios \subseteq [extra : Nat, goal : Int, cut : Nat, added : Nat]
ASSUME ForecastAssumption

VARIABLES
  goals,     \* financial_goals
  balance,   \* of each account
  budget,    \* the budget of the days to come
  patterns,  \* the detected streams
  payments,  \* debt payments of a month
  withPlan   \* include_budget_reserve

forecastVars == <<goals, balance, budget, patterns, payments, withPlan>>

Periods == {1, 2, 3}  \* of 30 days
NoChange == [extra |-> 0, goal |-> 0, cut |-> 0, added |-> 0]
Larger(a, b) == IF a > b THEN a ELSE b
Above(a) == Larger(a, 0)

-----------------------------------------------------------------------------
(* Goals.                                                                  *)

Active == {g \in Goals : goals[g] # NoGoal}
Linked == {g \in Active : goals[g].link # Unlinked}
GoalCurrent(g) == IF g \in Linked THEN Above(balance[goals[g].link]) ELSE goals[g].current
Unreached == {g \in Active : GoalCurrent(g) < goals[g].target}

CashAvailable == MapThenSumSet(LAMBDA a : balance[a], Liquid)
GoalReserves == MapThenSumSet(LAMBDA g : Min({GoalCurrent(g), goals[g].target}), Linked)
SpendableCash == CashAvailable - GoalReserves
MonthlyGoals == MapThenSumSet(LAMBDA g : goals[g].monthly, Unreached)

-----------------------------------------------------------------------------
(* forecast_view: n periods ahead, under a scenario.                       *)

Income(n) == n * IF patterns.income > 0 THEN patterns.income ELSE budget.income
Outgo(n) == n * patterns.outgo
DebtPayments(n, s) == IF payments = 0 THEN 0 ELSE n * (payments + s.extra)
Contributions(n, s) == n * Above(MonthlyGoals + s.goal)

BudgetReserveWhole(n, s) ==
  IF ~withPlan THEN 0
  ELSE Above(Above(n * budget.general - Outgo(n)) - n * s.cut) + n * budget.savings + n * budget.debt
BudgetReserve(n, s) ==
  IF ~withPlan THEN 0
  ELSE Above(Above(n * budget.general - Outgo(n)) - n * s.cut)
       + Above(n * budget.savings - Contributions(n, s))
       + Above(n * budget.debt - DebtPayments(n, s))

Projected(n, s) ==
  SpendableCash + Income(n) - Outgo(n) - BudgetReserve(n, s) - DebtPayments(n, s) - Contributions(n, s) - n * s.added

(* The month's figure, with nothing spent yet: month_budget_view.  (It     *)
(* also counts the strategy's extra budget when nothing is owed.)          *)
RemainingPlanned == budget.general + budget.savings + budget.debt
Commitments == Above(MonthlyGoals - budget.savings) + Above(payments - budget.debt)
SafeToSpend == CashAvailable - (Larger(RemainingPlanned, patterns.outgo) + Commitments + GoalReserves)

-----------------------------------------------------------------------------
(* The requests of api/planning.py and what changes around them.           *)

(* One goal for an account: uq_financial_goal_linked_account. *)
PutGoal(g) ==
  /\ \E state \in GoalStates :
       /\ \A other \in Linked \ {g} : goals[other].link # state.link
       /\ goals' = [goals EXCEPT ![g] = state]
  /\ UNCHANGED <<balance, budget, patterns, payments, withPlan>>

DeleteGoal(g) ==
  /\ g \in Active
  /\ goals' = [goals EXCEPT ![g] = NoGoal]
  /\ UNCHANGED <<balance, budget, patterns, payments, withPlan>>

PutAssumptions ==
  /\ withPlan' = ~withPlan
  /\ UNCHANGED <<goals, balance, budget, patterns, payments>>

DebtsChange ==
  /\ payments' \in Payments
  /\ UNCHANGED <<goals, balance, budget, patterns, withPlan>>

BudgetChanges ==
  /\ budget' \in Budgets
  /\ UNCHANGED <<goals, balance, patterns, payments, withPlan>>

AccountsAreRead ==
  /\ \E a \in Accounts, b \in Balances : balance' = [balance EXCEPT ![a] = b]
  /\ UNCHANGED <<goals, budget, patterns, payments, withPlan>>

StreamsAreRebuilt ==
  /\ patterns' \in Patterns
  /\ UNCHANGED <<goals, balance, budget, payments, withPlan>>

NothingKnown ==
  /\ goals = [g \in Goals |-> NoGoal]
  /\ balance = [a \in Accounts |-> 0]
  /\ budget = [income |-> 0, general |-> 0, savings |-> 0, debt |-> 0]
  /\ patterns = [income |-> 0, outgo |-> 0]
  /\ payments = 0

ForecastInit == NothingKnown /\ withPlan = TRUE

ForecastNext ==
  \/ \E g \in Goals : PutGoal(g) \/ DeleteGoal(g)
  \/ PutAssumptions \/ DebtsChange \/ BudgetChanges \/ AccountsAreRead \/ StreamsAreRebuilt

ForecastSpec == ForecastInit /\ [][ForecastNext]_forecastVars

-----------------------------------------------------------------------------
(* Properties.                                                             *)

(* README.md 390 and 418: an obligation that is known from two sources is  *)
(* set aside once, as the larger of what they say: recurring expenses and  *)
(* the general budget less what a scenario cuts, contributions and the     *)
(* savings budget, payments and the debt budget.                           *)
ForecastExact ==
  withPlan => \A n \in Periods, s \in Scenarios \cup {NoChange} :
    Projected(n, s) = SpendableCash + Income(n)
                      - Larger(n * budget.general - n * s.cut, Outgo(n))
                      - Larger(n * budget.savings, Contributions(n, s))
                      - Larger(n * budget.debt, DebtPayments(n, s))
                      - n * s.added

(* README.md 389: safe-to-spend is conservative.  What it leaves is there  *)
(* after the recurring expenses, contributions and payments to come, as    *)
(* long as the recurring expenses fit into the general budget: otherwise   *)
(* the savings and debt budgets, which count as set aside, are not.        *)
SafeIsSafe ==
  patterns.outgo <= budget.general =>
    SafeToSpend <= CashAvailable - GoalReserves - patterns.outgo - MonthlyGoals - payments

(* Both figures count every obligation, and none of them twice.            *)
NothingCountedTwice == ForecastExact /\ SafeIsSafe
===============================================================================
