---------------------------- MODULE BudgetPlanning ----------------------------
(***************************************************************************)
(* The budget of one year: services/budget_planning.py.  The annual plan   *)
(* gives every month a base; a month may override it or stand alone, and   *)
(* what a category leaves over is carried from month to month.  Amounts    *)
(* are integers in units of 0.0001, the precision of the columns.  The     *)
(* planned income, which nothing is carried of, is left out.               *)
(*                                                                         *)
(* A few operators have a wrong sibling, defined just before them and      *)
(* used nowhere, that stands for a bug in the code; so in the other        *)
(* modules of the planning pages.                                          *)
(***************************************************************************)
EXTENDS Integers, FiniteSets, FiniteSetsExt, Functions

CONSTANTS
  Categories,
  YearLength,   \* months of a year: 12
  Amounts,      \* amounts that are entered
  Totals,       \* annual amounts that are entered
  Customs,      \* twelve amounts that are entered
  Spending,     \* changes of what is spent in a month: expenses, refunds
  MaxBudgets,   \* bound: months with a budget of their own
  Absent

BudgetAssumption ==
  /\ YearLength \in Nat \ {0}
  /\ Amounts \subseteq Nat /\ Totals \subseteq Nat /\ Customs \subseteq [1 .. YearLength -> Nat]
  /\ Spending \subseteq Int /\ MaxBudgets \in Nat
  /\ Absent \notin Int
ASSUME BudgetAssumption

VARIABLES
  plan,    \* annual_budget_plans with its categories
  months,  \* monthly_budgets with their categories
  spent    \* transactions of the year, by month and category

budgetVars == <<plan, months, spent>>

Months == 1 .. YearLength
Modes == {"off", "surplus", "surplus_and_deficit"}
PartOf(S, T) == UNION {[part -> T] : part \in SUBSET S}

(* The rows of a plan, as put_annual_plan accepts and stores them. *)
Lines ==
  LET line(distribution, total, monthly, custom) ==
        {[distribution |-> distribution, total |-> total, monthly |-> monthly, custom |-> custom, mode |-> mode] : mode \in Modes}
  IN UNION ({line("even", a, Absent, Absent) : a \in Totals}
      \cup {line("monthly", YearLength * a, a, Absent) : a \in Amounts}
      \cup {line("custom", SumFunction(c), Absent, c) : c \in Customs})
Rows == [amount : Amounts, mode : Modes]

Down(a, n) == a \div n
HalfUp(a, n) == (2 * a + n) \div (2 * n)

-----------------------------------------------------------------------------
(* What is planned for a month before anything is carried.                 *)

AnnualBase(m) ==
  IF plan = Absent THEN <<>>
  ELSE [c \in DOMAIN plan |->
         [amount |-> CASE plan[c].distribution = "even"    -> HalfUp(plan[c].total, YearLength)
                       [] plan[c].distribution = "monthly" -> plan[c].monthly
                       [] plan[c].distribution = "custom"  -> plan[c].custom[m],
          mode   |-> plan[c].mode]]

MonthBase(m) ==
  CASE months[m] = Absent              -> AnnualBase(m)
    [] months[m] # Absent /\ months[m].mode = "standalone" -> months[m].rows
    [] OTHER -> [c \in DOMAIN months[m].rows \cup DOMAIN AnnualBase(m) |->
                  IF c \in DOMAIN months[m].rows THEN months[m].rows[c] ELSE AnnualBase(m)[c]]

Unplanned(m) == months[m] = Absent /\ plan = Absent

-----------------------------------------------------------------------------
(* Rollover.  Each month starts from the last one only: a category that is *)
(* not budgeted, or does not roll over, starts again from nothing.         *)

CarriedAlways(config, carries, actuals) ==
  [c \in DOMAIN config |-> config[c].amount + carries[c] - actuals[c]]
CarriedOn(config, carries, actuals) ==
  [c \in {d \in DOMAIN config : config[d].mode # "off"} |->
    LET delta == config[c].amount + carries[c] - actuals[c]
    IN IF config[c].mode = "surplus" THEN Max({delta, 0}) ELSE delta]

Carries ==
  LET into[m \in Months] ==
        LET carried == IF m = 1 THEN <<>>
                       ELSE CarriedOn(MonthBase(m - 1), into[m - 1], spent[m - 1])
        IN [c \in DOMAIN MonthBase(m) |-> IF c \in DOMAIN carried THEN carried[c] ELSE 0]
  IN into

-----------------------------------------------------------------------------
(* The requests of api/budget.py.                                          *)

PutAnnualPlan ==
  /\ plan' \in PartOf(Categories, Lines)
  /\ UNCHANGED <<months, spent>>

MayHaveBudget(m) == Cardinality({m} \cup {k \in Months : months[k] # Absent}) <= MaxBudgets

PutMonthlyBudget(m) ==
  /\ MayHaveBudget(m)
  /\ \E mode \in {"standalone", "override"}, rows \in PartOf(Categories, Rows) :
       /\ mode = "override" => plan # Absent
       /\ months' = [months EXCEPT ![m] = [mode |-> mode, rows |-> rows]]
  /\ UNCHANGED <<plan, spent>>

DeleteMonthlyBudget(m) ==
  /\ months' = [months EXCEPT ![m] = Absent]
  /\ UNCHANGED <<plan, spent>>

(* The base is copied, not what was carried.  January copies the December  *)
(* of another year, which is outside the model.                            *)
CopyPreviousMonth(m) ==
  /\ m > 1 /\ MayHaveBudget(m)
  /\ ~(Unplanned(m - 1) /\ DOMAIN MonthBase(m - 1) = {})
  /\ months' = [months EXCEPT ![m] = [mode |-> "standalone", rows |-> MonthBase(m - 1)]]
  /\ UNCHANGED <<plan, spent>>

(* A transaction appears; the bound is one change in each month. *)
Spend(m) ==
  /\ spent[m] = [c \in Categories |-> 0]
  /\ \E c \in Categories, x \in Spending : spent' = [spent EXCEPT ![m][c] = x]
  /\ UNCHANGED <<plan, months>>

BudgetInit ==
  /\ plan = Absent
  /\ months = [m \in Months |-> Absent]
  /\ spent = [m \in Months |-> [c \in Categories |-> 0]]

BudgetNext ==
  \/ PutAnnualPlan
  \/ \E m \in Months : PutMonthlyBudget(m) \/ DeleteMonthlyBudget(m) \/ CopyPreviousMonth(m) \/ Spend(m)

BudgetSpec == BudgetInit /\ [][BudgetNext]_budgetVars

-----------------------------------------------------------------------------
(* Properties.                                                             *)

(* What a category carries into a month follows from all months before it: *)
(* since the last month that did not roll it over, everything budgeted and *)
(* not spent, where each month that only carries surpluses may forget what *)
(* came before and starts from zero at worst (README.md 382, 383).         *)
Rolls(m, c) == c \in DOMAIN MonthBase(m) /\ MonthBase(m)[c].mode # "off"
LeftOver(c, from, to) ==
  MapThenSumSet(LAMBDA m : MonthBase(m)[c].amount - spent[m][c], from .. to)
CarryAccountsForMonths ==
  \A m \in Months : \A c \in DOMAIN MonthBase(m) :
    LET start == Max({0} \cup {k \in 1 .. m - 1 : ~Rolls(k, c)})
        fresh == {k \in start + 1 .. m - 1 : MonthBase(k)[c].mode = "surplus"}
    IN Carries[m][c] = Max({LeftOver(c, k + 1, m - 1) : k \in fresh \cup {start}})

(* A year's plan without exceptions budgets what the plan says: exactly,   *)
(* or up to half a unit per month where a total is divided evenly.         *)
MonthsAddUp ==
  plan # Absent /\ months = [m \in Months |-> Absent] =>
    \A c \in DOMAIN plan :
      LET off == MapThenSumSet(LAMBDA m : MonthBase(m)[c].amount, Months) - plan[c].total
      IN IF plan[c].distribution = "even" THEN 2 * off \in -YearLength .. YearLength ELSE off = 0

(* No money appears or is lost between a plan and its months, nor between  *)
(* one month and the next (budget_planning.py:252-300, :461-512).          *)
BudgetAddsUp == MonthsAddUp /\ CarryAccountsForMonths

==============================================================================
