------------------------------ MODULE MoneyViews ------------------------------
(***************************************************************************)
(* The same transactions summed up for five pages: the dashboard           *)
(* (services/finance.py), the cash flow map (cash_flow.py), the reports    *)
(* (reports.py), the trends (trends.py) and the budget of a month or year  *)
(* (budget_planning.py).                                                   *)
(***************************************************************************)
EXTENDS TransactionRules, FiniteSets, Functions

CONSTANTS
  Month,     \* of each transaction
  Merchant,  \* of each transaction
  Foreign,   \* transactions on accounts in another currency than the user's
  Special,   \* the categories debt_payments and savings
  Place,     \* of the label of a merchant or category in the alphabet
  Shown      \* sources and categories the map has room for: 7

ViewsAssumption ==
  /\ IsFiniteSet(Txns) /\ Month \in [Txns -> Nat] /\ DOMAIN Merchant = Txns
  /\ Foreign \subseteq Txns /\ Shown \in Nat
ASSUME ViewsAssumption

MonthsOfYear == {Month[t] : t \in Txns}

Total(S) == MapThenSumSet(LAMBDA t : entry[t].amount, S)
Counted(S) == {t \in S : ~mark[t].excluded /\ EffectiveKind(t) # "transfer"}
OfKind(S, kind) == {t \in Counted(S) : EffectiveKind(t) = kind}
Spent(S) == -Total(OfKind(S, "expense") \cup OfKind(S, "refund"))
InMonth(m) == {t \in Present : Month[t] = m}
InCurrency(S) == S \ Foreign

-----------------------------------------------------------------------------
(* finance.py dashboard_data.                                              *)

Dashboard(m) ==
  LET S == InCurrency(InMonth(m))
      spending == OfKind(S, "expense") \cup OfKind(S, "refund")
  IN [income     |-> Total(OfKind(S, "income")),
      spending   |-> Spent(S),
      daily      |-> Total(Counted(S)),
      categories |-> [c \in {EffectiveCategory(t) : t \in spending} |->
                       Spent({t \in spending : EffectiveCategory(t) = c})]]

ReportSeriesWithoutRefunds(months) ==
  [m \in months |-> LET S == InCurrency(InMonth(m))
                    IN [income |-> Total(OfKind(S, "income")), spending |-> -Total(OfKind(S, "expense"))]]
(* reports.py _transaction_metrics: the totals, and the series by month.   *)
ReportSeries(months) ==
  [m \in months |-> LET S == InCurrency(InMonth(m)) IN [income |-> Total(OfKind(S, "income")), spending |-> Spent(S)]]
ReportTotals(months) ==
  LET S == InCurrency(UNION {InMonth(m) : m \in months})
  IN [income |-> Total(OfKind(S, "income")), spending |-> Spent(S)]

(* trends.py _cash_flow_series: posted only, and no month spends less than *)
(* nothing.                                                                *)
TrendSeries(months) ==
  [m \in months |->
    LET S == {t \in InCurrency(InMonth(m)) : ~entry[t].pending}
    IN [income |-> Total(OfKind(S, "income")), spending |-> Max({Spent(S), 0})]]

(* budget_planning.py _month_actuals: every currency, and no category for  *)
(* what has none.                                                          *)
MonthActuals(m) ==
  LET S == InMonth(m)
      categorized == {t \in OfKind(S, "expense") \cup OfKind(S, "refund") : EffectiveCategory(t) # None}
  IN [income   |-> Total(OfKind(S, "income")),
      spending |-> Spent(S),
      by       |-> [c \in {EffectiveCategory(t) : t \in categorized} |->
                     Spent({t \in categorized : EffectiveCategory(t) = c})]]

(* year_budget_view: the same for all months, without what has no category. *)
YearActuals ==
  LET S == {t \in Present : EffectiveCategory(t) # None}
  IN [income |-> Total(OfKind(Present, "income")), spending |-> Spent(S)]

(* reports_budget shows both, month by month and for the year. *)
BudgetReport == [months |-> [m \in MonthsOfYear |-> MonthActuals(m).spending], year |-> YearActuals.spending]

-----------------------------------------------------------------------------
(* cash_flow.py _aggregate and the map of cash_flow_sankey.                *)

Expenses(S) == {t \in OfKind(S, "expense") : entry[t].amount < 0}
Flow(S) ==
  LET income == Total(OfKind(S, "income"))
      refunds == Total(OfKind(S, "refund"))
      spending == -Total(Expenses(S))
  IN [income |-> income, refunds |-> refunds, inflow |-> income + refunds, spending |-> spending,
      retained |-> Max({income + refunds - spending, 0}), shortfall |-> Max({spending - income - refunds, 0})]

Sources(S) ==
  [l \in {Merchant[t] : t \in OfKind(S, "income")} |-> Total({t \in OfKind(S, "income") : Merchant[t] = l})]
Outlets(S) ==
  [c \in {EffectiveCategory(t) : t \in Expenses(S)} |-> -Total({t \in Expenses(S) : EffectiveCategory(t) = c})]

(* The largest ones have their own ribbon, the others share one. *)
Ahead(amounts, a, b) == amounts[a] > amounts[b] \/ (amounts[a] = amounts[b] /\ Place[a] < Place[b])
Overflow(amounts, S) == {l \in S : Cardinality({a \in S : Ahead(amounts, a, l)}) >= Shown}
RibbonsOfShown(amounts, always) ==
  LET others == Overflow(amounts, DOMAIN amounts \ always)
  IN [shown |-> [l \in DOMAIN amounts \ others |-> amounts[l]], others |-> 0]
Ribbons(amounts, always) ==
  LET others == Overflow(amounts, DOMAIN amounts \ always)
  IN [shown |-> [l \in DOMAIN amounts \ others |-> amounts[l]], others |-> MapThenSumSet(LAMBDA l : amounts[l], others)]
Width(ribbons) == SumFunction(ribbons.shown) + ribbons.others

CashIn(S) ==
  Width(Ribbons(Sources(S), {})) + (IF Flow(S).refunds > 0 THEN Flow(S).refunds ELSE 0) + Flow(S).shortfall
CashOut(S) == Width(Ribbons(Outlets(S), Special)) + Flow(S).retained

-----------------------------------------------------------------------------
(* Properties.                                                             *)

(* README.md 647: the map is a conserved flow, whatever was overridden and *)
(* whatever has no ribbon of its own, unless an override calls an outflow  *)
(* a refund: negative refunds get no ribbon.                               *)
FlowConserved ==
  \A m \in MonthsOfYear :
    LET S == InCurrency(InMonth(m))
    IN Flow(S).refunds >= 0 =>
         /\ CashIn(S) = CashOut(S)
         /\ CashOut(S) = Max({Flow(S).inflow, Flow(S).spending})

(* Months add up to the year, of reports and of the budget, whose year     *)
(* leaves out what has no category.                                        *)
MonthsMakeTheYear ==
  LET series == ReportSeries(MonthsOfYear)
      months == [m \in MonthsOfYear |-> MonthActuals(m)]
      uncategorized == {t \in Present : EffectiveCategory(t) = None}
  IN /\ ReportTotals(MonthsOfYear).income = MapThenSumSet(LAMBDA m : series[m].income, MonthsOfYear)
     /\ ReportTotals(MonthsOfYear).spending = MapThenSumSet(LAMBDA m : series[m].spending, MonthsOfYear)
     /\ BudgetReport.year = SumFunction(BudgetReport.months) - Spent(uncategorized)
     /\ YearActuals.spending = MapThenSumSet(LAMBDA m : SumFunction(months[m].by), MonthsOfYear)

(* The pages agree on the same money.  The exceptions are the ones the     *)
(* code makes: the map does not know an expense above zero, trends leave   *)
(* out what is pending, and the budget counts every currency.              *)
ViewsAgree ==
  /\ MonthsMakeTheYear /\ FlowConserved
  /\ \A m \in MonthsOfYear :
       LET page == Dashboard(m)
           S == InCurrency(InMonth(m))
           figures == [income |-> page.income, spending |-> page.spending]
       IN /\ page.income - page.spending = page.daily
          /\ SumFunction(page.categories) = page.spending
          /\ ReportSeries({m})[m] = figures
          /\ (\A t \in OfKind(S, "expense") : entry[t].amount <= 0)
               => Flow(S).inflow - Flow(S).spending = page.daily
          /\ (\A t \in S : ~entry[t].pending) /\ page.spending >= 0 => TrendSeries({m})[m] = figures
          /\ InMonth(m) \cap Foreign = {} =>
               /\ MonthActuals(m).income = page.income /\ MonthActuals(m).spending = page.spending
               /\ \A c \in DOMAIN MonthActuals(m).by : MonthActuals(m).by[c] = page.categories[c]
=============================================================================
