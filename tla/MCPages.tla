------------------------------- MODULE MCPages -------------------------------
(***************************************************************************)
(* Small instances of the planning pages, of the server process behind     *)
(* them and of the minute job beside it.  They share no state but what     *)
(* each of them takes as an input, so a behaviour is about one of them and *)
(* the others stay as they began.                                          *)
(***************************************************************************)
EXTENDS BudgetPlanning, DebtPayoff, MoneyViews, CashCalendar, CashForecast, SyncRuns, ServerPool

CONSTANTS coffee, refund, euros, q1, q2, plaid

VARIABLE page

Pages == {"budget", "debts", "views", "calendar", "forecast", "minute", "server"}

(* A year of three months. *)
MCCustoms == {<<0, 2, 5>>}

(* A unit is 24^4: the interest of four months at 50 and 100 percent a     *)
(* year is exact.                                                          *)
MCUnit == 331776
MCDebt(owed, rate, minimum, earmarked) ==
  [balance |-> owed * MCUnit, rate |-> rate, minimum |-> minimum * MCUnit, earmarked |-> earmarked * MCUnit]
MCNoDebts == [extra |-> 0, debts |-> <<>>]
MCDebtPlans ==
  {MCNoDebts} \cup {[extra |-> extra * MCUnit, debts |-> <<MCDebt(a, r, m, 0), MCDebt(b, q, n, f), MCDebt(c, 2, 1, 0)>>] :
    extra \in 0 .. 1, a \in 1 .. 3, b \in {0, 2}, c \in {0, 3}, r \in 0 .. 1, q \in 0 .. 2, m \in 0 .. 1, n \in 0 .. 1, f \in 0 .. 1}

(* coffee is refunded a month later, euros is entered by hand *)
MCSays(amount, kind, category, unposted) == [amount |-> amount, kind |-> kind, category |-> category, pending |-> unposted]
MCEntries ==
  [t \in Txns |->
    CASE t = coffee -> {MCSays(-3, "expense", 1, TRUE), MCSays(-2, "expense", 1, FALSE)}
      [] t = refund -> {MCSays(2, "refund", 1, FALSE)}
      [] t = euros  -> {MCSays(-4, "expense", 2, FALSE), MCSays(4, "transfer", None, FALSE)}]
MCMonth == [t \in Txns |-> IF t = refund THEN 2 ELSE 1]
MCMerchant == [t \in Txns |-> IF t \in {coffee, refund} THEN 1 ELSE 2]
MCPlace == [l \in {1, 2, None} |-> IF l = None THEN 3 ELSE l]
MCMatches == <<{coffee, refund}, {coffee}>>
MCEffects == <<[category |-> 2, kind |-> "refund", excluded |-> FALSE], [category |-> None, kind |-> None, excluded |-> TRUE]>>
MCOverrides ==
  {[kind |-> "refund"], [kind |-> "expense", category |-> 1], [kind |-> None, excluded |-> TRUE], [excluded |-> FALSE, category |-> None]}

(* Months of a few days, two streams and two debts. *)
MCMonthLength == <<5, 4, 5>>
MCEvery == [s \in Streams |-> IF s = 1 THEN 6 ELSE 4]
MCImpact == [s \in Streams |-> IF s = 1 THEN -30 ELSE 40]
MCDueDay == [d \in DueDebts |-> IF d = 3 THEN 2 ELSE 5]
MCPayment == [d \in DueDebts |-> IF d = 3 THEN 30 ELSE 70]
MCHolds == [stream : {1}, date : {3, 6}] \cup [stream : {2}, date : {9}]

MCGoalStates ==
  {[target |-> 3, current |-> 1, monthly |-> 2, link |-> Unlinked],
   [target |-> 2, current |-> 0, monthly |-> 1, link |-> 1],
   [target |-> 2, current |-> 0, monthly |-> 3, link |-> 2]}
MCBudgets == [income : {3}, general : {0, 2}, savings : {0, 2}, debt : {1}]
MCPatterns == [income : {4}, outgo : {0, 1, 3}]
MCScenarios == [extra : {0, 2}, goal : {-1, 0, 1}, cut : {0, 1}, added : {0, 1}]

processVars == <<runVars, poolVars>>
Others(idle) == UNCHANGED idle /\ UNCHANGED page

(* The pages a behaviour is not about are at rest, in states that cost     *)
(* little: nothing owed, the last month over, no budget in the forecast.   *)
Init ==
  /\ page \in Pages
  /\ BudgetInit /\ RulesInit
  /\ DebtInit /\ (page # "debts" => debtPlan = MCNoDebts)
  /\ NothingDue /\ today = IF page = "calendar" THEN 1 ELSE LastDay + 1
  /\ NothingKnown /\ withPlan = (page = "forecast")
  /\ RunsInit /\ \A i \in Connected : item[i].late = (page = "minute")
  /\ PoolInit

Planning ==
  \/ page = "budget" /\ BudgetNext /\ Others(<<debtVars, ruleVars, calendarVars, forecastVars>>)
  \/ page = "debts" /\ PassMonth /\ Others(<<budgetVars, ruleVars, calendarVars, forecastVars>>)
  \/ page = "views" /\ RulesNext /\ Others(<<budgetVars, debtVars, calendarVars, forecastVars>>)
  \/ page = "calendar" /\ CalendarNext /\ Others(<<budgetVars, debtVars, ruleVars, forecastVars>>)
  \/ page = "forecast" /\ ForecastNext /\ Others(<<budgetVars, debtVars, ruleVars, calendarVars>>)

planningVars == <<budgetVars, debtVars, ruleVars, calendarVars, forecastVars>>
allVars == <<page, planningVars, processVars>>

OnMinute(step) == page = "minute" /\ step /\ Others(<<planningVars, poolVars>>)
OnServer(step) == page = "server" /\ step /\ Others(<<planningVars, runVars>>)

Next ==
  \/ Planning /\ UNCHANGED processVars
  \/ OnMinute(RunsNext)
  \/ OnServer(PoolNext)

(* The fairness of SyncRuns and ServerPool; the planning pages need none.  *)
Fairness ==
  /\ WF_allVars(OnMinute(RunStep))
  /\ \A c \in Calls : WF_allVars(OnServer(Thread(c)))
  /\ WF_allVars(OnServer(LoopWork))

Spec == Init /\ [][Next]_allVars /\ Fairness
===============================================================================
