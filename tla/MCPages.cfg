CONSTANTS
  Categories = {1}
  YearLength = 3
  Amounts = {3}
  Totals = {5}
  Customs <- MCCustoms
  Spending = {5}
  MaxBudgets = 2
  Absent = Absent
  DebtPlans <- MCDebtPlans
  RateUnit = 24
  MaxMonths = 4
  coffee = coffee
  refund = refund
  euros = euros
  None = None
  Txns = {coffee, refund, euros}
  Manual = {euros}
  Entries <- MCEntries
  Rules = {1, 2}
  Matches <- MCMatches
  Effects <- MCEffects
  Overrides <- MCOverrides
  Month <- MCMonth
  Merchant <- MCMerchant
  Foreign = {euros}
  Special = {2}
  Place <- MCPlace
  Shown = 0
  MonthLength <- MCMonthLength
  Streams = {1, 2}
  Every <- MCEvery
  Impact <- MCImpact
  PaysDebt = {1}
  DueDebts = {3, 4}
  DueDay <- MCDueDay
  Payment <- MCPayment
  Holds <- MCHolds
  Near = 2
  Cash = 50
  Goals = {1, 2}
  GoalStates <- MCGoalStates
  Accounts = {1, 2}
  Liquid = {1}
  Balances = {0, 1, 4}
  Budgets <- MCBudgets
  Patterns <- MCPatterns
  Payments = {0, 1, 2}
  Scenarios <- MCScenarios
  Unlinked = Unlinked
  NoGoal = NoGoal
  q1 = q1
  q2 = q2
  plaid = plaid
  Connected = {1, 2}
  MaxDeaths = 1
  Calls = {q1, q2}
  Syncs = {q1}
  Hooks = {plaid}
  PoolSize = 2
  Nobody = Nobody
  Minutely = Minutely
SPECIFICATION Spec
INVARIANTS BudgetAddsUp PaymentsAccounted AvalancheCostsLeast ViewsAgree RulesAreCurrent CalendarAddsUp NothingCountedTwice
PROPERTIES TunedStays MinuteJobServes ServerGoesOn
CHECK_DEADLOCK FALSE
