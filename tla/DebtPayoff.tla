------------------------------ MODULE DebtPayoff ------------------------------
(***************************************************************************)
(* The payoff simulator of services/financial_planning.py, month by month: *)
(* _simulate_debts as list_debts runs it, once with the minimum payments   *)
(* and once with every planned extra, side by side for each strategy.      *)
(*                                                                         *)
(* Amounts are integers fine enough for the interest of MaxMonths months   *)
(* to be exact (ExactAssumption), as decimals of 28 digits are for any     *)
(* purpose.                                                                *)
(***************************************************************************)
EXTENDS Integers, FiniteSetsExt, Folds, Functions

CONSTANTS
  DebtPlans,  \* what is simulated: debts, and the extra budget of all
  RateUnit,   \* a rate is a number of RateUnit-ths of the balance a month
  MaxMonths   \* 600

VARIABLES
  debtPlan,
  month,
  sims

debtVars == <<debtPlan, month, sims>>

Strategies == {"avalanche", "snowball", "custom"}
Pace == {"minimum", "planned"}
Never == 0  \* no payoff date

Debts == DOMAIN debtPlan.debts
Debt(d) == debtPlan.debts[d]

DebtAssumption ==
  /\ MaxMonths \in Nat /\ RateUnit \in Nat \ {0}
  /\ \A p \in DebtPlans :
       /\ p.extra \in Nat
       /\ IsFiniteSet(DOMAIN p.debts) /\ DOMAIN p.debts \subseteq Nat
       /\ \A d \in DOMAIN p.debts : p.debts[d] \in [balance : Nat, rate : Nat, minimum : Nat, earmarked : Nat]
ASSUME DebtAssumption

(* The interest of n months on amounts that are multiples of Unit[n] is    *)
(* exact.                                                                  *)
Unit[n \in 0 .. MaxMonths] == IF n = 0 THEN 1 ELSE RateUnit * Unit[n - 1]
Exact(amount) == amount % Unit[MaxMonths] = 0
ExactAssumption ==
  \A p \in DebtPlans :
    /\ Exact(p.extra)
    /\ \A d \in DOMAIN p.debts :
         Exact(p.debts[d].balance) /\ Exact(p.debts[d].minimum) /\ Exact(p.debts[d].earmarked)
ASSUME ExactAssumption

-----------------------------------------------------------------------------
(* One month.                                                              *)

Owed(balances) == {d \in Debts : balances[d] > 0}

RankByLowRate(strategy, balances, d) ==
  CASE strategy = "avalanche" -> <<Debt(d).rate, balances[d], d>>
    [] strategy = "snowball"  -> <<balances[d], -Debt(d).rate, d>>
    [] strategy = "custom"    -> <<d, d, d>>
(* Lower ranks are paid first; equal debts in the order of their ids. The  *)
(* ids are in the order of their priority.                                 *)
Rank(strategy, balances, d) ==
  CASE strategy = "avalanche" -> <<-Debt(d).rate, balances[d], d>>
    [] strategy = "snowball"  -> <<balances[d], -Debt(d).rate, d>>
    [] strategy = "custom"    -> <<d, d, d>>
Before(a, b) ==
  \/ a[1] < b[1]
  \/ a[1] = b[1] /\ a[2] < b[2]
  \/ a[1] = b[1] /\ a[2] = b[2] /\ a[3] < b[3]
Order(strategy, balances) == [d \in Debts |-> Rank(strategy, balances, d)]
LastPaid(S, order) == CHOOSE d \in S : \A e \in S \ {d} : Before(order[e], order[d])

Pool(pace) ==
  LET S == {d \in Debts : Debt(d).balance > 0}
  IN MapThenSumSet(LAMBDA d : Debt(d).minimum, S)
     + IF pace = "minimum" THEN 0 ELSE MapThenSumSet(LAMBDA d : Debt(d).earmarked, S) + debtPlan.extra

(* Debts are paid one after the other, each at most what cap allows, what  *)
(* it owes and what is left of the pool.                                   *)
Paid(purse, d, most) ==
  LET amount == Min({most, purse.balances[d], purse.pool})
  IN [balances |-> [purse.balances EXCEPT ![d] = @ - amount], pool |-> purse.pool - amount]
Pays(purse, S, order, cap) ==
  MapThenFoldSet(LAMBDA d, p : Paid(p, d, cap[d]), purse, LAMBDA d : d, LAMBDA T : LastPaid(T, order), S)

Interest(balances) == [d \in Debts |-> (balances[d] * Debt(d).rate) \div RateUnit]

(* Nobody pays by the strategy what is left: a freed minimum is not used.  *)
NextMonthWithoutRolling(sim, key) ==
  LET interest == Interest(sim.balances)
      accrued == [d \in Debts |-> sim.balances[d] + interest[d]]
      rest == Pays([balances |-> accrued, pool |-> Pool(key[2])], Owed(sim.balances),
                   Order("custom", accrued), [d \in Debts |-> Debt(d).minimum + Debt(d).earmarked])
  IN [balances |-> rest.balances,
      interest |-> [d \in Debts |-> sim.interest[d] + interest[d]],
      payoff   |-> [d \in Debts |-> IF d \in Owed(sim.balances) /\ rest.balances[d] = 0 THEN month + 1 ELSE sim.payoff[d]],
      idle     |-> rest.pool,
      paid     |-> sim.paid + Pool(key[2]) - rest.pool]

NextMonth(sim, key) ==
  LET interest == Interest(sim.balances)
      accrued == [d \in Debts |-> sim.balances[d] + interest[d]]
      owing == Owed(sim.balances)
      listed == Order("custom", accrued)
      minimums == Pays([balances |-> accrued, pool |-> Pool(key[2])], owing, listed, [d \in Debts |-> Debt(d).minimum])
      extras == IF key[2] = "minimum" THEN minimums
                ELSE Pays(minimums, owing, listed, [d \in Debts |-> Debt(d).earmarked])
      rest == Pays(extras, owing, Order(key[1], extras.balances), [d \in Debts |-> extras.pool])
  IN [balances |-> rest.balances,
      interest |-> [d \in Debts |-> sim.interest[d] + interest[d]],
      payoff   |-> [d \in Debts |-> IF d \in owing /\ rest.balances[d] = 0 THEN month + 1 ELSE sim.payoff[d]],
      idle     |-> rest.pool,
      paid     |-> sim.paid + Pool(key[2]) - rest.pool]

Done(sim, key) == Owed(sim.balances) = {} \/ Pool(key[2]) = 0

-----------------------------------------------------------------------------
DebtInit ==
  /\ debtPlan \in DebtPlans
  /\ month = 0
  /\ sims = [key \in Strategies \X Pace |->
              [balances |-> [d \in Debts |-> Debt(d).balance],
               interest |-> [d \in Debts |-> 0],
               payoff   |-> [d \in Debts |-> Never],
               idle     |-> 0,
               paid     |-> 0]]

PassMonth ==
  /\ month < MaxMonths
  /\ \E key \in DOMAIN sims : ~Done(sims[key], key)
  /\ month' = month + 1
  /\ sims' = [key \in DOMAIN sims |-> IF Done(sims[key], key) THEN sims[key] ELSE NextMonth(sims[key], key)]
  /\ UNCHANGED debtPlan

DebtSpec == DebtInit /\ [][PassMonth]_debtVars

TotalInterest(sim) == SumFunction(sim.interest)

-----------------------------------------------------------------------------
(* Properties.                                                             *)

(* Every payment and all interest is in the balances, and no month leaves  *)
(* money unused while something is owed (README.md 415, 416: what          *)
(* paid-off debts free goes to the next target).                           *)
PaymentsAccounted ==
  \A key \in DOMAIN sims :
    LET sim == sims[key]
    IN /\ SumFunction(sim.balances) + sim.paid
            = MapThenSumSet(LAMBDA d : Debt(d).balance, Debts) + TotalInterest(sim)
       /\ sim.idle > 0 => Owed(sim.balances) = {}
       /\ \A d \in Debts : (sim.payoff[d] = Never) <=> (sim.balances[d] > 0 \/ Debt(d).balance = 0)

(* After no number of months has a strategy cost less interest than the    *)
(* highest rate first.                                                     *)
AvalancheCostsLeast ==
  \A s \in Strategies, pace \in Pace :
    TotalInterest(sims[<<"avalanche", pace>>]) <= TotalInterest(sims[<<s, pace>>])
==============================================================================
