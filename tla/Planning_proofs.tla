---------------------------- MODULE Planning_proofs ----------------------------
(***************************************************************************)
(* What is made of transactions, for every set of them:                    *)
(*   - what automation made of one is what the rules of now make of it,    *)
(*     and what its owner tuned is left alone;                             *)
(*   - all pages tell the same of the same transactions;                   *)
(*   - no obligation is set aside twice, or left out.                      *)
(***************************************************************************)
EXTENDS MoneyViews, CashForecast, SumLemmas

(* A transaction that does not exist has no mark. *)
AbsentIsUnmarked == \A t \in Txns : entry[t] = None => mark[t] = Unmarked /\ byRule[t] = None

RulesInv ==
  /\ rules \subseteq Rules
  /\ entry = [t \in Txns |-> entry[t]]
  /\ mark = [t \in Txns |-> mark[t]]
  /\ byRule = [t \in Txns |-> byRule[t]]
  /\ AbsentIsUnmarked
  /\ RulesAreCurrent

(* There is a first one among the rules that match. *)
LEMMA FirstMatching ==
  ASSUME RulesAssumption, NEW t \in Txns, NEW R \in SUBSET Rules, Matching(t, R) # {}
  PROVE  Min(Matching(t, R)) \in R /\ Min(Matching(t, R)) # None
<1>1. Matching(t, R) \in SUBSET Nat
  BY DEF Matching, RulesAssumption
<1>2. Min(Matching(t, R)) \in Matching(t, R)
  BY <1>1, HasFirst
<1> QED
  BY <1>2 DEF Matching, RulesAssumption

(* What the rules in R make of a transaction is what RulesAreCurrent asks. *)
LEMMA RuleIsCurrent ==
  ASSUME RulesAssumption, NEW t \in Txns, NEW R \in SUBSET Rules, NEW m, NEW r, RuleFor(t, m, r, R) # None
  PROVE  /\ RuleFor(t, m, r, R) \in R
         /\ RuleFor(t, m, r, R) = Min(Matching(t, R))
         /\ MarkFor(t, m, r, R) = Effects[RuleFor(t, m, r, R)]
<1>1. ~Tuned(m, r) /\ Matching(t, R) # {}
  BY DEF RuleFor
<1>2. /\ RuleFor(t, m, r, R) = Min(Matching(t, R))
      /\ MarkFor(t, m, r, R) = Effects[Min(Matching(t, R))]
  BY <1>1 DEF RuleFor, MarkFor
<1> QED
  BY <1>1, <1>2, FirstMatching

LEMMA TunedIsKept ==
  ASSUME NEW t, NEW R, NEW m, NEW r, Tuned(m, r)
  PROVE  MarkFor(t, m, r, R) = m /\ RuleFor(t, m, r, R) = None
BY DEF MarkFor, RuleFor

(* Interpreting everything again keeps the invariant, whatever of it was   *)
(* given back before: no rule is left that is not among those in R.        *)
LEMMA ReapplyStep ==
  ASSUME RulesAssumption, RulesInv, NEW R \in SUBSET Rules, NEW m, NEW r,
         m = [t \in Txns |-> m[t]], r = [t \in Txns |-> r[t]],
         \A t \in Txns : t \notin Present \ Manual => m[t] = mark[t] /\ r[t] = byRule[t],
         rules' = R, Reapply(m, r, R), UNCHANGED entry
  PROVE  RulesInv'
<1>1. \A t \in Present \ Manual :
        /\ mark'[t] = MarkFor(t, m[t], r[t], R)
        /\ byRule'[t] = RuleFor(t, m[t], r[t], R)
  BY DEF Reapply, Present
<1>2. \A t \in Txns : t \notin Present \ Manual => mark'[t] = mark[t] /\ byRule'[t] = None
  BY DEF Reapply, RulesInv, RulesAreCurrent
<1>3. /\ mark' = [t \in Txns |-> mark'[t]] /\ byRule' = [t \in Txns |-> byRule'[t]]
  BY DEF Reapply
<1>4. AbsentIsUnmarked'
  BY <1>2 DEF AbsentIsUnmarked, RulesInv, Present
<1>5. RulesAreCurrent'
  <2> SUFFICES ASSUME NEW t \in Txns, byRule'[t] # None
               PROVE  /\ t \in Present' \ Manual
                      /\ byRule'[t] \in rules' /\ byRule'[t] = Min(Matching(t, rules'))
                      /\ mark'[t] = Effects[byRule'[t]]
    BY DEF RulesAreCurrent
  <2>1. t \in Present \ Manual
    BY <1>2
  <2>2. t \in Present' \ Manual
    BY <2>1 DEF Present
  <2> QED
    BY <1>1, <2>1, <2>2, RuleIsCurrent
<1> QED
  BY <1>3, <1>4, <1>5 DEF RulesInv

LEMMA RulesStep ==
  ASSUME RulesAssumption, RulesInv, RulesNext
  PROVE  RulesInv'
<1>1. ASSUME NEW t \in Txns, Sync(t) PROVE RulesInv'
  <2>1. PICK e \in Entries[t] :
          LET anew == entry[t] = None \/ Replaces(t, e)
              m == IF anew THEN Unmarked ELSE mark[t]
              r == IF anew THEN None ELSE byRule[t]
          IN /\ entry' = [entry EXCEPT ![t] = e]
             /\ mark' = [mark EXCEPT ![t] = MarkFor(t, m, r, rules)]
             /\ byRule' = [byRule EXCEPT ![t] = RuleFor(t, m, r, rules)]
    BY <1>1 DEF Sync
  <2> DEFINE anew == entry[t] = None \/ Replaces(t, e)
             m == IF anew THEN Unmarked ELSE mark[t]
             r == IF anew THEN None ELSE byRule[t]
  <2>2. entry'[t] = e /\ mark'[t] = MarkFor(t, m, r, rules) /\ byRule'[t] = RuleFor(t, m, r, rules)
    BY <2>1 DEF RulesInv
  <2>3. \A u \in Txns \ {t} : entry'[u] = entry[u] /\ mark'[u] = mark[u] /\ byRule'[u] = byRule[u]
    BY <2>1 DEF RulesInv
  <2>4. /\ entry' = [u \in Txns |-> entry'[u]] /\ mark' = [u \in Txns |-> mark'[u]]
        /\ byRule' = [u \in Txns |-> byRule'[u]] /\ rules' = rules
    BY <1>1, <2>1 DEF Sync, RulesInv
  <2>5. e # None /\ t \notin Manual
    BY <1>1 DEF Sync, RulesAssumption
  <2>6. AbsentIsUnmarked'
    BY <2>2, <2>3, <2>5 DEF AbsentIsUnmarked, RulesInv
  <2>7. byRule'[t] # None => /\ byRule'[t] \in rules /\ byRule'[t] = Min(Matching(t, rules))
                             /\ mark'[t] = Effects[byRule'[t]]
    <3> HIDE DEF m, r
    <3> QED
      BY <2>2, RuleIsCurrent DEF RulesInv
  <2>8. RulesAreCurrent'
    BY <2>2, <2>3, <2>4, <2>5, <2>7 DEF RulesAreCurrent, RulesInv, Present
  <2> QED
    BY <2>4, <2>6, <2>8 DEF RulesInv
<1>2. ASSUME NEW t \in Txns, Enter(t) PROVE RulesInv'
  <2>1. PICK e \in Entries[t] : entry' = [entry EXCEPT ![t] = e]
    BY <1>2 DEF Enter
  <2>2. e # None /\ t \in Manual /\ UNCHANGED <<mark, byRule, rules>>
    BY <1>2 DEF Enter, RulesAssumption
  <2>3. entry' = [u \in Txns |-> entry'[u]] /\ entry'[t] = e /\ \A u \in Txns \ {t} : entry'[u] = entry[u]
    BY <2>1 DEF RulesInv
  <2>4. RulesAreCurrent'
    BY <2>2, <2>3 DEF RulesAreCurrent, RulesInv, Present
  <2> QED
    BY <2>2, <2>3, <2>4 DEF RulesInv, AbsentIsUnmarked
<1>3. ASSUME NEW t \in Txns, DeleteTransaction(t) PROVE RulesInv'
  <2>1. /\ entry'[t] = None /\ mark'[t] = Unmarked /\ byRule'[t] = None /\ rules' = rules
        /\ \A u \in Txns \ {t} : entry'[u] = entry[u] /\ mark'[u] = mark[u] /\ byRule'[u] = byRule[u]
    BY <1>3 DEF DeleteTransaction, RulesInv
  <2>2. /\ entry' = [u \in Txns |-> entry'[u]] /\ mark' = [u \in Txns |-> mark'[u]]
        /\ byRule' = [u \in Txns |-> byRule'[u]]
    BY <1>3 DEF DeleteTransaction, RulesInv
  <2>3. RulesAreCurrent'
    BY <2>1 DEF RulesAreCurrent, RulesInv, Present
  <2> QED
    BY <2>1, <2>2, <2>3 DEF RulesInv, AbsentIsUnmarked
<1>4. ASSUME NEW t \in Txns, OverrideTransaction(t) PROVE RulesInv'
  <2>1. /\ entry' = entry /\ rules' = rules /\ byRule'[t] = None /\ t \in Present
        /\ \A u \in Txns \ {t} : mark'[u] = mark[u] /\ byRule'[u] = byRule[u]
    BY <1>4 DEF OverrideTransaction, RulesInv
  <2>2. mark' = [u \in Txns |-> mark'[u]] /\ byRule' = [u \in Txns |-> byRule'[u]]
    BY <1>4 DEF OverrideTransaction, RulesInv
  <2>3. RulesAreCurrent'
    BY <2>1 DEF RulesAreCurrent, RulesInv, Present
  <2>4. AbsentIsUnmarked'
    BY <2>1 DEF RulesInv, AbsentIsUnmarked, Present
  <2> QED
    BY <2>1, <2>2, <2>3, <2>4 DEF RulesInv
<1>5. ASSUME NEW n \in Rules, CreateRule(n) PROVE RulesInv'
  <2>1. /\ rules' \in SUBSET Rules /\ Reapply(mark, byRule, rules') /\ UNCHANGED entry
        /\ mark = [t \in Txns |-> mark[t]] /\ byRule = [t \in Txns |-> byRule[t]]
    BY <1>5 DEF CreateRule, RulesInv
  <2> QED
    BY <2>1, ReapplyStep
<1>6. ASSUME NEW n \in Rules, DeleteRule(n) PROVE RulesInv'
  <2> DEFINE affected == {t \in Present : byRule[t] = n}
             m == [t \in Txns |-> IF t \in affected THEN Unmarked ELSE mark[t]]
             r == [t \in Txns |-> IF t \in affected THEN None ELSE byRule[t]]
  <2>1. rules' \in SUBSET Rules /\ Reapply(m, r, rules') /\ UNCHANGED entry
    BY <1>6 DEF DeleteRule, RulesInv
  <2>2. m = [t \in Txns |-> m[t]] /\ r = [t \in Txns |-> r[t]]
    OBVIOUS
  <2>3. n # None
    BY DEF RulesAssumption
  <2>4. \A t \in Txns : t \notin Present \ Manual => m[t] = mark[t] /\ r[t] = byRule[t]
    BY <2>3 DEF RulesInv, RulesAreCurrent
  <2> HIDE DEF m, r
  <2> QED
    BY <2>1, <2>2, <2>4, ReapplyStep
<1> QED
  BY <1>1, <1>2, <1>3, <1>4, <1>5, <1>6 DEF RulesNext

LEMMA RulesInvariant == RulesSpec => []RulesInv
<1>1. RulesInit => RulesInv
  BY DEF RulesInit, RulesInv, AbsentIsUnmarked, RulesAreCurrent
<1>2. RulesInv /\ [RulesNext]_ruleVars => RulesInv'
  <2>1. RulesInv /\ UNCHANGED ruleVars => RulesInv'
    BY DEF RulesInv, AbsentIsUnmarked, RulesAreCurrent, Present, Matching, ruleVars
  <2> QED
    BY <2>1, RulesStep, RulesAssumption
<1> QED
  BY <1>1, <1>2, PTL DEF RulesSpec

(* Whatever is synchronized, deleted or overridden, and whatever rules come *)
(* and go: the rule a transaction names exists, is the first that matches   *)
(* it and is what it shows (transaction_intelligence.py:182-247, the upsert *)
(* of plaid_transactions.py).                                               *)
THEOREM RulesAlwaysCurrent == RulesSpec => []RulesAreCurrent
<1>1. RulesInv => RulesAreCurrent
  BY DEF RulesInv
<1> QED
  BY <1>1, RulesInvariant, PTL

TunedStep ==
  \A t \in Txns :
    /\ Tuned(mark[t], byRule[t])
    /\ \/ rules' # rules
       \/ entry' # entry /\ entry'[t] # None /\ ~Replaces(t, entry'[t])
    => mark'[t] = mark[t]

LEMMA OneTunedStep ==
  ASSUME RulesInv, RulesNext
  PROVE  TunedStep
<1> SUFFICES ASSUME NEW t \in Txns, Tuned(mark[t], byRule[t]),
                    \/ rules' # rules
                    \/ entry' # entry /\ entry'[t] # None /\ ~Replaces(t, entry'[t])
             PROVE  mark'[t] = mark[t]
  BY DEF TunedStep
<1>1. entry[t] # None
  BY DEF RulesInv, AbsentIsUnmarked, Tuned
<1>2. ASSUME NEW u \in Txns, Sync(u) PROVE mark'[t] = mark[t]
  <2>1. CASE u # t
    BY <1>2, <2>1 DEF Sync, RulesInv
  <2>2. CASE u = t
    <3>1. PICK e \in Entries[t] :
            LET anew == entry[t] = None \/ Replaces(t, e)
                m == IF anew THEN Unmarked ELSE mark[t]
                r == IF anew THEN None ELSE byRule[t]
            IN /\ entry' = [entry EXCEPT ![t] = e] /\ rules' = rules
               /\ mark' = [mark EXCEPT ![t] = MarkFor(t, m, r, rules)]
      BY <1>2, <2>2 DEF Sync
    <3>2. entry'[t] = e /\ rules' = rules
      BY <3>1 DEF RulesInv
    <3>3. ~(entry[t] = None \/ Replaces(t, e))
      BY <1>1, <3>2
    <3>4. mark'[t] = MarkFor(t, mark[t], byRule[t], rules)
      BY <3>1, <3>3 DEF RulesInv
    <3> QED
      BY <3>4, TunedIsKept
  <2> QED
    BY <2>1, <2>2
<1>3. ASSUME NEW u \in Txns, Enter(u) PROVE mark'[t] = mark[t]
  BY <1>3 DEF Enter
<1>4. ASSUME NEW u \in Txns, DeleteTransaction(u) PROVE mark'[t] = mark[t]
  BY <1>4 DEF DeleteTransaction, RulesInv
<1>5. ASSUME NEW u \in Txns, OverrideTransaction(u) PROVE mark'[t] = mark[t]
  BY <1>5 DEF OverrideTransaction
<1>6. ASSUME NEW n \in Rules, CreateRule(n) PROVE mark'[t] = mark[t]
  BY <1>6, TunedIsKept DEF CreateRule, Reapply
<1>7. ASSUME NEW n \in Rules, DeleteRule(n) PROVE mark'[t] = mark[t]
  <2> DEFINE affected == {u \in Present : byRule[u] = n}
             m == [u \in Txns |-> IF u \in affected THEN Unmarked ELSE mark[u]]
             r == [u \in Txns |-> IF u \in affected THEN None ELSE byRule[u]]
  <2>1. n # None
    BY RulesAssumption DEF RulesAssumption
  <2>2. m[t] = mark[t] /\ r[t] = byRule[t]
    BY <2>1 DEF Tuned
  <2>3. mark'[t] = mark[t] \/ mark'[t] = MarkFor(t, m[t], r[t], rules')
    <3> HIDE DEF m, r
    <3>1. Reapply(m, r, rules')
      BY <1>7 DEF DeleteRule, m, r
    <3>2. mark'[t] = m[t] \/ mark'[t] = MarkFor(t, m[t], r[t], rules')
      BY <3>1 DEF Reapply
    <3> QED
      BY <2>2, <3>2
  <2> QED
    BY <2>2, <2>3, TunedIsKept
<1> QED
  BY <1>2, <1>3, <1>4, <1>5, <1>6, <1>7 DEF RulesNext

(* What a user tuned stays as it is, whatever rules come and go and        *)
(* whatever the provider changes, until the row itself is replaced         *)
(* (docs/ARCHITECTURE.md 204; transaction_intelligence.py:163-180).        *)
THEOREM TunedAlwaysStays == RulesSpec => TunedStays
<1>1. RulesInv /\ [RulesNext]_ruleVars => [TunedStep]_ruleVars
  BY OneTunedStep
<1>2. [][TunedStep]_ruleVars => TunedStays
  BY PTL DEF TunedStep, TunedStays
<1> QED
  BY <1>1, <1>2, RulesInvariant, PTL DEF RulesSpec

-----------------------------------------------------------------------------
(* The forecast.                                                           *)

ForecastType ==
  /\ goals \in [Goals -> GoalStates \cup {NoGoal}]
  /\ balance \in [Accounts -> Int]
  /\ budget \in [income : Nat, general : Nat, savings : Nat, debt : Nat]
  /\ patterns \in [income : Nat, outgo : Nat]
  /\ payments \in Nat
  /\ withPlan \in BOOLEAN

LEMMA ForecastTypeInvariant == ForecastSpec => []ForecastType
<1>1. ForecastInit => ForecastType
  BY DEF ForecastInit, NothingKnown, ForecastType
<1>2. ForecastType /\ [ForecastNext]_forecastVars => ForecastType'
  <2> SUFFICES ASSUME ForecastType, [ForecastNext]_forecastVars PROVE ForecastType'
    OBVIOUS
  <2> USE DEF ForecastType
  <2>1. ASSUME NEW g \in Goals, PutGoal(g) PROVE ForecastType'
    BY <2>1 DEF PutGoal
  <2>2. ASSUME NEW g \in Goals, DeleteGoal(g) PROVE ForecastType'
    BY <2>2 DEF DeleteGoal
  <2>3. CASE PutAssumptions
    BY <2>3 DEF PutAssumptions
  <2>4. CASE DebtsChange
    BY <2>4, ForecastAssumption DEF DebtsChange, ForecastAssumption
  <2>5. CASE BudgetChanges
    BY <2>5, ForecastAssumption DEF BudgetChanges, ForecastAssumption
  <2>6. CASE AccountsAreRead
    BY <2>6, ForecastAssumption DEF AccountsAreRead, ForecastAssumption
  <2>7. CASE StreamsAreRebuilt
    BY <2>7, ForecastAssumption DEF StreamsAreRebuilt, ForecastAssumption
  <2>8. CASE UNCHANGED forecastVars
    BY <2>8 DEF forecastVars
  <2> QED
    BY <2>1, <2>2, <2>3, <2>4, <2>5, <2>6, <2>7, <2>8 DEF ForecastNext
<1> QED
  BY <1>1, <1>2, PTL DEF ForecastSpec

LEMMA GoalIs ==
  ASSUME ForecastType, NEW g \in Active
  PROVE  /\ goals[g] \in [target : Nat, current : Nat, monthly : Nat, link : Accounts \cup {Unlinked}]
         /\ GoalCurrent(g) \in Nat
<1>1. goals[g] \in [target : Nat, current : Nat, monthly : Nat, link : Accounts \cup {Unlinked}]
  BY ForecastAssumption DEF ForecastAssumption, ForecastType, Active
<1>2. g \in Linked => balance[goals[g].link] \in Int
  BY <1>1 DEF Linked, ForecastType
<1> QED
  BY <1>1, <1>2 DEF GoalCurrent, Above, Larger

LEMMA SumsAreNumbers ==
  ASSUME ForecastType
  PROVE  /\ CashAvailable \in Int /\ GoalReserves \in Int
         /\ MonthlyGoals \in Int
<1>1. IsFiniteSet(Liquid) /\ IsFiniteSet(Linked) /\ IsFiniteSet(Unreached)
  BY ForecastAssumption, FS_Subset DEF ForecastAssumption, Linked, Unreached, Active
<1>2. CashAvailable \in Int
  <2>1. CashAvailable = SumOf(balance, Liquid)
    BY DEF CashAvailable, MapThenSumSet, SumOf, SumFunctionOnSet, FoldFunctionOnSet
  <2>2. \A a \in Liquid : balance[a] \in Int
    BY ForecastAssumption DEF ForecastAssumption, ForecastType
  <2> QED
    BY <1>1, <2>1, <2>2, TotalType
<1>3. GoalReserves \in Int
  <2> DEFINE reserve == [g \in Linked |-> Min({GoalCurrent(g), goals[g].target})]
  <2>1. GoalReserves = SumOf(reserve, Linked)
    BY DEF GoalReserves, MapThenSumSet, SumOf, SumFunctionOnSet, FoldFunctionOnSet, MapThenFoldSet
  <2>2. \A g \in Linked : reserve[g] \in Int
    <3> SUFFICES ASSUME NEW g \in Linked PROVE Min({GoalCurrent(g), goals[g].target}) \in Int
      OBVIOUS
    <3>1. GoalCurrent(g) \in Nat /\ goals[g].target \in Nat
      BY GoalIs DEF Linked
    <3> QED
      BY <3>1, HasFirst
  <2> HIDE DEF reserve
  <2> QED
    BY <1>1, <2>1, <2>2, TotalType
<1>4. MonthlyGoals \in Int
  <2> DEFINE monthly == [g \in Unreached |-> goals[g].monthly]
  <2>1. MonthlyGoals = SumOf(monthly, Unreached)
    BY DEF MonthlyGoals, MapThenSumSet, SumOf, SumFunctionOnSet, FoldFunctionOnSet, MapThenFoldSet
  <2>2. \A g \in Unreached : monthly[g] \in Int
    BY GoalIs DEF Unreached
  <2> HIDE DEF monthly
  <2> QED
    BY <1>1, <2>1, <2>2, TotalType
<1> QED
  BY <1>2, <1>3, <1>4

(* An obligation known from two sources, and one that a scenario cuts.     *)
LEMMA SetAsideOnce ==
  ASSUME NEW a \in Int, NEW b \in Int
  PROVE  a + Above(b - a) = Larger(b, a)
BY DEF Above, Larger

LEMMA SetAsideOnceCut ==
  ASSUME NEW a \in Int, NEW b \in Int, NEW cut \in Nat
  PROVE  a + Above(Above(b - a) - cut) = Larger(b - cut, a)
BY DEF Above, Larger

LEMMA ForecastIsExact ==
  ASSUME ForecastType
  PROVE  ForecastExact
<1> SUFFICES ASSUME withPlan, NEW n \in Periods, NEW s \in Scenarios \cup {NoChange}
             PROVE  Projected(n, s) = SpendableCash + Income(n)
                                      - Larger(n * budget.general - n * s.cut, Outgo(n))
                                      - Larger(n * budget.savings, Contributions(n, s))
                                      - Larger(n * budget.debt, DebtPayments(n, s))
                                      - n * s.added
  BY DEF ForecastExact
<1>1. n \in Nat /\ s \in [extra : Nat, goal : Int, cut : Nat, added : Nat]
  BY ForecastAssumption DEF ForecastAssumption, Periods, NoChange
<1> DEFINE general == n * budget.general
           savings == n * budget.savings
           debt == n * budget.debt
           cut == n * s.cut
           added == n * s.added
           out == Outgo(n)
           pay == DebtPayments(n, s)
           put == Contributions(n, s)
           in == Income(n)
           cash == SpendableCash
<1>2. /\ general \in Int /\ savings \in Int /\ debt \in Int /\ cut \in Nat /\ added \in Int
      /\ out \in Int /\ in \in Int
  BY <1>1 DEF ForecastType, Outgo, Income
<1>3. pay \in Int
  <2>1. payments + s.extra \in Nat
    BY <1>1 DEF ForecastType
  <2> QED
    BY <1>1, <2>1 DEF DebtPayments
<1>4. put \in Int
  <2>1. MonthlyGoals + s.goal \in Int
    BY <1>1, SumsAreNumbers
  <2>2. Above(MonthlyGoals + s.goal) \in Int
    BY <2>1 DEF Above, Larger
  <2> QED
    BY <1>1, <2>2 DEF Contributions
<1>5. cash \in Int
  BY SumsAreNumbers DEF SpendableCash
<1>6. Projected(n, s) = cash + in - out - BudgetReserve(n, s) - pay - put - added
  BY DEF Projected
<1>7. BudgetReserve(n, s) = Above(Above(general - out) - cut) + Above(savings - put) + Above(debt - pay)
  BY DEF BudgetReserve
<1>8. /\ out + Above(Above(general - out) - cut) = Larger(general - cut, out)
      /\ put + Above(savings - put) = Larger(savings, put)
      /\ pay + Above(debt - pay) = Larger(debt, pay)
  <2> HIDE DEF general, savings, debt, cut, out, pay, put
  <2> QED
    BY <1>2, <1>3, <1>4, SetAsideOnce, SetAsideOnceCut
<1>9. Above(Above(general - out) - cut) \in Int /\ Above(savings - put) \in Int /\ Above(debt - pay) \in Int
  <2> HIDE DEF general, savings, debt, cut, out, pay, put
  <2> QED
    BY <1>2, <1>3, <1>4 DEF Above, Larger
<1>10. Projected(n, s) = cash + in - Larger(general - cut, out) - Larger(savings, put) - Larger(debt, pay) - added
  <2> HIDE DEF general, savings, debt, cut, added, out, pay, put, in, cash
  <2> QED
    BY <1>2, <1>3, <1>4, <1>5, <1>6, <1>7, <1>8, <1>9
<1> QED
  BY <1>10

LEMMA SafeToSpendIsSafe ==
  ASSUME ForecastType
  PROVE  SafeIsSafe
<1>1. CashAvailable \in Int /\ GoalReserves \in Int /\ MonthlyGoals \in Int
  BY SumsAreNumbers
<1>2. /\ budget.general \in Nat /\ budget.savings \in Nat /\ budget.debt \in Nat
      /\ patterns.outgo \in Nat /\ payments \in Nat
  BY DEF ForecastType
<1> QED
  BY <1>1, <1>2 DEF SafeIsSafe, SafeToSpend, RemainingPlanned, Commitments, Above, Larger

(* Whatever goals, budgets, balances, streams, debts and scenarios there   *)
(* are: the forecast sets every obligation aside once, as the larger of    *)
(* what its sources say, and safe-to-spend leaves what is to come          *)
(* (financial_planning.py forecast_view, budget_planning.py                *)
(* month_budget_view).                                                     *)
THEOREM NothingEverCountedTwice == ForecastSpec => []NothingCountedTwice
<1>1. ForecastType => NothingCountedTwice
  BY ForecastIsExact, SafeToSpendIsSafe DEF NothingCountedTwice
<1> QED
  BY <1>1, ForecastTypeInvariant, PTL

-----------------------------------------------------------------------------
(* Every page tells the same of the same transactions.                     *)

(* What is stored has an amount and a kind, and so has what is made of it. *)
RulesTyped ==
  /\ rules \subseteq Rules
  /\ entry = [t \in Txns |-> entry[t]] /\ \A t \in Present : entry[t] \in Entries[t]
  /\ mark \in [Txns -> Marks]

LEMMA ChosenIsMark ==
  ASSUME RulesAssumption, NEW m \in Marks, NEW choice \in Overrides
  PROVE  Chosen(m, choice) \in Marks
BY DEF RulesAssumption, Chosen, Unmarked, Marks

LEMMA MarkForIsMark ==
  ASSUME RulesAssumption, NEW t \in Txns, NEW m \in Marks, NEW r, NEW R \in SUBSET Rules
  PROVE  MarkFor(t, m, r, R) \in Marks
<1>1. Unmarked \in Marks
  BY DEF Unmarked, Marks
<1>2. Matching(t, R) # {} => Effects[Min(Matching(t, R))] \in Marks
  BY FirstMatching DEF RulesAssumption
<1> QED
  BY <1>1, <1>2 DEF MarkFor

LEMMA RulesTypedStep ==
  ASSUME RulesAssumption, RulesTyped, RulesNext
  PROVE  RulesTyped'
<1>0. Unmarked \in Marks
  BY DEF Unmarked, Marks
<1>1. ASSUME NEW t \in Txns, Sync(t) PROVE RulesTyped'
  <2>1. PICK e \in Entries[t] :
          LET anew == entry[t] = None \/ Replaces(t, e)
              m == IF anew THEN Unmarked ELSE mark[t]
              r == IF anew THEN None ELSE byRule[t]
          IN /\ entry' = [entry EXCEPT ![t] = e]
             /\ mark' = [mark EXCEPT ![t] = MarkFor(t, m, r, rules)]
    BY <1>1 DEF Sync
  <2> DEFINE anew == entry[t] = None \/ Replaces(t, e)
             m == IF anew THEN Unmarked ELSE mark[t]
             r == IF anew THEN None ELSE byRule[t]
  <2>2. m \in Marks /\ rules \in SUBSET Rules /\ rules' = rules
    BY <1>0, <1>1 DEF RulesTyped, Sync
  <2> HIDE DEF m, r
  <2>3. MarkFor(t, m, r, rules) \in Marks
    BY <2>2, MarkForIsMark
  <2> USE DEF m, r
  <2> QED
    BY <2>1, <2>2, <2>3 DEF RulesTyped, Present
<1>2. ASSUME NEW t \in Txns, Enter(t) PROVE RulesTyped'
  BY <1>2 DEF Enter, RulesTyped, Present
<1>3. ASSUME NEW t \in Txns, DeleteTransaction(t) PROVE RulesTyped'
  BY <1>0, <1>3 DEF DeleteTransaction, RulesTyped, Present
<1>4. ASSUME NEW t \in Txns, OverrideTransaction(t) PROVE RulesTyped'
  <2>1. PICK choice \in Overrides : mark' = [mark EXCEPT ![t] = Chosen(mark[t], choice)]
    BY <1>4 DEF OverrideTransaction, RulesTyped
  <2>2. Chosen(mark[t], choice) \in Marks
    BY ChosenIsMark DEF RulesTyped
  <2> QED
    BY <1>4, <2>1, <2>2 DEF OverrideTransaction, RulesTyped, Present
<1>5. ASSUME NEW R \in SUBSET Rules, NEW m \in [Txns -> Marks], NEW r, rules' = R, Reapply(m, r, R), UNCHANGED entry
      PROVE RulesTyped'
  <2>1. mark' = [t \in Txns |-> IF t \in Present \ Manual THEN MarkFor(t, m[t], r[t], R) ELSE m[t]]
    BY <1>5 DEF Reapply
  <2>2. \A t \in Txns : m[t] \in Marks /\ MarkFor(t, m[t], r[t], R) \in Marks
    BY MarkForIsMark
  <2> QED
    BY <1>5, <2>1, <2>2 DEF RulesTyped, Present
<1>6. ASSUME NEW x \in Rules, CreateRule(x) PROVE RulesTyped'
  BY <1>5, <1>6 DEF CreateRule, RulesTyped
<1>7. ASSUME NEW x \in Rules, DeleteRule(x) PROVE RulesTyped'
  <2> DEFINE affected == {t \in Present : byRule[t] = x}
             m == [t \in Txns |-> IF t \in affected THEN Unmarked ELSE mark[t]]
             r == [t \in Txns |-> IF t \in affected THEN None ELSE byRule[t]]
             R == rules \ {x}
  <2>1. m \in [Txns -> Marks] /\ R \in SUBSET Rules
    BY <1>0 DEF RulesTyped
  <2>2. rules' = R /\ Reapply(m, r, R) /\ UNCHANGED entry
    BY <1>7 DEF DeleteRule
  <2> HIDE DEF m, r, R
  <2> QED
    BY <1>5, <2>1, <2>2
<1> QED
  BY <1>1, <1>2, <1>3, <1>4, <1>6, <1>7 DEF RulesNext

LEMMA RulesTypedInvariant == RulesSpec => []RulesTyped
<1>1. RulesInit => RulesTyped
  BY DEF RulesInit, RulesTyped, Present, Unmarked, Marks
<1>2. RulesTyped /\ [RulesNext]_ruleVars => RulesTyped'
  <2>1. RulesTyped /\ UNCHANGED ruleVars => RulesTyped'
    BY DEF RulesTyped, ruleVars, Present
  <2> QED
    BY <2>1, RulesAssumption, RulesTypedStep
<1> QED
  BY <1>1, <1>2, PTL DEF RulesSpec

-----------------------------------------------------------------------------
(* Sums of money.                                                          *)

Amount == [t \in Txns |-> entry[t].amount]
Out(S) == OfKind(S, "expense") \cup OfKind(S, "refund")

LEMMA MoneyAdds ==
  ASSUME RulesTyped, NEW S \in SUBSET Present
  PROVE  /\ IsFiniteSet(S) /\ \A t \in S : Amount[t] \in Int /\ Amount[t] = entry[t].amount
         /\ Total(S) = SumOf(Amount, S) /\ Total(S) \in Int
<1> DEFINE f == [t \in S |-> entry[t].amount]
<1>1. Total(S) = SumOf(f, S)
  BY DEF Total, SumOf, MapThenSumSet, SumFunctionOnSet, FoldFunctionOnSet, MapThenFoldSet
<1>2. IsFiniteSet(S)
  BY ViewsAssumption, FS_Subset DEF ViewsAssumption, Present
<1>3. \A t \in S : Amount[t] \in Int /\ Amount[t] = entry[t].amount /\ f[t] = Amount[t]
  BY RulesAssumption DEF RulesAssumption, RulesTyped, Present, Amount
<1> HIDE DEF f
<1>4. SumOf(f, S) = SumOf(Amount, S)
  BY <1>2, <1>3, TotalSame
<1>5. SumOf(Amount, S) \in Int
  BY <1>2, <1>3, TotalType
<1> QED
  BY <1>1, <1>2, <1>3, <1>4, <1>5

LEMMA MoneyOfBoth ==
  ASSUME RulesTyped, NEW S \in SUBSET Present, NEW R \in SUBSET Present, S \cap R = {}
  PROVE  Total(S \cup R) = Total(S) + Total(R)
<1> DEFINE W == S \cup R
<1>1. Total(W) = SumOf(Amount, W) /\ Total(S) = SumOf(Amount, S) /\ Total(R) = SumOf(Amount, R)
  BY MoneyAdds
<1>2. IsFiniteSet(S) /\ IsFiniteSet(R) /\ \A t \in S \cup R : Amount[t] \in Int
  BY MoneyAdds
<1>3. SumOf(Amount, S \cup R) = SumOf(Amount, S) + SumOf(Amount, R)
  BY <1>2, TotalUnion
<1> QED
  BY <1>1, <1>3

LEMMA KeyedMoney ==
  ASSUME RulesTyped, NEW S \in SUBSET Present,
         NEW key, NEW K, IsFiniteSet(K), \A t \in S : key[t] \in K
  PROVE  \E h : /\ \A k \in K : h[k] = Total({t \in S : key[t] = k}) /\ h[k] \in Int
                /\ SumOf(h, K) = Total(S)
<1> DEFINE h == [k \in K |-> Total({t \in S : key[t] = k})]
           part(k) == {t \in S : key[t] = k}
<1>1. \A k \in K : h[k] = SumOf(Amount, {t \in S : key[t] = k}) /\ h[k] \in Int
  <2> SUFFICES ASSUME NEW k \in K PROVE Total(part(k)) = SumOf(Amount, part(k)) /\ Total(part(k)) \in Int
    OBVIOUS
  <2>1. part(k) \in SUBSET Present
    OBVIOUS
  <2> HIDE DEF part
  <2> QED
    BY <2>1, MoneyAdds
<1>2. IsFiniteSet(S) /\ (\A t \in S : Amount[t] \in Int) /\ Total(S) = SumOf(Amount, S)
  BY MoneyAdds
<1>3. \A k \in K : h[k] = Total({t \in S : key[t] = k})
  OBVIOUS
<1> DEFINE parts == [k \in K |-> part(k)]
<1>5. \A k \in K : \A t : t \in parts[k] <=> t \in S /\ key[t] = k
  OBVIOUS
<1>6. \A k \in K : h[k] = SumOf(Amount, parts[k])
  BY <1>1
<1>7. IsFiniteSet(K) /\ \A t \in S : key[t] \in K
  OBVIOUS
<1> HIDE DEF h, part, parts
<1>4. SumOf(h, K) = SumOf(Amount, S)
  BY ONLY <1>2, <1>5, <1>6, <1>7, TotalGrouped
<1> QED
  BY <1>1, <1>2, <1>3, <1>4

LEMMA MoneyByKey ==
  ASSUME RulesTyped, NEW S \in SUBSET Present,
         NEW key, NEW K, IsFiniteSet(K), \A t \in S : key[t] \in K,
         NEW g, \A k \in K : g[k] = Total({t \in S : key[t] = k})
  PROVE  SumOf(g, K) = Total(S)
<1>1. PICK h : /\ \A k \in K : h[k] = Total({t \in S : key[t] = k}) /\ h[k] \in Int
               /\ SumOf(h, K) = Total(S)
  BY KeyedMoney
<1>2. \A k \in K : g[k] = h[k]
  BY <1>1
<1>3. SumOf(g, K) = SumOf(h, K)
  BY ONLY <1>2, IsFiniteSet(K), TotalSame
<1> QED
  BY <1>1, <1>3

LEMMA SpendingByKey ==
  ASSUME RulesTyped, NEW S \in SUBSET Present,
         NEW key, NEW K, IsFiniteSet(K), \A t \in S : key[t] \in K,
         NEW g, \A k \in K : g[k] = -Total({t \in S : key[t] = k})
  PROVE  SumOf(g, K) = -Total(S)
<1>1. PICK h : /\ \A k \in K : h[k] = Total({t \in S : key[t] = k}) /\ h[k] \in Int
               /\ SumOf(h, K) = Total(S)
  BY KeyedMoney
<1>2. \A k \in K : h[k] \in Int /\ g[k] = -h[k]
  BY <1>1
<1>3. SumOf(g, K) = -SumOf(h, K)
  BY ONLY <1>2, IsFiniteSet(K), TotalNegated
<1> QED
  BY <1>1, <1>3

LEMMA KindsAre ==
  ASSUME RulesTyped, NEW S \in SUBSET Present
  PROVE  /\ \A kind : OfKind(S, kind) \in SUBSET S
         /\ Counted(S) = OfKind(S, "income") \cup Out(S) /\ OfKind(S, "income") \cap Out(S) = {}
         /\ Out(S) \in SUBSET S /\ OfKind(S, "expense") \cap OfKind(S, "refund") = {}
         /\ Spent(S) = -Total(Out(S)) /\ Total(Out(S)) \in Int /\ Spent(S) \in Int
<1>1. \A t \in S : EffectiveKind(t) \in Kinds
  BY RulesAssumption DEF RulesAssumption, RulesTyped, Present, EffectiveKind, Marks
<1>2. Out(S) \in SUBSET S
  BY DEF Out, OfKind, Counted
<1>3. Total(Out(S)) \in Int
  BY <1>2, MoneyAdds
<1> QED
  BY <1>1, <1>2, <1>3 DEF Out, OfKind, Counted, Kinds, Spent

(* Whatever belongs to a part of some transactions, belongs to them. *)
LEMMA PartsAre ==
  ASSUME NEW S, NEW T, T \subseteq S
  PROVE  /\ \A kind : OfKind(T, kind) = {t \in OfKind(S, kind) : t \in T}
         /\ Out(T) = {t \in Out(S) : t \in T}
BY DEF Out, OfKind, Counted

-----------------------------------------------------------------------------
(* Months and years.                                                       *)

LEMMA MonthsAreFinite ==
  /\ IsFiniteSet(MonthsOfYear)
  /\ \A S \in SUBSET Present : \A t \in S : Month[t] \in MonthsOfYear
  /\ UNION {InMonth(m) : m \in MonthsOfYear} = Present
<1>1. IsFiniteSet(MonthsOfYear)
  BY ViewsAssumption, ImageIsFinite DEF ViewsAssumption, MonthsOfYear
<1> QED
  BY <1>1 DEF MonthsOfYear, InMonth, Present

LEMMA SeriesAddUp ==
  ASSUME RulesTyped
  PROVE  LET series == ReportSeries(MonthsOfYear)
         IN /\ ReportTotals(MonthsOfYear).income = MapThenSumSet(LAMBDA m : series[m].income, MonthsOfYear)
            /\ ReportTotals(MonthsOfYear).spending = MapThenSumSet(LAMBDA m : series[m].spending, MonthsOfYear)
<1> DEFINE M == MonthsOfYear
           S == InCurrency(Present)
           series == ReportSeries(M)
           incomes == [m \in M |-> series[m].income]
           spendings == [m \in M |-> series[m].spending]
           I == OfKind(S, "income")
           O == Out(S)
<1>1. ReportTotals(M).income = Total(I) /\ ReportTotals(M).spending = Spent(S)
  BY MonthsAreFinite DEF ReportTotals
<1>2. /\ MapThenSumSet(LAMBDA m : series[m].income, M) = SumOf(incomes, M)
      /\ MapThenSumSet(LAMBDA m : series[m].spending, M) = SumOf(spendings, M)
  BY DEF MapThenSumSet, SumOf, SumFunctionOnSet, FoldFunctionOnSet, MapThenFoldSet
<1>3. S \in SUBSET Present
  BY DEF InCurrency
<1>4. I \in SUBSET Present /\ O \in SUBSET Present /\ Spent(S) = -Total(O)
  BY <1>3, KindsAre
<1>5. ASSUME NEW m \in M
      PROVE  /\ incomes[m] = Total({t \in I : Month[t] = m})
             /\ spendings[m] = -Total({t \in O : Month[t] = m})
  <2> DEFINE R == InCurrency(InMonth(m))
  <2>1. R \in SUBSET Present /\ R \subseteq S
    BY DEF InCurrency, InMonth
  <2>2. incomes[m] = Total(OfKind(R, "income")) /\ spendings[m] = Spent(R)
    BY DEF ReportSeries
  <2>3. Spent(R) = -Total(Out(R))
    BY <2>1, KindsAre
  <2>4. \A t \in S : t \in R <=> Month[t] = m
    BY DEF InCurrency, InMonth
  <2> HIDE DEF R, S
  <2>5. OfKind(R, "income") = {t \in I : t \in R} /\ Out(R) = {t \in O : t \in R}
    BY <2>1 DEF I, O, Out, OfKind, Counted
  <2>6. I \subseteq S /\ O \subseteq S
    BY DEF OfKind, Out, Counted
  <2>7. {t \in I : t \in R} = {t \in I : Month[t] = m} /\ {t \in O : t \in R} = {t \in O : Month[t] = m}
    BY <2>4, <2>6
  <2> QED
    BY <2>2, <2>3, <2>5, <2>7
<1>6. IsFiniteSet(M) /\ (\A t \in I : Month[t] \in M) /\ (\A t \in O : Month[t] \in M)
  BY <1>4, MonthsAreFinite
<1> HIDE DEF M, S, series, incomes, spendings, I, O
<1>7. SumOf(incomes, M) = Total(I)
  <2>1. \A m \in M : incomes[m] = Total({t \in I : Month[t] = m})
    BY <1>5
  <2> QED
    BY ONLY RulesTyped, <1>4, <1>6, <2>1, MoneyByKey
<1>8. SumOf(spendings, M) = -Total(O)
  <2>1. \A m \in M : spendings[m] = -Total({t \in O : Month[t] = m})
    BY <1>5
  <2> QED
    BY ONLY RulesTyped, <1>4, <1>6, <2>1, SpendingByKey
<1>9. /\ ReportTotals(M).income = MapThenSumSet(LAMBDA m : series[m].income, M)
      /\ ReportTotals(M).spending = MapThenSumSet(LAMBDA m : series[m].spending, M)
  BY <1>1, <1>2, <1>4, <1>7, <1>8
<1> QED
  BY <1>9 DEF M, series

(* The budgets of the months, and of what has no category. *)
LEMMA SpentOfBoth ==
  ASSUME RulesTyped, NEW S \in SUBSET Present, NEW T \in SUBSET S
  PROVE  Spent(S) = Spent(T) + Spent(S \ T)
<1> DEFINE R == S \ T
<1>1. T \in SUBSET Present /\ R \in SUBSET Present /\ T \cup R = S /\ T \cap R = {}
  OBVIOUS
<1>2. Out(S) = Out(T) \cup Out(R) /\ Out(T) \cap Out(R) = {} /\ Out(T) \in SUBSET Present /\ Out(R) \in SUBSET Present
  BY <1>1 DEF Out, OfKind, Counted
<1>3. Spent(S) = -Total(Out(S)) /\ Spent(T) = -Total(Out(T)) /\ Spent(R) = -Total(Out(R))
  BY <1>1, KindsAre
<1>4. Total(Out(T)) \in Int /\ Total(Out(R)) \in Int
  BY <1>2, MoneyAdds
<1>5. Total(Out(T) \cup Out(R)) = Total(Out(T)) + Total(Out(R))
  BY <1>2, MoneyOfBoth
<1>6. Spent(S) = -(Total(Out(T)) + Total(Out(R)))
  BY <1>2, <1>3, <1>5
<1> HIDE DEF R
<1>7. Spent(S) = Spent(T) + Spent(R)
  BY <1>3, <1>4, <1>6
<1> QED
  BY <1>7 DEF R

LEMMA SpentByMonth ==
  ASSUME RulesTyped, NEW g, \A m \in MonthsOfYear : g[m] = Spent(InMonth(m))
  PROVE  SumOf(g, MonthsOfYear) = Spent(Present)
<1> DEFINE M == MonthsOfYear
           O == Out(Present)
<1>1. O \in SUBSET Present /\ Spent(Present) = -Total(O)
  BY KindsAre
<1>2. ASSUME NEW m \in M PROVE g[m] = -Total({t \in O : Month[t] = m})
  <2>1. InMonth(m) \in SUBSET Present
    BY DEF InMonth
  <2>2. Spent(InMonth(m)) = -Total(Out(InMonth(m)))
    BY <2>1, KindsAre
  <2>3. Out(InMonth(m)) = {t \in O : Month[t] = m}
    BY DEF Out, OfKind, Counted, InMonth
  <2> QED
    BY <2>2, <2>3
<1>3. IsFiniteSet(M) /\ \A t \in O : Month[t] \in M
  BY <1>1, MonthsAreFinite
<1> HIDE DEF M, O
<1>4. SumOf(g, M) = -Total(O)
  <2>1. \A m \in M : g[m] = -Total({t \in O : Month[t] = m})
    BY <1>2
  <2> QED
    BY ONLY RulesTyped, <1>1, <1>3, <2>1, SpendingByKey
<1> QED
  BY <1>1, <1>4 DEF M

(* The part of a set of transactions that a budget lists by category.      *)
Listed(S) == {t \in Out(S) : EffectiveCategory(t) # None}

LEMMA SpentByCategory ==
  ASSUME RulesTyped, NEW S \in SUBSET Present, NEW T, T \subseteq Out(S),
         NEW g, g = [c \in {EffectiveCategory(t) : t \in T} |-> Spent({t \in T : EffectiveCategory(t) = c})]
  PROVE  SumFunction(g) = -Total(T)
<1> DEFINE key == [t \in T |-> EffectiveCategory(t)]
           K == {key[t] : t \in T}
<1>1. T \in SUBSET Present /\ T \subseteq S
  BY KindsAre
<1>2. IsFiniteSet(T)
  BY <1>1, MoneyAdds
<1>3. g = [c \in K |-> Spent({t \in T : key[t] = c})] /\ \A t \in T : key[t] \in K
  OBVIOUS
<1> HIDE DEF key
<1>4. IsFiniteSet(K)
  BY <1>2, ImageIsFinite
<1>5. \A c \in K : g[c] = -Total({t \in T : key[t] = c})
  <2> SUFFICES ASSUME NEW c \in K PROVE g[c] = -Total({t \in T : key[t] = c})
    OBVIOUS
  <2> DEFINE part == {t \in T : key[t] = c}
  <2>1. part \in SUBSET Present /\ Out(part) = part
    BY <1>1 DEF Out, OfKind, Counted
  <2>2. g[c] = Spent(part)
    BY <1>3
  <2> HIDE DEF part
  <2>3. Spent(part) = -Total(Out(part))
    BY <2>1, KindsAre
  <2>4. g[c] = -Total(part)
    BY <2>1, <2>2, <2>3
  <2> QED
    BY <2>4 DEF part
<1>6. SumFunction(g) = SumOf(g, K)
  BY <1>3 DEF SumFunction, SumOf
<1> HIDE DEF K
<1>7. SumOf(g, K) = -Total(T)
  <2>1. \A t \in T : key[t] \in K
    BY <1>3
  <2> QED
    BY ONLY RulesTyped, <1>1, <1>4, <1>5, <2>1, SpendingByKey
<1> QED
  BY <1>6, <1>7

LEMMA YearsAddUp ==
  ASSUME RulesTyped
  PROVE  LET months == [m \in MonthsOfYear |-> MonthActuals(m)]
             uncategorized == {t \in Present : EffectiveCategory(t) = None}
         IN /\ BudgetReport.year = SumFunction(BudgetReport.months) - Spent(uncategorized)
            /\ YearActuals.spending = MapThenSumSet(LAMBDA m : SumFunction(months[m].by), MonthsOfYear)
<1> DEFINE M == MonthsOfYear
           months == [m \in M |-> MonthActuals(m)]
           without == {t \in Present : EffectiveCategory(t) = None}
           with == {t \in Present : EffectiveCategory(t) # None}
           spendings == BudgetReport.months
           sums == [m \in M |-> SumFunction(months[m].by)]
           O == Out(with)
<1>1. BudgetReport.year = Spent(with) /\ YearActuals.spending = Spent(with)
  BY DEF BudgetReport, YearActuals
<1>2. spendings = [m \in M |-> Spent(InMonth(m))]
  BY DEF BudgetReport, MonthActuals
<1>3. MapThenSumSet(LAMBDA m : SumFunction(months[m].by), M) = SumOf(sums, M)
  BY DEF MapThenSumSet, SumOf, SumFunctionOnSet, FoldFunctionOnSet, MapThenFoldSet
<1>4. Spent(Present) = Spent(with) + Spent(without)
  <2>1. with \in SUBSET Present /\ without = Present \ with
    OBVIOUS
  <2> HIDE DEF with, without
  <2> QED
    BY <2>1, SpentOfBoth
<1>5. Spent(with) \in Int /\ Spent(without) \in Int /\ Spent(with) = -Total(O) /\ O \in SUBSET Present
  <2>1. with \in SUBSET Present /\ without \in SUBSET Present
    OBVIOUS
  <2> HIDE DEF with, without
  <2> QED
    BY <2>1, KindsAre
<1>6. SumFunction(spendings) = Spent(Present)
  <2>1. SumFunction(spendings) = SumOf(spendings, M)
    BY <1>2 DEF SumFunction, SumOf
  <2>2. \A m \in M : spendings[m] = Spent(InMonth(m))
    BY <1>2
  <2> QED
    BY <2>1, <2>2, SpentByMonth
<1>7. ASSUME NEW m \in M PROVE sums[m] = -Total({t \in O : Month[t] = m})
  <2> DEFINE T == Listed(InMonth(m))
             by == MonthActuals(m).by
  <2>1. by = [c \in {EffectiveCategory(t) : t \in T} |-> Spent({t \in T : EffectiveCategory(t) = c})]
    BY DEF MonthActuals, Listed, Out
  <2>2. InMonth(m) \in SUBSET Present /\ T \subseteq Out(InMonth(m))
    BY DEF InMonth, Listed
  <2>3. T = {t \in O : Month[t] = m}
    BY DEF Listed, Out, OfKind, Counted, InMonth
  <2> HIDE DEF T, by
  <2>4. SumFunction(by) = -Total(T)
    BY <2>1, <2>2, SpentByCategory
  <2>5. sums[m] = SumFunction(by)
    BY DEF by
  <2> QED
    BY <2>3, <2>4, <2>5
<1>8. IsFiniteSet(M) /\ \A t \in O : Month[t] \in M
  BY <1>5, MonthsAreFinite
<1> HIDE DEF M, months, without, with, sums, O, spendings
<1>9. SumOf(sums, M) = -Total(O)
  <2>1. \A m \in M : sums[m] = -Total({t \in O : Month[t] = m})
    BY <1>7
  <2> QED
    BY ONLY RulesTyped, <1>5, <1>8, <2>1, SpendingByKey
<1>10. /\ BudgetReport.year = SumFunction(spendings) - Spent(without)
       /\ YearActuals.spending = MapThenSumSet(LAMBDA m : SumFunction(months[m].by), M)
  BY <1>1, <1>3, <1>4, <1>5, <1>6, <1>9
<1> QED
  BY <1>10 DEF M, months, without, spendings

-----------------------------------------------------------------------------
(* The map of a set of transactions.                                       *)

LEMMA RibbonsAreWide ==
  ASSUME NEW amounts, IsFiniteSet(DOMAIN amounts), \A l \in DOMAIN amounts : amounts[l] \in Int, NEW always
  PROVE  Width(Ribbons(amounts, always)) = SumFunction(amounts)
<1> DEFINE D == DOMAIN amounts
           others == Overflow(amounts, D \ always)
           shown == [l \in D \ others |-> amounts[l]]
           rest == [l \in others |-> amounts[l]]
<1>1. others \subseteq D
  BY DEF Overflow
<1>2. Ribbons(amounts, always).shown = shown
  BY DEF Ribbons
<1>3. Ribbons(amounts, always).others = SumOf(rest, others)
  BY DEF Ribbons, MapThenSumSet, SumOf, SumFunctionOnSet, FoldFunctionOnSet, MapThenFoldSet
<1>4. SumFunction(shown) = SumOf(shown, D \ others) /\ SumFunction(amounts) = SumOf(amounts, D)
  BY DEF SumFunction, SumOf
<1>5. (\A l \in D \ others : shown[l] = amounts[l]) /\ \A l \in others : rest[l] = amounts[l]
  OBVIOUS
<1> DEFINE visible == D \ others
<1>6. IsFiniteSet(visible) /\ IsFiniteSet(others) /\ visible \cup others = D /\ visible \cap others = {}
  BY <1>1, FS_Subset
<1> HIDE DEF others, shown, rest
<1>7. SumOf(shown, visible) = SumOf(amounts, visible) /\ SumOf(rest, others) = SumOf(amounts, others)
  BY <1>5, <1>6, TotalSame
<1> HIDE DEF visible
<1>8. SumOf(amounts, visible \cup others) = SumOf(amounts, visible) + SumOf(amounts, others)
  <2>1. \A l \in visible \cup others : amounts[l] \in Int
    BY <1>6
  <2> QED
    BY <1>6, <2>1, TotalUnion
<1> QED
  BY <1>2, <1>3, <1>4, <1>6, <1>7, <1>8 DEF Width, visible

LEMMA SourcesAddUp ==
  ASSUME RulesTyped, NEW S \in SUBSET Present
  PROVE  Width(Ribbons(Sources(S), {})) = Total(OfKind(S, "income"))
<1> DEFINE I == OfKind(S, "income")
           K == {Merchant[t] : t \in I}
           g == Sources(S)
<1>1. I \in SUBSET Present
  BY KindsAre
<1>2. IsFiniteSet(K)
  <2>1. IsFiniteSet(I)
    BY <1>1, MoneyAdds
  <2> HIDE DEF I
  <2> QED
    BY <2>1, ImageIsFinite
<1>3. DOMAIN g = K /\ \A l \in K : g[l] = Total({t \in I : Merchant[t] = l})
  BY DEF Sources
<1>4. \A t \in I : Merchant[t] \in K
  OBVIOUS
<1> HIDE DEF I, K, g
<1>5. \A l \in K : g[l] \in Int
  <2> SUFFICES ASSUME NEW l \in K PROVE g[l] \in Int
    OBVIOUS
  <2> DEFINE part == {t \in I : Merchant[t] = l}
  <2>1. part \in SUBSET Present /\ g[l] = Total(part)
    BY <1>1, <1>3
  <2> HIDE DEF part
  <2> QED
    BY <2>1, MoneyAdds
<1>6. SumOf(g, K) = Total(I)
  <2>1. \A l \in K : g[l] = Total({t \in I : Merchant[t] = l})
    BY <1>3
  <2> QED
    BY ONLY RulesTyped, <1>1, <1>2, <1>4, <2>1, MoneyByKey
<1>7. SumFunction(g) = SumOf(g, K)
  BY <1>3 DEF SumFunction, SumOf
<1>8. IsFiniteSet(DOMAIN g) /\ \A l \in DOMAIN g : g[l] \in Int
  BY <1>2, <1>3, <1>5
<1>9. Width(Ribbons(g, {})) = SumFunction(g)
  BY ONLY <1>8, RibbonsAreWide
<1> QED
  BY <1>6, <1>7, <1>9 DEF g, I

LEMMA OutletsAddUp ==
  ASSUME RulesTyped, NEW S \in SUBSET Present
  PROVE  Width(Ribbons(Outlets(S), Special)) = -Total(Expenses(S))
<1> DEFINE E == Expenses(S)
           key == [t \in E |-> EffectiveCategory(t)]
           K == {key[t] : t \in E}
           g == Outlets(S)
<1>1. E \in SUBSET Present
  BY KindsAre DEF Expenses
<1>2. DOMAIN g = K /\ \A l \in K : g[l] = -Total({t \in E : key[t] = l})
  BY DEF Outlets
<1>3. \A t \in E : key[t] \in K
  OBVIOUS
<1> HIDE DEF E, key
<1>4. IsFiniteSet(K)
  <2>1. IsFiniteSet(E)
    BY <1>1, MoneyAdds
  <2> QED
    BY <2>1, ImageIsFinite
<1> HIDE DEF K, g
<1>5. \A l \in K : g[l] \in Int
  <2> SUFFICES ASSUME NEW l \in K PROVE g[l] \in Int
    OBVIOUS
  <2> DEFINE part == {t \in E : key[t] = l}
  <2>1. part \in SUBSET Present /\ g[l] = -Total(part)
    BY <1>1, <1>2
  <2> HIDE DEF part
  <2>2. Total(part) \in Int
    BY <2>1, MoneyAdds
  <2> QED
    BY <2>1, <2>2
<1>6. SumOf(g, K) = -Total(E)
  <2>1. \A l \in K : g[l] = -Total({t \in E : key[t] = l})
    BY <1>2
  <2> QED
    BY ONLY RulesTyped, <1>1, <1>3, <1>4, <2>1, SpendingByKey
<1>7. SumFunction(g) = SumOf(g, K)
  BY <1>2 DEF SumFunction, SumOf
<1>8. IsFiniteSet(DOMAIN g) /\ \A l \in DOMAIN g : g[l] \in Int
  BY <1>2, <1>4, <1>5
<1>9. Width(Ribbons(g, Special)) = SumFunction(g)
  BY ONLY <1>8, RibbonsAreWide
<1> QED
  BY <1>6, <1>7, <1>9 DEF g, E

LEMMA LargerOfTwo == \A x, y \in Int : Max({x, y}) = IF x >= y THEN x ELSE y
<1> SUFFICES ASSUME NEW x \in Int, NEW y \in Int PROVE Max({x, y}) = IF x >= y THEN x ELSE y
  OBVIOUS
<1> DEFINE z == IF x >= y THEN x ELSE y
<1>1. {x, y} \in SUBSET Int /\ z \in {x, y} /\ \A w \in {x, y} : w <= z
  OBVIOUS
<1> HIDE DEF z
<1>2. Max({x, y}) = z
  BY <1>1, MaxIs
<1> QED
  BY <1>2 DEF z

LEMMA FlowIsConserved ==
  ASSUME RulesTyped, NEW S \in SUBSET Present, Flow(S).refunds >= 0
  PROVE  CashIn(S) = CashOut(S) /\ CashOut(S) = Max({Flow(S).inflow, Flow(S).spending})
<1> DEFINE income == Total(OfKind(S, "income"))
           refunds == Total(OfKind(S, "refund"))
           spending == -Total(Expenses(S))
<1>1. income \in Int /\ refunds \in Int /\ spending \in Int
  <2>1. OfKind(S, "income") \in SUBSET Present /\ OfKind(S, "refund") \in SUBSET Present /\ Expenses(S) \in SUBSET Present
    BY KindsAre DEF Expenses
  <2>2. Total(Expenses(S)) \in Int
    BY <2>1, MoneyAdds
  <2> QED
    BY <2>1, <2>2, MoneyAdds
<1>2. Width(Ribbons(Sources(S), {})) = income /\ Width(Ribbons(Outlets(S), Special)) = spending
  BY SourcesAddUp, OutletsAddUp
<1>3. /\ Flow(S).refunds = refunds /\ Flow(S).inflow = income + refunds /\ Flow(S).spending = spending
      /\ Flow(S).retained = Max({income + refunds - spending, 0})
      /\ Flow(S).shortfall = Max({spending - income - refunds, 0})
  BY DEF Flow
<1> HIDE DEF income, refunds, spending
<1>4. /\ income + refunds \in Int /\ income + refunds - spending \in Int /\ spending - income - refunds \in Int
      /\ 0 \in Int
  BY <1>1
<1>5. /\ Max({income + refunds - spending, 0}) = IF income + refunds - spending >= 0 THEN income + refunds - spending ELSE 0
      /\ Max({spending - income - refunds, 0}) = IF spending - income - refunds >= 0 THEN spending - income - refunds ELSE 0
      /\ Max({income + refunds, spending}) = IF income + refunds >= spending THEN income + refunds ELSE spending
  <2>1. Max({income + refunds - spending, 0}) = IF income + refunds - spending >= 0 THEN income + refunds - spending ELSE 0
    BY <1>4, LargerOfTwo
  <2>2. Max({spending - income - refunds, 0}) = IF spending - income - refunds >= 0 THEN spending - income - refunds ELSE 0
    BY <1>4, LargerOfTwo
  <2>3. Max({income + refunds, spending}) = IF income + refunds >= spending THEN income + refunds ELSE spending
    BY <1>1, <1>4, LargerOfTwo
  <2> QED
    BY <2>1, <2>2, <2>3
<1>6. CashIn(S) = income + refunds + Max({spending - income - refunds, 0})
  BY <1>1, <1>2, <1>3 DEF CashIn
<1>7. CashOut(S) = spending + Max({income + refunds - spending, 0})
  BY <1>2, <1>3 DEF CashOut
<1> QED
  BY <1>1, <1>3, <1>5, <1>6, <1>7

-----------------------------------------------------------------------------
(* The pages of a month.                                                   *)

LEMMA DashboardAddsUp ==
  ASSUME RulesTyped, NEW m \in MonthsOfYear
  PROVE  LET page == Dashboard(m)
         IN /\ page.income \in Int /\ page.spending \in Int
            /\ page.income - page.spending = page.daily
            /\ SumFunction(page.categories) = page.spending
<1> DEFINE S == InCurrency(InMonth(m))
           page == Dashboard(m)
           I == OfKind(S, "income")
           O == Out(S)
<1>1. S \in SUBSET Present
  BY DEF InCurrency, InMonth
<1>2. /\ page.income = Total(I) /\ page.spending = Spent(S) /\ page.daily = Total(Counted(S))
      /\ page.categories = [c \in {EffectiveCategory(t) : t \in O} |-> Spent({t \in O : EffectiveCategory(t) = c})]
  BY DEF Dashboard, Out
<1> HIDE DEF S, page
<1>3. /\ I \in SUBSET Present /\ O \in SUBSET Present /\ I \cap O = {} /\ Counted(S) = I \cup O
      /\ Spent(S) = -Total(O) /\ O \subseteq Out(S)
  BY <1>1, KindsAre
<1>4. Total(I) \in Int /\ Total(O) \in Int
  BY <1>3, MoneyAdds
<1>5. SumFunction(page.categories) = -Total(O)
  <2> DEFINE g == page.categories
  <2>1. g = [c \in {EffectiveCategory(t) : t \in O} |-> Spent({t \in O : EffectiveCategory(t) = c})]
    BY <1>2
  <2> HIDE DEF O, g
  <2> QED
    BY <1>1, <1>3, <2>1, SpentByCategory DEF g
<1> HIDE DEF I, O
<1>6. Total(I \cup O) = Total(I) + Total(O)
  BY <1>3, MoneyOfBoth
<1>7. /\ page.income \in Int /\ page.spending \in Int
      /\ page.income - page.spending = page.daily
      /\ SumFunction(page.categories) = page.spending
  BY <1>2, <1>3, <1>4, <1>5, <1>6
<1> QED
  BY <1>7 DEF page

(* An expense of nothing is no expense: the map misses none.               *)
LEMMA MapAgrees ==
  ASSUME RulesTyped, NEW m \in MonthsOfYear,
         \A t \in OfKind(InCurrency(InMonth(m)), "expense") : entry[t].amount <= 0
  PROVE  Flow(InCurrency(InMonth(m))).inflow - Flow(InCurrency(InMonth(m))).spending = Dashboard(m).daily
<1> DEFINE S == InCurrency(InMonth(m))
           I == OfKind(S, "income")
           R == OfKind(S, "refund")
           X == OfKind(S, "expense")
           E == Expenses(S)
           nothing == X \ E
<1>1. S \in SUBSET Present
  BY DEF InCurrency, InMonth
<1>2. Dashboard(m).daily = Total(Counted(S))
  BY DEF Dashboard
<1>3. Flow(S).inflow = Total(I) + Total(R) /\ Flow(S).spending = -Total(E)
  BY DEF Flow
<1>4. E = {t \in X : entry[t].amount < 0} /\ \A t \in X : entry[t].amount <= 0
  BY DEF Expenses
<1> HIDE DEF S, E
<1>5. /\ I \in SUBSET Present /\ R \in SUBSET Present /\ X \in SUBSET Present
      /\ Counted(S) = I \cup Out(S) /\ Out(S) = X \cup R /\ I \cap Out(S) = {} /\ X \cap R = {} /\ Out(S) \in SUBSET Present
  BY <1>1, KindsAre DEF Out
<1> HIDE DEF I, R, X
<1>6. E \in SUBSET Present /\ nothing \in SUBSET Present /\ E \cap nothing = {} /\ X = E \cup nothing
  BY <1>4, <1>5
<1>7. \A t \in nothing : Amount[t] = 0
  <2>1. \A t \in X : Amount[t] \in Int /\ Amount[t] = entry[t].amount
    BY <1>5, MoneyAdds
  <2> QED
    BY <1>4, <2>1
<1> HIDE DEF nothing
<1>8. Total(nothing) = 0
  <2>1. IsFiniteSet(nothing) /\ Total(nothing) = SumOf(Amount, nothing)
    BY <1>6, MoneyAdds
  <2> QED
    BY <1>7, <2>1, TotalZero
<1>9. Total(I) \in Int /\ Total(R) \in Int /\ Total(E) \in Int
  BY <1>5, <1>6, MoneyAdds
<1>10. Total(E \cup nothing) = Total(E) + Total(nothing)
  BY <1>6, MoneyOfBoth
<1>11. Total(X \cup R) = Total(X) + Total(R)
  BY <1>5, MoneyOfBoth
<1> DEFINE O == Out(S)
<1>12. Total(I \cup O) = Total(I) + Total(O)
  <2>1. O \in SUBSET Present /\ I \cap O = {}
    BY <1>5
  <2> HIDE DEF O
  <2> QED
    BY <1>5, <2>1, MoneyOfBoth
<1>13. Flow(S).inflow - Flow(S).spending = Dashboard(m).daily
  BY <1>2, <1>3, <1>5, <1>6, <1>8, <1>9, <1>10, <1>11, <1>12
<1> QED
  BY <1>13 DEF S

LEMMA TrendsAgree ==
  ASSUME RulesTyped, NEW m \in MonthsOfYear, Dashboard(m).spending >= 0,
         \A t \in InCurrency(InMonth(m)) : ~entry[t].pending
  PROVE  TrendSeries({m})[m] = [income |-> Dashboard(m).income, spending |-> Dashboard(m).spending]
<1> DEFINE S == InCurrency(InMonth(m))
           posted == {t \in S : ~entry[t].pending}
<1>1. posted = S
  OBVIOUS
<1>2. Dashboard(m).income = Total(OfKind(S, "income")) /\ Dashboard(m).spending = Spent(S)
  BY DEF Dashboard
<1>3. TrendSeries({m})[m] = [income |-> Total(OfKind(posted, "income")), spending |-> Max({Spent(posted), 0})]
  BY DEF TrendSeries
<1> HIDE DEF posted, S
<1>4. Spent(S) \in Int /\ Spent(S) >= 0
  BY <1>2, DashboardAddsUp
<1>5. Max({Spent(S), 0}) = Spent(S)
  BY <1>4, LargerOfTwo
<1> QED
  BY <1>1, <1>2, <1>3, <1>5

LEMMA BudgetAgrees ==
  ASSUME RulesTyped, NEW m \in MonthsOfYear, InMonth(m) \cap Foreign = {}
  PROVE  /\ MonthActuals(m).income = Dashboard(m).income /\ MonthActuals(m).spending = Dashboard(m).spending
         /\ \A c \in DOMAIN MonthActuals(m).by : MonthActuals(m).by[c] = Dashboard(m).categories[c]
<1> DEFINE S == InMonth(m)
           T == Listed(S)
           O == Out(S)
<1>1. InCurrency(S) = S
  BY DEF InCurrency
<1>2. /\ Dashboard(m).income = Total(OfKind(S, "income")) /\ Dashboard(m).spending = Spent(S)
      /\ Dashboard(m).categories = [c \in {EffectiveCategory(t) : t \in O} |-> Spent({t \in O : EffectiveCategory(t) = c})]
  BY <1>1 DEF Dashboard, Out
<1>3. /\ MonthActuals(m).income = Total(OfKind(S, "income")) /\ MonthActuals(m).spending = Spent(S)
      /\ MonthActuals(m).by = [c \in {EffectiveCategory(t) : t \in T} |-> Spent({t \in T : EffectiveCategory(t) = c})]
  BY DEF MonthActuals, Listed, Out
<1>4. T = {t \in O : EffectiveCategory(t) # None}
  BY DEF Listed
<1> HIDE DEF S, T, O
<1>5. ASSUME NEW c \in {EffectiveCategory(t) : t \in T}
      PROVE  c \in {EffectiveCategory(t) : t \in O} /\ {t \in T : EffectiveCategory(t) = c} = {t \in O : EffectiveCategory(t) = c}
  BY <1>4, <1>5
<1> QED
  BY <1>2, <1>3, <1>5

LEMMA ViewsDoAgree ==
  ASSUME RulesTyped
  PROVE  ViewsAgree
<1>1. MonthsMakeTheYear
  BY SeriesAddUp, YearsAddUp DEF MonthsMakeTheYear
<1>2. \A m \in MonthsOfYear : InCurrency(InMonth(m)) \in SUBSET Present
  BY DEF InCurrency, InMonth
<1>3. FlowConserved
  BY <1>2, FlowIsConserved DEF FlowConserved
<1>4. ASSUME NEW m \in MonthsOfYear
      PROVE  LET page == Dashboard(m)
                 S == InCurrency(InMonth(m))
                 figures == [income |-> page.income, spending |-> page.spending]
             IN /\ page.income - page.spending = page.daily
                /\ SumFunction(page.categories) = page.spending
                /\ ReportSeries({m})[m] = figures
                /\ (\A t \in OfKind(S, "expense") : entry[t].amount <= 0)
                     => Flow(S).inflow - Flow(S).spending = page.daily
                /\ (\A t \in S : ~entry[t].pending) /\ page.spending >= 0 => TrendSeries({m})[m] = figures
                /\ InMonth(m) \cap Foreign = {} =>
                     /\ MonthActuals(m).income = page.income /\ MonthActuals(m).spending = page.spending
                     /\ \A c \in DOMAIN MonthActuals(m).by : MonthActuals(m).by[c] = page.categories[c]
  <2>1. ReportSeries({m})[m] = [income |-> Dashboard(m).income, spending |-> Dashboard(m).spending]
    BY DEF ReportSeries, Dashboard
  <2> QED
    BY <2>1, DashboardAddsUp, MapAgrees, TrendsAgree, BudgetAgrees
<1> QED
  BY <1>1, <1>3, <1>4 DEF ViewsAgree

(* Whatever transactions, rules and overrides there are, the dashboard,    *)
(* the map, the reports, the trends and the budget sum up the same money:  *)
(* no month, category, source or ribbon counts any of it twice or leaves   *)
(* it out (finance.py dashboard_data, cash_flow.py cash_flow_sankey,       *)
(* reports.py, trends.py, budget_planning.py _month_actuals).              *)
THEOREM ViewsAlwaysAgree == RulesSpec => []ViewsAgree
<1>1. RulesTyped => ViewsAgree
  BY ViewsDoAgree
<1> QED
  BY <1>1, RulesTypedInvariant, PTL
===============================================================================
