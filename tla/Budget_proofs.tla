----------------------------- MODULE Budget_proofs -----------------------------
(***************************************************************************)
(* The arithmetic of the planning pages, for all amounts and lengths:      *)
(*   - no money appears or is lost between a plan and its months, nor      *)
(*     between one month and the next;                                     *)
(*   - every payment and all interest of a debt is in its balance;         *)
(*   - paying the highest rate first costs the least interest;             *)
(*   - the calendar is one cash path that leaves no debt out.              *)
(***************************************************************************)
EXTENDS BudgetPlanning, DebtPayoff, CashCalendar, SumLemmas

(* What is stored of a category, in a plan and in a month. *)
LineFits(line) ==
  /\ line.mode \in Modes
  /\ \/ line.distribution = "even" /\ line.total \in Nat
     \/ line.distribution = "monthly" /\ line.monthly \in Nat /\ line.total = YearLength * line.monthly
     \/ /\ line.distribution = "custom" /\ line.custom \in [Months -> Nat]
        /\ line.total = SumFunction(line.custom)

BaseFits(base) ==
  /\ base = [c \in DOMAIN base |-> base[c]] /\ DOMAIN base \subseteq Categories
  /\ \A c \in DOMAIN base : base[c].amount \in Int /\ base[c].mode \in Modes

BudgetInv ==
  /\ plan # Absent => DOMAIN plan \subseteq Categories /\ \A c \in DOMAIN plan : LineFits(plan[c])
  /\ months = [m \in Months |-> months[m]]
  /\ \A m \in Months : months[m] # Absent => BaseFits(months[m].rows)
  /\ spent \in [Months -> [Categories -> Int]]

LEMMA MonthsAre ==
  /\ YearLength \in Nat /\ YearLength >= 1
  /\ \A m \in Months : m \in Nat /\ m >= 1 /\ m <= YearLength
  /\ \A m \in Nat : m >= 1 /\ m <= YearLength => m \in Months
BY BudgetAssumption DEF BudgetAssumption, Months

LEMMA LinesFit == \A line \in Lines : LineFits(line)
<1> SUFFICES ASSUME NEW line \in Lines PROVE LineFits(line)
  OBVIOUS
<1>1. \/ \E a \in Totals, mode \in Modes :
           line = [distribution |-> "even", total |-> a, monthly |-> Absent, custom |-> Absent, mode |-> mode]
      \/ \E a \in Amounts, mode \in Modes :
           line = [distribution |-> "monthly", total |-> YearLength * a, monthly |-> a, custom |-> Absent, mode |-> mode]
      \/ \E c \in Customs, mode \in Modes :
           line = [distribution |-> "custom", total |-> SumFunction(c), monthly |-> Absent, custom |-> c, mode |-> mode]
  BY DEF Lines
<1> QED
  BY <1>1, BudgetAssumption DEF LineFits, BudgetAssumption, Months

LEMMA AnnualBaseFits ==
  ASSUME BudgetInv, NEW m \in Months
  PROVE  BaseFits(AnnualBase(m))
<1>1. CASE plan = Absent
  BY <1>1 DEF AnnualBase, BaseFits
<1>2. CASE plan # Absent
  <2>1. /\ DOMAIN AnnualBase(m) = DOMAIN plan
        /\ AnnualBase(m) = [c \in DOMAIN plan |-> AnnualBase(m)[c]]
    BY <1>2 DEF AnnualBase
  <2>2. ASSUME NEW c \in DOMAIN plan PROVE AnnualBase(m)[c].amount \in Int /\ AnnualBase(m)[c].mode \in Modes
    <3>1. LineFits(plan[c])
      BY <1>2 DEF BudgetInv
    <3>2. AnnualBase(m)[c].mode = plan[c].mode
      BY <1>2 DEF AnnualBase
    <3>3. CASE plan[c].distribution = "even"
      <4>1. AnnualBase(m)[c].amount = HalfUp(plan[c].total, YearLength) /\ plan[c].total \in Nat
        BY <1>2, <3>1, <3>3 DEF AnnualBase, LineFits
      <4>2. 2 * plan[c].total + YearLength \in Nat /\ 2 * YearLength \in Nat \ {0}
        BY <4>1, MonthsAre
      <4> QED
        BY <3>1, <3>2, <4>1, <4>2 DEF HalfUp, LineFits
    <3>4. CASE plan[c].distribution = "monthly"
      BY <1>2, <3>1, <3>2, <3>4 DEF AnnualBase, LineFits
    <3>5. CASE plan[c].distribution = "custom"
      BY <1>2, <3>1, <3>2, <3>5 DEF AnnualBase, LineFits
    <3> QED
      BY <3>1, <3>3, <3>4, <3>5 DEF LineFits
  <2> QED
    BY <1>2, <2>1, <2>2 DEF BaseFits, BudgetInv
<1> QED
  BY <1>1, <1>2

LEMMA MonthBaseFits ==
  ASSUME BudgetInv, NEW m \in Months
  PROVE  BaseFits(MonthBase(m))
<1>1. CASE months[m] = Absent
  <2>1. MonthBase(m) = AnnualBase(m)
    BY <1>1 DEF MonthBase
  <2> QED
    BY <2>1, AnnualBaseFits
<1>2. CASE months[m] # Absent /\ months[m].mode = "standalone"
  <2>1. MonthBase(m) = months[m].rows
    BY <1>2 DEF MonthBase
  <2> QED
    BY <1>2, <2>1 DEF BudgetInv
<1>3. CASE months[m] # Absent /\ months[m].mode # "standalone"
  <2> DEFINE rows == months[m].rows
             annual == AnnualBase(m)
  <2>1. BaseFits(rows) /\ BaseFits(annual)
    BY <1>3, AnnualBaseFits DEF BudgetInv
  <2>2. MonthBase(m) = [c \in DOMAIN rows \cup DOMAIN annual |-> IF c \in DOMAIN rows THEN rows[c] ELSE annual[c]]
    BY <1>3 DEF MonthBase
  <2> HIDE DEF rows, annual
  <2> QED
    BY <2>1, <2>2 DEF BaseFits
<1> QED
  BY <1>1, <1>2, <1>3

LEMMA BudgetStep ==
  ASSUME BudgetInv, BudgetNext
  PROVE  BudgetInv'
<1>1. CASE PutAnnualPlan
  <2>1. PICK part \in SUBSET Categories : plan' \in [part -> Lines]
    BY <1>1 DEF PutAnnualPlan, PartOf
  <2> QED
    BY <1>1, <2>1, LinesFit DEF PutAnnualPlan, BudgetInv, BaseFits
<1>2. ASSUME NEW m \in Months, PutMonthlyBudget(m) PROVE BudgetInv'
  <2>1. PICK mode \in {"standalone", "override"}, rows \in PartOf(Categories, Rows) :
          months' = [months EXCEPT ![m] = [mode |-> mode, rows |-> rows]]
    BY <1>2 DEF PutMonthlyBudget
  <2>2. BaseFits(rows)
    BY BudgetAssumption DEF PartOf, Rows, BaseFits, BudgetAssumption
  <2> QED
    BY <1>2, <2>1, <2>2 DEF PutMonthlyBudget, BudgetInv, BaseFits
<1>3. ASSUME NEW m \in Months, DeleteMonthlyBudget(m) PROVE BudgetInv'
  BY <1>3 DEF DeleteMonthlyBudget, BudgetInv, BaseFits
<1>4. ASSUME NEW m \in Months, CopyPreviousMonth(m) PROVE BudgetInv'
  <2>1. m - 1 \in Months
    BY <1>4, MonthsAre DEF CopyPreviousMonth
  <2>2. BaseFits(MonthBase(m - 1))
    BY <2>1, MonthBaseFits
  <2> DEFINE base == MonthBase(m - 1)
             copied == [mode |-> "standalone", rows |-> base]
  <2>3. months' = [months EXCEPT ![m] = copied] /\ plan' = plan /\ spent' = spent
    BY <1>4 DEF CopyPreviousMonth
  <2>4. copied.rows = base /\ BaseFits(base)
    BY <2>2
  <2> HIDE DEF base, copied
  <2>5. /\ months' = [k \in Months |-> months'[k]]
        /\ \A k \in Months : months'[k] = IF k = m THEN copied ELSE months[k]
    BY <2>3 DEF BudgetInv
  <2>6. \A k \in Months : months'[k] # Absent => BaseFits(months'[k].rows)
    BY <2>4, <2>5 DEF BudgetInv
  <2> QED
    BY <2>3, <2>5, <2>6 DEF BudgetInv, BaseFits, LineFits
<1>5. ASSUME NEW m \in Months, Spend(m) PROVE BudgetInv'
  <2>1. PICK c \in Categories, x \in Spending : spent' = [spent EXCEPT ![m][c] = x]
    BY <1>5 DEF Spend
  <2>2. x \in Int
    BY BudgetAssumption DEF BudgetAssumption
  <2>3. spent' \in [Months -> [Categories -> Int]]
    BY <2>1, <2>2 DEF BudgetInv
  <2> QED
    BY <1>5, <2>3 DEF Spend, BudgetInv, BaseFits
<1> QED
  BY <1>1, <1>2, <1>3, <1>4, <1>5 DEF BudgetNext

LEMMA BudgetInvariant == BudgetSpec => []BudgetInv
<1>1. BudgetInit => BudgetInv
  BY DEF BudgetInit, BudgetInv
<1>2. BudgetInv /\ [BudgetNext]_budgetVars => BudgetInv'
  <2>1. BudgetInv /\ UNCHANGED budgetVars => BudgetInv'
    BY DEF BudgetInv, budgetVars, BaseFits
  <2> QED
    BY <2>1, BudgetStep
<1> QED
  BY <1>1, <1>2, PTL DEF BudgetSpec

-----------------------------------------------------------------------------
(* A year without exceptions.                                              *)

LEMMA HalfUpIsClose ==
  ASSUME NEW a \in Nat, NEW n \in Nat \ {0}
  PROVE  HalfUp(a, n) \in Int /\ 2 * (n * HalfUp(a, n) - a) \in -n .. n
<1> DEFINE q == (2 * a + n) \div (2 * n)
           r == (2 * a + n) % (2 * n)
<1>1. 2 * a + n \in Int /\ 2 * n \in Nat /\ 2 * n > 0
  OBVIOUS
<1>2. q \in Int /\ r \in Int /\ 0 <= r /\ r < 2 * n /\ 2 * a + n = (2 * n) * q + r
  BY <1>1
<1>3. HalfUp(a, n) = q
  BY DEF HalfUp
<1> HIDE DEF q, r
<1> DEFINE p == n * q
<1>4. p \in Int /\ (2 * n) * q = 2 * p
  BY <1>2
<1> HIDE DEF p
<1>5. 2 * (p - a) <= n /\ 2 * (p - a) >= -n
  BY <1>2, <1>4
<1> QED
  BY <1>2, <1>3, <1>4, <1>5 DEF p

LEMMA MonthsDoAddUp == BudgetInv => MonthsAddUp
<1> SUFFICES ASSUME BudgetInv, plan # Absent, months = [m \in Months |-> Absent], NEW c \in DOMAIN plan
             PROVE  LET off == MapThenSumSet(LAMBDA m : MonthBase(m)[c].amount, Months) - plan[c].total
                    IN IF plan[c].distribution = "even" THEN 2 * off \in -YearLength .. YearLength ELSE off = 0
  BY DEF MonthsAddUp
<1> DEFINE f == [m \in Months |-> MonthBase(m)[c].amount]
           sum == SumOf(f, Months)
           line == plan[c]
<1>1. MapThenSumSet(LAMBDA m : MonthBase(m)[c].amount, Months) = sum
  BY DEF MapThenSumSet, SumOf, SumFunctionOnSet, FoldFunctionOnSet, MapThenFoldSet
<1>2. LineFits(line)
  BY DEF BudgetInv
<1>3. IsFiniteSet(Months) /\ Cardinality(Months) = YearLength /\ YearLength \in Nat \ {0}
  BY MonthsAre, FS_Interval DEF Months
<1>4. \A m \in Months :
        /\ line.distribution = "even" => f[m] = HalfUp(line.total, YearLength)
        /\ line.distribution = "monthly" => f[m] = line.monthly
        /\ line.distribution = "custom" => f[m] = line.custom[m]
  <2> SUFFICES ASSUME NEW m \in Months
               PROVE  /\ line.distribution = "even" => AnnualBase(m)[c].amount = HalfUp(line.total, YearLength)
                      /\ line.distribution = "monthly" => AnnualBase(m)[c].amount = line.monthly
                      /\ line.distribution = "custom" => AnnualBase(m)[c].amount = line.custom[m]
    BY DEF MonthBase
  <2>1. CASE line.distribution = "even"
    BY <2>1 DEF AnnualBase
  <2>2. CASE line.distribution = "monthly"
    BY <2>2 DEF AnnualBase
  <2>3. CASE line.distribution = "custom"
    BY <2>3 DEF AnnualBase
  <2> QED
    BY <2>1, <2>2, <2>3
<1> HIDE DEF f, line
<1>5. CASE line.distribution = "even"
  <2> DEFINE q == HalfUp(line.total, YearLength)
  <2>1. line.total \in Nat /\ q \in Int /\ \A m \in Months : f[m] = q
    BY <1>2, <1>3, <1>4, <1>5, HalfUpIsClose DEF LineFits
  <2>2. 2 * (YearLength * q - line.total) \in -YearLength .. YearLength
    BY <1>3, <2>1, HalfUpIsClose
  <2> HIDE DEF q
  <2>3. sum = YearLength * q
    BY <1>3, <2>1, TotalConstant
  <2> QED
    BY <1>1, <1>5, <2>2, <2>3 DEF line
<1>6. CASE line.distribution = "monthly"
  <2> DEFINE q == line.monthly
  <2>1. q \in Int /\ (\A m \in Months : f[m] = q) /\ line.total = YearLength * q /\ YearLength * q \in Int
    BY <1>2, <1>3, <1>4, <1>6 DEF LineFits
  <2> HIDE DEF q
  <2>2. sum = YearLength * q
    BY <1>3, <2>1, TotalConstant
  <2>3. sum - line.total = 0
    BY <2>1, <2>2
  <2> QED
    BY <1>1, <1>6, <2>3 DEF line
<1>7. CASE line.distribution = "custom"
  <2> DEFINE g == line.custom
  <2>1. g \in [Months -> Nat] /\ (\A m \in Months : f[m] = g[m]) /\ line.total = SumFunction(g)
    BY <1>2, <1>4, <1>7 DEF LineFits
  <2> HIDE DEF g
  <2>2. line.total = SumOf(g, Months)
    BY <2>1 DEF SumFunction, SumOf
  <2>3. sum = SumOf(g, Months) /\ SumOf(g, Months) \in Int
    BY <1>3, <2>1, TotalSame, TotalType
  <2>4. sum - line.total = 0
    BY <2>2, <2>3
  <2> QED
    BY <1>1, <1>7, <2>4 DEF line
<1> QED
  BY <1>2, <1>5, <1>6, <1>7 DEF LineFits

-----------------------------------------------------------------------------
(* There is one function that carries: the recursion over months ends.     *)

CarriedInto(previous, m) ==
  LET carried == IF m = 1 THEN <<>>
                 ELSE CarriedOn(MonthBase(m - 1), previous, spent[m - 1])
  IN [c \in DOMAIN MonthBase(m) |-> IF c \in DOMAIN carried THEN carried[c] ELSE 0]

AreCarries(g, n) == g = [m \in 1 .. n |-> CarriedInto(g[m - 1], m)]

LEMMA CarriesExist == \E g : AreCarries(g, YearLength)
<1> DEFINE bad == {n \in Months : ~ \E g : AreCarries(g, n)}
<1> SUFFICES ASSUME bad # {} PROVE FALSE
  BY MonthsAre
<1>1. bad \in SUBSET Nat
  BY MonthsAre
<1> DEFINE n == Min(bad)
<1> HIDE DEF bad, n
<1>2. n \in bad /\ \A k \in bad : n <= k
  BY <1>1, HasFirst DEF n
<1>3. n \in Nat /\ n >= 1 /\ n <= YearLength /\ ~ \E g : AreCarries(g, n)
  BY <1>2, MonthsAre DEF bad
<1>4. \A x, y : CarriedInto(x, 1) = CarriedInto(y, 1)
  BY DEF CarriedInto
<1>5. PICK g : n > 1 => AreCarries(g, n - 1)
  <2>1. n > 1 => n - 1 \in Months /\ n - 1 \notin bad
    BY <1>2, <1>3, MonthsAre
  <2> QED
    BY <2>1 DEF bad
<1> DEFINE h == [m \in 1 .. n |-> IF m = n THEN CarriedInto(g[n - 1], n) ELSE g[m]]
<1>6. \A m \in 1 .. n : h[m] = CarriedInto(h[m - 1], m)
  <2> SUFFICES ASSUME NEW m \in 1 .. n PROVE h[m] = CarriedInto(h[m - 1], m)
    OBVIOUS
  <2>1. CASE m = 1 /\ m = n
    <3>1. h[m] = CarriedInto(g[n - 1], 1)
      BY <2>1
    <3> HIDE DEF h
    <3> QED
      BY <1>4, <2>1, <3>1
  <2>2. CASE m = 1 /\ m # n
    <3>1. h[m] = CarriedInto(g[m - 1], 1)
      BY <1>3, <1>5, <2>2 DEF AreCarries
    <3> HIDE DEF h
    <3> QED
      BY <1>4, <2>2, <3>1
  <2>3. CASE m # 1
    <3>1. m - 1 \in 1 .. n /\ m - 1 # n /\ h[m - 1] = g[m - 1]
      BY <1>3, <2>3
    <3>2. h[m] = CarriedInto(g[m - 1], m)
      BY <1>3, <1>5, <2>3 DEF AreCarries
    <3> HIDE DEF h
    <3> QED
      BY <3>1, <3>2
  <2> QED
    BY <2>1, <2>2, <2>3
<1>7. h = [m \in 1 .. n |-> h[m]]
  OBVIOUS
<1> HIDE DEF h
<1>8. AreCarries(h, n)
  BY <1>6, <1>7 DEF AreCarries
<1> QED
  BY <1>3, <1>8

LEMMA CarriesAre == AreCarries(Carries, YearLength)
<1>1. Carries = CHOOSE g : AreCarries(g, YearLength)
  BY DEF Carries, AreCarries, CarriedInto, Months
<1> QED
  BY <1>1, CarriesExist

LEMMA CarryAt ==
  ASSUME NEW m \in Months, NEW c \in DOMAIN MonthBase(m)
  PROVE  /\ m = 1 \/ ~Rolls(m - 1, c) => Carries[m][c] = 0
         /\ m > 1 /\ Rolls(m - 1, c) =>
              LET delta == MonthBase(m - 1)[c].amount + Carries[m - 1][c] - spent[m - 1][c]
              IN Carries[m][c] = IF MonthBase(m - 1)[c].mode = "surplus" THEN Max({delta, 0}) ELSE delta
<1>1. Carries[m] = CarriedInto(Carries[m - 1], m)
  BY CarriesAre DEF AreCarries, Months
<1>2. CASE m = 1
  BY <1>1, <1>2 DEF CarriedInto
<1>3. CASE m # 1
  <2> DEFINE base == MonthBase(m - 1)
             carried == CarriedOn(base, Carries[m - 1], spent[m - 1])
             delta == base[c].amount + Carries[m - 1][c] - spent[m - 1][c]
  <2>1. Carries[m][c] = IF c \in DOMAIN carried THEN carried[c] ELSE 0
    BY <1>1, <1>3 DEF CarriedInto
  <2>2. c \in DOMAIN carried <=> Rolls(m - 1, c)
    BY DEF CarriedOn, Rolls
  <2>3. Rolls(m - 1, c) => carried[c] = IF base[c].mode = "surplus" THEN Max({delta, 0}) ELSE delta
    BY DEF CarriedOn, Rolls
  <2> HIDE DEF carried
  <2> QED
    BY <1>3, <2>1, <2>2, <2>3
<1> QED
  BY <1>2, <1>3

-----------------------------------------------------------------------------
(* Since when a category is carried.                                       *)

Start(m, c) == Max({0} \cup {k \in 1 .. m - 1 : ~Rolls(k, c)})
Fresh(m, c) == {k \in Start(m, c) + 1 .. m - 1 : MonthBase(k)[c].mode = "surplus"}
Left(m, c) == {LeftOver(c, k + 1, m - 1) : k \in Fresh(m, c) \cup {Start(m, c)}}

LEMMA StartIs ==
  ASSUME NEW m \in Months, NEW c
  PROVE  /\ Start(m, c) \in Nat /\ Start(m, c) <= m - 1
         /\ \A k \in Start(m, c) + 1 .. m - 1 : k \in Months /\ Rolls(k, c)
         /\ m = 1 \/ ~Rolls(m - 1, c) => Start(m, c) = m - 1
         /\ m > 1 /\ Rolls(m - 1, c) => Start(m, c) = Start(m - 1, c) /\ Start(m, c) < m - 1
<1> DEFINE S == {0} \cup {k \in 1 .. m - 1 : ~Rolls(k, c)}
           s == Max(S)
<1>1. m \in Nat /\ m >= 1 /\ m <= YearLength /\ YearLength \in Nat
  BY MonthsAre
<1>2. S \in SUBSET Nat /\ S # {} /\ m - 1 \in Nat /\ \A x \in S : x <= m - 1
  BY <1>1
<1>3. Start(m, c) = s
  BY DEF Start
<1> HIDE DEF S, s
<1>4. s \in S /\ \A x \in S : x <= s
  BY <1>2, HasLast DEF s
<1>5. s \in Nat /\ s <= m - 1
  BY <1>2, <1>4
<1>6. \A k \in s + 1 .. m - 1 : k \in Months /\ Rolls(k, c)
  <2> SUFFICES ASSUME NEW k \in s + 1 .. m - 1 PROVE k \in Months /\ Rolls(k, c)
    OBVIOUS
  <2>1. k \in Nat /\ k >= 1 /\ k <= m - 1 /\ k > s
    BY <1>1, <1>5
  <2>2. k \notin S
    BY <1>4, <1>5, <2>1
  <2> QED
    BY <1>1, <2>1, <2>2, MonthsAre DEF S
<1>7. m = 1 \/ ~Rolls(m - 1, c) => s = m - 1
  <2>1. m = 1 \/ ~Rolls(m - 1, c) => m - 1 \in S
    BY <1>1 DEF S
  <2> QED
    BY <1>1, <1>4, <1>5, <2>1
<1>8. m > 1 /\ Rolls(m - 1, c) => s = Start(m - 1, c) /\ s < m - 1
  <2> SUFFICES ASSUME m > 1, Rolls(m - 1, c) PROVE s = Start(m - 1, c) /\ s < m - 1
    OBVIOUS
  <2>1. S = {0} \cup {k \in 1 .. (m - 1) - 1 : ~Rolls(k, c)}
    BY <1>1 DEF S
  <2>2. s # m - 1
    BY <1>1, <1>4 DEF S
  <2> QED
    BY <1>1, <1>5, <2>1, <2>2 DEF Start, s
<1> QED
  BY <1>3, <1>5, <1>6, <1>7, <1>8

-----------------------------------------------------------------------------
(* What is left over of some months, one month at a time.                  *)

LEMMA LeftOverOfNone == \A c : \A n \in Nat : LeftOver(c, n + 1, n) = 0
<1> SUFFICES ASSUME NEW c, NEW n \in Nat PROVE LeftOver(c, n + 1, n) = 0
  OBVIOUS
<1> DEFINE f == [k \in n + 1 .. n |-> MonthBase(k)[c].amount - spent[k][c]]
<1>1. LeftOver(c, n + 1, n) = SumOf(f, n + 1 .. n)
  BY DEF LeftOver, MapThenSumSet, SumOf, SumFunctionOnSet, FoldFunctionOnSet, MapThenFoldSet
<1> HIDE DEF f
<1>2. n + 1 .. n = {}
  OBVIOUS
<1> QED
  BY <1>1, <1>2, TotalEmpty

LEMMA LeftOverNext ==
  ASSUME BudgetInv, NEW c, NEW a \in Nat, NEW b \in Nat, a >= 1, a <= b, b <= YearLength,
         \A k \in a .. b : Rolls(k, c)
  PROVE  /\ LeftOver(c, a, b) = LeftOver(c, a, b - 1) + (MonthBase(b)[c].amount - spent[b][c])
         /\ LeftOver(c, a, b) \in Int /\ LeftOver(c, a, b - 1) \in Int
<1> DEFINE f == [k \in a .. b |-> MonthBase(k)[c].amount - spent[k][c]]
           g == [k \in a .. b - 1 |-> MonthBase(k)[c].amount - spent[k][c]]
           S == a .. b
           T == a .. b - 1
<1>1. LeftOver(c, a, b) = SumOf(f, S) /\ LeftOver(c, a, b - 1) = SumOf(g, T)
  BY DEF LeftOver, MapThenSumSet, SumOf, SumFunctionOnSet, FoldFunctionOnSet, MapThenFoldSet
<1>2. \A k \in S : f[k] \in Int
  <2> SUFFICES ASSUME NEW k \in a .. b PROVE MonthBase(k)[c].amount - spent[k][c] \in Int
    OBVIOUS
  <2>1. k \in Months /\ Rolls(k, c)
    BY MonthsAre
  <2>2. BaseFits(MonthBase(k)) /\ c \in DOMAIN MonthBase(k)
    BY <2>1, MonthBaseFits DEF Rolls
  <2>3. MonthBase(k)[c].amount \in Int /\ c \in Categories
    BY <2>2 DEF BaseFits
  <2>4. spent[k][c] \in Int
    BY <2>1, <2>3 DEF BudgetInv
  <2> QED
    BY <2>3, <2>4
<1>3. /\ IsFiniteSet(S) /\ IsFiniteSet(T) /\ b \in S /\ T = S \ {b}
      /\ f[b] = MonthBase(b)[c].amount - spent[b][c] /\ \A k \in T : g[k] = f[k] /\ f[k] \in Int
  <2>1. a .. b \in SUBSET Int /\ IsFiniteSet(a .. b)
    BY FS_Interval
  <2>2. b \in S /\ T = S \ {b}
    OBVIOUS
  <2> QED
    BY <1>2, <2>1, <2>2, FS_Subset
<1> HIDE DEF f, g, S, T
<1>4. SumOf(f, S) = f[b] + SumOf(f, S \ {b})
  <2>1. IsFiniteSet(S)
    BY <1>3
  <2>2. b \in S
    BY <1>3
  <2>3. \A x \in S : SumOf(f, S) = f[x] + SumOf(f, S \ {x})
    BY ONLY <1>2, <2>1, TotalRemoves
  <2> QED
    BY ONLY <2>2, <2>3
<1>5. SumOf(g, T) = SumOf(f, T) /\ SumOf(f, T) \in Int /\ SumOf(f, S) \in Int
  <2>1. IsFiniteSet(T) /\ \A k \in T : g[k] = f[k]
    BY <1>3
  <2>2. SumOf(g, T) = SumOf(f, T)
    BY ONLY <2>1, TotalSame
  <2> QED
    BY <2>2, <1>2, <1>3, TotalType
<1>6. f[b] \in Int
  BY <1>2, <1>3
<1> QED
  BY <1>1, <1>3, <1>4, <1>5, <1>6

-----------------------------------------------------------------------------
(* What is carried is the most that any starting point leaves over.        *)

IsMost(x, S) == S \in SUBSET Int /\ x \in S /\ \A y \in S : y <= x

(* A month that starts again starts from nothing. *)
LEMMA StartsFromNothing ==
  ASSUME NEW m \in Months, NEW c \in DOMAIN MonthBase(m), m = 1 \/ ~Rolls(m - 1, c)
  PROVE  IsMost(Carries[m][c], Left(m, c))
<1>1. Start(m, c) = m - 1 /\ m - 1 \in Nat /\ m \in Nat
  BY StartIs, MonthsAre
<1>2. Fresh(m, c) = {}
  <2>1. (m - 1) + 1 .. m - 1 = {}
    BY <1>1
  <2> QED
    BY <1>1, <2>1 DEF Fresh
<1>3. LeftOver(c, (m - 1) + 1, m - 1) = 0
  BY <1>1, LeftOverOfNone
<1>4. Left(m, c) = {0}
  BY <1>1, <1>2, <1>3 DEF Left
<1>5. Carries[m][c] = 0
  BY CarryAt
<1> QED
  BY <1>4, <1>5 DEF IsMost

(* Every starting point leaves over what the last month adds, and a month  *)
(* that carries only surpluses is a new one.                               *)
LEMMA LeftOverGrows ==
  ASSUME BudgetInv, NEW m \in Months, NEW c, m > 1, Rolls(m - 1, c)
  PROVE  LET d == MonthBase(m - 1)[c].amount - spent[m - 1][c]
             before == {x + d : x \in Left(m - 1, c)}
         IN /\ d \in Int /\ Left(m - 1, c) \in SUBSET Int
            /\ MonthBase(m - 1)[c].mode = "surplus" => Left(m, c) = before \cup {0}
            /\ MonthBase(m - 1)[c].mode # "surplus" => Left(m, c) = before
<1> DEFINE d == MonthBase(m - 1)[c].amount - spent[m - 1][c]
           before == {x + d : x \in Left(m - 1, c)}
           s == Start(m, c)
           past == Fresh(m - 1, c) \cup {s}
<1>1. m \in Nat /\ m <= YearLength /\ YearLength \in Nat /\ m - 1 \in Months /\ m - 1 \in Nat
  BY MonthsAre
<1>2. /\ s \in Nat /\ s < m - 1 /\ s = Start(m - 1, c)
      /\ \A k \in s + 1 .. m - 1 : k \in Months /\ Rolls(k, c)
  BY StartIs
<1> HIDE DEF s
<1>3. \A k \in past : k \in Nat /\ k >= s /\ k + 1 <= m - 1
  BY <1>1, <1>2 DEF Fresh
<1>4. \A k \in past : /\ LeftOver(c, k + 1, m - 1) = LeftOver(c, k + 1, (m - 1) - 1) + d
                      /\ LeftOver(c, k + 1, (m - 1) - 1) \in Int
  <2> SUFFICES ASSUME NEW k \in past
               PROVE  /\ LeftOver(c, k + 1, m - 1) = LeftOver(c, k + 1, (m - 1) - 1) + d
                      /\ LeftOver(c, k + 1, (m - 1) - 1) \in Int
    OBVIOUS
  <2>1. k + 1 \in Nat /\ k + 1 >= 1 /\ k + 1 <= m - 1 /\ m - 1 <= YearLength
    BY <1>1, <1>3
  <2>2. \A j \in k + 1 .. m - 1 : Rolls(j, c)
    BY <1>1, <1>2, <1>3
  <2> HIDE DEF past
  <2> QED
    BY <1>1, <2>1, <2>2, LeftOverNext
<1>5. Left(m - 1, c) = {LeftOver(c, k + 1, (m - 1) - 1) : k \in past}
  BY <1>2 DEF Left
<1>6. Fresh(m, c) = Fresh(m - 1, c) \cup {k \in {m - 1} : MonthBase(k)[c].mode = "surplus"}
  <2>1. s + 1 .. m - 1 = (s + 1 .. (m - 1) - 1) \cup {m - 1}
    BY <1>1, <1>2
  <2> QED
    BY <1>2, <2>1 DEF Fresh, s
<1>7. LeftOver(c, (m - 1) + 1, m - 1) = 0
  BY <1>1, LeftOverOfNone
<1>8. Left(m, c) = {LeftOver(c, k + 1, m - 1) : k \in Fresh(m, c) \cup {s}}
  BY DEF Left, s
<1>9. d \in Int
  <2>1. BaseFits(MonthBase(m - 1)) /\ c \in DOMAIN MonthBase(m - 1)
    BY <1>1, MonthBaseFits DEF Rolls
  <2>2. MonthBase(m - 1)[c].amount \in Int /\ c \in Categories
    BY <2>1 DEF BaseFits
  <2>3. spent[m - 1][c] \in Int
    BY <1>1, <2>2 DEF BudgetInv
  <2> QED
    BY <2>2, <2>3
<1> HIDE DEF d
<1>10. before = {LeftOver(c, k + 1, m - 1) : k \in past}
  BY <1>4, <1>5
<1>11. Left(m - 1, c) \in SUBSET Int
  BY <1>4, <1>5
<1>12. ASSUME MonthBase(m - 1)[c].mode = "surplus" PROVE Left(m, c) = before \cup {0}
  <2>1. Fresh(m, c) \cup {s} = past \cup {m - 1}
    BY <1>6, <1>12
  <2> HIDE DEF past, before
  <2> QED
    BY <1>7, <1>8, <1>10, <2>1
<1>13. ASSUME MonthBase(m - 1)[c].mode # "surplus" PROVE Left(m, c) = before
  <2>1. Fresh(m, c) \cup {s} = past
    BY <1>6, <1>13
  <2> HIDE DEF past, before
  <2> QED
    BY <1>8, <1>10, <2>1
<1> QED
  BY <1>9, <1>11, <1>12, <1>13 DEF d

LEMMA CarriesOn ==
  ASSUME BudgetInv, NEW m \in Months, NEW c \in DOMAIN MonthBase(m), m > 1, Rolls(m - 1, c),
         IsMost(Carries[m - 1][c], Left(m - 1, c))
  PROVE  IsMost(Carries[m][c], Left(m, c))
<1> DEFINE amount == MonthBase(m - 1)[c].amount
           paid == spent[m - 1][c]
           carry == Carries[m - 1][c]
           S == Left(m - 1, c)
           d == amount - paid
           before == {x + d : x \in S}
           delta == amount + carry - paid
<1>1. amount \in Int /\ paid \in Int
  <2>1. m - 1 \in Months
    BY MonthsAre
  <2>2. BaseFits(MonthBase(m - 1)) /\ c \in DOMAIN MonthBase(m - 1)
    BY <2>1, MonthBaseFits DEF Rolls
  <2>3. MonthBase(m - 1)[c].amount \in Int /\ c \in Categories
    BY <2>2 DEF BaseFits
  <2>4. spent[m - 1][c] \in Int
    BY <2>1, <2>3 DEF BudgetInv
  <2> QED
    BY <2>3, <2>4
<1>2. IsMost(carry, S)
  OBVIOUS
<1>3. /\ MonthBase(m - 1)[c].mode = "surplus" => Left(m, c) = before \cup {0}
      /\ MonthBase(m - 1)[c].mode # "surplus" => Left(m, c) = before
  BY LeftOverGrows
<1>4. Carries[m][c] = IF MonthBase(m - 1)[c].mode = "surplus" THEN Max({delta, 0}) ELSE delta
  BY CarryAt
<1> HIDE DEF amount, paid, carry, S
<1>5. IsMost(delta, before)
  BY <1>1, <1>2 DEF IsMost
<1> HIDE DEF before, delta
<1>6. CASE MonthBase(m - 1)[c].mode = "surplus"
  <2>1. delta \in Int /\ \A y \in before : y \in Int /\ y <= delta
    BY <1>5 DEF IsMost
  <2> DEFINE x == IF delta >= 0 THEN delta ELSE 0
  <2>2. Max({delta, 0}) = x
    <3>1. {delta, 0} \in SUBSET Int /\ x \in {delta, 0} /\ \A y \in {delta, 0} : y <= x
      BY <2>1
    <3> HIDE DEF x
    <3> QED
      BY <3>1, MaxIs
  <2>3. IsMost(x, before \cup {0})
    BY <1>5, <2>1 DEF IsMost
  <2> HIDE DEF x
  <2> QED
    BY <1>3, <1>4, <1>6, <2>2, <2>3
<1>7. CASE MonthBase(m - 1)[c].mode # "surplus"
  BY <1>3, <1>4, <1>5, <1>7
<1> QED
  BY <1>6, <1>7

LEMMA CarryIsMost ==
  ASSUME BudgetInv
  PROVE  \A m \in Months : \A c \in DOMAIN MonthBase(m) : IsMost(Carries[m][c], Left(m, c))
<1> DEFINE fits(m) == \A c \in DOMAIN MonthBase(m) : IsMost(Carries[m][c], Left(m, c))
           bad == {m \in Months : ~fits(m)}
<1> SUFFICES ASSUME bad # {} PROVE FALSE
  OBVIOUS
<1>1. bad \in SUBSET Nat
  BY MonthsAre
<1> DEFINE m == Min(bad)
<1> HIDE DEF bad, m
<1>2. m \in bad /\ \A k \in bad : m <= k
  BY <1>1, HasFirst DEF m
<1>3. PICK c \in DOMAIN MonthBase(m) : ~IsMost(Carries[m][c], Left(m, c))
  BY <1>2 DEF bad
<1>4. m \in Months /\ m \in Nat /\ m >= 1 /\ m <= YearLength
  BY <1>2, MonthsAre DEF bad
<1>5. m > 1 /\ Rolls(m - 1, c)
  <2>1. ~(m = 1 \/ ~Rolls(m - 1, c))
    BY <1>3, <1>4, StartsFromNothing
  <2> QED
    BY <1>4, <2>1
<1>6. fits(m - 1)
  <2>1. m - 1 \in Months /\ m - 1 \notin bad
    BY <1>2, <1>4, <1>5, MonthsAre
  <2> QED
    BY <2>1 DEF bad
<1>7. c \in DOMAIN MonthBase(m - 1)
  BY <1>5 DEF Rolls
<1> QED
  BY <1>3, <1>4, <1>5, <1>6, <1>7, CarriesOn

LEMMA CarriesDoAccount == BudgetInv => CarryAccountsForMonths
<1> SUFFICES ASSUME BudgetInv, NEW m \in Months, NEW c \in DOMAIN MonthBase(m)
             PROVE  Carries[m][c] = Max(Left(m, c))
  BY DEF CarryAccountsForMonths, Left, Fresh, Start
<1> DEFINE S == Left(m, c)
           x == Carries[m][c]
<1>1. S \in SUBSET Int /\ x \in S /\ \A y \in S : y <= x
  BY CarryIsMost DEF IsMost
<1> HIDE DEF S, x
<1>2. Max(S) = x
  BY <1>1, MaxIs
<1> QED
  BY <1>2 DEF S, x

(* No money appears or is lost in the budget of a year: the months of a    *)
(* plan add up to it, and what a category carries into a month is what the *)
(* months before it left over (budget_planning.py:252-300, :461-512); for  *)
(* every number of months, plan, override, copy and spending.              *)
THEOREM BudgetAlwaysAddsUp == BudgetSpec => []BudgetAddsUp
<1>1. BudgetInv => BudgetAddsUp
  BY MonthsDoAddUp, CarriesDoAccount DEF BudgetAddsUp
<1> QED
  BY <1>1, BudgetInvariant, PTL

-----------------------------------------------------------------------------
(* Debts: every payment is accounted for.                                   *)

Purses == [balances : [Debts -> Nat], pool : Nat]

LEMMA LeastOfThree ==
  ASSUME NEW a \in Nat, NEW b \in Nat, NEW c \in Nat
  PROVE  Min({a, b, c}) \in {a, b, c} /\ Min({a, b, c}) <= a /\ Min({a, b, c}) <= b /\ Min({a, b, c}) <= c
<1> DEFINE S == {a, b, c}
<1>1. S \in SUBSET Nat /\ S # {} /\ a \in S /\ b \in S /\ c \in S
  OBVIOUS
<1> HIDE DEF S
<1>2. Min(S) \in S /\ \A x \in S : Min(S) <= x
  BY <1>1, HasFirst
<1> QED
  BY <1>1, <1>2 DEF S

LEMMA PaidIs ==
  ASSUME NEW p \in Purses, NEW d \in Debts, NEW most \in Nat
  PROVE  LET amount == Min({most, p.balances[d], p.pool})
             q == Paid(p, d, most)
         IN /\ amount \in {most, p.balances[d], p.pool}
            /\ amount \in Nat /\ amount <= p.balances[d] /\ amount <= p.pool
            /\ q \in Purses /\ q.pool = p.pool - amount /\ q.balances[d] = p.balances[d] - amount
            /\ \A e \in Debts \ {d} : q.balances[e] = p.balances[e]
<1> DEFINE amount == Min({most, p.balances[d], p.pool})
           b == [p.balances EXCEPT ![d] = @ - amount]
<1>1. p.balances \in [Debts -> Nat] /\ p.pool \in Nat /\ p.balances[d] \in Nat
  BY DEF Purses
<1>2. /\ amount \in {most, p.balances[d], p.pool} /\ amount \in Nat
      /\ amount <= p.balances[d] /\ amount <= p.pool
  <2>1. amount \in {most, p.balances[d], p.pool} /\ amount <= p.balances[d] /\ amount <= p.pool
    BY <1>1, LeastOfThree
  <2> QED
    BY <1>1, <2>1
<1>3. Paid(p, d, most) = [balances |-> b, pool |-> p.pool - amount]
  BY DEF Paid
<1> HIDE DEF amount
<1>4. b \in [Debts -> Nat] /\ b[d] = p.balances[d] - amount /\ \A e \in Debts \ {d} : b[e] = p.balances[e]
  BY <1>1, <1>2
<1>5. p.pool - amount \in Nat
  BY <1>1, <1>2
<1> HIDE DEF b
<1> QED
  BY <1>2, <1>3, <1>4, <1>5 DEF Purses, amount

(* Any two debts are in one order or the other. *)
Ranks(order) ==
  \A d \in Debts : order[d][1] \in Int /\ order[d][2] \in Int /\ order[d][3] = d

LEMMA LastPaidIs ==
  ASSUME Debts \subseteq Nat, NEW S \in SUBSET Debts, IsFiniteSet(S), S # {}, NEW order, Ranks(order)
  PROVE  /\ LastPaid(S, order) \in S
         /\ \A y \in S \ {LastPaid(S, order)} : Before(order[y], order[LastPaid(S, order)])
<1> DEFINE R == {x \in S \X S : Before(order[x[1]], order[x[2]])}
<1>1. \A x, y \in S : <<x, y>> \in R <=> Before(order[x], order[y])
  OBVIOUS
<1> HIDE DEF R
<1>2. \A x \in S : x \in Nat /\ order[x][1] \in Int /\ order[x][2] \in Int /\ order[x][3] = x
  BY DEF Ranks
<1>3. \A x, y \in S : x = y \/ <<x, y>> \in R \/ <<y, x>> \in R
  <2> SUFFICES ASSUME NEW x \in S, NEW y \in S, x # y
               PROVE  Before(order[x], order[y]) \/ Before(order[y], order[x])
    BY <1>1
  <2>1. /\ x \in Nat /\ order[x][1] \in Int /\ order[x][2] \in Int /\ order[x][3] = x
        /\ y \in Nat /\ order[y][1] \in Int /\ order[y][2] \in Int /\ order[y][3] = y
    BY <1>2
  <2> DEFINE a == order[x]
             b == order[y]
  <2>2. /\ a[1] \in Int /\ a[2] \in Int /\ a[3] \in Int
        /\ b[1] \in Int /\ b[2] \in Int /\ b[3] \in Int /\ a[3] # b[3]
    BY <2>1
  <2> HIDE DEF a, b
  <2>3. Before(a, b) \/ Before(b, a)
    BY <2>2 DEF Before
  <2> QED
    BY <2>3 DEF a, b
<1>4. \A x, y, z \in S : <<x, y>> \in R /\ <<y, z>> \in R => <<x, z>> \in R
  BY <1>1, <1>2 DEF Before
<1>5. \E x \in S : \A y \in S \ {x} : <<y, x>> \in R
  <2>1. IsFiniteSet(S) /\ S # {}
    OBVIOUS
  <2> QED
    BY ONLY <1>3, <1>4, <2>1, HasLastOne
<1>6. \E x \in S : \A y \in S \ {x} : Before(order[y], order[x])
  BY <1>1, <1>5
<1> QED
  BY <1>6 DEF LastPaid

-----------------------------------------------------------------------------
(* Paying one after the other.                                             *)

IsPays(g, purse, S, order, cap) ==
  g = [T \in SUBSET S |->
        IF T = {} THEN purse
        ELSE LET x == LastPaid(T, order) IN Paid(g[T \ {x}], x, cap[x])]

LEMMA PaysIs ==
  ASSUME Debts \subseteq Nat, NEW S \in SUBSET Debts, IsFiniteSet(S), NEW order, Ranks(order),
         NEW purse \in Purses, NEW cap \in [Debts -> Nat]
  PROVE  \E g : IsPays(g, purse, S, order, cap) /\ Pays(purse, S, order, cap) = g[S]
<1> DEFINE pick == [T \in SUBSET S |-> LastPaid(T, order)]
           step == [x \in S \X Purses |-> Paid(x[2], x[1], cap[x[1]])]
<1>1. Picks(pick, S)
  <2> SUFFICES ASSUME NEW T \in SUBSET S, T # {} PROVE LastPaid(T, order) \in T
    BY DEF Picks
  <2>1. IsFiniteSet(T) /\ T \in SUBSET Debts
    BY FS_Subset
  <2> QED
    BY <2>1, LastPaidIs
<1>2. \A x \in S : \A p \in Purses : step[<<x, p>>] = Paid(p, x, cap[x]) /\ step[<<x, p>>] \in Purses
  <2> SUFFICES ASSUME NEW x \in S, NEW p \in Purses PROVE Paid(p, x, cap[x]) \in Purses
    OBVIOUS
  <2>1. x \in Debts /\ cap[x] \in Nat
    OBVIOUS
  <2> QED
    BY <2>1, PaidIs
<1>3. \A T \in SUBSET S : pick[T] = LastPaid(T, order)
  OBVIOUS
<1> HIDE DEF pick, step
<1>4. PICK h : IsFold(h, step, purse, pick, S)
  BY <1>1, FoldExists
<1>5. \A T \in SUBSET S : h[T] \in Purses
  BY <1>1, <1>2, <1>4, FoldStays
<1>6. IsPays(h, purse, S, order, cap)
  <2>1. ASSUME NEW T \in SUBSET S, T # {}
        PROVE  LET x == LastPaid(T, order) IN step[<<pick[T], h[T \ {pick[T]}]>>] = Paid(h[T \ {x}], x, cap[x])
    <3> DEFINE x == LastPaid(T, order)
    <3>1. x = pick[T] /\ x \in S
      BY <1>1, <1>3, <2>1 DEF Picks
    <3>2. h[T \ {x}] \in Purses
      BY <1>5
    <3> HIDE DEF x
    <3>3. step[<<pick[T], h[T \ {pick[T]}]>>] = Paid(h[T \ {x}], x, cap[x])
      BY <1>2, <3>1, <3>2
    <3> QED
      BY <3>3 DEF x
  <2> QED
    BY <1>4, <2>1 DEF IsFold, IsPays
<1>7. Pays(purse, S, order, cap) = (CHOOSE g : IsPays(g, purse, S, order, cap))[S]
  BY DEF Pays, MapThenFoldSet, IsPays
<1> QED
  BY <1>6, <1>7

(* What a stage of payments leaves: no debt and no pool grows, what leaves *)
(* the pool leaves the balances, and when every debt may take all of the   *)
(* pool, money is left only if the debts paid are gone.                    *)
Remains(q, purse) ==
  /\ q \in Purses
  /\ \A d \in Debts : q.balances[d] <= purse.balances[d]
  /\ q.pool <= purse.pool
  /\ SumOf(q.balances, Debts) - q.pool = SumOf(purse.balances, Debts) - purse.pool
Spent(q, purse, cap, S, T) ==
  (\A d \in S : cap[d] >= purse.pool) /\ q.pool > 0 => \A d \in T : q.balances[d] = 0

LEMMA PaidLeaves ==
  ASSUME IsFiniteSet(Debts), NEW p \in Purses, NEW d \in Debts, NEW most \in Nat
  PROVE  LET q == Paid(p, d, most)
         IN /\ Remains(q, p)
            /\ p.pool <= most /\ q.pool > 0 => q.balances[d] = 0
<1> DEFINE amount == Min({most, p.balances[d], p.pool})
           q == Paid(p, d, most)
<1>1. /\ amount \in {most, p.balances[d], p.pool}
      /\ amount \in Nat /\ amount <= p.balances[d] /\ amount <= p.pool
      /\ q \in Purses /\ q.pool = p.pool - amount /\ q.balances[d] = p.balances[d] - amount
      /\ \A e \in Debts \ {d} : q.balances[e] = p.balances[e]
  BY PaidIs
<1> HIDE DEF amount, q
<1>2. /\ p.balances \in [Debts -> Nat] /\ p.pool \in Nat /\ p.balances[d] \in Nat
      /\ q.balances \in [Debts -> Nat] /\ q.pool \in Nat /\ q.balances[d] \in Nat
  BY <1>1 DEF Purses
<1>3. \A e \in Debts : q.balances[e] <= p.balances[e]
  <2> SUFFICES ASSUME NEW e \in Debts PROVE q.balances[e] <= p.balances[e]
    OBVIOUS
  <2>1. p.balances[e] \in Nat /\ q.balances[e] \in Nat
    BY <1>2
  <2>2. e # d => q.balances[e] = p.balances[e]
    BY <1>1
  <2> QED
    BY <1>1, <1>2, <2>1, <2>2
<1>4. SumOf(q.balances, Debts) = SumOf(p.balances, Debts) - p.balances[d] + q.balances[d]
  <2>1. (\A e \in Debts : p.balances[e] \in Int) /\ q.balances[d] \in Int
    BY <1>2
  <2>2. IsFiniteSet(Debts) /\ d \in Debts /\ \A e \in Debts \ {d} : q.balances[e] = p.balances[e]
    BY <1>1
  <2> DEFINE f == p.balances
             g == q.balances
  <2>3. /\ \A e \in Debts : f[e] \in Int
        /\ g[d] \in Int /\ \A e \in Debts \ {d} : g[e] = f[e]
    BY <2>1, <2>2
  <2> HIDE DEF f, g
  <2>4. SumOf(g, Debts) = SumOf(f, Debts) - f[d] + g[d]
    BY ONLY <2>2, <2>3, TotalChanges
  <2> QED
    BY <2>4 DEF f, g
<1>5. SumOf(p.balances, Debts) \in Int
  BY <1>2, TotalType
<1>6. SumOf(q.balances, Debts) - q.pool = SumOf(p.balances, Debts) - p.pool
  BY <1>1, <1>2, <1>4, <1>5
<1>7. p.pool <= most /\ q.pool > 0 => q.balances[d] = 0
  BY <1>1, <1>2
<1>8. q.pool <= p.pool
  BY <1>1, <1>2
<1> QED
  BY <1>1, <1>3, <1>6, <1>7, <1>8 DEF Remains, q

LEMMA LeavesOn ==
  ASSUME NEW q, NEW p, NEW purse \in Purses, Remains(q, p), Remains(p, purse)
  PROVE  Remains(q, purse)
<1>1. /\ q.pool \in Nat /\ p.pool \in Nat /\ purse.pool \in Nat
      /\ \A d \in Debts : q.balances[d] \in Nat /\ p.balances[d] \in Nat /\ purse.balances[d] \in Nat
  BY DEF Remains, Purses
<1>2. \A d \in Debts : q.balances[d] <= purse.balances[d]
  BY <1>1 DEF Remains
<1>3. q.pool <= purse.pool
  BY <1>1 DEF Remains
<1> QED
  BY <1>2, <1>3 DEF Remains

LEMMA PaysKeep ==
  ASSUME IsFiniteSet(Debts), Debts \subseteq Nat, NEW S \in SUBSET Debts, NEW order, Ranks(order),
         NEW purse \in Purses, NEW cap \in [Debts -> Nat]
  PROVE  LET q == Pays(purse, S, order, cap) IN Remains(q, purse) /\ Spent(q, purse, cap, S, S)
<1>0. IsFiniteSet(S)
  BY FS_Subset
<1>1. PICK g : IsPays(g, purse, S, order, cap) /\ Pays(purse, S, order, cap) = g[S]
  BY <1>0, PaysIs
<1> DEFINE bad == {T \in SUBSET S : ~(Remains(g[T], purse) /\ Spent(g[T], purse, cap, S, T))}
<1>2. bad = {} => Remains(g[S], purse) /\ Spent(g[S], purse, cap, S, S)
  OBVIOUS
<1>3. SUFFICES ASSUME bad # {} PROVE FALSE
  BY <1>1, <1>2
<1>4. bad \in SUBSET SUBSET S
  OBVIOUS
<1> HIDE DEF bad
<1>5. PICK T \in bad : \A U \in SUBSET T : U # T => U \notin bad
  BY <1>0, <1>3, <1>4, HasSmallest
<1>6. T \in SUBSET S /\ ~(Remains(g[T], purse) /\ Spent(g[T], purse, cap, S, T))
  BY <1>5 DEF bad
<1>7. CASE T = {}
  <2>1. g[T] = purse
    BY <1>1, <1>6, <1>7 DEF IsPays
  <2>2. purse.balances \in [Debts -> Nat] /\ purse.pool \in Nat
    BY DEF Purses
  <2>3. Remains(purse, purse)
    BY <2>2 DEF Remains
  <2>4. Spent(purse, purse, cap, S, T)
    BY <1>7 DEF Spent
  <2> QED
    BY <1>6, <2>1, <2>3, <2>4
<1>8. CASE T # {}
  <2> DEFINE x == LastPaid(T, order)
             U == T \ {x}
             p == g[U]
  <2>1. x \in T
    <3>1. IsFiniteSet(T) /\ T \in SUBSET Debts
      BY <1>0, <1>6, FS_Subset
    <3> QED
      BY <1>8, <3>1, LastPaidIs
  <2>2. g[T] = Paid(g[T \ {LastPaid(T, order)}], LastPaid(T, order), cap[LastPaid(T, order)])
    BY <1>1, <1>6, <1>8 DEF IsPays
  <2>3. g[T] = Paid(p, x, cap[x])
    BY <2>2
  <2> HIDE DEF x
  <2>4. U \in SUBSET T /\ U # T /\ U \in SUBSET S /\ T = U \cup {x} /\ x \in Debts /\ cap[x] \in Nat
    BY <1>6, <2>1
  <2>5. Remains(p, purse) /\ Spent(p, purse, cap, S, U)
    BY <1>5, <2>4 DEF bad
  <2> HIDE DEF p, U
  <2>6. p \in Purses
    BY <2>5 DEF Remains
  <2> DEFINE q == Paid(p, x, cap[x])
  <2>7. Remains(q, p) /\ (p.pool <= cap[x] /\ q.pool > 0 => q.balances[x] = 0)
    BY <2>4, <2>6, PaidLeaves
  <2> HIDE DEF q
  <2>8. /\ p.pool \in Nat /\ q.pool \in Nat /\ purse.pool \in Nat
        /\ q.pool <= p.pool /\ p.pool <= purse.pool /\ q \in Purses
        /\ SumOf(q.balances, Debts) - q.pool = SumOf(p.balances, Debts) - p.pool
        /\ SumOf(p.balances, Debts) - p.pool = SumOf(purse.balances, Debts) - purse.pool
    BY <2>5, <2>7 DEF Remains, Purses
  <2>9. \A d \in Debts : /\ q.balances[d] \in Nat /\ p.balances[d] \in Nat /\ purse.balances[d] \in Nat
                         /\ q.balances[d] <= p.balances[d] /\ p.balances[d] <= purse.balances[d]
    BY <2>5, <2>7 DEF Remains, Purses
  <2>10. Remains(q, purse)
    <3>1. \A d \in Debts : q.balances[d] <= purse.balances[d]
      BY <2>9
    <3>2. q.pool <= purse.pool
      BY <2>8
    <3> QED
      BY <2>8, <3>1, <3>2 DEF Remains
  <2>11. Spent(q, purse, cap, S, T)
    <3> SUFFICES ASSUME \A d \in S : cap[d] >= purse.pool, q.pool > 0, NEW d \in T
                 PROVE  q.balances[d] = 0
      BY DEF Spent
    <3>1. p.pool > 0 /\ cap[x] >= purse.pool /\ p.pool <= cap[x] /\ d \in Debts
      BY <1>6, <2>1, <2>4, <2>8
    <3>2. CASE d = x
      BY <2>7, <3>1, <3>2
    <3>3. CASE d \in U
      <4>1. p.balances[d] = 0
        BY <2>5, <3>1, <3>3 DEF Spent
      <4>2. q.balances[d] \in Nat /\ q.balances[d] <= p.balances[d]
        BY <2>9, <3>1
      <4> QED
        BY <4>1, <4>2
    <3> QED
      BY <2>4, <3>2, <3>3
  <2>12. g[T] = q
    BY <2>3 DEF q
  <2> QED
    BY <1>6, <2>10, <2>11, <2>12
<1> QED
  BY <1>7, <1>8

-----------------------------------------------------------------------------
(* What holds of each simulation after any number of months.               *)

Sims == [balances : [Debts -> Nat], interest : [Debts -> Nat], payoff : [Debts -> Nat], idle : Nat, paid : Nat]
Borrowed == [d \in Debts |-> Debt(d).balance]

SimFits(sim) ==
  /\ sim \in Sims
  /\ SumOf(sim.balances, Debts) + sim.paid = SumOf(Borrowed, Debts) + SumOf(sim.interest, Debts)
  /\ sim.idle > 0 => \A d \in Debts : sim.balances[d] = 0
  /\ \A d \in Debts : /\ (sim.payoff[d] = Never) <=> (sim.balances[d] > 0 \/ Debt(d).balance = 0)
                      /\ Debt(d).balance = 0 => sim.balances[d] = 0

DebtInv ==
  /\ debtPlan \in DebtPlans /\ month \in Nat
  /\ sims = [key \in Strategies \X Pace |-> sims[key]]
  /\ \A key \in Strategies \X Pace : SimFits(sims[key])

LEMMA PlanIs ==
  ASSUME debtPlan \in DebtPlans
  PROVE  /\ IsFiniteSet(Debts) /\ Debts \subseteq Nat /\ debtPlan.extra \in Nat /\ RateUnit \in Nat \ {0}
         /\ \A d \in Debts : /\ Debt(d).balance \in Nat /\ Debt(d).rate \in Nat
                             /\ Debt(d).minimum \in Nat /\ Debt(d).earmarked \in Nat
BY DebtAssumption DEF DebtAssumption, Debts, Debt

LEMMA PoolIs ==
  ASSUME debtPlan \in DebtPlans, NEW pace
  PROVE  Pool(pace) \in Nat
<1> DEFINE S == {d \in Debts : Debt(d).balance > 0}
           f == [d \in S |-> Debt(d).minimum]
           g == [d \in S |-> Debt(d).earmarked]
           z == [d \in S |-> 0]
<1>1. IsFiniteSet(S) /\ S \subseteq Debts
  BY PlanIs, FS_Subset
<1>2. \A d \in S : f[d] \in Nat /\ g[d] \in Nat
  BY PlanIs
<1>4. /\ MapThenSumSet(LAMBDA d : Debt(d).minimum, S) = SumOf(f, S)
      /\ MapThenSumSet(LAMBDA d : Debt(d).earmarked, S) = SumOf(g, S)
  BY DEF MapThenSumSet, SumOf, SumFunctionOnSet, FoldFunctionOnSet, MapThenFoldSet
<1>3. Pool(pace) = SumOf(f, S) + IF pace = "minimum" THEN 0 ELSE SumOf(g, S) + debtPlan.extra
  BY <1>4 DEF Pool
<1> DEFINE natural(h) == \A d \in S : h[d] \in Nat
<1>5. ASSUME NEW h, natural(h) PROVE SumOf(h, S) \in Nat
  <2>1. \A d \in S : z[d] = 0 /\ h[d] \in Int /\ z[d] <= h[d]
    BY <1>5
  <2> HIDE DEF S, z
  <2>2. SumOf(z, S) = 0 /\ SumOf(z, S) <= SumOf(h, S) /\ SumOf(h, S) \in Int
    BY <1>1, <2>1, TotalZero, TotalAtMost, TotalType
  <2> QED
    BY <2>2
<1>6. natural(f) /\ natural(g)
  BY <1>2
<1> HIDE DEF S, f, g, natural
<1>7. SumOf(f, S) \in Nat /\ SumOf(g, S) \in Nat
  BY <1>5, <1>6
<1> QED
  BY <1>3, <1>7, PlanIs

LEMMA InterestIs ==
  ASSUME debtPlan \in DebtPlans, NEW b \in [Debts -> Nat]
  PROVE  /\ Interest(b) \in [Debts -> Nat]
         /\ \A d \in Debts : b[d] = 0 => Interest(b)[d] = 0
<1> SUFFICES ASSUME NEW d \in Debts
             PROVE  LET i == (b[d] * Debt(d).rate) \div RateUnit IN i \in Nat /\ (b[d] = 0 => i = 0)
  BY DEF Interest
<1> DEFINE n == b[d] * Debt(d).rate
<1>1. b[d] \in Nat /\ Debt(d).rate \in Nat /\ RateUnit \in Nat /\ RateUnit > 0
  BY PlanIs
<1>2. n \in Nat /\ (b[d] = 0 => n = 0)
  BY <1>1
<1> HIDE DEF n
<1>3. n \div RateUnit \in Nat /\ (n = 0 => n \div RateUnit = 0)
  BY <1>1, <1>2
<1> QED
  BY <1>2, <1>3 DEF n

LEMMA OrdersRank ==
  ASSUME debtPlan \in DebtPlans, NEW s \in Strategies, NEW b \in [Debts -> Nat]
  PROVE  Ranks(Order(s, b))
<1> SUFFICES ASSUME NEW d \in Debts
             PROVE  Rank(s, b, d)[1] \in Int /\ Rank(s, b, d)[2] \in Int /\ Rank(s, b, d)[3] = d
  BY DEF Ranks, Order
<1>1. b[d] \in Nat /\ Debt(d).rate \in Nat /\ d \in Nat
  BY PlanIs
<1>2. CASE s = "avalanche"
  BY <1>1, <1>2 DEF Rank
<1>3. CASE s = "snowball"
  BY <1>1, <1>3 DEF Rank
<1>4. CASE s = "custom"
  BY <1>1, <1>4 DEF Rank
<1> QED
  BY <1>2, <1>3, <1>4 DEF Strategies

LEMMA MonthFits ==
  ASSUME debtPlan \in DebtPlans, month \in Nat, NEW key \in Strategies \X Pace, NEW sim, SimFits(sim)
  PROVE  SimFits(NextMonth(sim, key))
<1> DEFINE pool == Pool(key[2])
           interest == Interest(sim.balances)
           accrued == [d \in Debts |-> sim.balances[d] + interest[d]]
           owing == Owed(sim.balances)
           listed == Order("custom", accrued)
           purse == [balances |-> accrued, pool |-> pool]
           least == [d \in Debts |-> Debt(d).minimum]
           marked == [d \in Debts |-> Debt(d).earmarked]
           minimums == Pays(purse, owing, listed, least)
           extras == IF key[2] = "minimum" THEN minimums ELSE Pays(minimums, owing, listed, marked)
           all == [d \in Debts |-> extras.pool]
           order == Order(key[1], extras.balances)
           rest == Pays(extras, owing, order, all)
           total == [d \in Debts |-> sim.interest[d] + interest[d]]
           payoff == [d \in Debts |-> IF d \in owing /\ rest.balances[d] = 0 THEN month + 1 ELSE sim.payoff[d]]
           next == NextMonth(sim, key)
<1>1. IsFiniteSet(Debts) /\ Debts \subseteq Nat
  BY PlanIs
<1>2. /\ sim.balances \in [Debts -> Nat] /\ sim.interest \in [Debts -> Nat] /\ sim.payoff \in [Debts -> Nat]
      /\ sim.paid \in Nat /\ pool \in Nat /\ interest \in [Debts -> Nat]
      /\ \A d \in Debts : sim.balances[d] = 0 => interest[d] = 0
  BY PoolIs, InterestIs DEF SimFits, Sims
<1>3. next = [balances |-> rest.balances, interest |-> total, payoff |-> payoff,
              idle |-> rest.pool, paid |-> sim.paid + pool - rest.pool]
  BY DEF NextMonth
<1>4. least \in [Debts -> Nat] /\ marked \in [Debts -> Nat] /\ owing \in SUBSET Debts
  BY PlanIs DEF Owed
<1>5. \A d \in Debts : d \in owing <=> sim.balances[d] > 0
  BY DEF Owed
<1> HIDE DEF pool, interest, owing
<1>6. accrued \in [Debts -> Nat] /\ total \in [Debts -> Nat] /\ (\A d \in Debts : d \notin owing => accrued[d] = 0)
  <2> SUFFICES ASSUME NEW d \in Debts
               PROVE  /\ sim.balances[d] + interest[d] \in Nat /\ sim.interest[d] + interest[d] \in Nat
                      /\ d \notin owing => sim.balances[d] + interest[d] = 0
    OBVIOUS
  <2> QED
    BY <1>2, <1>5
<1>7. /\ SumOf(accrued, Debts) = SumOf(sim.balances, Debts) + SumOf(interest, Debts)
      /\ SumOf(total, Debts) = SumOf(sim.interest, Debts) + SumOf(interest, Debts)
      /\ SumOf(sim.balances, Debts) \in Int /\ SumOf(sim.interest, Debts) \in Int /\ SumOf(interest, Debts) \in Int
  <2> DEFINE f == sim.balances
             g == sim.interest
  <2>1. /\ \A d \in Debts : f[d] \in Int /\ interest[d] \in Int /\ accrued[d] = f[d] + interest[d]
        /\ \A d \in Debts : g[d] \in Int /\ interest[d] \in Int /\ total[d] = g[d] + interest[d]
    BY <1>2
  <2> HIDE DEF accrued, total, f, g
  <2>5. /\ \A d \in Debts : f[d] \in Int /\ interest[d] \in Int /\ accrued[d] = f[d] + interest[d]
        /\ IsFiniteSet(Debts)
    BY <1>1, <2>1
  <2>2. SumOf(accrued, Debts) = SumOf(f, Debts) + SumOf(interest, Debts)
    BY ONLY <2>5, TotalPlus
  <2>6. /\ \A d \in Debts : g[d] \in Int /\ interest[d] \in Int /\ total[d] = g[d] + interest[d]
        /\ IsFiniteSet(Debts)
    BY <1>1, <2>1
  <2>3. SumOf(total, Debts) = SumOf(g, Debts) + SumOf(interest, Debts)
    BY ONLY <2>6, TotalPlus
  <2>4. SumOf(f, Debts) \in Int /\ SumOf(g, Debts) \in Int /\ SumOf(interest, Debts) \in Int
    BY <1>1, <2>1, TotalType
  <2> QED
    BY <2>2, <2>3, <2>4 DEF f, g
<1>8. purse \in Purses /\ purse.balances = accrued /\ purse.pool = pool
  BY <1>2, <1>6 DEF Purses
<1>9. Ranks(listed)
  BY <1>6, OrdersRank DEF Strategies
<1> HIDE DEF accrued, total, listed, purse, least, marked
<1>10. Remains(minimums, purse)
  BY <1>1, <1>4, <1>8, <1>9, PaysKeep
<1> HIDE DEF minimums
<1>11. minimums \in Purses
  BY <1>10 DEF Remains
<1>12. Remains(extras, purse)
  <2>1. CASE key[2] = "minimum"
    BY <1>10, <2>1
  <2>2. CASE key[2] # "minimum"
    <3>1. Remains(extras, minimums)
      BY <1>1, <1>4, <1>9, <1>11, <2>2, PaysKeep
    <3> QED
      BY <1>8, <1>10, <3>1, LeavesOn
  <2> QED
    BY <2>1, <2>2
<1> HIDE DEF extras
<1>13. extras \in Purses /\ extras.pool \in Nat /\ extras.balances \in [Debts -> Nat]
  BY <1>12 DEF Remains, Purses
<1>14. Ranks(order)
  <2>1. key[1] \in Strategies
    OBVIOUS
  <2> QED
    BY <1>13, <2>1, OrdersRank
<1>15. all \in [Debts -> Nat] /\ \A d \in owing : all[d] >= extras.pool
  BY <1>4, <1>13
<1> HIDE DEF all, order
<1>16. Remains(rest, extras) /\ Spent(rest, extras, all, owing, owing)
  BY <1>1, <1>4, <1>13, <1>14, <1>15, PaysKeep
<1> HIDE DEF rest
<1>17. Remains(rest, purse)
  BY <1>8, <1>12, <1>16, LeavesOn
<1>18. /\ rest.balances \in [Debts -> Nat] /\ rest.pool \in Nat /\ rest.pool <= pool
       /\ \A d \in Debts : rest.balances[d] <= accrued[d]
       /\ SumOf(rest.balances, Debts) - rest.pool = SumOf(accrued, Debts) - pool
  BY <1>8, <1>17 DEF Remains, Purses
<1>19. SumOf(rest.balances, Debts) \in Int
  <2> DEFINE f == rest.balances
  <2>1. \A d \in Debts : f[d] \in Int
    BY <1>18
  <2> HIDE DEF f
  <2>2. SumOf(f, Debts) \in Int
    BY <1>1, <2>1, TotalType
  <2> QED
    BY <2>2 DEF f
<1>20. \A d \in Debts : d \notin owing => rest.balances[d] = 0
  BY <1>6, <1>18
<1>21. payoff \in [Debts -> Nat]
  BY <1>2
<1>22. next \in Sims
  BY <1>2, <1>3, <1>6, <1>18, <1>21 DEF Sims
<1>23. SumOf(rest.balances, Debts) + (sim.paid + pool - rest.pool) = SumOf(Borrowed, Debts) + SumOf(total, Debts)
  <2>1. SumOf(sim.balances, Debts) + sim.paid = SumOf(Borrowed, Debts) + SumOf(sim.interest, Debts)
    BY DEF SimFits
  <2>2. SumOf(Borrowed, Debts) \in Int
    <3>1. \A d \in Debts : Borrowed[d] \in Int
      BY PlanIs DEF Borrowed
    <3> QED
      BY <1>1, <3>1, TotalType
  <2> QED
    BY <1>2, <1>7, <1>18, <1>19, <2>1, <2>2
<1>24. rest.pool > 0 => \A d \in Debts : rest.balances[d] = 0
  BY <1>15, <1>16, <1>20 DEF Spent
<1>25. ASSUME NEW d \in Debts
       PROVE  /\ (payoff[d] = Never) <=> (rest.balances[d] > 0 \/ Debt(d).balance = 0)
              /\ Debt(d).balance = 0 => rest.balances[d] = 0
  <2>1. /\ (sim.payoff[d] = Never) <=> (sim.balances[d] > 0 \/ Debt(d).balance = 0)
        /\ Debt(d).balance = 0 => sim.balances[d] = 0
    BY DEF SimFits
  <2>2. rest.balances[d] \in Nat /\ sim.balances[d] \in Nat /\ month + 1 # Never
    BY <1>2, <1>18 DEF Never
  <2> QED
    BY <1>5, <1>20, <2>1, <2>2
<1> HIDE DEF payoff, next, pool
<1>26. /\ next.balances = rest.balances /\ next.interest = total /\ next.payoff = payoff
       /\ next.idle = rest.pool /\ next.paid = sim.paid + pool - rest.pool
  BY <1>3
<1>27. SimFits(next)
  BY <1>22, <1>23, <1>24, <1>25, <1>26 DEF SimFits
<1> QED
  BY <1>27 DEF next

LEMMA DebtsStart == DebtInit => DebtInv
<1> SUFFICES ASSUME DebtInit PROVE DebtInv
  OBVIOUS
<1> DEFINE none == [d \in Debts |-> 0]
           sim == [balances |-> Borrowed, interest |-> none, payoff |-> [d \in Debts |-> Never], idle |-> 0, paid |-> 0]
<1>1. debtPlan \in DebtPlans /\ month = 0 /\ sims = [key \in Strategies \X Pace |-> sim]
  BY DEF DebtInit, Borrowed
<1>2. IsFiniteSet(Debts) /\ \A d \in Debts : Debt(d).balance \in Nat /\ Borrowed[d] = Debt(d).balance
  BY <1>1, PlanIs DEF Borrowed
<1>3. sim \in Sims
  BY <1>2 DEF Sims, Never, Borrowed
<1>4. SumOf(none, Debts) = 0 /\ SumOf(Borrowed, Debts) \in Int
  <2>1. (\A d \in Debts : none[d] = 0) /\ \A d \in Debts : Borrowed[d] \in Int
    BY <1>2
  <2> HIDE DEF none
  <2> QED
    BY <1>2, <2>1, TotalZero, TotalType
<1>5. SimFits(sim)
  BY <1>2, <1>3, <1>4 DEF SimFits, Never
<1> HIDE DEF sim
<1> QED
  BY <1>1, <1>5 DEF DebtInv

LEMMA DebtsStep == DebtInv /\ [PassMonth]_debtVars => DebtInv'
<1>1. CASE UNCHANGED debtVars
  BY <1>1 DEF debtVars, DebtInv, SimFits, Sims, Borrowed, Debts, Debt
<1>2. ASSUME DebtInv, PassMonth PROVE DebtInv'
  <2>1. /\ debtPlan \in DebtPlans /\ month \in Nat /\ debtPlan' = debtPlan /\ month' = month + 1
        /\ DOMAIN sims = Strategies \X Pace
    BY <1>2 DEF DebtInv, PassMonth
  <2>2. sims' = [key \in Strategies \X Pace |-> IF Done(sims[key], key) THEN sims[key] ELSE NextMonth(sims[key], key)]
    BY <1>2, <2>1 DEF PassMonth
  <2>3. ASSUME NEW key \in Strategies \X Pace PROVE SimFits(sims'[key])
    <3>1. SimFits(sims[key])
      BY <1>2 DEF DebtInv
    <3>2. SimFits(NextMonth(sims[key], key))
      BY <2>1, <3>1, MonthFits
    <3>3. sims'[key] = sims[key] \/ sims'[key] = NextMonth(sims[key], key)
      BY <2>2
    <3> QED
      BY <3>1, <3>2, <3>3
  <2>4. \A key \in Strategies \X Pace : SimFits(sims[key])'
    BY <2>1, <2>3 DEF SimFits, Sims, Borrowed, Debts, Debt
  <2> QED
    BY <2>1, <2>2, <2>4 DEF DebtInv
<1> QED
  BY <1>1, <1>2

LEMMA DebtsBorrowed == MapThenSumSet(LAMBDA d : Debt(d).balance, Debts) = SumOf(Borrowed, Debts)
<1> DEFINE S == Debts
           f == [d \in S |-> Debt(d).balance]
<1>1. MapThenSumSet(LAMBDA d : Debt(d).balance, S) = SumOf(f, S)
  BY DEF MapThenSumSet, SumOf, SumFunctionOnSet, FoldFunctionOnSet, MapThenFoldSet
<1>2. f = Borrowed
  BY DEF Borrowed
<1> QED
  BY <1>1, <1>2

LEMMA DebtsAreAccounted == DebtInv => PaymentsAccounted
<1> SUFFICES ASSUME DebtInv, NEW key \in Strategies \X Pace
             PROVE  LET sim == sims[key]
                    IN /\ SumFunction(sim.balances) + sim.paid
                            = MapThenSumSet(LAMBDA d : Debt(d).balance, Debts) + TotalInterest(sim)
                       /\ sim.idle > 0 => Owed(sim.balances) = {}
                       /\ \A d \in Debts : (sim.payoff[d] = Never) <=> (sim.balances[d] > 0 \/ Debt(d).balance = 0)
  BY DEF PaymentsAccounted, DebtInv
<1> DEFINE sim == sims[key]
<1>1. SimFits(sim)
  BY DEF DebtInv
<1> HIDE DEF sim
<1>2. /\ DOMAIN sim.balances = Debts /\ DOMAIN sim.interest = Debts
      /\ \A d \in Debts : sim.balances[d] \in Nat
  BY <1>1 DEF SimFits, Sims
<1>3. SumFunction(sim.balances) = SumOf(sim.balances, Debts) /\ TotalInterest(sim) = SumOf(sim.interest, Debts)
  BY <1>2 DEF SumFunction, SumOf, TotalInterest
<1>4. MapThenSumSet(LAMBDA d : Debt(d).balance, Debts) = SumOf(Borrowed, Debts)
  BY DebtsBorrowed
<1> QED
  BY <1>1, <1>2, <1>3, <1>4 DEF SimFits, Owed, sim

(* Every payment and all interest is in the balances, no month leaves      *)
(* money unused while something is owed, and a debt has a payoff date      *)
(* exactly when it is paid off (financial_planning.py:296-386); for any    *)
(* debts, rates and payments, and any number of months.                    *)
THEOREM PaymentsAlwaysAccounted == DebtSpec => []PaymentsAccounted
<1>1. DebtInit => DebtInv
  BY DebtsStart
<1>2. DebtInv /\ [PassMonth]_debtVars => DebtInv'
  BY DebtsStep
<1>3. DebtInv => PaymentsAccounted
  BY DebtsAreAccounted
<1> QED
  BY <1>1, <1>2, <1>3, PTL DEF DebtSpec

-----------------------------------------------------------------------------
(* What a stage of payments does to each debt.                             *)

(* What holds before the first payment and stays true with each one that   *)
(* is made by the order holds after all of them.                           *)
LEMMA PaysInduct ==
  ASSUME Debts \subseteq Nat, NEW S \in SUBSET Debts, IsFiniteSet(S), NEW order, Ranks(order),
         NEW purse \in Purses, NEW cap \in [Debts -> Nat],
         NEW good, <<{}, purse>> \in good,
         \A T \in SUBSET S : \A x \in T : \A p \in Purses :
           (\A y \in T \ {x} : Before(order[y], order[x])) /\ <<T \ {x}, p>> \in good
             => <<T, Paid(p, x, cap[x])>> \in good
  PROVE  <<S, Pays(purse, S, order, cap)>> \in good
<1>1. PICK g : IsPays(g, purse, S, order, cap) /\ Pays(purse, S, order, cap) = g[S]
  BY PaysIs
<1> DEFINE bad == {T \in SUBSET S : ~(g[T] \in Purses /\ <<T, g[T]>> \in good)}
<1>2. SUFFICES ASSUME bad # {} PROVE FALSE
  BY <1>1
<1>3. bad \in SUBSET SUBSET S
  OBVIOUS
<1> HIDE DEF bad
<1>4. PICK T \in bad : \A U \in SUBSET T : U # T => U \notin bad
  BY <1>2, <1>3, HasSmallest
<1>5. T \in SUBSET S /\ ~(g[T] \in Purses /\ <<T, g[T]>> \in good)
  BY <1>4 DEF bad
<1>6. T # {}
  <2> SUFFICES ASSUME T = {} PROVE FALSE
    OBVIOUS
  <2>1. g[T] = purse
    BY <1>1, <1>5 DEF IsPays
  <2> QED
    BY <1>5, <2>1
<1> DEFINE x == LastPaid(T, order)
           p == g[T \ {x}]
<1>7. x \in T /\ \A y \in T \ {x} : Before(order[y], order[x])
  <2>1. IsFiniteSet(T) /\ T \in SUBSET Debts
    BY <1>5, FS_Subset
  <2> QED
    BY <1>6, <2>1, LastPaidIs
<1>8. g[T] = Paid(g[T \ {LastPaid(T, order)}], LastPaid(T, order), cap[LastPaid(T, order)])
  BY <1>1, <1>5, <1>6 DEF IsPays
<1>9. g[T] = Paid(p, x, cap[x])
  BY <1>8
<1> HIDE DEF x
<1>10. T \ {x} \in SUBSET T /\ T \ {x} # T /\ T \ {x} \in SUBSET S /\ x \in Debts /\ cap[x] \in Nat
  BY <1>5, <1>7
<1>11. p \in Purses /\ <<T \ {x}, p>> \in good
  BY <1>4, <1>10 DEF bad
<1> HIDE DEF p
<1>12. Paid(p, x, cap[x]) \in Purses
  BY <1>10, <1>11, PaidIs
<1>13. <<T, Paid(p, x, cap[x])>> \in good
  BY <1>5, <1>7, <1>11
<1> QED
  BY <1>5, <1>9, <1>12, <1>13

(* Each debt is paid once, at most what cap allows.                        *)
LEMMA PaysAtMost ==
  ASSUME Debts \subseteq Nat, NEW S \in SUBSET Debts, IsFiniteSet(S), NEW order, Ranks(order),
         NEW purse \in Purses, NEW cap \in [Debts -> Nat], NEW d \in Debts
  PROVE  LET q == Pays(purse, S, order, cap)
         IN /\ q.balances[d] \in Nat /\ q.balances[d] <= purse.balances[d]
            /\ q.balances[d] + cap[d] >= purse.balances[d]
            /\ d \notin S => q.balances[d] = purse.balances[d]
<1> DEFINE good == {w \in (SUBSET S) \X Purses :
                      /\ w[2].balances[d] <= purse.balances[d]
                      /\ w[2].balances[d] + cap[d] >= purse.balances[d]
                      /\ d \notin w[1] => w[2].balances[d] = purse.balances[d]}
<1>1. ASSUME NEW T, NEW p
      PROVE  <<T, p>> \in good <=>
               /\ T \in SUBSET S /\ p \in Purses
               /\ p.balances[d] <= purse.balances[d]
               /\ p.balances[d] + cap[d] >= purse.balances[d]
               /\ d \notin T => p.balances[d] = purse.balances[d]
  OBVIOUS
<1> HIDE DEF good
<1>2. purse.balances[d] \in Nat /\ cap[d] \in Nat
  BY DEF Purses
<1>3. <<{}, purse>> \in good
  BY <1>1, <1>2
<1>4. ASSUME NEW T \in SUBSET S, NEW x \in T, NEW p \in Purses, <<T \ {x}, p>> \in good
      PROVE  <<T, Paid(p, x, cap[x])>> \in good
  <2> DEFINE q == Paid(p, x, cap[x])
             amount == Min({cap[x], p.balances[x], p.pool})
  <2>1. x \in Debts /\ cap[x] \in Nat
    OBVIOUS
  <2>2. /\ amount \in {cap[x], p.balances[x], p.pool} /\ amount \in Nat /\ amount <= p.balances[x]
        /\ q \in Purses /\ q.balances[x] = p.balances[x] - amount
        /\ \A e \in Debts \ {x} : q.balances[e] = p.balances[e]
    BY <2>1, PaidIs
  <2>3. amount <= cap[x]
    <3>1. p.balances[x] \in Nat /\ p.pool \in Nat
      BY <2>1 DEF Purses
    <3> QED
      BY <2>1, <3>1, LeastOfThree
  <2> HIDE DEF q, amount
  <2>4. /\ p.balances[d] \in Nat /\ p.balances[d] <= purse.balances[d]
        /\ p.balances[d] + cap[d] >= purse.balances[d]
        /\ d \notin T \ {x} => p.balances[d] = purse.balances[d]
    BY <1>1, <1>4 DEF Purses
  <2>5. CASE d = x
    BY <1>1, <1>2, <2>2, <2>3, <2>4, <2>5 DEF q
  <2>6. CASE d # x
    BY <1>1, <1>2, <2>2, <2>4, <2>6 DEF q
  <2> QED
    BY <2>5, <2>6
<1>5. <<S, Pays(purse, S, order, cap)>> \in good
  BY <1>3, <1>4, PaysInduct
<1> QED
  BY <1>1, <1>5 DEF Purses

(* A pool that is large enough pays every debt what cap says, or all of it. *)
LEMMA PaysInFull ==
  ASSUME Debts \subseteq Nat, NEW S \in SUBSET Debts, IsFiniteSet(S), NEW order, Ranks(order),
         NEW purse \in Purses, NEW cap \in [Debts -> Nat], SumOf(cap, S) <= purse.pool
  PROVE  LET q == Pays(purse, S, order, cap)
         IN /\ q.pool \in Nat /\ q.pool >= purse.pool - SumOf(cap, S)
            /\ \A d \in S : q.balances[d] + cap[d] <= purse.balances[d] \/ q.balances[d] = 0
<1> DEFINE good == {w \in (SUBSET S) \X Purses :
                      /\ w[2].pool >= purse.pool - SumOf(cap, w[1])
                      /\ \A d \in Debts \ w[1] : w[2].balances[d] = purse.balances[d]
                      /\ \A d \in w[1] : w[2].balances[d] + cap[d] <= purse.balances[d] \/ w[2].balances[d] = 0}
<1>1. ASSUME NEW T, NEW p
      PROVE  <<T, p>> \in good <=>
               /\ T \in SUBSET S /\ p \in Purses
               /\ p.pool >= purse.pool - SumOf(cap, T)
               /\ \A d \in Debts \ T : p.balances[d] = purse.balances[d]
               /\ \A d \in T : p.balances[d] + cap[d] <= purse.balances[d] \/ p.balances[d] = 0
  OBVIOUS
<1> HIDE DEF good
<1>2. purse.pool \in Nat /\ (\A d \in Debts : purse.balances[d] \in Nat) /\ \A d \in Debts : cap[d] \in Nat
  BY DEF Purses
<1>3. <<{}, purse>> \in good
  <2>1. SumOf(cap, {}) = 0
    BY TotalEmpty
  <2>2. purse.pool >= purse.pool - SumOf(cap, {})
    BY <1>2, <2>1
  <2> QED
    BY <1>1, <2>2
<1>4. ASSUME NEW T \in SUBSET S, NEW x \in T, NEW p \in Purses, <<T \ {x}, p>> \in good
      PROVE  <<T, Paid(p, x, cap[x])>> \in good
  <2> DEFINE q == Paid(p, x, cap[x])
             amount == Min({cap[x], p.balances[x], p.pool})
             U == T \ {x}
  <2>1. x \in Debts /\ cap[x] \in Nat
    OBVIOUS
  <2>2. /\ amount \in {cap[x], p.balances[x], p.pool} /\ amount \in Nat
        /\ amount <= p.balances[x] /\ amount <= p.pool
        /\ q \in Purses /\ q.balances[x] = p.balances[x] - amount /\ q.pool = p.pool - amount
        /\ \A e \in Debts \ {x} : q.balances[e] = p.balances[e]
    BY <2>1, PaidIs
  <2>3. amount <= cap[x]
    <3>1. p.balances[x] \in Nat /\ p.pool \in Nat
      BY <2>1 DEF Purses
    <3> QED
      BY <2>1, <3>1, LeastOfThree
  <2> HIDE DEF q, amount
  <2>12. U \in SUBSET S /\ x \notin U /\ T = U \cup {x} /\ <<U, p>> \in good /\ IsFiniteSet(T)
    BY <1>4, FS_Subset
  <2> HIDE DEF U
  <2>13. p.pool \in Nat /\ \A d \in Debts : p.balances[d] \in Nat
    BY DEF Purses
  <2>4. /\ p.pool >= purse.pool - SumOf(cap, U)
        /\ \A d \in Debts \ U : p.balances[d] = purse.balances[d]
        /\ \A d \in U : p.balances[d] + cap[d] <= purse.balances[d] \/ p.balances[d] = 0
    BY <1>1, <2>12
  <2>5. /\ SumOf(cap, T) = cap[x] + SumOf(cap, U) /\ SumOf(cap, U) \in Int
        /\ SumOf(cap, T) <= SumOf(cap, S) /\ SumOf(cap, S) \in Int
    <3>0. IsFiniteSet(U) /\ \A d \in S : cap[d] \in Int
      BY <1>2, <2>12, FS_Subset
    <3>1. IsFiniteSet(T) /\ IsFiniteSet(U) /\ \A d \in S : cap[d] \in Int
      BY <2>12, <3>0
    <3>2. SumOf(cap, T) = cap[x] + SumOf(cap, U)
      <4>1. (\A d \in U : cap[d] \in Int) /\ cap[x] \in Int /\ x \notin U
        BY <2>1, <2>12, <3>1
      <4>2. SumOf(cap, U \cup {x}) = cap[x] + SumOf(cap, U)
        BY <3>1, <4>1, TotalAdds
      <4> QED
        BY <2>12, <4>2
    <3>3. SumOf(cap, U) \in Int /\ SumOf(cap, S) \in Int /\ SumOf(cap, T) <= SumOf(cap, S)
      <4>1. T \in SUBSET S /\ U \in SUBSET S /\ IsFiniteSet(S) /\ \A d \in S : cap[d] \in Nat
        BY <1>2, <2>12
      <4>2. SumOf(cap, U) \in Nat
        BY <4>1, TotalWithin
      <4>3. SumOf(cap, S) \in Nat /\ SumOf(cap, T) <= SumOf(cap, S)
        BY <4>1, TotalWithin
      <4> QED
        BY <4>2, <4>3
    <3> QED
      BY <2>1, <3>2, <3>3
  <2>6. p.pool >= cap[x]
    BY <1>2, <2>1, <2>4, <2>5, <2>13
  <2>7. q.pool >= purse.pool - SumOf(cap, T)
    BY <1>2, <2>1, <2>2, <2>3, <2>4, <2>5, <2>13
  <2>8. amount = cap[x] \/ amount = p.balances[x]
    BY <2>1, <2>2, <2>3, <2>6, <2>13
  <2>9. q.balances[x] + cap[x] <= purse.balances[x] \/ q.balances[x] = 0
    BY <1>2, <2>1, <2>2, <2>4, <2>8, <2>12, <2>13
  <2>10. \A d \in Debts \ T : q.balances[d] = purse.balances[d]
    BY <2>2, <2>4, <2>12
  <2>11. \A d \in T : q.balances[d] + cap[d] <= purse.balances[d] \/ q.balances[d] = 0
    BY <2>2, <2>4, <2>9, <2>12
  <2> QED
    BY <1>1, <2>2, <2>7, <2>10, <2>11 DEF q
<1>5. <<S, Pays(purse, S, order, cap)>> \in good
  BY <1>3, <1>4, PaysInduct
<1> QED
  BY <1>1, <1>5 DEF Purses

(* When every debt may take all of the pool, one that is left leaves       *)
(* nothing for those behind it.                                            *)
LEMMA PaysInOrder ==
  ASSUME IsFiniteSet(Debts), Debts \subseteq Nat, NEW S \in SUBSET Debts, IsFiniteSet(S), NEW order, Ranks(order),
         NEW purse \in Purses, NEW cap \in [Debts -> Nat], \A d \in S : cap[d] >= purse.pool,
         NEW i \in Debts, NEW j \in S, Before(order[j], order[i])
  PROVE  LET q == Pays(purse, S, order, cap) IN q.balances[j] > 0 => q.balances[i] = purse.balances[i]
<1> DEFINE good == {w \in (SUBSET S) \X Purses :
                      /\ w[2].pool <= purse.pool
                      /\ \A d \in w[1] : w[2].balances[d] > 0 => w[2].pool = 0
                      /\ i \notin w[1] => w[2].balances[i] = purse.balances[i]
                      /\ j \in w[1] /\ w[2].balances[j] > 0 => w[2].balances[i] = purse.balances[i]}
<1>1. ASSUME NEW T, NEW p
      PROVE  <<T, p>> \in good <=>
               /\ T \in SUBSET S /\ p \in Purses
               /\ p.pool <= purse.pool
               /\ \A d \in T : p.balances[d] > 0 => p.pool = 0
               /\ i \notin T => p.balances[i] = purse.balances[i]
               /\ j \in T /\ p.balances[j] > 0 => p.balances[i] = purse.balances[i]
  OBVIOUS
<1> HIDE DEF good
<1>2. purse.pool \in Nat /\ \A d \in Debts : cap[d] \in Nat
  BY DEF Purses
<1>3. <<{}, purse>> \in good
  BY <1>1, <1>2
<1>4. ASSUME NEW T \in SUBSET S, NEW x \in T, NEW p \in Purses,
             \A y \in T \ {x} : Before(order[y], order[x]), <<T \ {x}, p>> \in good
      PROVE  <<T, Paid(p, x, cap[x])>> \in good
  <2> DEFINE q == Paid(p, x, cap[x])
             amount == Min({cap[x], p.balances[x], p.pool})
             U == T \ {x}
  <2>1. x \in Debts /\ cap[x] \in Nat /\ cap[x] >= purse.pool
    OBVIOUS
  <2>2. /\ amount \in {cap[x], p.balances[x], p.pool} /\ amount \in Nat
        /\ amount <= p.balances[x] /\ amount <= p.pool
        /\ q \in Purses /\ q.balances[x] = p.balances[x] - amount /\ q.pool = p.pool - amount
        /\ \A e \in Debts \ {x} : q.balances[e] = p.balances[e]
    BY <2>1, PaidIs
  <2> HIDE DEF q, amount
  <2>3. /\ p.pool \in Nat /\ p.pool <= purse.pool /\ \A d \in Debts : p.balances[d] \in Nat
        /\ \A d \in U : p.balances[d] > 0 => p.pool = 0
        /\ i \notin U => p.balances[i] = purse.balances[i]
        /\ j \in U /\ p.balances[j] > 0 => p.balances[i] = purse.balances[i]
    BY <1>1, <1>4 DEF Purses
  <2>4. \A d \in T : q.balances[d] > 0 => q.pool = 0
    <3>1. q.balances[x] > 0 => q.pool = 0
      BY <1>2, <2>1, <2>2, <2>3
    <3>2. ASSUME NEW d \in U, q.balances[d] > 0 PROVE q.pool = 0
      <4>1. q.balances[d] = p.balances[d]
        BY <2>2
      <4> QED
        BY <2>2, <2>3, <3>2, <4>1
    <3> QED
      BY <3>1, <3>2
  <2>5. i \notin T => q.balances[i] = purse.balances[i]
    BY <2>2, <2>3
  <2>6. ASSUME j \in T, q.balances[j] > 0 PROVE q.balances[i] = purse.balances[i]
    <3>1. order[i][1] \in Int /\ order[i][2] \in Int /\ order[i][3] \in Int
      BY DEF Ranks
    <3>2. order[j][1] \in Int /\ order[j][2] \in Int /\ order[j][3] \in Int
      BY DEF Ranks
    <3>3. order[x][1] \in Int /\ order[x][2] \in Int /\ order[x][3] \in Int
      BY <2>1 DEF Ranks
    <3>4. CASE i = x
      <4>1. j # x
        BY <3>1, <3>4 DEF Before
      <4>2. q.balances[j] = p.balances[j] /\ j \in U
        BY <2>2, <2>6, <4>1
      <4>3. p.pool = 0
        BY <2>3, <2>6, <4>2
      <4>4. amount = 0
        BY <2>2, <2>3, <4>3
      <4> QED
        BY <2>2, <2>3, <3>4, <4>4
    <3>5. CASE i # x
      <4>1. q.balances[i] = p.balances[i]
        BY <2>2, <3>5
      <4>2. CASE i \in T
        <5>1. Before(order[i], order[x])
          BY <1>4, <3>5, <4>2
        <5>2. j # x
          BY <3>1, <3>3, <5>1 DEF Before
        <5>3. j \in U /\ p.balances[j] > 0
          BY <2>2, <2>6, <5>2
        <5> QED
          BY <2>3, <4>1, <5>3
      <4>3. CASE i \notin T
        BY <2>3, <4>1, <4>3
      <4> QED
        BY <4>2, <4>3
    <3> QED
      BY <3>4, <3>5
  <2>7. q.pool <= purse.pool
    BY <1>2, <2>2, <2>3
  <2> QED
    BY <1>1, <2>2, <2>4, <2>5, <2>6, <2>7 DEF q
<1>5. <<S, Pays(purse, S, order, cap)>> \in good
  BY <1>3, <1>4, PaysInduct
<1> QED
  BY <1>1, <1>5

-----------------------------------------------------------------------------
(* Amounts in a unit.                                                      *)

Multiple(x, u) == \E q \in Nat : x = q * u

LEMMA MultipleIs ==
  ASSUME NEW u \in Nat, NEW a, Multiple(a, u), NEW b, Multiple(b, u)
  PROVE  a \in Nat /\ b \in Nat /\ Multiple(a + b, u) /\ (b <= a => Multiple(a - b, u))
<1>1. PICK p \in Nat : a = p * u
  BY DEF Multiple
<1>2. PICK q \in Nat : b = q * u
  BY DEF Multiple
<1>3. a \in Nat /\ b \in Nat
  BY <1>1, <1>2
<1>4. a + b = (p + q) * u /\ p + q \in Nat
  BY <1>1, <1>2
<1>5. Multiple(a + b, u)
  BY <1>4 DEF Multiple
<1>6. CASE p >= q
  <2>1. a - b = (p - q) * u /\ p - q \in Nat
    BY <1>1, <1>2, <1>6
  <2> QED
    BY <1>3, <1>5, <2>1 DEF Multiple
<1>7. CASE p < q
  <2> DEFINE r == q - p
  <2>1. r \in Nat /\ q = p + r
    BY <1>7
  <2> HIDE DEF r
  <2>2. b = a + r * u /\ r * u \in Nat
    BY <1>1, <1>2, <2>1
  <2>3. b <= a => a - b = 0
    BY <1>3, <2>2
  <2>4. 0 = 0 * u
    OBVIOUS
  <2> QED
    BY <1>3, <1>5, <2>3, <2>4 DEF Multiple
<1> QED
  BY <1>6, <1>7

LEMMA TotalMultiple ==
  ASSUME NEW u \in Nat, NEW f, NEW S, IsFiniteSet(S), \A x \in S : Multiple(f[x], u)
  PROVE  Multiple(SumOf(f, S), u)
<1> DEFINE bad == {T \in SUBSET S : ~Multiple(SumOf(f, T), u)}
<1>1. SUFFICES ASSUME bad # {} PROVE FALSE
  OBVIOUS
<1>2. bad \in SUBSET SUBSET S
  OBVIOUS
<1> HIDE DEF bad
<1>3. PICK T \in bad : \A U \in SUBSET T : U # T => U \notin bad
  BY <1>1, <1>2, HasSmallest
<1>4. T \in SUBSET S /\ ~Multiple(SumOf(f, T), u) /\ IsFiniteSet(T)
  BY <1>3, FS_Subset DEF bad
<1>5. T # {}
  <2>1. SumOf(f, {}) = 0 * u
    BY TotalEmpty
  <2> QED
    BY <1>4, <2>1 DEF Multiple
<1>6. PICK x \in T : TRUE
  BY <1>5
<1>7. \A y \in S : f[y] \in Int
  BY MultipleIs
<1>8. SumOf(f, T) = f[x] + SumOf(f, T \ {x})
  BY <1>4, <1>7, TotalRemoves
<1>9. Multiple(SumOf(f, T \ {x}), u)
  <2>1. T \ {x} \in SUBSET T /\ T \ {x} # T /\ T \ {x} \in SUBSET S
    BY <1>4
  <2> QED
    BY <1>3, <2>1 DEF bad
<1>10. Multiple(f[x], u)
  BY <1>4
<1> QED
  BY <1>4, <1>8, <1>9, <1>10, MultipleIs

LEMMA UnitsExist == \E g : g = [n \in 0 .. MaxMonths |-> IF n = 0 THEN 1 ELSE RateUnit * g[n - 1]]
<1> DEFINE Are(g, n) == g = [m \in 0 .. n |-> IF m = 0 THEN 1 ELSE RateUnit * g[m - 1]]
           bad == {n \in 0 .. MaxMonths : ~ \E g : Are(g, n)}
<1>0. MaxMonths \in Nat
  BY DebtAssumption DEF DebtAssumption
<1> SUFFICES ASSUME bad # {} PROVE FALSE
  <2>1. MaxMonths \in 0 .. MaxMonths
    BY <1>0
  <2>2. bad = {} => \E g : Are(g, MaxMonths)
    BY <2>1
  <2> QED
    BY <2>2
<1>1. bad \in SUBSET Nat
  OBVIOUS
<1> DEFINE n == Min(bad)
<1> HIDE DEF bad, n
<1>2. n \in bad /\ \A k \in bad : n <= k
  BY <1>1, HasFirst DEF n
<1>3. n \in 0 .. MaxMonths /\ ~ \E g : Are(g, n)
  BY <1>2 DEF bad
<1>4. CASE n = 0
  <2> DEFINE h == [m \in 0 .. n |-> 1]
  <2>1. \A m \in 0 .. n : m = 0
    BY <1>4
  <2>2. Are(h, n)
    BY <2>1
  <2> QED
    BY <1>3, <2>2
<1>5. CASE n # 0
  <2>1. n - 1 \in 0 .. MaxMonths /\ n - 1 \notin bad
    BY <1>0, <1>2, <1>3, <1>5
  <2>2. PICK g : Are(g, n - 1)
    BY <2>1 DEF bad
  <2> DEFINE h == [m \in 0 .. n |-> IF m = 0 THEN 1 ELSE RateUnit * g[m - 1]]
  <2>3. \A m \in 0 .. n - 1 : h[m] = g[m]
    <3> SUFFICES ASSUME NEW m \in 0 .. n - 1 PROVE h[m] = g[m]
      OBVIOUS
    <3>1. m \in 0 .. n
      BY <1>3
    <3>2. h[m] = IF m = 0 THEN 1 ELSE RateUnit * g[m - 1]
      BY <3>1
    <3> HIDE DEF h
    <3>3. g[m] = IF m = 0 THEN 1 ELSE RateUnit * g[m - 1]
      BY <2>2
    <3> QED
      BY <3>2, <3>3
  <2>4. \A m \in 0 .. n : m # 0 => m - 1 \in 0 .. n - 1
    BY <1>3
  <2>5. \A m \in 0 .. n : h[m] = IF m = 0 THEN 1 ELSE RateUnit * h[m - 1]
    BY <2>3, <2>4
  <2>6. h = [m \in 0 .. n |-> h[m]]
    OBVIOUS
  <2> HIDE DEF h
  <2>7. Are(h, n)
    BY <2>5, <2>6
  <2> QED
    BY <1>3, <2>7
<1> QED
  BY <1>4, <1>5

LEMMA UnitIs ==
  /\ Unit \in [0 .. MaxMonths -> Nat \ {0}]
  /\ \A n \in 0 .. MaxMonths : n > 0 => Unit[n] = RateUnit * Unit[n - 1]
<1>1. Unit = [n \in 0 .. MaxMonths |-> IF n = 0 THEN 1 ELSE RateUnit * Unit[n - 1]]
  BY UnitsExist DEF Unit
<1>2. MaxMonths \in Nat /\ RateUnit \in Nat /\ RateUnit > 0
  BY DebtAssumption DEF DebtAssumption
<1> DEFINE bad == {n \in 0 .. MaxMonths : ~(Unit[n] \in Nat \ {0})}
<1>3. bad = {}
  <2> SUFFICES ASSUME bad # {} PROVE FALSE
    OBVIOUS
  <2>1. bad \in SUBSET Nat
    OBVIOUS
  <2> DEFINE n == Min(bad)
  <2> HIDE DEF bad, n
  <2>2. n \in bad /\ \A k \in bad : n <= k
    BY <2>1, HasFirst DEF n
  <2>3. n \in 0 .. MaxMonths /\ ~(Unit[n] \in Nat \ {0})
    BY <2>2 DEF bad
  <2>4. n # 0
    BY <1>1, <2>3
  <2>5. n - 1 \in 0 .. MaxMonths /\ n - 1 \notin bad
    BY <1>2, <2>2, <2>3, <2>4
  <2>6. Unit[n - 1] \in Nat /\ Unit[n - 1] > 0
    BY <2>5 DEF bad
  <2>7. Unit[n] = RateUnit * Unit[n - 1]
    BY <1>1, <2>3, <2>4
  <2>8. Unit[n] \in Nat /\ Unit[n] > 0
    BY <1>2, <2>6, <2>7
  <2> QED
    BY <2>3, <2>8
<1>4. \A n \in 0 .. MaxMonths : Unit[n] \in Nat \ {0}
  BY <1>3
<1>5. Unit = [n \in 0 .. MaxMonths |-> Unit[n]]
  BY <1>1
<1>6. ASSUME NEW n \in 0 .. MaxMonths, n > 0 PROVE Unit[n] = RateUnit * Unit[n - 1]
  <2>1. n # 0
    BY <1>6
  <2> QED
    BY <1>1, <2>1
<1> QED
  BY <1>4, <1>5, <1>6

(* What is paid of debts and from a pool in a unit leaves them in it.      *)
LEMMA PaysExact ==
  ASSUME Debts \subseteq Nat, NEW S \in SUBSET Debts, IsFiniteSet(S), NEW order, Ranks(order),
         NEW purse \in Purses, NEW cap \in [Debts -> Nat], NEW u \in Nat,
         Multiple(purse.pool, u), \A d \in Debts : Multiple(purse.balances[d], u),
         \A d \in S : Multiple(cap[d], u)
  PROVE  LET q == Pays(purse, S, order, cap)
         IN Multiple(q.pool, u) /\ \A d \in Debts : Multiple(q.balances[d], u)
<1> DEFINE good == {w \in (SUBSET S) \X Purses :
                      Multiple(w[2].pool, u) /\ \A d \in Debts : Multiple(w[2].balances[d], u)}
<1>1. ASSUME NEW T, NEW p
      PROVE  <<T, p>> \in good <=>
               /\ T \in SUBSET S /\ p \in Purses
               /\ Multiple(p.pool, u) /\ \A d \in Debts : Multiple(p.balances[d], u)
  OBVIOUS
<1> HIDE DEF good
<1>2. <<{}, purse>> \in good
  BY <1>1
<1>3. ASSUME NEW T \in SUBSET S, NEW x \in T, NEW p \in Purses, <<T \ {x}, p>> \in good
      PROVE  <<T, Paid(p, x, cap[x])>> \in good
  <2> DEFINE q == Paid(p, x, cap[x])
             amount == Min({cap[x], p.balances[x], p.pool})
  <2>1. x \in Debts /\ cap[x] \in Nat /\ Multiple(cap[x], u)
    OBVIOUS
  <2>2. /\ amount \in {cap[x], p.balances[x], p.pool} /\ amount \in Nat
        /\ amount <= p.balances[x] /\ amount <= p.pool
        /\ q \in Purses /\ q.balances[x] = p.balances[x] - amount /\ q.pool = p.pool - amount
        /\ \A e \in Debts \ {x} : q.balances[e] = p.balances[e]
    BY <2>1, PaidIs
  <2> HIDE DEF q, amount
  <2>3. Multiple(p.pool, u) /\ \A d \in Debts : Multiple(p.balances[d], u)
    BY <1>1, <1>3
  <2>4. Multiple(amount, u)
    BY <2>1, <2>2, <2>3
  <2>5. Multiple(q.pool, u)
    BY <2>2, <2>3, <2>4, MultipleIs
  <2>6. Multiple(q.balances[x], u)
    <3> DEFINE owed == p.balances[x]
    <3>1. Multiple(owed, u) /\ amount <= owed /\ q.balances[x] = owed - amount
      BY <2>1, <2>2, <2>3
    <3> HIDE DEF owed
    <3>2. Multiple(owed - amount, u)
      BY <2>4, <3>1, MultipleIs
    <3> QED
      BY <3>1, <3>2
  <2>7. \A d \in Debts : Multiple(q.balances[d], u)
    BY <2>2, <2>3, <2>6
  <2> QED
    BY <1>1, <2>2, <2>5, <2>7 DEF q
<1>4. <<S, Pays(purse, S, order, cap)>> \in good
  BY <1>2, <1>3, PaysInduct
<1> QED
  BY <1>1, <1>4

(* The interest of a month on balances in the unit for n months is exact   *)
(* and in the unit for n - 1.                                              *)
LEMMA InterestIsExact ==
  ASSUME debtPlan \in DebtPlans, NEW b \in [Debts -> Nat], NEW u \in Nat,
         NEW d \in Debts, Multiple(b[d], RateUnit * u)
  PROVE  /\ RateUnit * Interest(b)[d] = Debt(d).rate * b[d]
         /\ Multiple(Interest(b)[d], u) /\ Multiple(b[d], u)
<1>1. PICK q \in Nat : b[d] = q * (RateUnit * u)
  BY DEF Multiple
<1>2. Debt(d).rate \in Nat /\ RateUnit \in Nat /\ RateUnit > 0 /\ b[d] \in Nat
  BY PlanIs
<1> DEFINE rate == Debt(d).rate
           i == (q * rate) * u
<1>3. Interest(b)[d] = (b[d] * rate) \div RateUnit
  BY DEF Interest
<1> HIDE DEF rate
<1>4. rate \in Nat
  BY <1>2 DEF rate
<1>5. i \in Nat /\ b[d] * rate = RateUnit * i
  BY <1>1, <1>2, <1>4
<1>6. q * rate \in Nat /\ Multiple(i, u)
  BY <1>4 DEF Multiple
<1>7. q * RateUnit \in Nat /\ b[d] = (q * RateUnit) * u
  BY <1>1, <1>2
<1>8. Multiple(b[d], u)
  BY <1>7 DEF Multiple
<1> HIDE DEF i
<1>9. (RateUnit * i) \div RateUnit = i
  <2> DEFINE n == RateUnit * i
  <2>1. n \in Nat
    BY <1>2, <1>5
  <2> HIDE DEF n
  <2> DEFINE k == n \div RateUnit
             m == n % RateUnit
  <2>9. k \in Int /\ m \in Int /\ 0 <= m /\ m < RateUnit /\ n = RateUnit * k + m
    BY <1>2, <2>1
  <2> HIDE DEF k, m
  <2>2. k \in Int /\ m \in Int /\ 0 <= m /\ m < RateUnit /\ RateUnit * i = RateUnit * k + m
    BY <2>9 DEF n
  <2>3. RateUnit * (i - k) = m
    BY <1>2, <1>5, <2>2
  <2> DEFINE j == i - k
  <2>4. j \in Int /\ RateUnit * j = m
    BY <1>5, <2>2, <2>3
  <2> HIDE DEF j
  <2>5. ~(j >= 1)
    BY <1>2, <2>2, <2>4
  <2>6. ~(j <= -1)
    BY <1>2, <2>2, <2>4
  <2>7. j = 0
    BY <2>4, <2>5, <2>6
  <2>8. i = k
    BY <1>5, <2>2, <2>7 DEF j
  <2> QED
    BY <2>8 DEF k, n
<1>10. Interest(b)[d] = i
  BY <1>3, <1>5, <1>9
<1>11. rate * b[d] = b[d] * rate
  BY <1>2, <1>4
<1> QED
  BY <1>5, <1>6, <1>8, <1>10, <1>11 DEF rate

-----------------------------------------------------------------------------
(* Weighing by the rate.                                                   *)

(* Who owes no more in all, and owes at the low rates rather than at the   *)
(* high ones, is charged no more.                                          *)
LEMMA InterestLess ==
  ASSUME debtPlan \in DebtPlans, NEW a \in [Debts -> Nat], NEW b \in [Debts -> Nat],
         SumOf(a, Debts) <= SumOf(b, Debts),
         \A i, j \in Debts : Debt(i).rate < Debt(j).rate /\ a[j] > 0 => b[i] <= a[i],
         \A d \in Debts : RateUnit * Interest(a)[d] = Debt(d).rate * a[d],
         \A d \in Debts : RateUnit * Interest(b)[d] = Debt(d).rate * b[d]
  PROVE  SumOf(Interest(a), Debts) <= SumOf(Interest(b), Debts)
<1> DEFINE S == Debts
           ia == Interest(a)
           ib == Interest(b)
           rate == [d \in S |-> Debt(d).rate]
           e == [d \in S |-> a[d] - b[d]]
           ie == [d \in S |-> ia[d] - ib[d]]
           h == [d \in S |-> rate[d] * e[d]]
           tail(r) == [d \in S |-> IF rate[d] >= r THEN e[d] ELSE 0]
           head(r) == [d \in S |-> IF rate[d] >= r THEN 0 ELSE e[d]]
<1>1. IsFiniteSet(S) /\ RateUnit \in Nat /\ RateUnit > 0 /\ \A d \in S : rate[d] \in Nat
  BY PlanIs
<1>2. \A d \in S : a[d] \in Nat /\ b[d] \in Nat /\ ia[d] \in Nat /\ ib[d] \in Nat
  BY InterestIs
<1>3. \A d \in S : e[d] \in Int /\ a[d] = b[d] + e[d]
  BY <1>2
<1>4. \A d \in S : ie[d] \in Int /\ ia[d] = ib[d] + ie[d]
  BY <1>2
<1>5. \A d \in S : h[d] = rate[d] * e[d]
  OBVIOUS
<1>6. ASSUME NEW d \in S PROVE h[d] = RateUnit * ie[d]
  <2> DEFINE k == rate[d]
             x == a[d]
             y == b[d]
             p == ia[d]
             q == ib[d]
  <2>1. RateUnit * p = k * x /\ RateUnit * q = k * y
    OBVIOUS
  <2>2. k \in Nat /\ x \in Nat /\ y \in Nat /\ p \in Nat /\ q \in Nat
    BY <1>1, <1>2
  <2>3. h[d] = k * (x - y) /\ ie[d] = p - q
    OBVIOUS
  <2> HIDE DEF k, x, y, p, q, h, ie
  <2>4. k * (x - y) = k * x - k * y /\ RateUnit * (p - q) = RateUnit * p - RateUnit * q
    BY <1>1, <2>2
  <2> QED
    BY <2>1, <2>3, <2>4
<1>7. ASSUME NEW r \in Nat, NEW d \in S
      PROVE  tail(r)[d] \in Int /\ head(r)[d] \in Int /\ e[d] = tail(r)[d] + head(r)[d]
  <2> DEFINE x == e[d]
  <2>1. x \in Int
    BY <1>3
  <2>2. tail(r)[d] = (IF rate[d] >= r THEN x ELSE 0) /\ head(r)[d] = IF rate[d] >= r THEN 0 ELSE x
    OBVIOUS
  <2> HIDE DEF x, tail, head, rate
  <2>3. tail(r)[d] \in Int /\ head(r)[d] \in Int /\ x = tail(r)[d] + head(r)[d]
    BY <2>1, <2>2
  <2> QED
    BY <2>3 DEF x
<1>8. SumOf(e, S) <= 0 /\ SumOf(e, S) \in Int
  <2>1. \A d \in S : b[d] \in Int /\ e[d] \in Int /\ a[d] = b[d] + e[d]
    BY <1>2, <1>3
  <2> HIDE DEF e
  <2>2. SumOf(a, S) = SumOf(b, S) + SumOf(e, S)
    BY <1>1, <2>1, TotalPlus
  <2>3. SumOf(b, S) \in Int /\ SumOf(e, S) \in Int
    BY <1>1, <2>1, TotalType
  <2>4. SumOf(a, S) <= SumOf(b, S)
    OBVIOUS
  <2> QED
    BY <2>2, <2>3, <2>4
<1>9. ASSUME NEW r \in Nat PROVE SumOf(tail(r), S) <= 0
  <2> DEFINE t == tail(r)
             l == head(r)
             z == [d \in S |-> 0]
  <2>1. \A d \in S : t[d] \in Int /\ l[d] \in Int /\ e[d] = t[d] + l[d]
    BY <1>7
  <2>2. \A d \in S : z[d] = 0 /\ z[d] \in Int
    OBVIOUS
  <2>3. CASE \E j \in S : t[j] > 0
    <3>1. PICK j \in S : t[j] > 0
      BY <2>3
    <3>2. rate[j] >= r /\ a[j] > 0
      <4>1. t[j] = IF rate[j] >= r THEN e[j] ELSE 0
        OBVIOUS
      <4> HIDE DEF t, e
      <4>2. rate[j] >= r /\ e[j] > 0
        BY <3>1, <4>1
      <4> QED
        BY <1>2, <1>3, <4>2
    <3>3. ASSUME NEW d \in S PROVE z[d] <= l[d]
      <4>1. CASE rate[d] >= r
        BY <4>1
      <4>2. CASE ~(rate[d] >= r)
        <5>1. rate[d] < rate[j]
          BY <1>1, <3>2, <4>2
        <5>2. b[d] <= a[d]
          BY <3>2, <5>1
        <5>3. l[d] = a[d] - b[d]
          BY <4>2
        <5> QED
          BY <1>2, <2>2, <5>2, <5>3
      <4> QED
        BY <4>1, <4>2
    <3> HIDE DEF t, l, e, z
    <3>4. SumOf(z, S) = 0 /\ SumOf(z, S) <= SumOf(l, S)
      BY <1>1, <2>1, <2>2, <3>3, TotalZero, TotalAtMost
    <3>5. SumOf(e, S) = SumOf(t, S) + SumOf(l, S) /\ SumOf(t, S) \in Int /\ SumOf(l, S) \in Int
      BY <1>1, <2>1, TotalPlus, TotalType
    <3>6. SumOf(t, S) <= 0
      BY <1>8, <3>4, <3>5
    <3> QED
      BY <3>6 DEF t
  <2>4. CASE ~ \E j \in S : t[j] > 0
    <3> HIDE DEF t, e, z
    <3>1. \A d \in S : t[d] <= z[d]
      BY <2>1, <2>2, <2>4
    <3>2. SumOf(z, S) = 0 /\ SumOf(t, S) <= SumOf(z, S)
      BY <1>1, <2>1, <2>2, <3>1, TotalZero, TotalAtMost
    <3>3. SumOf(t, S) <= 0
      BY <3>2
    <3> QED
      BY <3>3 DEF t
  <2> QED
    BY <2>3, <2>4
<1>10. \A r \in Nat : SumOf([d \in S |-> IF rate[d] >= r THEN e[d] ELSE 0], S) <= 0
  BY <1>9
<1> HIDE DEF S, ia, ib, rate, e, ie, h, tail, head
<1>11. SumOf(h, S) <= 0
  <2>1. IsFiniteSet(S) /\ \A d \in S : rate[d] \in Nat /\ e[d] \in Int
    BY <1>1, <1>3
  <2> QED
    BY ONLY <2>1, <1>5, <1>10, DearestLess
<1>12. SumOf(h, S) = RateUnit * SumOf(ie, S)
  BY <1>1, <1>4, <1>6, TotalTimes
<1>13. SumOf(ia, S) = SumOf(ib, S) + SumOf(ie, S) /\ SumOf(ib, S) \in Int /\ SumOf(ie, S) \in Int
  <2>1. \A d \in S : ib[d] \in Int /\ ie[d] \in Int /\ ia[d] = ib[d] + ie[d]
    BY <1>2, <1>4
  <2> QED
    BY <1>1, <2>1, TotalPlus, TotalType
<1> DEFINE n == SumOf(ie, S)
<1>14. n \in Int /\ RateUnit * n <= 0
  BY <1>11, <1>12, <1>13
<1> HIDE DEF n
<1>15. n <= 0
  BY <1>1, <1>14
<1>16. SumOf(ia, S) <= SumOf(ib, S)
  BY <1>13, <1>15 DEF n
<1> QED
  BY <1>16 DEF ia, ib, S

-----------------------------------------------------------------------------
(* The stages of a month's payments.                                       *)

Accrued(sim) == [d \in Debts |-> sim.balances[d] + Interest(sim.balances)[d]]
Least == [d \in Debts |-> Debt(d).minimum]
Marked == [d \in Debts |-> Debt(d).earmarked]
Due(pace) == [d \in Debts |-> Least[d] + IF pace = "minimum" THEN 0 ELSE Marked[d]]
Borrowers == {d \in Debts : Debt(d).balance > 0}

Purse(sim, pace) == [balances |-> Accrued(sim), pool |-> Pool(pace)]
AfterMinimums(sim, pace) ==
  Pays(Purse(sim, pace), Owed(sim.balances), Order("custom", Accrued(sim)), Least)
AfterExtras(sim, pace) ==
  IF pace = "minimum" THEN AfterMinimums(sim, pace)
  ELSE Pays(AfterMinimums(sim, pace), Owed(sim.balances), Order("custom", Accrued(sim)), Marked)
AfterAll(sim, s, pace) ==
  LET extras == AfterExtras(sim, pace)
  IN Pays(extras, Owed(sim.balances), Order(s, extras.balances), [d \in Debts |-> extras.pool])

LEMMA PoolSums ==
  ASSUME debtPlan \in DebtPlans, NEW pace
  PROVE  /\ IsFiniteSet(Borrowers) /\ Borrowers \in SUBSET Debts
         /\ Least \in [Debts -> Nat] /\ Marked \in [Debts -> Nat] /\ debtPlan.extra \in Nat
         /\ Pool(pace) = SumOf(Least, Borrowers)
                           + IF pace = "minimum" THEN 0 ELSE SumOf(Marked, Borrowers) + debtPlan.extra
<1> DEFINE S == Borrowers
           f == [d \in S |-> Debt(d).minimum]
           g == [d \in S |-> Debt(d).earmarked]
<1>1. IsFiniteSet(S) /\ S \in SUBSET Debts
  BY PlanIs, FS_Subset DEF Borrowers
<1>2. Least \in [Debts -> Nat] /\ Marked \in [Debts -> Nat] /\ debtPlan.extra \in Nat
  BY PlanIs DEF Least, Marked
<1>3. /\ MapThenSumSet(LAMBDA d : Debt(d).minimum, S) = SumOf(f, S)
      /\ MapThenSumSet(LAMBDA d : Debt(d).earmarked, S) = SumOf(g, S)
  BY DEF MapThenSumSet, SumOf, SumFunctionOnSet, FoldFunctionOnSet, MapThenFoldSet
<1>4. Pool(pace) = SumOf(f, S) + IF pace = "minimum" THEN 0 ELSE SumOf(g, S) + debtPlan.extra
  BY <1>3 DEF Pool, Borrowers
<1>5. \A d \in S : f[d] = Least[d] /\ g[d] = Marked[d]
  BY <1>1 DEF Least, Marked
<1> HIDE DEF S, f, g
<1>6. SumOf(f, S) = SumOf(Least, S) /\ SumOf(g, S) = SumOf(Marked, S)
  BY <1>1, <1>5, TotalSame
<1> QED
  BY <1>1, <1>2, <1>4, <1>6 DEF S

LEMMA StagesAre ==
  ASSUME debtPlan \in DebtPlans, NEW s \in Strategies, NEW pace \in Pace, NEW sim, SimFits(sim)
  PROVE  LET next == NextMonth(sim, <<s, pace>>)
             rest == AfterAll(sim, s, pace)
             total == [d \in Debts |-> sim.interest[d] + Interest(sim.balances)[d]]
         IN /\ next.balances = rest.balances /\ next.idle = rest.pool /\ next.interest = total
            /\ next.paid = sim.paid + Pool(pace) - rest.pool
<1> DEFINE key == <<s, pace>>
<1>1. key[1] = s /\ key[2] = pace
  OBVIOUS
<1> HIDE DEF key
<1> QED
  BY <1>1 DEF NextMonth, AfterAll, AfterExtras, AfterMinimums, Purse, Accrued, Least, Marked, key

LEMMA StagesFit ==
  ASSUME debtPlan \in DebtPlans, NEW s \in Strategies, NEW pace \in Pace, NEW sim, SimFits(sim)
  PROVE  /\ sim.balances \in [Debts -> Nat] /\ Interest(sim.balances) \in [Debts -> Nat]
         /\ Accrued(sim) \in [Debts -> Nat] /\ Pool(pace) \in Nat
         /\ \A d \in Debts : sim.balances[d] = 0 => Accrued(sim)[d] = 0
         /\ Purse(sim, pace) \in Purses /\ AfterMinimums(sim, pace) \in Purses
         /\ AfterExtras(sim, pace) \in Purses /\ AfterAll(sim, s, pace) \in Purses
         /\ Owed(sim.balances) \in SUBSET Borrowers /\ IsFiniteSet(Owed(sim.balances))
         /\ Owed(sim.balances) \in SUBSET Debts
         /\ \A r \in Strategies : \A p \in Purses : Ranks(Order(r, p.balances))
         /\ Ranks(Order("custom", Accrued(sim)))
<1>1. IsFiniteSet(Debts) /\ Debts \subseteq Nat
  BY PlanIs
<1>2. /\ sim.balances \in [Debts -> Nat] /\ Interest(sim.balances) \in [Debts -> Nat]
      /\ Accrued(sim) \in [Debts -> Nat] /\ Pool(pace) \in Nat
      /\ \A d \in Debts : sim.balances[d] = 0 => Accrued(sim)[d] = 0
  <2>1. sim.balances \in [Debts -> Nat]
    BY DEF SimFits, Sims
  <2> DEFINE b == sim.balances
             i == Interest(b)
  <2>2. i \in [Debts -> Nat] /\ \A d \in Debts : b[d] = 0 => i[d] = 0
    BY <2>1, InterestIs
  <2>3. Accrued(sim) = [d \in Debts |-> b[d] + i[d]]
    BY DEF Accrued
  <2> HIDE DEF i
  <2>4. Accrued(sim) \in [Debts -> Nat] /\ \A d \in Debts : b[d] = 0 => Accrued(sim)[d] = 0
    BY <2>1, <2>2, <2>3
  <2> QED
    BY <2>1, <2>2, <2>4, PoolIs DEF i
<1>3. Purse(sim, pace) \in Purses
  BY <1>2 DEF Purse, Purses
<1>4. /\ Owed(sim.balances) \in SUBSET Borrowers /\ IsFiniteSet(Owed(sim.balances))
      /\ Owed(sim.balances) \in SUBSET Debts
  <2>1. \A d \in Debts : sim.balances[d] \in Nat /\ Debt(d).balance \in Nat /\ (Debt(d).balance = 0 => sim.balances[d] = 0)
    BY <1>2, PlanIs DEF SimFits
  <2>2. Owed(sim.balances) \in SUBSET Borrowers /\ Owed(sim.balances) \in SUBSET Debts
    BY <2>1 DEF Owed, Borrowers
  <2> QED
    BY <1>1, <2>2, FS_Subset
<1>5. \A r \in Strategies : \A p \in Purses : Ranks(Order(r, p.balances))
  BY OrdersRank DEF Purses
<1>6. Ranks(Order("custom", Accrued(sim)))
  BY <1>2, OrdersRank DEF Strategies
<1>7. Least \in [Debts -> Nat] /\ Marked \in [Debts -> Nat]
  BY PoolSums
<1>8. AfterMinimums(sim, pace) \in Purses
  BY <1>1, <1>3, <1>4, <1>6, <1>7, PaysKeep DEF AfterMinimums, Remains
<1>9. AfterExtras(sim, pace) \in Purses
  BY <1>1, <1>4, <1>6, <1>7, <1>8, PaysKeep DEF AfterExtras, Remains
<1>10. AfterAll(sim, s, pace) \in Purses
  <2> DEFINE extras == AfterExtras(sim, pace)
             all == [d \in Debts |-> extras.pool]
  <2>1. extras \in Purses /\ all \in [Debts -> Nat] /\ Ranks(Order(s, extras.balances))
    BY <1>5, <1>9 DEF Purses
  <2>2. AfterAll(sim, s, pace) = Pays(extras, Owed(sim.balances), Order(s, extras.balances), all)
    BY DEF AfterAll
  <2> HIDE DEF extras, all
  <2> QED
    BY <1>1, <1>4, <2>1, <2>2, PaysKeep DEF Remains
<1> QED
  BY <1>2, <1>3, <1>4, <1>5, <1>6, <1>8, <1>9, <1>10

(* Every debt that is owed gets its minimum, and what is planned for it,   *)
(* or all of it.                                                           *)
LEMMA DuesArePaid ==
  ASSUME debtPlan \in DebtPlans, NEW s \in Strategies, NEW pace \in Pace, NEW sim, SimFits(sim), NEW d \in Debts
  PROVE  LET left == AfterAll(sim, s, pace).balances[d]
         IN /\ left \in Nat /\ left <= Accrued(sim)[d]
            /\ left = 0 \/ left + Due(pace)[d] <= Accrued(sim)[d]
<1> DEFINE owing == Owed(sim.balances)
           purse == Purse(sim, pace)
           minimums == AfterMinimums(sim, pace)
           extras == AfterExtras(sim, pace)
           all == [e \in Debts |-> extras.pool]
           rest == AfterAll(sim, s, pace)
           listed == Order("custom", Accrued(sim))
           order == Order(s, extras.balances)
<1>1. /\ IsFiniteSet(Debts) /\ Debts \subseteq Nat /\ owing \in SUBSET Debts /\ owing \in SUBSET Borrowers
      /\ IsFiniteSet(owing) /\ Ranks(listed) /\ Ranks(order)
      /\ purse \in Purses /\ minimums \in Purses /\ extras \in Purses /\ rest \in Purses
  BY PlanIs, StagesFit
<1>2. /\ Least \in [Debts -> Nat] /\ Marked \in [Debts -> Nat] /\ debtPlan.extra \in Nat
      /\ IsFiniteSet(Borrowers) /\ Borrowers \in SUBSET Debts
      /\ Pool(pace) = SumOf(Least, Borrowers)
                        + IF pace = "minimum" THEN 0 ELSE SumOf(Marked, Borrowers) + debtPlan.extra
  BY PoolSums
<1>3. /\ SumOf(Least, owing) \in Nat /\ SumOf(Least, Borrowers) \in Nat /\ SumOf(Least, owing) <= SumOf(Least, Borrowers)
      /\ SumOf(Marked, owing) \in Nat /\ SumOf(Marked, Borrowers) \in Nat /\ SumOf(Marked, owing) <= SumOf(Marked, Borrowers)
  <2>1. \A e \in Borrowers : Least[e] \in Nat /\ Marked[e] \in Nat
    BY <1>2
  <2> QED
    BY <1>1, <1>2, <2>1, TotalWithin
<1>4. purse.pool = Pool(pace) /\ purse.balances = Accrued(sim)
  BY DEF Purse
<1>5. /\ minimums = Pays(purse, owing, listed, Least)
      /\ extras = IF pace = "minimum" THEN minimums ELSE Pays(minimums, owing, listed, Marked)
      /\ rest = Pays(extras, owing, order, all)
  BY DEF AfterMinimums, AfterExtras, AfterAll
<1>6. all \in [Debts -> Nat]
  BY <1>1 DEF Purses
<1>7. /\ purse.balances[d] \in Nat /\ minimums.balances[d] \in Nat /\ extras.balances[d] \in Nat
      /\ rest.balances[d] \in Nat /\ minimums.pool \in Nat /\ Least[d] \in Nat /\ Marked[d] \in Nat
  BY <1>1, <1>2 DEF Purses
<1>8. Due(pace)[d] = Least[d] + IF pace = "minimum" THEN 0 ELSE Marked[d]
  BY DEF Due
<1>9. d \notin owing => purse.balances[d] = 0
  <2>1. sim.balances[d] \in Nat /\ (sim.balances[d] = 0 => Accrued(sim)[d] = 0)
    BY StagesFit
  <2> QED
    BY <1>4, <2>1 DEF Owed
<1> HIDE DEF owing, purse, minimums, extras, all, rest, listed, order
<1>10. /\ minimums.balances[d] <= purse.balances[d]
       /\ minimums.pool >= purse.pool - SumOf(Least, owing)
       /\ d \in owing => minimums.balances[d] + Least[d] <= purse.balances[d] \/ minimums.balances[d] = 0
  <2>1. SumOf(Least, owing) <= purse.pool
    BY <1>2, <1>3, <1>4
  <2>2. minimums.balances[d] <= purse.balances[d]
    BY <1>1, <1>2, <1>5, PaysAtMost
  <2>3. /\ minimums.pool >= purse.pool - SumOf(Least, owing)
        /\ \A e \in owing : minimums.balances[e] + Least[e] <= purse.balances[e] \/ minimums.balances[e] = 0
    BY <1>1, <1>2, <1>5, <2>1, PaysInFull
  <2> QED
    BY <2>2, <2>3
<1>11. rest.balances[d] <= extras.balances[d]
  BY <1>1, <1>5, <1>6, PaysAtMost
<1>12. CASE pace = "minimum"
  <2>1. extras = minimums
    BY <1>5, <1>12
  <2> QED
    BY <1>4, <1>7, <1>8, <1>9, <1>10, <1>11, <1>12, <2>1 DEF rest
<1>13. CASE pace # "minimum"
  <2>1. extras = Pays(minimums, owing, listed, Marked)
    BY <1>5, <1>13
  <2>2. extras.balances[d] <= minimums.balances[d]
    BY <1>1, <1>2, <2>1, PaysAtMost
  <2>3. SumOf(Marked, owing) <= minimums.pool
    BY <1>2, <1>3, <1>4, <1>7, <1>10, <1>13
  <2>4. \A e \in owing : extras.balances[e] + Marked[e] <= minimums.balances[e] \/ extras.balances[e] = 0
    BY <1>1, <1>2, <2>1, <2>3, PaysInFull
  <2>5. d \in owing => extras.balances[d] + Marked[d] <= minimums.balances[d] \/ extras.balances[d] = 0
    BY <2>4
  <2> QED
    BY <1>4, <1>7, <1>8, <1>9, <1>10, <1>11, <1>13, <2>2, <2>5 DEF rest
<1> QED
  BY <1>12, <1>13

(* A debt at a lower rate gets no more than that while one at a higher     *)
(* rate is left, under the avalanche.                                      *)
LEMMA CheaperWaits ==
  ASSUME debtPlan \in DebtPlans, NEW pace \in Pace, NEW sim, SimFits(sim),
         NEW i \in Debts, NEW j \in Debts, Debt(i).rate < Debt(j).rate
  PROVE  LET left == AfterAll(sim, "avalanche", pace).balances
         IN left[j] > 0 => left[i] + Due(pace)[i] >= Accrued(sim)[i]
<1> DEFINE owing == Owed(sim.balances)
           purse == Purse(sim, pace)
           minimums == AfterMinimums(sim, pace)
           extras == AfterExtras(sim, pace)
           all == [e \in Debts |-> extras.pool]
           rest == AfterAll(sim, "avalanche", pace)
           listed == Order("custom", Accrued(sim))
           order == Order("avalanche", extras.balances)
<1>0. "avalanche" \in Strategies
  BY DEF Strategies
<1>1. /\ IsFiniteSet(Debts) /\ Debts \subseteq Nat /\ owing \in SUBSET Debts
      /\ IsFiniteSet(owing) /\ Ranks(listed) /\ Ranks(order)
      /\ purse \in Purses /\ minimums \in Purses /\ extras \in Purses /\ rest \in Purses
  BY <1>0, PlanIs, StagesFit
<1>2. Least \in [Debts -> Nat] /\ Marked \in [Debts -> Nat]
  BY PoolSums
<1>3. purse.balances = Accrued(sim)
  BY DEF Purse
<1>4. /\ minimums = Pays(purse, owing, listed, Least)
      /\ extras = IF pace = "minimum" THEN minimums ELSE Pays(minimums, owing, listed, Marked)
      /\ rest = Pays(extras, owing, order, all)
  BY DEF AfterMinimums, AfterExtras, AfterAll
<1>5. all \in [Debts -> Nat] /\ \A d \in owing : all[d] >= extras.pool
  BY <1>1 DEF Purses
<1>6. /\ purse.balances[i] \in Nat /\ minimums.balances[i] \in Nat /\ extras.balances[i] \in Nat
      /\ rest.balances[i] \in Nat /\ rest.balances[j] \in Nat /\ Least[i] \in Nat /\ Marked[i] \in Nat
  BY <1>1, <1>2 DEF Purses
<1>7. Due(pace)[i] = Least[i] + IF pace = "minimum" THEN 0 ELSE Marked[i]
  BY DEF Due
<1>8. Before(order[j], order[i])
  <2>1. Debt(i).rate \in Nat /\ Debt(j).rate \in Nat
    BY PlanIs
  <2>2. order[i][1] = -Debt(i).rate /\ order[j][1] = -Debt(j).rate
    BY DEF Order, Rank
  <2>3. order[j][1] < order[i][1]
    BY <2>1, <2>2
  <2> QED
    BY <2>3 DEF Before
<1>9. j \notin owing => rest.balances[j] = 0
  <2>1. sim.balances[j] \in Nat /\ (sim.balances[j] = 0 => Accrued(sim)[j] = 0)
    BY <1>0, StagesFit
  <2>2. rest.balances[j] <= Accrued(sim)[j]
    BY <1>0, DuesArePaid
  <2> QED
    BY <1>6, <2>1, <2>2 DEF Owed
<1> HIDE DEF owing, purse, minimums, extras, all, rest, listed, order
<1>10. minimums.balances[i] + Least[i] >= purse.balances[i]
  BY <1>1, <1>2, <1>4, PaysAtMost
<1>11. extras.balances[i] + Due(pace)[i] >= purse.balances[i]
  <2>1. CASE pace = "minimum"
    BY <1>4, <1>6, <1>7, <1>10, <2>1
  <2>2. CASE pace # "minimum"
    <3>1. extras = Pays(minimums, owing, listed, Marked)
      BY <1>4, <2>2
    <3>2. extras.balances[i] + Marked[i] >= minimums.balances[i]
      BY <1>1, <1>2, <3>1, PaysAtMost
    <3> QED
      BY <1>6, <1>7, <1>10, <2>2, <3>2
  <2> QED
    BY <2>1, <2>2
<1>12. ASSUME rest.balances[j] > 0 PROVE rest.balances[i] = extras.balances[i]
  <2>1. j \in owing
    BY <1>6, <1>9, <1>12
  <2> QED
    BY <1>1, <1>4, <1>5, <1>8, <1>12, <2>1, PaysInOrder
<1> QED
  BY <1>3, <1>11, <1>12 DEF rest

-----------------------------------------------------------------------------
(* The avalanche leads every other strategy.                               *)

Leads(x, y) ==
  /\ SumOf(x.balances, Debts) <= SumOf(y.balances, Debts)
  /\ SumOf(x.interest, Debts) <= SumOf(y.interest, Debts)
  /\ \A i, j \in Debts : Debt(i).rate < Debt(j).rate /\ x.balances[j] > 0 => y.balances[i] <= x.balances[i]
IsExact(sim) == \A d \in Debts : RateUnit * Interest(sim.balances)[d] = Debt(d).rate * sim.balances[d]

LEMMA MonthTotals ==
  ASSUME debtPlan \in DebtPlans, month \in Nat, NEW s \in Strategies, NEW pace \in Pace, NEW sim, SimFits(sim)
  PROVE  LET next == NextMonth(sim, <<s, pace>>)
             i == SumOf(Interest(sim.balances), Debts)
         IN /\ SumOf(next.balances, Debts) = SumOf(sim.balances, Debts) + i - Pool(pace) + next.idle
            /\ SumOf(next.interest, Debts) = SumOf(sim.interest, Debts) + i
            /\ i \in Nat /\ SumOf(sim.balances, Debts) \in Nat /\ SumOf(sim.interest, Debts) \in Nat
            /\ SumOf(next.balances, Debts) \in Nat /\ next.idle \in Nat
            /\ next.idle > 0 => SumOf(next.balances, Debts) = 0
<1> DEFINE next == NextMonth(sim, <<s, pace>>)
           charged == Interest(sim.balances)
           rest == AfterAll(sim, s, pace)
           total == [d \in Debts |-> sim.interest[d] + charged[d]]
<1>1. IsFiniteSet(Debts) /\ Pool(pace) \in Nat
  BY PlanIs, PoolIs
<1>2. SimFits(next)
  BY MonthFits
<1>3. /\ next.balances = rest.balances /\ next.idle = rest.pool /\ next.interest = total
      /\ next.paid = sim.paid + Pool(pace) - rest.pool
  BY StagesAre
<1>4. charged \in [Debts -> Nat]
  BY StagesFit
<1>5. /\ sim.balances \in [Debts -> Nat] /\ sim.interest \in [Debts -> Nat] /\ sim.paid \in Nat
      /\ SumOf(sim.balances, Debts) + sim.paid = SumOf(Borrowed, Debts) + SumOf(sim.interest, Debts)
  BY DEF SimFits, Sims
<1> HIDE DEF next, charged, rest
<1>6. /\ next.balances \in [Debts -> Nat] /\ next.paid \in Nat /\ next.idle \in Nat
      /\ SumOf(next.balances, Debts) + next.paid = SumOf(Borrowed, Debts) + SumOf(next.interest, Debts)
      /\ next.idle > 0 => \A d \in Debts : next.balances[d] = 0
  BY <1>2 DEF SimFits, Sims
<1>7. SumOf(total, Debts) = SumOf(sim.interest, Debts) + SumOf(charged, Debts)
  <2> DEFINE f == sim.interest
  <2>1. \A d \in Debts : f[d] \in Int /\ charged[d] \in Int /\ total[d] = f[d] + charged[d]
    BY <1>4, <1>5
  <2> HIDE DEF f, total
  <2>2. SumOf(total, Debts) = SumOf(f, Debts) + SumOf(charged, Debts)
    BY <1>1, <2>1, TotalPlus
  <2> QED
    BY <2>2 DEF f
<1> HIDE DEF total
<1>8. ASSUME NEW f \in [Debts -> Nat] PROVE SumOf(f, Debts) \in Nat
  BY <1>1, TotalWithin
<1>9. SumOf(Borrowed, Debts) \in Nat
  <2>1. Borrowed \in [Debts -> Nat]
    BY PlanIs DEF Borrowed
  <2> QED
    BY <1>8, <2>1
<1>10. /\ SumOf(charged, Debts) \in Nat /\ SumOf(sim.balances, Debts) \in Nat
       /\ SumOf(sim.interest, Debts) \in Nat /\ SumOf(next.balances, Debts) \in Nat
  BY <1>4, <1>5, <1>6, <1>8
<1>11. next.idle > 0 => SumOf(next.balances, Debts) = 0
  BY <1>1, <1>6, TotalZero
<1>12. SumOf(next.interest, Debts) = SumOf(sim.interest, Debts) + SumOf(charged, Debts)
  BY <1>3, <1>7
<1>13. SumOf(next.balances, Debts) = SumOf(sim.balances, Debts) + SumOf(charged, Debts) - Pool(pace) + next.idle
  BY <1>1, <1>3, <1>5, <1>6, <1>9, <1>10, <1>12
<1> QED
  BY <1>6, <1>10, <1>11, <1>12, <1>13 DEF next, charged

LEMMA ChargedMore ==
  ASSUME debtPlan \in DebtPlans, NEW x, SimFits(x), IsExact(x), NEW y, SimFits(y), IsExact(y),
         NEW d \in Debts, y.balances[d] <= x.balances[d]
  PROVE  Accrued(y)[d] <= Accrued(x)[d]
<1> DEFINE a == x.balances[d]
           b == y.balances[d]
           p == Interest(x.balances)[d]
           q == Interest(y.balances)[d]
           rate == Debt(d).rate
           c == a - b
<1>1. a \in Nat /\ b \in Nat /\ b <= a
  BY DEF SimFits, Sims
<1>2. p \in Nat /\ q \in Nat
  BY InterestIs DEF SimFits, Sims
<1>3. rate \in Nat /\ RateUnit \in Nat /\ RateUnit > 0
  BY PlanIs
<1>4. RateUnit * p = rate * a /\ RateUnit * q = rate * b
  BY DEF IsExact
<1>5. Accrued(x)[d] = a + p /\ Accrued(y)[d] = b + q
  BY DEF Accrued
<1>6. c \in Nat /\ a = b + c
  BY <1>1
<1> HIDE DEF a, b, p, q, rate, c
<1>7. rate * a = rate * b + rate * c /\ rate * c \in Nat /\ rate * b \in Nat
  BY <1>1, <1>3, <1>6
<1>8. RateUnit * (p - q) = RateUnit * p - RateUnit * q
  BY <1>2, <1>3
<1> DEFINE n == p - q
<1>9. n \in Int /\ RateUnit * n >= 0
  BY <1>2, <1>4, <1>7, <1>8
<1> HIDE DEF n
<1>10. n >= 0
  BY <1>3, <1>9
<1> QED
  BY <1>1, <1>2, <1>5, <1>10 DEF n

LEMMA MonthLeads ==
  ASSUME debtPlan \in DebtPlans, month \in Nat, NEW s \in Strategies, NEW pace \in Pace,
         NEW x, SimFits(x), IsExact(x), NEW y, SimFits(y), IsExact(y), Leads(x, y)
  PROVE  Leads(NextMonth(x, <<"avalanche", pace>>), NextMonth(y, <<s, pace>>))
<1> DEFINE nx == NextMonth(x, <<"avalanche", pace>>)
           ny == NextMonth(y, <<s, pace>>)
           ix == SumOf(Interest(x.balances), Debts)
           iy == SumOf(Interest(y.balances), Debts)
<1>1. "avalanche" \in Strategies
  BY DEF Strategies
<1>2. /\ SumOf(nx.balances, Debts) = SumOf(x.balances, Debts) + ix - Pool(pace) + nx.idle
      /\ SumOf(nx.interest, Debts) = SumOf(x.interest, Debts) + ix
      /\ ix \in Nat /\ SumOf(x.balances, Debts) \in Nat /\ SumOf(x.interest, Debts) \in Nat
      /\ SumOf(nx.balances, Debts) \in Nat /\ nx.idle \in Nat
      /\ nx.idle > 0 => SumOf(nx.balances, Debts) = 0
  BY <1>1, MonthTotals
<1>3. /\ SumOf(ny.balances, Debts) = SumOf(y.balances, Debts) + iy - Pool(pace) + ny.idle
      /\ SumOf(ny.interest, Debts) = SumOf(y.interest, Debts) + iy
      /\ iy \in Nat /\ SumOf(y.balances, Debts) \in Nat /\ SumOf(y.interest, Debts) \in Nat
      /\ SumOf(ny.balances, Debts) \in Nat /\ ny.idle \in Nat
  BY MonthTotals
<1>4. ix <= iy
  <2> DEFINE a == x.balances
             b == y.balances
  <2>1. a \in [Debts -> Nat] /\ b \in [Debts -> Nat]
    BY DEF SimFits, Sims
  <2>2. /\ SumOf(a, Debts) <= SumOf(b, Debts)
        /\ \A i, j \in Debts : Debt(i).rate < Debt(j).rate /\ a[j] > 0 => b[i] <= a[i]
    BY DEF Leads
  <2>3. /\ \A d \in Debts : RateUnit * Interest(a)[d] = Debt(d).rate * a[d]
        /\ \A d \in Debts : RateUnit * Interest(b)[d] = Debt(d).rate * b[d]
    BY DEF IsExact
  <2> HIDE DEF a, b
  <2>4. SumOf(Interest(a), Debts) <= SumOf(Interest(b), Debts)
    BY <2>1, <2>2, <2>3, InterestLess
  <2> QED
    BY <2>4 DEF a, b
<1>5. SumOf(x.balances, Debts) <= SumOf(y.balances, Debts) /\ SumOf(x.interest, Debts) <= SumOf(y.interest, Debts)
  BY DEF Leads
<1>6. Pool(pace) \in Nat
  BY PoolIs
<1>7. nx.balances = AfterAll(x, "avalanche", pace).balances /\ ny.balances = AfterAll(y, s, pace).balances
  BY <1>1, StagesAre
<1>8. ASSUME NEW i \in Debts, NEW j \in Debts, Debt(i).rate < Debt(j).rate, nx.balances[j] > 0
      PROVE  ny.balances[i] <= nx.balances[i]
  <2> DEFINE xi == AfterAll(x, "avalanche", pace).balances[i]
             xj == AfterAll(x, "avalanche", pace).balances[j]
             yi == AfterAll(y, s, pace).balances[i]
             due == Due(pace)[i]
             ax == Accrued(x)[i]
             ay == Accrued(y)[i]
  <2>1. nx.balances[i] = xi /\ nx.balances[j] = xj /\ ny.balances[i] = yi
    BY <1>7
  <2>2. xi \in Nat /\ xj \in Nat /\ xj <= Accrued(x)[j]
    BY <1>1, DuesArePaid
  <2>3. yi \in Nat /\ (yi = 0 \/ yi + due <= ay)
    BY DuesArePaid
  <2>4. xj > 0
    BY <1>8, <2>1
  <2>5. xi + due >= ax
    BY <1>8, <2>4, CheaperWaits
  <2>6. x.balances[j] > 0
    <3>1. x.balances[j] \in Nat /\ (x.balances[j] = 0 => Accrued(x)[j] = 0)
      BY <1>1, StagesFit
    <3> QED
      BY <2>2, <2>4, <3>1
  <2>7. y.balances[i] <= x.balances[i]
    BY <1>8, <2>6 DEF Leads
  <2>8. ay <= ax
    BY <2>7, ChargedMore
  <2>9. ax \in Nat /\ ay \in Nat
    BY <1>1, StagesFit
  <2>10. due \in Nat
    <3>1. Least \in [Debts -> Nat] /\ Marked \in [Debts -> Nat]
      BY PoolSums
    <3>2. due = Least[i] + IF pace = "minimum" THEN 0 ELSE Marked[i]
      BY DEF Due
    <3> HIDE DEF due
    <3>3. Least[i] \in Nat /\ Marked[i] \in Nat
      BY <3>1
    <3> QED
      BY <3>2, <3>3
  <2> HIDE DEF xi, xj, yi, due, ax, ay
  <2> QED
    BY <2>1, <2>2, <2>3, <2>5, <2>8, <2>9, <2>10
<1> HIDE DEF nx, ny, ix, iy
<1>9. SumOf(nx.balances, Debts) <= SumOf(ny.balances, Debts)
  BY <1>2, <1>3, <1>4, <1>5, <1>6
<1>10. SumOf(nx.interest, Debts) <= SumOf(ny.interest, Debts)
  BY <1>2, <1>3, <1>4, <1>5
<1>11. Leads(nx, ny)
  BY <1>8, <1>9, <1>10 DEF Leads
<1> QED
  BY <1>11 DEF nx, ny

LEMMA PassLeads ==
  ASSUME debtPlan \in DebtPlans, month \in Nat, NEW s \in Strategies, NEW pace \in Pace,
         NEW x, SimFits(x), IsExact(x), NEW y, SimFits(y), IsExact(y), Leads(x, y)
  PROVE  Leads(IF Done(x, <<"avalanche", pace>>) THEN x ELSE NextMonth(x, <<"avalanche", pace>>),
               IF Done(y, <<s, pace>>) THEN y ELSE NextMonth(y, <<s, pace>>))
<1>1. /\ Done(x, <<"avalanche", pace>>) <=> Owed(x.balances) = {} \/ Pool(pace) = 0
      /\ Done(y, <<s, pace>>) <=> Owed(y.balances) = {} \/ Pool(pace) = 0
  BY DEF Done
<1>2. /\ IsFiniteSet(Debts) /\ x.balances \in [Debts -> Nat] /\ y.balances \in [Debts -> Nat]
  BY PlanIs DEF SimFits, Sims
<1>3. /\ SumOf(x.balances, Debts) <= SumOf(y.balances, Debts)
      /\ SumOf(x.interest, Debts) <= SumOf(y.interest, Debts)
  BY DEF Leads
<1>4. CASE Pool(pace) = 0
  BY <1>1, <1>4
<1>5. CASE Pool(pace) # 0 /\ Owed(x.balances) = {}
  <2> DEFINE ny == NextMonth(y, <<s, pace>>)
             i == SumOf(Interest(y.balances), Debts)
  <2>1. \A d \in Debts : x.balances[d] = 0
    BY <1>2, <1>5 DEF Owed
  <2>2. SumOf(x.balances, Debts) = 0
    BY <1>2, <2>1, TotalZero
  <2>3. /\ SumOf(ny.interest, Debts) = SumOf(y.interest, Debts) + i /\ i \in Nat
        /\ SumOf(y.interest, Debts) \in Nat /\ SumOf(ny.balances, Debts) \in Nat
    BY MonthTotals
  <2>4. SumOf(x.interest, Debts) \in Nat
    <3>1. x.interest \in [Debts -> Nat]
      BY DEF SimFits, Sims
    <3> QED
      BY <1>2, <3>1, TotalWithin
  <2> HIDE DEF ny, i
  <2>5. Leads(x, ny)
    BY <1>3, <2>1, <2>2, <2>3, <2>4 DEF Leads
  <2> QED
    BY <1>1, <1>5, <2>5 DEF ny
<1>6. CASE Pool(pace) # 0 /\ Owed(x.balances) # {}
  <2>1. Owed(y.balances) # {}
    <3> SUFFICES ASSUME Owed(y.balances) = {} PROVE FALSE
      OBVIOUS
    <3> DEFINE a == x.balances
               b == y.balances
    <3>1. PICK d \in Debts : a[d] > 0
      BY <1>6 DEF Owed
    <3>2. (\A e \in Debts : b[e] = 0) /\ \A e \in Debts : a[e] \in Nat
      BY <1>2 DEF Owed
    <3>3. SumOf(a, Debts) <= SumOf(b, Debts)
      BY <1>3
    <3> HIDE DEF a, b
    <3>4. SumOf(b, Debts) = 0
      BY <1>2, <3>2, TotalZero
    <3>5. SumOf(a, Debts) = a[d] + SumOf(a, Debts \ {d})
      BY <1>2, <3>2, TotalRemoves
    <3>6. SumOf(a, Debts \ {d}) \in Nat
      BY <1>2, <3>2, TotalWithin
    <3> QED
      BY <3>1, <3>2, <3>3, <3>4, <3>5, <3>6
  <2>2. Leads(NextMonth(x, <<"avalanche", pace>>), NextMonth(y, <<s, pace>>))
    BY MonthLeads
  <2> QED
    BY <1>1, <1>6, <2>1, <2>2
<1> QED
  BY <1>4, <1>5, <1>6

-----------------------------------------------------------------------------
(* Interest stays exact.                                                   *)

PaymentsIn(u) == Multiple(debtPlan.extra, u) /\ \A d \in Debts : Multiple(Least[d], u) /\ Multiple(Marked[d], u)
BalancesIn(sim, u) == \A d \in Debts : Multiple(sim.balances[d], u)

LEMMA FinerUnit ==
  ASSUME NEW u \in Nat, NEW x, Multiple(x, RateUnit * u)
  PROVE  Multiple(x, u)
<1>1. PICK q \in Nat : x = q * (RateUnit * u)
  BY DEF Multiple
<1>2. RateUnit \in Nat
  BY DebtAssumption DEF DebtAssumption
<1>3. q * RateUnit \in Nat /\ x = (q * RateUnit) * u
  BY <1>1, <1>2
<1> QED
  BY <1>3 DEF Multiple

LEMMA MonthIsExact ==
  ASSUME debtPlan \in DebtPlans, NEW s \in Strategies, NEW pace \in Pace, NEW sim, SimFits(sim),
         NEW u \in Nat, PaymentsIn(u), BalancesIn(sim, RateUnit * u)
  PROVE  IsExact(sim) /\ BalancesIn(sim, u) /\ BalancesIn(NextMonth(sim, <<s, pace>>), u)
<1> DEFINE owing == Owed(sim.balances)
           purse == Purse(sim, pace)
           minimums == AfterMinimums(sim, pace)
           extras == AfterExtras(sim, pace)
           all == [d \in Debts |-> extras.pool]
           rest == AfterAll(sim, s, pace)
           listed == Order("custom", Accrued(sim))
           order == Order(s, extras.balances)
<1>1. /\ IsFiniteSet(Debts) /\ Debts \subseteq Nat /\ owing \in SUBSET Debts
      /\ IsFiniteSet(owing) /\ Ranks(listed) /\ Ranks(order) /\ sim.balances \in [Debts -> Nat]
      /\ purse \in Purses /\ minimums \in Purses /\ extras \in Purses /\ rest \in Purses
  BY PlanIs, StagesFit
<1>2. /\ minimums = Pays(purse, owing, listed, Least)
      /\ extras = IF pace = "minimum" THEN minimums ELSE Pays(minimums, owing, listed, Marked)
      /\ rest = Pays(extras, owing, order, all)
  BY DEF AfterMinimums, AfterExtras, AfterAll
<1>3. /\ IsFiniteSet(Borrowers) /\ Borrowers \in SUBSET Debts
      /\ Least \in [Debts -> Nat] /\ Marked \in [Debts -> Nat]
      /\ Pool(pace) = SumOf(Least, Borrowers)
                        + IF pace = "minimum" THEN 0 ELSE SumOf(Marked, Borrowers) + debtPlan.extra
  BY PoolSums
<1>4. ASSUME NEW d \in Debts
      PROVE  /\ RateUnit * Interest(sim.balances)[d] = Debt(d).rate * sim.balances[d]
             /\ Multiple(Interest(sim.balances)[d], u) /\ Multiple(sim.balances[d], u)
  BY <1>1, InterestIsExact DEF BalancesIn
<1>5. IsExact(sim) /\ BalancesIn(sim, u)
  BY <1>4 DEF IsExact, BalancesIn
<1>6. \A d \in Debts : Multiple(Accrued(sim)[d], u)
  <2> SUFFICES ASSUME NEW d \in Debts PROVE Multiple(sim.balances[d] + Interest(sim.balances)[d], u)
    BY DEF Accrued
  <2> QED
    BY <1>4, MultipleIs
<1>7. Multiple(Pool(pace), u)
  <2>1. Multiple(SumOf(Least, Borrowers), u) /\ Multiple(SumOf(Marked, Borrowers), u) /\ Multiple(debtPlan.extra, u)
    BY <1>3, TotalMultiple DEF PaymentsIn
  <2> DEFINE l == SumOf(Least, Borrowers)
             m == SumOf(Marked, Borrowers)
             x == debtPlan.extra
  <2>2. Multiple(l, u) /\ Multiple(m, u) /\ Multiple(x, u)
    BY <2>1
  <2>3. Pool(pace) = l + IF pace = "minimum" THEN 0 ELSE m + x
    BY <1>3
  <2> HIDE DEF l, m, x
  <2>4. l \in Nat /\ m \in Nat /\ x \in Nat /\ Multiple(m + x, u)
    BY <2>2, MultipleIs
  <2>5. Multiple(l + (m + x), u)
    BY <2>2, <2>4, MultipleIs
  <2>6. CASE pace = "minimum"
    <3>1. Pool(pace) = l
      BY <2>3, <2>4, <2>6
    <3> QED
      BY <2>2, <3>1
  <2>7. CASE pace # "minimum"
    <3>1. Pool(pace) = l + (m + x)
      BY <2>3, <2>7
    <3> QED
      BY <2>5, <3>1
  <2> QED
    BY <2>6, <2>7
<1>8. Multiple(purse.pool, u) /\ \A d \in Debts : Multiple(purse.balances[d], u)
  BY <1>6, <1>7 DEF Purse
<1>9. \A d \in owing : Multiple(Least[d], u) /\ Multiple(Marked[d], u)
  BY <1>1 DEF PaymentsIn
<1>10. all \in [Debts -> Nat] /\ \A d \in owing : all[d] = extras.pool
  BY <1>1 DEF Purses
<1>11. NextMonth(sim, <<s, pace>>).balances = rest.balances
  BY StagesAre
<1> HIDE DEF owing, purse, minimums, extras, all, rest, listed, order
<1>12. Multiple(minimums.pool, u) /\ \A d \in Debts : Multiple(minimums.balances[d], u)
  BY <1>1, <1>2, <1>3, <1>8, <1>9, PaysExact
<1>13. Multiple(extras.pool, u) /\ \A d \in Debts : Multiple(extras.balances[d], u)
  <2>1. CASE pace = "minimum"
    BY <1>2, <1>12, <2>1
  <2>2. CASE pace # "minimum"
    <3>1. extras = Pays(minimums, owing, listed, Marked)
      BY <1>2, <2>2
    <3> QED
      BY <1>1, <1>3, <1>9, <1>12, <3>1, PaysExact
  <2> QED
    BY <2>1, <2>2
<1>14. \A d \in Debts : Multiple(rest.balances[d], u)
  <2>1. \A d \in owing : Multiple(all[d], u)
    BY <1>10, <1>13
  <2> QED
    BY <1>1, <1>2, <1>10, <1>13, <2>1, PaysExact
<1>15. BalancesIn(NextMonth(sim, <<s, pace>>), u)
  BY <1>11, <1>14 DEF BalancesIn
<1> QED
  BY <1>5, <1>15

-----------------------------------------------------------------------------
(* After any number of months the avalanche leads, and what is owed is in  *)
(* the unit of the months to come.                                         *)

UnitLeft == Unit[MaxMonths - month]
LeadInv ==
  /\ DebtInv /\ month \in 0 .. MaxMonths
  /\ PaymentsIn(UnitLeft)
  /\ \A s \in Strategies, pace \in Pace :
       /\ BalancesIn(sims[<<s, pace>>], UnitLeft)
       /\ Leads(sims[<<"avalanche", pace>>], sims[<<s, pace>>])

LEMMA ExactIs ==
  ASSUME NEW amount \in Nat, Exact(amount)
  PROVE  Multiple(amount, Unit[MaxMonths])
<1> DEFINE u == Unit[MaxMonths]
<1>1. MaxMonths \in 0 .. MaxMonths
  BY DebtAssumption DEF DebtAssumption
<1>2. u \in Nat /\ u > 0
  BY <1>1, UnitIs
<1>3. amount % u = 0
  BY DEF Exact
<1> HIDE DEF u
<1> DEFINE q == amount \div u
           m == amount % u
<1>4. q \in Int /\ m \in Int /\ 0 <= m /\ m < u /\ amount = u * q + m
  BY <1>2
<1>5. m = 0
  BY <1>3
<1> HIDE DEF q, m
<1>6. amount = q * u
  BY <1>2, <1>4, <1>5
<1>7. q \in Nat
  <2> SUFFICES ASSUME q <= -1 PROVE FALSE
    BY <1>4
  <2>1. q * u <= -u
    BY <1>2, <1>4
  <2> QED
    BY <1>2, <1>6, <2>1
<1> QED
  BY <1>6, <1>7 DEF Multiple, u

LEMMA LeadStarts == DebtInit => LeadInv
<1> SUFFICES ASSUME DebtInit PROVE LeadInv
  OBVIOUS
<1>1. DebtInv
  BY DebtsStart
<1>2. debtPlan \in DebtPlans /\ month = 0 /\ MaxMonths \in Nat
  BY DebtAssumption DEF DebtInit, DebtAssumption
<1>3. UnitLeft = Unit[MaxMonths]
  BY <1>2 DEF UnitLeft
<1>4. /\ Exact(debtPlan.extra)
      /\ \A d \in Debts : Exact(Debt(d).balance) /\ Exact(Debt(d).minimum) /\ Exact(Debt(d).earmarked)
  BY <1>2, ExactAssumption DEF ExactAssumption, Debts, Debt
<1>5. PaymentsIn(UnitLeft)
  BY <1>2, <1>3, <1>4, PlanIs, ExactIs DEF PaymentsIn, Least, Marked
<1>6. ASSUME NEW s \in Strategies, NEW pace \in Pace
      PROVE  /\ sims[<<s, pace>>].balances = Borrowed
             /\ sims[<<s, pace>>].interest = [d \in Debts |-> 0]
  BY DEF DebtInit, Borrowed
<1>7. \A d \in Debts : Borrowed[d] \in Nat /\ Multiple(Borrowed[d], UnitLeft)
  BY <1>2, <1>3, <1>4, PlanIs, ExactIs DEF Borrowed
<1>8. SumOf(Borrowed, Debts) \in Int /\ SumOf([d \in Debts |-> 0], Debts) \in Int
  <2> DEFINE none == [d \in Debts |-> 0]
  <2>1. IsFiniteSet(Debts) /\ (\A d \in Debts : Borrowed[d] \in Int) /\ \A d \in Debts : none[d] \in Int
    BY <1>2, <1>7, PlanIs
  <2> HIDE DEF none
  <2>2. SumOf(Borrowed, Debts) \in Int /\ SumOf(none, Debts) \in Int
    BY <2>1, TotalType
  <2> QED
    BY <2>2 DEF none
<1>9. ASSUME NEW s \in Strategies, NEW pace \in Pace
      PROVE  /\ BalancesIn(sims[<<s, pace>>], UnitLeft)
             /\ Leads(sims[<<"avalanche", pace>>], sims[<<s, pace>>])
  <2>1. "avalanche" \in Strategies
    BY DEF Strategies
  <2> DEFINE x == sims[<<"avalanche", pace>>]
             y == sims[<<s, pace>>]
             none == [d \in Debts |-> 0]
  <2>2. x.balances = Borrowed /\ x.interest = none /\ y.balances = Borrowed /\ y.interest = none
    BY <1>6, <2>1
  <2>3. SumOf(none, Debts) \in Int
    BY <1>8
  <2> HIDE DEF x, y, none
  <2>4. BalancesIn(y, UnitLeft)
    BY <1>7, <2>2 DEF BalancesIn
  <2>5. Leads(x, y)
    BY <1>7, <1>8, <2>2, <2>3 DEF Leads
  <2> QED
    BY <2>4, <2>5 DEF x, y
<1> QED
  BY <1>1, <1>2, <1>5, <1>9 DEF LeadInv

LEMMA LeadGoesOn == LeadInv /\ [PassMonth]_debtVars => LeadInv'
<1>1. LeadInv /\ [PassMonth]_debtVars => DebtInv'
  BY DebtsStep DEF LeadInv
<1>2. CASE UNCHANGED debtVars
  BY <1>1, <1>2 DEF debtVars, LeadInv, UnitLeft, PaymentsIn, BalancesIn, Leads, Least, Marked, Debts, Debt
<1>3. ASSUME LeadInv, PassMonth PROVE LeadInv'
  <2>1. /\ debtPlan \in DebtPlans /\ month \in Nat /\ debtPlan' = debtPlan /\ month' = month + 1
        /\ DOMAIN sims = Strategies \X Pace /\ month < MaxMonths /\ MaxMonths \in Nat /\ DebtInv
    BY <1>3, DebtAssumption DEF LeadInv, DebtInv, PassMonth, DebtAssumption
  <2>2. ASSUME NEW s \in Strategies, NEW pace \in Pace
        PROVE  sims'[<<s, pace>>] = IF Done(sims[<<s, pace>>], <<s, pace>>) THEN sims[<<s, pace>>]
                                    ELSE NextMonth(sims[<<s, pace>>], <<s, pace>>)
    BY <1>3, <2>1 DEF PassMonth
  <2> DEFINE u == Unit[MaxMonths - (month + 1)]
  <2>3. u \in Nat /\ UnitLeft = RateUnit * u /\ UnitLeft' = u
    <3> DEFINE n == MaxMonths - month
    <3>1. n \in 0 .. MaxMonths /\ n > 0 /\ n - 1 \in 0 .. MaxMonths /\ n - 1 = MaxMonths - (month + 1)
      BY <2>1
    <3> HIDE DEF n
    <3>2. Unit[n - 1] \in Nat /\ Unit[n] = RateUnit * Unit[n - 1]
      BY <3>1, UnitIs
    <3>3. UnitLeft' = u
      BY <2>1 DEF UnitLeft
    <3> QED
      BY <3>1, <3>2, <3>3 DEF UnitLeft, n
  <2> HIDE DEF u
  <2>4. PaymentsIn(u)
    <3>1. PaymentsIn(RateUnit * u)
      BY <1>3, <2>3 DEF LeadInv
    <3> QED
      BY <2>3, <3>1, FinerUnit DEF PaymentsIn
  <2>5. ASSUME NEW s \in Strategies, NEW pace \in Pace
        PROVE  /\ SimFits(sims[<<s, pace>>]) /\ IsExact(sims[<<s, pace>>])
               /\ BalancesIn(sims'[<<s, pace>>], u)
    <3>1. SimFits(sims[<<s, pace>>])
      BY <2>1 DEF DebtInv
    <3>2. BalancesIn(sims[<<s, pace>>], RateUnit * u)
      BY <1>3, <2>3 DEF LeadInv
    <3>3. /\ IsExact(sims[<<s, pace>>]) /\ BalancesIn(sims[<<s, pace>>], u)
          /\ BalancesIn(NextMonth(sims[<<s, pace>>], <<s, pace>>), u)
      BY <2>1, <2>3, <2>4, <3>1, <3>2, MonthIsExact
    <3>4. BalancesIn(sims'[<<s, pace>>], u)
      <4> DEFINE sim == sims[<<s, pace>>]
                 next == NextMonth(sim, <<s, pace>>)
      <4>1. BalancesIn(sim, u) /\ BalancesIn(next, u) /\ (sims'[<<s, pace>>] = sim \/ sims'[<<s, pace>>] = next)
        BY <2>2, <3>3
      <4> HIDE DEF sim, next
      <4> QED
        BY <4>1
    <3> QED
      BY <3>1, <3>3, <3>4
  <2>6. ASSUME NEW s \in Strategies, NEW pace \in Pace
        PROVE  Leads(sims'[<<"avalanche", pace>>], sims'[<<s, pace>>])
    <3> DEFINE x == sims[<<"avalanche", pace>>]
               y == sims[<<s, pace>>]
    <3>1. "avalanche" \in Strategies
      BY DEF Strategies
    <3>2. SimFits(x) /\ IsExact(x) /\ SimFits(y) /\ IsExact(y)
      BY <2>5, <3>1
    <3>3. Leads(x, y)
      BY <1>3 DEF LeadInv
    <3>4. /\ sims'[<<"avalanche", pace>>] = IF Done(x, <<"avalanche", pace>>) THEN x
                                            ELSE NextMonth(x, <<"avalanche", pace>>)
          /\ sims'[<<s, pace>>] = IF Done(y, <<s, pace>>) THEN y ELSE NextMonth(y, <<s, pace>>)
      BY <2>2, <3>1
    <3> HIDE DEF x, y
    <3> QED
      BY <2>1, <3>2, <3>3, <3>4, PassLeads
  <2>7. PaymentsIn(UnitLeft)'
    BY <2>1, <2>3, <2>4 DEF PaymentsIn, Least, Marked, Debts, Debt
  <2>8. \A s \in Strategies, pace \in Pace :
          /\ BalancesIn(sims[<<s, pace>>], UnitLeft)'
          /\ Leads(sims[<<"avalanche", pace>>], sims[<<s, pace>>])'
    BY <2>1, <2>3, <2>5, <2>6 DEF BalancesIn, Leads, Debts, Debt
  <2>9. (month \in 0 .. MaxMonths)' /\ DebtInv'
    BY <1>1, <1>3, <2>1
  <2> QED
    BY <2>7, <2>8, <2>9 DEF LeadInv
<1> QED
  BY <1>2, <1>3

LEMMA AvalancheDoesCostLeast == LeadInv => AvalancheCostsLeast
<1> SUFFICES ASSUME LeadInv, NEW s \in Strategies, NEW pace \in Pace
             PROVE  TotalInterest(sims[<<"avalanche", pace>>]) <= TotalInterest(sims[<<s, pace>>])
  BY DEF AvalancheCostsLeast
<1>1. ASSUME NEW r \in Strategies
      PROVE  TotalInterest(sims[<<r, pace>>]) = SumOf(sims[<<r, pace>>].interest, Debts)
  <2>1. SimFits(sims[<<r, pace>>])
    BY DEF LeadInv, DebtInv
  <2>2. DOMAIN sims[<<r, pace>>].interest = Debts
    BY <2>1 DEF SimFits, Sims
  <2> QED
    BY <2>2 DEF SumFunction, SumOf, TotalInterest
<1>2. Leads(sims[<<"avalanche", pace>>], sims[<<s, pace>>])
  BY DEF LeadInv
<1>3. "avalanche" \in Strategies
  BY DEF Strategies
<1> QED
  BY <1>1, <1>2, <1>3 DEF Leads

(* No strategy has cost less interest than the highest rate first, whose   *)
(* rest of each month goes to the dearest debt                             *)
(* (financial_planning.py:296-386); for any debts and payments, as long as *)
(* interest is exact.                                                      *)
THEOREM AvalancheAlwaysCostsLeast == DebtSpec => []AvalancheCostsLeast
<1>1. DebtInit => LeadInv
  BY LeadStarts
<1>2. LeadInv /\ [PassMonth]_debtVars => LeadInv'
  BY LeadGoesOn
<1>3. LeadInv => AvalancheCostsLeast
  BY AvalancheDoesCostLeast
<1> QED
  BY <1>1, <1>2, <1>3, PTL DEF DebtSpec

-----------------------------------------------------------------------------
(* The calendar: pages of one cash path, on which every debt is seen.      *)

CalendarInv ==
  /\ today \in Nat \ {0}
  /\ pending \subseteq Holds
  /\ debts \subseteq DueDebts

LEMMA CalendarInvariant == CalendarSpec => []CalendarInv
<1>1. CalendarInit => CalendarInv
  BY DEF CalendarInit, NothingDue, CalendarInv
<1>2. CalendarInv /\ [CalendarNext]_calendarVars => CalendarInv'
  BY DEF CalendarInv, calendarVars, CalendarNext, DebtChanges, DayPasses, HoldAppears, HoldPosts, HoldLapses
<1> QED
  BY <1>1, <1>2, PTL DEF CalendarSpec

(* The months follow each other, and each has a day. *)
LEMMA MonthsFollow ==
  ASSUME NEW m \in CalMonths
  PROVE  /\ m \in Nat \ {0} /\ FirstDay(m) \in Int /\ FinalDay(m) \in Int /\ FirstDay(m) <= FinalDay(m)
         /\ m = 1 => FirstDay(m) = 1
         /\ m - 1 \in Nat \ {0} => FirstDay(m) = FinalDay(m - 1) + 1
<1>1. /\ m \in Nat \ {0} /\ CalMonths = 1 .. Len(MonthLength) /\ Len(MonthLength) \in Nat
      /\ \A k \in CalMonths : MonthLength[k] \in Nat \ {0}
  BY CalendarAssumption DEF CalendarAssumption, CalMonths
<1> DEFINE S == 1 .. m - 1
           f == [k \in S |-> MonthLength[k]]
<1>2. FirstDay(m) = 1 + SumOf(f, S)
  BY DEF FirstDay, MapThenSumSet, SumOf, SumFunctionOnSet, FoldFunctionOnSet, MapThenFoldSet
<1>3. \A k \in S : f[k] \in Int /\ k \in CalMonths
  BY <1>1
<1>4. IsFiniteSet(S)
  BY <1>1, FS_Interval
<1>5. m = 1 => S = {}
  BY <1>1
<1> HIDE DEF S, f
<1>6. SumOf(f, S) \in Int /\ (m = 1 => SumOf(f, S) = 0)
  BY <1>3, <1>4, <1>5, TotalType, TotalEmpty
<1>7. /\ FirstDay(m) \in Int /\ FinalDay(m) \in Int /\ FirstDay(m) <= FinalDay(m)
      /\ m = 1 => FirstDay(m) = 1
  BY <1>1, <1>2, <1>6 DEF FinalDay
<1>8. ASSUME m - 1 \in Nat \ {0} PROVE FirstDay(m) = FinalDay(m - 1) + 1
  <2> DEFINE n == m - 1
             T == 1 .. n - 1
             g == [k \in T |-> MonthLength[k]]
  <2>1. FirstDay(n) = 1 + SumOf(g, T)
    BY DEF FirstDay, MapThenSumSet, SumOf, SumFunctionOnSet, FoldFunctionOnSet, MapThenFoldSet
  <2>2. n \in S /\ T = S \ {n} /\ IsFiniteSet(T) /\ f[n] = MonthLength[n] /\ n \in CalMonths
    <3>1. n \in S /\ T = S \ {n} /\ f[n] = MonthLength[n] /\ n \in CalMonths
      BY <1>1, <1>8 DEF S, f
    <3> QED
      BY <1>4, <3>1, FS_Subset
  <2>3. \A k \in T : f[k] = g[k]
    BY <2>2 DEF f
  <2> HIDE DEF n, T, g
  <2>4. SumOf(f, S) = f[n] + SumOf(f, S \ {n})
    BY <1>3, <1>4, <2>2, TotalRemoves
  <2>5. SumOf(f, T) = SumOf(g, T)
    BY <2>2, <2>3, TotalSame
  <2>6. SumOf(f, T) \in Int
    BY <1>3, <2>2, TotalType
  <2>7. FinalDay(n) = FirstDay(n) + MonthLength[n] - 1
    BY DEF FinalDay
  <2>8. MonthLength[n] \in Nat
    BY <1>1, <2>2
  <2>9. SumOf(f, S) = MonthLength[n] + SumOf(g, T)
    BY <2>2, <2>4, <2>5
  <2>10. SumOf(g, T) \in Int
    BY <2>5, <2>6
  <2>11. FirstDay(m) = FinalDay(n) + 1
    BY <1>2, <2>1, <2>7, <2>8, <2>9, <2>10
  <2> QED
    BY <2>11 DEF n
<1> QED
  BY <1>1, <1>7, <1>8

-----------------------------------------------------------------------------
(* The events of the calendar.                                             *)

EventsOf(from, to) ==
  [status : {"pending", "expected", "planned"}, date : from .. to, impact : Int,
   debt : BOOLEAN, of : Streams \cup DueDebts]
Some(from, to) == {E \in SUBSET EventsOf(from, to) : IsFiniteSet(E)}

PairsAreFinite(from, to) == IsFiniteSet(Streams \X (from .. to)) /\ IsFiniteSet(from .. to)

LEMMA DaysAreFinite == \A from, to \in Int : PairsAreFinite(from, to)
<1> SUFFICES ASSUME NEW from \in Int, NEW to \in Int PROVE PairsAreFinite(from, to)
  OBVIOUS
<1>1. IsFiniteSet(from .. to)
  BY FS_Interval
<1>2. IsFiniteSet(Streams)
  BY CalendarAssumption DEF CalendarAssumption
<1>3. IsFiniteSet(Streams \X (from .. to))
  BY <1>1, <1>2, FS_Product
<1> QED
  BY <1>1, <1>3 DEF PairsAreFinite

LEMMA BaseIsSome ==
  ASSUME CalendarInv, NEW from \in Int, NEW to \in Int
  PROVE  Pending(from, to) \cup Expected(from, to) \in Some(from, to)
<1> DEFINE X == Streams \X (from .. to)
           Q == {q \in pending : q.date \in from .. to}
           hold == [x \in X |-> [stream |-> x[1], date |-> x[2]]]
           shown == [p \in Q |-> [status |-> "pending", date |-> p.date, impact |-> Impact[p.stream],
                                  debt |-> p.stream \in PaysDebt, of |-> p.stream]]
           held(s, d) == \E p \in pending : p.stream = s /\ p.date \in from .. to /\ p.date \in d - Near .. d + Near
           Y == {x \in X : x[2] \in Occurrences(x[1], from, to) /\ ~held(x[1], x[2])}
           due == [x \in X |-> [status |-> "expected", date |-> x[2], impact |-> Impact[x[1]],
                                debt |-> x[1] \in PaysDebt, of |-> x[1]]]
<1>1. IsFiniteSet(X) /\ Impact \in [Streams -> Int] /\ Y \subseteq X
  BY CalendarAssumption, DaysAreFinite DEF CalendarAssumption, PairsAreFinite
<1>2. \A p \in Q : p.stream \in Streams /\ p.date \in from .. to /\ p = [stream |-> p.stream, date |-> p.date]
  BY CalendarAssumption DEF CalendarInv, CalendarAssumption
<1>3. Q \subseteq {hold[x] : x \in X}
  <2> SUFFICES ASSUME NEW p \in Q PROVE \E x \in X : hold[x] = p
    OBVIOUS
  <2>1. <<p.stream, p.date>> \in X /\ hold[<<p.stream, p.date>>] = p
    BY <1>2
  <2> QED
    BY <2>1
<1>4. Pending(from, to) = {shown[p] : p \in Q}
  BY DEF Pending
<1>5. Expected(from, to) = {due[x] : x \in Y}
  BY DEF Expected
<1>6. \A p \in Q : shown[p] \in EventsOf(from, to)
  BY <1>1, <1>2 DEF EventsOf
<1>7. \A x \in Y : due[x] \in EventsOf(from, to)
  BY <1>1 DEF EventsOf
<1> HIDE DEF X, Q, hold, shown, Y, due
<1>8. IsFiniteSet({hold[x] : x \in X}) /\ IsFiniteSet(Q)
  BY <1>1, <1>3, ImageIsFinite, FS_Subset
<1>9. IsFiniteSet({shown[p] : p \in Q})
  BY <1>8, ImageIsFinite
<1>12. IsFiniteSet(Y)
  BY <1>1, FS_Subset
<1>10. IsFiniteSet({due[x] : x \in Y})
  BY <1>12, ImageIsFinite
<1>11. IsFiniteSet(Pending(from, to) \cup Expected(from, to))
  BY <1>4, <1>5, <1>9, <1>10, FS_Union
<1> QED
  BY <1>4, <1>5, <1>6, <1>7, <1>11 DEF Some

(* What is planned of a debt. *)
Plans(d, E, from, to) ==
  {[status |-> "planned", date |-> day, impact |-> -Payment[d], debt |-> TRUE, of |-> d] :
     day \in {y \in DueDates(d, from, to) : ~\E e \in E : e.date = y /\ LooksLike(e, d)}}

LEMMA WithDebtIsSome ==
  ASSUME NEW from \in Int, NEW to \in Int, NEW E \in Some(from, to), NEW d \in DueDebts
  PROVE  WithDebt(d, E, from, to) \in Some(from, to)
<1> DEFINE D == {y \in DueDates(d, from, to) : ~\E e \in E : e.date = y /\ LooksLike(e, d)}
           planned == [day \in D |-> [status |-> "planned", date |-> day, impact |-> -Payment[d], debt |-> TRUE, of |-> d]]
<1>1. D \subseteq from .. to /\ Payment[d] \in Nat
  BY CalendarAssumption DEF DueDates, CalendarAssumption
<1>2. WithDebt(d, E, from, to) = E \/ WithDebt(d, E, from, to) = E \cup {planned[y] : y \in D}
  BY DEF WithDebt
<1>3. \A y \in D : planned[y] \in EventsOf(from, to)
  BY <1>1 DEF EventsOf
<1> HIDE DEF D, planned
<1>4. IsFiniteSet(D)
  BY <1>1, DaysAreFinite, FS_Subset DEF PairsAreFinite
<1>5. IsFiniteSet(E \cup {planned[y] : y \in D})
  BY <1>4, ImageIsFinite, FS_Union DEF Some
<1> QED
  BY <1>2, <1>3, <1>5 DEF Some

(* The debts due later look at what the ones before them planned. *)
IsFuture(g, from, to) ==
  g = [T \in SUBSET debts |->
        IF T = {} THEN Pending(from, to) \cup Expected(from, to)
        ELSE LET d == Max(T) IN WithDebt(d, g[T \ {d}], from, to)]

LEMMA LastDebt ==
  ASSUME CalendarInv, NEW T \in SUBSET debts, T # {}
  PROVE  Max(T) \in T /\ IsFiniteSet(T)
<1>1. IsFiniteSet(T) /\ T \in SUBSET Nat
  BY CalendarAssumption, FS_Subset DEF CalendarAssumption, CalendarInv
<1> DEFINE R == {x \in T \X T : x[1] <= x[2]}
<1>2. (\A x, y \in T : <<x, y>> \in R <=> x <= y) /\ \A x \in T : x \in Nat
  BY <1>1
<1> HIDE DEF R
<1>3. \A x, y \in T : x = y \/ <<x, y>> \in R \/ <<y, x>> \in R
  <2> SUFFICES ASSUME NEW x \in T, NEW y \in T PROVE x <= y \/ y <= x
    BY <1>2
  <2>1. x \in Nat /\ y \in Nat
    BY <1>2
  <2> QED
    BY <2>1
<1>4. \A x, y, z \in T : <<x, y>> \in R /\ <<y, z>> \in R => <<x, z>> \in R
  BY <1>2
<1>5. IsFiniteSet(T) /\ T # {}
  BY <1>1
<1>6. \E x \in T : \A y \in T \ {x} : <<y, x>> \in R
  BY ONLY <1>3, <1>4, <1>5, HasLastOne
<1>10. PICK z \in T : \A y \in T \ {z} : <<y, z>> \in R
  BY <1>6
<1>11. z \in Nat /\ z <= z /\ \A y \in T \ {z} : y <= z
  <2>1. \A y \in T \ {z} : y <= z
    <3> SUFFICES ASSUME NEW y \in T \ {z} PROVE y <= z
      OBVIOUS
    <3>1. y \in T /\ z \in T /\ <<y, z>> \in R
      BY <1>10
    <3> QED
      BY <1>2, <3>1
  <2>2. z \in Nat
    BY <1>2
  <2> QED
    BY <2>1, <2>2
<1>7. PICK x \in T : \A y \in T : y <= x
  BY <1>11
<1>8. T \in SUBSET Int
  BY <1>1
<1>9. Max(T) = x
  BY <1>7, <1>8, MaxIs
<1> QED
  BY <1>1, <1>7, <1>9

LEMMA FutureStays ==
  ASSUME CalendarInv, NEW from \in Int, NEW to \in Int, NEW g, IsFuture(g, from, to)
  PROVE  \A T \in SUBSET debts : g[T] \in Some(from, to)
<1> DEFINE bad == {T \in SUBSET debts : g[T] \notin Some(from, to)}
<1> SUFFICES ASSUME bad # {} PROVE FALSE
  OBVIOUS
<1>1. IsFiniteSet(debts) /\ bad \in SUBSET SUBSET debts
  BY CalendarAssumption, FS_Subset DEF CalendarAssumption, CalendarInv
<1> HIDE DEF bad
<1>2. PICK T \in bad : \A U \in SUBSET T : U # T => U \notin bad
  BY <1>1, HasSmallest
<1>3. T \in SUBSET debts /\ g[T] \notin Some(from, to)
  BY DEF bad
<1>4. CASE T = {}
  BY <1>3, <1>4, BaseIsSome DEF IsFuture
<1>5. CASE T # {}
  <2> DEFINE d == Max(T)
             U == T \ {d}
  <2>1. d \in T /\ d \in DueDebts /\ U \in SUBSET T /\ U # T /\ U \in SUBSET debts
    BY <1>3, <1>5, LastDebt DEF CalendarInv
  <2>2. g[T] = WithDebt(d, g[U], from, to)
    BY <1>3, <1>5 DEF IsFuture
  <2> HIDE DEF d, U
  <2>3. g[U] \in Some(from, to)
    BY <1>2, <2>1 DEF bad
  <2> QED
    BY <1>3, <2>1, <2>2, <2>3, WithDebtIsSome
<1> QED
  BY <1>4, <1>5

LEMMA FutureIs ==
  ASSUME CalendarInv, NEW from \in Int, NEW to \in Int
  PROVE  \E g : /\ IsFuture(g, from, to) /\ FutureEvents(from, to) = g[debts]
                /\ \A T \in SUBSET debts : g[T] \in Some(from, to)
<1> DEFINE A == Some(from, to)
           base == Pending(from, to) \cup Expected(from, to)
           pick == [T \in SUBSET debts |-> Max(T)]
           step == [x \in debts \X A |-> WithDebt(x[1], x[2], from, to)]
<1>1. IsFiniteSet(debts)
  BY CalendarAssumption, FS_Subset DEF CalendarAssumption, CalendarInv
<1>2. Picks(pick, debts) /\ \A T \in SUBSET debts : pick[T] = Max(T)
  BY LastDebt DEF Picks
<1>3. base \in A
  BY BaseIsSome
<1>4. \A d \in debts : \A E \in A : step[<<d, E>>] = WithDebt(d, E, from, to) /\ step[<<d, E>>] \in A
  <2> SUFFICES ASSUME NEW d \in debts, NEW E \in A PROVE WithDebt(d, E, from, to) \in A
    OBVIOUS
  <2>1. d \in DueDebts
    BY DEF CalendarInv
  <2> QED
    BY <2>1, WithDebtIsSome
<1> HIDE DEF A, base, pick, step
<1>5. PICK h : IsFold(h, step, base, pick, debts)
  BY <1>1, <1>2, FoldExists
<1>6. \A T \in SUBSET debts : h[T] \in A
  BY <1>1, <1>2, <1>3, <1>4, <1>5, FoldStays
<1>7. IsFuture(h, from, to)
  <2>1. ASSUME NEW T \in SUBSET debts, T # {}
        PROVE  LET d == Max(T) IN step[<<pick[T], h[T \ {pick[T]}]>>] = WithDebt(d, h[T \ {d}], from, to)
    <3> DEFINE d == Max(T)
    <3>1. d = pick[T] /\ d \in debts
      BY <1>2, <2>1 DEF Picks
    <3>2. h[T \ {d}] \in A
      BY <1>6
    <3> HIDE DEF d
    <3>3. step[<<pick[T], h[T \ {pick[T]}]>>] = WithDebt(d, h[T \ {d}], from, to)
      BY <1>4, <3>1, <3>2
    <3> QED
      BY <3>3 DEF d
  <2> QED
    BY <1>5, <2>1 DEF IsFold, IsFuture, base
<1>8. FutureEvents(from, to) = (CHOOSE g : IsFuture(g, from, to))[debts]
  BY DEF FutureEvents, MapThenFoldSet, IsFuture
<1>9. PICK g : IsFuture(g, from, to) /\ FutureEvents(from, to) = g[debts]
  BY <1>7, <1>8
<1> QED
  BY <1>9, FutureStays DEF A

-----------------------------------------------------------------------------
(* What one pair of days shows is what a wider one shows between them,     *)
(* unless a pending transaction outside is close.                          *)

Within(E, a, b) == {e \in E : e.date \in a .. b}
NoneClose(from, to, a, b) ==
  \A p \in pending : \A d \in a .. b :
    p.date \in from .. to /\ p.date \in d - Near .. d + Near => p.date \in a .. b

LEMMA BaseWithin ==
  ASSUME NEW from \in Int, NEW to \in Int, NEW a \in Int, NEW b \in Int, from <= a, b <= to,
         NoneClose(from, to, a, b)
  PROVE  Within(Pending(from, to) \cup Expected(from, to), a, b) = Pending(a, b) \cup Expected(a, b)
<1> DEFINE held(s, d, x, y) == \E p \in pending : p.stream = s /\ p.date \in x .. y /\ p.date \in d - Near .. d + Near
           shown(p) == [status |-> "pending", date |-> p.date, impact |-> Impact[p.stream],
                        debt |-> p.stream \in PaysDebt, of |-> p.stream]
           due(o) == [status |-> "expected", date |-> o[2], impact |-> Impact[o[1]],
                      debt |-> o[1] \in PaysDebt, of |-> o[1]]
           P(x, y) == {q \in pending : q.date \in x .. y}
           O(x, y) == {o \in Streams \X (x .. y) : o[2] \in Occurrences(o[1], x, y) /\ ~held(o[1], o[2], x, y)}
<1>1. a .. b \subseteq from .. to
  OBVIOUS
<1>2. /\ Pending(from, to) = {shown(p) : p \in P(from, to)} /\ Pending(a, b) = {shown(p) : p \in P(a, b)}
      /\ Expected(from, to) = {due(o) : o \in O(from, to)} /\ Expected(a, b) = {due(o) : o \in O(a, b)}
  BY DEF Pending, Expected
<1>3. \A p \in P(from, to) : p.date \in a .. b <=> p \in P(a, b)
  OBVIOUS
<1>4. P(a, b) \subseteq P(from, to)
  BY <1>1
<1>5. \A s \in Streams : \A d \in a .. b : held(s, d, from, to) <=> held(s, d, a, b)
  BY <1>1 DEF NoneClose
<1>6. \A s \in Streams : \A d \in a .. b : d \in Occurrences(s, from, to) <=> d \in Occurrences(s, a, b)
  BY <1>1 DEF Occurrences
<1> HIDE DEF held
<1>7. \A o \in O(from, to) : o[2] \in a .. b <=> o \in O(a, b)
  BY <1>5, <1>6
<1>8. O(a, b) \subseteq O(from, to)
  BY <1>1, <1>5, <1>6
<1>9. (\A p : shown(p).date = p.date) /\ \A o : due(o).date = o[2]
  OBVIOUS
<1>10. \A p \in P(a, b) : p.date \in a .. b
  OBVIOUS
<1>11. \A o \in O(a, b) : o[2] \in a .. b
  OBVIOUS
<1> HIDE DEF shown, due, P, O
<1>12. Within(Pending(from, to), a, b) = Pending(a, b)
  BY <1>2, <1>3, <1>4, <1>9, <1>10 DEF Within
<1>13. Within(Expected(from, to), a, b) = Expected(a, b)
  BY <1>2, <1>7, <1>8, <1>9, <1>11 DEF Within
<1> QED
  BY <1>12, <1>13 DEF Within

LEMMA WithDebtWithin ==
  ASSUME NEW from \in Int, NEW to \in Int, NEW a \in Int, NEW b \in Int, from <= a, b <= to, NEW d, NEW E
  PROVE  Within(WithDebt(d, E, from, to), a, b) = WithDebt(d, Within(E, a, b), a, b)
<1> DEFINE due(F, x, y) == {day \in DueDates(d, x, y) : ~\E e \in F : e.date = day /\ LooksLike(e, d)}
           planned(day) == [status |-> "planned", date |-> day, impact |-> -Payment[d], debt |-> TRUE, of |-> d]
           W == Within(E, a, b)
<1>1. a .. b \subseteq from .. to
  OBVIOUS
<1>2. /\ DueDates(d, a, b) \subseteq a .. b /\ DueDates(d, a, b) \subseteq DueDates(d, from, to)
      /\ \A day \in DueDates(d, from, to) : day \in a .. b <=> day \in DueDates(d, a, b)
  BY <1>1 DEF DueDates
<1>3. \A day \in a .. b : (\E e \in E : e.date = day /\ LooksLike(e, d)) <=> (\E e \in W : e.date = day /\ LooksLike(e, d))
  BY DEF Within
<1>4. \A day : day \in due(E, from, to) /\ day \in a .. b <=> day \in due(W, a, b)
  BY <1>2, <1>3
<1>5. /\ WithDebt(d, E, from, to) = E \cup (IF Payment[d] = 0 THEN {} ELSE {planned(day) : day \in due(E, from, to)})
      /\ WithDebt(d, W, a, b) = W \cup (IF Payment[d] = 0 THEN {} ELSE {planned(day) : day \in due(W, a, b)})
  BY DEF WithDebt
<1>6. \A day : planned(day).date = day
  OBVIOUS
<1> HIDE DEF due, planned
<1>7. Within({planned(day) : day \in due(E, from, to)}, a, b) = {planned(day) : day \in due(W, a, b)}
  BY <1>4, <1>6 DEF Within
<1> QED
  BY <1>5, <1>7 DEF Within

LEMMA FutureWithin ==
  ASSUME CalendarInv, NEW from \in Int, NEW to \in Int, NEW a \in Int, NEW b \in Int, from <= a, b <= to,
         NoneClose(from, to, a, b)
  PROVE  Within(FutureEvents(from, to), a, b) = FutureEvents(a, b)
<1>1. PICK g : IsFuture(g, from, to) /\ FutureEvents(from, to) = g[debts]
  BY FutureIs
<1>2. PICK h : IsFuture(h, a, b) /\ FutureEvents(a, b) = h[debts]
  BY FutureIs
<1> DEFINE bad == {T \in SUBSET debts : Within(g[T], a, b) # h[T]}
<1>3. bad = {} => Within(g[debts], a, b) = h[debts]
  OBVIOUS
<1> SUFFICES ASSUME bad # {} PROVE FALSE
  BY <1>1, <1>2, <1>3
<1>4. IsFiniteSet(debts) /\ bad \in SUBSET SUBSET debts
  BY CalendarAssumption, FS_Subset DEF CalendarAssumption, CalendarInv
<1> HIDE DEF bad
<1>5. PICK T \in bad : \A U \in SUBSET T : U # T => U \notin bad
  BY <1>4, HasSmallest
<1>6. T \in SUBSET debts /\ Within(g[T], a, b) # h[T]
  BY DEF bad
<1>7. CASE T = {}
  <2>1. g[T] = Pending(from, to) \cup Expected(from, to) /\ h[T] = Pending(a, b) \cup Expected(a, b)
    BY <1>1, <1>2, <1>6, <1>7 DEF IsFuture
  <2> QED
    BY <1>6, <2>1, BaseWithin
<1>8. CASE T # {}
  <2> DEFINE d == Max(T)
             U == T \ {d}
  <2>1. U \in SUBSET T /\ U # T /\ U \in SUBSET debts
    BY <1>6, <1>8, LastDebt
  <2>2. g[T] = WithDebt(d, g[U], from, to) /\ h[T] = WithDebt(d, h[U], a, b)
    BY <1>1, <1>2, <1>6, <1>8 DEF IsFuture
  <2> HIDE DEF d, U
  <2>3. Within(g[U], a, b) = h[U]
    BY <1>5, <2>1 DEF bad
  <2>4. Within(WithDebt(d, g[U], from, to), a, b) = WithDebt(d, Within(g[U], a, b), a, b)
    BY WithDebtWithin
  <2> QED
    BY <1>6, <2>2, <2>3, <2>4
<1> QED
  BY <1>7, <1>8

-----------------------------------------------------------------------------
(* What events make of the cash.                                           *)

Moving(E) == {e \in E : e.status # "pending"}

LEMMA MovesAre ==
  ASSUME NEW from \in Int, NEW to \in Int, NEW E \in Some(from, to), NEW A \in SUBSET E
  PROVE  /\ Moves(A) = SumOf([e \in E |-> e.impact], Moving(A)) /\ Moves(A) \in Int
         /\ IsFiniteSet(Moving(A)) /\ \A e \in E : e.impact \in Int
<1> DEFINE S == Moving(A)
           f == [e \in S |-> e.impact]
           g == [e \in E |-> e.impact]
<1>1. MapThenSumSet(LAMBDA e : e.impact, S) = SumOf(f, S)
  BY DEF MapThenSumSet, SumOf, SumFunctionOnSet, FoldFunctionOnSet, MapThenFoldSet
<1>2. Moves(A) = MapThenSumSet(LAMBDA e : e.impact, S)
  BY DEF Moves, Moving
<1>3. IsFiniteSet(E) /\ \A e \in E : e.impact \in Int
  BY DEF Some, EventsOf
<1>4. S \subseteq E
  BY DEF Moving
<1>5. \A e \in S : f[e] = g[e] /\ f[e] \in Int
  BY <1>3, <1>4
<1>6. IsFiniteSet(S)
  BY <1>3, <1>4, FS_Subset
<1> HIDE DEF S, f, g
<1>7. SumOf(f, S) = SumOf(g, S)
  BY <1>5, <1>6, TotalSame
<1>8. SumOf(f, S) \in Int
  BY <1>5, <1>6, TotalType
<1> QED
  BY <1>1, <1>2, <1>3, <1>6, <1>7, <1>8 DEF S, g

LEMMA MovesOfBoth ==
  ASSUME NEW from \in Int, NEW to \in Int, NEW E \in Some(from, to), NEW A \in SUBSET E
  PROVE  Moves(E) = Moves(A) + Moves(E \ A) /\ Moves(E) \in Int /\ Moves(A) \in Int /\ Moves(E \ A) \in Int
<1> DEFINE g == [e \in E |-> e.impact]
           B == E \ A
           M == Moving(A)
           N == Moving(B)
<1>1. /\ Moves(E) = SumOf(g, Moving(E)) /\ Moves(A) = SumOf(g, M) /\ Moves(B) = SumOf(g, N)
      /\ Moves(E) \in Int /\ Moves(A) \in Int /\ Moves(B) \in Int
      /\ IsFiniteSet(M) /\ IsFiniteSet(N) /\ \A e \in E : g[e] \in Int
  <2>1. E \in SUBSET E /\ B \in SUBSET E
    OBVIOUS
  <2> QED
    BY <2>1, MovesAre
<1>2. Moving(E) = M \cup N /\ M \cap N = {} /\ M \cup N \subseteq E
  BY DEF Moving
<1> HIDE DEF g, M, N
<1>3. SumOf(g, M \cup N) = SumOf(g, M) + SumOf(g, N)
  <2>1. \A e \in M \cup N : g[e] \in Int
    BY <1>1, <1>2
  <2> QED
    BY <1>1, <1>2, <2>1, TotalUnion
<1> QED
  BY <1>1, <1>2, <1>3

LEMMA NothingMoves == Moves({}) = 0
<1> DEFINE S == Moving({})
           f == [e \in S |-> e.impact]
<1>1. MapThenSumSet(LAMBDA e : e.impact, S) = SumOf(f, S)
  BY DEF MapThenSumSet, SumOf, SumFunctionOnSet, FoldFunctionOnSet, MapThenFoldSet
<1>2. Moves({}) = MapThenSumSet(LAMBDA e : e.impact, S)
  BY DEF Moves, Moving
<1>3. S = {}
  BY DEF Moving
<1> HIDE DEF f
<1> QED
  BY <1>1, <1>2, <1>3, TotalEmpty

(* Without debts and pending transactions the calendar shows what the      *)
(* forecast expects.                                                       *)
LEMMA OnlyRecurring ==
  ASSUME CalendarInv, pending = {}, debts = {}, NEW to \in Int
  PROVE  Moves(FutureEvents(today, to)) = Recurring(to)
<1> DEFINE D == today .. to
           Occ(s) == Occurrences(s, today, to)
           X == {x \in Streams \X D : x[2] \in Occ(x[1])}
           due == [x \in X |-> [status |-> "expected", date |-> x[2], impact |-> Impact[x[1]],
                                debt |-> x[1] \in PaysDebt, of |-> x[1]]]
           E == {due[x] : x \in X}
           f == [x \in X |-> Impact[x[1]]]
           g == [e \in E |-> e.impact]
           r == [s \in Streams |-> Impact[s] * Cardinality(Occ(s))]
           stream == [x \in X |-> x[1]]
<1>0. today \in Int
  BY DEF CalendarInv
<1>1. IsFiniteSet(Streams) /\ IsFiniteSet(X) /\ IsFiniteSet(D) /\ Impact \in [Streams -> Int]
  <2>1. IsFiniteSet(Streams \X D) /\ X \subseteq Streams \X D /\ IsFiniteSet(D)
    BY <1>0, DaysAreFinite DEF PairsAreFinite
  <2> QED
    BY <2>1, FS_Subset, CalendarAssumption DEF CalendarAssumption
<1>2. FutureEvents(today, to) = E
  <2>1. PICK h : IsFuture(h, today, to) /\ FutureEvents(today, to) = h[debts]
    BY <1>0, FutureIs
  <2>2. FutureEvents(today, to) = Pending(today, to) \cup Expected(today, to)
    BY <2>1 DEF IsFuture
  <2>3. Pending(today, to) = {}
    BY DEF Pending
  <2>4. Expected(today, to) = E
    BY DEF Expected
  <2> QED
    BY <2>2, <2>3, <2>4
<1>3. E \in Some(today, to)
  <2>1. FutureEvents(today, to) \in Some(today, to)
    BY <1>0, FutureIs
  <2> QED
    BY <1>2, <2>1
<1>4. Moving(E) = E
  BY DEF Moving
<1>5. Moves(E) = SumOf(g, E)
  <2> HIDE DEF E
  <2>1. E \in SUBSET E
    OBVIOUS
  <2>2. Moves(E) = SumOf([e \in E |-> e.impact], Moving(E))
    BY <1>0, <1>3, <2>1, MovesAre
  <2> QED
    BY <1>4, <2>2
<1>6. SumOf(g, E) = SumOf(f, X)
  <2>1. \A x, y \in X : due[x] = due[y] => x = y
    <3> SUFFICES ASSUME NEW x \in X, NEW y \in X, due[x] = due[y] PROVE x = y
      OBVIOUS
    <3>1. due[x].of = x[1] /\ due[x].date = x[2] /\ due[y].of = y[1] /\ due[y].date = y[2]
      OBVIOUS
    <3> QED
      BY <3>1
  <2>2. \A x \in X : f[x] \in Int /\ g[due[x]] = f[x]
    BY <1>1
  <2> HIDE DEF X, due, f, g
  <2>3. SumOf(g, {due[x] : x \in X}) = SumOf(f, X)
    BY ONLY <1>1, <2>1, <2>2, TotalMoved
  <2> QED
    BY <2>3
<1>7. ASSUME NEW s \in Streams PROVE r[s] = SumOf(f, {x \in X : stream[x] = s})
  <2> DEFINE O == Occ(s)
             k == [d \in O |-> Impact[s]]
             pair == [d \in O |-> <<s, d>>]
             q == Impact[s]
  <2>1. {x \in X : stream[x] = s} = {pair[d] : d \in O}
    <3>1. O \subseteq D
      BY DEF Occurrences
    <3> HIDE DEF D
    <3>2. \A d \in O : <<s, d>> \in X /\ stream[<<s, d>>] = s /\ pair[d] = <<s, d>>
      BY <3>1
    <3>3. \A x \in X : stream[x] = s => x[2] \in O /\ pair[x[2]] = x
      OBVIOUS
    <3> HIDE DEF X, stream, pair, O
    <3>4. \A x \in X : stream[x] = s => \E d \in O : x = pair[d]
      BY <3>3
    <3>5. \A d \in O : pair[d] \in X /\ stream[pair[d]] = s
      BY <3>2
    <3> QED
      BY <3>4, <3>5
  <2>2. IsFiniteSet(O) /\ q \in Int
    <3>1. O \subseteq D
      BY DEF Occurrences
    <3> QED
      BY <1>1, <3>1, FS_Subset
  <2>3. \A d \in O : k[d] = q /\ f[pair[d]] = k[d]
    <3> SUFFICES ASSUME NEW d \in O PROVE f[<<s, d>>] = Impact[s]
      OBVIOUS
    <3>1. <<s, d>> \in X
      BY DEF Occurrences
    <3> QED
      BY <3>1
  <2>4. \A d, e \in O : pair[d] = pair[e] => d = e
    OBVIOUS
  <2>5. r[s] = q * Cardinality(O)
    OBVIOUS
  <2> HIDE DEF O, k, pair, f, X, stream, r, q
  <2>6. SumOf(f, {pair[d] : d \in O}) = SumOf(k, O)
    <3>1. IsFiniteSet(O) /\ \A d \in O : k[d] \in Int /\ f[pair[d]] = k[d]
      BY <2>2, <2>3
    <3> QED
      BY ONLY <2>4, <3>1, TotalMoved
  <2>7. SumOf(k, O) = Cardinality(O) * q
    BY <2>2, <2>3, TotalConstant
  <2>8. Cardinality(O) \in Nat
    BY <2>2, FS_CardinalityType
  <2>9. Cardinality(O) * q = q * Cardinality(O)
    BY <2>2, <2>8
  <2> QED
    BY <2>1, <2>5, <2>6, <2>7, <2>9
<1> DEFINE parts == [s \in Streams |-> {x \in X : stream[x] = s}]
<1>8. SumOf(r, Streams) = SumOf(f, X)
  <2>7. \A s \in Streams : \A x : x \in parts[s] <=> x \in X /\ stream[x] = s
    OBVIOUS
  <2>2. \A s \in Streams : r[s] = SumOf(f, parts[s])
    BY <1>7
  <2>1. \A x \in X : f[x] \in Int /\ stream[x] \in Streams
    BY <1>1
  <2> HIDE DEF X, f, stream, r, parts
  <2>3. \A x \in X : f[x] \in Int
    BY <2>1
  <2>4. \A x \in X : stream[x] \in Streams
    BY <2>1
  <2>5. IsFiniteSet(X)
    BY <1>1
  <2>6. IsFiniteSet(Streams)
    BY <1>1
  <2> QED
    BY ONLY <2>2, <2>3, <2>4, <2>5, <2>6, <2>7, TotalGrouped
<1>9. Recurring(to) = SumOf(r, Streams)
  BY DEF Recurring, MapThenSumSet, SumOf, SumFunctionOnSet, FoldFunctionOnSet, MapThenFoldSet
<1> QED
  BY <1>2, <1>5, <1>6, <1>8, <1>9

LEMMA StartsIs ==
  ASSUME CalendarInv, NEW m \in CalMonths
  PROVE  /\ Starts(m) \in {today, FirstDay(m)} /\ Starts(m) \in Int
         /\ today <= Starts(m) /\ FirstDay(m) <= Starts(m)
<1>1. today \in Int /\ FirstDay(m) \in Int
  BY MonthsFollow DEF CalendarInv
<1>2. CASE today <= FirstDay(m)
  <2> DEFINE T == {today, FirstDay(m)}
  <2>2. T \in SUBSET Int /\ FirstDay(m) \in T /\ \A y \in T : y <= FirstDay(m)
    BY <1>1, <1>2
  <2> HIDE DEF T
  <2>3. Max(T) = FirstDay(m)
    BY <2>2, MaxIs
  <2>1. Max({today, FirstDay(m)}) = FirstDay(m)
    BY <2>3 DEF T
  <2> QED
    BY <1>1, <1>2, <2>1 DEF Starts
<1>3. CASE FirstDay(m) <= today
  <2>1. Max({today, FirstDay(m)}) = today
    BY <1>1, <1>3, MaxIs
  <2> QED
    BY <1>1, <1>3, <2>1 DEF Starts
<1> QED
  BY <1>1, <1>2, <1>3

LEMMA DoMeet == CalendarInv => PathsMeet
<1> SUFFICES ASSUME CalendarInv, NEW m \in CalMonths, FinalDay(m) >= today
             PROVE  LET path == Path(m)
                        start == path[Starts(m) - 1]
                        end == path[FinalDay(m)]
                    IN /\ m + 1 \in CalMonths /\ ~AtBorder(m) => end = ProjectedStart(m + 1)
                       /\ (Starts(m) > today => ~AtBorder(m - 1)) => end - start = Moves(Listed(m))
                       /\ pending = {} /\ debts = {} => end = Cash + Recurring(FinalDay(m))
  BY DEF PathsMeet
<1> DEFINE F == FinalDay(m)
           S == Starts(m)
           E == FutureEvents(today, F)
<1>1. /\ today \in Int /\ F \in Int /\ S \in Int /\ today <= S /\ S <= F /\ FirstDay(m) \in Int
      /\ S \in {today, FirstDay(m)} /\ m \in Nat \ {0} /\ Near \in Nat /\ Cash \in Int
  BY MonthsFollow, StartsIs, CalendarAssumption DEF CalendarInv, CalendarAssumption
<1>2. E \in Some(today, F)
  BY <1>1, FutureIs
<1>3. /\ Path(m)[S - 1] = Cash + Moves({e \in E : e.date <= S - 1})
      /\ Path(m)[F] = Cash + Moves({e \in E : e.date <= F})
  BY <1>1 DEF Path
<1>4. {e \in E : e.date <= F} = E
  BY <1>1, <1>2 DEF Some, EventsOf
<1>5. Path(m)[F] = Cash + Moves(E)
  BY <1>3, <1>4
<1> HIDE DEF F, S, E
<1>6. ASSUME m + 1 \in CalMonths, ~AtBorder(m) PROVE Path(m)[F] = ProjectedStart(m + 1)
  <2> DEFINE n == m + 1
             G == FinalDay(n)
             B == FutureEvents(today, G)
  <2>1. FirstDay(n) = F + 1 /\ G \in Int /\ F < G
    <3>1. n \in CalMonths /\ n - 1 = m /\ m \in Nat \ {0}
      BY <1>1, <1>6
    <3> HIDE DEF n
    <3>2. FirstDay(n) = FinalDay(m) + 1 /\ FinalDay(n) \in Int /\ FirstDay(n) <= FinalDay(n)
      BY <3>1, MonthsFollow
    <3> QED
      BY <1>1, <3>2 DEF F
  <2>2. Starts(n) = F + 1
    BY <1>1, <1>6, <2>1, StartsIs
  <2> HIDE DEF n, G, B
  <2>3. ProjectedStart(n) = Cash + Moves({e \in B : e.date <= F})
    BY <1>1, <2>1, <2>2 DEF ProjectedStart, Path, B, G
  <2>4. B \in Some(today, G)
    BY <1>1, <2>1, FutureIs DEF B
  <2>5. {e \in B : e.date <= F} = Within(B, today, F)
    BY <1>1, <2>1, <2>4 DEF Within, Some, EventsOf
  <2>6. NoneClose(today, G, today, F)
    BY <1>1, <1>6, <2>1 DEF NoneClose, AtBorder, F
  <2>7. Within(B, today, F) = E
    BY <1>1, <2>1, <2>6, FutureWithin DEF B, E
  <2>8. Path(m)[F] = ProjectedStart(n)
    BY <1>5, <2>3, <2>5, <2>7
  <2> QED
    BY <2>8 DEF n
<1>7. ASSUME S > today => ~AtBorder(m - 1) PROVE Path(m)[F] - Path(m)[S - 1] = Moves(Listed(m))
  <2> DEFINE A == {e \in E : e.date <= S - 1}
             L == Within(E, S, F)
  <2>1. A \in SUBSET E /\ E \ A = L
    BY <1>1, <1>2 DEF Within, Some, EventsOf
  <2>2. NoneClose(today, F, S, F)
    <3>1. CASE S = today
      BY <3>1 DEF NoneClose
    <3>2. CASE S # today
      <4>1. S > today /\ ~AtBorder(m - 1) /\ S = FirstDay(m)
        BY <1>1, <1>7, <3>2
      <4>2. m - 1 \in Nat \ {0}
        BY <1>1, <4>1, MonthsFollow DEF CalendarInv
      <4>3. S = FinalDay(m - 1) + 1
        BY <4>1, <4>2, MonthsFollow
      <4>4. FinalDay(m - 1) \in Int
        <5>1. m - 1 \in CalMonths
          BY <4>2, CalendarAssumption DEF CalMonths, CalendarAssumption
        <5> QED
          BY <5>1, MonthsFollow
      <4> QED
        BY <1>1, <4>1, <4>3, <4>4 DEF NoneClose, AtBorder
    <3> QED
      BY <3>1, <3>2
  <2>3. L = FutureEvents(S, F)
    BY <1>1, <2>2, FutureWithin DEF E
  <2>4. Listed(m) = L
    BY <2>3 DEF Listed, S, F
  <2> HIDE DEF A, L
  <2>5. Moves(E) = Moves(A) + Moves(E \ A) /\ Moves(E) \in Int /\ Moves(A) \in Int /\ Moves(E \ A) \in Int
    BY <1>1, <1>2, <2>1, MovesOfBoth
  <2>6. Path(m)[S - 1] = Cash + Moves(A)
    BY <1>3 DEF A
  <2>7. Moves(Listed(m)) = Moves(E \ A)
    BY <2>1, <2>4
  <2> QED
    BY <1>1, <1>5, <2>5, <2>6, <2>7
<1>8. ASSUME pending = {}, debts = {} PROVE Path(m)[F] = Cash + Recurring(F)
  BY <1>1, <1>5, <1>8, OnlyRecurring DEF E
<1> QED
  BY <1>6, <1>7, <1>8 DEF F, S

-----------------------------------------------------------------------------
(* Every debt is seen.                                                     *)

LEMMA OwnPaymentLooksLike ==
  ASSUME NEW d \in DueDebts, NEW day
  PROVE  LooksLike([status |-> "planned", date |-> day, impact |-> -Payment[d], debt |-> TRUE, of |-> d], d)
<1>1. Payment[d] \in Nat
  BY CalendarAssumption DEF CalendarAssumption
<1> DEFINE p == Payment[d]
<1> HIDE DEF p
<1>2. Max({-p, -(-p)}) = p
  BY <1>1, MaxIs DEF p
<1>3. Max({p, 20}) \in Int /\ Max({p, 20}) >= 0
  <2>1. CASE p <= 20
    <3>1. Max({p, 20}) = 20
      BY <1>1, <2>1, MaxIs DEF p
    <3> QED
      BY <3>1
  <2>2. CASE 20 <= p
    <3>1. Max({p, 20}) = p
      BY <1>1, <2>2, MaxIs DEF p
    <3> QED
      BY <1>1, <3>1 DEF p
  <2> QED
    BY <1>1, <2>1, <2>2 DEF p
<1>4. 20 * Max({-p, -(-p)}) - 20 * p \in -Max({p, 20}) .. Max({p, 20})
  BY <1>1, <1>2, <1>3 DEF p
<1> QED
  BY <1>4 DEF LooksLike, p

LEMMA ArePlanned == CalendarInv => DebtsArePlanned
<1> SUFFICES ASSUME CalendarInv, NEW m \in CalMonths, NEW d \in debts, NEW day \in DueDates(d, today, FinalDay(m)),
                    Payment[d] > 0
             PROVE  \E e \in FutureEvents(today, FinalDay(m)) : e.date = day /\ LooksLike(e, d)
  BY DEF DebtsArePlanned
<1> DEFINE F == FinalDay(m)
<1>1. today \in Int /\ F \in Int /\ d \in DueDebts
  BY MonthsFollow DEF CalendarInv
<1>2. PICK g : IsFuture(g, today, F) /\ FutureEvents(today, F) = g[debts]
  BY <1>1, FutureIs
<1> DEFINE seen(T) == \E e \in g[T] : e.date = day /\ LooksLike(e, d)
           bad == {T \in SUBSET debts : d \in T /\ ~seen(T)}
<1>3. bad = {} => seen(debts)
  OBVIOUS
<1> SUFFICES ASSUME bad # {} PROVE FALSE
  BY <1>2, <1>3
<1>4. IsFiniteSet(debts) /\ bad \in SUBSET SUBSET debts
  BY CalendarAssumption, FS_Subset DEF CalendarAssumption, CalendarInv
<1> HIDE DEF bad
<1>5. PICK T \in bad : \A U \in SUBSET T : U # T => U \notin bad
  BY <1>4, HasSmallest
<1>6. T \in SUBSET debts /\ d \in T /\ ~seen(T)
  BY DEF bad
<1> DEFINE x == Max(T)
           U == T \ {x}
<1>7. x \in T /\ U \in SUBSET T /\ U # T /\ U \in SUBSET debts
  BY <1>6, LastDebt
<1>8. g[T] = WithDebt(x, g[U], today, F)
  BY <1>2, <1>6 DEF IsFuture
<1> HIDE DEF x, U, F
<1>9. CASE x # d
  <2>1. seen(U)
    BY <1>5, <1>6, <1>7, <1>9 DEF bad, U
  <2>2. g[U] \subseteq g[T]
    BY <1>8 DEF WithDebt
  <2> QED
    BY <1>6, <2>1, <2>2
<1>10. CASE x = d
  <2> DEFINE own == [status |-> "planned", date |-> day, impact |-> -Payment[d], debt |-> TRUE, of |-> d]
  <2>1. LooksLike(own, d) /\ own.date = day
    BY <1>1, OwnPaymentLooksLike
  <2>2. day \in DueDates(d, today, F)
    BY DEF F
  <2>3. seen(U) \/ own \in g[T]
    BY <1>8, <1>10, <2>2 DEF WithDebt
  <2>4. g[U] \subseteq g[T]
    BY <1>8 DEF WithDebt
  <2> HIDE DEF own
  <2> QED
    BY <1>6, <2>1, <2>3, <2>4
<1> QED
  BY <1>9, <1>10

(* The calendar is one cash path and leaves no debt out: a page continues  *)
(* the one before it, its listed events make its change of the cash, and   *)
(* each due debt is seen as itself or as what pays it                      *)
(* (financial_calendar.py:263-395, :420-475); for any lengths of months,   *)
(* streams, debts and pending transactions.                                *)
THEOREM CalendarAlwaysAddsUp == CalendarSpec => []CalendarAddsUp
<1>1. CalendarInv => CalendarAddsUp
  BY DoMeet, ArePlanned DEF CalendarAddsUp
<1> QED
  BY <1>1, CalendarInvariant, PTL
================================================================================
