----------------------------- MODULE CashCalendar -----------------------------
(***************************************************************************)
(* The financial calendar (services/financial_calendar.py) and the cash    *)
(* forecast's view of the same recurring streams (financial_planning.py):  *)
(* which events are still to come and what they leave of the cash.         *)
(***************************************************************************)
EXTENDS Integers, Sequences, FiniteSets, FiniteSetsExt, Folds

CONSTANTS
  MonthLength,  \* days of each month, in order
  Streams,
  Every,        \* days from one occurrence of a stream to the next
  Impact,       \* what an occurrence does to the cash
  PaysDebt,     \* streams whose transactions have the category debt_payments
  DueDebts,        \* debts with a due day, in order of that day
  DueDay,
  Payment,      \* minimum and extra payment
  Holds,        \* pending transactions that may appear: stream, date
  Near,         \* 4: days between a pending transaction and what it stands for
  Cash

CalMonths == DOMAIN MonthLength
FirstDay(m) == 1 + MapThenSumSet(LAMBDA k : MonthLength[k], 1 .. m - 1)
FinalDay(m) == FirstDay(m) + MonthLength[m] - 1
LastDay == FinalDay(Len(MonthLength))

CalendarAssumption ==
  /\ MonthLength \in Seq(Nat \ {0})
  /\ IsFiniteSet(Streams) /\ IsFiniteSet(DueDebts)
  /\ Every \in [Streams -> Nat \ {0}] /\ Impact \in [Streams -> Int] /\ PaysDebt \subseteq Streams
  /\ DueDebts \subseteq Nat /\ DueDay \in [DueDebts -> Nat \ {0}] /\ Payment \in [DueDebts -> Nat]
  /\ Holds \subseteq [stream : Streams, date : 1 .. LastDay]
  /\ Near \in Nat /\ Cash \in Int
ASSUME CalendarAssumption

VARIABLES
  today,
  nextDue,  \* next_expected_date of each stream
  pending,  \* pending transactions
  debts     \* active debts

calendarVars == <<today, nextDue, pending, debts>>

-----------------------------------------------------------------------------
(* The events between two days.                                            *)

(* _recurring_occurrences, the same in both files: the stream is moved on  *)
(* in steps until it is due again.                                         *)
Occurrences(s, from, to) == {d \in from .. to : d >= nextDue[s] /\ (d - nextDue[s]) % Every[s] = 0}

Pending(from, to) ==
  {[status |-> "pending", date |-> p.date, impact |-> Impact[p.stream], debt |-> p.stream \in PaysDebt, of |-> p.stream] :
    p \in {q \in pending : q.date \in from .. to}}

(* A pending transaction stands for the occurrences of its stream around   *)
(* it, but only where it lies between the same two days.                   *)
Expected(from, to) ==
  LET held(s, d) == \E p \in pending : p.stream = s /\ p.date \in from .. to /\ p.date \in d - Near .. d + Near
  IN {[status |-> "expected", date |-> o[2], impact |-> Impact[o[1]], debt |-> o[1] \in PaysDebt, of |-> o[1]] :
        o \in {x \in Streams \X (from .. to) : x[2] \in Occurrences(x[1], from, to) /\ ~held(x[1], x[2])}}

(* The day of a payment: the due day, or the last one of a shorter month. *)
DueDates(d, from, to) ==
  {day \in from .. to : \E m \in CalMonths : day = FirstDay(m) + Min({DueDay[d], MonthLength[m]}) - 1}

(* A debt is planned unless an event of that day already looks like its    *)
(* payment: off by five percent, or by one.                                *)
LooksLike(event, d) ==
  event.debt /\ 20 * Max({event.impact, -event.impact} ) - 20 * Payment[d] \in -Max({Payment[d], 20}) .. Max({Payment[d], 20})
WithDebt(d, events, from, to) ==
  LET due == {day \in DueDates(d, from, to) : ~\E e \in events : e.date = day /\ LooksLike(e, d)}
  IN events \cup (IF Payment[d] = 0 THEN {}
                  ELSE {[status |-> "planned", date |-> day, impact |-> -Payment[d], debt |-> TRUE, of |-> d] : day \in due})

(* Debts are taken one after the other, the one due last at the end. *)
FutureEvents(from, to) ==
  MapThenFoldSet(LAMBDA d, events : WithDebt(d, events, from, to), Pending(from, to) \cup Expected(from, to),
                 LAMBDA d : d, Max, debts)

-----------------------------------------------------------------------------
(* _projection: pending transactions may be in the balance already.        *)

Moves(events) == MapThenSumSet(LAMBDA e : e.impact, {e \in events : e.status # "pending"})
Starts(m) == Max({today, FirstDay(m)})
PathOfMonth(m) ==
  LET events == FutureEvents(Starts(m), FinalDay(m))
  IN [day \in Starts(m) - 1 .. FinalDay(m) |-> Cash + Moves({e \in events : e.date <= day})]
Path(m) ==
  LET events == FutureEvents(today, FinalDay(m))
  IN [day \in Starts(m) - 1 .. FinalDay(m) |-> Cash + Moves({e \in events : e.date <= day})]
ProjectedStart(m) == Path(m)[Starts(m) - 1]

(* The events listed under a month, with their inflow and outflow. *)
Listed(m) == FutureEvents(Starts(m), FinalDay(m))

(* forecast_view: recurring income less recurring expenses up to a day. *)
Recurring(to) == MapThenSumSet(LAMBDA s : Impact[s] * Cardinality(Occurrences(s, today, to)), Streams)

-----------------------------------------------------------------------------
DayPasses ==
  /\ today < LastDay
  /\ today' = today + 1
  /\ UNCHANGED <<nextDue, pending, debts>>

(* A synchronization or the user adds a pending transaction. *)
HoldAppears ==
  /\ \E p \in Holds \ pending : pending' = pending \cup {p}
  /\ UNCHANGED <<today, nextDue, debts>>

(* It posts, and the rebuild expects the next one a step later ... *)
HoldPosts ==
  /\ \E p \in pending :
       /\ pending' = pending \ {p}
       /\ nextDue' = [nextDue EXCEPT ![p.stream] = p.date + Every[p.stream]]
  /\ UNCHANGED <<today, debts>>

(* ... or the provider withdraws it. *)
HoldLapses ==
  /\ \E p \in pending : pending' = pending \ {p}
  /\ UNCHANGED <<today, nextDue, debts>>

(* create_debt, update_debt and delete_debt. *)
DebtChanges ==
  /\ \E d \in DueDebts : debts' = IF d \in debts THEN debts \ {d} ELSE debts \cup {d}
  /\ UNCHANGED <<today, nextDue, pending>>

NothingDue ==
  /\ nextDue = [s \in Streams |-> Every[s]]
  /\ pending = {}
  /\ debts = {}

CalendarInit == today = 1 /\ NothingDue

CalendarNext == DebtChanges \/ DayPasses \/ HoldAppears \/ HoldPosts \/ HoldLapses
CalendarSpec == CalendarInit /\ [][CalendarNext]_calendarVars

-----------------------------------------------------------------------------
(* Properties.                                                             *)

(* Every debt with a due day is in the cash path on that day, by itself or *)
(* by a recurring or pending payment that looks like it, if no other debt  *)
(* that is due on that day looks like it too: such a debt is left out.     *)
DebtsArePlanned ==
  \A m \in CalMonths : \A d \in debts : \A day \in DueDates(d, today, FinalDay(m)) :
    LET events == {e \in FutureEvents(today, FinalDay(m)) : e.date = day}
    IN Payment[d] > 0 /\ (\A e \in events : e.status = "planned" /\ e.of # d => ~LooksLike(e, d))
         => \E e \in events : LooksLike(e, d) /\ (e.status = "planned" => e.of = d)

(* The calendar is one cash path: a month starts with what the month       *)
(* before it ends with, and ends with what its own listed events make of   *)
(* that; without debts and pending transactions it is the path of the      *)
(* forecast.  Only a pending transaction close to the border of the month  *)
(* is seen from one side and not from the other.                           *)
AtBorder(m) == \E p \in pending : p.date \in FinalDay(m) + 1 - Near .. FinalDay(m) + Near
PathsMeet ==
  \A m \in CalMonths :
    LET path == Path(m)
        start == path[Starts(m) - 1]
        end == path[FinalDay(m)]
    IN FinalDay(m) >= today =>
         /\ m + 1 \in CalMonths /\ ~AtBorder(m) => end = ProjectedStart(m + 1)
         /\ (Starts(m) > today => ~AtBorder(m - 1)) => end - start = Moves(Listed(m))
         /\ pending = {} /\ debts = {} => end = Cash + Recurring(FinalDay(m))

(* Each page of the calendar continues the last one and shows every debt.  *)
CalendarAddsUp == PathsMeet /\ DebtsArePlanned
===============================================================================
