------------------------------ MODULE MCServices ------------------------------
(***************************************************************************)
(* Small instances of alerts, sign-in and bank connections.  They share no *)
(* state, so a behaviour is about one of them and the others stay as they  *)
(* began.                                                                  *)
(***************************************************************************)
EXTENDS Alerts, SignIn, PlaidConnection

CONSTANTS savings, checking, again, tab, timer, hand, q1, q2

VARIABLE page

Pages == {"scans", "browser", "passwords", "codes", "banks"}

(* A ledger with nothing to say, one that falls below the reserve in two   *)
(* months, one with a goal past its half and one where much happens.       *)
Calm ==
  [month |-> 1, day |-> 2, monday |-> FALSE, first |-> FALSE, over |-> {}, safe |-> 50, cash |-> 100,
   dearer |-> <<9>>, repeating |-> 0, debts |-> <<[balance |-> 300, apr |-> 14]>>,
   goals |-> <<[target |-> 9, projected |-> 9, percent |-> 24]>>,
   above |-> [h \in {30, 60, 90} |-> 1], bank |-> <<"fine">>, posted |-> <<400>>]
Risk == [Calm EXCEPT !.above[60] = -1, !.above[90] = -1]
Half == [Calm EXCEPT !.goals[1].percent = 60]
Busy == [Half EXCEPT !.safe = 9, !.repeating = 60, !.goals[1].projected = 0]
MCWorlds == {Calm, Risk, Half, Busy}
MCPreferences == {[Defaults EXCEPT !.saved = TRUE, !.email = TRUE]}
MCPatches == {[read |-> "same", dismissed |-> "yes"], [read |-> "no", dismissed |-> "no"]}

MCBank == [i \in Items |-> IF i \in {checking, again} THEN 1 ELSE 2]

Others(idle) == UNCHANGED idle /\ UNCHANGED page

Init ==
  /\ page \in Pages
  /\ AlertsInit /\ world = Calm
  /\ ThrottleInit /\ FactorInit /\ ConnectionInit

(* The timer's run beside one by hand, or beside a browser. *)
Browser ==
  \/ \E p \in Tabs : BrowserStep(p) \/ Undone(p)
  \/ MarkAllRead \/ \E f \in Fingerprints, patch \in Patches : MarkNotification(f, patch)

AlertsStep ==
  \/ page = "scans" /\ \/ \E p \in Jobs : Scan(p) \/ Undone(p)
                       \/ WorldMoves /\ world' \in {Calm, Half, Busy}
                       \/ UpdatePreferences
  \/ page = "browser" /\ \/ Scan(Timer) \/ Undone(Timer) \/ Browser
                         \/ WorldMoves /\ world' \in {Calm, Risk}
                         \/ UpdatePreferences

Next ==
  \/ AlertsStep /\ Others(<<signInVars, connectionVars>>)
  \/ page = "passwords" /\ ThrottleNext /\ Others(<<alertVars, factorVars, connectionVars>>)
  \/ page = "codes" /\ FactorNext /\ Others(<<alertVars, throttleVars, connectionVars>>)
  \/ page = "banks" /\ ConnectionNext /\ Others(<<alertVars, signInVars>>)

allVars == <<page, alertVars, signInVars, connectionVars>>

(* The fairness of Alerts on its pages; the others need none.              *)
Spec ==
  Init /\ [][Next]_allVars
    /\ WF_allVars(page \in {"scans", "browser"} /\ Scan(Timer) /\ Others(<<signInVars, connectionVars>>))
===============================================================================
