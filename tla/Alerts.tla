---------------------------- MODULE Alerts ----------------------------
(* The insights of one budget and the notifications of its owner          *)
(* (services/insights.py, services/notifications.py and their handlers).  *)
(*                                                                        *)
(* A scan of the hourly job and a refresh asked for in a browser both     *)
(* derive the signals that are true from the ledger, bring the insight    *)
(* rows in line with them and, the scan only, write one notification for  *)
(* everything that is new and then send it by email.  Each of them is one *)
(* transaction that reads the state as it was when it opened and writes   *)
(* the columns it changes: opening and committing are two steps here.     *)
(* The lock on the owner's row orders the commits and nothing else.       *)
(*                                                                        *)
(* A signal or a notification is named by its fingerprint <<type, part>>. *)
(* Amounts, texts and priorities are left out: a priority decides nothing *)
(* for the types that are notified.                                       *)
EXTENDS Naturals, Integers, FiniteSets, FiniteSetsExt

CONSTANTS
  Tabs,          \* requests of the owner's browser
  Jobs,          \* runs of run-notifications: the timer's and one by hand
  Timer,         \* the one the timer starts
  Worlds,        \* the ledgers, goals, banks and dates that can be met
  Preferences,       \* what the notification settings can be set to
  Patches,       \* the changes of a notification the browser asks for
  Forced,         \* --force-summaries
  MaxFaults      \* bound: runs killed and transactions undone by the server

ASSUME Timer \in Jobs

Actors == Tabs \cup Jobs

(* The settings of an account that has none saved. *)
Defaults == [saved |-> FALSE, inApp |-> TRUE, email |-> FALSE, spending |-> TRUE, forecast |-> TRUE,
             goals |-> TRUE, recurring |-> TRUE, large |-> FALSE, threshold |-> 250,
             weekly |-> TRUE, monthly |-> TRUE]

-----------------------------------------------------------------------------
(* The signals of a ledger w.                                              *)

SpendingSignals(w) ==
  {<<"category_overspend", c>> : c \in w.over}
  \cup (IF w.safe < 0 THEN {<<"negative_safe_to_spend", w.month>>}
        ELSE IF w.cash > 0 /\ 10 * w.safe < w.cash
             THEN {<<"low_safe_to_spend", w.month>>} ELSE {})

RecurringSignals(w) ==
  {<<"recurring_price_increase", m>> : m \in {n \in DOMAIN w.dearer : w.dearer[n] >= 10}}
  \cup {<<"recurring_annualized_total", 0>> : x \in {y \in {w.repeating} : y >= 50}}

(* A goal is behind when the date it is projected for, 0 for never, is not *)
(* within its target; of the horizons that end below the reserve only the  *)
(* earliest is reported.                                                   *)
PlanningSignals(w) ==
  {<<"goal_behind_schedule", g>> : g \in {h \in DOMAIN w.goals :
       w.goals[h].target > 0
         /\ (w.goals[h].projected = 0 \/ w.goals[h].projected > w.goals[h].target)}}
  \cup {<<"high_interest_debt", d>> : d \in {e \in DOMAIN w.debts :
       w.debts[e].balance >= 250 /\ w.debts[e].apr >= 15}}
  \cup (LET risky == {h \in DOMAIN w.above : w.above[h] < 0}
        IN  IF risky = {} THEN {} ELSE {<<"forecast_reserve_risk", Min(risky)>>})

Signals(w) == SpendingSignals(w) \cup RecurringSignals(w) \cup PlanningSignals(w)

(* The types of insights that become notifications under settings s. *)
Notifies(s, type) ==
  \/ type \in {"category_overspend", "negative_safe_to_spend", "low_safe_to_spend"}
       /\ s.spending
  \/ type = "forecast_reserve_risk" /\ s.forecast
  \/ type = "recurring_price_increase" /\ s.recurring

-----------------------------------------------------------------------------
(* The other reasons for a notification.                                   *)

Milestones == {25, 50, 75, 100}

GoalNews(w, s) ==
  {<<"goal_milestone", 1000 * g + Max({m \in Milestones : w.goals[g].percent >= m})>> :
      g \in {h \in DOMAIN w.goals : s.goals /\ w.goals[h].percent >= 25}}

(* One a day for as long as the item keeps its reason and is written. *)
BankNews(w) == {<<w.bank[b], 1000 * b + w.day>> : b \in {c \in DOMAIN w.bank : w.bank[c] # "fine"}}

LargeNews(w, s) ==
  {<<"large_transaction", t>> : t \in {u \in DOMAIN w.posted : s.large /\ w.posted[u] >= s.threshold}}

SummaryNews(w, s) ==
  {<<"weekly_summary", n>> : n \in {m \in {w.day} : s.weekly /\ (Forced \/ w.monday)}}
  \cup {<<"monthly_summary", n>> : n \in {m \in {w.month} : s.monthly /\ (Forced \/ w.first)}}

Fingerprints ==
  UNION {Signals(w) \cup BankNews(w)
           \cup UNION {GoalNews(w, s) \cup LargeNews(w, s) \cup SummaryNews(w, s) :
                         s \in Preferences \cup {Defaults}} : w \in Worlds}

-----------------------------------------------------------------------------
VARIABLES
  world,       \* the ledger as it is
  settings,    \* user_notification_preferences; not saved: no row
  insights,    \* insight_records: fingerprint -> "none", active, dismissed, resolved
  notes,       \* notifications: fingerprint -> the set of its stamps
  sent,        \* emails handed over for a fingerprint (nothing in the program counts them)
  doing,       \* what each actor is doing
  seen,        \* what the transactions that are open see
  mail,        \* of each run: what it created and has to send, what the server took
  faults

alertVars == <<world, settings, insights, notes, sent, doing, seen, mail, faults>>

NoMail == [todo |-> {}, taken |-> {}]
Idle == <<"idle">>
Present == [world |-> world, settings |-> settings, insights |-> insights, notes |-> DOMAIN notes]

AlertsInit ==
  /\ world \in Worlds /\ settings = Defaults
  /\ insights = [f \in Fingerprints |-> "none"]
  /\ notes = [f \in {} |-> {}]
  /\ sent = [f \in Fingerprints |-> 0]
  /\ doing = [p \in Actors |-> Idle]
  /\ seen = [p \in {} |-> Present]
  /\ mail = [p \in Jobs |-> NoMail]
  /\ faults = 0

(* Transactions, goals, debts, banks and the date change. *)
WorldMoves ==
  /\ world' \in Worlds \ {world}
  /\ UNCHANGED <<settings, insights, notes, sent, doing, seen, mail, faults>>

UpdatePreferences ==
  /\ settings' \in Preferences \ {settings}
  /\ UNCHANGED <<world, insights, notes, sent, doing, seen, mail, faults>>

(* The first read of p's transaction fixes what it sees. *)
Open(p, what) ==
  /\ doing[p] = Idle
  /\ doing' = [doing EXCEPT ![p] = what]
  /\ seen' = [q \in DOMAIN seen \cup {p} |-> IF q = p THEN Present ELSE seen[q]]
  /\ UNCHANGED <<world, settings, insights, notes, sent, mail, faults>>

Close(p, next) ==
  /\ doing' = [doing EXCEPT ![p] = next]
  /\ seen' = [q \in DOMAIN seen \ {p} |-> seen[q]]

-----------------------------------------------------------------------------
(* refresh_insights.                                                       *)

(* The rows p inserts and another has inserted since: the unique index     *)
(* refuses them and p's whole transaction is undone.                       *)
InsightClash(p) ==
  \E f \in Signals(seen[p].world) : seen[p].insights[f] = "none" /\ insights[f] # "none"

(* Mutants: a dismissal is undone by every refresh; a signal that returns is *)
(* not shown again.                                                        *)
RefreshedAlways(p) ==
  LET signals == Signals(seen[p].world)
  IN  [f \in Fingerprints |->
         IF f \in signals THEN "active"
         ELSE IF seen[p].insights[f] \in {"active", "dismissed"} THEN "resolved" ELSE insights[f]]
RefreshedOnce(p) ==
  LET signals == Signals(seen[p].world)
  IN  [f \in Fingerprints |->
         IF f \in signals
         THEN IF seen[p].insights[f] = "none" THEN "active" ELSE insights[f]
         ELSE IF seen[p].insights[f] \in {"active", "dismissed"} THEN "resolved" ELSE insights[f]]

(* The rows as p leaves them.  A status p does not change keeps the value  *)
(* that others gave it since.                                              *)
Refreshed(p) ==
  LET signals == Signals(seen[p].world)
  IN  [f \in Fingerprints |->
         IF f \in signals
         THEN IF seen[p].insights[f] \in {"none", "resolved"} THEN "active" ELSE insights[f]
         ELSE IF seen[p].insights[f] \in {"active", "dismissed"} THEN "resolved" ELSE insights[f]]

OpenRefresh(p) == Open(p, <<"refreshing">>)

CommitRefresh(p) ==
  /\ doing[p][1] = "refreshing"
  /\ insights' = IF InsightClash(p) THEN insights ELSE Refreshed(p)
  /\ Close(p, Idle)
  /\ UNCHANGED <<world, settings, notes, sent, mail, faults>>

(* set_insight_status: the owner dismisses an insight or restores it.  The *)
(* row is read when the request opens; a status that is already the wanted *)
(* one is not written, and a resolved row is not restored.                 *)
OpenSetting(p, f, status) ==
  /\ insights[f] # "none"
  /\ Open(p, <<"setting", f, status>>)

CommitSetting(p) ==
  /\ doing[p][1] = "setting"
  /\ LET f == doing[p][2]
         status == doing[p][3]
         was == seen[p].insights[f]
     IN  insights' = IF was = status \/ (was = "resolved" /\ status = "active")
                     THEN insights ELSE [insights EXCEPT ![f] = status]
  /\ Close(p, Idle)
  /\ UNCHANGED <<world, settings, notes, sent, mail, faults>>

-----------------------------------------------------------------------------
(* scan_user_notifications.                                                *)

(* What p finds worth a notification.  The refresh stamps every insight it *)
(* sees, so a row dismissed in the meantime is found dismissed.            *)
Wanted(p) ==
  LET w == seen[p].world
      s == seen[p].settings
      refreshed == Refreshed(p)
  IN  {f \in Signals(w) : refreshed[f] = "active" /\ Notifies(s, f[1])}
        \cup GoalNews(w, s) \cup BankNews(w) \cup LargeNews(w, s) \cup SummaryNews(w, s)

Created(p) == Wanted(p) \ seen[p].notes

Scans(p) == seen[p].settings.inApp \/ seen[p].settings.email

(* Mutant: notifications have no unique fingerprint. *)
ClashOfInsights(p) ==
  \/ ~seen[p].settings.saved /\ settings.saved
  \/ Scans(p) /\ InsightClash(p)

(* A unique index refuses something p inserts. *)
Clash(p) ==
  \/ ~seen[p].settings.saved /\ settings.saved
  \/ Scans(p) /\ (InsightClash(p) \/ Created(p) \cap DOMAIN notes # {})

OpenScan(p) == Open(p, <<"scanning">>)

(* The run goes on with the next account after an account that failed. *)
ScanFails(p) ==
  /\ doing[p][1] = "scanning" /\ Clash(p)
  /\ Close(p, Idle)
  /\ UNCHANGED <<world, settings, insights, notes, sent, mail, faults>>

CommitScan(p) ==
  /\ doing[p][1] = "scanning" /\ ~Clash(p)
  /\ LET new == IF Scans(p) THEN Created(p) ELSE {}
     IN  /\ notes' = [f \in DOMAIN notes \cup new |-> IF f \in new THEN {} ELSE notes[f]]
         /\ mail' = [mail EXCEPT ![p].todo = IF seen[p].settings.email THEN new ELSE {}]
  /\ settings' = [settings EXCEPT !.saved = TRUE]
  /\ insights' = IF Scans(p) THEN Refreshed(p) ELSE insights
  /\ Close(p, IF seen[p].settings.email THEN <<"mailing">> ELSE Idle)
  /\ UNCHANGED <<world, sent, faults>>

(* _deliver_email.  The mail server accepts the message, or refuses it, or *)
(* accepts it and the connection fails before it says so: only in the      *)
(* first case the notification is stamped, and it is never sent again.     *)
Deliver(p, f, accepted, told) ==
  /\ doing[p][1] = "mailing" /\ f \in mail[p].todo
  /\ told => accepted
  /\ sent' = [sent EXCEPT ![f] = @ + (IF accepted THEN 1 ELSE 0)]
  /\ mail' = [mail EXCEPT ![p] = [todo |-> @.todo \ {f},
                                  taken |-> IF told THEN @.taken \cup {f} ELSE @.taken]]
  /\ UNCHANGED <<world, settings, insights, notes, doing, seen, faults>>

(* The second commit keeps the stamps. *)
CommitMail(p) ==
  /\ doing[p][1] = "mailing" /\ mail[p].todo = {}
  /\ notes' = [f \in DOMAIN notes |->
                 IF f \in mail[p].taken THEN notes[f] \cup {"emailed"} ELSE notes[f]]
  /\ mail' = [mail EXCEPT ![p] = NoMail]
  /\ Close(p, Idle)
  /\ UNCHANGED <<world, settings, insights, sent, faults>>

(* A run is killed, or the server undoes a transaction to break a deadlock *)
(* between a refresh and a change of an insight.                           *)
Undone(p) ==
  /\ doing[p] # Idle /\ faults < MaxFaults
  /\ Close(p, Idle)
  /\ mail' = [q \in Jobs |-> IF q = p THEN NoMail ELSE mail[q]]
  /\ faults' = faults + 1
  /\ UNCHANGED <<world, settings, insights, notes, sent>>

-----------------------------------------------------------------------------
(* mark_notification and mark_all_read, short requests in one step.        *)

Marked(stamps, patch) ==
  LET read == IF patch.read = "yes" THEN stamps \cup {"read"}
              ELSE IF patch.read = "no" THEN stamps \ {"read"} ELSE stamps
  IN  IF patch.dismissed = "yes" THEN read \cup {"read", "dismissed"}
      ELSE IF patch.dismissed = "no" THEN read \ {"dismissed"} ELSE read

MarkNotification(f, patch) ==
  /\ f \in DOMAIN notes
  /\ notes' = [notes EXCEPT ![f] = Marked(@, patch)]
  /\ notes' # notes
  /\ UNCHANGED <<world, settings, insights, sent, doing, seen, mail, faults>>

Unread == {f \in DOMAIN notes : notes[f] \cap {"read", "dismissed"} = {}}

MarkAllRead ==
  /\ Unread # {}
  /\ notes' = [f \in DOMAIN notes |-> IF f \in Unread THEN notes[f] \cup {"read"} ELSE notes[f]]
  /\ UNCHANGED <<world, settings, insights, sent, doing, seen, mail, faults>>

Scan(p) ==
  \/ OpenScan(p) \/ ScanFails(p) \/ CommitScan(p) \/ CommitMail(p)
  \/ \E f \in Fingerprints, accepted, told \in BOOLEAN : Deliver(p, f, accepted, told)

BrowserStep(p) ==
  \/ OpenRefresh(p) \/ CommitRefresh(p) \/ CommitSetting(p)
  \/ \E f \in Fingerprints, status \in {"active", "dismissed"} : OpenSetting(p, f, status)

AlertsNext ==
  \/ WorldMoves \/ UpdatePreferences \/ MarkAllRead
  \/ \E f \in Fingerprints, patch \in Patches : MarkNotification(f, patch)
  \/ \E p \in Tabs : BrowserStep(p)
  \/ \E p \in Jobs : Scan(p)
  \/ \E p \in Actors : Undone(p)

(* The timer starts a run every hour and a run that started goes on; runs  *)
(* by hand and the browser owe nothing.                                    *)
Fairness == WF_alertVars(Scan(Timer))

AlertsSpec == AlertsInit /\ [][AlertsNext]_alertVars /\ Fairness

-----------------------------------------------------------------------------
TypeOK ==
  /\ world \in Worlds /\ settings \in Preferences \cup {Defaults, [Defaults EXCEPT !.saved = TRUE]}
  /\ insights \in [Fingerprints -> {"none", "active", "dismissed", "resolved"}]
  /\ DOMAIN notes \subseteq Fingerprints
  /\ \A f \in DOMAIN notes : notes[f] \subseteq {"read", "dismissed", "emailed"}
  /\ \A p \in Jobs : mail[p].todo \cup mail[p].taken \subseteq Fingerprints
  /\ faults \in 0..MaxFaults

(* However scans overlap, fail and are killed, an email is sent at most    *)
(* once, only for a notification that is stored, and a notification that   *)
(* says it was emailed was (notifications.py:498-545).                     *)
MailedOnce ==
  /\ \A f \in Fingerprints :
       /\ sent[f] <= 1
       /\ sent[f] = 1 => f \in DOMAIN notes
       /\ f \in DOMAIN notes /\ "emailed" \in notes[f] => sent[f] = 1
  /\ \A p, q \in Jobs : p # q => mail[p].todo \cap mail[q].todo = {}

(* An insight the owner dismissed becomes active again only because the    *)
(* owner restores it or because a refresh saw it resolved: one that opened *)
(* before the dismissal and commits after it (insights.py:479-545).        *)
DismissedStays ==
  [][\A f \in Fingerprints :
       insights[f] = "dismissed" /\ insights'[f] = "active" =>
         \E p \in Actors : /\ doing'[p] # doing[p] /\ p \in DOMAIN seen
                           /\ \/ doing[p] = <<"setting", f, "active">>
                              \/ seen[p].insights[f] = "resolved"]_alertVars

(* A signal of a type the owner wants to hear of, and that stays true, is  *)
(* notified in the end or has been dismissed, whatever fails a bounded     *)
(* number of times (insights.py:479, notifications.py:236, :547).          *)
Heard(f) ==
  \/ f \in DOMAIN notes \/ f \notin Signals(world) \/ insights[f] = "dismissed"
  \/ ~(Notifies(settings, f[1]) /\ (settings.inApp \/ settings.email))

Alarms == {f \in Fingerprints : \E s \in Preferences \cup {Defaults} : Notifies(s, f[1])}

Noticed == \A f \in Alarms : []<>Heard(f)
=============================================================================
