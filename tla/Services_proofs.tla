---------------------------- MODULE Services_proofs ----------------------------
(***************************************************************************)
(* Theorems about the components that MCServices checks, and the two       *)
(* processes of MCPages, each by itself and for every value of its         *)
(* constants.                                                              *)
(*                                                                         *)
(* Alerts: emails are sent at most once and dismissals hold, for any       *)
(* ledger, any settings and any number of runs and tabs.                   *)
(* SignIn: no code opens two sessions, no challenge takes more wrong codes *)
(* than it allows and no stretch of time more wrong passwords than twice   *)
(* the limit, for any number of requests, codes, identities and clients.   *)
(* PlaidConnection: the provider and the installation agree on the         *)
(* connections, for any number of items, banks and requests.               *)
(* SyncRuns, the minute job: its heartbeat is true, for any items.         *)
(* ServerPool: no connection and no row lock leaks, for any requests,      *)
(* webhooks and size of the pool.                                          *)
(***************************************************************************)
EXTENDS Alerts, SignIn, PlaidConnection, SyncRuns, ServerPool, SumLemmas

-----------------------------------------------------------------------------
(* Alerts.                                                                 *)

Doings ==
  {Idle, <<"refreshing">>, <<"scanning">>, <<"mailing">>}
    \cup {<<"setting", f, s>> : f \in Fingerprints, s \in {"active", "dismissed"}}

(* Whoever is in a transaction sees something.                             *)
Busy ==
  /\ doing \in [Actors -> Doings]
  /\ \A p \in Actors : doing[p] \notin {Idle, <<"mailing">>} => p \in DOMAIN seen

(* What is still to be sent is stored and was never sent, by one run only; *)
(* what the server took was sent.                                          *)
Letters ==
  /\ mail = [p \in Jobs |-> [todo |-> mail[p].todo, taken |-> mail[p].taken]]
  /\ sent \in [Fingerprints -> Nat]
  /\ insights = [f \in Fingerprints |-> insights[f]]
OnlyMailing == \A p \in Jobs : doing[p] # <<"mailing">> => mail[p] = NoMail
TodoIsNew == \A p \in Jobs : \A f \in mail[p].todo :
               f \in DOMAIN notes /\ (f \in Fingerprints => sent[f] = 0)
TakenIsSent == \A p \in Jobs : \A f \in mail[p].taken \cap Fingerprints : sent[f] = 1

Mailing == Busy /\ Letters /\ OnlyMailing /\ TodoIsNew /\ TakenIsSent /\ MailedOnce

LEMMA MailingInit == AlertsInit => Mailing
<1> SUFFICES ASSUME AlertsInit PROVE Mailing
  OBVIOUS
<1>1. /\ doing = [p \in Actors |-> Idle] /\ mail = [p \in Jobs |-> NoMail] /\ Jobs \subseteq Actors
      /\ DOMAIN notes = {} /\ sent = [f \in Fingerprints |-> 0]
      /\ insights = [f \in Fingerprints |-> "none"]
  BY DEF AlertsInit, Actors
<1>2. Busy
  BY <1>1 DEF Busy, Doings
<1>3. Letters /\ OnlyMailing /\ TodoIsNew /\ TakenIsSent
  BY <1>1 DEF Letters, OnlyMailing, TodoIsNew, TakenIsSent, NoMail
<1>4. MailedOnce
  BY <1>1 DEF MailedOnce, NoMail
<1> QED
  BY <1>2, <1>3, <1>4 DEF Mailing

-----------------------------------------------------------------------------
(* Steps that leave letters alone.                                         *)
LEMMA MailingKept ==
  ASSUME Mailing, Busy', OnlyMailing', UNCHANGED <<sent, mail>>,
         insights' = [f \in Fingerprints |-> insights'[f]],
         DOMAIN notes \subseteq DOMAIN notes',
         \A f \in DOMAIN notes' : "emailed" \in notes'[f] => f \in DOMAIN notes /\ "emailed" \in notes[f]
  PROVE  Mailing'
<1>1. Letters' /\ TodoIsNew' /\ TakenIsSent'
  BY DEF Mailing, Letters, TodoIsNew, TakenIsSent
<1>2. MailedOnce'
  BY DEF Mailing, MailedOnce
<1> QED
  BY <1>1, <1>2 DEF Mailing

LEMMA BusyOpen ==
  ASSUME NEW p \in Actors, NEW what \in Doings \ {<<"mailing">>}, Mailing, Open(p, what)
  PROVE  Mailing'
<1>1. /\ doing[p] = Idle /\ doing' = [doing EXCEPT ![p] = what]
      /\ DOMAIN seen' = DOMAIN seen \cup {p}
      /\ UNCHANGED <<world, settings, insights, notes, sent, mail, faults>>
  BY DEF Open
<1>2. Idle # <<"mailing">>
  BY DEF Idle
<1>3. Busy'
  BY <1>1 DEF Mailing, Busy
<1>4. OnlyMailing'
  BY <1>1, <1>2 DEF Mailing, Busy, OnlyMailing, Actors
<1> QED
  BY <1>1, <1>3, <1>4, MailingKept DEF Mailing, Letters

LEMMA BusyClose ==
  ASSUME NEW p \in Actors, NEW next \in {Idle, <<"mailing">>}, Busy, Close(p, next)
  PROVE  Busy' /\ doing'[p] = next /\ \A q \in Actors \ {p} : doing'[q] = doing[q]
<1>1. doing' = [doing EXCEPT ![p] = next] /\ DOMAIN seen' = DOMAIN seen \ {p}
  BY DEF Close
<1> QED
  BY <1>1 DEF Busy, Doings

(* A step that closes p's transaction and has nothing to send.             *)
LEMMA MailingClosed ==
  ASSUME NEW p \in Actors, Mailing, Close(p, Idle), doing[p] # <<"mailing">>, UNCHANGED <<sent, mail, notes>>,
         insights' = [f \in Fingerprints |-> insights'[f]]
  PROVE  Mailing'
<1>1. Idle # <<"mailing">>
  BY DEF Idle
<1>2. Busy' /\ doing'[p] = Idle /\ \A q \in Actors \ {p} : doing'[q] = doing[q]
  BY BusyClose DEF Mailing
<1>3. OnlyMailing'
  BY <1>1, <1>2 DEF Mailing, OnlyMailing, Actors
<1> QED
  BY <1>2, <1>3, MailingKept

LEMMA MailingUndone ==
  ASSUME NEW p \in Actors, Mailing, Undone(p)
  PROVE  Mailing'
<1>1. /\ Close(p, Idle) /\ mail' = [q \in Jobs |-> IF q = p THEN NoMail ELSE mail[q]]
      /\ UNCHANGED <<insights, notes, sent>>
  BY DEF Undone
<1>2. Busy' /\ doing'[p] = Idle /\ \A q \in Actors \ {p} : doing'[q] = doing[q]
  BY <1>1, BusyClose DEF Mailing
<1>3. \A q \in Jobs : mail'[q] = NoMail \/ mail'[q] = mail[q]
  BY <1>1
<1>4. OnlyMailing' 
  BY <1>1, <1>2 DEF Mailing, OnlyMailing, Actors
<1>5. Letters' 
  BY <1>1 DEF Mailing, Letters, NoMail
<1>6. TodoIsNew' /\ TakenIsSent' /\ MailedOnce'
  BY <1>1, <1>3 DEF Mailing, TodoIsNew, TakenIsSent, MailedOnce, NoMail
<1> QED
  BY <1>2, <1>4, <1>5, <1>6 DEF Mailing

LEMMA MailingScanned ==
  ASSUME NEW p \in Jobs, Mailing, CommitScan(p)
  PROVE  Mailing'
<1> DEFINE new == IF Scans(p) THEN Created(p) ELSE {}
           todo == IF seen[p].settings.email THEN new ELSE {}
           next == IF seen[p].settings.email THEN <<"mailing">> ELSE Idle
<1>1. /\ doing[p][1] = "scanning" /\ ~Clash(p)
      /\ notes' = [f \in DOMAIN notes \cup new |-> IF f \in new THEN {} ELSE notes[f]]
      /\ mail' = [mail EXCEPT ![p].todo = todo]
      /\ Close(p, next)
      /\ UNCHANGED <<world, sent, faults>>
  BY DEF CommitScan
<1>2. insights' = [f \in Fingerprints |-> insights'[f]]
  BY DEF CommitScan, Refreshed, Mailing, Letters
<1>3. \A f \in new : f \notin DOMAIN notes
  BY <1>1 DEF Clash
<1>4. DOMAIN notes' = DOMAIN notes \cup new /\ (\A f \in new : notes'[f] = {})
      /\ \A f \in DOMAIN notes : notes'[f] = notes[f]
  <2> HIDE DEF new
  <2> QED
    BY <1>1, <1>3
<1>5. p \in Actors /\ doing[p] # <<"mailing">> /\ Idle # <<"mailing">>
  BY <1>1 DEF Actors, Idle
<1>6. mail[p] = NoMail
  BY <1>5 DEF Mailing, OnlyMailing
<1>7. /\ mail' = [q \in Jobs |-> [todo |-> mail'[q].todo, taken |-> mail'[q].taken]]
      /\ mail'[p].todo = todo /\ mail'[p].taken = {}
      /\ \A q \in Jobs \ {p} : mail'[q] = mail[q]
  <2> HIDE DEF todo
  <2> QED
    BY <1>1, <1>6 DEF Mailing, Letters, NoMail
<1>8. todo \subseteq new /\ (next # <<"mailing">> => todo = {})
  BY <1>5
<1> HIDE DEF todo, next, new
<1>9. Busy' /\ doing'[p] = next /\ \A q \in Actors \ {p} : doing'[q] = doing[q]
  BY <1>1, <1>5, BusyClose DEF Mailing, next
<1>10. \A f \in new : f \in Fingerprints => sent[f] = 0
  <2>1. \A f \in Fingerprints : sent[f] \in Nat /\ sent[f] <= 1 /\ (sent[f] = 1 => f \in DOMAIN notes)
    BY DEF Mailing, MailedOnce, Letters
  <2> QED
    BY <1>3, <2>1
<1>11. \A q \in Jobs : \A f \in new : f \notin mail[q].todo
  BY <1>3 DEF Mailing, TodoIsNew
<1>12. OnlyMailing'
  BY <1>7, <1>8, <1>9 DEF Mailing, OnlyMailing, Actors, NoMail
<1>13. Letters'
  BY <1>1, <1>2, <1>7 DEF Mailing, Letters
<1>14. TodoIsNew' /\ TakenIsSent'
  BY <1>1, <1>4, <1>7, <1>8, <1>10 DEF Mailing, TodoIsNew, TakenIsSent
<1>15. MailedOnce'
  <2>1. \A q \in Jobs \ {p} : mail'[q].todo \cap mail'[p].todo = {}
    BY <1>7, <1>8, <1>11
  <2>2. \A q, r \in Jobs \ {p} : q # r => mail'[q].todo \cap mail'[r].todo = {}
    BY <1>7 DEF Mailing, MailedOnce
  <2>3. \A q, r \in Jobs : q # r => mail'[q].todo \cap mail'[r].todo = {}
    BY <2>1, <2>2
  <2> QED
    BY <1>1, <1>4, <2>3 DEF Mailing, MailedOnce
<1> QED
  BY <1>9, <1>12, <1>13, <1>14, <1>15 DEF Mailing

LEMMA MailingDelivers ==
  ASSUME NEW p \in Jobs, NEW f \in Fingerprints, NEW accepted \in BOOLEAN, NEW told \in BOOLEAN,
         Mailing, Deliver(p, f, accepted, told)
  PROVE  Mailing'
<1>1. /\ doing[p][1] = "mailing" /\ f \in mail[p].todo
      /\ UNCHANGED <<world, settings, insights, notes, doing, seen, faults>>
  BY DEF Deliver
<1>2. /\ sent \in [Fingerprints -> Nat] /\ sent[f] = 0 /\ f \in DOMAIN notes
      /\ \A q \in Jobs \ {p} : f \notin mail[q].todo
  BY <1>1 DEF Mailing, Letters, TodoIsNew, MailedOnce
<1>3. \/ sent' = [sent EXCEPT ![f] = 1]
      \/ sent' = sent /\ ~accepted
  <2>1. sent' = [sent EXCEPT ![f] = @ + (IF accepted THEN 1 ELSE 0)]
    BY DEF Deliver
  <2>2. CASE accepted
    BY <1>2, <2>1, <2>2
  <2>3. CASE ~accepted
    BY <1>2, <2>1, <2>3
  <2> QED
    BY <2>2, <2>3
<1>4. /\ mail' = [q \in Jobs |-> [todo |-> mail'[q].todo, taken |-> mail'[q].taken]]
      /\ mail'[p].todo = mail[p].todo \ {f}
      /\ \A q \in Jobs \ {p} : mail'[q] = mail[q]
  BY DEF Deliver, Mailing, Letters
<1>5. \/ mail'[p].taken = mail[p].taken
      \/ mail'[p].taken = mail[p].taken \cup {f} /\ sent' = [sent EXCEPT ![f] = 1]
  <2>1. mail'[p].taken = IF told THEN mail[p].taken \cup {f} ELSE mail[p].taken
    BY DEF Deliver, Mailing, Letters
  <2>2. told => accepted
    BY DEF Deliver
  <2> QED
    BY <1>3, <2>1, <2>2
<1>6. /\ sent' \in [Fingerprints -> Nat] /\ sent'[f] \in {0, 1}
      /\ \A g \in Fingerprints \ {f} : sent'[g] = sent[g]
      /\ sent' = [sent EXCEPT ![f] = 1] => sent'[f] = 1
  BY <1>2, <1>3
<1>7. OnlyMailing' /\ Busy' /\ Letters'
  <2>1. p \in Actors /\ doing[p] = <<"mailing">>
    BY <1>1 DEF Actors, Mailing, Busy, Doings, Idle
  <2> QED
    BY <1>1, <1>4, <1>6, <2>1 DEF Mailing, OnlyMailing, Busy, Letters
<1>8. TodoIsNew'
  BY <1>1, <1>2, <1>4, <1>6 DEF Mailing, TodoIsNew
<1>9. TakenIsSent'
  <2>1. \A q \in Jobs : f \in mail[q].taken => FALSE
    BY <1>2 DEF Mailing, TakenIsSent
  <2> QED
    BY <1>4, <1>5, <1>6, <2>1 DEF Mailing, TakenIsSent
<1>10. MailedOnce'
  BY <1>1, <1>2, <1>4, <1>6 DEF Mailing, MailedOnce
<1> QED
  BY <1>7, <1>8, <1>9, <1>10 DEF Mailing

LEMMA MailingStamps ==
  ASSUME NEW p \in Jobs, Mailing, CommitMail(p)
  PROVE  Mailing'
<1>1. /\ notes' = [f \in DOMAIN notes |->
                    IF f \in mail[p].taken THEN notes[f] \cup {"emailed"} ELSE notes[f]]
      /\ mail' = [mail EXCEPT ![p] = NoMail] /\ Close(p, Idle)
      /\ UNCHANGED <<insights, sent>>
  BY DEF CommitMail
<1>2. p \in Actors
  BY DEF Actors
<1>3. Busy' /\ doing'[p] = Idle /\ \A q \in Actors \ {p} : doing'[q] = doing[q]
  BY <1>1, <1>2, BusyClose DEF Mailing
<1>4. /\ mail'[p] = NoMail /\ \A q \in Jobs \ {p} : mail'[q] = mail[q]
      /\ mail' = [q \in Jobs |-> [todo |-> mail'[q].todo, taken |-> mail'[q].taken]]
  BY <1>1 DEF Mailing, Letters, NoMail
<1>5. OnlyMailing' /\ Letters'
  BY <1>1, <1>3, <1>4 DEF Mailing, OnlyMailing, Letters, Actors
<1>6. TodoIsNew' /\ TakenIsSent'
  BY <1>1, <1>4 DEF Mailing, TodoIsNew, TakenIsSent, NoMail
<1>7. MailedOnce'
  <2>1. \A f \in Fingerprints : f \in mail[p].taken => sent[f] = 1
    BY DEF Mailing, TakenIsSent
  <2>2. \A q, r \in Jobs : q # r => mail'[q].todo \cap mail'[r].todo = {}
    BY <1>4 DEF Mailing, MailedOnce, NoMail
  <2> QED
    BY <1>1, <2>1, <2>2 DEF Mailing, MailedOnce
<1> QED
  BY <1>3, <1>5, <1>6, <1>7 DEF Mailing

LEMMA MailingMarks ==
  ASSUME Mailing, MarkAllRead \/ \E f \in Fingerprints, patch \in Patches : MarkNotification(f, patch)
  PROVE  Mailing'
<1>1. /\ DOMAIN notes' = DOMAIN notes
      /\ \A f \in DOMAIN notes : "emailed" \in notes'[f] => "emailed" \in notes[f]
  <2>1. CASE MarkAllRead
    BY <2>1 DEF MarkAllRead
  <2>2. ASSUME NEW f \in Fingerprints, NEW patch \in Patches, MarkNotification(f, patch)
        PROVE  <1>1
    <3>1. f \in DOMAIN notes /\ notes' = [notes EXCEPT ![f] = Marked(@, patch)]
      BY <2>2 DEF MarkNotification
    <3>2. "emailed" \in Marked(notes[f], patch) => "emailed" \in notes[f]
      BY DEF Marked
    <3> QED
      BY <3>1, <3>2
  <2> QED
    BY <2>1, <2>2
<1>2. UNCHANGED <<insights, sent, doing, seen, mail>>
  BY DEF MarkAllRead, MarkNotification
<1>3. Busy' /\ OnlyMailing'
  BY <1>2 DEF Mailing, Busy, OnlyMailing
<1> QED
  BY <1>1, <1>2, <1>3, MailingKept DEF Mailing, Letters

LEMMA MailingBrowser ==
  ASSUME NEW p \in Actors, Mailing, BrowserStep(p)
  PROVE  Mailing'
<1>1. CASE OpenRefresh(p)
  BY <1>1, BusyOpen DEF OpenRefresh, Doings
<1>2. ASSUME NEW f \in Fingerprints, NEW status \in {"active", "dismissed"}, OpenSetting(p, f, status)
      PROVE  Mailing'
  <2>1. <<"setting", f, status>> \in Doings \ {<<"mailing">>}
    BY DEF Doings
  <2> QED
    BY <1>2, <2>1, BusyOpen DEF OpenSetting
<1>3. CASE CommitRefresh(p)
  <2>1. insights' = [f \in Fingerprints |-> insights'[f]]
    BY <1>3 DEF CommitRefresh, Refreshed, Mailing, Letters
  <2> QED
    BY <1>3, <2>1, MailingClosed DEF CommitRefresh
<1>4. CASE CommitSetting(p)
  <2>1. insights' = [f \in Fingerprints |-> insights'[f]]
    BY <1>4 DEF CommitSetting, Mailing, Letters
  <2>2. doing[p] # <<"mailing">> /\ Close(p, Idle) /\ UNCHANGED <<sent, mail, notes>>
    BY <1>4 DEF CommitSetting
  <2> QED
    BY <2>1, <2>2, MailingClosed
<1> QED
  BY <1>1, <1>2, <1>3, <1>4 DEF BrowserStep

LEMMA MailingNext == Mailing /\ [AlertsNext]_alertVars => Mailing'
<1> SUFFICES ASSUME Mailing, [AlertsNext]_alertVars PROVE Mailing'
  OBVIOUS
<1>1. CASE UNCHANGED <<insights, notes, sent, doing, seen, mail>>
  BY <1>1 DEF Mailing, Busy, Letters, OnlyMailing, TodoIsNew, TakenIsSent, MailedOnce
<1>2. ASSUME NEW p \in Jobs, OpenScan(p)
      PROVE  Mailing'
  BY <1>2, BusyOpen DEF OpenScan, Doings, Actors
<1>3. ASSUME NEW p \in Jobs, ScanFails(p)
      PROVE  Mailing'
  BY <1>3, MailingClosed DEF ScanFails, Actors, Mailing, Letters
<1>4. ASSUME NEW p \in Jobs, Scan(p)
      PROVE  Mailing'
  BY <1>2, <1>3, <1>4, MailingScanned, MailingStamps, MailingDelivers DEF Scan
<1>5. (WorldMoves \/ UpdatePreferences \/ UNCHANGED alertVars)
        => UNCHANGED <<insights, notes, sent, doing, seen, mail>>
  BY DEF WorldMoves, UpdatePreferences, alertVars
<1>6. \A p \in Tabs : p \in Actors
  BY DEF Actors
<1> QED
  BY <1>1, <1>4, <1>5, <1>6, MailingMarks, MailingBrowser, MailingUndone DEF AlertsNext

(* However scans overlap, fail and are killed, an email is sent at most    *)
(* once and only for a stored notification (notifications.py:498-545).     *)
THEOREM MailedAtMostOnce == AlertsSpec => []MailedOnce
<1>1. Mailing => MailedOnce
  BY DEF Mailing
<1> QED
  BY MailingInit, MailingNext, <1>1, PTL DEF AlertsSpec

-----------------------------------------------------------------------------
(* A dismissed insight is shown again by its owner, or by a refresh that   *)
(* saw it resolved (insights.py:479-545).                                  *)
Excused(f) ==
  \E p \in Actors : /\ doing'[p] # doing[p] /\ p \in DOMAIN seen
                    /\ \/ doing[p] = <<"setting", f, "active">>
                       \/ seen[p].insights[f] = "resolved"

LEMMA RefreshExcused ==
  ASSUME NEW p \in Actors, NEW f \in Fingerprints, Mailing, p \in DOMAIN seen, ~InsightClash(p),
         insights[f] = "dismissed", Refreshed(p)[f] = "active"
  PROVE  seen[p].insights[f] = "resolved"
<1>1. f \in Signals(seen[p].world) /\ seen[p].insights[f] \in {"none", "resolved"}
  BY DEF Refreshed
<1> QED
  BY <1>1 DEF InsightClash

LEMMA DismissedStep ==
  ASSUME Mailing, [AlertsNext]_alertVars, NEW f \in Fingerprints,
         insights[f] = "dismissed", insights'[f] = "active"
  PROVE  Excused(f)
<1>1. ASSUME NEW p \in Actors, CommitRefresh(p)
      PROVE  Excused(f)
  <2>1. /\ doing[p][1] = "refreshing" /\ Close(p, Idle)
        /\ insights' = IF InsightClash(p) THEN insights ELSE Refreshed(p)
    BY <1>1 DEF CommitRefresh
  <2>2. doing[p] \notin {Idle, <<"mailing">>}
    BY <2>1 DEF Idle
  <2>3. p \in DOMAIN seen /\ doing'[p] # doing[p]
    BY <2>1, <2>2, BusyClose DEF Mailing, Busy
  <2>4. ~InsightClash(p) /\ Refreshed(p)[f] = "active"
    BY <2>1
  <2> QED
    BY <2>3, <2>4, RefreshExcused DEF Excused
<1>2. ASSUME NEW p \in Actors, CommitSetting(p)
      PROVE  Excused(f)
  <2>1. doing[p][1] = "setting" /\ Close(p, Idle)
    BY <1>2 DEF CommitSetting
  <2>2. doing[p] \notin {Idle, <<"mailing">>}
    BY <2>1 DEF Idle
  <2>3. p \in DOMAIN seen /\ doing'[p] # doing[p]
    BY <2>1, <2>2, BusyClose DEF Mailing, Busy
  <2>4. PICK g \in Fingerprints, s \in {"active", "dismissed"} : doing[p] = <<"setting", g, s>>
    BY <2>1 DEF Mailing, Busy, Doings, Idle
  <2>5. insights' = [insights EXCEPT ![g] = s] \/ insights' = insights
    BY <1>2, <2>4 DEF CommitSetting
  <2>6. g = f /\ s = "active"
    BY <2>5 DEF Mailing, Letters
  <2> QED
    BY <2>3, <2>4, <2>6 DEF Excused
<1>3. ASSUME NEW p \in Jobs, CommitScan(p)
      PROVE  Excused(f)
  <2>1. /\ doing[p][1] = "scanning" /\ ~Clash(p) /\ p \in Actors
        /\ Close(p, IF seen[p].settings.email THEN <<"mailing">> ELSE Idle)
        /\ insights' = IF Scans(p) THEN Refreshed(p) ELSE insights
    BY <1>3 DEF CommitScan, Actors
  <2>2. doing[p] \notin {Idle, <<"mailing">>}
    BY <2>1 DEF Idle
  <2>3. p \in DOMAIN seen /\ doing'[p] # doing[p]
    BY <2>1, <2>2, BusyClose DEF Mailing, Busy
  <2>4. ~InsightClash(p) /\ Refreshed(p)[f] = "active"
    BY <2>1 DEF Clash
  <2> QED
    BY <2>1, <2>3, <2>4, RefreshExcused DEF Excused
<1>4. \/ \E p \in Tabs : CommitRefresh(p) \/ CommitSetting(p)
      \/ \E p \in Jobs : CommitScan(p)
      \/ UNCHANGED insights
  BY DEF AlertsNext, alertVars, WorldMoves, UpdatePreferences, MarkAllRead, MarkNotification, BrowserStep,
         Scan, OpenRefresh, OpenSetting, OpenScan, Open, ScanFails, CommitMail, Deliver, Undone
<1>5. Tabs \subseteq Actors
  BY DEF Actors
<1> QED
  BY <1>1, <1>2, <1>3, <1>4, <1>5

THEOREM DismissalHolds == AlertsSpec => DismissedStays
<1>1. Mailing /\ [AlertsNext]_alertVars =>
        [\A f \in Fingerprints :
           insights[f] = "dismissed" /\ insights'[f] = "active" => Excused(f)]_alertVars
  BY DismissedStep
<1>2. AlertsSpec =>
        [][\A f \in Fingerprints :
             insights[f] = "dismissed" /\ insights'[f] = "active" => Excused(f)]_alertVars
  BY MailingInit, MailingNext, <1>1, PTL DEF AlertsSpec
<1> QED
  BY <1>2 DEF DismissedStays, Excused

-----------------------------------------------------------------------------
(* Codes and challenges (SecondFactor).                                    *)

Row(t, n) ==
  /\ t = [there |-> t.there, secret |-> t.secret, enabled |-> t.enabled, last |-> t.last, codes |-> t.codes]
  /\ t.secret \in 0..n /\ t.last \in Nat
  /\ t.codes \subseteq {x \in Codes : x[1] = "recovery" /\ x[2] <= n}
  /\ t.enabled => t.there
  /\ t.there => n > 0

Reply(a, n) ==
  /\ a = [challenge |-> a.challenge, code |-> a.code, row |-> a.row]
  /\ a.code \in Codes \cup {Wrong} /\ Row(a.row, n)

FactorType ==
  /\ setups \in 0..MaxSetups /\ Row(totp, setups)
  /\ opened \in [Codes -> Nat]
  /\ \A q \in DOMAIN answer : Reply(answer[q], setups)

(* One challenge is valid at a time, and one request at a time holds it.   *)
OneAnswer ==
  /\ logins \in 0..MaxLogins /\ DOMAIN challenges \subseteq {logins} \cap (1..MaxLogins)
  /\ \A q \in DOMAIN answer : answer[q].challenge \in DOMAIN challenges
  /\ \A q, r \in DOMAIN answer : q = r

(* A code that opened a session was handed out; while an authenticator     *)
(* waits for its confirmation the next set of recovery codes is untouched. *)
HandedOut == \A x \in Codes : opened[x] > 0 => x[2] <= setups
Untouched ==
  totp.there /\ ~totp.enabled =>
    /\ \A x \in Codes : x[1] = "recovery" /\ opened[x] > 0 => x[2] < setups
    /\ \A x \in totp.codes : x[2] < setups
    /\ \A q \in DOMAIN answer : \A x \in answer[q].row.codes : x[2] < setups

(* A counter on its way is one of the present secret, or was given up.  A  *)
(* counter that opened a session is not above the last one used.           *)
CountersKnown ==
  \A q \in DOMAIN answer :
    IsCounter(answer[q]) /\ answer[q].code \notin revived /\ totp.there =>
      answer[q].code[2] = totp.secret
CountersUsed ==
  \A x \in Codes \ revived :
    x[1] = "counter" /\ opened[x] > 0 /\ totp.there /\ totp.secret = x[2] =>
      totp.enabled /\ x[3] <= totp.last

(* A recovery code that opened a session is in no list that can come back. *)
RecoveryUsed ==
  \A x \in Codes : x[1] = "recovery" /\ opened[x] > 0 =>
    /\ x \notin totp.codes
    /\ \A q \in DOMAIN answer : x \notin answer[q].row.codes

Opened ==
  /\ HandedOut /\ Untouched /\ CountersKnown /\ CountersUsed /\ RecoveryUsed /\ CodesOpenOnce

FactorHeld == FactorType /\ OneAnswer /\ Opened

LEMMA CodeShape ==
  ASSUME NEW x \in Codes
  PROVE  /\ x = <<x[1], x[2], x[3]>> /\ x[2] \in 1..MaxSetups
         /\ \/ x[1] = "counter" /\ x[3] \in 1..MaxCounter
            \/ x[1] = "recovery" /\ x[3] \in Recovery
  BY DEF Codes, Counter, RecoveryCode

LEMMA FactorHeldInit == FactorInit => FactorHeld
<1> SUFFICES ASSUME FactorInit PROVE FactorHeld
  OBVIOUS
<1>1. /\ totp = [there |-> FALSE, secret |-> 0, enabled |-> FALSE, last |-> 0, codes |-> {}]
      /\ setups = 0 /\ logins = 0 /\ DOMAIN challenges = {} /\ DOMAIN answer = {}
      /\ opened \in [Codes -> Nat] /\ \A x \in Codes : opened[x] = 0
  BY DEF FactorInit, NoTotp
<1>2. FactorType
  BY <1>1, FactorAssumption DEF FactorAssumption, FactorType, Row
<1>3. OneAnswer
  BY <1>1, FactorAssumption DEF FactorAssumption, OneAnswer
<1>4. Opened
  BY <1>1 DEF Opened, HandedOut, Untouched, CountersKnown, CountersUsed, RecoveryUsed, CodesOpenOnce
<1> QED
  BY <1>2, <1>3, <1>4 DEF FactorHeld

-----------------------------------------------------------------------------
(* Steps that leave the authenticator and what was opened alone and add at *)
(* most an answer that has just read the row.                              *)
LEMMA HeldAnswers ==
  ASSUME FactorHeld, OneAnswer', UNCHANGED <<totp, setups, opened, revived>>,
         \A q \in DOMAIN answer' :
           \/ q \in DOMAIN answer /\ answer'[q] = answer[q]
           \/ Reply(answer'[q], setups) /\ answer'[q].row = totp
  PROVE  FactorHeld'
<1>1. FactorType'
  BY DEF FactorHeld, FactorType
<1>2. HandedOut' /\ CountersUsed' /\ CodesOpenOnce'
  BY DEF FactorHeld, Opened, HandedOut, CountersUsed, CodesOpenOnce
<1>3. Untouched'
  BY DEF FactorHeld, Opened, Untouched
<1>4. CountersKnown'
  BY DEF FactorHeld, Opened, CountersKnown, IsCounter
<1>5. RecoveryUsed'
  BY DEF FactorHeld, Opened, RecoveryUsed
<1> QED
  BY <1>1, <1>2, <1>3, <1>4, <1>5 DEF FactorHeld, Opened

LEMMA HeldPassword == FactorHeld /\ PasswordAccepted => FactorHeld'
<1> SUFFICES ASSUME FactorHeld, PasswordAccepted PROVE FactorHeld'
  OBVIOUS
<1>1. DOMAIN answer = {}
  BY DEF FactorHeld, OneAnswer, PasswordAccepted, Locked
<1>2. OneAnswer'
  <2>1. /\ logins' = logins + 1 /\ logins < MaxLogins /\ answer' = answer
        /\ DOMAIN challenges' = {logins + 1}
    BY DEF PasswordAccepted
  <2>2. logins \in 0..MaxLogins
    BY DEF FactorHeld, OneAnswer
  <2> QED
    BY <1>1, <2>1, <2>2, FactorAssumption DEF FactorAssumption, OneAnswer
<1> QED
  BY <1>2, HeldAnswers DEF PasswordAccepted

LEMMA HeldExpires ==
  ASSUME NEW c \in 1..MaxLogins, FactorHeld, ChallengeExpires(c)
  PROVE  FactorHeld'
<1>1. OneAnswer'
  BY DEF FactorHeld, OneAnswer, ChallengeExpires
<1> QED
  BY <1>1, HeldAnswers DEF ChallengeExpires

LEMMA HeldRead ==
  ASSUME NEW q \in Requests, NEW c \in 1..MaxLogins, NEW code \in Codes \cup {Wrong},
         FactorHeld, ReadChallenge(q, c, code)
  PROVE  FactorHeld'
<1>1. /\ q \notin DOMAIN answer /\ c \notin Locked /\ c \in DOMAIN challenges
      /\ answer' = [r \in DOMAIN answer \cup {q} |->
                      IF r = q THEN [challenge |-> c, code |-> code, row |-> totp] ELSE answer[r]]
      /\ UNCHANGED <<totp, setups, challenges, logins, opened, tried, revived>>
  BY DEF ReadChallenge, Acceptable
<1>2. DOMAIN answer = {}
  BY <1>1 DEF FactorHeld, OneAnswer, Locked
<1>3. DOMAIN answer' = {q} /\ answer'[q] = [challenge |-> c, code |-> code, row |-> totp]
  BY <1>1, <1>2
<1>4. OneAnswer'
  BY <1>1, <1>3 DEF FactorHeld, OneAnswer
<1>5. Reply(answer'[q], setups)
  BY <1>3 DEF Reply, FactorHeld, FactorType
<1> QED
  BY <1>1, <1>3, <1>4, <1>5, HeldAnswers

LEMMA HeldRefused ==
  ASSUME NEW q \in Requests, FactorHeld, CodeRefused(q) \/ AnswerUndone(q)
  PROVE  FactorHeld'
<1>1. /\ q \in DOMAIN answer /\ answer' = [r \in DOMAIN answer \ {q} |-> answer[r]]
      /\ DOMAIN challenges' = DOMAIN challenges
      /\ UNCHANGED <<totp, setups, logins, opened, revived>>
  BY DEF CodeRefused, AnswerUndone, Answered
<1>2. OneAnswer'
  BY <1>1 DEF FactorHeld, OneAnswer
<1> QED
  BY <1>1, <1>2, HeldAnswers

-----------------------------------------------------------------------------
(* A code is accepted: there is no other answer on its way.                *)
LEMMA HeldCounter ==
  ASSUME NEW q \in Requests, FactorHeld, CodeAccepted(q), CounterTaken(answer[q])
  PROVE  FactorHeld'
<1> DEFINE x == answer[q].code
<1>1. /\ q \in DOMAIN answer /\ opened' = [opened EXCEPT ![x] = @ + 1]
      /\ totp' = [totp EXCEPT !.last = x[3]]
      /\ answer' = [r \in DOMAIN answer \ {q} |-> answer[r]]
      /\ DOMAIN challenges' = DOMAIN challenges
      /\ UNCHANGED <<setups, logins, tried, revived>>
  BY DEF CodeAccepted, Used, Answered
<1>2. DOMAIN answer' = {}
  BY <1>1 DEF FactorHeld, OneAnswer
<1>3. /\ x \in Codes /\ x[1] = "counter" /\ x[2] <= setups /\ x[3] \in Nat /\ totp.last < x[3]
      /\ totp.enabled /\ totp.there
  <2>1. IsCounter(answer[q]) /\ totp.enabled /\ totp.last < x[3]
    BY DEF CounterTaken
  <2>2. x[1] = "counter" /\ x \in Codes \cup {Wrong} /\ x[2] \in 0..setups
    BY <1>1, <2>1 DEF IsCounter, FactorHeld, FactorType, Reply, Row
  <2>3. x \in Codes
    BY <2>2 DEF Wrong
  <2> QED
    BY <2>1, <2>2, <2>3, CodeShape, FactorAssumption DEF FactorHeld, FactorType, Row, FactorAssumption
<1>4. /\ Row(totp', setups) /\ totp'.there = totp.there /\ totp'.enabled = totp.enabled
      /\ totp'.secret = totp.secret /\ totp'.codes = totp.codes /\ totp'.last = x[3]
  <2>1. totp' = [there |-> totp.there, secret |-> totp.secret, enabled |-> totp.enabled,
                 last |-> x[3], codes |-> totp.codes]
    BY <1>1 DEF FactorHeld, FactorType, Row
  <2> QED
    BY <1>3, <2>1 DEF FactorHeld, FactorType, Row
<1>5. opened \in [Codes -> Nat] /\ opened' \in [Codes -> Nat]
  BY <1>1, <1>3 DEF FactorHeld, FactorType
<1>6. x \notin revived => opened[x] = 0
  <2>1. x \notin revived => x[2] = totp.secret
    BY <1>1, <1>3 DEF FactorHeld, Opened, CountersKnown, CounterTaken
  <2> QED
    BY <1>3, <1>5, <2>1 DEF FactorHeld, Opened, CountersUsed, FactorType, Row
<1>7. FactorType' /\ OneAnswer'
  BY <1>1, <1>2, <1>4, <1>5 DEF FactorHeld, FactorType, OneAnswer
<1>8. HandedOut' /\ CodesOpenOnce'
  BY <1>1, <1>3, <1>5, <1>6 DEF FactorHeld, Opened, HandedOut, CodesOpenOnce
<1>9. Untouched' /\ CountersKnown'
  BY <1>2, <1>3, <1>4 DEF Untouched, CountersKnown
<1>10. CountersUsed'
  <2>1. ASSUME NEW y \in Codes \ revived, y[1] = "counter", opened'[y] > 0, totp.secret = y[2]
        PROVE  y[3] <= x[3]
    <3>1. CASE y = x
      BY <3>1, <1>3
    <3>2. CASE y # x
      <4>1. opened[y] > 0
        BY <3>2, <2>1, <1>1, <1>5
      <4>2. y[3] <= totp.last /\ y[3] \in Nat
        BY <4>1, <2>1, <1>3, CodeShape, FactorAssumption
        DEF FactorHeld, Opened, CountersUsed, FactorAssumption
      <4> QED
        BY <4>2, <1>3 DEF FactorHeld, FactorType, Row
    <3> QED
      BY <3>1, <3>2
  <2> QED
    BY <1>1, <1>3, <1>4, <2>1 DEF CountersUsed
<1>11. RecoveryUsed'
  BY <1>1, <1>2, <1>3, <1>4, <1>5 DEF FactorHeld, Opened, RecoveryUsed
<1> QED
  BY <1>7, <1>8, <1>9, <1>10, <1>11 DEF FactorHeld, Opened

LEMMA HeldRecovery ==
  ASSUME NEW q \in Requests, FactorHeld, CodeAccepted(q), ~CounterTaken(answer[q])
  PROVE  FactorHeld'
<1> DEFINE x == answer[q].code
           left == answer[q].row.codes
<1>1. /\ q \in DOMAIN answer /\ x \in left /\ opened' = [opened EXCEPT ![x] = @ + 1]
      /\ totp' = [totp EXCEPT !.codes = left \ {x}]
      /\ answer' = [r \in DOMAIN answer \ {q} |-> answer[r]]
      /\ DOMAIN challenges' = DOMAIN challenges
      /\ UNCHANGED <<setups, logins, tried, revived>>
  BY DEF CodeAccepted, Used, Answered, Verified, RecoveryTaken
<1>2. DOMAIN answer' = {}
  BY <1>1 DEF FactorHeld, OneAnswer
<1>3. left \subseteq {y \in Codes : y[1] = "recovery" /\ y[2] <= setups}
  BY <1>1 DEF FactorHeld, FactorType, Reply, Row
<1>4. /\ Row(totp', setups) /\ totp'.there = totp.there /\ totp'.enabled = totp.enabled
      /\ totp'.secret = totp.secret /\ totp'.codes = left \ {x} /\ totp'.last = totp.last
  <2>1. totp' = [there |-> totp.there, secret |-> totp.secret, enabled |-> totp.enabled,
                 last |-> totp.last, codes |-> left \ {x}]
    BY <1>1 DEF FactorHeld, FactorType, Row
  <2> QED
    BY <1>3, <2>1 DEF FactorHeld, FactorType, Row
<1>5. /\ opened \in [Codes -> Nat] /\ opened' \in [Codes -> Nat]
      /\ x \in Codes /\ x[1] = "recovery" /\ x[2] <= setups
  BY <1>1, <1>3 DEF FactorHeld, FactorType
<1>6. opened[x] = 0
  BY <1>1, <1>5 DEF FactorHeld, Opened, RecoveryUsed
<1>7. FactorType' /\ OneAnswer'
  BY <1>1, <1>2, <1>4, <1>5 DEF FactorHeld, FactorType, OneAnswer
<1>8. HandedOut' /\ CodesOpenOnce'
  BY <1>1, <1>5, <1>6 DEF FactorHeld, Opened, HandedOut, CodesOpenOnce
<1>9. Untouched' /\ CountersKnown'
  BY <1>1, <1>2, <1>4, <1>5 DEF FactorHeld, Opened, Untouched, CountersKnown
<1>10. CountersUsed'
  BY <1>1, <1>4, <1>5 DEF FactorHeld, Opened, CountersUsed
<1>11. RecoveryUsed'
  BY <1>1, <1>2, <1>4, <1>5 DEF FactorHeld, Opened, RecoveryUsed
<1> QED
  BY <1>7, <1>8, <1>9, <1>10, <1>11 DEF FactorHeld, Opened

-----------------------------------------------------------------------------
LEMMA HeldSetup == FactorHeld /\ BeginSetup => FactorHeld'
<1> SUFFICES ASSUME FactorHeld, BeginSetup PROVE FactorHeld'
  OBVIOUS
<1>1. /\ setups \in Nat /\ setups < MaxSetups /\ setups' = setups + 1
      /\ totp' = [there |-> TRUE, secret |-> setups + 1, enabled |-> FALSE, last |-> 0, codes |-> {}]
      /\ revived' = revived \cup {answer[q].code : q \in {r \in DOMAIN answer : IsCounter(answer[r])}}
      /\ UNCHANGED <<challenges, logins, answer, opened, tried>>
  BY FactorAssumption DEF FactorAssumption, FactorHeld, FactorType, BeginSetup
<1>2. \A x \in Codes : x[2] \in Nat
  BY CodeShape, FactorAssumption DEF FactorAssumption
<1>3. FactorType'
  <2>1. ASSUME NEW t, Row(t, setups) PROVE Row(t, setups + 1)
    BY <1>1, <1>2, <2>1 DEF Row
  <2>2. Row(totp', setups + 1)
    BY <1>1 DEF Row
  <2>3. \A q \in DOMAIN answer : Reply(answer[q], setups + 1)
    BY <2>1 DEF Reply, FactorHeld, FactorType
  <2> QED
    BY <1>1, <2>2, <2>3, FactorAssumption DEF FactorAssumption, FactorHeld, FactorType
<1>4. OneAnswer' /\ CodesOpenOnce'
  BY <1>1 DEF FactorHeld, OneAnswer, Opened, CodesOpenOnce
<1>5. HandedOut'
  BY <1>1, <1>2 DEF FactorHeld, Opened, HandedOut
<1>6. Untouched'
  <2>1. \A x \in Codes : x[2] <= setups => x[2] < setups'
    BY <1>1, <1>2
  <2>2. \A q \in DOMAIN answer : \A x \in answer[q].row.codes : x \in Codes /\ x[2] <= setups
    BY DEF FactorHeld, FactorType, Reply, Row
  <2>3. \A x \in Codes : opened[x] > 0 => x[2] <= setups
    BY DEF FactorHeld, Opened, HandedOut
  <2> QED
    BY <1>1, <2>1, <2>2, <2>3 DEF Untouched
<1>7. CountersKnown'
  BY <1>1 DEF CountersKnown, IsCounter
<1>8. CountersUsed'
  BY <1>1, <1>2 DEF FactorHeld, Opened, HandedOut, CountersUsed
<1>9. RecoveryUsed'
  BY <1>1 DEF FactorHeld, Opened, RecoveryUsed
<1> QED
  BY <1>3, <1>4, <1>5, <1>6, <1>7, <1>8, <1>9 DEF FactorHeld, Opened

LEMMA HeldConfirm ==
  ASSUME NEW n \in 1..MaxCounter, FactorHeld, Confirm(n)
  PROVE  FactorHeld'
<1> DEFINE fresh == {RecoveryCode(setups', r) : r \in Recovery}
<1>1. /\ totp.there /\ setups \in 0..MaxSetups /\ setups' \in 0..MaxSetups
      /\ setups' = IF totp.enabled THEN setups + 1 ELSE setups
      /\ totp' = [totp EXCEPT !.enabled = TRUE, !.last = n, !.codes = fresh]
      /\ revived' = revived \cup {Counter(totp.secret, m) : m \in (n + 1)..totp.last}
      /\ UNCHANGED <<challenges, logins, answer, opened, tried>>
  BY FactorAssumption DEF FactorAssumption, FactorHeld, FactorType, Confirm
<1>2. \A x \in Codes : x[2] \in Nat
  BY CodeShape, FactorAssumption DEF FactorAssumption
<1>3. totp' = [there |-> totp.there, secret |-> totp.secret, enabled |-> TRUE, last |-> n, codes |-> fresh]
  BY <1>1 DEF FactorHeld, FactorType, Row
<1>4. totp.secret \in 0..setups /\ totp.last \in Nat /\ n \in Nat
  BY FactorAssumption DEF FactorAssumption, FactorHeld, FactorType, Row
<1>5. FactorType'
  <2>1. ASSUME NEW t, Row(t, setups) PROVE Row(t, setups')
    BY <1>1, <1>2, <2>1 DEF Row
  <2>2. fresh \subseteq {x \in Codes : x[1] = "recovery" /\ x[2] <= setups'}
    <3> SUFFICES ASSUME NEW r \in Recovery
                 PROVE  RecoveryCode(setups', r) \in {x \in Codes : x[1] = "recovery" /\ x[2] <= setups'}
      OBVIOUS
    <3>1. setups' \in 1..MaxSetups
      BY <1>1 DEF FactorHeld, FactorType, Row
    <3> QED
      BY <3>1, <1>1 DEF Codes, RecoveryCode
  <2>3. Row(totp', setups')
    <3>1. /\ totp'.there /\ totp'.secret = totp.secret /\ totp'.last = n /\ totp'.codes = fresh
          /\ totp' = [there |-> totp'.there, secret |-> totp'.secret, enabled |-> totp'.enabled,
                      last |-> totp'.last, codes |-> totp'.codes]
      BY <1>1, <1>3
    <3>2. setups' > 0 /\ totp.secret \in 0..setups'
      BY <1>1, <1>4 DEF FactorHeld, FactorType, Row
    <3> HIDE DEF fresh
    <3> QED
      BY <1>4, <2>2, <3>1, <3>2 DEF Row
  <2>4. \A q \in DOMAIN answer : Reply(answer[q], setups')
    BY <2>1 DEF Reply, FactorHeld, FactorType
  <2> QED
    BY <1>1, <2>3, <2>4 DEF FactorHeld, FactorType
<1>6. OneAnswer' /\ CodesOpenOnce'
  BY <1>1 DEF FactorHeld, OneAnswer, Opened, CodesOpenOnce
<1>7. HandedOut'
  BY <1>1, <1>2 DEF FactorHeld, Opened, HandedOut
<1>8. Untouched'
  BY <1>3 DEF Untouched
<1>9. CountersKnown'
  BY <1>1, <1>3 DEF FactorHeld, Opened, CountersKnown
<1>10. CountersUsed'
  <2> SUFFICES ASSUME NEW x \in Codes \ revived', x[1] = "counter", opened[x] > 0, totp.secret = x[2]
               PROVE  x[3] <= n
    BY <1>1, <1>3 DEF CountersUsed
  <2>1. x[3] \in Nat /\ x = Counter(totp.secret, x[3])
    BY CodeShape, FactorAssumption DEF FactorAssumption, Counter
  <2>2. x[3] <= totp.last
    BY <1>1 DEF FactorHeld, Opened, CountersUsed
  <2>3. x[3] \notin (n + 1)..totp.last
    BY <1>1, <2>1
  <2> QED
    BY <1>4, <2>1, <2>2, <2>3
<1>11. RecoveryUsed'
  <2> SUFFICES ASSUME NEW x \in Codes, x[1] = "recovery", opened[x] > 0, x[2] = setups'
               PROVE  FALSE
    <3>1. \A x \in fresh : x[2] = setups'
      BY DEF RecoveryCode
    <3>2. totp'.codes = fresh
      BY <1>3
    <3> HIDE DEF fresh
    <3> QED
      BY <1>1, <3>1, <3>2 DEF FactorHeld, Opened, RecoveryUsed
  <2> QED
    BY <1>1, <1>2 DEF FactorHeld, Opened, HandedOut, Untouched
<1> QED
  BY <1>5, <1>6, <1>7, <1>8, <1>9, <1>10, <1>11 DEF FactorHeld, Opened

LEMMA HeldDisable ==
  ASSUME NEW code \in Codes, FactorHeld, Disable(code)
  PROVE  FactorHeld'
<1>1. /\ totp' = [there |-> FALSE, secret |-> 0, enabled |-> FALSE, last |-> 0, codes |-> {}]
      /\ UNCHANGED <<setups, challenges, logins, answer, opened, tried, revived>>
  BY DEF Disable, NoTotp
<1>2. FactorType' /\ OneAnswer'
  BY <1>1 DEF FactorHeld, FactorType, OneAnswer, Row
<1>3. Opened'
  BY <1>1 DEF FactorHeld, Opened, HandedOut, Untouched, CountersKnown, CountersUsed, RecoveryUsed, CodesOpenOnce
<1> QED
  BY <1>2, <1>3 DEF FactorHeld

LEMMA FactorHeldNext == FactorHeld /\ [FactorNext]_factorVars => FactorHeld'
<1> SUFFICES ASSUME FactorHeld, [FactorNext]_factorVars PROVE FactorHeld'
  OBVIOUS
<1>1. CASE UNCHANGED factorVars
  <2>1. FactorType' /\ OneAnswer'
    BY <1>1 DEF factorVars, FactorHeld, FactorType, OneAnswer
  <2>2. Opened'
    BY <1>1 DEF factorVars, FactorHeld, Opened, HandedOut, Untouched, CountersKnown, CountersUsed,
                RecoveryUsed, CodesOpenOnce, IsCounter
  <2> QED
    BY <2>1, <2>2 DEF FactorHeld
<1>2. ASSUME NEW q \in Requests, CodeAccepted(q)
      PROVE  FactorHeld'
  BY <1>2, HeldCounter, HeldRecovery
<1> QED
  BY <1>1, <1>2, HeldPassword, HeldSetup, HeldExpires, HeldRead, HeldRefused, HeldConfirm, HeldDisable
  DEF FactorNext

(* However answers, setups and removals overlap, a code opens at most one  *)
(* session, but for counters made usable again (identity.py:551-660).      *)
THEOREM CodesAlwaysOpenOnce == FactorSpec => []CodesOpenOnce
<1>1. FactorHeld => CodesOpenOnce
  BY DEF FactorHeld, Opened
<1> QED
  BY FactorHeldInit, FactorHeldNext, <1>1, PTL DEF FactorSpec

-----------------------------------------------------------------------------
(* Wrong answers are counted by the challenge, whose row the answer holds. *)
Counted ==
  /\ tried \in [1..MaxLogins -> Nat]
  /\ \A c \in 1..MaxLogins : tried[c] <= Attempts /\ (c > logins => tried[c] = 0)
  /\ \A c \in DOMAIN challenges :
       "attempts" \in DOMAIN challenges[c] /\ challenges[c].attempts = tried[c]
  /\ \A q \in DOMAIN answer : tried[answer[q].challenge] < Attempts

LEMMA CountedInit == FactorInit => Counted
  BY FactorAssumption DEF FactorAssumption, FactorInit, Counted

LEMMA CountedRefused ==
  ASSUME NEW q \in Requests, Counted, OneAnswer, CodeRefused(q)
  PROVE  Counted'
<1> DEFINE c == answer[q].challenge
<1>1. /\ q \in DOMAIN answer /\ c \in DOMAIN challenges /\ c \in 1..MaxLogins /\ c <= logins
      /\ logins \in Nat
      /\ challenges' = [challenges EXCEPT ![c] = CountAttempt(c)]
      /\ tried' = [tried EXCEPT ![c] = @ + 1] /\ UNCHANGED logins
      /\ answer' = [r \in DOMAIN answer \ {q} |-> answer[r]]
  BY FactorAssumption DEF FactorAssumption, OneAnswer, CodeRefused, Answered
<1>2. DOMAIN answer' = {}
  BY <1>1 DEF OneAnswer
<1>3. tried[c] \in Nat /\ tried[c] < Attempts /\ challenges[c].attempts = tried[c]
  BY <1>1 DEF Counted
<1>4. tried' \in [1..MaxLogins -> Nat] /\ tried'[c] = tried[c] + 1
      /\ \A d \in (1..MaxLogins) \ {c} : tried'[d] = tried[d]
  BY <1>1, <1>3 DEF Counted
<1>5. \A d \in 1..MaxLogins : tried'[d] <= Attempts /\ (d > logins' => tried'[d] = 0)
  BY <1>1, <1>3, <1>4, FactorAssumption DEF Counted, FactorAssumption
<1>6. ASSUME NEW d \in DOMAIN challenges'
      PROVE  "attempts" \in DOMAIN challenges'[d] /\ challenges'[d].attempts = tried'[d]
  <2>1. d = c
    BY <1>1 DEF OneAnswer
  <2>2. challenges'[d] = [attempts |-> tried[c] + 1, open |-> tried[c] + 1 < Attempts]
    BY <1>1, <1>3, <2>1 DEF CountAttempt
  <2> QED
    BY <1>4, <2>1, <2>2
<1> QED
  BY <1>2, <1>4, <1>5, <1>6 DEF Counted

LEMMA CountedOthers ==
  ASSUME Counted, OneAnswer, [FactorNext]_factorVars, \A q \in Requests : ~CodeRefused(q)
  PROVE  Counted'
<1>1. CASE UNCHANGED <<tried, challenges, logins, answer>>
  BY <1>1 DEF Counted
<1>2. CASE PasswordAccepted
  <2>1. DOMAIN answer = {}
    BY <1>2 DEF OneAnswer, PasswordAccepted, Locked
  <2>2. /\ logins \in Nat /\ logins < MaxLogins /\ logins' = logins + 1 /\ UNCHANGED <<tried, answer>>
        /\ challenges' = [c \in {logins + 1} |-> [attempts |-> 0, open |-> TRUE]]
    BY <1>2, FactorAssumption DEF FactorAssumption, OneAnswer, PasswordAccepted
  <2>3. tried[logins + 1] = 0
    BY <2>2, FactorAssumption DEF FactorAssumption, Counted
  <2> QED
    BY <2>1, <2>2, <2>3, FactorAssumption DEF FactorAssumption, Counted
<1>3. ASSUME NEW c \in 1..MaxLogins, ChallengeExpires(c)
      PROVE  Counted'
  <2>1. /\ c \in DOMAIN challenges /\ challenges' = [challenges EXCEPT ![c].open = FALSE]
        /\ UNCHANGED <<tried, logins, answer>>
    BY <1>3 DEF ChallengeExpires
  <2> QED
    BY <2>1 DEF Counted
<1>4. ASSUME NEW q \in Requests, NEW c \in 1..MaxLogins, NEW code \in Codes \cup {Wrong},
             ReadChallenge(q, c, code)
      PROVE  Counted'
  <2>1. /\ c \in DOMAIN challenges /\ challenges[c].attempts < Attempts
        /\ answer' = [r \in DOMAIN answer \cup {q} |->
                        IF r = q THEN [challenge |-> c, code |-> code, row |-> totp] ELSE answer[r]]
        /\ UNCHANGED <<challenges, logins, tried>>
    BY <1>4 DEF ReadChallenge, Acceptable
  <2>2. tried[c] < Attempts
    BY <2>1 DEF Counted
  <2> QED
    BY <2>1, <2>2 DEF Counted
<1>5. ASSUME NEW q \in Requests, CodeAccepted(q) \/ AnswerUndone(q)
      PROVE  Counted'
  <2>1. /\ answer' = [r \in DOMAIN answer \ {q} |-> answer[r]] /\ UNCHANGED <<tried, logins>>
        /\ DOMAIN challenges' = DOMAIN challenges
        /\ \/ challenges' = challenges
           \/ challenges' = [challenges EXCEPT ![answer[q].challenge].open = FALSE]
    BY <1>5 DEF CodeAccepted, AnswerUndone, Answered
  <2> QED
    BY <2>1 DEF Counted
<1>6. \/ PasswordAccepted \/ \E q \in Requests : CodeAccepted(q) \/ AnswerUndone(q)
      \/ \E c \in 1..MaxLogins : ChallengeExpires(c)
      \/ \E q \in Requests, c \in 1..MaxLogins, code \in Codes \cup {Wrong} : ReadChallenge(q, c, code)
      \/ UNCHANGED <<tried, challenges, logins, answer>>
  BY DEF FactorNext, factorVars, BeginSetup, Confirm, Disable
<1> QED
  BY <1>1, <1>2, <1>3, <1>4, <1>5, <1>6

(* A challenge takes at most the allowed number of wrong codes, counted    *)
(* across requests that overlap and fail (identity.py:692-725).            *)
THEOREM AttemptsAlwaysFew == FactorSpec => []AttemptsAreFew
<1>1. FactorInit => FactorHeld /\ Counted
  BY FactorHeldInit, CountedInit
<1>2. FactorHeld /\ Counted /\ [FactorNext]_factorVars => (FactorHeld /\ Counted)'
  BY FactorHeldNext, CountedRefused, CountedOthers DEF FactorHeld
<1>3. Counted => AttemptsAreFew
  BY DEF Counted, AttemptsAreFew
<1> QED
  BY <1>1, <1>2, <1>3, PTL DEF FactorSpec

-----------------------------------------------------------------------------
(* Wrong passwords.  The counting windows of a key do not overlap.  While  *)
(* one is open, the stretch that ends now reaches into one earlier window  *)
(* at most, whose first guess is out of it already; and a window that was  *)
(* blocked is out of it altogether.                                        *)

Throttle == [failed : Nat, window : 0 .. Window, block : Nat, written : 0 .. Retention + 1]

Recent(g, w) == SumOf(g, 0 .. w)
Earlier(g, w) == SumOf(g, (w + 1) .. (Window - 1))

OpenWindow(row, g, limit) ==
  row.window < Window =>
    /\ g[row.window] >= 1
    /\ Recent(g, row.window) <= row.failed
    /\ Earlier(g, row.window) <= limit - 2
ClosedWindow(row, g) ==
  row.window = Window => g[0] = 0 /\ SumOf(g, Ages) <= row.failed - 1
Quiet(row, g, limit) ==
  /\ \A t \in Ages : t < row.written => g[t] = 0
  /\ row.failed = limit => /\ row.block + row.window >= Window
                           /\ \A t \in Ages : t < Block - row.block => g[t] = 0

Fits(row, g, limit) ==
  /\ row \in Throttle /\ row.failed \in 1 .. limit
  /\ OpenWindow(row, g, limit) /\ ClosedWindow(row, g) /\ Quiet(row, g, limit)

ThrottleInv ==
  /\ DOMAIN throttles \subseteq Keys /\ throttles = [k \in DOMAIN throttles |-> throttles[k]]
  /\ guesses \in [Keys -> [Ages -> Nat]]
  /\ \A k \in Keys :
       IF k \in DOMAIN throttles THEN Fits(throttles[k], guesses[k], Limit(k)) ELSE guesses[k] = NoGuess

LEMMA AgesAre ==
  /\ Ages \subseteq Nat /\ 0 \in Ages /\ IsFiniteSet(Ages) /\ Window \in Nat /\ Window >= 1
  /\ \A t \in Nat : t < Window => t \in Ages
  /\ \A t \in Ages : t \in Nat /\ t < Window
BY ThrottleAssumption, FS_Interval DEF ThrottleAssumption, Ages

LEMMA Stretch ==
  ASSUME NEW S \in SUBSET Ages, NEW g \in [Ages -> Nat]
  PROVE  IsFiniteSet(S) /\ (\A t \in S : g[t] \in Int) /\ SumOf(g, S) \in Nat
<1> DEFINE none == [t \in S |-> 0]
<1>1. IsFiniteSet(S) /\ \A t \in S : g[t] \in Nat
  BY AgesAre, FS_Subset
<1>2. \A t \in S : none[t] = 0 /\ none[t] \in Int /\ g[t] \in Int /\ none[t] <= g[t]
  BY <1>1
<1> HIDE DEF none
<1>3. SumOf(g, S) \in Int /\ SumOf(none, S) = 0 /\ SumOf(none, S) <= SumOf(g, S)
  BY <1>1, <1>2, TotalType, TotalZero, TotalAtMost
<1> QED
  BY <1>1, <1>3

LEMMA Split ==
  ASSUME NEW g \in [Ages -> Nat], NEW w \in Ages
  PROVE  /\ SumOf(g, Ages) = Recent(g, w) + Earlier(g, w)
         /\ SumOf(g, Ages) \in Nat /\ Recent(g, w) \in Nat /\ Earlier(g, w) \in Nat
<1> DEFINE S == 0 .. w
           R == (w + 1) .. (Window - 1)
<1>1. Ages = S \cup R /\ S \cap R = {} /\ S \in SUBSET Ages /\ R \in SUBSET Ages
  BY AgesAre DEF Ages
<1> HIDE DEF S, R
<1>2. /\ IsFiniteSet(S) /\ (\A t \in S : g[t] \in Int) /\ SumOf(g, S) \in Nat
      /\ IsFiniteSet(R) /\ (\A t \in R : g[t] \in Int) /\ SumOf(g, R) \in Nat
  BY <1>1, Stretch
<1>3. SumOf(g, S \cup R) = SumOf(g, S) + SumOf(g, R)
  BY <1>1, <1>2, TotalUnion
<1> QED
  BY <1>1, <1>2, <1>3 DEF Recent, Earlier, S, R

LEMMA AllZero ==
  ASSUME NEW g, \A t \in Ages : g[t] = 0
  PROVE  SumOf(g, Ages) = 0
BY AgesAre, TotalZero

(* One more wrong password is answered now. *)
LEMMA OneMore ==
  ASSUME NEW g \in [Ages -> Nat], NEW h \in [Ages -> Nat], NEW w \in Ages,
         h[0] = g[0] + 1, \A t \in Ages \ {0} : h[t] = g[t]
  PROVE  /\ Recent(h, w) = Recent(g, w) + 1
         /\ Earlier(h, w) = Earlier(g, w)
<1> DEFINE S == 0 .. w
           R == (w + 1) .. (Window - 1)
<1>1. S \in SUBSET Ages /\ R \in SUBSET Ages /\ 0 \in S /\ 0 \notin R
  BY AgesAre DEF Ages
<1>2. g[0] \in Nat /\ h[0] \in Int
  BY AgesAre
<1> HIDE DEF S, R
<1>3. IsFiniteSet(S) /\ (\A t \in S : g[t] \in Int) /\ SumOf(g, S) \in Nat /\ IsFiniteSet(R)
  BY <1>1, Stretch
<1>4. SumOf(h, S) = SumOf(g, S) - g[0] + h[0]
  <2>1. \A t \in S \ {0} : h[t] = g[t]
    BY <1>1, <1>2
  <2> QED
    BY <1>1, <1>2, <1>3, <2>1, TotalChanges
<1>5. SumOf(h, R) = SumOf(g, R)
  <2>1. \A t \in R : h[t] = g[t]
    BY <1>1, <1>2
  <2> QED
    BY <1>3, <2>1, TotalSame
<1> QED
  BY <1>2, <1>3, <1>4, <1>5 DEF Recent, Earlier, S, R

(* Everything is one unit older. *)
Aged(g) == [t \in Ages |-> IF t = 0 THEN 0 ELSE g[t - 1]]

LEMMA AgedIs ==
  ASSUME NEW g \in [Ages -> Nat]
  PROVE  /\ Aged(g) \in [Ages -> Nat] /\ Aged(g)[0] = 0
         /\ \A t \in Ages : t + 1 \in Ages => Aged(g)[t + 1] = g[t]
<1>1. \A t \in Ages : t # 0 => t - 1 \in Ages
  BY AgesAre
<1> QED
  BY <1>1, AgesAre DEF Aged

LEMMA AgedTotal ==
  ASSUME NEW g \in [Ages -> Nat], NEW a \in Nat, NEW b \in Int, b < Window - 1
  PROVE  SumOf(Aged(g), (a + 1) .. (b + 1)) = SumOf(g, a .. b)
<1> DEFINE S == a .. b
           move == [t \in S |-> t + 1]
           h == Aged(g)
<1>1. S \in SUBSET Ages /\ \A t \in S : t + 1 \in Ages
  BY AgesAre
<1>2. \A t \in S : h[move[t]] = g[t]
  BY <1>1, AgedIs
<1>3. {move[t] : t \in S} = (a + 1) .. (b + 1)
  <2>1. \A u \in (a + 1) .. (b + 1) : u - 1 \in S /\ u = move[u - 1]
    OBVIOUS
  <2>2. \A t \in S : move[t] \in (a + 1) .. (b + 1)
    OBVIOUS
  <2> QED
    BY <2>1, <2>2
<1>4. \A x, y \in S : move[x] = move[y] => x = y
  OBVIOUS
<1> HIDE DEF S, move, h
<1>5. IsFiniteSet(S) /\ \A t \in S : g[t] \in Int
  BY <1>1, Stretch
<1>6. SumOf(h, {move[t] : t \in S}) = SumOf(g, S)
  BY <1>2, <1>4, <1>5, TotalMoved
<1> QED
  BY <1>3, <1>6 DEF S, h

LEMMA AgedAll ==
  ASSUME NEW g \in [Ages -> Nat]
  PROVE  /\ SumOf(Aged(g), Ages) = SumOf(g, Ages) - g[Window - 1]
         /\ g[Window - 1] \in Nat
<1> DEFINE h == Aged(g)
           last == Window - 1
           later == Ages \ {0}
           younger == Ages \ {last}
<1>1. 0 \in Ages /\ last \in Ages /\ h \in [Ages -> Nat] /\ h[0] = 0
  BY AgesAre, AgedIs
<1>2. later \in SUBSET Ages /\ younger \in SUBSET Ages
  OBVIOUS
<1>3. SumOf(h, later) = SumOf(g, younger)
  <2> DEFINE A == 1 .. last
             B == 0 .. (Window - 2)
  <2>1. Window - 2 \in Int /\ Window - 2 < Window - 1 /\ (Window - 2) + 1 = last
    BY AgesAre
  <2>2. SumOf(h, (0 + 1) .. ((Window - 2) + 1)) = SumOf(g, 0 .. (Window - 2))
    BY <2>1, AgedTotal
  <2>3. SumOf(h, A) = SumOf(g, B)
    BY <2>1, <2>2
  <2>4. later = A /\ younger = B
    BY AgesAre DEF Ages
  <2> HIDE DEF A, B, h, later, younger
  <2> QED
    BY <2>3, <2>4
<1>4. IsFiniteSet(Ages) /\ (\A t \in Ages : g[t] \in Int) /\ (\A t \in Ages : h[t] \in Int)
  BY <1>1, AgesAre
<1> HIDE DEF h, last
<1>5. SumOf(g, Ages) = g[last] + SumOf(g, younger)
  BY <1>1, <1>4, TotalRemoves
<1>6. SumOf(h, Ages) = h[0] + SumOf(h, later)
  BY <1>1, <1>4, TotalRemoves
<1> HIDE DEF later, younger
<1>7. g[last] \in Nat /\ SumOf(g, younger) \in Nat
  BY <1>1, <1>2, Stretch
<1>8. SumOf(h, Ages) = SumOf(g, Ages) - g[last]
  BY <1>1, <1>3, <1>5, <1>6, <1>7
<1> QED
  BY <1>7, <1>8 DEF h, last

LEMMA AgedOpen ==
  ASSUME NEW g \in [Ages -> Nat], NEW w \in Ages, w + 1 \in Ages
  PROVE  /\ Recent(Aged(g), w + 1) = Recent(g, w)
         /\ Earlier(Aged(g), w + 1) <= Earlier(g, w)
<1> DEFINE h == Aged(g)
           last == Window - 1
           S == 0 .. (w + 1)
           later == S \ {0}
           R == (w + 1) .. last
           younger == R \ {last}
<1>1. h \in [Ages -> Nat] /\ h[0] = 0 /\ w \in Nat /\ w + 1 < Window /\ w < Window - 1
  BY AgedIs, AgesAre
<1>2. /\ S \in SUBSET Ages /\ 0 \in S /\ later \in SUBSET Ages
      /\ R \in SUBSET Ages /\ last \in R /\ last \in Ages /\ younger \in SUBSET Ages
  BY <1>1, AgesAre
<1>3. Recent(h, w + 1) = SumOf(h, S) /\ Earlier(g, w) = SumOf(g, R)
  BY DEF Recent, Earlier
<1>4. SumOf(h, later) = Recent(g, w)
  <2> DEFINE A == (0 + 1) .. (w + 1)
  <2>1. SumOf(h, A) = Recent(g, w)
    BY <1>1, AgedTotal DEF Recent
  <2>2. later = A
    BY <1>1
  <2> HIDE DEF A, h, later
  <2> QED
    BY <2>1, <2>2
<1>5. Earlier(h, w + 1) = SumOf(g, younger)
  <2> DEFINE A == ((w + 1) + 1) .. last
             C == ((w + 1) + 1) .. ((Window - 2) + 1)
             B == (w + 1) .. (Window - 2)
  <2>1. Window - 2 \in Int /\ Window - 2 < Window - 1 /\ (Window - 2) + 1 = last /\ w + 1 \in Nat
    BY <1>1, AgesAre
  <2>2. SumOf(h, C) = SumOf(g, B)
    BY <2>1, AgedTotal
  <2>3. younger = B /\ A = C
    BY <1>1, <2>1, AgesAre
  <2>4. Earlier(h, w + 1) = SumOf(h, A)
    BY DEF Earlier
  <2> HIDE DEF A, B, C, h, younger
  <2> QED
    BY <2>2, <2>3, <2>4
<1> HIDE DEF h, S, R, last
<1>6. SumOf(h, S) = h[0] + SumOf(h, later)
  <2>1. IsFiniteSet(S) /\ \A t \in S : h[t] \in Int
    BY <1>1, <1>2, Stretch
  <2> QED
    BY <1>2, <2>1, TotalRemoves
<1>7. SumOf(g, R) = g[last] + SumOf(g, younger)
  <2>1. IsFiniteSet(R) /\ \A t \in R : g[t] \in Int
    BY <1>2, Stretch
  <2> QED
    BY <1>2, <2>1, TotalRemoves
<1> HIDE DEF later, younger
<1>8. SumOf(h, later) \in Nat /\ g[last] \in Nat /\ SumOf(g, younger) \in Nat
  BY <1>1, <1>2, Stretch
<1>9. Recent(h, w + 1) = Recent(g, w)
  BY <1>1, <1>3, <1>4, <1>6, <1>8
<1>10. Earlier(h, w + 1) <= Earlier(g, w)
  BY <1>3, <1>5, <1>7, <1>8
<1> QED
  BY <1>9, <1>10 DEF h

LEMMA LimitIs == \A k \in Keys : Limit(k) \in Nat /\ Limit(k) >= 2
BY ThrottleAssumption DEF ThrottleAssumption, Limit, Keys

(* A row that may be guessed for is open below its limit, or has nothing   *)
(* left but fewer guesses than the limit less one.                         *)
LEMMA NotBlocked ==
  ASSUME NEW row, NEW g \in [Ages -> Nat], NEW limit \in Nat, limit >= 2, Fits(row, g, limit), ~(row.block > 0)
  PROVE  /\ row.window < Window => row.failed < limit /\ row.block = 0
         /\ row.window = Window => g[0] = 0 /\ SumOf(g, Ages) <= limit - 2
<1>1. /\ row.failed \in Nat /\ row.failed <= limit /\ row.block \in Nat /\ row.window \in Nat /\ row.window <= Window
      /\ row.block = 0
  BY ThrottleAssumption DEF Fits, Throttle, ThrottleAssumption
<1>2. CASE row.failed = limit
  <2>1. row.window >= Window /\ \A t \in Ages : t < Block => g[t] = 0
    BY <1>1, <1>2, AgesAre, ThrottleAssumption DEF Fits, Quiet, ThrottleAssumption
  <2>2. \A t \in Ages : g[t] = 0
    BY <2>1, AgesAre, ThrottleAssumption DEF ThrottleAssumption
  <2>3. SumOf(g, Ages) = 0 /\ g[0] = 0
    BY <2>2, AllZero, AgesAre
  <2> QED
    BY <1>1, <2>1, <2>3, AgesAre
<1>3. CASE row.failed # limit
  <2>1. row.window = Window => g[0] = 0 /\ SumOf(g, Ages) <= row.failed - 1
    BY DEF Fits, ClosedWindow
  <2>2. SumOf(g, Ages) \in Nat
    BY AgesAre, Split
  <2> QED
    BY <1>1, <1>3, <2>1, <2>2
<1> QED
  BY <1>2, <1>3

(* record_login_failure for a key that was not blocked. *)
LEMMA FailedFits ==
  ASSUME ThrottleInv, NEW k \in Keys, k \in DOMAIN throttles => ~(throttles[k].block > 0),
         NEW h \in [Ages -> Nat], h[0] = guesses[k][0] + 1, \A t \in Ages \ {0} : h[t] = guesses[k][t]
  PROVE  Fits(Failed(k), h, Limit(k))
<1> DEFINE g == guesses[k]
           limit == Limit(k)
           fresh == [failed |-> 0, window |-> 0, block |-> 0, written |-> 0]
           old == IF k \in DOMAIN throttles /\ throttles[k].window < Window THEN throttles[k] ELSE fresh
           new == Failed(k)
<1>1. g \in [Ages -> Nat] /\ limit \in Nat /\ limit >= 2
  BY LimitIs DEF ThrottleInv
<1>2. /\ old.window \in Ages /\ old.failed \in Nat /\ old.failed < limit /\ old.block = 0
      /\ Recent(g, old.window) <= old.failed \/ (old.window = 0 /\ g[0] = 0)
      /\ Earlier(g, old.window) <= limit - 2
      /\ old.window = 0 \/ g[old.window] >= 1
  <2>1. CASE k \in DOMAIN throttles /\ throttles[k].window < Window
    <3>1. Fits(old, g, limit) /\ old.window < Window /\ ~(old.block > 0)
      BY <2>1 DEF ThrottleInv
    <3>2. old.window \in Ages /\ old.failed \in Nat
      BY <3>1, AgesAre DEF Fits, Throttle
    <3> HIDE DEF g, limit, old
    <3>3. old.failed < limit /\ old.block = 0
      BY <1>1, <3>1, NotBlocked
    <3>4. OpenWindow(old, g, limit)
      BY <3>1 DEF Fits
    <3>5. g[old.window] >= 1 /\ Recent(g, old.window) <= old.failed /\ Earlier(g, old.window) <= limit - 2
      BY <3>1, <3>4 DEF OpenWindow
    <3> QED
      BY <3>2, <3>3, <3>5
  <2>2. CASE k \in DOMAIN throttles /\ ~(throttles[k].window < Window)
    <3> DEFINE row == throttles[k]
    <3>1. Fits(row, g, limit) /\ ~(row.block > 0) /\ old = fresh
      BY <2>2 DEF ThrottleInv
    <3>2. row.window = Window
      BY <2>2, <3>1, AgesAre DEF Fits, Throttle
    <3> HIDE DEF g, limit, row
    <3>3. g[0] = 0 /\ SumOf(g, Ages) <= limit - 2
      BY <1>1, <3>1, <3>2, NotBlocked
    <3>4. SumOf(g, Ages) = Recent(g, 0) + Earlier(g, 0) /\ Recent(g, 0) \in Nat /\ Earlier(g, 0) \in Nat
      BY <1>1, AgesAre, Split
    <3> QED
      BY <1>1, <3>1, <3>3, <3>4, AgesAre
  <2>3. CASE k \notin DOMAIN throttles
    <3>1. g = NoGuess /\ old = fresh
      BY <2>3 DEF ThrottleInv
    <3>2. \A t \in Ages : g[t] = 0
      BY <3>1 DEF NoGuess
    <3> HIDE DEF g, limit
    <3>3. SumOf(g, Ages) = 0 /\ g[0] = 0
      BY <3>2, AllZero, AgesAre
    <3>4. SumOf(g, Ages) = Recent(g, 0) + Earlier(g, 0) /\ Recent(g, 0) \in Nat /\ Earlier(g, 0) \in Nat
      BY <1>1, AgesAre, Split
    <3> QED
      BY <1>1, <3>1, <3>3, <3>4, AgesAre
  <2> QED
    BY <2>1, <2>2, <2>3
<1>3. /\ new.failed = old.failed + 1 /\ new.window = old.window /\ new.written = 0
      /\ new.block = IF old.failed + 1 >= limit THEN Block ELSE old.block
      /\ new = [failed |-> new.failed, window |-> new.window, written |-> new.written, block |-> new.block]
  BY DEF Failed
<1>4. h[0] = g[0] + 1 /\ \A t \in Ages \ {0} : h[t] = g[t]
  OBVIOUS
<1> HIDE DEF g, limit, old, new
<1>5. /\ Recent(h, old.window) = Recent(g, old.window) + 1
      /\ Earlier(h, old.window) = Earlier(g, old.window)
      /\ Recent(g, old.window) \in Nat /\ Recent(g, old.window) <= old.failed
  <2>1. /\ Recent(h, old.window) = Recent(g, old.window) + 1 /\ Earlier(h, old.window) = Earlier(g, old.window)
        /\ Recent(g, old.window) \in Nat
    BY <1>1, <1>2, <1>4, OneMore, Split
  <2>2. old.window = 0 /\ g[0] = 0 => Recent(g, old.window) = 0
    <3> SUFFICES ASSUME g[0] = 0 PROVE Recent(g, 0) = 0
      OBVIOUS
    <3> DEFINE S == 0 .. 0
    <3>1. IsFiniteSet(S)
      <4>1. S \in SUBSET Ages
        BY AgesAre
      <4> QED
        BY <4>1, AgesAre, FS_Subset
    <3>2. \A t \in S : g[t] = 0
      OBVIOUS
    <3> HIDE DEF S
    <3>3. SumOf(g, S) = 0
      BY <3>1, <3>2, TotalZero
    <3> QED
      BY <3>3 DEF Recent, S
  <2> QED
    BY <1>2, <2>1, <2>2
<1>6. /\ new \in Throttle /\ new.failed \in 1 .. limit
  BY <1>1, <1>2, <1>3, AgesAre, ThrottleAssumption DEF Throttle, ThrottleAssumption
<1>7. OpenWindow(new, h, limit)
  <2>1. g[0] \in Nat /\ h[0] = g[0] + 1
    BY <1>1, <1>4, AgesAre
  <2>2. old.window # 0 => h[old.window] = g[old.window]
    BY <1>2, <1>4
  <2>3. h[old.window] >= 1
    BY <1>2, <2>1, <2>2
  <2> QED
    BY <1>2, <1>3, <1>5, <2>3 DEF OpenWindow
<1>8. ClosedWindow(new, h)
  BY <1>2, <1>3, AgesAre DEF ClosedWindow
<1>9. Quiet(new, h, limit)
  <2>1. \A t \in Ages : ~(t < 0)
    BY AgesAre
  <2>2. new.failed = limit => new.block = Block
    BY <1>1, <1>2, <1>3
  <2>3. Block \in Nat /\ Block >= Window /\ Block - Block = 0
    BY ThrottleAssumption DEF ThrottleAssumption
  <2> QED
    BY <1>2, <1>3, <2>1, <2>2, <2>3, AgesAre DEF Quiet
<1> QED
  BY <1>6, <1>7, <1>8, <1>9 DEF Fits, limit, new

Later(row) ==
  [failed |-> row.failed, window |-> Least(row.window + 1, Window), block |-> Older(row.block),
   written |-> Least(row.written + 1, Retention + 1)]

(* Time passes for a row and its guesses. *)
LEMMA LaterFits ==
  ASSUME NEW row, NEW g \in [Ages -> Nat], NEW limit \in Nat, limit >= 2, Fits(row, g, limit)
  PROVE  Fits(Later(row), Aged(g), limit)
<1> DEFINE h == Aged(g)
           new == Later(row)
<1>1. /\ row.failed \in Nat /\ row.failed \in 1 .. limit /\ row.block \in Nat /\ row.window \in Nat
      /\ row.window <= Window /\ row.written \in Nat /\ row.written <= Retention + 1
  BY AgesAre, ThrottleAssumption DEF Fits, Throttle, ThrottleAssumption
<1>2. /\ new.failed = row.failed /\ new.window = Least(row.window + 1, Window) /\ new.block = Older(row.block)
      /\ new.written = Least(row.written + 1, Retention + 1)
  BY DEF Later
<1>3. new \in Throttle
  BY <1>1, AgesAre, ThrottleAssumption DEF Later, Throttle, Least, Older, ThrottleAssumption
<1>4. h \in [Ages -> Nat] /\ h[0] = 0 /\ \A t \in Ages : t + 1 \in Ages => h[t + 1] = g[t]
  BY AgedIs
<1>5. \A t \in Ages : t # 0 => t - 1 \in Ages /\ h[t] = g[t - 1]
  BY AgesAre DEF Aged
<1>6. SumOf(h, Ages) = SumOf(g, Ages) - g[Window - 1] /\ g[Window - 1] \in Nat /\ SumOf(g, Ages) \in Nat
  BY AgedAll, AgesAre, Split
<1> HIDE DEF h, new
<1>7. OpenWindow(new, h, limit)
  <2> SUFFICES ASSUME new.window < Window
               PROVE  /\ h[new.window] >= 1 /\ Recent(h, new.window) <= new.failed
                      /\ Earlier(h, new.window) <= limit - 2
    BY DEF OpenWindow
  <2>1. row.window + 1 < Window /\ new.window = row.window + 1
    BY <1>1, <1>2, AgesAre DEF Least
  <2>2. row.window \in Ages /\ row.window + 1 \in Ages /\ row.window < Window
    BY <1>1, <2>1, AgesAre
  <2>3. /\ g[row.window] >= 1 /\ Recent(g, row.window) <= row.failed
        /\ Earlier(g, row.window) <= limit - 2
    BY <2>2 DEF Fits, OpenWindow
  <2>4. Recent(h, row.window + 1) = Recent(g, row.window) /\ Earlier(h, row.window + 1) <= Earlier(g, row.window)
    BY <2>2, AgedOpen DEF h
  <2>5. Earlier(h, row.window + 1) \in Nat /\ Earlier(g, row.window) \in Nat
    BY <1>4, <2>2, Split
  <2> QED
    BY <1>2, <1>4, <2>1, <2>2, <2>3, <2>4, <2>5
<1>8. ClosedWindow(new, h)
  <2> SUFFICES ASSUME new.window = Window PROVE SumOf(h, Ages) <= row.failed - 1
    BY <1>2, <1>4 DEF ClosedWindow
  <2>1. CASE row.window = Window
    BY <1>1, <1>6, <2>1 DEF Fits, ClosedWindow
  <2>2. CASE row.window # Window
    <3>1. row.window = Window - 1 /\ row.window \in Ages /\ row.window < Window
      BY <1>1, <1>2, <2>2, AgesAre DEF Least
    <3>2. g[Window - 1] >= 1 /\ Recent(g, Window - 1) <= row.failed
      BY <3>1 DEF Fits, OpenWindow
    <3>3. Recent(g, Window - 1) = SumOf(g, Ages)
      BY DEF Recent, Ages
    <3> QED
      BY <1>1, <1>6, <3>2, <3>3
  <2> QED
    BY <2>1, <2>2
<1>9. Quiet(new, h, limit)
  <2>1. \A t \in Ages : t < new.written => h[t] = 0
    <3> SUFFICES ASSUME NEW t \in Ages, t < new.written, t # 0 PROVE h[t] = 0
      BY <1>4
    <3>1. t - 1 \in Ages /\ h[t] = g[t - 1] /\ t - 1 < row.written
      BY <1>1, <1>2, <1>5, AgesAre, ThrottleAssumption DEF Least, ThrottleAssumption
    <3> QED
      BY <3>1 DEF Fits, Quiet
  <2>2. ASSUME new.failed = limit PROVE new.block + new.window >= Window
    <3>1. row.block + row.window >= Window
      BY <1>2, <2>2 DEF Fits, Quiet
    <3> QED
      BY <1>1, <1>2, <3>1, AgesAre DEF Least, Older
  <2>3. ASSUME new.failed = limit, NEW t \in Ages, t < Block - new.block PROVE h[t] = 0
    <3>1. \A u \in Ages : u < Block - row.block => g[u] = 0
      BY <1>2, <2>3 DEF Fits, Quiet
    <3>2. CASE t = 0
      BY <1>4, <3>2
    <3>3. CASE t # 0
      <4>1. t - 1 \in Ages /\ h[t] = g[t - 1] /\ t \in Nat
        BY <1>5, <3>3, AgesAre
      <4>2. t - 1 < Block - row.block
        BY <1>1, <1>2, <2>3, <4>1, ThrottleAssumption DEF Older, ThrottleAssumption
      <4> QED
        BY <3>1, <4>1, <4>2
    <3> QED
      BY <3>2, <3>3
  <2> QED
    BY <2>1, <2>2, <2>3 DEF Quiet
<1> QED
  BY <1>1, <1>2, <1>3, <1>7, <1>8, <1>9 DEF Fits, h, new

(* Nothing but the keys that are guessed for changes in a login. *)
LEMMA WrongPasswordFits ==
  ASSUME ThrottleInv, NEW i \in Identities, NEW a \in Addresses, WrongPassword(i, a)
  PROVE  ThrottleInv'
<1>1. i \in Keys /\ a \in Keys
  BY DEF Keys
<1>2. \A k \in {i, a} : k \in DOMAIN throttles => ~(throttles[k].block > 0)
  BY DEF WrongPassword, Throttled
<1>3. /\ DOMAIN throttles' = DOMAIN throttles \cup {i, a}
      /\ throttles' = [k \in DOMAIN throttles' |-> throttles'[k]]
      /\ \A k \in {i, a} : throttles'[k] = Failed(k)
      /\ \A k \in DOMAIN throttles \ {i, a} : throttles'[k] = throttles[k]
  BY DEF WrongPassword
<1>4. /\ \A k \in Keys \ {i, a} : guesses'[k] = guesses[k]
      /\ \A k \in {i, a} : guesses'[k] = [guesses[k] EXCEPT ![0] = @ + 1]
      /\ guesses' = [k \in Keys |-> guesses'[k]]
  BY <1>1 DEF WrongPassword
<1>5. \A k \in {i, a} :
        /\ guesses'[k] \in [Ages -> Nat] /\ guesses'[k][0] = guesses[k][0] + 1
        /\ \A t \in Ages \ {0} : guesses'[k][t] = guesses[k][t]
  <2> SUFFICES ASSUME NEW k \in {i, a}
               PROVE  /\ guesses'[k] \in [Ages -> Nat] /\ guesses'[k][0] = guesses[k][0] + 1
                      /\ \A t \in Ages \ {0} : guesses'[k][t] = guesses[k][t]
    OBVIOUS
  <2> DEFINE g == guesses[k]
  <2>1. g \in [Ages -> Nat] /\ guesses'[k] = [g EXCEPT ![0] = @ + 1]
    BY <1>1, <1>4 DEF ThrottleInv
  <2> HIDE DEF g
  <2>2. /\ guesses'[k] \in [Ages -> Nat] /\ guesses'[k][0] = g[0] + 1
        /\ \A t \in Ages \ {0} : guesses'[k][t] = g[t]
    BY <2>1, AgesAre
  <2> QED
    BY <2>2 DEF g
<1>6. guesses' \in [Keys -> [Ages -> Nat]]
  BY <1>4, <1>5 DEF ThrottleInv
<1>7. \A k \in {i, a} : Fits(throttles'[k], guesses'[k], Limit(k))
  <2> SUFFICES ASSUME NEW k \in {i, a} PROVE Fits(throttles'[k], guesses'[k], Limit(k))
    OBVIOUS
  <2> DEFINE h == guesses'[k]
  <2>1. h \in [Ages -> Nat] /\ h[0] = guesses[k][0] + 1 /\ \A t \in Ages \ {0} : h[t] = guesses[k][t]
    BY <1>5
  <2>2. k \in Keys /\ (k \in DOMAIN throttles => ~(throttles[k].block > 0)) /\ throttles'[k] = Failed(k)
    BY <1>1, <1>2, <1>3
  <2> HIDE DEF h
  <2>3. Fits(Failed(k), h, Limit(k))
    BY <2>1, <2>2, FailedFits
  <2> QED
    BY <2>2, <2>3 DEF h
<1>8. \A k \in Keys : IF k \in DOMAIN throttles' THEN Fits(throttles'[k], guesses'[k], Limit(k)) ELSE guesses'[k] = NoGuess
  BY <1>1, <1>3, <1>4, <1>7 DEF ThrottleInv
<1> QED
  BY <1>1, <1>3, <1>6, <1>8 DEF ThrottleInv

LEMMA RightPasswordFits ==
  ASSUME ThrottleInv, NEW i \in Identities, NEW a \in Addresses, RightPassword(i, a)
  PROVE  ThrottleInv'
<1>1. i \in Keys /\ NoGuess \in [Ages -> Nat]
  BY DEF Keys, NoGuess
<1>2. /\ DOMAIN throttles' = DOMAIN throttles \ {i}
      /\ throttles' = [k \in DOMAIN throttles' |-> throttles'[k]]
      /\ \A k \in DOMAIN throttles' : throttles'[k] = throttles[k]
      /\ guesses' = [guesses EXCEPT ![i] = NoGuess]
  BY DEF RightPassword
<1>3. /\ guesses' \in [Keys -> [Ages -> Nat]] /\ guesses'[i] = NoGuess
      /\ \A k \in Keys \ {i} : guesses'[k] = guesses[k]
  BY <1>1, <1>2 DEF ThrottleInv
<1> QED
  BY <1>2, <1>3 DEF ThrottleInv

(* A row is forgotten only when none of its guesses is left. *)
LEMMA PruneFits ==
  ASSUME ThrottleInv, PruneThrottles
  PROVE  ThrottleInv'
<1> DEFINE old(k) == throttles[k].written > Retention /\ throttles[k].block = 0
<1>1. /\ DOMAIN throttles' = {k \in DOMAIN throttles : ~old(k)} /\ guesses' = guesses
      /\ throttles' = [k \in DOMAIN throttles' |-> throttles'[k]]
      /\ \A k \in DOMAIN throttles' : throttles'[k] = throttles[k]
  BY DEF PruneThrottles
<1>2. \A k \in DOMAIN throttles : old(k) => guesses[k] = NoGuess
  <2> SUFFICES ASSUME NEW k \in DOMAIN throttles, old(k) PROVE guesses[k] = NoGuess
    OBVIOUS
  <2>1. Fits(throttles[k], guesses[k], Limit(k)) /\ guesses[k] \in [Ages -> Nat]
    BY DEF ThrottleInv
  <2>2. \A t \in Ages : t < throttles[k].written => guesses[k][t] = 0
    BY <2>1 DEF Fits, Quiet
  <2>3. throttles[k].written \in Nat
    BY <2>1, ThrottleAssumption DEF Fits, Throttle, ThrottleAssumption
  <2>4. \A t \in Ages : guesses[k][t] = 0
    BY <2>2, <2>3, AgesAre, ThrottleAssumption DEF ThrottleAssumption
  <2> QED
    BY <2>1, <2>4 DEF NoGuess
<1> HIDE DEF old
<1> QED
  BY <1>1, <1>2 DEF ThrottleInv

LEMMA TimeFits ==
  ASSUME ThrottleInv, TimePasses
  PROVE  ThrottleInv'
<1>1. /\ DOMAIN throttles' = DOMAIN throttles
      /\ throttles' = [k \in DOMAIN throttles' |-> throttles'[k]]
      /\ \A k \in DOMAIN throttles : throttles'[k] = Later(throttles[k])
      /\ guesses' = [k \in Keys |-> Aged(guesses[k])]
  BY DEF TimePasses, Later, Aged
<1>2. guesses' \in [Keys -> [Ages -> Nat]]
  BY <1>1, AgedIs DEF ThrottleInv
<1>3. \A k \in DOMAIN throttles : Fits(throttles'[k], guesses'[k], Limit(k))
  BY <1>1, LaterFits, LimitIs DEF ThrottleInv
<1>4. Aged(NoGuess) = NoGuess
  BY AgesAre DEF Aged, NoGuess
<1> QED
  BY <1>1, <1>2, <1>3, <1>4 DEF ThrottleInv

LEMMA ThrottleInvariant == ThrottleInit /\ [][ThrottleNext]_throttleVars => []ThrottleInv
<1>1. ThrottleInit => ThrottleInv
  <2>1. NoGuess \in [Ages -> Nat]
    BY DEF NoGuess
  <2> QED
    BY <2>1 DEF ThrottleInit, ThrottleInv
<1>2. ThrottleInv /\ [ThrottleNext]_throttleVars => ThrottleInv'
  <2>1. ThrottleInv /\ UNCHANGED throttleVars => ThrottleInv'
    BY DEF ThrottleInv, throttleVars
  <2> QED
    BY <2>1, WrongPasswordFits, RightPasswordFits, PruneFits, TimeFits DEF ThrottleNext
<1> QED
  BY <1>1, <1>2, PTL

LEMMA FitsAreFew == ThrottleInv => GuessesAreFew
<1> SUFFICES ASSUME ThrottleInv, NEW k \in Keys PROVE SumOf(guesses[k], Ages) <= 2 * Limit(k) - 2
  BY DEF GuessesAreFew, SumOf
<1> DEFINE g == guesses[k]
           row == throttles[k]
           limit == Limit(k)
<1>1. g \in [Ages -> Nat] /\ limit \in Nat /\ limit >= 2
  BY LimitIs DEF ThrottleInv
<1>2. CASE k \in DOMAIN throttles
  <2>1. Fits(row, g, limit)
    BY <1>2 DEF ThrottleInv
  <2> HIDE DEF g, row, limit
  <2>2. row.failed \in Nat /\ row.failed <= limit /\ row.window \in Nat /\ row.window <= Window
    BY <1>1, <2>1, AgesAre DEF Fits, Throttle
  <2>3. CASE row.window < Window
    <3>1. row.window \in Ages
      BY <2>2, <2>3, AgesAre
    <3>2. SumOf(g, Ages) = Recent(g, row.window) + Earlier(g, row.window)
      BY <1>1, <3>1, Split
    <3>3. Recent(g, row.window) \in Nat /\ Earlier(g, row.window) \in Nat
      BY <1>1, <3>1, Split
    <3>4. Recent(g, row.window) <= row.failed /\ Earlier(g, row.window) <= limit - 2
      BY <2>1, <2>3 DEF Fits, OpenWindow
    <3>5. SumOf(g, Ages) <= 2 * limit - 2
      BY <1>1, <2>2, <3>2, <3>3, <3>4
    <3> QED
      BY <3>5 DEF g, limit
  <2>4. CASE row.window = Window
    <3>1. SumOf(g, Ages) <= row.failed - 1
      BY <2>1, <2>4 DEF Fits, ClosedWindow
    <3>2. SumOf(g, Ages) \in Nat
      BY <1>1, AgesAre, Split
    <3>3. SumOf(g, Ages) <= 2 * limit - 2
      BY <1>1, <2>2, <3>1, <3>2
    <3> QED
      BY <3>3 DEF g, limit
  <2> QED
    BY <2>2, <2>3, <2>4, AgesAre
<1>3. CASE k \notin DOMAIN throttles
  <2>1. \A t \in Ages : g[t] = 0
    BY <1>3 DEF ThrottleInv, NoGuess
  <2> HIDE DEF g
  <2>2. SumOf(g, Ages) = 0
    BY <2>1, AllZero
  <2> QED
    BY <1>1, <2>2 DEF g
<1> QED
  BY <1>2, <1>3

(* However logins, expiring windows, pruning, codes and challenges         *)
(* overlap: fewer than twice the limit of wrong passwords are answered for *)
(* an identity or a client in any stretch as long as a window, and no more *)
(* wrong codes than a challenge allows (auth.py:76-134,                    *)
(* identity.py:692-725).                                                   *)
THEOREM GuessesAlwaysBounded == SignInSpec => []GuessesAreBounded
<1>1. GuessesAreFew /\ AttemptsAreFew => GuessesAreBounded
  BY DEF GuessesAreBounded
<1> QED
  BY <1>1, ThrottleInvariant, FitsAreFew, AttemptsAlwaysFew, PTL DEF SignInSpec

-----------------------------------------------------------------------------
(* Bank connections (PlaidConnection).                                     *)

Environments == {"sandbox", "production"}
Requested(r) ==
  /\ r = [step |-> r.step, item |-> r.item, known |-> r.known]
  /\ r.step \in {"exchanged", "imported", "removed"} /\ r.item \in Items

PartialType ==
  /\ DOMAIN live \subseteq Items /\ live = [i \in DOMAIN live |-> live[i]]
  /\ DOMAIN rows \subseteq Items /\ rows = [i \in DOMAIN rows |-> rows[i]]
  /\ DOMAIN request \subseteq Browsers /\ request = [q \in DOMAIN request |-> request[q]]
  /\ \A q \in DOMAIN request : Requested(request[q])
  /\ accounts \in [Items -> SUBSET Accounts] /\ named \in [Items -> SUBSET Accounts]

(* Requests are about different items.  The item of an exchange is alive   *)
(* and has no row yet, that of a removal has its row and is gone.          *)
OneRequestEach ==
  \A q, r \in DOMAIN request : q # r => request[q].item # request[r].item
ExchangedIsLive ==
  \A q \in DOMAIN request : request[q].step # "removed" =>
    /\ request[q].item \in DOMAIN live \ DOMAIN rows
    /\ live[request[q].item] = environment
RemovedHasRow ==
  \A q \in DOMAIN request : request[q].step = "removed" =>
    /\ request[q].item \in DOMAIN rows \ DOMAIN live
    /\ rows[request[q].item] = environment

(* What Link named and the bank still shows is among the item's accounts.  *)
NamedIsShown == \A i \in DOMAIN rows : named[i] \subseteq accounts[i]

(* An exchange under way overlaps every other of its bank, and whatever    *)
(* row of an account it named was committed since it began is of such a    *)
(* one.                                                                    *)
ExchangesOverlap ==
  \A q \in DOMAIN request : request[q].step # "removed" =>
    LET i == request[q].item
    IN  /\ \A j \in Exchanging : j # i /\ Bank[j] = Bank[i] => {i, j} \subseteq overlapped
        /\ \A j \in DOMAIN rows :
             Bank[j] = Bank[i] /\ rows[j] = environment /\ named[i] \cap named[j] # {} => {i, j} \subseteq overlapped

ConnectionsHeld ==
  /\ PartialType /\ OneRequestEach /\ ExchangedIsLive /\ RemovedHasRow
  /\ NamedIsShown /\ ExchangesOverlap /\ ConnectionsAgree

LEMMA ConnectionsHeldInit == ConnectionInit => ConnectionsHeld
  BY DEF ConnectionInit, ConnectionsHeld, PartialType, OneRequestEach, ExchangedIsLive, RemovedHasRow,
         NamedIsShown, ExchangesOverlap, ConnectionsAgree, ConnectionsOwned, NamedOnceUnlessOverlapped, Exchanging

-----------------------------------------------------------------------------
LEMMA HeldExchange ==
  ASSUME NEW q \in Browsers, NEW i \in Items, NEW told \in SUBSET Accounts, ConnectionsHeld, Exchange(q, i, told)
  PROVE  ConnectionsHeld'
<1>1. /\ q \notin DOMAIN request /\ i \notin DOMAIN live \cup DOMAIN rows
      /\ ~Duplicate(i, told)
      /\ live' = [j \in DOMAIN live \cup {i} |-> IF j = i THEN environment ELSE live[j]]
      /\ request' = Begun(q, "exchanged", i)
      /\ UNCHANGED <<environment, rows, accounts, institutions, orphaned, stranded>>
  BY DEF Exchange
<1>2. overlapped' = overlapped \cup
       {j \in {i} \cup Exchanging : \E k \in Exchanging : Bank[k] = Bank[i] /\ Bank[j] = Bank[i]}
  BY DEF Exchange
<1>3. /\ DOMAIN request' = DOMAIN request \cup {q}
      /\ request'[q] = [step |-> "exchanged", item |-> i, known |-> Bank[i] \in institutions]
      /\ \A r \in DOMAIN request : request'[r] = request[r]
      /\ request' = [r \in DOMAIN request' |-> request'[r]]
  BY <1>1 DEF Begun
<1>4. \A r \in DOMAIN request : request[r].item # i
  BY <1>1 DEF ConnectionsHeld, ExchangedIsLive, RemovedHasRow
<1>n. /\ named' \in [Items -> SUBSET Accounts] /\ named'[i] = told
      /\ \A j \in Items \ {i} : named'[j] = named[j]
  BY DEF Exchange, ConnectionsHeld, PartialType
<1>r. \A j \in DOMAIN rows : j \in Items /\ j # i /\ named'[j] = named[j]
  BY <1>1, <1>n DEF ConnectionsHeld, PartialType
<1>5. Exchanging' = Exchanging \cup {i}
  BY <1>3 DEF Exchanging
<1>6. PartialType'
  BY <1>1, <1>3, <1>n DEF ConnectionsHeld, PartialType, Requested
<1>7. OneRequestEach'
  BY <1>3, <1>4 DEF ConnectionsHeld, OneRequestEach
<1>8. ExchangedIsLive' /\ RemovedHasRow'
  BY <1>1, <1>3, <1>4 DEF ConnectionsHeld, ExchangedIsLive, RemovedHasRow
<1>11. NamedIsShown'
  BY <1>1, <1>r DEF ConnectionsHeld, NamedIsShown
<1>9. ExchangesOverlap'
  <2>1. \A j \in DOMAIN rows : ~(Bank[j] = Bank[i] /\ rows[j] = environment /\ named'[i] \cap named'[j] # {})
    BY <1>1, <1>n, <1>r DEF Duplicate, ConnectionsHeld, NamedIsShown
  <2>2. \A j \in Exchanging : Bank[j] = Bank[i] => {i, j} \subseteq overlapped'
    BY <1>2
  <2>3. \A j, k \in Exchanging : j # k /\ Bank[j] = Bank[k] => {j, k} \subseteq overlapped'
    BY <1>2 DEF ConnectionsHeld, ExchangesOverlap, Exchanging
  <2>4. \A r \in DOMAIN request : request[r].step # "removed" => request[r].item \in Exchanging
    BY DEF Exchanging
  <2>5. \A r \in DOMAIN request : named'[request[r].item] = named[request[r].item]
    BY <1>4, <1>n DEF ConnectionsHeld, PartialType, Requested
  <2> QED
    BY <1>1, <1>2, <1>3, <1>5, <1>r, <2>1, <2>2, <2>3, <2>4, <2>5 DEF ConnectionsHeld, ExchangesOverlap
<1>10. ConnectionsAgree'
  BY <1>1, <1>2, <1>3, <1>4, <1>r
  DEF ConnectionsHeld, ConnectionsAgree, ConnectionsOwned, NamedOnceUnlessOverlapped
<1> QED
  BY <1>6, <1>7, <1>8, <1>9, <1>10, <1>11 DEF ConnectionsHeld

(* A request that ends is about an item no other request is about.         *)
LEMMA HeldClosed ==
  ASSUME NEW q \in DOMAIN request, request' = Closed(q), PartialType, OneRequestEach
  PROVE  /\ DOMAIN request' = DOMAIN request \ {q}
         /\ \A r \in DOMAIN request' : request'[r] = request[r]
         /\ \A r \in DOMAIN request' : request[r].item # request[q].item
         /\ request' = [r \in DOMAIN request' |-> request'[r]]
         /\ \A r \in DOMAIN request' : Requested(request'[r])
         /\ OneRequestEach'
         /\ Exchanging' \subseteq Exchanging \ {request[q].item}
<1>1. /\ DOMAIN request' = DOMAIN request \ {q}
      /\ \A r \in DOMAIN request' : request'[r] = request[r]
      /\ request' = [r \in DOMAIN request' |-> request'[r]]
  BY DEF Closed, Without
<1>2. /\ \A r \in DOMAIN request' : request[r].item # request[q].item
      /\ OneRequestEach'
  BY <1>1 DEF OneRequestEach
<1>3. \A r \in DOMAIN request' : Requested(request'[r])
  BY <1>1 DEF PartialType
<1>4. Exchanging' \subseteq Exchanging \ {request[q].item}
  BY <1>1, <1>2 DEF Exchanging
<1> QED
  BY <1>1, <1>2, <1>3, <1>4

LEMMA HeldImport ==
  ASSUME NEW q \in Browsers, ConnectionsHeld, Import(q)
  PROVE  ConnectionsHeld'
<1>1. /\ q \in DOMAIN request /\ request[q].step = "exchanged"
      /\ request' = [request EXCEPT ![q].step = "imported"]
      /\ UNCHANGED <<environment, live, institutions, rows, accounts, orphaned, stranded, overlapped, named>>
  BY DEF Import, At
<1>2. Requested(request[q])
  BY <1>1 DEF ConnectionsHeld, PartialType
<1>3. /\ DOMAIN request' = DOMAIN request /\ request' = [r \in DOMAIN request' |-> request'[r]]
      /\ request'[q].step = "imported" /\ request'[q].item = request[q].item
      /\ Requested(request'[q])
      /\ \A r \in DOMAIN request \ {q} : request'[r] = request[r]
  BY <1>1, <1>2 DEF Requested
<1>4. \A r \in DOMAIN request : /\ request'[r].item = request[r].item
                                /\ request'[r].step = "removed" <=> request[r].step = "removed"
  BY <1>1, <1>3
<1>5. Exchanging' = Exchanging
  BY <1>3, <1>4 DEF Exchanging
<1>6. PartialType'
  BY <1>1, <1>3 DEF ConnectionsHeld, PartialType
<1>7. OneRequestEach' /\ ExchangedIsLive' /\ RemovedHasRow'
  BY <1>1, <1>3, <1>4 DEF ConnectionsHeld, OneRequestEach, ExchangedIsLive, RemovedHasRow
<1>8. ExchangesOverlap'
  BY <1>1, <1>3, <1>4, <1>5 DEF ConnectionsHeld, ExchangesOverlap
<1>9. ConnectionsAgree'
  BY <1>1, <1>3, <1>4 DEF ConnectionsHeld, ConnectionsAgree, ConnectionsOwned, NamedOnceUnlessOverlapped
<1>10. NamedIsShown'
  BY <1>1 DEF ConnectionsHeld, NamedIsShown
<1> QED
  BY <1>6, <1>7, <1>8, <1>9, <1>10 DEF ConnectionsHeld

(* An exchange ends without a row: undone at the provider or left there.   *)
LEMMA HeldEnds ==
  ASSUME NEW q \in Browsers, ConnectionsHeld, q \in DOMAIN request, request[q].step # "removed",
         request' = Closed(q), UNCHANGED <<environment, rows, accounts, stranded, overlapped, named>>,
         \/ live' = Without(live, request[q].item) /\ orphaned' = orphaned
         \/ live' = live /\ orphaned' = orphaned \cup {request[q].item}
  PROVE  ConnectionsHeld'
<1> DEFINE i == request[q].item
<1>1. PartialType /\ OneRequestEach /\ i \in DOMAIN live \ DOMAIN rows
  BY DEF ConnectionsHeld, ExchangedIsLive
<1>2. /\ DOMAIN request' = DOMAIN request \ {q}
      /\ \A r \in DOMAIN request' : request'[r] = request[r] /\ request[r].item # i
      /\ OneRequestEach'
      /\ \A r \in DOMAIN request' : Requested(request'[r])
      /\ request' = [r \in DOMAIN request' |-> request'[r]]
      /\ Exchanging' \subseteq Exchanging \ {i}
  BY <1>1, HeldClosed DEF Closed, Without
<1>3. /\ DOMAIN live \ {i} \subseteq DOMAIN live' /\ DOMAIN live' \subseteq DOMAIN live
      /\ \A j \in DOMAIN live' : live'[j] = live[j]
      /\ live' = [j \in DOMAIN live' |-> live'[j]]
      /\ i \in DOMAIN live' => i \in orphaned'
      /\ orphaned \subseteq orphaned'
  BY <1>1 DEF Without, PartialType
<1>4. PartialType'
  BY <1>1, <1>2, <1>3 DEF PartialType
<1>5. ExchangedIsLive' /\ RemovedHasRow'
  BY <1>2, <1>3 DEF ConnectionsHeld, ExchangedIsLive, RemovedHasRow
<1>6. ExchangesOverlap'
  BY <1>2 DEF ConnectionsHeld, ExchangesOverlap
<1>7. ConnectionsAgree'
  BY <1>1, <1>2, <1>3 DEF ConnectionsHeld, ConnectionsAgree, ConnectionsOwned, NamedOnceUnlessOverlapped
<1>8. NamedIsShown'
  BY DEF ConnectionsHeld, NamedIsShown
<1> QED
  BY <1>2, <1>4, <1>5, <1>6, <1>7, <1>8 DEF ConnectionsHeld

(* What the bank shows now takes the place of what it showed.              *)
LEMMA HeldStored ==
  ASSUME PartialType, NEW i \in Items, NEW shown \in SUBSET Accounts, Stored(i, shown)
  PROVE  /\ accounts' \in [Items -> SUBSET Accounts] /\ named' \in [Items -> SUBSET Accounts]
         /\ named'[i] \subseteq accounts'[i]
         /\ \A j \in Items \ {i} : accounts'[j] = accounts[j] /\ named'[j] = named[j]
         /\ \A j \in Items : named'[j] \subseteq named[j]
  BY DEF PartialType, Stored

(* The new row is that of a live item, and the rows of its bank overlapped. *)
LEMMA HeldCommit ==
  ASSUME NEW q \in Browsers, NEW shown \in SUBSET Accounts, ConnectionsHeld, CommitExchange(q, shown)
  PROVE  ConnectionsHeld'
<1> DEFINE i == request[q].item
<1>1. /\ q \in DOMAIN request /\ request[q].step = "imported"
      /\ rows' = [j \in DOMAIN rows \cup {i} |-> IF j = i THEN environment ELSE rows[j]]
      /\ request' = Closed(q) /\ Stored(i, shown)
      /\ UNCHANGED <<environment, live, orphaned, stranded, overlapped>>
  BY DEF CommitExchange, At
<1>2. /\ PartialType /\ OneRequestEach /\ i \in DOMAIN live \ DOMAIN rows
      /\ live[i] = environment /\ i \in Items
  BY <1>1 DEF ConnectionsHeld, ExchangedIsLive, PartialType
<1>3. /\ DOMAIN request' = DOMAIN request \ {q}
      /\ \A r \in DOMAIN request' : request'[r] = request[r] /\ request[r].item # i
      /\ OneRequestEach'
      /\ \A r \in DOMAIN request' : Requested(request'[r])
      /\ request' = [r \in DOMAIN request' |-> request'[r]]
      /\ Exchanging' \subseteq Exchanging \ {i}
  BY <1>1, <1>2, HeldClosed DEF Closed, Without
<1>4. /\ DOMAIN rows' = DOMAIN rows \cup {i} /\ rows'[i] = environment
      /\ \A j \in DOMAIN rows : rows'[j] = rows[j]
      /\ rows' = [j \in DOMAIN rows' |-> rows'[j]]
  BY <1>1, <1>2
<1>n. /\ accounts' \in [Items -> SUBSET Accounts] /\ named' \in [Items -> SUBSET Accounts]
      /\ named'[i] \subseteq accounts'[i]
      /\ \A j \in Items \ {i} : accounts'[j] = accounts[j] /\ named'[j] = named[j]
      /\ \A j \in Items : named'[j] \subseteq named[j]
  BY <1>1, <1>2, HeldStored
<1>r. DOMAIN rows \subseteq Items /\ \A r \in DOMAIN request : request[r].item \in Items
  BY <1>2 DEF PartialType, Requested
<1>5. PartialType'
  BY <1>1, <1>2, <1>3, <1>4, <1>n DEF PartialType
<1>10. NamedIsShown'
  BY <1>2, <1>4, <1>n, <1>r DEF ConnectionsHeld, NamedIsShown
<1>6. ExchangedIsLive' /\ RemovedHasRow'
  BY <1>1, <1>3, <1>4 DEF ConnectionsHeld, ExchangedIsLive, RemovedHasRow
<1>7. ExchangesOverlap'
  <2>1. i \in Exchanging
    BY <1>1 DEF Exchanging
  <2>2. ASSUME NEW r \in DOMAIN request', request'[r].step # "removed", Bank[i] = Bank[request[r].item]
        PROVE  {request[r].item, i} \subseteq overlapped
    BY <1>3, <2>1, <2>2 DEF ConnectionsHeld, ExchangesOverlap
  <2> QED
    BY <1>1, <1>3, <1>4, <1>n, <1>r, <2>2 DEF ConnectionsHeld, ExchangesOverlap
<1>8. ConnectionsOwned'
  BY <1>1, <1>2, <1>3, <1>4 DEF ConnectionsHeld, ConnectionsAgree, ConnectionsOwned
<1>9. NamedOnceUnlessOverlapped'
  <2>1. \A j \in DOMAIN rows :
          Bank[j] = Bank[i] /\ rows[j] = environment /\ named[i] \cap named[j] # {} => {i, j} \subseteq overlapped
    BY <1>1 DEF ConnectionsHeld, ExchangesOverlap
  <2> QED
    BY <1>1, <1>2, <1>4, <1>n, <1>r, <2>1 DEF ConnectionsHeld, ConnectionsAgree, NamedOnceUnlessOverlapped
<1> QED
  BY <1>3, <1>5, <1>6, <1>7, <1>8, <1>9, <1>10 DEF ConnectionsHeld, ConnectionsAgree

(* Other accounts, or other names, of a connection that stays. *)
LEMMA HeldRefresh ==
  ASSUME NEW i \in Items, NEW shown \in SUBSET Accounts, ConnectionsHeld, Refresh(i, shown)
  PROVE  ConnectionsHeld'
<1>1. /\ Stored(i, shown) /\ PartialType
      /\ UNCHANGED <<environment, live, rows, institutions, request, orphaned, stranded, overlapped>>
  BY DEF Refresh, ConnectionsHeld
<1>2. /\ accounts' \in [Items -> SUBSET Accounts] /\ named' \in [Items -> SUBSET Accounts]
      /\ named'[i] \subseteq accounts'[i]
      /\ \A j \in Items \ {i} : accounts'[j] = accounts[j] /\ named'[j] = named[j]
      /\ \A j \in Items : named'[j] \subseteq named[j]
  BY <1>1, HeldStored
<1>3. DOMAIN rows \subseteq Items /\ \A r \in DOMAIN request : request[r].item \in Items
  BY <1>1 DEF PartialType, Requested
<1>4. PartialType'
  BY <1>1, <1>2 DEF PartialType
<1>5. OneRequestEach' /\ ExchangedIsLive' /\ RemovedHasRow' /\ ConnectionsOwned'
  BY <1>1 DEF ConnectionsHeld, OneRequestEach, ExchangedIsLive, RemovedHasRow, ConnectionsAgree, ConnectionsOwned
<1>6. NamedIsShown'
  BY <1>1, <1>2, <1>3 DEF ConnectionsHeld, NamedIsShown
<1>7. ExchangesOverlap'
  BY <1>1, <1>2, <1>3 DEF ConnectionsHeld, ExchangesOverlap, Exchanging
<1>8. NamedOnceUnlessOverlapped'
  BY <1>1, <1>2, <1>3 DEF ConnectionsHeld, ConnectionsAgree, NamedOnceUnlessOverlapped
<1> QED
  BY <1>4, <1>5, <1>6, <1>7, <1>8 DEF ConnectionsHeld, ConnectionsAgree

LEMMA HeldDisconnect ==
  ASSUME NEW q \in Browsers, NEW i \in Items, ConnectionsHeld, Disconnect(q, i)
  PROVE  ConnectionsHeld'
<1>1. /\ q \notin DOMAIN request /\ i \in DOMAIN rows /\ rows[i] = environment /\ i \in DOMAIN live
      /\ live' = Without(live, i) /\ request' = Begun(q, "removed", i)
      /\ UNCHANGED <<environment, rows, accounts, institutions, orphaned, stranded, overlapped, named>>
  BY DEF Disconnect
<1>2. /\ DOMAIN request' = DOMAIN request \cup {q}
      /\ request'[q] = [step |-> "removed", item |-> i, known |-> Bank[i] \in institutions]
      /\ \A r \in DOMAIN request : request'[r] = request[r]
      /\ request' = [r \in DOMAIN request' |-> request'[r]]
  BY <1>1 DEF Begun
<1>3. /\ DOMAIN live' = DOMAIN live \ {i} /\ \A j \in DOMAIN live' : live'[j] = live[j]
      /\ live' = [j \in DOMAIN live' |-> live'[j]]
  BY <1>1 DEF Without
<1>4. \A r \in DOMAIN request : request[r].item # i
  BY <1>1 DEF ConnectionsHeld, ExchangedIsLive, RemovedHasRow
<1>5. Exchanging' = Exchanging
  BY <1>2 DEF Exchanging
<1>6. PartialType'
  BY <1>1, <1>2, <1>3 DEF ConnectionsHeld, PartialType, Requested
<1>7. OneRequestEach'
  BY <1>2, <1>4 DEF ConnectionsHeld, OneRequestEach
<1>8. ExchangedIsLive' /\ RemovedHasRow'
  BY <1>1, <1>2, <1>3, <1>4 DEF ConnectionsHeld, ExchangedIsLive, RemovedHasRow
<1>9. ExchangesOverlap'
  BY <1>1, <1>2, <1>5 DEF ConnectionsHeld, ExchangesOverlap
<1>10. ConnectionsAgree'
  BY <1>1, <1>2, <1>3, <1>4 DEF ConnectionsHeld, ConnectionsAgree, ConnectionsOwned, NamedOnceUnlessOverlapped
<1>11. NamedIsShown'
  BY <1>1 DEF ConnectionsHeld, NamedIsShown
<1> QED
  BY <1>6, <1>7, <1>8, <1>9, <1>10, <1>11 DEF ConnectionsHeld

(* A removal ends with its row deleted, or with the row stranded.          *)
LEMMA HeldRemoved ==
  ASSUME NEW q \in Browsers, ConnectionsHeld, CommitDisconnect(q) \/ CommitDisconnectFails(q)
  PROVE  ConnectionsHeld'
<1> DEFINE i == request[q].item
<1>1. /\ q \in DOMAIN request /\ request[q].step = "removed" /\ request' = Closed(q)
      /\ UNCHANGED <<environment, live, orphaned, overlapped, named>>
  BY DEF CommitDisconnect, CommitDisconnectFails, At
<1>2. PartialType /\ OneRequestEach /\ i \in DOMAIN rows \ DOMAIN live
  BY <1>1 DEF ConnectionsHeld, RemovedHasRow
<1>3. /\ DOMAIN request' = DOMAIN request \ {q}
      /\ \A r \in DOMAIN request' : request'[r] = request[r] /\ request[r].item # i
      /\ OneRequestEach'
      /\ \A r \in DOMAIN request' : Requested(request'[r])
      /\ request' = [r \in DOMAIN request' |-> request'[r]]
      /\ Exchanging' \subseteq Exchanging \ {i}
  BY <1>1, <1>2, HeldClosed DEF Closed, Without
<1>4. /\ DOMAIN rows \ {i} \subseteq DOMAIN rows' /\ DOMAIN rows' \subseteq DOMAIN rows
      /\ \A j \in DOMAIN rows' : rows'[j] = rows[j]
      /\ rows' = [j \in DOMAIN rows' |-> rows'[j]]
      /\ i \in DOMAIN rows' => i \in stranded'
      /\ stranded \subseteq stranded'
  BY <1>2 DEF CommitDisconnect, CommitDisconnectFails, Deleted, Without, PartialType
<1>n. accounts' \in [Items -> SUBSET Accounts] /\ \A j \in DOMAIN rows' : accounts'[j] = accounts[j]
  <2>1. CASE CommitDisconnect(q)
    <3>1. accounts' = [accounts EXCEPT ![i] = {}] /\ DOMAIN rows' = DOMAIN rows \ {i}
      BY <2>1 DEF CommitDisconnect, Deleted, Without
    <3> QED
      BY <1>2, <3>1 DEF PartialType
  <2>2. CASE CommitDisconnectFails(q)
    BY <1>2, <2>2 DEF CommitDisconnectFails, PartialType
  <2> QED
    BY <1>1, <2>1, <2>2
<1>5. PartialType'
  BY <1>1, <1>2, <1>3, <1>4, <1>n DEF PartialType
<1>6. ExchangedIsLive' /\ RemovedHasRow'
  BY <1>1, <1>3, <1>4 DEF ConnectionsHeld, ExchangedIsLive, RemovedHasRow
<1>7. ExchangesOverlap'
  BY <1>1, <1>3, <1>4 DEF ConnectionsHeld, ExchangesOverlap
<1>8. ConnectionsAgree'
  BY <1>1, <1>2, <1>3, <1>4 DEF ConnectionsHeld, ConnectionsAgree, ConnectionsOwned, NamedOnceUnlessOverlapped
<1>9. NamedIsShown'
  BY <1>1, <1>4, <1>n DEF ConnectionsHeld, NamedIsShown
<1> QED
  BY <1>3, <1>5, <1>6, <1>7, <1>8, <1>9 DEF ConnectionsHeld

LEMMA HeldPromote == ConnectionsHeld /\ Promote => ConnectionsHeld'
<1> SUFFICES ASSUME ConnectionsHeld, Promote PROVE ConnectionsHeld'
  OBVIOUS
<1>1. /\ DOMAIN request = {} /\ environment' = "production"
      /\ UNCHANGED <<live, rows, accounts, institutions, request, orphaned, stranded, overlapped, named>>
  BY DEF Promote
<1>2. PartialType' /\ OneRequestEach' /\ ExchangedIsLive' /\ RemovedHasRow' /\ NamedIsShown' /\ ExchangesOverlap'
  BY <1>1 DEF ConnectionsHeld, PartialType, OneRequestEach, ExchangedIsLive, RemovedHasRow, NamedIsShown, ExchangesOverlap
<1>3. ConnectionsAgree'
  BY <1>1 DEF ConnectionsHeld, ConnectionsAgree, ConnectionsOwned, NamedOnceUnlessOverlapped, Promote
<1> QED
  BY <1>2, <1>3 DEF ConnectionsHeld

LEMMA HeldForget ==
  ASSUME NEW i \in Items, ConnectionsHeld, ForgetSandbox(i)
  PROVE  ConnectionsHeld'
<1>1. /\ i \in DOMAIN rows /\ rows[i] = "sandbox" /\ environment = "production"
      /\ rows' = Without(rows, i) /\ accounts' = [accounts EXCEPT ![i] = {}]
      /\ UNCHANGED <<environment, live, institutions, request, orphaned, stranded, overlapped, named>>
  BY DEF ForgetSandbox, Deleted
<1>2. /\ DOMAIN rows' = DOMAIN rows \ {i} /\ \A j \in DOMAIN rows' : rows'[j] = rows[j]
      /\ rows' = [j \in DOMAIN rows' |-> rows'[j]]
  BY <1>1 DEF Without
<1>6. accounts' \in [Items -> SUBSET Accounts] /\ \A j \in DOMAIN rows' : accounts'[j] = accounts[j]
  BY <1>1, <1>2 DEF ConnectionsHeld, PartialType
<1>7. NamedIsShown'
  BY <1>1, <1>2, <1>6 DEF ConnectionsHeld, NamedIsShown
<1>3. PartialType' /\ OneRequestEach' /\ ExchangedIsLive' /\ RemovedHasRow'
  BY <1>1, <1>2, <1>6 DEF ConnectionsHeld, PartialType, OneRequestEach, ExchangedIsLive, RemovedHasRow
<1>4. ExchangesOverlap'
  BY <1>1, <1>2 DEF ConnectionsHeld, ExchangesOverlap, Exchanging
<1>5. ConnectionsAgree'
  BY <1>1, <1>2 DEF ConnectionsHeld, ConnectionsAgree, ConnectionsOwned, NamedOnceUnlessOverlapped
<1> QED
  BY <1>3, <1>4, <1>5, <1>7 DEF ConnectionsHeld

-----------------------------------------------------------------------------
LEMMA ConnectionsHeldNext == ConnectionsHeld /\ [ConnectionNext]_connectionVars => ConnectionsHeld'
<1> SUFFICES ASSUME ConnectionsHeld, [ConnectionNext]_connectionVars PROVE ConnectionsHeld'
  OBVIOUS
<1>1. CASE UNCHANGED connectionVars
  BY <1>1 DEF connectionVars, ConnectionsHeld, PartialType, OneRequestEach, ExchangedIsLive,
              RemovedHasRow, NamedIsShown, ExchangesOverlap, ConnectionsAgree, ConnectionsOwned,
              NamedOnceUnlessOverlapped, Exchanging
<1>2. ASSUME NEW q \in Browsers, NEW removed \in BOOLEAN, ImportFails(q, removed)
      PROVE  ConnectionsHeld'
  <2>1. /\ q \in DOMAIN request /\ request[q].step = "exchanged" /\ request' = Closed(q)
        /\ UNCHANGED <<environment, rows, accounts, stranded, overlapped, named>>
    BY <1>2 DEF ImportFails, At
  <2>2. \/ live' = Without(live, request[q].item) /\ orphaned' = orphaned
        \/ live' = live /\ orphaned' = orphaned \cup {request[q].item}
    BY <1>2 DEF ImportFails
  <2> QED
    BY <2>1, <2>2, HeldEnds
<1>3. ASSUME NEW q \in Browsers, CommitExchangeFails(q)
      PROVE  ConnectionsHeld'
  <2>1. /\ q \in DOMAIN request /\ request[q].step = "imported" /\ request' = Closed(q)
        /\ UNCHANGED <<environment, rows, accounts, stranded, overlapped, named>>
        /\ live' = live /\ orphaned' = orphaned \cup {request[q].item}
    BY <1>3 DEF CommitExchangeFails, At
  <2> QED
    BY <2>1, HeldEnds
<1> QED
  BY <1>1, <1>2, <1>3, HeldPromote, HeldExchange, HeldDisconnect, HeldImport, HeldCommit,
     HeldRefresh, HeldRemoved, HeldForget DEF ConnectionNext

(* Whatever calls and commits fail, and however requests overlap, the      *)
(* provider keeps the items that have a row, and an account that Link      *)
(* names is connected once, but for the failures and overlaps that the     *)
(* property names (plaid.py:259-400, :450-508, :574-604).                  *)
THEOREM ConnectionsAlwaysAgree == ConnectionSpec => []ConnectionsAgree
<1>1. ConnectionsHeld => ConnectionsAgree
  BY DEF ConnectionsHeld
<1> QED
  BY ConnectionsHeldInit, ConnectionsHeldNext, <1>1, PTL DEF ConnectionSpec

-----------------------------------------------------------------------------
(* The heartbeat of the minute job.  As long as a run has counted no       *)
(* failure, the items it promised to synchronize and nobody has are still  *)
(* to be taken; none of them is gone, so skipping one that is gone breaks  *)
(* no promise.                                                             *)
RunsInv ==
  /\ item \in [Connected -> [status : {"active", "error", "gone"}, late : BOOLEAN]]
  /\ run \in [on : BOOLEAN, todo : SUBSET Connected, failed : BOOLEAN]
  /\ job \in [{SyncJob} -> [status : {"never", "running", "success", "failed"}, success : {0, NoTime}]]
  /\ unrecorded \in [{SyncJob} -> BOOLEAN]
  /\ promised \subseteq Connected
  /\ \A i \in promised : item[i].status # "gone"
  /\ ~run.on => run = NoRun
  /\ run.on => job[SyncJob].status = "running"
  /\ run.on /\ ~run.failed => promised \subseteq run.todo
  /\ HeartbeatIsTrue

LEMMA RunsInvInit == RunsInit => RunsInv
  BY DEF RunsInit, RunsInv, Job!JobInit, HeartbeatIsTrue, NoRun

LEMMA RunsInvBegins == RunsInv /\ RunBegins => RunsInv'
<1> SUFFICES ASSUME RunsInv, RunBegins PROVE RunsInv'
  OBVIOUS
<1> DEFINE due == {i \in Connected : Due(i)}
<1>1. /\ run' = [on |-> TRUE, todo |-> due, failed |-> FALSE] /\ promised' = due
      /\ job' = [job EXCEPT ![SyncJob].status = "running"]
      /\ unrecorded' = [unrecorded EXCEPT ![SyncJob] = FALSE]
      /\ UNCHANGED <<item, trouble, deaths>>
  BY DEF RunBegins, Job!RecordStarted
<1>2. due \subseteq Connected /\ \A i \in due : item[i].status # "gone"
  BY DEF Due
<1> HIDE DEF due
<1> QED
  BY <1>1, <1>2 DEF RunsInv, HeartbeatIsTrue

(* What a turn of the loop does to the run, and a change to an item.       *)
LEMMA TurnIs ==
  ASSUME RunsInv, NEW i \in Connected, NEW failed \in BOOLEAN, NextItem(i, failed)
  PROVE  /\ run' \in [on : BOOLEAN, todo : SUBSET Connected, failed : BOOLEAN]
         /\ run'.on = run.on /\ run'.todo = run.todo \ {i} /\ run'.failed = (run.failed \/ failed)
  BY Zenon DEF RunsInv, NextItem

LEMMA ItemIs ==
  ASSUME RunsInv, NEW i \in Connected, NEW s \in {"active", "error", "gone"}, NEW l \in BOOLEAN,
         item' = [item EXCEPT ![i] = [status |-> s, late |-> l]]
  PROVE  /\ item' \in [Connected -> [status : {"active", "error", "gone"}, late : BOOLEAN]]
         /\ item'[i].status = s /\ \A j \in Connected \ {i} : item'[j] = item[j]
  BY DEF RunsInv

LEMMA RecordIs ==
  ASSUME RunsInv, NEW i \in Connected
  PROVE  /\ item[i].late \in BOOLEAN /\ item[i].status \in {"active", "error", "gone"}
         /\ [item EXCEPT ![i].status = "error"] = [item EXCEPT ![i] = [status |-> "error", late |-> item[i].late]]
         /\ [item EXCEPT ![i].status = "gone"] = [item EXCEPT ![i] = [status |-> "gone", late |-> item[i].late]]
         /\ [item EXCEPT ![i].late = TRUE] = [item EXCEPT ![i] = [status |-> item[i].status, late |-> TRUE]]
<1> DEFINE r == item[i]
<1>1. r \in [status : {"active", "error", "gone"}, late : BOOLEAN]
  BY DEF RunsInv
<1>2. /\ [item EXCEPT ![i].status = "error"] = [item EXCEPT ![i] = [r EXCEPT !.status = "error"]]
      /\ [item EXCEPT ![i].status = "gone"] = [item EXCEPT ![i] = [r EXCEPT !.status = "gone"]]
      /\ [item EXCEPT ![i].late = TRUE] = [item EXCEPT ![i] = [r EXCEPT !.late = TRUE]]
  BY Zenon DEF r
<1> HIDE DEF r
<1>3. r.late \in BOOLEAN /\ r.status \in {"active", "error", "gone"} /\ r = [status |-> r.status, late |-> r.late]
  BY <1>1
<1>4. [r EXCEPT !.status = "error"] = [status |-> "error", late |-> r.late]
  BY <1>3
<1>5. [r EXCEPT !.status = "gone"] = [status |-> "gone", late |-> r.late]
  BY <1>3
<1>6. ASSUME NEW l PROVE [r EXCEPT !.late = l] = [status |-> r.status, late |-> l]
  BY <1>3
<1> QED
  BY <1>2, <1>3, <1>4, <1>5, <1>6, Zenon DEF r

LEMMA TakenIs ==
  ASSUME RunsInv, NEW i \in Connected, Taken(i)
  PROVE  run.on /\ i \in run.todo
<1>1. i \in run.todo
  BY DEF Taken
<1>2. ~run.on => run = NoRun
  BY DEF RunsInv
<1>3. NoRun.todo = {}
  BY DEF NoRun
<1>4. run # NoRun
  BY <1>1, <1>3, Zenon
<1> QED
  BY <1>1, <1>2, <1>4, Zenon

LEMMA RunsInvTurns ==
  ASSUME RunsInv, NEW i \in Connected, SyncSucceeds(i) \/ SyncFails(i) \/ SyncSkips(i)
  PROVE  RunsInv'
<1>1. run.on /\ i \in run.todo
  <2>1. Taken(i)
    <3>1. SyncSucceeds(i) => Taken(i)
      BY Zenon DEF SyncSucceeds
    <3>2. SyncFails(i) => Taken(i)
      BY Zenon DEF SyncFails
    <3>3. SyncSkips(i) => Taken(i)
      BY Zenon DEF SyncSkips
    <3> QED
      BY <3>1, <3>2, <3>3
  <2> QED
    BY <2>1, TakenIs, Zenon
<1>2. CASE SyncSucceeds(i)
  <2>1. NextItem(i, FALSE) /\ item' = [item EXCEPT ![i] = [status |-> "active", late |-> FALSE]]
    BY <1>2 DEF SyncSucceeds, Synced
  <2>2. /\ item' \in [Connected -> [status : {"active", "error", "gone"}, late : BOOLEAN]]
        /\ item'[i].status = "active" /\ \A j \in Connected \ {i} : item'[j] = item[j]
    BY <2>1, ItemIs
  <2>3. promised' = promised \ {i} /\ UNCHANGED <<job, unrecorded>>
    BY <1>2 DEF SyncSucceeds
  <2>4. /\ run' \in [on : BOOLEAN, todo : SUBSET Connected, failed : BOOLEAN]
        /\ run'.on = run.on /\ run'.todo = run.todo \ {i} /\ run'.failed = (run.failed \/ FALSE)
    BY <2>1, TurnIs, Zenon
  <2>5. run'.on
    BY <1>1, <2>4, Zenon
  <2>6. ~run'.failed => ~run.failed
    BY <2>4, Zenon
  <2>7. promised' \subseteq Connected /\ \A j \in promised' : item'[j].status # "gone"
    BY <2>2, <2>3 DEF RunsInv
  <2>8. ~run'.failed => promised' \subseteq run'.todo
    BY <1>1, <2>3, <2>4, <2>6 DEF RunsInv
  <2>9. job'[SyncJob].status = "running"
    BY <1>1, <2>3, Zenon DEF RunsInv
  <2> QED
    BY <2>2, <2>3, <2>4, <2>5, <2>7, <2>8, <2>9 DEF RunsInv, HeartbeatIsTrue
<1>3. CASE SyncFails(i)
  <2>1. NextItem(i, TRUE) /\ UNCHANGED <<job, unrecorded, promised>>
    BY <1>3 DEF SyncFails, CountFailure
  <2>2. /\ item' \in [Connected -> [status : {"active", "error", "gone"}, late : BOOLEAN]]
        /\ \A j \in Connected : item[j].status # "gone" => item'[j].status # "gone"
    <3>1. \/ item' = item
          \/ item' = [item EXCEPT ![i] = [status |-> "error", late |-> item[i].late]]
      BY <1>3, RecordIs, Zenon DEF SyncFails
    <3>4. CASE item' = [item EXCEPT ![i] = [status |-> "error", late |-> item[i].late]]
      <4>1. /\ item' \in [Connected -> [status : {"active", "error", "gone"}, late : BOOLEAN]]
            /\ item'[i].status = "error" /\ \A j \in Connected \ {i} : item'[j] = item[j]
        BY <3>4, RecordIs, ItemIs
      <4> QED
        BY <4>1
    <3>5. CASE item' = item
      BY <3>5 DEF RunsInv
    <3> QED
      BY <3>1, <3>4, <3>5
  <2>3. /\ run' \in [on : BOOLEAN, todo : SUBSET Connected, failed : BOOLEAN]
        /\ run'.on = run.on /\ run'.failed
    BY <2>1, TurnIs
  <2> QED
    BY <1>1, <2>1, <2>2, <2>3 DEF RunsInv, HeartbeatIsTrue
<1>4. CASE SyncSkips(i)
  BY <1>1, <1>4, TurnIs DEF RunsInv, SyncSkips, HeartbeatIsTrue
<1> QED
  BY <1>2, <1>3, <1>4

LEMMA RunsInvEnds ==
  ASSUME RunsInv, RunEnds \/ RunDies \/ \E i \in Connected : RunBreaks(i)
  PROVE  RunsInv'
<1>1. run.on /\ run' = NoRun /\ UNCHANGED <<item, promised>>
  <2>1. CASE \E i \in Connected : RunBreaks(i)
    <3>1. PICK i \in Connected : RunBreaks(i)
      BY <2>1
    <3>2. Taken(i)
      BY <3>1 DEF RunBreaks
    <3> QED
      BY <3>1, <3>2, TakenIs, Zenon DEF RunBreaks
  <2>2. CASE RunEnds
    BY <2>2, Zenon DEF RunEnds
  <2>3. CASE RunDies
    BY <2>3, Zenon DEF RunDies
  <2> QED
    BY <2>1, <2>2, <2>3
<1>2. CASE RunEnds
  <2>1. PICK succeeded \in BOOLEAN : (succeeded => ~run.failed) /\ Job!RecordFinished(SyncJob, succeeded)
    <3>1. PICK recorded \in BOOLEAN : Job!RecordFinished(SyncJob, recorded /\ ~run.failed)
      BY <1>2 DEF RunEnds
    <3> QED
      BY <3>1
  <2>2. job' = [job EXCEPT ![SyncJob] = [status  |-> IF succeeded THEN "success" ELSE "failed",
                                         success |-> IF succeeded THEN 0 ELSE job[SyncJob].success]]
        /\ UNCHANGED unrecorded
    BY <2>1 DEF Job!RecordFinished
  <2>3. run.todo = {}
    BY <1>2 DEF RunEnds
  <2>4. CASE ~succeeded
    BY <1>1, <2>2, <2>4 DEF RunsInv, NoRun, HeartbeatIsTrue
  <2>5. CASE succeeded
    BY <1>1, <2>1, <2>2, <2>3, <2>5 DEF RunsInv, NoRun, HeartbeatIsTrue
  <2> QED
    BY <2>4, <2>5
<1>3. CASE RunDies
  BY <1>1, <1>3 DEF RunsInv, RunDies, Job!EndUnrecorded, NoRun, HeartbeatIsTrue
<1>4. CASE \E i \in Connected : RunBreaks(i)
  BY <1>1, <1>4 DEF RunsInv, RunBreaks, Job!RecordFinished, NoRun, HeartbeatIsTrue
<1> QED
  BY <1>2, <1>3, <1>4

LEMMA RunsInvOthers ==
  ASSUME RunsInv, NEW i \in Connected, TabSyncs(i) \/ ItemChanges(i) \/ Disconnected(i) \/ TroubleChanges(i)
  PROVE  RunsInv'
<1>1. CASE TabSyncs(i)
  <2>1. item' = [item EXCEPT ![i] = [status |-> "active", late |-> FALSE]]
    BY <1>1 DEF TabSyncs, Synced
  <2>2. /\ item' \in [Connected -> [status : {"active", "error", "gone"}, late : BOOLEAN]]
        /\ item'[i].status = "active" /\ \A j \in Connected \ {i} : item'[j] = item[j]
    BY <2>1, ItemIs
  <2>3. promised' = promised \ {i} /\ UNCHANGED <<run, job, unrecorded>>
    BY <1>1 DEF TabSyncs
  <2> QED
    BY <2>2, <2>3 DEF RunsInv, HeartbeatIsTrue
<1>2. CASE ItemChanges(i)
  <2>1. PICK s \in {"active", "error", "gone"}, l \in BOOLEAN :
          item' = [item EXCEPT ![i] = [status |-> s, late |-> l]] /\ s # "gone"
    BY <1>2, RecordIs DEF ItemChanges
  <2>2. /\ item' \in [Connected -> [status : {"active", "error", "gone"}, late : BOOLEAN]]
        /\ item'[i].status = s /\ \A j \in Connected \ {i} : item'[j] = item[j]
    BY <2>1, ItemIs
  <2>3. UNCHANGED <<run, job, unrecorded, promised>>
    BY <1>2 DEF ItemChanges
  <2> QED
    BY <2>1, <2>2, <2>3 DEF RunsInv, HeartbeatIsTrue
<1>3. CASE Disconnected(i)
  <2>1. item' = [item EXCEPT ![i] = [status |-> "gone", late |-> item[i].late]]
    BY <1>3, RecordIs DEF Disconnected
  <2>2. /\ item' \in [Connected -> [status : {"active", "error", "gone"}, late : BOOLEAN]]
        /\ \A j \in Connected \ {i} : item'[j] = item[j]
    <3>1. item[i].late \in BOOLEAN
      BY RecordIs
    <3> QED
      BY <2>1, <3>1, ItemIs
  <2>3. promised' = promised \ {i} /\ UNCHANGED <<run, job, unrecorded>>
    BY <1>3 DEF Disconnected
  <2> QED
    BY <2>2, <2>3 DEF RunsInv, HeartbeatIsTrue
<1>4. CASE TroubleChanges(i)
  BY <1>4 DEF RunsInv, TroubleChanges, HeartbeatIsTrue
<1> QED
  BY <1>1, <1>2, <1>3, <1>4

(* The heartbeat says success only when nobody who was due is waiting, and *)
(* "running" only of a run, or of one that died (cli.py:685-710); whatever *)
(* the items meet, and whoever synchronizes or removes them meanwhile.     *)
THEOREM HeartbeatAlwaysTrue == RunsSpec => []HeartbeatIsTrue
<1>1. RunsInv /\ [RunsNext]_runVars => RunsInv'
  <2>1. ASSUME RunsInv, RunsNext PROVE RunsInv'
    <3>1. CASE RunBegins
      BY <2>1, <3>1, RunsInvBegins
    <3>2. CASE RunEnds \/ RunDies \/ \E i \in Connected : RunBreaks(i)
      BY <2>1, <3>2, RunsInvEnds
    <3>3. CASE \E i \in Connected : SyncSucceeds(i) \/ SyncFails(i) \/ SyncSkips(i)
      BY <2>1, <3>3, RunsInvTurns
    <3>4. CASE \E i \in Connected : TabSyncs(i) \/ ItemChanges(i) \/ Disconnected(i) \/ TroubleChanges(i)
      BY <2>1, <3>4, RunsInvOthers
    <3> QED
      BY <2>1, <3>1, <3>2, <3>3, <3>4 DEF RunsNext, RunStep
  <2>2. RunsInv /\ UNCHANGED runVars => RunsInv'
    BY DEF RunsInv, runVars, HeartbeatIsTrue
  <2> QED
    BY <2>1, <2>2
<1>2. RunsInv => HeartbeatIsTrue
  BY DEF RunsInv
<1> QED
  BY RunsInvInit, <1>1, <1>2, PTL DEF RunsSpec

-----------------------------------------------------------------------------
(* The server: whoever holds something is on the way to giving it back.    *)

Holding == {"signing in", "extended", "signed in", "working", "committed", "answering", "closing"}
CallStates == {"idle", "arrived"} \cup Holding
HookStates == {"idle", "arrived", "verifying", "reading", "writing", "closing"}

PoolInv ==
  /\ call \in [Calls -> CallStates] /\ webhook \in [Hooks -> HookStates]
  /\ IsFiniteSet(pool) /\ Cardinality(pool) <= PoolSize
  /\ \A c \in Calls \cap pool : call[c] \in Holding
  /\ \A h \in Hooks \cap pool : webhook[h] \in {"writing", "closing"}
  /\ rowLock \in Calls => rowLock \in Syncs \cap pool /\ call[rowLock] \in {"working", "answering", "closing"}
  /\ \A g, h \in OnLoop : g = h

LEMMA PoolInvInit == PoolInit => PoolInv
<1> SUFFICES ASSUME PoolInit PROVE PoolInv
  OBVIOUS
<1>1. IsFiniteSet(pool) /\ Cardinality(pool) = 0
  BY FS_EmptySet DEF PoolInit
<1> QED
  BY <1>1, PoolAssumption DEF PoolInit, PoolInv, PoolAssumption, CallStates, HookStates, OnLoop

LEMMA PoolGrows ==
  ASSUME IsFiniteSet(pool), ~Full, NEW x, pool' = pool \cup {x}, Cardinality(pool) <= PoolSize
  PROVE  IsFiniteSet(pool') /\ Cardinality(pool') <= PoolSize
<1>1. PoolSize \in Nat /\ Cardinality(pool) \in Nat
  BY FS_CardinalityType, PoolAssumption DEF PoolAssumption
<1>2. /\ IsFiniteSet(pool \cup {x})
      /\ Cardinality(pool \cup {x}) = Cardinality(pool) \/ Cardinality(pool \cup {x}) = Cardinality(pool) + 1
  BY FS_AddElement
<1> QED
  BY <1>1, <1>2 DEF Full

LEMMA PoolShrinks ==
  ASSUME IsFiniteSet(pool), NEW x, Returned(x), Cardinality(pool) <= PoolSize
  PROVE  IsFiniteSet(pool') /\ Cardinality(pool') <= PoolSize
<1>1. pool' = pool \ {x} /\ PoolSize \in Nat /\ Cardinality(pool) \in Nat
  BY FS_CardinalityType, PoolAssumption DEF PoolAssumption, Returned
<1>2. /\ IsFiniteSet(pool \ {x})
      /\ Cardinality(pool \ {x}) = Cardinality(pool) \/ Cardinality(pool \ {x}) = Cardinality(pool) - 1
  BY FS_RemoveElement
<1> QED
  BY <1>1, <1>2

LEMMA CallsHold ==
  ASSUME PoolInv, NEW c \in Calls, Arrive(c) \/ Dispatch(c) \/ Thread(c)
  PROVE  PoolInv'
<1>0. Calls \cap Hooks = {} /\ Nobody \notin Calls /\ Minutely \notin Calls /\ Syncs \subseteq Calls
  BY PoolAssumption DEF PoolAssumption
<1>1. CASE Arrive(c)
  BY <1>0, <1>1 DEF Arrive, Goes, PoolInv, OnLoop, CallStates, Holding
<1>2. CASE Dispatch(c)
  BY <1>0, <1>2 DEF Dispatch, Goes, PoolInv, OnLoop, CallStates, Holding
<1>3. CASE Connect(c)
  <2>1. IsFiniteSet(pool') /\ Cardinality(pool') <= PoolSize
    BY <1>3, PoolGrows DEF Connect, PoolInv
  <2> QED
    BY <1>0, <1>3, <2>1 DEF Connect, Waits, Querying, PoolInv, OnLoop, CallStates, Holding
<1>4. CASE TimesOut(c)
  BY <1>0, <1>4 DEF TimesOut, Waits, PoolInv, OnLoop, CallStates, Holding
<1>5. CASE Extend(c)
  <2>1. IsFiniteSet(pool') /\ Cardinality(pool') <= PoolSize
    BY <1>5, PoolShrinks DEF Extend, PoolInv
  <2> QED
    BY <1>0, <1>5, <2>1 DEF Extend, Goes, Returned, PoolInv, OnLoop, CallStates, Holding
<1>6. CASE SignIn(c)
  BY <1>0, <1>6 DEF SignIn, Goes, PoolInv, OnLoop, CallStates, Holding
<1>7. CASE LockRow(c)
  BY <1>0, <1>7 DEF LockRow, PoolInv, OnLoop
<1>8. CASE Commit(c)
  <2>1. IsFiniteSet(pool') /\ Cardinality(pool') <= PoolSize
    BY <1>8, PoolShrinks DEF Commit, PoolInv
  <2> QED
    BY <1>0, <1>8, <2>1 DEF Commit, Goes, Released, Returned, PoolInv, OnLoop, CallStates, Holding
<1>9. CASE Answer(c)
  BY <1>0, <1>9 DEF Answer, Goes, PoolInv, OnLoop, CallStates, Holding
<1>10. CASE CloseSession(c)
  <2>1. IsFiniteSet(pool') /\ Cardinality(pool') <= PoolSize
    BY <1>10, PoolShrinks DEF CloseSession, PoolInv
  <2> QED
    BY <1>0, <1>10, <2>1 DEF CloseSession, Goes, Released, Returned, PoolInv, OnLoop, CallStates, Holding
<1> QED
  BY <1>1, <1>2, <1>3, <1>4, <1>5, <1>6, <1>7, <1>8, <1>9, <1>10 DEF Thread

LEMMA HooksHold ==
  ASSUME PoolInv, NEW h \in Hooks, HookArrive(h) \/ HookStart(h) \/ HookStep(h) \/ HookCloses(h)
  PROVE  PoolInv'
<1>0. Calls \cap Hooks = {}
  BY PoolAssumption DEF PoolAssumption
<1>1. CASE HookArrive(h)
  BY <1>0, <1>1 DEF HookArrive, Turns, PoolInv, OnLoop, HookStates
<1>2. CASE HookStart(h)
  BY <1>0, <1>2 DEF HookStart, Turns, PoolInv, LoopFree, OnLoop, HookStates
<1>3. CASE HookVerified(h)
  BY <1>0, <1>3 DEF HookVerified, Turns, PoolInv, OnLoop, HookStates
<1>4. CASE HookReads(h)
  <2>1. IsFiniteSet(pool') /\ Cardinality(pool') <= PoolSize
    BY <1>4, PoolGrows DEF HookReads, PoolInv
  <2> QED
    BY <1>0, <1>4, <2>1 DEF HookReads, Turns, PoolInv, OnLoop, HookStates
<1>5. CASE HookTimesOut(h)
  BY <1>0, <1>5 DEF HookTimesOut, Turns, PoolInv, OnLoop, HookStates
<1>6. CASE HookWrites(h)
  <2>1. IsFiniteSet(pool') /\ Cardinality(pool') <= PoolSize
    BY <1>6, PoolShrinks DEF HookWrites, PoolInv
  <2> QED
    BY <1>0, <1>6, <2>1 DEF HookWrites, Turns, Returned, PoolInv, OnLoop, HookStates
<1>7. CASE HookGivesUp(h)
  BY <1>0, <1>7 DEF HookGivesUp, Turns, PoolInv, OnLoop, HookStates
<1>8. CASE HookCloses(h)
  <2>1. IsFiniteSet(pool') /\ Cardinality(pool') <= PoolSize
    BY <1>8, PoolShrinks DEF HookCloses, PoolInv
  <2> QED
    BY <1>0, <1>8, <2>1 DEF HookCloses, Turns, Returned, PoolInv, OnLoop, HookStates
<1> QED
  BY <1>1, <1>2, <1>3, <1>4, <1>5, <1>6, <1>7, <1>8 DEF HookStep

(* The pool never has more connections out than it has, whoever is done    *)
(* holds none and no row, and one webhook at a time is worked on           *)
(* (database.py:104-143, plaid.py:110-137); for any requests, webhooks and *)
(* size of the pool, whichever of them time out.                           *)
THEOREM NothingEverLeaks == PoolSpec => []NothingLeaks
<1>1. PoolInit => PoolInv
  BY PoolInvInit
<1>2. PoolInv /\ [PoolNext]_poolVars => PoolInv'
  <2>1. ASSUME PoolInv, TimerLocks \/ TimerEnds PROVE PoolInv'
    BY <2>1, PoolAssumption DEF PoolAssumption, TimerLocks, TimerEnds, PoolInv, OnLoop
  <2>2. ASSUME PoolInv, UNCHANGED poolVars PROVE PoolInv'
    BY <2>2 DEF poolVars, PoolInv, OnLoop
  <2> QED
    BY <2>1, <2>2, CallsHold, HooksHold DEF PoolNext
<1>3. PoolInv => NothingLeaks
  <2> SUFFICES ASSUME PoolInv PROVE NothingLeaks
    OBVIOUS
  <2> QED
    BY DEF PoolInv, NothingLeaks, Holding
<1> QED
  BY <1>1, <1>2, <1>3, PTL DEF PoolSpec
================================================================================
