# Budget: verification project

Budget is a self-hosted household-finance application: a FastAPI server
(`src/backend/app`), a command-line program that systemd timers start
(`src/backend/app/cli.py`, `src/deploy/systemd`), a MySQL database and a React
client. This directory holds TLA+ models of its logic, the TLC configurations
that check them on small instances, and proofs checked by TLAPS.

## 1. How the system runs

* **Processes.** One Uvicorn worker. Synchronous endpoints run in its thread
  pool, so any two requests interleave; the Plaid webhook is an `async def` that
  works on the event loop, so webhooks are handled one at a time. Each timer starts
  a separate process (`budget-sync` every minute, one at a time, at most ten
  minutes).
* **Database.** InnoDB under its default isolation, REPEATABLE READ
  (`core/database.py` sets no other). Plain SELECTs see the snapshot that the
  transaction's first SELECT took; in a request that is the session lookup of
  `api/dependencies.py`. `SELECT ... FOR UPDATE`, UPDATE, INSERT and DELETE act on
  the latest committed rows and wait for row locks. Sessions have
  `autoflush=False`: a query does not see what the same session has not flushed.
  An UPDATE carries only the columns whose value differs from what was loaded.
  Closing a session without a commit rolls it back.
* **Providers.** Plaid (transactions, items, webhooks), an LLM for the advisor,
  SMTP for email, Google for sign-in. All are external and may fail at any call.

## 2. Inventory

Per component: state; operations; interactions; what is hard; what makes it correct.

| Component | State | Operations and interactions | Hard behaviour | Correct when |
|---|---|---|---|---|
| Plaid item and synchronization (`services/plaid_transactions.py`, `integrations/plaid.py`) | `plaid_items` cursor, request flag, sync time, health; `transactions` | `sync_plaid_item` (timer, "Sync now"), provider pages, webhook flag | locks taken after snapshots, pages that mutate, crashes, retries | the copy is the provider's ledger at the cursor; no announced change is forgotten; an active item catches up |
| Plaid connection (`services/plaid.py`, `api/plaid.py`) | items, accounts, provider items | exchange, account selection, refresh, disconnect, webhooks | two systems without a common transaction | no provider item is orphaned, no local item is dead |
| Rules and streams (`transaction_intelligence.py`, `subscriptions.py`) | rules, overrides, streams, choices | rebuild from sync, overrides and rules | delete-and-insert against user choices | streams follow the transactions; choices survive |
| Webhook verification (`core/plaid_webhook.py`) | key cache | verify | rotation, replay | only signed, fresh bodies pass |
| Request and database runtime (`core/database.py`, `main.py`) | pool of 3 connections | session per request | event loop blocked on the pool or a lock | requests finish |
| Identity, sessions, second factor (`identity.py`, `auth.py`) | users, sessions, invitations, challenges, counters | login, invite, accept, verify, reset | limits and one-time use under races | limits hold; a code is used once |
| Family budgets (`family.py`) | membership graph | join, leave, remove, delete owner | join against delete | every member has a living owner |
| Setup (`setup.py`) | claim row | claim, complete | two claims | one administrator |
| Budget planning (`budget_planning.py`) | budgets, categories | rollover | recursion over months | money is conserved |
| Goals, debts, forecast (`financial_planning.py`) | goals, debts, settings | CRUD, payoff simulation | rounding; GET that writes | the simulation ends and conserves |
| Advisor and action plans (`advisor_actions.py`) | proposals and the settings they change | create, apply, reject, undo | optimistic status check without a lock | one outcome per plan; undo restores |
| Insights (`insights.py`) | insights | refresh, set status | concurrent refresh | unique, resolved when gone |
| Notifications and email (`notifications.py`) | notifications | scan, deliver | commit-send-commit | at most one per event; delivered |
| Operational jobs (`operations.py`, `cli.py`) | job rows | start, finish, status | a job that dies | a dead job is reported |
| Backups (`backups.py`) | archives, manifests | create, verify, retention | crash between file operations | the newest backup verifies |
| Maintenance, reports, analytics, manual entries, portability, preferences, configuration | rows or none | reads, single-row edits, pruning | little | sums agree with rows |
| Web client, Google client, migrations | none that is shared | | | |

`PROJECT.json` lists every component with its status and every hazard at its
line, those no property covers yet included.

## 3. Modules

| Module | What it is |
|---|---|
| `LedgerReplica` | abstract: an atomic copy of a ledger that jumps forward to published versions |
| `PlaidItem` | one connected item with its transactions, streams, synchronizers, webhooks and requests |
| `PlaidItem_proofs` | TLAPS proofs about `PlaidItem` |
| `PlanLifecycle` | abstract: an action plan that is proposed, applied, undone and dismissed in single steps |
| `AdvisorPlans` | the requests that draft, apply, reject and undo plans beside the user's edits, row by row |
| `Household` | accounts, administrators, invitations, shared budgets and the installation's setup |
| `Household_proofs` | TLAPS proofs about `Household` |
| `AdvisorPlans_proofs` | TLAPS proofs about `AdvisorPlans` |
| `OperationalJobs` | the heartbeat rows of timer jobs and how the status page reads them |
| `Backups` | backup, retention, verification and restore drill, file by file, as tracked jobs |
| `Backups_proofs` | TLAPS proofs about `Backups` |
| `BudgetPlanning` | the annual plan, the months' budgets and what is carried from month to month |
| `DebtPayoff` | the payoff simulator, month by month, for every strategy and both paces |
| `TransactionRules` | rules, overrides and the provider's replacements of a transaction |
| `MoneyViews` | extends `TransactionRules`: what dashboard, cash flow map, reports, trends and budgets sum up |
| `CashCalendar` | the calendar's coming events and the cash they leave |
| `CashForecast` | goals, the 30/60/90-day forecast, scenarios and the safe-to-spend figure |
| `Alerts` | insights, notifications and their emails as overlapping transactions |
| `LoginThrottle` | the counters of wrong passwords |
| `SecondFactor` | challenges, authenticator and recovery codes |
| `SignIn` | the two steps of a login, `LoginThrottle` and `SecondFactor`, and what bounds guessing at both |
| `PlaidConnection` | bank connections in two systems: exchange, import, disconnection |
| `Services_proofs` | TLAPS proofs about `Alerts`, `SignIn`, `PlaidConnection`, `SyncRuns` and `ServerPool` |
| `Planning_proofs` | TLAPS proofs about `TransactionRules`, `MoneyViews` and `CashForecast` |
| `Budget_proofs` | TLAPS proofs about `BudgetPlanning`, `DebtPayoff` and `CashCalendar` |
| `SumLemmas` | lemmas about sums, folds and maxima over finite sets, proved once for the three above |
| `MCPlaidItem`, `MCAdvisorPlans`, `MCHousehold`, `MCBackups` | instances for TLC |
| `SyncRuns` | the minute job over several items, with its heartbeat |
| `ServerPool` | event loop, threads, connection pool and the webhook on the loop |
| `MCPages` | instance of the planning modules, `SyncRuns` and `ServerPool` side by side |
| `MCServices` | instance of `Alerts`, `SignIn` and `PlaidConnection` side by side |

The models of requests split a request where the code does: it *begins* by taking the
snapshot on which it decides and *commits* on the latest rows. What may happen in
between is what the database lets happen: a row lock that is taken early keeps
others out, one that is taken late does not. `MCPages` and `MCServices`
hold components that share no state: the variable `page` chooses the one a behaviour is about,
so nothing is interleaved that could not influence anything. A few operators have a wrong sibling
defined just before them and used nowhere; it stands for a plausible bug and
shows that a property would notice it.

### PlaidItem

The provider's `ledger` is the list of all versions of the item's transactions; a
cursor is an index into it and a transaction is absent or has one of a few
contents. `rows`, `streams`, `cursor`, `requested`, `fresh` and `health` are the
committed columns. `tx[p]` is the open transaction of synchronizer `p`: the
snapshot it reads (`rows`, `streams`), the version its pagination aims at
(`target`), the collected patch (`got`) and the restart count.

| Actions | Code |
|---|---|
| `Begin` | the snapshot: session lookup of "Sync now", or `sync_all_plaid_items`'s selection of active items that were asked for or are stale |
| `Acquire` | `SELECT ... FOR UPDATE` of the item in `sync_plaid_item` |
| `Fetch`, `Mutated` | `_collect_updates`: pages of any size; a mutation during pagination discards them and starts again from the original cursor, at most `MAX_PAGINATION_RESTARTS` times |
| `ProviderRefuses`, `Abandon` | the two error paths: an item error marks the item and commits, everything else rolls back; a dying process too |
| `Apply`, `ApplyFails` | the patch inside its savepoint, the stream rebuild, the columns, the commit; or an IntegrityError when the snapshot and the table disagree |
| `AgeOut` | fifteen minutes without a success |
| `HookArrives`, `HookCommits`, `HookFails` | the webhook handler from its read to its commit; any code, any number of times |
| `RefreshBegins`, `RefreshCommits` | `refresh_connection`, whose provider calls lie between its unlocked read and its write |
| `ChooseSubscription`, `RetuneBegins`, `RetuneCommits` | a user's choice; a request that rebuilds the streams from its snapshot |

Three history variables record what a property speaks of and no action reads:
`announced` (newest version a handled webhook told about), `stale` (a patch was
computed from a snapshot older than the table) and `raced` (health columns were
written from outdated ones).

Abstracted: amounts, merchants and dates are contents; the stream detector is a
count of posted transactions per group; rules and overrides are applied to a row
at import and do not change whether it exists; an empty `next_cursor`, which keeps
the old one, is a collection without changes. Left out: account balances,
`last_*` times that no decision reads, webhook codes the handler ignores, consent
expiry, and the deletion of deselected accounts by a refresh.

A "Sync now" of a second budget member is another synchronizer; the rate limit of
"Sync now" only removes behaviours.

### AdvisorPlans

`settings` are the rows that a plan or its owner changes: goals, debts, the payoff
strategy, the cash reserve and the budget of a month, each with one of a few
values or missing. `plans[p]` is the proposal's status with the settings it
reaches as they were when it was drafted, which is both `precondition_json` and
what `rollback_json` restores: apply refuses any other state. `requests[r]` is an
open transaction: what its snapshot showed (`seen`), what it will write (`new`),
the rows still to be written (`todo`) and those locked (`held`). The program order of
the rows is a constant: a plan's actions are carried out in the order `Order` gives
them, an undo restores in the fixed order `UndoOrder` of `_restore_resources`.

| Actions | Code |
|---|---|
| `CreateBegins`, `CreateCommits` | `create_proposal`: the actions are carried out in a savepoint that is rolled back, which takes the same row locks, and the draft is inserted |
| `ApplyBegins`, `RejectBegins`, `UndoBegins` | the checks of `apply_proposal`, `reject_proposal` and `undo_proposal` on the snapshot: status, expiry, precondition |
| `EditBegins`, `EditCommits` | the planning and budget endpoints |
| `Write`, `WriteFails`, `GiveUp`, `Abandon` | one flushed row; a refused one; a deadlock or lock timeout; the process dies |
| `Decide`, `DecideFails` | status, execution row and commit; or the unique keys and matched-row checks refuse |
| `Expire`, `DeleteConversation` | the draft's time to live; the cascade that deletes drafts with their conversation |

Plans are constants (`Wants` says what a plan makes of each setting it reaches): what the language model answers is
external, and normalising its answer happens before the draft exists. The chat,
its history and the request limiter are left out. `CreateCommits` is one step: `create_proposal`
rolls back what it tried (`advisor_actions.py:579`), which lets the row locks go, and inserts the draft
in a new transaction. That a strategy or forecast row may be missing (439-449, 508-521) is left out
too. No property speaks of drafts being created in between.

`PoliteSpec` is the same system when one person waits for each answer, as the
page's disabled buttons make one tab do: two open requests share no plan and no
setting. Under it `AdvisorPlans` implements `PlanLifecycle`. Without it two
requests that share a setting can both pass their checks (section 6).

### Household

`account`, `admins`, `owner` (`budget_memberships`), `invites` and `initialized` are
the tables; `requests[r]` is an open transaction with the budget its snapshot
shows. An identifier is never used again, so accounts go from "none" to "open" to
"closed".

| Actions | Code |
|---|---|
| `SetUpBegins`, `SetUpCommits` | `create_initial_user`: the claim is a conditional UPDATE |
| `InviteBegins`, `InviteCommits` | `create_invitation` and its limit |
| `RegisterBegins`, `RegisterCommits` | `register_password_account` in the registration mode "open", and `complete_google_flow` without an invitation: an account in an own budget, whether or not the installation was set up |
| `RevokeBegins`, `RevokeCommits` | `revoke_invitation` by sender or administrator |
| `AcceptBegins`, `AcceptCommits` | `accept_password_invitation`; registration with Google follows the same checks and writes |
| `LeaveBegins`, `LeaveCommits`, `RemoveBegins`, `RemoveCommits` | `leave_shared_budget`, `detach_family_member`, with the UPDATE that revokes open invitations |
| `CloseBegins`, `CloseCommits` | `delete_account`: checks, Plaid calls, DELETE with its cascades, reset of the installation |
| `EnsureMembership` | `ensure_budget_membership` for a user without one |
| `Expire`, `Fail` | seven days; refusals of the database, deadlocks and deaths of the process |

All writes of a handler are one step, its last: none of them is visible earlier,
and the row locks of the first last until the commit. The history variable
`overtaken` records that some request wrote although its checks would have failed
at that moment, `admitted` the accounts an invitation created, and `registered` that somebody
registered without one. The registration mode is not a constant: where it is not "open",
`RegisterBegins` is never taken. Open registration never looks at `initialized_at`, so accounts
can exist without an administrator while setup is still offered; `Administered` says so and
claims the rest. Left out: the onboarding flag a sender needs, the one open challenge
per invitation, names and addresses, and the data of the account.

### Backups

`archives` and `manifests` are the files in the backup directory, named after the
time their backup began. `run` is the process of `budget-db-backup` with the stamp it
writes and the archives retention has listed for removal; `check` is a verification
or a drill with the archive it picked. `rows` are the heartbeats.

| Actions | Code |
|---|---|
| `BackupBegins`, `BackupRecords`, `BackupRecordFails` | `_tracked` of `cli.py` around `create_backup`: started, then success or failure; a success that cannot be recorded is recorded as a failure |
| `DumpSucceeds`, `WriteManifest` | the dump renamed to its name; then the manifest, and retention lists the directory |
| `Prune`, `Pruned` | `apply_retention`: manifest, then archive, for each file outside `Kept` |
| `BackupFails`, `BackupDies` | an exception; a kill, or a database that takes neither end of the job |
| `VerifyBegins`, `SelectArchive`, `ReadManifest`, `CompareArchive`, `Restore` | `verify_backup` and `restore_test_backup`, each file access by itself |
| `VerifyRecords`, `VerifyRecordFails`, `VerifyDies` | the end of that job |
| `Tick` | time; `TimeoutStartSec` ends a run before two units are over |

systemd runs one process per unit, and the two units may overlap because both
timers are persistent. Days, weeks and months are periods of the clock that need not
nest. History variables: `ever`, all archives there were; `disturbed`, a backup ran
during the last verification; `unrecorded`, the job's last run left its row
"running". Left out: `.partial` files, which retention and verification ignore;
two runs in one second; damage to a file on the disk; a drill started by hand beside the
timer's verification.

### SyncRuns

The job that systemd starts every minute, over several items: `item` is a row's
`status` and whether it is `late` (asked for, or fifteen minutes old); `run` holds the
selected items still to be taken; `trouble` is what a synchronization of an item would
meet. One synchronization, which `PlaidItem` details, is one step here.

| Actions | Code |
|---|---|
| `RunBegins` | `_tracked` commits "running"; `sync_all_plaid_items` selects once |
| `SyncSucceeds`, `SyncFails`, `SyncSkips` | one turn of the loop: commit; an ApiError, which is counted; an owner who is gone |
| `RunBreaks` | any other exception leaves the loop and is recorded as a failure |
| `RunEnds`, `RunDies` | the end of `_tracked`, which records a success that cannot be recorded as a failure; a kill after ten minutes or a database that takes neither end |
| `TabSyncs`, `ItemChanges`, `Disconnected`, `TroubleChanges` | "Sync now", time and webhooks, disconnection, the provider and the data |

The heartbeat is `OperationalJobs`, instantiated without its clock. History:
`promised`, the items a run was to synchronize and nobody has; `deaths` bounds the kills.

### ServerPool

How requests share the one process. A request alternates between the event loop, which
starts its next part (`Dispatch`), and a thread: sign-in, handler, closing of its session.
`pool` holds the connections taken (a session has one from its first query to its commit or
end), `rowLock` the item's row. `HookReads` and `HookWrites` are the webhook's query
and UPDATE; while they wait `LoopFree` is false and nothing is dispatched. `Extend` is the
commit inside `load_principal` that gives the connection back before it is needed again.
FastAPI closes the session of a dependency before it sends the response, through the loop,
so a thread that has finished its handler still needs the loop to return its connection.

### BudgetPlanning, DebtPayoff, TransactionRules, MoneyViews, CashCalendar, CashForecast

The planning pages. What the pages compute are operators over the stored rows; the
actions are the requests, synchronizations and days that change the rows.

* `BudgetPlanning`: `plan` (the annual plan: even, monthly or custom lines), `months` (a
  month's own budget, which overrides the plan or stands alone), `spent`. `MonthBase` is the
  precedence of the three, `Carries` the rollover as `_rollover_carries` folds it month by
  month. `PutAnnualPlan`, `PutMonthlyBudget`, `DeleteMonthlyBudget`, `CopyPreviousMonth` are
  the endpoints of `api/budget.py`. Amounts are in units of the columns' 0.0001.
* `DebtPayoff`: `PassMonth` is one turn of `_simulate_debts` for three strategies and
  both paces side by side: interest, minimum payments, earmarked extras, then the rest
  by strategy. The code takes a balance of 0.00005 or less for paid
  (`financial_planning.py:318`, `:352`); amounts are whole units here and the threshold is 0.
  Decimals of 28 digits are exact for any purpose, so the instance chooses a
  unit in which the interest of its months is exact.
* `TransactionRules`: `entry` (what provider or owner said), `mark` (what the user or a rule
  set beside it), `byRule`, `rules`. `Sync` is the upsert with its replacement of
  a pending row, `OverrideTransaction`, `CreateRule` and `DeleteRule` end with the
  re-interpretation of `apply_rules_to_transaction` as the code does.
* `MoneyViews` extends it with the sums of five pages: dashboard, cash flow map,
  reports, trends, budget of a month and of a year. `Place` is the alphabetical place of a
  category or merchant, by which the code orders equal amounts.
* `CashCalendar`: recurring `Occurrences`, pending transactions that stand for them, and the
  dated debts, which `WithDebt` leaves out where a payment looks like them; `Path` is the
  cash they leave. Days are numbered, months have a few.
* `CashForecast`: `Projected` is `forecast_view` under a scenario, `SafeToSpend` the
  month's figure, from goals, balances, budget, streams and payments. An account's current and
  available balance are one value; the code counts the payoff strategy's extra budget in the month's
  figure even when nothing is owed, the model only beside debts.

### Alerts

The ledger is a record of what the signals look at (`world`); a signal or notification is
named by its fingerprint. A refresh, a scan and a change of an insight are transactions: one step
takes the snapshot (`seen`), one commits. The row lock of `refresh_insights` comes after the
snapshot and therefore orders commits and prevents nothing.

| Actions | Code |
|---|---|
| `OpenRefresh`, `CommitRefresh` | `refresh_insights`; a row inserted meanwhile makes the commit fail (`InsightClash`) |
| `OpenSetting`, `CommitSetting` | `set_insight_status` |
| `OpenScan`, `CommitScan`, `ScanFails` | `scan_user_notifications` to its first commit |
| `Deliver`, `CommitMail` | `_deliver_email` with a server that accepts, refuses or does not say; the commit of the stamps |
| `Undone` | a kill, or a deadlock victim |
| `MarkNotification`, `MarkAllRead`, `UpdatePreferences`, `WorldMoves` | short requests; everything else |

`sent` counts emails and is read by no action.

### LoginThrottle, SecondFactor

`LoginThrottle` has the rows of `login_throttles` with ages instead of instants, the
failure and success branches of the login handler (which a process-wide lock makes one step),
the nightly pruning and time; `guesses` is history.

`SecondFactor` has one account's authenticator, its challenges and the answers in flight.
`ReadChallenge` locks the challenge and reads the authenticator, `CodeAccepted`,
`CodeRefused` or `AnswerUndone` ends the answer; `Verified` is the conditional UPDATE of
the last counter or the list of recovery codes that was read. Setup, confirmation and removal
are short and may happen in between. `opened`, `tried` and `revived` are history.

### PlaidConnection

`live` is what the provider keeps, `rows` what the installation committed. `Exchange` and
`Disconnect` are the provider's side and take effect at once; `Import`, `CommitExchange`,
`CommitDisconnect` and their failures are the installation's. `ImportFails` includes the
compensating removal, which can fail as well. `Promote` and `ForgetSandbox` are the move of the
server to production. `orphaned`, `stranded` and `overlapped` are history: they
name the failures that the properties except.

`accounts` are the rows of an item's accounts by what `_reject_duplicate_item` compares, name and
last digits. `Exchange` takes whatever Link named (`told`): any of the bank's accounts, or
none, which stands for a call without bank or accounts and for accounts without a name.
`CommitExchange` and `Refresh` store what the bank shows then, which need not be what Link named; a synchronization
that adds or renames accounts is a `Refresh` here. `named` is history: what Link named and
the bank has shown ever since. What becomes of the transactions of a deselected account is
left out.

## 4. Runs

| Run | Shows | Bounds |
|---|---|---|
| `timer` | `TypeOK`; `ImplementsReplica`; under fairness `RequestServed`, `CatchesUp` | the timer alone, 4 changes of a pending and its posted transaction, 2 page restarts, 1 fault, 1 webhook |
| `tabs` | `NewsIsKept`, `NoInventedRow`, `ExactUnlessStale`, `FlagsAgree` | timer and tab; 2 changes of one transaction with 2 contents, 1 webhook, 1 refresh or stream rebuild |
| `plans_overlap` | `TypeOK`, `NoPartOfAPlan`, `RequestsEnd` | 2 requests, a plan over a goal and a month's budget, 2 values |
| `plans_polite` | `HistoryAgrees`, `ImplementsLifecycle` | the same with a second plan, polite requests |
| `household_races` | `TypeOK`, `OneLevel`, `InvitesLead`, `InvitationsHold`, `Administered`, `BudgetsStayUnlessOvertaken` | 3 users, 2 invitations, 2 overlapping requests, limit 2 |
| `backups` | `TypeOK`, `RetentionHolds`, `Restorable`, `StatusIsHonest`, `SuccessVerifies` | 6 times; days of 2, weeks of 3, months of 4; 1 daily, 1 weekly, 2 monthly; window of 2 |
| `pages` | `BudgetAddsUp`, `PaymentsAccounted`, `AvalancheCostsLeast`, `RulesAreCurrent`, `TunedStays`, `ViewsAgree`, `CalendarAddsUp`, `NothingCountedTwice`; under fairness `MinuteJobServes`, `ServerGoesOn` | a year of 3 months with 1 category; up to 3 debts for 4 months; 3 transactions (one foreign, one refund), 2 rules; months of 5, 4 and 5 days with 2 streams and 2 debts; 2 goals, 2 accounts; the job: 2 items, 1 death; the server: 2 requests, one of them a synchronization, 1 webhook, 2 connections |
| `services` | `MailedOnce`, `GuessesAreBounded`, `CodesOpenOnce`, `ConnectionsAgree`, `DismissedStays`; under fairness `Noticed` | 2 scans or 1 scan and 1 tab over 2 to 3 ledgers, 1 fault; limits 3 and 4 with windows of 2; 2 answers, 2 logins, 2 setups, 2 counters, 1 recovery code, 2 attempts; 3 items of 2 banks, 1 account of each bank, 2 browsers |
| `exact`, `choices`, `plans_newer`, `household_owner` | documentation and code disagree (section 6) | as the run they vary |

**What the properties of `pages` and `services` say.**

* `MinuteJobServes`: an item that stays due and without trouble is synchronized, whatever
  the other items meet, unless one before it raises something other than an ApiError; the
  heartbeat says "success" only when nobody who was due waits, and "running" only of a run
  or of one that died.
* `ServerGoesOn`: the event loop always comes free again, no thread queries for ever and no
  connection or row leaks (`NothingLeaks`).
* `BudgetAddsUp`: what a category carries into a month is what a closed form over all
  earlier months says, and an even, monthly or custom year adds up to its months.
* `PaymentsAccounted`: starting debts, interest and payments give the balances, no debt is
  paid below zero, and no month leaves money unused while something is owed.
  `AvalancheCostsLeast` compares the three strategies, month by month and not only once
  all debts are paid.
* `RulesAreCurrent`: a rule's mark is that of the first existing rule that matches.
  `TunedStays`: the user's own marks survive rules and the provider's changes.
* `ViewsAgree`: five pages sum up the same money, with the exceptions its definition names.
* `CalendarAddsUp`: a month's page starts where the one before ends, and shows every debt.
* `NothingCountedTwice`: the forecast and the safe-to-spend figure take an obligation that is known
  from two sources once, as the larger of the two.
* `MailedOnce`, `DismissedStays`, `Noticed`: an email is sent at most once; a dismissal is
  undone only by the owner or by a refresh that saw the insight resolved; a lasting signal that
  the owner wants to hear of is heard of.
* `GuessesAreBounded`, `CodesOpenOnce`: fewer than twice the limit of wrong passwords in any
  window, no more wrong codes than allowed, one session per code.
* `ConnectionsAgree`: live items and rows belong together, and what Link names is connected
  once, but for the failures and overlaps that the history variables name. It does not say that
  a bank is connected once: section 6 says when the code lets it be connected twice.
* `Administered` (of `household_races`): unless a request was overtaken, setup is offered exactly
  while there is no administrator, there is one at most, and until setup there
  are accounts only if somebody registered without an invitation.

**Why the bounds are enough.** Four changes during one pagination use up the page
restarts (`MaxRestarts` is 2 instead of 3; the code only counts to it) and leave one more after the
failure; they let a row appear, be replaced by its posted form, disappear and
come back. In `tabs` two changes are what a stale patch needs: the row must be
inserted by one synchronization and removed for the other. Two synchronizers give
every order of snapshot, lock and commit of an overlapping pair; more only
repeat it. `MinObservations` is 1 instead of 3, so that streams come and go within
the changes.

In `plans_overlap` one plan is enough for apply against apply,
reject, undo and edits; two rows locked in opposite orders give the deadlock. In
`household_races` three users are an owner, a member and a newcomer, each of whom can be the
administrator or have registered before there was one; the second invitation lets a member
invite while its own is open and reaches the limit. The same instance with four users, a million
states, shows nothing else. Two requests overlap in every
pair; a third would only commit between the two steps of one, which the second does already.

In `backups` six times hold six archives, two in a day and four in a month, more than the four
that may be kept; periods of 2, 3 and 4 end at different times, so an archive can be kept
by each rule alone. Its view drops the heartbeat of the verification, which no action reads
and no property judges beyond its type.

In `pages` three months are one to carry from, one to carry through and one to carry
to; shares of a year that does not divide by three are rounded. Four months are enough for
the first debt to end and its minimum to move to the second and third. The two rules
overlap on one transaction, and the transactions include a refund in the month after
its purchase. The two streams are due twice within a month and across its border. Two items are one that
is served and one before it that is in trouble. Two requests and a webhook fill a pool of
two connections in every combination of who holds and who waits.

In `services` the ledgers differ in what makes signals come, go and come back; two runs
(or a run and a tab) overlap in every order. Two answers are all that can be about two
challenges, three items are two of one bank and one of another. One account of each bank is named by Link or not, shown or
not, so two items share it in every way; two items with two accounts pass as well.

**Deadlock** is checked except where the environment may stop for good: in `timer`
and `choices`, whose changes are counted, in `household_*`, where accounts are
created once and may all be deleted, in `backups`, whose clock ends, in `services`, whose
logins, setups and items are counted. In `pages` some page's input always changes,
but a simulation of debts ends, so it is off there too.

**Fairness.** `timer`: weak fairness of the timer's `Begin` (systemd starts the job
every minute) and of each synchronizer's steps (a running process goes on); strong
fairness of `Acquire` (InnoDB grants row locks in request order, so a waiting
transaction is not passed over for ever); weak fairness of `AgeOut` (time passes).
`pages`: for the minute job weak fairness of `RunStep`, for the same two reasons. For the server weak
fairness of each thread (`Thread`) and of what runs on the loop (`LoopWork`): both end
their waits after `pool_timeout` or the lock wait. Nothing is assumed about when the loop starts
the next part of a request.
`plans_overlap`: weak fairness of `Advances`, one disjunction per request: a request
goes on, waits for a lock until it is granted or the wait is ended by InnoDB.
`services`: weak fairness of the timer's `Scan` (the hourly timer; a run goes on). Kills and
deadlock victims are counted: a scan that is killed every hour mails nothing. Nothing is
assumed of users, webhooks, providers or faults.

## 5. Proofs

For any values of the constants, from the assumptions that the modules name:
`ModelAssumption`, `PlansAssumption`, `HouseholdAssumption`, `JobsAssumption`,
`BackupsAssumption`, `ThrottleAssumption`, `FactorAssumption`, `RulesAssumption`,
`ViewsAssumption`, `ForecastAssumption`, `BudgetAssumption`, `DebtAssumption`,
`ExactAssumption`, `CalendarAssumption`, `SyncRunsAssumption`, `PoolAssumption` and the one of
`Alerts`. They say which sets are finite or disjoint and which
constants are numbers, and of the numbers no more than the columns' checks and the configuration's
limits do. The one about amounts, `ExactAssumption`, is `DebtPayoff`'s abstraction: amounts are integers
in a unit in which no month's interest is rounded. The code's decimals round it at the 28th
digit, so of the code the comparison holds up to that. TLC evaluates
all of them. `PROJECT.json` lists the theorems; the lemmas are in the
modules. Every safety property of a passing run has its theorem, the safety parts of
`MinuteJobServes` and `ServerGoesOn` included.

### PlaidItem_proofs

* `TypeCorrect`: `Spec => []TypeOK`. With it the cursor and the announced version are
  always published versions and no open transaction aims beyond the ledger.
* `NewsKept`: `Spec => []NewsIsKept`.
* `NoRowInvented`: `Spec => []NoInventedRow`.
* `AlwaysExactUnlessStale`: `Spec => []ExactUnlessStale`.
* `TimerKeepsReplica`: with one synchronizer `Spec => ImplementsReplica`, the refinement.
* `FlagsAlwaysAgree`: `Spec => []FlagsAgree`.

`NewsIsKept` (`cursor < announced => requested`) is not inductive: `Apply` clears
the request flag, and only the fact that the version it moves the cursor to is at
least as new as everything announced makes that safe. The inductive invariant adds
to `TypeOK`

* `LockInv`: whoever is past `Acquire` holds the row lock, so there is one such
  transaction, and a webhook commits only while there is none;
* `TargetInv`: the version a synchronization aims at is at least the cursor and at
  least every announced version. A webhook cannot raise `announced` during a
  synchronization (its UPDATE waits for the lock), and a synchronization that has
  not aimed yet will aim at the newest version.

`TypeStep`, `LockStep` and `TargetStep` prove one step per action; `Inductive` joins them.
The argument shows what the code relies on: the row lock is held across the
provider's calls. A handler that wrote without waiting for it would lose news.

About what a patch does, `PatchInv` adds `GotInv` (what a synchronization has collected
is what the version it aims at says, and when it is complete nothing that differs from the
cursor is missing) and `PostedInv` (no version has a posted transaction beside its pending
one). `PatchIsExact` then says that a patch applied to the rows it was computed from gives
the version it aimed at. For one synchronizer `ReplicaInv` adds `Undisturbed`: the rows
it read are still the rows.

### AdvisorPlans_proofs

* `TypeCorrect`: `Spec => []TypeOK`.
* `PlansAreWhole`: `Spec => NoPartOfAPlan`.
* `HistoryAlwaysAgrees`: `PoliteSpec => []HistoryAgrees`.
* `PlansKeepTheirPromise`: `PoliteSpec => ImplementsLifecycle`, the refinement.

`Sound` is inductive whatever overlaps: an open transaction has the shape of its operation,
and an apply still has to write, or has locked, every setting its plan changes
(`Planned`), so `Decide` finds them written. For polite requests `Steady` adds `Faithful`:
what a transaction saw of its plan and its settings is still so. `Bystander` shows that a
request which shares no plan and no setting cannot disturb it. Refinement is then one
lemma per kind of step (`DecideMaps`, `EditMaps`, `CreateMaps`); every other step stutters.

### Household_proofs

* `TypeCorrect`: `Spec => []TypeOK`; administrators have accounts.
* `BudgetsHaveOwners`: `Spec => []OneLevel`.
* `InvitationsLead`: `Spec => []InvitesLead`.

Neither `OneLevel` nor `InvitesLead` is inductive, since a commit acts on what its
request saw earlier. The inductive invariant adds

* `FreshInv`: requests that create an account create different ones that do not
  exist yet. Without it a creation could overwrite a living account and its members;
* `BudgetInv`: the budget a request remembers was somebody's own and still is,
  unless its owner has been deleted. An own budget cannot stop being one: only
  members leave. This is why an invitation that commits late still leads
  to an owner, and why the foreign key on the owner is the only check it needs;
* `AboutInv`: requests about an invitation name one.

`RestStep` has one lemma per kind of step (`BeginKeeps`, `CreationKeeps`,
`InviteKeeps`, `DepartKeeps`, `CloseKeeps`, `EnsureKeeps`). The argument shows what
the code relies on: budgets nest one level deep because members cannot be
owners, not because a constraint says so.

* `InvitationsAlwaysHold`: `Spec => []InvitationsHold`.
* `AlwaysAdministered`: `Spec => []Administered`.
* `NobodyLosesABudget`: `Spec => BudgetsStayUnlessOvertaken`.

`Administered` needs no strengthening but what a request may still do: a setup that commits found
nothing claimed, so there was no administrator; a registration sets `registered`; and a
deletion that was not overtaken takes the administrator only when no other account is left, and then
setup is offered again.

That an invitation admits once, into the budget it was sent from, needs `UseInv` besides:

* `NewInv`: an invitation that is being written is unsent, and written by one request;
* `UsedInv`: one that created an account says so as long as its row exists, so that a later
  acceptance finds it used;
* `LeaveInv`: nobody gets into another budget but at the creation of the account, so a
  request to leave acts on the budget its snapshot showed or on none.

One use, the inviters' membership, the administrators and the members' budgets hold as long as
no request was overtaken: a commit whose checks would fail by then sets `overtaken`. The proofs
show that this is the only way to break them: a commit that is not overtaken
(`NotOvertaken`) still finds the invitation unused, its sender a member, another administrator and
no members as its checks saw them.

### Backups_proofs

* `AlwaysRestorable`: `Spec => []Restorable`, for every retention and period.
* `TypeCorrect`: `Spec => []TypeOK`.
* `StatusAlwaysHonest`: `Spec => []StatusIsHonest`.
* `SuccessAlwaysVerifies`: `Spec => []SuccessVerifies`.
* `RetentionAlwaysHolds`: `Spec => []RetentionHolds`.

The inductive invariant `Safe` adds what a run knows: its stamp is younger than every
archive (`RunIsNewest`); between rename and manifest its archive is there
(`HasArchive`); during retention and until success is recorded it has its manifest too
and is not among the doomed (`HasBackup`). `NewestIsKept` is the fact about retention this needs. The
order in the code carries the argument: retention starts only after the new archive
has its manifest, and success is recorded after that.

`StatusInv` says that while a backup works its row says "running" and the clock has moved by
one unit at most, that a row which says so of no run is one whose end nobody recorded, and that
after a success the newest archive has its manifest and is as recent as the success. `CheckInv`
says that a verification which no backup overlaps looks at the newest archive and that the files
stay as they are until it ends; with `Safe` the manifest it asks for is there.

`RetentionInv` compares the files with `ever`: what retention would keep if no archive had ever been
removed is still there and not doomed. Retention goes by the archives it finds, and earlier runs,
killed or not, decide which those are; `KeptFewer` says that an archive which would be kept if none had
been lost is kept, and `KeptAges` that less is kept as time goes by. `KeptAreFew` bounds the number: one
archive of each day, week and month, at most as many as are configured.

### Services_proofs, alerts

* `MailedAtMostOnce`: `AlertsSpec => []MailedOnce`, for any ledgers, settings, runs and tabs.
* `DismissalHolds`: `AlertsSpec => DismissedStays`.

The inductive invariant `Mailing` says that what a run still has to send is stored and was
never sent (`TodoIsNew`), that no two runs have the same letter, that a run which is not
mailing has none (`OnlyMailing`) and that what a server took was sent (`TakenIsSent`). What
the code relies on is the unique index on fingerprints: it is what makes the letters
of two scans different.

### Services_proofs, sign-in

* `GuessesAlwaysBounded`: `SignInSpec => []GuessesAreBounded`, for any limits and windows.
* `CodesAlwaysOpenOnce`: `FactorSpec => []CodesOpenOnce`.
* `AttemptsAlwaysFew`: `FactorSpec => []AttemptsAreFew`.

`FactorHeld` says that one challenge is valid at a time and one answer holds it
(`OneAnswer`), that a counter which opened a session is not above the last one used
(`CountersUsed`), and that a recovery code which did is in no list that can come back
(`RecoveryUsed`). The row lock of the challenge carries the proof: the list of recovery codes is
written from an unlocked read. `Counted` ties the wrong answers to the challenge's count.

Of passwords, `ThrottleInv` says that the counting windows of a key do not overlap. While one is open,
the stretch that ends now reaches into one earlier window at most (`OpenWindow`), whose first
guess is out of it already: hence twice the limit less two. A window that was blocked is
out of it altogether (`Quiet`), which is what `Block >= Window` is assumed for (both are
fifteen minutes in the code). A row that pruning deletes has counted nothing for longer than a window.

### Services_proofs, connections

* `ConnectionsAlwaysAgree`: `ConnectionSpec => []ConnectionsAgree`.

`ConnectionsHeld` adds that requests are about different items, that an exchanged item is
alive and has no row (`ExchangedIsLive`), that a removed one is gone and has its row
(`RemovedHasRow`), and that whatever row of its bank was committed since an exchange
began belongs to one that overlapped it (`ExchangesOverlap`). What Link named of an item with a row is
among the accounts of that row (`NamedIsShown`), which is what the next exchange is compared with.

### Services_proofs, the processes

* `HeartbeatAlwaysTrue`: `RunsSpec => []HeartbeatIsTrue`.
* `NothingEverLeaks`: `PoolSpec => []NothingLeaks`.

`RunsInv`: while a run goes on it is recorded as running, and as long as it has counted no
failure, whoever it promised to synchronize and nobody did is still to be taken, and not gone.
So a run that ends without a failure has broken no promise. `PoolInv` says where a request may be
that has a connection (`Holding`), a webhook that has one, and the request that has the row: each on
its way to an action that gives it back. Liveness, that it gets there, is TLC's.

### Planning_proofs

* `RulesAlwaysCurrent`: `RulesSpec => []RulesAreCurrent`.
* `TunedAlwaysStays`: `RulesSpec => TunedStays`.
* `ViewsAlwaysAgree`: `RulesSpec => []ViewsAgree`.
* `NothingEverCountedTwice`: `ForecastSpec => []NothingCountedTwice`.

`RulesInv` adds to `RulesAreCurrent` that a transaction which does not exist has no mark
(`AbsentIsUnmarked`): a replaced pending row must leave nothing behind. It holds because each
request ends with the same re-interpretation (`ReapplyStep`). `RulesTyped` says that every
stored row has an amount, a kind and a month. Given this the views are a matter of arithmetic:
each page groups the same transactions by another key, and a total is the sum of the totals of its
groups (`MoneyByKey`, from `TotalGrouped`). The cash flow map, which draws a few ribbons and sums the
others up, adds up because its ribbons are an initial part of the order and the rest is the
remainder (`SourcesAddUp`, `OutletsAddUp`, `FlowIsConserved`). `ForecastType` is all the forecast
needs; `SetAsideOnce` is the fact that the larger of two figures for one obligation is deducted.

### Budget_proofs

* `BudgetAlwaysAddsUp`: `BudgetSpec => []BudgetAddsUp`, for years of any length.
* `PaymentsAlwaysAccounted`: `DebtSpec => []PaymentsAccounted`, for any number of debts and months.
* `AvalancheAlwaysCostsLeast`: `DebtSpec => []AvalancheCostsLeast`, for any number of debts and months.
* `CalendarAlwaysAddsUp`: `CalendarSpec => []CalendarAddsUp`.

**Budget.** `BudgetInv` keeps every stored line in one of its three shapes (`LineFits`): an even
one, a monthly one whose total is the months', a custom one whose months sum up to it. What
is carried into a month is the most that any start since the last interruption leaves (`CarryIsMost`),
by a smallest month that does not satisfy it: the fold and the closed form agree after one
month if they did before (`CarriesOn`).

**Debts.** `DebtInv` says of each simulation (`SimFits`) that balances and payments are what was borrowed
and the interest, that money is idle only when nothing is owed, and that a debt has no
payoff month exactly while it is owed. A month has three stages of payments, each a fold over the debts
in the strategy's order; `PaysKeep` says what a stage keeps (`Remains`: what leaves the pool
leaves the balances) and when it uses everything (`Spent`), by a smallest set of debts that
does not satisfy it.

**The avalanche.** That it costs no more so far is not inductive. `Leads(x, y)` is: x owes no more than
y in all, x was charged no more, and while x owes anything at some rate, y owes no more than x at
any lower one. So of the debts at some rate or above x never owes more in all than y; by that, and a sum
over the rates (`DearestLess`), x is charged no more this month (`InterestLess`). After it x owes
no more in all, since both get the same pool and use it while they owe something (`MonthTotals`). The last part stays true because the avalanche gives a debt more than its minimum and what is
planned for it only when no dearer one is left (`CheaperWaits`), and every strategy gives it that much
(`DuesArePaid`). `LeadInv` adds that what is owed and paid is in the unit of the months left
(`UnitLeft`), so interest is exact in each of them (`MonthIsExact`).

**Calendar.** `CalendarInv` is the type. Two pages meet if a month's last day and the next
month's first one see the same events. `FutureWithin` says that what a narrower pair of days shows is
what a wider one shows between them, unless a pending transaction outside is close, which is
the exception `PathsMeet` names; the proof needs no other. `ArePlanned` says that
each debt is shown, by itself or by a payment that looks like it.

### SumLemmas

The sums and folds of the community modules are recursive functions over the subsets of a
finite set that take whichever element CHOOSE gives. Induction rules cannot be applied
to them here, so each lemma takes a smallest counterexample among the finite subsets
(`HasSmallest`, from the well-foundedness of the subset order). `SumExists` and `FoldExists` show
that the recursive functions exist, `SumsAgree` and `FoldsAgree` that they are unique, `TotalRemoves`
that any element may be taken first; the others (`TotalPlus`, `TotalUnion`, `TotalGrouped`,
`TotalAtMost`, ...) follow.

### What the proofs found about the models

The ribbons of the cash flow map were sorted by amount
alone, which leaves open which of two equal ones is drawn; the code orders them by name, and the
model now does (`Place`). Payments and debt dates were folded over sequences made from sets; they are
folds over sets in the code's order now. That debts, streams and transactions are finitely many
was used and not assumed, and so was that interest is exact, which a comment had said. `AvalancheCostsLeast`
compared strategies only after both had paid everything off; the invariant shows that it holds in every
month, so that is what it says now.

### Only model-checked

Everything under fairness, which is beyond the prover: `RequestServed`, `CatchesUp`,
`RequestsEnd`, `Noticed`, `ItemsAreServed` (of `MinuteJobServes`) and the progress that
`ServerGoesOn` states.

## 6. Where documentation and code disagree

1. `ExactReplica` (`docs/ARCHITECTURE.md:186`, cursor and patch are atomic). The item
   is locked after the snapshot. A synchronization that waited for another one
   does not see the rows that one inserted, so it does not delete those the provider
   removed since, and moves the cursor past the removal.
2. `ChoicesSurvive` (`deploy/README.md:946`, subscription choices survive rebuilds).
   A choice committed between a rebuild's snapshot and its DELETE is lost.
3. `NewerChangesSurvive` (`README.md:521-525`, plans and undos do not overwrite newer
   changes). The precondition is compared with the snapshot; an edit that commits
   before the plan's write is overwritten.
4. `BudgetsStay` (`deploy/README.md:944`, owners cannot delete a budget with
   members). An invited member who joins between the owner's check and the DELETE
   loses the membership to the cascade, and gets an empty budget of its own.

Each needs two requests that overlap. `ExactUnlessStale`, `ImplementsLifecycle` and
`BudgetsStayUnlessOvertaken` say that the same promises hold when none is overtaken.

Met while modelling, visible in the models' actions or in the exceptions of their properties and
without a run of their own:

* **Synchronization.** Streams are rebuilt before the patch of the same synchronization is
  flushed and lag behind it until the next one (`CatchesUp` shows that the safety net
  repairs it). An error webhook that repeats the columns it loaded writes nothing even if a
  synchronization cleared them meanwhile. A refresh that finds an error other than
  `ITEM_LOGIN_REQUIRED` sets no repair flag. What a user set on a pending transaction is lost
  when it posts.
* **The minute job.** An item whose synchronization raises something other than an ApiError
  ends the run; those with a higher identifier wait as long as it stays due. An item
  disconnected between selection and turn makes the run a failed one.
* **The server.** A webhook that waits for a connection or a row stops the event loop, and the
  holders may need the loop to let go: the server then stands still until `pool_timeout` or the
  lock wait ends it.
* **Connections.** An exchange whose commit fails leaves a live item that nobody revokes; a removal
  whose commit fails leaves a row that can be neither synchronized nor removed. Two exchanges of
  one bank that overlap both succeed if the bank's row exists already. The duplicate test
  compares accounts that Link names with stored ones by name and last digits
  (`plaid.py:259-299`), so the same login can be connected twice, one after the other, when Link
  leaves out the bank, the accounts or their names, when other accounts are chosen, or when
  an account was renamed; `README.md:41` and `:181` speak of duplicate-Item prevention without this reserve.
* **Setup.** In the registration mode "open" people can register before setup; the installation then has
  accounts and no administrator until somebody sets it up (`identity.py:323-360`).
* **Plans.** A dismissal that overlaps an apply leaves an applied plan marked as dismissed.
* **Backups.** A killed job stays "running" until its next start and is not
  reported although `deploy/README.md:729` says stale jobs are (the exception in
  `StatusIsHonest`). A backup killed before its manifest leaves a newest archive that
  does not verify until the next backup, although older ones do, and retention may keep it in
  place of a whole one of the same day. A verification that a backup overlaps can fail
  (the exception in `SuccessVerifies`).
* **Budget and views.** A month's and a year's actuals sum all currencies although
  `docs/ARCHITECTURE.md:68` keeps them apart, and the year leaves out uncategorized
  transactions that its months count. An override that calls an outflow a refund takes it out of
  the cash flow map, which `README.md:647` calls conserved. Un-excluding what a rule
  excluded leaves the transaction open to rules again. `minimum_debt_free_date` and
  `planned_debt_free_date` pass over debts that are never paid off.
* **Calendar and forecast.** Of two debts due on one day with similar payments the second is left
  out. A pending transaction between two occurrences stands for both, and is seen from one
  side of a month's border only. Safe-to-spend deducts reserves of goals linked to
  investments from cash. The windows of 30, 60 and 90 days include both ends.
* **Alerts.** A dismissed insight is shown again when a refresh that saw it resolved commits
  after the dismissal. The comment at `insights.py:479` says that refreshes cannot race the
  unique constraint; the lock comes after the snapshot, so the second fails on it. Emails of a
  killed run, or that the server refused, are never sent again.
* **Sign-in.** The window that counts wrong passwords does not slide: up to twice the limit less
  two are answered within fifteen minutes. Confirming an enabled authenticator again with an older
  code makes a used one valid once more.

## 7. Plan

Done: the synchronization of an item and of many, connections, the server's pool, action plans,
family budgets, backups and jobs, the planning pages, alerts, passwords and second factor.
Worth doing next:

1. The transactions of single accounts: a refresh deletes deselected accounts with
   their transactions and leaves the cursor (`PlaidItem` has an item's accounts as one).
2. The key cache of webhook verification under rotation; the fingerprints of imported
   rows; the daily snapshot of reports, an upsert by date.
3. Sessions and password resets beside sign-in; the request limiter of the advisor.

## 8. Not modelled

Rendering, CSV and Markdown, cryptography, HTTP clients, static checks and
migrations: no shared state and nothing concurrent. Sessions and resets work on rows
of one user, preferences and catalogs are single rows. What the language model, the
bank and the mail server answer is external. The note of each component in `PROJECT.json` gives
the reason.
