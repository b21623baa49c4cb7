------------------------------ MODULE PlaidItem ------------------------------
(***************************************************************************)
(* One connected bank (a row of plaid_items), the transactions imported    *)
(* from it and the recurring streams derived from them, as they are shared *)
(* by                                                                      *)
(*   - the synchronizations: the one-minute timer's CLI and any number of  *)
(*     "Sync now" requests, each one database transaction that takes the   *)
(*     row lock of the item and keeps it across the provider calls;        *)
(*   - the webhook handler, one at a time on the server's event loop;      *)
(*   - the refresh request that follows a repaired bank login;             *)
(*   - a user tuning a detected subscription, or a transaction or a rule,   *)
(*     which rebuilds the streams.                                         *)
(*                                                                         *)
(* Isolation is InnoDB's default, REPEATABLE READ (core/database.py sets   *)
(* no other): plain SELECTs of a transaction see the snapshot taken by its *)
(* first one, SELECT ... FOR UPDATE and every UPDATE, INSERT and DELETE    *)
(* work on the latest committed rows.  The first SELECT of a request is    *)
(* its session lookup, of the CLI the user lookup, so the snapshot is      *)
(* always older than the row lock.  SQLAlchemy's sessions do not autoflush *)
(* and an UPDATE carries only the columns whose value differs from the one *)
(* that was loaded.                                                        *)
(*                                                                         *)
(* A few operators have a sibling, defined just before them, that is wrong *)
(* the way a bug in the code would be (MutatedKeepsPages, WritableAnyTime, *)
(* ...).  Nothing uses the siblings: they stand in for their operators to  *)
(* show that a property notices.                                           *)
(***************************************************************************)
EXTENDS Naturals, Sequences, FiniteSets

CONSTANTS
  Txns,            \* provider transaction identifiers
  Contents,        \* what a transaction may say
  Absent,          \* no such transaction
  Unsent,          \* not delivered by any page collected so far
  PendingOf,       \* the pending transaction a posted one replaces, or NoTxn
  NoTxn,
  Groups,          \* keys of recurring streams: account, merchant, kind, cadence
  GroupOf,         \* the group a transaction counts for
  MinObservations, \* transactions a stream needs (3 in the code)
  Syncers,         \* processes that can synchronize the item
  Timers,          \* those of them that are the scheduled CLI
  NoOne,
  MaxRestarts,     \* MAX_PAGINATION_RESTARTS (3 in the code)
  Bound            \* how often the environment acts, to keep the model finite

Kinds == {"change", "fault", "hook", "request"}

ASSUME ModelAssumption ==
  /\ Absent \notin Contents /\ Unsent \notin Contents /\ Absent # Unsent
  /\ NoTxn \notin Txns /\ NoOne \notin Syncers
  /\ PendingOf \in [Txns -> Txns \cup {NoTxn}]
  /\ \A t \in Txns : PendingOf[t] # t
  /\ GroupOf \in [Txns -> Groups]
  /\ MinObservations \in Nat \ {0} /\ MaxRestarts \in Nat \ {0}
  /\ Timers \subseteq Syncers
  /\ Bound \in [Kinds -> Nat]

VARIABLES
  ledger,     \* provider: every version of the item's transactions, oldest first
  rows,       \* transactions table
  streams,    \* recurring_streams table, with the user's subscription choice
  cursor,     \* plaid_items.transactions_cursor (1 is NULL)
  requested,  \* plaid_items.sync_requested_at is not NULL
  fresh,      \* plaid_items.transactions_last_synced_at is under 15 minutes old
  health,     \* plaid_items.status, update_required, update_reason
  lock,       \* holder of the item's row lock
  tx,         \* the open database transaction of each syncer
  hook,       \* the webhook being handled
  refresh,    \* the refresh request being handled
  retune,     \* the request being handled that rebuilds the streams
  used,       \* how often the environment has acted
  announced,  \* history: newest version a handled webhook told about
  stale,      \* history: a sync was applied from an outdated snapshot
  raced       \* history: a write to health was based on outdated columns

itemVars == <<cursor, requested, fresh, health>>
historyVars == <<announced, stale, raced>>
vars == <<ledger, rows, streams, itemVars, lock, tx, hook, refresh, retune, used, historyVars>>

-----------------------------------------------------------------------------
(* Data.                                                                   *)

Values == Contents \cup {Absent}
Views == [Txns -> Values]
Patches == [Txns -> Values \cup {Unsent}]
StreamStates == {"none", "auto", "chosen"}

NoRows == [t \in Txns |-> Absent]
NoPatch == [t \in Txns |-> Unsent]
NoStreams == [g \in Groups |-> "none"]

RepairCodes == {"ITEM_LOGIN_REQUIRED", "ITEM_LOCKED"}
OtherCodes == {"INSTITUTION_DOWN"}
ErrorHooks == RepairCodes \cup {"USER_PERMISSION_REVOKED"}
WarningHooks == {"PENDING_DISCONNECT", "NEW_ACCOUNTS_AVAILABLE"}
RequestHooks == {"SYNC_UPDATES_AVAILABLE", "LOGIN_REPAIRED"}
HookCodes == ErrorHooks \cup WarningHooks \cup RequestHooks

Reasons == ErrorHooks \cup WarningHooks \cup {"none"}
Health == [status : {"active", "error"}, required : BOOLEAN, reason : Reasons]

Healthy == [status |-> "active", required |-> FALSE, reason |-> "none"]
Broken(code) == [status |-> "error", required |-> TRUE, reason |-> code]

NoTx == [pc |-> "idle", rows |-> NoRows, streams |-> NoStreams,
         target |-> 0, got |-> NoPatch, attempt |-> 0]
NoHook == [code |-> "none", seen |-> Healthy, version |-> 0]
NoRefresh == [open |-> FALSE, seen |-> Healthy]
NoRetune == [open |-> FALSE, rows |-> NoRows, streams |-> NoStreams]

Latest == ledger[Len(ledger)]

(* The environment spends its budget. *)
Spend(kind) ==
  /\ used[kind] < Bound[kind]
  /\ used' = [used EXCEPT ![kind] = @ + 1]

(* The flush of an ORM object: columns that differ from what was loaded.   *)
Flush(seen, new) ==
  [status   |-> IF new.status   # seen.status   THEN new.status   ELSE health.status,
   required |-> IF new.required # seen.required THEN new.required ELSE health.required,
   reason   |-> IF new.reason   # seen.reason   THEN new.reason   ELSE health.reason]

(* The groups with enough posted transactions to be a recurring stream.    *)
Pendings == {PendingOf[t] : t \in Txns}
Derived(view) ==
  {g \in Groups :
     Cardinality({t \in Txns \ Pendings : view[t] # Absent /\ GroupOf[t] = g})
       >= MinObservations}

-----------------------------------------------------------------------------
(* The provider.                                                           *)

(* Transaction t appears, changes or disappears.  A posted transaction     *)
(* takes the place of its pending one, which does not come back.           *)
ProviderChanges(t, value) ==
  /\ Spend("change")
  /\ value # Latest[t]
  /\ value # Absent => \A u \in Txns : PendingOf[u] = t => Latest[u] = Absent
  /\ ledger' = Append(ledger,
       [u \in Txns |->
          IF u = t THEN value
          ELSE IF value # Absent /\ PendingOf[t] = u THEN Absent
          ELSE Latest[u]])
  /\ UNCHANGED <<rows, streams, itemVars, lock, tx, hook, refresh, retune, historyVars>>

-----------------------------------------------------------------------------
(* Synchronization.                                                        *)

(* The timer's CLI takes an active item that was asked for or is stale;    *)
(* a "Sync now" request takes it whatever its state.                       *)
EligibleOnHintOnly == health.status = "active" /\ requested
Eligible == health.status = "active" /\ (requested \/ ~fresh)

Begin(p) ==
  /\ tx[p].pc = "idle"
  /\ p \in Timers => Eligible
  /\ tx' = [tx EXCEPT ![p] = [NoTx EXCEPT !.pc = "waiting", !.rows = rows, !.streams = streams]]
  /\ UNCHANGED <<ledger, rows, streams, itemVars, lock, hook, refresh, retune, used, historyVars>>

Acquire(p) ==
  /\ tx[p].pc = "waiting"
  /\ lock = NoOne
  /\ lock' = p
  /\ tx' = [tx EXCEPT ![p].pc = "fetching"]
  /\ UNCHANGED <<ledger, rows, streams, itemVars, hook, refresh, retune, used, historyVars>>

(* The end of p's database transaction, committed or rolled back. *)
End(p) ==
  /\ tx' = [tx EXCEPT ![p] = NoTx]
  /\ lock' = IF lock = p THEN NoOne ELSE lock

(* One page of the difference between the cursor and the version at which  *)
(* this pagination started; the last one completes the collection.         *)
Fetch(p) ==
  LET at == IF tx[p].target = 0 THEN Len(ledger) ELSE tx[p].target
      rest == {t \in Txns : ledger[cursor][t] # ledger[at][t] /\ tx[p].got[t] = Unsent}
  IN /\ tx[p].pc = "fetching"
     /\ at = Len(ledger)
     /\ \E page \in SUBSET rest :
          /\ page = {} => rest = {}
          /\ tx' = [tx EXCEPT ![p].target = at,
                              ![p].pc = IF page = rest THEN "complete" ELSE "fetching",
                              ![p].got = [t \in Txns |->
                                 IF t \in page THEN ledger[at][t] ELSE tx[p].got[t]]]
     /\ UNCHANGED <<ledger, rows, streams, itemVars, lock, hook, refresh, retune, used, historyVars>>

(* The provider moved on between two pages: start again from the cursor,   *)
(* or give up.                                                             *)
MutatedKeepsPages(p) ==
  /\ tx[p].pc = "fetching"
  /\ tx[p].target \notin {0, Len(ledger)}
  /\ tx' = [tx EXCEPT ![p].target = 0]
  /\ UNCHANGED <<ledger, rows, streams, itemVars, lock, hook, refresh, retune, used, historyVars>>

Mutated(p) ==
  /\ tx[p].pc = "fetching"
  /\ tx[p].target \notin {0, Len(ledger)}
  /\ IF tx[p].attempt + 1 = MaxRestarts
       THEN End(p)
       ELSE /\ tx' = [tx EXCEPT ![p].target = 0, ![p].got = NoPatch, ![p].attempt = @ + 1]
            /\ UNCHANGED lock
  /\ UNCHANGED <<ledger, rows, streams, itemVars, hook, refresh, retune, used, historyVars>>

(* A provider call is refused; errors of the item itself mark it.          *)
ProviderRefuses(p, code) ==
  /\ tx[p].pc = "fetching"
  /\ Spend("fault")
  /\ health' = IF code \in RepairCodes THEN Broken(code) ELSE health
  /\ End(p)
  /\ UNCHANGED <<ledger, rows, streams, cursor, requested, fresh, hook, refresh, retune, historyVars>>

(* A malformed payload, a lock wait that times out, a token that does not  *)
(* decrypt or the death of the process: nothing of the transaction stays.  *)
Abandon(p) ==
  /\ tx[p].pc # "idle"
  /\ Spend("fault")
  /\ End(p)
  /\ UNCHANGED <<ledger, rows, streams, itemVars, hook, refresh, retune, historyVars>>

Upserted(p) == {t \in Txns : tx[p].got[t] \in Contents}

RemovedPendingOnly(p) ==
  {t \in Txns : tx[p].rows[t] # Absent /\ \E u \in Upserted(p) : PendingOf[u] = t}

(* Rows are deleted, found and compared as the snapshot shows them.        *)
Removed(p) ==
  {t \in Txns : /\ tx[p].rows[t] # Absent
                /\ \/ tx[p].got[t] = Absent
                   \/ \E u \in Upserted(p) : PendingOf[u] = t}

Written(p) == {t \in Upserted(p) : tx[p].got[t] # tx[p].rows[t]}

(* An INSERT meets a row the snapshot did not show, an UPDATE misses one   *)
(* it did: IntegrityError, StaleDataError.                                 *)
Collides(p) == \E t \in Written(p) : (tx[p].rows[t] = Absent) # (rows[t] = Absent)

Patched(p) ==
  [t \in Txns |-> IF t \in Removed(p) THEN Absent
                  ELSE IF t \in Written(p) THEN tx[p].got[t]
                  ELSE rows[t]]

(* Streams are derived anew; a group that stays keeps the user's choice.   *)
Rebuilt(view, choices) ==
  [g \in Groups |-> IF g \notin Derived(view) THEN "none"
                    ELSE IF choices[g] = "chosen" THEN "chosen"
                    ELSE "auto"]

RepairedKeepsReason == IF health.reason = "ITEM_LOGIN_REQUIRED"
                         THEN [Healthy EXCEPT !.reason = "ITEM_LOGIN_REQUIRED"]
                         ELSE [health EXCEPT !.status = "active"]

(* Success clears the repair flag only if it was about the login. *)
Repaired == IF health.reason = "ITEM_LOGIN_REQUIRED"
              THEN Healthy
              ELSE [health EXCEPT !.status = "active"]

(* An empty next_cursor keeps the old one. *)
NextCursorEmptied(p) == IF tx[p].got = NoPatch THEN 0 ELSE tx[p].target
NextCursorKept(p) == cursor
NextCursor(p) == tx[p].target

RequestForgotten == UNCHANGED requested
ClearRequest == requested' = FALSE

(* Streams are rebuilt before the patch is flushed: from the rows and the  *)
(* subscription choices of the snapshot.                                   *)
Apply(p) ==
  /\ tx[p].pc = "complete"
  /\ ~Collides(p)
  /\ rows' = Patched(p)
  /\ streams' = Rebuilt(tx[p].rows, tx[p].streams)
  /\ cursor' = NextCursor(p)
  /\ health' = Repaired
  /\ ClearRequest
  /\ fresh' = TRUE
  /\ stale' = (stale \/ tx[p].rows # rows)
  /\ End(p)
  /\ UNCHANGED <<ledger, hook, refresh, retune, used, announced, raced>>

ApplyFails(p) ==
  /\ tx[p].pc = "complete"
  /\ Collides(p)
  /\ End(p)
  /\ UNCHANGED <<ledger, rows, streams, itemVars, hook, refresh, retune, used, historyVars>>

(* Fifteen minutes without a successful synchronization. *)
AgeOut ==
  /\ fresh
  /\ fresh' = FALSE
  /\ UNCHANGED <<ledger, rows, streams, cursor, requested, health, lock, tx, hook, refresh, retune,
                 used, historyVars>>

-----------------------------------------------------------------------------
(* Webhooks: any verified webhook for the item, at any time, any number of *)
(* times.  The handler loads the row, changes it, and commits.             *)

WritableAnyTime == TRUE

(* An UPDATE of the item waits for the row lock of a synchronization. *)
Writable == lock = NoOne

HookArrives(code) ==
  /\ hook = NoHook
  /\ Spend("hook")
  /\ hook' = [code |-> code, seen |-> health, version |-> Len(ledger)]
  /\ UNCHANGED <<ledger, rows, streams, itemVars, lock, tx, refresh, retune, historyVars>>

HookEffect(code, seen) ==
  CASE code \in ErrorHooks     -> Broken(code)
    [] code \in WarningHooks   -> [seen EXCEPT !.required = TRUE, !.reason = code]
    [] code = "LOGIN_REPAIRED" -> Healthy
    [] OTHER                   -> seen

(* sync_requested_at takes a new time, which always differs from the old. *)
HookCommits ==
  /\ hook # NoHook
  /\ Writable
  /\ health' = Flush(hook.seen, HookEffect(hook.code, hook.seen))
  /\ requested' = (requested \/ hook.code \in RequestHooks)
  /\ announced' = IF hook.code = "SYNC_UPDATES_AVAILABLE" /\ hook.version > announced
                    THEN hook.version ELSE announced
  /\ raced' = (raced \/ hook.seen # health)
  /\ hook' = NoHook
  /\ UNCHANGED <<ledger, rows, streams, cursor, fresh, lock, tx, refresh, retune, used, stale>>

(* The handler dies or its lock wait times out; the provider may retry. *)
HookFails ==
  /\ hook # NoHook
  /\ Spend("fault")
  /\ hook' = NoHook
  /\ UNCHANGED <<ledger, rows, streams, itemVars, lock, tx, refresh, retune, historyVars>>

-----------------------------------------------------------------------------
(* Refresh after an update-mode Link session: the row is read without a    *)
(* lock, the provider is asked, the columns are written.                   *)

RefreshBegins ==
  /\ ~refresh.open
  /\ Spend("request")
  /\ refresh' = [open |-> TRUE, seen |-> health]
  /\ UNCHANGED <<ledger, rows, streams, itemVars, lock, tx, hook, retune, historyVars>>

(* How a refresh can end: everything succeeds; a call after the item's own *)
(* health check fails; the health check fails for an unrelated reason; the *)
(* item reports an error; a call is refused with an error of the item.     *)
RefreshEffects(seen) ==
  {[health |-> Healthy, requests |-> TRUE], [health |-> Healthy, requests |-> FALSE],
   [health |-> seen, requests |-> FALSE]}
  \cup {[health |-> IF code = "ITEM_LOGIN_REQUIRED" THEN Broken(code)
                    ELSE [seen EXCEPT !.status = "error"],
         requests |-> FALSE] : code \in RepairCodes \cup OtherCodes}
  \cup {[health |-> Broken(code), requests |-> FALSE] : code \in RepairCodes}

RefreshCommits ==
  /\ refresh.open
  /\ Writable
  /\ \E effect \in RefreshEffects(refresh.seen) :
       /\ health' = Flush(refresh.seen, effect.health)
       /\ requested' = (requested \/ effect.requests)
  /\ raced' = (raced \/ refresh.seen # health)
  /\ refresh' = NoRefresh
  /\ UNCHANGED <<ledger, rows, streams, cursor, fresh, lock, tx, hook, retune, used, announced, stale>>

-----------------------------------------------------------------------------
(* A user marks, pauses or cancels a detected subscription. *)
ChooseSubscription(g) ==
  /\ streams[g] # "none"
  /\ streams' = [streams EXCEPT ![g] = "chosen"]
  /\ UNCHANGED <<ledger, rows, itemVars, lock, tx, hook, refresh, retune, used, historyVars>>

(* A user tunes a transaction or a rule, or asks for it: the streams are   *)
(* rebuilt, also from the snapshot the request's first SELECT took.        *)
RetuneBegins ==
  /\ ~retune.open
  /\ Spend("request")
  /\ retune' = [open |-> TRUE, rows |-> rows, streams |-> streams]
  /\ UNCHANGED <<ledger, rows, streams, itemVars, lock, tx, hook, refresh, historyVars>>

RetuneCommits ==
  /\ retune.open
  /\ streams' = Rebuilt(retune.rows, retune.streams)
  /\ retune' = NoRetune
  /\ UNCHANGED <<ledger, rows, itemVars, lock, tx, hook, refresh, used, historyVars>>

-----------------------------------------------------------------------------
Init ==
  /\ ledger = << NoRows >>
  /\ rows = NoRows
  /\ streams = NoStreams
  /\ cursor = 1 /\ requested = FALSE /\ fresh = FALSE /\ health = Healthy
  /\ lock = NoOne
  /\ tx = [p \in Syncers |-> NoTx]
  /\ hook = NoHook /\ refresh = NoRefresh /\ retune = NoRetune
  /\ used = [kind \in Kinds |-> 0]
  /\ announced = 1 /\ stale = FALSE /\ raced = FALSE

Step(p) == Fetch(p) \/ Mutated(p) \/ Apply(p) \/ ApplyFails(p)

Sync(p) ==
  \/ Begin(p)
  \/ Acquire(p)
  \/ Step(p)
  \/ \E code \in RepairCodes \cup OtherCodes : ProviderRefuses(p, code)
  \/ Abandon(p)

Hook ==
  \/ \E code \in HookCodes : HookArrives(code)
  \/ HookCommits
  \/ HookFails

Refresh == RefreshBegins \/ RefreshCommits
Retune == RetuneBegins \/ RetuneCommits

Next ==
  \/ \E t \in Txns, value \in Values : ProviderChanges(t, value)
  \/ \E p \in Syncers : Sync(p)
  \/ Hook
  \/ Refresh
  \/ Retune
  \/ \E g \in Groups : ChooseSubscription(g)
  \/ AgeOut

(* The timer fires every minute, time passes, a running synchronization    *)
(* goes on, and InnoDB grants row locks in the order they were asked for.  *)
Fairness ==
  /\ \A p \in Syncers : WF_vars(Step(p)) /\ SF_vars(Acquire(p))
  /\ \A p \in Timers : WF_vars(Begin(p))
  /\ WF_vars(AgeOut)

Spec == Init /\ [][Next]_vars
FairSpec == Spec /\ Fairness

-----------------------------------------------------------------------------
(* Properties.                                                             *)

Transactions ==
  [pc : {"idle", "waiting", "fetching", "complete"}, rows : Views,
   streams : [Groups -> StreamStates], target : 0 .. Len(ledger), got : Patches, attempt : Nat]

TypeOK ==
  /\ ledger \in Seq(Views) /\ ledger # <<>>
  /\ rows \in Views
  /\ streams \in [Groups -> StreamStates]
  /\ cursor \in 1 .. Len(ledger)
  /\ requested \in BOOLEAN /\ fresh \in BOOLEAN
  /\ health \in Health
  /\ lock \in Syncers \cup {NoOne}
  /\ tx \in [Syncers -> Transactions]
  /\ hook \in [code : HookCodes \cup {"none"}, seen : Health, version : 0 .. Len(ledger)]
  /\ refresh \in [open : BOOLEAN, seen : Health]
  /\ retune \in [open : BOOLEAN, rows : Views, streams : [Groups -> StreamStates]]
  /\ used \in [Kinds -> Nat]
  /\ announced \in 1 .. Len(ledger)
  /\ stale \in BOOLEAN /\ raced \in BOOLEAN

(* No webhook's news is forgotten: as long as the cursor is behind a       *)
(* version that a handled SYNC_UPDATES_AVAILABLE webhook told about, the   *)
(* item is marked as sync-needed (api/plaid.py webhook against the reset   *)
(* of sync_requested_at at the end of sync_plaid_item).                    *)
NewsIsKept == cursor < announced => requested

(* Budget's copy is the provider's ledger at the cursor, as long as no     *)
(* synchronization was applied from a snapshot older than another one's    *)
(* commit (the patch loop of sync_plaid_item and its savepoint).           *)
ExactUnlessStale == ~stale => rows = ledger[cursor]

(* Even then no row is ahead of the cursor or made up: each one is what    *)
(* the provider said in some version up to the cursor.                     *)
NoInventedRow ==
  \A t \in Txns : rows[t] # Absent => \E v \in 1 .. cursor : ledger[v][t] = rows[t]

(* The whole item behaves like an atomic copy of the ledger: no crash,     *)
(* page restart or webhook shows a cursor without its patch or a patch     *)
(* without its cursor.                                                     *)
Replica == INSTANCE LedgerReplica WITH ledger <- ledger, cursor <- cursor, rows <- rows
ImplementsReplica == Replica!Spec

(* The repair flag and its reason are written together, unless a handler   *)
(* wrote columns it had loaded before another handler changed them.        *)
FlagsAgree == ~raced => (health.required <=> health.reason # "none")

(* A synchronization that was asked for happens, or the item is in error   *)
(* and waits for its user (sync_all_plaid_items leaves such items out).    *)
RequestServed == requested ~> (~requested \/ health.status = "error")

(* An item that stays active ends up with the provider's latest ledger and *)
(* with streams derived from it, unless a synchronization was applied from *)
(* an outdated snapshot: the 15-minute safety net runs one more after the  *)
(* last change was applied.                                                *)
CatchesUp ==
  <>[](health.status = "active") /\ []~stale
    => <>[](rows = Latest /\ \A g \in Groups : streams[g] # "none" <=> g \in Derived(rows))

-----------------------------------------------------------------------------
(* What the documentation says and the code does not do.                   *)

(* docs/ARCHITECTURE.md 186: the cursor and the local added, modified and  *)
(* removed patch are atomic.                                               *)
ExactReplica == rows = ledger[cursor]

(* deploy/README.md 946: manual subscription choices survive the rebuild   *)
(* of the recurring streams.                                               *)
ChoicesSurvive ==
  [][\A g \in Groups : streams[g] = "chosen" /\ streams'[g] # "none" => streams'[g] = "chosen"]_streams
==============================================================================
