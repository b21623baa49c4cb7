------------------------------- MODULE SyncRuns -------------------------------
(***************************************************************************)
(* The synchronization job that systemd starts every minute                *)
(* (sync_all_plaid_items of services/plaid_transactions.py, sync_plaid and *)
(* _tracked of cli.py): it selects the items that are due, synchronizes    *)
(* one after the other and records how it ended.  PlaidItem models what    *)
(* happens inside one synchronization, which is one step here.             *)
(***************************************************************************)
EXTENDS Naturals, FiniteSetsExt

CONSTANTS
  Connected,  \* items, by identifier
  MaxDeaths   \* bound: runs that die

ASSUME SyncRunsAssumption == Connected \subseteq Nat /\ MaxDeaths \in Nat

SyncJob == "plaid_sync"
NoTime == "never"
NoRun == [on |-> FALSE, todo |-> {}, failed |-> FALSE]
Troubles ==
  {"none",
   "unavailable",  \* an ApiError that leaves the item active
   "refused",      \* an item error of the provider
   "broken"}       \* anything else: the token does not decrypt, a row conflicts

VARIABLES
  item,        \* plaid_items: status, late: a synchronization was asked for or is 15 minutes old
  trouble,     \* what a synchronization of the item would meet
  run,         \* the run: items still to be synchronized, whether one failed
  job,         \* operational_jobs
  unrecorded,  \* history: the last run ended without saying so
  promised,    \* history: items the last run was to synchronize and nobody did
  deaths

runVars == <<item, trouble, run, job, unrecorded, promised, deaths>>

(* The times of the heartbeat are left out.                                *)
Job == INSTANCE OperationalJobs WITH
         Jobs <- {SyncJob}, Window <- [j \in {SyncJob} |-> 1], NoTime <- NoTime,
         clock <- 0, rows <- job, unrecorded <- unrecorded

Due(i) == item[i].status = "active" /\ item[i].late

RunsInit ==
  /\ item \in [Connected -> [status : {"active"}, late : BOOLEAN]]
  /\ trouble = [i \in Connected |-> "none"]
  /\ run = NoRun /\ Job!JobInit
  /\ promised = {} /\ deaths = 0

-----------------------------------------------------------------------------
(* A run.                                                                  *)

RunBegins ==
  /\ ~run.on
  /\ LET due == {i \in Connected : Due(i)}
     IN  run' = [on |-> TRUE, todo |-> due, failed |-> FALSE] /\ promised' = due
  /\ Job!RecordStarted(SyncJob)
  /\ UNCHANGED <<item, trouble, deaths>>

(* The items are taken in the order of their identifiers.                  *)
Taken(i) == i \in run.todo /\ i = Min(run.todo)

NextItem(i, failed) == run' = [run EXCEPT !.todo = @ \ {i}, !.failed = @ \/ failed]

Synced(i) == item' = [item EXCEPT ![i] = [status |-> "active", late |-> FALSE]]

SyncSucceeds(i) ==
  /\ Taken(i) /\ item[i].status # "gone" /\ trouble[i] = "none"
  /\ Synced(i) /\ NextItem(i, FALSE)
  /\ promised' = promised \ {i}
  /\ UNCHANGED <<trouble, job, unrecorded, deaths>>

(* Mutants: an ApiError ends the run as well; it is not counted.           *)
BreakAlways == Troubles \ {"none"}
CountNothing(i) == FALSE

Breaks == {"broken"}
CountFailure(i) == TRUE

(* The loop goes on after an ApiError, an item that is gone included.      *)
SyncFails(i) ==
  /\ Taken(i) /\ (item[i].status = "gone" \/ trouble[i] \notin Breaks \cup {"none"})
  /\ item' = IF item[i].status # "gone" /\ trouble[i] = "refused"
             THEN [item EXCEPT ![i].status = "error"] ELSE item
  /\ NextItem(i, CountFailure(i))
  /\ UNCHANGED <<trouble, job, unrecorded, promised, deaths>>

(* The item's owner is gone with it.                                       *)
SyncSkips(i) ==
  /\ Taken(i) /\ item[i].status = "gone"
  /\ NextItem(i, FALSE)
  /\ UNCHANGED <<item, trouble, job, unrecorded, promised, deaths>>

(* Any other exception ends the run: the items behind this one wait.       *)
RunBreaks(i) ==
  /\ Taken(i) /\ item[i].status # "gone" /\ trouble[i] \in Breaks
  /\ run' = NoRun /\ Job!RecordFinished(SyncJob, FALSE)
  /\ UNCHANGED <<item, trouble, promised, deaths>>

(* A success that cannot be recorded is recorded as a failure.             *)
RunEnds ==
  /\ run.on /\ run.todo = {}
  /\ run' = NoRun
  /\ \E recorded \in BOOLEAN : Job!RecordFinished(SyncJob, recorded /\ ~run.failed)
  /\ UNCHANGED <<item, trouble, promised, deaths>>

(* The process is killed, after ten minutes at the latest, or neither end  *)
(* can be recorded.                                                        *)
RunDies ==
  /\ run.on /\ deaths < MaxDeaths
  /\ deaths' = deaths + 1
  /\ run' = NoRun /\ Job!EndUnrecorded(SyncJob)
  /\ UNCHANGED <<item, trouble, promised>>

RunStep ==
  \/ RunBegins \/ RunEnds
  \/ \E i \in Connected : SyncSucceeds(i) \/ SyncFails(i) \/ SyncSkips(i) \/ RunBreaks(i)

-----------------------------------------------------------------------------
(* Everything else.                                                        *)

TabSyncs(i) ==
  /\ item[i].status # "gone" /\ trouble[i] = "none"
  /\ Synced(i) /\ promised' = promised \ {i}
  /\ UNCHANGED <<trouble, run, job, unrecorded, deaths>>

ItemChanges(i) ==
  /\ item[i].status # "gone"
  /\ \/ item' = [item EXCEPT ![i].late = TRUE]     \* fifteen minutes, SYNC_UPDATES_AVAILABLE
     \/ item' = [item EXCEPT ![i].status = "error"] \* ERROR
     \/ item' = [item EXCEPT ![i] = [status |-> "active", late |-> TRUE]]  \* LOGIN_REPAIRED
  /\ UNCHANGED <<trouble, run, job, unrecorded, promised, deaths>>

Disconnected(i) ==
  /\ item[i].status # "gone"
  /\ item' = [item EXCEPT ![i].status = "gone"] /\ promised' = promised \ {i}
  /\ UNCHANGED <<trouble, run, job, unrecorded, deaths>>

TroubleChanges(i) ==
  /\ \E t \in Troubles : trouble' = [trouble EXCEPT ![i] = t]
  /\ UNCHANGED <<item, run, job, unrecorded, promised, deaths>>

RunsNext ==
  \/ RunStep \/ RunDies
  \/ \E i \in Connected : TabSyncs(i) \/ ItemChanges(i) \/ Disconnected(i) \/ TroubleChanges(i)

(* The timer starts a run every minute and a run goes on.                  *)
RunsSpec == RunsInit /\ [][RunsNext]_runVars /\ WF_runVars(RunStep)

-----------------------------------------------------------------------------
(* An item that stays due and without trouble is synchronized, whatever    *)
(* the other items meet; only one before it whose synchronization raises   *)
(* something other than an ApiError keeps it waiting, then for as long as  *)
(* it does (plaid_transactions.py:508-522).                                *)
ItemsAreServed ==
  \A i \in Connected :
    []<>(~Due(i) \/ trouble[i] # "none" \/ \E j \in Connected : j < i /\ trouble[j] = "broken")

(* The heartbeat says success only of runs after which nobody who was due  *)
(* is waiting, and "running" only of a run, or of one that died            *)
(* (cli.py:685-710).                                                       *)
HeartbeatIsTrue ==
  /\ job[SyncJob].status = "success" => promised = {}
  /\ job[SyncJob].status = "running" => run.on \/ unrecorded[SyncJob]

(* The minute job keeps its promise to the items and to the administrator. *)
MinuteJobServes == ItemsAreServed /\ []HeartbeatIsTrue
===============================================================================
