--------------------------- MODULE OperationalJobs ---------------------------
(***************************************************************************)
(* The heartbeat rows of timer jobs: services/operations.py and _tracked   *)
(* of cli.py.  A job commits that it runs, works, and commits how it       *)
(* ended; if it is killed or the database is away, nobody writes the end.  *)
(***************************************************************************)
EXTENDS Integers

CONSTANTS
  Jobs,
  Window,   \* hours within which each job should succeed, in units of the clock
  NoTime

ASSUME JobsAssumption == Window \in [Jobs -> Nat] /\ NoTime \notin Nat

VARIABLES
  clock,
  rows,       \* operational_jobs: status and last_success_at
  unrecorded  \* history: the last run of the job ended without saying so

jobVars == <<clock, rows, unrecorded>>

JobInit ==
  /\ clock = 0
  /\ rows = [j \in Jobs |-> [status |-> "never", success |-> NoTime]]
  /\ unrecorded = [j \in Jobs |-> FALSE]

RecordStarted(j) ==
  /\ rows' = [rows EXCEPT ![j].status = "running"]
  /\ unrecorded' = [unrecorded EXCEPT ![j] = FALSE]
  /\ UNCHANGED clock

RecordFinished(j, succeeded) ==
  /\ rows' = [rows EXCEPT ![j] = [status  |-> IF succeeded THEN "success" ELSE "failed",
                                  success |-> IF succeeded THEN clock ELSE rows[j].success]]
  /\ UNCHANGED <<clock, unrecorded>>

EndUnrecorded(j) ==
  /\ unrecorded' = [unrecorded EXCEPT ![j] = TRUE]
  /\ UNCHANGED <<clock, rows>>

Stale(j) == rows[j].success = NoTime \/ clock - rows[j].success > Window[j]

(* What the administrator sees. *)
JobStateByStatus(j) ==
  CASE rows[j].status = "never"   -> "attention"
    [] rows[j].status = "success" -> "healthy"
    [] OTHER -> rows[j].status
JobState(j) ==
  CASE rows[j].status = "never"   -> "attention"
    [] rows[j].status = "failed"  -> "failed"
    [] rows[j].status = "running" -> "running"
    [] rows[j].status = "success" -> IF Stale(j) THEN "attention" ELSE "healthy"

JobTypeOK ==
  /\ clock \in Nat
  /\ rows \in [Jobs -> [status : {"never", "running", "success", "failed"}, success : Nat \cup {NoTime}]]
  /\ unrecorded \in [Jobs -> BOOLEAN]
==============================================================================
