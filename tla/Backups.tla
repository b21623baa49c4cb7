------------------------------- MODULE Backups -------------------------------
(***************************************************************************)
(* Database backups: services/backups.py, run as the jobs of               *)
(* deploy/systemd/budget-db-backup and budget-backup-verify.               *)
(*                                                                         *)
(* Files are named after the time their backup began.  An archive gets its *)
(* name once it is whole, its manifest after that, and retention removes   *)
(* file by file (the .partial file it is written to is no archive).  Every *)
(* run can fail or be killed between two of these.                         *)
(* systemd starts a unit once at a time; the two units may overlap (both   *)
(* timers are persistent and catch up when the machine starts).            *)
(***************************************************************************)
EXTENDS OperationalJobs, FiniteSets

CONSTANTS
  Backup, Verify,             \* keys of the jobs
  PerDay, PerWeek, PerMonth,  \* units of the clock
  Daily, Weekly, Monthly,     \* BACKUP_RETENTION_*
  MaxClock                    \* bound of the model

ASSUME BackupsAssumption ==
  /\ Backup \in Jobs /\ Verify \in Jobs /\ Backup # Verify
  /\ {PerDay, PerWeek, PerMonth} \subseteq Nat \ {0}
  /\ Daily \in Nat \ {0} /\ Weekly \in Nat /\ Monthly \in Nat
  /\ MaxClock \in Nat

VARIABLES
  archives,   \* budget-<stamp>-*.gz, whole
  manifests,  \* budget-<stamp>-*.gz.json
  run,        \* the process of budget-db-backup
  check,      \* the process of budget-backup-verify, or a restore drill
  ever,       \* history: every archive there ever was
  disturbed   \* history: a backup ran during the last verification

files == <<archives, manifests>>
vars == <<jobVars, files, run, check, ever, disturbed>>

Day(t) == t \div PerDay
Week(t) == t \div PerWeek
Month(t) == t \div PerMonth

Newest(S) == CHOOSE t \in S : \A u \in S : u <= t
Whole == archives \cap manifests

-----------------------------------------------------------------------------
(* Retention.                                                              *)

LastOf(S, Period(_), t) == \A u \in S : Period(u) = Period(t) => u <= t
Later(S, Period(_), t) == {Period(u) : u \in {v \in S : Period(v) > Period(t)}}
Among(S, Period(_), most, t) == LastOf(S, Period, t) /\ Cardinality(Later(S, Period, t)) < most

(* Grandfather, father, son: the newest of each recent day, of the last    *)
(* weeks and of the last months that have an archive.                      *)
KeptOfDays(S) ==
  {Newest(S)} \cup {t \in S : LastOf(S, Day, t) /\ Day(clock) - Day(t) < Daily}
KeptFromOldest(S) ==
  {t \in S : (\A u \in S : t <= u) \/ (Day(clock) - Day(t) < Daily /\ \A u \in S : Day(u) = Day(t) => t <= u)}
Kept(S) ==
  {t \in S : \/ t = Newest(S)
             \/ LastOf(S, Day, t) /\ Day(clock) - Day(t) < Daily
             \/ Among(S, Week, Weekly, t)
             \/ Among(S, Month, Monthly, t)}

-----------------------------------------------------------------------------
(* create_backup.                                                          *)

Working == {"dumping", "hashing", "pruning"}
NoRun == [step |-> "idle", stamp |-> NoTime, doomed |-> {}]

BackupBegins ==
  /\ run = NoRun
  /\ clock \notin ever
  /\ RecordStarted(Backup)
  /\ run' = [step |-> "dumping", stamp |-> clock, doomed |-> {}]
  /\ disturbed' = TRUE
  /\ UNCHANGED <<files, check, ever>>

(* The dump is complete and renamed. *)
DumpSucceeds ==
  /\ run.step = "dumping"
  /\ archives' = archives \cup {run.stamp}
  /\ ever' = ever \cup {run.stamp}
  /\ run' = [run EXCEPT !.step = "hashing"]
  /\ UNCHANGED <<jobVars, manifests, check, disturbed>>

(* The manifest is in place; retention lists the directory. *)
WriteManifest ==
  /\ run.step = "hashing"
  /\ manifests' = manifests \cup {run.stamp}
  /\ run' = [run EXCEPT !.step = "pruning", !.doomed = archives \ Kept(archives)]
  /\ UNCHANGED <<jobVars, archives, check, ever, disturbed>>

(* From the newest, first the manifest and then the archive. *)
PruneArchiveFirst ==
  /\ run.step = "pruning"
  /\ \E t \in run.doomed :
       /\ \A u \in run.doomed : u <= t
       /\ IF t \in archives
            THEN archives' = archives \ {t} /\ UNCHANGED <<manifests, run>>
            ELSE /\ manifests' = manifests \ {t}
                 /\ run' = [run EXCEPT !.doomed = @ \ {t}]
                 /\ UNCHANGED archives
  /\ UNCHANGED <<jobVars, check, ever, disturbed>>
Prune ==
  /\ run.step = "pruning"
  /\ \E t \in run.doomed :
       /\ \A u \in run.doomed : u <= t
       /\ IF t \in manifests
            THEN manifests' = manifests \ {t} /\ UNCHANGED <<archives, run>>
            ELSE /\ archives' = archives \ {t}
                 /\ run' = [run EXCEPT !.doomed = @ \ {t}]
                 /\ UNCHANGED manifests
  /\ UNCHANGED <<jobVars, check, ever, disturbed>>

Pruned ==
  /\ run.step = "pruning" /\ run.doomed = {}
  /\ run' = [run EXCEPT !.step = "done"]
  /\ UNCHANGED <<jobVars, files, check, ever, disturbed>>

(* mysqldump fails or the disk is full. *)
BackupFails ==
  /\ run.step \in Working
  /\ run' = [run EXCEPT !.step = "failed"]
  /\ UNCHANGED <<jobVars, files, check, ever, disturbed>>

BackupRecordsSuccess ==
  /\ run.step \in {"done", "failed"}
  /\ IF run.step = "done" THEN RecordFinished(Backup, TRUE) ELSE UNCHANGED jobVars
  /\ run' = NoRun
  /\ UNCHANGED <<files, check, ever, disturbed>>
BackupRecords ==
  /\ run.step \in {"done", "failed"}
  /\ RecordFinished(Backup, run.step = "done")
  /\ run' = NoRun
  /\ UNCHANGED <<files, check, ever, disturbed>>

(* A success that cannot be recorded is tried again as a failure. *)
BackupRecordFails ==
  /\ run.step = "done"
  /\ run' = [run EXCEPT !.step = "failed"]
  /\ UNCHANGED <<jobVars, files, check, ever, disturbed>>

(* Killed, by the machine or after TimeoutStartSec; or neither end can be  *)
(* recorded.                                                               *)
BackupDies ==
  /\ run.step # "idle"
  /\ EndUnrecorded(Backup)
  /\ run' = NoRun
  /\ UNCHANGED <<files, check, ever, disturbed>>

-----------------------------------------------------------------------------
(* verify_backup, and restore_test_backup, which goes on to restore.       *)

NoCheck == [step |-> "idle", stamp |-> NoTime, drill |-> FALSE, since |-> NoTime]

VerifyBegins(drill) ==
  /\ check = NoCheck
  /\ RecordStarted(Verify)
  /\ check' = [step |-> "listing", stamp |-> NoTime, drill |-> drill, since |-> clock]
  /\ disturbed' = (run # NoRun)
  /\ UNCHANGED <<files, run, ever>>

Checks(from, passed, to) ==
  /\ check.step = from
  /\ check' = [check EXCEPT !.step = IF passed THEN to ELSE "failed"]
  /\ UNCHANGED <<jobVars, files, run, ever, disturbed>>

SelectOldest ==
  /\ check.step = "listing"
  /\ check' = IF archives = {} THEN [check EXCEPT !.step = "failed"]
              ELSE [check EXCEPT !.step = "reading", !.stamp = CHOOSE t \in archives : \A u \in archives : t <= u]
  /\ UNCHANGED <<jobVars, files, run, ever, disturbed>>
SelectArchive ==
  /\ check.step = "listing"
  /\ check' = IF archives = {} THEN [check EXCEPT !.step = "failed"]
              ELSE [check EXCEPT !.step = "reading", !.stamp = Newest(archives)]
  /\ UNCHANGED <<jobVars, files, run, ever, disturbed>>
ReadManifest == Checks("reading", check.stamp \in Whole, "comparing")
CompareArchive == Checks("comparing", check.stamp \in archives, IF check.drill THEN "restoring" ELSE "done")
(* The target must be reachable and empty, and take the dump. *)
Restore ==
  \E usable \in BOOLEAN : Checks("restoring", usable /\ check.stamp \in archives, "done")

VerifyRecords ==
  /\ check.step \in {"done", "failed"}
  /\ RecordFinished(Verify, check.step = "done")
  /\ check' = NoCheck
  /\ UNCHANGED <<files, run, ever, disturbed>>

VerifyRecordFails ==
  /\ check.step = "done"
  /\ RecordFinished(Verify, FALSE)
  /\ check' = NoCheck
  /\ UNCHANGED <<files, run, ever, disturbed>>

VerifyDies ==
  /\ check.step # "idle"
  /\ EndUnrecorded(Verify)
  /\ check' = NoCheck
  /\ UNCHANGED <<files, run, ever, disturbed>>

-----------------------------------------------------------------------------
(* TimeoutStartSec ends a run before a unit of time is over. *)
Tick ==
  /\ clock < MaxClock
  /\ run # NoRun => clock = run.stamp
  /\ check # NoCheck => clock = check.since
  /\ clock' = clock + 1
  /\ UNCHANGED <<rows, unrecorded, files, run, check, ever, disturbed>>

Init ==
  /\ JobInit
  /\ archives = {} /\ manifests = {} /\ ever = {}
  /\ run = NoRun /\ check = NoCheck
  /\ disturbed = FALSE

BackupSteps ==
  \/ BackupBegins \/ DumpSucceeds \/ WriteManifest \/ Prune \/ Pruned
  \/ BackupFails \/ BackupRecords \/ BackupRecordFails \/ BackupDies

VerifySteps ==
  \/ \E drill \in BOOLEAN : VerifyBegins(drill)
  \/ SelectArchive \/ ReadManifest \/ CompareArchive \/ Restore
  \/ VerifyRecords \/ VerifyRecordFails \/ VerifyDies

Next == BackupSteps \/ VerifySteps \/ Tick

Spec == Init /\ [][Next]_vars

-----------------------------------------------------------------------------
(* Properties.                                                             *)

TypeOK ==
  /\ JobTypeOK
  /\ archives \subseteq ever /\ manifests \subseteq ever
  /\ ever \subseteq 0 .. clock
  /\ run \in [step : {"idle", "done", "failed"} \cup Working, stamp : Nat \cup {NoTime}, doomed : SUBSET archives]
  /\ check \in [step : {"idle", "listing", "reading", "comparing", "restoring", "done", "failed"},
                stamp : ever \cup {NoTime}, drill : BOOLEAN, since : Nat \cup {NoTime}]
  /\ disturbed \in BOOLEAN

(* docs/ARCHITECTURE.md 321: daily, weekly and monthly archives are kept.  *)
(* However often retention ran or died, the last archive of each recent    *)
(* day, of the latest weeks and of the latest months is still there.       *)
Latest(most, Period(_)) ==
  {p \in {Period(t) : t \in ever} : Cardinality({q \in {Period(t) : t \in ever} : q > p}) < most}
Survives(Period(_), p) == Newest({t \in ever : Period(t) = p}) \in archives
HistoryKept ==
  /\ \A p \in {Day(t) : t \in ever} : Day(clock) - p < Daily => Survives(Day, p)
  /\ \A p \in Latest(Weekly, Week) : Survives(Week, p)
  /\ \A p \in Latest(Monthly, Month) : Survives(Month, p)

(* ... and no more than that, once a backup has succeeded.  Retention goes *)
(* by the archives, so a manifest without one would stay forever.          *)
DiskIsBounded ==
  /\ manifests \subseteq archives
  /\ rows[Backup].status = "success" => Cardinality(archives) <= Daily + Weekly + Monthly

(* What retention keeps and what it removes (backups.py:183-218).          *)
RetentionHolds == HistoryKept /\ DiskIsBounded

(* From the first successful backup on there is always one that can be     *)
(* verified, even while retention is at work or after it was killed.       *)
Restorable == rows[Backup].success # NoTime => Whole # {}

(* A healthy heartbeat is about files that are there and recent; a run may *)
(* take up to one unit of the clock.                                       *)
HealthyIsRecent ==
  JobState(Backup) = "healthy" => \E t \in Whole : clock - t <= Window[Backup] + 1

(* After a backup that succeeded a verification that no other backup       *)
(* overlaps does not fail: latest_backup, which goes by the names in the   *)
(* directory, finds what create_backup left there.                         *)
SuccessVerifies ==
  rows[Backup].status = "success" /\ ~disturbed /\ ~check.drill => check.step # "failed"

(* deploy/README.md 729: a failed or stale job produces an attention       *)
(* state, unless it is at work or its last run could not record its end.   *)
StaleShows ==
  Stale(Backup) /\ run = NoRun /\ ~unrecorded[Backup] => JobState(Backup) \in {"attention", "failed"}

(* The status page says healthy only of backups that are there, and not    *)
(* healthy of those that are late (operations.py:111-170).                 *)
StatusIsHonest == HealthyIsRecent /\ StaleShows
==============================================================================
