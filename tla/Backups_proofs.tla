---------------------------- MODULE Backups_proofs ----------------------------
(***************************************************************************)
(* For every retention, schedule and window, and wherever the runs of the  *)
(* two units fail, die or overlap: there is always a backup to restore,    *)
(* retention keeps what it promises and no more, the status page tells the *)
(* truth, and a verification of an undisturbed backup succeeds.            *)
(***************************************************************************)
EXTENDS Backups, FiniteSetTheorems, TLAPS

Run == [step : {"idle", "done", "failed"} \cup Working, stamp : Nat \cup {NoTime}, doomed : SUBSET Nat]
Row == [status : {"never", "running", "success", "failed"}, success : Nat \cup {NoTime}]

(* A run at work is younger than every archive, and what it dooms does not *)
(* contain the archive it has just made.                                   *)
RunIsNewest ==
  run.step # "idle" => /\ run.stamp \in Nat /\ run.stamp <= clock
                       /\ \A t \in ever : t <= run.stamp
HasArchive == run.step = "hashing" => run.stamp \in archives
HasBackup ==
  run.step \in {"pruning", "done"} => run.stamp \in archives \cap manifests /\ run.stamp \notin run.doomed

Safe ==
  /\ clock \in Nat /\ run \in Run
  /\ ever \subseteq 0 .. clock /\ archives \subseteq ever
  /\ rows \in [Jobs -> Row]
  /\ RunIsNewest /\ HasArchive /\ HasBackup
  /\ Restorable

(* The newest archive is the one no other is younger than. *)
LEMMA NewestIs ==
  ASSUME NEW S \in SUBSET Nat, NEW t \in S, \A u \in S : u <= t
  PROVE  Newest(S) = t
<1>1. Newest(S) \in S /\ \A u \in S : u <= Newest(S)
  BY DEF Newest
<1>2. Newest(S) \in Nat /\ t \in Nat
  BY <1>1
<1> QED
  BY <1>1, <1>2

(* Retention never dooms the newest archive. *)
LEMMA NewestIsKept ==
  ASSUME NEW S \in SUBSET Nat, NEW t \in S, \A u \in S : u <= t
  PROVE  t \in Kept(S)
  BY NewestIs DEF Kept

LEMMA SafeInit == Init => Safe
  BY JobsAssumption, BackupsAssumption
  DEF Init, JobInit, Safe, Run, Row, NoRun, RunIsNewest, HasArchive, HasBackup, Restorable, Whole, Working

(* Steps that do not touch the files or the heartbeat of the backup.       *)
LEMMA SafeBegins == Safe /\ BackupBegins => Safe'
  BY JobsAssumption, BackupsAssumption
  DEF Safe, BackupBegins, RecordStarted, Run, Row, NoRun, files, RunIsNewest, HasArchive, HasBackup, Restorable, Whole, Working

LEMMA SafeDump == Safe /\ DumpSucceeds => Safe'
  BY JobsAssumption, BackupsAssumption
  DEF Safe, DumpSucceeds, jobVars, Run, RunIsNewest, HasArchive, HasBackup, Restorable, Whole, Working

LEMMA SafeManifest == Safe /\ WriteManifest => Safe'
<1> SUFFICES ASSUME Safe, WriteManifest PROVE Safe'
  OBVIOUS
<1>1. run.stamp \in archives /\ run.stamp \in Nat /\ archives \subseteq Nat /\ \A u \in archives : u <= run.stamp
  BY DEF Safe, WriteManifest, RunIsNewest, HasArchive
<1>2. run.stamp \in Kept(archives)
  BY <1>1, NewestIsKept
<1>3. run' = [run EXCEPT !.step = "pruning", !.doomed = archives \ Kept(archives)]
  BY DEF WriteManifest
<1>4. run' \in Run /\ run'.step = "pruning" /\ run'.stamp = run.stamp /\ run'.doomed = archives \ Kept(archives)
  BY <1>1, <1>3 DEF Safe, Run, Working
<1>5. UNCHANGED <<clock, rows, archives, ever>> /\ manifests' = manifests \cup {run.stamp}
  BY DEF WriteManifest, jobVars
<1>6. RunIsNewest' /\ HasArchive' /\ HasBackup'
  BY <1>1, <1>2, <1>4, <1>5 DEF Safe, WriteManifest, RunIsNewest, HasArchive, HasBackup
<1>7. Restorable'
  BY <1>1, <1>5 DEF Restorable, Whole
<1> QED
  BY <1>4, <1>5, <1>6, <1>7 DEF Safe

LEMMA SafePrune == Safe /\ Prune => Safe'
<1> SUFFICES ASSUME Safe, Prune PROVE Safe'
  OBVIOUS
<1>1. PICK t \in run.doomed :
        IF t \in manifests
          THEN manifests' = manifests \ {t} /\ UNCHANGED <<archives, run>>
          ELSE /\ archives' = archives \ {t}
               /\ run' = [run EXCEPT !.doomed = @ \ {t}]
               /\ UNCHANGED manifests
  BY DEF Prune
<1>2. t # run.stamp /\ run.stamp \in archives \cap manifests /\ run.stamp \notin run.doomed
  BY DEF Safe, Prune, HasBackup
<1>3. run' \in Run /\ run'.step = "pruning" /\ run'.stamp = run.stamp /\ run'.doomed \subseteq run.doomed
  BY <1>1 DEF Safe, Prune, Run
<1>4. archives' \subseteq archives /\ run.stamp \in archives' \cap manifests'
  BY <1>1, <1>2
<1>5. UNCHANGED <<clock, rows, ever>> /\ run.step = "pruning"
  BY DEF Prune, jobVars
<1>6. RunIsNewest' /\ HasArchive' /\ HasBackup'
  BY <1>2, <1>3, <1>4, <1>5 DEF Safe, RunIsNewest, HasArchive, HasBackup
<1>7. Restorable'
  BY <1>4 DEF Restorable, Whole
<1> QED
  BY <1>3, <1>4, <1>5, <1>6, <1>7 DEF Safe

LEMMA SafeEnds == Safe /\ (Pruned \/ BackupFails \/ BackupRecordFails \/ BackupDies) => Safe'
<1> USE JobsAssumption, BackupsAssumption
    DEF Safe, files, jobVars, Run, NoRun, RunIsNewest, HasArchive, HasBackup, Restorable, Whole, Working
<1>1. Safe /\ Pruned => Safe'
  BY DEF Pruned
<1>2. Safe /\ BackupFails => Safe'
  BY DEF BackupFails
<1>3. Safe /\ BackupRecordFails => Safe'
  BY DEF BackupRecordFails
<1>4. Safe /\ BackupDies => Safe'
  BY DEF BackupDies, EndUnrecorded
<1> QED
  BY <1>1, <1>2, <1>3, <1>4

LEMMA SafeRecords == Safe /\ BackupRecords => Safe'
  BY JobsAssumption, BackupsAssumption
  DEF Safe, BackupRecords, RecordFinished, files, Run, Row, NoRun, RunIsNewest, HasArchive, HasBackup, Restorable, Whole, Working

(* A verification writes no file and only its own heartbeat. *)
LEMMA SafeVerify == Safe /\ VerifySteps => Safe'
<1> SUFFICES ASSUME Safe, VerifySteps PROVE Safe'
  OBVIOUS
<1>1. UNCHANGED <<clock, archives, manifests, run, ever>>
  BY DEF VerifySteps, VerifyBegins, RecordStarted, SelectArchive, ReadManifest, CompareArchive, Restore, Checks,
         VerifyRecords, VerifyRecordFails, VerifyDies, RecordFinished, EndUnrecorded, files, jobVars
<1>2. /\ rows' \in [Jobs -> Row]
      /\ rows'[Backup] = rows[Backup]
  <2>1. rows' = rows \/ RecordStarted(Verify) \/ \E ok \in BOOLEAN : RecordFinished(Verify, ok)
    BY DEF VerifySteps, VerifyBegins, SelectArchive, ReadManifest, CompareArchive, Restore, Checks,
           VerifyRecords, VerifyRecordFails, VerifyDies, EndUnrecorded, jobVars
  <2> QED
    BY <2>1, JobsAssumption, BackupsAssumption DEF Safe, Row, RecordStarted, RecordFinished
<1> QED
  BY <1>1, <1>2 DEF Safe, Run, RunIsNewest, HasArchive, HasBackup, Restorable, Whole

LEMMA SafeTick == Safe /\ Tick => Safe'
  BY DEF Safe, Tick, files, Run, RunIsNewest, HasArchive, HasBackup, Restorable, Whole

LEMMA SafeStutters == Safe /\ UNCHANGED vars => Safe'
  BY DEF Safe, vars, jobVars, files, RunIsNewest, HasArchive, HasBackup, Restorable, Whole

LEMMA SafeStep == Safe /\ [Next]_vars => Safe'
  BY SafeBegins, SafeDump, SafeManifest, SafePrune, SafeEnds, SafeRecords, SafeVerify, SafeTick, SafeStutters
  DEF Next, BackupSteps

(* Whatever runs fail or are killed, and wherever, once a backup has       *)
(* succeeded an archive with its manifest is on disk (backups.py 183-255). *)
THEOREM AlwaysRestorable == Spec => []Restorable
<1>1. Safe => Restorable
  BY DEF Safe
<1> QED
  BY <1>1, SafeInit, SafeStep, PTL DEF Spec

-----------------------------------------------------------------------------
(* Types.  The archives form a finite set of numbers: the newest is one of *)
(* them.                                                                   *)

LEMMA HasNewest ==
  ASSUME NEW S \in SUBSET Nat, NEW n \in Nat, \A t \in S : t <= n, S # {}
  PROVE  /\ Newest(S) \in S
         /\ \A u \in S : u <= Newest(S)
<1> DEFINE gaps == {g \in Nat : n - g \in S}
<1>1. gaps \subseteq Nat /\ gaps # {}
  <2>1. PICK t \in S : TRUE
    OBVIOUS
  <2>2. n - t \in gaps
    OBVIOUS
  <2> QED
    BY <2>2
<1>2. PICK g \in gaps : \A h \in gaps : ~(<<h, g>> \in OpToRel(<, Nat))
  BY <1>1, NatLessThanWellFounded, WFMin
<1>3. \A h \in gaps : g <= h
  <2> SUFFICES ASSUME NEW h \in gaps, h < g PROVE FALSE
    OBVIOUS
  <2>1. <<h, g>> \in OpToRel(<, Nat)
    BY DEF OpToRel
  <2> QED
    BY <1>2, <2>1
<1>4. \E t \in S : \A u \in S : u <= t
  <2>1. \A u \in S : n - u \in gaps
    OBVIOUS
  <2> QED
    BY <1>3, <2>1
<1> QED
  BY <1>4 DEF Newest

LEMMA SomeHaveNewest ==
  ASSUME Safe, NEW S \in SUBSET ever, S # {}
  PROVE  Newest(S) \in S /\ \A u \in S : u <= Newest(S)
<1>1. S \in SUBSET Nat /\ clock \in Nat /\ \A t \in S : t <= clock
  BY DEF Safe
<1> QED
  BY <1>1, HasNewest

(* What the rows of a job become when it begins or ends. *)
LEMMA RowTypes ==
  ASSUME JobTypeOK, NEW j \in Jobs
  PROVE  /\ RecordStarted(j) => JobTypeOK'
         /\ \A ok \in BOOLEAN : RecordFinished(j, ok) => JobTypeOK'
         /\ EndUnrecorded(j) => JobTypeOK'
<1>1. \A b \in BOOLEAN : [unrecorded EXCEPT ![j] = b] \in [Jobs -> BOOLEAN]
  BY Zenon DEF JobTypeOK
<1>2. RecordStarted(j) => JobTypeOK'
  BY <1>1 DEF RecordStarted, JobTypeOK
<1>3. EndUnrecorded(j) => JobTypeOK'
  BY <1>1 DEF EndUnrecorded, JobTypeOK
<1>4. \A ok \in BOOLEAN : RecordFinished(j, ok) => JobTypeOK'
  BY DEF RecordFinished, JobTypeOK
<1> QED
  BY <1>2, <1>3, <1>4

LEMMA TypesInit == Init => TypeOK
<1> SUFFICES ASSUME Init PROVE TypeOK
  OBVIOUS
<1>1. JobTypeOK /\ clock = 0
  BY JobsAssumption DEF Init, JobInit, JobTypeOK
<1>2. archives \subseteq ever /\ manifests \subseteq ever /\ ever \subseteq 0 .. clock /\ disturbed \in BOOLEAN
  BY <1>1 DEF Init
<1>3. run \in [step : {"idle", "done", "failed"} \cup Working, stamp : Nat \cup {NoTime}, doomed : SUBSET archives]
  BY DEF Init, NoRun
<1>4. check \in [step : {"idle", "listing", "reading", "comparing", "restoring", "done", "failed"},
                 stamp : ever \cup {NoTime}, drill : BOOLEAN, since : Nat \cup {NoTime}]
  BY DEF Init, NoCheck
<1> QED
  BY <1>1, <1>2, <1>3, <1>4 DEF TypeOK

LEMMA TypesBackup == TypeOK /\ Safe /\ BackupSteps => TypeOK'
<1> SUFFICES ASSUME TypeOK, Safe, BackupSteps PROVE TypeOK'
  OBVIOUS
<1> USE JobsAssumption, BackupsAssumption DEF TypeOK, jobVars, files, NoRun, Working
<1>1. CASE BackupBegins
  BY <1>1, RowTypes DEF BackupBegins, RecordStarted, JobTypeOK
<1>2. CASE DumpSucceeds
  BY <1>2 DEF DumpSucceeds, JobTypeOK, Safe, RunIsNewest
<1>3. CASE WriteManifest
  BY <1>3 DEF WriteManifest, JobTypeOK, Safe, HasArchive
<1>4. CASE Prune
  BY <1>4 DEF Prune, JobTypeOK
<1>5. CASE Pruned \/ BackupFails \/ BackupRecordFails
  BY <1>5 DEF Pruned, BackupFails, BackupRecordFails, JobTypeOK
<1>6. CASE BackupRecords
  <2>1. JobTypeOK'
    BY <1>6, RowTypes, Zenon DEF BackupRecords
  <2> QED
    BY <1>6, <2>1 DEF BackupRecords, RecordFinished
<1>7. CASE BackupDies
  BY <1>7, RowTypes DEF BackupDies, EndUnrecorded
<1> QED
  BY <1>1, <1>2, <1>3, <1>4, <1>5, <1>6, <1>7 DEF BackupSteps

LEMMA TypesVerify == TypeOK /\ Safe /\ VerifySteps => TypeOK'
<1> SUFFICES ASSUME TypeOK, Safe, VerifySteps PROVE TypeOK'
  OBVIOUS
<1> USE JobsAssumption, BackupsAssumption DEF TypeOK, jobVars, files, NoRun, NoCheck
<1>1. CASE \E drill \in BOOLEAN : VerifyBegins(drill)
  BY <1>1, RowTypes DEF VerifyBegins, RecordStarted, JobTypeOK
<1>2. CASE SelectArchive
  BY <1>2, SomeHaveNewest DEF SelectArchive, JobTypeOK
<1>3. CASE ReadManifest \/ CompareArchive \/ Restore
  BY <1>3 DEF ReadManifest, CompareArchive, Restore, Checks, JobTypeOK
<1>4. CASE VerifyRecords \/ VerifyRecordFails \/ VerifyDies
  <2>1. JobTypeOK' /\ UNCHANGED <<clock, files, run, ever, disturbed>> /\ check' = NoCheck
    BY <1>4, RowTypes, Zenon DEF VerifyRecords, VerifyRecordFails, VerifyDies, RecordFinished, EndUnrecorded
  <2> QED
    BY <2>1
<1> QED
  BY <1>1, <1>2, <1>3, <1>4 DEF VerifySteps

LEMMA TypesStep == TypeOK /\ Safe /\ [Next]_vars => TypeOK'
<1> SUFFICES ASSUME TypeOK, Safe, [Next]_vars PROVE TypeOK'
  OBVIOUS
<1>1. CASE Tick
  BY <1>1 DEF Tick, TypeOK, JobTypeOK, files
<1>2. CASE UNCHANGED vars
  BY <1>2 DEF vars, jobVars, files, TypeOK, JobTypeOK
<1> QED
  BY <1>1, <1>2, TypesBackup, TypesVerify DEF Next

(* Files, rows and processes are well formed; a verification looks at an   *)
(* archive there has been (backups.py:183-330).                            *)
THEOREM TypeCorrect == Spec => []TypeOK
  BY SafeInit, SafeStep, TypesInit, TypesStep, PTL DEF Spec

-----------------------------------------------------------------------------
(* The status page.  While a backup is at work its row says so, and the    *)
(* clock has moved by one unit at most; a row that still says so of no run *)
(* is one whose end nobody recorded; after a success the newest archive    *)
(* has its manifest and is as recent as the success.                       *)
StatusInv ==
  /\ run.step = "idle" => run = NoRun
  /\ run.step # "idle" => rows[Backup].status = "running" /\ clock <= run.stamp + 1
  /\ rows[Backup].status = "running" => run # NoRun \/ unrecorded[Backup]
  /\ rows[Backup].status = "success" =>
       /\ rows[Backup].success \in Nat
       /\ Newest(archives) \in Whole /\ rows[Backup].success <= Newest(archives) + 1

LEMMA StatusInit == Init => StatusInv
  BY BackupsAssumption DEF Init, JobInit, StatusInv, NoRun

LEMMA StatusBegins == Safe /\ TypeOK /\ StatusInv /\ BackupBegins => StatusInv'
  BY BackupsAssumption DEF Safe, TypeOK, JobTypeOK, StatusInv, BackupBegins, RecordStarted, NoRun

(* A run at work, and one that fails, leaves the row as it is. *)
LEMMA StatusWorks ==
  ASSUME StatusInv, run.step # "idle", run'.step # "idle", run'.stamp = run.stamp, UNCHANGED jobVars
  PROVE  StatusInv'
  BY DEF StatusInv, jobVars, NoRun

LEMMA WorkingSteps ==
  ASSUME TypeOK, DumpSucceeds \/ WriteManifest \/ Prune \/ Pruned \/ BackupFails \/ BackupRecordFails
  PROVE  run.step # "idle" /\ run'.step # "idle" /\ run'.stamp = run.stamp /\ UNCHANGED jobVars
<1> USE DEF TypeOK, Working
<1>1. DumpSucceeds \/ WriteManifest \/ Pruned \/ BackupFails \/ BackupRecordFails
        => run.step # "idle" /\ run'.step # "idle" /\ run'.stamp = run.stamp /\ UNCHANGED jobVars
  BY DEF DumpSucceeds, WriteManifest, Pruned, BackupFails, BackupRecordFails
<1>2. Prune => run.step # "idle" /\ run'.step # "idle" /\ run'.stamp = run.stamp /\ UNCHANGED jobVars
  BY DEF Prune
<1> QED
  BY <1>1, <1>2

(* The archive of a run that is done is the newest there is, and whole.    *)
LEMMA DoneIsNewest ==
  ASSUME Safe, run.step = "done"
  PROVE  Newest(archives) = run.stamp /\ run.stamp \in Whole /\ run.stamp \in Nat
<1>1. run.stamp \in archives \cap manifests /\ run.stamp \in Nat
  BY DEF Safe, HasBackup, RunIsNewest
<1>2. archives \in SUBSET Nat /\ \A u \in archives : u <= run.stamp
  BY DEF Safe, RunIsNewest
<1> QED
  BY <1>1, <1>2, NewestIs DEF Whole

LEMMA StatusRecords == Safe /\ TypeOK /\ StatusInv /\ BackupRecords => StatusInv'
<1> SUFFICES ASSUME Safe, TypeOK, StatusInv, BackupRecords PROVE StatusInv'
  OBVIOUS
<1>1. run' = NoRun /\ UNCHANGED <<clock, files, unrecorded>> /\ run.step # "idle"
  BY DEF BackupRecords, RecordFinished
<1>2. CASE run.step = "done"
  <2>1. rows'[Backup].status = "success" /\ rows'[Backup].success = clock
    BY <1>2, BackupsAssumption DEF BackupRecords, RecordFinished, TypeOK, JobTypeOK
  <2>2. clock <= Newest(archives) + 1 /\ Newest(archives) \in Whole /\ clock \in Nat
    BY <1>2, DoneIsNewest DEF StatusInv, Safe
  <2>3. Newest(archives)' = Newest(archives) /\ Whole' = Whole
    BY <1>1 DEF files, Newest, Whole
  <2> QED
    BY <1>1, <2>1, <2>2, <2>3 DEF StatusInv, NoRun
<1>3. CASE run.step = "failed"
  <2>1. rows'[Backup].status = "failed"
    BY <1>3, BackupsAssumption DEF BackupRecords, RecordFinished, TypeOK, JobTypeOK
  <2> QED
    BY <1>1, <2>1 DEF StatusInv, NoRun
<1> QED
  BY <1>2, <1>3 DEF BackupRecords

LEMMA StatusDies == Safe /\ TypeOK /\ StatusInv /\ BackupDies => StatusInv'
<1> SUFFICES ASSUME Safe, TypeOK, StatusInv, BackupDies PROVE StatusInv'
  OBVIOUS
<1>1. run' = NoRun /\ UNCHANGED <<clock, rows, files>> /\ rows[Backup].status = "running"
  BY DEF BackupDies, EndUnrecorded, StatusInv
<1>2. unrecorded'[Backup]
  BY BackupsAssumption, Zenon DEF BackupDies, EndUnrecorded, TypeOK, JobTypeOK
<1> QED
  BY <1>1, <1>2 DEF StatusInv, NoRun

(* A verification leaves the files and everything about the backup.        *)
LEMMA VerifyLeaves ==
  ASSUME TypeOK, VerifySteps
  PROVE  /\ UNCHANGED <<clock, archives, manifests, run, ever>>
         /\ rows'[Backup] = rows[Backup]
         /\ unrecorded'[Backup] = unrecorded[Backup]
<1>1. UNCHANGED <<clock, archives, manifests, run, ever>>
  BY DEF VerifySteps, VerifyBegins, RecordStarted, SelectArchive, ReadManifest, CompareArchive, Restore, Checks,
         VerifyRecords, VerifyRecordFails, VerifyDies, RecordFinished, EndUnrecorded, files, jobVars
<1>2. \/ UNCHANGED <<rows, unrecorded>>
      \/ RecordStarted(Verify) \/ EndUnrecorded(Verify) \/ \E ok \in BOOLEAN : RecordFinished(Verify, ok)
  BY DEF VerifySteps, VerifyBegins, SelectArchive, ReadManifest, CompareArchive, Restore, Checks,
         VerifyRecords, VerifyRecordFails, VerifyDies, jobVars
<1>3. rows'[Backup] = rows[Backup]
  BY <1>2, BackupsAssumption DEF RecordStarted, RecordFinished, EndUnrecorded, TypeOK, JobTypeOK
<1>4. \A b : [unrecorded EXCEPT ![Verify] = b][Backup] = unrecorded[Backup]
  BY BackupsAssumption, Zenon DEF TypeOK, JobTypeOK
<1>5. unrecorded'[Backup] = unrecorded[Backup]
  <2>1. CASE UNCHANGED <<rows, unrecorded>>
    BY <2>1
  <2>2. CASE RecordStarted(Verify)
    BY <2>2, <1>4 DEF RecordStarted
  <2>3. CASE EndUnrecorded(Verify)
    BY <2>3, <1>4 DEF EndUnrecorded
  <2>4. CASE \E ok \in BOOLEAN : RecordFinished(Verify, ok)
    BY <2>4 DEF RecordFinished
  <2> QED
    BY <1>2, <2>1, <2>2, <2>3, <2>4
<1> QED
  BY <1>1, <1>3, <1>5

LEMMA StatusStep == Safe /\ TypeOK /\ StatusInv /\ [Next]_vars => StatusInv'
<1> SUFFICES ASSUME Safe, TypeOK, StatusInv, [Next]_vars PROVE StatusInv'
  OBVIOUS
<1>1. CASE DumpSucceeds \/ WriteManifest \/ Prune \/ Pruned \/ BackupFails \/ BackupRecordFails
  BY <1>1, StatusWorks, WorkingSteps
<1>2. CASE VerifySteps
  BY <1>2, VerifyLeaves DEF StatusInv, Whole, Newest
<1>3. CASE Tick
  BY <1>3 DEF Tick, files, StatusInv, NoRun, TypeOK, JobTypeOK, Whole, Newest
<1>4. CASE UNCHANGED vars
  BY <1>4 DEF vars, jobVars, files, StatusInv, Whole, Newest
<1> QED
  BY <1>1, <1>2, <1>3, <1>4, StatusBegins, StatusRecords, StatusDies DEF Next, BackupSteps

LEMMA StatusIs == Safe /\ TypeOK /\ StatusInv => StatusIsHonest
<1> SUFFICES ASSUME Safe, TypeOK, StatusInv PROVE HealthyIsRecent /\ StaleShows
  BY DEF StatusIsHonest
<1>1. rows[Backup].status \in {"never", "running", "success", "failed"} /\ Window[Backup] \in Nat /\ clock \in Nat
  BY JobsAssumption, BackupsAssumption DEF TypeOK, JobTypeOK
<1>2. HealthyIsRecent
  <2> SUFFICES ASSUME JobState(Backup) = "healthy" PROVE \E t \in Whole : clock - t <= Window[Backup] + 1
    BY DEF HealthyIsRecent
  <2>1. rows[Backup].status = "success" /\ ~Stale(Backup)
    BY <1>1 DEF JobState
  <2>2. clock - rows[Backup].success <= Window[Backup] /\ rows[Backup].success \in Nat
    BY <2>1, <1>1 DEF Stale, StatusInv
  <2>3. Newest(archives) \in Whole /\ rows[Backup].success <= Newest(archives) + 1
    BY <2>1 DEF StatusInv
  <2>4. archives \in SUBSET Nat
    BY DEF Safe
  <2>5. Newest(archives) \in Nat
    BY <2>3, <2>4 DEF Whole
  <2>6. clock - Newest(archives) <= Window[Backup] + 1
    BY <1>1, <2>2, <2>3, <2>5
  <2> QED
    BY <2>3, <2>6
<1>3. StaleShows
  BY <1>1 DEF StaleShows, JobState, StatusInv
<1> QED
  BY <1>2, <1>3

(* Healthy means a recent backup with its manifest, and a late backup      *)
(* shows unless it is at work or could not record its end                  *)
(* (operations.py:111-170).                                                *)
THEOREM StatusAlwaysHonest == Spec => []StatusIsHonest
  BY SafeInit, SafeStep, TypesInit, TypesStep, StatusInit, StatusStep, StatusIs, PTL DEF Spec

-----------------------------------------------------------------------------
(* A verification that no backup overlaps looks at the newest archive, and *)
(* the files stay as they are until it ends.                               *)
CheckInv ==
  /\ check.step = "restoring" => check.drill
  /\ check.step # "idle" /\ ~disturbed =>
       /\ run = NoRun
       /\ check.step \in {"reading", "comparing", "restoring", "done"} => check.stamp = Newest(archives)
       /\ check.step = "failed" /\ ~check.drill => rows[Backup].status # "success"

LEMMA CheckInit == Init => CheckInv
  BY DEF Init, CheckInv, NoCheck

(* While a backup is at work every verification is a disturbed one.        *)
LEMMA CheckBackup == CheckInv /\ BackupSteps => CheckInv'
<1> SUFFICES ASSUME CheckInv, BackupSteps PROVE CheckInv'
  OBVIOUS
<1>1. CASE BackupBegins
  BY <1>1 DEF BackupBegins, CheckInv
<1>2. CASE ~BackupBegins
  <2>1. run # NoRun
    BY <1>2 DEF BackupSteps, DumpSucceeds, WriteManifest, Prune, Pruned, BackupFails, BackupRecords,
                BackupRecordFails, BackupDies, NoRun, Working
  <2>2. UNCHANGED <<check, disturbed>>
    BY <1>2 DEF BackupSteps, DumpSucceeds, WriteManifest, Prune, Pruned, BackupFails, BackupRecords,
                BackupRecordFails, BackupDies
  <2> QED
    BY <2>1, <2>2 DEF CheckInv
<1> QED
  BY <1>1, <1>2

LEMMA CheckVerify == TypeOK /\ StatusInv /\ CheckInv /\ VerifySteps => CheckInv'
<1> SUFFICES ASSUME TypeOK, StatusInv, CheckInv, VerifySteps PROVE CheckInv'
  OBVIOUS
<1>1. UNCHANGED <<archives, manifests, run>> /\ rows'[Backup].status = rows[Backup].status
      /\ Newest(archives)' = Newest(archives)
  BY VerifyLeaves DEF Newest
<1>2. CASE \E drill \in BOOLEAN : VerifyBegins(drill)
  <2>1. PICK drill \in BOOLEAN : VerifyBegins(drill)
    BY <1>2
  <2>2. check'.step = "listing" /\ (~disturbed' => run = NoRun)
    BY <2>1 DEF VerifyBegins
  <2> QED
    BY <1>1, <2>2 DEF CheckInv
<1>3. CASE SelectArchive \/ ReadManifest \/ CompareArchive \/ Restore
  <2> USE <1>1, <1>3 DEF TypeOK, CheckInv
  <2>1. UNCHANGED disturbed /\ check'.drill = check.drill
    BY DEF SelectArchive, ReadManifest, CompareArchive, Restore, Checks
  <2>2. CASE SelectArchive
    BY <2>1, <2>2 DEF SelectArchive, StatusInv, Whole
  <2>3. CASE ReadManifest
    BY <2>1, <2>3 DEF ReadManifest, Checks, StatusInv
  <2>4. CASE CompareArchive
    BY <2>1, <2>4 DEF CompareArchive, Checks, StatusInv, Whole
  <2>5. CASE Restore
    BY <2>1, <2>5 DEF Restore, Checks
  <2> QED
    BY <2>2, <2>3, <2>4, <2>5
<1>4. CASE VerifyRecords \/ VerifyRecordFails \/ VerifyDies
  <2>1. check' = NoCheck
    BY <1>4 DEF VerifyRecords, VerifyRecordFails, VerifyDies
  <2> QED
    BY <2>1 DEF NoCheck, CheckInv
<1> QED
  BY <1>2, <1>3, <1>4 DEF VerifySteps

LEMMA CheckStep == TypeOK /\ StatusInv /\ CheckInv /\ [Next]_vars => CheckInv'
<1> SUFFICES ASSUME TypeOK, StatusInv, CheckInv, [Next]_vars PROVE CheckInv'
  OBVIOUS
<1>1. CASE Tick
  BY <1>1 DEF Tick, files, CheckInv, Newest
<1>2. CASE UNCHANGED vars
  BY <1>2 DEF vars, jobVars, files, CheckInv, Newest
<1> QED
  BY <1>1, <1>2, CheckBackup, CheckVerify DEF Next

(* Unless a backup ran meanwhile, the verification after a backup that     *)
(* succeeded succeeds: it selects the archive that create_backup has just  *)
(* made, with its manifest (backups.py:183-300).                           *)
THEOREM SuccessAlwaysVerifies == Spec => []SuccessVerifies
<1>1. CheckInv => SuccessVerifies
  BY DEF CheckInv, SuccessVerifies
<1> QED
  BY <1>1, SafeInit, SafeStep, TypesInit, TypesStep, StatusInit, StatusStep, CheckInit, CheckStep, PTL DEF Spec

-----------------------------------------------------------------------------
(* Retention.  What Kept says, with the periods as numbers.                *)

LastBy(k, S, t) == \A u \in S : u \div k = t \div k => u <= t
LaterBy(k, S, t) == {u \div k : u \in {v \in S : v \div k > t \div k}}
AmongBy(k, S, most, t) == LastBy(k, S, t) /\ Cardinality(LaterBy(k, S, t)) < most

KeptAt(now, S) ==
  {t \in S : \/ t = Newest(S)
             \/ LastBy(PerDay, S, t) /\ now \div PerDay - t \div PerDay < Daily
             \/ AmongBy(PerWeek, S, Weekly, t)
             \/ AmongBy(PerMonth, S, Monthly, t)}

LEMMA KeptIs ==
  ASSUME NEW S
  PROVE  Kept(S) = KeptAt(clock, S)
BY DEF Kept, KeptAt, Day, Week, Month, LastOf, Among, Later, LastBy, AmongBy, LaterBy

LEMMA Periods == {PerDay, PerWeek, PerMonth} \subseteq Nat \ {0} /\ {Daily, Weekly, Monthly} \subseteq Nat /\ Daily > 0
  BY BackupsAssumption

LEMMA Quotient ==
  ASSUME NEW k \in Nat \ {0}, NEW t \in Nat
  PROVE  t \div k \in 0 .. t
OBVIOUS

LEMMA QuotientGrows ==
  ASSUME NEW k \in Nat \ {0}, NEW t \in Nat, NEW u \in Nat, t <= u
  PROVE  t \div k <= u \div k
OBVIOUS

(* The later periods are finitely many, and fewer where there are fewer    *)
(* archives.                                                               *)
LEMMA LaterIsFinite ==
  ASSUME NEW k \in Nat \ {0}, NEW n \in Nat, NEW S \in SUBSET (0 .. n), NEW t
  PROVE  IsFiniteSet(LaterBy(k, S, t)) /\ Cardinality(LaterBy(k, S, t)) \in Nat
<1>1. LaterBy(k, S, t) \subseteq 0 .. n
  <2> SUFFICES ASSUME NEW u \in S PROVE u \div k \in 0 .. n
    BY DEF LaterBy
  <2> QED
    BY Quotient
<1>2. IsFiniteSet(0 .. n)
  BY FS_Interval
<1> QED
  BY <1>1, <1>2, FS_Subset, FS_CardinalityType

LEMMA AmongFewer ==
  ASSUME NEW k \in Nat \ {0}, NEW n \in Nat, NEW S \in SUBSET (0 .. n), NEW R \in SUBSET S, NEW t \in R,
         NEW most \in Nat, AmongBy(k, S, most, t)
  PROVE  AmongBy(k, R, most, t)
<1>1. LaterBy(k, R, t) \subseteq LaterBy(k, S, t)
  BY DEF LaterBy
<1>2. Cardinality(LaterBy(k, R, t)) <= Cardinality(LaterBy(k, S, t))
  BY <1>1, LaterIsFinite, FS_Subset
<1>3. Cardinality(LaterBy(k, R, t)) \in Nat /\ Cardinality(LaterBy(k, S, t)) \in Nat
  BY LaterIsFinite
<1> QED
  BY <1>2, <1>3 DEF AmongBy, LastBy

(* An archive that would be kept if none had been lost is kept.            *)
LEMMA KeptFewer ==
  ASSUME NEW now \in Nat, NEW n \in Nat, NEW S \in SUBSET (0 .. n), NEW R \in SUBSET S, NEW t \in KeptAt(now, S) \cap R
  PROVE  t \in KeptAt(now, R)
<1>1. CASE t = Newest(S)
  <2>1. S \in SUBSET Nat /\ S # {} /\ \A u \in S : u <= n
    BY DEF KeptAt
  <2>2. R \in SUBSET Nat /\ t \in R /\ \A u \in R : u <= t
    BY <1>1, <2>1, HasNewest
  <2>3. t = Newest(R)
    BY <2>2, NewestIs
  <2> QED
    BY <2>3 DEF KeptAt
<1>2. CASE LastBy(PerDay, S, t) /\ now \div PerDay - t \div PerDay < Daily
  BY <1>2 DEF KeptAt, LastBy
<1>3. CASE AmongBy(PerWeek, S, Weekly, t)
  BY <1>3, Periods, AmongFewer DEF KeptAt
<1>4. CASE AmongBy(PerMonth, S, Monthly, t)
  BY <1>4, Periods, AmongFewer DEF KeptAt
<1> QED
  BY <1>1, <1>2, <1>3, <1>4 DEF KeptAt

(* Less is kept as time goes by. *)
LEMMA KeptAges ==
  ASSUME NEW n \in Nat, NEW S \in SUBSET (0 .. n)
  PROVE  KeptAt(n + 1, S) \subseteq KeptAt(n, S)
<1> SUFFICES ASSUME NEW t \in KeptAt(n + 1, S), t \notin KeptAt(n, S) PROVE FALSE
  OBVIOUS
<1>1. LastBy(PerDay, S, t) /\ (n + 1) \div PerDay - t \div PerDay < Daily
  BY DEF KeptAt
<1>2. n \div PerDay <= (n + 1) \div PerDay
  BY Periods, QuotientGrows
<1>3. n \div PerDay \in Nat /\ (n + 1) \div PerDay \in Nat /\ t \div PerDay \in Nat /\ t \in S
  BY Periods, Quotient DEF KeptAt
<1>4. n \div PerDay - t \div PerDay < Daily
  BY <1>1, <1>2, <1>3, Periods
<1> QED
  BY <1>1, <1>3, <1>4 DEF KeptAt

(* Retention keeps at most as many as it is told to.  Those it keeps of    *)
(* the days lie in different days, those it keeps of the weeks have        *)
(* different numbers of weeks after them.                                  *)
LEMMA DaysAreFew ==
  ASSUME NEW now \in Nat, NEW S \in SUBSET (0 .. now), NEW D,
         D = {t \in S : LastBy(PerDay, S, t) /\ now \div PerDay - t \div PerDay < Daily}
  PROVE  IsFiniteSet(D) /\ Cardinality(D) <= Daily
<1> DEFINE today == now \div PerDay
           f == [t \in D |-> t \div PerDay]
<1>1. today \in Nat /\ Daily \in Nat
  BY Periods, Quotient
<1>2. ASSUME NEW t \in D PROVE t \div PerDay \in (today - Daily + 1) .. today
  <2>1. t \in Nat /\ t <= now
    OBVIOUS
  <2>2. t \div PerDay \in Nat /\ t \div PerDay <= today
    BY <2>1, Periods, Quotient, QuotientGrows
  <2>3. today - t \div PerDay < Daily
    OBVIOUS
  <2> QED
    BY <1>1, <2>2, <2>3
<1>3. \A t, u \in D : t \div PerDay = u \div PerDay => t = u
  BY DEF LastBy
<1>4. f \in Injection(D, (today - Daily + 1) .. today)
  BY <1>2, <1>3 DEF Injection, IsInjective
<1> HIDE DEF today, f
<1>5. IsFiniteSet((today - Daily + 1) .. today) /\ Cardinality((today - Daily + 1) .. today) = Daily
  <2>1. today - Daily + 1 \in Int /\ today \in Int /\ ~(today - Daily + 1 > today)
    BY <1>1, Periods
  <2>2. today - (today - Daily + 1) + 1 = Daily
    BY <1>1
  <2> QED
    BY <2>1, <2>2, FS_Interval
<1> QED
  BY <1>4, <1>5, FS_Injection

LEMMA AmongAreFew ==
  ASSUME NEW k \in Nat \ {0}, NEW n \in Nat, NEW S \in SUBSET (0 .. n), NEW most \in Nat, NEW A,
         A = {t \in S : AmongBy(k, S, most, t)}
  PROVE  IsFiniteSet(A) /\ Cardinality(A) <= most
<1> DEFINE f == [t \in A |-> Cardinality(LaterBy(k, S, t))]
<1>1. \A t \in A : Cardinality(LaterBy(k, S, t)) \in 0 .. most - 1
  BY LaterIsFinite DEF AmongBy
<1>2. ASSUME NEW t \in A, NEW u \in A, t < u
      PROVE  Cardinality(LaterBy(k, S, t)) # Cardinality(LaterBy(k, S, u))
  <2>1. t \in Nat /\ u \in Nat /\ t \div k \in Nat /\ u \div k \in Nat
    BY Quotient
  <2>2. t \div k # u \div k
    <3>1. LastBy(k, S, t) /\ u \in S
      BY DEF AmongBy
    <3>2. t \div k = u \div k => u <= t
      BY <3>1 DEF LastBy
    <3> QED
      BY <1>2, <2>1, <3>2
  <2>3. t \div k < u \div k
    BY <1>2, <2>1, <2>2, QuotientGrows
  <2>4. LaterBy(k, S, u) \subseteq LaterBy(k, S, t)
    <3> SUFFICES ASSUME NEW v \in S, v \div k > u \div k PROVE v \div k > t \div k
      BY DEF LaterBy
    <3>1. v \div k \in Nat
      BY Quotient
    <3> QED
      BY <2>1, <2>3, <3>1
  <2>5. u \div k \in LaterBy(k, S, t)
    BY <2>1, <2>3 DEF LaterBy
  <2>6. u \div k \notin LaterBy(k, S, u)
    <3> SUFFICES ASSUME NEW v \in S, v \div k > u \div k, v \div k = u \div k PROVE FALSE
      BY DEF LaterBy
    <3> QED
      BY <2>1
  <2> QED
    BY <2>4, <2>5, <2>6, LaterIsFinite, FS_Subset
<1>3. \A t, u \in A : t # u => Cardinality(LaterBy(k, S, t)) # Cardinality(LaterBy(k, S, u))
  <2> SUFFICES ASSUME NEW t \in A, NEW u \in A, t # u
               PROVE  Cardinality(LaterBy(k, S, t)) # Cardinality(LaterBy(k, S, u))
    OBVIOUS
  <2>1. t < u \/ u < t
    OBVIOUS
  <2> QED
    BY <1>2, <2>1
<1>4. f \in Injection(A, 0 .. most - 1)
  BY <1>1, <1>3 DEF Injection, IsInjective
<1>5. IsFiniteSet(0 .. most - 1) /\ Cardinality(0 .. most - 1) = most
  BY FS_Interval
<1> QED
  BY <1>4, <1>5, FS_Injection

LEMMA UnionAtMost ==
  ASSUME NEW S, NEW T, NEW a \in Nat, NEW b \in Nat,
         IsFiniteSet(S), Cardinality(S) <= a, IsFiniteSet(T), Cardinality(T) <= b
  PROVE  IsFiniteSet(S \cup T) /\ Cardinality(S \cup T) <= a + b
<1>1. IsFiniteSet(S \cup T) /\ Cardinality(S \cup T) = Cardinality(S) + Cardinality(T) - Cardinality(S \cap T)
  BY FS_Union
<1>2. Cardinality(S) \in Nat /\ Cardinality(T) \in Nat /\ Cardinality(S \cap T) \in Nat
  BY FS_CardinalityType, FS_Intersection
<1> QED
  BY <1>1, <1>2

LEMMA KeptAreFew ==
  ASSUME NEW now \in Nat, NEW S \in SUBSET (0 .. now)
  PROVE  IsFiniteSet(KeptAt(now, S)) /\ Cardinality(KeptAt(now, S)) <= Daily + Weekly + Monthly
<1> DEFINE D == {t \in S : LastBy(PerDay, S, t) /\ now \div PerDay - t \div PerDay < Daily}
           W == {t \in S : AmongBy(PerWeek, S, Weekly, t)}
           M == {t \in S : AmongBy(PerMonth, S, Monthly, t)}
           N == D \cup {Newest(S)}
<1>1. IsFiniteSet(D) /\ Cardinality(D) <= Daily
  BY DaysAreFew
<1>2. IsFiniteSet(W) /\ Cardinality(W) <= Weekly /\ IsFiniteSet(M) /\ Cardinality(M) <= Monthly
  BY Periods, AmongAreFew
<1>3. IsFiniteSet(N) /\ Cardinality(N) <= Daily
  <2>1. CASE D = {}
    <3>1. N = {Newest(S)}
      BY <2>1
    <3>2. QED
      <4>1. IsFiniteSet(N) /\ Cardinality(N) = 1
        BY <3>1, FS_Singleton
      <4> QED
        BY <4>1, Periods
  <2>2. CASE D # {}
    <3>1. PICK t \in D : TRUE
      BY <2>2
    <3>2. S \in SUBSET Nat /\ t \in S /\ \A u \in S : u <= now
      BY <3>1
    <3>3. Newest(S) \in S /\ \A u \in S : u <= Newest(S)
      BY <3>2, HasNewest
    <3>4. t \div PerDay <= Newest(S) \div PerDay
      BY <3>2, <3>3, Periods, QuotientGrows
    <3>5. now \div PerDay \in Nat /\ t \div PerDay \in Nat /\ Newest(S) \div PerDay \in Nat
      <4>1. now \in Nat /\ t \in Nat /\ Newest(S) \in Nat
        BY <3>2, <3>3
      <4> QED
        BY <4>1, Periods, Quotient
    <3>6. now \div PerDay - t \div PerDay < Daily
      BY <3>1
    <3>7. now \div PerDay - Newest(S) \div PerDay < Daily
      BY <3>4, <3>5, <3>6, Periods
    <3>8. Newest(S) \in D
      BY <3>3, <3>7 DEF LastBy
    <3>9. N = D
      BY <3>8
    <3> QED
      BY <3>9, <1>1
  <2> QED
    BY <2>1, <2>2
<1>4. KeptAt(now, S) \subseteq (N \cup W) \cup M
  BY DEF KeptAt
<1> HIDE DEF N, W, M
<1>5. IsFiniteSet(N \cup W) /\ Cardinality(N \cup W) <= Daily + Weekly
  BY <1>2, <1>3, UnionAtMost, Periods
<1>6. IsFiniteSet((N \cup W) \cup M) /\ Cardinality((N \cup W) \cup M) <= Daily + Weekly + Monthly
  <2>1. Daily + Weekly \in Nat /\ Monthly \in Nat
    BY Periods
  <2> QED
    BY <1>2, <1>5, <2>1, UnionAtMost
<1>7. IsFiniteSet(KeptAt(now, S)) /\ Cardinality(KeptAt(now, S)) <= Cardinality((N \cup W) \cup M)
  BY <1>4, <1>6, FS_Subset
<1>8. Cardinality(KeptAt(now, S)) \in Nat /\ Cardinality((N \cup W) \cup M) \in Nat
  BY <1>6, <1>7, FS_CardinalityType
<1> QED
  BY <1>6, <1>7, <1>8, Periods

-----------------------------------------------------------------------------
(* What retention would keep if no archive had ever been removed is still  *)
(* there and not doomed.  That is why it does not matter that retention    *)
(* goes by the archives it finds, nor where it was killed before.          *)
Most == Daily + Weekly + Monthly

RetentionInv ==
  /\ manifests \subseteq archives
  /\ KeptAt(clock, ever) \subseteq archives \ run.doomed
  /\ run.step \in {"dumping", "hashing", "done"} => run.doomed = {}
  /\ run.step \in {"pruning", "done"} => Cardinality(archives \ run.doomed) <= Most
  /\ rows[Backup].status = "success" => Cardinality(archives) <= Most

LEMMA RetentionInit == Init => RetentionInv
<1> SUFFICES ASSUME Init PROVE RetentionInv
  OBVIOUS
<1>1. KeptAt(clock, ever) = {}
  BY DEF Init, KeptAt
<1>2. run.step = "idle" /\ rows[Backup].status = "never" /\ manifests = {}
  BY BackupsAssumption DEF Init, JobInit, NoRun
<1> QED
  BY <1>1, <1>2 DEF RetentionInv

LEMMA RetentionBegins == Safe /\ TypeOK /\ RetentionInv /\ BackupBegins => RetentionInv'
<1> SUFFICES ASSUME Safe, TypeOK, RetentionInv, BackupBegins PROVE RetentionInv'
  OBVIOUS
<1>1. UNCHANGED <<clock, files, ever>> /\ run.doomed = {} /\ run'.step = "dumping" /\ run'.doomed = {}
  BY DEF BackupBegins, RecordStarted, NoRun
<1>2. rows'[Backup].status = "running"
  BY BackupsAssumption DEF BackupBegins, RecordStarted, TypeOK, JobTypeOK
<1> QED
  BY <1>1, <1>2 DEF RetentionInv, files

LEMMA RetentionDump == Safe /\ TypeOK /\ StatusInv /\ RetentionInv /\ DumpSucceeds => RetentionInv'
<1> SUFFICES ASSUME Safe, TypeOK, StatusInv, RetentionInv, DumpSucceeds PROVE RetentionInv'
  OBVIOUS
<1> DEFINE s == run.stamp
<1>1. /\ UNCHANGED <<jobVars, manifests>> /\ archives' = archives \cup {s} /\ ever' = ever \cup {s}
      /\ run'.step = "hashing" /\ run'.doomed = {} /\ run.doomed = {} /\ run.step # "idle"
  BY DEF DumpSucceeds, TypeOK, RetentionInv
<1>2. s \in 0 .. clock /\ clock \in Nat /\ ever \subseteq 0 .. clock /\ \A t \in ever : t <= s
  BY <1>1 DEF Safe, RunIsNewest
<1>3. ever \cup {s} \in SUBSET (0 .. clock) /\ ever \in SUBSET (ever \cup {s})
  BY <1>2
<1>4. KeptAt(clock, ever \cup {s}) \subseteq KeptAt(clock, ever) \cup {s}
  <2> SUFFICES ASSUME NEW t \in KeptAt(clock, ever \cup {s}), t # s PROVE t \in KeptAt(clock, ever)
    OBVIOUS
  <2>1. t \in ever
    BY DEF KeptAt
  <2> QED
    BY <1>2, <1>3, <2>1, KeptFewer
<1>5. KeptAt(clock', ever') \subseteq archives' \ run'.doomed
  BY <1>1, <1>4 DEF RetentionInv, jobVars
<1>6. rows'[Backup].status = "running"
  BY <1>1 DEF jobVars, StatusInv
<1> QED
  BY <1>1, <1>5, <1>6 DEF RetentionInv

LEMMA RetentionManifest == Safe /\ TypeOK /\ StatusInv /\ RetentionInv /\ WriteManifest => RetentionInv'
<1> SUFFICES ASSUME Safe, TypeOK, StatusInv, RetentionInv, WriteManifest PROVE RetentionInv'
  OBVIOUS
<1>1. /\ UNCHANGED <<jobVars, archives, ever>> /\ manifests' = manifests \cup {run.stamp}
      /\ run'.step = "pruning" /\ run'.doomed = archives \ KeptAt(clock, archives)
      /\ run.step = "hashing" /\ run.stamp \in archives
  BY KeptIs DEF WriteManifest, TypeOK, Safe, HasArchive
<1>2. clock \in Nat /\ ever \in SUBSET (0 .. clock) /\ archives \in SUBSET ever /\ archives \in SUBSET (0 .. clock)
  BY DEF Safe
<1>3. KeptAt(clock, ever) \subseteq KeptAt(clock, archives)
  BY <1>2, KeptFewer DEF RetentionInv
<1>4. KeptAt(clock, archives) \subseteq archives
  BY DEF KeptAt
<1>5. archives' \ run'.doomed = KeptAt(clock, archives)
  BY <1>1, <1>4
<1>6. Cardinality(archives' \ run'.doomed) <= Most
  BY <1>2, <1>5, KeptAreFew DEF Most
<1>7. KeptAt(clock', ever') \subseteq archives' \ run'.doomed
  BY <1>1, <1>3, <1>5 DEF jobVars
<1>8. rows'[Backup].status = "running"
  BY <1>1 DEF jobVars, StatusInv
<1> QED
  BY <1>1, <1>6, <1>7, <1>8 DEF RetentionInv

LEMMA RetentionPrune == Safe /\ TypeOK /\ StatusInv /\ RetentionInv /\ Prune => RetentionInv'
<1> SUFFICES ASSUME Safe, TypeOK, StatusInv, RetentionInv, Prune PROVE RetentionInv'
  OBVIOUS
<1>1. PICK t \in run.doomed :
        IF t \in manifests
          THEN manifests' = manifests \ {t} /\ UNCHANGED <<archives, run>>
          ELSE /\ archives' = archives \ {t}
               /\ run' = [run EXCEPT !.doomed = @ \ {t}]
               /\ UNCHANGED manifests
  BY DEF Prune
<1>2. UNCHANGED <<jobVars, ever>> /\ run.step = "pruning"
  BY DEF Prune
<1>3. run'.step = "pruning" /\ archives' \ run'.doomed = archives \ run.doomed
  BY <1>1, <1>2 DEF TypeOK
<1>4. manifests' \subseteq archives'
  BY <1>1 DEF RetentionInv
<1>5. rows'[Backup].status = "running"
  BY <1>2 DEF jobVars, StatusInv
<1> QED
  BY <1>2, <1>3, <1>4, <1>5 DEF RetentionInv, jobVars

LEMMA RetentionEnds ==
  Safe /\ TypeOK /\ RetentionInv /\ (Pruned \/ BackupFails \/ BackupRecordFails \/ BackupDies \/ BackupRecords)
    => RetentionInv'
<1> SUFFICES ASSUME Safe, TypeOK, RetentionInv,
                    Pruned \/ BackupFails \/ BackupRecordFails \/ BackupDies \/ BackupRecords
             PROVE  RetentionInv'
  OBVIOUS
<1>1. UNCHANGED <<clock, archives, manifests, ever>>
  BY DEF Pruned, BackupFails, BackupRecordFails, BackupDies, BackupRecords, EndUnrecorded, RecordFinished, jobVars, files
<1>2. CASE Pruned
  BY <1>1, <1>2 DEF Pruned, jobVars, TypeOK, RetentionInv
<1>3. CASE BackupFails \/ BackupRecordFails
  BY <1>1, <1>3 DEF BackupFails, BackupRecordFails, jobVars, TypeOK, RetentionInv
<1>4. CASE BackupDies
  BY <1>1, <1>4 DEF BackupDies, EndUnrecorded, NoRun, RetentionInv
<1>5. CASE BackupRecords
  <2>1. run' = NoRun
    BY <1>5 DEF BackupRecords
  <2>2. rows'[Backup].status = "success" => run.step = "done"
    BY <1>5, BackupsAssumption DEF BackupRecords, RecordFinished, TypeOK, JobTypeOK
  <2>3. run.step = "done" => archives \ run.doomed = archives
    BY DEF RetentionInv
  <2> QED
    BY <1>1, <2>1, <2>2, <2>3 DEF RetentionInv, NoRun
<1> QED
  BY <1>2, <1>3, <1>4, <1>5

LEMMA RetentionTick == Safe /\ RetentionInv /\ Tick => RetentionInv'
<1> SUFFICES ASSUME Safe, RetentionInv, Tick PROVE RetentionInv'
  OBVIOUS
<1>1. clock' = clock + 1 /\ UNCHANGED <<rows, archives, manifests, run, ever>>
  BY DEF Tick, files
<1>2. KeptAt(clock + 1, ever) \subseteq KeptAt(clock, ever)
  BY KeptAges DEF Safe
<1> QED
  BY <1>1, <1>2 DEF RetentionInv

LEMMA RetentionStep == Safe /\ TypeOK /\ StatusInv /\ RetentionInv /\ [Next]_vars => RetentionInv'
<1> SUFFICES ASSUME Safe, TypeOK, StatusInv, RetentionInv, [Next]_vars PROVE RetentionInv'
  OBVIOUS
<1>1. CASE VerifySteps
  BY <1>1, VerifyLeaves DEF RetentionInv
<1>2. CASE UNCHANGED vars
  BY <1>2 DEF vars, jobVars, files, RetentionInv
<1> QED
  BY <1>1, <1>2, RetentionBegins, RetentionDump, RetentionManifest, RetentionPrune, RetentionEnds, RetentionTick
  DEF Next, BackupSteps

(* The newest archive there ever was of a period that retention counts is  *)
(* one it would keep, and so it is there.                                  *)
LEMMA LastOfPeriod ==
  ASSUME Safe, NEW k \in Nat \ {0}, NEW t \in ever, NEW S, S = {u \in ever : u \div k = t \div k}
  PROVE  Newest(S) \in ever /\ Newest(S) \div k = t \div k /\ LastBy(k, ever, Newest(S))
<1>1. S \in SUBSET ever /\ t \in S
  OBVIOUS
<1>2. Newest(S) \in S /\ \A u \in S : u <= Newest(S)
  BY <1>1, SomeHaveNewest
<1> QED
  BY <1>2 DEF LastBy

LEMMA HistoryIs == Safe /\ RetentionInv => HistoryKept
<1> SUFFICES ASSUME Safe, RetentionInv PROVE HistoryKept
  OBVIOUS
<1>1. \A t \in KeptAt(clock, ever) : t \in archives
  BY DEF RetentionInv
<1>2. ASSUME NEW t \in ever, Day(clock) - Day(t) < Daily PROVE Survives(Day, Day(t))
  <2> DEFINE n == Newest({u \in ever : u \div PerDay = t \div PerDay})
  <2>1. n \in ever /\ n \div PerDay = t \div PerDay /\ LastBy(PerDay, ever, n)
    BY LastOfPeriod, Periods
  <2>2. n \in KeptAt(clock, ever)
    BY <1>2, <2>1 DEF KeptAt, Day
  <2> QED
    BY <1>1, <2>2 DEF Survives, Day
<1>3. ASSUME NEW t \in ever, Week(t) \in Latest(Weekly, Week) PROVE Survives(Week, Week(t))
  <2> DEFINE n == Newest({u \in ever : u \div PerWeek = t \div PerWeek})
  <2>1. n \in ever /\ n \div PerWeek = t \div PerWeek /\ LastBy(PerWeek, ever, n)
    BY LastOfPeriod, Periods
  <2>2. LaterBy(PerWeek, ever, n) = {q \in {Week(u) : u \in ever} : q > Week(t)}
    BY <2>1 DEF LaterBy, Week
  <2>3. n \in KeptAt(clock, ever)
    BY <1>3, <2>1, <2>2 DEF KeptAt, AmongBy, Latest
  <2> QED
    BY <1>1, <2>3 DEF Survives, Week
<1>4. ASSUME NEW t \in ever, Month(t) \in Latest(Monthly, Month) PROVE Survives(Month, Month(t))
  <2> DEFINE n == Newest({u \in ever : u \div PerMonth = t \div PerMonth})
  <2>1. n \in ever /\ n \div PerMonth = t \div PerMonth /\ LastBy(PerMonth, ever, n)
    BY LastOfPeriod, Periods
  <2>2. LaterBy(PerMonth, ever, n) = {q \in {Month(u) : u \in ever} : q > Month(t)}
    BY <2>1 DEF LaterBy, Month
  <2>3. n \in KeptAt(clock, ever)
    BY <1>4, <2>1, <2>2 DEF KeptAt, AmongBy, Latest
  <2> QED
    BY <1>1, <2>3 DEF Survives, Month
<1>5. ASSUME NEW p \in {Day(t) : t \in ever}, Day(clock) - p < Daily PROVE Survives(Day, p)
  <2>1. PICK t \in ever : p = Day(t)
    OBVIOUS
  <2> QED
    BY <1>2, <1>5, <2>1 DEF Survives
<1>6. ASSUME NEW p \in Latest(Weekly, Week) PROVE Survives(Week, p)
  <2>1. PICK t \in ever : p = Week(t)
    BY DEF Latest
  <2> QED
    BY <1>3, <1>6, <2>1 DEF Survives
<1>7. ASSUME NEW p \in Latest(Monthly, Month) PROVE Survives(Month, p)
  <2>1. PICK t \in ever : p = Month(t)
    BY DEF Latest
  <2> QED
    BY <1>4, <1>7, <2>1 DEF Survives
<1> QED
  BY <1>5, <1>6, <1>7 DEF HistoryKept

(* Whenever a backup succeeds, fails or is killed: the last archive of     *)
(* each recent day and of the latest weeks and months is kept, after a     *)
(* success no more archives than that, and no manifest without its archive *)
(* (backups.py:183-218, 256-299).                                          *)
THEOREM RetentionAlwaysHolds == Spec => []RetentionHolds
<1>1. RetentionInv => DiskIsBounded
  BY DEF RetentionInv, DiskIsBounded, Most
<1>2. Safe /\ RetentionInv => RetentionHolds
  BY <1>1, HistoryIs DEF RetentionHolds
<1> QED
  BY <1>2, SafeInit, SafeStep, TypesInit, TypesStep, StatusInit, StatusStep, RetentionInit, RetentionStep, PTL DEF Spec
==============================================================================
