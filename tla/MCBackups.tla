------------------------------ MODULE MCBackups ------------------------------
(* A small instance of Backups: two units make a day, three a week and     *)
(* four a month.                                                           *)
EXTENDS Backups

MCWindow == [j \in Jobs |-> 2]

(* No action and no property depends on the heartbeat of the verification. *)
Observed == <<clock, rows[Backup], unrecorded[Backup], files, run, check, ever, disturbed>>
==============================================================================
