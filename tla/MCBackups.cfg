CONSTANTS
  Backup = Backup
  Verify = Verify
  Jobs = {Backup, Verify}
  Window <- MCWindow
  NoTime = NoTime
  PerDay = 2
  PerWeek = 3
  PerMonth = 4
  Daily = 1
  Weekly = 1
  Monthly = 2
  MaxClock = 5
SPECIFICATION Spec
INVARIANTS TypeOK RetentionHolds Restorable StatusIsHonest SuccessVerifies
CHECK_DEADLOCK FALSE
VIEW Observed
