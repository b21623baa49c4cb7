CONSTANTS
  pending = pending
  posted = posted
  coffee = coffee
  small = small
  large = large
  cli = cli
  tabOne = tabOne
  tabTwo = tabTwo
  rent = rent
  Txns = {pending, posted}
  Contents = {small}
  Absent = Absent
  Unsent = Unsent
  NoTxn = NoTxn
  PendingOf <- MCPendingOf
  Groups = {rent}
  GroupOf <- MCGroupOf
  MinObservations = 1
  Syncers = {cli}
  Timers = {cli}
  NoOne = NoOne
  MaxRestarts = 2
  Bound <- BoundTimer
SPECIFICATION FairSpec
INVARIANT TypeOK
PROPERTIES ImplementsReplica RequestServed CatchesUp
CHECK_DEADLOCK FALSE
