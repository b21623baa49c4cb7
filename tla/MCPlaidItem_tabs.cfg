CONSTANTS
  pending = pending
  posted = posted
  coffee = coffee
  small = small
  large = large
  cli = cli
  tabOne = tabOne
  tabTwo = tabTwo
  rent = rent
  Txns = {coffee}
  Contents = {small, large}
  Absent = Absent
  Unsent = Unsent
  NoTxn = NoTxn
  PendingOf <- MCPendingOf
  Groups = {rent}
  GroupOf <- MCGroupOf
  MinObservations = 1
  Syncers = {cli, tabOne}
  Timers = {cli}
  NoOne = NoOne
  MaxRestarts = 2
  Bound <- BoundTabs
SPECIFICATION Spec
INVARIANTS NewsIsKept NoInventedRow ExactUnlessStale FlagsAgree

SYMMETRY SymmetricContents
