CONSTANTS
  alma = alma
  ben = ben
  cleo = cleo
  first = first
  second = second
  tabOne = tabOne
  tabTwo = tabTwo
  Users = {alma, ben, cleo}
  NoUser = NoUser
  Invites = {first, second}
  NoInvite = NoInvite
  Requests = {tabOne, tabTwo}
  Limit = 2
SPECIFICATION Spec
PROPERTY BudgetsStay
CHECK_DEADLOCK FALSE
SYMMETRY Symmetry
