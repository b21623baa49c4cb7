CONSTANTS
  goal = goal
  july = july
  save = save
  cut = cut
  tabOne = tabOne
  tabTwo = tabTwo
  Settings = {goal, july}
  Months = {july}
  Removable = {july}
  Values = {1, 2}
  Missing = Missing
  NoPlan = NoPlan
  Plans = {save}
  Wants <- MCWants
  Order <- MCOrder
  UndoOrder <- MCUndoOrder
  Requests = {tabOne, tabTwo}
SPECIFICATION FairSpec
INVARIANT TypeOK
PROPERTIES NoPartOfAPlan RequestsEnd

