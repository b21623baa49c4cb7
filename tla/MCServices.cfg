CONSTANTS
  tab = tab
  timer = timer
  hand = hand
  Tabs = {tab}
  Jobs = {timer, hand}
  Timer = timer
  Worlds <- MCWorlds
  Preferences <- MCPreferences
  Patches <- MCPatches
  Forced = FALSE
  MaxFaults = 1
  Identities = {"owner"}
  Addresses = {"home", "away"}
  IdentityLimit = 3
  AddressLimit = 4
  Window = 2
  Block = 2
  Retention = 3
  q1 = q1
  q2 = q2
  Requests = {q1, q2}
  MaxCounter = 2
  Recovery = {1}
  Attempts = 2
  MaxLogins = 2
  MaxSetups = 2
  savings = savings
  checking = checking
  again = again
  Items = {savings, checking, again}
  Bank <- MCBank
  Accounts = {"daily"}
  Browsers = {q1, q2}
  Production = TRUE
SPECIFICATION Spec
INVARIANTS MailedOnce GuessesAreBounded CodesOpenOnce ConnectionsAgree
PROPERTIES DismissedStays Noticed
CHECK_DEADLOCK FALSE
