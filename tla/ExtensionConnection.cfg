SPECIFICATION FairSpec
CONSTANTS
  page1 = page1
  page2 = page2
  old = old
  new = new
  Absent = Absent
  Torn = Torn
  Pages = {page1, page2}
  Values = {old, new}
  Default = old
  Limit = 1
  MaxActions = 2
  MaxPorts = 3
  MaxOverflows = 1
  MaxFaults = 2
INVARIANTS
  TypeOK
  AnswersAreTrue
  ReadyIsCurrent
  SettingsAgree
PROPERTIES
  ActionsSettle
CHECK_DEADLOCK FALSE
