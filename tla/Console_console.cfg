SPECIFICATION ConsoleSpec
CONSTANTS
  Rows = {1, 2}
  Hits = {1}
  PerPage = 1
  MaxPage = 2
  MaxSteps = 3
  MaxVisits = 1
INVARIANT OwnActionsShow
INVARIANT NotStranded
PROPERTY ListSettles
CHECK_DEADLOCK FALSE
