SPECIFICATION IntakeSpec
CONSTANTS
  main = main
  spare = spare
  None = None
  i = i
  h1 = h1
  h2 = h2
  Pixels = {main, spare}
  Used = {main}
  Ids = {i}
  BackupOf <- OneBackup
  Handlers = {h1, h2}
  Allowed = 3
  Tokens = 1
  BatchSize = 2
  MaxRequests = 2
  MaxMonth = 2
  MaxUpsets = 2
INVARIANT UsageLedger
INVARIANT ForwardedOnce
INVARIANT SwitchedOffTakesNothing
PROPERTY EveryForwardEnds
CHECK_DEADLOCK FALSE
