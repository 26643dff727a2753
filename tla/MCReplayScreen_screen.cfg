SPECIFICATION ScreenSpec
CONSTANTS
  px = px
  purchase = purchase
  None = None
  Sources = {px}
  Types = {purchase}
  TypesOf <- MCTypesOf
  Credit = 1
  MaxSessions = 1
  MaxVisits = 1
  MaxOverruns = 1
INVARIANT ConfirmsThePreview
INVARIANT OwnChangesShow
PROPERTY SettlingIsSeen
CHECK_DEADLOCK FALSE
