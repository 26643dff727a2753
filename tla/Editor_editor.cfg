SPECIFICATION EditorSpec
CONSTANTS
  MaxEdits = 2
  MaxSaves = 2
  MaxInputs = 3
INVARIANT NothingLostUnasked
INVARIANT NothingOverwritten
INVARIANT DraftIsCurrent
PROPERTY ListCatchesUp
CHECK_DEADLOCK FALSE
