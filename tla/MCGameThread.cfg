SPECIFICATION Spec
CONSTANTS
  MaxInline = 2
  MaxAsks = 2
  MaxEffects = 3
  TicThrows = TRUE
  InlineThrows = TRUE
  FrameThrows = TRUE
  FocusChanges = TRUE
  Spurious = TRUE
INVARIANTS
  HandoffAlone
  TicIsMarked
  AskRunsOnce
