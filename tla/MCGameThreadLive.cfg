SPECIFICATION FairSpec
CONSTANTS
  MaxInline = 2
  MaxAsks = 1
  MaxEffects = 4
  TicThrows = FALSE
  InlineThrows = FALSE
  FrameThrows = FALSE
  FocusChanges = TRUE
  Spurious = TRUE
INVARIANTS
  HandoffSeams
  PauseFollowsFocus
PROPERTIES
  TicTakenBack
  AskAnswered
  TurnsTaken
