CONSTANTS
  VGA_WIDTH = 6
  VGA_HEIGHT = 2
  Writers = {"shell", "other"}
  MaxArgs = 3
  Setups <- MCSetups
SPECIFICATION Spec
CHECK_DEADLOCK FALSE
INVARIANTS ScreenShowsText LineIsTyped EditedLineShown ExecGetsWords
PROPERTIES LineAnswered
