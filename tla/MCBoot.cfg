SPECIFICATION Spec
CONSTANTS
  ADDRESSES = 4
  ACPI_MAX_ISA_OVERRIDES = 2
  PINS = 3
  TIMER_WORD = 64
  PIT_WORD = 8
  PIT_TARGET = 3
  TIMER_HZ = 2
  TIMER_DIVIDE = 2
  PIT_LATE = 1
  Setups <- Machines
CHECK_DEADLOCK FALSE
INVARIANTS OnlyKeyboardRouted AnswersKept ConfigKept Irq1Enabled
PROPERTIES StopsOnlyRobbedOrPreempted BytesTaken
