CONSTANTS
  KbSlots = 2
  ComSlots = 2
  Rows = 2
  Cols = 2
  Scancodes = {"shift", "unshift", "enter", "back", "a", "break"}
  Bytes = {"x", "CR"}
  Lens = {3}
  MaxInput = 4
SPECIFICATION Spec
INVARIANTS ReadsAsTyped EchoMatches
PROPERTIES LineReturns
\* A reader may wait for ever for input.
CHECK_DEADLOCK FALSE
