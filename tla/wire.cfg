CONSTANTS
  TextLength <- MCTextLength
  IdLength = {1, 255}
  MaxChats = 3
SPECIFICATION Spec
INVARIANTS NothingOverruns StaysAligned ShownCutTo16Bits
CHECK_DEADLOCK FALSE
