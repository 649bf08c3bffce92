CONSTANTS
  Client = {c1, c2}
  MaxClicks = 3
  MaxChats = 2
  NONE = NONE
SPECIFICATION Spec
INVARIANT ExtHeaderIsTwoLengths
CHECK_DEADLOCK FALSE
