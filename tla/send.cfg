CONSTANTS
  Frame = {"short", "medium", "long"}
  TotalLen <- MCTotalLen
  PartialSends = TRUE
  CanReset = TRUE
SPECIFICATION Spec
INVARIANTS FrameBytesOnce ContextOutlivesSend
CHECK_DEADLOCK FALSE
