CONSTANTS
  Frame = {"short", "medium", "long"}
  TotalLen <- MCTotalLen
  PartialSends = TRUE
  CanReset = TRUE
SPECIFICATION Spec
INVARIANT FramesStayWhole
CHECK_DEADLOCK FALSE
