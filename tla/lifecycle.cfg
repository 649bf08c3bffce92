CONSTANTS
  Worker = {w1, w2}
  Acceptor = acceptor
  MaxPresses = 2
  MaxWork = 3
SPECIFICATION Spec
INVARIANTS OnlyLateHandlersUseReleased 
PROPERTIES CtrlCStops FailureIsReported
CHECK_DEADLOCK FALSE
