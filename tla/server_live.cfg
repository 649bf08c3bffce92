CONSTANTS
  Worker = {w1, w2}
  Acceptor = acceptor
  Main = main
  Conn = {c1}
  Addr = {a1}
  Ctx = {x1, x2}
  Kinds = {"Register", "Reject", "Fatal"}
  MaxWork = 1
  CanStop = TRUE
  NONE = NONE
SPECIFICATION FairSpec
PROPERTIES NoSocketLeak GoneIsClosed StopEnds
CHECK_DEADLOCK FALSE
