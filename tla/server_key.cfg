CONSTANTS
  Worker = {w1, w2}
  Acceptor = acceptor
  Main = main
  Conn = {c1, c2}
  Addr = {a1, a2}
  Ctx = {x1, x2, x3}
  Kinds = {"Register"}
  MaxWork = 1
  CanStop = FALSE
  NONE = NONE
SPECIFICATION Spec
INVARIANT UsedSessionsExist
CHECK_DEADLOCK FALSE
