CONSTANTS
  Worker = {w1, w2}
  Acceptor = acceptor
  Main = main
  Conn = {c1, c2}
  Addr = {a1, a2}
  Ctx = {x1, x2, x3, x4}
  Kinds = {"Chat", "Login"}
  MaxWork = 2
  CanStop = FALSE
  NONE = NONE
SPECIFICATION ChattingSpec
SYMMETRY Symmetry
INVARIANTS ContextOwnership RecvExclusive StaysListed IInv
CHECK_DEADLOCK FALSE
