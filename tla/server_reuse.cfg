CONSTANTS
  Worker = {w1, w2}
  Acceptor = acceptor
  Main = main
  Conn = {c1, c2}
  Addr = {a1, a2}
  Ctx = {x1, x2, x3}
  Kinds = {"Register", "Reject"}
  MaxWork = 2
  CanStop = FALSE
  NONE = NONE
SPECIFICATION Spec
SYMMETRY Symmetry
INVARIANTS TypeOK NeverDeaf
CHECK_DEADLOCK FALSE
