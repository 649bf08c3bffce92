------------------------------ MODULE MCServer ------------------------------
(* Finite instances of IOCP_Server for TLC. *)
EXTENDS IOCP_ServerInv, TLC

Symmetry == Permutations(Worker) \cup Permutations(Conn) \cup Permutations(Addr)
            \cup Permutations(Ctx)

\* A state Spec reaches: every client was accepted, logged in and answered,
\* and its next receive is outstanding.
ChattingInit ==
  /\ now = [c \in Conn |-> c]
  /\ \E f \in [Conn -> Addr], g \in [Conn -> Ctx] :
       /\ \A c, d \in Conn : (f[c] = f[d] \/ g[c] = g[d]) => c = d
       /\ addr = f
       /\ owner = [a \in Addr |-> IF \E c \in Conn : f[c] = a
                                  THEN CHOOSE c \in Conn : f[c] = a ELSE NONE]
       /\ hSocket = owner
       /\ isLoggedIn = [a \in Addr |-> owner[a] # NONE]
       /\ ctx = [x \in Ctx |-> IF \E c \in Conn : g[c] = x
                               THEN Posted("Recv", CHOOSE c \in Conn : g[c] = x) ELSE Free]
  /\ mSessions = Conn
  /\ sock = [c \in Conn |-> "open"]
  /\ peer = [c \in Conn |-> "open"]
  /\ pc = [t \in Thread |-> IF t = Acceptor THEN "accept"
                            ELSE IF t = Main THEN "wait" ELSE "idle"]
  /\ pSession = [t \in Thread |-> NONE]
  /\ cur = [t \in Thread |-> NONE]
  /\ targets = [t \in Thread |-> {}]
  /\ listening = TRUE /\ iocpOpen = TRUE /\ stopEvent = FALSE
  /\ dead = FALSE
  /\ work = 0
  /\ stale = FALSE

ChattingSpec == ChattingInit /\ [][Next]_vars
=============================================================================
