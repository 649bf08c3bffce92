---------------------------- MODULE IOCP_ServerInv ----------------------------
(***************************************************************************)
(* The inductive invariant behind the safety properties of IOCP_Server:    *)
(* what the threads, the heap cells and the I/O contexts know of each      *)
(* other between any two steps.  TLC checks it, IOCP_ServerProofs proves   *)
(* it.                                                                     *)
(***************************************************************************)
EXTENDS IOCP_Server

Has(c) == addr[c] \in Addr

\* Each thread runs its own code.
PcOK ==
  /\ \A w \in Worker : pc[w] \in WorkerPC
  /\ pc[Acceptor] \in AcceptorPC
  /\ pc[Main] \in MainPC

\* Every session a thread, a list or a context names was allocated once.
Named ==
  /\ \A w \in Worker :
       /\ pc[w] \in RecvPC \cup ClosePC \cup {"sent"} => pSession[w] \in Conn /\ Has(pSession[w])
       /\ pc[w] \in RecvPC \cup {"sent"} => cur[w] \in Ctx
       /\ \A s \in targets[w] : Has(s)
  /\ pc[Acceptor] \in {"arm", "publish"} =>
       pSession[Acceptor] \in Conn /\ Has(pSession[Acceptor])
  /\ \A s \in mSessions : Has(s)
  /\ \A x \in Ctx : ctx[x].st \in {"kernel", "queued"} => ctx[x].conn \in Conn /\ Has(ctx[x].conn)

\* What a heap cell, the session it was made for and the handle in it have
\* to do with one another; a handle becomes another's when it has been closed.
CellsOK ==
  /\ \A c \in Conn :
       /\ Has(c) <=> sock[c] \in {"open", "closed"}
       /\ now[c] # c => sock[c] = "closed"
       /\ Has(c) => Has(now[c])
  /\ \A a \in Addr :
       /\ owner[a] # NONE => addr[owner[a]] = a
       /\ hSocket[a] # NONE => addr[hSocket[a]] = a
       /\ owner[a] # NONE => hSocket[a] \in {NONE, owner[a]}

\* A receive never ends the way a send does, nor a send the way a receive does.
RecvOutcome ==
  \A x \in Ctx : ctx[x].st = "queued" =>
    ctx[x].status \in (IF ctx[x].type = "Recv" THEN {"data", "zero", "fail"}
                                               ELSE {"all", "part", "fail"})

\* The object of a session whose handle is gone is about to be deleted.
HandleGone ==
  \A s \in Conn : Live(s) /\ hSocket[addr[s]] # s =>
    \/ \E w \in Worker : pc[w] = "delete" /\ addr[pSession[w]] = addr[s]
    \/ Releasing

\* No receive exists for a session before its first PostRecv.
ArmIsFirst ==
  ~stale /\ pc[Acceptor] = "arm" =>
    /\ \A x \in Ctx : ~RecvPending(x, pSession[Acceptor])
    /\ \A w \in Worker : ~Receiving(w, pSession[Acceptor])

\* Until a deleted session is used, a handle is closed before it is forgotten
\* and forgotten before the object is deleted.
ClosedFirst ==
  ~stale =>
    /\ \A w \in Worker : pc[w] \in {"invalidate", "delete"} => sock[pSession[w]] = "closed"
    /\ \A a \in Addr : owner[a] # NONE /\ hSocket[a] = NONE =>
         sock[owner[a]] = "closed"

\* The inductive invariant.
IInv ==
  /\ TypeOK /\ PcOK /\ Named /\ CellsOK
  /\ ContextOwnership /\ RecvOutcome
  /\ HandleGone /\ StaysListed /\ NeverDeaf
  /\ RecvExclusive /\ ArmIsFirst /\ ClosedFirst
=============================================================================
