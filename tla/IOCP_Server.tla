----------------------------- MODULE IOCP_Server -----------------------------
(***************************************************************************)
(* The lifetime of client sessions and I/O contexts in the chat server:    *)
(* the accept thread, the pool of worker threads that share one completion *)
(* port, CloseSession, the send fan-out and ReleaseServer                  *)
(* (ChatServer/IOCP_Server.cpp).                                           *)
(*                                                                         *)
(* A ClientSession is named by the connection it was created for; addr     *)
(* gives the heap cell `new` returned for it and owner says whose object a *)
(* cell holds now, so a pointer that outlived its object is told from a    *)
(* live one even after the cell was handed out again.  A SOCKET is named   *)
(* by the connection it was opened for, too; now says whose socket that    *)
(* handle value stands for since it was closed and handed out again.  A    *)
(* dereference of a dangling pointer, or the use of such a handle, sets    *)
(* `stale` and then has the outcomes the build can have: the process       *)
(* stops, or it reads what the cell holds and uses another's socket.       *)
(*                                                                         *)
(* What a packet says is abstracted to the path it takes through           *)
(* OnRecvCompleted.  The critical section mCS is one atomic step.          *)
(***************************************************************************)
EXTENDS Naturals

CONSTANTS
  Worker,     \* the MAX_THREAD_CNT worker threads
  Acceptor,   \* the accept thread
  Main,       \* the thread in Run()
  Conn,       \* the connections clients open, one ClientSession each
  Addr,       \* heap cells for ClientSession objects
  Ctx,        \* heap cells for IoContext objects
  Kinds,      \* the packets clients send, by the path they take
  MaxWork,    \* bound: packets handled plus partial sends
  CanStop,    \* bound: whether the operator presses Ctrl+C
  NONE        \* nullptr and INVALID_SOCKET

AllKinds == {"Chat", "Login", "Register", "Reject", "Fatal"}

ASSUME ConstantsAssumption ==
  /\ Acceptor \notin Worker /\ Main \notin Worker /\ Acceptor # Main
  /\ NONE \notin Conn \cup Addr \cup Ctx
  /\ Kinds \subseteq AllKinds
  /\ MaxWork \in Nat
  /\ CanStop \in BOOLEAN

Thread == Worker \cup {Acceptor, Main}

VARIABLES
  addr,        \* [Conn -> cell of the session made for it, or NONE]
  owner,       \* [Addr -> session whose object the cell holds, NONE when freed]
  hSocket,     \* [Addr -> ClientSession::hSocket; kept when the cell is freed]
  isLoggedIn,  \* [Addr -> ClientSession::isLoggedIn]
  mSessions,   \* the sessions in the vector mSessions
  sock,        \* [Conn -> state of the server's socket handle]
  peer,        \* [Conn -> what the client did with its end]
  now,         \* [Conn -> the connection its SOCKET value stands for now]
  ctx,         \* [Ctx -> state of the I/O context in that cell]
  pc,          \* [Thread -> where the thread is]
  pSession,    \* [Thread -> session the thread works for]
  cur,         \* [Thread -> I/O context the thread took from the port]
  targets,     \* [Thread -> sessions SendMessageAll has still to send to]
  listening,   \* mListenSocket is open
  iocpOpen,    \* mhIOCP is open
  stopEvent,   \* mShutdownEvent is set
  dead,        \* the process has ended
  work,        \* packets handled plus partial sends so far
  stale        \* some thread has used a session after its object was deleted,
               \* or a handle after it was closed and became another client's

heap == <<addr, owner, hSocket, isLoggedIn>>
net == <<sock, peer, now>>
locals == <<pSession, cur, targets>>
handles == <<listening, iocpOpen, stopEvent>>
vars == <<addr, owner, hSocket, isLoggedIn, mSessions, sock, peer, now, ctx, pc,
          pSession, cur, targets, listening, iocpOpen, stopEvent, dead, work, stale>>

Free == [st |-> "free", type |-> "Recv", conn |-> NONE, status |-> "none"]

ReleasePC == {"relSessions", "relHandles", "relEnd"}
ClosePC == {"erase", "check", "close", "invalidate", "delete"}
RecvPC == {"parse", "login", "register", "broadcast", "rearm"}
WorkerPC == {"idle", "sent", "exited"} \cup RecvPC \cup ClosePC \cup ReleasePC
AcceptorPC == {"accept", "arm", "publish", "exited"} \cup ReleasePC
MainPC == {"wait"} \cup ReleasePC

Init ==
  /\ addr = [c \in Conn |-> NONE]
  /\ owner = [a \in Addr |-> NONE]
  /\ hSocket = [a \in Addr |-> NONE]
  /\ isLoggedIn = [a \in Addr |-> FALSE]
  /\ mSessions = {}
  /\ sock = [c \in Conn |-> "none"]
  /\ peer = [c \in Conn |-> "open"]
  /\ now = [c \in Conn |-> c]
  /\ ctx = [x \in Ctx |-> Free]
  /\ pc = [t \in Thread |-> IF t = Acceptor THEN "accept"
                            ELSE IF t = Main THEN "wait" ELSE "idle"]
  /\ pSession = [t \in Thread |-> NONE]
  /\ cur = [t \in Thread |-> NONE]
  /\ targets = [t \in Thread |-> {}]
  /\ listening = TRUE /\ iocpOpen = TRUE /\ stopEvent = FALSE
  /\ dead = FALSE
  /\ work = 0
  /\ stale = FALSE

-----------------------------------------------------------------------------
(* Memory and sockets.                                                     *)

\* The object made for session s has not been deleted.
Live(s) == \E a \in Addr : addr[s] = a /\ owner[a] = s

\* A step that dereferences the pointer to s.
Touch(s) == stale' = (stale \/ ~Live(s))

\* A step that reads session r and hands the handle in session s to Winsock.
UseHandle(s, r) ==
  LET h == hSocket[addr[s]] IN
  stale' = (stale \/ ~Live(s) \/ ~Live(r) \/ (h \in Conn /\ now[h] # h))

\* What WSARecv and WSASend answer at once on the handle h.
Accepts(h) == h \in Conn /\ sock[now[h]] = "open"
Refuses(h) == h = NONE \/ (h \in Conn /\ (sock[now[h]] # "open" \/ peer[now[h]] = "reset"))

\* A context handed to the kernel for the handle h.
Posted(type, h) == [st |-> "kernel", type |-> type, conn |-> now[h], status |-> "none"]

\* The context in x moves on: from the kernel to the port, to a worker.
Moved(x, st, status) ==
  [st |-> st, type |-> ctx[x].type, conn |-> ctx[x].conn, status |-> status]

Goto(t, label) == pc' = [pc EXCEPT ![t] = label]

\* The worker goes back to GetQueuedCompletionStatus.
Loop(w) ==
  /\ Goto(w, "idle")
  /\ pSession' = [pSession EXCEPT ![w] = NONE]
  /\ cur' = [cur EXCEPT ![w] = NONE]

DeleteContext(w) == ctx' = [x \in Ctx |-> IF x = cur[w] THEN Free ELSE ctx[x]]

-----------------------------------------------------------------------------
(* Clients and the kernel.                                                 *)

Connect(c) ==
  /\ listening /\ sock[c] = "none"
  /\ sock' = [sock EXCEPT ![c] = "backlog"]
  /\ UNCHANGED <<heap, mSessions, peer, now, ctx, pc, locals, handles, dead, work, stale>>

\* The client shuts its end down, or its end vanishes.
Leave(c) ==
  /\ sock[c] # "none"
  /\ \E how \in {"fin", "reset"} :
       /\ peer[c] = "open" \/ (peer[c] = "fin" /\ how = "reset")
       /\ peer' = [peer EXCEPT ![c] = how]
  /\ UNCHANGED <<heap, mSessions, sock, now, ctx, pc, locals, handles, dead, work, stale>>

\* How a pending operation can end.
Outcome(x) ==
  LET s == ctx[x].conn IN
  IF sock[s] # "open" \/ peer[s] = "reset" THEN {"fail"}
  ELSE IF ctx[x].type = "Recv" THEN (IF peer[s] = "open" THEN {"data"} ELSE {"zero"})
  ELSE {"all"} \cup (IF work < MaxWork THEN {"part"} ELSE {})

\* A pending operation ends and its completion packet enters the port.
Complete(x) ==
  /\ ctx[x].st = "kernel"
  /\ \E r \in Outcome(x) :
       /\ ctx' = [ctx EXCEPT ![x] = Moved(x, "queued", r)]
       /\ work' = IF r = "part" THEN work + 1 ELSE work
  /\ UNCHANGED <<heap, mSessions, net, pc, locals, handles, dead, stale>>

-----------------------------------------------------------------------------
(* The accept thread.                                                      *)

\* accept(), new ClientSession, CreateIoCompletionPort.  The socket gets a new
\* handle value, or that of one closed before: whoever kept it has c's now.
Accept(c) ==
  /\ pc[Acceptor] = "accept" /\ listening /\ sock[c] = "backlog"
  /\ \E a \in Addr :
       /\ owner[a] = NONE
       /\ addr' = [addr EXCEPT ![c] = a]
       /\ owner' = [owner EXCEPT ![a] = c]
       /\ hSocket' = [hSocket EXCEPT ![a] = c]
       /\ isLoggedIn' = [isLoggedIn EXCEPT ![a] = FALSE]
  /\ sock' = [sock EXCEPT ![c] = "open"]
  /\ \E d \in Conn :
       /\ d = c \/ sock[d] = "closed"
       /\ now' = [x \in Conn |-> IF now[x] = d THEN c ELSE now[x]]
  /\ pSession' = [pSession EXCEPT ![Acceptor] = c]
  /\ Goto(Acceptor, "arm")
  /\ UNCHANGED <<mSessions, peer, ctx, cur, targets, handles, dead, work, stale>>

\* The first PostRecv; when it is refused the session is deleted and
\* ErrorHandler takes the server down.
Arm ==
  LET s == pSession[Acceptor] IN
  /\ pc[Acceptor] = "arm"
  /\ UseHandle(s, s)
  /\ \/ /\ Accepts(hSocket[addr[s]])
        /\ \E x \in Ctx : /\ ctx[x].st = "free"
                          /\ ctx' = [ctx EXCEPT ![x] = Posted("Recv", hSocket[addr[s]])]
        /\ Goto(Acceptor, "publish")
        /\ UNCHANGED owner
     \/ /\ Refuses(hSocket[addr[s]]) /\ owner[addr[s]] # NONE
        /\ owner' = [owner EXCEPT ![addr[s]] = NONE]
        /\ Goto(Acceptor, "relSessions")
        /\ UNCHANGED ctx
  /\ UNCHANGED <<addr, hSocket, isLoggedIn, mSessions, net, locals, handles, dead, work>>

\* Mutant: the pointer is reset before it is pushed.
PublishNull ==
  /\ pc[Acceptor] = "publish"
  /\ mSessions' = mSessions \cup {NONE}
  /\ pSession' = [pSession EXCEPT ![Acceptor] = NONE]
  /\ Goto(Acceptor, "accept")
  /\ UNCHANGED <<heap, net, ctx, cur, targets, handles, dead, work, stale>>

\* mSessions.push_back under mCS.
Publish ==
  /\ pc[Acceptor] = "publish"
  /\ mSessions' = mSessions \cup {pSession[Acceptor]}
  /\ pSession' = [pSession EXCEPT ![Acceptor] = NONE]
  /\ Goto(Acceptor, "accept")
  /\ UNCHANGED <<heap, net, ctx, cur, targets, handles, dead, work, stale>>

\* accept() fails: the listening socket was closed, or the connection it
\* was about to return was reset in the backlog.  The loop ends either way.
AcceptFails ==
  /\ pc[Acceptor] = "accept"
  /\ ~listening \/ \E c \in Conn : sock[c] = "backlog" /\ peer[c] = "reset"
  /\ Goto(Acceptor, "exited")
  /\ UNCHANGED <<heap, mSessions, net, ctx, locals, handles, dead, work, stale>>

-----------------------------------------------------------------------------
(* Worker threads: OnRecvCompleted and OnSendCompleted.                    *)

\* Mutant: a receive of no bytes is not told from one with data.
DequeueIgnoresZero(w, x) ==
  /\ pc[w] = "idle" /\ iocpOpen /\ ctx[x].st = "queued"
  /\ ctx' = [ctx EXCEPT ![x] = Moved(x, "held", ctx[x].status)]
  /\ cur' = [cur EXCEPT ![w] = x]
  /\ pSession' = [pSession EXCEPT ![w] = ctx[x].conn]
  /\ Goto(w, CASE ctx[x].status = "fail" -> "erase"
               [] ctx[x].status \in {"data", "zero"} -> "parse"
               [] OTHER -> "sent")
  /\ UNCHANGED <<heap, mSessions, net, targets, handles, dead, work, stale>>

\* Mutant: the next receive is posted before this one is handled.
DequeueRearmsFirst(w, x) ==
  /\ pc[w] = "idle" /\ iocpOpen /\ ctx[x].st = "queued"
  /\ \E y \in Ctx \ {x} :
       /\ ctx[y].st = "free"
       /\ ctx' = [ctx EXCEPT ![x] = Moved(x, "held", ctx[x].status),
                   ![y] = IF ctx[x].status = "data" THEN Posted("Recv", ctx[x].conn) ELSE @]
  /\ cur' = [cur EXCEPT ![w] = x]
  /\ pSession' = [pSession EXCEPT ![w] = ctx[x].conn]
  /\ Goto(w, CASE ctx[x].status \in {"fail", "zero"} -> "erase"
               [] ctx[x].status = "data" -> "parse"
               [] OTHER -> "sent")
  /\ UNCHANGED <<heap, mSessions, net, targets, handles, dead, work, stale>>

\* GetQueuedCompletionStatus returns x; the key names the session the
\* socket was associated with.  The port is first in, first out, but several
\* workers take from it, so the order in which they act is left open.
Dequeue(w, x) ==
  /\ pc[w] = "idle" /\ iocpOpen /\ ctx[x].st = "queued"
  /\ ctx' = [ctx EXCEPT ![x] = Moved(x, "held", ctx[x].status)]
  /\ cur' = [cur EXCEPT ![w] = x]
  /\ pSession' = [pSession EXCEPT ![w] = ctx[x].conn]
  /\ Goto(w, CASE ctx[x].status \in {"fail", "zero"} -> "erase"
               [] ctx[x].status = "data" -> "parse"
               [] OTHER -> "sent")
  /\ UNCHANGED <<heap, mSessions, net, targets, handles, dead, work, stale>>

WorkerExits(w) ==
  /\ pc[w] = "idle" /\ ~iocpOpen
  /\ Goto(w, "exited")
  /\ UNCHANGED <<heap, mSessions, net, ctx, locals, handles, dead, work, stale>>

\* Mutant: an incomplete packet returns before the next PostRecv.
NeedMoreReturns(w) ==
  /\ pc[w] = "parse"
  /\ Touch(pSession[w])
  /\ DeleteContext(w)
  /\ Loop(w)
  /\ UNCHANGED <<heap, mSessions, net, targets, handles, dead, work>>

\* No further packet is complete: leave the assembly loop.
NeedMore(w) ==
  /\ pc[w] = "parse"
  /\ Touch(pSession[w])
  /\ Goto(w, "rearm")
  /\ UNCHANGED <<heap, mSessions, net, ctx, locals, handles, dead, work>>

\* Takes one packet of the given kind off the assembly buffer.
TakesPacket(w, kind) ==
  /\ pc[w] = "parse" /\ kind \in Kinds /\ work < MaxWork
  /\ work' = work + 1
  /\ Touch(pSession[w])

\* Too large, an unexpected extension header, or a chat before login: the
\* context is deleted and the worker loop calls CloseSession.
RejectPacket(w) ==
  /\ \/ TakesPacket(w, "Reject")
     \/ TakesPacket(w, "Chat") /\ ~isLoggedIn[addr[pSession[w]]]
  /\ DeleteContext(w)
  /\ cur' = [cur EXCEPT ![w] = NONE]
  /\ Goto(w, "erase")
  /\ UNCHANGED <<heap, mSessions, net, pSession, targets, handles, dead>>

\* SendMessageAll: the snapshot of the targets under mCS.
ChatPacket(w) ==
  /\ TakesPacket(w, "Chat") /\ isLoggedIn[addr[pSession[w]]]
  /\ targets' = [targets EXCEPT ![w] =
                   {s \in mSessions : addr[s] # addr[pSession[w]]}]
  /\ Goto(w, "broadcast")
  /\ UNCHANGED <<heap, mSessions, net, ctx, pSession, cur, handles, dead>>

AuthPacket(w) ==
  /\ \/ TakesPacket(w, "Login") /\ Goto(w, "login")
     \/ TakesPacket(w, "Register") /\ Goto(w, "register")
  /\ UNCHANGED <<heap, mSessions, net, ctx, locals, handles, dead>>

\* An unknown command, or a chat too long for one send buffer: ErrorHandler.
FatalPacket(w) ==
  /\ TakesPacket(w, "Fatal")
  /\ Goto(w, "relSessions")
  /\ UNCHANGED <<heap, mSessions, net, ctx, locals, handles, dead>>

\* PostSend, to session s, of what session r says; the context is deleted when
\* WSASend refuses it.
PostSend(s, r) ==
  /\ UseHandle(s, r)
  /\ \/ /\ Accepts(hSocket[addr[s]])
        /\ \E x \in Ctx : /\ ctx[x].st = "free"
                          /\ ctx' = [ctx EXCEPT ![x] = Posted("Send", hSocket[addr[s]])]
     \/ Refuses(hSocket[addr[s]]) /\ UNCHANGED ctx

\* HandleLoginRequest and HandleRegistRequest: only a login that succeeds
\* changes the session; the answer is sent on the same session.
AnswerAuth(w) ==
  /\ pc[w] \in {"login", "register"}
  /\ \E ok \in BOOLEAN :
       isLoggedIn' = [isLoggedIn EXCEPT ![addr[pSession[w]]] =
                        @ \/ (ok /\ pc[w] = "login")]
  /\ PostSend(pSession[w], pSession[w])
  /\ Goto(w, "parse")
  /\ UNCHANGED <<addr, owner, hSocket, mSessions, net, locals, handles, dead, work>>

BroadcastOne(w) ==
  /\ pc[w] = "broadcast"
  /\ \E s \in targets[w] :
       /\ PostSend(s, pSession[w])
       /\ targets' = [targets EXCEPT ![w] = @ \ {s}]
  /\ UNCHANGED <<heap, mSessions, net, pc, pSession, cur, handles, dead, work>>

BroadcastDone(w) ==
  /\ pc[w] = "broadcast" /\ targets[w] = {}
  /\ Goto(w, "parse")
  /\ UNCHANGED <<heap, mSessions, net, ctx, locals, handles, dead, work, stale>>

\* delete old_ctx, then PostRecv; ErrorHandler when WSARecv refuses.
Rearm(w) ==
  LET s == pSession[w] IN
  /\ pc[w] = "rearm"
  /\ UseHandle(s, s)
  /\ cur' = [cur EXCEPT ![w] = NONE]
  /\ \/ /\ Accepts(hSocket[addr[s]])
        /\ \E x \in Ctx :
             /\ ctx[x].st = "free" \/ x = cur[w]
             /\ ctx' = [y \in Ctx |-> IF y = x THEN Posted("Recv", hSocket[addr[s]])
                                      ELSE IF y = cur[w] THEN Free ELSE ctx[y]]
        /\ Goto(w, "idle")
        /\ pSession' = [pSession EXCEPT ![w] = NONE]
     \/ /\ Refuses(hSocket[addr[s]])
        /\ DeleteContext(w)
        /\ Goto(w, "relSessions")
        /\ UNCHANGED pSession
  /\ UNCHANGED <<heap, mSessions, net, targets, handles, dead, work>>

\* Everything was sent: delete the context.
SendDone(w) ==
  /\ pc[w] = "sent" /\ ctx[cur[w]].status = "all"
  /\ DeleteContext(w)
  /\ Loop(w)
  /\ UNCHANGED <<heap, mSessions, net, targets, handles, dead, work, stale>>

\* Mutant: the worker keeps its hold on the context it has just re-posted.
SendRestKeeps(w) ==
  LET s == pSession[w] IN
  /\ pc[w] = "sent" /\ ctx[cur[w]].status = "part"
  /\ UseHandle(s, s)
  /\ Accepts(hSocket[addr[s]])
  /\ ctx' = [ctx EXCEPT ![cur[w]] = Posted("Send", hSocket[addr[s]])]
  /\ Goto(w, "erase")
  /\ UNCHANGED <<heap, mSessions, net, locals, handles, dead, work>>

\* A partial send: the same context goes out again with the rest.  When
\* WSASend refuses it, OnSendCompleted returns false and nobody deletes it.
SendRest(w) ==
  LET s == pSession[w] IN
  /\ pc[w] = "sent" /\ ctx[cur[w]].status = "part"
  /\ UseHandle(s, s)
  /\ \/ /\ Accepts(hSocket[addr[s]])
        /\ ctx' = [ctx EXCEPT ![cur[w]] = Posted("Send", hSocket[addr[s]])]
        /\ Loop(w)
     \/ /\ Refuses(hSocket[addr[s]])
        /\ ctx' = [ctx EXCEPT ![cur[w]] = Moved(cur[w], "leaked", ctx[cur[w]].status)]
        /\ cur' = [cur EXCEPT ![w] = NONE]
        /\ Goto(w, "erase")
        /\ UNCHANGED pSession
  /\ UNCHANGED <<heap, mSessions, net, targets, handles, dead, work>>

-----------------------------------------------------------------------------
(* CloseSession, run by a worker for the session of a completion.          *)

\* The worker is done with a session: `delete ctx`, unless it went before.
CloseReturns(w) == DeleteContext(w) /\ Loop(w)

\* Mutant: erase without asking whether std::find found anything.
CloseEraseUnchecked(w) ==
  LET found == {s \in mSessions : addr[s] = addr[pSession[w]]} IN
  /\ pc[w] = "erase"
  /\ IF mSessions = {} THEN UNCHANGED mSessions
     ELSE \E s \in (IF found = {} THEN mSessions ELSE found) : mSessions' = mSessions \ {s}
  /\ Goto(w, "check")
  /\ UNCHANGED <<heap, net, ctx, locals, handles, dead, work, stale>>

\* std::find and erase under mCS: the search compares addresses.
CloseErase(w) ==
  LET found == {s \in mSessions : addr[s] = addr[pSession[w]]} IN
  /\ pc[w] = "erase"
  /\ IF found = {} THEN UNCHANGED mSessions
     ELSE \E s \in found : mSessions' = mSessions \ {s}
  /\ Goto(w, "check")
  /\ UNCHANGED <<heap, net, ctx, locals, handles, dead, work, stale>>

\* if (hSocket != INVALID_SOCKET)
CloseCheck(w) ==
  /\ pc[w] = "check"
  /\ Touch(pSession[w])
  /\ IF hSocket[addr[pSession[w]]] = NONE THEN CloseReturns(w)
     ELSE Goto(w, "close") /\ UNCHANGED <<ctx, pSession, cur>>
  /\ UNCHANGED <<heap, mSessions, net, targets, handles, dead, work>>

\* Mutant: the handle is forgotten before it is closed.
CloseSocketForgotten(w) ==
  /\ pc[w] = "close"
  /\ Touch(pSession[w])
  /\ hSocket' = [hSocket EXCEPT ![addr[pSession[w]]] = NONE]
  /\ Goto(w, "delete")
  /\ UNCHANGED <<addr, owner, isLoggedIn, mSessions, net, ctx, locals, handles, dead, work>>

\* shutdown and closesocket, through the reference into the session.  The second
\* of two workers past the check closes what the handle stands for by then.
CloseSocket(w) ==
  LET h == hSocket[addr[pSession[w]]] IN
  /\ pc[w] = "close"
  /\ UseHandle(pSession[w], pSession[w])
  /\ sock' = [c \in Conn |-> IF h # NONE /\ c = now[h] THEN "closed" ELSE sock[c]]
  /\ Goto(w, "invalidate")
  /\ UNCHANGED <<heap, mSessions, peer, now, ctx, locals, handles, dead, work>>

CloseInvalidate(w) ==
  /\ pc[w] = "invalidate"
  /\ Touch(pSession[w])
  /\ hSocket' = [hSocket EXCEPT ![addr[pSession[w]]] = NONE]
  /\ Goto(w, "delete")
  /\ UNCHANGED <<addr, owner, isLoggedIn, mSessions, net, ctx, locals, handles, dead, work>>

\* `delete session`; a second delete of a cell is left to HeapFault.
CloseDelete(w) ==
  LET a == addr[pSession[w]] IN
  /\ pc[w] = "delete" /\ owner[a] # NONE
  /\ Touch(pSession[w])
  /\ owner' = [owner EXCEPT ![a] = NONE]
  /\ CloseReturns(w)
  /\ UNCHANGED <<addr, hSocket, isLoggedIn, mSessions, net, targets, handles, dead, work>>

-----------------------------------------------------------------------------
(* Stopping: ReleaseServer, run by Main after Ctrl+C and by ErrorHandler    *)
(* in any thread, which then throws out of the thread.                     *)

CtrlC ==
  /\ CanStop /\ ~stopEvent
  /\ stopEvent' = TRUE
  /\ UNCHANGED <<heap, mSessions, net, ctx, pc, locals, listening, iocpOpen, dead, work, stale>>

MainWakes ==
  /\ pc[Main] = "wait" /\ stopEvent
  /\ Goto(Main, "relSessions")
  /\ UNCHANGED <<heap, mSessions, net, ctx, locals, handles, dead, work, stale>>

\* Closes and deletes every listed session under mCS.  An entry whose cell
\* was freed before, or is listed twice, is a second delete: see HeapFault.
ReleaseSessions(t) ==
  LET cells == {addr[s] : s \in mSessions}
      open == {hSocket[a] : a \in cells} \ {NONE} IN
  /\ pc[t] = "relSessions"
  /\ \A r, s \in mSessions : owner[addr[s]] # NONE /\ (addr[r] = addr[s] => r = s)
  /\ stale' = (stale \/ (\E s \in mSessions : ~Live(s)) \/ \E h \in open : now[h] # h)
  /\ sock' = [c \in Conn |-> IF \E h \in open : now[h] = c THEN "closed" ELSE sock[c]]
  /\ hSocket' = [a \in Addr |-> IF a \in cells THEN NONE ELSE hSocket[a]]
  /\ owner' = [a \in Addr |-> IF a \in cells THEN NONE ELSE owner[a]]
  /\ mSessions' = {}
  /\ Goto(t, "relHandles")
  /\ UNCHANGED <<addr, isLoggedIn, peer, now, ctx, locals, handles, dead, work>>

\* Mutant: the workers are waited for before the port is closed.
ReleaseHandlesJoins(t) ==
  /\ pc[t] = "relHandles"
  /\ \A w \in Worker \ {t} : pc[w] = "exited"
  /\ listening' = FALSE /\ iocpOpen' = FALSE
  /\ Goto(t, "relEnd")
  /\ UNCHANGED <<heap, mSessions, net, ctx, locals, stopEvent, dead, work, stale>>

\* Closes the listening socket and the completion port.
ReleaseHandles(t) ==
  /\ pc[t] = "relHandles"
  /\ listening' = FALSE /\ iocpOpen' = FALSE
  /\ Goto(t, "relEnd")
  /\ UNCHANGED <<heap, mSessions, net, ctx, locals, stopEvent, dead, work, stale>>

\* After Sleep(500): main returns, or the exception ends the process.
ReleaseEnd(t) ==
  /\ pc[t] = "relEnd"
  /\ dead' = TRUE
  /\ UNCHANGED <<heap, mSessions, net, ctx, pc, locals, handles, work, stale>>

-----------------------------------------------------------------------------
(* Use of a deleted session.                                               *)

\* The sessions the thread's next step dereferences.
Derefs(t) ==
  CASE pc[t] \in {"arm", "parse", "login", "register", "rearm", "check",
                  "close", "invalidate", "delete"} -> {pSession[t]}
    [] pc[t] = "sent" -> IF ctx[cur[t]].status = "part" THEN {pSession[t]} ELSE {}
    [] pc[t] = "broadcast" -> targets[t] \cup {pSession[t]}
    [] pc[t] = "relSessions" -> mSessions
    [] OTHER -> {}

\* The other outcome of a dangling dereference, and the only one of a second
\* delete: an access violation or the heap's own check ends the process.
HeapFault(t) ==
  /\ \E s \in Derefs(t) : ~Live(s)
  /\ stale' = TRUE /\ dead' = TRUE
  /\ UNCHANGED <<heap, mSessions, net, ctx, pc, locals, handles, work>>

-----------------------------------------------------------------------------

WorkerStep(w) ==
  \/ WorkerExits(w)
  \/ NeedMore(w) \/ RejectPacket(w) \/ ChatPacket(w) \/ AuthPacket(w) \/ FatalPacket(w)
  \/ AnswerAuth(w) \/ BroadcastOne(w) \/ BroadcastDone(w) \/ Rearm(w)
  \/ SendDone(w) \/ SendRest(w)
  \/ CloseErase(w) \/ CloseCheck(w) \/ CloseSocket(w) \/ CloseInvalidate(w) \/ CloseDelete(w)

AcceptorStep == (\E c \in Conn : Accept(c)) \/ Arm \/ Publish \/ AcceptFails

ReleaseStep(t) == ReleaseSessions(t) \/ ReleaseHandles(t) \/ ReleaseEnd(t)

Next ==
  /\ ~dead
  /\ \/ \E c \in Conn : Connect(c) \/ Leave(c)
     \/ \E x \in Ctx : Complete(x)
     \/ \E w \in Worker : WorkerStep(w) \/ \E x \in Ctx : Dequeue(w, x)
     \/ AcceptorStep
     \/ CtrlC \/ MainWakes
     \/ \E t \in Thread : ReleaseStep(t) \/ HeapFault(t)

Spec == Init /\ [][Next]_vars

\* A thread in the middle of a handler moves on, or brings the process down;
\* operations on a socket that is closed or whose peer left end; the port
\* hands out what is queued (first in, first out, hence strong).  Nothing is
\* assumed of the clients.
Fairness ==
  /\ \A w \in Worker : WF_vars(~dead /\ (WorkerStep(w) \/ ReleaseStep(w) \/ HeapFault(w)))
  /\ WF_vars(~dead /\ (Arm \/ Publish \/ ReleaseStep(Acceptor) \/ HeapFault(Acceptor)))
  /\ WF_vars(~dead /\ (MainWakes \/ ReleaseStep(Main) \/ HeapFault(Main)))
  /\ \A x \in Ctx :
       /\ WF_vars(~dead /\ Complete(x) /\ "fail" \in Outcome(x))
       /\ WF_vars(~dead /\ Complete(x) /\ "zero" \in Outcome(x))
       /\ SF_vars(~dead /\ \E w \in Worker : Dequeue(w, x))

FairSpec == Spec /\ Fairness

-----------------------------------------------------------------------------
(* Properties.                                                             *)

\* The variables keep their types.
TypeOK ==
  /\ addr \in [Conn -> Addr \cup {NONE}]
  /\ owner \in [Addr -> Conn \cup {NONE}]
  /\ hSocket \in [Addr -> Conn \cup {NONE}]
  /\ isLoggedIn \in [Addr -> BOOLEAN]
  /\ mSessions \in SUBSET Conn
  /\ sock \in [Conn -> {"none", "backlog", "open", "closed"}]
  /\ peer \in [Conn -> {"open", "fin", "reset"}]
  /\ now \in [Conn -> Conn]
  /\ ctx \in [Ctx -> [st : {"free", "kernel", "queued", "held", "leaked"},
                      type : {"Recv", "Send"}, conn : Conn \cup {NONE},
                      status : {"none", "data", "zero", "fail", "all", "part"}]]
  /\ pc \in [Thread -> WorkerPC \cup AcceptorPC \cup MainPC]
  /\ pSession \in [Thread -> Conn \cup {NONE}]
  /\ cur \in [Thread -> Ctx \cup {NONE}]
  /\ targets \in [Thread -> SUBSET Conn]
  /\ listening \in BOOLEAN /\ iocpOpen \in BOOLEAN /\ stopEvent \in BOOLEAN
  /\ dead \in BOOLEAN /\ stale \in BOOLEAN
  /\ work \in 0..MaxWork

\* A context that a worker may still delete or re-post is in no other hands:
\* the kernel and the port are done with it and no other worker took it.
ContextOwnership ==
  \A w \in Worker : cur[w] # NONE =>
    /\ ctx[cur[w]].st = "held"
    /\ \A v \in Worker \ {w} : cur[v] # cur[w]

Releasing == \E t \in Thread : pc[t] \in ReleasePC

\* Some worker is inside CloseSession with the address of s.
Closing(s) == \E w \in Worker : pc[w] \in ClosePC /\ addr[pSession[w]] = addr[s]

Receiving(w, s) == pc[w] \in RecvPC /\ pSession[w] = s
RecvPending(x, s) ==
  ctx[x].st \in {"kernel", "queued"} /\ ctx[x].type = "Recv" /\ ctx[x].conn = s

\* The server never goes deaf to a client: as long as its session exists, a
\* receive is outstanding on its socket, or a worker is handling the last
\* one and will post the next, or the session is being closed, or its socket
\* was, under it, and the handle is another client's by now.
NeverDeaf ==
  \A s \in Conn : Live(s) =>
    \/ \E x \in Ctx : RecvPending(x, s)
    \/ \E w \in Worker : Receiving(w, s)
    \/ pc[Acceptor] = "arm" /\ pSession[Acceptor] = s
    \/ Closing(s) \/ Releasing \/ now[s] # s

\* A session stays in mSessions, and so gets every broadcast, from the end
\* of its accept until it is being closed.
StaysListed ==
  \A s \in Conn : Live(s) =>
    \/ s \in mSessions
    \/ pc[Acceptor] \in {"arm", "publish"} /\ pSession[Acceptor] = s
    \/ Closing(s) \/ Releasing

\* assemblyBuffer, isLoggedIn and userID need no lock: until a deleted
\* session is used, there is at most one receive per session, outstanding
\* or in the hands of one worker.
RecvExclusive ==
  ~stale =>
    \A s \in Conn :
      /\ \A x, y \in Ctx : RecvPending(x, s) /\ RecvPending(y, s) => x = y
      /\ \A v, w \in Worker : Receiving(v, s) /\ Receiving(w, s) => v = w
      /\ \A x \in Ctx, w \in Worker : ~(RecvPending(x, s) /\ Receiving(w, s))

\* Until a deleted session is used, a session's object goes away only when
\* its socket has been closed: no handle is lost, whoever ran CloseSession.
NoSocketLeak ==
  [][\A s \in Conn : Live(s) /\ ~Live(s)' /\ ~stale' => sock[s]' = "closed" \/ Releasing']_vars

\* A client that left is noticed: its socket is closed, unless the process
\* ends or a deleted session is used first.
GoneIsClosed ==
  \A s \in Conn :
    (sock[s] = "open" /\ peer[s] # "open") ~> (sock[s] = "closed" \/ dead \/ stale)

\* Ctrl+C ends the process, whatever the clients and the other threads are
\* doing, and even when a packet takes the server down at the same time.
StopEnds == stopEvent ~> dead

-----------------------------------------------------------------------------
(* What comments and the README say of this code and it does not do.        *)

\* "the key that tells the sockets in the port apart" (IOCP_Server.cpp:276), "keep
\* the lock short, only snapshot the targets" (191): as long as the server is
\* not stopped, the session that a completion key or a snapshot names still
\* exists whenever a worker uses the pointer.
UsedSessionsExist ==
  ~Releasing =>
    \A w \in Worker : \A s \in (Derefs(w) \cap {pSession[w]}) \cup targets[w] : Live(s)

=============================================================================
