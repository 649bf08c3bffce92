-------------------------- MODULE IOCP_ServerProofs --------------------------
(***************************************************************************)
(* Proofs about IOCP_Server: one lemma per conjunct of the inductive       *)
(* invariant IInv, with one step per action or group of actions, then the  *)
(* invariance of IInv and the properties that follow from it.              *)
(***************************************************************************)
EXTENDS IOCP_ServerInv, TLAPS

\* Every step keeps the types.
LEMMA TypeStep ==
  ASSUME TypeOK, PcOK, Named, CellsOK, Next
  PROVE  TypeOK'
<1> USE ConstantsAssumption DEF TypeOK, PcOK, Named, CellsOK, Has, Thread, Outcome,
           WorkerPC, AcceptorPC, MainPC, ReleasePC, RecvPC, ClosePC,
           heap, net, locals, handles, Goto, Loop, Touch, UseHandle, DeleteContext, CloseReturns, Free, Moved,
           Posted, Accepts, Refuses, PostSend, TakesPacket
<1>1. ASSUME NEW c \in Conn, Connect(c) \/ Leave(c)
       PROVE  TypeOK'
  BY <1>1 DEF Connect, Leave
<1>2. ASSUME CtrlC
       PROVE  TypeOK'
  BY <1>2 DEF CtrlC
<1>3. ASSUME MainWakes
       PROVE  TypeOK'
  BY <1>3 DEF MainWakes
<1>4. ASSUME AcceptFails
       PROVE  TypeOK'
  BY <1>4 DEF AcceptFails
<1>5. ASSUME Publish
       PROVE  TypeOK'
  BY <1>5 DEF Publish
<1>6. ASSUME NEW x \in Ctx, Complete(x)
       PROVE  TypeOK'
  BY <1>6 DEF Complete
<1>7. ASSUME NEW c \in Conn, Accept(c)
       PROVE  TypeOK'
  BY <1>7 DEF Accept
<1>8. ASSUME Arm
       PROVE  TypeOK'
  BY <1>8 DEF Arm
<1>9. ASSUME NEW w \in Worker, NEW x \in Ctx, 
              Dequeue(w, x)
       PROVE  TypeOK'
  BY <1>9 DEF Dequeue
<1>10. ASSUME NEW w \in Worker, WorkerExits(w)
       PROVE  TypeOK'
  BY <1>10 DEF WorkerExits
<1>11. ASSUME NEW w \in Worker, NeedMore(w)
       PROVE  TypeOK'
  BY <1>11 DEF NeedMore
<1>12. ASSUME NEW w \in Worker, BroadcastDone(w)
       PROVE  TypeOK'
  BY <1>12 DEF BroadcastDone
<1>13. ASSUME NEW w \in Worker, ChatPacket(w)
       PROVE  TypeOK'
  BY <1>13 DEF ChatPacket
<1>14. ASSUME NEW w \in Worker, RejectPacket(w)
       PROVE  TypeOK'
  <2>1. CASE TakesPacket(w, "Reject")
    BY <1>14, <2>1 DEF RejectPacket
  <2>2. CASE TakesPacket(w, "Chat")
    BY <1>14, <2>2 DEF RejectPacket
  <2> QED
    BY <1>14, <2>1, <2>2 DEF RejectPacket
<1>15. ASSUME NEW w \in Worker, AuthPacket(w)
       PROVE  TypeOK'
  <2>1. CASE TakesPacket(w, "Login") /\ Goto(w, "login")
    BY <1>15, <2>1 DEF AuthPacket
  <2>2. CASE TakesPacket(w, "Register") /\ Goto(w, "register")
    BY <1>15, <2>2 DEF AuthPacket
  <2> QED
    BY <1>15, <2>1, <2>2 DEF AuthPacket
<1>16. ASSUME NEW w \in Worker, FatalPacket(w)
       PROVE  TypeOK'
  BY <1>16 DEF FatalPacket
<1>17. ASSUME NEW w \in Worker, AnswerAuth(w)
       PROVE  TypeOK'
  BY <1>17 DEF AnswerAuth
<1>18. ASSUME NEW w \in Worker, BroadcastOne(w)
       PROVE  TypeOK'
  BY <1>18 DEF BroadcastOne
<1>19. ASSUME NEW w \in Worker, Rearm(w)
       PROVE  TypeOK'
  BY <1>19 DEF Rearm
<1>20. ASSUME NEW w \in Worker, SendDone(w)
       PROVE  TypeOK'
  BY <1>20 DEF SendDone
<1>21. ASSUME NEW w \in Worker, SendRest(w)
       PROVE  TypeOK'
  <2>1. CASE ctx' = [ctx EXCEPT ![cur[w]] = Posted("Send", hSocket[addr[pSession[w]]])]
             /\ Accepts(hSocket[addr[pSession[w]]]) /\ Loop(w)
    BY <1>21, <2>1 DEF SendRest
  <2>2. CASE /\ ctx' = [ctx EXCEPT ![cur[w]] = Moved(cur[w], "leaked", ctx[cur[w]].status)]
             /\ cur' = [cur EXCEPT ![w] = NONE] /\ Goto(w, "erase") /\ UNCHANGED pSession
    BY <1>21, <2>2 DEF SendRest
  <2> QED
    BY <1>21, <2>1, <2>2 DEF SendRest
<1>22. ASSUME NEW w \in Worker, CloseErase(w)
       PROVE  TypeOK'
  BY <1>22 DEF CloseErase
<1>23. ASSUME NEW w \in Worker, CloseCheck(w)
       PROVE  TypeOK'
  BY <1>23 DEF CloseCheck
<1>24. ASSUME NEW w \in Worker, CloseSocket(w)
       PROVE  TypeOK'
  BY <1>24 DEF CloseSocket
<1>25. ASSUME NEW w \in Worker, CloseInvalidate(w)
       PROVE  TypeOK'
  BY <1>25 DEF CloseInvalidate
<1>26. ASSUME NEW w \in Worker, CloseDelete(w)
       PROVE  TypeOK'
  BY <1>26 DEF CloseDelete
<1>27. ASSUME NEW t \in Thread, ReleaseSessions(t)
       PROVE  TypeOK'
  BY <1>27 DEF ReleaseSessions
<1>28. ASSUME NEW t \in Thread, ReleaseHandles(t)
       PROVE  TypeOK'
  BY <1>28 DEF ReleaseHandles
<1>29. ASSUME NEW t \in Thread, ReleaseEnd(t)
       PROVE  TypeOK'
  BY <1>29 DEF ReleaseEnd
<1>30. ASSUME NEW t \in Thread, HeapFault(t)
       PROVE  TypeOK'
  BY <1>30 DEF HeapFault
<1> HIDE DEF TypeOK, PcOK, Named, CellsOK, Has, Thread, Outcome,
           WorkerPC, AcceptorPC, MainPC, ReleasePC, RecvPC, ClosePC
<1> QED
  BY <1>1, <1>2, <1>3, <1>4, <1>5, <1>6, <1>7, <1>8, <1>9, <1>10, <1>11, <1>12, <1>13, <1>14, <1>15, <1>16, <1>17, <1>18, <1>19, <1>20, <1>21, <1>22, <1>23, <1>24, <1>25, <1>26, <1>27, <1>28, <1>29, <1>30 DEF Next, WorkerStep, AcceptorStep, ReleaseStep

\* Every thread stays in its own code.
LEMMA PcStep ==
  ASSUME TypeOK, PcOK, Next
  PROVE  PcOK'
<1> USE ConstantsAssumption DEF TypeOK, PcOK, Thread,
           WorkerPC, AcceptorPC, MainPC, ReleasePC, RecvPC, ClosePC,
           heap, net, locals, handles, Goto, Loop, Touch, DeleteContext, CloseReturns, Free, Moved,
           Posted, Accepts, Refuses, PostSend, TakesPacket
<1>1. ASSUME \/ \E c \in Conn : Connect(c) \/ Leave(c) \/ Accept(c)
             \/ CtrlC
             \/ MainWakes
             \/ AcceptFails
             \/ Publish
             \/ Arm
             \/ \E x \in Ctx : Complete(x)
       PROVE  PcOK'
  BY <1>1 DEF Connect, Leave, CtrlC, MainWakes, AcceptFails, Publish, Complete,
           Accept, Arm
<1>2. ASSUME NEW w \in Worker, NEW x \in Ctx, 
              Dequeue(w, x)
       PROVE  PcOK'
  BY <1>2 DEF Dequeue
<1>3. ASSUME NEW w \in Worker, 
              WorkerExits(w) \/ NeedMore(w) \/ BroadcastDone(w)
              \/ ChatPacket(w) \/ RejectPacket(w) \/ AuthPacket(w)
              \/ FatalPacket(w) \/ AnswerAuth(w) \/ BroadcastOne(w)
       PROVE  PcOK'
  BY <1>3 DEF WorkerExits, NeedMore, BroadcastDone, ChatPacket, RejectPacket,
           AuthPacket, FatalPacket, AnswerAuth, BroadcastOne
<1>4. ASSUME NEW w \in Worker, 
              Rearm(w) \/ SendDone(w) \/ SendRest(w)
       PROVE  PcOK'
  BY <1>4 DEF Rearm, SendDone, SendRest
<1>5. ASSUME NEW w \in Worker, 
              CloseErase(w) \/ CloseCheck(w) \/ CloseSocket(w)
              \/ CloseInvalidate(w) \/ CloseDelete(w)
       PROVE  PcOK'
  BY <1>5 DEF CloseErase, CloseCheck, CloseSocket, CloseInvalidate, CloseDelete
<1>6. ASSUME NEW t \in Thread, 
              ReleaseSessions(t) \/ ReleaseHandles(t) \/ ReleaseEnd(t)
              \/ HeapFault(t)
       PROVE  PcOK'
  BY <1>6 DEF ReleaseSessions, ReleaseHandles, ReleaseEnd, HeapFault
<1> HIDE DEF TypeOK, PcOK, Thread,
           WorkerPC, AcceptorPC, MainPC, ReleasePC, RecvPC, ClosePC
<1> QED
  BY <1>1, <1>2, <1>3, <1>4, <1>5, <1>6 DEF Next, WorkerStep, AcceptorStep, ReleaseStep

\* Every step names only sessions that were allocated.
LEMMA NamedStep ==
  ASSUME TypeOK, PcOK, Named, CellsOK, Next
  PROVE  Named'
<1> USE ConstantsAssumption DEF TypeOK, PcOK, Named, CellsOK, Has, Thread,
           WorkerPC, AcceptorPC, MainPC, ReleasePC, RecvPC, ClosePC,
           heap, net, locals, handles, Goto, Loop, Touch, DeleteContext, CloseReturns, Free, Moved,
           Posted, Accepts, Refuses, PostSend, TakesPacket
<1>1. ASSUME \/ \E c \in Conn : Connect(c) \/ Leave(c)
             \/ CtrlC
             \/ MainWakes
             \/ AcceptFails
       PROVE  Named'
  BY <1>1 DEF Connect, Leave, CtrlC, MainWakes, AcceptFails
<1>2. ASSUME Publish
       PROVE  Named'
  BY <1>2 DEF Publish
<1>3. ASSUME NEW x \in Ctx, Complete(x)
       PROVE  Named'
  BY <1>3 DEF Complete
<1>4. ASSUME NEW c \in Conn, Accept(c)
       PROVE  Named'
  BY <1>4 DEF Accept
<1>5. ASSUME Arm
       PROVE  Named'
  BY <1>5 DEF Arm
<1>6. ASSUME NEW w \in Worker, NEW x \in Ctx, 
              Dequeue(w, x)
       PROVE  Named'
  BY <1>6 DEF Dequeue
<1>7. ASSUME NEW w \in Worker, 
              WorkerExits(w) \/ NeedMore(w) \/ BroadcastDone(w)
              \/ ChatPacket(w)
       PROVE  Named'
  BY <1>7 DEF WorkerExits, NeedMore, BroadcastDone, ChatPacket
<1>8. ASSUME NEW w \in Worker, 
              RejectPacket(w) \/ AuthPacket(w) \/ FatalPacket(w)
       PROVE  Named'
  BY <1>8 DEF RejectPacket, AuthPacket, FatalPacket
<1>9. ASSUME NEW w \in Worker, AnswerAuth(w)
       PROVE  Named'
  BY <1>9, SMTT(30) DEF AnswerAuth
<1>10. ASSUME NEW w \in Worker, BroadcastOne(w)
       PROVE  Named'
  BY <1>10 DEF BroadcastOne
<1>11. ASSUME NEW w \in Worker, Rearm(w)
       PROVE  Named'
  BY <1>11 DEF Rearm
<1>12. ASSUME NEW w \in Worker, SendDone(w) \/ SendRest(w)
       PROVE  Named'
  BY <1>12 DEF SendDone, SendRest
<1>13. ASSUME NEW w \in Worker, 
              CloseErase(w) \/ CloseCheck(w) \/ CloseSocket(w)
       PROVE  Named'
  BY <1>13 DEF CloseErase, CloseCheck, CloseSocket
<1>14. ASSUME NEW w \in Worker, CloseInvalidate(w) \/ CloseDelete(w)
       PROVE  Named'
  BY <1>14 DEF CloseInvalidate, CloseDelete
<1>15. ASSUME NEW t \in Thread, 
              ReleaseSessions(t) \/ ReleaseHandles(t) \/ ReleaseEnd(t)
              \/ HeapFault(t)
       PROVE  Named'
  BY <1>15 DEF ReleaseSessions, ReleaseHandles, ReleaseEnd, HeapFault
<1> HIDE DEF TypeOK, PcOK, Named, CellsOK, Has, Thread,
           WorkerPC, AcceptorPC, MainPC, ReleasePC, RecvPC, ClosePC
<1> QED
  BY <1>1, <1>2, <1>3, <1>4, <1>5, <1>6, <1>7, <1>8, <1>9, <1>10, <1>11, <1>12, <1>13, <1>14, <1>15 DEF Next, WorkerStep, AcceptorStep, ReleaseStep

\* Every step keeps cells, sessions and handles in line.
LEMMA CellsStep ==
  ASSUME TypeOK, PcOK, Named, CellsOK, Next
  PROVE  CellsOK'
<1> USE ConstantsAssumption DEF TypeOK, PcOK, Named, CellsOK, Has, Thread,
           WorkerPC, AcceptorPC, MainPC, ReleasePC, RecvPC, ClosePC,
           heap, net, locals, handles, Goto, Loop, Touch, DeleteContext, CloseReturns, Free, Moved,
           Posted, Accepts, Refuses, PostSend, TakesPacket
<1>1. ASSUME \/ \E c \in Conn : Connect(c) \/ Leave(c)
             \/ CtrlC
             \/ MainWakes
             \/ AcceptFails
             \/ Publish
             \/ \E x \in Ctx : Complete(x)
       PROVE  CellsOK'
  BY <1>1 DEF Connect, Leave, CtrlC, MainWakes, AcceptFails, Publish, Complete
<1>2. ASSUME NEW c \in Conn, Accept(c)
       PROVE  CellsOK'
  BY <1>2 DEF Accept
<1>3. ASSUME Arm
       PROVE  CellsOK'
  BY <1>3 DEF Arm
<1>4. ASSUME NEW w \in Worker, NEW x \in Ctx, 
              Dequeue(w, x)
       PROVE  CellsOK'
  BY <1>4 DEF Dequeue
<1>5. ASSUME NEW w \in Worker, 
              WorkerExits(w) \/ NeedMore(w) \/ RejectPacket(w)
              \/ ChatPacket(w) \/ AuthPacket(w) \/ FatalPacket(w)
              \/ AnswerAuth(w) \/ BroadcastOne(w) \/ BroadcastDone(w)
              \/ Rearm(w) \/ SendDone(w) \/ SendRest(w)
       PROVE  CellsOK'
  <2> USE DEF heap, net
  <2>1. UNCHANGED <<addr, owner, hSocket, sock, now>>
    <3> HIDE DEF TypeOK, PcOK, Named, CellsOK, PostSend, DeleteContext, Posted,
                 Accepts, Refuses, TakesPacket, Moved, Goto, Loop, Touch
    <3> QED
      BY <1>5 DEF WorkerExits, NeedMore, RejectPacket, ChatPacket, AuthPacket,
           FatalPacket, AnswerAuth, BroadcastOne, BroadcastDone, Rearm, SendDone,
           SendRest
  <2> QED
    BY <2>1
<1>6. ASSUME NEW w \in Worker, 
              CloseErase(w) \/ CloseCheck(w) \/ CloseSocket(w)
       PROVE  CellsOK'
  BY <1>6 DEF CloseErase, CloseCheck, CloseSocket
<1>7. ASSUME NEW w \in Worker, CloseInvalidate(w) \/ CloseDelete(w)
       PROVE  CellsOK'
  BY <1>7 DEF CloseInvalidate, CloseDelete
<1>8. ASSUME NEW t \in Thread, 
              ReleaseSessions(t) \/ ReleaseHandles(t) \/ ReleaseEnd(t)
              \/ HeapFault(t)
       PROVE  CellsOK'
  BY <1>8 DEF ReleaseSessions, ReleaseHandles, ReleaseEnd, HeapFault
<1> HIDE DEF TypeOK, PcOK, Named, CellsOK, Has, Thread,
           WorkerPC, AcceptorPC, MainPC, ReleasePC, RecvPC, ClosePC
<1> QED
  BY <1>1, <1>2, <1>3, <1>4, <1>5, <1>6, <1>7, <1>8 DEF Next, WorkerStep, AcceptorStep, ReleaseStep

\* A context changes hands only from one owner to the next.
LEMMA ContextStep ==
  ASSUME TypeOK, PcOK, Named, ContextOwnership, Next
  PROVE  ContextOwnership'
<1> USE ConstantsAssumption DEF TypeOK, PcOK, Named, ContextOwnership, Thread,
           WorkerPC, AcceptorPC, MainPC, ReleasePC, RecvPC, ClosePC,
           heap, net, locals, handles, Goto, Loop, Touch, DeleteContext, CloseReturns, Free, Moved,
           Posted, Accepts, Refuses, PostSend, TakesPacket
<1>1. ASSUME \/ \E c \in Conn : Connect(c) \/ Leave(c)
             \/ CtrlC
             \/ MainWakes
             \/ AcceptFails
             \/ Publish
       PROVE  ContextOwnership'
  BY <1>1 DEF Connect, Leave, CtrlC, MainWakes, AcceptFails, Publish
<1>2. ASSUME NEW x \in Ctx, Complete(x)
       PROVE  ContextOwnership'
  BY <1>2 DEF Complete
<1>3. ASSUME NEW c \in Conn, Accept(c)
       PROVE  ContextOwnership'
  BY <1>3 DEF Accept
<1>4. ASSUME Arm
       PROVE  ContextOwnership'
  BY <1>4 DEF Arm
<1>5. ASSUME NEW w \in Worker, NEW x \in Ctx, 
              Dequeue(w, x)
       PROVE  ContextOwnership'
  BY <1>5 DEF Dequeue
<1>6. ASSUME NEW w \in Worker, 
              WorkerExits(w) \/ NeedMore(w) \/ BroadcastDone(w)
              \/ ChatPacket(w) \/ AuthPacket(w) \/ FatalPacket(w)
       PROVE  ContextOwnership'
  BY <1>6 DEF WorkerExits, NeedMore, BroadcastDone, ChatPacket, AuthPacket,
           FatalPacket
<1>7. ASSUME NEW w \in Worker, RejectPacket(w)
       PROVE  ContextOwnership'
  BY <1>7 DEF RejectPacket
<1>8. ASSUME NEW w \in Worker, AnswerAuth(w)
       PROVE  ContextOwnership'
  BY <1>8 DEF AnswerAuth
<1>9. ASSUME NEW w \in Worker, BroadcastOne(w)
       PROVE  ContextOwnership'
  BY <1>9 DEF BroadcastOne
<1>10. ASSUME NEW w \in Worker, Rearm(w)
       PROVE  ContextOwnership'
  BY <1>10 DEF Rearm
<1>11. ASSUME NEW w \in Worker, SendDone(w)
       PROVE  ContextOwnership'
  BY <1>11 DEF SendDone
<1>12. ASSUME NEW w \in Worker, SendRest(w)
       PROVE  ContextOwnership'
  BY <1>12, SMTT(30) DEF SendRest
<1>13. ASSUME NEW w \in Worker, 
              CloseErase(w) \/ CloseSocket(w) \/ CloseInvalidate(w)
       PROVE  ContextOwnership'
  BY <1>13 DEF CloseErase, CloseSocket, CloseInvalidate
<1>14. ASSUME NEW w \in Worker, CloseCheck(w)
       PROVE  ContextOwnership'
  BY <1>14 DEF CloseCheck
<1>15. ASSUME NEW w \in Worker, CloseDelete(w)
       PROVE  ContextOwnership'
  BY <1>15 DEF CloseDelete
<1>16. ASSUME NEW t \in Thread, 
              ReleaseSessions(t) \/ ReleaseHandles(t) \/ ReleaseEnd(t)
              \/ HeapFault(t)
       PROVE  ContextOwnership'
  BY <1>16 DEF ReleaseSessions, ReleaseHandles, ReleaseEnd, HeapFault
<1> HIDE DEF TypeOK, PcOK, Named, ContextOwnership, Thread,
           WorkerPC, AcceptorPC, MainPC, ReleasePC, RecvPC, ClosePC
<1> QED
  BY <1>1, <1>2, <1>3, <1>4, <1>5, <1>6, <1>7, <1>8, <1>9, <1>10, <1>11, <1>12, <1>13, <1>14, <1>15, <1>16 DEF Next, WorkerStep, AcceptorStep, ReleaseStep

\* Only a receive ends with data, with nothing or with an error.
LEMMA OutcomeStep ==
  ASSUME TypeOK, RecvOutcome, Next
  PROVE  RecvOutcome'
<1> USE ConstantsAssumption DEF TypeOK, RecvOutcome, Outcome, Thread,
           heap, net, locals, handles, Goto, Loop, Touch, DeleteContext, CloseReturns, Free, Moved,
           Posted, Accepts, Refuses, PostSend, TakesPacket
<1>1. ASSUME \/ \E c \in Conn : Connect(c) \/ Leave(c) \/ Accept(c)
             \/ CtrlC
             \/ MainWakes
             \/ AcceptFails
             \/ Publish
       PROVE  RecvOutcome'
  BY <1>1 DEF Connect, Leave, CtrlC, MainWakes, AcceptFails, Publish, Accept
<1>2. ASSUME NEW x \in Ctx, Complete(x)
       PROVE  RecvOutcome'
  BY <1>2 DEF Complete
<1>3. ASSUME Arm
       PROVE  RecvOutcome'
  BY <1>3 DEF Arm
<1>4. ASSUME NEW w \in Worker, NEW x \in Ctx, 
              Dequeue(w, x)
       PROVE  RecvOutcome'
  BY <1>4 DEF Dequeue
<1>5. ASSUME NEW w \in Worker, 
              WorkerExits(w) \/ NeedMore(w) \/ BroadcastDone(w)
              \/ ChatPacket(w) \/ AuthPacket(w) \/ FatalPacket(w)
       PROVE  RecvOutcome'
  BY <1>5 DEF WorkerExits, NeedMore, BroadcastDone, ChatPacket, AuthPacket,
           FatalPacket
<1>6. ASSUME NEW w \in Worker, RejectPacket(w)
       PROVE  RecvOutcome'
  BY <1>6 DEF RejectPacket
<1>7. ASSUME NEW w \in Worker, AnswerAuth(w)
       PROVE  RecvOutcome'
  BY <1>7 DEF AnswerAuth
<1>8. ASSUME NEW w \in Worker, BroadcastOne(w)
       PROVE  RecvOutcome'
  <2>1. PICK s \in targets[w] : PostSend(s, pSession[w])
    BY <1>8 DEF BroadcastOne
  <2> QED
    BY <1>8, <2>1 DEF BroadcastOne
<1>9. ASSUME NEW w \in Worker, Rearm(w)
       PROVE  RecvOutcome'
  BY <1>9 DEF Rearm
<1>10. ASSUME NEW w \in Worker, SendDone(w)
       PROVE  RecvOutcome'
  BY <1>10 DEF SendDone
<1>11. ASSUME NEW w \in Worker, SendRest(w)
       PROVE  RecvOutcome'
  BY <1>11 DEF SendRest
<1>12. ASSUME NEW w \in Worker, 
              CloseErase(w) \/ CloseSocket(w) \/ CloseInvalidate(w)
       PROVE  RecvOutcome'
  BY <1>12 DEF CloseErase, CloseSocket, CloseInvalidate
<1>13. ASSUME NEW w \in Worker, CloseCheck(w)
       PROVE  RecvOutcome'
  BY <1>13 DEF CloseCheck
<1>14. ASSUME NEW w \in Worker, CloseDelete(w)
       PROVE  RecvOutcome'
  BY <1>14 DEF CloseDelete
<1>15. ASSUME NEW t \in Thread, 
              ReleaseSessions(t) \/ ReleaseHandles(t) \/ ReleaseEnd(t)
              \/ HeapFault(t)
       PROVE  RecvOutcome'
  BY <1>15 DEF ReleaseSessions, ReleaseHandles, ReleaseEnd, HeapFault
<1> HIDE DEF TypeOK, RecvOutcome, Outcome, Thread
<1> QED
  BY <1>1, <1>2, <1>3, <1>4, <1>5, <1>6, <1>7, <1>8, <1>9, <1>10, <1>11, <1>12, <1>13, <1>14, <1>15 DEF Next, WorkerStep, AcceptorStep, ReleaseStep

\* Between CloseInvalidate and CloseDelete the worker stays in CloseSession.
LEMMA HandleGoneStep ==
  ASSUME TypeOK, PcOK, Named, CellsOK, HandleGone, Next
  PROVE  HandleGone'
<1> USE ConstantsAssumption DEF TypeOK, PcOK, Named, CellsOK, HandleGone, Releasing, Live, Has, Thread,
           WorkerPC, AcceptorPC, MainPC, ReleasePC, RecvPC, ClosePC,
           heap, net, locals, handles, Goto, Loop, Touch, DeleteContext, CloseReturns, Free, Moved,
           Posted, Accepts, Refuses, PostSend, TakesPacket
<1>1. ASSUME \/ \E c \in Conn : Connect(c) \/ Leave(c)
             \/ CtrlC
             \/ MainWakes
             \/ AcceptFails
             \/ Publish
       PROVE  HandleGone'
  BY <1>1 DEF Connect, Leave, CtrlC, MainWakes, AcceptFails, Publish
<1>2. ASSUME NEW x \in Ctx, Complete(x)
       PROVE  HandleGone'
  BY <1>2 DEF Complete
<1>3. ASSUME NEW c \in Conn, Accept(c)
       PROVE  HandleGone'
  <2>1. PICK a \in Addr :
          /\ owner[a] = NONE /\ ~Has(c)
          /\ addr' = [addr EXCEPT ![c] = a]
          /\ owner' = [owner EXCEPT ![a] = c]
          /\ hSocket' = [hSocket EXCEPT ![a] = c]
    BY <1>3 DEF Accept
  <2>2. \A w \in Worker : pc'[w] = pc[w] /\ pSession'[w] = pSession[w]
    BY <1>3 DEF Accept
  <2>3. \A t \in Thread : pc[t] \in ReleasePC => pc'[t] \in ReleasePC
    BY <1>3 DEF Accept
  <2>4. hSocket'[addr'[c]] = c
    BY <2>1
  <2>5. \A s \in Conn \ {c} : Live(s)' =>
          Live(s) /\ addr'[s] = addr[s] /\ hSocket'[addr[s]] = hSocket[addr[s]]
    BY <2>1
  <2> QED
    BY <2>1, <2>2, <2>3, <2>4, <2>5
<1>4. ASSUME Arm
       PROVE  HandleGone'
  <2>1. \A v \in Worker : pc[v] = "delete" => pc'[v] = "delete" /\ pSession'[v] = pSession[v]
    BY <1>4 DEF Arm
  <2>2. \A t \in Thread : pc[t] \in ReleasePC => pc'[t] \in ReleasePC
    BY <1>4 DEF Arm
  <2>3. UNCHANGED <<addr, hSocket>> /\ \A s \in Conn : Live(s)' => Live(s)
    BY <1>4 DEF Arm
  <2> HIDE DEF Live
  <2> QED
    BY <2>1, <2>2, <2>3
<1>5. ASSUME NEW w \in Worker, NEW x \in Ctx, 
              Dequeue(w, x)
       PROVE  HandleGone'
  BY <1>5, SMTT(30) DEF Dequeue
<1>6. ASSUME NEW w \in Worker, 
              WorkerExits(w) \/ NeedMore(w) \/ BroadcastDone(w)
              \/ ChatPacket(w) \/ AuthPacket(w) \/ FatalPacket(w)
       PROVE  HandleGone'
  BY <1>6 DEF WorkerExits, NeedMore, BroadcastDone, ChatPacket, AuthPacket,
           FatalPacket
<1>7. ASSUME NEW w \in Worker, RejectPacket(w)
       PROVE  HandleGone'
  BY <1>7 DEF RejectPacket
<1>8. ASSUME NEW w \in Worker, AnswerAuth(w)
       PROVE  HandleGone'
  BY <1>8 DEF AnswerAuth
<1>9. ASSUME NEW w \in Worker, BroadcastOne(w)
       PROVE  HandleGone'
  BY <1>9 DEF BroadcastOne
<1>10. ASSUME NEW w \in Worker, Rearm(w)
       PROVE  HandleGone'
  BY <1>10 DEF Rearm
<1>11. ASSUME NEW w \in Worker, SendDone(w)
       PROVE  HandleGone'
  BY <1>11, SMTT(30) DEF SendDone
<1>12. ASSUME NEW w \in Worker, SendRest(w)
       PROVE  HandleGone'
  <2>1. \A v \in Worker : pc[v] = "delete" => pc'[v] = "delete" /\ pSession'[v] = pSession[v]
    BY <1>12 DEF SendRest
  <2>2. \A t \in Thread : pc[t] \in ReleasePC => pc'[t] \in ReleasePC
    BY <1>12 DEF SendRest
  <2>3. UNCHANGED <<addr, hSocket>> /\ \A s \in Conn : Live(s)' => Live(s)
    BY <1>12 DEF SendRest
  <2> HIDE DEF Live
  <2> QED
    BY <2>1, <2>2, <2>3
<1>13. ASSUME NEW w \in Worker, CloseErase(w)
       PROVE  HandleGone'
  BY <1>13 DEF CloseErase
<1>14. ASSUME NEW w \in Worker, CloseCheck(w)
       PROVE  HandleGone'
  <2>1. \A v \in Worker : pc[v] = "delete" => pc'[v] = "delete" /\ pSession'[v] = pSession[v]
    BY <1>14 DEF CloseCheck
  <2>2. \A t \in Thread : pc[t] \in ReleasePC => pc'[t] \in ReleasePC
    BY <1>14 DEF CloseCheck
  <2> QED
    BY <1>14, <2>1, <2>2 DEF CloseCheck
<1>15. ASSUME NEW w \in Worker, CloseSocket(w)
       PROVE  HandleGone'
  BY <1>15 DEF CloseSocket
<1>16. ASSUME NEW w \in Worker, CloseInvalidate(w)
       PROVE  HandleGone'
  BY <1>16 DEF CloseInvalidate
<1>17. ASSUME NEW w \in Worker, CloseDelete(w)
       PROVE  HandleGone'
  BY <1>17 DEF CloseDelete
<1>18. ASSUME NEW t \in Thread, ReleaseSessions(t)
       PROVE  HandleGone'
  BY <1>18 DEF ReleaseSessions
<1>19. ASSUME NEW t \in Thread, ReleaseHandles(t)
       PROVE  HandleGone'
  BY <1>19 DEF ReleaseHandles
<1>20. ASSUME NEW t \in Thread, ReleaseEnd(t)
       PROVE  HandleGone'
  BY <1>20 DEF ReleaseEnd
<1>21. ASSUME NEW t \in Thread, HeapFault(t)
       PROVE  HandleGone'
  BY <1>21 DEF HeapFault
<1> HIDE DEF TypeOK, PcOK, Named, CellsOK, HandleGone, Releasing, Live, Has, Thread,
           WorkerPC, AcceptorPC, MainPC, ReleasePC, RecvPC, ClosePC
<1> QED
  BY <1>1, <1>2, <1>3, <1>4, <1>5, <1>6, <1>7, <1>8, <1>9, <1>10, <1>11, <1>12, <1>13, <1>14, <1>15, <1>16, <1>17, <1>18, <1>19, <1>20, <1>21 DEF Next, WorkerStep, AcceptorStep, ReleaseStep

\* A session leaves the list only in the hands of a worker that closes it.
LEMMA StaysListedStep ==
  ASSUME TypeOK, PcOK, Named, CellsOK, HandleGone, StaysListed, Next
  PROVE  StaysListed'
<1> USE ConstantsAssumption DEF TypeOK, PcOK, Named, CellsOK, HandleGone, StaysListed, Releasing, Closing, Live, Has, Thread,
           WorkerPC, AcceptorPC, MainPC, ReleasePC, RecvPC, ClosePC,
           heap, net, locals, handles, Goto, Loop, Touch, DeleteContext, CloseReturns, Free, Moved,
           Posted, Accepts, Refuses, PostSend, TakesPacket
<1>1. ASSUME \/ \E c \in Conn : Connect(c) \/ Leave(c)
             \/ CtrlC
             \/ MainWakes
             \/ AcceptFails
       PROVE  StaysListed'
  BY <1>1 DEF Connect, Leave, CtrlC, MainWakes, AcceptFails
<1>2. ASSUME Publish
       PROVE  StaysListed'
  BY <1>2 DEF Publish
<1>3. ASSUME NEW x \in Ctx, Complete(x)
       PROVE  StaysListed'
  BY <1>3 DEF Complete
<1>4. ASSUME NEW c \in Conn, Accept(c)
       PROVE  StaysListed'
  BY <1>4 DEF Accept
<1>5. ASSUME Arm
       PROVE  StaysListed'
  <2>1. UNCHANGED <<addr, pSession, mSessions>> /\ \A s \in Conn : Live(s)' => Live(s)
    BY <1>5 DEF Arm
  <2>2. \A v \in Worker : pc'[v] = pc[v]
    BY <1>5 DEF Arm
  <2>3. pc'[Acceptor] = "publish" \/ Releasing'
    BY <1>5 DEF Arm
  <2>4. Releasing => Releasing'
    BY <1>5 DEF Arm
  <2>5. \A s \in Conn : Closing(s) => Closing(s)'
    BY <2>1, <2>2
  <2> HIDE DEF Live, Closing, Releasing
  <2> QED
    BY <2>1, <2>3, <2>4, <2>5
<1>6. ASSUME NEW w \in Worker, NEW x \in Ctx, 
              Dequeue(w, x)
       PROVE  StaysListed'
  BY <1>6 DEF Dequeue
<1>7. ASSUME NEW w \in Worker, WorkerExits(w)
       PROVE  StaysListed'
  BY <1>7 DEF WorkerExits
<1>8. ASSUME NEW w \in Worker, NeedMore(w)
       PROVE  StaysListed'
  BY <1>8 DEF NeedMore
<1>9. ASSUME NEW w \in Worker, BroadcastDone(w)
       PROVE  StaysListed'
  BY <1>9 DEF BroadcastDone
<1>10. ASSUME NEW w \in Worker, ChatPacket(w)
       PROVE  StaysListed'
  BY <1>10 DEF ChatPacket
<1>11. ASSUME NEW w \in Worker, AuthPacket(w)
       PROVE  StaysListed'
  BY <1>11 DEF AuthPacket
<1>12. ASSUME NEW w \in Worker, FatalPacket(w)
       PROVE  StaysListed'
  BY <1>12 DEF FatalPacket
<1>13. ASSUME NEW w \in Worker, RejectPacket(w)
       PROVE  StaysListed'
  BY <1>13 DEF RejectPacket
<1>14. ASSUME NEW w \in Worker, AnswerAuth(w)
       PROVE  StaysListed'
  BY <1>14 DEF AnswerAuth
<1>15. ASSUME NEW w \in Worker, BroadcastOne(w)
       PROVE  StaysListed'
  BY <1>15 DEF BroadcastOne
<1>16. ASSUME NEW w \in Worker, Rearm(w)
       PROVE  StaysListed'
  <2>1. UNCHANGED mSessions /\ \A s \in Conn : Live(s)' => Live(s)
    BY <1>16 DEF Rearm
  <2>2. pc'[Acceptor] = pc[Acceptor] /\ pSession'[Acceptor] = pSession[Acceptor]
    BY <1>16 DEF Rearm
  <2>3. Releasing => Releasing'
    BY <1>16 DEF Rearm
  <2>4. \A s \in Conn : Closing(s) => Closing(s)'
    BY <1>16 DEF Rearm
  <2> HIDE DEF Live, Closing, Releasing
  <2> QED
    BY <2>1, <2>2, <2>3, <2>4
<1>17. ASSUME NEW w \in Worker, SendDone(w)
       PROVE  StaysListed'
  BY <1>17 DEF SendDone
<1>18. ASSUME NEW w \in Worker, SendRest(w)
       PROVE  StaysListed'
  BY <1>18 DEF SendRest
<1>19. ASSUME NEW w \in Worker, CloseErase(w)
       PROVE  StaysListed'
  BY <1>19 DEF CloseErase
<1>20. ASSUME NEW w \in Worker, CloseCheck(w)
       PROVE  StaysListed'
  BY <1>20, SMTT(30) DEF CloseCheck
<1>21. ASSUME NEW w \in Worker, CloseSocket(w)
       PROVE  StaysListed'
  BY <1>21 DEF CloseSocket
<1>22. ASSUME NEW w \in Worker, CloseInvalidate(w)
       PROVE  StaysListed'
  BY <1>22 DEF CloseInvalidate
<1>23. ASSUME NEW w \in Worker, CloseDelete(w)
       PROVE  StaysListed'
  BY <1>23 DEF CloseDelete
<1>24. ASSUME NEW t \in Thread, ReleaseSessions(t)
       PROVE  StaysListed'
  BY <1>24 DEF ReleaseSessions
<1>25. ASSUME NEW t \in Thread, ReleaseHandles(t)
       PROVE  StaysListed'
  BY <1>25 DEF ReleaseHandles
<1>26. ASSUME NEW t \in Thread, ReleaseEnd(t)
       PROVE  StaysListed'
  BY <1>26 DEF ReleaseEnd
<1>27. ASSUME NEW t \in Thread, HeapFault(t)
       PROVE  StaysListed'
  BY <1>27 DEF HeapFault
<1> HIDE DEF TypeOK, PcOK, Named, CellsOK, HandleGone, StaysListed, Releasing, Closing, Live, Has, Thread,
           WorkerPC, AcceptorPC, MainPC, ReleasePC, RecvPC, ClosePC
<1> QED
  BY <1>1, <1>2, <1>3, <1>4, <1>5, <1>6, <1>7, <1>8, <1>9, <1>10, <1>11, <1>12, <1>13, <1>14, <1>15, <1>16, <1>17, <1>18, <1>19, <1>20, <1>21, <1>22, <1>23, <1>24, <1>25, <1>26, <1>27 DEF Next, WorkerStep, AcceptorStep, ReleaseStep

\* What PostSend adds to the contexts is never a receive.
LEMMA PostSendKeeps ==
  ASSUME TypeOK, NEW s, NEW from, PostSend(s, from)
  PROVE  \A x \in Ctx, r \in Conn : RecvPending(x, r)' <=> RecvPending(x, r)
<1> USE DEF TypeOK, RecvPending, Posted
<1>1. CASE UNCHANGED ctx
  BY <1>1
<1>2. CASE \E x \in Ctx : /\ ctx[x].st = "free"
                         /\ ctx' = [ctx EXCEPT ![x] = Posted("Send", hSocket[addr[s]])]
  BY <1>2
<1> QED
  BY <1>1, <1>2 DEF PostSend

\* Nor does a worker that deletes or re-posts the context in its hands.
LEMMA OwnContextKeeps ==
  ASSUME TypeOK, PcOK, Named, ContextOwnership, NEW w \in Worker,
         SendDone(w) \/ SendRest(w) \/ CloseCheck(w) \/ CloseDelete(w) \/ RejectPacket(w)
  PROVE  \A x \in Ctx, r \in Conn : RecvPending(x, r)' <=> RecvPending(x, r)
<1> USE DEF TypeOK, Named, ContextOwnership, RecvPending, Free
<1>1. CASE DeleteContext(w)
  BY <1>1, ConstantsAssumption DEF DeleteContext
<1>2. CASE ctx' = [ctx EXCEPT ![cur[w]] = Posted("Send", hSocket[addr[pSession[w]]])] /\ cur[w] \in Ctx
  BY <1>2, ConstantsAssumption DEF Posted
<1>3. CASE ctx' = [ctx EXCEPT ![cur[w]] = Moved(cur[w], "leaked", ctx[cur[w]].status)] /\ cur[w] \in Ctx
  BY <1>3, ConstantsAssumption DEF Moved
<1>4. CASE UNCHANGED ctx
  BY <1>4
<1> QED
  BY <1>1, <1>2, <1>3, <1>4 DEF SendDone, SendRest, CloseCheck, CloseDelete, RejectPacket, CloseReturns, RecvPC

\* A receive that ends is handled, and followed by the next or by CloseSession.
LEMMA NeverDeafStep ==
  ASSUME TypeOK, PcOK, Named, CellsOK, ContextOwnership, RecvOutcome, HandleGone, NeverDeaf, Next
  PROVE  NeverDeaf'
<1> USE ConstantsAssumption DEF TypeOK, PcOK, Named, CellsOK, ContextOwnership, RecvOutcome, HandleGone, NeverDeaf,
           Receiving, Releasing, Closing, Live, Has, Thread,
           WorkerPC, AcceptorPC, MainPC, ReleasePC, RecvPC, ClosePC,
           heap, net, locals, handles, Goto, Loop, Touch, DeleteContext, CloseReturns, Free, Moved,
           Posted, Accepts, Refuses, TakesPacket
<1>1. ASSUME \/ \E c \in Conn : Connect(c) \/ Leave(c)
             \/ CtrlC
             \/ MainWakes
             \/ AcceptFails
       PROVE  NeverDeaf'
  BY <1>1 DEF Connect, Leave, CtrlC, MainWakes, AcceptFails, RecvPending
<1>2. ASSUME Publish
       PROVE  NeverDeaf'
  BY <1>2 DEF Publish, RecvPending
<1>3. ASSUME NEW x \in Ctx, Complete(x)
       PROVE  NeverDeaf'
  BY <1>3 DEF Complete, RecvPending
<1>4. ASSUME NEW c \in Conn, Accept(c)
       PROVE  NeverDeaf'
  BY <1>4 DEF Accept, RecvPending
<1>5. ASSUME Arm
       PROVE  NeverDeaf'
  <2>1. PICK s0 \in Conn, h \in Conn \cup {NONE} : s0 = pSession[Acceptor] /\ h = hSocket[addr[s0]]
    BY <1>5 DEF Arm
  <2>2. CASE Goto(Acceptor, "relSessions")
    BY <2>2
  <2>3. CASE /\ h \in Conn /\ Goto(Acceptor, "publish") /\ UNCHANGED owner
             /\ \E x \in Ctx : ctx[x].st = "free" /\ ctx' = [ctx EXCEPT ![x] = Posted("Recv", h)]
    <3>1. PICK x \in Ctx : ctx[x].st = "free" /\ ctx' = [ctx EXCEPT ![x] = Posted("Recv", h)]
      BY <2>3
    <3>2. \A y \in Ctx, s \in Conn : RecvPending(y, s) => RecvPending(y, s)'
      BY <3>1 DEF RecvPending
    <3>3. RecvPending(x, now[h])' /\ now[h] \in Conn
      <4>1. now' = now
        BY <1>5 DEF Arm
      <4> QED
        BY <2>3, <3>1, <4>1 DEF RecvPending
    <3>4. \A v \in Worker, s \in Conn : Receiving(v, s) <=> Receiving(v, s)'
      BY <1>5, <2>3 DEF Arm
    <3>5. \A s \in Conn : (Closing(s) <=> Closing(s)') /\ (Live(s)' <=> Live(s))
      BY <1>5, <2>3 DEF Arm
    <3>6. Live(s0) /\ h # s0 => Closing(s0) \/ Releasing
      BY <1>5, <2>1 DEF Arm
    <3>7. (Releasing => Releasing') /\ UNCHANGED now
      BY <1>5, <2>3 DEF Arm
    <3> HIDE DEF Receiving, Closing, Releasing, Live, HandleGone
    <3> QED
      BY <2>1, <2>3, <3>2, <3>3, <3>4, <3>5, <3>6, <3>7
  <2> QED
    BY <1>5, <2>1, <2>2, <2>3 DEF Arm
<1>6. ASSUME NEW w \in Worker, NEW x \in Ctx, 
              Dequeue(w, x)
       PROVE  NeverDeaf'
  <2>1. \A y \in Ctx \ {x}, s \in Conn : RecvPending(y, s)' <=> RecvPending(y, s)
    BY <1>6 DEF Dequeue, RecvPending
  <2>2. \A s \in Conn : RecvPending(x, s) => Receiving(w, s)' \/ Closing(s)'
    BY <1>6 DEF Dequeue, RecvPending
  <2>3. \A v \in Worker, s \in Conn : Receiving(v, s) => Receiving(v, s)'
    BY <1>6 DEF Dequeue
  <2>4. \A s \in Conn : (Closing(s) => Closing(s)') /\ (Live(s)' <=> Live(s))
    BY <1>6 DEF Dequeue
  <2>5. /\ Releasing => Releasing'
        /\ pc'[Acceptor] = pc[Acceptor] /\ pSession'[Acceptor] = pSession[Acceptor]
        /\ UNCHANGED now
    BY <1>6 DEF Dequeue
  <2> HIDE DEF Receiving, Closing, Live, Releasing
  <2> QED
    BY <2>1, <2>2, <2>3, <2>4, <2>5, SMTT(30)
<1>7. ASSUME NEW w \in Worker, WorkerExits(w)
       PROVE  NeverDeaf'
  BY <1>7 DEF WorkerExits, RecvPending
<1>8. ASSUME NEW w \in Worker, NeedMore(w)
       PROVE  NeverDeaf'
  BY <1>8 DEF NeedMore, RecvPending
<1>9. ASSUME NEW w \in Worker, BroadcastDone(w)
       PROVE  NeverDeaf'
  BY <1>9 DEF BroadcastDone, RecvPending
<1>10. ASSUME NEW w \in Worker, ChatPacket(w)
       PROVE  NeverDeaf'
  BY <1>10 DEF ChatPacket, RecvPending
<1>11. ASSUME NEW w \in Worker, AuthPacket(w)
       PROVE  NeverDeaf'
  BY <1>11 DEF AuthPacket, RecvPending
<1>12. ASSUME NEW w \in Worker, FatalPacket(w)
       PROVE  NeverDeaf'
  BY <1>12 DEF FatalPacket, RecvPending
<1>13. ASSUME NEW w \in Worker, RejectPacket(w)
       PROVE  NeverDeaf'
  <2>1. \A x \in Ctx, r \in Conn : RecvPending(x, r)' <=> RecvPending(x, r)
    BY <1>13, OwnContextKeeps
  <2> QED
    BY <1>13, <2>1 DEF RejectPacket
<1>14. ASSUME NEW w \in Worker, AnswerAuth(w)
       PROVE  NeverDeaf'
  <2>1. \A x \in Ctx, r \in Conn : RecvPending(x, r)' <=> RecvPending(x, r)
    BY <1>14, PostSendKeeps DEF AnswerAuth
  <2> QED
    BY <1>14, <2>1 DEF AnswerAuth
<1>15. ASSUME NEW w \in Worker, BroadcastOne(w)
       PROVE  NeverDeaf'
  <2>1. \A x \in Ctx, r \in Conn : RecvPending(x, r)' <=> RecvPending(x, r)
    BY <1>15, PostSendKeeps DEF BroadcastOne
  <2> QED
    BY <1>15, <2>1 DEF BroadcastOne
<1>16. ASSUME NEW w \in Worker, Rearm(w)
       PROVE  NeverDeaf'
  <2>1. PICK s0 \in Conn, h \in Conn \cup {NONE} : s0 = pSession[w] /\ h = hSocket[addr[s0]]
    BY <1>16 DEF Rearm
  <2>2. CASE Refuses(h) /\ Goto(w, "relSessions")
    BY <1>16, <2>2 DEF Rearm
  <2>3. CASE /\ Accepts(h) /\ Goto(w, "idle")
             /\ \E x \in Ctx :
                  /\ ctx[x].st = "free" \/ x = cur[w]
                  /\ ctx' = [y \in Ctx |-> IF y = x THEN Posted("Recv", h)
                                           ELSE IF y = cur[w] THEN Free ELSE ctx[y]]
    <3>1. PICK x \in Ctx :
                  /\ ctx[x].st = "free" \/ x = cur[w]
                  /\ ctx' = [y \in Ctx |-> IF y = x THEN Posted("Recv", h)
                                           ELSE IF y = cur[w] THEN Free ELSE ctx[y]]
      BY <2>3
    <3>2. \A y \in Ctx, s \in Conn : RecvPending(y, s) => RecvPending(y, s)'
      BY <1>16, <3>1 DEF Rearm, RecvPending
    <3>3. h \in Conn /\ now[h] \in Conn /\ RecvPending(x, now[h])'
      <4>1. now' = now
        BY <1>16 DEF Rearm
      <4> QED
        BY <2>3, <3>1, <4>1 DEF RecvPending
    <3>4. \A v \in Worker, s \in Conn : Receiving(v, s) => Receiving(v, s)' \/ (v = w /\ s = s0)
      BY <1>16, <2>1, <2>3 DEF Rearm
    <3>5. \A s \in Conn : (Closing(s) => Closing(s)') /\ (Live(s)' <=> Live(s))
      BY <1>16, <2>3 DEF Rearm
    <3>6. Live(s0) /\ h # s0 => Closing(s0) \/ Releasing
      BY <1>16, <2>1 DEF Rearm
    <3>7. /\ Releasing => Releasing'
          /\ pc'[Acceptor] = pc[Acceptor] /\ pSession'[Acceptor] = pSession[Acceptor]
          /\ UNCHANGED now
      BY <1>16, <2>3 DEF Rearm
    <3> HIDE DEF Receiving, Closing, Releasing, Live, HandleGone
    <3> QED
      BY <3>2, <3>3, <3>4, <3>5, <3>6, <3>7
  <2>4. \/ Refuses(h) /\ Goto(w, "relSessions")
        \/ /\ Accepts(h) /\ Goto(w, "idle")
           /\ \E x \in Ctx :
                /\ ctx[x].st = "free" \/ x = cur[w]
                /\ ctx' = [y \in Ctx |-> IF y = x THEN Posted("Recv", h)
                                         ELSE IF y = cur[w] THEN Free ELSE ctx[y]]
    <3> HIDE DEF NeverDeaf, Accepts, Refuses, Posted, Free, Goto, DeleteContext
    <3> QED
      BY <1>16, <2>1 DEF Rearm
  <2> QED
    BY <2>2, <2>3, <2>4
<1>17. ASSUME NEW w \in Worker, SendDone(w)
       PROVE  NeverDeaf'
  <2>1. \A x \in Ctx, r \in Conn : RecvPending(x, r)' <=> RecvPending(x, r)
    BY <1>17, OwnContextKeeps
  <2> QED
    BY <1>17, <2>1, SMTT(30) DEF SendDone
<1>18. ASSUME NEW w \in Worker, SendRest(w)
       PROVE  NeverDeaf'
  <2>1. \A x \in Ctx, r \in Conn : RecvPending(x, r)' <=> RecvPending(x, r)
    BY <1>18, OwnContextKeeps
  <2>2. \A v \in Worker, r \in Conn : Receiving(v, r)' <=> Receiving(v, r)
    BY <1>18 DEF SendRest
  <2>3. \A s \in Conn : (Closing(s) => Closing(s)') /\ (Live(s)' <=> Live(s))
    BY <1>18 DEF SendRest
  <2>4. /\ Releasing => Releasing'
        /\ pc'[Acceptor] = pc[Acceptor] /\ pSession'[Acceptor] = pSession[Acceptor]
        /\ UNCHANGED now
    BY <1>18 DEF SendRest
  <2> HIDE DEF Receiving, Closing, Live, Releasing
  <2> QED
    BY <2>1, <2>2, <2>3, <2>4, Zenon
<1>19. ASSUME NEW w \in Worker, CloseErase(w)
       PROVE  NeverDeaf'
  BY <1>19 DEF CloseErase, RecvPending
<1>20. ASSUME NEW w \in Worker, CloseCheck(w)
       PROVE  NeverDeaf'
  <2>1. \A x \in Ctx, r \in Conn : RecvPending(x, r)' <=> RecvPending(x, r)
    BY <1>20, OwnContextKeeps
  <2>2. \A v \in Worker, r \in Conn : Receiving(v, r)' <=> Receiving(v, r)
    BY <1>20 DEF CloseCheck
  <2>3. \A s \in Conn : (Live(s)' <=> Live(s)) /\ (Live(s) /\ Closing(s) => Closing(s)' \/ Releasing)
    <3>1. CASE hSocket[addr[pSession[w]]] = NONE
      <4>1. UNCHANGED <<addr, owner>> /\ \A v \in Worker \ {w} : UNCHANGED <<pc[v], pSession[v]>>
        BY <1>20, <3>1 DEF CloseCheck
      <4>2. pc[w] = "check" /\ pSession[w] \in Conn
        BY <1>20 DEF CloseCheck
      <4> QED
        BY <3>1, <4>1, <4>2
    <3>2. CASE hSocket[addr[pSession[w]]] # NONE
      BY <1>20, <3>2 DEF CloseCheck
    <3> QED
      BY <3>1, <3>2
  <2>4. /\ Releasing => Releasing'
        /\ pc'[Acceptor] = pc[Acceptor] /\ pSession'[Acceptor] = pSession[Acceptor]
        /\ UNCHANGED now
    BY <1>20 DEF CloseCheck
  <2> HIDE DEF Receiving, Closing, Live, Releasing
  <2> QED
    BY <2>1, <2>2, <2>3, <2>4
<1>21. ASSUME NEW w \in Worker, CloseSocket(w)
       PROVE  NeverDeaf'
  BY <1>21 DEF CloseSocket, RecvPending
<1>22. ASSUME NEW w \in Worker, CloseInvalidate(w)
       PROVE  NeverDeaf'
  BY <1>22 DEF CloseInvalidate, RecvPending
<1>23. ASSUME NEW w \in Worker, CloseDelete(w)
       PROVE  NeverDeaf'
  <2>1. \A x \in Ctx, r \in Conn : RecvPending(x, r)' <=> RecvPending(x, r)
    BY <1>23, OwnContextKeeps
  <2> QED
    BY <1>23, <2>1, SMTT(30) DEF CloseDelete
<1>24. ASSUME NEW t \in Thread, ReleaseSessions(t)
       PROVE  NeverDeaf'
  BY <1>24 DEF ReleaseSessions, RecvPending
<1>25. ASSUME NEW t \in Thread, ReleaseHandles(t)
       PROVE  NeverDeaf'
  BY <1>25 DEF ReleaseHandles, RecvPending
<1>26. ASSUME NEW t \in Thread, ReleaseEnd(t)
       PROVE  NeverDeaf'
  BY <1>26 DEF ReleaseEnd, RecvPending
<1>27. ASSUME NEW t \in Thread, HeapFault(t)
       PROVE  NeverDeaf'
  BY <1>27 DEF HeapFault, RecvPending
<1> HIDE DEF TypeOK, PcOK, Named, CellsOK, ContextOwnership, RecvOutcome, HandleGone, NeverDeaf,
           Receiving, Releasing, Closing, Live, Has, Thread,
           WorkerPC, AcceptorPC, MainPC, ReleasePC, RecvPC, ClosePC
<1> QED
  BY <1>1, <1>2, <1>3, <1>4, <1>5, <1>6, <1>7, <1>8, <1>9, <1>10, <1>11, <1>12, <1>13, <1>14, <1>15, <1>16, <1>17, <1>18, <1>19, <1>20, <1>21, <1>22, <1>23, <1>24, <1>25, <1>26, <1>27 DEF Next, WorkerStep, AcceptorStep, ReleaseStep

\* One receive at a time, from the first PostRecv on.
LEMMA RecvExclusiveStep ==
  ASSUME TypeOK, PcOK, Named, CellsOK, ContextOwnership, RecvOutcome, RecvExclusive, ArmIsFirst, Next
  PROVE  (RecvExclusive /\ ArmIsFirst)'
<1> USE ConstantsAssumption DEF TypeOK, PcOK, Named, CellsOK, ContextOwnership, RecvOutcome, RecvExclusive, ArmIsFirst,
           Receiving, Live, Has, Thread,
           WorkerPC, AcceptorPC, MainPC, ReleasePC, RecvPC, ClosePC,
           heap, net, locals, handles, Goto, Loop, Touch, UseHandle, DeleteContext, CloseReturns, Free, Moved,
           Posted, Accepts, Refuses, TakesPacket
<1>1. ASSUME \/ \E c \in Conn : Connect(c) \/ Leave(c)
             \/ CtrlC
             \/ MainWakes
             \/ AcceptFails
       PROVE  (RecvExclusive /\ ArmIsFirst)'
  BY <1>1 DEF Connect, Leave, CtrlC, MainWakes, AcceptFails, RecvPending
<1>2. ASSUME Publish
       PROVE  (RecvExclusive /\ ArmIsFirst)'
  BY <1>2 DEF Publish, RecvPending
<1>3. ASSUME NEW x \in Ctx, Complete(x)
       PROVE  (RecvExclusive /\ ArmIsFirst)'
  BY <1>3 DEF Complete, RecvPending
<1>4. ASSUME NEW c \in Conn, Accept(c)
       PROVE  (RecvExclusive /\ ArmIsFirst)'
  BY <1>4 DEF Accept, RecvPending
<1>5. ASSUME Arm
       PROVE  (RecvExclusive /\ ArmIsFirst)'
  <2>1. PICK s0 \in Conn, h \in Conn \cup {NONE} : s0 = pSession[Acceptor] /\ h = hSocket[addr[s0]]
    BY <1>5 DEF Arm
  <2>2. \A v \in Worker, s \in Conn : Receiving(v, s)' <=> Receiving(v, s)
    BY <1>5 DEF Arm
  <2>3. pc'[Acceptor] # "arm" /\ (stale => stale')
    BY <1>5 DEF Arm
  <2>4. ~stale' /\ h \in Conn => h = s0 /\ now[h] = s0
    <3>1. ~stale' => Live(s0) /\ (h \in Conn => now[h] = h)
      BY <1>5, <2>1 DEF Arm
    <3> QED
      BY <2>1, <3>1
  <2>5. CASE UNCHANGED ctx
    <3>1. \A y \in Ctx, s \in Conn : RecvPending(y, s)' <=> RecvPending(y, s)
      BY <2>5 DEF RecvPending
    <3> HIDE DEF Receiving
    <3> QED
      BY <2>2, <2>3, <3>1
  <2>6. CASE h \in Conn /\ \E x \in Ctx : ctx' = [ctx EXCEPT ![x] = Posted("Recv", h)]
    <3>1. PICK x \in Ctx : ctx' = [ctx EXCEPT ![x] = Posted("Recv", h)]
      BY <2>6
    <3>2. \A y \in Ctx, s \in Conn : RecvPending(y, s)' => RecvPending(y, s) \/ (y = x /\ s = now[h])
      BY <3>1 DEF RecvPending
    <3> HIDE DEF Receiving
    <3> QED
      BY <1>5, <2>1, <2>2, <2>3, <2>4, <2>6, <3>2 DEF Arm
  <2> QED
    BY <1>5, <2>1, <2>5, <2>6 DEF Arm
<1>6. ASSUME NEW w \in Worker, NEW x \in Ctx, 
              Dequeue(w, x)
       PROVE  (RecvExclusive /\ ArmIsFirst)'
  <2>1. \A y \in Ctx, s \in Conn : RecvPending(y, s)' => RecvPending(y, s) /\ y # x
    BY <1>6, SMTT(30) DEF Dequeue, RecvPending
  <2>2. \A v \in Worker, s \in Conn : Receiving(v, s)' => Receiving(v, s) \/ (v = w /\ RecvPending(x, s))
    BY <1>6, SMTT(30) DEF Dequeue, RecvPending
  <2>3. /\ stale => stale'
        /\ pc'[Acceptor] = pc[Acceptor] /\ pSession'[Acceptor] = pSession[Acceptor]
    BY <1>6 DEF Dequeue
  <2> HIDE DEF Receiving
  <2> QED
    BY <2>1, <2>2, <2>3
<1>7. ASSUME NEW w \in Worker, WorkerExits(w)
       PROVE  (RecvExclusive /\ ArmIsFirst)'
  BY <1>7 DEF WorkerExits, RecvPending
<1>8. ASSUME NEW w \in Worker, NeedMore(w)
       PROVE  (RecvExclusive /\ ArmIsFirst)'
  BY <1>8 DEF NeedMore, RecvPending
<1>9. ASSUME NEW w \in Worker, BroadcastDone(w)
       PROVE  (RecvExclusive /\ ArmIsFirst)'
  BY <1>9 DEF BroadcastDone, RecvPending
<1>10. ASSUME NEW w \in Worker, ChatPacket(w)
       PROVE  (RecvExclusive /\ ArmIsFirst)'
  BY <1>10 DEF ChatPacket, RecvPending
<1>11. ASSUME NEW w \in Worker, AuthPacket(w)
       PROVE  (RecvExclusive /\ ArmIsFirst)'
  BY <1>11 DEF AuthPacket, RecvPending
<1>12. ASSUME NEW w \in Worker, FatalPacket(w)
       PROVE  (RecvExclusive /\ ArmIsFirst)'
  BY <1>12 DEF FatalPacket, RecvPending
<1>13. ASSUME NEW w \in Worker, RejectPacket(w)
       PROVE  (RecvExclusive /\ ArmIsFirst)'
  <2>1. \A x \in Ctx, r \in Conn : RecvPending(x, r)' <=> RecvPending(x, r)
    BY <1>13, OwnContextKeeps
  <2>2. \A v \in Worker, r \in Conn : Receiving(v, r)' => Receiving(v, r)
    BY <1>13 DEF RejectPacket
  <2>3. /\ stale => stale'
        /\ pc'[Acceptor] = pc[Acceptor] /\ pSession'[Acceptor] = pSession[Acceptor]
    BY <1>13 DEF RejectPacket
  <2> HIDE DEF Receiving
  <2> QED
    BY <2>1, <2>2, <2>3, Zenon
<1>14. ASSUME NEW w \in Worker, AnswerAuth(w)
       PROVE  (RecvExclusive /\ ArmIsFirst)'
  <2>1. \A x \in Ctx, r \in Conn : RecvPending(x, r)' <=> RecvPending(x, r)
    BY <1>14, PostSendKeeps DEF AnswerAuth
  <2>2. \A v \in Worker, r \in Conn : Receiving(v, r)' => Receiving(v, r)
    BY <1>14 DEF AnswerAuth
  <2>3. /\ stale => stale'
        /\ pc'[Acceptor] = pc[Acceptor] /\ pSession'[Acceptor] = pSession[Acceptor]
    BY <1>14 DEF AnswerAuth, PostSend
  <2> HIDE DEF Receiving
  <2> QED
    BY <2>1, <2>2, <2>3, Zenon
<1>15. ASSUME NEW w \in Worker, BroadcastOne(w)
       PROVE  (RecvExclusive /\ ArmIsFirst)'
  <2>1. \A x \in Ctx, r \in Conn : RecvPending(x, r)' <=> RecvPending(x, r)
    BY <1>15, PostSendKeeps DEF BroadcastOne
  <2>2. \A v \in Worker, r \in Conn : Receiving(v, r)' => Receiving(v, r)
    BY <1>15 DEF BroadcastOne
  <2>3. /\ stale => stale'
        /\ pc'[Acceptor] = pc[Acceptor] /\ pSession'[Acceptor] = pSession[Acceptor]
    BY <1>15 DEF BroadcastOne, PostSend
  <2> HIDE DEF Receiving
  <2> QED
    BY <2>1, <2>2, <2>3, Zenon
<1>16. ASSUME NEW w \in Worker, Rearm(w)
       PROVE  (RecvExclusive /\ ArmIsFirst)'
  <2>1. PICK s0 \in Conn, h \in Conn \cup {NONE} : s0 = pSession[w] /\ h = hSocket[addr[s0]]
    BY <1>16 DEF Rearm
  <2>2. Receiving(w, s0)
    BY <1>16, <2>1 DEF Rearm
  <2>3. \A v \in Worker, s \in Conn : Receiving(v, s)' => Receiving(v, s) /\ v # w
    BY <1>16 DEF Rearm
  <2>4. /\ stale => stale'
        /\ pc'[Acceptor] = pc[Acceptor] /\ pSession'[Acceptor] = pSession[Acceptor]
    BY <1>16 DEF Rearm
  <2>5. ~stale' /\ h \in Conn => h = s0 /\ now[h] = s0
    <3>1. ~stale' => Live(s0) /\ (h \in Conn => now[h] = h)
      BY <1>16, <2>1 DEF Rearm
    <3> QED
      BY <2>1, <3>1
  <2>6. PICK x \in Ctx \cup {NONE} : \A y \in Ctx, s \in Conn :
          RecvPending(y, s)' => RecvPending(y, s) \/ (h \in Conn /\ y = x /\ s = now[h])
    <3>1. CASE DeleteContext(w)
      <4>1. \A y \in Ctx, s \in Conn : RecvPending(y, s)' => RecvPending(y, s)
        BY <3>1 DEF RecvPending
      <4> QED
        BY <4>1
    <3>2. CASE /\ h \in Conn
               /\ \E x \in Ctx : ctx' = [y \in Ctx |-> IF y = x THEN Posted("Recv", h)
                                           ELSE IF y = cur[w] THEN Free ELSE ctx[y]]
      BY <3>2 DEF RecvPending
    <3> QED
      <4> HIDE DEF DeleteContext, Refuses, Free, Posted
      <4> QED
        BY <1>16, <2>1, <3>1, <3>2 DEF Rearm
  <2> HIDE DEF Receiving
  <2> QED
    BY <2>1, <2>2, <2>3, <2>4, <2>5, <2>6
<1>17. ASSUME NEW w \in Worker, SendDone(w)
       PROVE  (RecvExclusive /\ ArmIsFirst)'
  <2>1. \A x \in Ctx, r \in Conn : RecvPending(x, r)' <=> RecvPending(x, r)
    BY <1>17, OwnContextKeeps
  <2>2. \A v \in Worker, r \in Conn : Receiving(v, r)' => Receiving(v, r)
    BY <1>17 DEF SendDone
  <2>3. /\ stale => stale'
        /\ pc'[Acceptor] = pc[Acceptor] /\ pSession'[Acceptor] = pSession[Acceptor]
    BY <1>17 DEF SendDone
  <2> HIDE DEF Receiving
  <2> QED
    BY <2>1, <2>2, <2>3, Zenon
<1>18. ASSUME NEW w \in Worker, SendRest(w)
       PROVE  (RecvExclusive /\ ArmIsFirst)'
  <2>1. \A x \in Ctx, r \in Conn : RecvPending(x, r)' <=> RecvPending(x, r)
    BY <1>18, OwnContextKeeps
  <2>2. \A v \in Worker, r \in Conn : Receiving(v, r)' => Receiving(v, r)
    BY <1>18 DEF SendRest
  <2>3. /\ stale => stale'
        /\ pc'[Acceptor] = pc[Acceptor] /\ pSession'[Acceptor] = pSession[Acceptor]
    BY <1>18 DEF SendRest
  <2> HIDE DEF Receiving
  <2> QED
    BY <2>1, <2>2, <2>3, Zenon
<1>19. ASSUME NEW w \in Worker, CloseErase(w)
       PROVE  (RecvExclusive /\ ArmIsFirst)'
  BY <1>19 DEF CloseErase, RecvPending
<1>20. ASSUME NEW w \in Worker, CloseCheck(w)
       PROVE  (RecvExclusive /\ ArmIsFirst)'
  <2>1. \A x \in Ctx, r \in Conn : RecvPending(x, r)' <=> RecvPending(x, r)
    BY <1>20, OwnContextKeeps
  <2>2. \A v \in Worker, r \in Conn : Receiving(v, r)' => Receiving(v, r)
    BY <1>20 DEF CloseCheck
  <2>3. /\ stale => stale'
        /\ pc'[Acceptor] = pc[Acceptor] /\ pSession'[Acceptor] = pSession[Acceptor]
    BY <1>20 DEF CloseCheck
  <2> HIDE DEF Receiving
  <2> QED
    BY <2>1, <2>2, <2>3, Zenon
<1>21. ASSUME NEW w \in Worker, CloseSocket(w)
       PROVE  (RecvExclusive /\ ArmIsFirst)'
  BY <1>21 DEF CloseSocket, RecvPending
<1>22. ASSUME NEW w \in Worker, CloseInvalidate(w)
       PROVE  (RecvExclusive /\ ArmIsFirst)'
  BY <1>22 DEF CloseInvalidate, RecvPending
<1>23. ASSUME NEW w \in Worker, CloseDelete(w)
       PROVE  (RecvExclusive /\ ArmIsFirst)'
  <2>1. \A x \in Ctx, r \in Conn : RecvPending(x, r)' <=> RecvPending(x, r)
    BY <1>23, OwnContextKeeps
  <2>2. \A v \in Worker, r \in Conn : Receiving(v, r)' => Receiving(v, r)
    BY <1>23 DEF CloseDelete
  <2>3. /\ stale => stale'
        /\ pc'[Acceptor] = pc[Acceptor] /\ pSession'[Acceptor] = pSession[Acceptor]
    BY <1>23 DEF CloseDelete
  <2> HIDE DEF Receiving
  <2> QED
    BY <2>1, <2>2, <2>3, Zenon
<1>24. ASSUME NEW t \in Thread, ReleaseSessions(t)
       PROVE  (RecvExclusive /\ ArmIsFirst)'
  BY <1>24 DEF ReleaseSessions, RecvPending
<1>25. ASSUME NEW t \in Thread, ReleaseHandles(t)
       PROVE  (RecvExclusive /\ ArmIsFirst)'
  BY <1>25 DEF ReleaseHandles, RecvPending
<1>26. ASSUME NEW t \in Thread, ReleaseEnd(t)
       PROVE  (RecvExclusive /\ ArmIsFirst)'
  BY <1>26 DEF ReleaseEnd, RecvPending
<1>27. ASSUME NEW t \in Thread, HeapFault(t)
       PROVE  (RecvExclusive /\ ArmIsFirst)'
  BY <1>27 DEF HeapFault, RecvPending
<1> HIDE DEF TypeOK, PcOK, Named, CellsOK, ContextOwnership, RecvOutcome, RecvExclusive, ArmIsFirst,
           Receiving, Live, Has, Thread,
           WorkerPC, AcceptorPC, MainPC, ReleasePC, RecvPC, ClosePC
<1> QED
  BY <1>1, <1>2, <1>3, <1>4, <1>5, <1>6, <1>7, <1>8, <1>9, <1>10, <1>11, <1>12, <1>13, <1>14, <1>15, <1>16, <1>17, <1>18, <1>19, <1>20, <1>21, <1>22, <1>23, <1>24, <1>25, <1>26, <1>27 DEF Next, WorkerStep, AcceptorStep, ReleaseStep

\* A handle is closed before it is forgotten.
LEMMA ClosedFirstStep ==
  ASSUME TypeOK, PcOK, Named, CellsOK, ClosedFirst, Next
  PROVE  ClosedFirst'
<1> USE ConstantsAssumption DEF TypeOK, PcOK, Named, CellsOK, ClosedFirst, Live, Has, Thread,
           WorkerPC, AcceptorPC, MainPC, ReleasePC, RecvPC, ClosePC,
           heap, net, locals, handles, Goto, Loop, Touch, UseHandle, DeleteContext, CloseReturns, Free, Moved,
           Posted, Accepts, Refuses, PostSend, TakesPacket
<1>1. ASSUME \/ \E c \in Conn : Connect(c) \/ Leave(c)
             \/ CtrlC
             \/ MainWakes
             \/ AcceptFails
       PROVE  ClosedFirst'
  BY <1>1 DEF Connect, Leave, CtrlC, MainWakes, AcceptFails
<1>2. ASSUME Publish
       PROVE  ClosedFirst'
  BY <1>2 DEF Publish
<1>3. ASSUME NEW x \in Ctx, Complete(x)
       PROVE  ClosedFirst'
  BY <1>3 DEF Complete
<1>4. ASSUME NEW c \in Conn, Accept(c)
       PROVE  ClosedFirst'
  BY <1>4 DEF Accept
<1>5. ASSUME Arm
       PROVE  ClosedFirst'
  BY <1>5 DEF Arm
<1>6. ASSUME NEW w \in Worker, NEW x \in Ctx, 
              Dequeue(w, x)
       PROVE  ClosedFirst'
  BY <1>6 DEF Dequeue
<1>7. ASSUME NEW w \in Worker, WorkerExits(w)
       PROVE  ClosedFirst'
  BY <1>7 DEF WorkerExits
<1>8. ASSUME NEW w \in Worker, NeedMore(w)
       PROVE  ClosedFirst'
  BY <1>8 DEF NeedMore
<1>9. ASSUME NEW w \in Worker, BroadcastDone(w)
       PROVE  ClosedFirst'
  BY <1>9 DEF BroadcastDone
<1>10. ASSUME NEW w \in Worker, ChatPacket(w)
       PROVE  ClosedFirst'
  BY <1>10 DEF ChatPacket
<1>11. ASSUME NEW w \in Worker, AuthPacket(w)
       PROVE  ClosedFirst'
  BY <1>11 DEF AuthPacket
<1>12. ASSUME NEW w \in Worker, FatalPacket(w)
       PROVE  ClosedFirst'
  BY <1>12 DEF FatalPacket
<1>13. ASSUME NEW w \in Worker, RejectPacket(w)
       PROVE  ClosedFirst'
  BY <1>13 DEF RejectPacket
<1>14. ASSUME NEW w \in Worker, AnswerAuth(w)
       PROVE  ClosedFirst'
  BY <1>14 DEF AnswerAuth
<1>15. ASSUME NEW w \in Worker, BroadcastOne(w)
       PROVE  ClosedFirst'
  BY <1>15 DEF BroadcastOne
<1>16. ASSUME NEW w \in Worker, Rearm(w)
       PROVE  ClosedFirst'
  BY <1>16 DEF Rearm
<1>17. ASSUME NEW w \in Worker, SendDone(w)
       PROVE  ClosedFirst'
  BY <1>17 DEF SendDone
<1>18. ASSUME NEW w \in Worker, SendRest(w)
       PROVE  ClosedFirst'
  BY <1>18 DEF SendRest
<1>19. ASSUME NEW w \in Worker, CloseErase(w)
       PROVE  ClosedFirst'
  BY <1>19 DEF CloseErase
<1>20. ASSUME NEW w \in Worker, CloseCheck(w)
       PROVE  ClosedFirst'
  BY <1>20 DEF CloseCheck
<1>21. ASSUME NEW w \in Worker, CloseSocket(w)
       PROVE  ClosedFirst'
  <2> DEFINE s0 == pSession[w]  h == hSocket[addr[s0]]
  <2>1. \A c \in Conn : sock[c] = "closed" => sock'[c] = "closed"
    BY <1>21 DEF CloseSocket
  <2>2. ~stale' => sock'[s0] = "closed"
    <3>1. CASE h = NONE
      <4>1. ~stale' => Live(s0) /\ ~stale
        BY <1>21 DEF CloseSocket
      <4>2. s0 \in Conn /\ addr[s0] \in Addr
        BY <1>21 DEF CloseSocket
      <4>3. ~stale' => sock[s0] = "closed"
        BY <3>1, <4>1, <4>2
      <4> QED
        BY <1>21, <2>1, <4>2, <4>3
    <3>2. CASE h # NONE
      <4>1. ~stale' => h = s0
        <5>1. ~stale' => Live(s0)
          BY <1>21 DEF CloseSocket
        <5>2. s0 \in Conn /\ addr[s0] \in Addr
          BY <1>21 DEF CloseSocket
        <5> QED
          BY <3>2, <5>1, <5>2
      <4> QED
        BY <1>21, <3>2, <4>1 DEF CloseSocket
    <3> QED
      BY <3>1, <3>2
  <2>3. \A v \in Worker : pc'[v] \in {"invalidate", "delete"} => v = w \/ pc[v] \in {"invalidate", "delete"}
    BY <1>21 DEF CloseSocket
  <2> QED
    BY <1>21, <2>1, <2>2, <2>3 DEF CloseSocket
<1>22. ASSUME NEW w \in Worker, CloseInvalidate(w)
       PROVE  ClosedFirst'
  <2>1. ~stale' => Live(pSession[w]) /\ ~stale
    BY <1>22 DEF CloseInvalidate
  <2>2. \A v \in Worker : pc'[v] \in {"invalidate", "delete"} => pc[v] \in {"invalidate", "delete"}
    BY <1>22 DEF CloseInvalidate
  <2>3. ASSUME ~stale', NEW a \in Addr, owner'[a] # NONE, hSocket'[a] = NONE
        PROVE  sock'[owner'[a]] = "closed"
    <3>1. CASE a = addr[pSession[w]]
      BY <1>22, <2>1, <2>3, <3>1 DEF CloseInvalidate
    <3>2. CASE a # addr[pSession[w]]
      BY <1>22, <2>1, <2>3, <3>2 DEF CloseInvalidate
    <3> QED
      BY <3>1, <3>2
  <2> QED
    BY <1>22, <2>1, <2>2, <2>3 DEF CloseInvalidate
<1>23. ASSUME NEW w \in Worker, CloseDelete(w)
       PROVE  ClosedFirst'
  BY <1>23 DEF CloseDelete
<1>24. ASSUME NEW t \in Thread, ReleaseSessions(t)
       PROVE  ClosedFirst'
  BY <1>24 DEF ReleaseSessions
<1>25. ASSUME NEW t \in Thread, ReleaseHandles(t)
       PROVE  ClosedFirst'
  BY <1>25 DEF ReleaseHandles
<1>26. ASSUME NEW t \in Thread, ReleaseEnd(t)
       PROVE  ClosedFirst'
  BY <1>26 DEF ReleaseEnd
<1>27. ASSUME NEW t \in Thread, HeapFault(t)
       PROVE  ClosedFirst'
  BY <1>27 DEF HeapFault
<1> HIDE DEF TypeOK, PcOK, Named, CellsOK, ClosedFirst, Live, Has, Thread,
           WorkerPC, AcceptorPC, MainPC, ReleasePC, RecvPC, ClosePC
<1> QED
  BY <1>1, <1>2, <1>3, <1>4, <1>5, <1>6, <1>7, <1>8, <1>9, <1>10, <1>11, <1>12, <1>13, <1>14, <1>15, <1>16, <1>17, <1>18, <1>19, <1>20, <1>21, <1>22, <1>23, <1>24, <1>25, <1>26, <1>27 DEF Next, WorkerStep, AcceptorStep, ReleaseStep

-----------------------------------------------------------------------------
(* The invariant and what follows from it.                                 *)

\* The state the server starts in.
LEMMA InitInv == Init => IInv
<1> SUFFICES ASSUME Init PROVE IInv
  OBVIOUS
<1> USE ConstantsAssumption DEF Init, Thread, Free
<1>1. TypeOK
  <2>1. pc \in [Thread -> WorkerPC \cup AcceptorPC \cup MainPC]
    BY DEF MainPC, WorkerPC, AcceptorPC
  <2>2. work \in 0..MaxWork
    OBVIOUS
  <2> QED
    BY <2>1, <2>2 DEF TypeOK
<1>2. PcOK
  BY DEF PcOK, MainPC, WorkerPC, AcceptorPC
<1>3. Named /\ CellsOK
  BY DEF Named, CellsOK, Has, RecvPC, ClosePC
<1>4. ContextOwnership /\ RecvOutcome
  BY DEF ContextOwnership, RecvOutcome
<1>5. \A s \in Conn : ~Live(s)
  BY DEF Live
<1>6. RecvExclusive /\ ArmIsFirst
  BY DEF RecvExclusive, ArmIsFirst, RecvPending, Receiving, RecvPC
<1>7. ClosedFirst
  BY DEF ClosedFirst
<1> QED
  BY <1>1, <1>2, <1>3, <1>4, <1>5, <1>6, <1>7 DEF IInv, HandleGone, StaysListed, NeverDeaf

\* A step that changes nothing breaks nothing.
LEMMA StutterInv == ASSUME IInv, UNCHANGED vars PROVE IInv'
<1> USE DEF IInv, vars
<1>1. (TypeOK /\ PcOK /\ Named /\ CellsOK)'
  BY DEF TypeOK, PcOK, Named, CellsOK, Has
<1>2. (ContextOwnership /\ RecvOutcome)'
  BY DEF ContextOwnership, RecvOutcome
<1>3. (HandleGone /\ StaysListed)'
  BY DEF HandleGone, StaysListed, Live, Closing, Releasing
<1>4. NeverDeaf'
  BY DEF NeverDeaf, Live, Closing, Releasing, RecvPending, Receiving
<1>5. (RecvExclusive /\ ArmIsFirst)'
  BY DEF RecvExclusive, ArmIsFirst, RecvPending, Receiving
<1>6. ClosedFirst'
  BY DEF ClosedFirst
<1> QED
  BY <1>1, <1>2, <1>3, <1>4, <1>5, <1>6

\* The invariant holds in every state of the server, whatever the number of
\* workers, connections, cells and contexts.
THEOREM Invariance == Spec => []IInv
<1>1. ASSUME IInv, Next PROVE IInv'
  BY <1>1, TypeStep, PcStep, NamedStep, CellsStep, ContextStep, OutcomeStep, HandleGoneStep,
     StaysListedStep, NeverDeafStep, RecvExclusiveStep, ClosedFirstStep DEF IInv
<1>2. IInv /\ [Next]_vars => IInv'
  BY <1>1, StutterInv
<1> QED
  BY <1>2, InitInv, PTL DEF Spec

\* Every variable of the server keeps its type.
THEOREM TypeCorrect == Spec => []TypeOK
<1>1. IInv => TypeOK
  BY DEF IInv
<1> QED
  BY <1>1, Invariance, PTL

\* A worker's I/O context is in no other hands: it is neither freed twice nor
\* reused under the kernel.
THEOREM ContextsOwned == Spec => []ContextOwnership
<1>1. IInv => ContextOwnership
  BY DEF IInv
<1> QED
  BY <1>1, Invariance, PTL

\* The server never stops listening to a client it keeps a session for.
THEOREM AlwaysHeard == Spec => []NeverDeaf
<1>1. IInv => NeverDeaf
  BY DEF IInv
<1> QED
  BY <1>1, Invariance, PTL

\* A session gets every broadcast until it is being closed.
THEOREM AlwaysListed == Spec => []StaysListed
<1>1. IInv => StaysListed
  BY DEF IInv
<1> QED
  BY <1>1, Invariance, PTL

\* One receive per session, so the fields of ClientSession need no lock, until
\* a deleted session is used.
THEOREM OneReceive == Spec => []RecvExclusive
<1>1. IInv => RecvExclusive
  BY DEF IInv
<1> QED
  BY <1>1, Invariance, PTL

\* A session is deleted only after its socket was closed, until a deleted
\* session is used or the server stops.
THEOREM SocketsClosed == Spec => NoSocketLeak
<1> DEFINE Kept == \A s \in Conn : Live(s) /\ ~Live(s)' /\ ~stale' => sock[s]' = "closed" \/ Releasing'
<1>1. ASSUME IInv, Next PROVE Kept
  <2> USE ConstantsAssumption, <1>1 DEF IInv, TypeOK, Live, Thread
  <2>1. ASSUME UNCHANGED <<addr, owner>> PROVE Kept
    BY <2>1
  <2>2. ASSUME NEW c \in Conn, Accept(c) PROVE Kept
    BY <2>2 DEF Accept
  <2>3. ASSUME Arm PROVE Kept
    <3>1. CASE UNCHANGED owner
      BY <2>3, <3>1, <2>1 DEF Arm
    <3>2. CASE Goto(Acceptor, "relSessions")
      BY <3>2 DEF Goto, Releasing, ReleasePC
    <3> QED
      BY <2>3, <3>1, <3>2 DEF Arm
  <2>4. ASSUME NEW w \in Worker, CloseDelete(w) PROVE Kept
    <3> DEFINE s0 == pSession[w]
    <3>1. s0 \in Conn /\ addr[s0] \in Addr
      BY <2>4 DEF CloseDelete, Named, Has, ClosePC
    <3>2. ~stale' => Live(s0) /\ sock[s0] = "closed"
      BY <2>4 DEF CloseDelete, Touch, ClosedFirst
    <3>3. \A s \in Conn : Live(s) /\ ~Live(s)' => addr[s] = addr[s0]
      BY <2>4, <3>1 DEF CloseDelete
    <3> QED
      BY <2>4, <3>1, <3>2, <3>3 DEF CloseDelete, net
  <2>5. ASSUME NEW t \in Thread, ReleaseSessions(t) PROVE Kept
    BY <2>5 DEF ReleaseSessions, Goto, Releasing, ReleasePC
  <2>6. \/ UNCHANGED <<addr, owner>>
        \/ \E c \in Conn : Accept(c)
        \/ Arm
        \/ \E w \in Worker : CloseDelete(w)
        \/ \E t \in Thread : ReleaseSessions(t)
    <3> HIDE DEF IInv, TypeOK, Live, Thread
    <3>1. ASSUME NEW w \in Worker, WorkerStep(w), ~CloseDelete(w) PROVE UNCHANGED <<addr, owner>>
      BY <3>1 DEF WorkerStep, WorkerExits, NeedMore, RejectPacket, ChatPacket, AuthPacket,
           FatalPacket, AnswerAuth, BroadcastOne, BroadcastDone, Rearm, SendDone, SendRest,
           CloseErase, CloseCheck, CloseSocket, CloseInvalidate, heap
    <3> QED
      BY <3>1 DEF Next, AcceptorStep, ReleaseStep, Connect, Leave, Complete, Dequeue, Publish,
           AcceptFails, CtrlC, MainWakes, ReleaseHandles, ReleaseEnd, HeapFault, heap
  <2> HIDE DEF Kept
  <2> QED
    BY <2>1, <2>2, <2>3, <2>4, <2>5, <2>6
<1>2. ASSUME IInv, [Next]_vars PROVE [Kept]_vars
  BY <1>1, <1>2
<1> QED
  BY <1>2, Invariance, PTL DEF Spec, NoSocketLeak
=============================================================================
