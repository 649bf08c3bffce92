--------------------------- MODULE LifecycleProofs ---------------------------
(***************************************************************************)
(* Proofs about Lifecycle: the order in which the server opens and closes  *)
(* things keeps all handlers but those that outlast the pause off what was *)
(* released, and leaves nothing open, whichever call fails and whenever    *)
(* Ctrl+C is pressed.                                                      *)
(***************************************************************************)
EXTENDS Lifecycle, TLAPS

\* The places of main where all that Initialize made is still there.
Before == {"Initialize", "Run", "ReleaseServer", "CloseHandles", "hangs"}
After == {"return", "throw", "exit"}

Types ==
  /\ main \in Before \cup {"Sleep", "ended"} \cup After
  /\ opened \subseteq Handles \cup {"handler"} \cup Thread
  /\ thread \in [Thread -> {"waits", "busy", "hangs", "ended"}]

Running == Thread \cap opened

\* What the calls made so far have opened: the database first, the critical
\* section before the first thread.
InitializeOK ==
  main = "Initialize" =>
    /\ step \in 1..13
    /\ step <= 3 => opened \subseteq {"db"}
    /\ step <= 8 => Running = {}
    /\ step > 2 => "db" \in opened
    /\ step > 5 => "mCS" \in opened

\* A thread finds mCS and the database until main is past its pause.
SharedIsThere ==
  main \in Before \cup {"Sleep"} /\ Running # {} => {"mCS", "db"} \subseteq opened

\* From the closing of the sources of work on, no thread gets any.
NoNewWork ==
  main \in {"Sleep"} \cup After => \A t \in Running : Source(t) \notin opened

\* After the pause only those are in a handler that were when it ended.
BusyAreLate == main \in After => \A t \in Running : thread[t] = "busy" => t \in late

\* What is closed at each place stays closed.
ClosedSoFar ==
  /\ main = "Sleep" => opened \cap Handles \subseteq {"db", "mCS", "winsock"}
  /\ main \in {"return", "throw"} => opened \cap Handles \subseteq {"db"}
  /\ NothingLeftOpen

LifecycleInv ==
  /\ Types /\ InitializeOK /\ SharedIsThere /\ NoNewWork /\ BusyAreLate /\ ClosedSoFar

-----------------------------------------------------------------------------

\* The calls of Initialize, by their places.
LEMMA CallAt ==
  /\ Len(Calls) = 13
  /\ Calls[1] = Does("sodium_init", {}, "return")
  /\ Calls[2] = Does("Open", {"db"}, "return")
  /\ Calls[3] = Does("CreateUserTable", {}, "return")
  /\ Calls[4] = Does("WSAStartup", {"winsock"}, "ErrorHandler")
  /\ Calls[5] = Does("InitializeCriticalSection", {"mCS"}, "never")
  /\ Calls[6] = Does("SetConsoleCtrlHandler", {"handler"}, "ErrorHandler")
  /\ Calls[7] = Does("CreateIoCompletionPort", {"port"}, "ErrorHandler")
  /\ Calls[8] = Does("CreateThread", Worker, "never")
  /\ Calls[9] = Does("WSASocket", {"listener"}, "ErrorHandler")
  /\ Calls[10] = Does("bind", {}, "ErrorHandler")
  /\ Calls[11] = Does("listen", {}, "ErrorHandler")
  /\ Calls[12] = Does("CreateThread", {Acceptor}, "never")
  /\ Calls[13] = Does("CreateEvent", {"event"}, "never")
  BY DEF Calls

\* Which of them make handles and threads, and after which main throws at once.
LEMMA CallFacts ==
  ASSUME NEW i \in 1..13
  PROVE  /\ Calls[i].makes \subseteq Handles \cup {"handler"} \cup Thread
         /\ i < 8 => Calls[i].makes \cap Thread = {}
         /\ i <= 2 => Calls[i].makes \subseteq {"db"}
         /\ Calls[2].makes = {"db"} /\ Calls[5].makes = {"mCS"}
         /\ Calls[i].fails = "return" => i <= 3
<1>1. i \in {1, 2, 3, 4, 5, 6, 7} \/ i \in {8, 9, 10, 11, 12, 13}
  OBVIOUS
<1>2. /\ Calls[2].makes = {"db"} /\ Calls[5].makes = {"mCS"}
  BY CallAt DEF Does
<1>3. CASE i \in {1, 2, 3, 4, 5, 6, 7}
  BY <1>2, <1>3, CallAt, LifecycleAssumption DEF Does, Handles
<1>4. CASE i \in {8, 9, 10, 11, 12, 13}
  BY <1>2, <1>4, CallAt DEF Does, Handles, Thread
<1> QED  BY <1>1, <1>3, <1>4

\* Nothing is open when main begins.
LEMMA LifecycleInit == Init => LifecycleInv
<1> SUFFICES ASSUME Init PROVE LifecycleInv
  OBVIOUS
<1>1. main = "Initialize" /\ step = 1 /\ opened = {}
  BY DEF Init
<1>2. Types
  BY DEF Init, Types, Before
<1>3. InitializeOK
  BY <1>1 DEF InitializeOK, Running
<1> QED
  BY <1>1, <1>2, <1>3 DEF LifecycleInv, SharedIsThere, NoNewWork, BusyAreLate, ClosedSoFar,
     NothingLeftOpen, After, Running

-----------------------------------------------------------------------------
(* The main thread.                                                        *)

\* A call succeeds: what it makes comes after what it needs.
LEMMA InitializeKeeps ==
  ASSUME LifecycleInv, Initialize
  PROVE  LifecycleInv'
<1>1. PICK i \in 1..13 : i = step
  BY DEF LifecycleInv, InitializeOK, Initialize, Goto
<1>2. /\ main = "Initialize" /\ opened' = opened \cup Calls[i].makes /\ step' = i + 1
      /\ main' = IF i = 13 THEN "Run" ELSE "Initialize"
      /\ UNCHANGED <<thread, late>>
  BY <1>1, CallAt DEF Initialize, Goto, others
<1> DEFINE makes == Calls[i].makes
<1>3. /\ makes \subseteq Handles \cup {"handler"} \cup Thread
      /\ i < 8 => makes \cap Thread = {}
      /\ i <= 2 => makes \subseteq {"db"}
  BY CallFacts
<1>4. (i = 2 => makes = {"db"}) /\ (i = 5 => makes = {"mCS"})
  BY CallFacts
<1> HIDE DEF makes
<1>5. opened' = opened \cup makes
  BY <1>2 DEF makes
<1>6. Types'
  BY <1>2, <1>3, <1>5 DEF LifecycleInv, Types, Before
<1>7. /\ i <= 3 => opened \subseteq {"db"}
      /\ i <= 8 => Thread \cap opened = {}
      /\ i > 2 => "db" \in opened
      /\ i > 5 => "mCS" \in opened
  BY <1>1, <1>2 DEF LifecycleInv, InitializeOK, Running
<1>8. i + 1 <= 3 => opened' \subseteq {"db"}
  BY <1>3, <1>5, <1>7
<1>9. i + 1 <= 8 => Thread \cap opened' = {}
  BY <1>3, <1>5, <1>7
<1>10. i + 1 > 2 => "db" \in opened'
  BY <1>4, <1>5, <1>7
<1>11. i + 1 > 5 => "mCS" \in opened'
  BY <1>4, <1>5, <1>7
<1>12. InitializeOK'
  BY <1>2, <1>8, <1>9, <1>10, <1>11 DEF InitializeOK, Running
<1>13. SharedIsThere'
  BY <1>2, <1>9, <1>10, <1>11 DEF SharedIsThere, Running
<1> QED
  BY <1>2, <1>6, <1>12, <1>13
  DEF LifecycleInv, NoNewWork, BusyAreLate, ClosedSoFar, NothingLeftOpen, After

\* A call fails: before there are threads main throws, later ErrorHandler
\* releases what there is.
LEMMA InitializeFailsKeeps ==
  ASSUME LifecycleInv, InitializeFails
  PROVE  LifecycleInv'
<1>1. PICK i \in 1..13 : i = step
  BY DEF LifecycleInv, InitializeOK, InitializeFails
<1>2. /\ main = "Initialize" /\ opened' = opened \cup (Calls[i].makes \cap {"db"})
      /\ main' = IF Calls[i].fails = "return" THEN "throw" ELSE "ReleaseServer"
      /\ UNCHANGED <<thread, late>>
  BY <1>1 DEF InitializeFails, others
<1>3. Calls[i].fails = "return" => i <= 3
  BY CallFacts
<1>4. opened \subseteq opened' /\ opened' \subseteq opened \cup {"db"}
  BY <1>2
<1>5. "db" \notin Thread
  BY LifecycleAssumption DEF Handles
<1>6. Running' = Running
  BY <1>4, <1>5 DEF Running
<1>7. Types'
  BY <1>2, <1>4 DEF LifecycleInv, Types, Before, After, Handles
<1>8. CASE main' = "throw"
  <2>1. Running = {} /\ opened \subseteq {"db"}
    BY <1>1, <1>2, <1>3, <1>8 DEF LifecycleInv, InitializeOK
  <2> QED
    BY <1>4, <1>6, <1>7, <1>8, <2>1
    DEF LifecycleInv, InitializeOK, SharedIsThere, NoNewWork, BusyAreLate, ClosedSoFar, NothingLeftOpen
<1>9. CASE main' = "ReleaseServer"
  BY <1>2, <1>4, <1>6, <1>7, <1>9
  DEF LifecycleInv, InitializeOK, SharedIsThere, NoNewWork, BusyAreLate, ClosedSoFar,
      NothingLeftOpen, Before, After
<1> QED  BY <1>2, <1>8, <1>9

\* Run goes on to release what there is.
LEMMA RunKeeps ==
  ASSUME LifecycleInv, Run
  PROVE  LifecycleInv'
  BY DEF LifecycleInv, Types, Running, InitializeOK, SharedIsThere, NoNewWork, BusyAreLate,
     ClosedSoFar, NothingLeftOpen, Before, After, Run, Goto, others

\* A critical section never initialised was never used by a thread either.
LEMMA ReleaseSessionsKeeps ==
  ASSUME LifecycleInv, ReleaseSessions
  PROVE  LifecycleInv'
<1>1. main = "ReleaseServer" /\ UNCHANGED <<opened, thread, late>>
      /\ main' \in {"CloseHandles", "hangs", "ended"}
  BY DEF ReleaseSessions, Goto, others
<1> QED
  BY <1>1 DEF LifecycleInv, Types, Running, InitializeOK, SharedIsThere, NoNewWork, BusyAreLate,
     ClosedSoFar, NothingLeftOpen, Before, After

\* The sources of work are closed, and nothing else that a thread uses.
LEMMA CloseHandlesKeeps ==
  ASSUME LifecycleInv, CloseHandles
  PROVE  LifecycleInv'
<1>1. /\ main = "CloseHandles" /\ main' = "Sleep" /\ UNCHANGED <<thread, late>>
      /\ opened' = opened \ {"listener", "port", "event"}
  BY DEF CloseHandles, Goto, others
<1>2. Types'
  BY <1>1 DEF LifecycleInv, Types, Before
<1>3. Running' \subseteq Running
  BY <1>1 DEF Running
<1>4. SharedIsThere'
  BY <1>1, <1>3 DEF LifecycleInv, SharedIsThere, Before
<1>5. NoNewWork'
  BY <1>1 DEF NoNewWork, Source
<1>6. ClosedSoFar'
  BY <1>1 DEF LifecycleInv, Types, ClosedSoFar, NothingLeftOpen, Handles
<1> QED
  BY <1>1, <1>2, <1>4, <1>5, <1>6 DEF LifecycleInv, InitializeOK, BusyAreLate, After

\* Who is in a handler when the pause ends is late.
LEMMA SleepKeeps ==
  ASSUME LifecycleInv, Sleep
  PROVE  LifecycleInv'
<1>1. /\ main = "Sleep" /\ main' \in {"return", "throw"} /\ thread' = thread
      /\ opened' = opened \ {"mCS", "winsock"}
      /\ late' = {t \in Thread \cap opened : thread[t] = "busy"}
  BY DEF Sleep, Goto, others
<1>2. Types'
  BY <1>1 DEF LifecycleInv, Types, Before, After
<1>3. Running' \subseteq Running
  BY <1>1 DEF Running
<1>4. NoNewWork' /\ BusyAreLate'
  BY <1>1, <1>3 DEF LifecycleInv, NoNewWork, BusyAreLate, Source, Running, After
<1>5. ClosedSoFar'
  BY <1>1 DEF LifecycleInv, ClosedSoFar, NothingLeftOpen
<1> QED
  BY <1>1, <1>2, <1>4, <1>5 DEF LifecycleInv, InitializeOK, SharedIsThere, Before

\* The database is the last to be closed.
LEMMA LeaveMainKeeps ==
  ASSUME LifecycleInv, LeaveMain
  PROVE  LifecycleInv'
<1>1. /\ main \in {"return", "throw"} /\ main' = "exit" /\ UNCHANGED <<thread, late>>
      /\ opened' = opened \ {"db"}
  BY DEF LeaveMain, others
<1>2. Types'
  BY <1>1 DEF LifecycleInv, Types, After
<1>3. NoNewWork' /\ BusyAreLate'
  BY <1>1 DEF LifecycleInv, NoNewWork, BusyAreLate, Source, Running, After
<1>4. ClosedSoFar'
  BY <1>1 DEF LifecycleInv, ClosedSoFar, NothingLeftOpen
<1> QED
  BY <1>1, <1>2, <1>3, <1>4 DEF LifecycleInv, InitializeOK, SharedIsThere, Before

\* The process ends.
LEMMA ExitKeeps ==
  ASSUME LifecycleInv, Exit
  PROVE  LifecycleInv'
  BY DEF LifecycleInv, Types, Running, InitializeOK, SharedIsThere, NoNewWork, BusyAreLate,
     ClosedSoFar, NothingLeftOpen, Before, After, Exit, Goto, others

-----------------------------------------------------------------------------
(* The other threads and the operator.                                     *)

\* Work comes only while its source is open.
LEMMA BeginKeeps ==
  ASSUME LifecycleInv, NEW t \in Thread, Begin(t)
  PROVE  LifecycleInv'
<1>1. /\ t \in opened /\ Source(t) \in opened /\ UNCHANGED <<main, step, opened, late>>
      /\ thread' = [thread EXCEPT ![t] = "busy"]
  BY DEF Begin, Started
<1>2. main \notin After
  BY <1>1 DEF LifecycleInv, NoNewWork, Running
<1>3. Types' /\ BusyAreLate'
  BY <1>1, <1>2 DEF LifecycleInv, Types, BusyAreLate
<1> QED
  BY <1>1, <1>3 DEF LifecycleInv, Running, InitializeOK, SharedIsThere, NoNewWork, Source,
     ClosedSoFar, NothingLeftOpen

\* A handler ends, or its thread, or it hangs: it is late no more, or in none.
LEMMA RestKeeps ==
  ASSUME LifecycleInv, NEW t \in Thread, NEW v \in {"waits", "hangs", "ended"},
         UNCHANGED <<main, step, opened>>, thread' = [thread EXCEPT ![t] = v],
         late \ {t} \subseteq late'
  PROVE  LifecycleInv'
<1>1. Types'
  BY DEF LifecycleInv, Types
<1>2. BusyAreLate'
  <2> SUFFICES ASSUME main' \in After, NEW r \in Running', thread'[r] = "busy"
               PROVE  r \in late'
    BY DEF BusyAreLate
  <2>1. r \in Running /\ r # t /\ thread[r] = "busy"
    BY DEF LifecycleInv, Types, Running
  <2> QED  BY <2>1 DEF LifecycleInv, BusyAreLate
<1> QED
  BY <1>1, <1>2 DEF LifecycleInv, Running, InitializeOK, SharedIsThere, NoNewWork, Source,
     ClosedSoFar, NothingLeftOpen

\* What is used once released may end the process.
LEMMA FaultKeeps ==
  ASSUME LifecycleInv, main' = "ended", UNCHANGED <<step, opened, thread, late>>
  PROVE  LifecycleInv'
  BY DEF LifecycleInv, Types, Running, InitializeOK, SharedIsThere, NoNewWork, BusyAreLate,
     ClosedSoFar, NothingLeftOpen, Before, After

\* Ctrl+C ends the process or starts a console thread.
LEMMA PressCtrlCKeeps ==
  ASSUME LifecycleInv, PressCtrlC
  PROVE  LifecycleInv'
<1>1. UNCHANGED <<step, opened, thread, late>> /\ (main' = main \/ main' = "ended")
  BY DEF PressCtrlC
<1>2. CASE main' = "ended"
  BY <1>1, <1>2, FaultKeeps
<1>3. CASE main' = main
  BY <1>1, <1>3 DEF LifecycleInv, Types, Running, InitializeOK, SharedIsThere, NoNewWork,
     BusyAreLate, ClosedSoFar, NothingLeftOpen
<1> QED  BY <1>1, <1>2, <1>3

\* CtrlHandler sets the event, and a stuttering step nothing.
LEMMA ElseKeeps ==
  ASSUME LifecycleInv, CtrlHandler \/ UNCHANGED vars
  PROVE  LifecycleInv'
<1>1. UNCHANGED <<main, step, opened, thread, late>>
  BY DEF CtrlHandler, vars
<1> QED
  BY <1>1 DEF LifecycleInv, Types, Running, InitializeOK, SharedIsThere, NoNewWork,
     BusyAreLate, ClosedSoFar, NothingLeftOpen

-----------------------------------------------------------------------------

\* Every step keeps the invariant.
LEMMA LifecycleStep == LifecycleInv /\ [Next]_vars => LifecycleInv'
<1> SUFFICES ASSUME LifecycleInv, [Next]_vars PROVE LifecycleInv'
  OBVIOUS
<1>1. CASE MainStep
  BY <1>1, InitializeKeeps, InitializeFailsKeeps, RunKeeps, ReleaseSessionsKeeps,
     CloseHandlesKeeps, SleepKeeps, LeaveMainKeeps, ExitKeeps DEF MainStep
<1>2. CASE PressCtrlC  BY <1>2, PressCtrlCKeeps
<1>3. CASE CtrlHandler \/ UNCHANGED vars  BY <1>3, ElseKeeps
<1>4. ASSUME NEW t \in Thread, ThreadStep(t)
      PROVE  LifecycleInv'
  <2>1. CASE Begin(t)  BY <2>1, BeginKeeps
  <2>2. CASE Finish(t)  BY <2>2, RestKeeps DEF Finish
  <2>3. CASE Leave(t)  BY <2>3, RestKeeps DEF Leave
  <2>4. CASE UseReleased(t)  BY <2>4, RestKeeps, FaultKeeps DEF UseReleased
  <2> QED  BY <1>4, <2>1, <2>2, <2>3, <2>4 DEF ThreadStep
<1> QED  BY <1>1, <1>2, <1>3, <1>4 DEF Next

\* The invariant, for any number of workers.
THEOREM LifecycleInvariance == Spec => []LifecycleInv
  BY LifecycleInit, LifecycleStep, PTL DEF Spec

\* Once ReleaseServer has deleted the critical section or the database is
\* closed, only the handlers that outlasted the pause use them.
THEOREM UseAfterReleaseIsLate == Spec => []OnlyLateHandlersUseReleased
<1>1. LifecycleInv => OnlyLateHandlersUseReleased
  <2> SUFFICES ASSUME LifecycleInv, NEW t \in Thread, Started(t), thread[t] = "busy",
                      ~({"mCS", "db"} \subseteq opened)
               PROVE  t \in late
    BY DEF OnlyLateHandlersUseReleased
  <2>1. t \in Running /\ main # "ended"
    BY DEF Started, Running
  <2>2. main \notin Before \cup {"Sleep"}
    BY <2>1 DEF LifecycleInv, SharedIsThere
  <2>3. main \in After
    BY <2>1, <2>2 DEF LifecycleInv, Types
  <2> QED  BY <2>1, <2>3 DEF LifecycleInv, BusyAreLate
<1> QED  BY <1>1, LifecycleInvariance, PTL

\* When main returns, all that Initialize had opened is closed, whichever of
\* its calls failed.
THEOREM AllClosed == Spec => []NothingLeftOpen
<1>1. LifecycleInv => NothingLeftOpen
  BY DEF LifecycleInv, ClosedSoFar
<1> QED  BY <1>1, LifecycleInvariance, PTL
=============================================================================
