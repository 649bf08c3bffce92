------------------------------ MODULE Lifecycle ------------------------------
(***************************************************************************)
(* One run of the server process, from main to its end (ChatServer.cpp,    *)
(* Initialize, Run, ReleaseServer and CtrlHandler of IOCP_Server.cpp): the *)
(* order in which threads, handles, event and critical section come and    *)
(* go, against failing calls and an operator who presses Ctrl+C any time.  *)
(*                                                                         *)
(* What threads do with sessions is in IOCP_Server, ErrorHandler in a      *)
(* worker or the accept thread too: here a handler is a stretch of time in *)
(* which a thread uses mCS and the database, and main alone releases.      *)
(***************************************************************************)
EXTENDS Naturals, Sequences

CONSTANTS
  Worker, Acceptor,
  MaxPresses,     \* bound: Ctrl+C pressed
  MaxWork         \* bound: accepts and completions handled

Thread == Worker \cup {Acceptor}

Handles == {"db", "winsock", "mCS", "port", "listener", "event"}

\* A thread is no handle: both are in opened.
ASSUME LifecycleAssumption ==
  /\ Acceptor \notin Worker /\ MaxPresses \in Nat /\ MaxWork \in Nat
  /\ Thread \cap (Handles \cup {"handler"}) = {}

VARIABLES
  main,        \* where the main thread is
  step,        \* the call of Initialize it makes next
  failed,      \* the call of Initialize that failed, or "none"
  opened,      \* what Initialize made and nothing has closed
  signalled,   \* mShutdownEvent is set
  thread,      \* [Thread -> "waits", "busy", "hangs" or "ended"]
  late,        \* history: threads still in the handler they were in when mCS went
  ctrl,        \* console threads about to run CtrlHandler
  presses,     \* Ctrl+C pressed
  work         \* handlers begun

vars == <<main, step, failed, opened, signalled, thread, late, ctrl, presses, work>>
others == <<signalled, thread, ctrl, presses, work>>

Does(call, makes, fails) == [call |-> call, makes |-> makes, fails |-> fails]

\* Mutant: the critical section is initialised just before the port.
CallsSectionLater == <<
  Does("sodium_init", {}, "return"), Does("Open", {"db"}, "return"),
  Does("CreateUserTable", {}, "return"), Does("WSAStartup", {"winsock"}, "ErrorHandler"),
  Does("SetConsoleCtrlHandler", {"handler"}, "ErrorHandler"),
  Does("InitializeCriticalSection", {"mCS"}, "never"),
  Does("CreateIoCompletionPort", {"port"}, "ErrorHandler"),
  Does("CreateThread", Worker, "never"), Does("WSASocket", {"listener"}, "ErrorHandler"),
  Does("bind", {}, "ErrorHandler"), Does("listen", {}, "ErrorHandler"),
  Does("CreateThread", {Acceptor}, "never"), Does("CreateEvent", {"event"}, "never") >>

\* Initialize: its calls in order, what each makes, and what follows a failure.
Calls == <<
  Does("sodium_init", {}, "return"), Does("Open", {"db"}, "return"),
  Does("CreateUserTable", {}, "return"), Does("WSAStartup", {"winsock"}, "ErrorHandler"),
  Does("InitializeCriticalSection", {"mCS"}, "never"),
  Does("SetConsoleCtrlHandler", {"handler"}, "ErrorHandler"),
  Does("CreateIoCompletionPort", {"port"}, "ErrorHandler"),
  Does("CreateThread", Worker, "never"), Does("WSASocket", {"listener"}, "ErrorHandler"),
  Does("bind", {}, "ErrorHandler"), Does("listen", {}, "ErrorHandler"),
  Does("CreateThread", {Acceptor}, "never"), Does("CreateEvent", {"event"}, "never") >>

Init ==
  /\ main = "Initialize" /\ step = 1 /\ failed = "none" /\ opened = {}
  /\ signalled = FALSE /\ thread = [t \in Thread |-> "waits"] /\ late = {}
  /\ ctrl = 0 /\ presses = 0 /\ work = 0

-----------------------------------------------------------------------------
(* The main thread.                                                        *)

Goto(here, there) == main = here /\ main' = there

Initialize ==
  /\ Goto("Initialize", IF step = Len(Calls) THEN "Run" ELSE "Initialize")
  /\ opened' = opened \cup Calls[step].makes
  /\ step' = step + 1
  /\ UNCHANGED <<failed, late, others>>

\* Mutant: ErrorHandler only throws.
InitializeFailsThrows ==
  /\ Calls[step].fails # "never" /\ Goto("Initialize", "throw")
  /\ failed' = Calls[step].call
  /\ UNCHANGED <<step, opened, late, others>>

\* return false, and main throws; or ErrorHandler releases first.  Open keeps
\* a database handle even then.
InitializeFails ==
  /\ main = "Initialize" /\ Calls[step].fails # "never"
  /\ main' = IF Calls[step].fails = "return" THEN "throw" ELSE "ReleaseServer"
  /\ failed' = Calls[step].call
  /\ opened' = opened \cup (Calls[step].makes \cap {"db"})
  /\ UNCHANGED <<step, late, others>>

\* Run waits for the event.
Run ==
  /\ signalled /\ Goto("Run", "ReleaseServer")
  /\ UNCHANGED <<step, failed, opened, late, others>>

\* EnterCriticalSection: on one that was never initialised it may pass, hang
\* or fault.
ReleaseSessions ==
  /\ \/ "mCS" \in opened /\ Goto("ReleaseServer", "CloseHandles")
     \/ "mCS" \notin opened /\ \E there \in {"CloseHandles", "hangs", "ended"} :
                                 Goto("ReleaseServer", there)
  /\ UNCHANGED <<step, failed, opened, late, others>>

\* Mutant: the threads are joined first.
CloseHandlesJoins ==
  /\ Goto("CloseHandles", "Sleep")
  /\ \A t \in Thread \cap opened : thread[t] = "ended"
  /\ opened' = opened \ {"listener", "port", "event"}
  /\ UNCHANGED <<step, failed, late, others>>

\* Mutant: the port is left for the end of the process.
CloseHandlesKeepsPort ==
  /\ Goto("CloseHandles", "Sleep")
  /\ opened' = opened \ {"listener", "event"}
  /\ UNCHANGED <<step, failed, late, others>>

CloseHandles ==
  /\ Goto("CloseHandles", "Sleep")
  /\ opened' = opened \ {"listener", "port", "event"}
  /\ UNCHANGED <<step, failed, late, others>>

\* Sleep(500) waits for nobody: what a thread was in the middle of when the
\* handles were closed may be over when mCS is deleted, or not.
Sleep ==
  /\ Goto("Sleep", IF failed = "none" THEN "return" ELSE "throw")
  /\ opened' = opened \ {"mCS", "winsock"}
  /\ late' = {t \in Thread \cap opened : thread[t] = "busy"}
  /\ UNCHANGED <<step, failed, others>>

\* After Run, or on the way to the catch that prints the error, app is
\* destroyed and ~DBManager closes the database.
LeaveMain ==
  /\ main \in {"return", "throw"} /\ main' = "exit"
  /\ opened' = opened \ {"db"}
  /\ UNCHANGED <<step, failed, late, others>>

\* main returns: the process ends, with every thread it still has.
Exit == Goto("exit", "ended") /\ UNCHANGED <<step, failed, opened, late, others>>

MainStep ==
  \/ Initialize \/ InitializeFails \/ Run \/ ReleaseSessions
  \/ CloseHandles \/ Sleep \/ LeaveMain \/ Exit

-----------------------------------------------------------------------------
(* The other threads and the operator.                                     *)

Source(t) == IF t = Acceptor THEN "listener" ELSE "port"
Started(t) == t \in opened /\ main # "ended"

\* accept or GetQueuedCompletionStatus returns; completions need a connection.
Begin(t) ==
  /\ Started(t) /\ thread[t] = "waits" /\ Source(t) \in opened
  /\ t = Acceptor \/ work > 0
  /\ work < MaxWork /\ work' = work + 1
  /\ thread' = [thread EXCEPT ![t] = "busy"]
  /\ UNCHANGED <<main, step, failed, opened, signalled, late, ctrl, presses>>

Finish(t) ==
  /\ Started(t) /\ thread[t] = "busy"
  /\ thread' = [thread EXCEPT ![t] = "waits"]
  /\ late' = late \ {t}
  /\ UNCHANGED <<main, step, failed, opened, signalled, ctrl, presses, work>>

\* What a handler still running can meet once mCS is deleted or the database
\* closed, besides nothing: it waits for ever, or the access ends the process.
UseReleased(t) ==
  /\ Started(t) /\ thread[t] = "busy" /\ ~({"mCS", "db"} \subseteq opened)
  /\ \/ thread' = [thread EXCEPT ![t] = "hangs"] /\ UNCHANGED main
     \/ main' = "ended" /\ UNCHANGED thread
  /\ UNCHANGED <<step, failed, opened, signalled, late, ctrl, presses, work>>

\* The handle it waits on was closed: the loop ends.
Leave(t) ==
  /\ Started(t) /\ thread[t] = "waits" /\ Source(t) \notin opened
  /\ thread' = [thread EXCEPT ![t] = "ended"]
  /\ UNCHANGED <<main, step, failed, opened, signalled, late, ctrl, presses, work>>

\* Until CtrlHandler is registered, Ctrl+C ends the process.
PressCtrlC ==
  /\ main # "ended" /\ presses < MaxPresses /\ presses' = presses + 1
  /\ IF "handler" \in opened
     THEN ctrl' = ctrl + 1 /\ UNCHANGED main
     ELSE main' = "ended" /\ UNCHANGED ctrl
  /\ UNCHANGED <<step, failed, opened, signalled, thread, late, work>>

\* SetEvent on mShutdownEvent, which may not exist yet, or any more.
CtrlHandler ==
  /\ main # "ended" /\ ctrl > 0 /\ ctrl' = ctrl - 1
  /\ signalled' = (signalled \/ "event" \in opened)
  /\ UNCHANGED <<main, step, failed, opened, thread, late, presses, work>>

ThreadStep(t) == Begin(t) \/ Finish(t) \/ UseReleased(t) \/ Leave(t)

Next ==
  MainStep \/ PressCtrlC \/ CtrlHandler \/ \E t \in Thread : ThreadStep(t)

\* Threads that can go on do; no call has to fail and nobody has to press.
Spec ==
  /\ Init /\ [][Next]_vars
  /\ WF_vars(MainStep) /\ WF_vars(CtrlHandler)
  /\ \A t \in Thread : WF_vars(Finish(t) \/ UseReleased(t)) /\ WF_vars(Leave(t))

-----------------------------------------------------------------------------
(* Properties.                                                             *)

\* The sources of work are closed first, so that the pause has only handlers
\* in progress to wait for: once mCS or the database is gone no thread uses
\* them but in the one handler that outlasted the 500 ms.  (That one does: line
\* 143 leaves joining the threads to the future.)
OnlyLateHandlersUseReleased ==
  \A t \in Thread :
    Started(t) /\ thread[t] = "busy" /\ ~({"mCS", "db"} \subseteq opened) => t \in late

\* Whichever call of Initialize failed, and however it stopped, the server
\* has closed all it had opened when main returns.
NothingLeftOpen == main = "exit" => opened \cap Handles = {}

\* Once the event exists, Ctrl+C ends the process, whatever the other threads
\* are in.  (Before, CtrlHandler drops it: line 90 comes after line 34.)
CtrlCStops == (ctrl > 0 /\ "event" \in opened) ~> main = "ended"

\* A start that fails is reported by the catch in main, unless Ctrl+C ends the
\* process before; all but that of WSAStartup, where ErrorHandler enters mCS before
\* line 31 has initialised it.
FailureIsReported ==
  failed \notin {"none", "WSAStartup"} ~> main \in {"exit", "ended"}
=============================================================================
