# IOCP-Chat-System in TLA+

This directory specifies and verifies the chat system of this repository: a C++
server built on an I/O completion port (`src/ChatServer`) and WPF clients
(`src/ChatClient`). TLC checks the specifications on small instances; TLAPS
proves every safety property they state for all values of their constants: any
number of threads, connections and heap cells, of clients and messages, streams
and texts of any length. It also proves the safety part of the two refinements.

The specifications cut the system where its mechanisms are independent of each
other: who owns a session or a context (`IOCP_Server`), how bytes become packets
(`PacketAssembly`) and packets bytes (`SendStream`, `Wire`), what a request does to
the table of accounts (`Auth`), how the process starts and ends (`Lifecycle`), and
what the users see of all that (`ChatSystem`). Each says below what it takes from
the others.

`PROJECT.json` is the index: components, runs, the source lines of every
definition, mutants, findings, hazards and theorems.

## 1. Inventory

| Component | State | Operations | Hard behaviour | What makes it correct |
|---|---|---|---|---|
| Accept thread (`IOCP_Server.cpp:260-291`) | the session under construction | accept, new, associate with the port, first `PostRecv`, `push_back` | the session is served before it is listed; `accept` and `PostRecv` fail | every live session is listed, none is lost |
| Worker threads (`293-361`, 4 of them) | completion key, context | take a completion, call `OnRecvCompleted`, `OnSendCompleted` or `CloseSession` | several completions of one session in several workers | one receive per session; a context has one owner |
| `CloseSession` (`151-174`) | `mSessions`, the session, its socket | erase under `mCS`, then test, close, invalidate, delete without it | two workers in it at once; the address already reused | the socket is closed once, the object deleted once |
| Packet assembly (`413-546`) | `assemblyBuffer` | append, parse header, dispatch, erase | packets cut anywhere | each packet handled once, whole, in order |
| Broadcast (`187-258`) | snapshot of targets | snapshot under `mCS`, `PostSend` to each | targets deleted meanwhile; several writers at once | every listed session gets each message, in each writer's order |
| Send completion (`391-411`, `548-580`) | `transferredLen`, posted buffer | delete or post the rest | partial sends, refusal of the rest, other packets in between | bytes in order and once; context freed once |
| Login and registration (`582-715`, `DBManager.cpp`) | `users` table, `isLoggedIn`, `userID` | hash, insert, look up, verify, answer | concurrent registration, failing statements, lost answers and retries, restarts | a name is given away once and for good; a session is who its password says |
| Start-up and shutdown (`13-185`, `ErrorHandler`, `ChatServer.cpp`) | handles, event, `mCS`, database | `Initialize`, `Run`, `CtrlHandler`, `ReleaseServer` in any thread, end of `main` | failing calls, running workers, two threads releasing, early Ctrl+C | nothing is used once released, nothing stays open, the process ends |
| Wire format (`Protocol.h`, `Protocol.cs`) | - | build, read, cut to 16 bits | lengths at the ends of their fields | the reader finds every header; no buffer overruns |
| `NetworkClient` (client) | `_stream`, `_running`, receive thread | `Connect`, `Send`, `ReceiveLoop`, `Disconnect` | two threads; an exception in a handler ends the connection | the stream stays aligned, every packet reaches its page |
| `LoginViewModel`, `MainViewModel` | page, `IsLoggingIn` | login, register, answers, change of page | answers after the guard was reset; no answer at all | one request at a time; the page agrees with the server |
| `ChattingViewModel` | `Messages` | send, parse, show | subscribed in the middle of a packet's dispatch | no message missed, repeated or reordered |
| Views, templates | - | presentation | - | not modelled |
| libsodium, SQLite (vendored) | - | - | - | external |

How they interact: the client's UI thread writes requests to the TCP stream; its
receive thread reads packets and raises `PacketReceived`, whose handlers wait for
the UI thread in `Dispatcher.Invoke`. Winsock turns arrived bytes, finished sends
and broken connections into completion packets; workers take them in any order.
Workers share `mSessions` under `mCS`, and share sessions and contexts through raw
pointers. `ErrorHandler` calls `ReleaseServer` in whatever thread met the error
and throws.

`PROJECT.json` lists the hazards of this code at their lines, with the properties
that cover them. Those without one say why.

## 2. Modules

| Module | Models | Kind |
|---|---|---|
| `IOCP_Server` | sessions, contexts, threads of the server; properties and fairness | specification |
| `IOCP_ServerInv` | its inductive invariant `IInv` | invariant |
| `IOCP_ServerProofs` | TLAPS proofs about it | proofs |
| `MCServer` | instance for TLC: symmetry, and a start state with two clients in the chat | model checking |
| `PacketStream` | what is promised about a client's byte stream | abstract specification |
| `PacketAssembly` | the loop of `OnRecvCompleted`; implements `PacketStream` | specification, refinement |
| `PacketAssemblyProofs` | TLAPS proofs about it, the refinement included | proofs |
| `MCAssembly` | the packets of the streams checked | model checking |
| `SendStream` | sends on one socket, to the byte | specification |
| `SendStreamProofs` | TLAPS proofs about it | proofs |
| `MCSend` | packet lengths | model checking |
| `ChatSystem` | clients, connections and server composed at the level of packets | specification |
| `ChatSystemProofs` | TLAPS proof that pages agree with logins | proofs |
| `ChatMessageProofs` | TLAPS proofs about its messages | proofs |
| `Accounts` | what registration and login promise: a table of accounts | abstract specification |
| `Auth` | both handlers over the database, with failures and restarts; implements `Accounts` | specification, refinement |
| `AuthProofs` | TLAPS proofs about it, the refinement included | proofs |
| `MCAuth` | the requests clients send | model checking |
| `Lifecycle` | one run of the process, from `main` to its end | specification |
| `LifecycleProofs` | TLAPS proofs about it | proofs |
| `Wire` | the bytes and widths of the header fields, writer to reader | specification |
| `WireProofs` | TLAPS proofs about it | proofs |
| `MCWire` | the lengths of texts | model checking |

### IOCP_Server and the code

A session is named by its connection. `addr` is the heap cell `new` returned for
it, `owner` the session whose object the cell holds (`NONE` once deleted). A cell
can be handed out again, so a pointer that outlived its object may name another
session's object, as in the program. Dereferencing a pointer whose object is gone
sets `stale` and is a free choice between reading what the cell holds and the end
of the process (`HeapFault`); a second `delete` of a freed cell ends it. A SOCKET is
named by its connection as well, and `now` says whose socket that handle value stands
for: `Accept` may hand out a value that was closed before, and a thread that kept it,
like the second of two workers in `CloseSession` (line 168), then uses or closes a newer
client's socket (`UseHandle`, which sets `stale` too).

Each thread has a `pc`. What happens inside `mCS`, or between two points where
another thread could notice, is one action; `CloseSession` is five (`CloseErase`,
`CloseCheck`, `CloseSocket`, `CloseInvalidate`, `CloseDelete`), as its steps after
the critical section interleave. `SendMessageAll` is the snapshot (`ChatPacket`)
and one `BroadcastOne` per target, which reads the sender's session and the target's. An I/O context goes from `free` to `kernel`
(posted), `queued` (completed), `held` (by a worker) and back; `leaked` is a
context nobody will delete (the refused rest of a partial send, line 573).

A packet is one of the five paths through the switch: `Chat` (refused before
login), `Login`, `Register`, `Reject` (close the session) and `Fatal`
(`ErrorHandler`). A login or registration succeeds or not, freely. `Outcome` is
what Winsock may answer, given what the client did to its end.

### PacketAssembly and PacketStream

Bytes are named by their place in the stream, so a byte lost, doubled or given to
the wrong packet shows. `OnRecvCompleted` brings a piece of any length up to
`BufferSize`; each loop iteration is one action, chosen by the code's conditions.
`ImplementsStream` is the abstract specification with the same variables: every
cutting of the stream handles the same packets, in full and in order, as soon as
they are complete, or closes the session at the first bad one.

### SendStream

`posted` holds the `WSASend` calls in order, `wire` the bytes the client gets.
A completion says how many bytes went out; `OnSendCompleted` adds them up and
deletes the context or posts the rest at the end of `posted`.

### ChatSystem

The client is its two threads: actions of the UI thread (clicks, and the lambdas
of `Dispatcher.Invoke`, which run while the receive thread waits in `rx`) and of
the receive thread. `rxChat` records which handlers the event had when it was
raised: the login page subscribes first and never unsubscribes, the chat page
subscribes while the login page handles the answer. An accepted login is two steps of its
worker: `HandleLoginRequest` sets `isLoggedIn` (617), `SendAuthResponse` posts the answer
(620, 684). No lock joins them, so a broadcast of another worker may come between, reach the
client before `LoginOk` and be ignored by the login page. The accept loop ends at the first
`accept` that fails, for a connection that broke in the backlog (`BacklogBreaks`); clients
still there are then never served. The server serves one packet
of a session at a time (`RecvExclusive` in `IOCP_Server` is the reason), listing a
session only after its first receive; broadcasts of different writers interleave
target by target. Streams are cut into packets and sends are whole here, as
`PacketAssembly` and `SendStream` treat those; the server stays up, as
`IOCP_Server` and `Lifecycle` treat its end. The network may break a connection at any time
(`CloseSession`, and `EndOfStream` at the client). `admitted` and `due` are
histories: the clients an acceptance was sent to, and the chats sent to each behind it.
`NoChatIsMissed` and `EveryChatIsShown` are about those, and do not speak of a chat sent
between 617 and 684. `LoginEnds` excepts a client left in the backlog.

### Auth and Accounts

A session has one request in the hands of one worker at a time (`RecvExclusive` in
`IOCP_Server`), so the worker is named by its session. Requests of different sessions
interleave between calls: the hash (`MakePasswordHash`), the statement (`RegisterUser`,
`GetUserAuthData`; SQLite holds its mutex within one call and commits the insert in it),
the check of the password and the posting of the answer. A hash is its password and a
salt. Each of these calls can fail, with the answer the code gives then: a refused
insert is always `DuplicateId`, a failed look-up always `InvalidId`, a check out of
memory `WrongPassword`. A connection breaks at any moment (`Break`), also between
the insert and the answer, and the client may connect and ask again; the process ends
at any moment (`Crash`) and only `users` survives. `confirmed` is the history of
the registrations clients were told of.

`Accounts` is the same seen from outside: a request is asked, decided in one step and
answered. `ImplementsAccounts` maps the table of hashes to the passwords in them,
`request` to `asked`, `result` to `verdict` and `userID` to `user`. It includes fairness:
every request is answered unless its session ends.

### Lifecycle

`Calls` lists the calls of `Initialize` in their order, each with what it makes (handles,
the critical section, threads, the registered handler) and what follows its failure.
The main thread goes through them, waits in `Run`, releases, leaves `main`; `opened` is
what was made and not closed yet. The other threads wait at their handle, are busy in a
handler, or have ended. Ctrl+C can be pressed at any time; Windows runs
`CtrlHandler` in a thread of its own, so it is a step apart, and finds the event or not.
Entering `mCS` before it was initialised (`WSAStartup` failed) may pass, hang or fault.
`Sleep` is the timer it is in the code: after it `mCS` is deleted whether or not a handler
still runs, and `late` is a history of the threads for which that was so. Such a handler goes
on, and may finish, hang in `mCS` or fault (`UseReleased`); that is the defect the
comment in line 143 leaves to a future join. What the order of the calls does give is that
no other thread is in this place: the handles are closed first, so no handler begins after
that (`OnlyLateHandlersUseReleased`). `ErrorHandler` in a worker or the accept thread, and failures of
`CreateEvent` and `CreateThread`, which the code does not test, are not part of it; the
first is in `IOCP_Server`.

### Wire

Packets are header and extension header byte by byte, in network order, and the number
of bytes behind them. Lengths are translated at every conversion the code makes:
`static_cast<uint16_t>` in `SendMessageAll`, `htons` and `htonl`, and back in
`ReadHeader` and the chat page. `Receive` reads what the header announces and says in
`misread` whether the next header is where it looks for it. The two sizes
`SendMessageAll` works with (the text's, and the text's cut to 16 bits) are told apart.
`ShownCutTo16Bits` compares lengths modulo 65536: a text below that is shown whole, a
longer one that passes the check of line 223 is shown cut.

## 3. Runs

| Run | Instance | Shows |
|---|---|---|
| `server_chat` | 2 workers, 2 connections, 2 cells, 4 contexts, 2 units of work, starting with both clients logged in | `ContextOwnership`, `RecvExclusive`, `StaysListed` and `IInv` while broadcasts, answers and partial sends race closes |
| `server_reuse` | 2 workers, 2 connections, 2 cells, 3 contexts, 2 units of work, from the start of the server | `TypeOK` and `NeverDeaf` when addresses and SOCKET values are reused |
| `server_live` | 2 workers, 1 connection, Ctrl+C and a fatal packet | `NoSocketLeak`, `GoneIsClosed`, `StopEnds` |
| `assembly` | streams of up to 3 packets, header 2, payload up to 2 (3 is too large), extension 0 or 1, receives of 1 to 5 bytes | `NothingWaits`, `ImplementsStream` |
| `send` | 3 packets of 1, 2 and 3 bytes, partial sends, reset | `FrameBytesOnce`, `ContextOutlivesSend` |
| `chat` | 2 clients, connected or not, 3 requests, 2 chats | `ChatPageIsLoggedIn`, `NoChatIsMissed`, `WritersAreReadInOrder`, `LoginEnds`, `EveryChatIsShown` |
| `auth` | 2 sessions, 2 names, 2 passwords, 3 requests, 1 failing call, 1 broken connection, 1 crash | `ConfirmedOnce`, `ConfirmedStays`, `ImplementsAccounts` |
| `lifecycle` | 2 workers, 2 presses of Ctrl+C, 3 handlers | `OnlyLateHandlersUseReleased`, `NothingLeftOpen`, `CtrlCStops`, `FailureIsReported` |
| `wire` | ids of 1 and 255 bytes, 13 text lengths, 3 chats and an answer | `NothingOverruns`, `StaysAligned`, `ShownCutTo16Bits` |
| `server_key` | violation | a session is deleted under a worker that is handling its packets (`IOCP_Server.cpp:171`) |
| `send_partial` | violation | after a partial send another packet lands inside a packet (`559`) |
| `chat_ext` | violation | an answer without extension header reaches the chat page, which disconnects (`ChattingViewModel.cs:89`) |

**Bounds and why they are enough.** `MaxWork` counts packets handled and partial
sends; two are enough for two broadcasts at once or a broadcast racing a partial
send, which is where two workers meet. Two workers show every race of two
completions; the properties are about pairs of threads, and the proofs cover any
number. In `server_reuse` the second connection may be given the heap cell and the SOCKET
value of the first, each or both, at any moment after they are free; chains of three
connections are left to the proofs, as is `IInv` there (`server_chat` checks it).
`Ctx` bounds the contexts that exist at once: `new` waits for a free cell in the
model, so a small bound only removes behaviours in which more operations are
outstanding, and four let each of two sessions have a receive and a send. Each
stream of `assembly` has packets of every relation to the header and buffer size,
so that every split point occurs. Three requests over two clients allow both to
log in with one failed attempt or registration before, and the three on one client
that `chat_ext` needs; two chats allow two from one writer or one from each. In
`auth` three requests let two sessions race for a name and one of them retry or log in
afterwards, around one failure, one broken connection and one restart; every fault the
properties speak of needs one of each. The lengths of `wire` lie on both sides of
every limit: 256 (one byte), the longest text that fits a send buffer with the longest
and the shortest id, 65536, the two together (a text that fits once it is cut), and
`MAX_PAYLOAD`. In `lifecycle` three handlers keep both workers and the accept thread
busy at once while the handles are closed, and two presses cover one before and one
after the event exists. `CanStop` is the operator's Ctrl+C.

**Start state of `server_chat`.** `ChattingInit` is the state after two clients have
connected, logged in and gone quiet, with the bound `work` set back to 0. The program
reaches it, but the steps there would use up the state space. The run checks that it
satisfies `IInv` and that `IInv` holds from it on.

**Deadlock** is not checked: the process ends (`dead`), clients are finite in
number, streams end, and users may stop clicking. What must go on is said by the
liveness properties instead.

**Fairness.** In `IOCP_Server`: a thread inside a handler goes on (the scheduler runs
it, or a bad access ends the process), an operation on a closed or left socket
completes, and what is queued in the port is taken eventually; the port is first
in, first out, so a packet is not passed over for ever, which with several
consumers is strong fairness of `Dequeue` for each context. Nothing is assumed of
clients, of arriving data or of the accept loop's next client. In `PacketAssembly`
only the loop is fair. In `ChatSystem` the receive thread with the UI thread's
lambdas and the workers are, and the accept thread until its loop ends; users owe nothing,
and no connection has to break. In `Auth` a worker inside a handler goes on, as its calls
return; requests, failures and restarts may or may not come. In `Lifecycle` the main
thread and the console's thread go on where they can, a handler ends (in time or not, or it
hangs in what was released), and a thread
whose handle was closed leaves its loop; no call has to fail, nobody has to press
Ctrl+C and no work has to arrive.

## 4. Proofs

`IOCP_ServerProofs` proves, for every value of the constants that
`ConstantsAssumption` admits (distinct threads, `NONE` no element of the sets, the
packet kinds known, bounds natural), that `Spec` implies

| Theorem | Property |
|---|---|
| `Invariance` | `[]IInv` |
| `TypeCorrect` | `[]TypeOK` |
| `ContextsOwned` | `[]ContextOwnership` |
| `AlwaysHeard` | `[]NeverDeaf` |
| `AlwaysListed` | `[]StaysListed` |
| `OneReceive` | `[]RecvExclusive` |
| `SocketsClosed` | `NoSocketLeak` |

None of the properties is inductive by itself. `NeverDeaf` and `StaysListed` need that a worker
in `CloseSession` holds the address of the session it closes (`Named`), that two
live sessions never share a cell (`CellsOK`), and that a thread is only where its
kind can be (`PcOK`). `RecvExclusive` needs that a completed receive has a
receive's outcome (`RecvOutcome`), that a handle value stands for its own session's socket
until that is closed (`CellsOK`), and that the accept thread arms a session before
anybody else has seen it (`ArmIsFirst`). `NoSocketLeak` needs that a live session's
handle is its own socket or already invalidated after a close (`HandleGone`), and
that a worker about to delete has closed (`ClosedFirst`). `IInv` is the conjunction
of these with the properties. The proof has one lemma per action; each shows the
conjuncts the action can disturb, and the rest follow because it leaves their
variables alone. Properties about a live server are stated with the exception of a
release in progress, and those about exclusive use up to the first use of a deleted
session (`stale`), because the code does use deleted sessions (`server_key`)
and nothing holds of such a process afterwards.

### The other modules

| Module | Theorem | Property |
|---|---|---|
| `ChatSystemProofs` | `ChatPagesLoggedIn` | `[]ChatPageIsLoggedIn` |
| `ChatMessageProofs` | `MessagesInvariance` | `[]MessagesInv` |
| | `NothingIsMissed` | `[]NoChatIsMissed` |
| | `ReadInOrder` | `[]WritersAreReadInOrder` |
| `AuthProofs` | `AuthInvariance` | `[]AuthInv` |
| | `GivenOnce` | `[]ConfirmedOnce` |
| | `StaysGiven` | `[]ConfirmedStays` |
| | `RefinesAccounts` | the safety part of `ImplementsAccounts` |
| `LifecycleProofs` | `LifecycleInvariance` | `[]LifecycleInv` |
| | `UseAfterReleaseIsLate` | `[]OnlyLateHandlersUseReleased` |
| | `AllClosed` | `[]NothingLeftOpen` |
| `WireProofs` | `WireInvariance` | `[]WireInv` |
| | `NoOverrun` | `[]NothingOverruns` |
| | `NeverMisread` | `[]StaysAligned` |
| | `CutTo16Bits` | `[]ShownCutTo16Bits` |
| `SendStreamProofs` | `SendInvariance` | `[]SendInv` |
| | `BytesOnce` | `[]FrameBytesOnce` |
| | `ContextsOutlive` | `[]ContextOutlivesSend` |
| `PacketAssemblyProofs` | `AssemblyInvariance` | `[]AssemblyInv` |
| | `NothingIsLeft` | `[]NothingWaits` |
| | `RefinesStream` | the safety part of `ImplementsStream` |

**Pages and logins** (`LoginInv`). The page a client shows and the login
state the server keeps are at the two ends of a connection, so the invariant
follows the acceptance on its way: whenever a `LoginOk` is in the
connection, or in the hands of the receive thread, or has opened the chat page, it was sent
by a worker that had set the flag before (`AcceptedIsAdmitted`, `ChatPageIsAdmitted`,
`AdmittedIsLoggedIn`); and what a broadcast puts into a connection is a chat and never an
acceptance (`BroadcastsAreChats`).

**No chat is missed** (`Reads`, a part of `MessagesInv`). `NoChatIsMissed` is broken by
one step of the receive thread unless that thread is where the page it will find says
it is (`ReceiverAndPage`): it waits in each handler, so a packet is raised after the
one before it has changed the page. And before the chat page opens, the acceptance that
opens it must still be in flight, ahead of the chats sent behind it
(`AnswerIsComing`); chats that overtook it there are shown by nobody and are not in `due`. The messages shown are a start of those sent (`IsStart`), also once
the connection is lost. `Shown` says by recursion over the packets in flight which of
them will get onto the page; what a packet more or less at either end changes in it is
proved by the least-number principle (below).

**Writers are read in order** (`Writes`, the other part). The property is about what is
shown, the reason is at the other end: messages are numbered on their way up and
nothing follows them (`Uploads`), a broadcast is of the message last taken
(`Broadcasts`), only a listed session is sent anything (`Sends`), and every session
that is open has been sent its writer's messages up to that one, or the one before it
while it is still a target (`UpToDate`). From this `due` is in order, and `Messages` is
a start of `due`.

**Accounts** (`AuthInv`). `ConfirmedOnce` needs that of all workers at most one holds a
success for a name that is not confirmed yet, and that the row there is the one it
inserted (`GrantOK`); this survives a `Crash` because rows do and workers do not.
`StageOK` says what a worker knows at each of its calls. `RefinesAccounts` shows that
`Init` is an initial state of the table of accounts and every action a step of it or a
stutter: hashing and looking up stutter, the insert and the check of the password decide.

**Start and stop** (`LifecycleInv`). What is open at each step of `Initialize`
(`InitializeOK`: the database before `mCS`, `mCS` before the first thread) and of a
release: a running thread finds `mCS` and the database until the pause is over
(`SharedIsThere`), gets no more work once its handle is closed (`NoNewWork`), and after the
pause is only in a handler that outlasted it (`BusyAreLate`). The theorem does not say that
there is none: nothing in the code bounds a handler's time.

**Lengths** (`WireInv`). Every packet on its way is one that its writer or the server
built, at the place in the stream its number gives it, with the answer to the login
anywhere between (`UploadOK`, `DownloadOK`). The lemmas are about bytes: what `htons` and
`htonl` write is what `ntohs` and `ntohl` read, up to 16 bits.

**Sends** (`SendInv`). A context is unsent, posted once, waiting in one completion, or
gone (`Placed`, `PostedOnce`), and the buffer posted for it is exactly what is left of its
packet (`BufferIsRest`); bytes are on the wire in order and none twice (`InOrder`).

**Assembly** (`AssemblyInv`). The buffer holds the bytes moved behind the packets handled,
and they are fewer than the next packet, so the loop's conditions decide as the abstract
stream does. `RefinesStream` follows: an iteration that completes a packet is the
stream's handling of it, one that does not is a stutter.

**Assumptions.** The constants are as general as the code: texts of 1 to `MaxLength`
bytes (an `int` holds that length) and ids that leave room for their zero
(`WireAssumption`); packets of any positive length and both kinds of fault
(`SendAssumption`); a buffer of at least a byte (`AssemblyAssumption`), a header of
at least a byte and natural sizes (`StreamAssumption`); names, passwords, hashes, requests and results
apart from each other and from `NONE` (`AuthAssumption`); a thread is not a handle
(`LifecycleAssumption`). The bounds (`MaxWork`,
`MaxClicks` and the like) are any natural numbers: no theorem depends on how large.

**Recursion.** The library's induction theorems take a predicate as a parameter, which the
provers cannot instantiate. `End` (where packets end) and `Shown` are recursive functions, and what
the proofs need of them is shown from `LeastNumber`: a set of natural numbers that is
not empty has a least element, which follows from the well-foundedness of the strict
subset ordering in the library.

**Model-checked only.** Liveness: `GoneIsClosed`, `StopEnds`, `LoginEnds`,
`EveryChatIsShown`, `CtrlCStops`, `FailureIsReported`, and the fairness in
`ImplementsAccounts` and `ImplementsStream`. The proof system handles neither fairness
nor `ENABLED`.

## 5. Not modelled

- **libsodium and SQLite.** `src/libsodium` and `src/SQLlite` are vendored headers:
  declarations, without code that could be translated, and nine tenths of the lines
  under `src`. What the server uses of them (three calls of libsodium, ten of
  SQLite) is in `Auth` and `Lifecycle` by its outcomes.
- **Views, templates, display text, log output**: presentation without protocol state.
- **Memory exhaustion** outside hashing, and failures of `CreateThread`, `CreateEvent` or
  `CreateIoCompletionPort` for an accepted socket: the code tests none of them.
- `LogoutRequest` takes the path of an unknown command, as in the code.
  `ChattingViewModel.GoToLogin` has no control bound to it.
- `NetworkClient.Send` against `Disconnect` in the other thread: the exception of a
  stream that became null is caught and looks like the test that failed, so sending is
  one step.
- An `id` or password that is not terminated within its field.

## 6. Plan

Written so far: all modules of section 2, and proofs of every safety property the runs
check. To come, in this order:

1. What the modules take from each other, as theorems: that `RecvExclusive` justifies
   serving one packet of a session at a time in `ChatSystem`, and naming a worker by its
   session in `Auth`.
2. Action properties of `ChatSystem` and `IOCP_Server` that are implied by their invariants
   and not stated yet, with a run and a mutant each.
3. Shorter proofs: facts about sequences that several proof modules state for their own
   element sets.

## 7. Running

    tlc -config server_chat.cfg MCServer
    tlc -config assembly.cfg MCAssembly
    tlc -config send.cfg MCSend
    tlc -config chat.cfg ChatSystem
    tlc -config auth.cfg MCAuth
    tlc -config lifecycle.cfg Lifecycle
    tlc -config wire.cfg MCWire
    tlapm IOCP_ServerProofs.tla       (about 6 minutes)
    tlapm ChatMessageProofs.tla       (3 minutes)
    tlapm PacketAssemblyProofs.tla    (1 minute)
    tlapm SendStreamProofs.tla        (1 minute)
    tlapm ChatSystemProofs.tla
    tlapm AuthProofs.tla
    tlapm WireProofs.tla
    tlapm LifecycleProofs.tla
