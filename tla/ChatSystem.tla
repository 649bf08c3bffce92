----------------------------- MODULE ChatSystem -----------------------------
(***************************************************************************)
(* The whole system: the WPF clients, the TCP connections and the server,  *)
(* as the path of each packet from a click to the message list of another  *)
(* client (ChatClient/ViewModel, ChatClient/Service/NetworkClient.cs,      *)
(* ChatServer/IOCP_Server.cpp).                                            *)
(*                                                                         *)
(* A client is two threads.  The UI thread runs the commands and the       *)
(* lambdas of Dispatcher.Invoke; the receive thread reads a packet, calls  *)
(* the handlers the event had when it was raised, one after the other, and *)
(* waits in each for the UI thread.                                        *)
(*                                                                         *)
(* The server handles the packets of one session one after the other and   *)
(* those of different sessions at once (IOCP_Server shows why), and is up  *)
(* here.  The stream is cut into packets (PacketAssembly) and sends are    *)
(* whole (SendStream has the partial ones).                                *)
(***************************************************************************)
EXTENDS Naturals, Sequences, SequencesExt

CONSTANTS
  Client,      \* the running client programs, one connection each
  MaxClicks,   \* bound: login and register requests of all clients
  MaxChats,    \* bound: chat messages of all clients
  NONE         \* no packet, no client

ASSUME SystemAssumption ==
  /\ NONE \notin Client
  /\ MaxClicks \in Nat /\ MaxChats \in Nat

VARIABLES
  page,         \* [Client -> the page CurrentViewModel shows]
  isLoggingIn,  \* [Client -> LoginViewModel.IsLoggingIn]
  clicks,       \* login and register requests sent
  sent,         \* [Client -> chat messages sent]
  stream,       \* [Client -> _stream is not null]
  rx,           \* [Client -> where the receive thread is]
  rxPacket,     \* [Client -> the packet PacketReceived was raised with]
  rxChat,       \* [Client -> ChattingViewModel is among its handlers]
  Messages,     \* [Client -> the messages of others on the chat page]
  toServer,     \* [Client -> packets on their way to the server]
  toClient,     \* [Client -> packets on their way to the client]
  hSocket,      \* [Client -> the server's socket for it]
  isLoggedIn,   \* [Client -> ClientSession::isLoggedIn]
  answering,    \* the clients whose login is accepted and not answered yet
  mSessions,    \* the clients whose session is listed
  accepting,    \* the client the accept thread has not listed yet
  listening,    \* the accept thread is in its loop
  broadcast,    \* [Client -> the message and targets of SendMessageAll]
  admitted,     \* history: the clients an acceptance was sent to
  due           \* [Client -> history: chats sent to it behind an acceptance]

ui == <<page, isLoggingIn, clicks, sent, Messages>>
receiver == <<rx, rxPacket, rxChat>>
accept == <<accepting, listening>>
answers == <<answering, admitted>>
server == <<hSocket, isLoggedIn, answers, mSessions, accept, broadcast, due>>
vars == <<page, isLoggingIn, clicks, sent, Messages, stream, rx, rxPacket, rxChat,
          toServer, toClient, hSocket, isLoggedIn, answering, admitted, mSessions,
          accepting, listening, broadcast, due>>

Packet(kind) == [kind |-> kind, from |-> NONE, n |-> 0]
Chat(c, n) == [kind |-> "ChatMessage", from |-> c, n |-> n]
IsChat(p) == p.kind = "ChatMessage"

Idle == [packet |-> NONE, targets |-> {}]

\* A client started: MainViewModel connects, or fails to and says so, and shows
\* the login page.
Connect(refused) ==
  /\ stream = [c \in Client |-> c \notin refused]
  /\ rx = [c \in Client |-> IF c \in refused THEN "ended" ELSE "read"]
  /\ hSocket = [c \in Client |-> IF c \in refused THEN "closed" ELSE "backlog"]

Init ==
  /\ \E refused \in SUBSET Client : Connect(refused)
  /\ page = [c \in Client |-> "login"]
  /\ isLoggingIn = [c \in Client |-> FALSE]
  /\ clicks = 0 /\ sent = [c \in Client |-> 0]
  /\ rxPacket = [c \in Client |-> NONE]
  /\ rxChat = [c \in Client |-> FALSE]
  /\ Messages = [c \in Client |-> <<>>]
  /\ toServer = [c \in Client |-> <<>>] /\ toClient = [c \in Client |-> <<>>]
  /\ isLoggedIn = [c \in Client |-> FALSE]
  /\ answering = {} /\ admitted = {}
  /\ mSessions = {} /\ accepting = NONE /\ listening = TRUE
  /\ broadcast = [c \in Client |-> Idle]
  /\ due = [c \in Client |-> <<>>]

-----------------------------------------------------------------------------
(* The UI thread.                                                          *)

Send(c, p) ==
  /\ stream[c]
  /\ toServer' = [toServer EXCEPT ![c] = Append(@, p)]

ClickLogin(c) ==
  /\ page[c] = "login" /\ ~isLoggingIn[c]
  /\ clicks < MaxClicks /\ clicks' = clicks + 1
  /\ Send(c, Packet("LoginRequest"))
  /\ isLoggingIn' = [isLoggingIn EXCEPT ![c] = TRUE]
  /\ UNCHANGED <<page, sent, Messages, stream, receiver, toClient, server>>

ClickRegister(c) ==
  /\ page[c] = "login" /\ ~isLoggingIn[c]
  /\ clicks < MaxClicks /\ clicks' = clicks + 1
  /\ Send(c, Packet("RegisterRequest"))
  /\ UNCHANGED <<page, isLoggingIn, sent, Messages, stream, receiver, toClient, server>>

MoreChats == FoldFunction(+, 0, sent) < MaxChats

SendChat(c) ==
  /\ page[c] = "chat"
  /\ MoreChats /\ sent' = [sent EXCEPT ![c] = @ + 1]
  /\ Send(c, Chat(c, sent[c] + 1))
  /\ UNCHANGED <<page, isLoggingIn, clicks, Messages, stream, receiver, toClient, server>>

\* Mutant: the chat page never subscribes.
NextHandlerUnsubscribed(c) == "read"

\* The handler the receive thread runs next: ChattingViewModel's when it was
\* subscribed as the event was raised, else back to ReadExact.
NextHandler(c) == IF rxChat[c] THEN "parse" ELSE "read"

\* Mutant: any answer to a login opens the chat page.
LoginPageHandlesUnchecked(c) ==
  /\ rx[c] = "login"
  /\ IF rxPacket[c].kind \in {"LoginOk", "LoginRefused"}
     THEN page' = [page EXCEPT ![c] = "chat"]
     ELSE UNCHANGED page
  /\ isLoggingIn' = [isLoggingIn EXCEPT ![c] = @ /\ IsChat(rxPacket[c])]
  /\ rx' = [rx EXCEPT ![c] = NextHandler(c)]
  /\ UNCHANGED <<clicks, sent, Messages, stream, rxPacket, rxChat, toServer, toClient, server>>

\* LoginViewModel's lambda; the page is never unsubscribed and runs first.
\* A chat is ignored.  ShowChattingPage makes, shows and subscribes a new chat
\* page, also when there is one already.
LoginPageHandles(c) ==
  /\ rx[c] = "login"
  /\ IF rxPacket[c].kind = "LoginOk"
     THEN /\ page' = [page EXCEPT ![c] = "chat"]
          /\ Messages' = [Messages EXCEPT ![c] = <<>>]
     ELSE UNCHANGED <<page, Messages>>
  /\ isLoggingIn' = [isLoggingIn EXCEPT ![c] = @ /\ IsChat(rxPacket[c])]
  /\ rx' = [rx EXCEPT ![c] = NextHandler(c)]
  /\ UNCHANGED <<clicks, sent, stream, rxPacket, rxChat, toServer, toClient, server>>

\* ChattingViewModel's lambda.
ChatPageShows(c) ==
  /\ rx[c] = "show"
  /\ Messages' = [Messages EXCEPT ![c] = Append(@, rxPacket[c])]
  /\ rx' = [rx EXCEPT ![c] = "read"]
  /\ UNCHANGED <<page, isLoggingIn, clicks, sent, stream, rxPacket, rxChat,
                 toServer, toClient, server>>

\* The window is closed: Dispose, and the process ends with its threads.
CloseWindow(c) ==
  /\ stream[c]
  /\ stream' = [stream EXCEPT ![c] = FALSE]
  /\ rx' = [rx EXCEPT ![c] = "ended"]
  /\ UNCHANGED <<ui, rxPacket, rxChat, toServer, toClient, server>>

-----------------------------------------------------------------------------
(* The receive thread.                                                     *)

\* Mutant: BeginInvoke for Invoke: a chat can be read, and ignored, before the
\* login page has handled the answer that came first.
ReceiveDoesNotWait(c) ==
  /\ stream[c] /\ toClient[c] # <<>>
  /\ toClient' = [toClient EXCEPT ![c] = Tail(@)]
  /\ \/ /\ rx[c] = "read" /\ rx' = [rx EXCEPT ![c] = "login"]
        /\ rxPacket' = [rxPacket EXCEPT ![c] = Head(toClient[c])]
        /\ rxChat' = [rxChat EXCEPT ![c] = page[c] = "chat"]
     \/ rx[c] = "login" /\ page[c] = "login" /\ IsChat(Head(toClient[c])) /\ UNCHANGED receiver
  /\ UNCHANGED <<ui, stream, toServer, server>>

\* ReadExact and the switch on cmd; the event is raised with the handlers it
\* has at that moment.
Receive(c) ==
  /\ rx[c] = "read" /\ stream[c] /\ toClient[c] # <<>>
  /\ rxPacket' = [rxPacket EXCEPT ![c] = Head(toClient[c])]
  /\ rxChat' = [rxChat EXCEPT ![c] = page[c] = "chat"]
  /\ toClient' = [toClient EXCEPT ![c] = Tail(@)]
  /\ rx' = [rx EXCEPT ![c] = "login"]
  /\ UNCHANGED <<ui, stream, toServer, server>>

\* ChattingViewModel.OnPacketReceived reads two lengths from the extension
\* header; without one it throws, and ReceiveLoop catches.
ChatPageParses(c) ==
  /\ rx[c] = "parse"
  /\ rx' = [rx EXCEPT ![c] = IF IsChat(rxPacket[c]) THEN "show" ELSE "failing"]
  /\ UNCHANGED <<ui, stream, rxPacket, rxChat, toServer, toClient, server>>

\* ReadExact throws at the end of the stream, and at once after a reset.
EndOfStream(c) ==
  /\ rx[c] = "read" /\ stream[c] /\ hSocket[c] = "closed"
  /\ rx' = [rx EXCEPT ![c] = "failing"]
  /\ UNCHANGED <<ui, stream, rxPacket, rxChat, toServer, toClient, server>>

\* SystemLog has been shown: Disconnect.  There is no reconnection.
ReceiveEnds(c) ==
  /\ rx[c] = "failing"
  /\ rx' = [rx EXCEPT ![c] = "ended"]
  /\ stream' = [stream EXCEPT ![c] = FALSE]
  /\ UNCHANGED <<ui, rxPacket, rxChat, toServer, toClient, server>>

-----------------------------------------------------------------------------
(* The server.                                                             *)

client == <<page, isLoggingIn, clicks, sent, Messages, stream, rx, rxPacket, rxChat>>

\* accept and the first PostRecv: from here the session is served.
Accept(c) ==
  /\ listening /\ accepting = NONE /\ hSocket[c] = "backlog"
  /\ hSocket' = [hSocket EXCEPT ![c] = "open"]
  /\ accepting' = c
  /\ UNCHANGED <<client, toServer, toClient, isLoggedIn, answers, mSessions, listening,
                 broadcast, due>>

\* A connection breaks in the backlog.  That makes accept fail, and the accept
\* loop ends for good, or nobody notices.
BacklogBreaks(c) ==
  /\ hSocket[c] = "backlog"
  /\ hSocket' = [hSocket EXCEPT ![c] = "closed"]
  /\ \/ accepting = NONE /\ listening' = FALSE
     \/ UNCHANGED listening
  /\ UNCHANGED <<client, toServer, toClient, isLoggedIn, answers, mSessions, accepting,
                 broadcast, due>>

\* mSessions.push_back: from here the session is sent broadcasts.
Publish ==
  /\ accepting # NONE
  /\ mSessions' = mSessions \cup {accepting}
  /\ accepting' = NONE
  /\ UNCHANGED <<client, toServer, toClient, hSocket, isLoggedIn, answers, listening,
                 broadcast, due>>

\* A worker takes the next packet of a session it is the only one to serve.
Serves(c, kind) ==
  /\ hSocket[c] = "open" /\ broadcast[c] = Idle /\ c \notin answering
  /\ toServer[c] # <<>> /\ Head(toServer[c]).kind = kind
  /\ toServer' = [toServer EXCEPT ![c] = Tail(@)]

Answer(c, kind) == toClient' = [toClient EXCEPT ![c] = Append(@, Packet(kind))]

\* Mutant: a refused login is not answered.
HandleLoginRequestSilent(c) ==
  /\ Serves(c, "LoginRequest")
  /\ \/ /\ isLoggedIn' = [isLoggedIn EXCEPT ![c] = TRUE]
        /\ answering' = answering \cup {c}
     \/ UNCHANGED <<isLoggedIn, answering>>
  /\ UNCHANGED <<client, toClient, admitted, hSocket, mSessions, accept, broadcast, due>>

\* The database and the password decide.  An accepted login sets isLoggedIn and
\* is answered after that, without a lock; every other outcome is answered at once.
HandleLoginRequest(c) ==
  /\ Serves(c, "LoginRequest")
  /\ \/ /\ isLoggedIn' = [isLoggedIn EXCEPT ![c] = TRUE]
        /\ answering' = answering \cup {c}
        /\ UNCHANGED toClient
     \/ Answer(c, "LoginRefused") /\ UNCHANGED <<isLoggedIn, answering>>
  /\ UNCHANGED <<client, admitted, hSocket, mSessions, accept, broadcast, due>>

\* SendAuthResponse of an accepted login.  Other workers' broadcasts may have
\* been posted since isLoggedIn was set, and go before it.
SendAuthResponse(c) ==
  /\ c \in answering /\ answering' = answering \ {c}
  /\ Answer(c, "LoginOk") /\ admitted' = admitted \cup {c}
  /\ UNCHANGED <<client, toServer, hSocket, isLoggedIn, mSessions, accept, broadcast, due>>

HandleRegistRequest(c) ==
  /\ Serves(c, "RegisterRequest")
  /\ Answer(c, "RegisterResponse")
  /\ UNCHANGED <<client, hSocket, isLoggedIn, answers, mSessions, accept, broadcast, due>>

\* Mutant: two workers serve one session, and a later chat overtakes.
HandleChatOvertakes(c) ==
  /\ hSocket[c] = "open" /\ broadcast[c] = Idle /\ isLoggedIn[c]
  /\ \E i \in DOMAIN toServer[c] :
       /\ IsChat(toServer[c][i])
       /\ toServer' = [toServer EXCEPT ![c] = RemoveAt(@, i)]
       /\ broadcast' = [broadcast EXCEPT ![c] =
                          [packet |-> toServer[c][i], targets |-> mSessions \ {c}]]
  /\ UNCHANGED <<client, toClient, hSocket, isLoggedIn, answers, mSessions, accept, due>>

\* The snapshot of SendMessageAll; a chat before the login ends the session.
HandleChat(c) ==
  /\ Serves(c, "ChatMessage")
  /\ IF isLoggedIn[c]
     THEN /\ broadcast' = [broadcast EXCEPT ![c] =
                IF mSessions \ {c} = {} THEN Idle
                ELSE [packet |-> Head(toServer[c]), targets |-> mSessions \ {c}]]
          /\ UNCHANGED <<hSocket, mSessions>>
     ELSE /\ hSocket' = [hSocket EXCEPT ![c] = "closed"]
          /\ mSessions' = mSessions \ {c}
          /\ UNCHANGED broadcast
  /\ UNCHANGED <<client, toClient, isLoggedIn, answers, accept, due>>

\* PostSend to one target: logged in or not, and dropped if its socket is closed.
BroadcastOne(c) ==
  \E s \in broadcast[c].targets :
    LET packet == broadcast[c].packet  rest == broadcast[c].targets \ {s} IN
    /\ broadcast' = [broadcast EXCEPT ![c] =
                       IF rest = {} THEN Idle ELSE [packet |-> packet, targets |-> rest]]
    /\ IF hSocket[s] = "open"
       THEN /\ toClient' = [toClient EXCEPT ![s] = Append(@, packet)]
            /\ due' = IF s \in admitted THEN [due EXCEPT ![s] = Append(@, packet)] ELSE due
       ELSE UNCHANGED <<toClient, due>>
    /\ UNCHANGED <<client, toServer, hSocket, isLoggedIn, answers, mSessions, accept>>

\* The receive completes with nothing or an error: the client left or the
\* network broke the connection, maybe before all it sent was read.  (A failed
\* send lets a worker close a session under its handler, too: then the freed
\* memory decides, see IOCP_Server.)
CloseSession(c) ==
  /\ hSocket[c] = "open" /\ broadcast[c] = Idle /\ c \notin answering
  /\ hSocket' = [hSocket EXCEPT ![c] = "closed"]
  /\ mSessions' = mSessions \ {c}
  /\ UNCHANGED <<client, toServer, toClient, isLoggedIn, answers, accept, broadcast, due>>

-----------------------------------------------------------------------------

UserStep(c) == ClickLogin(c) \/ ClickRegister(c) \/ SendChat(c) \/ CloseWindow(c)

ReceiveStep(c) ==
  \/ Receive(c) \/ ChatPageParses(c) \/ EndOfStream(c) \/ ReceiveEnds(c)
  \/ LoginPageHandles(c) \/ ChatPageShows(c)

WorkerStep(c) ==
  \/ HandleLoginRequest(c) \/ SendAuthResponse(c) \/ HandleRegistRequest(c)
  \/ HandleChat(c) \/ BroadcastOne(c)

AcceptStep == Publish \/ \E c \in Client : Accept(c)

Next ==
  \/ \E c \in Client :
       UserStep(c) \/ ReceiveStep(c) \/ WorkerStep(c) \/ CloseSession(c) \/ BacklogBreaks(c)
  \/ AcceptStep

Spec == Init /\ [][Next]_vars

\* Every thread that has something to do does it, the accept thread until its
\* loop ends; users owe nothing, and the network need not break a connection.
FairSpec ==
  /\ Spec
  /\ WF_vars(AcceptStep)
  /\ \A c \in Client : WF_vars(ReceiveStep(c)) /\ WF_vars(WorkerStep(c))

-----------------------------------------------------------------------------
(* Properties.                                                             *)

\* A client on the chat page is logged in at the server: its user never
\* loses the connection because the server took a chat for one before login.
ChatPageIsLoggedIn == \A c \in Client : page[c] = "chat" => isLoggedIn[c]

\* What the receive thread and the connection still hold for the client.
InFlight(c) ==
  (IF rx[c] \in {"login", "parse", "show"} THEN <<rxPacket[c]>> ELSE <<>>) \o toClient[c]

\* The page shows packet i of q: a chat, on the login page one behind the
\* answer to the login.
Shows(q, onChatPage, i) ==
  /\ IsChat(q[i])
  /\ onChatPage \/ \E j \in 1..(i - 1) : q[j].kind = "LoginOk"

\* What it shows of q.
Shown(q, onChatPage) ==
  LET shown[i \in 0..Len(q)] ==
        IF i = 0 THEN <<>>
        ELSE IF Shows(q, onChatPage, i) THEN Append(shown[i - 1], q[i]) ELSE shown[i - 1]
  IN shown[Len(q)]

\* The chats in flight that the client will show.
Coming(c) == Shown(InFlight(c), page[c] = "chat")

\* The receive thread is about to throw, or has thrown or stopped.
Lost(c) == rx[c] \in {"failing", "ended"} \/ (rx[c] = "parse" /\ ~IsChat(rxPacket[c]))

\* Every chat sent to a client behind the acceptance of its login is shown, once
\* and in the order it was sent, although the chat page is only made when the
\* answer is handled: none slips past in between.  (One sent before the answer is
\* not shown, also when isLoggedIn was set: the login page ignores it.)
NoChatIsMissed ==
  \A c \in Client : c \in admitted /\ ~Lost(c) =>
    due[c] = Messages[c] \o Coming(c)

\* In q the messages of w follow one another by number.
InOrder(q, w) ==
  \A i, j \in 1..Len(q) :
    /\ i < j /\ q[i].from = w /\ q[j].from = w
    /\ \A k \in (i + 1)..(j - 1) : q[k].from # w
    => q[j].n = q[i].n + 1

\* A reader sees the messages of each writer in the order they were written,
\* without repetition, and from the first one on without a gap.
WritersAreReadInOrder == \A c, w \in Client : InOrder(Messages[c], w)

\* The login button comes back to life: whatever the answer and the other
\* clients do, a login ends, or the connection does, except for a client that
\* still waits to be accepted when the accept loop ended for another's sake.
LoginEnds ==
  \A c \in Client :
    []<>(~isLoggingIn[c] \/ ~stream[c] \/ (hSocket[c] = "backlog" /\ ~listening))

\* The receive thread catches up: what the server sends to a client behind the
\* answer to its login gets onto its chat page (with NoChatIsMissed, all of it),
\* however busy the others are, unless its connection is lost.
EveryChatIsShown == \A c \in Client : []<>(due[c] = Messages[c] \/ Lost(c))

\* "ushort,ushort" (NetworkClient.cs:18): a packet handed to the chat page
\* has the extension header its handler reads.
ExtHeaderIsTwoLengths == \A c \in Client : rx[c] = "parse" => IsChat(rxPacket[c])

=============================================================================
