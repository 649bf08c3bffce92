-------------------------- MODULE ChatSystemProofs --------------------------
(***************************************************************************)
(* Proof that a client on the chat page is logged in at the server, for    *)
(* any number of clients, requests and messages.  The invariant follows    *)
(* the accepted login from the worker that answers it, through the         *)
(* connection and the receive thread, to the page it opens.                *)
(***************************************************************************)
EXTENDS ChatSystem, TLAPS

PacketKinds == {"LoginRequest", "RegisterRequest", "ChatMessage",
                "LoginOk", "LoginRefused", "RegisterResponse"}
Packets == [kind : PacketKinds, from : Client \cup {NONE}, n : Nat]

\* The variables the argument is about keep their types.
Types ==
  /\ page \in [Client -> {"login", "chat"}]
  /\ sent \in [Client -> Nat]
  /\ rx \in [Client -> {"read", "login", "parse", "show", "failing", "ended"}]
  /\ rxPacket \in [Client -> Packets \cup {NONE}]
  /\ toServer \in [Client -> Seq(Packets)]
  /\ toClient \in [Client -> Seq(Packets)]
  /\ isLoggedIn \in [Client -> BOOLEAN]
  /\ answering \subseteq Client /\ admitted \subseteq Client
  /\ mSessions \subseteq Client
  /\ accepting \in Client \cup {NONE}
  /\ broadcast \in [Client -> [packet : Packets \cup {NONE}, targets : SUBSET Client]]

\* What SendMessageAll sends is a chat.
BroadcastsAreChats ==
  \A c \in Client : broadcast[c].targets # {} =>
    broadcast[c].packet \in Packets /\ IsChat(broadcast[c].packet)

\* An accepted login that is on its way to c or being handled by it.
Accepted(c) ==
  \/ \E i \in DOMAIN toClient[c] : toClient[c][i].kind = "LoginOk"
  \/ rx[c] = "login" /\ rxPacket[c].kind = "LoginOk"

\* Nobody is told of a login that was not accepted, and the chat page opens for
\* nobody else.
AcceptedIsAdmitted == \A c \in Client : Accepted(c) => c \in admitted
ChatPageIsAdmitted == \A c \in Client : page[c] = "chat" => c \in admitted

\* A login is accepted, and logged in for good, before it is answered.
AdmittedIsLoggedIn == \A c \in answering \cup admitted : isLoggedIn[c]

LoginInv ==
  Types /\ BroadcastsAreChats /\ AcceptedIsAdmitted /\ ChatPageIsAdmitted /\ AdmittedIsLoggedIn

-----------------------------------------------------------------------------

\* An answer is a packet.
LEMMA PacketType == \A k \in PacketKinds : Packet(k) \in Packets /\ Packet(k).kind = k
  BY DEF Packet, Packets, PacketKinds

\* So is a chat.
LEMMA ChatType ==
  \A c \in Client, n \in Nat : Chat(c, n) \in Packets /\ IsChat(Chat(c, n))
  BY DEF Chat, IsChat, Packets, PacketKinds

\* What Append leaves in a sequence of packets.
LEMMA AppendFacts ==
  ASSUME NEW q \in Seq(Packets), NEW p \in Packets
  PROVE  /\ Append(q, p) \in Seq(Packets)
         /\ \A i \in DOMAIN Append(q, p) :
              Append(q, p)[i] = p \/ (i \in DOMAIN q /\ Append(q, p)[i] = q[i])
  OBVIOUS

\* What Head and Tail take from one.
LEMMA TailFacts ==
  ASSUME NEW q \in Seq(Packets), q # <<>>
  PROVE  /\ Head(q) \in Packets
         /\ Head(q) = q[1] /\ 1 \in DOMAIN q
         /\ Tail(q) \in Seq(Packets)
         /\ \A i \in DOMAIN Tail(q) : i + 1 \in DOMAIN q /\ Tail(q)[i] = q[i + 1]
  OBVIOUS

\* What the invariant says of the chat page.
LEMMA LoginMeans == LoginInv => ChatPageIsLoggedIn
  BY DEF LoginInv, ChatPageIsAdmitted, AdmittedIsLoggedIn, ChatPageIsLoggedIn

\* Nobody is logged in at the start.
LEMMA LoginInit == Init => LoginInv
<1> SUFFICES ASSUME Init PROVE LoginInv
  OBVIOUS
<1>1. rx \in [Client -> {"read", "ended"}]
  <2>1. PICK refused \in SUBSET Client : Connect(refused)
    BY DEF Init
  <2> QED  BY <2>1 DEF Connect
<1>2. Types
  BY <1>1 DEF Init, Types, Idle, Packets
<1>3. BroadcastsAreChats /\ ChatPageIsAdmitted /\ AdmittedIsLoggedIn
  BY DEF Init, BroadcastsAreChats, ChatPageIsAdmitted, AdmittedIsLoggedIn, Idle
<1>4. AcceptedIsAdmitted
  BY <1>1 DEF Init, AcceptedIsAdmitted, Accepted
<1> QED  BY <1>2, <1>3, <1>4 DEF LoginInv

-----------------------------------------------------------------------------
(* Every action keeps the invariant: first the client's, then the server's. *)

\* A login request is on its way.
LEMMA ClickLoginKeeps ==
  ASSUME LoginInv, NEW c \in Client, ClickLogin(c)
  PROVE  LoginInv'
  BY PacketType, AppendFacts DEF LoginInv, Types, BroadcastsAreChats,
     AcceptedIsAdmitted, Accepted, ChatPageIsAdmitted, AdmittedIsLoggedIn, PacketKinds, ClickLogin,
     Send, server, answers, accept, receiver

\* A registration request is on its way.
LEMMA ClickRegisterKeeps ==
  ASSUME LoginInv, NEW c \in Client, ClickRegister(c)
  PROVE  LoginInv'
  BY PacketType, AppendFacts DEF LoginInv, Types, BroadcastsAreChats,
     AcceptedIsAdmitted, Accepted, ChatPageIsAdmitted, AdmittedIsLoggedIn, PacketKinds,
     ClickRegister, Send, server, answers, accept, receiver

\* A chat is on its way; the page and the answers are as before.
LEMMA SendChatKeeps ==
  ASSUME LoginInv, NEW c \in Client, SendChat(c)
  PROVE  LoginInv'
<1>1. sent' \in [Client -> Nat] /\ sent[c] + 1 \in Nat
  BY DEF LoginInv, Types, SendChat
<1>2. Chat(c, sent[c] + 1) \in Packets
  BY <1>1, ChatType
<1>3. toServer' \in [Client -> Seq(Packets)]
  BY <1>2, AppendFacts DEF LoginInv, Types, SendChat, Send
<1>4. UNCHANGED <<page, rx, rxPacket, toClient, isLoggedIn, answers, mSessions, accepting,
                  broadcast>>
  BY DEF SendChat, server, accept, receiver
<1>5. QED
  BY <1>1, <1>3, <1>4 DEF LoginInv, Types, BroadcastsAreChats, AcceptedIsAdmitted,
     Accepted, ChatPageIsAdmitted, AdmittedIsLoggedIn, answers

\* A chat is shown.
LEMMA ChatPageShowsKeeps ==
  ASSUME LoginInv, NEW c \in Client, ChatPageShows(c)
  PROVE  LoginInv'
  BY DEF LoginInv, Types, BroadcastsAreChats, AcceptedIsAdmitted, Accepted,
     ChatPageIsAdmitted, AdmittedIsLoggedIn, ChatPageShows, server, answers, accept

\* The client ends.
LEMMA CloseWindowKeeps ==
  ASSUME LoginInv, NEW c \in Client, CloseWindow(c)
  PROVE  LoginInv'
  BY DEF LoginInv, Types, BroadcastsAreChats, AcceptedIsAdmitted, Accepted,
     ChatPageIsAdmitted, AdmittedIsLoggedIn, CloseWindow, ui, server, answers, accept

\* The chat page reads a packet.
LEMMA ChatPageParsesKeeps ==
  ASSUME LoginInv, NEW c \in Client, ChatPageParses(c)
  PROVE  LoginInv'
  BY DEF LoginInv, Types, BroadcastsAreChats, AcceptedIsAdmitted, Accepted,
     ChatPageIsAdmitted, AdmittedIsLoggedIn, ChatPageParses, ui, server, answers, accept

\* The connection is found broken.
LEMMA EndOfStreamKeeps ==
  ASSUME LoginInv, NEW c \in Client, EndOfStream(c)
  PROVE  LoginInv'
  BY DEF LoginInv, Types, BroadcastsAreChats, AcceptedIsAdmitted, Accepted,
     ChatPageIsAdmitted, AdmittedIsLoggedIn, EndOfStream, ui, server, answers, accept

\* The receive thread ends.
LEMMA ReceiveEndsKeeps ==
  ASSUME LoginInv, NEW c \in Client, ReceiveEnds(c)
  PROVE  LoginInv'
  BY DEF LoginInv, Types, BroadcastsAreChats, AcceptedIsAdmitted, Accepted,
     ChatPageIsAdmitted, AdmittedIsLoggedIn, ReceiveEnds, ui, server, answers, accept

\* The chat page opens on an accepted login, which was logged in.
LEMMA LoginPageHandlesKeeps ==
  ASSUME LoginInv, NEW c \in Client, LoginPageHandles(c)
  PROVE  LoginInv'
  BY DEF LoginInv, Types, BroadcastsAreChats, AcceptedIsAdmitted, Accepted,
     ChatPageIsAdmitted, AdmittedIsLoggedIn, LoginPageHandles, NextHandler, IsChat,
     server, answers, accept

\* An answer moves from the connection to the receive thread.
LEMMA ReceiveKeeps ==
  ASSUME LoginInv, NEW c \in Client, Receive(c)
  PROVE  LoginInv'
  BY TailFacts DEF LoginInv, Types, BroadcastsAreChats, AcceptedIsAdmitted,
     Accepted, ChatPageIsAdmitted, AdmittedIsLoggedIn, Receive, ui, server, answers, accept

\* A session begins.
LEMMA AcceptKeeps ==
  ASSUME LoginInv, NEW c \in Client, Accept(c)
  PROVE  LoginInv'
  BY DEF LoginInv, Types, BroadcastsAreChats, AcceptedIsAdmitted, Accepted,
     ChatPageIsAdmitted, AdmittedIsLoggedIn, Accept, client, answers

\* A connection breaks before its session begins.
LEMMA BacklogBreaksKeeps ==
  ASSUME LoginInv, NEW c \in Client, BacklogBreaks(c)
  PROVE  LoginInv'
  BY DEF LoginInv, Types, BroadcastsAreChats, AcceptedIsAdmitted, Accepted,
     ChatPageIsAdmitted, AdmittedIsLoggedIn, BacklogBreaks, client, answers

\* A session is listed.
LEMMA PublishKeeps ==
  ASSUME LoginInv, Publish
  PROVE  LoginInv'
  BY DEF LoginInv, Types, BroadcastsAreChats, AcceptedIsAdmitted, Accepted,
     ChatPageIsAdmitted, AdmittedIsLoggedIn, Publish, client, answers

\* An accepted login is logged in before it is answered, a refused one answered.
LEMMA HandleLoginRequestKeeps ==
  ASSUME LoginInv, NEW c \in Client, HandleLoginRequest(c)
  PROVE  LoginInv'
<1>1. CASE /\ isLoggedIn' = [isLoggedIn EXCEPT ![c] = TRUE]
           /\ answering' = answering \cup {c} /\ UNCHANGED toClient
  <2>1. /\ toServer' \in [Client -> Seq(Packets)]
        /\ UNCHANGED <<page, sent, rx, rxPacket, mSessions, accepting, broadcast, admitted>>
    BY TailFacts DEF LoginInv, Types, HandleLoginRequest, Serves, client, accept
  <2>2. /\ isLoggedIn' \in [Client -> BOOLEAN] /\ answering' \subseteq Client
        /\ \A d \in Client : isLoggedIn'[d] <=> d = c \/ isLoggedIn[d]
    BY <1>1 DEF LoginInv, Types
  <2>3. AdmittedIsLoggedIn'
    BY <1>1, <2>1, <2>2 DEF LoginInv, Types, AdmittedIsLoggedIn
  <2>4. QED
    BY <1>1, <2>1, <2>2, <2>3 DEF LoginInv, Types, BroadcastsAreChats, AcceptedIsAdmitted,
       Accepted, ChatPageIsAdmitted
<1>2. CASE Answer(c, "LoginRefused") /\ UNCHANGED <<isLoggedIn, answering>>
  BY <1>2, PacketType, AppendFacts, TailFacts DEF LoginInv, Types, BroadcastsAreChats,
     AcceptedIsAdmitted, Accepted, ChatPageIsAdmitted, AdmittedIsLoggedIn, PacketKinds,
     HandleLoginRequest, Serves, Answer, client, accept
<1>3. QED
  BY <1>1, <1>2 DEF HandleLoginRequest

\* The answer admits a session that is logged in.
LEMMA SendAuthResponseKeeps ==
  ASSUME LoginInv, NEW c \in Client, SendAuthResponse(c)
  PROVE  LoginInv'
<1>1. toClient' \in [Client -> Seq(Packets)]
  BY PacketType, AppendFacts DEF LoginInv, Types, SendAuthResponse, Answer, PacketKinds
<1>2. \A d \in Client : toClient'[d] = toClient[d] \/ d \in admitted'
  BY DEF LoginInv, Types, SendAuthResponse, Answer
<1>3. QED
  BY <1>1, <1>2 DEF LoginInv, Types, BroadcastsAreChats, AcceptedIsAdmitted, Accepted,
     ChatPageIsAdmitted, AdmittedIsLoggedIn, SendAuthResponse, client, accept

\* A registration's answer accepts no login.
LEMMA HandleRegistRequestKeeps ==
  ASSUME LoginInv, NEW c \in Client, HandleRegistRequest(c)
  PROVE  LoginInv'
  BY PacketType, AppendFacts, TailFacts DEF LoginInv, Types, BroadcastsAreChats,
     AcceptedIsAdmitted, Accepted, ChatPageIsAdmitted, AdmittedIsLoggedIn, PacketKinds,
     HandleRegistRequest, Serves, Answer, client, answers, accept

\* What is broadcast is a chat.
LEMMA HandleChatKeeps ==
  ASSUME LoginInv, NEW c \in Client, HandleChat(c)
  PROVE  LoginInv'
<1>1. /\ toServer' \in [Client -> Seq(Packets)]
      /\ Head(toServer[c]) \in Packets /\ IsChat(Head(toServer[c]))
  BY TailFacts DEF LoginInv, Types, HandleChat, Serves, IsChat
<1>2. UNCHANGED <<page, sent, rx, rxPacket, toClient, isLoggedIn, answers, accepting>>
  BY DEF HandleChat, client, accept
<1>3. mSessions' \subseteq Client
  BY DEF LoginInv, Types, HandleChat
<1>4. \/ UNCHANGED broadcast
      \/ broadcast' = [broadcast EXCEPT ![c] = Idle]
      \/ broadcast' = [broadcast EXCEPT ![c] =
           [packet |-> Head(toServer[c]), targets |-> mSessions \ {c}]]
  BY DEF HandleChat
<1>5. PICK b \in [packet : Packets \cup {NONE}, targets : SUBSET Client] :
        /\ broadcast' = [broadcast EXCEPT ![c] = b]
        /\ b.targets # {} => b.packet \in Packets /\ IsChat(b.packet)
  <2>1. CASE UNCHANGED broadcast
    <3>1. broadcast' = [broadcast EXCEPT ![c] = broadcast[c]]
      BY <2>1 DEF LoginInv, Types
    <3>2. QED
      BY <3>1 DEF LoginInv, Types, BroadcastsAreChats
  <2>2. CASE broadcast' = [broadcast EXCEPT ![c] = Idle]
    <3>1. /\ Idle \in [packet : Packets \cup {NONE}, targets : SUBSET Client]
          /\ Idle.targets = {}
      BY DEF Idle
    <3>2. QED
      BY <2>2, <3>1
  <2>3. CASE broadcast' = [broadcast EXCEPT ![c] =
               [packet |-> Head(toServer[c]), targets |-> mSessions \ {c}]]
    <3> DEFINE b == [packet |-> Head(toServer[c]), targets |-> mSessions \ {c}]
    <3>1. b \in [packet : Packets \cup {NONE}, targets : SUBSET Client]
      BY <1>1 DEF LoginInv, Types
    <3>2. b.packet \in Packets /\ IsChat(b.packet)
      BY <1>1
    <3> HIDE DEF b
    <3>3. broadcast' = [broadcast EXCEPT ![c] = b]
      BY <2>3 DEF b
    <3>4. QED
      BY <3>1, <3>2, <3>3
  <2>4. QED
    BY <1>4, <2>1, <2>2, <2>3
<1>6. /\ broadcast' \in [Client -> [packet : Packets \cup {NONE}, targets : SUBSET Client]]
      /\ BroadcastsAreChats'
  BY <1>5 DEF LoginInv, Types, BroadcastsAreChats
<1>7. QED
  BY <1>1, <1>2, <1>3, <1>6 DEF LoginInv, Types, AcceptedIsAdmitted, Accepted,
     ChatPageIsAdmitted, AdmittedIsLoggedIn, answers

\* A chat is sent, which accepts no login.
LEMMA BroadcastOneKeeps ==
  ASSUME LoginInv, NEW c \in Client, BroadcastOne(c)
  PROVE  LoginInv'
<1> DEFINE packet == broadcast[c].packet
<1>1. PICK s \in broadcast[c].targets :
        /\ broadcast' = [broadcast EXCEPT ![c] =
             IF broadcast[c].targets \ {s} = {} THEN Idle
             ELSE [packet |-> packet, targets |-> broadcast[c].targets \ {s}]]
        /\ toClient' = IF hSocket[s] = "open"
                       THEN [toClient EXCEPT ![s] = Append(@, packet)] ELSE toClient
  BY DEF BroadcastOne
<1>2. s \in Client /\ packet \in Packets /\ packet.kind = "ChatMessage"
  BY <1>1 DEF LoginInv, Types, BroadcastsAreChats, IsChat
<1>3. UNCHANGED <<page, sent, rx, rxPacket, toServer, isLoggedIn, answers, mSessions, accepting>>
  BY DEF BroadcastOne, client, accept
<1>4. toClient' \in [Client -> Seq(Packets)]
  BY <1>1, <1>2, AppendFacts DEF LoginInv, Types
<1>5. /\ broadcast' \in [Client -> [packet : Packets \cup {NONE}, targets : SUBSET Client]]
      /\ BroadcastsAreChats'
  BY <1>1, <1>2 DEF LoginInv, Types, BroadcastsAreChats, IsChat, Idle
<1>6. ASSUME NEW d \in Client, Accepted(d)'
      PROVE  Accepted(d)
  <2>1. CASE toClient'[d] = toClient[d]
    BY <1>3, <1>6, <2>1 DEF Accepted
  <2>2. CASE toClient'[d] = Append(toClient[d], packet)
    BY <1>2, <1>3, <1>6, <2>2, AppendFacts DEF Accepted, LoginInv, Types
  <2>3. QED
    BY <1>1, <1>2, <2>1, <2>2 DEF LoginInv, Types
<1>7. QED
  BY <1>3, <1>4, <1>5, <1>6 DEF LoginInv, Types, AcceptedIsAdmitted,
     ChatPageIsAdmitted, AdmittedIsLoggedIn, answers

\* A session ends; the answers on their way are as before.
LEMMA CloseSessionKeeps ==
  ASSUME LoginInv, NEW c \in Client, CloseSession(c)
  PROVE  LoginInv'
  BY DEF LoginInv, Types, BroadcastsAreChats, AcceptedIsAdmitted, Accepted,
     ChatPageIsAdmitted, AdmittedIsLoggedIn, CloseSession, client, answers, accept

\* No step breaks the invariant.
LEMMA LoginStep == LoginInv /\ [Next]_vars => LoginInv'
<1> SUFFICES ASSUME LoginInv, [Next]_vars PROVE LoginInv'
  OBVIOUS
<1>1. CASE \E c \in Client : UserStep(c)
  BY <1>1, ClickLoginKeeps, ClickRegisterKeeps, SendChatKeeps, CloseWindowKeeps DEF
     UserStep
<1>2. CASE \E c \in Client : ReceiveStep(c)
  BY <1>2, ReceiveKeeps, ChatPageParsesKeeps, EndOfStreamKeeps, ReceiveEndsKeeps,
     LoginPageHandlesKeeps, ChatPageShowsKeeps DEF ReceiveStep
<1>3. CASE \E c \in Client : WorkerStep(c)
  BY <1>3, HandleLoginRequestKeeps, SendAuthResponseKeeps, HandleRegistRequestKeeps,
     HandleChatKeeps, BroadcastOneKeeps DEF WorkerStep
<1>4. CASE AcceptStep \/ \E c \in Client : CloseSession(c) \/ BacklogBreaks(c)
  BY <1>4, AcceptKeeps, PublishKeeps, CloseSessionKeeps, BacklogBreaksKeeps DEF AcceptStep
<1>5. CASE UNCHANGED vars
  BY <1>5 DEF vars, LoginInv, Types, BroadcastsAreChats, AcceptedIsAdmitted, Accepted,
     ChatPageIsAdmitted, AdmittedIsLoggedIn
<1>6. QED
  BY <1>1, <1>2, <1>3, <1>4, <1>5 DEF Next

\* A client shows the chat page only when the server has accepted its login,
\* so the server never closes the connection of a user for chatting too early.
THEOREM ChatPagesLoggedIn == Spec => []ChatPageIsLoggedIn
<1>1. LoginInv => ChatPageIsLoggedIn
  BY LoginMeans
<1>2. QED
  BY LoginInit, LoginStep, <1>1, PTL DEF Spec
=============================================================================
