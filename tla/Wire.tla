-------------------------------- MODULE Wire --------------------------------
(***************************************************************************)
(* The lengths on the wire, at their widths: from the chat a client sends  *)
(* (Protocol.BuildPacket), over SendMessageAll and SendAuthResponse, to    *)
(* what another client reads (NetworkClient.ReceiveLoop) and takes apart.  *)
(* Fields are bytes in network order; an id or a text is its length.       *)
(*                                                                         *)
(* Reads are whole, as ReadExact makes them; which page handles a packet   *)
(* is in ChatSystem.                                                       *)
(***************************************************************************)
EXTENDS Naturals, Sequences

CONSTANTS
  TextLength,   \* bytes of the chats that are written
  IdLength,     \* bytes of the writer's id
  MaxChats      \* bound: chats written

HeaderSize == 8
ExtHeaderSize == 4
IdField == 256
BufferSize == 8192
MaxPayload == 10 * 1024 * 1024
MaxLength == 2147483647   \* byte[].Length is an int

ASSUME WireAssumption ==
  TextLength \subseteq 1..MaxLength /\ IdLength \subseteq 1..(IdField - 1) /\ MaxChats \in Nat

VARIABLES
  idLength,    \* bytes of userID, which came in a field of 256 with its zero
  written,     \* history: the chats the writer's stream took
  toServer,    \* packets on their way to the server
  server,      \* "up", or "down" after ErrorHandler
  accepted,    \* the writer's session is open
  answered,    \* the reader's login was answered
  toReader,    \* packets on their way to the reader
  receiving,   \* the reader's loop runs; FALSE once a handler threw
  misread,     \* the loop took something else for a header
  shown        \* lengths of sender and text of the chats read, or the answer

vars == <<idLength, written, toServer, server, accepted, answered, toReader,
          receiving, misread, shown>>

U16(n) == n % 65536                                \* static_cast<uint16_t>
\* htons and WriteUInt16BigEndian, and the same for 32 bits.
Bytes2(n) == << n \div 256, n % 256 >>
Bytes4(n) == Bytes2(n \div 65536) \o Bytes2(U16(n))
\* ntohs and ReadUInt16BigEndian, and the same for 32 bits.
Value2(b, i) == 256 * b[i] + b[i + 1]
Value4(b, i) == 65536 * Value2(b, i) + Value2(b, i + 2)

ChatMessage == 1
LoginResponse == 201

\* header, ext: their bytes; body: the number of bytes behind.
Packet(cmd, extSize, payloadSize, ext, body) ==
  [header |-> Bytes2(cmd) \o Bytes2(extSize) \o Bytes4(payloadSize), ext |-> ext, body |-> body]

Init ==
  /\ idLength \in IdLength
  /\ written = <<>> /\ toServer = <<>> /\ server = "up" /\ accepted = TRUE
  /\ answered = FALSE /\ toReader = <<>>
  /\ receiving = TRUE /\ misread = FALSE /\ shown = <<>>

\* ChattingViewModel.Send and BuildPacket; no chat is empty.
Send ==
  /\ accepted /\ Len(written) < MaxChats
  /\ \E n \in TextLength :
       /\ written' = Append(written, n)
       /\ toServer' = Append(toServer, Packet(ChatMessage, 0, n, <<>>, n))
  /\ UNCHANGED <<idLength, server, accepted, answered, toReader, receiving, misread, shown>>

\* What follows the header of a chat of n bytes: the text is cut to 16 bits
\* before anything is checked.
Copied(n) == idLength + U16(n)

\* Mutant: the size check forgets the extension header.
FitsShort(n) == HeaderSize + Copied(n) <= BufferSize

Fits(n) == HeaderSize + ExtHeaderSize + Copied(n) <= BufferSize

\* Mutant: the header announces the text's length before it is cut.
ChatPacketUncut(n) ==
  Packet(ChatMessage, ExtHeaderSize, idLength + n, Bytes2(idLength) \o Bytes2(U16(n)), Copied(n))

\* Mutant: messageLen is not brought into network order.
ChatPacketHostOrder(n) ==
  Packet(ChatMessage, ExtHeaderSize, Copied(n),
         Bytes2(idLength) \o << U16(n) % 256, U16(n) \div 256 >>, Copied(n))

ChatPacket(n) ==
  Packet(ChatMessage, ExtHeaderSize, Copied(n), Bytes2(idLength) \o Bytes2(U16(n)), Copied(n))

\* A text too long for a context takes the server down.
SendMessageAll(n) ==
  IF Fits(n) THEN toReader' = Append(toReader, ChatPacket(n)) /\ UNCHANGED server
  ELSE server' = "down" /\ UNCHANGED toReader

\* OnRecvCompleted takes the writer's next packet.
OnRecvCompleted ==
  /\ server = "up" /\ accepted /\ toServer # <<>>
  /\ LET payloadSize == Value4(Head(toServer).header, 5) IN
     IF payloadSize > MaxPayload
     THEN accepted' = FALSE /\ UNCHANGED <<server, toReader>>
     ELSE SendMessageAll(payloadSize) /\ UNCHANGED accepted
  /\ toServer' = Tail(toServer)
  /\ UNCHANGED <<idLength, written, answered, receiving, misread, shown>>

\* The reader's login: the result is two bytes behind the header.
SendAuthResponse ==
  /\ server = "up" /\ ~answered /\ answered' = TRUE
  /\ toReader' = Append(toReader, Packet(LoginResponse, 0, 2, <<>>, 2))
  /\ UNCHANGED <<idLength, written, toServer, server, accepted, receiving, misread, shown>>

\* Whether the two sizes a header announces end where the packet does.
Announced(p, extSize, payloadSize) == extSize + payloadSize = Len(p.ext) + p.body

\* ReceiveLoop takes a packet and hands it on.  A chat without payload is
\* skipped with its extension header unread.
Receive ==
  /\ receiving /\ ~misread /\ toReader # <<>>
  /\ LET p == Head(toReader)
         cmd == Value2(p.header, 1)
         extSize == Value2(p.header, 3)
         payloadSize == Value4(p.header, 5) IN
     /\ misread' = (IF payloadSize = 0 THEN Len(p.ext) + p.body > 0
                    ELSE ~Announced(p, extSize, payloadSize))
     /\ IF payloadSize = 0 \/ misread' \/ cmd # ChatMessage
        THEN UNCHANGED <<receiving, shown>>
        ELSE LET senderIdLen == Value2(p.ext, 1)  messageLen == Value2(p.ext, 3) IN
             \* Slice throws when it reaches beyond the payload.
             IF senderIdLen + messageLen > payloadSize
             THEN receiving' = FALSE /\ UNCHANGED shown
             ELSE shown' = Append(shown, <<senderIdLen, messageLen>>) /\ UNCHANGED receiving
  /\ toReader' = Tail(toReader)
  /\ UNCHANGED <<idLength, written, toServer, server, accepted, answered>>

Next == Send \/ OnRecvCompleted \/ SendAuthResponse \/ Receive

Spec == Init /\ [][Next]_vars

-----------------------------------------------------------------------------
(* Properties.                                                             *)

\* What the server copies into a context fits its buffer, although the length
\* it checks is not the length the client sent.
NothingOverruns ==
  \A i \in DOMAIN toReader :
    Len(toReader[i].header) + Len(toReader[i].ext) + toReader[i].body <= BufferSize

\* Whatever was written, the reader finds every header where it looks for it,
\* and no handler throws on a chat.
StaysAligned == receiving /\ ~misread

\* The i-th chat shown has the lengths of the i-th chat written modulo 65536:
\* its writer's id is whole, and its text if it has fewer bytes than that.  A
\* longer text can pass the check of line 223, which is of the length after
\* the cut, and is then shown cut without a word.
ShownCutTo16Bits ==
  \A i \in DOMAIN shown : shown[i] = <<idLength, U16(written[i])>>
=============================================================================
