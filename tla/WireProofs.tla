----------------------------- MODULE WireProofs -----------------------------
(***************************************************************************)
(* Proofs about Wire: whatever the lengths of chats and names, no context  *)
(* overflows, the reader stays aligned, and what it shows are the chats    *)
(* written, in order, each cut to its length modulo 65536.                 *)
(***************************************************************************)
EXTENDS Wire, SequenceTheorems, TLAPS

Packets == [header : Seq(Nat), ext : Seq(Nat), body : Nat]

Types ==
  /\ idLength \in 1..(IdField - 1)
  /\ written \in Seq(Nat)
  /\ toServer \in Seq(Packets) /\ toReader \in Seq(Packets)
  /\ shown \in Seq(Nat \X Nat)
  /\ answered \in BOOLEAN

LoginAnswer == Packet(LoginResponse, 0, 2, <<>>, 2)

\* Chats the server has taken from the writer.
Taken == Len(written) - Len(toServer)

\* What is on its way to the server are the last chats written, in order.
UploadOK ==
  /\ Taken \in Nat
  /\ \A i \in 1..Len(toServer) :
       toServer[i] = Packet(ChatMessage, 0, written[Taken + i], <<>>, written[Taken + i])

\* The chat at i of toReader, when the login's answer is at j, or at none when j = 0.
Place(i, j) == Len(shown) + (IF j # 0 /\ j <= i THEN i - 1 ELSE i)

\* What is on its way to the reader are the chats after those it has shown, in
\* order, with the login's answer anywhere between.
DownloadOK(j) ==
  /\ j \in 0..Len(toReader)
  /\ j # 0 => answered /\ toReader[j] = LoginAnswer
  /\ Place(Len(toReader), j) <= Taken
  /\ server = "up" /\ accepted => Place(Len(toReader), j) = Taken
  /\ \A i \in 1..Len(toReader) \ {j} :
       Fits(written[Place(i, j)]) /\ toReader[i] = ChatPacket(written[Place(i, j)])

WireInv ==
  /\ Types
  /\ UploadOK
  /\ \E j \in 0..Len(toReader) : DownloadOK(j)
  /\ StaysAligned
  /\ ShownCutTo16Bits

-----------------------------------------------------------------------------
(* Bytes.                                                                  *)

\* What is read from two fields in a row is what each of them holds: two bytes each.
LEMMA ConcatTwo ==
  ASSUME NEW s \in Seq(Nat), NEW t \in Seq(Nat), Len(s) = 2, Len(t) = 2
  PROVE  /\ s \o t \in Seq(Nat) /\ Len(s \o t) = 4
         /\ Value2(s \o t, 1) = Value2(s, 1) /\ Value2(s \o t, 3) = Value2(t, 1)
<1> DEFINE u == s \o t
<1>1. u \in Seq(Nat) /\ Len(u) = Len(s) + Len(t)
  BY ConcatProperties
<1>2. \A i \in 1..(Len(s) + Len(t)) : u[i] = IF i <= Len(s) THEN s[i] ELSE t[i - Len(s)]
  BY ConcatProperties
<1> HIDE DEF u
<1>3. Len(u) = 4 /\ u[1] = s[1] /\ u[2] = s[2] /\ u[3] = t[1] /\ u[4] = t[2]
  BY <1>1, <1>2
<1>4. Value2(u, 1) = 256 * u[1] + u[2] /\ Value2(u, 3) = 256 * u[3] + u[4]
  BY DEF Value2
<1>5. Value2(s, 1) = 256 * s[1] + s[2] /\ Value2(t, 1) = 256 * t[1] + t[2]
  BY DEF Value2
<1>6. Len(u) = 4 /\ Value2(u, 1) = Value2(s, 1) /\ Value2(u, 3) = Value2(t, 1)
  BY <1>3, <1>4, <1>5
<1> QED  BY <1>1, <1>6 DEF u

\* The same with four bytes each.
LEMMA ConcatFour ==
  ASSUME NEW s \in Seq(Nat), NEW t \in Seq(Nat), Len(s) = 4, Len(t) = 4
  PROVE  /\ s \o t \in Seq(Nat) /\ Len(s \o t) = 8
         /\ Value2(s \o t, 1) = Value2(s, 1) /\ Value2(s \o t, 3) = Value2(s, 3)
         /\ Value2(s \o t, 5) = Value2(t, 1) /\ Value2(s \o t, 7) = Value2(t, 3)
<1> DEFINE u == s \o t
<1>1. u \in Seq(Nat) /\ Len(u) = Len(s) + Len(t)
  BY ConcatProperties
<1>2. \A i \in 1..(Len(s) + Len(t)) : u[i] = IF i <= Len(s) THEN s[i] ELSE t[i - Len(s)]
  BY ConcatProperties
<1> HIDE DEF u
<1>3. /\ Len(u) = 8
      /\ u[1] = s[1] /\ u[2] = s[2] /\ u[3] = s[3] /\ u[4] = s[4]
      /\ u[5] = t[1] /\ u[6] = t[2] /\ u[7] = t[3] /\ u[8] = t[4]
  BY <1>1, <1>2
<1>4. /\ Value2(u, 1) = 256 * u[1] + u[2] /\ Value2(u, 3) = 256 * u[3] + u[4]
      /\ Value2(u, 5) = 256 * u[5] + u[6] /\ Value2(u, 7) = 256 * u[7] + u[8]
  BY DEF Value2
<1>5. /\ Value2(s, 1) = 256 * s[1] + s[2] /\ Value2(s, 3) = 256 * s[3] + s[4]
      /\ Value2(t, 1) = 256 * t[1] + t[2] /\ Value2(t, 3) = 256 * t[3] + t[4]
  BY DEF Value2
<1>6. /\ Len(u) = 8 /\ Value2(u, 1) = Value2(s, 1) /\ Value2(u, 3) = Value2(s, 3)
      /\ Value2(u, 5) = Value2(t, 1) /\ Value2(u, 7) = Value2(t, 3)
  BY <1>3, <1>4, <1>5
<1> QED  BY <1>1, <1>6 DEF u

\* Two bytes hold what is read from them.
LEMMA Bytes2Facts ==
  ASSUME NEW n \in Nat
  PROVE  Bytes2(n) \in Seq(Nat) /\ Len(Bytes2(n)) = 2 /\ Value2(Bytes2(n), 1) = n
<1>1. n = 256 * (n \div 256) + (n % 256) /\ n \div 256 \in Nat /\ n % 256 \in Nat
  OBVIOUS
<1>2. Bytes2(n) \in Seq(Nat) /\ Len(Bytes2(n)) = 2
  BY <1>1 DEF Bytes2
<1>3. Bytes2(n)[1] = n \div 256 /\ Bytes2(n)[2] = n % 256
  BY DEF Bytes2
<1> QED  BY <1>1, <1>2, <1>3 DEF Value2

\* Two fields of two bytes.
LEMMA Bytes2Twice ==
  ASSUME NEW m \in Nat, NEW n \in Nat
  PROVE  /\ Bytes2(m) \o Bytes2(n) \in Seq(Nat) /\ Len(Bytes2(m) \o Bytes2(n)) = 4
         /\ Value2(Bytes2(m) \o Bytes2(n), 1) = m /\ Value2(Bytes2(m) \o Bytes2(n), 3) = n
<1> DEFINE s == Bytes2(m)  t == Bytes2(n)
<1>1. s \in Seq(Nat) /\ Len(s) = 2 /\ Value2(s, 1) = m
  BY Bytes2Facts
<1>2. t \in Seq(Nat) /\ Len(t) = 2 /\ Value2(t, 1) = n
  BY Bytes2Facts
<1> HIDE DEF s, t
<1>3. /\ s \o t \in Seq(Nat) /\ Len(s \o t) = 4
      /\ Value2(s \o t, 1) = Value2(s, 1) /\ Value2(s \o t, 3) = Value2(t, 1)
  BY <1>1, <1>2, ConcatTwo, Zenon
<1> QED  BY <1>1, <1>2, <1>3 DEF s, t

\* A header holds what it was made of.
LEMMA HeaderFacts ==
  ASSUME NEW cmd \in Nat, NEW extSize \in Nat, NEW n \in Nat, NEW ext, NEW body,
         NEW h, h = Packet(cmd, extSize, n, ext, body).header
  PROVE  /\ h \in Seq(Nat) /\ Len(h) = HeaderSize
         /\ Value2(h, 1) = cmd /\ Value2(h, 3) = extSize /\ Value4(h, 5) = n
<1> DEFINE s == Bytes2(cmd) \o Bytes2(extSize)
           t == Bytes4(n)
           m == n \div 65536
           k == U16(n)
<1>1. n = 65536 * m + k /\ m \in Nat /\ k \in Nat
  BY DEF U16
<1>2. s \in Seq(Nat) /\ Len(s) = 4 /\ Value2(s, 1) = cmd /\ Value2(s, 3) = extSize
  BY Bytes2Twice
<1>3. t = Bytes2(m) \o Bytes2(k)
  BY DEF Bytes4
<1>4. h = s \o t
  BY DEF Packet
<1> HIDE DEF s, t, m, k
<1>5. t \in Seq(Nat) /\ Len(t) = 4 /\ Value2(t, 1) = m /\ Value2(t, 3) = k
  BY <1>1, <1>3, Bytes2Twice
<1>6. /\ h \in Seq(Nat) /\ Len(h) = 8
      /\ Value2(h, 1) = Value2(s, 1) /\ Value2(h, 3) = Value2(s, 3)
      /\ Value2(h, 5) = Value2(t, 1) /\ Value2(h, 7) = Value2(t, 3)
  BY <1>2, <1>4, <1>5, ConcatFour
<1>7. Value4(h, 5) = 65536 * Value2(h, 5) + Value2(h, 7)
  BY DEF Value4, Value2
<1>8. Value4(h, 5) = n
  BY <1>1, <1>5, <1>6, <1>7
<1> QED  BY <1>2, <1>6, <1>8 DEF HeaderSize
\* A chat to the reader announces what it carries.
LEMMA ChatFacts ==
  ASSUME NEW n \in Nat, idLength \in Nat, NEW p, p = ChatPacket(n)
  PROVE  /\ p \in Packets
         /\ Len(p.header) = HeaderSize /\ Len(p.ext) = ExtHeaderSize /\ p.body = Copied(n)
         /\ Value2(p.header, 1) = ChatMessage /\ Value2(p.header, 3) = ExtHeaderSize
         /\ Value4(p.header, 5) = Copied(n)
         /\ Value2(p.ext, 1) = idLength /\ Value2(p.ext, 3) = U16(n)
         /\ Copied(n) = idLength + U16(n) /\ U16(n) \in Nat
<1> DEFINE k == U16(n)
           c == Copied(n)
<1>1. k \in Nat /\ c \in Nat /\ c = idLength + k
  BY DEF U16, Copied
<1>2. ChatMessage \in Nat /\ ExtHeaderSize \in Nat
  BY DEF ChatMessage, ExtHeaderSize
<1>3. p = Packet(ChatMessage, ExtHeaderSize, c, Bytes2(idLength) \o Bytes2(k), c)
  BY DEF ChatPacket
<1> HIDE DEF k, c
<1>4. p.ext = Bytes2(idLength) \o Bytes2(k) /\ p.body = c
  BY <1>3 DEF Packet
<1>5. p.ext \in Seq(Nat) /\ Len(p.ext) = 4 /\ Value2(p.ext, 1) = idLength /\ Value2(p.ext, 3) = k
  <2> DEFINE e == Bytes2(idLength) \o Bytes2(k)
  <2>1. e \in Seq(Nat) /\ Len(e) = 4 /\ Value2(e, 1) = idLength /\ Value2(e, 3) = k
    BY <1>1, Bytes2Twice
  <2>2. p.ext = e
    BY <1>4
  <2> HIDE DEF e
  <2> QED  BY <2>1, <2>2
<1>6. /\ p.header \in Seq(Nat) /\ Len(p.header) = HeaderSize
      /\ Value2(p.header, 1) = ChatMessage /\ Value2(p.header, 3) = ExtHeaderSize
      /\ Value4(p.header, 5) = c
  BY <1>1, <1>2, <1>3, HeaderFacts
<1>7. p = [header |-> p.header, ext |-> p.ext, body |-> p.body]
  BY <1>3 DEF Packet
<1>8. p \in Packets
  BY <1>1, <1>4, <1>5, <1>6, <1>7 DEF Packets
<1> QED  BY <1>1, <1>4, <1>5, <1>6, <1>8 DEF ExtHeaderSize, k, c

\* So does one to the server, and the answer to a login.
LEMMA PlainFacts ==
  ASSUME NEW cmd \in Nat, NEW n \in Nat, NEW p, p = Packet(cmd, 0, n, <<>>, n)
  PROVE  /\ p \in Packets
         /\ Len(p.header) = HeaderSize /\ Len(p.ext) = 0 /\ p.body = n
         /\ Value2(p.header, 1) = cmd /\ Value2(p.header, 3) = 0 /\ Value4(p.header, 5) = n
<1>1. /\ p.header \in Seq(Nat) /\ Len(p.header) = HeaderSize
      /\ Value2(p.header, 1) = cmd /\ Value2(p.header, 3) = 0 /\ Value4(p.header, 5) = n
  <2> DEFINE z == 0
  <2>1. z \in Nat /\ p.header = Packet(cmd, z, n, <<>>, n).header
    OBVIOUS
  <2> HIDE DEF z
  <2>2. /\ p.header \in Seq(Nat) /\ Len(p.header) = HeaderSize
        /\ Value2(p.header, 1) = cmd /\ Value2(p.header, 3) = z /\ Value4(p.header, 5) = n
    BY <2>1, HeaderFacts
  <2> QED  BY <2>2 DEF z
<1>2. p.ext = <<>> /\ p.body = n
  BY DEF Packet
<1>3. p = [header |-> p.header, ext |-> p.ext, body |-> p.body]
  BY DEF Packet
<1>4. <<>> \in Seq(Nat) /\ Len(<<>>) = 0
  BY EmptySeq
<1> QED  BY <1>1, <1>2, <1>3, <1>4 DEF Packets

-----------------------------------------------------------------------------
(* Queues, and places in them.                                             *)

\* What Append leaves.
LEMMA AppendFacts ==
  ASSUME NEW S, NEW q \in Seq(S), NEW e \in S
  PROVE  /\ Append(q, e) \in Seq(S) /\ Len(q) \in Nat /\ Len(Append(q, e)) = Len(q) + 1
         /\ Append(q, e)[Len(q) + 1] = e
         /\ \A i \in 1..Len(q) : Append(q, e)[i] = q[i]
  OBVIOUS

\* What Head and Tail take.
LEMMA TailFacts ==
  ASSUME NEW S, NEW q \in Seq(S), q # <<>>
  PROVE  /\ Head(q) = q[1] /\ q[1] \in S /\ Len(q) \in Nat \ {0}
         /\ Tail(q) \in Seq(S) /\ Len(Tail(q)) = Len(q) - 1
         /\ \A i \in 1..(Len(q) - 1) : Tail(q)[i] = q[i + 1]
  OBVIOUS

\* Chats on their way to the reader come after those shown, and were taken.
LEMMA PlaceFacts ==
  ASSUME Types, UploadOK, NEW j \in 0..Len(toReader), DownloadOK(j)
  PROVE  /\ Len(shown) \in Nat /\ Len(toReader) \in Nat /\ Len(toServer) \in Nat
         /\ Len(written) \in Nat /\ Taken \in Nat /\ Len(written) = Taken + Len(toServer)
         /\ Len(shown) <= Taken
         /\ \A i \in 1..Len(toReader) \ {j} : Place(i, j) \in 1..Taken
<1>1. /\ Len(shown) \in Nat /\ Len(toReader) \in Nat /\ Len(toServer) \in Nat
      /\ Len(written) \in Nat
  BY DEF Types
<1>2. Taken \in Nat /\ Len(written) = Taken + Len(toServer)
  BY <1>1 DEF UploadOK, Taken
<1>3. Place(Len(toReader), j) <= Taken
  BY DEF DownloadOK
<1>4. Len(shown) <= Place(Len(toReader), j)
  BY <1>1 DEF Place
<1>5. ASSUME NEW i \in 1..Len(toReader) \ {j}
      PROVE  Place(i, j) \in 1..Place(Len(toReader), j)
  BY <1>1 DEF Place
<1> QED
  <2> DEFINE l == Place(Len(toReader), j)
  <2>1. l \in Nat
    BY <1>1 DEF Place
  <2> HIDE DEF l
  <2>2. Len(shown) <= Taken
    BY <1>1, <1>2, <1>3, <1>4, <2>1 DEF l
  <2>3. ASSUME NEW i \in 1..Len(toReader) \ {j}
        PROVE  Place(i, j) \in 1..Taken
    <3>1. Place(i, j) \in 1..l /\ l <= Taken
      BY <1>3, <1>5 DEF l
    <3> QED  BY <1>2, <2>1, <3>1
  <2> QED  BY <1>1, <1>2, <2>2, <2>3

\* The login's answer.
LEMMA AnswerFacts ==
  /\ LoginAnswer \in Packets
  /\ Len(LoginAnswer.header) = HeaderSize /\ Len(LoginAnswer.ext) = 0 /\ LoginAnswer.body = 2
  /\ Value2(LoginAnswer.header, 1) = LoginResponse /\ Value2(LoginAnswer.header, 3) = 0
  /\ Value4(LoginAnswer.header, 5) = 2
<1> DEFINE c == LoginResponse
           n == 2
<1>1. c \in Nat /\ n \in Nat /\ LoginAnswer = Packet(c, 0, n, <<>>, n)
  BY DEF LoginResponse, LoginAnswer
<1> HIDE DEF c, n
<1>2. /\ LoginAnswer \in Packets
      /\ Len(LoginAnswer.header) = HeaderSize /\ Len(LoginAnswer.ext) = 0 /\ LoginAnswer.body = n
      /\ Value2(LoginAnswer.header, 1) = c /\ Value2(LoginAnswer.header, 3) = 0
      /\ Value4(LoginAnswer.header, 5) = n
  BY <1>1, PlainFacts
<1> QED  BY <1>2 DEF c, n

-----------------------------------------------------------------------------
(* The invariant.                                                          *)

\* Nothing is on its way at the start.
LEMMA WireInit == Init => WireInv
<1> SUFFICES ASSUME Init PROVE WireInv
  OBVIOUS
<1>1. Types
  BY WireAssumption, EmptySeq DEF Init, Types
<1>2. Len(written) = 0 /\ Len(toServer) = 0 /\ Len(toReader) = 0 /\ Len(shown) = 0
  BY DEF Init
<1>3. UploadOK
  BY <1>2 DEF UploadOK, Taken
<1>4. DownloadOK(0)
  BY <1>2 DEF DownloadOK, Place, Taken
<1>5. StaysAligned /\ ShownCutTo16Bits
  BY DEF Init, StaysAligned, ShownCutTo16Bits
<1> QED  BY <1>1, <1>2, <1>3, <1>4, <1>5 DEF WireInv

\* A chat written is on its way to the server.
LEMMA SendKeeps ==
  ASSUME WireInv, Send
  PROVE  WireInv'
<1>1. PICK n \in TextLength :
        /\ written' = Append(written, n)
        /\ toServer' = Append(toServer, Packet(ChatMessage, 0, n, <<>>, n))
  BY DEF Send
<1>2. UNCHANGED <<idLength, server, accepted, answered, toReader, receiving, misread, shown>>
  BY DEF Send
<1>3. PICK j \in 0..Len(toReader) : DownloadOK(j)
  BY DEF WireInv
<1>4. Types /\ UploadOK
  BY DEF WireInv
<1> DEFINE p == Packet(ChatMessage, 0, n, <<>>, n)
<1>5. n \in Nat
  BY WireAssumption
<1>6. p \in Packets
  BY <1>5, PlainFacts DEF ChatMessage
<1> HIDE DEF p
<1>7. /\ written' \in Seq(Nat) /\ Len(written') = Len(written) + 1
      /\ written'[Len(written) + 1] = n
      /\ \A i \in 1..Len(written) : written'[i] = written[i]
  BY <1>1, <1>4, <1>5, AppendFacts DEF Types
<1>8. /\ toServer' \in Seq(Packets) /\ Len(toServer') = Len(toServer) + 1
      /\ toServer'[Len(toServer) + 1] = p
      /\ \A i \in 1..Len(toServer) : toServer'[i] = toServer[i]
  BY <1>1, <1>4, <1>6, AppendFacts DEF Types, p
<1>9. Types'
  BY <1>2, <1>4, <1>7, <1>8 DEF Types
<1>10. Taken' = Taken
  BY <1>4, <1>7, <1>8 DEF Taken, Types
<1>11. UploadOK'
  <2>1. Taken \in Nat /\ Len(written) = Taken + Len(toServer)
        /\ Len(toServer) \in Nat /\ Len(written) \in Nat
    BY <1>3, <1>4, PlaceFacts
  <2>2. ASSUME NEW i \in 1..Len(toServer)
        PROVE  written'[Taken + i] = written[Taken + i]
    <3>1. Taken + i \in 1..Len(written)
      BY <2>1
    <3> QED  BY <1>7, <3>1
  <2>3. ASSUME NEW i \in 1..Len(toServer)
        PROVE  toServer'[i] = Packet(ChatMessage, 0, written'[Taken + i], <<>>, written'[Taken + i])
    BY <1>4, <1>8, <2>2 DEF UploadOK
  <2>4. written'[Taken + (Len(toServer) + 1)] = n
    <3>1. Taken + (Len(toServer) + 1) = Len(written) + 1
      BY <2>1
    <3> QED  BY <1>7, <3>1
  <2>5. toServer'[Len(toServer) + 1] =
          Packet(ChatMessage, 0, written'[Taken + (Len(toServer) + 1)], <<>>,
                 written'[Taken + (Len(toServer) + 1)])
    BY <1>8, <2>4 DEF p
  <2>6. \A i \in 1..Len(toServer') : i \in 1..Len(toServer) \/ i = Len(toServer) + 1
    BY <1>8, <2>1
  <2> QED  BY <1>10, <2>1, <2>3, <2>5, <2>6 DEF UploadOK
<1>12. ASSUME NEW i \in 1..Taken
       PROVE  written'[i] = written[i]
  <2>1. i \in 1..Len(written)
    BY <1>3, <1>4, PlaceFacts
  <2> QED  BY <1>7, <2>1
<1>13. DownloadOK(j)'
  <2>1. \A i \in 1..Len(toReader) \ {j} : Place(i, j) \in 1..Taken
    BY <1>3, <1>4, PlaceFacts
  <2>2. \A i : Place(i, j)' = Place(i, j)
    BY <1>2 DEF Place
  <2>3. \A i : Fits(i)' = Fits(i) /\ ChatPacket(i)' = ChatPacket(i)
    BY <1>2 DEF Fits, ChatPacket, Copied
  <2> QED
    BY <1>2, <1>3, <1>10, <1>12, <2>1, <2>2, <2>3 DEF DownloadOK
<1>14. ShownCutTo16Bits'
  <2>1. DOMAIN shown = 1..Len(shown)
    BY <1>4 DEF Types
  <2>2. Len(shown) \in Nat /\ Taken \in Nat /\ Len(shown) <= Taken
    BY <1>3, <1>4, PlaceFacts
  <2>3. \A i \in DOMAIN shown : i \in 1..Taken
    BY <2>1, <2>2
  <2> QED  BY <1>2, <1>12, <2>3 DEF WireInv, ShownCutTo16Bits, U16
<1> QED
  BY <1>2, <1>9, <1>11, <1>13, <1>14 DEF WireInv, StaysAligned

\* The server takes the next chat: it closes the session, ends, or passes the
\* chat on behind all others.
LEMMA OnRecvCompletedKeeps ==
  ASSUME WireInv, OnRecvCompleted
  PROVE  WireInv'
<1> DEFINE n == written[Taken + 1]
<1>0. PICK l \in Nat : l = Len(toReader)
  BY DEF WireInv, Types
<1>1. PICK j \in 0..l : DownloadOK(j)
  BY <1>0 DEF WireInv
<1>2. Types /\ UploadOK
  BY DEF WireInv
<1>3. /\ server = "up" /\ accepted /\ toServer # <<>> /\ toServer' = Tail(toServer)
      /\ UNCHANGED <<idLength, written, answered, receiving, misread, shown>>
  BY DEF OnRecvCompleted
<1>4. /\ Len(toServer) \in Nat \ {0} /\ toServer' \in Seq(Packets)
      /\ Len(toServer') = Len(toServer) - 1 /\ Head(toServer) = toServer[1]
      /\ \A i \in 1..(Len(toServer) - 1) : toServer'[i] = toServer[i + 1]
  BY <1>2, <1>3, TailFacts DEF Types
<1>5. /\ Len(shown) \in Nat /\ l \in Nat /\ Taken \in Nat /\ Len(written) \in Nat
      /\ Len(written) = Taken + Len(toServer) /\ Len(shown) <= Taken
      /\ \A i \in 1..l \ {j} : Place(i, j) \in 1..Taken
  BY <1>0, <1>1, <1>2, PlaceFacts
<1>6. n \in Nat
  <2>1. Taken + 1 \in 1..Len(written)
    BY <1>4, <1>5
  <2> QED  BY <1>2, <2>1 DEF Types
<1>7. Taken' = Taken + 1
  BY <1>3, <1>4, <1>5 DEF Taken
<1>8. UploadOK'
  <2>1. ASSUME NEW i \in 1..Len(toServer')
        PROVE  toServer'[i] = Packet(ChatMessage, 0, written[Taken + (i + 1)], <<>>,
                                     written[Taken + (i + 1)])
    <3>1. i \in 1..(Len(toServer) - 1) /\ i + 1 \in 1..Len(toServer)
      BY <1>4
    <3> QED  BY <1>2, <1>4, <3>1 DEF UploadOK
  <2>2. ASSUME NEW i \in 1..Len(toServer')
        PROVE  Taken + (i + 1) = Taken' + i
    BY <1>5, <1>7
  <2>3. Taken' \in Nat
    BY <1>5, <1>7
  <2> QED  BY <1>3, <2>1, <2>2, <2>3 DEF UploadOK
<1>9. Value4(Head(toServer).header, 5) = n
  <2>1. Head(toServer) = Packet(ChatMessage, 0, n, <<>>, n)
    <3>1. 1 \in 1..Len(toServer)
      BY <1>4
    <3> QED  BY <1>2, <1>4, <3>1 DEF UploadOK
  <2> HIDE DEF n
  <2>2. ChatMessage \in Nat
    BY DEF ChatMessage
  <2> QED  BY <1>6, <2>1, <2>2, PlainFacts
<1>10. \A k : Fits(k)' = Fits(k) /\ ChatPacket(k)' = ChatPacket(k)
  BY <1>3 DEF Fits, ChatPacket, Copied
<1>11. StaysAligned' /\ ShownCutTo16Bits'
  BY <1>3 DEF WireInv, StaysAligned, ShownCutTo16Bits, U16
<1>12. CASE UNCHANGED toReader /\ (accepted' = FALSE \/ server' = "down")
  <2>1. Types'
    BY <1>2, <1>3, <1>4, <1>12 DEF Types
  <2>2. \A i : Place(i, j)' = Place(i, j)
    BY <1>3 DEF Place
  <2>3. Place(l, j) <= Taken + 1
    <3>1. Place(l, j) \in Nat /\ Place(l, j) <= Taken
      BY <1>0, <1>1, <1>5 DEF DownloadOK, Place
    <3> QED  BY <1>5, <3>1
  <2>4. DownloadOK(j)'
    BY <1>0, <1>1, <1>3, <1>7, <1>10, <1>12, <2>2, <2>3 DEF DownloadOK
  <2> QED  BY <1>0, <1>1, <1>8, <1>11, <1>12, <2>1, <2>4 DEF WireInv
<1>13. CASE Fits(n) /\ toReader' = Append(toReader, ChatPacket(n)) /\ UNCHANGED <<server, accepted>>
  <2> HIDE DEF n
  <2>1. ChatPacket(n) \in Packets
    <3>1. idLength \in Nat
      BY <1>2 DEF Types
    <3> QED  BY <1>6, <3>1, ChatFacts
  <2>2. /\ toReader' \in Seq(Packets) /\ Len(toReader') = l + 1 /\ toReader'[l + 1] = ChatPacket(n)
        /\ \A i \in 1..l : toReader'[i] = toReader[i]
    BY <1>0, <1>2, <1>13, <2>1, AppendFacts DEF Types
  <2>3. Types'
    BY <1>2, <1>3, <1>4, <2>2 DEF Types
  <2>4. \A i : Place(i, j)' = Place(i, j)
    BY <1>3 DEF Place
  <2>5. Place(l + 1, j) = Taken + 1
    <3>1. Place(l, j) = Taken
      BY <1>0, <1>1, <1>3 DEF DownloadOK
    <3> QED  BY <1>1, <1>5, <3>1 DEF Place
  <2>6. ASSUME NEW i \in 1..(l + 1) \ {j}
        PROVE  Fits(written[Place(i, j)]) /\ toReader'[i] = ChatPacket(written[Place(i, j)])
    <3>1. CASE i \in 1..l
      BY <1>0, <1>1, <2>2, <2>6, <3>1 DEF DownloadOK
    <3>2. CASE i = l + 1
      BY <1>13, <2>2, <2>5, <3>2 DEF n
    <3> QED  BY <1>5, <3>1, <3>2
  <2>7. j \in 0..(l + 1)
    BY <1>5
  <2>8. j # 0 => answered /\ toReader'[j] = LoginAnswer
    <3> SUFFICES ASSUME j # 0 PROVE answered /\ toReader'[j] = LoginAnswer
      OBVIOUS
    <3>1. j \in 1..l
      BY <1>5
    <3> QED  BY <1>0, <1>1, <2>2, <3>1 DEF DownloadOK
  <2>9. DownloadOK(j)'
    <3>1. Place(Len(toReader), j)' = Taken'
      BY <1>7, <2>2, <2>4, <2>5
    <3>2. Taken' <= Taken'
      BY <1>5, <1>7
    <3> QED
      BY <1>0, <1>3, <1>10, <2>2, <2>4, <2>6, <2>7, <2>8, <3>1, <3>2 DEF DownloadOK
  <2>10. j \in 0..Len(toReader')
    BY <2>2, <2>7
  <2> QED  BY <1>8, <1>11, <2>3, <2>9, <2>10 DEF WireInv
<1> QED
  <2>1. \/ UNCHANGED toReader /\ (accepted' = FALSE \/ server' = "down")
        \/ Fits(n) /\ toReader' = Append(toReader, ChatPacket(n)) /\ UNCHANGED <<server, accepted>>
    BY <1>9 DEF OnRecvCompleted, SendMessageAll
  <2> QED  BY <1>12, <1>13, <2>1

\* The login's answer goes behind what is on its way.
LEMMA SendAuthResponseKeeps ==
  ASSUME WireInv, SendAuthResponse
  PROVE  WireInv'
<1>0. PICK l \in Nat : l = Len(toReader)
  BY DEF WireInv, Types
<1>1. PICK j \in 0..l : DownloadOK(j)
  BY <1>0 DEF WireInv
<1>2. Types /\ UploadOK
  BY DEF WireInv
<1>3. /\ ~answered /\ answered' = TRUE /\ toReader' = Append(toReader, LoginAnswer)
      /\ UNCHANGED <<idLength, written, toServer, server, accepted, receiving, misread, shown>>
  BY DEF SendAuthResponse, LoginAnswer
<1>4. /\ toReader' \in Seq(Packets) /\ Len(toReader') = l + 1 /\ toReader'[l + 1] = LoginAnswer
      /\ \A i \in 1..l : toReader'[i] = toReader[i]
  BY <1>2, <1>3, <1>0, AnswerFacts, AppendFacts DEF Types
<1>5. l \in Nat /\ Len(shown) \in Nat
  BY <1>0, <1>1, <1>2, PlaceFacts
<1>6. j = 0
  BY <1>0, <1>1, <1>3 DEF DownloadOK
<1>7. \A i \in 1..l : Place(i, l + 1)' = Place(i, j)
  BY <1>3, <1>5, <1>6 DEF Place
<1>8. Place(l + 1, l + 1)' = Place(l, j)
  BY <1>3, <1>5, <1>6 DEF Place
<1>9. \A k : Fits(k)' = Fits(k) /\ ChatPacket(k)' = ChatPacket(k)
  BY <1>3 DEF Fits, ChatPacket, Copied
<1>10. Taken' = Taken
  BY <1>3 DEF Taken
<1>11. ASSUME NEW i \in 1..(l + 1) \ {l + 1}
       PROVE  /\ Fits(written[Place(i, l + 1)'])
              /\ toReader'[i] = ChatPacket(written[Place(i, l + 1)'])
  <2>1. i \in 1..l \ {j}
    BY <1>5, <1>6
  <2> QED  BY <1>0, <1>1, <1>4, <1>7, <2>1 DEF DownloadOK
<1>12. l + 1 \in 0..(l + 1)
  BY <1>5
<1>13. DownloadOK(l + 1)'
  BY <1>0, <1>1, <1>3, <1>4, <1>8, <1>9, <1>10, <1>11, <1>12 DEF DownloadOK
<1>14. Types' /\ UploadOK'
  BY <1>2, <1>3, <1>4, <1>10 DEF Types, UploadOK
<1>15. StaysAligned' /\ ShownCutTo16Bits'
  BY <1>3 DEF WireInv, StaysAligned, ShownCutTo16Bits, U16
<1> QED  BY <1>4, <1>12, <1>13, <1>14, <1>15 DEF WireInv

\* The reader takes what comes next: the login's answer, or a chat that it shows.
LEMMA ReceiveKeeps ==
  ASSUME WireInv, Receive
  PROVE  WireInv'
<1>0. PICK l \in Nat : l = Len(toReader)
  BY DEF WireInv, Types
<1>1. PICK j \in 0..l : DownloadOK(j)
  BY <1>0 DEF WireInv
<1>2. Types /\ UploadOK
  BY DEF WireInv
<1>3. /\ toReader # <<>> /\ toReader' = Tail(toReader)
      /\ UNCHANGED <<idLength, written, toServer, server, accepted, answered>>
  BY DEF Receive
<1>4. /\ l # 0 /\ Head(toReader) = toReader[1]
      /\ toReader' \in Seq(Packets) /\ Len(toReader') = l - 1
      /\ \A i \in 1..(l - 1) : toReader'[i] = toReader[i + 1]
  BY <1>0, <1>2, <1>3, TailFacts DEF Types
<1>5. PICK k \in Nat : k = Len(shown)
  BY <1>2 DEF Types
<1>6. /\ Taken \in Nat /\ Len(written) \in Nat /\ Taken <= Len(written) /\ k <= Taken
      /\ \A i \in 1..l \ {j} : Place(i, j) \in 1..Taken
  <2>1. Len(toServer) \in Nat /\ Len(written) = Taken + Len(toServer) /\ Taken \in Nat
    BY <1>0, <1>1, <1>2, PlaceFacts
  <2> QED  BY <1>0, <1>1, <1>2, <1>5, <2>1, PlaceFacts
<1>7. Taken' = Taken
  BY <1>3 DEF Taken
<1>8. \A n : Fits(n)' = Fits(n) /\ ChatPacket(n)' = ChatPacket(n)
  BY <1>3 DEF Fits, ChatPacket, Copied
<1>9. \A i, h : Place(i, h) = k + (IF h # 0 /\ h <= i THEN i - 1 ELSE i)
  BY <1>5 DEF Place
<1>10. CASE j = 1
  <2>1. Head(toReader) = LoginAnswer
    BY <1>0, <1>1, <1>4, <1>10 DEF DownloadOK
  <2>2. ~misread' /\ UNCHANGED <<receiving, shown>>
    <3> DEFINE p == Head(toReader)
    <3>1. /\ Value2(p.header, 1) = 201 /\ Value2(p.header, 3) = 0 /\ Value4(p.header, 5) = 2
          /\ Len(p.ext) = 0 /\ p.body = 2
      BY <2>1, AnswerFacts DEF LoginResponse
    <3> HIDE DEF p
    <3>2. Value4(p.header, 5) # 0 /\ Value2(p.header, 1) # ChatMessage
      BY <3>1 DEF ChatMessage
    <3>3. Announced(p, Value2(p.header, 3), Value4(p.header, 5))
      BY <3>1 DEF Announced
    <3> QED  BY <3>2, <3>3 DEF Receive, p
  <2>3. \A i, h : Place(i, h)' = Place(i, h)
    BY <2>2 DEF Place
  <2>4. ASSUME NEW i \in 1..(l - 1)
        PROVE  Fits(written[Place(i, 0)]) /\ toReader'[i] = ChatPacket(written[Place(i, 0)])
    <3>1. i + 1 \in 1..l \ {j} /\ Place(i + 1, j) = Place(i, 0)
      BY <1>9, <1>10
    <3> QED  BY <1>0, <1>1, <1>4, <3>1 DEF DownloadOK
  <2>5. Place(l - 1, 0) = Place(l, j)
    BY <1>4, <1>9, <1>10
  <2>6. DownloadOK(0)'
    <3>1. 0 \in 0..(l - 1)
      BY <1>4
    <3> QED
      BY <1>0, <1>1, <1>3, <1>4, <1>7, <1>8, <2>3, <2>4, <2>5, <3>1 DEF DownloadOK
  <2>7. Types'
    BY <1>2, <1>3, <1>4, <2>2 DEF Types
  <2>8. UploadOK'
    BY <1>2, <1>3, <1>7 DEF UploadOK
  <2>9. StaysAligned' /\ ShownCutTo16Bits'
    BY <1>3, <2>2 DEF WireInv, StaysAligned, ShownCutTo16Bits, U16
  <2>10. 0 \in 0..Len(toReader')
    BY <1>4
  <2> QED  BY <2>6, <2>7, <2>8, <2>9, <2>10 DEF WireInv
<1>11. CASE j # 1
  <2> DEFINE p == Head(toReader)
             n == written[k + 1]
  <2>1. 1 \in 1..l \ {j} /\ Place(1, j) = k + 1 /\ k + 1 \in 1..Taken
    BY <1>4, <1>6, <1>9, <1>11
  <2>2. n \in Nat /\ Fits(n) /\ p = ChatPacket(n)
    <3>1. k + 1 \in 1..Len(written)
      BY <1>6, <2>1
    <3>2. n \in Nat
      BY <1>2, <3>1 DEF Types
    <3> QED  BY <1>0, <1>1, <1>4, <2>1, <3>2 DEF DownloadOK
  <2> HIDE DEF p, n
  <2>3. idLength \in Nat \ {0}
    BY <1>2 DEF Types, IdField
  <2>4. /\ Value2(p.header, 1) = 1 /\ Value2(p.header, 3) = 4
        /\ Value4(p.header, 5) = idLength + U16(n) /\ U16(n) \in Nat
        /\ Len(p.ext) = 4 /\ p.body = idLength + U16(n)
        /\ Value2(p.ext, 1) = idLength /\ Value2(p.ext, 3) = U16(n)
    BY <2>2, <2>3, ChatFacts DEF ChatMessage, ExtHeaderSize
  <2>5. /\ Announced(p, Value2(p.header, 3), Value4(p.header, 5)) /\ Value4(p.header, 5) # 0
        /\ ~(Value2(p.ext, 1) + Value2(p.ext, 3) > Value4(p.header, 5))
    BY <2>3, <2>4 DEF Announced
  <2>6. ~misread' /\ UNCHANGED receiving /\ shown' = Append(shown, <<idLength, U16(n)>>)
    BY <2>4, <2>5 DEF Receive, ChatMessage, p
  <2>7. <<idLength, U16(n)>> \in Nat \X Nat
    BY <2>3, <2>4
  <2>8. /\ shown' \in Seq(Nat \X Nat) /\ Len(shown') = k + 1
        /\ shown'[k + 1] = <<idLength, U16(n)>>
        /\ \A i \in 1..k : shown'[i] = shown[i]
    BY <1>2, <1>5, <2>6, <2>7, AppendFacts DEF Types
  <2>9. PICK h \in 0..(l - 1) : h = IF j = 0 THEN 0 ELSE j - 1
    BY <1>4, <1>11
  <2>10. \A i \in 0..(l - 1) : Place(i, h)' = Place(i + 1, j)
    <3>1. \A i : Place(i, h)' = k + 1 + (IF h # 0 /\ h <= i THEN i - 1 ELSE i)
      BY <2>8 DEF Place
    <3> QED  BY <1>9, <1>11, <2>9, <3>1
  <2>11. ASSUME NEW i \in 1..(l - 1) \ {h}
         PROVE  /\ Fits(written[Place(i, h)'])
                /\ toReader'[i] = ChatPacket(written[Place(i, h)'])
    <3>1. i + 1 \in 1..l \ {j} /\ i \in 0..(l - 1)
      BY <1>11, <2>9
    <3> QED  BY <1>0, <1>1, <1>4, <2>10, <3>1 DEF DownloadOK
  <2>12. Place(l - 1, h)' = Place(l, j)
    <3>1. l - 1 \in 0..(l - 1) /\ (l - 1) + 1 = l
      BY <1>4
    <3> QED  BY <2>10, <3>1
  <2>13. h # 0 => answered /\ toReader'[h] = LoginAnswer
    <3> SUFFICES ASSUME h # 0 PROVE answered /\ toReader'[h] = LoginAnswer
      OBVIOUS
    <3>1. h \in 1..(l - 1) /\ h + 1 = j /\ j # 0
      BY <1>4, <2>9
    <3> QED  BY <1>0, <1>1, <1>4, <3>1 DEF DownloadOK
  <2>14. DownloadOK(h)'
    BY <1>0, <1>1, <1>3, <1>4, <1>7, <1>8, <2>9, <2>11, <2>12, <2>13 DEF DownloadOK
  <2>15. Types' /\ UploadOK'
    BY <1>2, <1>3, <1>4, <1>7, <2>8 DEF Types, UploadOK
  <2>16. StaysAligned'
    BY <2>6 DEF WireInv, StaysAligned
  <2>17. ShownCutTo16Bits'
    <3>1. ASSUME NEW i \in 1..(k + 1)
          PROVE  shown'[i] = <<idLength, U16(written[i])>>
      <4>1. CASE i \in 1..k
        <5>1. i \in DOMAIN shown
          BY <1>2, <1>5, <4>1 DEF Types
        <5> QED  BY <2>8, <4>1, <5>1 DEF WireInv, ShownCutTo16Bits
      <4>2. CASE i = k + 1
        BY <2>8, <4>2 DEF n
      <4> QED  BY <1>5, <4>1, <4>2
    <3>2. DOMAIN shown' = 1..(k + 1)
      BY <2>8
    <3> QED  BY <1>3, <3>1, <3>2 DEF ShownCutTo16Bits, U16
  <2>18. h \in 0..Len(toReader')
    BY <1>4, <2>9
  <2> QED  BY <2>14, <2>15, <2>16, <2>17, <2>18 DEF WireInv
<1> QED  BY <1>10, <1>11

-----------------------------------------------------------------------------

\* Every step keeps the invariant.
LEMMA WireStep == WireInv /\ [Next]_vars => WireInv'
<1> SUFFICES ASSUME WireInv, [Next]_vars PROVE WireInv'
  OBVIOUS
<1>1. CASE UNCHANGED vars
  BY <1>1 DEF vars, WireInv, Types, UploadOK, Taken, DownloadOK, Place, Fits, Copied,
     ChatPacket, StaysAligned, ShownCutTo16Bits
<1>2. CASE Next
  BY <1>2, SendKeeps, OnRecvCompletedKeeps, SendAuthResponseKeeps, ReceiveKeeps DEF Next
<1> QED  BY <1>1, <1>2

\* Chats are taken, passed on and shown in the order they were written, for
\* any lengths of texts and names.
THEOREM WireInvariance == Spec => []WireInv
  BY WireInit, WireStep, PTL DEF Spec

\* No packet the server builds is longer than its buffer (SendMessageAll), of
\* however many bytes the text is and however the length it checks was cut.
THEOREM NoOverrun == Spec => []NothingOverruns
<1>1. WireInv => NothingOverruns
  <2> SUFFICES ASSUME WireInv, NEW i \in DOMAIN toReader
               PROVE  Len(toReader[i].header) + Len(toReader[i].ext) + toReader[i].body <= BufferSize
    BY DEF NothingOverruns
  <2>1. PICK j \in 0..Len(toReader) : DownloadOK(j)
    BY DEF WireInv
  <2>2. Types /\ UploadOK
    BY DEF WireInv
  <2>3. i \in 1..Len(toReader)
    BY <2>2 DEF Types
  <2>4. CASE i = j
    <3>1. toReader[i] = LoginAnswer
      BY <2>1, <2>3, <2>4 DEF DownloadOK
    <3> QED  BY <3>1, AnswerFacts DEF HeaderSize, BufferSize
  <2>5. CASE i # j
    <3> DEFINE n == written[Place(i, j)]
    <3>1. Fits(n) /\ toReader[i] = ChatPacket(n)
      BY <2>1, <2>3, <2>5 DEF DownloadOK
    <3>2. n \in Nat
      <4>1. Place(i, j) \in 1..Taken /\ Taken \in Nat /\ Len(written) = Taken + Len(toServer)
            /\ Len(toServer) \in Nat
        BY <2>1, <2>2, <2>3, <2>5, PlaceFacts
      <4>2. Place(i, j) \in 1..Len(written)
        BY <4>1
      <4> QED  BY <2>2, <4>2 DEF Types
    <3> HIDE DEF n
    <3>3. /\ Len(toReader[i].header) = HeaderSize /\ Len(toReader[i].ext) = ExtHeaderSize
          /\ toReader[i].body = Copied(n) /\ Copied(n) = idLength + U16(n) /\ U16(n) \in Nat
      <4>1. idLength \in Nat
        BY <2>2 DEF Types
      <4> QED  BY <3>1, <3>2, <4>1, ChatFacts
    <3> QED
      BY <2>2, <3>1, <3>3 DEF Fits, Types
  <2> QED  BY <2>4, <2>5
<1> QED  BY <1>1, WireInvariance, PTL

\* The receive loop (NetworkClient.ReceiveLoop) reads a header where one is, and
\* no chat makes a handler throw, of whatever lengths the chats are.
THEOREM NeverMisread == Spec => []StaysAligned
<1>1. WireInv => StaysAligned
  BY DEF WireInv
<1> QED  BY <1>1, WireInvariance, PTL

\* The chats shown are the chats written, in order, each with its writer's id
\* and with a text whose length is the written one modulo 65536: whole below
\* 65536 bytes, cut from there on (SendMessageAll, ChattingViewModel.OnPacketReceived).
THEOREM CutTo16Bits == Spec => []ShownCutTo16Bits
<1>1. WireInv => ShownCutTo16Bits
  BY DEF WireInv
<1> QED  BY <1>1, WireInvariance, PTL
=============================================================================
