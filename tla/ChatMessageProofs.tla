-------------------------- MODULE ChatMessageProofs --------------------------
(***************************************************************************)
(* Proofs about the messages of ChatSystem: from its login on a client     *)
(* misses none, and it reads each writer in the order of writing, for any  *)
(* number of clients, requests and messages.                               *)
(***************************************************************************)
EXTENDS ChatSystemProofs, SequenceTheorems, FiniteSetTheorems, WellFoundedInduction

\* Where the receive thread is says what the UI thread shows and what it
\* handles; nothing is shown before the chat page is.
ReceiverAndPage(c) ==
  /\ rx[c] \in {"login", "parse", "show"} => rxPacket[c] \in Packets
  /\ rx[c] = "login" => (rxChat[c] <=> page[c] = "chat")
  /\ rx[c] \in {"parse", "show"} => page[c] = "chat"
  /\ rx[c] = "show" => IsChat(rxPacket[c])
  /\ page[c] = "login" => Messages[c] = <<>>

HasAnswer(q) == \E i \in 1..Len(q) : q[i].kind = "LoginOk"

\* Until the chat page opens the acceptance that opens it is in flight, and
\* before the acceptance there is nothing to miss.
AnswerIsComing(c) ==
  /\ c \notin admitted => due[c] = <<>>
  /\ c \in admitted /\ page[c] = "login" /\ ~Lost(c) => HasAnswer(InFlight(c))

NothingMissed(c) == c \in admitted /\ ~Lost(c) => due[c] = Messages[c] \o Coming(c)

IsStart(p, q) == Len(p) <= Len(q) /\ \A i \in 1..Len(p) : p[i] = q[i]

\* What c has shown and will show is what it was sent.  What is shown was sent
\* also when the rest is lost.
Reads(c) ==
  /\ ReceiverAndPage(c) /\ AnswerIsComing(c) /\ NothingMissed(c)
  /\ IsStart(Messages[c], due[c])

AllChats(q) == \A i \in 1..Len(q) : IsChat(q[i])

\* The number of the last message of w the server took from its stream, once
\* there is one.
Taken(w) == sent[w] - Len(toServer[w])

\* The messages w sent are at the end of its stream, numbered.
Uploads(w) ==
  /\ page[w] = "login" => sent[w] = 0
  /\ \A i \in 1..Len(toServer[w]) : IsChat(toServer[w][i]) =>
       /\ toServer[w][i].from = w
       /\ toServer[w][i].n = sent[w] - (Len(toServer[w]) - i)
       /\ \A j \in i..Len(toServer[w]) : IsChat(toServer[w][j])
       /\ sent[w] >= Len(toServer[w]) - i + 1

\* While w is broadcast, it is the message last taken, to others whose session
\* was listed, and still is unless it was closed.
Broadcasts(w) ==
  broadcast[w].targets # {} =>
    /\ AllChats(toServer[w])
    /\ broadcast[w].packet = Chat(w, Taken(w)) /\ Taken(w) \in 1..sent[w]
    /\ \A s \in broadcast[w].targets :
         s # w /\ hSocket[s] # "backlog" /\ (hSocket[s] = "open" => s \in mSessions)

\* What was sent to c are messages their writers wrote, sent to a session that
\* was listed; an unknown session was sent nothing.
Sends(c) ==
  /\ \A i \in 1..Len(due[c]) :
       due[c][i].from \in Client /\ due[c][i].n \in 1..sent[due[c][i].from]
  /\ due[c] # <<>> /\ hSocket[c] = "open" => c \in mSessions
  /\ hSocket[c] = "backlog" => c \notin mSessions /\ accepting # c /\ due[c] = <<>>

\* The last message of w in q, if any, has number n.
LastIs(q, w, n) ==
  \A i \in 1..Len(q) :
    q[i].from = w /\ (\A k \in (i + 1)..Len(q) : q[k].from # w) => q[i].n = n

HasFrom(q, w) == \E i \in 1..Len(q) : q[i].from = w

\* A client whose session is open was sent the messages of w up to the last one
\* taken, but for the one under way to it.
UpToDate(c, w) ==
  HasFrom(due[c], w) =>
    /\ c # w
    /\ hSocket[c] = "open" =>
         /\ AllChats(toServer[w])
         /\ LastIs(due[c], w, IF c \in broadcast[w].targets THEN Taken(w) - 1 ELSE Taken(w))

MessageTypes ==
  /\ rxChat \in [Client -> BOOLEAN]
  /\ hSocket \in [Client -> {"backlog", "open", "closed"}]
  /\ Messages \in [Client -> Seq(Packets)]
  /\ due \in [Client -> Seq(Packets)]

\* What the server does with what clients write.
Writes ==
  /\ \A c \in Client : Uploads(c) /\ Broadcasts(c) /\ Sends(c)
  /\ \A c, w \in Client : UpToDate(c, w) /\ InOrder(due[c], w)

MessagesInv ==
  /\ LoginInv /\ MessageTypes
  /\ \A c \in Client : Reads(c)
  /\ Writes

-----------------------------------------------------------------------------
(* Sequences of packets.                                                   *)

\* A set of numbers that is not empty has a least one: induction for the
\* facts about Shown.
LEMMA LeastNumber ==
  ASSUME NEW B, B \subseteq Nat, B # {}
  PROVE  \E m \in B : \A k \in B : m <= k
<1> DEFINE T == {0..k : k \in B}
<1>1. T \subseteq FiniteSubsetsOf(Nat) /\ T # {}
  <2>1. \A k \in B : IsFiniteSet(0..k) /\ 0..k \subseteq Nat
    BY FS_Interval
  <2>2. \A k \in B : 0..k \in FiniteSubsetsOf(Nat)
    BY <2>1 DEF FiniteSubsetsOf
  <2> QED  BY <2>2
<1>2. \E x \in T : \A y \in T : <<y, x>> \notin StrictSubsetOrdering(Nat)
  BY <1>1, FS_StrictSubsetOrderingWellFounded, WFMin
<1>3. PICK m \in B : \A y \in T : <<y, 0..m>> \notin StrictSubsetOrdering(Nat)
  BY <1>2
<1>4. ASSUME NEW k \in B, k < m
      PROVE  FALSE
  <2>1. 0..k \in T /\ 0..k \subseteq 0..m /\ 0..m \subseteq Nat
    BY <1>4
  <2>2. m \in 0..m /\ m \notin 0..k
    BY <1>4
  <2>3. <<0..k, 0..m>> \in StrictSubsetOrdering(Nat)
    BY <2>1, <2>2 DEF StrictSubsetOrdering
  <2> QED  BY <1>3, <2>1, <2>3
<1> QED  BY <1>4

\* Appending and concatenating, in either order.
LEMMA ConcatAppend ==
  ASSUME NEW a \in Seq(Packets), NEW b \in Seq(Packets), NEW p \in Packets
  PROVE  a \o Append(b, p) = Append(a \o b, p)
<1>1. <<p>> \in Seq(Packets) /\ a \o b \in Seq(Packets)
  BY ConcatProperties
<1>2. Append(b, p) = b \o <<p>> /\ Append(a \o b, p) = (a \o b) \o <<p>>
  BY <1>1, AppendIsConcat
<1>3. (a \o b) \o <<p>> = a \o (b \o <<p>>)
  BY <1>1, ConcatAssociative
<1> QED  BY <1>2, <1>3

\* The packet between two sequences belongs to either.
LEMMA ConcatBetween ==
  ASSUME NEW a \in Seq(Packets), NEW b \in Seq(Packets), NEW p \in Packets
  PROVE  Append(a, p) \o b = a \o (<<p>> \o b)
<1>1. <<p>> \in Seq(Packets)
  OBVIOUS
<1>2. Append(a, p) = a \o <<p>>
  BY AppendIsConcat
<1>3. (a \o <<p>>) \o b = a \o (<<p>> \o b)
  BY <1>1, ConcatAssociative
<1> QED  BY <1>2, <1>3

\* A sequence is its head and its tail.
LEMMA HeadAndTail ==
  ASSUME NEW q \in Seq(Packets), q # <<>>
  PROVE  Head(q) \in Packets /\ Tail(q) \in Seq(Packets) /\ <<Head(q)>> \o Tail(q) = q
<1>1. Head(q) \in Packets /\ Tail(q) \in Seq(Packets) /\ Len(Tail(q)) = Len(q) - 1 /\ Len(q) \in Nat
      /\ \A i \in 1..Len(Tail(q)) : Tail(q)[i] = q[i + 1]
  BY HeadTailProperties
<1>2. PICK h \in Packets, t \in Seq(Packets) : h = Head(q) /\ t = Tail(q)
  BY <1>1
<1>3. <<h>> \in Seq(Packets) /\ Len(<<h>>) = 1 /\ <<h>>[1] = h
  OBVIOUS
<1>4. /\ <<h>> \o t \in Seq(Packets) /\ Len(<<h>> \o t) = 1 + Len(t)
      /\ \A i \in 1..(1 + Len(t)) : (<<h>> \o t)[i] = IF i <= 1 THEN <<h>>[i] ELSE t[i - 1]
  BY <1>3, ConcatProperties
<1>5. h = q[1]
  BY <1>2
<1>6. Len(<<h>> \o t) = Len(q)
  BY <1>1, <1>2, <1>4
<1>7. ASSUME NEW i \in 1..Len(q)
      PROVE  (<<h>> \o t)[i] = q[i]
  <2>1. CASE i = 1
    BY <1>1, <1>2, <1>3, <1>4, <1>5, <1>6, <2>1
  <2>2. CASE i # 1
    BY <1>1, <1>2, <1>4, <1>6, <2>2
  <2> QED  BY <2>1, <2>2
<1>8. <<h>> \o t = q
  BY <1>4, <1>6, <1>7, SeqEqual
<1> QED  BY <1>1, <1>2, <1>8

-----------------------------------------------------------------------------
(* What is shown of a sequence of packets.                                 *)

\* f counts out what is shown of the first n packets of q.
ShownBy(q, b, n, f) ==
  f = [i \in 0..n |-> IF i = 0 THEN <<>>
                      ELSE IF Shows(q, b, i) THEN Append(f[i - 1], q[i]) ELSE f[i - 1]]

\* The same from one packet to the next.
Steps(q, b, n, f) ==
  /\ f[0] = <<>>
  /\ \A i \in 1..n : f[i] = IF Shows(q, b, i) THEN Append(f[i - 1], q[i]) ELSE f[i - 1]

\* Something is shown of every sequence.
LEMMA ShownExists ==
  ASSUME NEW q \in Seq(Packets), NEW b \in BOOLEAN
  PROVE  \A n \in 0..Len(q) : \E f : ShownBy(q, b, n, f)
<1> DEFINE B == {n \in 0..Len(q) : ~\E f : ShownBy(q, b, n, f)}
<1> SUFFICES ASSUME B # {} PROVE FALSE
  OBVIOUS
<1>1. B \subseteq Nat /\ Len(q) \in Nat
  OBVIOUS
<1>2. PICK m \in B : \A k \in B : m <= k
  BY <1>1, LeastNumber
<1>3. m \in 0..Len(q) /\ ~\E f : ShownBy(q, b, m, f)
  OBVIOUS
<1>4. m # 0
  <2> DEFINE z == [i \in 0..0 |-> IF i = 0 THEN <<>> ELSE <<>>]
  <2>1. ShownBy(q, b, 0, z)
    BY DEF ShownBy
  <2> QED  BY <1>3, <2>1
<1>5. m - 1 \in 0..Len(q) /\ m - 1 \notin B
  BY <1>1, <1>2, <1>3, <1>4
<1>6. PICK f : ShownBy(q, b, m - 1, f)
  BY <1>5
<1> DEFINE last == IF Shows(q, b, m) THEN Append(f[m - 1], q[m]) ELSE f[m - 1]
           g == [i \in 0..m |-> IF i = m THEN last ELSE f[i]]
<1>7. ASSUME NEW i \in 0..m
      PROVE  g[i] = IF i = 0 THEN <<>>
                    ELSE IF Shows(q, b, i) THEN Append(g[i - 1], q[i]) ELSE g[i - 1]
  <2>1. CASE i = m
    BY <1>1, <1>3, <1>4, <2>1
  <2>2. CASE i # m
    <3>1. i \in 0..(m - 1) /\ (i # 0 => i - 1 \in 0..m /\ i - 1 # m)
      BY <1>1, <1>3, <2>2
    <3>2. f[i] = IF i = 0 THEN <<>>
                 ELSE IF Shows(q, b, i) THEN Append(f[i - 1], q[i]) ELSE f[i - 1]
      BY <1>6, <3>1 DEF ShownBy
    <3> QED  BY <2>2, <3>1, <3>2
  <2> QED  BY <2>1, <2>2
<1>8. ShownBy(q, b, m, g)
  BY <1>7 DEF ShownBy
<1> QED  BY <1>3, <1>8

\* It is a sequence of packets, counted out packet by packet.
LEMMA ShownFacts ==
  ASSUME NEW q \in Seq(Packets), NEW b \in BOOLEAN
  PROVE  \E f \in [0..Len(q) -> Seq(Packets)] : Steps(q, b, Len(q), f) /\ Shown(q, b) = f[Len(q)]
<1>1. PICK n \in Nat : n = Len(q)
  OBVIOUS
<1>2. PICK f : f = CHOOSE g : ShownBy(q, b, n, g)
  OBVIOUS
<1>3. ShownBy(q, b, n, f)
  BY <1>1, <1>2, ShownExists
<1>4. Shown(q, b) = f[n]
  BY <1>1, <1>2 DEF Shown, ShownBy
<1>5. f[0] = <<>>
  BY <1>3 DEF ShownBy
<1>6. \A i \in 1..n : f[i] = IF Shows(q, b, i) THEN Append(f[i - 1], q[i]) ELSE f[i - 1]
  <2>1. \A i \in 0..n : f[i] = IF i = 0 THEN <<>>
                               ELSE IF Shows(q, b, i) THEN Append(f[i - 1], q[i]) ELSE f[i - 1]
    BY <1>3 DEF ShownBy
  <2> QED  BY <2>1
<1>7. \A i \in 0..n : f[i] \in Seq(Packets)
  <2> DEFINE B == {i \in 0..n : f[i] \notin Seq(Packets)}
  <2> SUFFICES ASSUME B # {} PROVE FALSE
    OBVIOUS
  <2>1. B \subseteq Nat
    OBVIOUS
  <2>2. PICK m \in B : \A k \in B : m <= k
    BY <2>1, LeastNumber
  <2>3. m # 0
    <3>1. <<>> \in Seq(Packets)
      OBVIOUS
    <3> QED  BY <1>5, <3>1
  <2>4. m \in 1..n /\ m - 1 \in 0..n /\ m - 1 \notin B
    BY <2>2, <2>3
  <2>5. f[m - 1] \in Seq(Packets) /\ q[m] \in Packets
    BY <1>1, <2>4
  <2>6. Append(f[m - 1], q[m]) \in Seq(Packets)
    BY <2>5, AppendProperties
  <2>7. f[m] \in Seq(Packets)
    BY <1>6, <2>4, <2>5, <2>6
  <2> QED  BY <2>7
<1>8. f \in [0..n -> Seq(Packets)]
  <2>1. f = [i \in 0..n |-> f[i]]
    BY <1>3 DEF ShownBy
  <2> QED  BY <1>7, <2>1
<1>9. Steps(q, b, n, f)
  BY <1>5, <1>6 DEF Steps
<1> QED  BY <1>1, <1>4, <1>8, <1>9

\* In short.
LEMMA ShownIsSeq ==
  ASSUME NEW q \in Seq(Packets), NEW b \in BOOLEAN
  PROVE  Shown(q, b) \in Seq(Packets)
<1>1. PICK f \in [0..Len(q) -> Seq(Packets)] : Shown(q, b) = f[Len(q)]
  BY ShownFacts
<1> QED  BY <1>1

\* It depends on the packets only.
LEMMA StepsAgree ==
  ASSUME NEW n \in Nat, NEW q, NEW r, NEW b \in BOOLEAN, NEW f, NEW g,
         Steps(q, b, n, f), Steps(r, b, n, g), \A i \in 1..n : q[i] = r[i]
  PROVE  \A i \in 0..n : f[i] = g[i]
<1> DEFINE B == {i \in 0..n : f[i] # g[i]}
<1> SUFFICES ASSUME B # {} PROVE FALSE
  OBVIOUS
<1>1. B \subseteq Nat
  OBVIOUS
<1>2. PICK m \in B : \A k \in B : m <= k
  BY <1>1, LeastNumber
<1>3. m # 0
  BY DEF Steps
<1>4. m \in 1..n /\ m - 1 \in 0..n /\ m - 1 \notin B
  BY <1>2, <1>3
<1>5. f[m - 1] = g[m - 1] /\ q[m] = r[m]
  BY <1>4
<1>6. Shows(q, b, m) <=> Shows(r, b, m)
  <2>1. \A j \in 1..(m - 1) : q[j] = r[j]
    BY <1>4
  <2> QED  BY <1>5, <2>1 DEF Shows
<1>7. f[m] = g[m]
  BY <1>4, <1>5, <1>6 DEF Steps
<1> QED  BY <1>7

\* A packet at the end is shown behind the others, or not at all.
LEMMA ShownAppend ==
  ASSUME NEW q \in Seq(Packets), NEW p \in Packets, NEW b \in BOOLEAN
  PROVE  Shown(Append(q, p), b) = IF IsChat(p) /\ (b \/ HasAnswer(q))
                                  THEN Append(Shown(q, b), p) ELSE Shown(q, b)
<1>1. PICK r \in Seq(Packets), n \in Nat :
        /\ r = Append(q, p) /\ n = Len(q) /\ Len(r) = n + 1
        /\ r[n + 1] = p /\ \A i \in 1..n : q[i] = r[i]
  <2>1. Append(q, p) \in Seq(Packets) /\ Len(q) \in Nat
    BY AppendProperties
  <2>2. PICK r \in Seq(Packets), n \in Nat : r = Append(q, p) /\ n = Len(q)
    BY <2>1
  <2>3. Len(r) = n + 1 /\ r[n + 1] = p /\ \A i \in 1..n : r[i] = q[i]
    BY <2>2, AppendProperties
  <2> QED  BY <2>2, <2>3
<1>2. PICK f : Steps(q, b, n, f) /\ Shown(q, b) = f[n]
  BY <1>1, ShownFacts
<1>3. PICK g : Steps(r, b, n + 1, g) /\ Shown(r, b) = g[n + 1]
  BY <1>1, ShownFacts
<1>4. Steps(r, b, n, g) /\ g[n + 1] = IF Shows(r, b, n + 1) THEN Append(g[n], p) ELSE g[n]
  <2>1. n + 1 \in 1..(n + 1) /\ (n + 1) - 1 = n /\ 1..n \subseteq 1..(n + 1)
    OBVIOUS
  <2> QED  BY <1>1, <1>3, <2>1 DEF Steps
<1>5. f[n] = g[n]
  <2>1. Steps(q, b, n, f) /\ Steps(r, b, n, g) /\ \A i \in 1..n : q[i] = r[i]
    BY <1>1, <1>2, <1>4
  <2> HIDE <1>1, <1>2, <1>3, <1>4
  <2>2. \A i \in 0..n : f[i] = g[i]
    BY <2>1, StepsAgree
  <2> QED  BY <2>2
<1>6. Shows(r, b, n + 1) <=> IsChat(p) /\ (b \/ HasAnswer(q))
  <2>1. (n + 1) - 1 = n
    OBVIOUS
  <2> QED  BY <1>1, <2>1 DEF Shows, HasAnswer
<1> QED  BY <1>1, <1>2, <1>3, <1>4, <1>5, <1>6

\* A packet at the front is shown on the chat page when it is a chat, and
\* opens the page when it accepts the login.
LEMMA ShownFront ==
  ASSUME NEW t \in Seq(Packets), NEW p \in Packets, NEW b \in BOOLEAN, NEW d \in BOOLEAN,
         d <=> b \/ p.kind = "LoginOk", NEW first \in Seq(Packets),
         first = IF IsChat(p) /\ b THEN <<p>> ELSE <<>>
  PROVE  Shown(<<p>> \o t, b) = first \o Shown(t, d)
<1>1. PICK r \in Seq(Packets), n \in Nat :
        /\ r = <<p>> \o t /\ n = Len(t) /\ Len(r) = n + 1
        /\ r[1] = p /\ \A i \in 1..n : r[i + 1] = t[i]
  <2>1. <<p>> \in Seq(Packets) /\ Len(<<p>>) = 1 /\ <<p>>[1] = p /\ Len(t) \in Nat
    OBVIOUS
  <2>2. /\ <<p>> \o t \in Seq(Packets) /\ Len(<<p>> \o t) = 1 + Len(t)
        /\ \A i \in 1..(1 + Len(t)) : (<<p>> \o t)[i] = IF i <= 1 THEN <<p>>[i] ELSE t[i - 1]
    BY <2>1, ConcatProperties
  <2>3. PICK r \in Seq(Packets), n \in Nat : r = <<p>> \o t /\ n = Len(t)
    BY <2>1, <2>2
  <2>4. Len(r) = n + 1 /\ r[1] = p
    BY <2>1, <2>2, <2>3
  <2>5. ASSUME NEW i \in 1..n
        PROVE  r[i + 1] = t[i]
    <3>1. i + 1 \in 1..(1 + n) /\ ~(i + 1 <= 1) /\ (i + 1) - 1 = i
      OBVIOUS
    <3> QED  BY <2>2, <2>3, <3>1
  <2> QED  BY <2>3, <2>4, <2>5
<1>2. PICK f \in [0..n -> Seq(Packets)] : Steps(t, d, n, f) /\ Shown(t, d) = f[n]
  BY <1>1, ShownFacts
<1>3. PICK g : Steps(r, b, n + 1, g) /\ Shown(r, b) = g[n + 1]
  <2>1. \E g : Steps(r, b, Len(r), g) /\ Shown(r, b) = g[Len(r)]
    BY ShownFacts
  <2> QED  BY <1>1, <2>1
<1>4. g[1] = first
  <2>1. Shows(r, b, 1) <=> IsChat(p) /\ b
    BY <1>1 DEF Shows
  <2>2. g[1] = IF Shows(r, b, 1) THEN Append(<<>>, p) ELSE <<>>
    <3>1. 1 \in 1..(n + 1) /\ 1 - 1 = 0
      OBVIOUS
    <3>2. g[0] = <<>> /\ g[1] = IF Shows(r, b, 1) THEN Append(g[1 - 1], r[1]) ELSE g[1 - 1]
      BY <1>3, <3>1 DEF Steps
    <3> QED  BY <1>1, <3>1, <3>2
  <2>3. Append(<<>>, p) = <<p>>
    OBVIOUS
  <2> QED  BY <2>1, <2>2, <2>3
<1>5. PICK h : h = [i \in 0..n |-> first \o f[i]]
  OBVIOUS
<1>6. \A i \in 0..n : h[i] = first \o f[i]
  BY <1>5
<1>7. \A i \in 0..n : g[i + 1] = h[i]
  <2> DEFINE B == {i \in 0..n : g[i + 1] # h[i]}
  <2> SUFFICES ASSUME B # {} PROVE FALSE
    OBVIOUS
  <2>1. B \subseteq Nat
    OBVIOUS
  <2>2. PICK m \in B : \A k \in B : m <= k
    BY <2>1, LeastNumber
  <2>3. m # 0
    <3>1. first \o <<>> = first
      BY ConcatEmptySeq
    <3>2. f[0] = <<>>
      BY <1>2 DEF Steps
    <3>3. 0 \in 0..n /\ 0 + 1 = 1
      OBVIOUS
    <3>4. h[0] = first \o f[0]
      BY <1>6, <3>3
    <3>5. h[0] = first
      BY <3>1, <3>2, <3>4
    <3>6. 0 \notin B
      BY <1>4, <3>3, <3>5
    <3> QED  BY <3>6
  <2>4. /\ m \in 1..n /\ m - 1 \in 0..n /\ m - 1 \notin B /\ (m - 1) + 1 = m
        /\ m + 1 \in 1..(n + 1) /\ (m + 1) - 1 = m
    BY <2>2, <2>3
  <2>5. g[m] = first \o f[m - 1]
    <3>1. g[(m - 1) + 1] = h[m - 1]
      BY <2>4
    <3> QED  BY <1>6, <2>4, <3>1
  <2>6. r[m + 1] = t[m] /\ t[m] \in Packets /\ f[m - 1] \in Seq(Packets)
    <3>1. r[m + 1] = t[m] /\ f[m - 1] \in Seq(Packets)
      BY <1>1, <2>4
    <3>2. t[m] \in Packets
      BY <1>1, <2>4, ElementOfSeq
    <3> QED  BY <3>1, <3>2
  <2>7. Shows(r, b, m + 1) <=> Shows(t, d, m)
    <3>1. ASSUME b PROVE d
      BY <3>1
    <3>2. ASSUME NEW j \in 1..m, r[j].kind = "LoginOk"
          PROVE  d \/ \E k \in 1..(m - 1) : t[k].kind = "LoginOk"
      <4>1. CASE j = 1
        BY <1>1, <3>2, <4>1
      <4>2. CASE j # 1
        <5>1. j - 1 \in 1..(m - 1) /\ j - 1 \in 1..n /\ (j - 1) + 1 = j
          BY <2>4, <4>2
        <5>2. r[j] = t[j - 1]
          BY <1>1, <5>1
        <5> QED  BY <3>2, <5>1, <5>2
      <4> QED  BY <4>1, <4>2
    <3>3. ASSUME NEW j \in 1..(m - 1), t[j].kind = "LoginOk"
          PROVE  \E k \in 1..m : r[k].kind = "LoginOk"
      <4>1. j + 1 \in 1..m /\ j \in 1..n
        BY <2>4
      <4> QED  BY <1>1, <3>3, <4>1
    <3>4. ASSUME d PROVE b \/ \E k \in 1..m : r[k].kind = "LoginOk"
      <4>1. 1 \in 1..m
        BY <2>4
      <4> QED  BY <1>1, <3>4, <4>1
    <3> QED  BY <2>4, <2>6, <3>1, <3>2, <3>3, <3>4 DEF Shows
  <2>8. g[m + 1] = IF Shows(r, b, m + 1) THEN Append(g[m], r[m + 1]) ELSE g[m]
    BY <1>3, <2>4 DEF Steps
  <2>9. f[m] = IF Shows(t, d, m) THEN Append(f[m - 1], t[m]) ELSE f[m - 1]
    BY <1>2, <2>4 DEF Steps
  <2>10. first \o Append(f[m - 1], t[m]) = Append(first \o f[m - 1], t[m])
    <3>1. PICK x \in Packets, y \in Seq(Packets) : x = t[m] /\ y = f[m - 1]
      BY <2>6
    <3>2. first \o Append(y, x) = Append(first \o y, x)
      BY ConcatAppend
    <3> QED  BY <3>1, <3>2
  <2>11. g[m + 1] = first \o f[m]
    BY <2>5, <2>6, <2>7, <2>8, <2>9, <2>10
  <2>12. m \in 0..n /\ g[m + 1] # h[m]
    OBVIOUS
  <2> QED  BY <1>6, <2>11, <2>12
<1>8. g[n + 1] = first \o f[n]
  <2>1. n \in 0..n
    OBVIOUS
  <2>2. g[n + 1] = h[n]
    BY <1>7, <2>1
  <2>3. h[n] = first \o f[n]
    BY <1>6, <2>1
  <2> QED  BY <2>2, <2>3
<1> QED  BY <1>1, <1>2, <1>3, <1>8

\* Nothing is shown on the login page when no login is accepted.
LEMMA ShownNothing ==
  ASSUME NEW q \in Seq(Packets), ~HasAnswer(q)
  PROVE  Shown(q, FALSE) = <<>>
<1>1. PICK n \in Nat : n = Len(q)
  OBVIOUS
<1>2. PICK f : Steps(q, FALSE, n, f) /\ Shown(q, FALSE) = f[n]
  BY <1>1, ShownFacts
<1>3. \A i \in 1..n : ~Shows(q, FALSE, i)
  BY <1>1 DEF Shows, HasAnswer
<1>4. \A i \in 0..n : f[i] = <<>>
  <2> DEFINE B == {i \in 0..n : f[i] # <<>>}
  <2> SUFFICES ASSUME B # {} PROVE FALSE
    OBVIOUS
  <2>1. B \subseteq Nat
    OBVIOUS
  <2>2. PICK m \in B : \A k \in B : m <= k
    BY <2>1, LeastNumber
  <2>3. m # 0
    BY <1>2 DEF Steps
  <2>4. m \in 1..n /\ m - 1 \in 0..n /\ m - 1 \notin B
    BY <2>2, <2>3
  <2>5. f[m] = f[m - 1]
    BY <1>2, <1>3, <2>4 DEF Steps
  <2>6. f[m - 1] = <<>>
    BY <2>4
  <2> QED  BY <2>5, <2>6
<1>5. f[n] = <<>>
  BY <1>4
<1> QED  BY <1>2, <1>5

-----------------------------------------------------------------------------
(* What a client reads.                                                    *)

\* The start of a sequence, as it grows and by itself.
LEMMA StartFacts ==
  ASSUME NEW a \in Seq(Packets), NEW b \in Seq(Packets), NEW p \in Packets
  PROVE  /\ IsStart(<<>>, a) /\ IsStart(a, a \o b)
         /\ IsStart(a, b) => IsStart(a, Append(b, p))
<1>1. IsStart(<<>>, a)
  BY DEF IsStart
<1>2. IsStart(a, a \o b)
  <2>1. /\ Len(a) \in Nat /\ Len(b) \in Nat /\ Len(a \o b) = Len(a) + Len(b)
        /\ \A i \in 1..(Len(a) + Len(b)) : (a \o b)[i] = IF i <= Len(a) THEN a[i] ELSE b[i - Len(a)]
    BY ConcatProperties
  <2> QED  BY <2>1 DEF IsStart
<1>3. IsStart(a, b) => IsStart(a, Append(b, p))
  <2>1. /\ Len(a) \in Nat /\ Len(b) \in Nat /\ Len(Append(b, p)) = Len(b) + 1
        /\ \A i \in 1..Len(b) : Append(b, p)[i] = b[i]
    BY AppendProperties
  <2> QED  BY <2>1 DEF IsStart
<1> QED  BY <1>1, <1>2, <1>3

\* The answers in a sequence that grows at either end.
LEMMA AnswerFacts ==
  ASSUME NEW a \in Seq(Packets), NEW p \in Packets
  PROVE  /\ HasAnswer(Append(a, p)) <=> HasAnswer(a) \/ p.kind = "LoginOk"
         /\ HasAnswer(<<p>> \o a) <=> HasAnswer(a) \/ p.kind = "LoginOk"
<1>1. HasAnswer(Append(a, p)) <=> HasAnswer(a) \/ p.kind = "LoginOk"
  <2>1. /\ Len(a) \in Nat /\ Len(Append(a, p)) = Len(a) + 1
        /\ \A i \in 1..Len(a) : Append(a, p)[i] = a[i]
        /\ Append(a, p)[Len(a) + 1] = p
    BY AppendProperties
  <2> QED  BY <2>1 DEF HasAnswer
<1>2. HasAnswer(<<p>> \o a) <=> HasAnswer(a) \/ p.kind = "LoginOk"
  <2>1. <<p>> \in Seq(Packets) /\ Len(<<p>>) = 1 /\ <<p>>[1] = p /\ Len(a) \in Nat
    OBVIOUS
  <2>2. PICK q : q = <<p>> \o a
    OBVIOUS
  <2>3. /\ Len(q) = 1 + Len(a)
        /\ \A i \in 1..(1 + Len(a)) : q[i] = IF i <= 1 THEN <<p>>[i] ELSE a[i - 1]
    BY <2>1, <2>2, ConcatProperties
  <2>4. q[1] = p
    BY <2>1, <2>3
  <2>5. ASSUME NEW i \in 1..Len(a)
        PROVE  i + 1 \in 1..Len(q) /\ q[i + 1] = a[i]
    <3>1. i + 1 \in 1..(1 + Len(a)) /\ ~(i + 1 <= 1) /\ (i + 1) - 1 = i
      BY <2>1
    <3> QED  BY <2>3, <3>1
  <2>6. ASSUME NEW i \in 1..Len(q), i # 1
        PROVE  i - 1 \in 1..Len(a) /\ q[i] = a[i - 1]
    BY <2>1, <2>3, <2>6
  <2>7. ASSUME HasAnswer(q) PROVE HasAnswer(a) \/ p.kind = "LoginOk"
    BY <2>4, <2>6, <2>7 DEF HasAnswer
  <2>8. ASSUME HasAnswer(a) PROVE HasAnswer(q)
    BY <2>5, <2>8 DEF HasAnswer
  <2>9. ASSUME p.kind = "LoginOk" PROVE HasAnswer(q)
    BY <2>1, <2>3, <2>4, <2>9 DEF HasAnswer
  <2> QED  BY <2>2, <2>7, <2>8, <2>9
<1> QED  BY <1>1, <1>2

\* What is in flight, by where the receive thread is.
LEMMA FlightFacts ==
  ASSUME MessagesInv, NEW c \in Client
  PROVE  /\ toClient[c] \in Seq(Packets) /\ InFlight(c) \in Seq(Packets)
         /\ rx[c] \in {"login", "parse", "show"} =>
              rxPacket[c] \in Packets /\ InFlight(c) = <<rxPacket[c]>> \o toClient[c]
         /\ rx[c] \notin {"login", "parse", "show"} => InFlight(c) = toClient[c]
<1>1. toClient[c] \in Seq(Packets) /\ (rx[c] \in {"login", "parse", "show"} => rxPacket[c] \in Packets)
  BY DEF MessagesInv, LoginInv, Types, Reads, ReceiverAndPage
<1>2. CASE rx[c] \in {"login", "parse", "show"}
  <2>1. <<rxPacket[c]>> \in Seq(Packets)
    BY <1>1, <1>2
  <2>2. InFlight(c) = <<rxPacket[c]>> \o toClient[c]
    BY <1>2 DEF InFlight
  <2> QED  BY <1>1, <1>2, <2>1, <2>2, ConcatProperties
<1>3. CASE rx[c] \notin {"login", "parse", "show"}
  <2>1. InFlight(c) = <<>> \o toClient[c]
    BY <1>3 DEF InFlight
  <2> QED  BY <1>1, <1>3, <2>1, ConcatEmptySeq
<1> QED  BY <1>2, <1>3

\* A step that leaves what c has and what is in flight to it leaves what it reads.
LEMMA ReadsUnchanged ==
  ASSUME NEW c \in Client, Reads(c), InFlight(c)' = InFlight(c),
         page'[c] = page[c], rx'[c] = rx[c], rxPacket'[c] = rxPacket[c],
         rxChat'[c] = rxChat[c], Messages'[c] = Messages[c],
         (c \in admitted' <=> c \in admitted), due'[c] = due[c]
  PROVE  Reads(c)'
  BY DEF Reads, ReceiverAndPage, AnswerIsComing, NothingMissed, Coming, Lost

\* A packet goes from the connection to the receive thread.
LEMMA ReceiveReads ==
  ASSUME MessagesInv, NEW c \in Client, Receive(c)
  PROVE  Reads(c)'
<1>1. Reads(c) /\ toClient[c] # <<>> /\ rx[c] = "read" /\ toClient[c] \in Seq(Packets)
  BY FlightFacts DEF MessagesInv, Receive
<1>2. PICK h \in Packets, t \in Seq(Packets) :
        h = Head(toClient[c]) /\ t = Tail(toClient[c]) /\ <<h>> \o t = toClient[c]
  BY <1>1, HeadAndTail
<1>3. /\ rx'[c] = "login" /\ rxPacket'[c] = h /\ toClient'[c] = t
      /\ rxChat'[c] = (page[c] = "chat")
  BY <1>2 DEF Receive, MessagesInv, LoginInv, Types, MessageTypes
<1>4. UNCHANGED <<page, Messages, admitted, due>>
  BY DEF Receive, ui, server, answers
<1>5. InFlight(c)' = InFlight(c)
  <2>1. InFlight(c)' = <<h>> \o t
    BY <1>3 DEF InFlight
  <2>2. InFlight(c) = toClient[c]
    BY <1>1, FlightFacts
  <2> QED  BY <1>2, <2>1, <2>2
<1>6. ReceiverAndPage(c)'
  BY <1>1, <1>2, <1>3, <1>4 DEF Reads, ReceiverAndPage
<1>7. ~Lost(c) /\ ~Lost(c)'
  BY <1>1, <1>3 DEF Lost
<1>8. AnswerIsComing(c)' /\ NothingMissed(c)'
  BY <1>1, <1>4, <1>5, <1>7 DEF Reads, AnswerIsComing, NothingMissed, Coming
<1> QED  BY <1>1, <1>4, <1>6, <1>8 DEF Reads

\* The answer opens the chat page, which shows what comes behind it; a second
\* one empties it, and its handler is about to throw.
LEMMA LoginPageHandlesReads ==
  ASSUME MessagesInv, NEW c \in Client, LoginPageHandles(c)
  PROVE  Reads(c)'
<1>1. Reads(c) /\ rx[c] = "login" /\ ~Lost(c)
  BY DEF MessagesInv, LoginPageHandles, Lost
<1>2. PICK p \in Packets, t \in Seq(Packets) :
        p = rxPacket[c] /\ t = toClient[c] /\ InFlight(c) = <<p>> \o t
  BY <1>1, FlightFacts
<1>3. /\ page'[c] = IF p.kind = "LoginOk" THEN "chat" ELSE page[c]
      /\ Messages'[c] = IF p.kind = "LoginOk" THEN <<>> ELSE Messages[c]
      /\ rx'[c] = IF rxChat[c] THEN "parse" ELSE "read"
  BY <1>2 DEF LoginPageHandles, NextHandler, MessagesInv, LoginInv, Types, MessageTypes
<1>4. UNCHANGED <<rxPacket, rxChat, toClient, admitted, due>>
  BY DEF LoginPageHandles, server, answers
<1>5. page[c] \in {"login", "chat"} /\ rxChat[c] \in BOOLEAN /\ (rxChat[c] <=> page[c] = "chat")
      /\ due[c] \in Seq(Packets)
  BY <1>1 DEF MessagesInv, LoginInv, Types, MessageTypes, Reads, ReceiverAndPage
<1>6. CASE ~rxChat[c]
  <2>1. page[c] = "login" /\ Messages[c] = <<>> /\ Messages'[c] = <<>> /\ rx'[c] = "read"
    BY <1>1, <1>3, <1>5, <1>6 DEF Reads, ReceiverAndPage
  <2>2. InFlight(c)' = t
    <3>1. InFlight(c)' = <<>> \o t
      BY <1>2, <1>4, <2>1 DEF InFlight
    <3> QED  BY <3>1, ConcatEmptySeq
  <2>3. PICK d \in BOOLEAN : d <=> p.kind = "LoginOk"
    OBVIOUS
  <2>4. page'[c] = "chat" <=> d
    BY <1>3, <2>1, <2>3
  <2>5. Shown(<<p>> \o t, FALSE) = Shown(t, d)
    <3>1. <<>> \in Seq(Packets) /\ FALSE \in BOOLEAN /\ (d <=> FALSE \/ p.kind = "LoginOk")
      BY <2>3
    <3>2. <<>> = IF IsChat(p) /\ FALSE THEN <<p>> ELSE <<>>
      OBVIOUS
    <3>3. Shown(<<p>> \o t, FALSE) = <<>> \o Shown(t, d)
      BY <3>1, <3>2, ShownFront
    <3>4. Shown(t, d) \in Seq(Packets)
      BY ShownIsSeq
    <3> QED  BY <3>3, <3>4, ConcatEmptySeq
  <2>6. Coming(c) = Shown(<<p>> \o t, FALSE)
    <3>1. (page[c] = "chat") = FALSE
      BY <2>1
    <3> QED  BY <1>2, <3>1 DEF Coming
  <2>7. Coming(c)' = Shown(t, d)
    <3>1. (page'[c] = "chat") = d
      BY <2>4
    <3> QED  BY <2>2, <3>1 DEF Coming
  <2>8. ReceiverAndPage(c)'
    BY <2>1 DEF ReceiverAndPage
  <2>9. AnswerIsComing(c)'
    <3>1. HasAnswer(InFlight(c)) <=> HasAnswer(t) \/ p.kind = "LoginOk"
      BY <1>2, AnswerFacts
    <3> QED  BY <1>1, <1>3, <1>4, <2>1, <2>2, <3>1 DEF Reads, AnswerIsComing
  <2>10. NothingMissed(c)'
    BY <1>1, <1>4, <2>1, <2>5, <2>6, <2>7 DEF Reads, NothingMissed
  <2>11. IsStart(Messages[c], due[c])'
    BY <1>4, <1>5, <2>1, StartFacts, <1>2
  <2> QED  BY <2>8, <2>9, <2>10, <2>11 DEF Reads
<1>7. CASE rxChat[c] /\ p.kind # "LoginOk"
  <2>1. page'[c] = page[c] /\ page[c] = "chat" /\ Messages'[c] = Messages[c] /\ rx'[c] = "parse"
    BY <1>3, <1>5, <1>7
  <2>2. InFlight(c)' = InFlight(c)
    BY <1>1, <1>4, <2>1 DEF InFlight
  <2>3. ReceiverAndPage(c)'
    BY <1>2, <1>4, <2>1 DEF ReceiverAndPage
  <2>4. AnswerIsComing(c)' /\ NothingMissed(c)'
    BY <1>1, <1>4, <2>1, <2>2 DEF Reads, AnswerIsComing, NothingMissed, Coming
  <2> QED  BY <1>1, <1>4, <2>1, <2>3, <2>4 DEF Reads
<1>8. CASE rxChat[c] /\ p.kind = "LoginOk"
  <2>1. page'[c] = "chat" /\ page[c] = "chat" /\ Messages'[c] = <<>> /\ rx'[c] = "parse"
    BY <1>3, <1>5, <1>8
  <2>2. Lost(c)'
    BY <1>2, <1>4, <1>8, <2>1 DEF Lost, IsChat
  <2>3. ReceiverAndPage(c)'
    BY <1>2, <1>4, <2>1 DEF ReceiverAndPage
  <2>4. AnswerIsComing(c)' /\ NothingMissed(c)'
    BY <1>1, <1>4, <2>1, <2>2 DEF Reads, AnswerIsComing, NothingMissed
  <2>5. IsStart(Messages[c], due[c])'
    BY <1>2, <1>4, <1>5, <2>1, StartFacts
  <2> QED  BY <2>3, <2>4, <2>5 DEF Reads
<1> QED  BY <1>5, <1>6, <1>7, <1>8

\* A chat that was coming is shown.
LEMMA ChatPageShowsReads ==
  ASSUME MessagesInv, NEW c \in Client, ChatPageShows(c)
  PROVE  Reads(c)' /\ Messages' \in [Client -> Seq(Packets)]
<1>1. Reads(c) /\ rx[c] = "show" /\ ~Lost(c) /\ page[c] = "chat" /\ c \in admitted
  BY DEF MessagesInv, ChatPageShows, Lost, LoginInv, ChatPageIsAdmitted, Reads, ReceiverAndPage
<1>2. PICK p \in Packets, t \in Seq(Packets) :
        p = rxPacket[c] /\ t = toClient[c] /\ InFlight(c) = <<p>> \o t
  BY <1>1, FlightFacts
<1>3. PICK q \in Seq(Packets) : q = Messages[c]
  BY DEF MessagesInv, MessageTypes
<1>4. Messages'[c] = Append(q, p) /\ rx'[c] = "read" /\ Append(q, p) \in Seq(Packets)
  BY <1>2, <1>3, AppendProperties DEF ChatPageShows, MessagesInv, LoginInv, Types, MessageTypes
<1>5. UNCHANGED <<page, rxPacket, rxChat, toClient, admitted, due>>
  BY DEF ChatPageShows, server, answers
<1>6. InFlight(c)' = t
  <2>1. InFlight(c)' = <<>> \o t
    BY <1>2, <1>4, <1>5 DEF InFlight
  <2> QED  BY <2>1, ConcatEmptySeq
<1>7. PICK s \in Seq(Packets) : s = Shown(t, TRUE)
  BY ShownIsSeq
<1>8. Coming(c)' = s
  <2>1. (page'[c] = "chat") = TRUE
    BY <1>1, <1>5
  <2> QED  BY <1>6, <1>7, <2>1 DEF Coming
<1>9. Coming(c) = <<p>> \o s
  <2>1. (page[c] = "chat") = TRUE
    BY <1>1
  <2>2. Coming(c) = Shown(<<p>> \o t, TRUE)
    BY <1>2, <2>1 DEF Coming
  <2>3. /\ TRUE \in BOOLEAN /\ (TRUE <=> TRUE \/ p.kind = "LoginOk")
        /\ <<p>> \in Seq(Packets) /\ <<p>> = IF IsChat(p) /\ TRUE THEN <<p>> ELSE <<>>
    BY <1>1, <1>2 DEF Reads, ReceiverAndPage
  <2>4. Shown(<<p>> \o t, TRUE) = <<p>> \o Shown(t, TRUE)
    BY <2>3, ShownFront
  <2> QED  BY <1>7, <2>2, <2>4
<1>10. due[c] = Append(q, p) \o s
  <2>1. due[c] = q \o (<<p>> \o s)
    BY <1>1, <1>3, <1>9 DEF Reads, NothingMissed
  <2>2. Append(q, p) \o s = q \o (<<p>> \o s)
    BY ConcatBetween
  <2> QED  BY <2>1, <2>2
<1>11. NothingMissed(c)'
  BY <1>4, <1>5, <1>8, <1>10 DEF NothingMissed
<1>12. IsStart(Messages[c], due[c])'
  BY <1>2, <1>4, <1>5, <1>7, <1>10, StartFacts
<1>13. ReceiverAndPage(c)' /\ AnswerIsComing(c)'
  BY <1>1, <1>4, <1>5 DEF ReceiverAndPage, AnswerIsComing
<1>14. Messages' \in [Client -> Seq(Packets)]
  BY <1>2, <1>3, <1>4 DEF ChatPageShows, MessagesInv, MessageTypes
<1> QED  BY <1>11, <1>12, <1>13, <1>14 DEF Reads

\* The chat page parses a chat and will show it, or throws.
LEMMA ChatPageParsesReads ==
  ASSUME MessagesInv, NEW c \in Client, ChatPageParses(c)
  PROVE  Reads(c)'
<1>1. Reads(c) /\ rx[c] = "parse" /\ page[c] = "chat"
  BY DEF MessagesInv, ChatPageParses, Reads, ReceiverAndPage
<1>2. UNCHANGED <<page, rxPacket, rxChat, toClient, admitted, due, Messages>>
      /\ rx'[c] = IF IsChat(rxPacket[c]) THEN "show" ELSE "failing"
  BY DEF ChatPageParses, server, answers, ui, MessagesInv, LoginInv, Types
<1>3. ReceiverAndPage(c)' /\ AnswerIsComing(c)'
  BY <1>1, <1>2 DEF Reads, ReceiverAndPage, AnswerIsComing
<1>4. CASE IsChat(rxPacket[c])
  <2>1. ~Lost(c) /\ ~Lost(c)' /\ InFlight(c)' = InFlight(c)
    BY <1>1, <1>2, <1>4 DEF Lost, InFlight
  <2> QED  BY <1>1, <1>2, <1>3, <2>1 DEF Reads, NothingMissed, Coming
<1>5. CASE ~IsChat(rxPacket[c])
  <2>1. Lost(c)'
    BY <1>2, <1>5 DEF Lost
  <2> QED  BY <1>1, <1>2, <1>3, <2>1 DEF Reads, NothingMissed
<1> QED  BY <1>4, <1>5

\* The receive thread fails or ends; what was shown stays.
LEMMA EndReads ==
  ASSUME MessagesInv, NEW c \in Client, rx'[c] \in {"failing", "ended"},
         UNCHANGED <<page, rxPacket, rxChat, toClient, admitted, due, Messages>>
  PROVE  Reads(c)'
<1>1. Reads(c) /\ Lost(c)'
  BY DEF MessagesInv, Lost
<1> QED  BY <1>1 DEF Reads, ReceiverAndPage, AnswerIsComing, NothingMissed

\* A packet the server sends is behind those in flight.
LEMMA FlightGrows ==
  ASSUME MessagesInv, NEW c \in Client, NEW p \in Packets,
         rx'[c] = rx[c], rxPacket'[c] = rxPacket[c], toClient'[c] = Append(toClient[c], p)
  PROVE  InFlight(c)' = Append(InFlight(c), p)
<1>1. PICK t \in Seq(Packets) : t = toClient[c]
  BY FlightFacts
<1>2. CASE rx[c] \in {"login", "parse", "show"}
  <2>1. PICK x \in Packets : x = rxPacket[c] /\ InFlight(c) = <<x>> \o t
    BY <1>1, <1>2, FlightFacts
  <2>2. InFlight(c)' = <<x>> \o Append(t, p)
    BY <1>1, <1>2, <2>1 DEF InFlight
  <2>3. <<x>> \in Seq(Packets)
    OBVIOUS
  <2>4. <<x>> \o Append(t, p) = Append(<<x>> \o t, p)
    BY <2>3, ConcatAppend
  <2> QED  BY <2>1, <2>2, <2>4
<1>3. CASE rx[c] \notin {"login", "parse", "show"}
  <2>1. InFlight(c) = t
    BY <1>1, <1>3, FlightFacts
  <2>2. InFlight(c)' = <<>> \o Append(t, p)
    BY <1>1, <1>3 DEF InFlight
  <2>3. Append(t, p) \in Seq(Packets)
    BY AppendProperties
  <2> QED  BY <2>1, <2>2, <2>3, ConcatEmptySeq
<1> QED  BY <1>2, <1>3

\* An answer comes behind what is in flight; the one that accepts the login is
\* the first, and nothing was due before it.
LEMMA AnswerReads ==
  ASSUME MessagesInv, NEW c \in Client, NEW p \in Packets, ~IsChat(p),
         toClient'[c] = Append(toClient[c], p),
         c \in admitted' <=> c \in admitted \/ p.kind = "LoginOk",
         UNCHANGED <<page, rx, rxPacket, rxChat, Messages, due>>
  PROVE  Reads(c)'
<1>1. Reads(c) /\ page[c] \in {"login", "chat"} /\ (Lost(c) <=> Lost(c)')
  BY DEF MessagesInv, LoginInv, Types, Lost
<1>2. PICK q \in Seq(Packets), b \in BOOLEAN : q = InFlight(c) /\ (b <=> page[c] = "chat")
  BY FlightFacts
<1>3. InFlight(c)' = Append(q, p)
  BY <1>2, FlightGrows
<1>4. HasAnswer(Append(q, p)) <=> HasAnswer(q) \/ p.kind = "LoginOk"
  BY AnswerFacts
<1>5. Coming(c) = Shown(q, b) /\ Coming(c)' = Shown(q, b)
  <2>1. (page[c] = "chat") = b /\ (page'[c] = "chat") = b
    BY <1>2
  <2>2. Shown(Append(q, p), b) = Shown(q, b)
    BY ShownAppend
  <2> QED  BY <1>2, <1>3, <2>1, <2>2 DEF Coming
<1>6. ReceiverAndPage(c)'
  BY <1>1 DEF Reads, ReceiverAndPage
<1>7. AnswerIsComing(c)'
  BY <1>1, <1>2, <1>3, <1>4 DEF Reads, AnswerIsComing
<1>8. NothingMissed(c)'
  <2>1. CASE c \in admitted
    BY <1>1, <1>5, <2>1 DEF Reads, NothingMissed
  <2>2. CASE c \notin admitted
    <3>1. page[c] = "login" /\ Messages[c] = <<>> /\ due[c] = <<>>
      BY <1>1, <2>2 DEF Reads, ReceiverAndPage, AnswerIsComing, MessagesInv, LoginInv,
         ChatPageIsAdmitted
    <3>2. ~Accepted(c) /\ rx[c] \notin {"parse", "show"}
      BY <1>1, <2>2, <3>1 DEF MessagesInv, LoginInv, AcceptedIsAdmitted, Reads, ReceiverAndPage
    <3>3. ~HasAnswer(q)
      <4>1. toClient[c] \in Seq(Packets) /\ ~HasAnswer(toClient[c])
        <5>1. toClient[c] \in Seq(Packets)
          BY FlightFacts
        <5>2. DOMAIN toClient[c] = 1..Len(toClient[c])
          BY <5>1
        <5> QED  BY <3>2, <5>1, <5>2 DEF Accepted, HasAnswer
      <4>2. CASE rx[c] = "login"
        <5>1. rxPacket[c] \in Packets /\ q = <<rxPacket[c]>> \o toClient[c]
          BY <1>2, <4>2, FlightFacts
        <5>2. rxPacket[c].kind # "LoginOk"
          BY <3>2, <4>2 DEF Accepted
        <5> QED  BY <4>1, <5>1, <5>2, AnswerFacts
      <4>3. CASE rx[c] # "login"
        BY <1>2, <3>2, <4>1, <4>3, FlightFacts
      <4> QED  BY <4>2, <4>3
    <3>4. b = FALSE /\ Shown(q, FALSE) = <<>>
      BY <1>2, <3>1, <3>3, ShownNothing
    <3>5. Messages'[c] = <<>> /\ Coming(c)' = <<>> /\ due'[c] = <<>>
      BY <1>5, <3>1, <3>4
    <3>6. <<>> \o <<>> = <<>>
      BY ConcatEmptySeq, <1>2
    <3> QED  BY <3>5, <3>6 DEF NothingMissed
  <2> QED  BY <2>1, <2>2
<1> QED  BY <1>1, <1>6, <1>7, <1>8 DEF Reads

\* A chat sent to a client that is logged in is due, and it is coming.
LEMMA BroadcastReads ==
  ASSUME MessagesInv, NEW c \in Client, NEW p \in Packets, IsChat(p),
         toClient'[c] = Append(toClient[c], p),
         due'[c] = IF c \in admitted THEN Append(due[c], p) ELSE due[c],
         UNCHANGED <<page, rx, rxPacket, rxChat, Messages, admitted>>
  PROVE  Reads(c)'
<1>1. Reads(c) /\ page[c] \in {"login", "chat"} /\ (Lost(c) <=> Lost(c)') /\ p.kind # "LoginOk"
  BY DEF MessagesInv, LoginInv, Types, Lost, IsChat
<1>2. PICK q \in Seq(Packets), b \in BOOLEAN : q = InFlight(c) /\ (b <=> page[c] = "chat")
  BY FlightFacts
<1>3. InFlight(c)' = Append(q, p)
  BY <1>2, FlightGrows
<1>4. HasAnswer(Append(q, p)) <=> HasAnswer(q)
  BY <1>1, AnswerFacts
<1>5. ReceiverAndPage(c)' /\ AnswerIsComing(c)'
  BY <1>1, <1>2, <1>3, <1>4 DEF Reads, ReceiverAndPage, AnswerIsComing
<1>6. PICK d \in Seq(Packets), m \in Seq(Packets) : d = due[c] /\ m = Messages[c]
  BY DEF MessagesInv, MessageTypes
<1>7. IsStart(m, d) /\ IsStart(m, Append(d, p))
  BY <1>1, <1>6, StartFacts DEF Reads
<1>8. IsStart(Messages[c], due[c])'
  BY <1>6, <1>7
<1>9. ASSUME c \in admitted, ~Lost(c)
      PROVE  due'[c] = Messages'[c] \o Coming(c)'
  <2>1. (page[c] = "chat") = b /\ (page'[c] = "chat") = b
    BY <1>2
  <2>2. PICK s \in Seq(Packets) : s = Shown(q, b)
    BY ShownIsSeq
  <2>3. d = m \o s
    BY <1>1, <1>2, <1>6, <1>9, <2>1, <2>2 DEF Reads, NothingMissed, Coming
  <2>4. b \/ HasAnswer(q)
    BY <1>1, <1>2, <1>9 DEF Reads, AnswerIsComing
  <2>5. Coming(c)' = Append(s, p)
    <3>1. Shown(Append(q, p), b) = Append(s, p)
      BY <2>2, <2>4, ShownAppend
    <3> QED  BY <1>3, <2>1, <3>1 DEF Coming
  <2>6. m \o Append(s, p) = Append(m \o s, p)
    BY ConcatAppend
  <2> QED  BY <1>6, <1>9, <2>3, <2>5, <2>6
<1>10. NothingMissed(c)'
  BY <1>1, <1>9 DEF NothingMissed
<1> QED  BY <1>5, <1>8, <1>10 DEF Reads

-----------------------------------------------------------------------------
(* What the server does with what clients write.                           *)

\* The next message of a writer, or one of another, behind those of w.
LEMMA OrderGrows ==
  ASSUME NEW q \in Seq(Packets), NEW p \in Packets, NEW w, NEW n \in Int,
         InOrder(q, w), p.from = w => LastIs(q, w, n) /\ p.n = n + 1
  PROVE  InOrder(Append(q, p), w)
<1>1. PICK r \in Seq(Packets), k \in Nat : r = Append(q, p) /\ k = Len(q)
  <2>1. Append(q, p) \in Seq(Packets) /\ Len(q) \in Nat
    BY AppendProperties
  <2> QED  BY <2>1
<1>2. Len(r) = k + 1 /\ r[k + 1] = p /\ \A i \in 1..k : r[i] = q[i]
  BY <1>1, AppendProperties
<1>3. ASSUME NEW i \in 1..(k + 1), NEW j \in 1..(k + 1), i < j, r[i].from = w, r[j].from = w,
             \A l \in (i + 1)..(j - 1) : r[l].from # w
      PROVE  r[j].n = r[i].n + 1
  <2>1. i \in 1..k /\ r[i] = q[i]
    BY <1>2, <1>3
  <2>2. CASE j \in 1..k
    <3>1. r[j] = q[j] /\ \A l \in (i + 1)..(j - 1) : q[l].from # w
      <4>1. \A l \in (i + 1)..(j - 1) : l \in 1..k
        BY <2>1, <2>2
      <4> QED  BY <1>2, <1>3, <2>2, <4>1
    <3> QED  BY <1>1, <1>3, <2>1, <2>2, <3>1 DEF InOrder
  <2>3. CASE j = k + 1
    <3>1. p.from = w /\ LastIs(q, w, n) /\ p.n = n + 1 /\ r[j] = p
      BY <1>2, <1>3, <2>3
    <3>2. \A l \in (i + 1)..k : q[l].from # w
      <4>1. \A l \in (i + 1)..k : l \in 1..k /\ l \in (i + 1)..(j - 1)
        BY <2>1, <2>3
      <4> QED  BY <1>2, <1>3, <4>1
    <3>3. q[i].n = n
      BY <1>1, <1>3, <2>1, <3>1, <3>2 DEF LastIs
    <3> QED  BY <2>1, <3>1, <3>3
  <2> QED  BY <2>2, <2>3
<1> QED  BY <1>1, <1>2, <1>3 DEF InOrder

\* Which message of w is then the last.
LEMMA LastGrows ==
  ASSUME NEW q \in Seq(Packets), NEW p \in Packets, NEW w, NEW n,
         p.from = w => p.n = n, p.from # w => LastIs(q, w, n)
  PROVE  LastIs(Append(q, p), w, n)
<1>1. PICK r \in Seq(Packets), k \in Nat : r = Append(q, p) /\ k = Len(q)
  <2>1. Append(q, p) \in Seq(Packets) /\ Len(q) \in Nat
    BY AppendProperties
  <2> QED  BY <2>1
<1>2. Len(r) = k + 1 /\ r[k + 1] = p /\ \A i \in 1..k : r[i] = q[i]
  BY <1>1, AppendProperties
<1>3. ASSUME NEW i \in 1..(k + 1), r[i].from = w,
             \A l \in (i + 1)..(k + 1) : r[l].from # w
      PROVE  r[i].n = n
  <2>1. CASE i = k + 1
    BY <1>2, <1>3, <2>1
  <2>2. CASE i # k + 1
    <3>1. i \in 1..k /\ r[i] = q[i] /\ k + 1 \in (i + 1)..(k + 1)
      BY <1>2, <2>2
    <3>2. p.from # w
      BY <1>2, <1>3, <3>1
    <3>3. \A l \in (i + 1)..k : l \in 1..k /\ l \in (i + 1)..(k + 1)
      BY <3>1
    <3>4. \A l \in (i + 1)..k : q[l].from # w
      BY <1>2, <1>3, <3>3
    <3> QED  BY <1>1, <1>3, <3>1, <3>2, <3>4 DEF LastIs
  <2> QED  BY <2>1, <2>2
<1> QED  BY <1>1, <1>2, <1>3 DEF LastIs

\* A sequence without a message of w is in order, and ends as one likes.
LEMMA NoneFrom ==
  ASSUME NEW q, NEW w, ~HasFrom(q, w)
  PROVE  InOrder(q, w) /\ \A n : LastIs(q, w, n)
  BY DEF HasFrom, InOrder, LastIs

\* The start of a sequence in order is in order.
LEMMA StartInOrder ==
  ASSUME NEW p \in Seq(Packets), NEW q \in Seq(Packets), NEW w, IsStart(p, q), InOrder(q, w)
  PROVE  InOrder(p, w)
<1>1. PICK k \in Nat, l \in Nat : k = Len(p) /\ l = Len(q)
  OBVIOUS
<1>2. k <= l /\ \A i \in 1..k : p[i] = q[i] /\ i \in 1..l
  BY <1>1 DEF IsStart
<1>3. ASSUME NEW i \in 1..k, NEW j \in 1..k, i < j, p[i].from = w, p[j].from = w,
             \A m \in (i + 1)..(j - 1) : p[m].from # w
      PROVE  p[j].n = p[i].n + 1
  <2>1. \A m \in (i + 1)..(j - 1) : m \in 1..k
    OBVIOUS
  <2>2. \A m \in (i + 1)..(j - 1) : q[m].from # w
    BY <1>2, <1>3, <2>1
  <2> QED  BY <1>1, <1>2, <1>3, <2>2 DEF InOrder
<1> QED  BY <1>1, <1>3 DEF InOrder

\* The page changes nothing of it.
LEMMA PageWrites ==
  ASSUME Writes, \A c \in Client : page'[c] = "login" => page[c] = "login",
         UNCHANGED <<sent, toServer, hSocket, mSessions, accepting, broadcast, due>>
  PROVE  Writes'
<1>1. \A c \in Client : Uploads(c)' /\ Broadcasts(c)' /\ Sends(c)'
  BY DEF Writes, Uploads, Broadcasts, Sends, Taken
<1>2. \A c, w \in Client : UpToDate(c, w)' /\ InOrder(due[c], w)'
  BY DEF Writes, UpToDate, Taken
<1> QED  BY <1>1, <1>2 DEF Writes

\* What is about one writer depends on what it sent and on the sessions.
LEMMA UploadsUnchanged ==
  ASSUME NEW w \in Client, Uploads(w), page'[w] = page[w], sent'[w] = sent[w],
         toServer'[w] = toServer[w]
  PROVE  Uploads(w)'
  BY DEF Uploads

\* A login or register request goes before any message.
LEMMA RequestWrites ==
  ASSUME MessagesInv, NEW c \in Client, NEW p \in Packets, page[c] = "login", ~IsChat(p),
         toServer' = [toServer EXCEPT ![c] = Append(@, p)],
         UNCHANGED <<page, sent, hSocket, mSessions, accepting, broadcast, due>>
  PROVE  Writes'
<1>1. /\ Writes /\ toServer \in [Client -> Seq(Packets)] /\ sent \in [Client -> Nat]
      /\ due \in [Client -> Seq(Packets)]
  BY DEF MessagesInv, LoginInv, Types, MessageTypes
<1>2. PICK q \in Seq(Packets), k \in Nat : q = toServer[c] /\ k = Len(q)
  BY <1>1
<1>3. /\ toServer'[c] = Append(q, p) /\ Len(Append(q, p)) = k + 1 /\ Append(q, p)[k + 1] = p
      /\ \A i \in 1..k : Append(q, p)[i] = q[i]
  BY <1>1, <1>2, AppendProperties
<1>4. sent[c] = 0
  BY <1>1 DEF Writes, Uploads
<1>5. \A i \in 1..k : ~IsChat(q[i])
  BY <1>1, <1>2, <1>4 DEF Writes, Uploads
<1>6. \A i \in 1..(k + 1) : ~IsChat(Append(q, p)[i])
  BY <1>3, <1>5
<1>7. Uploads(c)'
  BY <1>3, <1>4, <1>6 DEF Uploads
<1>8. \A w \in Client : Uploads(w)'
  BY <1>1, <1>7, UploadsUnchanged DEF Writes
<1>9. broadcast[c].targets = {}
  <2>1. ASSUME broadcast[c].targets # {} PROVE FALSE
    <3>1. PICK n : n = Taken(c) /\ n \in 1..0
      BY <1>1, <1>4, <2>1 DEF Writes, Broadcasts
    <3> QED  BY <3>1
  <2> QED  BY <2>1
<1>10. \A w \in Client : w # c => toServer'[w] = toServer[w] /\ Taken(w)' = Taken(w)
  BY <1>1 DEF Taken
<1>11. \A w \in Client : Broadcasts(w)'
  BY <1>1, <1>9, <1>10 DEF Writes, Broadcasts
<1>12. \A d \in Client : Sends(d)'
  BY <1>1 DEF Writes, Sends
<1>13. \A d \in Client : ~HasFrom(due[d], c)
  <2>1. ASSUME NEW d \in Client, NEW i \in 1..Len(due[d]), due[d][i].from = c
        PROVE  FALSE
    <3>1. due[d][i].n \in 1..sent[due[d][i].from]
      BY <1>1 DEF Writes, Sends
    <3>2. PICK n : n \in 1..0
      BY <1>4, <2>1, <3>1
    <3> QED  BY <3>2
  <2> QED  BY <2>1 DEF HasFrom
<1>14. \A d, w \in Client : UpToDate(d, w)' /\ InOrder(due[d], w)'
  BY <1>1, <1>10, <1>13 DEF Writes, UpToDate
<1> QED  BY <1>8, <1>11, <1>12, <1>14 DEF Writes

\* A message goes behind what its client sent, with the next number.
LEMMA SendChatWrites ==
  ASSUME MessagesInv, NEW c \in Client, SendChat(c)
  PROVE  Writes'
<1>1. /\ Writes /\ toServer \in [Client -> Seq(Packets)] /\ sent \in [Client -> Nat]
      /\ due \in [Client -> Seq(Packets)] /\ page[c] = "chat"
  BY DEF MessagesInv, LoginInv, Types, MessageTypes, SendChat
<1>2. PICK q \in Seq(Packets), k \in Nat, m \in Nat : q = toServer[c] /\ k = Len(q) /\ m = sent[c]
  BY <1>1
<1>3. PICK p \in Packets : p = Chat(c, m + 1)
  BY ChatType
<1>4. IsChat(p) /\ p.from = c /\ p.n = m + 1
  BY <1>3 DEF Chat, IsChat
<1>5. UNCHANGED <<page, hSocket, mSessions, accepting, broadcast, due>>
  BY DEF SendChat, receiver, server, answers, accept
<1>6. /\ sent' = [sent EXCEPT ![c] = m + 1] /\ toServer' = [toServer EXCEPT ![c] = Append(q, p)]
  BY <1>2, <1>3 DEF SendChat, Send
<1>7. PICK r \in Seq(Packets) :
        /\ r = Append(q, p) /\ Len(r) = k + 1 /\ r[k + 1] = p /\ \A i \in 1..k : r[i] = q[i]
  <2>1. PICK r \in Seq(Packets) : r = Append(q, p)
    BY AppendProperties
  <2> QED  BY <1>2, <2>1, AppendProperties
<1>8. toServer'[c] = r /\ sent'[c] = m + 1
  BY <1>1, <1>6, <1>7
<1>9. \A w \in Client : w # c => toServer'[w] = toServer[w] /\ sent'[w] = sent[w]
  BY <1>1, <1>6
<1>10. Uploads(c)'
  <2>1. ASSUME NEW i \in 1..(k + 1), IsChat(r[i])
        PROVE  /\ r[i].from = c /\ r[i].n = (m + 1) - ((k + 1) - i) /\ m + 1 >= (k + 1) - i + 1
               /\ \A j \in i..(k + 1) : IsChat(r[j])
    <3>1. CASE i = k + 1
      BY <1>4, <1>7, <3>1
    <3>2. CASE i # k + 1
      <4>1. i \in 1..k /\ q[i] = r[i]
        BY <1>7, <3>2
      <4>2. /\ q[i].from = c /\ q[i].n = m - (k - i) /\ m >= k - i + 1
            /\ \A j \in i..k : IsChat(q[j])
        BY <1>1, <1>2, <2>1, <4>1 DEF Writes, Uploads
      <4>3. \A j \in i..k : j \in 1..k
        BY <4>1
      <4>4. \A j \in i..(k + 1) : IsChat(r[j])
        BY <1>4, <1>7, <4>2, <4>3
      <4> QED  BY <4>1, <4>2, <4>4
    <3> QED  BY <3>1, <3>2
  <2> QED  BY <1>1, <1>5, <1>7, <1>8, <2>1 DEF Uploads
<1>11. \A w \in Client : Uploads(w)'
  BY <1>1, <1>5, <1>9, <1>10, UploadsUnchanged DEF Writes
<1>12. \A w \in Client : Taken(w)' = Taken(w) /\ sent[w] \in Nat /\ sent'[w] \in Nat /\ sent[w] <= sent'[w]
  <2>1. ASSUME NEW w \in Client, w # c
        PROVE  Taken(w)' = Taken(w) /\ sent[w] \in Nat /\ sent'[w] \in Nat /\ sent[w] <= sent'[w]
    BY <1>1, <1>9, <2>1 DEF Taken
  <2>2. Taken(c) = m - k /\ Taken(c)' = (m + 1) - (k + 1)
    BY <1>2, <1>7, <1>8 DEF Taken
  <2>3. sent[c] \in Nat /\ sent'[c] \in Nat /\ sent[c] <= sent'[c]
    BY <1>2, <1>8
  <2> QED  BY <2>1, <2>2, <2>3
<1>13. \A w \in Client : AllChats(toServer[w]) => AllChats(toServer'[w])
  <2>1. ASSUME AllChats(q) PROVE AllChats(r)
    <3>1. \A i \in 1..k : IsChat(q[i])
      BY <1>2, <2>1 DEF AllChats
    <3>2. \A i \in 1..(k + 1) : i \in 1..k \/ i = k + 1
      BY <1>2
    <3>3. \A i \in 1..(k + 1) : IsChat(r[i])
      BY <1>4, <1>7, <3>1, <3>2
    <3> QED  BY <1>7, <3>3 DEF AllChats
  <2>2. toServer[c] = q /\ toServer'[c] = r
    BY <1>2, <1>8
  <2> QED  BY <1>9, <2>1, <2>2
<1>14. \A w \in Client : Broadcasts(w)'
  <2>1. ASSUME NEW w \in Client, broadcast[w].targets # {}
        PROVE  Taken(w) \in 1..sent'[w]
    BY <1>1, <1>12, <2>1 DEF Writes, Broadcasts
  <2> QED  BY <1>1, <1>5, <1>12, <1>13, <2>1 DEF Writes, Broadcasts
<1>15. \A d \in Client : Sends(d)'
  BY <1>1, <1>5, <1>12 DEF Writes, Sends
<1>16. \A d, w \in Client : UpToDate(d, w)' /\ InOrder(due[d], w)'
  BY <1>1, <1>5, <1>12, <1>13 DEF Writes, UpToDate
<1> QED  BY <1>11, <1>14, <1>15, <1>16 DEF Writes

\* A session begins; it was sent nothing.
LEMMA AcceptWrites ==
  ASSUME MessagesInv, NEW c \in Client, Accept(c)
  PROVE  Writes'
<1>1. /\ Writes /\ hSocket \in [Client -> {"backlog", "open", "closed"}]
      /\ hSocket[c] = "backlog" /\ hSocket' = [hSocket EXCEPT ![c] = "open"] /\ accepting' = c
  BY DEF MessagesInv, MessageTypes, Accept
<1>2. UNCHANGED <<page, sent, toServer, mSessions, broadcast, due>>
  BY DEF Accept, client
<1>3. hSocket'[c] = "open" /\ \A d \in Client : d # c => hSocket'[d] = hSocket[d]
  BY <1>1
<1>4. due[c] = <<>>
  BY <1>1 DEF Writes, Sends
<1>5. \A w \in Client : Uploads(w)'
  BY <1>1, <1>2, UploadsUnchanged DEF Writes
<1>6. \A w \in Client : Broadcasts(w)'
  <2>1. ASSUME NEW w \in Client, NEW s \in broadcast[w].targets
        PROVE  s # c /\ s \in Client
    BY <1>1, <2>1 DEF Writes, Broadcasts, MessagesInv, LoginInv, Types
  <2> QED  BY <1>1, <1>2, <1>3, <2>1 DEF Writes, Broadcasts, Taken
<1>7. \A d \in Client : Sends(d)'
  BY <1>1, <1>2, <1>3, <1>4 DEF Writes, Sends
<1>8. \A w \in Client : ~HasFrom(due[c], w)
  BY <1>4 DEF HasFrom
<1>9. \A d, w \in Client : UpToDate(d, w)' /\ InOrder(due[d], w)'
  BY <1>1, <1>2, <1>3, <1>8 DEF Writes, UpToDate, Taken
<1> QED  BY <1>5, <1>6, <1>7, <1>9 DEF Writes

\* A session is listed.
LEMMA PublishWrites ==
  ASSUME MessagesInv, Publish
  PROVE  Writes'
<1>1. /\ Writes /\ mSessions' = mSessions \cup {accepting} /\ accepting' = NONE
  BY DEF MessagesInv, Publish
<1>2. UNCHANGED <<page, sent, toServer, hSocket, broadcast, due>>
  BY DEF Publish, client
<1>3. \A w \in Client : Uploads(w)'
  BY <1>1, <1>2, UploadsUnchanged DEF Writes
<1>4. \A w \in Client : Broadcasts(w)'
  BY <1>1, <1>2 DEF Writes, Broadcasts, Taken
<1>5. \A d \in Client : Sends(d)'
  BY <1>1, <1>2, SystemAssumption DEF Writes, Sends
<1>6. \A d, w \in Client : UpToDate(d, w)' /\ InOrder(due[d], w)'
  BY <1>1, <1>2 DEF Writes, UpToDate, Taken
<1> QED  BY <1>3, <1>4, <1>5, <1>6 DEF Writes

\* A session is closed and no longer listed.
LEMMA CloseWrites ==
  ASSUME Writes, hSocket \in [Client -> {"backlog", "open", "closed"}], NEW c \in Client,
         hSocket' = [hSocket EXCEPT ![c] = "closed"], mSessions' = mSessions \ {c},
         UNCHANGED <<page, sent, toServer, accepting, broadcast, due>>
  PROVE  Writes'
<1>1. hSocket'[c] = "closed" /\ \A d : d # c => (hSocket'[d] = hSocket[d] \/ d \notin Client)
  OBVIOUS
<1>2. \A w \in Client : Uploads(w)'
  BY UploadsUnchanged DEF Writes
<1>3. \A w \in Client : Broadcasts(w)'
  <2>1. ASSUME NEW w \in Client, NEW s \in broadcast[w].targets, broadcast[w].targets # {}
        PROVE  hSocket'[s] # "backlog" /\ (hSocket'[s] = "open" => s \in mSessions')
    <3>1. hSocket[s] # "backlog" /\ (hSocket[s] = "open" => s \in mSessions)
      BY <2>1 DEF Writes, Broadcasts
    <3>2. CASE s = c
      BY <1>1, <3>2
    <3>3. CASE s # c
      <4>1. hSocket'[s] = hSocket[s]
        BY <3>3
      <4> QED  BY <3>1, <3>3, <4>1
    <3> QED  BY <3>2, <3>3
  <2> QED  BY <2>1 DEF Writes, Broadcasts, Taken
<1>4. \A d \in Client : Sends(d)'
  BY <1>1 DEF Writes, Sends
<1>5. \A d, w \in Client : UpToDate(d, w)' /\ InOrder(due[d], w)'
  BY <1>1 DEF Writes, UpToDate, Taken
<1> QED  BY <1>2, <1>3, <1>4, <1>5 DEF Writes

\* The stream of a client when the server has taken a packet from it.
LEMMA TakenFacts ==
  ASSUME MessagesInv, NEW c \in Client, toServer[c] # <<>>,
         toServer' = [toServer EXCEPT ![c] = Tail(@)], UNCHANGED <<page, sent>>
  PROVE  /\ \A w \in Client : Uploads(w)'
         /\ \A w \in Client : w # c => toServer'[w] = toServer[w] /\ Taken(w)' = Taken(w)
         /\ Taken(c)' = Taken(c) + 1 /\ Taken(c) \in Int
         /\ Head(toServer[c]) \in Packets
         /\ IsChat(Head(toServer[c])) =>
              /\ AllChats(toServer[c]) /\ AllChats(toServer'[c])
              /\ Head(toServer[c]) = Chat(c, Taken(c) + 1)
              /\ Taken(c) + 1 \in 1..sent[c]
         /\ AllChats(toServer[c]) => IsChat(Head(toServer[c]))
<1>1. Writes /\ toServer \in [Client -> Seq(Packets)] /\ sent \in [Client -> Nat]
  BY DEF MessagesInv, LoginInv, Types
<1>2. PICK q \in Seq(Packets), k \in Nat, m \in Nat : q = toServer[c] /\ k = Len(q) /\ m = sent[c]
  BY <1>1
<1>3. PICK t \in Seq(Packets), h \in Packets : t = Tail(q) /\ h = Head(q)
  BY <1>2, HeadTailProperties
<1>4. k >= 1 /\ h = q[1] /\ Len(t) = k - 1 /\ \A i \in 1..(k - 1) : t[i] = q[i + 1]
  <2>1. Len(t) = k - 1 /\ \A i \in 1..Len(t) : t[i] = q[i + 1]
    BY <1>2, <1>3, HeadTailProperties
  <2>2. k >= 1
    BY <1>2, EmptySeq
  <2>3. h = q[1]
    BY <1>2, <1>3
  <2> QED  BY <2>1, <2>2, <2>3
<1>5. toServer'[c] = t /\ \A w \in Client : w # c => toServer'[w] = toServer[w]
  BY <1>1, <1>2, <1>3
<1>6. Taken(c) = m - k /\ Taken(c)' = m - (k - 1) /\ Taken(c)' = Taken(c) + 1 /\ Taken(c) \in Int
  <2>1. Taken(c) = m - k
    BY <1>2 DEF Taken
  <2>2. Taken(c)' = m - (k - 1)
    BY <1>2, <1>4, <1>5 DEF Taken
  <2>3. m - (k - 1) = (m - k) + 1 /\ m - k \in Int
    OBVIOUS
  <2> QED  BY <2>1, <2>2, <2>3
<1>7. \A w \in Client : w # c => toServer'[w] = toServer[w] /\ Taken(w)' = Taken(w)
  BY <1>5 DEF Taken
<1>8. ASSUME NEW i \in 1..k, IsChat(q[i])
      PROVE  /\ q[i].from = c /\ q[i].n = m - (k - i) /\ m >= k - i + 1
             /\ \A j \in i..k : IsChat(q[j])
  BY <1>1, <1>2, <1>8 DEF Writes, Uploads
<1>9. Uploads(c)'
  <2>1. ASSUME NEW i \in 1..(k - 1), IsChat(t[i])
        PROVE  /\ t[i].from = c /\ t[i].n = m - ((k - 1) - i) /\ m >= (k - 1) - i + 1
               /\ \A j \in i..(k - 1) : IsChat(t[j])
    <3>1. i + 1 \in 1..k /\ t[i] = q[i + 1]
      BY <1>4
    <3>2. /\ q[i + 1].from = c /\ q[i + 1].n = m - (k - (i + 1)) /\ m >= k - (i + 1) + 1
          /\ \A j \in (i + 1)..k : IsChat(q[j])
      BY <1>8, <2>1, <3>1
    <3>3. \A j \in i..(k - 1) : j + 1 \in (i + 1)..k /\ j \in 1..(k - 1)
      BY <3>1
    <3>4. \A j \in i..(k - 1) : IsChat(t[j])
      BY <1>4, <3>2, <3>3
    <3>5. k - (i + 1) = (k - 1) - i
      BY <3>1
    <3>6. t[i].n = m - ((k - 1) - i) /\ m >= (k - 1) - i + 1
      BY <3>1, <3>2, <3>5
    <3> QED  BY <3>1, <3>2, <3>4, <3>6
  <2>2. page'[c] = "login" => m = 0
    BY <1>1, <1>2 DEF Writes, Uploads
  <2> QED  BY <1>2, <1>4, <1>5, <2>1, <2>2 DEF Uploads
<1>10. \A w \in Client : Uploads(w)'
  BY <1>1, <1>5, <1>9, UploadsUnchanged DEF Writes
<1>11. ASSUME IsChat(h)
       PROVE  /\ AllChats(q) /\ AllChats(t) /\ h = Chat(c, (m - k) + 1)
              /\ (m - k) + 1 \in 1..m
  <2>1. 1 \in 1..k /\ IsChat(q[1])
    BY <1>4, <1>11
  <2>2. /\ h.from = c /\ h.n = m - (k - 1) /\ m >= k - 1 + 1 /\ \A j \in 1..k : IsChat(q[j])
    BY <1>4, <1>8, <2>1
  <2>3. h = Chat(c, m - (k - 1))
    BY <1>11, <2>2 DEF Packets, Chat, IsChat
  <2>4. m - (k - 1) = (m - k) + 1
    OBVIOUS
  <2>5. (m - k) + 1 \in 1..m
    BY <1>4, <2>2
  <2>6. \A j \in 1..(k - 1) : IsChat(t[j])
    BY <1>4, <2>2
  <2> QED  BY <1>2, <1>4, <2>2, <2>3, <2>4, <2>5, <2>6 DEF AllChats
<1>12. AllChats(q) => IsChat(h)
  BY <1>2, <1>4 DEF AllChats
<1> QED  BY <1>2, <1>3, <1>5, <1>6, <1>7, <1>10, <1>11, <1>12

\* A request is taken and answered: there was no message to wait for it.
LEMMA AnswerWrites ==
  ASSUME MessagesInv, NEW c \in Client, toServer[c] # <<>>, ~IsChat(Head(toServer[c])),
         broadcast[c] = Idle, toServer' = [toServer EXCEPT ![c] = Tail(@)],
         UNCHANGED <<page, sent, hSocket, mSessions, accepting, broadcast, due>>
  PROVE  Writes'
<1>1. Writes /\ broadcast[c].targets = {}
  BY DEF MessagesInv, Idle
<1>2. /\ \A w \in Client : Uploads(w)'
      /\ \A w \in Client : w # c => toServer'[w] = toServer[w] /\ Taken(w)' = Taken(w)
      /\ ~AllChats(toServer[c])
  BY TakenFacts
<1>3. \A w \in Client : Broadcasts(w)'
  BY <1>1, <1>2 DEF Writes, Broadcasts
<1>4. \A d \in Client : Sends(d)'
  BY <1>1 DEF Writes, Sends
<1>5. \A d, w \in Client : UpToDate(d, w)' /\ InOrder(due[d], w)'
  BY <1>1, <1>2 DEF Writes, UpToDate
<1> QED  BY <1>2, <1>3, <1>4, <1>5 DEF Writes

\* A message is taken and goes to everybody whose session is listed: to all
\* that were sent the ones before it and are still there.
LEMMA HandleChatWrites ==
  ASSUME MessagesInv, NEW c \in Client, HandleChat(c)
  PROVE  Writes'
<1>1. /\ Writes /\ broadcast[c] = Idle /\ toServer[c] # <<>> /\ IsChat(Head(toServer[c]))
      /\ toServer' = [toServer EXCEPT ![c] = Tail(@)]
      /\ UNCHANGED <<page, sent, accepting, due>>
  BY DEF MessagesInv, HandleChat, Serves, IsChat, client, accept
<1>2. /\ \A w \in Client : Uploads(w)'
      /\ \A w \in Client : w # c => toServer'[w] = toServer[w] /\ Taken(w)' = Taken(w)
      /\ Taken(c)' = Taken(c) + 1 /\ Taken(c) \in Int
      /\ AllChats(toServer[c]) /\ AllChats(toServer'[c])
      /\ Head(toServer[c]) = Chat(c, Taken(c) + 1) /\ Taken(c) + 1 \in 1..sent[c]
  BY <1>1, TakenFacts
<1>3. isLoggedIn[c]
  <2>1. sent[c] # 0
    <3>1. PICK n, m : n = sent[c] /\ m \in 1..n
      BY <1>2
    <3> QED  BY <3>1
  <2>2. page[c] = "chat"
    BY <1>1, <2>1 DEF Writes, Uploads, MessagesInv, LoginInv, Types
  <2> QED  BY <2>2, LoginMeans DEF MessagesInv, ChatPageIsLoggedIn
<1>4. PICK p, T : p = Head(toServer[c]) /\ T = mSessions \ {c}
  OBVIOUS
<1>5. /\ UNCHANGED <<hSocket, mSessions>>
      /\ broadcast' = [broadcast EXCEPT ![c] =
                         IF T = {} THEN Idle ELSE [packet |-> p, targets |-> T]]
  BY <1>3, <1>4 DEF HandleChat
<1>6. /\ broadcast'[c].targets = T /\ (T # {} => broadcast'[c].packet = p)
      /\ \A w \in Client : w # c => broadcast'[w] = broadcast[w]
  BY <1>5 DEF MessagesInv, LoginInv, Types, Idle
<1>7. Broadcasts(c)'
  <2>1. \A s \in T : s # c /\ s \in mSessions /\ s \in Client
    BY <1>4 DEF MessagesInv, LoginInv, Types
  <2>2. \A s \in T : hSocket[s] # "backlog"
    BY <1>1, <2>1 DEF Writes, Sends
  <2>3. p = Chat(c, Taken(c)') /\ Taken(c)' \in 1..sent'[c]
    BY <1>1, <1>2, <1>4
  <2> QED  BY <1>2, <1>5, <1>6, <2>1, <2>2, <2>3 DEF Broadcasts
<1>8. \A w \in Client : Broadcasts(w)'
  BY <1>1, <1>2, <1>5, <1>6, <1>7 DEF Writes, Broadcasts
<1>9. \A d \in Client : Sends(d)'
  BY <1>1, <1>5 DEF Writes, Sends
<1>10. ASSUME NEW d \in Client
       PROVE  UpToDate(d, c)'
  <2>1. ASSUME HasFrom(due[d], c), hSocket[d] = "open"
        PROVE  d \in T /\ LastIs(due[d], c, Taken(c))
    <3>1. due[d] # <<>>
      BY <2>1 DEF HasFrom
    <3>2. d # c /\ d \in mSessions
      BY <1>1, <2>1, <3>1 DEF Writes, UpToDate, Sends
    <3>3. d \notin broadcast[c].targets
      BY <1>1 DEF Idle
    <3> QED  BY <1>1, <1>4, <2>1, <3>2, <3>3 DEF Writes, UpToDate
  <2>2. Taken(c)' - 1 = Taken(c)
    BY <1>2
  <2> QED  BY <1>1, <1>2, <1>5, <1>6, <2>1, <2>2 DEF Writes, UpToDate
<1>11. ASSUME NEW d \in Client, NEW w \in Client, w # c
       PROVE  UpToDate(d, w)'
  BY <1>1, <1>2, <1>5, <1>6, <1>11 DEF Writes, UpToDate
<1>12. \A d, w \in Client : InOrder(due[d], w)'
  BY <1>1 DEF Writes
<1> QED  BY <1>2, <1>8, <1>9, <1>10, <1>11, <1>12 DEF Writes

\* The message under way comes to one of its targets, behind those before it.
LEMMA BroadcastOneWrites ==
  ASSUME MessagesInv, NEW c \in Client, NEW s \in broadcast[c].targets,
         broadcast' = [broadcast EXCEPT ![c] =
                         IF broadcast[c].targets \ {s} = {} THEN Idle
                         ELSE [packet |-> broadcast[c].packet,
                               targets |-> broadcast[c].targets \ {s}]],
         due' = IF hSocket[s] = "open" /\ s \in admitted
                THEN [due EXCEPT ![s] = Append(@, broadcast[c].packet)] ELSE due,
         UNCHANGED <<page, sent, toServer, hSocket, mSessions, accepting>>
  PROVE  Writes'
<1>1. PICK p, T : p = broadcast[c].packet /\ T = broadcast[c].targets
  OBVIOUS
<1>2. /\ Writes /\ s \in Client /\ p \in Packets /\ T \subseteq Client
      /\ due \in [Client -> Seq(Packets)] /\ sent \in [Client -> Nat]
  BY <1>1 DEF MessagesInv, LoginInv, Types, MessageTypes, BroadcastsAreChats
<1>3. /\ broadcast'[c].targets = T \ {s} /\ (T \ {s} # {} => broadcast'[c].packet = p)
      /\ \A w \in Client : w # c => broadcast'[w] = broadcast[w]
  BY <1>1 DEF MessagesInv, LoginInv, Types, Idle
<1>4. PICK n : n = Taken(c)
  OBVIOUS
<1>5. /\ AllChats(toServer[c]) /\ p = Chat(c, n) /\ n \in 1..sent[c]
      /\ s # c /\ hSocket[s] # "backlog" /\ (hSocket[s] = "open" => s \in mSessions)
      /\ \A d \in T : d # c /\ hSocket[d] # "backlog" /\ (hSocket[d] = "open" => d \in mSessions)
  BY <1>1, <1>2, <1>4 DEF Writes, Broadcasts
<1>6. p.from = c /\ p.n = n /\ n \in Int /\ n - 1 \in Int /\ (n - 1) + 1 = n
  <2>1. p.from = c /\ p.n = n
    BY <1>5 DEF Chat
  <2> QED  BY <1>2, <1>5, <2>1
<1>7. \A w \in Client : Taken(w)' = Taken(w)
  BY DEF Taken
<1>8. \A w \in Client : Uploads(w)'
  BY <1>2, UploadsUnchanged DEF Writes
<1>9. \A w \in Client : Broadcasts(w)'
  <2>1. Taken(c)' = n
    BY <1>4, <1>7
  <2>2. Broadcasts(c)'
    BY <1>3, <1>5, <2>1 DEF Broadcasts
  <2>3. ASSUME NEW w \in Client, w # c
        PROVE  Broadcasts(w)'
    BY <1>2, <1>3, <1>7, <2>3 DEF Writes, Broadcasts
  <2> QED  BY <2>2, <2>3
<1>10. CASE ~(hSocket[s] = "open" /\ s \in admitted)
  <2>1. due' = due
    BY <1>10
  <2>2. hSocket[s] = "open" => due[s] = <<>>
    BY <1>2, <1>10 DEF MessagesInv, Reads, AnswerIsComing
  <2>3. \A d \in Client : Sends(d)'
    BY <1>2, <2>1 DEF Writes, Sends
  <2>4. hSocket[s] = "open" => \A w : ~HasFrom(due[s], w)
    BY <2>2 DEF HasFrom
  <2>5. \A d, w \in Client : UpToDate(d, w)' /\ InOrder(due[d], w)'
    BY <1>2, <1>3, <1>1, <1>7, <2>1, <2>4 DEF Writes, UpToDate
  <2> QED  BY <1>8, <1>9, <2>3, <2>5 DEF Writes
<1>11. CASE hSocket[s] = "open" /\ s \in admitted
  <2>1. PICK q \in Seq(Packets), r \in Seq(Packets), k \in Nat :
          q = due[s] /\ r = Append(q, p) /\ k = Len(q)
    <3>1. due[s] \in Seq(Packets) /\ Append(due[s], p) \in Seq(Packets) /\ Len(due[s]) \in Nat
      BY <1>2, AppendProperties
    <3> QED  BY <3>1
  <2>2. /\ Len(r) = k + 1 /\ r[k + 1] = p /\ r # <<>> /\ \A i \in 1..k : r[i] = q[i]
    <3>1. p \in Packets
      BY <1>2
    <3>2. /\ Append(q, p) # <<>> /\ Len(Append(q, p)) = Len(q) + 1
          /\ \A i \in 1..Len(q) : Append(q, p)[i] = q[i]
          /\ Append(q, p)[Len(q) + 1] = p
      BY <3>1, AppendProperties
    <3> QED  BY <2>1, <3>2
  <2>3. due'[s] = r /\ \A d \in Client : d # s => due'[d] = due[d]
    BY <1>1, <1>2, <1>11, <2>1
  <2>4. Sends(s)'
    <3>1. \A i \in 1..(k + 1) : r[i].from \in Client /\ r[i].n \in 1..sent[r[i].from]
      <4>1. \A i \in 1..k : q[i].from \in Client /\ q[i].n \in 1..sent[q[i].from]
        BY <1>2, <2>1 DEF Writes, Sends
      <4>2. \A i \in 1..(k + 1) : i = k + 1 \/ i \in 1..k
        OBVIOUS
      <4> QED  BY <1>5, <1>6, <2>2, <4>1, <4>2
    <3> QED  BY <1>5, <1>11, <2>2, <2>3, <3>1 DEF Sends
  <2>5. \A d \in Client : Sends(d)'
    BY <1>2, <2>3, <2>4 DEF Writes, Sends
  <2>6. LastIs(q, c, n - 1)
    <3>1. CASE HasFrom(q, c)
      BY <1>1, <1>2, <1>4, <1>11, <2>1, <3>1 DEF Writes, UpToDate
    <3>2. CASE ~HasFrom(q, c)
      BY <3>2, NoneFrom
    <3> QED  BY <3>1, <3>2
  <2>7. ASSUME NEW w \in Client
        PROVE  InOrder(r, w)
    <3>1. InOrder(q, w)
      BY <1>2, <2>1 DEF Writes
    <3>2. p.from = w => LastIs(q, w, n - 1) /\ p.n = (n - 1) + 1
      BY <1>6, <2>6
    <3> QED  BY <1>2, <1>6, <2>1, <3>1, <3>2, OrderGrows
  <2>8. ASSUME NEW w \in Client, HasFrom(r, w)
        PROVE  /\ s # w /\ AllChats(toServer[w])
               /\ LastIs(r, w, IF s \in broadcast'[w].targets THEN Taken(w) - 1 ELSE Taken(w))
    <3>1. CASE w = c
      <4>1. LastIs(r, w, n)
        BY <1>2, <1>6, <2>1, <3>1, LastGrows
      <4> QED  BY <1>3, <1>4, <1>5, <3>1, <4>1
    <3>2. CASE w # c
      <4>1. HasFrom(q, w)
        <5>1. PICK i \in 1..(k + 1) : r[i].from = w
          BY <2>2, <2>8 DEF HasFrom
        <5>2. i \in 1..k
          BY <1>6, <2>2, <3>2, <5>1
        <5> QED  BY <2>1, <2>2, <5>1, <5>2 DEF HasFrom
      <4>2. PICK m : m = IF s \in broadcast[w].targets THEN Taken(w) - 1 ELSE Taken(w)
        OBVIOUS
      <4>3. s # w /\ AllChats(toServer[w]) /\ LastIs(q, w, m)
        BY <1>2, <1>11, <2>1, <4>1, <4>2 DEF Writes, UpToDate
      <4>4. LastIs(r, w, m)
        BY <1>2, <1>6, <2>1, <3>2, <4>3, LastGrows
      <4> QED  BY <1>3, <3>2, <4>2, <4>3, <4>4
    <3> QED  BY <3>1, <3>2
  <2>9. \A w \in Client : UpToDate(s, w)' /\ InOrder(due[s], w)'
    BY <1>7, <2>3, <2>7, <2>8 DEF UpToDate
  <2>10. ASSUME NEW d \in Client, d # s, NEW w \in Client
         PROVE  UpToDate(d, w)' /\ InOrder(due[d], w)'
    <3>1. d \in broadcast'[w].targets <=> d \in broadcast[w].targets
      BY <1>1, <1>3, <2>10
    <3> QED  BY <1>2, <1>7, <2>3, <2>10, <3>1 DEF Writes, UpToDate
  <2> QED  BY <1>8, <1>9, <2>5, <2>9, <2>10 DEF Writes
<1> QED  BY <1>10, <1>11

-----------------------------------------------------------------------------
(* Every action keeps the invariant.                                       *)

\* What a client reads is its own: the steps of others leave it.
LEMMA OthersRead ==
  ASSUME MessagesInv, NEW c \in Client,
         page'[c] = page[c], rx'[c] = rx[c], rxPacket'[c] = rxPacket[c],
         rxChat'[c] = rxChat[c], Messages'[c] = Messages[c], toClient'[c] = toClient[c],
         (c \in admitted' <=> c \in admitted), due'[c] = due[c]
  PROVE  Reads(c)'
<1>1. Reads(c) /\ InFlight(c)' = InFlight(c)
  BY DEF MessagesInv, InFlight
<1> QED  BY <1>1, ReadsUnchanged

\* Nobody wrote, or reads, at the start.
LEMMA MessagesInit == Init => MessagesInv
<1> SUFFICES ASSUME Init PROVE MessagesInv
  OBVIOUS
<1>1. /\ rx \in [Client -> {"read", "ended"}]
      /\ hSocket \in [Client -> {"closed", "backlog"}]
  <2>1. PICK refused \in SUBSET Client : Connect(refused)
    BY DEF Init
  <2> QED  BY <2>1 DEF Connect
<1>2. MessageTypes
  BY <1>1 DEF Init, MessageTypes
<1>3. ASSUME NEW c \in Client
      PROVE  Reads(c)
  <2>1. /\ page[c] = "login" /\ Messages[c] = <<>> /\ c \notin admitted /\ due[c] = <<>>
        /\ rx[c] \in {"read", "ended"}
    BY <1>1, <1>3 DEF Init
  <2>2. IsStart(Messages[c], due[c])
    BY <2>1 DEF IsStart
  <2> QED  BY <2>1, <2>2 DEF Reads, ReceiverAndPage, AnswerIsComing, NothingMissed
<1>4. ASSUME NEW c \in Client
      PROVE  Uploads(c) /\ Broadcasts(c) /\ Sends(c)
  <2>1. /\ sent[c] = 0 /\ toServer[c] = <<>> /\ broadcast[c].targets = {} /\ due[c] = <<>>
        /\ mSessions = {} /\ accepting = NONE /\ hSocket[c] # "open"
    BY <1>1, <1>4 DEF Init, Idle
  <2> QED  BY <2>1, SystemAssumption DEF Uploads, Broadcasts, Sends
<1>5. ASSUME NEW c \in Client, NEW w \in Client
      PROVE  UpToDate(c, w) /\ InOrder(due[c], w)
  <2>1. ~HasFrom(due[c], w)
    BY <1>5 DEF Init, HasFrom
  <2> QED  BY <2>1, NoneFrom DEF UpToDate
<1> QED  BY LoginInit, <1>2, <1>3, <1>4, <1>5 DEF MessagesInv, Writes

\* A request is on its way.
LEMMA RequestStep ==
  ASSUME MessagesInv, NEW c \in Client, ClickLogin(c) \/ ClickRegister(c)
  PROVE  MessagesInv'
<1>1. PICK k \in {"LoginRequest", "RegisterRequest"} :
        toServer' = [toServer EXCEPT ![c] = Append(@, Packet(k))]
  BY DEF ClickLogin, ClickRegister, Send
<1>2. Packet(k) \in Packets /\ ~IsChat(Packet(k)) /\ page[c] = "login"
  BY PacketType DEF PacketKinds, IsChat, ClickLogin, ClickRegister
<1>3. UNCHANGED <<page, sent, Messages, stream, rx, rxPacket, rxChat, toClient, hSocket,
                  admitted, mSessions, accepting, broadcast, due>>
  BY DEF ClickLogin, ClickRegister, receiver, server, answers, accept
<1>4. LoginInv'
  BY ClickLoginKeeps, ClickRegisterKeeps DEF MessagesInv
<1>5. Writes'
  BY <1>1, <1>2, <1>3, RequestWrites
<1>6. \A d \in Client : Reads(d)'
  BY <1>3, OthersRead
<1> QED  BY <1>3, <1>4, <1>5, <1>6 DEF MessagesInv, MessageTypes

\* A message is on its way.
LEMMA SendChatStep ==
  ASSUME MessagesInv, NEW c \in Client, SendChat(c)
  PROVE  MessagesInv'
<1>1. UNCHANGED <<page, Messages, rx, rxPacket, rxChat, toClient, hSocket, admitted, due>>
  BY DEF SendChat, receiver, server, answers
<1>2. LoginInv' /\ Writes'
  BY SendChatKeeps, SendChatWrites DEF MessagesInv
<1>3. \A d \in Client : Reads(d)'
  BY <1>1, OthersRead
<1> QED  BY <1>1, <1>2, <1>3 DEF MessagesInv, MessageTypes

\* The client's own steps change what it reads and the page it shows.
LEMMA ClientStep ==
  ASSUME MessagesInv, NEW c \in Client, LoginInv', Reads(c)',
         Messages' \in [Client -> Seq(Packets)], rxChat' \in [Client -> BOOLEAN],
         page'[c] = "login" => page[c] = "login",
         \A d \in Client \ {c} :
           /\ page'[d] = page[d] /\ rx'[d] = rx[d] /\ rxPacket'[d] = rxPacket[d]
           /\ rxChat'[d] = rxChat[d] /\ Messages'[d] = Messages[d] /\ toClient'[d] = toClient[d],
         UNCHANGED <<sent, toServer, hSocket, admitted, mSessions, accepting, broadcast, due>>
  PROVE  MessagesInv'
<1>1. \A d \in Client : Reads(d)'
  BY OthersRead
<1>2. \A d \in Client : page'[d] = "login" => page[d] = "login"
  OBVIOUS
<1>3. Writes'
  BY <1>2, PageWrites DEF MessagesInv
<1> QED  BY <1>1, <1>3 DEF MessagesInv, MessageTypes

\* The receive thread's.
LEMMA ReceiverSteps ==
  ASSUME MessagesInv, NEW c \in Client, ReceiveStep(c) \/ CloseWindow(c)
  PROVE  MessagesInv'
<1>1. /\ MessageTypes /\ page \in [Client -> {"login", "chat"}] /\ LoginInv
      /\ rx \in [Client -> {"read", "login", "parse", "show", "failing", "ended"}]
      /\ rxPacket \in [Client -> Packets \cup {NONE}]
      /\ toClient \in [Client -> Seq(Packets)]
  BY DEF MessagesInv, LoginInv, Types
<1>2. CASE Receive(c)
  <2>1. LoginInv' /\ Reads(c)'
    BY <1>1, <1>2, ReceiveKeeps, ReceiveReads
  <2>2. /\ rx' = [rx EXCEPT ![c] = "login"]
        /\ rxPacket' = [rxPacket EXCEPT ![c] = Head(toClient[c])]
        /\ rxChat' = [rxChat EXCEPT ![c] = (page[c] = "chat")]
        /\ toClient' = [toClient EXCEPT ![c] = Tail(@)]
        /\ UNCHANGED <<page, Messages, sent, toServer, hSocket, admitted, mSessions,
                       accepting, broadcast, due>>
    BY <1>2 DEF Receive, ui, server, answers, accept
  <2>3. rxChat' \in [Client -> BOOLEAN]
    BY <1>1, <2>2 DEF MessageTypes
  <2> QED  BY <1>1, <2>1, <2>2, <2>3, ClientStep DEF MessageTypes
<1>3. CASE LoginPageHandles(c)
  <2>1. LoginInv' /\ Reads(c)'
    BY <1>1, <1>3, LoginPageHandlesKeeps, LoginPageHandlesReads
  <2>2. UNCHANGED <<rxPacket, rxChat, toClient, sent, toServer, hSocket, admitted, mSessions,
                    accepting, broadcast, due>>
    BY <1>3 DEF LoginPageHandles, server, answers, accept
  <2>3. PICK pg \in {page[c], "chat"}, list \in {Messages[c], <<>>} :
          /\ page' = [page EXCEPT ![c] = pg] /\ Messages' = [Messages EXCEPT ![c] = list]
    <3>1. CASE rxPacket[c].kind = "LoginOk"
      <4>1. page' = [page EXCEPT ![c] = "chat"] /\ Messages' = [Messages EXCEPT ![c] = <<>>]
        BY <1>3, <3>1 DEF LoginPageHandles
      <4> QED  BY <4>1
    <3>2. CASE rxPacket[c].kind # "LoginOk"
      <4>1. page' = [page EXCEPT ![c] = page[c]] /\ Messages' = [Messages EXCEPT ![c] = Messages[c]]
        BY <1>1, <1>3, <3>2 DEF LoginPageHandles, MessageTypes
      <4> QED  BY <4>1
    <3> QED  BY <3>1, <3>2
  <2>4. rx' = [rx EXCEPT ![c] = NextHandler(c)]
    BY <1>3 DEF LoginPageHandles
  <2>5. Messages' \in [Client -> Seq(Packets)]
    <3>1. Messages \in [Client -> Seq(Packets)] /\ Messages[c] \in Seq(Packets)
      BY <1>1 DEF MessageTypes
    <3>2. <<>> \in Seq(Packets)
      OBVIOUS
    <3>3. list \in Seq(Packets)
      <4>1. CASE list = Messages[c]
        BY <3>1, <4>1
      <4>2. CASE list = <<>>
        BY <3>2, <4>2
      <4> QED  BY <2>3, <4>1, <4>2
    <3> QED  BY <2>3, <3>1, <3>3
  <2>6. page'[c] = "login" => page[c] = "login"
    BY <1>1, <2>3
  <2>7. \A d \in Client \ {c} : page'[d] = page[d] /\ rx'[d] = rx[d] /\ Messages'[d] = Messages[d]
    BY <1>1, <2>3, <2>4 DEF MessageTypes
  <2> QED  BY <1>1, <2>1, <2>2, <2>5, <2>6, <2>7, ClientStep DEF MessageTypes
<1>4. CASE ChatPageShows(c)
  <2>1. LoginInv' /\ Reads(c)' /\ Messages' \in [Client -> Seq(Packets)]
    BY <1>1, <1>4, ChatPageShowsKeeps, ChatPageShowsReads
  <2>2. /\ rx' = [rx EXCEPT ![c] = "read"]
        /\ Messages' = [Messages EXCEPT ![c] = Append(@, rxPacket[c])]
        /\ UNCHANGED <<page, rxPacket, rxChat, toClient, sent, toServer, hSocket, admitted,
                       mSessions, accepting, broadcast, due>>
    BY <1>4 DEF ChatPageShows, server, answers, accept
  <2> QED  BY <1>1, <2>1, <2>2, ClientStep DEF MessageTypes
<1>5. CASE ChatPageParses(c) \/ EndOfStream(c) \/ ReceiveEnds(c) \/ CloseWindow(c)
  <2>1. LoginInv'
    BY <1>1, <1>5, ChatPageParsesKeeps, EndOfStreamKeeps, ReceiveEndsKeeps, CloseWindowKeeps
  <2>2. /\ rx' = [rx EXCEPT ![c] = rx'[c]]
        /\ UNCHANGED <<page, Messages, rxPacket, rxChat, toClient, sent, toServer, hSocket,
                       admitted, mSessions, accepting, broadcast, due>>
    BY <1>1, <1>5 DEF ChatPageParses, EndOfStream, ReceiveEnds, CloseWindow, ui, server, answers,
       accept
  <2>3. Reads(c)'
    <3>1. CASE ChatPageParses(c)
      BY <3>1, ChatPageParsesReads
    <3>2. CASE EndOfStream(c) \/ ReceiveEnds(c) \/ CloseWindow(c)
      <4>1. rx'[c] \in {"failing", "ended"}
        BY <1>1, <3>2 DEF EndOfStream, ReceiveEnds, CloseWindow
      <4> QED  BY <2>2, <4>1, EndReads
    <3> QED  BY <1>5, <3>1, <3>2
  <2>4. \A d \in Client \ {c} : rx'[d] = rx[d]
    BY <1>1, <2>2
  <2> QED  BY <1>1, <2>1, <2>2, <2>3, <2>4, ClientStep DEF MessageTypes
<1> QED  BY <1>2, <1>3, <1>4, <1>5 DEF ReceiveStep

\* The accept thread's, and the end of a session.
LEMMA SessionSteps ==
  ASSUME MessagesInv,
         Publish \/ \E c \in Client : Accept(c) \/ CloseSession(c) \/ BacklogBreaks(c)
  PROVE  MessagesInv'
<1>1. LoginInv'
  BY PublishKeeps, AcceptKeeps, CloseSessionKeeps, BacklogBreaksKeeps DEF MessagesInv
<1>2. UNCHANGED <<page, Messages, rx, rxPacket, rxChat, toClient, admitted, due>>
  BY DEF Publish, Accept, CloseSession, BacklogBreaks, client, answers
<1>3. \A d \in Client : Reads(d)'
  BY <1>2, OthersRead
<1>4. Writes' /\ hSocket' \in [Client -> {"backlog", "open", "closed"}]
  <2>1. Writes /\ hSocket \in [Client -> {"backlog", "open", "closed"}]
    BY DEF MessagesInv, MessageTypes
  <2>2. CASE Publish
    BY <2>1, <2>2, PublishWrites DEF Publish
  <2>3. CASE \E c \in Client : Accept(c)
    BY <2>1, <2>3, AcceptWrites DEF Accept
  <2>4. CASE \E c \in Client : CloseSession(c)
    <3>1. PICK c \in Client : CloseSession(c)
      BY <2>4
    <3>2. /\ hSocket' = [hSocket EXCEPT ![c] = "closed"] /\ mSessions' = mSessions \ {c}
          /\ UNCHANGED <<page, sent, toServer, accepting, broadcast, due>>
      BY <3>1 DEF CloseSession, client, accept
    <3> QED  BY <2>1, <3>2, CloseWrites
  <2>5. CASE \E c \in Client : BacklogBreaks(c)
    <3>1. PICK c \in Client : BacklogBreaks(c)
      BY <2>5
    <3>2. c \notin mSessions
      BY <2>1, <3>1 DEF BacklogBreaks, Writes, Sends
    <3>3. /\ hSocket' = [hSocket EXCEPT ![c] = "closed"] /\ mSessions' = mSessions \ {c}
          /\ UNCHANGED <<page, sent, toServer, accepting, broadcast, due>>
      BY <3>1, <3>2 DEF BacklogBreaks, client
    <3> QED  BY <2>1, <3>3, CloseWrites
  <2> QED  BY <2>2, <2>3, <2>4, <2>5
<1> QED  BY <1>1, <1>2, <1>3, <1>4 DEF MessagesInv, MessageTypes

\* What the clients read when one of them is answered.
LEMMA AnswerIsRead ==
  ASSUME MessagesInv, NEW c \in Client,
         NEW k \in {"LoginOk", "LoginRefused", "RegisterResponse"},
         toClient' = [toClient EXCEPT ![c] = Append(@, Packet(k))],
         admitted' = IF k = "LoginOk" THEN admitted \cup {c} ELSE admitted,
         UNCHANGED <<page, Messages, rx, rxPacket, rxChat, due>>
  PROVE  \A d \in Client : Reads(d)'
<1>1. toClient \in [Client -> Seq(Packets)]
  BY DEF MessagesInv, LoginInv, Types
<1>2. Reads(c)'
  <2>1. Packet(k) \in Packets /\ Packet(k).kind = k /\ ~IsChat(Packet(k))
    BY PacketType DEF PacketKinds, IsChat
  <2>2. toClient'[c] = Append(toClient[c], Packet(k))
    BY <1>1
  <2>3. c \in admitted' <=> c \in admitted \/ Packet(k).kind = "LoginOk"
    BY <2>1
  <2> QED  BY <2>1, <2>2, <2>3, AnswerReads
<1>3. ASSUME NEW d \in Client, d # c
      PROVE  Reads(d)'
  <2>1. toClient'[d] = toClient[d] /\ (d \in admitted' <=> d \in admitted)
    BY <1>1, <1>3
  <2> QED  BY <2>1, OthersRead
<1> QED  BY <1>2, <1>3

\* A login or a registration is handled; a login that is accepted is not answered
\* yet.
LEMMA RequestHandledStep ==
  ASSUME MessagesInv, NEW c \in Client, HandleLoginRequest(c) \/ HandleRegistRequest(c)
  PROVE  MessagesInv'
<1>1. /\ toServer[c] # <<>> /\ broadcast[c] = Idle /\ ~IsChat(Head(toServer[c]))
      /\ toServer' = [toServer EXCEPT ![c] = Tail(@)]
  BY DEF HandleLoginRequest, HandleRegistRequest, Serves, IsChat
<1>2. UNCHANGED <<page, sent, Messages, rx, rxPacket, rxChat, hSocket, mSessions, accepting,
                  admitted, broadcast, due>>
  BY DEF HandleLoginRequest, HandleRegistRequest, client, answers, accept
<1>3. LoginInv'
  BY HandleLoginRequestKeeps, HandleRegistRequestKeeps DEF MessagesInv
<1>4. Writes'
  BY <1>1, <1>2, AnswerWrites
<1>5. \A d \in Client : Reads(d)'
  <2>1. CASE UNCHANGED toClient
    BY <1>2, <2>1, OthersRead
  <2>2. CASE Answer(c, "LoginRefused")
    BY <1>2, <2>2, AnswerIsRead DEF Answer
  <2>3. CASE Answer(c, "RegisterResponse")
    BY <1>2, <2>3, AnswerIsRead DEF Answer
  <2> QED  BY <2>1, <2>2, <2>3 DEF HandleLoginRequest, HandleRegistRequest
<1> QED  BY <1>2, <1>3, <1>4, <1>5 DEF MessagesInv, MessageTypes

\* An accepted login is answered; what the client shows of all that is on its
\* way begins behind the answer.
LEMMA SendAuthResponseStep ==
  ASSUME MessagesInv, NEW c \in Client, SendAuthResponse(c)
  PROVE  MessagesInv'
<1>1. UNCHANGED <<page, sent, Messages, rx, rxPacket, rxChat, toServer, hSocket, mSessions,
                  accepting, broadcast, due>>
  BY DEF SendAuthResponse, client, accept
<1>2. LoginInv'
  BY SendAuthResponseKeeps DEF MessagesInv
<1>3. Writes'
  BY <1>1, PageWrites DEF MessagesInv
<1>4. \A d \in Client : Reads(d)'
  BY <1>1, AnswerIsRead DEF SendAuthResponse, Answer
<1> QED  BY <1>1, <1>2, <1>3, <1>4 DEF MessagesInv, MessageTypes

\* A message is taken.
LEMMA HandleChatStep ==
  ASSUME MessagesInv, NEW c \in Client, HandleChat(c)
  PROVE  MessagesInv'
<1>1. LoginInv' /\ Writes'
  BY HandleChatKeeps, HandleChatWrites DEF MessagesInv
<1>2. UNCHANGED <<page, Messages, rx, rxPacket, rxChat, toClient, admitted, due>>
  BY DEF HandleChat, client, answers
<1>3. \A d \in Client : Reads(d)'
  BY <1>2, OthersRead
<1>4. MessageTypes'
  BY <1>2 DEF MessagesInv, MessageTypes, HandleChat
<1> QED  BY <1>1, <1>3, <1>4 DEF MessagesInv

\* A message goes to one of its targets.
LEMMA BroadcastStep ==
  ASSUME MessagesInv, NEW c \in Client, BroadcastOne(c)
  PROVE  MessagesInv'
<1>1. LoginInv'
  BY BroadcastOneKeeps DEF MessagesInv
<1>2. PICK s \in broadcast[c].targets :
        /\ broadcast' = [broadcast EXCEPT ![c] =
             IF broadcast[c].targets \ {s} = {} THEN Idle
             ELSE [packet |-> broadcast[c].packet, targets |-> broadcast[c].targets \ {s}]]
        /\ IF hSocket[s] = "open"
           THEN /\ toClient' = [toClient EXCEPT ![s] = Append(@, broadcast[c].packet)]
                /\ due' = IF s \in admitted
                          THEN [due EXCEPT ![s] = Append(@, broadcast[c].packet)] ELSE due
           ELSE UNCHANGED <<toClient, due>>
  BY DEF BroadcastOne
<1>3. UNCHANGED <<page, sent, Messages, rx, rxPacket, rxChat, toServer, hSocket, admitted,
                  mSessions, accepting>>
  BY DEF BroadcastOne, client, answers, accept
<1>4. PICK p : p = broadcast[c].packet
  OBVIOUS
<1>5. /\ s \in Client /\ p \in Packets /\ IsChat(p) /\ due \in [Client -> Seq(Packets)]
      /\ toClient \in [Client -> Seq(Packets)]
  BY <1>2, <1>4 DEF MessagesInv, LoginInv, Types, MessageTypes, BroadcastsAreChats
<1>6. due' = IF hSocket[s] = "open" /\ s \in admitted
             THEN [due EXCEPT ![s] = Append(@, broadcast[c].packet)] ELSE due
  BY <1>2
<1>7. Writes'
  BY <1>2, <1>3, <1>6, BroadcastOneWrites
<1>8. CASE hSocket[s] = "open"
  <2>1. /\ toClient' = [toClient EXCEPT ![s] = Append(@, p)]
        /\ due' = IF s \in admitted THEN [due EXCEPT ![s] = Append(@, p)] ELSE due
    BY <1>2, <1>4, <1>8
  <2>2. /\ toClient'[s] = Append(toClient[s], p)
        /\ due'[s] = IF s \in admitted THEN Append(due[s], p) ELSE due[s]
        /\ \A d \in Client : d # s => toClient'[d] = toClient[d] /\ due'[d] = due[d]
    BY <1>5, <2>1
  <2>3. Reads(s)'
    BY <1>3, <1>5, <2>2, BroadcastReads
  <2>4. \A d \in Client : d # s => Reads(d)'
    BY <1>3, <2>2, OthersRead
  <2>5. Append(due[s], p) \in Seq(Packets)
    BY <1>5, AppendProperties
  <2>6. due' \in [Client -> Seq(Packets)]
    BY <1>5, <2>1, <2>5
  <2> QED  BY <1>1, <1>3, <1>7, <2>3, <2>4, <2>6 DEF MessagesInv, MessageTypes
<1>9. CASE hSocket[s] # "open"
  <2>1. UNCHANGED <<toClient, due>>
    BY <1>2, <1>9
  <2>2. \A d \in Client : Reads(d)'
    BY <1>3, <2>1, OthersRead
  <2> QED  BY <1>1, <1>3, <1>7, <2>1, <2>2 DEF MessagesInv, MessageTypes
<1> QED  BY <1>8, <1>9

\* No step breaks the invariant.
LEMMA MessagesStep == MessagesInv /\ [Next]_vars => MessagesInv'
<1> SUFFICES ASSUME MessagesInv, [Next]_vars PROVE MessagesInv'
  OBVIOUS
<1>1. CASE \E c \in Client : UserStep(c)
  BY <1>1, RequestStep, SendChatStep, ReceiverSteps DEF UserStep
<1>2. CASE \E c \in Client : ReceiveStep(c)
  BY <1>2, ReceiverSteps
<1>3. CASE \E c \in Client : WorkerStep(c)
  BY <1>3, RequestHandledStep, SendAuthResponseStep, HandleChatStep, BroadcastStep DEF WorkerStep
<1>4. CASE AcceptStep \/ \E c \in Client : CloseSession(c) \/ BacklogBreaks(c)
  BY <1>4, SessionSteps DEF AcceptStep
<1>5. CASE UNCHANGED vars
  <2>1. LoginInv'
    BY <1>5, LoginStep DEF MessagesInv
  <2>2. \A d \in Client : Reads(d)'
    BY <1>5, OthersRead DEF vars
  <2>3. Writes'
    BY <1>5, PageWrites DEF vars, MessagesInv
  <2> QED  BY <1>5, <2>1, <2>2, <2>3 DEF vars, MessagesInv, MessageTypes
<1> QED  BY <1>1, <1>2, <1>3, <1>4, <1>5 DEF Next

-----------------------------------------------------------------------------

\* Every message is followed on its way: numbered in its writer's stream, taken
\* by one worker, sent to each session in turn, shown by each client.
THEOREM MessagesInvariance == Spec => []MessagesInv
  BY MessagesInit, MessagesStep, PTL DEF Spec

\* A client shows every chat it is sent behind the acceptance of its login, once
\* and in the order of sending, although its chat page is made later, when it
\* handles the acceptance (SendMessageAll, LoginViewModel.OnPacketReceived).
THEOREM NothingIsMissed == Spec => []NoChatIsMissed
<1>1. MessagesInv => NoChatIsMissed
  BY DEF MessagesInv, Reads, NothingMissed, NoChatIsMissed
<1> QED  BY MessagesInvariance, <1>1, PTL

\* A client shows the messages of each writer in the order of writing, without
\* repetition or gap, however the broadcasts of several writers mix.
THEOREM ReadInOrder == Spec => []WritersAreReadInOrder
<1>1. MessagesInv => WritersAreReadInOrder
  <2>1. ASSUME MessagesInv, NEW c \in Client, NEW w \in Client
        PROVE  InOrder(Messages[c], w)
    <3>1. /\ Messages[c] \in Seq(Packets) /\ due[c] \in Seq(Packets)
          /\ IsStart(Messages[c], due[c]) /\ InOrder(due[c], w)
      BY <2>1 DEF MessagesInv, MessageTypes, Reads, Writes
    <3> QED  BY <3>1, StartInOrder
  <2> QED  BY <2>1 DEF WritersAreReadInOrder
<1> QED  BY MessagesInvariance, <1>1, PTL
=============================================================================
