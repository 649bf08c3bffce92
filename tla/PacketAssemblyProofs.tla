------------------------ MODULE PacketAssemblyProofs ------------------------
(***************************************************************************)
(* Proofs about PacketAssembly: for every stream of packets of any sizes   *)
(* and every way of cutting it into receives, each packet is handled once, *)
(* whole and as soon as it is complete, and the loop implements            *)
(* PacketStream step by step.                                              *)
(***************************************************************************)
EXTENDS PacketAssembly, SequenceTheorems, FiniteSetTheorems, WellFoundedInduction, TLAPS

\* The n bytes of the stream behind the first a.
Bytes(a, n) == [j \in 1..n |-> a + j]

Handlings == [kind : {p.kind : p \in Packet}, body : Seq(Nat)]

\* Bytes moved into the buffer so far.
Moved == arrived - remaining

\* The buffer holds what was moved behind the packets handled, which is less
\* than the next packet, and the loop is left when nothing remains.
AssemblyInv ==
  /\ stream \in Seq(Packet)
  /\ arrived \in 0..End[Len(stream)] /\ remaining \in 0..arrived
  /\ handled \in Seq(Handlings) /\ Len(handled) \in 0..Len(stream)
  /\ running => open
  /\ open =>
       /\ End[Len(handled)] <= Moved
       /\ assemblyBuffer = Bytes(End[Len(handled)], Moved - End[Len(handled)])
       /\ Len(handled) < Len(stream) => Moved < End[Len(handled) + 1]
       /\ ~running => remaining = 0

-----------------------------------------------------------------------------
(* Where the packets of a stream end.                                      *)

\* A set of numbers that is not empty has a least one: induction for the
\* facts about End.
LEMMA LeastNumber ==
  ASSUME NEW B, B \subseteq Nat, B # {}
  PROVE  \E m \in B : \A k \in B : m <= k
<1> DEFINE T == {0..k : k \in B}
<1>1. T \subseteq FiniteSubsetsOf(Nat) /\ T # {}
  <2>1. \A k \in B : IsFiniteSet(0..k) /\ 0..k \subseteq Nat
    BY FS_Interval
  <2>2. \A k \in B : 0..k \in FiniteSubsetsOf(Nat)
    BY <2>1 DEF FiniteSubsetsOf
  <2> QED  BY <2>2
<1>2. \E x \in T : \A y \in T : <<y, x>> \notin StrictSubsetOrdering(Nat)
  BY <1>1, FS_StrictSubsetOrderingWellFounded, WFMin
<1>3. PICK m \in B : \A y \in T : <<y, 0..m>> \notin StrictSubsetOrdering(Nat)
  BY <1>2
<1>4. ASSUME NEW k \in B, k < m
      PROVE  FALSE
  <2>1. 0..k \in T /\ 0..k \subseteq 0..m /\ 0..m \subseteq Nat
    BY <1>4
  <2>2. m \in 0..m /\ m \notin 0..k
    BY <1>4
  <2>3. <<0..k, 0..m>> \in StrictSubsetOrdering(Nat)
    BY <2>1, <2>2 DEF StrictSubsetOrdering
  <2> QED  BY <1>3, <2>1, <2>3
<1> QED  BY <1>4

\* A packet has a size.
LEMMA SizeFacts == \A p \in Packet : Size(p) \in Nat /\ Size(p) >= HeaderSize + p.payload /\ p.payload \in Nat
  BY StreamAssumption DEF Size

\* The ends of the first n packets of q.
EndsOf(q, n, e) == e = [i \in 0..n |-> IF i = 0 THEN 0 ELSE e[i - 1] + Size(q[i])]

\* Every stream has ends.
LEMMA EndsExist ==
  ASSUME NEW q \in Seq(Packet)
  PROVE  \A n \in 0..Len(q) : \E e : EndsOf(q, n, e)
<1> DEFINE B == {n \in 0..Len(q) : ~\E e : EndsOf(q, n, e)}
<1> SUFFICES ASSUME B # {} PROVE FALSE
  OBVIOUS
<1>1. B \subseteq Nat /\ Len(q) \in Nat
  OBVIOUS
<1>2. PICK m \in B : \A k \in B : m <= k
  BY <1>1, LeastNumber
<1>3. m \in 0..Len(q) /\ ~\E e : EndsOf(q, m, e)
  OBVIOUS
<1>4. m # 0
  <2> DEFINE z == [i \in 0..0 |-> IF i = 0 THEN 0 ELSE 0]
  <2>1. EndsOf(q, 0, z)
    BY DEF EndsOf
  <2> QED  BY <1>3, <2>1
<1>5. m - 1 \in 0..Len(q) /\ m - 1 \notin B
  BY <1>1, <1>2, <1>3, <1>4
<1>6. PICK e : EndsOf(q, m - 1, e)
  BY <1>5
<1> DEFINE g == [i \in 0..m |-> IF i = m THEN e[m - 1] + Size(q[m]) ELSE e[i]]
<1>7. ASSUME NEW i \in 0..m
      PROVE  g[i] = IF i = 0 THEN 0 ELSE g[i - 1] + Size(q[i])
  <2>1. CASE i = m
    BY <1>1, <1>3, <1>4, <2>1
  <2>2. CASE i # m
    <3>1. i \in 0..(m - 1) /\ (i # 0 => i - 1 \in 0..m /\ i - 1 # m)
      BY <1>1, <1>3, <2>2
    <3>2. e[i] = IF i = 0 THEN 0 ELSE e[i - 1] + Size(q[i])
      BY <1>6, <3>1 DEF EndsOf
    <3> QED  BY <2>2, <3>1, <3>2
  <2> QED  BY <2>1, <2>2
<1>8. EndsOf(q, m, g)
  BY <1>7 DEF EndsOf
<1> QED  BY <1>3, <1>8

\* A function whose values grow from one number to the next grows.
LEMMA Increasing ==
  ASSUME NEW n \in Nat, NEW e \in [0..n -> Nat], \A i \in 1..n : e[i - 1] < e[i],
         NEW i \in 0..n, NEW j \in 0..n, i < j
  PROVE  e[i] < e[j]
<1> DEFINE B == {k \in (i + 1)..n : ~(e[i] < e[k])}
<1> SUFFICES ASSUME B # {} PROVE FALSE
  <2>1. j \in (i + 1)..n
    OBVIOUS
  <2> QED  BY <2>1
<1>1. B \subseteq Nat
  OBVIOUS
<1>2. PICK m \in B : \A k \in B : m <= k
  BY <1>1, LeastNumber
<1>3. m \in 1..n /\ m - 1 \in 0..n /\ i <= m - 1 /\ m - 1 \notin B
  BY <1>2
<1>4. e[i] <= e[m - 1]
  <2>1. CASE i = m - 1
    BY <2>1
  <2>2. CASE i # m - 1
    BY <1>3, <2>2
  <2> QED  BY <2>1, <2>2
<1>5. e[m - 1] < e[m]
  BY <1>3
<1> QED  BY <1>2, <1>3, <1>4, <1>5

\* The packets of a stream end one after the other.
LEMMA EndFacts ==
  ASSUME stream \in Seq(Packet)
  PROVE  /\ Len(stream) \in Nat /\ End \in [0..Len(stream) -> Nat] /\ End[0] = 0
         /\ \A i \in 1..Len(stream) : End[i] = End[i - 1] + Size(stream[i])
         /\ \A i, j \in 0..Len(stream) : i < j => End[i] < End[j]
<1>1. PICK n \in Nat : n = Len(stream)
  OBVIOUS
<1>2. PICK q \in Seq(Packet) : q = stream
  OBVIOUS
<1>3. End = CHOOSE e : EndsOf(q, n, e)
  BY <1>1, <1>2 DEF End, EndsOf
<1>4. \E e : EndsOf(q, n, e)
  BY <1>1, <1>2, EndsExist
<1>5. EndsOf(q, n, End)
  BY <1>3, <1>4
<1>6. PICK e : e = End
  OBVIOUS
<1>7. e = [i \in 0..n |-> IF i = 0 THEN 0 ELSE e[i - 1] + Size(q[i])]
  BY <1>5, <1>6 DEF EndsOf
<1>8. e[0] = 0 /\ \A i \in 1..n : e[i] = e[i - 1] + Size(q[i])
  BY <1>7
<1>9. \A i \in 1..n : Size(q[i]) \in Nat \ {0}
  BY <1>1, <1>2, SizeFacts, StreamAssumption
<1>10. \A i \in 0..n : e[i] \in Nat
  <2> DEFINE B == {i \in 0..n : e[i] \notin Nat}
  <2> SUFFICES ASSUME B # {} PROVE FALSE
    OBVIOUS
  <2>1. B \subseteq Nat
    OBVIOUS
  <2>2. PICK m \in B : \A k \in B : m <= k
    BY <2>1, LeastNumber
  <2>3. m \in 1..n /\ m - 1 \in 0..n /\ m - 1 \notin B
    BY <1>8, <2>2
  <2> QED  BY <1>8, <1>9, <2>2, <2>3
<1>11. e \in [0..n -> Nat]
  BY <1>7, <1>10
<1>12. \A i \in 1..n : e[i - 1] < e[i]
  BY <1>8, <1>9, <1>11
<1>13. \A i, j \in 0..n : i < j => e[i] < e[j]
  BY <1>11, <1>12, Increasing
<1> QED  BY <1>1, <1>2, <1>6, <1>8, <1>11, <1>13

-----------------------------------------------------------------------------
(* Runs of bytes.                                                          *)

\* A run is a sequence.
LEMMA BytesFacts ==
  ASSUME NEW a \in Nat, NEW n \in Nat
  PROVE  /\ Bytes(a, n) \in Seq(Nat) /\ Len(Bytes(a, n)) = n
         /\ \A j \in 1..n : Bytes(a, n)[j] = a + j
  BY DEF Bytes

\* Two runs that follow each other are one.
LEMMA BytesConcat ==
  ASSUME NEW a \in Nat, NEW m \in Nat, NEW n \in Nat
  PROVE  Bytes(a, m) \o Bytes(a + m, n) = Bytes(a, m + n)
<1>0. PICK b, r \in Nat : b = a + m /\ r = m + n
  OBVIOUS
<1>1. PICK s \in Seq(Nat) : s = Bytes(a, m)
  BY BytesFacts
<1>2. PICK t \in Seq(Nat) : t = Bytes(b, n)
  BY <1>0, BytesFacts
<1>3. PICK u \in Seq(Nat) : u = Bytes(a, r)
  BY <1>0, BytesFacts
<1>4. /\ Len(s) = m /\ \A j \in 1..m : s[j] = a + j
      /\ Len(t) = n /\ \A j \in 1..n : t[j] = b + j
      /\ Len(u) = m + n /\ \A j \in 1..(m + n) : u[j] = a + j
  BY <1>0, <1>1, <1>2, <1>3, BytesFacts
<1>5. PICK v \in Seq(Nat) : v = s \o t
  BY ConcatProperties
<1>6. Len(v) = Len(s) + Len(t)
  BY <1>5, ConcatProperties
<1>7. \A j \in 1..(Len(s) + Len(t)) : v[j] = IF j <= Len(s) THEN s[j] ELSE t[j - Len(s)]
  BY <1>5, ConcatProperties
<1>8. ASSUME NEW j \in 1..(m + n)
      PROVE  v[j] = u[j]
  <2>1. CASE j <= m
    BY <1>0, <1>4, <1>7, <2>1
  <2>2. CASE ~(j <= m)
    <3>1. j - m \in 1..n /\ b + (j - m) = a + j
      BY <1>0, <2>2
    <3> QED  BY <1>0, <1>4, <1>7, <2>2, <3>1
  <2> QED  BY <2>1, <2>2
<1>9. v = u
  BY <1>0, <1>4, <1>6, <1>8, SeqEqual
<1> QED  BY <1>0, <1>1, <1>2, <1>3, <1>5, <1>9

\* What is in s behind the first i up to the j-th.
Piece(s, i, j) == SubSeq(s, i + 1, j)

\* A piece of a run is a run.
LEMMA BytesPiece ==
  ASSUME NEW a \in Nat, NEW n \in Nat, NEW i \in Nat, NEW j \in Nat, i <= j, j <= n
  PROVE  Piece(Bytes(a, n), i, j) = Bytes(a + i, j - i)
<1>0. PICK b, r, first \in Nat : b = a + i /\ r = j - i /\ first = i + 1
  OBVIOUS
<1>1. PICK s \in Seq(Nat) : s = Bytes(a, n)
  BY BytesFacts
<1>2. PICK u \in Seq(Nat) : u = Bytes(b, r)
  BY <1>0, BytesFacts
<1>3. Len(s) = n /\ \A x \in 1..n : s[x] = a + x
  BY <1>1, BytesFacts
<1>4. Len(u) = r /\ \A x \in 1..r : u[x] = b + x
  BY <1>0, <1>2, BytesFacts
<1>5. first \in Int /\ j \in Int /\ \A x \in first..j : s[x] \in Nat
  BY <1>0, <1>3
<1>6. PICK v : v = SubSeq(s, first, j)
  OBVIOUS
<1>7. /\ v \in Seq(Nat)
      /\ Len(v) = IF first <= j THEN j - first + 1 ELSE 0
      /\ \A x \in 1..(j - first + 1) : v[x] = s[first + x - 1]
  BY <1>5, <1>6, SubSeqProperties
<1>8. Len(v) = r
  BY <1>0, <1>7
<1>9. ASSUME NEW x \in 1..r
      PROVE  v[x] = u[x]
  BY <1>0, <1>3, <1>4, <1>7
<1> QED  
  <2>1. v = u
    BY <1>4, <1>7, <1>8, <1>9, SeqEqual
  <2>2. Piece(s, i, j) = v
    BY <1>0, <1>6 DEF Piece
  <2> QED  BY <1>0, <1>1, <1>2, <2>1, <2>2

\* Runs of one length, not empty, are the same where they begin at the same place.
LEMMA BytesEqual ==
  ASSUME NEW a \in Nat, NEW b \in Nat, NEW n \in Nat \ {0}
  PROVE  Bytes(a, n) = Bytes(b, n) <=> a = b
<1>1. 1 \in 1..n
  OBVIOUS
<1>2. Bytes(a, n)[1] = a + 1 /\ Bytes(b, n)[1] = b + 1
  BY <1>1 DEF Bytes
<1> QED  BY <1>2

-----------------------------------------------------------------------------
(* One iteration of the loop.                                              *)

\* The packet being assembled, and where it begins.
Current == stream[Len(handled) + 1]
Begin == End[Len(handled)]

\* A header at the beginning of a packet is read as that packet's.
LEMMA HeaderFacts ==
  ASSUME stream \in Seq(Packet), NEW k \in 1..Len(stream), NEW m \in Nat, m >= HeaderSize
  PROVE  HeaderOf(Bytes(End[k - 1], m)) = stream[k]
<1>1. PICK a \in Nat : a = End[k - 1]
  BY EndFacts
<1>2. HeaderSize \in Nat \ {0} /\ 0 \in Nat
  BY StreamAssumption
<1>3. SubSeq(Bytes(a, m), 1, HeaderSize) = Bytes(a, HeaderSize)
  <2>1. PICK zero \in Nat : zero = 0
    OBVIOUS
  <2>2. HeaderSize \in Nat /\ zero <= HeaderSize /\ HeaderSize <= m
    BY <1>2, <2>1
  <2>3. Piece(Bytes(a, m), zero, HeaderSize) = Bytes(a + zero, HeaderSize - zero)
    BY <2>2, BytesPiece
  <2>4. zero + 1 = 1 /\ a + zero = a /\ HeaderSize - zero = HeaderSize
    BY <2>1, <2>2
  <2> QED  BY <2>3, <2>4 DEF Piece
<1>4. ASSUME NEW i \in 1..Len(stream)
      PROVE  Bytes(a, HeaderSize) = Bytes(End[i - 1], HeaderSize) <=> i = k
  <2>1. /\ i - 1 \in 0..Len(stream) /\ k - 1 \in 0..Len(stream)
        /\ i = k \/ i - 1 < k - 1 \/ k - 1 < i - 1
    BY EndFacts
  <2>2. PICK b \in Nat : b = End[i - 1]
    BY <2>1, EndFacts
  <2>3. a = b <=> i = k
    BY <1>1, <2>1, <2>2, EndFacts
  <2> QED  BY <1>2, <2>2, <2>3, BytesEqual
<1> DEFINE starts(b) == {i \in 1..Len(stream) :
                           SubSeq(b, 1, HeaderSize) = [j \in 1..HeaderSize |-> End[i - 1] + j]}
<1>5. starts(Bytes(a, m)) = {k}
  BY <1>3, <1>4 DEF Bytes
<1>6. HeaderOf(Bytes(a, m)) = IF starts(Bytes(a, m)) = {} THEN Garbage
                              ELSE stream[CHOOSE i \in starts(Bytes(a, m)) : TRUE]
  BY DEF HeaderOf
<1> HIDE DEF starts
<1>7. (CHOOSE i \in starts(Bytes(a, m)) : TRUE) = k
  BY <1>5
<1> QED  BY <1>1, <1>5, <1>6, <1>7

\* In the loop there is a packet to be assembled; the header's bytes come first.
LEMMA LoopFacts ==
  ASSUME AssemblyInv, InLoop
  PROVE  /\ open /\ Len(handled) + 1 \in 1..Len(stream) /\ Current \in Packet /\ Begin \in Nat
         /\ End[Len(handled) + 1] = Begin + Size(Current)
         /\ \E m \in 0..Size(Current) :
              /\ ab1 = Bytes(Begin, m) /\ Len(ab1) = m
              /\ remaining1 \in 0..arrived /\ arrived - remaining1 = Begin + m
              /\ m < HeaderSize => remaining1 = 0
              /\ m >= HeaderSize => header = Current
<1>1. /\ stream \in Seq(Packet) /\ arrived \in 0..End[Len(stream)] /\ remaining \in 0..arrived
      /\ remaining > 0 /\ open /\ Len(handled) \in 0..Len(stream)
      /\ Begin <= arrived - remaining
      /\ ab = Bytes(Begin, arrived - remaining - Begin)
      /\ Len(handled) < Len(stream) => arrived - remaining < End[Len(handled) + 1]
  BY DEF AssemblyInv, InLoop, Moved, Begin, ab
<1>2. PICK k \in Nat : k = Len(handled)
  BY <1>1, EndFacts
<1>3. k \in 0..(Len(stream) - 1)
  <2>1. k # Len(stream)
    <3>1. k = Len(stream) => arrived <= Begin /\ Begin \in Nat
      BY <1>1, <1>2, EndFacts DEF Begin
    <3> QED  BY <1>1, <3>1, EndFacts
  <2> QED  BY <1>1, <1>2, <2>1, EndFacts
<1>4. k + 1 \in 1..Len(stream) /\ k \in 0..Len(stream) /\ (k + 1) - 1 = k
  BY <1>1, <1>3, EndFacts
<1>5. Current \in Packet
  BY <1>1, <1>2, <1>4 DEF Current
<1>6. PICK a \in Nat : a = Begin
  BY <1>1, <1>2, <1>4, EndFacts DEF Begin
<1>7. End[k + 1] = a + Size(Current)
  <2>1. End[k + 1] = End[(k + 1) - 1] + Size(stream[k + 1])
    BY <1>1, <1>4, EndFacts
  <2> QED  BY <1>2, <1>4, <1>6, <2>1 DEF Current, Begin
<1>8. PICK size \in Nat : size = Size(Current)
  BY <1>5, SizeFacts
<1>9. size >= HeaderSize /\ HeaderSize \in Nat \ {0}
  BY <1>5, <1>8, SizeFacts, StreamAssumption
<1>10. PICK l \in Nat : l = arrived - remaining - a
  BY <1>1, <1>6, EndFacts
<1>11. ab = Bytes(a, l) /\ Len(ab) = l /\ l < size /\ arrived - remaining = a + l
  <2>1. ab = Bytes(a, l) /\ Len(ab) = l
    BY <1>1, <1>6, <1>10, BytesFacts
  <2>2. arrived - remaining < a + size
    BY <1>1, <1>2, <1>3, <1>7, <1>8, EndFacts
  <2>3. arrived \in Nat /\ remaining \in Nat
    BY <1>1, EndFacts
  <2> QED  BY <1>10, <2>1, <2>2, <2>3
<1>12. PICK h \in Nat : h = HeaderBytes
  <2>1. remaining \in Nat /\ HeaderSize \in Nat
    BY <1>1, <1>9, EndFacts
  <2>2. HeaderBytes \in Nat
    BY <1>11, <2>1 DEF HeaderBytes, Least
  <2> QED  BY <2>2
<1>13. /\ h <= remaining /\ l + h <= size /\ l + h \in Nat
       /\ l + h < HeaderSize => h = remaining
  BY <1>1, <1>9, <1>11, <1>12, EndFacts DEF HeaderBytes, Least
<1>14. ab1 = Bytes(a, l + h) /\ Len(ab1) = l + h
  <2>1. Take(h) = Bytes(a + l, h)
    BY <1>11 DEF Take, Bytes
  <2>2. Bytes(a, l) \o Bytes(a + l, h) = Bytes(a, l + h)
    BY BytesConcat, Zenon
  <2>3. ab1 = Bytes(a, l) \o Bytes(a + l, h)
    BY <1>11, <1>12, <2>1, Zenon DEF ab1
  <2>4. Len(Bytes(a, l + h)) = l + h
    BY <1>13, BytesFacts
  <2> QED  BY <2>2, <2>3, <2>4, Zenon
<1>15. remaining1 \in 0..arrived /\ arrived - remaining1 = a + (l + h)
  BY <1>1, <1>11, <1>12, <1>13, EndFacts DEF remaining1
<1>16. l + h < HeaderSize => remaining1 = 0
  BY <1>1, <1>12, <1>13, EndFacts DEF remaining1
<1>17. l + h >= HeaderSize => header = Current
  <2>1. ASSUME l + h >= HeaderSize
        PROVE  HeaderOf(Bytes(End[(k + 1) - 1], l + h)) = stream[k + 1]
    BY <1>1, <1>4, <1>13, <2>1, HeaderFacts
  <2> QED  BY <1>2, <1>4, <1>6, <1>14, <2>1 DEF header, Current, Begin
<1>18. l + h \in 0..Size(Current)
  BY <1>8, <1>13
<1> QED  BY <1>1, <1>2, <1>4, <1>5, <1>6, <1>7, <1>14, <1>15, <1>16, <1>17, <1>18

\* With the header there, the rest of the packet comes.
LEMMA BodyFacts ==
  ASSUME AssemblyInv, InLoop, Len(ab1) >= HeaderSize
  PROVE  /\ header = Current /\ totalNeeded = Size(Current)
         /\ \E m \in 0..Size(Current) :
              /\ ab2 = Bytes(Begin, m) /\ Len(ab2) = m
              /\ remaining2 \in 0..arrived /\ arrived - remaining2 = Begin + m
              /\ m < Size(Current) => remaining2 = 0
<1>1. Current \in Packet /\ Begin \in Nat
  BY LoopFacts
<1>2. PICK m \in 0..Size(Current) :
        /\ ab1 = Bytes(Begin, m) /\ Len(ab1) = m
        /\ remaining1 \in 0..arrived /\ arrived - remaining1 = Begin + m
        /\ m >= HeaderSize => header = Current
  BY LoopFacts
<1>3. header = Current /\ totalNeeded = Size(Current)
  BY <1>2 DEF totalNeeded
<1>4. PICK size \in Nat : size = Size(Current)
  BY <1>1, SizeFacts
<1>5. PICK a \in Nat : a = Begin
  BY <1>1
<1>6. arrived \in Nat /\ remaining1 \in Nat /\ m \in Nat /\ m <= size
  <2>1. stream \in Seq(Packet) /\ arrived \in 0..End[Len(stream)]
    BY DEF AssemblyInv
  <2>2. arrived \in Nat
    BY <2>1, EndFacts
  <2> QED  BY <1>2, <1>4, <2>2
<1>7. PICK b \in Nat : b = BodyBytes
  BY <1>2, <1>3, <1>4, <1>6 DEF BodyBytes, Least
<1>8. /\ b <= remaining1 /\ m + b <= size /\ m + b \in Nat
      /\ m + b < size => b = remaining1
  BY <1>2, <1>3, <1>4, <1>6, <1>7 DEF BodyBytes, Least
<1>9. ab2 = Bytes(a, m + b) /\ Len(ab2) = m + b
  <2>1. [j \in 1..b |-> arrived - remaining1 + j] = Bytes(a + m, b)
    BY <1>2, <1>5 DEF Bytes
  <2>2. m \in Nat
    BY <1>6
  <2>3. Bytes(a, m) \o Bytes(a + m, b) = Bytes(a, m + b)
    BY <2>2, BytesConcat, Zenon
  <2>4. ab2 = Bytes(a, m) \o Bytes(a + m, b)
    BY <1>2, <1>5, <1>7, <2>1, Zenon DEF ab2
  <2>5. Len(Bytes(a, m + b)) = m + b
    BY <1>8, BytesFacts
  <2> QED  BY <2>3, <2>4, <2>5, Zenon
<1>10. remaining2 \in 0..arrived /\ arrived - remaining2 = a + (m + b)
  BY <1>2, <1>5, <1>6, <1>7, <1>8 DEF remaining2
<1>11. m + b < size => remaining2 = 0
  BY <1>6, <1>7, <1>8 DEF remaining2
<1>12. m + b \in 0..Size(Current)
  BY <1>4, <1>8
<1> QED  BY <1>3, <1>4, <1>5, <1>9, <1>10, <1>11, <1>12

-----------------------------------------------------------------------------
(* Every action keeps the invariant, and is a step of PacketStream or none. *)

\* While the stream is the same, so are its ends.
LEMMA SameEnds ==
  ASSUME UNCHANGED stream
  PROVE  End' = End
  BY DEF End

\* A new connection has sent nothing yet.
LEMMA AssemblyInit == Init => AssemblyInv
<1> SUFFICES ASSUME Init PROVE AssemblyInv
  OBVIOUS
<1>1. /\ arrived = 0 /\ remaining = 0 /\ running = FALSE /\ assemblyBuffer = <<>>
      /\ handled = <<>> /\ Len(handled) = 0
  BY DEF Init, StreamInit
<1>2. stream \in Seq(Packet) /\ Len(stream) \in Nat \ {0}
  <2>1. PICK n \in 1..MaxPackets : stream \in [1..n -> Packet]
    BY DEF Init, StreamInit
  <2> QED  BY <2>1, StreamAssumption
<1>3. End[0] = 0 /\ End[0] < End[1] /\ End[1] \in Nat /\ End[Len(stream)] \in Nat
  BY <1>2, EndFacts
<1>4. handled \in Seq(Handlings)
  BY <1>1
<1>5. assemblyBuffer = Bytes(0, 0)
  <2>1. Bytes(0, 0) \in Seq(Nat) /\ Len(Bytes(0, 0)) = 0
    BY BytesFacts
  <2> QED  BY <1>1, <2>1
<1> QED  BY <1>1, <1>2, <1>3, <1>4, <1>5 DEF AssemblyInv, Moved

\* A receive finds the loop left with nothing remaining.
LEMMA OnRecvCompletedKeeps ==
  ASSUME AssemblyInv, OnRecvCompleted
  PROVE  AssemblyInv' /\ Arrive
<1>1. /\ open /\ ~running /\ running' /\ UNCHANGED <<stream, handled, open, assemblyBuffer>>
      /\ End' = End
  BY SameEnds DEF OnRecvCompleted
<1>2. PICK end \in Nat : end = End[Len(stream)]
  BY EndFacts DEF AssemblyInv
<1>3. arrived \in 0..end /\ remaining = 0 /\ Moved = arrived
  BY <1>1, <1>2 DEF AssemblyInv, Moved
<1>4. PICK n \in 1..Least(BufferSize, end - arrived) : arrived' = arrived + n /\ remaining' = n
  BY <1>2 DEF OnRecvCompleted
<1>5. n \in Nat \ {0} /\ arrived + n <= end
  BY <1>3, <1>4, AssemblyAssumption DEF Least
<1>6. arrived' \in 0..end /\ remaining' \in 0..arrived' /\ Moved' = Moved
  BY <1>3, <1>4, <1>5 DEF Moved
<1>7. Arrive
  <2>1. arrived' \in (arrived + 1)..end
    BY <1>3, <1>4, <1>5
  <2> QED  BY <1>1, <1>2, <2>1 DEF Arrive
<1> QED  BY <1>1, <1>2, <1>6, <1>7 DEF AssemblyInv

\* The loop is left short of a header or of a packet: nothing remains.
LEMMA IncompleteKeeps ==
  ASSUME AssemblyInv, HeaderIncomplete \/ PacketIncomplete
  PROVE  AssemblyInv' /\ UNCHANGED streamVars
<1>1. InLoop /\ running' = FALSE /\ UNCHANGED <<stream, arrived, handled, open>> /\ End' = End
  BY SameEnds DEF HeaderIncomplete, PacketIncomplete, PostNext
<1>2. open /\ Len(handled) + 1 \in 1..Len(stream) /\ Current \in Packet /\ Begin \in Nat
  BY <1>1, LoopFacts
<1>3. End[Len(handled) + 1] = Begin + Size(Current)
  BY <1>1, LoopFacts
<1>4. PICK m \in Nat :
        /\ assemblyBuffer' = Bytes(Begin, m) /\ m < Size(Current)
        /\ remaining' = 0 /\ arrived = Begin + m
  <2>1. CASE HeaderIncomplete
    <3>1. Len(ab1) < HeaderSize /\ assemblyBuffer' = ab1 /\ remaining' = remaining1
      BY <2>1 DEF HeaderIncomplete
    <3>2. PICK m \in 0..Size(Current) :
            /\ ab1 = Bytes(Begin, m) /\ Len(ab1) = m
            /\ remaining1 \in 0..arrived /\ arrived - remaining1 = Begin + m
            /\ m < HeaderSize => remaining1 = 0
      BY <1>1, LoopFacts
    <3>3. Size(Current) \in Nat /\ Size(Current) >= HeaderSize /\ HeaderSize \in Nat
      BY <1>2, SizeFacts, StreamAssumption
    <3>4. arrived \in Nat
      BY EndFacts DEF AssemblyInv
    <3> QED  BY <1>2, <3>1, <3>2, <3>3, <3>4
  <2>2. CASE PacketIncomplete
    <3>1. /\ Len(ab1) >= HeaderSize /\ Len(ab2) < totalNeeded
          /\ assemblyBuffer' = ab2 /\ remaining' = remaining2
      BY <2>2 DEF PacketIncomplete
    <3>2. totalNeeded = Size(Current)
      BY <1>1, <3>1, BodyFacts
    <3>3. PICK m \in 0..Size(Current) :
            /\ ab2 = Bytes(Begin, m) /\ Len(ab2) = m
            /\ remaining2 \in 0..arrived /\ arrived - remaining2 = Begin + m
            /\ m < Size(Current) => remaining2 = 0
      BY <1>1, <3>1, BodyFacts
    <3>4. Size(Current) \in Nat /\ arrived \in Nat
      BY <1>2, SizeFacts, EndFacts DEF AssemblyInv
    <3> QED  BY <1>2, <3>1, <3>2, <3>3, <3>4
  <2> QED  BY <2>1, <2>2
<1>5. Moved' = Begin + m /\ Moved' - Begin = m /\ Begin <= Moved' /\ remaining' \in 0..arrived
  BY <1>1, <1>2, <1>4 DEF Moved
<1>6. Begin + m < End[Len(handled) + 1]
  <2>1. Size(Current) \in Nat
    BY <1>2, SizeFacts
  <2> QED  BY <1>2, <1>3, <1>4, <2>1
<1>7. AssemblyInv'
  BY <1>1, <1>4, <1>5, <1>6 DEF AssemblyInv, Begin
<1> QED  BY <1>1, <1>7 DEF streamVars

\* A packet that cannot be accepted ends the session.
LEMMA RefusesKeeps ==
  ASSUME AssemblyInv, PayloadTooLarge \/ DispatchRefuses
  PROVE  AssemblyInv' /\ Refuse
<1>1. InLoop /\ Len(ab1) >= HeaderSize
  BY DEF PayloadTooLarge, DispatchRefuses, PacketComplete
<1>2. /\ running' = FALSE /\ open' = FALSE /\ UNCHANGED <<stream, arrived, handled>>
      /\ End' = End
  BY SameEnds DEF PayloadTooLarge, DispatchRefuses, Drop
<1>3. open /\ Len(handled) + 1 \in 1..Len(stream) /\ Current \in Packet /\ Begin \in Nat
  BY <1>1, LoopFacts
<1>4. End[Len(handled) + 1] = Begin + Size(Current) /\ header = Current /\ totalNeeded = Size(Current)
  BY <1>1, LoopFacts, BodyFacts
<1>5. /\ Next1 = Len(handled) + 1 /\ stream[Next1] = Current /\ Len(handled) \in Nat
      /\ Next1 - 1 = Len(handled) /\ arrived \in Nat /\ Next1 <= Len(stream)
  BY <1>3, EndFacts DEF AssemblyInv, Next1, Current
<1>6. CASE PayloadTooLarge
  <2>1. PICK m \in 0..Size(Current) :
          Len(ab1) = m /\ remaining1 \in 0..arrived /\ arrived - remaining1 = Begin + m
    BY <1>1, LoopFacts
  <2>2. arrived >= Begin + HeaderSize
    <3>1. HeaderSize \in Nat /\ Size(Current) \in Nat
      BY <1>3, SizeFacts, StreamAssumption
    <3> QED  BY <1>1, <1>3, <1>5, <2>1, <3>1
  <2>3. TooLarge(Current) /\ remaining' = remaining1
    BY <1>4, <1>6 DEF PayloadTooLarge
  <2>4. Refuse
    BY <1>2, <1>3, <1>5, <2>2, <2>3 DEF Refuse, Begin
  <2>5. AssemblyInv'
    BY <1>2, <2>1, <2>3 DEF AssemblyInv
  <2> QED  BY <2>4, <2>5
<1>7. CASE DispatchRefuses
  <2>1. PICK m \in 0..Size(Current) :
          Len(ab2) = m /\ remaining2 \in 0..arrived /\ arrived - remaining2 = Begin + m
    BY <1>1, BodyFacts
  <2>2. Ends(Current) /\ remaining' = remaining2 /\ Len(ab2) >= Size(Current)
    BY <1>4, <1>7 DEF DispatchRefuses, PacketComplete
  <2>3. arrived >= End[Next1]
    <3>1. Size(Current) \in Nat
      BY <1>3, SizeFacts
    <3> QED  BY <1>3, <1>4, <1>5, <2>1, <2>2, <3>1
  <2>4. Refuse
    BY <1>2, <1>3, <1>5, <2>2, <2>3 DEF Refuse
  <2>5. AssemblyInv'
    BY <1>2, <2>1, <2>2 DEF AssemblyInv
  <2> QED  BY <2>4, <2>5
<1> QED  BY <1>6, <1>7

\* A complete packet is handed over, and the next one begins behind it.
LEMMA DispatchKeeps ==
  ASSUME AssemblyInv, Dispatch
  PROVE  AssemblyInv' /\ Handle
<1>1. InLoop /\ Len(ab1) >= HeaderSize /\ UNCHANGED <<stream, arrived, open, running>> /\ End' = End
  BY SameEnds DEF Dispatch, PacketComplete
<1>2. open /\ running /\ Len(handled) + 1 \in 1..Len(stream) /\ Current \in Packet /\ Begin \in Nat
  BY <1>1, LoopFacts DEF InLoop
<1>3. End[Len(handled) + 1] = Begin + Size(Current) /\ header = Current /\ totalNeeded = Size(Current)
  BY <1>1, LoopFacts, BodyFacts
<1>4. /\ Next1 = Len(handled) + 1 /\ stream[Next1] = Current /\ Len(handled) \in Nat
      /\ arrived \in Nat /\ Next1 <= Len(stream) /\ Len(stream) \in Nat
  BY <1>2, EndFacts DEF AssemblyInv, Next1, Current
<1>5. PICK size \in Nat : size = Size(Current)
  BY <1>2, SizeFacts
<1>6. /\ HeaderSize \in Nat /\ Current.ext \in Nat /\ Current.payload \in Nat
      /\ size = HeaderSize + Current.ext + Current.payload
  BY <1>2, <1>5, StreamAssumption DEF Size
<1>7. ab2 = Bytes(Begin, size) /\ remaining2 \in 0..arrived /\ arrived - remaining2 = Begin + size
  <2>1. PICK m \in 0..Size(Current) :
          /\ ab2 = Bytes(Begin, m) /\ Len(ab2) = m
          /\ remaining2 \in 0..arrived /\ arrived - remaining2 = Begin + m
    BY <1>1, BodyFacts
  <2>2. Len(ab2) >= size
    BY <1>3, <1>5 DEF Dispatch, PacketComplete
  <2>3. m = size
    BY <1>5, <2>1, <2>2
  <2> QED  BY <2>1, <2>3
<1>8. ~TooLarge(Current) /\ ~Ends(Current)
  BY <1>3 DEF Dispatch, PacketComplete
<1>9. PICK from \in Nat : from = HeaderSize + Current.ext
  BY <1>6
<1>10. /\ handled' = Append(handled, [kind |-> Current.kind, body |-> Piece(ab2, from, size)])
       /\ assemblyBuffer' = Piece(ab2, size, Len(ab2)) /\ remaining' = remaining2
  BY <1>3, <1>5, <1>9 DEF Dispatch, Piece
<1>11. Piece(ab2, from, size) = Bytes(Begin + from, Current.payload)
  <2>1. from <= size /\ size <= size /\ size - from = Current.payload
    BY <1>6, <1>9
  <2>2. Piece(Bytes(Begin, size), from, size) = Bytes(Begin + from, size - from)
    BY <1>2, <2>1, BytesPiece
  <2> QED  BY <1>7, <2>1, <2>2
<1>12. Begin + from = End[Next1] - Current.payload /\ Begin + from \in Nat
  <2>1. PICK begin \in Nat, ext \in Nat, payload \in Nat, head \in Nat :
          begin = Begin /\ ext = Current.ext /\ payload = Current.payload /\ head = HeaderSize
    BY <1>2, <1>6
  <2>2. End[Next1] = begin + size /\ size = head + ext + payload /\ from = head + ext
    BY <1>3, <1>4, <1>5, <1>6, <1>9, <2>1
  <2>3. begin + from = (begin + size) - payload /\ begin + from \in Nat
    BY <2>2
  <2> QED  BY <2>1, <2>2, <2>3
<1>13. Handled(Next1) = [kind |-> Current.kind, body |-> Piece(ab2, from, size)]
  BY <1>4, <1>11, <1>12 DEF Handled, Bytes
<1>14. Handled(Next1) \in Handlings
  <2>1. Bytes(Begin + from, Current.payload) \in Seq(Nat)
    BY <1>6, <1>12, BytesFacts
  <2> QED  BY <1>2, <1>11, <1>13, <2>1 DEF Handlings
<1>15. handled' = Append(handled, Handled(Next1))
  BY <1>10, <1>13
<1>16. handled' \in Seq(Handlings) /\ Len(handled') = Next1
  BY <1>4, <1>14, <1>15 DEF AssemblyInv
<1>17. Handle
  <2>1. arrived >= End[Next1]
    BY <1>2, <1>3, <1>4, <1>5, <1>7
  <2> QED  BY <1>1, <1>2, <1>4, <1>8, <1>15, <2>1 DEF Handle
<1>18. assemblyBuffer' = Bytes(Begin + size, 0)
  <2>1. Len(ab2) = size
    BY <1>2, <1>5, <1>7, BytesFacts
  <2>2. Piece(Bytes(Begin, size), size, size) = Bytes(Begin + size, size - size)
    BY <1>2, <1>5, BytesPiece
  <2>3. size - size = 0
    OBVIOUS
  <2> QED  BY <1>7, <1>10, <2>1, <2>2, <2>3
<1>19. Moved' = End[Next1] /\ Moved' - End[Next1] = 0 /\ End[Next1] \in Nat
  BY <1>1, <1>2, <1>3, <1>4, <1>5, <1>7, <1>10 DEF Moved
<1>20. Next1 < Len(stream) => End[Next1] < End[Next1 + 1]
  <2>1. stream \in Seq(Packet)
    BY DEF AssemblyInv
  <2>2. Next1 < Len(stream) => Next1 \in 0..Len(stream) /\ Next1 + 1 \in 0..Len(stream) /\ Next1 < Next1 + 1
    BY <1>4
  <2> QED  BY <2>1, <2>2, EndFacts
<1>21. assemblyBuffer' = Bytes(End[Next1], Moved' - End[Next1])
  BY <1>3, <1>4, <1>5, <1>18, <1>19
<1>22. stream' \in Seq(Packet) /\ arrived' \in 0..End'[Len(stream')] /\ remaining' \in 0..arrived'
  BY <1>1, <1>7, <1>10 DEF AssemblyInv
<1>23. AssemblyInv'
  <2>1. Len(handled') \in 0..Len(stream') /\ (running' => open')
    BY <1>1, <1>2, <1>4, <1>16
  <2>2. /\ End'[Len(handled')] <= Moved'
        /\ assemblyBuffer' = Bytes(End'[Len(handled')], Moved' - End'[Len(handled')])
        /\ Len(handled') < Len(stream') => Moved' < End'[Len(handled') + 1]
        /\ running'
    BY <1>1, <1>2, <1>16, <1>19, <1>20, <1>21
  <2> QED  BY <1>16, <1>22, <2>1, <2>2 DEF AssemblyInv
<1> QED  BY <1>17, <1>23

\* The loop is left with nothing remaining.
LEMMA LoopEndsKeeps ==
  ASSUME AssemblyInv, LoopEnds
  PROVE  AssemblyInv' /\ UNCHANGED streamVars
<1>1. /\ remaining = 0 /\ running' = FALSE /\ End' = End
      /\ UNCHANGED <<stream, arrived, handled, open, assemblyBuffer, remaining>>
  BY SameEnds DEF LoopEnds, PostNext
<1>2. Moved' = Moved
  BY <1>1 DEF Moved
<1> QED  BY <1>1, <1>2 DEF AssemblyInv, streamVars

\* A step, or none, keeps the invariant, and is a step of PacketStream or none.
LEMMA AssemblyStep ==
  ASSUME AssemblyInv, [Next]_vars
  PROVE  AssemblyInv' /\ [StreamNext]_streamVars
<1>1. CASE OnRecvCompleted
  BY <1>1, OnRecvCompletedKeeps DEF StreamNext
<1>2. CASE HeaderIncomplete \/ PacketIncomplete
  BY <1>2, IncompleteKeeps
<1>3. CASE PayloadTooLarge \/ DispatchRefuses
  BY <1>3, RefusesKeeps DEF StreamNext
<1>4. CASE Dispatch
  BY <1>4, DispatchKeeps DEF StreamNext
<1>5. CASE LoopEnds
  BY <1>5, LoopEndsKeeps
<1>6. CASE UNCHANGED vars
  <2>1. UNCHANGED <<stream, arrived, handled, open, assemblyBuffer, remaining, running>> /\ End' = End
    BY <1>6, SameEnds DEF vars, streamVars
  <2>2. Moved' = Moved
    BY <2>1 DEF Moved
  <2> QED  BY <2>1, <2>2 DEF AssemblyInv, streamVars
<1> QED  BY <1>1, <1>2, <1>3, <1>4, <1>5, <1>6 DEF Next, LoopStep

-----------------------------------------------------------------------------
(* Theorems.                                                               *)

\* Whatever was received, the buffer holds the bytes of the packet being
\* assembled that were moved into it, and no others.
THEOREM AssemblyInvariance == Spec => []AssemblyInv
  BY AssemblyInit, AssemblyStep, PTL DEF Spec

\* No complete packet waits in the buffer for the next receive, and no byte is
\* lost or doubled, however the stream was cut (IOCP_Server.cpp:413-546).
THEOREM NothingIsLeft == Spec => []NothingWaits
<1>1. AssemblyInv => NothingWaits
  <2> SUFFICES ASSUME AssemblyInv, open, ~running PROVE
         /\ ab = [j \in 1..(arrived - End[Len(handled)]) |-> End[Len(handled)] + j]
         /\ Len(handled) < Len(stream) => arrived < End[Len(handled) + 1]
    BY DEF NothingWaits
  <2>1. remaining = 0 /\ arrived \in Nat
    BY EndFacts DEF AssemblyInv
  <2>2. Moved = arrived
    BY <2>1 DEF Moved
  <2> QED  BY <2>2 DEF AssemblyInv, Bytes, ab
<1> QED  BY <1>1, AssemblyInvariance, PTL

\* The packets of every stream are handled as PacketStream says, each once,
\* whole and in order: the loop implements it step by step (all of
\* ImplementsStream but its fairness).
THEOREM RefinesStream == Spec => Stream!StreamInit /\ [][Stream!StreamNext]_(Stream!streamVars)
<1>1. Init => Stream!StreamInit
  BY DEF Init, StreamInit, Stream!StreamInit
<1>2. StreamNext <=> Stream!StreamNext
  <2>1. Stream!End = End /\ Stream!Next1 = Next1
    BY DEF Stream!End, End, Stream!Size, Size, Stream!Next1, Next1
  <2>2. \A i : Stream!Handled(i) = Handled(i)
    BY <2>1 DEF Stream!Handled, Handled
  <2>3. \A q : (Stream!TooLarge(q) <=> TooLarge(q)) /\ (Stream!Ends(q) <=> Ends(q))
    BY DEF Stream!TooLarge, TooLarge, Stream!Ends, Ends
  <2>4. (Arrive <=> Stream!Arrive) /\ (Handle <=> Stream!Handle) /\ (Refuse <=> Stream!Refuse)
    BY <2>1, <2>2, <2>3 DEF Arrive, Stream!Arrive, Handle, Stream!Handle, Refuse, Stream!Refuse
  <2> QED  BY <2>4 DEF StreamNext, Stream!StreamNext
<1>3. streamVars = Stream!streamVars
  BY DEF streamVars, Stream!streamVars
<1>4. AssemblyInv /\ [Next]_vars => [Stream!StreamNext]_(Stream!streamVars)
  BY <1>2, <1>3, AssemblyStep DEF streamVars, Stream!streamVars
<1> QED  BY <1>1, <1>4, AssemblyInvariance, PTL DEF Spec
=============================================================================
