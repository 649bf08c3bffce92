-------------------------- MODULE SendStreamProofs --------------------------
(***************************************************************************)
(* Proofs about SendStream: for any number of packets of any lengths on    *)
(* one socket, however Winsock cuts the sends and workers take the         *)
(* completions, bytes go out once and in their order, and a context is     *)
(* deleted once its packet is on the wire and not before.                  *)
(***************************************************************************)
EXTENDS SendStream, SequenceTheorems, TLAPS

Types ==
  /\ ctx \in [Frame -> {"unsent", "sending", "deleted", "leaked"}]
  /\ transferredLen \in [Frame -> Nat]
  /\ wsaBuf \in [Frame -> [buf : Nat, len : Nat]]
  /\ posted \in Seq(Frame)
  /\ completed \subseteq [frame : Frame, bytes : Nat]
  /\ wire \in Seq(Frame \X Nat)
  /\ reset \in BOOLEAN

Posted(f) == \E i \in 1..Len(posted) : posted[i] = f

\* What is on the wire of f is its first m bytes.
OnWire(f, m) ==
  /\ m \in 0..TotalLen[f]
  /\ \A i \in 1..Len(wire) : wire[i][1] = f => wire[i][2] \in 1..m
  /\ \A byte \in 1..m : \E i \in 1..Len(wire) : wire[i] = <<f, byte>>

\* The buffer posted for f is what transferredLen leaves of the packet, and all
\* before it is on the wire.
BufferIsRest(f) ==
  /\ OnWire(f, transferredLen[f]) /\ transferredLen[f] < TotalLen[f]
  /\ wsaBuf[f] = [buf |-> 1 + transferredLen[f], len |-> TotalLen[f] - transferredLen[f]]

\* A completion of f is the only thing under way for it.
AwaitsOnly(f, c) ==
  /\ ctx[f] = "sending" /\ ~Posted(f) /\ Waiting(f) = {c}
  /\ c.bytes \in 1..(TotalLen[f] - transferredLen[f])
  /\ OnWire(f, transferredLen[f] + c.bytes)

\* Where a context can be.
Placed(f) ==
  \/ ctx[f] = "unsent" /\ ~Posted(f) /\ Waiting(f) = {} /\ BufferIsRest(f) /\ transferredLen[f] = 0
  \/ ctx[f] = "sending" /\ Posted(f) /\ Waiting(f) = {} /\ BufferIsRest(f)
  \/ \E c \in completed : AwaitsOnly(f, c)
  \/ /\ ctx[f] \in {"deleted", "leaked"} /\ ~Posted(f) /\ Waiting(f) = {}
     /\ \E m \in 0..TotalLen[f] : OnWire(f, m) /\ (m = TotalLen[f] \/ reset)

\* No context is posted twice.
PostedOnce == \A i, j \in 1..Len(posted) : posted[i] = posted[j] => i = j

\* Bytes go out once, and each after the one before it.
InOrder ==
  \A i \in 1..Len(wire) :
    /\ \A j \in 1..Len(wire) : wire[j] = wire[i] => j = i
    /\ wire[i][2] > 1 => \E j \in 1..Len(wire) : j < i /\ wire[j] = <<wire[i][1], wire[i][2] - 1>>

SendInv == Types /\ (\A f \in Frame : Placed(f)) /\ PostedOnce /\ InOrder

-----------------------------------------------------------------------------
(* Queues.                                                                 *)

\* What Append leaves.
LEMMA AppendFacts ==
  ASSUME NEW q \in Seq(Frame), NEW f \in Frame
  PROVE  /\ Append(q, f) \in Seq(Frame) /\ Len(q) \in Nat /\ Len(Append(q, f)) = Len(q) + 1
         /\ Append(q, f)[Len(q) + 1] = f
         /\ \A i \in 1..Len(q) : Append(q, f)[i] = q[i]
  OBVIOUS

\* What Head and Tail take.
LEMMA TailFacts ==
  ASSUME NEW q \in Seq(Frame), q # <<>>
  PROVE  /\ Head(q) = q[1] /\ q[1] \in Frame /\ Len(q) \in Nat \ {0}
         /\ Tail(q) \in Seq(Frame) /\ Len(Tail(q)) = Len(q) - 1
         /\ \A i \in 1..(Len(q) - 1) : Tail(q)[i] = q[i + 1]
  OBVIOUS

\* Winsock puts n bytes of f on the wire, from the one after the first k.
LEMMA TransmitFacts ==
  ASSUME NEW w \in Seq(Frame \X Nat), NEW f \in Frame, NEW k \in Nat, NEW n \in Nat, NEW v,
         NEW t, t = [j \in 1..n |-> <<f, (1 + k) + j - 1>>], v = w \o t
  PROVE  /\ v \in Seq(Frame \X Nat) /\ Len(v) = Len(w) + n /\ Len(w) \in Nat
         /\ \A i \in 1..Len(w) : v[i] = w[i]
         /\ \A i \in (Len(w) + 1)..(Len(w) + n) : v[i] = <<f, k + (i - Len(w))>>
<1>1. t \in Seq(Frame \X Nat) /\ Len(t) = n
  OBVIOUS
<1>2. \A j \in 1..n : t[j] = <<f, k + j>>
  OBVIOUS
<1> DEFINE u == w \o t
<1>3. \A i \in 1..(Len(w) + Len(t)) : u[i] = IF i <= Len(w) THEN w[i] ELSE t[i - Len(w)]
  BY <1>1, ConcatProperties
<1>4. u \in Seq(Frame \X Nat) /\ Len(u) = Len(w) + Len(t) /\ Len(w) \in Nat
  <2>1. t \in Seq(Frame \X Nat)
    BY <1>1
  <2>2. u \in Seq(Frame \X Nat) /\ Len(u) = Len(w) + Len(t)
    BY <2>1, ConcatProperties, Zenon
  <2>3. Len(w) \in Nat
    BY LenProperties
  <2> QED  BY <2>2, <2>3
<1>5. v = u
  OBVIOUS
<1> HIDE DEF u
<1>6. \A i \in 1..Len(w) : v[i] = w[i]
  BY <1>1, <1>3, <1>4, <1>5
<1>7. ASSUME NEW i \in (Len(w) + 1)..(Len(w) + n)
      PROVE  v[i] = <<f, k + (i - Len(w))>>
  <2>1. i \in 1..(Len(w) + Len(t)) /\ ~(i <= Len(w)) /\ i - Len(w) \in 1..n
    BY <1>1, <1>4
  <2> QED  BY <1>2, <1>3, <1>5, <2>1
<1> QED  BY <1>1, <1>4, <1>5, <1>6, <1>7

-----------------------------------------------------------------------------

\* Nothing is posted at the start.
LEMMA SendInit == Init => SendInv
<1> SUFFICES ASSUME Init PROVE SendInv
  OBVIOUS
<1>1. /\ posted = <<>> /\ completed = {} /\ wire = <<>> /\ Len(wire) = 0 /\ Len(posted) = 0
      /\ \A f \in Frame : TotalLen[f] \in Nat \ {0}
  BY SendAssumption DEF Init
<1>2. Types
  BY <1>1, SendAssumption, EmptySeq DEF Init, Types
<1>3. \A f \in Frame : BufferIsRest(f) /\ transferredLen[f] = 0
  BY <1>1 DEF Init, BufferIsRest, OnWire
<1>4. \A f \in Frame : Placed(f)
  BY <1>1, <1>3 DEF Init, Placed, Posted, Waiting
<1> QED  BY <1>1, <1>2, <1>4 DEF SendInv, PostedOnce, InOrder

-----------------------------------------------------------------------------
(* Every action keeps the invariant.                                       *)

\* A context stays where it is when nothing of it changes.
LEMMA OtherStays ==
  ASSUME NEW g \in Frame, Placed(g),
         ctx'[g] = ctx[g], transferredLen'[g] = transferredLen[g], wsaBuf'[g] = wsaBuf[g],
         Waiting(g)' = Waiting(g), Posted(g)' <=> Posted(g), reset => reset',
         \A m : OnWire(g, m) => OnWire(g, m)'
  PROVE  Placed(g)'
<1>1. BufferIsRest(g) => BufferIsRest(g)'
  BY DEF BufferIsRest
<1>2. ASSUME NEW c \in completed, AwaitsOnly(g, c)
      PROVE  c \in completed' /\ AwaitsOnly(g, c)'
  BY <1>2 DEF AwaitsOnly, Waiting
<1> QED  BY <1>1, <1>2 DEF Placed

\* When the wire does not change, neither does what is on it.
LEMMA SameWire ==
  ASSUME UNCHANGED wire
  PROVE  /\ \A f, m : OnWire(f, m)' <=> OnWire(f, m)
         /\ InOrder => InOrder'
  BY DEF OnWire, InOrder

\* What is posted after an Append.
LEMMA PostFacts ==
  ASSUME SendInv, NEW f \in Frame, ~Posted(f), posted' = Append(posted, f)
  PROVE  /\ posted' \in Seq(Frame)
         /\ \A g \in Frame : Posted(g)' <=> g = f \/ Posted(g)
         /\ PostedOnce'
<1>1. /\ posted' \in Seq(Frame) /\ Len(posted) \in Nat /\ Len(posted') = Len(posted) + 1
      /\ posted'[Len(posted) + 1] = f
      /\ \A i \in 1..Len(posted) : posted'[i] = posted[i]
  BY AppendFacts DEF SendInv, Types
<1>2. \A g \in Frame : Posted(g)' <=> g = f \/ Posted(g)
  <2>1. \A i : i \in 1..Len(posted') <=> i \in 1..Len(posted) \/ i = Len(posted) + 1
    BY <1>1
  <2> QED  BY <1>1, <2>1 DEF Posted
<1>3. PostedOnce'
  <2>1. \A i \in 1..Len(posted') : i \in 1..Len(posted) \/ i = Len(posted) + 1
    BY <1>1
  <2> QED  BY <1>1, <2>1 DEF SendInv, PostedOnce, Posted
<1> QED  BY <1>1, <1>2, <1>3

\* A context is posted, or deleted if the connection is gone.
LEMMA PostSendKeeps ==
  ASSUME SendInv, NEW f \in Frame, PostSend(f)
  PROVE  SendInv'
<1>1. /\ ctx[f] = "unsent" /\ UNCHANGED <<transferredLen, wsaBuf, completed, wire, reset>>
  BY DEF PostSend
<1>2. ~Posted(f) /\ Waiting(f) = {} /\ BufferIsRest(f) /\ transferredLen[f] = 0
  BY <1>1 DEF SendInv, Placed, AwaitsOnly
<1>3. \A g : Waiting(g)' = Waiting(g)
  BY <1>1 DEF Waiting
<1>4. (\A g, m : OnWire(g, m)' <=> OnWire(g, m)) /\ InOrder'
  BY <1>1, SameWire DEF SendInv
<1>5. BufferIsRest(f)'
  BY <1>1, <1>2, <1>4 DEF BufferIsRest
<1>6. CASE reset
  <2>1. ctx' = [ctx EXCEPT ![f] = "deleted"] /\ UNCHANGED posted
    BY <1>6 DEF PostSend
  <2>2. Types'
    BY <1>1, <2>1 DEF SendInv, Types
  <2>3. \A g : Posted(g)' <=> Posted(g)
    BY <2>1 DEF Posted
  <2>4. Placed(f)'
    <3>1. OnWire(f, 0) /\ 0 \in 0..TotalLen[f]
      BY <1>2, SendAssumption DEF BufferIsRest
    <3>2. ctx'[f] = "deleted"
      BY <2>1 DEF SendInv, Types
    <3> QED  BY <1>1, <1>2, <1>3, <1>4, <1>6, <2>3, <3>1, <3>2 DEF Placed
  <2>5. ASSUME NEW g \in Frame, g # f
        PROVE  Placed(g)'
    <3>1. ctx'[g] = ctx[g] /\ Placed(g)
      BY <2>1, <2>5 DEF SendInv, Types
    <3> QED  BY <1>1, <1>3, <1>4, <2>3, <3>1, OtherStays
  <2>6. PostedOnce'
    BY <2>1 DEF SendInv, PostedOnce
  <2> QED  BY <1>4, <2>2, <2>4, <2>5, <2>6 DEF SendInv
<1>7. CASE ~reset
  <2>1. ctx' = [ctx EXCEPT ![f] = "sending"] /\ posted' = Append(posted, f)
    BY <1>7 DEF PostSend
  <2>2. /\ posted' \in Seq(Frame) /\ PostedOnce'
        /\ \A g \in Frame : Posted(g)' <=> g = f \/ Posted(g)
    BY <1>2, <2>1, PostFacts
  <2>3. Types'
    BY <1>1, <2>1, <2>2 DEF SendInv, Types
  <2>4. Placed(f)'
    <3>1. ctx'[f] = "sending"
      BY <2>1 DEF SendInv, Types
    <3> QED  BY <1>2, <1>3, <1>5, <2>2, <3>1 DEF Placed
  <2>5. ASSUME NEW g \in Frame, g # f
        PROVE  Placed(g)'
    <3>1. ctx'[g] = ctx[g] /\ Placed(g)
      BY <2>1, <2>5 DEF SendInv, Types
    <3> QED  BY <1>1, <1>3, <1>4, <2>2, <2>5, <3>1, OtherStays
  <2> QED  BY <1>4, <2>2, <2>3, <2>4, <2>5 DEF SendInv
<1> QED  BY <1>6, <1>7

\* A reset takes what was posted; a completion that is queued stays.
LEMMA ResetKeeps ==
  ASSUME SendInv, Reset
  PROVE  SendInv'
<1>1. /\ reset' = TRUE /\ posted' = <<>>
      /\ ctx' = [f \in Frame |-> IF Contains(posted, f) THEN "deleted" ELSE ctx[f]]
      /\ UNCHANGED <<transferredLen, wsaBuf, completed, wire>>
  BY DEF Reset
<1>2. \A f \in Frame : ctx'[f] = IF Posted(f) THEN "deleted" ELSE ctx[f]
  BY <1>1 DEF Contains, Posted
<1>3. Len(posted') = 0 /\ posted' \in Seq(Frame)
  BY <1>1, EmptySeq
<1>4. \A f : ~Posted(f)'
  BY <1>3 DEF Posted
<1>5. \A f : Waiting(f)' = Waiting(f)
  BY <1>1 DEF Waiting
<1>6. (\A f, m : OnWire(f, m)' <=> OnWire(f, m)) /\ InOrder'
  BY <1>1, SameWire DEF SendInv
<1>7. Types'
  BY <1>1, <1>3 DEF SendInv, Types
<1>8. ASSUME NEW f \in Frame
      PROVE  Placed(f)'
  <2>1. CASE Posted(f)
    <3>1. Waiting(f) = {} /\ BufferIsRest(f)
      BY <2>1 DEF SendInv, Placed, AwaitsOnly
    <3>2. OnWire(f, transferredLen[f]) /\ transferredLen[f] \in 0..TotalLen[f]
      BY <3>1, SendAssumption DEF BufferIsRest, OnWire
    <3> QED
      BY <1>1, <1>2, <1>4, <1>5, <1>6, <2>1, <3>1, <3>2 DEF Placed
  <2>2. CASE ~Posted(f)
    <3>1. ctx'[f] = ctx[f] /\ (Posted(f)' <=> Posted(f)) /\ Placed(f)
      BY <1>2, <1>4, <2>2 DEF SendInv
    <3> QED  BY <1>1, <1>5, <1>6, <3>1, OtherStays
  <2> QED  BY <2>1, <2>2
<1> QED  BY <1>3, <1>6, <1>7, <1>8 DEF SendInv, PostedOnce

\* Winsock transmits the next bytes of the packet posted first.
LEMMA TransmitKeeps ==
  ASSUME SendInv, Transmit
  PROVE  SendInv'
<1>1. /\ posted # <<>> /\ posted' = Tail(posted)
      /\ UNCHANGED <<ctx, transferredLen, wsaBuf, reset>>
  BY DEF Transmit
<1>2. PICK f \in Frame : f = Head(posted)
  BY <1>1, TailFacts DEF SendInv, Types
<1>3. /\ posted' \in Seq(Frame) /\ Len(posted) \in Nat \ {0} /\ Len(posted') = Len(posted) - 1
      /\ posted[1] = f /\ \A i \in 1..(Len(posted) - 1) : posted'[i] = posted[i + 1]
  BY <1>1, <1>2, TailFacts DEF SendInv, Types
<1>4. Posted(f) /\ ctx[f] = "sending" /\ Waiting(f) = {} /\ BufferIsRest(f)
  <2>1. Posted(f)
    BY <1>3 DEF Posted
  <2> QED  BY <2>1 DEF SendInv, Placed, AwaitsOnly
<1>5. PICK k \in Nat : k = transferredLen[f]
  BY DEF SendInv, Types
<1>6. PICK total \in Nat \ {0} : total = TotalLen[f]
  BY SendAssumption
<1>7. k < total /\ wsaBuf[f].buf = 1 + k /\ wsaBuf[f].len = total - k
  BY <1>4, <1>5, <1>6 DEF BufferIsRest
<1>8. PICK n \in 1..(total - k) :
        /\ wire' = wire \o [j \in 1..n |-> <<f, (1 + k) + j - 1>>]
        /\ completed' = completed \cup {[frame |-> f, bytes |-> n]}
  <2>1. PICK n \in IF PartialSends THEN 1..wsaBuf[f].len ELSE {wsaBuf[f].len} :
          /\ wire' = wire \o [j \in 1..n |-> <<f, wsaBuf[f].buf + j - 1>>]
          /\ completed' = completed \cup {[frame |-> f, bytes |-> n]}
    BY <1>2 DEF Transmit
  <2>2. n \in 1..(total - k)
    BY <1>5, <1>6, <1>7, <2>1
  <2>3. wsaBuf[f].buf = 1 + k
    BY <1>7
  <2> QED  BY <2>1, <2>2, <2>3
<1>9. /\ wire' \in Seq(Frame \X Nat) /\ Len(wire') = Len(wire) + n /\ Len(wire) \in Nat
      /\ \A i \in 1..Len(wire) : wire'[i] = wire[i]
      /\ \A i \in (Len(wire) + 1)..(Len(wire) + n) : wire'[i] = <<f, k + (i - Len(wire))>>
  <2>1. wire \in Seq(Frame \X Nat) /\ n \in Nat
    BY <1>8 DEF SendInv, Types
  <2>2. PICK w \in Seq(Frame \X Nat) : w = wire
    BY <2>1
  <2>3. PICK v : v = wire'
    OBVIOUS
  <2>4. PICK t : t = [j \in 1..n |-> <<f, (1 + k) + j - 1>>]
    OBVIOUS
  <2>5. v = w \o t
    BY <1>8, <2>2, <2>3, <2>4
  <2>6. n \in Nat
    BY <2>1
  <2>7. /\ v \in Seq(Frame \X Nat) /\ Len(v) = Len(w) + n /\ Len(w) \in Nat
        /\ \A i \in 1..Len(w) : v[i] = w[i]
        /\ \A i \in (Len(w) + 1)..(Len(w) + n) : v[i] = <<f, k + (i - Len(w))>>
    BY <2>4, <2>5, <2>6, TransmitFacts
  <2> QED  BY <2>2, <2>3, <2>7
<1> DEFINE c == [frame |-> f, bytes |-> n]
           l == Len(wire)
<1>10. \A i \in 1..Len(wire') : i \in 1..l \/ i \in (l + 1)..(l + n)
  BY <1>8, <1>9
<1>11. /\ \A i \in 1..l : i \in 1..Len(wire')
       /\ \A i \in (l + 1)..(l + n) : i \in 1..Len(wire') /\ i - l \in 1..n /\ l + (i - l) = i
  BY <1>8, <1>9
<1>12. c.frame = f /\ c.bytes = n /\ c \in [frame : Frame, bytes : Nat]
  BY <1>8
<1> HIDE DEF c, l
<1>13. Types'
  BY <1>1, <1>3, <1>8, <1>9, <1>12 DEF SendInv, Types, c
<1>14. \A g \in Frame : Posted(g)' <=> g # f /\ Posted(g)
  <2>1. \A i \in 1..Len(posted') : i + 1 \in 1..Len(posted) /\ i + 1 # 1
    BY <1>3
  <2>2. \A i \in 1..Len(posted) : i = 1 \/ (i - 1 \in 1..Len(posted') /\ posted'[i - 1] = posted[i])
    BY <1>3
  <2>3. \A i \in 1..Len(posted') : posted'[i] = posted[i + 1] /\ posted[i + 1] # f
    <3>1. 1 \in 1..Len(posted)
      BY <1>3
    <3> QED  BY <1>3, <2>1, <3>1 DEF SendInv, PostedOnce
  <2>4. ASSUME NEW g \in Frame, Posted(g)'
        PROVE  g # f /\ Posted(g)
    BY <2>1, <2>3, <2>4 DEF Posted
  <2>5. ASSUME NEW g \in Frame, g # f, Posted(g)
        PROVE  Posted(g)'
    <3>1. PICK i \in 1..Len(posted) : posted[i] = g
      BY <2>5 DEF Posted
    <3>2. i # 1
      BY <1>3, <2>5, <3>1
    <3> QED  BY <2>2, <3>1, <3>2 DEF Posted
  <2> QED  BY <2>4, <2>5
<1>15. PostedOnce'
  <2>1. \A i \in 1..Len(posted') : i + 1 \in 1..Len(posted) /\ posted'[i] = posted[i + 1]
    BY <1>3
  <2>2. ASSUME NEW i \in 1..Len(posted'), NEW j \in 1..Len(posted'), posted'[i] = posted'[j]
        PROVE  i = j
    <3>1. i + 1 = j + 1
      BY <2>1, <2>2 DEF SendInv, PostedOnce
    <3> QED  BY <1>3, <3>1
  <2> QED  BY <2>2 DEF PostedOnce
<1>16. Waiting(f)' = {c} /\ \A g \in Frame \ {f} : Waiting(g)' = Waiting(g)
  BY <1>4, <1>8, <1>12 DEF Waiting, c
<1>17. OnWire(f, k)
  BY <1>4, <1>5 DEF BufferIsRest
<1>18. OnWire(f, k + n)'
  <2>1. k + n \in 0..TotalLen[f]
    BY <1>6, <1>7, <1>8
  <2>2. ASSUME NEW i \in 1..Len(wire'), wire'[i][1] = f
        PROVE  wire'[i][2] \in 1..(k + n)
    <3>1. CASE i \in 1..l
      <4>1. wire[i][2] \in 1..k
        BY <1>9, <1>17, <2>2, <3>1 DEF OnWire, l
      <4> QED  BY <1>8, <1>9, <3>1, <4>1 DEF l
    <3>2. CASE i \in (l + 1)..(l + n)
      <4>1. wire'[i][2] = k + (i - l) /\ i - l \in 1..n
        BY <1>9, <1>11, <3>2 DEF l
      <4> QED  BY <1>8, <4>1
    <3> QED  BY <1>10, <3>1, <3>2
  <2>3. ASSUME NEW byte \in 1..(k + n)
        PROVE  \E i \in 1..Len(wire') : wire'[i] = <<f, byte>>
    <3>1. CASE byte \in 1..k
      <4>1. PICK i \in 1..l : wire[i] = <<f, byte>>
        BY <1>17, <3>1 DEF OnWire, l
      <4> QED  BY <1>9, <1>11, <4>1 DEF l
    <3>2. CASE byte \in (k + 1)..(k + n)
      <4>1. l \in Nat /\ n \in Nat
        BY <1>8, <1>9 DEF l
      <4>2. PICK i : i = l + (byte - k)
        OBVIOUS
      <4>3. i \in (l + 1)..(l + n) /\ k + (i - l) = byte
        BY <3>2, <4>1, <4>2
      <4>4. wire'[i] = <<f, byte>>
        BY <1>9, <4>3 DEF l
      <4> QED  BY <1>11, <4>3, <4>4
    <3>3. byte \in 1..k \/ byte \in (k + 1)..(k + n)
      <4>1. n \in Nat
        BY <1>8
      <4> QED  BY <2>3, <4>1
    <3> QED  BY <3>1, <3>2, <3>3
  <2> QED  BY <2>1, <2>2, <2>3 DEF OnWire
<1>19. ASSUME NEW g \in Frame \ {f}, NEW m, OnWire(g, m)
       PROVE  OnWire(g, m)'
  <2>1. ASSUME NEW i \in 1..Len(wire'), wire'[i][1] = g
        PROVE  wire'[i][2] \in 1..m
    <3>1. i \in 1..l
      BY <1>9, <1>10, <2>1 DEF l
    <3> QED  BY <1>9, <1>19, <2>1, <3>1 DEF OnWire, l
  <2>2. ASSUME NEW byte \in 1..m
        PROVE  \E i \in 1..Len(wire') : wire'[i] = <<g, byte>>
    <3>1. PICK i \in 1..l : wire[i] = <<g, byte>>
      BY <1>19 DEF OnWire, l
    <3> QED  BY <1>9, <1>11, <3>1 DEF l
  <2> QED  BY <1>19, <2>1, <2>2 DEF OnWire
<1>20. Placed(f)'
  <2>1. c \in completed'
    BY <1>8 DEF c
  <2>2. AwaitsOnly(f, c)'
    BY <1>1, <1>4, <1>5, <1>6, <1>8, <1>12, <1>14, <1>16, <1>18 DEF AwaitsOnly
  <2> QED  BY <2>1, <2>2 DEF Placed
<1>21. ASSUME NEW g \in Frame \ {f}
       PROVE  Placed(g)'
  BY <1>1, <1>14, <1>16, <1>19, OtherStays DEF SendInv
<1>22. InOrder'
  <2>1. ASSUME NEW i \in 1..l
        PROVE  wire'[i] = wire[i] /\ (wire[i][1] = f => wire[i][2] \in 1..k)
    BY <1>9, <1>17 DEF OnWire, l
  <2>2. ASSUME NEW i \in (l + 1)..(l + n)
        PROVE  wire'[i][1] = f /\ wire'[i][2] = k + (i - l) /\ wire'[i][2] \notin 1..k
    <3>1. wire'[i] = <<f, k + (i - l)>>
      BY <1>9 DEF l
    <3> QED  BY <1>8, <1>9, <3>1 DEF l
  <2>3. ASSUME NEW i \in 1..Len(wire'), NEW j \in 1..Len(wire'), wire'[j] = wire'[i]
        PROVE  j = i
    <3>1. CASE i \in 1..l /\ j \in 1..l
      BY <2>1, <2>3, <3>1 DEF SendInv, InOrder, l
    <3>2. CASE i \in (l + 1)..(l + n) /\ j \in (l + 1)..(l + n)
      <4>1. k + (i - l) = k + (j - l)
        BY <2>2, <2>3, <3>2
      <4> QED  BY <1>9, <3>2, <4>1 DEF l
    <3>3. CASE (i \in 1..l /\ j \in (l + 1)..(l + n)) \/ (j \in 1..l /\ i \in (l + 1)..(l + n))
      BY <2>1, <2>2, <2>3, <3>3
    <3> QED  BY <1>10, <3>1, <3>2, <3>3
  <2>4. ASSUME NEW i \in 1..Len(wire'), wire'[i][2] > 1
        PROVE  \E j \in 1..Len(wire') : j < i /\ wire'[j] = <<wire'[i][1], wire'[i][2] - 1>>
    <3>1. CASE i \in 1..l
      <4>1. wire[i][2] > 1
        BY <2>1, <2>4, <3>1
      <4>2. PICK j \in 1..l : j < i /\ wire[j] = <<wire[i][1], wire[i][2] - 1>>
        BY <3>1, <4>1 DEF SendInv, InOrder, l
      <4> QED  BY <1>11, <2>1, <3>1, <4>2
    <3>2. CASE i = l + 1
      <4>0. i \in (l + 1)..(l + n)
        BY <1>8, <1>9, <3>2 DEF l
      <4>5. wire'[i][1] = f /\ wire'[i][2] = k + (i - l)
        BY <2>2, <4>0
      <4>6. i - l = 1
        BY <1>9, <3>2 DEF l
      <4>1. wire'[i][1] = f /\ wire'[i][2] - 1 = k /\ wire'[i][2] = k + 1
        BY <4>5, <4>6
      <4>2. k \in 1..k
        BY <2>4, <4>1
      <4>3. PICK j \in 1..l : wire[j] = <<f, k>>
        BY <1>17, <4>2 DEF OnWire, l
      <4>4. j < i
        BY <1>9, <3>2, <4>3 DEF l
      <4> QED  BY <1>11, <2>1, <4>1, <4>3, <4>4
    <3>3. CASE i \in (l + 2)..(l + n)
      <4>1. i \in (l + 1)..(l + n) /\ i - 1 \in (l + 1)..(l + n) /\ i - 1 < i
        BY <1>8, <1>9, <3>3 DEF l
      <4>2. wire'[i - 1] = <<f, k + ((i - 1) - l)>>
        BY <1>9, <4>1 DEF l
      <4>5. wire'[i][1] = f /\ wire'[i][2] = k + (i - l)
        BY <2>2, <4>1
      <4>6. l \in Nat /\ i \in Nat /\ (k + (i - l)) - 1 = k + ((i - 1) - l)
        BY <1>9, <3>3 DEF l
      <4>3. wire'[i][1] = f /\ wire'[i][2] - 1 = k + ((i - 1) - l)
        BY <4>5, <4>6
      <4> QED  BY <1>11, <4>1, <4>2, <4>3
    <3>4. i \in (l + 1)..(l + n) => i = l + 1 \/ i \in (l + 2)..(l + n)
      <4>1. l \in Nat /\ n \in Nat
        BY <1>8, <1>9 DEF l
      <4> QED  BY <4>1
    <3> QED  BY <1>10, <3>1, <3>2, <3>3, <3>4
  <2> QED  BY <2>3, <2>4 DEF InOrder
<1> QED  BY <1>13, <1>15, <1>20, <1>21, <1>22 DEF SendInv

\* A context that is done is deleted, and the rest of another is posted, or
\* refused and left to nobody.
LEMMA OnSendCompletedKeeps ==
  ASSUME SendInv, NEW c \in completed, OnSendCompleted(c)
  PROVE  SendInv'
<1>1. completed' = completed \ {c} /\ UNCHANGED <<wire, reset>>
  BY DEF OnSendCompleted
<1>2. PICK f \in Frame : f = c.frame
  BY DEF SendInv, Types
<1>3. AwaitsOnly(f, c)
  <2>1. c \in Waiting(f)
    BY <1>2 DEF Waiting
  <2> QED  BY <2>1 DEF SendInv, Placed, AwaitsOnly
<1>4. PICK done \in Nat : done = transferredLen[f] + c.bytes
  BY <1>2 DEF SendInv, Types
<1>5. PICK total \in Nat \ {0} : total = TotalLen[f]
  BY SendAssumption
<1>6. /\ transferredLen' = [transferredLen EXCEPT ![f] = done]
      /\ IF done = total
         THEN ctx' = [ctx EXCEPT ![f] = "deleted"] /\ UNCHANGED <<wsaBuf, posted>>
         ELSE /\ wsaBuf' = [wsaBuf EXCEPT ![f] = [buf |-> 1 + done, len |-> total - done]]
              /\ IF reset THEN ctx' = [ctx EXCEPT ![f] = "leaked"] /\ UNCHANGED posted
                 ELSE posted' = Append(posted, f) /\ UNCHANGED ctx
  BY <1>2, <1>4, <1>5 DEF OnSendCompleted
<1>7. ctx[f] = "sending" /\ ~Posted(f) /\ done \in 1..total /\ OnWire(f, done)
  <2>1. ctx[f] = "sending" /\ ~Posted(f) /\ OnWire(f, done)
    BY <1>3, <1>4 DEF AwaitsOnly
  <2>2. PICK k \in Nat : k = transferredLen[f]
    BY DEF SendInv, Types
  <2>3. c.bytes \in 1..(total - k) /\ done = k + c.bytes
    BY <1>3, <1>4, <1>5, <2>2 DEF AwaitsOnly
  <2>4. done \in 1..total
    BY <1>5, <2>3
  <2> QED  BY <2>1, <2>4
<1>8. Waiting(f)' = {} /\ \A g \in Frame \ {f} : Waiting(g)' = Waiting(g)
  BY <1>1, <1>2, <1>3 DEF Waiting, AwaitsOnly
<1>9. (\A g, m : OnWire(g, m)' <=> OnWire(g, m)) /\ InOrder'
  BY <1>1, SameWire DEF SendInv
<1>10. transferredLen' \in [Frame -> Nat] /\ transferredLen'[f] = done
  BY <1>6 DEF SendInv, Types
<1>11. ASSUME NEW g \in Frame \ {f}
       PROVE  ctx'[g] = ctx[g] /\ transferredLen'[g] = transferredLen[g] /\ wsaBuf'[g] = wsaBuf[g]
  BY <1>6 DEF SendInv, Types
<1>12. ASSUME \A g \in Frame \ {f} : Posted(g)' <=> Posted(g), NEW g \in Frame \ {f}
       PROVE  Placed(g)'
  BY <1>1, <1>8, <1>9, <1>11, <1>12, OtherStays DEF SendInv
<1>13. CASE done = total
  <2>1. ctx' = [ctx EXCEPT ![f] = "deleted"] /\ UNCHANGED <<wsaBuf, posted>>
    BY <1>6, <1>13
  <2>2. Types'
    BY <1>1, <1>10, <2>1 DEF SendInv, Types
  <2>3. PostedOnce' /\ \A g : Posted(g)' <=> Posted(g)
    BY <2>1 DEF SendInv, PostedOnce, Posted
  <2>4. Placed(f)'
    <3>1. ctx'[f] = "deleted"
      BY <2>1 DEF SendInv, Types
    <3>2. done \in 0..TotalLen[f] /\ done = TotalLen[f]
      BY <1>5, <1>7, <1>13
    <3> QED  BY <1>7, <1>8, <1>9, <2>3, <3>1, <3>2 DEF Placed
  <2> QED  BY <1>9, <1>12, <2>2, <2>3, <2>4 DEF SendInv
<1>14. CASE done # total
  <2>1. wsaBuf' = [wsaBuf EXCEPT ![f] = [buf |-> 1 + done, len |-> total - done]]
    BY <1>6, <1>14
  <2>2. done < total /\ 1 + done \in Nat /\ total - done \in Nat
    BY <1>5, <1>7, <1>14
  <2>3. /\ wsaBuf' \in [Frame -> [buf : Nat, len : Nat]]
        /\ wsaBuf'[f] = [buf |-> 1 + done, len |-> total - done]
    BY <2>1, <2>2 DEF SendInv, Types
  <2>4. CASE reset
    <3>1. ctx' = [ctx EXCEPT ![f] = "leaked"] /\ UNCHANGED posted
      BY <1>6, <1>14, <2>4
    <3>2. Types'
      BY <1>1, <1>10, <2>3, <3>1 DEF SendInv, Types
    <3>3. PostedOnce' /\ \A g : Posted(g)' <=> Posted(g)
      BY <3>1 DEF SendInv, PostedOnce, Posted
    <3>4. Placed(f)'
      <4>1. ctx'[f] = "leaked"
        BY <3>1 DEF SendInv, Types
      <4>2. done \in 0..TotalLen[f] /\ reset'
        BY <1>1, <1>5, <1>7, <2>4
      <4> QED  BY <1>7, <1>8, <1>9, <3>3, <4>1, <4>2 DEF Placed
    <3> QED  BY <1>9, <1>12, <3>2, <3>3, <3>4 DEF SendInv
  <2>5. CASE ~reset
    <3>1. posted' = Append(posted, f) /\ UNCHANGED ctx
      BY <1>6, <1>14, <2>5
    <3>2. /\ posted' \in Seq(Frame) /\ PostedOnce'
          /\ \A g \in Frame : Posted(g)' <=> g = f \/ Posted(g)
      BY <1>7, <3>1, PostFacts
    <3>3. Types'
      BY <1>1, <1>10, <2>3, <3>1, <3>2 DEF SendInv, Types
    <3>4. BufferIsRest(f)'
      BY <1>5, <1>7, <1>9, <1>10, <2>2, <2>3 DEF BufferIsRest
    <3>5. Placed(f)'
      BY <1>7, <1>8, <3>1, <3>2, <3>4 DEF Placed
    <3> QED  BY <1>9, <1>12, <3>2, <3>3, <3>5 DEF SendInv
  <2> QED  BY <2>4, <2>5
<1> QED  BY <1>13, <1>14

\* Every step, or none, keeps the invariant.
LEMMA SendStep == SendInv /\ [Next]_vars => SendInv'
<1> SUFFICES ASSUME SendInv, [Next]_vars PROVE SendInv'
  OBVIOUS
<1>1. CASE \E f \in Frame : PostSend(f)
  BY <1>1, PostSendKeeps
<1>2. CASE Transmit
  BY <1>2, TransmitKeeps
<1>3. CASE Reset
  BY <1>3, ResetKeeps
<1>4. CASE \E c \in completed : OnSendCompleted(c)
  BY <1>4, OnSendCompletedKeeps
<1>5. CASE UNCHANGED vars
  <2>1. UNCHANGED <<ctx, transferredLen, wsaBuf, posted, completed, wire, reset>>
    BY <1>5 DEF vars
  <2>2. /\ \A g : (Waiting(g)' = Waiting(g)) /\ (Posted(g)' <=> Posted(g))
        /\ \A g, m : OnWire(g, m)' <=> OnWire(g, m)
        /\ InOrder'
    BY <2>1, SameWire DEF Waiting, Posted, SendInv
  <2>3. Types' /\ PostedOnce'
    BY <2>1 DEF SendInv, Types, PostedOnce
  <2>4. \A g \in Frame : Placed(g)'
    BY <2>1, <2>2, OtherStays DEF SendInv
  <2> QED  BY <2>2, <2>3, <2>4 DEF SendInv
<1> QED  BY <1>1, <1>2, <1>3, <1>4, <1>5 DEF Next

-----------------------------------------------------------------------------
(* Theorems.                                                               *)

\* A context is in one place, and the buffer posted for it is what is left of
\* its packet.
THEOREM SendInvariance == Spec => []SendInv
BY SendInit, SendStep, PTL DEF Spec

\* However the sends are cut, the bytes of each packet reach the client in
\* their order, none twice and none left out (IOCP_Server.cpp:548-580).
THEOREM BytesOnce == Spec => []FrameBytesOnce
<1>1. SendInv => FrameBytesOnce
  <2> SUFFICES ASSUME SendInv, NEW i \in 1..Len(wire)
               PROVE  /\ wire[i][2] \in 1..TotalLen[wire[i][1]]
                      /\ \A j \in 1..Len(wire) : wire[j] = wire[i] => j = i
                      /\ wire[i][2] > 1 => \E j \in 1..Len(wire) :
                           j < i /\ wire[j] = <<wire[i][1], wire[i][2] - 1>>
    <3>1. SendInv => DOMAIN wire = 1..Len(wire)
      BY DEF SendInv, Types
    <3> QED  BY <3>1 DEF FrameBytesOnce
  <2>1. PICK f \in Frame : f = wire[i][1]
    BY DEF SendInv, Types
  <2>2. PICK m \in 0..TotalLen[f] : OnWire(f, m)
    <3>1. Placed(f)
      BY DEF SendInv
    <3> QED  BY <3>1 DEF Placed, BufferIsRest, AwaitsOnly, OnWire
  <2>3. TotalLen[f] \in Nat
    BY SendAssumption
  <2>4. wire[i][2] \in 1..TotalLen[f]
    BY <2>1, <2>2, <2>3 DEF OnWire
  <2> QED  BY <2>1, <2>4 DEF SendInv, InOrder
<1> QED  BY <1>1, SendInvariance, PTL

\* A context being sent is posted or has one completion coming, and it is
\* deleted when its packet is on the wire and not before, unless the
\* connection broke (IOCP_Server.cpp:548-580).
THEOREM ContextsOutlive == Spec => []ContextOutlivesSend
<1>1. SendInv => ContextOutlivesSend
  <2> SUFFICES ASSUME SendInv, NEW f \in Frame
               PROVE  /\ ctx[f] = "sending" =>
                           IF Contains(posted, f) THEN Waiting(f) = {}
                           ELSE \E c \in completed : Waiting(f) = {c}
                      /\ ctx[f] = "deleted" =>
                           /\ ~Contains(posted, f) /\ Waiting(f) = {}
                           /\ reset \/ SentWhole(f)
    BY DEF ContextOutlivesSend
  <2>1. Placed(f) /\ (Contains(posted, f) <=> Posted(f))
    BY DEF SendInv, Contains, Posted
  <2>2. TotalLen[f] \in 1..TotalLen[f]
    BY SendAssumption
  <2>3. OnWire(f, TotalLen[f]) => SentWhole(f)
    <3>1. DOMAIN wire = 1..Len(wire)
      BY DEF SendInv, Types
    <3> QED  BY <2>2, <3>1 DEF OnWire, SentWhole
  <2> QED  BY <2>1, <2>3 DEF Placed, AwaitsOnly
<1> QED  BY <1>1, SendInvariance, PTL

=============================================================================
