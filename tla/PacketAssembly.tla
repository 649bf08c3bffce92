--------------------------- MODULE PacketAssembly ---------------------------
(***************************************************************************)
(* How OnRecvCompleted puts packets together (IOCP_Server.cpp:413-546):    *)
(* each receive brings a piece of the client's byte stream, the loop moves *)
(* it into assemblyBuffer, and every complete packet is dispatched and     *)
(* erased.  A byte is named by its place in the stream, so that a byte     *)
(* lost, doubled or handed to the wrong packet shows.  Sizes are scaled    *)
(* down; the header's fields are read from the packet that starts at the   *)
(* buffer's first byte, when one does.                                     *)
(***************************************************************************)
EXTENDS PacketStream, SequencesExt

CONSTANT BufferSize   \* the most one receive can bring

ASSUME AssemblyAssumption == BufferSize \in Nat \ {0}

VARIABLES
  assemblyBuffer,   \* the bytes of the packet being assembled, and beyond
  remaining,        \* bytes of the current receive not yet moved
  running           \* a worker is in the loop

vars == <<streamVars, assemblyBuffer, remaining, running>>

ab == assemblyBuffer

\* The next n bytes of the current receive.
Take(n) == [j \in 1..n |-> arrived - remaining + j]
Least(m, n) == IF m < n THEN m ELSE n

\* Bytes that are no header, read as one.
Garbage == [kind |-> "unknown", ext |-> 0, payload |-> 0]

\* memcpy and ntohs: the header in the first bytes of b.
HeaderOf(b) ==
  LET starts == {i \in 1..Len(stream) :
                   SubSeq(b, 1, HeaderSize) = [j \in 1..HeaderSize |-> End[i - 1] + j]}
  IN IF starts = {} THEN Garbage ELSE stream[CHOOSE i \in starts : TRUE]

Init ==
  /\ StreamInit
  /\ assemblyBuffer = <<>> /\ remaining = 0 /\ running = FALSE

\* A receive completes with n bytes and OnRecvCompleted enters its loop.
OnRecvCompleted ==
  /\ open /\ ~running
  /\ \E n \in 1..Least(BufferSize, End[Len(stream)] - arrived) :
       arrived' = arrived + n /\ remaining' = n
  /\ running' = TRUE
  /\ UNCHANGED <<stream, handled, open, assemblyBuffer>>

\* The bytes the iteration adds for the header.
HeaderBytes == IF Len(ab) < HeaderSize THEN Least(HeaderSize - Len(ab), remaining) ELSE 0

\* The buffer once the header's bytes are in, what is left, what it announces.
ab1 == ab \o Take(HeaderBytes)
remaining1 == remaining - HeaderBytes
header == HeaderOf(ab1)
totalNeeded == Size(header)

\* The same once the rest of the packet was asked for.
BodyBytes == IF Len(ab1) < totalNeeded THEN Least(totalNeeded - Len(ab1), remaining1) ELSE 0
ab2 == ab1 \o [j \in 1..BodyBytes |-> arrived - remaining1 + j]
remaining2 == remaining1 - BodyBytes

InLoop == running /\ remaining > 0

\* Leave the loop, delete the context and post the next receive.
PostNext == running' = FALSE /\ UNCHANGED <<stream, arrived, handled, open>>

\* return false: CloseSession drops the session and its buffer.
Drop == running' = FALSE /\ open' = FALSE /\ UNCHANGED <<stream, arrived, handled>>

HeaderIncomplete ==
  /\ InLoop /\ Len(ab1) < HeaderSize
  /\ assemblyBuffer' = ab1 /\ remaining' = remaining1
  /\ PostNext

PayloadTooLarge ==
  /\ InLoop /\ Len(ab1) >= HeaderSize /\ TooLarge(header)
  /\ assemblyBuffer' = ab1 /\ remaining' = remaining1
  /\ Drop

PacketIncomplete ==
  /\ InLoop /\ Len(ab1) >= HeaderSize /\ ~TooLarge(header) /\ Len(ab2) < totalNeeded
  /\ assemblyBuffer' = ab2 /\ remaining' = remaining2
  /\ PostNext

PacketComplete ==
  InLoop /\ Len(ab1) >= HeaderSize /\ ~TooLarge(header) /\ Len(ab2) >= totalNeeded

\* Mutant: one packet per receive; the loop is left after the first.
DispatchLeaves ==
  /\ PacketComplete /\ ~Ends(header)
  /\ handled' = Append(handled,
                  [kind |-> header.kind,
                   body |-> SubSeq(ab2, HeaderSize + header.ext + 1, totalNeeded)])
  /\ assemblyBuffer' = SubSeq(ab2, totalNeeded + 1, Len(ab2))
  /\ remaining' = 0 /\ running' = FALSE
  /\ UNCHANGED <<stream, arrived, open>>

\* Mutant: the payload is taken to follow the header at once.
DispatchSkipsNothing ==
  /\ PacketComplete /\ ~Ends(header)
  /\ handled' = Append(handled,
                  [kind |-> header.kind,
                   body |-> SubSeq(ab2, HeaderSize + 1, HeaderSize + header.payload)])
  /\ assemblyBuffer' = SubSeq(ab2, totalNeeded + 1, Len(ab2))
  /\ remaining' = remaining2
  /\ UNCHANGED <<stream, arrived, open, running>>

\* Chat, login, register: the handler gets the payload behind the extension
\* header, the packet is erased.
Dispatch ==
  /\ PacketComplete /\ ~Ends(header)
  /\ handled' = Append(handled,
                  [kind |-> header.kind,
                   body |-> SubSeq(ab2, HeaderSize + header.ext + 1, totalNeeded)])
  /\ assemblyBuffer' = SubSeq(ab2, totalNeeded + 1, Len(ab2))
  /\ remaining' = remaining2
  /\ UNCHANGED <<stream, arrived, open, running>>

\* A chat with an extension header or before login, or an unknown command.
DispatchRefuses ==
  /\ PacketComplete /\ Ends(header)
  /\ assemblyBuffer' = ab2 /\ remaining' = remaining2
  /\ Drop

\* while (remaining > 0) ends.
LoopEnds ==
  /\ running /\ remaining = 0
  /\ PostNext
  /\ UNCHANGED <<assemblyBuffer, remaining>>

LoopStep ==
  \/ HeaderIncomplete \/ PayloadTooLarge \/ PacketIncomplete
  \/ Dispatch \/ DispatchRefuses \/ LoopEnds

Next == OnRecvCompleted \/ LoopStep

\* A worker in the loop is scheduled; when bytes arrive is up to the client.
Spec == Init /\ [][Next]_vars /\ WF_vars(LoopStep)

-----------------------------------------------------------------------------

\* The buffer never holds a complete packet while the server waits for the
\* client, and what it holds are the bytes behind the packets handled so far:
\* none is lost or doubled, however the stream was cut.
NothingWaits ==
  open /\ ~running =>
    LET k == Len(handled) IN
    /\ ab = [j \in 1..(arrived - End[k]) |-> End[k] + j]
    /\ k < Len(stream) => arrived < End[k + 1]

\* Packets are handled as the stream says, whatever the receives were.
Stream == INSTANCE PacketStream WITH
  stream <- stream, arrived <- arrived, handled <- handled, open <- open
ImplementsStream == Stream!StreamSpec
=============================================================================
