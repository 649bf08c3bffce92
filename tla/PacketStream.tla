---------------------------- MODULE PacketStream ----------------------------
(***************************************************************************)
(* What the server promises about the byte stream of one client: the       *)
(* packets in it are handled one after the other, each once and whole, as  *)
(* soon as its last byte has arrived, until one of them ends the session.  *)
(* How the stream was cut into receives does not show.                     *)
(***************************************************************************)
EXTENDS Naturals, Sequences

CONSTANTS
  HeaderSize,   \* sizeof(PacketHeader)
  MaxPayload,   \* the largest payload size the server waits for
  Packet,       \* the packets clients send: records of kind, ext and payload
  MaxPackets    \* bound: packets in one stream

ASSUME StreamAssumption ==
  /\ HeaderSize \in Nat \ {0} /\ MaxPayload \in Nat /\ MaxPackets \in Nat
  /\ \A p \in Packet : p.ext \in Nat /\ p.payload \in Nat

VARIABLES
  stream,       \* the packets the client sends, in order
  arrived,      \* bytes of the stream that were received
  handled,      \* what was handed to a handler: kind and payload
  open          \* the session goes on

streamVars == <<stream, arrived, handled, open>>

Size(p) == HeaderSize + p.ext + p.payload

\* Where each packet of the stream ends.
End[i \in 0..Len(stream)] == IF i = 0 THEN 0 ELSE End[i - 1] + Size(stream[i])

\* What a handler gets of packet i: its kind and the places of its payload.
Handled(i) ==
  [kind |-> stream[i].kind,
   body |-> [j \in 1..stream[i].payload |-> End[i] - stream[i].payload + j]]

TooLarge(p) == p.payload > MaxPayload
Ends(p) == p.kind # "handled"

Next1 == Len(handled) + 1

StreamInit ==
  /\ stream \in UNION {[1..n -> Packet] : n \in 1..MaxPackets}
  /\ arrived = 0 /\ handled = <<>> /\ open = TRUE

Arrive ==
  /\ open
  /\ arrived' \in (arrived + 1)..End[Len(stream)]
  /\ UNCHANGED <<stream, handled, open>>

Handle ==
  /\ open /\ Next1 <= Len(stream)
  /\ LET p == stream[Next1] IN
       ~TooLarge(p) /\ ~Ends(p) /\ arrived >= End[Next1]
  /\ handled' = Append(handled, Handled(Next1))
  /\ UNCHANGED <<stream, arrived, open>>

\* A packet that announces too much ends the session when its header is
\* there, any other unacceptable one when it is complete.
Refuse ==
  /\ open /\ Next1 <= Len(stream)
  /\ LET p == stream[Next1] IN
       \/ TooLarge(p) /\ arrived >= End[Next1 - 1] + HeaderSize
       \/ Ends(p) /\ arrived >= End[Next1]
  /\ open' = FALSE
  /\ UNCHANGED <<stream, arrived, handled>>

StreamNext == Arrive \/ Handle \/ Refuse

StreamSpec == StreamInit /\ [][StreamNext]_streamVars /\ WF_streamVars(Handle \/ Refuse)
=============================================================================
