----------------------------- MODULE SendStream -----------------------------
(***************************************************************************)
(* What the sends on one socket put on the wire: workers post contexts     *)
(* with PostSend, Winsock transmits the posted buffers in the order of the *)
(* calls, and OnSendCompleted deletes a context or posts the rest of it    *)
(* (IOCP_Server.cpp:391-411 and 548-580).  Several contexts can be         *)
(* outstanding: a broadcast does not wait for the one before.              *)
(***************************************************************************)
EXTENDS Naturals, Sequences, SequencesExt

CONSTANTS
  Frame,          \* the contexts sent to this client, one packet each
  TotalLen,       \* [Frame -> bytes in the packet]
  PartialSends,   \* whether WSASend may complete before all is sent
  CanReset        \* whether the connection may be reset

ASSUME SendAssumption ==
  /\ TotalLen \in [Frame -> Nat \ {0}]
  /\ PartialSends \in BOOLEAN /\ CanReset \in BOOLEAN

VARIABLES
  ctx,             \* [Frame -> state of the context]
  transferredLen,  \* [Frame -> IoContext::transferredLen]
  wsaBuf,          \* [Frame -> first byte and length of the posted buffer]
  posted,          \* WSASend calls Winsock has not finished, in order
  completed,       \* completion packets in the port: frame and byte count
  wire,            \* what the client's end receives: frame and byte
  reset            \* the connection was reset

vars == <<ctx, transferredLen, wsaBuf, posted, completed, wire, reset>>

Init ==
  /\ ctx = [f \in Frame |-> "unsent"]
  /\ transferredLen = [f \in Frame |-> 0]
  /\ wsaBuf = [f \in Frame |-> [buf |-> 1, len |-> TotalLen[f]]]
  /\ posted = <<>> /\ completed = {} /\ wire = <<>> /\ reset = FALSE

\* A worker answers or broadcasts to this client; a refused context is deleted.
PostSend(f) ==
  /\ ctx[f] = "unsent"
  /\ IF reset THEN ctx' = [ctx EXCEPT ![f] = "deleted"] /\ UNCHANGED posted
     ELSE ctx' = [ctx EXCEPT ![f] = "sending"] /\ posted' = Append(posted, f)
  /\ UNCHANGED <<transferredLen, wsaBuf, completed, wire, reset>>

\* Winsock transmits the first posted buffer and its completion is queued.
Transmit ==
  /\ posted # <<>> /\ ~reset
  /\ LET f == Head(posted)  b == wsaBuf[f] IN
     \E n \in IF PartialSends THEN 1..b.len ELSE {b.len} :
       /\ wire' = wire \o [j \in 1..n |-> <<f, b.buf + j - 1>>]
       /\ completed' = completed \cup {[frame |-> f, bytes |-> n]}
  /\ posted' = Tail(posted)
  /\ UNCHANGED <<ctx, transferredLen, wsaBuf, reset>>

\* The connection breaks: what was posted completes as failed, and the
\* worker deletes those contexts.
Reset ==
  /\ CanReset /\ ~reset
  /\ reset' = TRUE
  /\ ctx' = [f \in Frame |-> IF Contains(posted, f) THEN "deleted" ELSE ctx[f]]
  /\ posted' = <<>>
  /\ UNCHANGED <<transferredLen, wsaBuf, completed, wire>>

\* Mutant: the count of the last completion replaces the sum.
OnSendCompletedForgets(c) ==
  /\ c \in completed
  /\ completed' = completed \ {c}
  /\ transferredLen' = [transferredLen EXCEPT ![c.frame] = c.bytes]
  /\ LET done == c.bytes IN
     IF done < TotalLen[c.frame]
     THEN /\ wsaBuf' = [wsaBuf EXCEPT ![c.frame] = [buf |-> 1 + done, len |-> TotalLen[c.frame] - done]]
          /\ posted' = Append(posted, c.frame) /\ UNCHANGED ctx
     ELSE ctx' = [ctx EXCEPT ![c.frame] = "deleted"] /\ UNCHANGED <<wsaBuf, posted>>
  /\ UNCHANGED <<wire, reset>>

\* Mutant: the context goes with its first completion.
OnSendCompletedDeletes(c) ==
  /\ c \in completed
  /\ completed' = completed \ {c}
  /\ transferredLen' = [transferredLen EXCEPT ![c.frame] = @ + c.bytes]
  /\ ctx' = [ctx EXCEPT ![c.frame] = "deleted"]
  /\ UNCHANGED <<wsaBuf, posted, wire, reset>>

\* Several workers take completions: in any order.  A context whose rest is
\* refused is deleted by nobody.
OnSendCompleted(c) ==
  /\ c \in completed
  /\ completed' = completed \ {c}
  /\ LET f == c.frame  done == transferredLen[f] + c.bytes IN
     /\ transferredLen' = [transferredLen EXCEPT ![f] = done]
     /\ IF done = TotalLen[f]
        THEN ctx' = [ctx EXCEPT ![f] = "deleted"] /\ UNCHANGED <<wsaBuf, posted>>
        ELSE /\ wsaBuf' = [wsaBuf EXCEPT ![f] = [buf |-> 1 + done, len |-> TotalLen[f] - done]]
             /\ IF reset THEN ctx' = [ctx EXCEPT ![f] = "leaked"] /\ UNCHANGED posted
                ELSE posted' = Append(posted, f) /\ UNCHANGED ctx
  /\ UNCHANGED <<wire, reset>>

Next ==
  \/ \E f \in Frame : PostSend(f)
  \/ Transmit \/ Reset
  \/ \E c \in completed : OnSendCompleted(c)

Spec == Init /\ [][Next]_vars

-----------------------------------------------------------------------------
(* Properties.                                                             *)

Waiting(f) == {c \in completed : c.frame = f}

\* However the sends are cut, the bytes of each packet reach the client in
\* their order, none twice and none left out between two others.
FrameBytesOnce ==
  \A i \in DOMAIN wire :
    LET f == wire[i][1]  byte == wire[i][2] IN
    /\ byte \in 1..TotalLen[f]
    /\ \A j \in DOMAIN wire : wire[j] = wire[i] => j = i
    /\ byte > 1 => \E j \in DOMAIN wire : j < i /\ wire[j] = <<f, byte - 1>>

\* The packet is on the wire to its last byte.
SentWhole(f) == \E i \in DOMAIN wire : wire[i] = <<f, TotalLen[f]>>

\* A context lives until its packet is on the wire, and then is deleted: one
\* being sent is posted or has one completion coming, and unless the
\* connection broke the deleted one was sent to its last byte.
ContextOutlivesSend ==
  \A f \in Frame :
    /\ ctx[f] = "sending" =>
         IF Contains(posted, f) THEN Waiting(f) = {} ELSE \E c \in completed : Waiting(f) = {c}
    /\ ctx[f] = "deleted" =>
         /\ ~Contains(posted, f) /\ Waiting(f) = {}
         /\ reset \/ SentWhole(f)

\* "WSASend() may have sent only a part" (IOCP_Server.cpp:550): after a
\* partial send the client still finds each packet in one piece, as the
\* length in its header announces it.
FramesStayWhole ==
  \A i, j, k \in DOMAIN wire :
    i < j /\ j < k /\ wire[i][1] = wire[k][1] => wire[j][1] = wire[i][1]

=============================================================================
