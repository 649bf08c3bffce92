----------------------------- MODULE MCAssembly -----------------------------
(* A finite instance of PacketAssembly for TLC: every stream of up to three *)
(* packets, with empty, small and too large payloads, with and without an  *)
(* extension header, handled and refused.                                  *)
EXTENDS PacketAssembly

MCPacket ==
  [kind : {"handled"}, ext : {0, 1}, payload : 0..2]
    \cup {[kind |-> "handled", ext |-> 0, payload |-> 3],
          [kind |-> "refused", ext |-> 1, payload |-> 1]}
=============================================================================
