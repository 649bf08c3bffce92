------------------------------- MODULE MCWire -------------------------------
(* Finite instance of Wire for TLC: lengths at every boundary. *)
EXTENDS Wire

\* The shortest; the longest that fits with a long and with a short id, and
\* one more; around 16 bits; around the server's limit.
MCTextLength ==
  {1, 256, 7925, 7926, 8179, 8180, 65535, 65536, 65537, 65536 + 7925, 65536 + 8180,
   MaxPayload, MaxPayload + 1}
=============================================================================
