------------------------------- MODULE MCSend -------------------------------
(* A finite instance of SendStream for TLC: three packets of one to three  *)
(* bytes for one client.                                                   *)
EXTENDS SendStream

MCTotalLen == [f \in Frame |-> CASE f = "short" -> 1 [] f = "medium" -> 2 [] OTHER -> 3]
=============================================================================
