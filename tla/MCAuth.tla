------------------------------- MODULE MCAuth -------------------------------
(* Finite instance of Auth for TLC. *)
EXTENDS Auth

CONSTANTS n1, n2, p1, p2

\* What the client programs send: two passwords for one name, one for another,
\* and, from elsewhere, a payload of the wrong length and an empty password.
MCRequest ==
  [op : {"Register", "Login"}, sized : {TRUE}, id : {n1}, pw : {p1, p2}]
  \cup [op : {"Register", "Login"}, sized : {TRUE}, id : {n2}, pw : {p1}]
  \cup {[op |-> "Register", sized |-> FALSE, id |-> EMPTY, pw |-> EMPTY],
        [op |-> "Login", sized |-> TRUE, id |-> n1, pw |-> EMPTY]}
=============================================================================
