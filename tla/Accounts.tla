------------------------------ MODULE Accounts ------------------------------
(***************************************************************************)
(* What registration and login promise: a table of accounts on which every *)
(* request takes effect at one moment between being asked and being        *)
(* answered.  A name is given away once, a login is let in only with the   *)
(* password the name was registered with, refusals change nothing, and the *)
(* end of sessions, all of them at once too, leaves the table alone.       *)
(***************************************************************************)
CONSTANTS Session, Name, Password, Request, NONE

VARIABLES
  account,   \* [Name -> the password it was registered with, or NONE]
  asked,     \* [Session -> the request being served, or NONE]
  verdict,   \* [Session -> what was decided about it, or NONE]
  answer,    \* [Session -> the last answer its client got, or NONE]
  user       \* [Session -> who it is logged in as, or NONE]

accountVars == <<account, asked, verdict, answer, user>>

AccountsInit ==
  /\ account = [n \in Name |-> NONE]
  /\ asked = [s \in Session |-> NONE] /\ verdict = asked
  /\ answer = asked /\ user = asked

Ask(s) ==
  /\ asked[s] = NONE
  /\ \E r \in Request : asked' = [asked EXCEPT ![s] = r]
  /\ UNCHANGED <<account, verdict, answer, user>>

Undecided(s, op) == asked[s] # NONE /\ verdict[s] = NONE /\ asked[s].op = op

Register(s) ==
  /\ Undecided(s, "Register")
  /\ LET r == asked[s] IN
       /\ r.id \in Name /\ r.pw \in Password /\ account[r.id] = NONE
       /\ account' = [account EXCEPT ![r.id] = r.pw]
  /\ verdict' = [verdict EXCEPT ![s] = "Success"]
  /\ UNCHANGED <<asked, answer, user>>

Login(s) ==
  /\ Undecided(s, "Login")
  /\ LET r == asked[s] IN
       /\ r.id \in Name /\ account[r.id] = r.pw
       /\ user' = [user EXCEPT ![s] = r.id]
  /\ verdict' = [verdict EXCEPT ![s] = "Success"]
  /\ UNCHANGED <<account, asked, answer>>

\* A refusal changes nothing.  A password is called wrong only if there is an
\* account, though not only if it is: the check itself can fail.
Refuse(s) ==
  /\ \/ /\ Undecided(s, "Register")
        /\ verdict' \in {[verdict EXCEPT ![s] = v] : v \in {"InvalidId", "DuplicateId", "ServerError"}}
     \/ /\ Undecided(s, "Login")
        /\ verdict' \in {[verdict EXCEPT ![s] = v] : v \in {"InvalidId", "ServerError"}}
     \/ /\ Undecided(s, "Login")
        /\ asked[s].id \in Name /\ account[asked[s].id] # NONE
        /\ verdict' = [verdict EXCEPT ![s] = "WrongPassword"]
  /\ UNCHANGED <<account, asked, answer, user>>

\* The answer can be lost with the connection.
Answer(s) ==
  /\ verdict[s] # NONE
  /\ answer' \in {answer, [answer EXCEPT ![s] = verdict[s]]}
  /\ asked' = [asked EXCEPT ![s] = NONE]
  /\ verdict' = [verdict EXCEPT ![s] = NONE]
  /\ UNCHANGED <<account, user>>

End(gone) ==
  LET Cleared(f) == [s \in Session |-> IF s \in gone THEN NONE ELSE f[s]] IN
  /\ asked' = Cleared(asked) /\ verdict' = Cleared(verdict)
  /\ answer' = Cleared(answer) /\ user' = Cleared(user)
  /\ UNCHANGED account

Serve(s) == Register(s) \/ Login(s) \/ Refuse(s) \/ Answer(s)

AccountsNext ==
  \/ \E s \in Session : Ask(s) \/ Serve(s)
  \/ \E gone \in SUBSET Session : End(gone)

\* Every request is answered, unless its session ends before.
AccountsSpec ==
  AccountsInit /\ [][AccountsNext]_accountVars /\ \A s \in Session : WF_accountVars(Serve(s))
=============================================================================
