-------------------------------- MODULE Auth --------------------------------
(***************************************************************************)
(* Registration and login in the server and its database                   *)
(* (IOCP_Server.cpp:582-715, DBManager.cpp).                                *)
(*                                                                         *)
(* A request is served by one worker, so a session names its worker;       *)
(* requests of different sessions interleave at the calls of SQLite, which *)
(* takes its mutex in each call on the one shared handle, and of libsodium.*)
(* Statements and hashing can fail.  Connections break at any moment, and  *)
(* so does the server; the users table is all that stays.                  *)
(***************************************************************************)
EXTENDS Naturals, Sequences

CONSTANTS
  Session,       \* the connections
  Name, Password,
  EMPTY,         \* an id or a password of length zero
  Salt,          \* what makes two hashes of one password differ
  Request,       \* what clients ask; sized: the payload has the body's length
  MaxRequests, MaxFailures, MaxBreaks, MaxCrashes,   \* bounds
  NONE

\* AuthResult: what a request is answered with.
Results == {"Success", "InvalidId", "WrongPassword", "DuplicateId", "ServerError"}

ASSUME AuthAssumption ==
  /\ EMPTY \notin Name \cup Password
  /\ Request \subseteq [op : {"Register", "Login"}, sized : BOOLEAN,
                        id : Name \cup {EMPTY}, pw : Password \cup {EMPTY}]
  /\ NONE \notin Name \cup Password \cup [pw : Password, salt : Salt] \cup Request \cup Results
  /\ {MaxRequests, MaxFailures, MaxBreaks, MaxCrashes} \subseteq Nat

VARIABLES
  users,       \* the table: [Name -> password_hash or NONE]
  up,          \* the server runs
  pc,          \* [Session -> where its worker is]
  request,     \* [Session -> the request being served, or NONE]
  hash,        \* [Session -> hashedPW or storedHash, or NONE]
  result,      \* [Session -> the answer decided on, or NONE]
  userID,      \* [Session -> ClientSession::userID; NONE when not isLoggedIn]
  online,      \* [Session -> the client is there]
  answer,      \* [Session -> the last answer the client got, or NONE]
  confirmed,   \* history: the accounts clients were told they own
  budget       \* what is left of the bounds

worker == <<pc, request, hash, result>>
vars == <<users, up, worker, userID, online, answer, confirmed, budget>>

Spend(what) == budget[what] > 0 /\ budget' = [budget EXCEPT ![what] = @ - 1]
Nobody == [s \in Session |-> NONE]

Init ==
  /\ users = [n \in Name |-> NONE] /\ up = FALSE
  /\ pc = [s \in Session |-> "idle"]
  /\ request = Nobody /\ hash = Nobody /\ result = Nobody /\ userID = Nobody
  /\ online = [s \in Session |-> FALSE]
  /\ answer = Nobody /\ confirmed = <<>>
  /\ budget = [requests |-> MaxRequests, failures |-> MaxFailures,
               breaks |-> MaxBreaks, crashes |-> MaxCrashes]

Goto(s, here, there) == pc[s] = here /\ pc' = [pc EXCEPT ![s] = there]

-----------------------------------------------------------------------------
(* The process and its connections.                                        *)

\* Mutant: the table is created anew.
InitializeCreates ==
  /\ ~up /\ up' = TRUE
  /\ users' = [n \in Name |-> NONE]
  /\ UNCHANGED <<worker, userID, online, answer, confirmed, budget>>

\* Open and CreateUserTable: CREATE TABLE IF NOT EXISTS.  When one fails
\* Initialize returns false and the process ends.
Initialize ==
  /\ ~up
  /\ up' = TRUE \/ (Spend("failures") /\ UNCHANGED up)
  /\ up' => UNCHANGED budget
  /\ UNCHANGED <<users, worker, userID, online, answer, confirmed>>

\* The process ends, by a signal, an error or a fault: sessions and workers go.
Crash ==
  /\ up /\ up' = FALSE /\ Spend("crashes")
  /\ pc' = [s \in Session |-> "idle"]
  /\ request' = Nobody /\ hash' = Nobody /\ result' = Nobody /\ userID' = Nobody
  /\ online' = [s \in Session |-> FALSE] /\ answer' = Nobody
  /\ UNCHANGED <<users, confirmed>>

\* A client program connects and gets a fresh session.
Connect(s) ==
  /\ up /\ ~online[s] /\ pc[s] = "idle" /\ userID[s] = NONE /\ answer[s] = NONE
  /\ online' = [online EXCEPT ![s] = TRUE]
  /\ UNCHANGED <<users, up, worker, userID, answer, confirmed, budget>>

\* The client leaves or the network fails, also while a worker serves it.
Break(s) ==
  /\ online[s] /\ Spend("breaks")
  /\ online' = [online EXCEPT ![s] = FALSE]
  /\ UNCHANGED <<users, up, worker, userID, answer, confirmed>>

\* The receive posted after the request fails: the session is deleted.
CloseSession(s) ==
  /\ up /\ ~online[s] /\ pc[s] = "idle" /\ (userID[s] # NONE \/ answer[s] # NONE)
  /\ userID' = [userID EXCEPT ![s] = NONE]
  /\ answer' = [answer EXCEPT ![s] = NONE]
  /\ UNCHANGED <<users, up, worker, online, confirmed, budget>>

-----------------------------------------------------------------------------
(* A worker in HandleRegistRequest or HandleLoginRequest.                   *)

Ask(s) ==
  /\ online[s] /\ Goto(s, "idle", "asked") /\ Spend("requests")
  /\ \E r \in Request : request' = [request EXCEPT ![s] = r]
  /\ UNCHANGED <<users, up, hash, result, userID, online, answer, confirmed>>

Decide(s, v) == result' = [result EXCEPT ![s] = v]

Untouched == UNCHANGED <<up, request, online, answer, confirmed>>

WellFormed(r) == r.sized /\ r.id # EMPTY /\ r.pw # EMPTY

\* A payload of the wrong length, an empty id or password.
RefuseMalformed(s) ==
  /\ Goto(s, "asked", "decided") /\ ~WellFormed(request[s])
  /\ Decide(s, IF request[s].sized THEN "InvalidId" ELSE "ServerError")
  /\ Untouched /\ UNCHANGED <<users, hash, userID, budget>>

Serves(s, op) == WellFormed(request[s]) /\ request[s].op = op

\* Argon2 with a fresh salt; out of memory it returns an empty string.
MakePasswordHash(s) ==
  /\ pc[s] = "asked" /\ Serves(s, "Register")
  /\ \/ /\ Goto(s, "asked", "hashed")
        /\ \E salt \in Salt : hash' = [hash EXCEPT ![s] = [pw |-> request[s].pw, salt |-> salt]]
        /\ UNCHANGED <<result, budget>>
     \/ /\ Goto(s, "asked", "decided") /\ Spend("failures")
        /\ Decide(s, "ServerError") /\ UNCHANGED hash
  /\ Untouched /\ UNCHANGED <<users, userID>>

Insert(s) == users' = [users EXCEPT ![request[s].id] = hash[s]]

\* Mutant: INSERT OR IGNORE.
RegisterUserIgnores(s) ==
  /\ Goto(s, "hashed", "decided")
  /\ IF users[request[s].id] = NONE THEN Insert(s) ELSE UNCHANGED users
  /\ Decide(s, "Success")
  /\ Untouched /\ UNCHANGED <<hash, userID, budget>>

\* INSERT in its own transaction: the primary key refuses a taken name; a
\* locked or full database refuses too, with the same answer.
RegisterUser(s) ==
  /\ Goto(s, "hashed", "decided")
  /\ \/ users[request[s].id] = NONE /\ Insert(s) /\ Decide(s, "Success") /\ UNCHANGED budget
     \/ users[request[s].id] # NONE /\ UNCHANGED <<users, budget>> /\ Decide(s, "DuplicateId")
     \/ Spend("failures") /\ UNCHANGED users /\ Decide(s, "DuplicateId")
  /\ Untouched /\ UNCHANGED <<hash, userID>>

\* SELECT; a failing statement looks like a name that is not there.
GetUserAuthData(s) ==
  /\ pc[s] = "asked" /\ Serves(s, "Login")
  /\ LET row == users[request[s].id] IN
     \/ /\ row # NONE /\ Goto(s, "asked", "found")
        /\ hash' = [hash EXCEPT ![s] = row] /\ UNCHANGED <<result, budget>>
     \/ /\ Goto(s, "asked", "decided") /\ Decide(s, "InvalidId") /\ UNCHANGED hash
        /\ IF row = NONE THEN UNCHANGED budget ELSE Spend("failures")
  /\ Untouched /\ UNCHANGED <<users, userID>>

\* Mutant: the session is logged in before its password was checked.
VerifyPasswordLate(s) ==
  /\ Goto(s, "found", "decided")
  /\ Decide(s, IF hash[s].pw = request[s].pw THEN "Success" ELSE "WrongPassword")
  /\ userID' = [userID EXCEPT ![s] = request[s].id]
  /\ Untouched /\ UNCHANGED <<users, hash, budget>>

\* Argon2 again, then isLoggedIn and userID, which only this worker reads.  Out
\* of memory the check fails like a wrong password.
VerifyPassword(s) ==
  /\ Goto(s, "found", "decided")
  /\ \/ /\ hash[s].pw = request[s].pw /\ UNCHANGED budget
        /\ Decide(s, "Success") /\ userID' = [userID EXCEPT ![s] = request[s].id]
     \/ /\ Decide(s, "WrongPassword") /\ UNCHANGED userID
        /\ IF hash[s].pw # request[s].pw THEN UNCHANGED budget ELSE Spend("failures")
  /\ Untouched /\ UNCHANGED <<users, hash>>

\* Posted to a client that may have gone; the request is over.
SendAuthResponse(s) ==
  /\ Goto(s, "decided", "idle")
  /\ IF online[s]
     THEN /\ answer' = [answer EXCEPT ![s] = result[s]]
          /\ confirmed' = IF request[s].op = "Register" /\ result[s] = "Success"
                          THEN Append(confirmed, <<request[s].id, request[s].pw>>)
                          ELSE confirmed
     ELSE UNCHANGED <<answer, confirmed>>
  /\ request' = [request EXCEPT ![s] = NONE]
  /\ hash' = [hash EXCEPT ![s] = NONE]
  /\ result' = [result EXCEPT ![s] = NONE]
  /\ UNCHANGED <<users, up, userID, online, budget>>

WorkerStep(s) ==
  \/ RefuseMalformed(s) \/ MakePasswordHash(s) \/ RegisterUser(s)
  \/ GetUserAuthData(s) \/ VerifyPassword(s) \/ SendAuthResponse(s)

Next ==
  \/ Initialize \/ Crash
  \/ \E s \in Session : Connect(s) \/ Break(s) \/ CloseSession(s) \/ Ask(s) \/ WorkerStep(s)

\* A worker in a handler goes on; nothing waits for another request's answer.
Spec == Init /\ [][Next]_vars /\ \A s \in Session : WF_vars(WorkerStep(s))

-----------------------------------------------------------------------------
(* Properties.                                                             *)

\* A name is given to one client: however registrations race, fail and are
\* retried after a lost answer or a restart, at most one is told it succeeded.
ConfirmedOnce ==
  \A i, j \in DOMAIN confirmed : confirmed[i][1] = confirmed[j][1] => i = j

\* An account its owner was told of stays, with the password it was made with.
ConfirmedStays ==
  \A i \in DOMAIN confirmed :
    LET row == users[confirmed[i][1]] IN row # NONE /\ row.pw = confirmed[i][2]

\* Hashing, insertion, look-up and check, in as many steps as they take and
\* over all failures, look like one step on a table of accounts.
Table == INSTANCE Accounts WITH
  account <- [n \in Name |-> IF users[n] = NONE THEN NONE ELSE users[n].pw],
  asked <- request, verdict <- result, user <- userID
ImplementsAccounts == Table!AccountsSpec

=============================================================================
