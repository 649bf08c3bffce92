----------------------------- MODULE AuthProofs -----------------------------
(***************************************************************************)
(* Proofs about Auth: what clients are told of their accounts stays true,  *)
(* and every step of the handlers is a step of the table of accounts.      *)
(***************************************************************************)
EXTENDS Auth, TLAPS

Hash == [pw : Password, salt : Salt]
Stages == {"idle", "asked", "hashed", "found", "decided"}

\* The types of the variables; the bounds' budget needs none.
Types ==
  /\ users \in [Name -> Hash \cup {NONE}]
  /\ up \in BOOLEAN
  /\ pc \in [Session -> Stages]
  /\ request \in [Session -> Request \cup {NONE}]
  /\ hash \in [Session -> Hash \cup {NONE}]
  /\ result \in [Session -> Results \cup {NONE}]
  /\ userID \in [Session -> Name \cup {NONE}]
  /\ online \in [Session -> BOOLEAN]
  /\ answer \in [Session -> Results \cup {NONE}]
  /\ confirmed \in Seq(Name \X Password)

\* A request is there from being asked to being answered, a result when it is
\* decided, and a request that got past the first checks passes them.
StageOK(s) ==
  /\ pc[s] = "idle" <=> request[s] = NONE
  /\ pc[s] = "decided" <=> result[s] # NONE
  /\ pc[s] = "hashed" => Serves(s, "Register") /\ hash[s] \in Hash /\ hash[s].pw = request[s].pw
  /\ pc[s] = "found" => Serves(s, "Login") /\ users[request[s].id] = hash[s] /\ hash[s] # NONE

\* The worker of s has inserted the row and not told the client yet.
Granted(s) ==
  pc[s] = "decided" /\ request[s].op = "Register" /\ result[s] = "Success"

\* The row of an account granted or confirmed: it has the password asked for.
HasRow(account) ==
  /\ account \in Name \X Password
  /\ users[account[1]] # NONE /\ users[account[1]].pw = account[2]

Account(s) == <<request[s].id, request[s].pw>>

\* A name is on its way to at most one client, and not confirmed before.
GrantOK(s) ==
  Granted(s) =>
    /\ HasRow(Account(s))
    /\ \A r \in Session : Granted(r) /\ request[r].id = request[s].id => r = s
    /\ \A i \in DOMAIN confirmed : confirmed[i][1] # request[s].id

AuthInv ==
  /\ Types
  /\ \A s \in Session : StageOK(s)
  /\ \A s \in Session : GrantOK(s)
  /\ \A i \in DOMAIN confirmed : HasRow(confirmed[i])
  /\ ConfirmedOnce

-----------------------------------------------------------------------------

\* A request that passes the first checks names an account one can have.
LEMMA RequestFacts ==
  ASSUME NEW r \in Request
  PROVE  /\ r # NONE
         /\ WellFormed(r) => r.id \in Name /\ r.pw \in Password
         /\ \A n \in Name, p \in Password : <<n, p>> \in Name \X Password
  BY AuthAssumption DEF WellFormed

\* NONE is no name, no hash and no result.
LEMMA NoneIsNothing == NONE \notin Name \cup Hash \cup Results
  BY AuthAssumption DEF Hash

\* What Append leaves in the history of confirmed accounts.
LEMMA AppendFacts ==
  ASSUME NEW q \in Seq(Name \X Password), NEW a \in Name \X Password
  PROVE  /\ Append(q, a) \in Seq(Name \X Password)
         /\ DOMAIN Append(q, a) = DOMAIN q \cup {Len(q) + 1}
         /\ Len(q) + 1 \notin DOMAIN q
         /\ Append(q, a)[Len(q) + 1] = a
         /\ \A i \in DOMAIN q : Append(q, a)[i] = q[i]
  OBVIOUS

\* The table is empty and nobody has been told anything.
LEMMA AuthInit == Init => AuthInv
<1> SUFFICES ASSUME Init PROVE AuthInv
  OBVIOUS
<1>1. Types
  <2>1. confirmed \in Seq(Name \X Password)
    BY DEF Init
  <2>2. up \in BOOLEAN /\ online \in [Session -> BOOLEAN]
    BY DEF Init
  <2> QED  BY <2>1, <2>2 DEF Init, Types, Nobody, Stages
<1>2. \A s \in Session : StageOK(s) /\ GrantOK(s)
  BY DEF Init, StageOK, GrantOK, Granted, Nobody
<1>3. DOMAIN confirmed = {}
  BY DEF Init
<1> QED  BY <1>1, <1>2, <1>3 DEF AuthInv, ConfirmedOnce

-----------------------------------------------------------------------------
(* Every action keeps the invariant.                                       *)

\* A start finds the table as it was left.
LEMMA InitializeKeeps ==
  ASSUME AuthInv, Initialize
  PROVE  AuthInv'
  BY DEF AuthInv, Types, StageOK, GrantOK, Granted, HasRow, Account, ConfirmedOnce,
     Initialize, worker, Serves

\* The end of the process takes the workers, and leaves the table.
LEMMA CrashKeeps ==
  ASSUME AuthInv, Crash
  PROVE  AuthInv'
<1>1. Types'
  BY DEF AuthInv, Types, Crash, Nobody, Stages
<1>2. \A s \in Session : StageOK(s)' /\ GrantOK(s)'
  BY DEF Crash, Nobody, StageOK, GrantOK, Granted
<1>3. UNCHANGED <<users, confirmed>>
  BY DEF Crash
<1> QED  BY <1>1, <1>2, <1>3 DEF AuthInv, HasRow, ConfirmedOnce

\* A client that comes has asked for nothing.
LEMMA ConnectKeeps ==
  ASSUME AuthInv, NEW s \in Session, Connect(s)
  PROVE  AuthInv'
  BY DEF AuthInv, Types, StageOK, GrantOK, Granted, HasRow, Account, ConfirmedOnce,
     Connect, worker, Serves

\* One that leaves is not told, but its worker goes on.
LEMMA BreakKeeps ==
  ASSUME AuthInv, NEW s \in Session, Break(s)
  PROVE  AuthInv'
  BY DEF AuthInv, Types, StageOK, GrantOK, Granted, HasRow, Account, ConfirmedOnce,
     Break, worker, Serves

\* A closed session's worker has finished.
LEMMA CloseSessionKeeps ==
  ASSUME AuthInv, NEW s \in Session, CloseSession(s)
  PROVE  AuthInv'
  BY DEF AuthInv, Types, StageOK, GrantOK, Granted, HasRow, Account, ConfirmedOnce,
     CloseSession, worker, Serves

\* A request is taken up by the idle worker of its session.
LEMMA AskKeeps ==
  ASSUME AuthInv, NEW s \in Session, Ask(s)
  PROVE  AuthInv'
<1>1. PICK r \in Request : request' = [request EXCEPT ![s] = r]
  BY DEF Ask
<1>2. r # NONE
  BY RequestFacts
<1> QED
  BY <1>1, <1>2 DEF AuthInv, Types, Stages, StageOK, GrantOK, Granted, HasRow, Account,
     ConfirmedOnce, Ask, Goto, Serves

\* A malformed request is decided on, and not with success.
LEMMA RefuseMalformedKeeps ==
  ASSUME AuthInv, NEW s \in Session, RefuseMalformed(s)
  PROVE  AuthInv'
<1>1. PICK v \in {"InvalidId", "ServerError"} : result' = [result EXCEPT ![s] = v]
  BY DEF RefuseMalformed, Decide
<1>2. v \in Results \ {"Success"} /\ v # NONE
  BY <1>1, NoneIsNothing DEF Results
<1> QED
  BY <1>1, <1>2 DEF AuthInv, Types, Stages, StageOK, GrantOK, Granted, HasRow, Account,
     ConfirmedOnce, RefuseMalformed, Goto, Untouched, Serves

\* Argon2 returns a hash of the password asked for, or nothing.
LEMMA MakePasswordHashKeeps ==
  ASSUME AuthInv, NEW s \in Session, MakePasswordHash(s)
  PROVE  AuthInv'
<1>1. request[s] \in Request /\ Serves(s, "Register") /\ request[s].pw \in Password
  BY RequestFacts DEF AuthInv, Types, StageOK, MakePasswordHash, Serves
<1>2. UNCHANGED <<users, up, request, userID, online, answer, confirmed>>
  BY DEF MakePasswordHash, Untouched
<1>3. CASE /\ Goto(s, "asked", "hashed")
           /\ \E salt \in Salt : hash' = [hash EXCEPT ![s] = [pw |-> request[s].pw, salt |-> salt]]
           /\ UNCHANGED result
  <2>1. PICK h \in Hash : h.pw = request[s].pw /\ hash' = [hash EXCEPT ![s] = h]
    BY <1>1, <1>3 DEF Hash
  <2> QED
    BY <1>1, <1>2, <1>3, <2>1 DEF AuthInv, Types, Stages, StageOK, GrantOK, Granted, HasRow,
       Account, ConfirmedOnce, Goto, Serves
<1>4. CASE Goto(s, "asked", "decided") /\ Decide(s, "ServerError") /\ UNCHANGED hash
  <2>1. "ServerError" \in Results \ {"Success"} /\ "ServerError" # NONE
    BY NoneIsNothing DEF Results
  <2> QED
    BY <1>2, <1>4, <2>1 DEF AuthInv, Types, Stages, StageOK, GrantOK, Granted, HasRow,
       Account, ConfirmedOnce, Goto, Decide, Serves
<1> QED  BY <1>3, <1>4 DEF MakePasswordHash

\* A row goes in only where there was none; what others were granted or told
\* has a row, so it is another name.
LEMMA InsertKeeps ==
  ASSUME AuthInv, NEW s \in Session, Goto(s, "hashed", "decided"),
         users[request[s].id] = NONE, Insert(s), Decide(s, "Success"),
         Untouched, UNCHANGED <<hash, userID>>
  PROVE  AuthInv'
<1>1. /\ request[s] \in Request /\ Serves(s, "Register")
      /\ hash[s] \in Hash /\ hash[s].pw = request[s].pw
      /\ request[s].id \in Name /\ request[s].pw \in Password
      /\ Account(s) \in Name \X Password
  BY RequestFacts DEF AuthInv, Types, StageOK, Serves, Goto, Account
<1>2. users' = [users EXCEPT ![request[s].id] = hash[s]] /\ hash[s] # NONE
  BY <1>1, NoneIsNothing DEF Insert
<1>3. "Success" \in Results /\ "Success" # NONE /\ result' = [result EXCEPT ![s] = "Success"]
  BY NoneIsNothing DEF Results, Decide
<1>4. UNCHANGED <<up, request, online, answer, confirmed, hash, userID>>
  BY DEF Untouched
<1>5. Types'
  BY <1>1, <1>2, <1>3, <1>4 DEF AuthInv, Types, Stages, Goto
<1>6. ASSUME NEW a \in Name \X Password, HasRow(a)
      PROVE  a[1] # request[s].id /\ HasRow(a)'
  BY <1>1, <1>2, <1>6 DEF HasRow, AuthInv, Types
<1>7. \A r \in Session : StageOK(r)'
  BY <1>1, <1>2, <1>3, <1>4 DEF AuthInv, Types, StageOK, Goto, Serves
<1>8. \A r \in Session : Granted(r) => Account(r) \in Name \X Password /\ HasRow(Account(r))
  BY DEF AuthInv, GrantOK, HasRow
<1>9. \A r \in Session : Granted(r)' <=> r = s \/ Granted(r)
  BY <1>1, <1>3, <1>4 DEF Granted, Goto, AuthInv, Types, Serves
<1>10. \A r \in Session : Granted(r) => request[r].id # request[s].id
  BY <1>6, <1>8 DEF Account
<1>11. \A i \in DOMAIN confirmed : HasRow(confirmed[i])' /\ confirmed[i][1] # request[s].id
  BY <1>4, <1>6 DEF AuthInv, HasRow
<1>12. HasRow(Account(s))'
  BY <1>1, <1>2, <1>4 DEF HasRow, Account, AuthInv, Types
<1>13. \A r \in Session : GrantOK(r)'
  <2> SUFFICES ASSUME NEW r \in Session, Granted(r)' PROVE GrantOK(r)'
    BY DEF GrantOK
  <2>1. HasRow(Account(r))'
    BY <1>4, <1>6, <1>8, <1>9, <1>12 DEF Account
  <2>2. \A q \in Session : Granted(q)' /\ request[q].id = request[r].id => q = r
    BY <1>9, <1>10 DEF AuthInv, GrantOK
  <2>3. \A i \in DOMAIN confirmed : confirmed[i][1] # request[r].id
    BY <1>9, <1>11 DEF AuthInv, GrantOK
  <2> QED  BY <1>4, <2>1, <2>2, <2>3 DEF GrantOK
<1> QED  BY <1>4, <1>5, <1>7, <1>11, <1>13 DEF AuthInv, ConfirmedOnce

\* The primary key refuses a taken name.
LEMMA RegisterUserKeeps ==
  ASSUME AuthInv, NEW s \in Session, RegisterUser(s)
  PROVE  AuthInv'
<1>1. CASE users[request[s].id] = NONE /\ Insert(s) /\ Decide(s, "Success")
  BY <1>1, InsertKeeps DEF RegisterUser
<1>2. CASE Decide(s, "DuplicateId") /\ UNCHANGED users
  <2>1. "DuplicateId" \in Results \ {"Success"} /\ "DuplicateId" # NONE
    BY NoneIsNothing DEF Results
  <2> QED
    BY <1>2, <2>1 DEF AuthInv, Types, Stages, StageOK, GrantOK, Granted, HasRow, Account,
       ConfirmedOnce, RegisterUser, Goto, Untouched, Decide, Serves
<1> QED  BY <1>1, <1>2 DEF RegisterUser

\* The row looked up is the row there is: nothing changes one afterwards.
LEMMA GetUserAuthDataKeeps ==
  ASSUME AuthInv, NEW s \in Session, GetUserAuthData(s)
  PROVE  AuthInv'
<1>1. /\ request[s] \in Request /\ Serves(s, "Login") /\ request[s].id \in Name
      /\ users[request[s].id] \in Hash \cup {NONE}
  BY RequestFacts DEF AuthInv, Types, StageOK, GetUserAuthData, Serves
<1>2. UNCHANGED <<users, up, request, userID, online, answer, confirmed>>
  BY DEF GetUserAuthData, Untouched
<1>3. CASE /\ users[request[s].id] # NONE /\ Goto(s, "asked", "found")
           /\ hash' = [hash EXCEPT ![s] = users[request[s].id]] /\ UNCHANGED result
  BY <1>1, <1>2, <1>3 DEF AuthInv, Types, Stages, StageOK, GrantOK, Granted, HasRow,
     Account, ConfirmedOnce, Goto, Serves
<1>4. CASE Goto(s, "asked", "decided") /\ Decide(s, "InvalidId") /\ UNCHANGED hash
  <2>1. "InvalidId" \in Results \ {"Success"} /\ "InvalidId" # NONE
    BY NoneIsNothing DEF Results
  <2> QED
    BY <1>2, <1>4, <2>1 DEF AuthInv, Types, Stages, StageOK, GrantOK, Granted, HasRow,
       Account, ConfirmedOnce, Goto, Decide, Serves
<1> QED  BY <1>3, <1>4 DEF GetUserAuthData

\* A login grants no account.
LEMMA VerifyPasswordKeeps ==
  ASSUME AuthInv, NEW s \in Session, VerifyPassword(s)
  PROVE  AuthInv'
<1>1. request[s] \in Request /\ request[s].op = "Login" /\ request[s].id \in Name
  BY RequestFacts DEF AuthInv, Types, StageOK, VerifyPassword, Goto, Serves
<1>2. PICK v \in {"Success", "WrongPassword"} : result' = [result EXCEPT ![s] = v]
  BY DEF VerifyPassword, Decide
<1>3. v \in Results /\ v # NONE
  BY <1>2, NoneIsNothing DEF Results
<1>4. userID' \in [Session -> Name \cup {NONE}]
  BY <1>1 DEF VerifyPassword, AuthInv, Types
<1>5. UNCHANGED <<users, up, request, hash, online, answer, confirmed>> /\ Goto(s, "found", "decided")
  BY DEF VerifyPassword, Untouched
<1> QED
  BY <1>1, <1>2, <1>3, <1>4, <1>5 DEF AuthInv, Types, Stages, StageOK, GrantOK, Granted,
     HasRow, Account, ConfirmedOnce, Goto, Serves

\* A confirmation is of the account granted, which nobody else was told of.
LEMMA SendAuthResponseKeeps ==
  ASSUME AuthInv, NEW s \in Session, SendAuthResponse(s)
  PROVE  AuthInv'
<1> DEFINE told == online[s] /\ request[s].op = "Register" /\ result[s] = "Success"
<1>1. Goto(s, "decided", "idle") /\ UNCHANGED <<users, up, userID, online>>
  BY DEF SendAuthResponse
<1>2. /\ request' = [request EXCEPT ![s] = NONE]
      /\ hash' = [hash EXCEPT ![s] = NONE] /\ result' = [result EXCEPT ![s] = NONE]
  BY DEF SendAuthResponse
<1>3. answer' \in [Session -> Results \cup {NONE}]
  BY DEF SendAuthResponse, AuthInv, Types
<1>4. \A r \in Session : StageOK(r)'
  BY <1>1, <1>2 DEF AuthInv, Types, StageOK, Goto, Serves
<1>5. \A r \in Session : Granted(r)' <=> r # s /\ Granted(r)
  BY <1>1, <1>2, NoneIsNothing DEF Granted, Goto, AuthInv, Types
<1>6. \A r \in Session : r # s => request'[r] = request[r]
  BY <1>2 DEF AuthInv, Types
<1>7. CASE ~told
  <2>1. UNCHANGED confirmed
    BY <1>7 DEF SendAuthResponse
  <2>2. Types'
    BY <1>1, <1>2, <1>3, <2>1 DEF AuthInv, Types, Goto, Stages
  <2>3. \A r \in Session : GrantOK(r)'
    BY <1>1, <1>5, <1>6, <2>1 DEF AuthInv, GrantOK, HasRow, Account
  <2> QED  BY <1>1, <1>4, <2>1, <2>2, <2>3 DEF AuthInv, HasRow, ConfirmedOnce
<1>8. CASE told
  <2>1. Granted(s) /\ HasRow(Account(s)) /\ Account(s) \in Name \X Password
    BY <1>1, <1>8 DEF Granted, Goto, AuthInv, GrantOK, HasRow
  <2>2. confirmed' = Append(confirmed, Account(s)) /\ confirmed \in Seq(Name \X Password)
    BY <1>8 DEF SendAuthResponse, Account, AuthInv, Types
  <2> DEFINE n == Len(confirmed) + 1
  <2>3. /\ confirmed' \in Seq(Name \X Password)
        /\ DOMAIN confirmed' = DOMAIN confirmed \cup {n} /\ n \notin DOMAIN confirmed
        /\ confirmed'[n] = Account(s)
        /\ \A i \in DOMAIN confirmed : confirmed'[i] = confirmed[i]
    BY <2>1, <2>2, AppendFacts
  <2> HIDE DEF n
  <2>4. Types'
    BY <1>1, <1>2, <1>3, <2>3 DEF AuthInv, Types, Goto, Stages
  <2>5. \A i \in DOMAIN confirmed' : HasRow(confirmed'[i])
    BY <2>1, <2>3 DEF AuthInv
  <2>6. \A i \in DOMAIN confirmed : confirmed[i][1] # Account(s)[1]
    BY <2>1 DEF AuthInv, GrantOK, Account
  <2>7. ConfirmedOnce'
    BY <2>3, <2>6 DEF AuthInv, ConfirmedOnce
  <2>8. \A r \in Session : GrantOK(r)'
    BY <1>1, <1>5, <1>6, <2>1, <2>3 DEF AuthInv, GrantOK, HasRow, Account
  <2> QED  BY <1>1, <1>4, <2>4, <2>5, <2>7, <2>8 DEF AuthInv, HasRow
<1> QED  BY <1>7, <1>8

-----------------------------------------------------------------------------

\* So does every step.
LEMMA AuthStep == AuthInv /\ [Next]_vars => AuthInv'
<1> SUFFICES ASSUME AuthInv, [Next]_vars PROVE AuthInv'
  OBVIOUS
<1>1. CASE UNCHANGED vars
  BY <1>1 DEF vars, worker, AuthInv, Types, StageOK, GrantOK, Granted, HasRow, Account,
     ConfirmedOnce, Serves
<1>2. CASE Initialize  BY <1>2, InitializeKeeps
<1>3. CASE Crash  BY <1>3, CrashKeeps
<1>4. ASSUME NEW s \in Session, Connect(s) \/ Break(s) \/ CloseSession(s) \/ Ask(s)
      PROVE  AuthInv'
  BY <1>4, ConnectKeeps, BreakKeeps, CloseSessionKeeps, AskKeeps
<1>5. ASSUME NEW s \in Session, WorkerStep(s)
      PROVE  AuthInv'
  BY <1>5, RefuseMalformedKeeps, MakePasswordHashKeeps, RegisterUserKeeps,
     GetUserAuthDataKeeps, VerifyPasswordKeeps, SendAuthResponseKeeps DEF WorkerStep
<1> QED  BY <1>1, <1>2, <1>3, <1>4, <1>5 DEF Next

\* What the handlers keep true, for any sessions, names, passwords and requests.
THEOREM AuthInvariance == Spec => []AuthInv
  BY AuthInit, AuthStep, PTL DEF Spec

\* A name is given to one client (HandleRegistRequest, RegisterUser): at most
\* one is ever told that its registration succeeded.
THEOREM GivenOnce == Spec => []ConfirmedOnce
<1>1. AuthInv => ConfirmedOnce
  BY DEF AuthInv
<1> QED  BY <1>1, AuthInvariance, PTL

\* An account a client was told of stays, with the password it was made with,
\* over crashes and restarts.
THEOREM StaysGiven == Spec => []ConfirmedStays
<1>1. AuthInv => ConfirmedStays
  BY DEF AuthInv, HasRow, ConfirmedStays
<1> QED  BY <1>1, AuthInvariance, PTL

-----------------------------------------------------------------------------
(* The handlers implement the table of accounts: hashing, look-up and the  *)
(* start are invisible in it, and every other step is one of its actions.  *)

\* What Auth's Table substitutes for the variable account.
Given == [n \in Name |-> IF users[n] = NONE THEN NONE ELSE users[n].pw]

\* The table is empty.
LEMMA InitMaps == Init => Table!AccountsInit
  BY DEF Init, Nobody, Table!AccountsInit

\* The steps the table does not see.
LEMMA HiddenMaps ==
  ASSUME \/ Initialize
         \/ UNCHANGED vars
         \/ \E s \in Session : Connect(s) \/ Break(s)
  PROVE  UNCHANGED Table!accountVars
  BY DEF Initialize, vars, worker, Connect, Break, Table!accountVars

\* All sessions end with the process.
LEMMA CrashMaps ==
  ASSUME AuthInv, Crash
  PROVE  Table!End(Session)
  BY DEF Crash, Nobody, Table!End

\* One ends: its worker had nothing to do any more.
LEMMA CloseSessionMaps ==
  ASSUME AuthInv, NEW s \in Session, CloseSession(s)
  PROVE  Table!End({s})
  BY DEF AuthInv, Types, StageOK, CloseSession, worker, Table!End

\* A request is asked.
LEMMA AskMaps ==
  ASSUME AuthInv, NEW s \in Session, Ask(s)
  PROVE  Table!Ask(s)
  BY DEF AuthInv, StageOK, Ask, Goto, Table!Ask

\* It is answered, or the client has gone.
LEMMA SendAuthResponseMaps ==
  ASSUME AuthInv, NEW s \in Session, SendAuthResponse(s)
  PROVE  Table!Answer(s)
<1>1. result[s] # NONE
  BY DEF AuthInv, StageOK, SendAuthResponse, Goto
<1>2. answer' \in {answer, [answer EXCEPT ![s] = result[s]]}
  BY DEF SendAuthResponse
<1> QED  BY <1>1, <1>2 DEF SendAuthResponse, Table!Answer

\* A request not yet decided on.
LEMMA UndecidedFacts ==
  ASSUME AuthInv, NEW s \in Session, pc[s] \in {"asked", "hashed", "found"}
  PROVE  /\ request[s] \in Request /\ result[s] = NONE
         /\ request[s].op \in {"Register", "Login"}
         /\ Table!Undecided(s, request[s].op)
  BY AuthAssumption DEF AuthInv, Types, StageOK, Table!Undecided

\* Refusals a registration and a login have in common.
LEMMA RefusalMaps ==
  ASSUME AuthInv, NEW s \in Session, pc[s] \in {"asked", "hashed", "found"},
         NEW v \in {"InvalidId", "ServerError"}, Decide(s, v),
         Untouched, UNCHANGED <<users, userID>>
  PROVE  Table!Refuse(s)
  BY UndecidedFacts DEF Decide, Untouched, Table!Refuse

\* A malformed request is refused.
LEMMA RefuseMalformedMaps ==
  ASSUME AuthInv, NEW s \in Session, RefuseMalformed(s)
  PROVE  Table!Refuse(s)
<1>1. PICK v \in {"InvalidId", "ServerError"} : Decide(s, v)
  BY DEF RefuseMalformed
<1>2. pc[s] = "asked" /\ Untouched /\ UNCHANGED <<users, userID>>
  BY DEF RefuseMalformed, Goto
<1> QED  BY <1>1, <1>2, RefusalMaps

\* A hash is not seen; without memory for one the request is refused.
LEMMA MakePasswordHashMaps ==
  ASSUME AuthInv, NEW s \in Session, MakePasswordHash(s)
  PROVE  Table!Refuse(s) \/ UNCHANGED Table!accountVars
<1>1. pc[s] = "asked" /\ Untouched /\ UNCHANGED <<users, userID>>
  BY DEF MakePasswordHash
<1>2. CASE Decide(s, "ServerError")
  BY <1>1, <1>2, RefusalMaps
<1>3. CASE UNCHANGED result
  BY <1>1, <1>3 DEF Untouched, Table!accountVars
<1> QED  BY <1>2, <1>3 DEF MakePasswordHash

\* The insertion is the moment at which a registration takes effect.
LEMMA RegisterUserMaps ==
  ASSUME AuthInv, NEW s \in Session, RegisterUser(s)
  PROVE  Table!Register(s) \/ Table!Refuse(s)
<1>1. /\ pc[s] = "hashed" /\ Serves(s, "Register")
      /\ hash[s] \in Hash /\ hash[s].pw = request[s].pw
      /\ request[s].id \in Name /\ request[s].pw \in Password
  BY UndecidedFacts, RequestFacts DEF RegisterUser, Goto, AuthInv, StageOK, Serves
<1>2. Table!Undecided(s, "Register")
  BY <1>1, UndecidedFacts DEF Serves
<1>3. Untouched /\ UNCHANGED userID
  BY DEF RegisterUser
<1>4. CASE users[request[s].id] = NONE /\ Insert(s) /\ Decide(s, "Success")
  <2>1. hash[s] # NONE /\ users' = [users EXCEPT ![request[s].id] = hash[s]]
    BY <1>1, <1>4, NoneIsNothing DEF Insert
  <2>2. Given[request[s].id] = NONE
    BY <1>1, <1>4 DEF Given
  <2>3. Given' = [Given EXCEPT ![request[s].id] = request[s].pw]
    BY <1>1, <2>1 DEF Given, AuthInv, Types
  <2> QED
    BY <1>1, <1>2, <1>3, <1>4, <2>2, <2>3 DEF Given, Untouched, Decide, Table!Register
<1>5. CASE UNCHANGED users /\ Decide(s, "DuplicateId")
  BY <1>2, <1>3, <1>5 DEF Untouched, Decide, Table!Refuse
<1> QED  BY <1>4, <1>5 DEF RegisterUser

\* A look-up is not seen, unless it finds nothing.
LEMMA GetUserAuthDataMaps ==
  ASSUME AuthInv, NEW s \in Session, GetUserAuthData(s)
  PROVE  Table!Refuse(s) \/ UNCHANGED Table!accountVars
<1>1. pc[s] = "asked" /\ Untouched /\ UNCHANGED <<users, userID>>
  BY DEF GetUserAuthData
<1>2. CASE Decide(s, "InvalidId")
  BY <1>1, <1>2, RefusalMaps
<1>3. CASE UNCHANGED result
  BY <1>1, <1>3 DEF Untouched, Table!accountVars
<1> QED  BY <1>2, <1>3 DEF GetUserAuthData

\* The check is the moment at which a login takes effect, on the row as it is.
LEMMA VerifyPasswordMaps ==
  ASSUME AuthInv, NEW s \in Session, VerifyPassword(s)
  PROVE  Table!Login(s) \/ Table!Refuse(s)
<1>1. /\ pc[s] = "found" /\ Serves(s, "Login")
      /\ request[s].id \in Name /\ request[s].pw \in Password
      /\ users[request[s].id] = hash[s] /\ hash[s] # NONE /\ hash[s] \in Hash
  BY UndecidedFacts, RequestFacts
  DEF VerifyPassword, Goto, AuthInv, Types, StageOK, Serves
<1>2. Table!Undecided(s, "Login")
  BY <1>1, UndecidedFacts DEF Serves
<1>3. Untouched /\ UNCHANGED users
  BY DEF VerifyPassword
<1>4. Given[request[s].id] = hash[s].pw /\ hash[s].pw # NONE
  BY <1>1, AuthAssumption DEF Given, Hash
<1>5. CASE /\ hash[s].pw = request[s].pw
           /\ Decide(s, "Success") /\ userID' = [userID EXCEPT ![s] = request[s].id]
  BY <1>1, <1>2, <1>3, <1>4, <1>5 DEF Given, Untouched, Decide, Table!Login
<1>6. CASE Decide(s, "WrongPassword") /\ UNCHANGED userID
  BY <1>1, <1>2, <1>3, <1>4, <1>6 DEF Given, Untouched, Decide, Table!Refuse
<1> QED  BY <1>5, <1>6 DEF VerifyPassword

\* Every step of the handlers is a step of the table, or none.
LEMMA StepMaps ==
  ASSUME AuthInv, [Next]_vars
  PROVE  [Table!AccountsNext]_(Table!accountVars)
<1>1. CASE UNCHANGED vars \/ Initialize
  BY <1>1, HiddenMaps
<1>2. CASE Crash
  BY <1>2, CrashMaps DEF Table!AccountsNext
<1>3. ASSUME NEW s \in Session, Connect(s) \/ Break(s)
      PROVE  UNCHANGED Table!accountVars
  BY <1>3, HiddenMaps
<1>4. ASSUME NEW s \in Session, CloseSession(s)
      PROVE  Table!AccountsNext
  BY <1>4, CloseSessionMaps DEF Table!AccountsNext
<1>5. ASSUME NEW s \in Session, Ask(s)
      PROVE  Table!AccountsNext
  BY <1>5, AskMaps DEF Table!AccountsNext
<1>6. ASSUME NEW s \in Session, WorkerStep(s)
      PROVE  Table!Serve(s) \/ UNCHANGED Table!accountVars
  BY <1>6, RefuseMalformedMaps, MakePasswordHashMaps, RegisterUserMaps, GetUserAuthDataMaps,
     VerifyPasswordMaps, SendAuthResponseMaps DEF WorkerStep, Table!Serve
<1> QED
  BY <1>1, <1>2, <1>3, <1>4, <1>5, <1>6 DEF Next, Table!AccountsNext

\* The safety part of ImplementsAccounts: for any sessions, names and requests
\* the handlers of registration and login look like steps on a table of accounts.
THEOREM RefinesAccounts ==
  Spec => Table!AccountsInit /\ [][Table!AccountsNext]_(Table!accountVars)
  BY InitMaps, StepMaps, AuthInvariance, PTL DEF Spec
=============================================================================
