------------------------- MODULE AccountsRefinement -------------------------
(***************************************************************************)
(* Proof that the handlers of Accounts, statement by statement, implement  *)
(* AccountService, whose operations are atomic.                            *)
(***************************************************************************)
EXTENDS AccountsProofs

ServiceVars == <<Standing, Secret, Live>>

-----------------------------------------------------------------------------
(* A token that was never issued opens nothing. *)

FreshTokens == \A k \in Tokens \ issued : sessions[k] = NoUser

LEMMA TokensAreFresh == Spec => []FreshTokens
<1>1. Init => FreshTokens
  BY DEF Init, FreshTokens
<1>2. IInv /\ FreshTokens /\ [Next]_vars => FreshTokens'
  <2> SUFFICES ASSUME IInv, FreshTokens, [Next]_vars PROVE FreshTokens'
    OBVIOUS
  <2> USE DEF FreshTokens, IInv, TypeOK
  <2>1. CASE UNCHANGED <<sessions, issued>>
    BY <2>1
  <2>2. ASSUME NEW t \in Threads, LoginSession(t) PROVE FreshTokens'
    BY <2>2 DEF LoginSession
  <2>3. ASSUME NEW t \in Threads, Logout(t) PROVE FreshTokens'
    BY <2>3 DEF Logout
  <2>4. ASSUME NEW t \in Threads, EvictErase(t) PROVE FreshTokens'
    BY <2>4 DEF EvictErase
  <2>5. CASE Crash
    BY <2>5 DEF Crash
  <2>6. QED
    BY <2>1, <2>2, <2>3, <2>4, <2>5
    DEF Next, Step, BadBody, CryptoThrows, MissingField, Register,
        RegisterInsert, Login, Authenticate, LoadCaller, Me, UpdateProfile,
        NotFound, Forbidden, ListUsers, Approve, EvictRoot, Evict, Reply,
        ReplyWedged, Publish, Boot, vars
<1>3. QED
  BY <1>1, <1>2, Invariance, PTL DEF Spec

-----------------------------------------------------------------------------
(* Each step is an operation of the service, or silent. *)

LEMMA SilentSteps ==
  ASSUME UNCHANGED <<users, sessions>>
  PROVE  UNCHANGED ServiceVars
BY DEF ServiceVars, Standing, Secret, Live, Stored

LEMMA RegisterApplies ==
  ASSUME IInv, NEW t \in Threads, RegisterInsert(t)
  PROVE  Service!Next \/ UNCHANGED ServiceVars
<1>1. req[t].id \in Ids /\ req[t].password \in Passwords /\ UNCHANGED sessions
  BY Fields DEF RegisterInsert, At, Public
<1>2. CASE UNCHANGED users
  BY <1>1, <1>2, SilentSteps
<1>3. CASE ~UNCHANGED users
  <2>1. /\ ~Stored(req[t].id)
        /\ users' = [users EXCEPT ![req[t].id] = PendingRow(req[t].password)]
    BY <1>3 DEF RegisterInsert, registerUser, Insert
  <2>2. users[req[t].id] = NoRow
    BY <1>1, <2>1 DEF IInv, EmptyRows
  <2> USE <1>1, <2>1, <2>2 DEF IInv, TypeOK, UsersTypeOK
  <2>3. Standing[req[t].id] = "none"
        /\ Standing' = [Standing EXCEPT ![req[t].id] = "pending"]
    BY DEF Standing, Stored, PendingRow
  <2>4. Secret' = [Secret EXCEPT ![req[t].id] = req[t].password]
    <3>1. \A u \in Ids : users'[u].password =
            IF u = req[t].id THEN req[t].password ELSE users[u].password
      BY DEF PendingRow
    <3>2. QED
      BY ONLY <1>1, <3>1 DEF Secret
  <2>5. UNCHANGED Live
    BY DEF Live, NoSessionOutlivesEviction, NoRow
  <2>6. Service!Apply(req[t].id, req[t].password)
    BY <2>3, <2>4, <2>5 DEF Service!Apply, Service!Move
  <2>7. QED
    BY <2>6 DEF Service!Next
<1>4. QED
  BY <1>2, <1>3

LEMMA SessionIsLogin ==
  ASSUME IInv, FreshTokens, NEW t \in Threads, LoginSession(t)
  PROVE  Service!Next
<1>1. PICK k \in Tokens \ issued : sessions' = [sessions EXCEPT ![k] = req[t].id]
  BY DEF LoginSession
<1>2. /\ req[t].id \in Ids /\ UNCHANGED users
      /\ MayLogIn(users[req[t].id], req[t].password)
  BY Fields DEF LoginSession, At, IInv, NoStaleDecision
<1> USE <1>1, <1>2, AccountsAssumption DEF IInv, TypeOK, MayLogIn
<1>3. Standing[req[t].id] = "member"
  BY DEF Standing, Stored, EmptyRows, NoRow
<1>4. Live[k] = NoUser
  BY DEF Live, FreshTokens
<1>4a. Live' = [Live EXCEPT ![k] = req[t].id]
  <2>1. \A j \in Tokens : sessions'[j] = IF j = k THEN req[t].id ELSE sessions[j]
    OBVIOUS
  <2>2. /\ users[req[t].id].is_active = 1 /\ req[t].id # NoUser
        /\ req[t].id \in Ids /\ UNCHANGED users
    OBVIOUS
  <2>3. QED
    BY ONLY <2>1, <2>2, k \in Tokens DEF Live
<1>5. UNCHANGED <<Standing, Secret>>
  BY DEF Standing, Secret, Stored
<1>6. Service!Login(req[t].id, k)
  BY <1>3, <1>4, <1>4a, <1>5 DEF Service!Login
<1>7. QED
  BY <1>6 DEF Service!Next

LEMMA LogoutCloses ==
  ASSUME IInv, NEW t \in Threads, Logout(t)
  PROVE  Service!Next
<1>1. /\ sessions' = [sessions EXCEPT ![req[t].cookie] = NoUser]
      /\ UNCHANGED users
      /\ req[t].cookie \in Tokens
  BY Fields DEF Logout, At, IInv, Control, SessionOwner
<1>2. Live' = [Live EXCEPT ![req[t].cookie] = NoUser]
  <2>1. \A j \in Tokens :
          sessions'[j] = IF j = req[t].cookie THEN NoUser ELSE sessions[j]
    BY <1>1 DEF IInv, TypeOK
  <2>2. \A j \in Tokens :
          Live'[j] = IF j = req[t].cookie THEN NoUser ELSE Live[j]
    BY ONLY <1>1, <2>1, AccountsAssumption DEF Live
  <2>3. /\ Live = [j \in Tokens |-> Live[j]]
        /\ Live' = [j \in Tokens |-> Live'[j]]
    BY ONLY DEF Live
  <2>4. QED
    BY ONLY <1>1, <2>2, <2>3
<1>3. UNCHANGED <<Standing, Secret>>
  BY <1>1 DEF Standing, Secret, Stored
<1>4. Service!Logout(req[t].cookie)
  BY <1>2, <1>3 DEF Service!Logout
<1>5. QED
  BY <1>1, <1>4 DEF Service!Next

LEMMA UpdateChangesSecret ==
  ASSUME IInv, NEW t \in Threads, UpdateProfile(t)
  PROVE  Service!Next \/ UNCHANGED ServiceVars
<1>1. /\ pc[t] = "route" /\ UNCHANGED sessions
      /\ req[t].cookie \in Tokens
      /\ caller[t] \in Ids
      /\ sessions[req[t].cookie] = caller[t]
      /\ users[caller[t]].is_active = 1
  BY Fields DEF UpdateProfile, At, IInv, Control, SessionOwner
<1>2. CASE UNCHANGED users
  BY <1>1, <1>2, SilentSteps
<1>3. CASE ~UNCHANGED users
  <2> DEFINE row == [users[caller[t]] EXCEPT !.password = req[t].password]
  <2>1. req[t].password \in Passwords /\ users' = [users EXCEPT ![caller[t]] = row]
    BY <1>3
    DEF UpdateProfile, updateUserProfile, Update, IInv, TypeOK, UsersTypeOK
  <2>2. /\ row.password = req[t].password
        /\ row.role = users[caller[t]].role
        /\ row.is_approved = users[caller[t]].is_approved
        /\ row.is_active = users[caller[t]].is_active
    BY <1>1, Columns DEF Row
  <2> HIDE DEF row
  <2> USE <1>1, <2>1, <2>2 DEF IInv, TypeOK, UsersTypeOK
  <2>3. Live[req[t].cookie] = caller[t]
    BY DEF Live
  <2>4. Secret' = [Secret EXCEPT ![caller[t]] = req[t].password]
    <3>1. \A u \in Ids : users'[u].password =
            IF u = caller[t] THEN req[t].password ELSE users[u].password
      OBVIOUS
    <3>2. QED
      BY ONLY <1>1, <3>1 DEF Secret
  <2>5. UNCHANGED Standing
    BY DEF Standing, Stored
  <2>6. UNCHANGED Live
    BY DEF Live
  <2>7. Service!ChangeSecret(req[t].cookie, req[t].password)
    BY <2>3, <2>4, <2>5, <2>6, AccountsAssumption DEF Service!ChangeSecret
  <2>8. QED
    BY <2>7 DEF Service!Next
<1>4. QED
  BY <1>2, <1>3

LEMMA ApproveAdmits ==
  ASSUME IInv, NEW t \in Threads, Approve(t)
  PROVE  Service!Next \/ UNCHANGED ServiceVars
<1>1. req[t].id \in Ids /\ UNCHANGED sessions
  BY Fields DEF Approve
<1>2. CASE UNCHANGED users
  BY <1>1, <1>2, SilentSteps
<1>3. CASE ~UNCHANGED users
  <2> DEFINE row == [users[req[t].id] EXCEPT !.is_approved = 1]
  <2>1. Stored(req[t].id) /\ users' = [users EXCEPT ![req[t].id] = row]
    BY <1>3 DEF Approve, approveUser, Update
  <2>2. /\ row.is_approved = 1
        /\ row.password = users[req[t].id].password
        /\ row.role = users[req[t].id].role
        /\ row.is_active = users[req[t].id].is_active
    BY <1>1, Columns DEF Row
  <2> HIDE DEF row
  <2> USE <1>1, <2>1, <2>2 DEF IInv, TypeOK, UsersTypeOK
  <2>3. UNCHANGED <<Secret, Live>>
    BY DEF Secret, Live
  <2>4. \/ UNCHANGED Standing
        \/ /\ Standing[req[t].id] = "pending"
           /\ Standing' = [Standing EXCEPT ![req[t].id] = "member"]
    BY Columns DEF Standing, Stored
  <2>5. Service!Approve(req[t].id) \/ UNCHANGED ServiceVars
    BY <2>3, <2>4 DEF Service!Approve, Service!Move, ServiceVars
  <2>6. QED
    BY <2>5 DEF Service!Next
<1>4. QED
  BY <1>2, <1>3

LEMMA EvictBans ==
  ASSUME IInv, NEW t \in Threads, Evict(t)
  PROVE  Service!Next \/ UNCHANGED ServiceVars
<1>1. req[t].id \in Ids /\ req[t].id # Admin /\ UNCHANGED sessions
  BY Fields DEF Evict
<1>2. CASE UNCHANGED users
  BY <1>1, <1>2, SilentSteps
<1>3. CASE ~UNCHANGED users
  <2> DEFINE row == [users[req[t].id] EXCEPT !.is_active = 0]
  <2>1. Stored(req[t].id) /\ users' = [users EXCEPT ![req[t].id] = row]
    BY <1>3 DEF Evict, evictUser, Update
  <2>2. /\ row.is_active = 0
        /\ row.password = users[req[t].id].password
        /\ row.role = users[req[t].id].role
        /\ row.is_approved = users[req[t].id].is_approved
    BY <1>1, Columns DEF Row
  <2> HIDE DEF row
  <2> USE <1>1, <2>1, <2>2, AccountsAssumption DEF IInv, TypeOK, UsersTypeOK
  <2>3. UNCHANGED Secret
    BY DEF Secret
  <2>4. Standing' = [Standing EXCEPT ![req[t].id] = "banned"]
    <3>1. \A u \in Ids : users'[u] = IF u = req[t].id THEN row ELSE users[u]
      OBVIOUS
    <3>2. row.role = users[req[t].id].role /\ row.is_active = 0
      OBVIOUS
    <3>3. QED
      <4>1. \A u \in Ids : Standing'[u] =
              IF u = req[t].id THEN "banned" ELSE Standing[u]
        BY ONLY <1>1, <2>1, <3>1, <3>2 DEF Standing, Stored
      <4>2. /\ Standing = [u \in Ids |-> Standing[u]]
            /\ Standing' = [u \in Ids |-> Standing'[u]]
        BY ONLY DEF Standing
      <4>3. QED
        BY ONLY <1>1, <4>1, <4>2
  <2>5. Live' = [k \in Tokens |-> IF Live[k] = req[t].id THEN NoUser ELSE Live[k]]
    BY DEF Live
  <2>6. CASE users[req[t].id].is_active = 0
    <3>1. UNCHANGED Standing
      BY <2>4, <2>6 DEF Standing, Stored
    <3>2. UNCHANGED Live
      BY <2>5, <2>6 DEF Live
    <3>3. QED
      BY <2>3, <3>1, <3>2 DEF ServiceVars
  <2>7. CASE users[req[t].id].is_active = 1
    <3>1. Standing[req[t].id] \in {"pending", "member"}
      BY <2>7, Columns DEF Standing, Stored
    <3>2. Service!Ban(req[t].id)
      BY <2>3, <2>4, <2>5, <3>1 DEF Service!Ban
    <3>3. QED
      BY <3>2 DEF Service!Next
  <2>8. QED
    BY <2>6, <2>7, Columns
<1>4. QED
  BY <1>2, <1>3

(* The sweep removes only sessions that already count as closed. *)
LEMMA SweepIsSilent ==
  ASSUME IInv, NEW t \in Threads, EvictErase(t)
  PROVE  UNCHANGED ServiceVars
<1>1. /\ sessions' = [k \in Tokens |-> IF sessions[k] = req[t].id THEN NoUser
                                       ELSE sessions[k]]
      /\ UNCHANGED users
      /\ users[req[t].id].is_active = 0
  BY DEF EvictErase, At, IInv, Control
<1>2. UNCHANGED Live
  BY <1>1, AccountsAssumption DEF Live, IInv, TypeOK
<1>3. QED
  BY <1>1, <1>2 DEF ServiceVars, Standing, Secret, Stored

LEMMA BootFounds ==
  ASSUME IInv, Boot
  PROVE  Service!Next \/ UNCHANGED ServiceVars
<1>1. CASE UNCHANGED users
  BY <1>1, SilentSteps DEF Boot
<1>2. CASE ~UNCHANGED users
  <2>1. /\ ~Stored(Admin) /\ Admin \in Ids
        /\ users' = [users EXCEPT ![Admin] = AdminRow]
        /\ UNCHANGED sessions
    BY <1>2, UserStoreAssumption DEF Boot, bootstrapAdmin, Insert
  <2>2. users[Admin] = NoRow
    BY <2>1 DEF IInv, EmptyRows
  <2> USE <2>1, <2>2 DEF IInv, TypeOK, UsersTypeOK, AdminRow, NoRow
  <2>3. Standing[Admin] = "none"
    BY DEF Standing, Stored
  <2>3a. Standing' = [Standing EXCEPT ![Admin] = "member"]
    <3>1. /\ users'[Admin].role = "admin" /\ users'[Admin].is_approved = 1
          /\ users'[Admin].is_active = 1
          /\ \A u \in Ids : u # Admin => users'[u] = users[u]
      OBVIOUS
    <3>2. Standing'[Admin] = "member"
      BY <3>1 DEF Standing, Stored
    <3>3. \A u \in Ids : u # Admin => Standing'[u] = Standing[u]
      BY <3>1 DEF Standing, Stored
    <3>4. /\ Standing = [u \in Ids |-> Standing[u]]
          /\ Standing' = [u \in Ids |-> Standing'[u]]
      BY ONLY DEF Standing
    <3>5. QED
      BY ONLY <3>2, <3>3, <3>4, <2>1
  <2>4. UNCHANGED Secret
    BY DEF Secret
  <2>5. UNCHANGED Live
    BY DEF Live, NoSessionOutlivesEviction
  <2>6. Service!Found
    BY <2>3, <2>3a, <2>4, <2>5 DEF Service!Found, Service!Move
  <2>7. QED
    BY <2>6 DEF Service!Next
<1>3. QED
  BY <1>1, <1>2

LEMMA CrashRestarts ==
  ASSUME IInv, Crash
  PROVE  Service!Next
<1>1. Live' = [k \in Tokens |-> NoUser]
  BY AccountsAssumption DEF Crash, Live
<1>2. UNCHANGED <<Standing, Secret>>
  BY DEF Crash, Standing, Secret, Stored
<1>3. QED
  BY <1>1, <1>2 DEF Service!Next, Service!Restart

-----------------------------------------------------------------------------
(* Whatever the interleaving of statements, failures and restarts, clients *)
(* see atomic operations.                                                  *)
THEOREM HandlersImplementService == Spec => ImplementsService
<1>1. Init => Service!Init
  BY AccountsAssumption
  DEF Init, UsersInit, NoRow, Service!Init, Standing, Secret, Live, Stored
<1>2. ASSUME IInv, FreshTokens, [Next]_vars
      PROVE  Service!Next \/ UNCHANGED ServiceVars
  <2>1. CASE UNCHANGED <<users, sessions>>
    BY <2>1, SilentSteps
  <2>2. ASSUME NEW t \in Threads, Step(t), ~UNCHANGED <<users, sessions>>
        PROVE  Service!Next \/ UNCHANGED ServiceVars
    <3>1. \/ RegisterInsert(t) \/ LoginSession(t) \/ Logout(t)
          \/ UpdateProfile(t) \/ Approve(t) \/ Evict(t) \/ EvictErase(t)
          \/ Crash
      BY <2>2
      DEF Step, BadBody, CryptoThrows, MissingField, Register, Login,
          Authenticate, LoadCaller, Me, NotFound, Forbidden, ListUsers,
          EvictRoot, Reply, ReplyWedged
    <3>2. QED
      BY <1>2, <3>1, RegisterApplies, SessionIsLogin, LogoutCloses,
         UpdateChangesSecret, ApproveAdmits, EvictBans, SweepIsSilent,
         CrashRestarts
  <2>3. ASSUME NEW t \in Threads, NEW r \in Requests, Publish(t, r)
        PROVE  UNCHANGED <<users, sessions>>
    BY <2>3 DEF Publish
  <2>4. QED
    BY <1>2, <2>1, <2>2, <2>3, BootFounds, CrashRestarts DEF Next, vars
<1>3. QED
  BY <1>1, <1>2, Invariance, TokensAreFresh, PTL
  DEF Spec, ImplementsService, Service!Spec, ServiceVars
=============================================================================
