--------------------------- MODULE AccountsProofs ---------------------------
(***************************************************************************)
(* Proofs about Accounts, for every set of threads, login names, passwords *)
(* and tokens, whether statements may fail or not, and whatever locking    *)
(* the bus again does.                                                     *)
(*                                                                         *)
(* IInv is inductive: each action has a lemma that it preserves IInv, with *)
(* one step per conjunct.  The properties are conjuncts of IInv, or follow *)
(* from IInv and one step.                                                 *)
(***************************************************************************)
EXTENDS Accounts, TLAPS

-----------------------------------------------------------------------------
(* Facts about one thread. *)

(* The types of the locals of a thread, field by field. *)
LEMMA Fields ==
  ASSUME IInv, NEW t \in Threads
  PROVE  /\ req[t].op \in Public \cup Own \cup Manage
         /\ req[t].id \in Ids
         /\ req[t].password \in Passwords \cup {NoPassword}
         /\ req[t].cookie \in Tokens \cup {NoToken}
         /\ req[t].op \in Public => req[t].password \in Passwords
         /\ caller[t] \in Ids \cup {NoUser}
BY DEF IInv, TypeOK, Request, Control

(* Only the holder of the bus is inside dispatch. *)
LEMMA Alone ==
  ASSUME IInv, NEW t \in Threads, pc[t] # "idle"
  PROVE  \A s \in Threads : s = t \/ pc[s] = "idle"
BY DEF IInv, DispatchHoldsBus

(* The columns of a row. *)
LEMMA Columns ==
  ASSUME IInv, NEW u \in Ids
  PROVE  /\ users[u] \in Row
         /\ users[u].password \in Passwords
         /\ users[u].role \in {"none", "user", "admin"}
         /\ users[u].is_approved \in {0, 1}
         /\ users[u].is_active \in {0, 1}
BY DEF IInv, TypeOK, UsersTypeOK, Row

-----------------------------------------------------------------------------
(* The end of the process leaves nothing that could be untrue. *)
LEMMA CrashPreserves ==
  ASSUME IInv, Crash
  PROVE  IInv'
<1> USE UserStoreAssumption, BusAssumption, AccountsAssumption
    DEF IInv, TypeOK, Crash
<1>0. NoRequest \in Request /\ NoRequest.op \notin Public
  BY DEF NoRequest, Request, Own, Public
<1>1. TypeOK'
  <2>1. UsersTypeOK' /\ BusTypeOK'
    BY DEF UsersTypeOK, BusTypeOK
  <2>2. /\ sessions' \in [Tokens -> Ids \cup {NoUser}]
        /\ issued' \subseteq Tokens /\ up' \in BOOLEAN
    <3>1. issued \subseteq Tokens
      OBVIOUS
    <3>2. QED
      BY ONLY <3>1, Crash DEF Crash
  <2>3. req' \in [Threads -> Request]
    <3>1. req' = [t \in Threads |-> NoRequest]
      BY ONLY Crash DEF Crash
    <3>2. QED
      BY ONLY <1>0, <3>1
  <2>4. /\ pc' \in [Threads -> Labels]
        /\ caller' \in [Threads -> Ids \cup {NoUser}]
    BY ONLY Crash DEF Crash, Labels
  <2>5. /\ callerRole' \in [Threads -> {"user", "admin", "none"}]
        /\ status' \in [Threads -> {200, 400, 401, 403, 404, 500}]
    BY ONLY Crash DEF Crash
  <2>6. QED
    BY ONLY <2>1, <2>2, <2>3, <2>4, <2>5 DEF TypeOK
<1>2. Control'
  BY <1>0 DEF Control
<1>3. EmptyRows' /\ RootAdministers'
  BY DEF EmptyRows, RootAdministers, Stored
<1>4. DispatchHoldsBus' /\ NoStaleDecision'
  BY DEF DispatchHoldsBus, NoStaleDecision
<1>5. NoSessionOutlivesEviction' /\ TruthfulSuccess'
  BY DEF NoSessionOutlivesEviction, TruthfulSuccess
<1>6. QED
  BY <1>1, <1>2, <1>3, <1>4, <1>5

-----------------------------------------------------------------------------
(* Actions that change no more than the place of a thread. *)

(* Answering keeps the invariant, provided that a 200 tells the truth. *)
LEMMA AnswerPreserves ==
  ASSUME IInv, NEW t \in Threads, NEW code \in {200, 400, 401, 403, 404, 500},
         pc[t] \notin {"idle", "erase"}, Answer(t, code),
         UNCHANGED <<users, bus, sessions, issued, up>>,
         code = 200 => SuccessHolds(req[t], caller[t])
  PROVE  IInv'
<1> USE DEF IInv, TypeOK, Answer
<1>1. TypeOK'
  BY DEF UsersTypeOK, BusTypeOK, Labels
<1>2. Control'
  BY DEF Control, SessionOwner
<1>3. EmptyRows' /\ RootAdministers'
  BY DEF EmptyRows, RootAdministers, Stored
<1>4. DispatchHoldsBus'
  BY DEF DispatchHoldsBus
<1>5. NoStaleDecision'
  BY DEF NoStaleDecision, SessionOwner, MayLogIn
<1>6. NoSessionOutlivesEviction'
  BY DEF NoSessionOutlivesEviction
<1>7. TruthfulSuccess'
  BY DEF TruthfulSuccess, SuccessHolds, Stored, MayLogIn, PendingRow
<1>8. QED
  BY <1>1, <1>2, <1>3, <1>4, <1>5, <1>6, <1>7

(* So does going on to the next statement, when the new place has what it  *)
(* takes.                                                                  *)
LEMMA GotoPreserves ==
  ASSUME IInv, NEW t \in Threads, NEW label \in {"insert", "session", "wedged"},
         pc[t] \notin {"idle", "erase"}, Goto(t, label),
         UNCHANGED <<users, bus, sessions, issued, up>>,
         label = "insert" => req[t].op = "register",
         label = "session" =>
           req[t].op = "login" /\ MayLogIn(users[req[t].id], req[t].password),
         label = "wedged" => pc[t] = "reply"
  PROVE  IInv'
<1> USE DEF IInv, TypeOK, Goto
<1>1. TypeOK'
  BY DEF UsersTypeOK, BusTypeOK, Labels
<1>2. Control'
  BY DEF Control, SessionOwner
<1>3. EmptyRows' /\ RootAdministers'
  BY DEF EmptyRows, RootAdministers, Stored
<1>4. DispatchHoldsBus'
  BY DEF DispatchHoldsBus
<1>5. NoStaleDecision'
  BY DEF NoStaleDecision, SessionOwner, MayLogIn
<1>6. NoSessionOutlivesEviction'
  BY DEF NoSessionOutlivesEviction
<1>7. TruthfulSuccess'
  BY DEF TruthfulSuccess, SuccessHolds, Stored, MayLogIn, PendingRow
<1>8. QED
  BY <1>1, <1>2, <1>3, <1>4, <1>5, <1>6, <1>7

(* Refusals, and the endpoints that only read. *)
LEMMA EarlyAnswersPreserve ==
  ASSUME IInv, NEW t \in Threads,
         \/ BadBody(t) \/ CryptoThrows(t) \/ MissingField(t)
         \/ Me(t) \/ NotFound(t) \/ Forbidden(t) \/ ListUsers(t) \/ EvictRoot(t)
  PROVE  IInv'
<1>1. CASE BadBody(t)
  BY <1>1, AnswerPreserves, CrashPreserves DEF BadBody, At
<1>2. CASE CryptoThrows(t)
  BY <1>2, AnswerPreserves DEF CryptoThrows, At
<1>3. CASE MissingField(t)
  BY <1>3, AnswerPreserves DEF MissingField, At
<1>4. CASE Me(t)
  BY <1>4, AnswerPreserves DEF Me, At, SuccessHolds
<1>5. CASE NotFound(t)
  BY <1>5, AnswerPreserves DEF NotFound, At
<1>6. CASE Forbidden(t)
  BY <1>6, AnswerPreserves DEF Forbidden, At
<1>7. CASE ListUsers(t)
  BY <1>7, AnswerPreserves DEF ListUsers, At, SuccessHolds
<1>8. CASE EvictRoot(t)
  BY <1>8, AnswerPreserves DEF EvictRoot, At
<1>9. QED
  BY <1>1, <1>2, <1>3, <1>4, <1>5, <1>6, <1>7, <1>8

LEMMA RegisterPreserves ==
  ASSUME IInv, NEW t \in Threads, Register(t)
  PROVE  IInv'
<1>1. CASE Answer(t, 400)
  BY <1>1, AnswerPreserves DEF Register, At
<1>2. CASE Goto(t, "insert")
  BY <1>2, GotoPreserves DEF Register, At
<1>3. QED
  BY <1>1, <1>2 DEF Register

LEMMA LoginPreserves ==
  ASSUME IInv, NEW t \in Threads, Login(t)
  PROVE  IInv'
<1>1. CASE Answer(t, 401)
  BY <1>1, AnswerPreserves DEF Login, At
<1>2. CASE /\ Goto(t, "session")
           /\ MayLogIn(users[req[t].id], req[t].password)
  BY <1>2, GotoPreserves DEF Login, At
<1>3. QED
  BY <1>1, <1>2 DEF Login

LEMMA ReplyWedgedPreserves ==
  ASSUME IInv, NEW t \in Threads, ReplyWedged(t)
  PROVE  IInv'
BY GotoPreserves DEF ReplyWedged, Wedge

-----------------------------------------------------------------------------
(* Entering and leaving dispatch. *)

LEMMA PublishPreserves ==
  ASSUME IInv, NEW t \in Threads, NEW r \in Requests, Publish(t, r)
  PROVE  IInv'
<1> USE DEF IInv, TypeOK, Publish, Acquire
<1>1. r \in Request /\ (r.op \in Public => r.password \in Passwords)
  BY UserStoreAssumption
  DEF Requests, Request, Public, Own, Manage
<1>2. TypeOK'
  BY <1>1 DEF UsersTypeOK, BusTypeOK, Labels, Public
<1>3. Control'
  BY <1>1 DEF Control, SessionOwner, Public
<1>4. EmptyRows' /\ RootAdministers'
  BY DEF EmptyRows, RootAdministers, Stored
<1>5. DispatchHoldsBus'
  BY BusAssumption DEF DispatchHoldsBus, Public
<1>6. NoStaleDecision'
  BY DEF NoStaleDecision, SessionOwner, MayLogIn, Public
<1>7. NoSessionOutlivesEviction'
  BY DEF NoSessionOutlivesEviction
<1>8. TruthfulSuccess'
  BY DEF TruthfulSuccess, SuccessHolds, Stored, MayLogIn, PendingRow, Public
<1>9. QED
  BY <1>2, <1>3, <1>4, <1>5, <1>6, <1>7, <1>8

LEMMA ReplyPreserves ==
  ASSUME IInv, NEW t \in Threads, Reply(t)
  PROVE  IInv'
<1> USE UserStoreAssumption, AccountsAssumption
    DEF IInv, TypeOK, Reply, Leave, Release, NoRequest
<1>1. TypeOK'
  BY DEF UsersTypeOK, BusTypeOK, Labels, Request, Own
<1>2. Control'
  BY DEF Control, SessionOwner, Public
<1>3. EmptyRows' /\ RootAdministers'
  BY DEF EmptyRows, RootAdministers, Stored
<1>4. DispatchHoldsBus'
  BY BusAssumption DEF DispatchHoldsBus
<1>5. NoStaleDecision'
  BY DEF NoStaleDecision, SessionOwner, MayLogIn
<1>6. NoSessionOutlivesEviction'
  BY DEF NoSessionOutlivesEviction
<1>7. TruthfulSuccess'
  BY DEF TruthfulSuccess, SuccessHolds, Stored, MayLogIn, PendingRow
<1>8. QED
  BY <1>1, <1>2, <1>3, <1>4, <1>5, <1>6, <1>7

-----------------------------------------------------------------------------
(* Authentication and sessions. *)

LEMMA AuthenticatePreserves ==
  ASSUME IInv, NEW t \in Threads, Authenticate(t)
  PROVE  IInv'
<1>1. CASE Answer(t, 401) \/ Answer(t, 404)
  BY <1>1, AnswerPreserves DEF Authenticate
<1>2. CASE /\ caller' = [caller EXCEPT ![t] = SessionOwner(req[t].cookie)]
           /\ SessionOwner(req[t].cookie) # NoUser
           /\ pc' = [pc EXCEPT ![t] = "load"]
           /\ UNCHANGED <<req, callerRole, status>>
  <2>1. /\ pc[t] = "auth"
        /\ UNCHANGED <<users, bus, sessions, issued, up>>
    BY DEF Authenticate
  <2>2. /\ SessionOwner(req[t].cookie) \in Ids
        /\ req[t].cookie \in Tokens
    BY <1>2, Fields DEF SessionOwner, IInv, TypeOK
  <2>3. users[SessionOwner(req[t].cookie)].is_active = 1
    <3>1. \A s \in Threads : pc[s] # "erase"
      BY <2>1, Alone
    <3>2. QED
      BY <3>1, <2>2, <1>2 DEF IInv, NoSessionOutlivesEviction, SessionOwner
  <2> USE <1>2, <2>1, <2>2, <2>3, Alone DEF IInv, TypeOK
  <2>4. TypeOK'
    BY DEF UsersTypeOK, BusTypeOK, Labels
  <2>5. Control'
    BY DEF Control, SessionOwner
  <2>6. EmptyRows' /\ RootAdministers'
    BY DEF EmptyRows, RootAdministers, Stored
  <2>7. DispatchHoldsBus'
    BY DEF DispatchHoldsBus
  <2>8. NoStaleDecision'
    BY DEF NoStaleDecision, SessionOwner, MayLogIn
  <2>9. NoSessionOutlivesEviction'
    BY DEF NoSessionOutlivesEviction
  <2>10. TruthfulSuccess'
    BY DEF TruthfulSuccess, SuccessHolds, Stored, MayLogIn, PendingRow
  <2>11. QED
    BY <2>4, <2>5, <2>6, <2>7, <2>8, <2>9, <2>10
<1>3. QED
  BY <1>1, <1>2 DEF Authenticate

LEMMA LoadCallerPreserves ==
  ASSUME IInv, NEW t \in Threads, LoadCaller(t)
  PROVE  IInv'
<1>1. /\ pc[t] = "load"
      /\ pc' = [pc EXCEPT ![t] = "route"]
      /\ UNCHANGED <<users, bus, sessions, issued, up, req, caller, status>>
  BY DEF LoadCaller
<1>2. caller[t] \in Ids
  BY <1>1, Fields DEF IInv, Control
<1>3. PICK r \in {"none", users[caller[t]].role} :
        callerRole' = [callerRole EXCEPT ![t] = r]
  BY DEF LoadCaller
<1>4. r \in {"none", "user", "admin"}
  BY <1>2, Columns
<1> USE <1>1, <1>2, <1>3, <1>4, Alone DEF IInv, TypeOK
<1>5. TypeOK'
  BY DEF UsersTypeOK, BusTypeOK, Labels
<1>6. Control'
  BY DEF Control, SessionOwner
<1>7. EmptyRows' /\ RootAdministers'
  BY DEF EmptyRows, RootAdministers, Stored
<1>8. DispatchHoldsBus'
  BY DEF DispatchHoldsBus
<1>9. NoStaleDecision'
  BY DEF NoStaleDecision, SessionOwner, Control
<1>10. NoSessionOutlivesEviction'
  BY DEF NoSessionOutlivesEviction
<1>11. TruthfulSuccess'
  BY DEF TruthfulSuccess, SuccessHolds, Stored, MayLogIn, PendingRow
<1>12. QED
  BY <1>5, <1>6, <1>7, <1>8, <1>9, <1>10, <1>11

LEMMA LoginSessionPreserves ==
  ASSUME IInv, NEW t \in Threads, LoginSession(t)
  PROVE  IInv'
<1>1. PICK k \in Tokens \ issued :
        /\ issued' = issued \cup {k}
        /\ sessions' = [sessions EXCEPT ![k] = req[t].id]
        /\ req' = [req EXCEPT ![t].cookie = k]
  BY DEF LoginSession
<1>2. /\ pc[t] = "session"
      /\ req[t].op = "login"
      /\ pc' = [pc EXCEPT ![t] = "reply"]
      /\ status' = [status EXCEPT ![t] = 200]
      /\ UNCHANGED <<users, bus, up, caller, callerRole>>
  BY DEF LoginSession, At
<1>3. MayLogIn(users[req[t].id], req[t].password) /\ req[t].id \in Ids
  BY <1>2, Fields DEF IInv, NoStaleDecision
<1>4. /\ req' = [req EXCEPT ![t] = [req[t] EXCEPT !.cookie = k]]
      /\ req \in [Threads -> Request] /\ req[t] \in Request
  BY <1>1 DEF IInv, TypeOK
<1>4a. [req[t] EXCEPT !.cookie = k] \in Request
  BY <1>1, <1>4 DEF Request
<1>4b. req' \in [Threads -> Request]
  BY <1>4, <1>4a
<1>5. /\ req'[t].op = "login" /\ req'[t].id = req[t].id
      /\ req'[t].password = req[t].password /\ req'[t].cookie = k
  BY <1>2, <1>4 DEF Request
<1> USE <1>1, <1>2, <1>3, <1>4, <1>4b, <1>5, Alone DEF IInv, TypeOK
<1>6. TypeOK'
  BY DEF UsersTypeOK, BusTypeOK, Labels
<1>7. Control'
  BY Fields DEF Control, Public
<1>8. EmptyRows' /\ RootAdministers'
  BY DEF EmptyRows, RootAdministers, Stored
<1>9. DispatchHoldsBus'
  BY DEF DispatchHoldsBus
<1>10. NoStaleDecision'
  BY DEF NoStaleDecision
<1>11. NoSessionOutlivesEviction'
  BY DEF NoSessionOutlivesEviction, MayLogIn
<1>12. TruthfulSuccess'
  <2>1. SuccessHolds(req[t], caller[t])'
    BY DEF SuccessHolds
  <2>2. QED
    BY <2>1 DEF TruthfulSuccess
<1>13. QED
  BY <1>6, <1>7, <1>8, <1>9, <1>10, <1>11, <1>12

LEMMA LogoutPreserves ==
  ASSUME IInv, NEW t \in Threads, Logout(t)
  PROVE  IInv'
<1>1. /\ pc[t] = "route" /\ req[t].op = "logout"
      /\ sessions' = [sessions EXCEPT ![req[t].cookie] = NoUser]
      /\ Answer(t, 200)
      /\ UNCHANGED <<users, bus, issued, up>>
  BY DEF Logout, At
<1>2. TypeOK'
  <2>1. UsersTypeOK' /\ BusTypeOK' /\ UNCHANGED <<issued, up>>
    BY <1>1 DEF IInv, TypeOK, UsersTypeOK, BusTypeOK
  <2>2. sessions' \in [Tokens -> Ids \cup {NoUser}]
    <3>1. sessions \in [Tokens -> Ids \cup {NoUser}]
      BY DEF IInv, TypeOK
    <3>2. QED
      BY ONLY <1>1, <3>1
  <2>3. /\ pc' \in [Threads -> Labels]
        /\ status' \in [Threads -> {200, 400, 401, 403, 404, 500}]
        /\ UNCHANGED <<req, caller, callerRole>>
    BY <1>1 DEF IInv, TypeOK, Answer, Labels
  <2>4. QED
    BY <2>1, <2>2, <2>3 DEF IInv, TypeOK
<1> USE <1>1, Alone DEF IInv, TypeOK, Answer
<1>3. Control'
  BY DEF Control, SessionOwner
<1>4. EmptyRows' /\ RootAdministers'
  BY DEF EmptyRows, RootAdministers, Stored
<1>5. DispatchHoldsBus'
  BY DEF DispatchHoldsBus
<1>6. NoStaleDecision'
  BY DEF NoStaleDecision
<1>7. NoSessionOutlivesEviction'
  BY DEF NoSessionOutlivesEviction
<1>8. TruthfulSuccess'
  <2>1. req[t].cookie \in Tokens
    BY DEF Control, SessionOwner
  <2>2. SuccessHolds(req[t], caller[t])'
    BY <2>1 DEF SuccessHolds
  <2>3. QED
    BY <2>2 DEF TruthfulSuccess
<1>9. QED
  BY <1>2, <1>3, <1>4, <1>5, <1>6, <1>7, <1>8

-----------------------------------------------------------------------------
(* The handlers that change the users table. *)

LEMMA RegisterInsertPreserves ==
  ASSUME IInv, NEW t \in Threads, RegisterInsert(t)
  PROVE  IInv'
<1>1. PICK done \in BOOLEAN :
        /\ registerUser(req[t].id, req[t].password, done)
        /\ Answer(t, IF done THEN 200 ELSE 400)
  BY DEF RegisterInsert
<1>2. /\ pc[t] = "insert" /\ req[t].op = "register"
      /\ req[t].id \in Ids /\ req[t].password \in Passwords
      /\ UNCHANGED <<bus, sessions, issued, up>>
  BY Fields DEF RegisterInsert, At, Public
<1>3. CASE ~done
  BY <1>1, <1>2, <1>3, AnswerPreserves DEF registerUser, Insert
<1>4. CASE done
  <2>1. /\ ~Stored(req[t].id)
        /\ users' = [users EXCEPT ![req[t].id] = PendingRow(req[t].password)]
        /\ Answer(t, 200)
    BY <1>1, <1>4 DEF registerUser, Insert
  <2>2. \A k \in Tokens : sessions[k] # req[t].id
    BY <1>2, <2>1, UserStoreAssumption, AccountsAssumption
    DEF IInv, EmptyRows, NoRow, NoSessionOutlivesEviction
  <2> USE <1>2, <2>1, <2>2, Alone DEF IInv, TypeOK, UsersTypeOK, Answer
  <2>3. TypeOK'
    BY DEF BusTypeOK, Labels, Row, PendingRow
  <2>4. Control'
    BY DEF Control
  <2>5. EmptyRows' /\ RootAdministers'
    BY DEF EmptyRows, RootAdministers, Stored, PendingRow
  <2>6. DispatchHoldsBus'
    BY DEF DispatchHoldsBus
  <2>7. NoStaleDecision'
    BY DEF NoStaleDecision
  <2>8. NoSessionOutlivesEviction'
    BY DEF NoSessionOutlivesEviction
  <2>9. TruthfulSuccess'
    BY DEF TruthfulSuccess, SuccessHolds, PendingRow
  <2>10. QED
    BY <2>3, <2>4, <2>5, <2>6, <2>7, <2>8, <2>9
<1>5. QED
  BY <1>3, <1>4

LEMMA UpdateProfilePreserves ==
  ASSUME IInv, NEW t \in Threads, UpdateProfile(t)
  PROVE  IInv'
<1>1. PICK done \in BOOLEAN :
        /\ updateUserProfile(caller[t], req[t].password, done)
        /\ Answer(t, IF done THEN 200 ELSE 500)
  BY DEF UpdateProfile
<1>2. /\ pc[t] = "route" /\ req[t].op = "update"
      /\ UNCHANGED <<bus, sessions, issued, up>>
  BY DEF UpdateProfile, At
<1>3. caller[t] \in Ids /\ Stored(caller[t])
  BY <1>2, Fields DEF IInv, Control, EmptyRows, NoRow
<1>4. CASE ~done
  BY <1>1, <1>2, <1>4, AnswerPreserves DEF updateUserProfile, Update
<1>5. CASE done
  <2> DEFINE p == IF req[t].password \in Passwords THEN req[t].password
                  ELSE users[caller[t]].password
  <2>1. /\ users' = [users EXCEPT ![caller[t]] =
                       [users[caller[t]] EXCEPT !.password = p]]
        /\ Answer(t, 200)
    <3>1. users[caller[t]] =
            [users[caller[t]] EXCEPT !.password = users[caller[t]].password]
      BY <1>3, Columns DEF Row
    <3>2. QED
      BY <1>1, <1>3, <1>5, <3>1 DEF updateUserProfile, Update
  <2>2. p \in Passwords /\ (req[t].password \in Passwords => p = req[t].password)
    BY <1>3, Columns
  <2> HIDE DEF p
  <2> DEFINE row == [users[caller[t]] EXCEPT !.password = p]
  <2>3. /\ row \in Row /\ row.password = p
        /\ row.role = users[caller[t]].role
        /\ row.is_approved = users[caller[t]].is_approved
        /\ row.is_active = users[caller[t]].is_active
    BY <1>3, <2>2, Columns DEF Row
  <2>4. users' = [users EXCEPT ![caller[t]] = row]
    BY <2>1
  <2> HIDE DEF row
  <2> USE <1>2, <1>3, <2>1, <2>2, <2>3, <2>4, Alone
      DEF IInv, TypeOK, UsersTypeOK, Answer
  <2>5. TypeOK'
    BY DEF BusTypeOK, Labels
  <2>6. Control'
    BY DEF Control
  <2>7. EmptyRows' /\ RootAdministers'
    BY DEF EmptyRows, RootAdministers, Stored
  <2>8. DispatchHoldsBus'
    BY DEF DispatchHoldsBus
  <2>9. NoStaleDecision'
    BY DEF NoStaleDecision
  <2>10. NoSessionOutlivesEviction'
    BY DEF NoSessionOutlivesEviction
  <2>11. TruthfulSuccess'
    BY DEF TruthfulSuccess, SuccessHolds
  <2>12. QED
    BY <2>5, <2>6, <2>7, <2>8, <2>9, <2>10, <2>11
<1>6. QED
  BY <1>4, <1>5

(* Whoever manages accounts is the root account, which is in the table. *)
LEMMA IsRoot ==
  ASSUME IInv, NEW t \in Threads, pc[t] = "route", callerRole[t] = "admin"
  PROVE  users[Admin].role = "admin"
<1>1. caller[t] \in Ids
  BY Fields DEF IInv, Control
<1>2. users[caller[t]].role = "admin"
  BY DEF IInv, NoStaleDecision
<1>3. QED
  BY <1>1, <1>2 DEF IInv, RootAdministers

LEMMA ApprovePreserves ==
  ASSUME IInv, NEW t \in Threads, Approve(t)
  PROVE  IInv'
<1>1. PICK done \in BOOLEAN :
        /\ approveUser(req[t].id, done)
        /\ Answer(t, IF done THEN 200 ELSE 500)
  BY DEF Approve
<1>2. /\ pc[t] = "route" /\ req[t].op = "approve" /\ req[t].id \in Ids
      /\ UNCHANGED <<bus, sessions, issued, up>>
  BY Fields DEF Approve, At
<1>2a. users[Admin].role = "admin"
  BY IsRoot DEF Approve, IsAdmin, At
<1>3. CASE UNCHANGED users
  <2>1. done => ~Stored(req[t].id) \/ users[req[t].id].is_approved = 1
    BY <1>1, <1>2, <1>3, Columns
    DEF approveUser, Update, IInv, TypeOK, UsersTypeOK, Row
  <2>2. QED
    BY <1>1, <1>2, <1>3, <2>1, AnswerPreserves DEF SuccessHolds
<1>4. CASE ~UNCHANGED users
  <2> DEFINE row == [users[req[t].id] EXCEPT !.is_approved = 1]
  <2>1. /\ Stored(req[t].id)
        /\ users' = [users EXCEPT ![req[t].id] = row]
        /\ Answer(t, 200)
    BY <1>1, <1>4 DEF approveUser, Update
  <2>2. /\ row \in Row /\ row.is_approved = 1
        /\ row.role = users[req[t].id].role
        /\ row.password = users[req[t].id].password
        /\ row.is_active = users[req[t].id].is_active
    BY <1>2, Columns DEF Row
  <2> HIDE DEF row
  <2> USE <1>2, <2>1, <2>2, Alone DEF IInv, TypeOK, UsersTypeOK, Answer
  <2>3. TypeOK'
    BY DEF BusTypeOK, Labels
  <2>4. Control'
    BY DEF Control
  <2>5. EmptyRows'
    BY DEF EmptyRows, Stored
  <2>5a. RootAdministers'
    BY <1>2a, UserStoreAssumption DEF RootAdministers, Stored
  <2>6. DispatchHoldsBus'
    BY DEF DispatchHoldsBus
  <2>7. NoStaleDecision'
    BY DEF NoStaleDecision
  <2>8. NoSessionOutlivesEviction'
    BY DEF NoSessionOutlivesEviction
  <2>9. TruthfulSuccess'
    BY DEF TruthfulSuccess, SuccessHolds
  <2>10. QED
    BY <2>3, <2>4, <2>5, <2>5a, <2>6, <2>7, <2>8, <2>9
<1>5. QED
  BY <1>3, <1>4

LEMMA EvictPreserves ==
  ASSUME IInv, NEW t \in Threads, Evict(t)
  PROVE  IInv'
<1>1. PICK done \in BOOLEAN :
        /\ evictUser(req[t].id, done)
        /\ IF done THEN Goto(t, "erase") ELSE Answer(t, 500)
  BY DEF Evict
<1>2. /\ pc[t] = "route" /\ req[t].op = "evict"
      /\ req[t].id \in Ids /\ req[t].id # Admin
      /\ UNCHANGED <<bus, sessions, issued, up>>
  BY Fields DEF Evict, At
<1>2a. users[Admin].role = "admin"
  BY IsRoot DEF Evict, IsAdmin, At
<1>3. CASE ~done
  BY <1>1, <1>2, <1>3, AnswerPreserves DEF evictUser, Update
<1>4. CASE done
  <2> DEFINE row == [users[req[t].id] EXCEPT !.is_active = 0]
  <2>1. /\ users' = [users EXCEPT ![req[t].id] = row]
        /\ row \in Row /\ row.is_active = 0
        /\ row.role = users[req[t].id].role
        /\ row.password = users[req[t].id].password
        /\ row.is_approved = users[req[t].id].is_approved
        /\ ~Stored(req[t].id) => row = users[req[t].id]
    <3>1. /\ row \in Row /\ row.is_active = 0
          /\ row.role = users[req[t].id].role
          /\ row.password = users[req[t].id].password
          /\ row.is_approved = users[req[t].id].is_approved
      BY <1>2, Columns DEF Row
    <3>2. ~Stored(req[t].id) => row = users[req[t].id]
      BY <1>2 DEF IInv, EmptyRows, NoRow
    <3>3. users' = [users EXCEPT ![req[t].id] = row]
      BY <1>1, <1>2, <1>4, <3>2
      DEF evictUser, Update, IInv, TypeOK, UsersTypeOK
    <3>4. QED
      BY <3>1, <3>2, <3>3
  <2>2. Goto(t, "erase")
    BY <1>1, <1>4
  <2> HIDE DEF row
  <2> USE <1>2, <2>1, <2>2, Alone DEF IInv, TypeOK, UsersTypeOK, Goto
  <2>3. TypeOK'
    BY DEF BusTypeOK, Labels
  <2>4. Control'
    BY DEF Control
  <2>5. EmptyRows'
    BY DEF EmptyRows, Stored
  <2>5a. RootAdministers'
    BY <1>2a, UserStoreAssumption DEF RootAdministers, Stored
  <2>6. DispatchHoldsBus'
    BY DEF DispatchHoldsBus
  <2>7. NoStaleDecision'
    BY DEF NoStaleDecision
  <2>8. NoSessionOutlivesEviction'
    BY DEF NoSessionOutlivesEviction
  <2>9. TruthfulSuccess'
    BY DEF TruthfulSuccess
  <2>10. QED
    BY <2>3, <2>4, <2>5, <2>5a, <2>6, <2>7, <2>8, <2>9
<1>5. QED
  BY <1>3, <1>4

LEMMA EvictErasePreserves ==
  ASSUME IInv, NEW t \in Threads, EvictErase(t)
  PROVE  IInv'
<1>1. /\ pc[t] = "erase" /\ req[t].op = "evict" /\ req[t].id \in Ids
      /\ sessions' = [k \in Tokens |-> IF sessions[k] = req[t].id THEN NoUser
                                       ELSE sessions[k]]
      /\ Answer(t, 200)
      /\ UNCHANGED <<users, bus, issued, up>>
  BY Fields DEF EvictErase, At
<1> USE <1>1, Alone, AccountsAssumption DEF IInv, TypeOK, Answer
<1>2. TypeOK'
  BY DEF UsersTypeOK, BusTypeOK, Labels
<1>3. Control'
  BY DEF Control
<1>4. EmptyRows' /\ RootAdministers'
  BY DEF EmptyRows, RootAdministers, Stored
<1>5. DispatchHoldsBus'
  BY DEF DispatchHoldsBus
<1>6. NoStaleDecision'
  BY DEF NoStaleDecision
<1>7. NoSessionOutlivesEviction'
  BY DEF NoSessionOutlivesEviction
<1>8. TruthfulSuccess'
  BY DEF TruthfulSuccess, SuccessHolds, Control
<1>9. QED
  BY <1>2, <1>3, <1>4, <1>5, <1>6, <1>7, <1>8

-----------------------------------------------------------------------------
(* The process. *)

LEMMA InitEstablishes == Init => IInv
<1> SUFFICES ASSUME Init PROVE IInv
  OBVIOUS
<1> USE UserStoreAssumption, BusAssumption, AccountsAssumption
    DEF Init, IdleThreads, UsersInit, BusInit, NoRow, NoRequest
<1>1. TypeOK
  <2>1. NoRow \in Row
    BY DEF Row
  <2>2. NoRequest \in Request
    BY DEF Request, Own
  <2>3. UsersTypeOK /\ BusTypeOK
    BY <2>1 DEF UsersTypeOK, BusTypeOK
  <2>4. req \in [Threads -> Request]
    BY ONLY Init, <2>2 DEF Init, IdleThreads
  <2>5. /\ sessions \in [Tokens -> Ids \cup {NoUser}]
        /\ issued \subseteq Tokens /\ up \in BOOLEAN
    BY ONLY Init DEF Init
  <2>6. /\ pc \in [Threads -> Labels]
        /\ caller \in [Threads -> Ids \cup {NoUser}]
    BY ONLY Init DEF Init, IdleThreads, Labels
  <2>7. /\ callerRole \in [Threads -> {"user", "admin", "none"}]
        /\ status \in [Threads -> {200, 400, 401, 403, 404, 500}]
    BY ONLY Init DEF Init, IdleThreads
  <2>8. QED
    BY ONLY <2>3, <2>4, <2>5, <2>6, <2>7 DEF TypeOK
<1>2. Control
  BY DEF Control, Public
<1>3. EmptyRows /\ RootAdministers
  BY DEF EmptyRows, RootAdministers, Stored
<1>4. DispatchHoldsBus /\ NoStaleDecision
  BY DEF DispatchHoldsBus, NoStaleDecision
<1>5. NoSessionOutlivesEviction /\ TruthfulSuccess
  BY DEF NoSessionOutlivesEviction, TruthfulSuccess
<1>6. QED
  BY <1>1, <1>2, <1>3, <1>4, <1>5 DEF IInv

LEMMA BootPreserves ==
  ASSUME IInv, Boot
  PROVE  IInv'
<1>1. /\ up' = TRUE /\ UNCHANGED <<bus, sessions, issued, local>>
      /\ \A t \in Threads : pc[t] = "idle"
      /\ \/ UNCHANGED users
         \/ ~Stored(Admin) /\ users' = [users EXCEPT ![Admin] = AdminRow]
  BY DEF Boot, bootstrapAdmin, Insert, IInv, Control
<1>2. ~Stored(Admin) => \A k \in Tokens : sessions[k] # Admin
  BY UserStoreAssumption, AccountsAssumption, <1>1
  DEF IInv, EmptyRows, NoRow, NoSessionOutlivesEviction
<1> USE <1>1, <1>2, UserStoreAssumption
    DEF IInv, TypeOK, UsersTypeOK, local, AdminRow
<1>3. TypeOK'
  BY DEF BusTypeOK, Row
<1>4. Control'
  BY DEF Control
<1>5. EmptyRows' /\ RootAdministers'
  BY DEF EmptyRows, RootAdministers, Stored
<1>6. DispatchHoldsBus' /\ NoStaleDecision'
  BY DEF DispatchHoldsBus, NoStaleDecision
<1>7. NoSessionOutlivesEviction'
  BY DEF NoSessionOutlivesEviction
<1>8. TruthfulSuccess'
  BY DEF TruthfulSuccess
<1>9. QED
  BY <1>3, <1>4, <1>5, <1>6, <1>7, <1>8

LEMMA StutterPreserves ==
  ASSUME IInv, UNCHANGED vars
  PROVE  IInv'
<1> USE DEF IInv, vars, local
<1>1. TypeOK'
  BY DEF TypeOK, UsersTypeOK, BusTypeOK
<1>2. Control'
  BY DEF Control, SessionOwner
<1>3. EmptyRows' /\ RootAdministers' /\ DispatchHoldsBus'
  BY DEF EmptyRows, RootAdministers, DispatchHoldsBus, Stored
<1>4. NoStaleDecision' /\ NoSessionOutlivesEviction'
  BY DEF NoStaleDecision, NoSessionOutlivesEviction, SessionOwner, MayLogIn
<1>5. TruthfulSuccess'
  BY DEF TruthfulSuccess, SuccessHolds, Stored, MayLogIn, PendingRow
<1>6. QED
  BY <1>1, <1>2, <1>3, <1>4, <1>5

-----------------------------------------------------------------------------
(* The invariants. *)

LEMMA StepPreserves ==
  ASSUME IInv, [Next]_vars
  PROVE  IInv'
<1>1. ASSUME NEW t \in Threads, Step(t)
      PROVE  IInv'
  BY <1>1, EarlyAnswersPreserve, RegisterPreserves, RegisterInsertPreserves,
     LoginPreserves, LoginSessionPreserves, AuthenticatePreserves,
     LoadCallerPreserves, LogoutPreserves, UpdateProfilePreserves,
     ApprovePreserves, EvictPreserves, EvictErasePreserves, ReplyPreserves,
     ReplyWedgedPreserves
  DEF Step
<1>2. ASSUME NEW t \in Threads, NEW r \in Requests, Publish(t, r)
      PROVE  IInv'
  BY <1>2, PublishPreserves
<1>3. QED
  BY <1>1, <1>2, BootPreserves, CrashPreserves, StutterPreserves DEF Next

LEMMA Invariance == Spec => []IInv
<1>1. IInv /\ [Next]_vars => IInv'
  BY StepPreserves
<1>2. QED
  BY InitEstablishes, <1>1, PTL DEF Spec

(* Every variable keeps its type. *)
THEOREM TypeCorrect == Spec => []TypeOK
BY Invariance, PTL DEF IInv

(* The bus serialises dispatch, however many threads the pool has. *)
THEOREM DispatchIsSerial == Spec => []DispatchHoldsBus
BY Invariance, PTL DEF IInv

(* No handler acts on a login, a session or a role that is out of date. *)
THEOREM DecisionsStayValid == Spec => []NoStaleDecision
BY Invariance, PTL DEF IInv

(* A session of an evicted account ends with the eviction. *)
THEOREM SessionsEndWithEviction == Spec => []NoSessionOutlivesEviction
BY Invariance, PTL DEF IInv

(* A 200 is never a lie, whichever statements fail. *)
THEOREM SuccessIsTrue == Spec => []TruthfulSuccess
BY Invariance, PTL DEF IInv

(* Nobody but the root account becomes an administrator, and the root      *)
(* account is never locked out by an endpoint.                             *)
THEOREM RootStaysAdmin == Spec => []RootAdministers
BY Invariance, PTL DEF IInv

-----------------------------------------------------------------------------
(* What a step may do to the users table. *)

(* The steps that change a stored row, and how. *)
Changes(t, u) ==
  \/ /\ pc[t] = "route" /\ caller[t] = u /\ req[t].op = "update"
     /\ \E p \in Passwords : users'[u] = [users[u] EXCEPT !.password = p]
  \/ /\ pc[t] = "route" /\ IsAdmin(t) /\ req[t].op = "approve"
     /\ users'[u] = [users[u] EXCEPT !.is_approved = 1]
  \/ /\ pc[t] = "route" /\ IsAdmin(t) /\ req[t].op = "evict"
     /\ users'[u] = [users[u] EXCEPT !.is_active = 0]

LEMMA RowChanges ==
  ASSUME IInv, [Next]_vars, NEW u \in Ids, Stored(u), users'[u] # users[u]
  PROVE  \E t \in Threads : Changes(t, u)
<1>1. PICK t \in Threads :
        RegisterInsert(t) \/ UpdateProfile(t) \/ Approve(t) \/ Evict(t)
  <2>1. ~UNCHANGED users
    OBVIOUS
  <2>2. ~Boot
    BY DEF Boot, bootstrapAdmin, Insert, IInv, TypeOK, UsersTypeOK
  <2>3. ~Crash /\ ~UNCHANGED vars
    BY <2>1 DEF Crash, vars
  <2>4. ASSUME NEW t \in Threads, NEW r \in Requests PROVE ~Publish(t, r)
    BY <2>1 DEF Publish
  <2>5. QED
    BY <2>1, <2>2, <2>3, <2>4
    DEF Next, Step, BadBody, CryptoThrows, MissingField, Register, Login,
        LoginSession, Authenticate, LoadCaller, Logout, Me, NotFound,
        Forbidden, ListUsers, EvictRoot, EvictErase, Reply, ReplyWedged
<1>2. ~RegisterInsert(t)
  BY DEF RegisterInsert, registerUser, Insert, IInv, TypeOK, UsersTypeOK
<1>3. CASE UpdateProfile(t)
  BY <1>3 DEF Changes, UpdateProfile, At, updateUserProfile, Update,
              IInv, TypeOK, UsersTypeOK
<1>4. CASE Approve(t)
  BY <1>4 DEF Changes, Approve, At, approveUser, Update, IInv, TypeOK, UsersTypeOK
<1>5. CASE Evict(t)
  BY <1>5 DEF Changes, Evict, At, evictUser, Update, IInv, TypeOK, UsersTypeOK
<1>6. QED
  BY <1>1, <1>2, <1>3, <1>4, <1>5 DEF Changes

(* No account is ever deleted, changes role or comes back from eviction. *)
THEOREM RowsAreRetained == Spec => AccountsRetained
<1>1. ASSUME IInv, [Next]_vars, NEW u \in Ids, Stored(u), users'[u] # users[u]
      PROVE  /\ users'[u].role = users[u].role
             /\ users[u].is_active = 0 =>
                  /\ users'[u].is_active = 0
                  /\ users'[u].password = users[u].password
  <2>1. PICK t \in Threads : Changes(t, u)
    BY <1>1, RowChanges
  <2>2. users[u] \in Row
    BY <1>1, Columns
  <2>3. CASE /\ pc[t] = "route" /\ caller[t] = u
             /\ \E p \in Passwords :
                  users'[u] = [users[u] EXCEPT !.password = p]
    BY <1>1, <2>2, <2>3 DEF Row, IInv, Control
  <2>4. CASE users'[u] = [users[u] EXCEPT !.is_approved = 1]
    BY <2>2, <2>4 DEF Row
  <2>5. CASE users'[u] = [users[u] EXCEPT !.is_active = 0]
    BY <2>2, <2>5 DEF Row
  <2>6. QED
    BY <2>1, <2>3, <2>4, <2>5 DEF Changes
<1>2. IInv /\ [Next]_vars => RetainsAccounts
  BY <1>1 DEF RetainsAccounts
<1>3. QED
  BY <1>2, Invariance, PTL DEF Spec, AccountsRetained

(* Approvals and evictions are the work of an administrator's session. *)
THEOREM OnlyAdminsManage == Spec => AdminOnly
<1>1. ASSUME IInv, [Next]_vars, NEW u \in Ids, Stored(u),
             \/ users'[u].is_approved # users[u].is_approved
             \/ users'[u].is_active # users[u].is_active
      PROVE  \E t \in Threads : /\ bus = t
                                /\ req[t].op \in {"approve", "evict"}
                                /\ AdminSession(t)
  <2>1. PICK t \in Threads : Changes(t, u)
    BY <1>1, RowChanges
  <2>2. users[u] \in Row
    BY <1>1, Columns
  <2>3. pc[t] = "route" /\ IsAdmin(t) /\ req[t].op \in {"approve", "evict"}
    BY <1>1, <2>1, <2>2 DEF Changes, Row
  <2>4. bus = t
    BY <1>1, <2>3 DEF IInv, DispatchHoldsBus
  <2>5. AdminSession(t)
    BY <1>1, <2>3 DEF AdminSession, IInv, Control, NoStaleDecision, IsAdmin
  <2>6. QED
    BY <2>3, <2>4, <2>5
<1>2. IInv /\ [Next]_vars => ManagedByAdmin
  BY <1>1 DEF ManagedByAdmin
<1>3. QED
  BY <1>2, Invariance, PTL DEF Spec, AdminOnly
=============================================================================
