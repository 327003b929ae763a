------------------------------ MODULE Accounts ------------------------------
(***************************************************************************)
(* The account endpoints of ReplyServer::dispatch (src/core/               *)
(* ReplyHandlers.cpp) over the users table and the map of live sessions.   *)
(*                                                                         *)
(* A pool thread enters dispatch holding the EventBus mutex, runs the      *)
(* handler statement by statement, and leaves when the nested publish of   *)
(* the response returns.  Every statement that reads or writes the users   *)
(* table, and every critical section on g_sessionsMutex, is a step of its  *)
(* own, so that another thread or the end of the process may fall between  *)
(* any two of them if the code allows it.                                  *)
(***************************************************************************)
EXTENDS UserStore, EventBus

CONSTANTS Tokens,      \* session tokens; the generator never repeats one
          NoToken,     \* no SessionID cookie in the request
          NoUser,      \* the empty callerId; a token no session has
          NoPassword   \* an empty password field

ASSUME AccountsAssumption ==
  /\ NoToken \notin Tokens
  /\ NoUser \notin Ids
  /\ NoPassword \notin Passwords

VARIABLES sessions,  \* g_activeSessions: token -> login name
          issued,    \* tokens generateSessionToken has returned so far
          up,        \* the process runs and its database is open
          pc,        \* where each pool thread is in dispatch
          req,       \* the request it handles
          caller,    \* its local callerId
          callerRole, \* its local callerUser.role; "none" while empty
          status     \* the status code of the response it publishes

local == <<pc, req, caller, callerRole, status>>
vars == <<users, bus, sessions, issued, up, local>>

Labels == {"idle", "register", "insert", "login", "session", "auth", "load",
           "route", "erase", "reply", "wedged"}

Public == {"register", "login"}                      \* before authentication
Own    == {"logout", "me", "update", "unknown"}      \* any authenticated user
Manage == {"users", "approve", "evict"}              \* role admin only

Request == [op       : Public \cup Own \cup Manage,
            id       : Ids,
            password : Passwords \cup {NoPassword},
            cookie   : Tokens \cup {NoToken}]

NoRequest == [op |-> "unknown", id |-> Admin, password |-> NoPassword,
              cookie |-> NoToken]

(* What clients send, with the fields an endpoint does not read fixed.  A  *)
(* cookie is a token the server issued, still live or not, or absent.      *)
Requests ==
  LET Cookies == issued \cup {NoToken} IN
  [op : Public, id : Ids, password : Passwords, cookie : {NoToken}]
  \cup [op : {"update"}, id : {Admin}, password : Passwords \cup {NoPassword},
        cookie : Cookies]
  \cup [op : {"logout", "me", "users", "unknown"}, id : {Admin},
        password : {NoPassword}, cookie : Cookies]
  \cup [op : {"approve", "evict"}, id : Ids, password : {NoPassword},
        cookie : Cookies]

TypeOK ==
  /\ UsersTypeOK
  /\ BusTypeOK
  /\ sessions \in [Tokens -> Ids \cup {NoUser}]
  /\ issued \subseteq Tokens
  /\ up \in BOOLEAN
  /\ pc \in [Threads -> Labels]
  /\ req \in [Threads -> Request]
  /\ caller \in [Threads -> Ids \cup {NoUser}]
  /\ callerRole \in [Threads -> {"user", "admin", "none"}]
  /\ status \in [Threads -> {200, 400, 401, 403, 404, 500}]

IdleThreads ==
  /\ pc = [t \in Threads |-> "idle"]
  /\ req = [t \in Threads |-> NoRequest]
  /\ caller = [t \in Threads |-> NoUser]
  /\ callerRole = [t \in Threads |-> "none"]
  /\ status = [t \in Threads |-> 200]

Init ==
  /\ UsersInit
  /\ BusInit
  /\ sessions = [k \in Tokens |-> NoUser]
  /\ issued = {}
  /\ up = FALSE
  /\ IdleThreads

-----------------------------------------------------------------------------
(* The process: only the users table is on disk. *)

Boot ==
  /\ ~up
  /\ up' = TRUE
  /\ bootstrapAdmin
  /\ UNCHANGED <<bus, sessions, issued, local>>

(* It may end at any point. *)
Crash ==
  /\ up
  /\ up' = FALSE
  /\ bus' = NoThread
  /\ sessions' = [k \in Tokens |-> NoUser]
  /\ pc' = [t \in Threads |-> "idle"]
  /\ req' = [t \in Threads |-> NoRequest]
  /\ caller' = [t \in Threads |-> NoUser]
  /\ callerRole' = [t \in Threads |-> "none"]
  /\ status' = [t \in Threads |-> 200]
  /\ UNCHANGED <<users, issued>>

-----------------------------------------------------------------------------
(* Control flow of one dispatch. *)

At(t, label, ops) == pc[t] = label /\ req[t].op \in ops

Goto(t, label) ==
  /\ pc' = [pc EXCEPT ![t] = label]
  /\ UNCHANGED <<req, caller, callerRole, status>>

Answer(t, code) ==
  /\ pc' = [pc EXCEPT ![t] = "reply"]
  /\ status' = [status EXCEPT ![t] = code]
  /\ UNCHANGED <<req, caller, callerRole>>

(* Out of dispatch and of the publish of the request. *)
Leave(t) ==
  /\ pc' = [pc EXCEPT ![t] = "idle"]
  /\ req' = [req EXCEPT ![t] = NoRequest]
  /\ caller' = [caller EXCEPT ![t] = NoUser]
  /\ callerRole' = [callerRole EXCEPT ![t] = "none"]
  /\ status' = [status EXCEPT ![t] = 200]

(* eventBus_.publish(HttpRequestEvent): take the mutex, enter dispatch.    *)
(* The bound on Tokens ends logins, not the requests that are under way.   *)
Publish(t, r) ==
  /\ up
  /\ pc[t] = "idle"
  /\ r.op = "login" => issued # Tokens
  /\ Acquire(t)
  /\ pc' = [pc EXCEPT ![t] = IF r.op \in Public THEN r.op ELSE "auth"]
  /\ req' = [req EXCEPT ![t] = r]
  /\ UNCHANGED <<users, sessions, issued, up, caller, callerRole, status>>

(* A body that is not JSON, not an object or of the wrong types throws;    *)
(* the catch block answers 500.  If the message of the exception quotes    *)
(* text that is not UTF-8, dump() throws in the catch block itself, out of *)
(* dispatch and of the pool thread, which ends the process.                *)
BadBody(t) ==
  /\ \/ At(t, "register", Public) \/ At(t, "login", Public)
     \/ At(t, "route", {"update"})
     \/ At(t, "route", {"approve", "evict"}) /\ callerRole[t] = "admin"
  /\ \/ Answer(t, 500) /\ UNCHANGED <<users, bus, sessions, issued, up>>
     \/ Crash

(* The hash, the cipher, PBKDF2 or a random device fails before the        *)
(* statement runs.  A url outside /api/ has the caller's name hashed even  *)
(* when there is no session.                                               *)
CryptoThrows(t) ==
  /\ MayFail
  /\ \/ pc[t] \in {"register", "insert", "login", "session", "load"}
     \/ At(t, "auth", {"unknown"})
     \/ At(t, "route", {"update"})
     \/ /\ At(t, "route", {"approve", "evict"}) /\ callerRole[t] = "admin"
        /\ req[t].op = "evict" => req[t].id # Admin
  /\ Answer(t, 500)
  /\ UNCHANGED <<users, bus, sessions, issued, up>>

(* A required field is empty. *)
MissingField(t) ==
  /\ At(t, "register", Public) \/ At(t, "route", {"update"})
  /\ Answer(t, 400)
  /\ UNCHANGED <<users, bus, sessions, issued, up>>

-----------------------------------------------------------------------------
(* Public endpoints. *)

(* registerUser: SELECT COUNT. *)
Register(t) ==
  /\ At(t, "register", {"register"})
  /\ \/ SeenTaken(req[t].id) /\ Answer(t, 400)
     \/ SeenFree(req[t].id) /\ Goto(t, "insert")
  /\ UNCHANGED <<users, bus, sessions, issued, up>>

(* registerUser: INSERT. *)
RegisterInsert(t) ==
  /\ At(t, "insert", {"register"})
  /\ \E done \in BOOLEAN :
       /\ registerUser(req[t].id, req[t].password, done)
       /\ Answer(t, IF done THEN 200 ELSE 400)
  /\ UNCHANGED <<bus, sessions, issued, up>>

(* The three refusals of a login, and the way on. *)
MayLogIn(u, password) == 
  u.is_active = 1 /\ u.is_approved = 1 /\ u.password = password

(* Mutant: the approval is not looked at. *)
LoginUnapproved(t) ==
  /\ At(t, "login", {"login"})
  /\ \E found \in BOOLEAN :
       /\ getUser(req[t].id, found)
       /\ IF /\ found
             /\ users[req[t].id].is_active = 1
             /\ users[req[t].id].password = req[t].password
          THEN Goto(t, "session")
          ELSE Answer(t, 401)
  /\ UNCHANGED <<users, bus, sessions, issued, up>>

Login(t) ==
  /\ At(t, "login", {"login"})
  /\ \E found \in BOOLEAN :
       /\ getUser(req[t].id, found)
       /\ IF found /\ MayLogIn(users[req[t].id], req[t].password)
          THEN Goto(t, "session")
          ELSE Answer(t, 401)
  /\ UNCHANGED <<users, bus, sessions, issued, up>>

(* The new token goes back to the client as its cookie. *)
LoginSession(t) ==
  /\ At(t, "session", {"login"})
  /\ \E k \in Tokens \ issued :
       /\ issued' = issued \cup {k}
       /\ sessions' = [sessions EXCEPT ![k] = req[t].id]
       /\ req' = [req EXCEPT ![t].cookie = k]
  /\ pc' = [pc EXCEPT ![t] = "reply"]
  /\ status' = [status EXCEPT ![t] = 200]
  /\ UNCHANGED <<users, bus, up, caller, callerRole>>

-----------------------------------------------------------------------------
(* Authentication. *)

SessionOwner(k) == IF k \in Tokens THEN sessions[k] ELSE NoUser

(* Mutant: a request without a session returns without an answer. *)
AuthenticateSilently(t) ==
  /\ pc[t] = "auth"
  /\ LET u == SessionOwner(req[t].cookie) IN
       \/ u = NoUser /\ Release(t) /\ Leave(t)
       \/ /\ u # NoUser
          /\ caller' = [caller EXCEPT ![t] = u]
          /\ pc' = [pc EXCEPT ![t] = "load"]
          /\ UNCHANGED <<bus, req, callerRole, status>>
  /\ UNCHANGED <<users, sessions, issued, up>>

(* getUserIdFromSession: without a session 401 for a url under /api/.  No  *)
(* endpoint has a url outside: those fall through to the 404 with an empty *)
(* caller, for whom getUser finds nothing.                                 *)
Authenticate(t) ==
  /\ pc[t] = "auth"
  /\ LET u == SessionOwner(req[t].cookie) IN
       \/ u = NoUser /\ Answer(t, 401)
       \/ u = NoUser /\ req[t].op = "unknown" /\ Answer(t, 404)
       \/ /\ u # NoUser
          /\ caller' = [caller EXCEPT ![t] = u]
          /\ pc' = [pc EXCEPT ![t] = "load"]
          /\ UNCHANGED <<req, callerRole, status>>
  /\ UNCHANGED <<users, bus, sessions, issued, up>>

(* callerUser: the result of getUser is ignored, the role stays empty when *)
(* it fails.                                                               *)
LoadCaller(t) ==
  /\ pc[t] = "load"
  /\ \E found \in BOOLEAN :
       /\ getUser(caller[t], found)
       /\ callerRole' = [callerRole EXCEPT
                            ![t] = IF found THEN users[caller[t]].role ELSE "none"]
  /\ pc' = [pc EXCEPT ![t] = "route"]
  /\ UNCHANGED <<users, bus, sessions, issued, up, req, caller, status>>

-----------------------------------------------------------------------------
(* Endpoints of an authenticated user. *)

Logout(t) ==
  /\ At(t, "route", {"logout"})
  /\ sessions' = [sessions EXCEPT ![req[t].cookie] = NoUser]
  /\ Answer(t, 200)
  /\ UNCHANGED <<users, bus, issued, up>>

Me(t) ==
  /\ At(t, "route", {"me"})
  /\ Answer(t, 200)
  /\ UNCHANGED <<users, bus, sessions, issued, up>>

UpdateProfile(t) ==
  /\ At(t, "route", {"update"})
  /\ \E done \in BOOLEAN :
       /\ updateUserProfile(caller[t], req[t].password, done)
       /\ Answer(t, IF done THEN 200 ELSE 500)
  /\ UNCHANGED <<bus, sessions, issued, up>>

(* No endpoint has this url: the 404 at the end of dispatch. *)
NotFound(t) ==
  /\ At(t, "route", {"unknown"})
  /\ Answer(t, 404)
  /\ UNCHANGED <<users, bus, sessions, issued, up>>

-----------------------------------------------------------------------------
(* Endpoints of an administrator. *)

(* Mutant: any account that could be loaded will do. *)
IsAnybody(t) == callerRole[t] # "none"

IsAdmin(t) == callerRole[t] = "admin"

(* The url begins with /api/users, whether or not an endpoint has it. *)
Forbidden(t) ==
  /\ At(t, "route", Manage \cup {"unknown"})
  /\ ~IsAdmin(t)
  /\ Answer(t, 403)
  /\ UNCHANGED <<users, bus, sessions, issued, up>>

ListUsers(t) ==
  /\ At(t, "route", {"users"})
  /\ IsAdmin(t)
  /\ Answer(t, 200)
  /\ UNCHANGED <<users, bus, sessions, issued, up>>

Approve(t) ==
  /\ At(t, "route", {"approve"})
  /\ IsAdmin(t)
  /\ \E done \in BOOLEAN :
       /\ approveUser(req[t].id, done)
       /\ Answer(t, IF done THEN 200 ELSE 500)
  /\ UNCHANGED <<bus, sessions, issued, up>>

(* The root account is refused before the table is touched. *)
EvictRoot(t) ==
  /\ At(t, "route", {"evict"})
  /\ IsAdmin(t)
  /\ req[t].id = Admin
  /\ Answer(t, 400)
  /\ UNCHANGED <<users, bus, sessions, issued, up>>

(* Mutant: without the test for the root account. *)
EvictAnybody(t) ==
  /\ At(t, "route", {"evict"})
  /\ IsAdmin(t)
  /\ \E done \in BOOLEAN :
       /\ evictUser(req[t].id, done)
       /\ IF done THEN Goto(t, "erase") ELSE Answer(t, 500)
  /\ UNCHANGED <<bus, sessions, issued, up>>

Evict(t) ==
  /\ At(t, "route", {"evict"})
  /\ IsAdmin(t)
  /\ req[t].id # Admin
  /\ \E done \in BOOLEAN :
       /\ evictUser(req[t].id, done)
       /\ IF done THEN Goto(t, "erase") ELSE Answer(t, 500)
  /\ UNCHANGED <<bus, sessions, issued, up>>

(* Mutant: the loop looks for the caller's sessions. *)
EvictEraseCaller(t) ==
  /\ At(t, "erase", {"evict"})
  /\ sessions' = [k \in Tokens |-> IF sessions[k] = caller[t] THEN NoUser
                                   ELSE sessions[k]]
  /\ Answer(t, 200)
  /\ UNCHANGED <<users, bus, issued, up>>

(* The loop over g_activeSessions, under its mutex. *)
EvictErase(t) ==
  /\ At(t, "erase", {"evict"})
  /\ sessions' = [k \in Tokens |-> IF sessions[k] = req[t].id THEN NoUser
                                   ELSE sessions[k]]
  /\ Answer(t, 200)
  /\ UNCHANGED <<users, bus, issued, up>>

-----------------------------------------------------------------------------
(* eventBus_.publish(HttpResponseEvent) inside dispatch.                   *)

Reply(t) ==
  /\ pc[t] = "reply"
  /\ "enter" \in RelockOutcomes
  /\ Release(t)
  /\ Leave(t)
  /\ UNCHANGED <<users, sessions, issued, up>>

ReplyWedged(t) ==
  /\ pc[t] = "reply"
  /\ Wedge(t)
  /\ Goto(t, "wedged")
  /\ UNCHANGED <<users, sessions, issued, up>>

-----------------------------------------------------------------------------
Step(t) ==
  \/ BadBody(t) \/ CryptoThrows(t) \/ MissingField(t)
  \/ Register(t) \/ RegisterInsert(t) \/ Login(t) \/ LoginSession(t)
  \/ Authenticate(t) \/ LoadCaller(t)
  \/ Logout(t) \/ Me(t) \/ UpdateProfile(t) \/ NotFound(t)
  \/ Forbidden(t) \/ ListUsers(t) \/ Approve(t)
  \/ EvictRoot(t) \/ Evict(t) \/ EvictErase(t)
  \/ Reply(t) \/ ReplyWedged(t)

Next ==
  \/ \E t \in Threads : Step(t) \/ \E r \in Requests : Publish(t, r)
  \/ Boot
  \/ Crash

Spec == Init /\ [][Next]_vars

(* A thread inside dispatch keeps running: nothing in it waits but the     *)
(* mutexes, and those of sqlite and of the sessions are held for one step. *)
FairSpec == Spec /\ \A t \in Threads : WF_vars(Step(t))

-----------------------------------------------------------------------------
(* Properties. *)

(* Whoever is inside dispatch holds the bus: at most one request is being  *)
(* handled.  Everything below rests on publish() keeping its lock while it *)
(* runs the subscribers.                                                   *)
DispatchHoldsBus == \A t \in Threads : pc[t] # "idle" <=> bus = t

(* A decision taken on an earlier read is still right when it is used:     *)
(* the login about to get a session may still log in, and the caller a     *)
(* handler acts for still owns the cookie, is active, and is an            *)
(* administrator if the handler's copy of the role says so.                *)
NoStaleDecision ==
  \A t \in Threads :
    /\ pc[t] = "session" => MayLogIn(users[req[t].id], req[t].password)
    /\ pc[t] = "route" =>
         /\ SessionOwner(req[t].cookie) = caller[t]
         /\ users[caller[t]].is_active = 1
         /\ callerRole[t] \in {"none", users[caller[t]].role}

(* An evicted or unapproved account has no live session, except that of a  *)
(* user whose eviction is between its UPDATE and its session sweep.        *)
(* ReplyHandlers.cpp:273: "Evict session token from active sessions        *)
(* immediately".                                                           *)
NoSessionOutlivesEviction ==
  \A k \in Tokens :
    sessions[k] # NoUser =>
      /\ users[sessions[k]].is_approved = 1
      /\ \/ users[sessions[k]].is_active = 1
         \/ \E t \in Threads : pc[t] = "erase" /\ req[t].id = sessions[k]

(* What a 200 tells the client is true of the table and of the sessions    *)
(* when the response is published, however many statements the handler     *)
(* took to get there and whichever of them failed.                         *)
SuccessHolds(r, c) ==
  /\ r.op = "register" => users[r.id] = PendingRow(r.password)
  /\ r.op = "login" => /\ sessions[r.cookie] = r.id
                       /\ MayLogIn(users[r.id], r.password)
  /\ r.op = "logout" => sessions[r.cookie] = NoUser
  /\ r.op = "update" /\ r.password \in Passwords =>
       users[c].password = r.password
  /\ r.op = "approve" /\ Stored(r.id) => users[r.id].is_approved = 1
  /\ r.op = "evict" => /\ users[r.id].is_active = 0
                       /\ \A k \in Tokens : sessions[k] # r.id

TruthfulSuccess ==
  \A t \in Threads :
    pc[t] \in {"reply", "wedged"} /\ status[t] = 200 =>
      SuccessHolds(req[t], caller[t])

(* The only administrator is the root account, which stays approved and    *)
(* active.  There may be none: the INSERT of bootstrapAdmin may fail, and  *)
(* a user may register under the free name for good.  But then nobody has  *)
(* ever been approved or evicted: where anybody has, the administrator who *)
(* can go on doing so is in the table, whatever failed or crashed since.   *)
RootAdministers ==
  \A u \in Ids :
    /\ users[u].role = "admin" =>
         u = Admin /\ users[u].is_approved = 1 /\ users[u].is_active = 1
    /\ Stored(u) /\ (users[u].is_approved = 1 \/ users[u].is_active = 0) =>
         users[Admin].role = "admin"

(* README.md:13: login records are kept, never deleted, and an evicted one *)
(* stays refused: no row disappears or changes role, and the row of an     *)
(* evicted account changes in nothing but its approval.                    *)
RetainsAccounts ==
  \A u \in Ids : Stored(u) =>
    /\ users'[u].role = users[u].role
    /\ users[u].is_active = 0 =>
         /\ users'[u].is_active = 0
         /\ users'[u].password = users[u].password

AccountsRetained == [][RetainsAccounts]_vars

(* An existing account is approved or evicted only while the request of a  *)
(* live session of an active administrator is being handled.               *)
AdminSession(t) ==
  LET c == SessionOwner(req[t].cookie) IN
  c # NoUser /\ users[c].role = "admin" /\ users[c].is_active = 1

ManagedByAdmin ==
  \A u \in Ids :
    /\ Stored(u)
    /\ \/ users'[u].is_approved # users[u].is_approved
       \/ users'[u].is_active # users[u].is_active
    => \E t \in Threads : /\ bus = t
                          /\ req[t].op \in {"approve", "evict"}
                          /\ AdminSession(t)

AdminOnly == [][ManagedByAdmin]_vars

(* Every request that enters dispatch gets to the publish of an answer,    *)
(* whichever of its statements fail or throw, unless the process ends; and *)
(* where the nested publish enters, the thread comes out.                  *)
DispatchAnswers ==
  \A t \in Threads :
    /\ pc[t] # "idle" ~> pc[t] = "reply" \/ ~up
    /\ pc[t] = "reply" ~> pc[t] = "idle"

(* ReplyHandlers.cpp:273 again: the sessions of an evicted account go, all *)
(* of them, with no help from the client.                                  *)
EvictionSweeps ==
  \A k \in Tokens, u \in Ids :
    sessions[k] = u /\ users[u].is_active = 0 ~> sessions[k] # u

-----------------------------------------------------------------------------
(* The inductive invariant behind these properties. *)

(* What the place of a thread says about its request and its caller. *)
Control ==
  \A t \in Threads :
    /\ pc[t] \in {"register", "insert"} => req[t].op = "register"
    /\ pc[t] \in {"login", "session"} => req[t].op = "login"
    /\ req[t].op \in Public => req[t].password \in Passwords
    /\ pc[t] \in {"auth", "load", "route"} => req[t].op \notin Public
    /\ pc[t] \in {"load", "route"} =>
         /\ caller[t] # NoUser
         /\ SessionOwner(req[t].cookie) = caller[t]
         /\ users[caller[t]].is_active = 1
    /\ pc[t] = "erase" => /\ req[t].op = "evict"
                          /\ users[req[t].id].is_active = 0
    /\ ~up => pc[t] = "idle"

EmptyRows == \A u \in Ids : ~Stored(u) => users[u] = NoRow

IInv ==
  /\ TypeOK /\ Control /\ EmptyRows
  /\ DispatchHoldsBus /\ NoStaleDecision /\ NoSessionOutlivesEviction
  /\ TruthfulSuccess /\ RootAdministers

-----------------------------------------------------------------------------
(* The promise of AccountService: the statements of one request look like  *)
(* one operation.  A session whose account is no longer active counts as   *)
(* closed, so that the ban happens at the UPDATE and the sweep is silent.  *)
Standing == [u \in Ids |-> IF ~Stored(u) THEN "none"
                           ELSE IF users[u].is_active = 0 THEN "banned"
                           ELSE IF users[u].is_approved = 1 THEN "member"
                           ELSE "pending"]

Secret == [u \in Ids |-> users[u].password]

Live == [k \in Tokens |->
           IF sessions[k] \in Ids /\ users[sessions[k]].is_active = 1
           THEN sessions[k] ELSE NoUser]

Service == INSTANCE AccountService
           WITH standing <- Standing, secret <- Secret, live <- Live

(* The detailed handlers implement the atomic service. *)
ImplementsService == Service!Spec
=============================================================================
