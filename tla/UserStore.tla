----------------------------- MODULE UserStore ------------------------------
(***************************************************************************)
(* The users table and the SQL statements of src/core/Database.cpp.        *)
(*                                                                         *)
(* A row is found by the SHA-256 of the login name, which is taken to be   *)
(* injective; the columns that are encrypted or hashed stand for what they *)
(* encrypt or hash.  Each statement is one atomic step: sqlite serialises  *)
(* the calls on the shared handle.  A statement may fail (a busy file, a   *)
(* full disk) and then changes nothing; `done' is the outcome the C++ code *)
(* tests as rc == SQLITE_DONE.                                             *)
(***************************************************************************)
CONSTANTS Ids,            \* login names
          Admin,          \* the login name "admin"
          Passwords,      \* non-empty passwords
          AdminPassword,  \* the initial password of Admin
          MayFail         \* whether statements may fail

ASSUME UserStoreAssumption ==
  /\ Admin \in Ids
  /\ AdminPassword \in Passwords
  /\ MayFail \in BOOLEAN

VARIABLE users  \* the users table, by login name

Row == [password    : Passwords,
        role        : {"none", "user", "admin"},  \* "none": no such row
        is_approved : {0, 1},
        is_active   : {0, 1}]

NoRow ==
  [password |-> AdminPassword, role |-> "none",
   is_approved |-> 0, is_active |-> 0]

AdminRow ==
  [password |-> AdminPassword, role |-> "admin",
   is_approved |-> 1, is_active |-> 1]

PendingRow(password) ==
  [password |-> password, role |-> "user",
   is_approved |-> 0, is_active |-> 1]

Stored(id) == users[id].role # "none"

UsersTypeOK == users \in [Ids -> Row]

UsersInit == users = [id \in Ids |-> NoRow]

-----------------------------------------------------------------------------
(* INSERT: refused by the primary key when the row exists. *)
Insert(id, row, done) ==
  \/ done /\ ~Stored(id) /\ users' = [users EXCEPT ![id] = row]
  \/ ~done /\ (Stored(id) \/ MayFail) /\ UNCHANGED users

(* UPDATE ... WHERE user_id_hash = ?: no such row is a success as well. *)
Update(id, row, done) ==
  \/ done /\ Stored(id) /\ users' = [users EXCEPT ![id] = row]
  \/ done /\ ~Stored(id) /\ UNCHANGED users
  \/ ~done /\ MayFail /\ UNCHANGED users

(* The first statement of registerUser: is the name free, as far as the    *)
(* SELECT COUNT can tell?  A step that yields no row leaves the count 0.   *)
SeenFree(id) == ~Stored(id) \/ MayFail

(* ... and seen taken, or the statement could not be prepared. *)
SeenTaken(id) == Stored(id) \/ MayFail

(* Mutant: the outcome of the INSERT is not looked at. *)
registerUserUnchecked(id, password, done) ==
  done /\ \E d \in BOOLEAN : Insert(id, PendingRow(password), d)

(* Mutant: INSERT OR REPLACE. *)
registerUserReplacing(id, password, done) ==
  done /\ users' = [users EXCEPT ![id] = PendingRow(password)]

registerUser(id, password, done) == Insert(id, PendingRow(password), done)

approveUser(id, done) ==
  Update(id, [users[id] EXCEPT !.is_approved = 1], done)

evictUser(id, done) ==
  Update(id, [users[id] EXCEPT !.is_active = 0], done)

(* Mutant: an empty new password is stored like any other. *)
updateUserProfileBlank(id, password, done) ==
  Update(id, [users[id] EXCEPT !.password = password], done)

(* An empty new password leaves the password column alone. *)
updateUserProfile(id, password, done) ==
  Update(id, IF password \in Passwords
             THEN [users[id] EXCEPT !.password = password]
             ELSE users[id], done)

(* getUser returns false for a missing row, for a failed statement and for *)
(* a row it cannot decrypt.                                                *)
getUser(id, found) ==
  \/ found /\ Stored(id)
  \/ ~found /\ (~Stored(id) \/ MayFail)

(* bootstrapAdmin inserts unless it counts a row already there, and ignores *)
(* the outcome of its statements.                                          *)
bootstrapAdmin == \E done \in BOOLEAN : Insert(Admin, AdminRow, done)
=============================================================================
