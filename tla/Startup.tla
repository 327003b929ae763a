------------------------------- MODULE Startup -------------------------------
(***************************************************************************)
(* How the process finds its database and its key: Config::ReadJson        *)
(* (src/core/Config.cpp), Database::init (src/core/Database.cpp) and what  *)
(* a changed configuration means for rows that are already stored.         *)
(*                                                                         *)
(* A ciphertext stands for the secret whose key made it: AES-GCM decrypts  *)
(* under that key and throws under any other (src/core/CryptoHelper.cpp).  *)
(* The process may end anywhere; between two runs the operator may edit    *)
(* config.json.  Handlers are whole here, Accounts takes them apart; that  *)
(* an account has been approved is taken for granted.                      *)
(***************************************************************************)
CONSTANTS Paths,          \* database files
          DefaultPath,    \* "vms_server.db"
          Secrets,        \* master secrets
          DefaultSecret,  \* the one in the source
          NoValue,        \* an empty or missing property; no file, no key
          Names,          \* login names
          Admin,          \* "admin"
          MayFail         \* whether calls to sqlite and OpenSSL may fail

ASSUME StartupAssumption ==
  /\ DefaultPath \in Paths /\ DefaultSecret \in Secrets /\ Admin \in Names
  /\ NoValue \notin Paths \cup Secrets
  /\ MayFail \in BOOLEAN

VARIABLES config,    \* the contents of config.json
          tables,    \* the tables of each file
          rows,      \* users, by file and name: the secrets of its columns
          phase,     \* how far the start has got
          want,      \* the arguments of Database::init
          fallback,  \* whether the catch block of ReadJson runs
          failed,    \* whether a call has failed in this start
          opened,    \* Database::db_
          key,       \* Database::key_
          sessions   \* the names that have logged in since

disk   == <<config, tables, rows>>
memory == <<phase, want, fallback, failed, opened, key, sessions>>
vars   == <<disk, memory>>

Config ==
  [state : {"missing", "malformed"}, path : {NoValue}, secret : {NoValue}]
    \cup [state : {"read"}, path : Paths \cup {NoValue},
          secret : Secrets \cup {NoValue}]

(* The encrypted login name and the encrypted user name. *)
Row == [user_id_enc : Secrets, username_enc : Secrets]
NoRow == [user_id_enc |-> NoValue, username_enc |-> NoValue]
Under(secret) == [user_id_enc |-> secret, username_enc |-> secret]

Default == [path |-> DefaultPath, secret |-> DefaultSecret]

(* Mutant: an empty property is passed on. *)
ConfiguredRaw == [path |-> config.path, secret |-> config.secret]

(* The properties, with defaults for those that are empty. *)
Configured ==
  [path   |-> IF config.path = NoValue THEN DefaultPath ELSE config.path,
   secret |-> IF config.secret = NoValue THEN DefaultSecret ELSE config.secret]

TypeOK ==
  /\ config \in Config
  /\ tables \in [Paths -> SUBSET {"users", "rtsp_config"}]
  /\ rows \in [Paths -> [Names -> Row \cup {NoRow}]]
  /\ phase \in {"down", "read", "open", "derive", "users", "rtsp", "count",
                "insert", "serving"}
  /\ want \in [path : Paths, secret : Secrets]
  /\ fallback \in BOOLEAN /\ failed \in BOOLEAN
  /\ opened \in Paths \cup {NoValue}
  /\ key \in Secrets \cup {NoValue}
  /\ sessions \subseteq Names

Init ==
  /\ config \in Config
  /\ tables = [p \in Paths |-> {}]
  /\ rows = [p \in Paths |-> [n \in Names |-> NoRow]]
  /\ phase = "down" /\ want = Default
  /\ fallback = FALSE /\ failed = FALSE
  /\ opened = NoValue /\ key = NoValue /\ sessions = {}

-----------------------------------------------------------------------------
(* The outside. *)

Edit ==
  /\ phase = "down"
  /\ config' \in Config
  /\ UNCHANGED <<tables, rows, memory>>

Start ==
  /\ phase = "down"
  /\ phase' = "read"
  /\ UNCHANGED <<disk, want, fallback, failed, opened, key, sessions>>

(* The process ends and takes its memory with it. *)
Ends ==
  /\ phase' = "down" /\ want' = Default
  /\ fallback' = FALSE /\ failed' = FALSE
  /\ opened' = NoValue /\ key' = NoValue /\ sessions' = {}

Stop == phase # "down" /\ Ends /\ UNCHANGED disk

-----------------------------------------------------------------------------
(* ReadJson and init.  The catch block of ReadJson starts init again with  *)
(* the defaults, whatever was thrown; an exception there leaves main.      *)

(* Mutant: the catch block keeps the secret it has. *)
CatchHalf(cause) ==
  IF fallback
  THEN Ends
  ELSE /\ fallback' = TRUE /\ failed' = cause /\ phase' = "open"
       /\ want' = [want EXCEPT !.path = DefaultPath]
       /\ UNCHANGED <<opened, key, sessions>>

(* Mutant: the defaults are tried again and again. *)
CatchAgain(cause) ==
  /\ fallback' = TRUE /\ failed' = cause /\ phase' = "open"
  /\ want' = Default
  /\ UNCHANGED <<opened, key, sessions>>

Catch(cause) ==
  IF fallback
  THEN Ends
  ELSE /\ fallback' = TRUE /\ failed' = cause /\ phase' = "open"
       /\ want' = Default
       /\ UNCHANGED <<opened, key, sessions>>

(* A call into sqlite or OpenSSL fails. *)
Throws ==
  /\ MayFail /\ phase \notin {"down", "read", "serving"}
  /\ Catch(TRUE)
  /\ UNCHANGED disk

Goes(from, to) == phase = from /\ phase' = to

ReadJson ==
  \/ /\ phase = "read" /\ config.state = "malformed"
     /\ Catch(FALSE) /\ UNCHANGED disk
  \/ /\ config.state # "malformed"
     /\ Goes("read", "open") /\ want' = Configured
     /\ UNCHANGED <<disk, fallback, failed, opened, key, sessions>>

Open ==
  /\ Goes("open", "derive") /\ opened' = want.path
  /\ UNCHANGED <<disk, want, fallback, failed, key, sessions>>

DeriveKey ==
  /\ Goes("derive", "users") /\ key' = want.secret
  /\ UNCHANGED <<disk, want, fallback, failed, opened, sessions>>

(* Mutant: executeQuery does not look at the result. *)
CreateTableUnchecked(from, to, table) ==
  /\ Goes(from, to)
  /\ \/ tables' = [tables EXCEPT ![opened] = @ \cup {table}]
     \/ MayFail /\ UNCHANGED tables
  /\ UNCHANGED <<config, rows, want, fallback, failed, opened, key, sessions>>

CreateTable(from, to, table) ==
  /\ Goes(from, to)
  /\ tables' = [tables EXCEPT ![opened] = @ \cup {table}]
  /\ UNCHANGED <<config, rows, want, fallback, failed, opened, key, sessions>>

-----------------------------------------------------------------------------
(* bootstrapAdmin. *)

Stored(n) == rows[opened][n] # NoRow

(* Mutant: a count of 0 is taken for a row. *)
CountAdminWrongly ==
  /\ Goes("count", IF Stored(Admin) THEN "insert" ELSE "serving")
  /\ UNCHANGED <<disk, want, fallback, failed, opened, key, sessions>>

CountAdmin ==
  /\ Goes("count", IF Stored(Admin) THEN "serving" ELSE "insert")
  /\ UNCHANGED <<disk, want, fallback, failed, opened, key, sessions>>

(* The statement cannot be prepared, or yields no row and leaves 0. *)
CountFails ==
  /\ MayFail
  /\ Goes("count", "serving") \/ Goes("count", "insert")
  /\ failed' = TRUE
  /\ UNCHANGED <<disk, want, fallback, opened, key, sessions>>

(* Mutant: INSERT OR REPLACE. *)
InsertAdminReplacing ==
  /\ Goes("insert", "serving")
  /\ rows' = [rows EXCEPT ![opened][Admin] = Under(key)]
  /\ UNCHANGED <<config, tables, want, fallback, failed, opened, key, sessions>>

(* The primary key refuses a second row, and nobody looks at the result. *)
InsertAdmin ==
  /\ Goes("insert", "serving")
  /\ rows' = [rows EXCEPT ![opened][Admin] = IF @ = NoRow THEN Under(key) ELSE @]
  /\ UNCHANGED <<config, tables, want, fallback, failed, opened, key, sessions>>

InsertFails ==
  /\ MayFail
  /\ Goes("insert", "serving")
  /\ failed' = TRUE
  /\ UNCHANGED <<disk, want, fallback, opened, key, sessions>>

-----------------------------------------------------------------------------
(* What the endpoints do with the encrypted columns. *)

(* registerUser: both columns under the key of this run. *)
Register(n) ==
  /\ phase = "serving" /\ ~Stored(n) /\ "users" \in tables[opened]
  /\ rows' = [rows EXCEPT ![opened][n] = Under(key)]
  /\ UNCHANGED <<config, tables, memory>>

(* Both columns open under the key of this run. *)
Decrypts(n) == rows[opened][n] = Under(key)

(* Mutant: getUser goes on with a column it could not decrypt. *)
LoginUndecrypted(n) ==
  /\ phase = "serving" /\ Stored(n)
  /\ sessions' = sessions \cup {n}
  /\ UNCHANGED <<disk, phase, want, fallback, failed, opened, key>>

(* getUser fails for a row it cannot decrypt. *)
Login(n) ==
  /\ phase = "serving" /\ Decrypts(n)
  /\ sessions' = sessions \cup {n}
  /\ UNCHANGED <<disk, phase, want, fallback, failed, opened, key>>

(* updateUserProfile encrypts one column anew and leaves the other. *)
UpdateProfile(n) ==
  /\ phase = "serving" /\ n \in sessions
  /\ rows' = [rows EXCEPT ![opened][n].username_enc = key]
  /\ UNCHANGED <<config, tables, memory>>

Progress ==
  \/ ReadJson \/ Open \/ DeriveKey
  \/ CreateTable("users", "rtsp", "users")
  \/ CreateTable("rtsp", "count", "rtsp_config")
  \/ CountAdmin \/ CountFails \/ InsertAdmin \/ InsertFails
  \/ Throws

Next ==
  \/ Edit \/ Start \/ Stop \/ Progress
  \/ \E n \in Names : Register(n) \/ Login(n) \/ UpdateProfile(n)

Spec == Init /\ [][Next]_vars

(* The main thread is scheduled. *)
FairSpec == Spec /\ WF_vars(Progress)

-----------------------------------------------------------------------------
(* Properties. *)

Serving == phase = "serving"

(* What is served belongs together, wherever init failed and what it had   *)
(* done by then, in this start or an earlier one: the file and the key are *)
(* both of the configuration or both of the defaults, and the file has     *)
(* both tables.                                                            *)
ServesAPair ==
  Serving =>
    /\ [path |-> opened, secret |-> key] \in {Configured, Default}
    /\ tables[opened] = {"users", "rtsp_config"}

(* A start in which no call fails serves what is configured, and the root  *)
(* account has a row.                                                      *)
ConfiguredUnlessFailed ==
  Serving /\ ~failed =>
    /\ [path |-> opened, secret |-> key] = Configured
    /\ Stored(Admin)

(* The two columns of a row are under one key, although a profile update   *)
(* encrypts only one of them: only an account that could be decrypted has  *)
(* a session.                                                              *)
RowsUnderOneKey ==
  \A p \in Paths, n \in Names :
    rows[p][n].user_id_enc = rows[p][n].username_enc

(* README.md:13: login information is retained.  No start, fallback or     *)
(* change of the secret replaces a row or its key, so that with the        *)
(* configuration it was stored under an account can log in again.          *)
RowKept(p, n) == rows[p][n] # NoRow => rows'[p][n] = rows[p][n]
RowsKept == [][\A p \in Paths, n \in Names : RowKept(p, n)]_vars

(* A start ends, with requests being served or with the process: the       *)
(* defaults are tried once.                                                *)
StartEnds == phase \notin {"down", "serving"} ~> phase \in {"down", "serving"}

(* README.md:5: there is a first administrator, "admin", who can log in    *)
(* (getUser finds the row).                                                *)
RootCanLogIn == Serving => Decrypts(Admin)

(* Wherever calls fail and whatever has been configured meanwhile, the     *)
(* start and the endpoints implement Vault: a row has one key, which       *)
(* stays.  A profile update changes nothing, and a start is the one step   *)
(* in which it begins to serve.                                            *)
Keys == [p \in Paths |-> [n \in Names |-> rows[p][n].user_id_enc]]

Served == IF Serving THEN [path |-> opened, secret |-> key]
                     ELSE [path |-> NoValue, secret |-> NoValue]

Contents == INSTANCE Vault WITH keys <- Keys, served <- Served

ImplementsVault == Contents!Spec
=============================================================================
