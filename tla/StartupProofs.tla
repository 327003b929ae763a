---------------------------- MODULE StartupProofs ----------------------------
(***************************************************************************)
(* Proofs about Startup, for every set of database files, secrets and      *)
(* login names, whether calls may fail or not.                             *)
(***************************************************************************)
EXTENDS Startup, TLAPS

-----------------------------------------------------------------------------
(* The inductive invariant. *)

Opened  == phase \in {"derive", "users", "rtsp", "count", "insert", "serving"}
Derived == phase \in {"users", "rtsp", "count", "insert", "serving"}

(* What init works with, and how far it has got with it. *)
Arguments ==
  /\ phase \notin {"down", "read"} => want = IF fallback THEN Default ELSE Configured
  /\ phase \in {"down", "read"} => ~fallback
  /\ fallback /\ ~failed => config.state = "malformed"
  /\ Opened => opened = want.path
  /\ Derived => key = want.secret

Tables ==
  /\ phase \in {"rtsp", "count", "insert", "serving"} => "users" \in tables[opened]
  /\ phase \in {"count", "insert", "serving"} => "rtsp_config" \in tables[opened]

RootStored == Serving /\ ~failed => Stored(Admin)

(* Only a row under the key of this run has a session. *)
SessionInv ==
  /\ sessions # {} => Serving
  /\ \A n \in sessions : Decrypts(n)

IInv ==
  /\ TypeOK
  /\ Arguments
  /\ Tables
  /\ RootStored
  /\ SessionInv
  /\ RowsUnderOneKey

-----------------------------------------------------------------------------
(* Configurations and rows. *)

(* A malformed file configures what the catch block uses. *)
LEMMA Configurations ==
  ASSUME config \in Config
  PROVE  /\ Default \in [path : Paths, secret : Secrets]
         /\ Configured \in [path : Paths, secret : Secrets]
         /\ config.state = "malformed" => Configured = Default
<1>1. /\ config.path \in Paths \cup {NoValue}
      /\ config.secret \in Secrets \cup {NoValue}
      /\ config.state = "malformed" =>
           config.path = NoValue /\ config.secret = NoValue
  BY DEF Config
<1> QED BY <1>1, StartupAssumption DEF Default, Configured

(* A row has two columns; no row is none under a key. *)
LEMMA Rows ==
  /\ \A k \in Secrets : Under(k) \in Row /\ Under(k) # NoRow
  /\ \A r \in Row \cup {NoRow}, k \in Secrets :
       /\ [r EXCEPT !.username_enc = k].user_id_enc = r.user_id_enc
       /\ r = Under(k) => [r EXCEPT !.username_enc = k] = r
BY StartupAssumption DEF Under, Row, NoRow

(* The file and the key of a process that has come so far. *)
LEMMA Values ==
  ASSUME IInv
  PROVE  /\ Opened => opened \in Paths
         /\ Derived => key \in Secrets
BY DEF IInv, TypeOK, Arguments, Opened, Derived

-----------------------------------------------------------------------------
(* Initial states and steps. *)

(* The state before the first start. *)
LEMMA InitEstablishes == Init => IInv
<1> SUFFICES ASSUME Init PROVE IInv
  OBVIOUS
<1>1. TypeOK
  BY StartupAssumption DEF Init, TypeOK, Default
<1>2. Arguments /\ Tables /\ RootStored /\ SessionInv
  BY DEF Init, Arguments, Opened, Derived, Tables, RootStored, Serving, SessionInv
<1>3. RowsUnderOneKey
  BY DEF Init, RowsUnderOneKey, NoRow
<1> QED BY <1>1, <1>2, <1>3 DEF IInv

(* The process, and its memory, may end anywhere. *)
LEMMA EndPreserves ==
  ASSUME IInv, Ends, UNCHANGED disk
  PROVE  IInv'
<1> USE DEF Ends, disk, IInv
<1>1. TypeOK'
  BY StartupAssumption DEF TypeOK, Default
<1>2. Arguments' /\ Tables' /\ RootStored' /\ SessionInv'
  BY DEF Arguments, Opened, Derived, Tables, RootStored, Serving, SessionInv
<1>3. RowsUnderOneKey'
  BY DEF RowsUnderOneKey
<1> QED BY <1>1, <1>2, <1>3

(* A start that goes back to the defaults. *)
LEMMA CatchPreserves ==
  ASSUME IInv, NEW cause \in BOOLEAN, Catch(cause), UNCHANGED disk,
         phase \notin {"down", "serving"},
         cause \/ config.state = "malformed"
  PROVE  IInv'
<1>1. CASE fallback
  BY <1>1, EndPreserves DEF Catch
<1>2. CASE ~fallback
  <2> USE <1>2 DEF Catch, disk, IInv
  <2>1. TypeOK'
    BY StartupAssumption DEF TypeOK, Default
  <2>2. Arguments' /\ Tables' /\ RootStored'
    BY DEF Arguments, Opened, Derived, Tables, RootStored, Serving, Default
  <2>3. SessionInv'
    BY DEF SessionInv, Serving
  <2>4. RowsUnderOneKey'
    BY DEF RowsUnderOneKey
  <2> QED BY <2>1, <2>2, <2>3, <2>4
<1> QED BY <1>1, <1>2

(* The configuration of a process that is down is nobody's yet. *)
LEMMA EditPreserves ==
  ASSUME IInv, Edit
  PROVE  IInv'
<1> USE StartupAssumption, Configurations, Values DEF Edit, disk, memory, IInv
<1>1. TypeOK'
  BY DEF TypeOK, Default, Configured
<1>2. Arguments'
  BY DEF TypeOK, Arguments, Opened, Derived, Default, Configured
<1>3. Tables'
  BY DEF TypeOK, Tables, Opened, Derived
<1>4. RootStored'
  BY DEF TypeOK, RootStored, Serving, Stored, Opened
<1>5. SessionInv'
  BY DEF TypeOK, SessionInv, Serving, Decrypts
<1>6. RowsUnderOneKey'
  BY DEF TypeOK, RowsUnderOneKey
<1> QED BY <1>1, <1>2, <1>3, <1>4, <1>5, <1>6

(* Nothing is known of the configuration yet. *)
LEMMA StartPreserves ==
  ASSUME IInv, Start
  PROVE  IInv'
<1> USE StartupAssumption, Configurations, Values DEF Start, disk, IInv
<1>1. TypeOK'
  BY DEF TypeOK, Default, Configured
<1>2. Arguments'
  BY DEF TypeOK, Arguments, Opened, Derived, Default, Configured
<1>3. Tables'
  BY DEF TypeOK, Tables, Opened, Derived
<1>4. RootStored'
  BY DEF TypeOK, RootStored, Serving, Stored, Opened
<1>5. SessionInv'
  BY DEF TypeOK, SessionInv, Serving, Decrypts
<1>6. RowsUnderOneKey'
  BY DEF TypeOK, RowsUnderOneKey
<1> QED BY <1>1, <1>2, <1>3, <1>4, <1>5, <1>6

(* The configuration was read. *)
LEMMA ReadPreserves ==
  ASSUME IInv, config.state # "malformed", Goes("read", "open"), want' = Configured,
         UNCHANGED <<disk, fallback, failed, opened, key, sessions>>
  PROVE  IInv'
<1> USE StartupAssumption, Configurations, Values DEF Goes, disk, IInv
<1>1. TypeOK'
  BY DEF TypeOK, Default, Configured
<1>2. Arguments'
  BY DEF TypeOK, Arguments, Opened, Derived, Default, Configured
<1>3. Tables'
  BY DEF TypeOK, Tables, Opened, Derived
<1>4. RootStored'
  BY DEF TypeOK, RootStored, Serving, Stored, Opened
<1>5. SessionInv'
  BY DEF TypeOK, SessionInv, Serving, Decrypts
<1>6. RowsUnderOneKey'
  BY DEF TypeOK, RowsUnderOneKey
<1> QED BY <1>1, <1>2, <1>3, <1>4, <1>5, <1>6

(* db_ is the file that init was given. *)
LEMMA OpenPreserves ==
  ASSUME IInv, Open
  PROVE  IInv'
<1> USE StartupAssumption, Configurations, Values DEF Open, Goes, disk, IInv
<1>1. TypeOK'
  BY DEF TypeOK, Default, Configured
<1>2. Arguments'
  BY DEF TypeOK, Arguments, Opened, Derived, Default, Configured
<1>3. Tables'
  BY DEF TypeOK, Tables, Opened, Derived
<1>4. RootStored'
  BY DEF TypeOK, RootStored, Serving, Stored, Opened
<1>5. SessionInv'
  BY DEF TypeOK, SessionInv, Serving, Decrypts
<1>6. RowsUnderOneKey'
  BY DEF TypeOK, RowsUnderOneKey
<1> QED BY <1>1, <1>2, <1>3, <1>4, <1>5, <1>6

(* key_ is of the secret that init was given. *)
LEMMA DeriveKeyPreserves ==
  ASSUME IInv, DeriveKey
  PROVE  IInv'
<1> USE StartupAssumption, Configurations, Values DEF DeriveKey, Goes, disk, IInv
<1>1. TypeOK'
  BY DEF TypeOK, Default, Configured
<1>2. Arguments'
  BY DEF TypeOK, Arguments, Opened, Derived, Default, Configured
<1>3. Tables'
  BY DEF TypeOK, Tables, Opened, Derived
<1>4. RootStored'
  BY DEF TypeOK, RootStored, Serving, Stored, Opened
<1>5. SessionInv'
  BY DEF TypeOK, SessionInv, Serving, Decrypts
<1>6. RowsUnderOneKey'
  BY DEF TypeOK, RowsUnderOneKey
<1> QED BY <1>1, <1>2, <1>3, <1>4, <1>5, <1>6

(* The first table. *)
LEMMA UsersPreserves ==
  ASSUME IInv, CreateTable("users", "rtsp", "users")
  PROVE  IInv'
<1> USE StartupAssumption, Configurations, Values DEF CreateTable, Goes, IInv
<1>1. TypeOK'
  BY DEF TypeOK, Default, Configured
<1>2. Arguments'
  BY DEF TypeOK, Arguments, Opened, Derived, Default, Configured
<1>3. Tables'
  BY DEF TypeOK, Tables, Opened, Derived
<1>4. RootStored'
  BY DEF TypeOK, RootStored, Serving, Stored, Opened
<1>5. SessionInv'
  BY DEF TypeOK, SessionInv, Serving, Decrypts
<1>6. RowsUnderOneKey'
  BY DEF TypeOK, RowsUnderOneKey
<1> QED BY <1>1, <1>2, <1>3, <1>4, <1>5, <1>6

(* The second table. *)
LEMMA RtspConfigPreserves ==
  ASSUME IInv, CreateTable("rtsp", "count", "rtsp_config")
  PROVE  IInv'
<1> USE StartupAssumption, Configurations, Values DEF CreateTable, Goes, IInv
<1>1. TypeOK'
  BY DEF TypeOK, Default, Configured
<1>2. Arguments'
  BY DEF TypeOK, Arguments, Opened, Derived, Default, Configured
<1>3. Tables'
  BY DEF TypeOK, Tables, Opened, Derived
<1>4. RootStored'
  BY DEF TypeOK, RootStored, Serving, Stored, Opened
<1>5. SessionInv'
  BY DEF TypeOK, SessionInv, Serving, Decrypts
<1>6. RowsUnderOneKey'
  BY DEF TypeOK, RowsUnderOneKey
<1> QED BY <1>1, <1>2, <1>3, <1>4, <1>5, <1>6

(* Without a failure, the process serves only with the row. *)
LEMMA CountAdminPreserves ==
  ASSUME IInv, CountAdmin
  PROVE  IInv'
<1> USE StartupAssumption, Configurations, Values DEF CountAdmin, Goes, disk, IInv
<1>1. TypeOK'
  BY DEF TypeOK, Default, Configured
<1>2. Arguments'
  BY DEF TypeOK, Arguments, Opened, Derived, Default, Configured
<1>3. Tables'
  BY DEF TypeOK, Tables, Opened, Derived
<1>4. RootStored'
  BY DEF TypeOK, RootStored, Serving, Stored, Opened
<1>5. SessionInv'
  BY DEF TypeOK, SessionInv, Serving, Decrypts
<1>6. RowsUnderOneKey'
  BY DEF TypeOK, RowsUnderOneKey
<1> QED BY <1>1, <1>2, <1>3, <1>4, <1>5, <1>6

(* The failure is remembered. *)
LEMMA CountFailsPreserves ==
  ASSUME IInv, CountFails
  PROVE  IInv'
<1> USE StartupAssumption, Configurations, Values DEF CountFails, Goes, disk, IInv
<1>1. TypeOK'
  BY DEF TypeOK, Default, Configured
<1>2. Arguments'
  BY DEF TypeOK, Arguments, Opened, Derived, Default, Configured
<1>3. Tables'
  BY DEF TypeOK, Tables, Opened, Derived
<1>4. RootStored'
  BY DEF TypeOK, RootStored, Serving, Stored, Opened
<1>5. SessionInv'
  BY DEF TypeOK, SessionInv, Serving, Decrypts
<1>6. RowsUnderOneKey'
  BY DEF TypeOK, RowsUnderOneKey
<1> QED BY <1>1, <1>2, <1>3, <1>4, <1>5, <1>6

(* The failure is remembered. *)
LEMMA InsertFailsPreserves ==
  ASSUME IInv, InsertFails
  PROVE  IInv'
<1> USE StartupAssumption, Configurations, Values DEF InsertFails, Goes, disk, IInv
<1>1. TypeOK'
  BY DEF TypeOK, Default, Configured
<1>2. Arguments'
  BY DEF TypeOK, Arguments, Opened, Derived, Default, Configured
<1>3. Tables'
  BY DEF TypeOK, Tables, Opened, Derived
<1>4. RootStored'
  BY DEF TypeOK, RootStored, Serving, Stored, Opened
<1>5. SessionInv'
  BY DEF TypeOK, SessionInv, Serving, Decrypts
<1>6. RowsUnderOneKey'
  BY DEF TypeOK, RowsUnderOneKey
<1> QED BY <1>1, <1>2, <1>3, <1>4, <1>5, <1>6

(* The row of the root account is there, whoever stored it. *)
LEMMA InsertAdminPreserves ==
  ASSUME IInv, InsertAdmin
  PROVE  IInv'
<1>a. /\ opened \in Paths /\ key \in Secrets /\ Admin \in Names
  BY StartupAssumption, Values DEF InsertAdmin, Opened, Derived, Goes
<1>b. \A p \in Paths, m \in Names :
        rows'[p][m] = IF p = opened /\ m = Admin /\ rows[p][m] = NoRow
                      THEN Under(key) ELSE rows[p][m]
  BY <1>a DEF IInv, TypeOK, InsertAdmin, Stored
<1>c. rows' \in [Paths -> [Names -> Row \cup {NoRow}]]
  BY <1>a, Rows DEF IInv, TypeOK, InsertAdmin
<1> USE StartupAssumption, Configurations, Values DEF InsertAdmin, Goes, IInv
<1>1. TypeOK'
  BY <1>c DEF TypeOK
<1>2. Arguments'
  BY DEF TypeOK, Arguments, Opened, Derived, Default, Configured
<1>3. Tables'
  BY DEF TypeOK, Tables, Opened, Derived
<1>4. RootStored'
  BY <1>a, <1>b, Rows, StartupAssumption
     DEF TypeOK, RootStored, Serving, Stored, Opened
<1>5. SessionInv'
  BY <1>a, <1>b, Rows DEF TypeOK, SessionInv, Serving, Decrypts
<1>6. RowsUnderOneKey'
  BY <1>b DEF RowsUnderOneKey, Under
<1> QED BY <1>1, <1>2, <1>3, <1>4, <1>5, <1>6

(* Both columns of a new row are under the key of this run. *)
LEMMA RegisterPreserves ==
  ASSUME IInv, NEW n \in Names, Register(n)
  PROVE  IInv'
<1>a. /\ opened \in Paths /\ key \in Secrets /\ n \in Names
  BY StartupAssumption, Values DEF Register, Opened, Derived, Goes
<1>b. \A p \in Paths, m \in Names :
        rows'[p][m] = IF p = opened /\ m = n /\ rows[p][m] = NoRow
                      THEN Under(key) ELSE rows[p][m]
  BY <1>a DEF IInv, TypeOK, Register, Stored
<1>c. rows' \in [Paths -> [Names -> Row \cup {NoRow}]]
  BY <1>a, Rows DEF IInv, TypeOK, Register
<1> USE StartupAssumption, Configurations, Values DEF Register, memory, IInv
<1>1. TypeOK'
  BY <1>c DEF TypeOK
<1>2. Arguments'
  BY DEF TypeOK, Arguments, Opened, Derived, Default, Configured
<1>3. Tables'
  BY DEF TypeOK, Tables, Opened, Derived
<1>4. RootStored'
  BY <1>a, <1>b, Rows, StartupAssumption
     DEF TypeOK, RootStored, Serving, Stored, Opened
<1>5. SessionInv'
  BY <1>a, <1>b, Rows DEF TypeOK, SessionInv, Serving, Decrypts
<1>6. RowsUnderOneKey'
  BY <1>b DEF RowsUnderOneKey, Under
<1> QED BY <1>1, <1>2, <1>3, <1>4, <1>5, <1>6

(* Only a row that could be decrypted gets a session. *)
LEMMA LoginPreserves ==
  ASSUME IInv, NEW n \in Names, Login(n)
  PROVE  IInv'
<1> USE StartupAssumption, Configurations, Values DEF Login, disk, IInv
<1>1. TypeOK'
  BY DEF TypeOK, Default, Configured
<1>2. Arguments'
  BY DEF TypeOK, Arguments, Opened, Derived, Default, Configured
<1>3. Tables'
  BY DEF TypeOK, Tables, Opened, Derived
<1>4. RootStored'
  BY DEF TypeOK, RootStored, Serving, Stored, Opened
<1>5. SessionInv'
  BY DEF TypeOK, SessionInv, Serving, Decrypts
<1>6. RowsUnderOneKey'
  BY DEF TypeOK, RowsUnderOneKey
<1> QED BY <1>1, <1>2, <1>3, <1>4, <1>5, <1>6

(* A step that changes nothing. *)
LEMMA StutterPreserves ==
  ASSUME IInv, UNCHANGED vars
  PROVE  IInv'
<1> USE DEF vars, disk, memory, IInv
<1>1. TypeOK' /\ RowsUnderOneKey'
  BY DEF TypeOK, RowsUnderOneKey
<1>2. Arguments' /\ Tables' /\ RootStored' /\ SessionInv'
  BY DEF Arguments, Opened, Derived, Configured, Tables, RootStored, Serving,
         Stored, SessionInv, Decrypts
<1> QED BY <1>1, <1>2

(* A profile update writes a column under the key it was under: whoever    *)
(* has a session has a row under this key.                                 *)
LEMMA UpdateKeepsRows ==
  ASSUME IInv, NEW n \in Names, UpdateProfile(n)
  PROVE  UNCHANGED rows
<1>1. rows[opened][n] = Under(key) /\ opened \in Paths /\ key \in Secrets
  BY Values DEF IInv, SessionInv, Decrypts, Serving, UpdateProfile, Opened, Derived
<1>2. rows[opened][n] \in Row
  BY <1>1, Rows
<1>3. [rows[opened][n] EXCEPT !.username_enc = key] = rows[opened][n]
  BY <1>1, <1>2, Rows
<1> QED BY <1>1, <1>3 DEF UpdateProfile, IInv, TypeOK

(* Seen from the keys, a profile update does nothing. *)
LEMMA UpdateProfilePreserves ==
  ASSUME IInv, NEW n \in Names, UpdateProfile(n)
  PROVE  IInv'
<1>1. UNCHANGED vars
  BY UpdateKeepsRows DEF UpdateProfile, vars, disk
<1> QED BY <1>1, StutterPreserves

(* Every step of a start. *)
LEMMA ProgressPreserves ==
  ASSUME IInv, Progress
  PROVE  IInv'
<1>1. CASE Throws
  BY <1>1, CatchPreserves DEF Throws
<1>2. CASE ReadJson
  <2>1. CASE /\ phase = "read" /\ config.state = "malformed"
             /\ Catch(FALSE) /\ UNCHANGED disk
    BY <2>1, CatchPreserves
  <2>2. CASE /\ config.state # "malformed"
             /\ Goes("read", "open") /\ want' = Configured
             /\ UNCHANGED <<disk, fallback, failed, opened, key, sessions>>
    BY <2>2, ReadPreserves
  <2> QED BY <1>2, <2>1, <2>2 DEF ReadJson
<1> QED BY <1>1, <1>2, OpenPreserves, DeriveKeyPreserves, UsersPreserves,
           RtspConfigPreserves, CountAdminPreserves, CountFailsPreserves,
           InsertAdminPreserves, InsertFailsPreserves
        DEF Progress

(* Every step. *)
LEMMA StepsPreserve ==
  ASSUME IInv, [Next]_vars
  PROVE  IInv'
<1>1. CASE Stop
  BY <1>1, EndPreserves DEF Stop
<1> QED BY <1>1, EditPreserves, StartPreserves, ProgressPreserves,
           RegisterPreserves, LoginPreserves, UpdateProfilePreserves,
           StutterPreserves
        DEF Next

(* Every reachable state. *)
THEOREM Invariance == Spec => []IInv
<1> QED BY InitEstablishes, StepsPreserve, PTL DEF Spec

-----------------------------------------------------------------------------
(* The properties. *)

(* The configuration, the tables and the rows keep their types.            *)
THEOREM TypeCorrect == Spec => []TypeOK
<1>1. IInv => TypeOK
  BY DEF IInv
<1> QED BY <1>1, Invariance, PTL

(* The process never serves the file of one configuration with the key of  *)
(* the other, nor a file without its tables, wherever init failed.         *)
THEOREM StartServesAPair == Spec => []ServesAPair
<1>1. IInv => ServesAPair
  <2> SUFFICES ASSUME IInv, Serving
               PROVE  /\ [path |-> opened, secret |-> key] \in {Configured, Default}
                      /\ tables[opened] = {"users", "rtsp_config"}
    BY DEF ServesAPair
  <2>1. [path |-> opened, secret |-> key] \in {Configured, Default}
    BY DEF IInv, Serving, Arguments, Opened, Derived, TypeOK
  <2>2. opened \in Paths
    BY Values DEF Serving, Opened
  <2>3. tables[opened] \subseteq {"users", "rtsp_config"}
    BY <2>2 DEF IInv, TypeOK
  <2> QED BY <2>1, <2>3 DEF IInv, Tables, Serving
<1> QED BY <1>1, Invariance, PTL

(* A start in which nothing failed serves the file and the key that are    *)
(* configured, with a row for the root account.                            *)
THEOREM FailureIsTheOnlyExcuse == Spec => []ConfiguredUnlessFailed
<1>1. IInv => ConfiguredUnlessFailed
  <2> SUFFICES ASSUME IInv, Serving, ~failed
               PROVE  /\ [path |-> opened, secret |-> key] = Configured
                      /\ Stored(Admin)
    BY DEF ConfiguredUnlessFailed
  <2>1. want = Configured
    BY Configurations DEF IInv, TypeOK, Arguments, Serving
  <2>2. [path |-> opened, secret |-> key] = want
    BY DEF IInv, TypeOK, Arguments, Serving, Opened, Derived
  <2> QED BY <2>1, <2>2 DEF IInv, RootStored
<1> QED BY <1>1, Invariance, PTL

(* The columns of a row are never under different keys.                    *)
THEOREM ColumnsShareAKey == Spec => []RowsUnderOneKey
<1>1. IInv => RowsUnderOneKey
  BY DEF IInv
<1> QED BY <1>1, Invariance, PTL

(* No start, fallback or change of the secret touches a stored row.        *)
THEOREM StoredRowsStay == Spec => RowsKept
<1>1. ASSUME IInv, [Next]_vars, NEW p \in Paths, NEW n \in Names
      PROVE  RowKept(p, n)
  <2>1. CASE UNCHANGED rows
    BY <2>1 DEF RowKept
  <2>2. CASE InsertAdmin
    BY <1>1, <2>2, StartupAssumption DEF RowKept, InsertAdmin, IInv, TypeOK
  <2>3. ASSUME NEW m \in Names, Register(m) PROVE RowKept(p, n)
    BY <1>1, <2>3 DEF RowKept, Register, Stored, IInv, TypeOK
  <2>4. ASSUME NEW m \in Names, UpdateProfile(m) PROVE RowKept(p, n)
    BY <1>1, <2>1, <2>4, UpdateKeepsRows
  <2>5. CASE Progress /\ ~InsertAdmin
    <3>1. UNCHANGED rows
      BY <2>5 DEF Progress, ReadJson, Open, DeriveKey, CreateTable, CountAdmin,
                  CountFails, InsertFails, Throws, disk
    <3> QED BY <2>1, <3>1
  <2>6. CASE Edit \/ Start \/ Stop \/ UNCHANGED vars \/ \E m \in Names : Login(m)
    <3>1. UNCHANGED rows
      BY <2>6 DEF Edit, Start, Stop, Login, disk, vars
    <3> QED BY <2>1, <3>1
  <2> QED BY <1>1, <2>2, <2>3, <2>4, <2>5, <2>6 DEF Next
<1>2. IInv /\ [Next]_vars => \A p \in Paths, n \in Names : RowKept(p, n)
  BY <1>1
<1> QED BY <1>2, Invariance, PTL DEF Spec, RowsKept

-----------------------------------------------------------------------------
(* The start and the endpoints implement Vault.  Since the columns of a    *)
(* row share a key, its first column tells all there is to know of it.     *)

(* Between two starts, and during one, nobody is served and nobody has a   *)
(* session.                                                                *)
LEMMA ServiceOf ==
  ASSUME IInv
  PROVE  /\ ~Serving => Served = Contents!NoService /\ sessions = {}
         /\ Serving => /\ Served = [path |-> opened, secret |-> key]
                       /\ Served.path = opened /\ Served.secret = key
                       /\ Served # Contents!NoService
                       /\ opened \in Paths /\ key \in Secrets
                       /\ Served \in {Contents!Configured, Contents!Default}
<1>1. ~Serving => Served = Contents!NoService /\ sessions = {}
  BY DEF IInv, SessionInv, Served, Contents!NoService
<1>2. ASSUME Serving
      PROVE  /\ Served = [path |-> opened, secret |-> key]
             /\ Served.path = opened /\ Served.secret = key
             /\ Served # Contents!NoService
             /\ opened \in Paths /\ key \in Secrets
             /\ Served \in {Contents!Configured, Contents!Default}
  <2>1. opened \in Paths /\ key \in Secrets
    BY <1>2, Values DEF Serving, Opened, Derived
  <2>2. Served = [path |-> opened, secret |-> key]
    BY <1>2 DEF Served
  <2>3. Served # Contents!NoService
    BY <2>1, <2>2, StartupAssumption DEF Contents!NoService
  <2>4. [path |-> opened, secret |-> key] \in {Configured, Default}
    BY <1>2 DEF IInv, Serving, Arguments, Opened, Derived, TypeOK
  <2>5. Configured = Contents!Configured /\ Default = Contents!Default
    BY DEF Configured, Default, Contents!Configured, Contents!Default
  <2> QED BY <2>1, <2>2, <2>3, <2>4, <2>5
<1> QED BY <1>1, <1>2

(* The keys the mapping shows are those of the rows.                       *)
LEMMA KeysOf ==
  ASSUME IInv
  PROVE  /\ Keys \in [Paths -> [Names -> Secrets \cup {NoValue}]]
         /\ \A p \in Paths, n \in Names :
              /\ Keys[p][n] = rows[p][n].user_id_enc
              /\ Keys[p][n] = NoValue <=> rows[p][n] = NoRow
              /\ \A k \in Secrets : Keys[p][n] = k <=> rows[p][n] = Under(k)
<1>1. ASSUME NEW p \in Paths, NEW n \in Names
      PROVE  /\ rows[p][n] \in Row \cup {NoRow}
             /\ rows[p][n].user_id_enc = rows[p][n].username_enc
             /\ Keys[p][n] = rows[p][n].user_id_enc
  BY DEF IInv, TypeOK, RowsUnderOneKey, Keys
<1>2. ASSUME NEW r \in Row \cup {NoRow}, r.user_id_enc = r.username_enc
      PROVE  /\ r.user_id_enc \in Secrets \cup {NoValue}
             /\ r.user_id_enc = NoValue <=> r = NoRow
             /\ \A k \in Secrets : r.user_id_enc = k <=> r = Under(k)
  BY <1>2, StartupAssumption DEF Row, NoRow, Under
<1>3. \A p \in Paths, n \in Names :
        /\ Keys[p][n] = rows[p][n].user_id_enc
        /\ rows[p][n].user_id_enc \in Secrets \cup {NoValue}
        /\ Keys[p][n] = NoValue <=> rows[p][n] = NoRow
        /\ \A k \in Secrets : Keys[p][n] = k <=> rows[p][n] = Under(k)
  BY <1>1, <1>2
<1> QED BY <1>3 DEF Keys

(* A step that touches no row and serves nobody anew does nothing to the   *)
(* mapping.                                                                *)
LEMMA MappingStays ==
  ASSUME UNCHANGED rows
  PROVE  UNCHANGED Keys
BY DEF Keys

(* A row stored under the key of this run.                                 *)
LEMMA RowPut ==
  ASSUME IInv, NEW n \in Names, opened \in Paths, key \in Secrets,
         rows[opened][n] = NoRow,
         rows' = [rows EXCEPT ![opened][n] = Under(key)]
  PROVE  /\ Keys[opened][n] = NoValue
         /\ Keys' = [Keys EXCEPT ![opened][n] = key]
<1>1. \A p \in Paths, m \in Names :
        rows'[p][m] = IF p = opened /\ m = n THEN Under(key) ELSE rows[p][m]
  BY DEF IInv, TypeOK
<1>2. \A p \in Paths, m \in Names :
        rows'[p][m].user_id_enc
          = IF p = opened /\ m = n THEN key ELSE rows[p][m].user_id_enc
  BY <1>1 DEF Under
<1>3. Keys' = [p \in Paths |-> [m \in Names |->
                 IF p = opened /\ m = n THEN key ELSE Keys[p][m]]]
  BY <1>2 DEF Keys
<1>4. Keys \in [Paths -> [Names -> Secrets \cup {NoValue}]]
  BY KeysOf
<1>5. [Keys EXCEPT ![opened][n] = key]
        = [p \in Paths |-> [m \in Names |->
             IF p = opened /\ m = n THEN key ELSE Keys[p][m]]]
  BY <1>4
<1>6. Keys[opened][n] = NoValue
  BY KeysOf
<1> QED BY <1>3, <1>5, <1>6

(* Nothing stored, nobody served. *)
LEMMA InitContents == Init => Contents!Init
BY DEF Init, Contents!Init, Config, Contents!Config, Keys, NoRow, Served, Serving,
       Contents!NoService

(* A step within a start, or that ends the process. *)
LEMMA QuietSteps ==
  ASSUME IInv, IInv', UNCHANGED <<config, rows>>, ~Serving'
  PROVE  [Contents!Next]_(Contents!vault)
<1>1. Served' = Contents!NoService /\ sessions' = {}
  BY DEF IInv, SessionInv, Served, Contents!NoService, Serving
<1>2. UNCHANGED Keys
  BY MappingStays
<1>3. Contents!End
  BY <1>1, <1>2 DEF Contents!End
<1> QED BY <1>3 DEF Contents!Next

(* The step in which a start ends and requests are served.                 *)
LEMMA ServingBegins ==
  ASSUME IInv, IInv', ~Serving, Serving',
         UNCHANGED <<config, opened, key, sessions>>,
         \/ UNCHANGED rows
         \/ /\ rows[opened][Admin] = NoRow
            /\ rows' = [rows EXCEPT ![opened][Admin] = Under(key)]
  PROVE  [Contents!Next]_(Contents!vault)
<1>1. Served = Contents!NoService
  BY ServiceOf
<1>2. /\ Serving' => /\ Served' = [path |-> opened', secret |-> key']
                     /\ opened' \in Paths /\ key' \in Secrets
                     /\ Served' \in {Contents!Configured', Contents!Default}
  <2>1. opened' \in Paths /\ key' \in Secrets
    BY DEF IInv, TypeOK, Arguments, Serving, Opened, Derived
  <2>2. Served' = [path |-> opened', secret |-> key']
    BY DEF Served
  <2>3. [path |-> opened', secret |-> key'] \in {Configured', Default}
    BY DEF IInv, Serving, Arguments, Opened, Derived, TypeOK, Default
  <2>4. Configured' = Contents!Configured' /\ Default = Contents!Default
    BY DEF Configured, Default, Contents!Configured, Contents!Default
  <2> QED BY <2>1, <2>2, <2>3, <2>4
<1>3. Contents!Configured' = Contents!Configured
  BY DEF Contents!Configured
<1>4. PICK service \in {Contents!Configured, Contents!Default} :
         service = Served'
  BY <1>2, <1>3
<1>5. service.path = opened /\ service.secret = key
  BY <1>2, <1>4
<1>6. Contents!Put(service, Admin) \/ UNCHANGED Keys
  <2>1. CASE UNCHANGED rows
    BY <2>1, MappingStays
  <2>2. CASE /\ rows[opened][Admin] = NoRow
             /\ rows' = [rows EXCEPT ![opened][Admin] = Under(key)]
    <3>1. /\ Keys[opened][Admin] = NoValue
          /\ Keys' = [Keys EXCEPT ![opened][Admin] = key]
      BY <1>2, <2>2, RowPut, StartupAssumption
    <3> QED BY <1>5, <3>1 DEF Contents!Put
  <2> QED BY <2>1, <2>2
<1>7. Contents!Serve(service)
  BY <1>1, <1>4, <1>6 DEF Contents!Serve
<1> QED BY <1>7 DEF Contents!Next

(* Every step of the process is one of Vault, or none.                     *)
LEMMA ContentsStep ==
  ASSUME IInv, IInv', [Next]_vars
  PROVE  [Contents!Next]_(Contents!vault)
<1>1. CASE Edit
  <2>1. ~Serving /\ Served' = Served /\ config' \in Contents!Config
        /\ UNCHANGED <<rows, sessions>>
    BY <1>1 DEF Edit, Serving, Served, Config, Contents!Config, memory
  <2>2. Contents!Edit
    BY <2>1, ServiceOf, MappingStays DEF Contents!Edit
  <2> QED BY <2>2 DEF Contents!Next
<1>2. CASE Start \/ Stop
  <2>1. UNCHANGED <<config, rows>> /\ ~Serving'
    BY <1>2 DEF Start, Stop, Ends, disk, Serving
  <2> QED BY <2>1, QuietSteps
<1>3. CASE ReadJson \/ Open \/ DeriveKey \/ Throws
  <2>1. UNCHANGED <<config, rows>> /\ ~Serving'
    BY <1>3 DEF ReadJson, Open, DeriveKey, Throws, Catch, Ends, Goes, disk, Serving
  <2> QED BY <2>1, QuietSteps
<1>4. CASE \/ CreateTable("users", "rtsp", "users")
           \/ CreateTable("rtsp", "count", "rtsp_config")
  <2>1. UNCHANGED <<config, rows>> /\ ~Serving'
    BY <1>4 DEF CreateTable, Goes, Serving
  <2> QED BY <2>1, QuietSteps
<1>5. CASE CountAdmin \/ CountFails
  <2>1. UNCHANGED <<config, rows, opened, key, sessions>> /\ ~Serving
    BY <1>5 DEF CountAdmin, CountFails, Goes, disk, Serving
  <2> QED BY <2>1, QuietSteps, ServingBegins
<1>6. CASE InsertAdmin \/ InsertFails
  <2>1. UNCHANGED <<config, opened, key, sessions>> /\ ~Serving /\ Serving'
    BY <1>6 DEF InsertAdmin, InsertFails, Goes, disk, Serving
  <2>2. opened \in Paths
    BY <1>6, Values DEF InsertAdmin, InsertFails, Goes, Opened
  <2>3. \/ UNCHANGED rows
        \/ /\ rows[opened][Admin] = NoRow
           /\ rows' = [rows EXCEPT ![opened][Admin] = Under(key)]
    BY <1>6, <2>2, StartupAssumption DEF InsertAdmin, InsertFails, disk, IInv, TypeOK
  <2> QED BY <2>1, <2>3, ServingBegins
<1>7. ASSUME NEW n \in Names, Register(n) PROVE Contents!Register(n)
  <2>1. /\ Serving /\ rows[opened][n] = NoRow
        /\ rows' = [rows EXCEPT ![opened][n] = Under(key)]
        /\ UNCHANGED <<config, sessions, Served>>
    BY <1>7 DEF Register, Stored, Serving, Served, memory
  <2>2. /\ Keys[opened][n] = NoValue
        /\ Keys' = [Keys EXCEPT ![opened][n] = key]
    BY <2>1, ServiceOf, RowPut
  <2>3. Served # Contents!NoService /\ Served.path = opened /\ Served.secret = key
    BY <2>1, ServiceOf
  <2> QED BY <2>1, <2>2, <2>3 DEF Contents!Register, Contents!Put
<1>8. ASSUME NEW n \in Names, Login(n) PROVE Contents!Login(n)
  <2>1. /\ Serving /\ rows[opened][n] = Under(key)
        /\ sessions' = sessions \cup {n}
        /\ UNCHANGED <<config, rows, Served>>
    BY <1>8 DEF Login, Decrypts, Serving, Served, disk
  <2>2. Served # Contents!NoService /\ Keys[Served.path][n] = Served.secret
    BY <2>1, ServiceOf, KeysOf
  <2> QED BY <2>1, <2>2, MappingStays DEF Contents!Login
<1>9. ASSUME NEW n \in Names, UpdateProfile(n) PROVE UNCHANGED Contents!vault
  <2>1. UNCHANGED <<config, rows, sessions, Served>>
    BY <1>9, UpdateKeepsRows DEF UpdateProfile, memory, Served, Serving
  <2> QED BY <2>1, MappingStays DEF Contents!vault
<1>10. CASE UNCHANGED vars
  <2>1. UNCHANGED <<config, rows, sessions, Served>>
    BY <1>10 DEF vars, disk, memory, Served, Serving
  <2> QED BY <2>1, MappingStays DEF Contents!vault
<1>11. CASE Progress
  BY <1>3, <1>4, <1>5, <1>6, <1>11 DEF Progress
<1> QED BY <1>1, <1>2, <1>7, <1>8, <1>9, <1>10, <1>11 DEF Next, Contents!Next

(* Wherever calls fail, and whatever the operator configures in between,   *)
(* the process implements Vault: one key for each row, which stays; logins *)
(* only under the key that is served; a profile update changes nothing.    *)
THEOREM StartImplementsVault == Spec => ImplementsVault
<1> QED BY InitContents, ContentsStep, Invariance, PTL
        DEF Spec, ImplementsVault, Contents!Spec

-----------------------------------------------------------------------------
(* What startup_admin refutes holds as long as the secret stays.           *)

(* Every row is under the key of the configuration. *)
SameSecret ==
  /\ ~failed
  /\ \A p \in Paths, n \in Names :
       rows[p][n] \in {NoRow, Under(Configured.secret)}

(* No call fails and the secret stays: what is stored is stored under it.  *)
LEMMA SameSecretStep ==
  ASSUME ~MayFail, IInv, SameSecret, [Next]_vars,
         Configured'.secret = Configured.secret
  PROVE  SameSecret'
<1>1. CASE UNCHANGED rows
  <2>1. ~failed'
    BY DEF Next, vars, disk, memory, SameSecret, Edit, Start, Stop, Ends, Progress,
           ReadJson, Catch, Throws, Open, DeriveKey, CreateTable, CountAdmin,
           CountFails, InsertAdmin, InsertFails, Register, Login, UpdateProfile
  <2> QED BY <1>1, <2>1 DEF SameSecret
<1>2. ASSUME NEW n \in Names, UpdateProfile(n) PROVE SameSecret'
  BY <1>1, <1>2, UpdateKeepsRows
<1>3. ASSUME NEW n \in Names, opened \in Paths, UNCHANGED failed,
             \A p \in Paths, m \in Names :
               rows'[p][m] = rows[p][m] \/ rows'[p][m] = Under(key),
             key = Configured.secret
      PROVE  SameSecret'
  BY <1>3 DEF SameSecret
<1>4. want = Configured \/ phase \in {"down", "read"}
  BY Configurations DEF IInv, TypeOK, Arguments, SameSecret
<1>5. CASE InsertAdmin
  <2>1. key = Configured.secret /\ opened \in Paths /\ UNCHANGED failed
    BY <1>4, <1>5, Values DEF InsertAdmin, Goes, Opened, Derived, IInv, Arguments
  <2>2. \A p \in Paths, m \in Names :
          rows'[p][m] = rows[p][m] \/ rows'[p][m] = Under(key)
    BY <1>5, <2>1, StartupAssumption DEF InsertAdmin, IInv, TypeOK
  <2> QED BY <1>3, <2>1, <2>2, StartupAssumption
<1>6. ASSUME NEW n \in Names, Register(n) PROVE SameSecret'
  <2>1. key = Configured.secret /\ opened \in Paths /\ UNCHANGED failed
    BY <1>4, <1>6, Values DEF Register, memory, Opened, Derived, IInv, Arguments
  <2>2. \A p \in Paths, m \in Names :
          rows'[p][m] = rows[p][m] \/ rows'[p][m] = Under(key)
    BY <1>6, <2>1 DEF Register, IInv, TypeOK
  <2> QED BY <1>3, <2>1, <2>2
<1>7. CASE Progress /\ ~InsertAdmin
  <2>1. UNCHANGED rows
    BY <1>7 DEF Progress, ReadJson, Open, DeriveKey, CreateTable, CountAdmin,
                CountFails, InsertFails, Throws, disk
  <2> QED BY <1>1, <2>1
<1>8. CASE Edit \/ Start \/ Stop \/ UNCHANGED vars \/ \E m \in Names : Login(m)
  <2>1. UNCHANGED rows
    BY <1>8 DEF Edit, Start, Stop, Login, disk, vars
  <2> QED BY <1>1, <2>1
<1> QED BY <1>2, <1>5, <1>6, <1>7, <1>8 DEF Next

SecretStays == Configured'.secret = Configured.secret

(* README.md:5 promises a root account that can log in.  It always can, on *)
(* any sequence of starts, edits of the path and damaged configurations,   *)
(* if no call fails and no edit changes the secret that is in effect: a    *)
(* change of the secret is all that startup_admin's counterexample needs.  *)
THEOREM RootLogsInWhileSecretStays ==
  ASSUME ~MayFail
  PROVE  Spec /\ [][SecretStays]_vars => []RootCanLogIn
<1>1. Init => SameSecret
  BY DEF Init, SameSecret
<1>2. IInv /\ SameSecret /\ [Next]_vars /\ [SecretStays]_vars => SameSecret'
  <2> SUFFICES ASSUME IInv, SameSecret, [Next]_vars, [SecretStays]_vars
               PROVE  SameSecret'
    OBVIOUS
  <2>1. Configured'.secret = Configured.secret
    BY DEF SecretStays, vars, disk, Configured
  <2> QED BY <2>1, SameSecretStep
<1>3. IInv /\ SameSecret => RootCanLogIn
  <2> SUFFICES ASSUME IInv, SameSecret, Serving PROVE Decrypts(Admin)
    BY DEF RootCanLogIn
  <2>1. opened \in Paths /\ Admin \in Names
    BY Values, StartupAssumption DEF Serving, Opened
  <2>2. rows[opened][Admin] # NoRow
    BY DEF IInv, RootStored, Stored, SameSecret
  <2>3. key = Configured.secret
    BY Configurations DEF IInv, TypeOK, Arguments, Serving, Derived, SameSecret
  <2> QED BY <2>1, <2>2, <2>3 DEF SameSecret, Decrypts
<1> QED BY <1>1, <1>2, <1>3, Invariance, PTL DEF Spec
=============================================================================
