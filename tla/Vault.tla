-------------------------------- MODULE Vault --------------------------------
(***************************************************************************)
(* What Config and Database promise about stored accounts, without phases, *)
(* tables, failures or columns: a row has one key, the key of the process  *)
(* that stored it; nothing takes it away; and who logs in has a row under  *)
(* the key of the process that serves.                                     *)
(***************************************************************************)
CONSTANTS Paths, DefaultPath, Secrets, DefaultSecret, NoValue, Names, Admin

VARIABLES config,    \* what the operator has written
          keys,      \* the key of each row, by file and name, or NoValue
          served,    \* the file and the key that are served; NoService
          sessions   \* the names that have logged in since

vault == <<config, keys, served, sessions>>

Config ==
  [state : {"missing", "malformed"}, path : {NoValue}, secret : {NoValue}]
    \cup [state : {"read"}, path : Paths \cup {NoValue},
          secret : Secrets \cup {NoValue}]

NoService == [path |-> NoValue, secret |-> NoValue]

Default == [path |-> DefaultPath, secret |-> DefaultSecret]

Configured ==
  [path   |-> IF config.path = NoValue THEN DefaultPath ELSE config.path,
   secret |-> IF config.secret = NoValue THEN DefaultSecret ELSE config.secret]

Init ==
  /\ config \in Config
  /\ keys = [p \in Paths |-> [n \in Names |-> NoValue]]
  /\ served = NoService /\ sessions = {}

Edit ==
  /\ served = NoService
  /\ config' \in Config
  /\ UNCHANGED <<keys, served, sessions>>

(* A new row, under the key that is served. *)
Put(service, n) ==
  /\ keys[service.path][n] = NoValue
  /\ keys' = [keys EXCEPT ![service.path][n] = service.secret]

(* A process begins to serve; it may have stored the root account. *)
Serve(service) ==
  /\ served = NoService
  /\ served' = service
  /\ Put(service, Admin) \/ UNCHANGED keys
  /\ UNCHANGED <<config, sessions>>

End ==
  /\ served' = NoService /\ sessions' = {}
  /\ UNCHANGED <<config, keys>>

Register(n) ==
  /\ served # NoService
  /\ Put(served, n)
  /\ UNCHANGED <<config, served, sessions>>

Login(n) ==
  /\ served # NoService
  /\ keys[served.path][n] = served.secret
  /\ sessions' = sessions \cup {n}
  /\ UNCHANGED <<config, keys, served>>

Next ==
  \/ Edit \/ End
  \/ \E service \in {Configured, Default} : Serve(service)
  \/ \E n \in Names : Register(n) \/ Login(n)

Spec == Init /\ [][Next]_vault
=============================================================================
