--------------------------- MODULE AccountService ---------------------------
(***************************************************************************)
(* What the account endpoints promise their clients, without threads,      *)
(* statements or tables: every operation happens at once.  README.md:4-13  *)
(* states the policy: anybody may apply, an administrator approves, an     *)
(* administrator bans, a banned account is kept and stays refused.         *)
(***************************************************************************)
CONSTANTS Ids, Admin, Passwords, AdminPassword, Tokens, NoUser

VARIABLES standing,  \* what an account may do
          secret,    \* its password
          live       \* the account each session token opens, or NoUser

Standings == {"none", "pending", "member", "banned"}

Init ==
  /\ standing = [u \in Ids |-> "none"]
  /\ secret = [u \in Ids |-> AdminPassword]
  /\ live = [k \in Tokens |-> NoUser]

Move(u, from, to) ==
  standing[u] = from /\ standing' = [standing EXCEPT ![u] = to]

(* The root account comes into being as a member. *)
Found == Move(Admin, "none", "member") /\ UNCHANGED <<secret, live>>

Apply(u, p) ==
  /\ Move(u, "none", "pending")
  /\ secret' = [secret EXCEPT ![u] = p]
  /\ UNCHANGED live

Approve(u) == Move(u, "pending", "member") /\ UNCHANGED <<secret, live>>

(* A ban ends the sessions of the account in the same instant. *)
Ban(u) ==
  /\ u # Admin
  /\ standing[u] \in {"pending", "member"}
  /\ standing' = [standing EXCEPT ![u] = "banned"]
  /\ live' = [k \in Tokens |-> IF live[k] = u THEN NoUser ELSE live[k]]
  /\ UNCHANGED secret

Login(u, k) ==
  /\ standing[u] = "member"
  /\ live[k] = NoUser
  /\ live' = [live EXCEPT ![k] = u]
  /\ UNCHANGED <<standing, secret>>

Logout(k) ==
  /\ live' = [live EXCEPT ![k] = NoUser]
  /\ UNCHANGED <<standing, secret>>

(* Only from one of the account's own sessions. *)
ChangeSecret(k, p) ==
  /\ live[k] # NoUser
  /\ secret' = [secret EXCEPT ![live[k]] = p]
  /\ UNCHANGED <<standing, live>>

(* The end of the process ends every session and nothing else. *)
Restart == live' = [k \in Tokens |-> NoUser] /\ UNCHANGED <<standing, secret>>

Next ==
  \/ Found \/ Restart
  \/ \E u \in Ids : Approve(u) \/ Ban(u) \/ \E p \in Passwords : Apply(u, p)
  \/ \E k \in Tokens : \/ Logout(k)
                       \/ \E u \in Ids : Login(u, k)
                       \/ \E p \in Passwords : ChangeSecret(k, p)

Spec == Init /\ [][Next]_<<standing, secret, live>>
=============================================================================
