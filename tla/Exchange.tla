------------------------------ MODULE Exchange ------------------------------
(***************************************************************************)
(* What HttpServer and ReplyServer promise a peer, without descriptors,    *)
(* threads, tables or locks: requests are served one at a time, and a peer *)
(* is sent at most one message, the answer to its own request, before its  *)
(* connection is closed.  A peer gets no answer if its request cannot be   *)
(* read, comes before the service is ready, or is for /health; every other *)
(* request that is served is answered, to the peer if it is still there.   *)
(***************************************************************************)
CONSTANTS Conns, NoConn

VARIABLES phase,    \* what became of each connection
          asked,    \* the kind of request its peer has sent
          gone,     \* the connections whose peer has reset them
          got,      \* the connection whose answer its peer was sent
          serving,  \* the connections whose request is being served
          ready     \* the endpoints take requests

peers == <<asked, gone>>

Kinds == {"api", "health", "upgrade", "malformed"}

Init ==
  /\ phase = [c \in Conns |-> "none"]
  /\ asked = [c \in Conns |-> "nothing"]
  /\ gone = {}
  /\ got = [c \in Conns |-> NoConn]
  /\ serving = {}
  /\ ready = FALSE

Move(c, from, to) == phase[c] = from /\ phase' = [phase EXCEPT ![c] = to]

Arrive(c) == Move(c, "none", "open") /\ UNCHANGED <<peers, got, serving, ready>>

Send(c, k) ==
  /\ phase[c] = "open" /\ asked[c] = "nothing" /\ c \notin gone
  /\ asked' = [asked EXCEPT ![c] = k]
  /\ UNCHANGED <<phase, gone, got, serving, ready>>

Reset(c) ==
  /\ phase[c] \in {"open", "taken"}
  /\ gone' = gone \cup {c}
  /\ UNCHANGED <<phase, asked, got, serving, ready>>

Drop(c) ==
  /\ c \in gone \/ asked[c] = "malformed"
  /\ Move(c, "open", "dropped")
  /\ UNCHANGED <<peers, got, serving, ready>>

Upgrade(c) ==
  /\ asked[c] = "upgrade"
  /\ Move(c, "open", "upgraded")
  /\ UNCHANGED <<peers, got, serving, ready>>

Take(c) ==
  /\ asked[c] \in {"api", "health"}
  /\ Move(c, "open", "taken")
  /\ UNCHANGED <<peers, got, serving, ready>>

(* Not while another request is served. *)
Serve(c) ==
  /\ serving = {}
  /\ serving' = {c}
  /\ IF ready THEN phase[c] = "taken" /\ UNCHANGED phase
              ELSE Move(c, "taken", "unheard")
  /\ UNCHANGED <<peers, got, ready>>

(* To its own peer, if that is still there. *)
Answer(c) ==
  /\ serving = {c}
  /\ Move(c, "taken", "answered")
  /\ got' = IF c \in gone THEN got ELSE [got EXCEPT ![c] = c]
  /\ UNCHANGED <<peers, serving, ready>>

Close(c) ==
  /\ serving = {c}
  /\ Move(c, "answered", "closed")
  /\ UNCHANGED <<peers, got, serving, ready>>

(* A served request has been answered, or was not for the endpoints. *)
Done(c) ==
  /\ serving = {c}
  /\ \/ phase[c] \in {"closed", "unheard"}
     \/ phase[c] = "taken" /\ asked[c] = "health"
  /\ serving' = {}
  /\ UNCHANGED <<phase, peers, got, ready>>

(* The endpoints subscribe while nothing is served. *)
Ready ==
  /\ serving = {}
  /\ ready' = TRUE
  /\ UNCHANGED <<phase, peers, got, serving>>

Next ==
  \/ Ready
  \/ \E c \in Conns :
       \/ Arrive(c) \/ Reset(c) \/ Drop(c) \/ Upgrade(c) \/ Take(c)
       \/ Serve(c) \/ Answer(c) \/ Close(c) \/ Done(c)
       \/ \E k \in Kinds : Send(c, k)

Spec == Init /\ [][Next]_<<phase, peers, got, serving, ready>>
=============================================================================
