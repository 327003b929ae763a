------------------------------- MODULE Gateway -------------------------------
(***************************************************************************)
(* The path of a request through HttpServer (src/core/HttpServer.cpp), the *)
(* EventBus and ReplyServer, and the start of both servers by the main     *)
(* thread (WebServerController in src/include/Application.hpp).            *)
(*                                                                         *)
(* Pool threads run the completion handlers of asio.  onRead hands the     *)
(* descriptor of the connection to HttpServer::connections_ and publishes  *)
(* the request; the response comes back through a nested publish, and      *)
(* writeResponse takes the descriptor out of connections_, writes to it    *)
(* and closes it.  The kernel may give a descriptor out again as soon as   *)
(* it is closed.  What the endpoints do is the matter of Accounts.         *)
(***************************************************************************)
EXTENDS EventBus, Integers

CONSTANTS Main,          \* the main thread; the others are the pool
          MaxConns,      \* bound: connections accepted in one behaviour
          Fds,           \* descriptors the process may have open at once
          NoFd,
          Fatal          \* undefined or unhandled events that end the process

ASSUME GatewayAssumption ==
  /\ Main \in Threads
  /\ MaxConns \in Nat
  /\ NoFd \notin Fds
  /\ Fatal \subseteq {"dangling", "sigpipe", "race", "session"}

Pool == Threads \ {Main}
ConnIds == 1..MaxConns
NoConn == 0  \* the connId in the response of /health; no connection has it

VARIABLES alive,        \* the process runs
          boot,         \* the next step of the main thread
          accept,       \* the accept loop
          nextConnId,   \* g_nextConnId
          conn,         \* what became of each connection
          wire,         \* the request its peer has sent
          gone,         \* connections whose peer has reset them
          owner,        \* the kernel's table: descriptor -> connection
          connections,  \* HttpServer::connections_: connection -> descriptor
          received,     \* the connection whose answer its peer was sent
          pc,           \* where each pool thread is
          mine,         \* the connection its handler was called for
          reply,        \* the connId of the response event it publishes
          fd            \* the local fd of writeResponse

clients == <<wire, gone>>
server  == <<boot, accept, nextConnId>>
socks   == <<conn, owner, connections, received>>
local   == <<pc, mine, reply, fd>>
vars    == <<bus, alive, clients, server, socks, local>>

(* "malformed": what http::async_read refuses, cut short, or too large. *)
Kinds == {"api", "health", "upgrade", "malformed"}
Labels == {"idle", "emplace", "publish", "dispatch", "nested", "erase",
           "write", "close", "leave", "wedged"}

TypeOK ==
  /\ BusTypeOK
  /\ alive \in BOOLEAN
  /\ boot \in {"http", "post", "subscribe", "push", "replyer", "done"}
  /\ accept \in {"none", "posted", "open", "failed"}
  /\ nextConnId \in 1..(MaxConns + 1)
  /\ conn \in [ConnIds -> {"none", "reading", "released", "held", "unheard",
                           "answered", "dropped", "upgraded", "closed"}]
  /\ wire \in [ConnIds -> Kinds \cup {"nothing"}]
  /\ gone \subseteq ConnIds
  /\ owner \in [Fds -> ConnIds \cup {NoConn}]
  /\ connections \in [ConnIds -> Fds \cup {NoFd}]
  /\ received \in [ConnIds -> ConnIds \cup {NoConn}]
  /\ pc \in [Pool -> Labels]
  /\ mine \in [Pool -> ConnIds \cup {NoConn}]
  /\ reply \in [Pool -> ConnIds \cup {NoConn}]
  /\ fd \in [Pool -> Fds \cup {NoFd}]

Init ==
  /\ BusInit
  /\ alive = TRUE
  /\ boot = "http" /\ accept = "none" /\ nextConnId = 1
  /\ conn = [c \in ConnIds |-> "none"]
  /\ wire = [c \in ConnIds |-> "nothing"]
  /\ gone = {}
  /\ owner = [d \in Fds |-> NoConn]
  /\ connections = [c \in ConnIds |-> NoFd]
  /\ received = [c \in ConnIds |-> NoConn]
  /\ pc = [t \in Pool |-> "idle"]
  /\ mine = [t \in Pool |-> NoConn]
  /\ reply = [t \in Pool |-> NoConn]
  /\ fd = [t \in Pool |-> NoFd]

-----------------------------------------------------------------------------
(* The main thread: HttpServer first, then ReplyServer, then the replyer.  *)

(* HttpServer subscribes writeResponse; nobody else runs yet. *)
StartHttp ==
  /\ boot = "http" /\ boot' = "post"
  /\ UNCHANGED <<bus, alive, clients, accept, nextConnId, socks, local>>

(* It posts the accept loop: from here on the pool works. *)
PostAccept ==
  /\ boot = "post" /\ boot' = "subscribe"
  /\ accept' = "posted"
  /\ UNCHANGED <<bus, alive, clients, nextConnId, socks, local>>

(* ReplyServer subscribes dispatch under the lock of the bus. *)
Subscribe ==
  /\ boot = "subscribe" /\ boot' = "push"
  /\ Acquire(Main)
  /\ UNCHANGED <<alive, clients, accept, nextConnId, socks, local>>

Subscribed ==
  /\ boot = "push" /\ boot' = "replyer"
  /\ Release(Main)
  /\ UNCHANGED <<alive, clients, accept, nextConnId, socks, local>>

(* handlers_["/health"] is assigned under no lock. *)
AddReplyer ==
  /\ boot = "replyer" /\ boot' = "done"
  /\ UNCHANGED <<bus, alive, clients, accept, nextConnId, socks, local>>

DispatchSubscribed == boot \in {"replyer", "done"}
HealthRegistered == boot = "done"

-----------------------------------------------------------------------------
(* Peers. *)

Send(c, kind) ==
  /\ conn[c] = "reading" /\ wire[c] = "nothing" /\ c \notin gone
  /\ wire' = [wire EXCEPT ![c] = kind]
  /\ UNCHANGED <<bus, alive, gone, server, socks, local>>

Reset(c) ==
  /\ conn[c] \in {"reading", "released", "held"} /\ c \notin gone
  /\ gone' = gone \cup {c}
  /\ UNCHANGED <<bus, alive, wire, server, socks, local>>

-----------------------------------------------------------------------------
(* Completion handlers, run by an idle pool thread. *)

(* The posted task opens the acceptor; a bad port or a port in use is      *)
(* caught and logged, and the process goes on without a listener.          *)
Listen(t) ==
  /\ pc[t] = "idle"
  /\ accept = "posted"
  /\ accept' \in {"open", "failed"}
  /\ UNCHANGED <<bus, alive, clients, boot, nextConnId, socks, local>>

(* A new connection gets any free descriptor and starts to read.  Without  *)
(* a free one the accept fails and is repeated.                            *)
Accept(t) ==
  /\ pc[t] = "idle"
  /\ accept = "open"
  /\ nextConnId \in ConnIds
  /\ \E d \in Fds :
       /\ owner[d] = NoConn
       /\ owner' = [owner EXCEPT ![d] = nextConnId]
  /\ conn' = [conn EXCEPT ![nextConnId] = "reading"]
  /\ nextConnId' = nextConnId + 1
  /\ UNCHANGED <<bus, alive, clients, boot, accept, connections, received, local>>

FdOf(c) == CHOOSE d \in Fds : owner[d] = c

(* onRead with an error, by a lost peer or by one that waits for an answer *)
(* to what cannot be read: the session and its socket are destroyed.       *)
ReadFails(t, c) ==
  /\ pc[t] = "idle"
  /\ conn[c] = "reading" /\ (c \in gone \/ wire[c] = "malformed")
  /\ conn' = [conn EXCEPT ![c] = "dropped"]
  /\ owner' = [owner EXCEPT ![FdOf(c)] = NoConn]
  /\ UNCHANGED <<bus, alive, clients, server, connections, received, local>>

(* onRead with an upgrade request: the socket moves to a WebSocketSession. *)
Upgrade(t, c) ==
  /\ pc[t] = "idle"
  /\ conn[c] = "reading" /\ wire[c] = "upgrade"
  /\ conn' = [conn EXCEPT ![c] = "upgraded"]
  /\ UNCHANGED <<bus, alive, clients, server, owner, connections, received, local>>

(* onRead with any other request: the socket releases its descriptor. *)
ReadRequest(t, c) ==
  /\ pc[t] = "idle"
  /\ conn[c] = "reading" /\ wire[c] \in {"api", "health"}
  /\ conn' = [conn EXCEPT ![c] = "released"]
  /\ mine' = [mine EXCEPT ![t] = c]
  /\ fd' = [fd EXCEPT ![t] = FdOf(c)]
  /\ pc' = [pc EXCEPT ![t] = "emplace"]
  /\ UNCHANGED <<bus, alive, clients, server, owner, connections, received, reply>>

(* connections_.emplace, under g_connectionsMutex. *)
Emplace(t) ==
  /\ pc[t] = "emplace"
  /\ connections' = [connections EXCEPT ![mine[t]] = fd[t]]
  /\ conn' = [conn EXCEPT ![mine[t]] = "held"]
  /\ pc' = [pc EXCEPT ![t] = "publish"]
  /\ fd' = [fd EXCEPT ![t] = NoFd]
  /\ UNCHANGED <<bus, alive, clients, server, owner, received, mine, reply>>

-----------------------------------------------------------------------------
(* publish(HttpRequestEvent), dispatch and the nested publish. *)

Publish(t) ==
  /\ pc[t] = "publish"
  /\ Acquire(t)
  /\ IF DispatchSubscribed
     THEN pc' = [pc EXCEPT ![t] = "dispatch"] /\ UNCHANGED conn
     ELSE /\ pc' = [pc EXCEPT ![t] = "leave"]
          /\ conn' = [conn EXCEPT ![mine[t]] = "unheard"]
  /\ UNCHANGED <<alive, clients, server, owner, connections, received,
                 mine, reply, fd>>

(* Mutant: the answer goes to the connection accepted last. *)
DispatchLatest(t) ==
  /\ pc[t] = "dispatch"
  /\ reply' = [reply EXCEPT ![t] = nextConnId - 1]
  /\ pc' = [pc EXCEPT ![t] = "nested"]
  /\ UNCHANGED <<bus, alive, clients, server, socks, mine, fd>>

(* Mutant: the answer goes to the next connection. *)
DispatchNext(t) ==
  /\ pc[t] = "dispatch"
  /\ reply' = [reply EXCEPT ![t] = nextConnId]
  /\ pc' = [pc EXCEPT ![t] = "nested"]
  /\ UNCHANGED <<bus, alive, clients, server, socks, mine, fd>>

(* Every answer names the connection of the request, but that of the       *)
(* replyer of /health, whose event is {0, 200, "OK"}.                      *)
Dispatch(t) ==
  /\ pc[t] = "dispatch"
  /\ reply' = [reply EXCEPT ![t] =
                 IF wire[mine[t]] = "health" /\ HealthRegistered THEN NoConn
                 ELSE mine[t]]
  /\ pc' = [pc EXCEPT ![t] = "nested"]
  /\ UNCHANGED <<bus, alive, clients, server, socks, mine, fd>>

PublishResponse(t) ==
  /\ pc[t] = "nested"
  /\ \/ Reenter(t) /\ pc' = [pc EXCEPT ![t] = "erase"]
     \/ Wedge(t) /\ pc' = [pc EXCEPT ![t] = "wedged"]
  /\ UNCHANGED <<alive, clients, server, socks, mine, reply, fd>>

-----------------------------------------------------------------------------
(* writeResponse. *)

(* connections_.find(connId) finds an entry. *)
Known(c) == c \in ConnIds /\ connections[c] # NoFd

(* Mutant: the entry stays in connections_. *)
EraseNothing(t) ==
  /\ pc[t] = "erase"
  /\ \/ /\ ~Known(reply[t])
        /\ pc' = [pc EXCEPT ![t] = "leave"]
        /\ UNCHANGED fd
     \/ /\ Known(reply[t])
        /\ pc' = [pc EXCEPT ![t] = "write"]
        /\ fd' = [fd EXCEPT ![t] = connections[reply[t]]]
  /\ UNCHANGED <<bus, alive, clients, server, socks, mine, reply>>

(* Mutant: nothing is done for a peer that is gone. *)
EraseUnlessGone(t) ==
  /\ pc[t] = "erase"
  /\ IF Known(reply[t]) /\ reply[t] \notin gone
     THEN /\ pc' = [pc EXCEPT ![t] = "write"]
          /\ fd' = [fd EXCEPT ![t] = connections[reply[t]]]
          /\ connections' = [connections EXCEPT ![reply[t]] = NoFd]
     ELSE /\ pc' = [pc EXCEPT ![t] = "leave"]
          /\ UNCHANGED <<connections, fd>>
  /\ UNCHANGED <<bus, alive, clients, server, conn, owner, received, mine, reply>>

(* Find and erase, under g_connectionsMutex; an unknown connId returns. *)
Erase(t) ==
  /\ pc[t] = "erase"
  /\ \/ /\ ~Known(reply[t])
        /\ pc' = [pc EXCEPT ![t] = "leave"]
        /\ UNCHANGED <<connections, fd>>
     \/ /\ Known(reply[t])
        /\ pc' = [pc EXCEPT ![t] = "write"]
        /\ fd' = [fd EXCEPT ![t] = connections[reply[t]]]
        /\ connections' = [connections EXCEPT ![reply[t]] = NoFd]
  /\ UNCHANGED <<bus, alive, clients, server, conn, owner, received, mine, reply>>

(* write() reaches whoever owns the descriptor now; its failure is ignored. *)
Write(t) ==
  /\ pc[t] = "write"
  /\ LET c == owner[fd[t]] IN
       received' = IF c \in ConnIds \ gone
                   THEN [received EXCEPT ![c] = mine[t]] ELSE received
  /\ conn' = [conn EXCEPT ![mine[t]] = "answered"]
  /\ pc' = [pc EXCEPT ![t] = "close"]
  /\ UNCHANGED <<bus, alive, clients, server, owner, connections, mine, reply, fd>>

Close(t) ==
  /\ pc[t] = "close"
  /\ owner' = [owner EXCEPT ![fd[t]] = NoConn]
  /\ conn' = [conn EXCEPT ![mine[t]] = "closed"]
  /\ pc' = [pc EXCEPT ![t] = "leave"]
  /\ UNCHANGED <<bus, alive, clients, server, connections, received, mine, reply, fd>>

(* Out of the nested publish, dispatch, the outer publish and onRead. *)
Leave(t) ==
  /\ pc[t] = "leave"
  /\ Release(t)
  /\ pc' = [pc EXCEPT ![t] = "idle"]
  /\ mine' = [mine EXCEPT ![t] = NoConn]
  /\ reply' = [reply EXCEPT ![t] = NoConn]
  /\ fd' = [fd EXCEPT ![t] = NoFd]
  /\ UNCHANGED <<alive, clients, server, socks>>

-----------------------------------------------------------------------------
(* What ends the process.  The accept handler runs on an AcceptLoop that   *)
(* is gone; write() to a connection its peer has reset may raise SIGPIPE,  *)
(* which nobody handles; dispatch may look "/health" up while the main     *)
(* thread inserts it.                                                      *)
Die ==
  /\ \/ "dangling" \in Fatal /\ \E c \in ConnIds : conn[c] # "none"
     \/ "sigpipe" \in Fatal /\ \E t \in Pool : pc[t] = "write" /\ mine[t] \in gone
     \/ /\ "race" \in Fatal /\ boot = "replyer"
        /\ \E t \in Pool : pc[t] = "dispatch" /\ wire[mine[t]] = "health"
  /\ alive' = FALSE
  /\ UNCHANGED <<bus, clients, server, socks, local>>

(* A WebSocketSession ends, by a failed handshake or a lost client.  Its   *)
(* destructor calls shared_from_this(), when no shared_ptr is left: that   *)
(* throws bad_weak_ptr out of a destructor, and the process terminates.    *)
SessionEnds(c) ==
  /\ "session" \in Fatal
  /\ conn[c] = "upgraded"
  /\ alive' = FALSE
  /\ UNCHANGED <<bus, clients, server, socks, local>>

Boot == StartHttp \/ PostAccept \/ Subscribe \/ Subscribed \/ AddReplyer

Handle(t) ==
  \/ Emplace(t) \/ Publish(t) \/ Dispatch(t) \/ PublishResponse(t)
  \/ Erase(t) \/ Write(t) \/ Close(t) \/ Leave(t)

Complete(t) ==
  \/ Listen(t)
  \/ \E c \in ConnIds : ReadFails(t, c) \/ Upgrade(t, c) \/ ReadRequest(t, c)

Peer ==
  \E c \in ConnIds : Reset(c) \/ SessionEnds(c) \/ \E k \in Kinds : Send(c, k)

Next ==
  /\ alive
  /\ \/ Boot \/ Peer \/ Die
     \/ \E t \in Pool : Accept(t) \/ Complete(t) \/ Handle(t)

Spec == Init /\ [][Next]_vars

(* Threads are scheduled, and a completion is run as long as some pool     *)
(* thread is idle.  Peers promise nothing.                                 *)
FairSpec ==
  /\ Spec
  /\ WF_vars(alive /\ Boot)
  /\ \A t \in Pool : WF_vars(alive /\ Handle(t))
  /\ WF_vars(alive /\ \E t \in Pool : Complete(t))

-----------------------------------------------------------------------------
(* Properties. *)

InsidePublish ==
  {"dispatch", "nested", "erase", "write", "close", "leave", "wedged"}

(* A subscriber list is walked by one thread at a time, and never while    *)
(* the main thread appends to it: subscribing after the accept loop has    *)
(* started (Application.hpp:155) is safe.                                  *)
SubscriberListExclusive ==
  /\ \A t, u \in Pool :
       pc[t] \in InsidePublish /\ pc[u] \in InsidePublish => t = u
  /\ boot = "push" => \A t \in Pool : pc[t] \notin InsidePublish

(* However descriptors are reused, a peer is sent the answer to its own    *)
(* request and no other.                                                   *)
AnswerOwnRequest == \A c \in ConnIds : received[c] \in {NoConn, c}

(* A descriptor number that the program still means to use is open and     *)
(* belongs to the connection it stands for: nothing is written to or       *)
(* closed twice.                                                           *)
NoForeignDescriptor ==
  /\ \A c \in ConnIds : connections[c] # NoFd => owner[connections[c]] = c
  /\ \A t \in Pool : pc[t] \in {"emplace", "write", "close"} =>
       fd[t] # NoFd /\ owner[fd[t]] = mine[t]

(* An entry of connections_ that no thread is about to answer is a leak.   *)
(* The code has two: a request published before ReplyServer has subscribed *)
(* and one of /health.  There is no third, resets included.                *)
OnlyKnownLeaks ==
  \A c \in ConnIds : connections[c] # NoFd =>
    \/ \E t \in Pool : mine[t] = c
    \/ conn[c] = "unheard"
    \/ wire[c] = "health"

(* Where the nested publish enters, an ordinary request is answered and    *)
(* its connection closed, or was published too early, or found its peer    *)
(* gone: no interleaving of pool threads loses it.                         *)
RequestsAnswered ==
  \A c \in ConnIds :
    conn[c] = "reading" /\ wire[c] = "api" ~>
      conn[c] \in {"closed", "unheard", "dropped"}

(* Application.hpp:179 "Block the main thread to keep the service          *)
(* running": the pool keeps a thread that can run completions.             *)
PoolCanWork ==
  \E t \in Pool :
    /\ pc[t] # "wedged"
    /\ pc[t] = "publish" => \A u \in Pool : pc[u] # "wedged"

(* Pool threads, connections_, the bus and the kernel's table implement    *)
(* Exchange: a request is served while its thread is inside publish().     *)
Phase(state) == CASE state = "reading" -> "open"
                  [] state \in {"released", "held"} -> "taken"
                  [] OTHER -> state

PhaseOf == [c \in ConnIds |-> Phase(conn[c])]

Serving == {mine[t] : t \in {u \in Pool : pc[u] \in InsidePublish}}

Service == INSTANCE Exchange WITH
  Conns <- ConnIds, phase <- PhaseOf, asked <- wire, got <- received,
  serving <- Serving, ready <- DispatchSubscribed

ImplementsExchange == Service!Spec
=============================================================================
