---------------------------- MODULE GatewayProofs ----------------------------
(***************************************************************************)
(* Proofs about Gateway, for every pool, every number of connections and   *)
(* descriptors, and whatever locking the bus again does.                   *)
(*                                                                         *)
(* IInv is inductive.  Its heart is ThreadInv: a connection is in the      *)
(* hands of one thread, and the place of that thread says whether the      *)
(* descriptor is with the thread, in connections_, or closed.  OwnerInv    *)
(* ties that to the kernel's table, so that a descriptor which the kernel  *)
(* gives out again cannot be one the program still uses.                   *)
(***************************************************************************)
EXTENDS Gateway, TLAPS

(* Who is inside publish() or subscribe() holds the mutex of the bus. *)
BusInv ==
  /\ \A t \in Pool : pc[t] \in InsidePublish <=> bus = t
  /\ boot = "push" <=> bus = Main

Open == {"reading", "released", "held", "unheard", "answered", "upgraded"}

(* The kernel's table: open connections have one descriptor each. *)
OwnerInv ==
  /\ \A c \in ConnIds : conn[c] \in Open <=> \E d \in Fds : owner[d] = c
  /\ \A d, e \in Fds : owner[d] = owner[e] /\ owner[d] # NoConn => d = e
  /\ \A c \in ConnIds : c >= nextConnId <=> conn[c] = "none"

(* The entries of connections_. *)
EntryInv ==
  \A c \in ConnIds :
    /\ connections[c] # NoFd =>
         conn[c] \in {"held", "unheard"} /\ owner[connections[c]] = c
    /\ conn[c] = "unheard" => connections[c] # NoFd

Holding == {"publish", "dispatch", "nested", "erase", "wedged"}

(* What the place of a thread says about its connection. *)
LocalInv(t) ==
  /\ pc[t] = "idle" <=> mine[t] = NoConn
  /\ pc[t] # "idle" => conn[mine[t]] \in {"released", "held", "unheard",
                                         "answered", "closed"}
  /\ pc[t] = "emplace" =>
       /\ conn[mine[t]] = "released"
       /\ fd[t] # NoFd /\ owner[fd[t]] = mine[t]
  /\ pc[t] \in Holding =>
       conn[mine[t]] = "held" /\ connections[mine[t]] # NoFd
  /\ pc[t] \in {"nested", "erase", "wedged"} =>
       \/ reply[t] = mine[t]
       \/ reply[t] = NoConn /\ wire[mine[t]] = "health"
  /\ pc[t] = "write" => conn[mine[t]] = "held" /\ connections[mine[t]] = NoFd
  /\ pc[t] = "close" => conn[mine[t]] = "answered"
  /\ pc[t] \in {"write", "close"} =>
       fd[t] # NoFd /\ owner[fd[t]] = mine[t]
  /\ pc[t] = "leave" =>
       \/ connections[mine[t]] = NoFd
       \/ conn[mine[t]] = "unheard" \/ wire[mine[t]] = "health"
  /\ pc[t] = "leave" =>
       \/ conn[mine[t]] \in {"closed", "unheard"}
       \/ conn[mine[t]] = "held" /\ wire[mine[t]] = "health"

ThreadInv ==
  /\ \A t \in Pool : LocalInv(t)
  /\ \A t, u \in Pool : mine[t] = mine[u] /\ mine[t] # NoConn => t = u

IInv == TypeOK /\ BusInv /\ OwnerInv /\ EntryInv /\ ThreadInv
        /\ AnswerOwnRequest /\ OnlyKnownLeaks

-----------------------------------------------------------------------------
(* Facts about the constants and about states that satisfy IInv.           *)

(* A pool thread is neither the main thread nor nobody. *)
LEMMA PoolFacts ==
  ASSUME NEW t \in Pool
  PROVE  t \in Threads /\ t # Main /\ t # NoThread /\ Main # NoThread
BY BusAssumption, GatewayAssumption DEF Pool

(* No connection is numbered 0, as the response of /health is. *)
LEMMA Ids == NoConn \notin ConnIds /\ ConnIds \subseteq Nat
BY GatewayAssumption DEF NoConn, ConnIds

(* An open connection has the descriptor FdOf names. *)
LEMMA FdOfOwns ==
  ASSUME IInv, NEW c \in ConnIds, conn[c] \in Open
  PROVE  FdOf(c) \in Fds /\ owner[FdOf(c)] = c
BY DEF IInv, OwnerInv, FdOf

(* A thread that is not idle has a connection; its descriptor is either    *)
(* in connections_ or in the thread's own hands.                           *)
LEMMA Busy ==
  ASSUME IInv, NEW t \in Pool, pc[t] # "idle"
  PROVE  /\ mine[t] \in ConnIds
         /\ pc[t] \in Holding =>
              /\ connections[mine[t]] \in Fds
              /\ owner[connections[mine[t]]] = mine[t]
         /\ pc[t] \in {"emplace", "write", "close"} => fd[t] \in Fds
BY DEF IInv, TypeOK, ThreadInv, LocalInv, EntryInv, Holding

(* An update of a function leaves the other arguments alone. *)
LEMMA Elsewhere ==
  ASSUME NEW f, NEW x, NEW y \in DOMAIN f, NEW v, x # y
  PROVE  [f EXCEPT ![x] = v][y] = f[y]
OBVIOUS

(* No other thread has the connection of a busy thread. *)
LEMMA Others ==
  ASSUME IInv, NEW t \in Pool, NEW u \in Pool, u # t, pc[u] # "idle"
  PROVE  mine[u] \in ConnIds /\ mine[u] # mine[t]
BY Ids, Busy DEF IInv, ThreadInv

(* A connection that stays open leaves the kernel's table as it is. *)
LEMMA StaysOpen ==
  ASSUME IInv, NEW c \in ConnIds, NEW s \in Open, conn[c] \in Open,
         conn' = [conn EXCEPT ![c] = s], UNCHANGED <<owner, nextConnId>>
  PROVE  OwnerInv'
BY DEF IInv, TypeOK, OwnerInv, Open

(* Closing a connection takes its descriptor out of the kernel's table. *)
LEMMA Closes ==
  ASSUME IInv, NEW c \in ConnIds, NEW d \in Fds, owner[d] = c,
         NEW s \in {"dropped", "closed"},
         conn' = [conn EXCEPT ![c] = s], owner' = [owner EXCEPT ![d] = NoConn],
         UNCHANGED nextConnId
  PROVE  OwnerInv'
<1> USE Ids DEF IInv, TypeOK, OwnerInv
<1>1. \A e \in Fds : owner'[e] = IF e = d THEN NoConn ELSE owner[e]
  OBVIOUS
<1>2. \A e \in ConnIds : conn'[e] = IF e = c THEN s ELSE conn[e]
  OBVIOUS
<1>3. ASSUME NEW e \in ConnIds
      PROVE  conn'[e] \in Open <=> \E x \in Fds : owner'[x] = e
  BY <1>1, <1>2 DEF Open
<1>4. conn[c] \in Open /\ conn[c] # "none"
  BY DEF Open
<1> QED BY <1>1, <1>2, <1>3, <1>4

-----------------------------------------------------------------------------
(* Every step preserves IInv: one lemma for each action, with one step for *)
(* each part of the invariant.                                             *)

(* The main thread only takes and frees the bus.                           *)
LEMMA BootPreserves ==
  ASSUME IInv, Boot
  PROVE  IInv'
<1> USE PoolFacts, Ids, GatewayAssumption, BusAssumption, FdOfOwns
    DEF IInv, Boot, StartHttp, PostAccept, Subscribe, Subscribed, AddReplyer, Acquire, Release, clients, server, socks, local
<1>1. TypeOK'
  <2> USE DEF TypeOK, BusTypeOK
  <2>1. CASE StartHttp   BY <2>1
  <2>2. CASE PostAccept  BY <2>2
  <2>3. CASE Subscribe   BY <2>3
  <2>4. CASE Subscribed  BY <2>4
  <2>5. CASE AddReplyer  BY <2>5
  <2> QED BY <2>1, <2>2, <2>3, <2>4, <2>5
<1>2. BusInv'
  BY DEF BusInv, InsidePublish, TypeOK
<1>3. OwnerInv'
  BY DEF OwnerInv, Open, TypeOK
<1>4. EntryInv'
  BY DEF EntryInv, TypeOK, OwnerInv, Open, ThreadInv, LocalInv, Holding
<1>5. ThreadInv'
  BY DEF ThreadInv, LocalInv, Holding, TypeOK, EntryInv, OwnerInv, Open
<1>6. AnswerOwnRequest'
  BY DEF AnswerOwnRequest, TypeOK, ThreadInv, LocalInv
<1>7. OnlyKnownLeaks'
  BY DEF OnlyKnownLeaks, TypeOK, EntryInv, ThreadInv, LocalInv, Holding
<1> QED BY <1>1, <1>2, <1>3, <1>4, <1>5, <1>6, <1>7

(* A request arrives at a connection no thread has.                        *)
LEMMA SendPreserves ==
  ASSUME IInv, NEW c \in ConnIds, NEW k \in Kinds, Send(c, k)
  PROVE  IInv'
<1> USE PoolFacts, Ids, GatewayAssumption, BusAssumption, FdOfOwns
    DEF IInv, Send, clients, server, socks, local
<1>1. TypeOK'
  BY DEF TypeOK, BusTypeOK, Labels, Kinds
<1>2. BusInv'
  BY DEF BusInv, InsidePublish, TypeOK
<1>3. OwnerInv'
  BY DEF OwnerInv, Open, TypeOK
<1>4. EntryInv'
  BY DEF EntryInv, TypeOK, OwnerInv, Open, ThreadInv, LocalInv, Holding
<1>5. ThreadInv'
  BY DEF ThreadInv, LocalInv, Holding, TypeOK, EntryInv, OwnerInv, Open
<1>6. AnswerOwnRequest'
  BY DEF AnswerOwnRequest, TypeOK, ThreadInv, LocalInv
<1>7. OnlyKnownLeaks'
  BY DEF OnlyKnownLeaks, TypeOK, EntryInv, ThreadInv, LocalInv, Holding
<1> QED BY <1>1, <1>2, <1>3, <1>4, <1>5, <1>6, <1>7

(* A reset changes no table of the server.                                 *)
LEMMA ResetPreserves ==
  ASSUME IInv, NEW c \in ConnIds, Reset(c)
  PROVE  IInv'
<1> USE PoolFacts, Ids, GatewayAssumption, BusAssumption, FdOfOwns
    DEF IInv, Reset, clients, server, socks, local
<1>1. TypeOK'
  BY DEF TypeOK, BusTypeOK, Labels, Kinds
<1>2. BusInv'
  BY DEF BusInv, InsidePublish, TypeOK
<1>3. OwnerInv'
  BY DEF OwnerInv, Open, TypeOK
<1>4. EntryInv'
  BY DEF EntryInv, TypeOK, OwnerInv, Open, ThreadInv, LocalInv, Holding
<1>5. ThreadInv'
  BY DEF ThreadInv, LocalInv, Holding, TypeOK, EntryInv, OwnerInv, Open
<1>6. AnswerOwnRequest'
  BY DEF AnswerOwnRequest, TypeOK, ThreadInv, LocalInv
<1>7. OnlyKnownLeaks'
  BY DEF OnlyKnownLeaks, TypeOK, EntryInv, ThreadInv, LocalInv, Holding
<1> QED BY <1>1, <1>2, <1>3, <1>4, <1>5, <1>6, <1>7

(* Opening the acceptor.                                                   *)
LEMMA ListenPreserves ==
  ASSUME IInv, NEW t \in Pool, Listen(t)
  PROVE  IInv'
<1> USE PoolFacts, Ids, GatewayAssumption, BusAssumption, FdOfOwns
    DEF IInv, Listen, clients, server, socks, local
<1>1. TypeOK'
  BY DEF TypeOK, BusTypeOK, Labels, Kinds
<1>2. BusInv'
  BY DEF BusInv, InsidePublish, TypeOK
<1>3. OwnerInv'
  BY DEF OwnerInv, Open, TypeOK
<1>4. EntryInv'
  BY DEF EntryInv, TypeOK, OwnerInv, Open, ThreadInv, LocalInv, Holding
<1>5. ThreadInv'
  BY DEF ThreadInv, LocalInv, Holding, TypeOK, EntryInv, OwnerInv, Open
<1>6. AnswerOwnRequest'
  BY DEF AnswerOwnRequest, TypeOK, ThreadInv, LocalInv
<1>7. OnlyKnownLeaks'
  BY DEF OnlyKnownLeaks, TypeOK, EntryInv, ThreadInv, LocalInv, Holding
<1> QED BY <1>1, <1>2, <1>3, <1>4, <1>5, <1>6, <1>7

(* A new connection gets a free descriptor.                                *)
LEMMA AcceptPreserves ==
  ASSUME IInv, NEW t \in Pool, Accept(t)
  PROVE  IInv'
<1> USE PoolFacts, Ids, GatewayAssumption, BusAssumption, FdOfOwns
    DEF IInv, Accept, clients, server, socks, local
<1>1. TypeOK'
  <2>1. nextConnId' \in 1..(MaxConns + 1)
    BY DEF TypeOK, ConnIds
  <2> QED BY <2>1 DEF TypeOK, BusTypeOK
<1>2. BusInv'
  BY DEF BusInv, InsidePublish, TypeOK
<1>3. OwnerInv'
  BY DEF OwnerInv, Open, TypeOK
<1>4. EntryInv'
  BY DEF EntryInv, TypeOK, OwnerInv, Open, ThreadInv, LocalInv, Holding
<1>5. ThreadInv'
  BY DEF ThreadInv, LocalInv, Holding, TypeOK, EntryInv, OwnerInv, Open
<1>6. AnswerOwnRequest'
  BY DEF AnswerOwnRequest, TypeOK, ThreadInv, LocalInv
<1>7. OnlyKnownLeaks'
  BY DEF OnlyKnownLeaks, TypeOK, EntryInv, OwnerInv
<1> QED BY <1>1, <1>2, <1>3, <1>4, <1>5, <1>6, <1>7

(* A session dropped before its request.                                   *)
LEMMA ReadFailsPreserves ==
  ASSUME IInv, NEW t \in Pool, NEW c \in ConnIds, ReadFails(t, c)
  PROVE  IInv'
<1> USE PoolFacts, Ids, GatewayAssumption, BusAssumption, FdOfOwns
    DEF IInv, ReadFails, clients, server, socks, local
<1>1. TypeOK'
  BY DEF TypeOK, BusTypeOK, Labels, Kinds
<1>2. BusInv'
  BY DEF BusInv, InsidePublish, TypeOK
<1>3. OwnerInv'
  BY DEF OwnerInv, Open, TypeOK
<1>4. EntryInv'
  BY DEF EntryInv, TypeOK, OwnerInv, Open, ThreadInv, LocalInv, Holding
<1>5. ThreadInv'
  BY DEF ThreadInv, LocalInv, Holding, TypeOK, EntryInv, OwnerInv, Open
<1>6. AnswerOwnRequest'
  BY DEF AnswerOwnRequest, TypeOK, ThreadInv, LocalInv
<1>7. OnlyKnownLeaks'
  BY DEF OnlyKnownLeaks, TypeOK, EntryInv, ThreadInv, LocalInv, Holding
<1> QED BY <1>1, <1>2, <1>3, <1>4, <1>5, <1>6, <1>7

(* The socket moves to a WebSocketSession.                                 *)
LEMMA UpgradePreserves ==
  ASSUME IInv, NEW t \in Pool, NEW c \in ConnIds, Upgrade(t, c)
  PROVE  IInv'
<1> USE PoolFacts, Ids, GatewayAssumption, BusAssumption, FdOfOwns
    DEF IInv, Upgrade, clients, server, socks, local
<1>1. TypeOK'
  BY DEF TypeOK, BusTypeOK, Labels, Kinds
<1>2. BusInv'
  BY DEF BusInv, InsidePublish, TypeOK
<1>3. OwnerInv'
  BY DEF OwnerInv, Open, TypeOK
<1>4. EntryInv'
  BY DEF EntryInv, TypeOK, OwnerInv, Open, ThreadInv, LocalInv, Holding
<1>5. ThreadInv'
  BY DEF ThreadInv, LocalInv, Holding, TypeOK, EntryInv, OwnerInv, Open
<1>6. AnswerOwnRequest'
  BY DEF AnswerOwnRequest, TypeOK, ThreadInv, LocalInv
<1>7. OnlyKnownLeaks'
  BY DEF OnlyKnownLeaks, TypeOK, EntryInv, ThreadInv, LocalInv, Holding
<1> QED BY <1>1, <1>2, <1>3, <1>4, <1>5, <1>6, <1>7

(* The process ends; its state stays.                                      *)
LEMMA SessionEndsPreserves ==
  ASSUME IInv, NEW c \in ConnIds, SessionEnds(c)
  PROVE  IInv'
<1> USE PoolFacts, Ids, GatewayAssumption, BusAssumption, FdOfOwns
    DEF IInv, SessionEnds, clients, server, socks, local
<1>1. TypeOK'
  BY DEF TypeOK, BusTypeOK, Labels, Kinds
<1>2. BusInv'
  BY DEF BusInv, InsidePublish, TypeOK
<1>3. OwnerInv'
  BY DEF OwnerInv, Open, TypeOK
<1>4. EntryInv'
  BY DEF EntryInv, TypeOK, OwnerInv, Open, ThreadInv, LocalInv, Holding
<1>5. ThreadInv'
  BY DEF ThreadInv, LocalInv, Holding, TypeOK, EntryInv, OwnerInv, Open
<1>6. AnswerOwnRequest'
  BY DEF AnswerOwnRequest, TypeOK, ThreadInv, LocalInv
<1>7. OnlyKnownLeaks'
  BY DEF OnlyKnownLeaks, TypeOK, EntryInv, ThreadInv, LocalInv, Holding
<1> QED BY <1>1, <1>2, <1>3, <1>4, <1>5, <1>6, <1>7

(* The thread takes the connection and its descriptor.                     *)
LEMMA ReadRequestPreserves ==
  ASSUME IInv, NEW t \in Pool, NEW c \in ConnIds, ReadRequest(t, c)
  PROVE  IInv'
<1> USE PoolFacts, Ids, GatewayAssumption, BusAssumption, FdOfOwns
    DEF IInv, ReadRequest, clients, server, socks, local
<1>0. FdOf(c) \in Fds /\ owner[FdOf(c)] = c
  BY DEF Open
<1>1. TypeOK'
  BY <1>0 DEF TypeOK, BusTypeOK, Labels
<1>2. BusInv'
  BY DEF BusInv, InsidePublish, TypeOK
<1>3. OwnerInv'
  BY DEF OwnerInv, Open, TypeOK
<1>4. EntryInv'
  BY DEF EntryInv, TypeOK, OwnerInv, Open, ThreadInv, LocalInv, Holding
<1>5. ThreadInv'
  BY DEF ThreadInv, LocalInv, Holding, TypeOK, EntryInv, OwnerInv, Open
<1>6. AnswerOwnRequest'
  BY DEF AnswerOwnRequest, TypeOK, ThreadInv, LocalInv
<1>7. OnlyKnownLeaks'
  BY DEF OnlyKnownLeaks, TypeOK, EntryInv, ThreadInv, LocalInv, Holding
<1> QED BY <1>1, <1>2, <1>3, <1>4, <1>5, <1>6, <1>7

(* The descriptor goes from the thread to connections_.                    *)
LEMMA EmplacePreserves ==
  ASSUME IInv, NEW t \in Pool, Emplace(t)
  PROVE  IInv'
<1> USE PoolFacts, Ids, GatewayAssumption, BusAssumption, FdOfOwns
    DEF IInv, Emplace, clients, server, socks, local
<1>0. mine[t] \in ConnIds
  BY Busy
<1>1. TypeOK'
  BY <1>0 DEF TypeOK, BusTypeOK, Labels, Kinds
<1>2. BusInv'
  BY <1>0 DEF BusInv, InsidePublish, TypeOK
<1>3. OwnerInv'
  BY StaysOpen, Busy DEF ThreadInv, LocalInv, Open
<1>4. EntryInv'
  BY <1>0 DEF EntryInv, TypeOK, OwnerInv, Open, ThreadInv, LocalInv, Holding
<1>5. ThreadInv'
  BY <1>0 DEF ThreadInv, LocalInv, Holding, TypeOK, EntryInv, OwnerInv, Open
<1>6. AnswerOwnRequest'
  BY <1>0 DEF AnswerOwnRequest, TypeOK, ThreadInv, LocalInv
<1>7. OnlyKnownLeaks'
  BY <1>0 DEF OnlyKnownLeaks, TypeOK, EntryInv, ThreadInv, LocalInv, Holding
<1> QED BY <1>1, <1>2, <1>3, <1>4, <1>5, <1>6, <1>7

(* The bus admits the thread only if nobody is inside.                     *)
LEMMA PublishPreserves ==
  ASSUME IInv, NEW t \in Pool, Publish(t)
  PROVE  IInv'
<1> USE PoolFacts, Ids, GatewayAssumption, BusAssumption, FdOfOwns
    DEF IInv, Publish, Acquire, clients, server, socks, local
<1>0. mine[t] \in ConnIds /\ conn[mine[t]] = "held" /\ connections[mine[t]] # NoFd
  BY Busy DEF ThreadInv, LocalInv, Holding
<1>1a. /\ connections' = connections /\ wire' = wire
       /\ \/ conn' = conn
          \/ conn' = [conn EXCEPT ![mine[t]] = "unheard"]
  OBVIOUS
<1>1. TypeOK'
  BY <1>0 DEF TypeOK, BusTypeOK, Labels, Kinds
<1>2. BusInv'
  BY <1>0 DEF BusInv, InsidePublish, TypeOK
<1>3. OwnerInv'
  <2>1. CASE DispatchSubscribed
    BY <2>1 DEF OwnerInv
  <2>2. CASE ~DispatchSubscribed
    BY <1>0, <2>2, StaysOpen DEF Open
  <2> QED BY <2>1, <2>2
<1>4. EntryInv'
  BY <1>0 DEF EntryInv, TypeOK, OwnerInv, Open, ThreadInv, LocalInv, Holding
<1>5. ThreadInv'
  <2> USE DEF TypeOK, ThreadInv
  <2>1. LocalInv(t)'
    <3>1. /\ conn'[mine[t]] = IF DispatchSubscribed THEN "held" ELSE "unheard"
          /\ pc'[t] = IF DispatchSubscribed THEN "dispatch" ELSE "leave"
          /\ mine'[t] = mine[t] /\ connections'[mine[t]] # NoFd
      BY <1>0
    <3> QED BY <1>0, <3>1, Ids DEF LocalInv, Holding
  <2>2. ASSUME NEW u \in Pool, u # t  PROVE LocalInv(u)'
    <3>1. /\ pc'[u] = pc[u] /\ mine'[u] = mine[u]
          /\ reply'[u] = reply[u] /\ fd'[u] = fd[u]
      BY <2>2
    <3>2. CASE pc[u] = "idle"
      BY <3>1, <3>2 DEF LocalInv, Holding
    <3>3. CASE pc[u] # "idle"
      <4>1. mine[u] \in ConnIds /\ mine[u] # mine[t]
        BY <2>2, <3>3, Others
      <4>2. /\ conn'[mine[u]] = conn[mine[u]] /\ wire' = wire
            /\ connections'[mine[u]] = connections[mine[u]]
        <5>1. mine[u] \in DOMAIN conn
          BY <4>1
        <5>2. CASE conn' = conn
          BY <1>1a, <5>2
        <5>3. CASE conn' = [conn EXCEPT ![mine[t]] = "unheard"]
          <6>1. conn'[mine[u]] = conn[mine[u]]
            BY <4>1, <5>1, <5>3, Elsewhere
          <6> QED BY <1>1a, <6>1
        <5> QED BY <1>1a, <5>2, <5>3
      <4>3. pc[u] \in {"emplace", "write", "close"} =>
              fd[u] \in Fds /\ owner'[fd[u]] = owner[fd[u]]
        BY <1>0, <2>2, <3>3, <4>1, Busy DEF LocalInv
      <4> QED BY <3>1, <3>3, <4>1, <4>2, <4>3 DEF LocalInv, Holding
    <3> QED BY <3>2, <3>3
  <2> QED BY <1>0, <2>1, <2>2
<1>6. AnswerOwnRequest'
  BY <1>0 DEF AnswerOwnRequest, TypeOK, ThreadInv, LocalInv
<1>7. OnlyKnownLeaks'
  BY <1>0 DEF OnlyKnownLeaks, TypeOK, EntryInv, ThreadInv, LocalInv, Holding
<1> QED BY <1>1, <1>2, <1>3, <1>4, <1>5, <1>6, <1>7

(* The answer names the request's connection, or none for /health.         *)
LEMMA DispatchPreserves ==
  ASSUME IInv, NEW t \in Pool, Dispatch(t)
  PROVE  IInv'
<1> USE PoolFacts, Ids, GatewayAssumption, BusAssumption, FdOfOwns
    DEF IInv, Dispatch, clients, server, socks, local
<1>0. mine[t] \in ConnIds
  BY Busy
<1>1. TypeOK'
  BY <1>0 DEF TypeOK, BusTypeOK, Labels, Kinds
<1>2. BusInv'
  BY <1>0 DEF BusInv, InsidePublish, TypeOK
<1>3. OwnerInv'
  BY <1>0 DEF OwnerInv, Open, TypeOK
<1>4. EntryInv'
  BY <1>0 DEF EntryInv, TypeOK, OwnerInv, Open, ThreadInv, LocalInv, Holding
<1>5. ThreadInv'
  <2> USE DEF TypeOK, ThreadInv
  <2>1. LocalInv(t)'
    <3>1. /\ pc'[t] = "nested" /\ mine'[t] = mine[t]
          /\ \/ reply'[t] = mine[t]
             \/ reply'[t] = NoConn /\ wire[mine[t]] = "health"
      OBVIOUS
    <3>2. conn[mine[t]] = "held" /\ connections[mine[t]] # NoFd
      BY DEF LocalInv, Holding
    <3> QED BY <1>0, <3>1, <3>2, Ids DEF LocalInv, Holding
  <2>2. ASSUME NEW u \in Pool, u # t  PROVE LocalInv(u)'
    <3>1. /\ pc'[u] = pc[u] /\ mine'[u] = mine[u]
          /\ reply'[u] = reply[u] /\ fd'[u] = fd[u]
      BY <2>2
    <3>2. CASE pc[u] = "idle"
      BY <3>1, <3>2 DEF LocalInv, Holding
    <3>3. CASE pc[u] # "idle"
      <4>1. mine[u] \in ConnIds /\ mine[u] # mine[t]
        BY <2>2, <3>3, Others
      <4>2. /\ conn'[mine[u]] = conn[mine[u]] /\ wire' = wire
            /\ connections'[mine[u]] = connections[mine[u]]
        BY <1>0, <4>1, Ids
      <4>3. pc[u] \in {"emplace", "write", "close"} =>
              fd[u] \in Fds /\ owner'[fd[u]] = owner[fd[u]]
        BY <1>0, <2>2, <3>3, <4>1, Busy DEF LocalInv
      <4> QED BY <3>1, <3>3, <4>1, <4>2, <4>3 DEF LocalInv, Holding
    <3> QED BY <3>2, <3>3
  <2> QED BY <1>0, <2>1, <2>2
<1>6. AnswerOwnRequest'
  BY <1>0 DEF AnswerOwnRequest, TypeOK, ThreadInv, LocalInv
<1>7. OnlyKnownLeaks'
  BY <1>0 DEF OnlyKnownLeaks, TypeOK, EntryInv, ThreadInv, LocalInv, Holding
<1> QED BY <1>1, <1>2, <1>3, <1>4, <1>5, <1>6, <1>7

(* The nested publish keeps the bus.                                       *)
LEMMA PublishResponsePreserves ==
  ASSUME IInv, NEW t \in Pool, PublishResponse(t)
  PROVE  IInv'
<1> USE PoolFacts, Ids, GatewayAssumption, BusAssumption, FdOfOwns
    DEF IInv, PublishResponse, Reenter, Wedge, clients, server, socks, local
<1>0. mine[t] \in ConnIds
  BY Busy
<1>1. TypeOK'
  BY <1>0 DEF TypeOK, BusTypeOK, Labels, Kinds
<1>2. BusInv'
  BY <1>0 DEF BusInv, InsidePublish, TypeOK
<1>3. OwnerInv'
  BY <1>0 DEF OwnerInv, Open, TypeOK
<1>4. EntryInv'
  BY <1>0 DEF EntryInv, TypeOK, OwnerInv, Open, ThreadInv, LocalInv, Holding
<1>5. ThreadInv'
  BY <1>0 DEF ThreadInv, LocalInv, Holding, TypeOK, EntryInv, OwnerInv, Open
<1>6. AnswerOwnRequest'
  BY <1>0 DEF AnswerOwnRequest, TypeOK, ThreadInv, LocalInv
<1>7. OnlyKnownLeaks'
  BY <1>0 DEF OnlyKnownLeaks, TypeOK, EntryInv, ThreadInv, LocalInv, Holding
<1> QED BY <1>1, <1>2, <1>3, <1>4, <1>5, <1>6, <1>7

(* The descriptor comes back from connections_.                            *)
LEMMA ErasePreserves ==
  ASSUME IInv, NEW t \in Pool, Erase(t)
  PROVE  IInv'
<1> USE PoolFacts, Ids, GatewayAssumption, BusAssumption, FdOfOwns
    DEF IInv, Erase, Known, clients, server, socks, local
<1>0. /\ mine[t] \in ConnIds /\ conn[mine[t]] = "held"
      /\ connections[mine[t]] \in Fds /\ owner[connections[mine[t]]] = mine[t]
      /\ reply[t] \in {NoConn, mine[t]}
  BY Busy DEF ThreadInv, LocalInv, Holding
<1>1a. /\ conn' = conn /\ wire' = wire
       /\ \/ connections' = connections
          \/ connections' = [connections EXCEPT ![mine[t]] = NoFd]
  BY <1>0
<1>1. TypeOK'
  <2>1. reply[t] \in ConnIds => connections[reply[t]] \in Fds \cup {NoFd}
    BY DEF TypeOK
  <2> QED BY <2>1 DEF TypeOK, BusTypeOK, Labels
<1>2. BusInv'
  BY <1>0 DEF BusInv, InsidePublish, TypeOK
<1>3. OwnerInv'
  BY <1>0 DEF OwnerInv, Open, TypeOK
<1>4. EntryInv'
  BY <1>0 DEF EntryInv, TypeOK, OwnerInv, Open, ThreadInv, LocalInv, Holding
<1>5. ThreadInv'
  <2> USE DEF TypeOK, ThreadInv
  <2>1. LocalInv(t)'
    <3>1. pc'[t] # "idle" /\ mine'[t] = mine[t]
      OBVIOUS
    <3> QED BY <1>0, <3>1 DEF LocalInv, Holding
  <2>2. ASSUME NEW u \in Pool, u # t  PROVE LocalInv(u)'
    <3>1. /\ pc'[u] = pc[u] /\ mine'[u] = mine[u]
          /\ reply'[u] = reply[u] /\ fd'[u] = fd[u]
      BY <2>2
    <3>2. CASE pc[u] = "idle"
      BY <3>1, <3>2 DEF LocalInv, Holding
    <3>3. CASE pc[u] # "idle"
      <4>1. mine[u] \in ConnIds /\ mine[u] # mine[t]
        BY <2>2, <3>3, Others
      <4>2. /\ conn'[mine[u]] = conn[mine[u]] /\ wire' = wire
            /\ connections'[mine[u]] = connections[mine[u]]
        <5>1. mine[u] \in DOMAIN connections
          BY <4>1
        <5>2. CASE connections' = connections
          BY <1>1a, <5>2
        <5>3. CASE connections' = [connections EXCEPT ![mine[t]] = NoFd]
          <6>1. connections'[mine[u]] = connections[mine[u]]
            BY <4>1, <5>1, <5>3, Elsewhere
          <6> QED BY <1>1a, <6>1
        <5> QED BY <1>1a, <5>2, <5>3
      <4>3. pc[u] \in {"emplace", "write", "close"} =>
              fd[u] \in Fds /\ owner'[fd[u]] = owner[fd[u]]
        BY <1>0, <2>2, <3>3, <4>1, Busy DEF LocalInv
      <4> QED BY <3>1, <3>3, <4>1, <4>2, <4>3 DEF LocalInv, Holding
    <3> QED BY <3>2, <3>3
  <2> QED BY <1>0, <2>1, <2>2
<1>6. AnswerOwnRequest'
  BY <1>0 DEF AnswerOwnRequest, TypeOK, ThreadInv, LocalInv
<1>7. OnlyKnownLeaks'
  BY <1>0 DEF OnlyKnownLeaks, TypeOK, EntryInv, ThreadInv, LocalInv, Holding
<1> QED BY <1>1, <1>2, <1>3, <1>4, <1>5, <1>6, <1>7

(* The owner of the descriptor is the thread's own connection.             *)
LEMMA WritePreserves ==
  ASSUME IInv, NEW t \in Pool, Write(t)
  PROVE  IInv'
<1> USE PoolFacts, Ids, GatewayAssumption, BusAssumption, FdOfOwns
    DEF IInv, Write, clients, server, socks, local
<1>0. mine[t] \in ConnIds
  BY Busy
<1>1. TypeOK'
  BY <1>0 DEF TypeOK, BusTypeOK, Labels, Kinds
<1>2. BusInv'
  BY <1>0 DEF BusInv, InsidePublish, TypeOK
<1>3. OwnerInv'
  BY StaysOpen, Busy DEF ThreadInv, LocalInv, Open
<1>4. EntryInv'
  BY <1>0 DEF EntryInv, TypeOK, OwnerInv, Open, ThreadInv, LocalInv, Holding
<1>5. ThreadInv'
  BY <1>0 DEF ThreadInv, LocalInv, Holding, TypeOK, EntryInv, OwnerInv, Open
<1>6. AnswerOwnRequest'
  BY <1>0 DEF AnswerOwnRequest, TypeOK, ThreadInv, LocalInv
<1>7. OnlyKnownLeaks'
  BY <1>0 DEF OnlyKnownLeaks, TypeOK, EntryInv, ThreadInv, LocalInv, Holding
<1> QED BY <1>1, <1>2, <1>3, <1>4, <1>5, <1>6, <1>7

(* The kernel may give the descriptor out again.                           *)
LEMMA ClosePreserves ==
  ASSUME IInv, NEW t \in Pool, Close(t)
  PROVE  IInv'
<1> USE PoolFacts, Ids, GatewayAssumption, BusAssumption, FdOfOwns
    DEF IInv, Close, clients, server, socks, local
<1>0. mine[t] \in ConnIds
  BY Busy
<1>1. TypeOK'
  BY <1>0 DEF TypeOK, BusTypeOK, Labels, Kinds
<1>2. BusInv'
  BY <1>0 DEF BusInv, InsidePublish, TypeOK
<1>3. OwnerInv'
  BY Closes, Busy DEF ThreadInv, LocalInv, Open
<1>4. EntryInv'
  BY <1>0 DEF EntryInv, TypeOK, OwnerInv, Open, ThreadInv, LocalInv, Holding
<1>5. ThreadInv'
  <2> USE DEF TypeOK, ThreadInv
  <2>1. LocalInv(t)'
    <3>1. pc'[t] = "leave" /\ mine'[t] = mine[t] /\ conn'[mine[t]] = "closed"
      BY <1>0
    <3>2. connections'[mine[t]] = NoFd
      BY <1>0 DEF EntryInv, LocalInv
    <3> QED BY <1>0, <3>1, <3>2, Ids DEF LocalInv, Holding
  <2>2. ASSUME NEW u \in Pool, u # t  PROVE LocalInv(u)'
    <3>1. /\ pc'[u] = pc[u] /\ mine'[u] = mine[u]
          /\ reply'[u] = reply[u] /\ fd'[u] = fd[u]
      BY <2>2
    <3>2. CASE pc[u] = "idle"
      BY <3>1, <3>2 DEF LocalInv, Holding
    <3>3. CASE pc[u] # "idle"
      <4>1. mine[u] \in ConnIds /\ mine[u] # mine[t]
        BY <2>2, <3>3, Others
      <4>2. /\ conn'[mine[u]] = conn[mine[u]] /\ wire' = wire
            /\ connections'[mine[u]] = connections[mine[u]]
        BY <1>0, <4>1, Ids
      <4>3. pc[u] \in {"emplace", "write", "close"} =>
              fd[u] \in Fds /\ owner'[fd[u]] = owner[fd[u]]
        BY <1>0, <2>2, <3>3, <4>1, Busy DEF LocalInv
      <4> QED BY <3>1, <3>3, <4>1, <4>2, <4>3 DEF LocalInv, Holding
    <3> QED BY <3>2, <3>3
  <2> QED BY <1>0, <2>1, <2>2
<1>6. AnswerOwnRequest'
  BY <1>0 DEF AnswerOwnRequest, TypeOK, ThreadInv, LocalInv
<1>7. OnlyKnownLeaks'
  BY <1>0 DEF OnlyKnownLeaks, TypeOK, EntryInv, ThreadInv, LocalInv, Holding
<1> QED BY <1>1, <1>2, <1>3, <1>4, <1>5, <1>6, <1>7

(* The thread forgets the connection and frees the bus.                    *)
LEMMA LeavePreserves ==
  ASSUME IInv, NEW t \in Pool, Leave(t)
  PROVE  IInv'
<1> USE PoolFacts, Ids, GatewayAssumption, BusAssumption, FdOfOwns
    DEF IInv, Leave, Release, clients, server, socks, local
<1>0. mine[t] \in ConnIds
  BY Busy
<1>1. TypeOK'
  BY <1>0 DEF TypeOK, BusTypeOK, Labels, Kinds
<1>2. BusInv'
  BY <1>0 DEF BusInv, InsidePublish, TypeOK
<1>3. OwnerInv'
  BY <1>0 DEF OwnerInv, Open, TypeOK
<1>4. EntryInv'
  BY <1>0 DEF EntryInv, TypeOK, OwnerInv, Open, ThreadInv, LocalInv, Holding
<1>5. ThreadInv'
  BY <1>0 DEF ThreadInv, LocalInv, Holding, TypeOK, EntryInv, OwnerInv, Open
<1>6. AnswerOwnRequest'
  BY <1>0 DEF AnswerOwnRequest, TypeOK, ThreadInv, LocalInv
<1>7. OnlyKnownLeaks'
  BY <1>0 DEF OnlyKnownLeaks, TypeOK, EntryInv, ThreadInv, LocalInv, Holding
<1> QED BY <1>1, <1>2, <1>3, <1>4, <1>5, <1>6, <1>7

(* The process ends; its state stays.                                      *)
LEMMA DiePreserves ==
  ASSUME IInv, Die
  PROVE  IInv'
<1> USE PoolFacts, Ids, GatewayAssumption, BusAssumption, FdOfOwns
    DEF IInv, Die, clients, server, socks, local
<1>1. TypeOK'
  BY DEF TypeOK, BusTypeOK, Labels, Kinds
<1>2. BusInv'
  BY DEF BusInv, InsidePublish, TypeOK
<1>3. OwnerInv'
  BY DEF OwnerInv, Open, TypeOK
<1>4. EntryInv'
  BY DEF EntryInv, TypeOK, OwnerInv, Open, ThreadInv, LocalInv, Holding
<1>5. ThreadInv'
  BY DEF ThreadInv, LocalInv, Holding, TypeOK, EntryInv, OwnerInv, Open
<1>6. AnswerOwnRequest'
  BY DEF AnswerOwnRequest, TypeOK, ThreadInv, LocalInv
<1>7. OnlyKnownLeaks'
  BY DEF OnlyKnownLeaks, TypeOK, EntryInv, ThreadInv, LocalInv, Holding
<1> QED BY <1>1, <1>2, <1>3, <1>4, <1>5, <1>6, <1>7

(* Stuttering.                                                             *)
LEMMA StutterPreserves ==
  ASSUME IInv, UNCHANGED vars
  PROVE  IInv'
<1> USE PoolFacts, Ids, GatewayAssumption, BusAssumption, FdOfOwns
    DEF IInv, vars, clients, server, socks, local
<1>1. TypeOK'
  BY DEF TypeOK, BusTypeOK, Labels, Kinds
<1>2. BusInv'
  BY DEF BusInv, InsidePublish, TypeOK
<1>3. OwnerInv'
  BY DEF OwnerInv, Open, TypeOK
<1>4. EntryInv'
  BY DEF EntryInv, TypeOK, OwnerInv, Open, ThreadInv, LocalInv, Holding
<1>5. ThreadInv'
  BY DEF ThreadInv, LocalInv, Holding, TypeOK, EntryInv, OwnerInv, Open
<1>6. AnswerOwnRequest'
  BY DEF AnswerOwnRequest, TypeOK, ThreadInv, LocalInv
<1>7. OnlyKnownLeaks'
  BY DEF OnlyKnownLeaks, TypeOK, EntryInv, ThreadInv, LocalInv, Holding
<1> QED BY <1>1, <1>2, <1>3, <1>4, <1>5, <1>6, <1>7

-----------------------------------------------------------------------------
(* The invariant, and what follows from it. *)

(* Initially nothing is open and nobody is inside. *)
LEMMA InitEstablishes == Init => IInv
<1> SUFFICES ASSUME Init PROVE IInv
  OBVIOUS
<1> USE Ids, BusAssumption, GatewayAssumption DEF Init, BusInit
<1>1. TypeOK
  BY DEF TypeOK, BusTypeOK, Labels, ConnIds
<1>2. BusInv
  BY PoolFacts DEF BusInv, InsidePublish
<1>3. OwnerInv
  BY DEF OwnerInv, Open, ConnIds
<1>4. EntryInv
  BY DEF EntryInv
<1>5. ThreadInv
  BY DEF ThreadInv, LocalInv, Holding
<1>6. AnswerOwnRequest /\ OnlyKnownLeaks
  BY DEF AnswerOwnRequest, OnlyKnownLeaks
<1> QED BY <1>1, <1>2, <1>3, <1>4, <1>5, <1>6 DEF IInv

(* Every step of the program preserves the invariant. *)
LEMMA NextPreserves == IInv /\ [Next]_vars => IInv'
<1> SUFFICES ASSUME IInv, [Next]_vars PROVE IInv'
  OBVIOUS
<1>1. CASE Boot
  BY <1>1, BootPreserves
<1>2. CASE Die
  BY <1>2, DiePreserves
<1>3. CASE Peer
  BY <1>3, SendPreserves, ResetPreserves, SessionEndsPreserves DEF Peer
<1>4. ASSUME NEW t \in Pool, Accept(t)  PROVE IInv'
  BY <1>4, AcceptPreserves
<1>5. ASSUME NEW t \in Pool, Complete(t)  PROVE IInv'
  BY <1>5, ListenPreserves, ReadFailsPreserves, UpgradePreserves,
     ReadRequestPreserves DEF Complete
<1>6. ASSUME NEW t \in Pool, Handle(t)  PROVE IInv'
  BY <1>6, EmplacePreserves, PublishPreserves, DispatchPreserves,
     PublishResponsePreserves, ErasePreserves, WritePreserves, ClosePreserves,
     LeavePreserves DEF Handle
<1>7. CASE UNCHANGED vars
  BY <1>7, StutterPreserves
<1> QED BY <1>1, <1>2, <1>3, <1>4, <1>5, <1>6, <1>7 DEF Next

LEMMA Invariance == Spec => []IInv
BY InitEstablishes, NextPreserves, PTL DEF Spec

(* Every variable of the gateway keeps its type. *)
THEOREM TypeCorrect == Spec => []TypeOK
<1>1. IInv => TypeOK
  BY DEF IInv
<1> QED BY <1>1, Invariance, PTL

(* However many threads the pool has, at most one walks the subscriber     *)
(* lists of the EventBus, and none while the main thread appends to them.  *)
THEOREM SubscribersAreExclusive == Spec => []SubscriberListExclusive
<1>1. IInv => SubscriberListExclusive
  BY PoolFacts DEF IInv, BusInv, SubscriberListExclusive
<1> QED BY <1>1, Invariance, PTL

(* However descriptors are reused, connections are reset and threads are   *)
(* scheduled, no peer is sent the answer to another peer's request.        *)
THEOREM PeersGetTheirOwnAnswers == Spec => []AnswerOwnRequest
<1>1. IInv => AnswerOwnRequest
  BY DEF IInv
<1> QED BY <1>1, Invariance, PTL

(* A descriptor in connections_ or in the hands of a thread is open and    *)
(* belongs to its connection: none is written to or closed after its end.  *)
THEOREM DescriptorsStayOwn == Spec => []NoForeignDescriptor
<1>1. IInv => NoForeignDescriptor
  BY DEF IInv, EntryInv, ThreadInv, LocalInv, NoForeignDescriptor
<1> QED BY <1>1, Invariance, PTL

(* The two leaks of connections_ that the code has are the only ones. *)
THEOREM LeaksAreKnown == Spec => []OnlyKnownLeaks
<1>1. IInv => OnlyKnownLeaks
  BY DEF IInv
<1> QED BY <1>1, Invariance, PTL

-----------------------------------------------------------------------------
(* The refinement of Exchange: every step of the program is one step of    *)
(* the exchange, or none.                                                  *)

exchange == <<PhaseOf, wire, gone, received, Serving, DispatchSubscribed>>

Exchanges == [Service!Next]_exchange

(* The phases of the states of a connection. *)
LEMMA Phases ==
  /\ Phase("reading") = "open"
  /\ Phase("released") = "taken" /\ Phase("held") = "taken"
  /\ \A s \in {"none", "unheard", "answered", "dropped", "upgraded", "closed"} :
       Phase(s) = s
BY DEF Phase

(* A connection that moves on. *)
LEMMA PhaseMoves ==
  ASSUME IInv, NEW c \in ConnIds, NEW s, conn' = [conn EXCEPT ![c] = s]
  PROVE  /\ PhaseOf[c] = Phase(conn[c])
         /\ PhaseOf' = [PhaseOf EXCEPT ![c] = Phase(s)]
         /\ Phase(s) = Phase(conn[c]) => PhaseOf' = PhaseOf
BY DEF IInv, TypeOK, PhaseOf

LEMMA PhaseStays ==
  ASSUME UNCHANGED conn
  PROVE  UNCHANGED PhaseOf
BY DEF PhaseOf

(* Nobody is served while the bus is free or with the main thread. *)
LEMMA NobodyServed ==
  ASSUME IInv, bus \in {NoThread, Main}
  PROVE  Serving = {}
BY PoolFacts DEF IInv, BusInv, Serving

(* The request that is served is that of the thread inside publish(). *)
LEMMA ServedAlone ==
  ASSUME IInv, NEW t \in Pool, pc[t] \in InsidePublish
  PROVE  Serving = {mine[t]}
BY PoolFacts DEF IInv, BusInv, Serving

(* A thread that stays inside, or outside, changes nothing about that. *)
LEMMA ServingStays ==
  ASSUME IInv, NEW t \in Pool, NEW l, pc' = [pc EXCEPT ![t] = l],
         pc[t] \in InsidePublish <=> l \in InsidePublish, UNCHANGED mine
  PROVE  UNCHANGED Serving
<1>1. \A u \in Pool : pc'[u] \in InsidePublish <=> pc[u] \in InsidePublish
  BY DEF IInv, TypeOK
<1> QED BY <1>1 DEF Serving

(* The steps of the main thread: the endpoints are ready once. *)
LEMMA BootExchanges ==
  ASSUME IInv, Boot
  PROVE  Exchanges
<1>1. UNCHANGED <<PhaseOf, wire, gone, received, Serving>>
  BY DEF Boot, StartHttp, PostAccept, Subscribe, Subscribed, AddReplyer,
         socks, clients, local, PhaseOf, Serving
<1>2. CASE Subscribed
  <2>1. Serving = {}
    BY <1>2, NobodyServed DEF Subscribed, Release
  <2>2. DispatchSubscribed'
    BY <1>2 DEF Subscribed, DispatchSubscribed
  <2>3. Service!Ready
    BY <1>1, <2>1, <2>2 DEF Service!Ready, Service!peers
  <2> QED BY <2>3 DEF Exchanges, Service!Next
<1>3. CASE ~Subscribed
  <2>1. UNCHANGED DispatchSubscribed
    BY <1>3 DEF Boot, StartHttp, PostAccept, Subscribe, AddReplyer,
                DispatchSubscribed
  <2> QED BY <1>1, <2>1 DEF Exchanges, exchange
<1> QED BY <1>2, <1>3

(* What a step leaves alone that touches neither the bus nor a thread. *)
LEMMA ServerStays ==
  ASSUME UNCHANGED <<pc, mine, boot>>
  PROVE  UNCHANGED <<Serving, DispatchSubscribed>>
BY DEF Serving, DispatchSubscribed

LEMMA PeerExchanges ==
  ASSUME IInv, Peer \/ Die
  PROVE  Exchanges
<1>1. ASSUME NEW c \in ConnIds, NEW k \in Kinds, Send(c, k)
      PROVE  Exchanges
  <2>1. UNCHANGED <<PhaseOf, Serving, DispatchSubscribed, gone, received>>
    BY <1>1, ServerStays, PhaseStays DEF Send, socks, local, server
  <2>2. PhaseOf[c] = "open"
    BY <1>1, Phases DEF Send, PhaseOf
  <2>3. Service!Send(c, k) /\ k \in Service!Kinds
    BY <1>1, <2>1, <2>2 DEF Send, Service!Send, Service!Kinds, Kinds
  <2> QED BY <2>3 DEF Exchanges, Service!Next
<1>2. ASSUME NEW c \in ConnIds, Reset(c)
      PROVE  Exchanges
  <2>1. UNCHANGED <<PhaseOf, Serving, DispatchSubscribed, wire, received>>
    BY <1>2, ServerStays, PhaseStays DEF Reset, socks, local, server
  <2>2. PhaseOf[c] \in {"open", "taken"}
    BY <1>2, Phases DEF Reset, PhaseOf
  <2>3. Service!Reset(c)
    BY <1>2, <2>1, <2>2 DEF Reset, Service!Reset
  <2> QED BY <2>3 DEF Exchanges, Service!Next
<1>3. CASE Die \/ \E c \in ConnIds : SessionEnds(c)
  BY <1>3, ServerStays, PhaseStays
     DEF Die, SessionEnds, clients, server, socks, local, Exchanges, exchange
<1> QED BY <1>1, <1>2, <1>3 DEF Peer

(* A connection is accepted; the kernel's table is not the peer's concern. *)
LEMMA AcceptExchanges ==
  ASSUME IInv, NEW t \in Pool, Accept(t)
  PROVE  Exchanges
<1>1. PICK c \in ConnIds : c = nextConnId
  BY DEF Accept
<1>2. conn[c] = "none" /\ conn' = [conn EXCEPT ![c] = "reading"]
  BY <1>1, Ids DEF Accept, IInv, OwnerInv
<1>3. PhaseOf[c] = Phase(conn[c]) /\ PhaseOf' = [PhaseOf EXCEPT ![c] = Phase("reading")]
  BY <1>2, PhaseMoves
<1>4. UNCHANGED <<wire, gone, received, Serving, DispatchSubscribed>>
  BY ServerStays DEF Accept, clients, local
<1>5. Service!Arrive(c)
  BY <1>2, <1>3, <1>4, Phases DEF Service!Arrive, Service!Move, Service!peers
<1> QED BY <1>5 DEF Exchanges, Service!Next

LEMMA CompleteExchanges ==
  ASSUME IInv, NEW t \in Pool, Complete(t)
  PROVE  Exchanges
<1>1. CASE Listen(t)
  BY <1>1, ServerStays, PhaseStays
     DEF Listen, clients, socks, local, Exchanges, exchange
<1>2. ASSUME NEW c \in ConnIds, ReadFails(t, c)
      PROVE  Exchanges
  <2>1. /\ PhaseOf[c] = "open"
        /\ PhaseOf' = [PhaseOf EXCEPT ![c] = "dropped"]
    <3>1. conn[c] = "reading" /\ conn' = [conn EXCEPT ![c] = "dropped"]
      BY <1>2 DEF ReadFails
    <3>2. /\ PhaseOf[c] = Phase(conn[c])
          /\ PhaseOf' = [PhaseOf EXCEPT ![c] = Phase("dropped")]
      BY <3>1, PhaseMoves
    <3> QED BY <3>1, <3>2, Phases
  <2>2. UNCHANGED <<wire, gone, received, Serving, DispatchSubscribed>>
    BY <1>2, ServerStays DEF ReadFails, clients, local, server
  <2>3. Service!Drop(c)
    BY <1>2, <2>1, <2>2 DEF ReadFails, Service!Drop, Service!Move, Service!peers
  <2> QED BY <2>3 DEF Exchanges, Service!Next
<1>3. ASSUME NEW c \in ConnIds, Upgrade(t, c)
      PROVE  Exchanges
  <2>1. /\ PhaseOf[c] = "open"
        /\ PhaseOf' = [PhaseOf EXCEPT ![c] = "upgraded"]
    <3>1. conn[c] = "reading" /\ conn' = [conn EXCEPT ![c] = "upgraded"]
      BY <1>3 DEF Upgrade
    <3>2. /\ PhaseOf[c] = Phase(conn[c])
          /\ PhaseOf' = [PhaseOf EXCEPT ![c] = Phase("upgraded")]
      BY <3>1, PhaseMoves
    <3> QED BY <3>1, <3>2, Phases
  <2>2. UNCHANGED <<wire, gone, received, Serving, DispatchSubscribed>>
    BY <1>3, ServerStays DEF Upgrade, clients, local, server
  <2>3. Service!Upgrade(c)
    BY <1>3, <2>1, <2>2 DEF Upgrade, Service!Upgrade, Service!Move, Service!peers
  <2> QED BY <2>3 DEF Exchanges, Service!Next
<1>4. ASSUME NEW c \in ConnIds, ReadRequest(t, c)
      PROVE  Exchanges
  <2>1. /\ PhaseOf[c] = "open"
        /\ PhaseOf' = [PhaseOf EXCEPT ![c] = "taken"]
    <3>1. conn[c] = "reading" /\ conn' = [conn EXCEPT ![c] = "released"]
      BY <1>4 DEF ReadRequest
    <3>2. /\ PhaseOf[c] = Phase(conn[c])
          /\ PhaseOf' = [PhaseOf EXCEPT ![c] = Phase("released")]
      BY <3>1, PhaseMoves
    <3> QED BY <3>1, <3>2, Phases
  <2>2. UNCHANGED Serving
    <3>1. \A u \in Pool : /\ pc'[u] \in InsidePublish <=> pc[u] \in InsidePublish
                          /\ pc[u] \in InsidePublish => mine'[u] = mine[u]
      BY <1>4 DEF ReadRequest, IInv, TypeOK, InsidePublish
    <3> QED BY <3>1 DEF Serving
  <2>3. UNCHANGED <<wire, gone, received, DispatchSubscribed>>
    BY <1>4 DEF ReadRequest, clients, server, DispatchSubscribed
  <2>4. Service!Take(c)
    BY <1>4, <2>1, <2>2, <2>3
       DEF ReadRequest, Service!Take, Service!Move, Service!peers
  <2> QED BY <2>4 DEF Exchanges, Service!Next
<1> QED BY <1>1, <1>2, <1>3, <1>4 DEF Complete

(* The thread of a connection, and what its place says about it. *)
LEMMA InHand ==
  ASSUME IInv, NEW t \in Pool, pc[t] # "idle"
  PROVE  \E c \in ConnIds :
           /\ c = mine[t]
           /\ pc[t] \in InsidePublish => Serving = {c}
           /\ pc[t] \in Holding => conn[c] = "held"
BY Busy, ServedAlone DEF IInv, ThreadInv, LocalInv

(* The table of descriptors changes hands. *)
LEMMA EmplaceExchanges ==
  ASSUME IInv, NEW t \in Pool, Emplace(t)
  PROVE  Exchanges
<1>1. PICK c \in ConnIds : c = mine[t]
  BY Busy DEF Emplace
<1>2. conn[c] = "released" /\ conn' = [conn EXCEPT ![c] = "held"]
  BY <1>1 DEF Emplace, IInv, ThreadInv, LocalInv
<1>3. Phase("held") = Phase(conn[c])
  BY <1>2, Phases
<1>4. UNCHANGED PhaseOf
  BY <1>2, <1>3, PhaseMoves
<1>5. UNCHANGED Serving
  <2>1. /\ pc' = [pc EXCEPT ![t] = "publish"] /\ mine' = mine
        /\ pc[t] \in InsidePublish <=> "publish" \in InsidePublish
    BY DEF Emplace, InsidePublish
  <2> QED BY <2>1, ServingStays
<1>6. UNCHANGED <<wire, gone, received, DispatchSubscribed>>
  BY DEF Emplace, clients, server, DispatchSubscribed
<1> QED BY <1>4, <1>5, <1>6 DEF Exchanges, exchange

(* The thread enters the bus with the request, if the endpoints listen. *)
LEMMA PublishExchanges ==
  ASSUME IInv, NEW t \in Pool, Publish(t)
  PROVE  Exchanges
<1>1. PICK c \in ConnIds : c = mine[t] /\ conn[c] = "held"
  BY InHand DEF Publish, Holding
<1>2. Serving = {}
  BY NobodyServed DEF Publish, Acquire
<1>3. Serving' = {c}
  <2>1. \A u \in Pool : pc[u] \notin InsidePublish
    BY PoolFacts DEF Publish, Acquire, IInv, BusInv
  <2>2. \A u \in Pool : pc'[u] \in InsidePublish <=> u = t
    BY <2>1 DEF Publish, IInv, TypeOK, InsidePublish
  <2>3. mine' = mine
    BY DEF Publish
  <2> QED BY <1>1, <2>2, <2>3 DEF Serving
<1>4. UNCHANGED <<wire, gone, received, DispatchSubscribed>>
  BY DEF Publish, clients, server, DispatchSubscribed
<1>5. PhaseOf[c] = "taken"
  BY <1>1, Phases DEF PhaseOf
<1>6. CASE DispatchSubscribed
  <2>1. UNCHANGED PhaseOf
    BY <1>6, PhaseStays DEF Publish
  <2>2. Service!Serve(c)
    BY <1>2, <1>3, <1>4, <1>5, <1>6, <2>1 DEF Service!Serve, Service!peers
  <2> QED BY <2>2 DEF Exchanges, Service!Next
<1>7. CASE ~DispatchSubscribed
  <2>1. conn' = [conn EXCEPT ![c] = "unheard"]
    BY <1>1, <1>7 DEF Publish
  <2>2. PhaseOf' = [PhaseOf EXCEPT ![c] = Phase("unheard")]
    BY <2>1, PhaseMoves
  <2>3. Service!Serve(c)
    BY <1>2, <1>3, <1>4, <1>5, <1>7, <2>2, Phases
       DEF Service!Serve, Service!Move, Service!peers
  <2> QED BY <2>3 DEF Exchanges, Service!Next
<1> QED BY <1>6, <1>7

(* What dispatch and writeResponse do to their tables is not seen. *)
LEMMA InnerExchanges ==
  ASSUME IInv, NEW t \in Pool, Dispatch(t) \/ PublishResponse(t) \/ Erase(t)
  PROVE  Exchanges
<1>1. PICK l \in {"nested", "erase", "wedged", "leave", "write"} :
        pc' = [pc EXCEPT ![t] = l] /\ mine' = mine
  BY DEF Dispatch, PublishResponse, Erase
<1>2. pc[t] \in InsidePublish /\ l \in InsidePublish
  BY <1>1 DEF Dispatch, PublishResponse, Erase, InsidePublish
<1>3. UNCHANGED Serving
  BY <1>1, <1>2, ServingStays
<1>4. UNCHANGED <<conn, wire, gone, received, DispatchSubscribed>>
  BY DEF Dispatch, PublishResponse, Erase, clients, server, socks,
         DispatchSubscribed
<1> QED BY <1>3, <1>4, PhaseStays DEF Exchanges, exchange

(* write() on the descriptor of its own connection. *)
LEMMA WriteExchanges ==
  ASSUME IInv, NEW t \in Pool, Write(t)
  PROVE  Exchanges
<1>1. PICK c \in ConnIds : c = mine[t] /\ Serving = {c}
  BY InHand DEF Write, InsidePublish
<1>2. conn[c] = "held" /\ owner[fd[t]] = c
  BY <1>1 DEF Write, IInv, ThreadInv, LocalInv
<1>3. conn' = [conn EXCEPT ![c] = "answered"]
  BY <1>1 DEF Write
<1>4. PhaseOf[c] = Phase(conn[c]) /\ PhaseOf' = [PhaseOf EXCEPT ![c] = Phase("answered")]
  BY <1>3, PhaseMoves
<1>5. UNCHANGED Serving
  <2>1. /\ pc' = [pc EXCEPT ![t] = "close"] /\ mine' = mine
        /\ pc[t] \in InsidePublish <=> "close" \in InsidePublish
    BY DEF Write, InsidePublish
  <2> QED BY <2>1, ServingStays
<1>6. UNCHANGED <<wire, gone, DispatchSubscribed>>
  BY DEF Write, clients, server, DispatchSubscribed
<1>7. received' = IF c \in gone THEN received ELSE [received EXCEPT ![c] = c]
  BY <1>1, <1>2 DEF Write
<1>8. Service!Answer(c)
  BY <1>1, <1>2, <1>4, <1>5, <1>6, <1>7, Phases
     DEF Service!Answer, Service!Move, Service!peers
<1> QED BY <1>8 DEF Exchanges, Service!Next

LEMMA CloseExchanges ==
  ASSUME IInv, NEW t \in Pool, Close(t)
  PROVE  Exchanges
<1>1. PICK c \in ConnIds : c = mine[t] /\ Serving = {c}
  BY InHand DEF Close, InsidePublish
<1>2. conn[c] = "answered" /\ conn' = [conn EXCEPT ![c] = "closed"]
  BY <1>1 DEF Close, IInv, ThreadInv, LocalInv
<1>3. PhaseOf[c] = Phase(conn[c]) /\ PhaseOf' = [PhaseOf EXCEPT ![c] = Phase("closed")]
  BY <1>2, PhaseMoves
<1>4. UNCHANGED Serving
  <2>1. /\ pc' = [pc EXCEPT ![t] = "leave"] /\ mine' = mine
        /\ pc[t] \in InsidePublish <=> "leave" \in InsidePublish
    BY DEF Close, InsidePublish
  <2> QED BY <2>1, ServingStays
<1>5. UNCHANGED <<wire, gone, received, DispatchSubscribed>>
  BY DEF Close, clients, server, DispatchSubscribed
<1>6. Service!Close(c)
  BY <1>1, <1>2, <1>3, <1>4, <1>5, Phases
     DEF Service!Close, Service!Move, Service!peers
<1> QED BY <1>6 DEF Exchanges, Service!Next

(* What leaves publish() has been answered, was unheard, or was /health. *)
LEMMA LeaveExchanges ==
  ASSUME IInv, NEW t \in Pool, Leave(t)
  PROVE  Exchanges
<1>1. PICK c \in ConnIds : c = mine[t] /\ Serving = {c}
  BY InHand DEF Leave, InsidePublish
<1>2. \/ conn[c] \in {"closed", "unheard"}
      \/ conn[c] = "held" /\ wire[c] = "health"
  BY <1>1 DEF Leave, IInv, ThreadInv, LocalInv
<1>3. \/ PhaseOf[c] \in {"closed", "unheard"}
      \/ PhaseOf[c] = "taken" /\ wire[c] = "health"
  BY <1>2, Phases DEF PhaseOf
<1>4. Serving' = {}
  <2>1. \A u \in Pool : pc[u] \in InsidePublish => u = t
    BY PoolFacts DEF Leave, IInv, BusInv, InsidePublish
  <2>2. \A u \in Pool : pc'[u] \notin InsidePublish
    BY <2>1 DEF Leave, IInv, TypeOK, InsidePublish
  <2> QED BY <2>2 DEF Serving
<1>5. UNCHANGED <<PhaseOf, wire, gone, received, DispatchSubscribed>>
  BY PhaseStays DEF Leave, clients, server, socks, DispatchSubscribed
<1>6. Service!Done(c)
  BY <1>1, <1>3, <1>4, <1>5 DEF Service!Done, Service!peers
<1> QED BY <1>6 DEF Exchanges, Service!Next

(* HttpServer, ReplyServer's dispatch and writeResponse implement          *)
(* Exchange: for every pool, however connections are reset and descriptors *)
(* reused, requests are served one at a time and a peer is sent at most    *)
(* one message, the answer to its own request.                             *)
THEOREM GatewayImplementsExchange == Spec => ImplementsExchange
<1>1. Init => Service!Init
  BY Phases DEF Init, Service!Init, PhaseOf, Serving, InsidePublish,
     DispatchSubscribed
<1>2. ASSUME IInv, [Next]_vars
      PROVE  Exchanges
  <2>1. CASE Boot \/ Peer \/ Die
    BY <1>2, <2>1, BootExchanges, PeerExchanges
  <2>2. ASSUME NEW t \in Pool, Accept(t) \/ Complete(t) PROVE Exchanges
    BY <1>2, <2>2, AcceptExchanges, CompleteExchanges
  <2>3. ASSUME NEW t \in Pool, Handle(t) PROVE Exchanges
    BY <1>2, <2>3, EmplaceExchanges, PublishExchanges, InnerExchanges,
       WriteExchanges, CloseExchanges, LeaveExchanges DEF Handle
  <2>4. CASE UNCHANGED vars
    BY <2>4, ServerStays, PhaseStays
       DEF vars, clients, server, socks, local, Exchanges, exchange
  <2> QED BY <1>2, <2>1, <2>2, <2>3, <2>4 DEF Next
<1>3. ASSUME IInv, [Next]_vars
      PROVE  [Service!Next]_<<PhaseOf, Service!peers, received, Serving,
                              DispatchSubscribed>>
  BY <1>2, <1>3 DEF Exchanges, exchange, Service!peers
<1> QED
  BY <1>1, <1>3, Invariance, PTL DEF Spec, ImplementsExchange, Service!Spec
=============================================================================
