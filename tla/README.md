# A verification project for CCTVWebServer

CCTVWebServer is a C++ server that takes one RTSP camera on its own host,
re-encodes it with ffmpeg and relays it over WebSocket to browsers, behind
accounts that an administrator approves and may evict. This directory holds
TLA+ models of the server, the TLC instances that check them, and proofs that
TLAPS checks. Paths below are relative to the repository.

Contents: [inventory](#1-inventory) · [hard behaviour](#2-what-is-hard-here) ·
[models](#3-the-models) · [runs](#4-the-runs) · [fairness](#5-fairness) ·
[proofs](#6-the-proofs) · [findings](#7-what-the-models-found) ·
[not modelled](#8-what-is-not-modelled) · [plan](#9-the-plan)

## 1. Inventory

| part | code | state | operations | interacts with |
|---|---|---|---|---|
| EventBus | `src/include/Application.hpp:16-45` | one `std::mutex`, a subscriber list per event type | `subscribe`, `publish` (runs subscribers under the mutex) | everything: requests go in and responses come back through it |
| HttpServer, HttpSession | `src/core/HttpServer.cpp` | `g_nextConnId`, `connections_` (id → descriptor), one session object per connection being read | accept, `onRead`, `writeResponse` | publishes requests, subscribes to responses, hands sockets to WebSocketSession |
| ReplyServer | `src/core/ReplyHandlers.cpp`, `Application.hpp:131-149` | `g_activeSessions` (token → login), `handlers_` | `dispatch`, `AddReplyer` | Database, StreamRelayer, EventBus (nested publish) |
| Database | `src/core/Database.cpp` | tables `users` and `rtsp_config`, the key | one method per statement | CryptoHelper |
| StreamRelayer | `src/core/StreamRelayer.cpp` | `running_`, `thread_`, `rtspUrl_`, `mutex_`, the worker | `start`, `stop`, `runLoop` | WebSocketHub |
| WebSocketSession, WebSocketHub | `src/core/WebSocketSession.cpp` | set of sessions; per session a frame queue, `is_writing_`, a mutex | accept, read, `sendFrame`, `doWrite`, `onWrite`, register, broadcast | relayer's worker, pool threads |
| WebServerController, Application | `Application.hpp:151-192` | the pool of four threads, the order of construction | construct, sleep for ever | all servers |
| Config | `src/core/Config.cpp` | `properties_` | `ReadJson`: read `config.json`, open the database with it or with the defaults | Database, main thread |
| CryptoHelper | `src/core/CryptoHelper.cpp` | none (the key is Database's `key_`) | derive a key, encrypt, decrypt, hash | Database |
| Web client | `src/www/app.js` | current user, current page, WebSocket, decoder | fetches, player | the endpoints |

What makes each part correct:

* **EventBus**: one thread at a time is inside; an appended subscriber is never
  seen half-way; publishing does not stop the server.
* **HttpServer**: a peer gets the answer to its own request, if that could be
  read; a descriptor is written and closed once, by the connection it belongs
  to; nothing leaks.
* **Accounts**: nobody unapproved or evicted has a session; only an
  administrator approves and evicts; whoever was approved or evicted, there is
  an administrator who can do it again; rows are kept; a 200 tells the truth;
  a request that enters `dispatch` gets an answer.
* **Relayer**: one worker at most, on the last address; `stop` returns; the
  table and the stream agree.
* **WebSocket**: frames go out in order, one write at a time, and none is left
  in a queue that nobody serves; a slow or lost client harms nobody else.
* **Start**: the file that is opened and the key belong to one configuration,
  its tables exist, and no start spoils rows that are already there.
* **All together**: `stop` returns although the worker it waits for may be in a
  broadcast and the other threads may be waiting for the bus.

The repository does not compile as committed: `StreamRelayer::start` calls
`unlock()` on a `std::lock_guard` (`StreamRelayer.cpp:44-46`), and
`HttpSession` uses the private member `HttpServer::connections_`
(`HttpServer.cpp:68`). The models take what the code evidently means, a
`std::unique_lock` and access to the member; nothing else is repaired.

## 2. What is hard here

* Four pool threads run completion handlers; `dispatch`, the session map and
  the relayer have no protection among them but the mutex of the bus, which
  `publish` happens to hold while it runs subscribers. Most properties of
  `Accounts` and `StreamControl` rest on that, which is why dropping it
  (`AcquireForgotten`) is a mutant of `accounts` and `gateway`.
* The response is published from inside the handling of the request, so the
  thread locks a `std::mutex` it owns. The standard leaves that undefined. The
  constant `RelockOutcomes` holds what a library may make of it: `"block"` (a
  normal pthread mutex, the thread waits for itself) or `"enter"` (a mutex that
  counts). Both are in the safety runs, so what they show does not depend on
  the library.
* Every handler is several statements; each may fail, and the process may end
  between any two. Only the tables survive.
* Descriptors leave their sockets and are kept as numbers that the kernel gives
  out again.
* The accept loop runs before the objects it depends on are complete.
* `stop` joins the worker under two locks, and the worker may be inside
  `broadcastFrame` with the hub's.
* `sendFrame` locks the session's mutex and calls `doWrite`, which locks it
  again; `onWrite` gives it back between removing a frame and looking for the
  next, with `sendFrame` on another thread in between.
* A session lives as long as somebody refers to it, and its destructor ends the
  process.
* An exception in the opening of the configured database is handled as if the
  configuration could not be read: the default one is opened instead.

`PROJECT.json` lists every hazard at its line, with the properties that cover
it.

## 3. The models

```
EventBus ── UserStore            AccountService
   │  │        │                       ▲ ImplementsService
   │  └────────┴── Accounts ───────────┘
   │                 └─ AccountsProofs ─ AccountsRefinement
   ├── Gateway ──────── GatewayProofs
   │      └─ ImplementsExchange ─▶ Exchange
   └── StreamControl ── StreamControlProofs
          │   └─ ImplementsCamera ─▶ CameraService
        Relay ──────────── RelayProofs      (StreamControl and StreamHub composed)
          │                    │
      StreamHub ─────── StreamHubProofs ── StreamHubRefinement
          └─ ImplementsFrames ─▶ FrameService

Startup ── StartupProofs
   └─ ImplementsVault ─▶ Vault
```

The `MC*` modules and `.cfg` files instantiate these for TLC. An operator whose
comment begins with "Mutant:" is not part of any specification: it is a
plausible bug of the definition that follows it, kept beside it to show that
the properties notice.

### EventBus

`bus` is the holder of the mutex. `Acquire` and `Release` are the `lock_guard`
of `publish` and `subscribe`; `Reenter` and `Wedge` are the two outcomes of the
nested lock. The modules below extend it and take these steps where the code
publishes.

### UserStore and Accounts

`UserStore` is the users table: one record per login name with the columns the
properties tell apart (password, role, `is_approved`, `is_active`), and one
operator per statement with its outcome `done`. A statement that fails changes
nothing. The hash of a name is taken as injective and encryption as lossless.
`SeenFree` and `SeenTaken` are the `SELECT COUNT` of `registerUser`, whose
failures the code takes for an answer.

`Accounts` is `dispatch` for the account endpoints. A pool thread `t` is at
`pc[t]`; `req`, `caller`, `callerRole` and `status` are the local variables of
the handler. Each read or write of the table and each critical section on
`g_sessionsMutex` is an action: `Register`/`RegisterInsert`,
`Login`/`LoginSession`, `Authenticate`, `LoadCaller`, `Logout`, `Me`,
`UpdateProfile`, `ListUsers`, `Approve`, `EvictRoot`, `Evict`/`EvictErase`,
`Forbidden`, `NotFound`. `BadBody`, `MissingField` and `CryptoThrows` are the
error paths: any hash or cipher may throw and is answered with a 500, a body
that does not parse is, too, unless the text of the exception is not UTF-8 and
`dump()` throws again, out of `dispatch`, which ends the process
(`ReplyHandlers.cpp:343`). A url outside `/api/` needs no session
(`ReplyHandlers.cpp:162-168`): it falls through to the 404. `Reply` is the
nested publish and the way out. `Boot` opens the database and bootstraps the
administrator; `Crash` ends the process anywhere.

The bootstrap may fail, and a user may then register as `admin` for good, with
the role of a user. `RootAdministers` therefore promises no administrator
unconditionally: there is none but root, root stays approved and active, and as
soon as anybody was approved or evicted there is one.

`AccountService` is the promise to clients without threads or statements:
apply, approve, ban, log in, log out, change the password, restart. The
refinement mapping counts a session as closed as soon as its account is
inactive, so that the ban takes place at the `UPDATE` and the sweep of the
session map is invisible; without that mapping the eviction would be two steps.

### Gateway and Exchange

The path of one request: accept (`Accept`), read (`ReadRequest`, `Upgrade`,
`ReadFails`), hand the descriptor over (`Emplace`), publish (`Publish`,
`Dispatch`, `PublishResponse`), take it back (`Erase`), `Write`, `Close`,
`Leave`; beside the main thread that builds the servers (`StartHttp` …
`AddReplyer`), peers that send and reset, and the kernel's descriptor table
`owner`. The endpoints are one step here: all that matters is which connection
the answer names. `Fatal` is the set of events that may end the process:
`"dangling"` (the accept handler's dead `this`), `"sigpipe"`, `"race"`
(`handlers_` read while written) and `"session"` (the destructor of a
WebSocketSession).

`Exchange` is the promise to peers without descriptors, threads, tables or
locks: one request is served at a time, a peer is sent at most the answer to
its own request, and its connection is closed after that. The mapping computes
the phase of a connection (`PhaseOf`) from the place of the thread that has it
in hand, so that handing the descriptor over is one step (`Take`). Three kinds
of request may go without an answer, and no other: one that cannot be read,
since `onRead` returns silently on every error, whether the peer has gone or is
alive and has sent a malformed or oversized request (`HttpServer.cpp:50-53`,
kind `"malformed"`, `Drop`); one that comes before `dispatch` has subscribed;
and one for `/health`.

### StreamControl and CameraService

The camera endpoints, the table `rtsp_config` (`rows`), `StreamRelayer` and its
worker. `Start`, `Relock`, `Spawn` are `start()`, cut where the mutex changes
hands; `Stop` and `Join` are `stop()`, from the endpoint or from `start`;
`LoopTest`, `Open`, `CameraLost`, `RelayEnds`, `Awake` are the worker. All the
ways in which opening a camera, a decoder or an encoder can fail are one
outcome of `Open`, since the code treats them alike. `Restart` ends the process
and starts it again: the stream is not resumed.

`CameraService` is the promise to clients without locks, flags or workers: there
is one stream or none; a stream is turned off only when no camera is open, and
turned on only then, for an address that is already saved. The mapping takes
`rtspUrl_` for the stream as long as `thread_` is assigned, so that it ends
where `join` returns.

### StreamHub and FrameService

`StreamHub` is `WebSocketHub` and the sessions in it. The relayer's worker runs
`Broadcast`, then for each session `Push` (`sendFrame`) and, if no write is
pending, `Relock` (the nested `doWrite`), then `EndBroadcast`; it holds the
hub's mutex from the first to the last, and the mutex of the session `at`
between `Push` and `Relock`. Pool threads run completions: `Accepted`,
`AcceptFails`, `ReadFails`, `Written`, `WriteFails` start a handler, and
`Register`, `DoRead`, `Unregister`, `Pop`, `Rest`, `CopyFront`, `StartWrite`
are its critical sections, one action each. `writing[s]` is the one
`async_write` in flight, a frame by its number.

* The vector `doWrite` hands to `async_write` dies when `doWrite` returns. What
  is then sent is one of `BufferOutcomes`, the frame or garbage.
* `Referred` counts who refers to a session: its pending operations, the
  handlers that run, the hub. When the last lets go, `~WebSocketSession` calls
  `shared_from_this()`, and `alive` falls.
* `http::async_read` has consumed the request by which a client asks for its
  WebSocket, and `async_accept` waits for another one: a client is accepted
  only if it asks twice (`AskAgain`), which those in `Browsers` do not. The
  safety run lets every client ask twice, so that the rest of the code is
  exercised.

`FrameService` is the promise without threads, locks or pending operations: who
watches at the moment of a broadcast gets the frame at the end of a backlog,
and each backlog is sent from its front. The refinement mapping (`Backlog`)
adds the frame in progress to the queues the worker has not visited yet, so
that a broadcast is one step at its start, and leaves out a frame that is
written and not yet removed, so that the completion of a write is the sending.

### Relay

Instances of `StreamControl` and `StreamHub` over the same threads and one
worker. A thread does one thing: a request that waits for the bus (`Arrive`,
then `Publish`) keeps its thread from running completions. The worker broadcasts
only from the loop, and takes no step of the loop (`Loop`) while it does. `Read`
is one turn of `runLoop`'s `while (running_ && av_read_frame(…))`: it tests the
flag, takes a frame and gets some packets for it, `packets`; each is one
`Broadcast`, and the loop is left or turns again only when none is in hand
(`Done`). The flag is not looked at between the packets of a frame, so `stop`'s
`join` waits for a worker that may be between `Broadcast` and `EndBroadcast`
with more broadcasts to come.

### Startup and Vault

`Config::ReadJson`, `Database::init` and the bootstrap, one action per call that
can fail: `ReadJson`, `Open`, `DeriveKey`, two `CreateTable`, `CountAdmin`,
`InsertAdmin`. `Throws` is any exception in them and `Catch` the catch block,
which runs `init` with the defaults; the exception of that second attempt
leaves `main`. `Stop` ends the process anywhere and `Edit` is the operator who
changes `config.json` between runs. Files keep tables and rows; of a row only
the secret under which each encrypted column was written is kept, and `Decrypts`
says that both open under the key of this run. `Register`, `Login` and
`UpdateProfile` are whole (Accounts takes them apart), because what matters is
which key they write with and that `getUser` fails for a row of another key.

`Vault` is the promise about stored accounts without phases, tables, failures or
columns: a row has one key, that of the process which stored it, and nothing
takes it away; a process serves the configured file and key or the default
ones, never a mixture; who logs in has a row under the key that is served. A
whole start is one step of it (`Serve`), or none if it fails.

## 4. The runs

| run | what it asks | instance |
|---|---|---|
| `accounts` | safety of the account endpoints, two action properties, the refinement of `AccountService` | root and two users, two passwords, two threads, two tokens; statements fail; both relock outcomes; crashes |
| `accounts_live` | every request inside `dispatch` gets to an answer and its thread comes out; the sessions of an evicted account go | root and one user, two threads, three tokens |
| `gateway` | answers to their own peers, no foreign descriptor, no unknown leak, the refinement of `Exchange` | main and two pool threads, three connections over two descriptors, every fatal event |
| `gateway_live` | ordinary requests that were read are answered | two connections, no fatal event |
| `camera` | one worker on the right address, truthful answers, `stop` returns, reconnection, the refinement of `CameraService` | two threads, two addresses, two worker identities, three rows |
| `hub` | one writer per session, no stranded frame, frames in order, departures noticed, the refinement of `FrameService` | two threads, two sessions, three frames, both relock outcomes, intact and lost buffers |
| `relay` | `stop` returns during a broadcast, broadcasts end and are current, frames reach clients | two threads, one address, one worker, one client, two frames, nested locks pass |
| `startup` | file and key belong together and the file has its tables, columns share a key, a start ends, the refinement of `Vault` | two files, two secrets, the root account and a user, failing calls |
| `gateway_wedge`, `hub_handshake`, `hub_session`, `startup_admin` | what a document or comment says and the code does not do (section 7) | as small as the counterexample allows |

The bounds, and why they are enough:

* *Two pool threads* give every interleaving of two handlers; a third waits for
  the same mutex. The proofs hold for any number.
* *Two tokens* (three in `accounts_live`) give an account and the administrator
  who evicts it a session each, so that a sweep which compares with the wrong
  name is noticed, and an account two sessions. `Tokens` bounds the logins of a
  behaviour: `Publish` takes no login once all are issued. Requests carry live,
  dead and missing tokens.
* *Three names* give an administrator, the target of an operation and a
  bystander; the last two are interchangeable, as are threads and tokens
  (symmetry in the safety run, which has no liveness property).
* `MaxConns` *over fewer* `Fds` forces the kernel to reuse a descriptor while
  the program still handles another connection.
* `MaxRows` bounds the table of cameras: a request to save is taken only below
  it. Two rows show the latest one hiding an older one; the bound is three.
* Two worker identities are one more than may be alive.
* *Three frames* in `hub`: a backlog of two besides the frame being written is
  what tells the oldest from the newest (`CopyNewest`). Two sessions make the
  worker visit one while threads handle the other, or the same one.
* In `relay` the parts are composed, not searched again: one client and two
  frames let a frame wait behind a pending write while a request waits for the
  bus. It has one address: that a worker relays the address asked for last is
  `OneStream` in `camera`, with two addresses, and proved for broadcasts with
  any number (`BroadcastsAreCurrent`). Statements do not fail there (`MayFail`),
  as `camera` covers that. That `stop` returns does not come from the bound on
  frames (`MaxFrames`): `Read` is disabled by the fallen flag, and what is in
  hand is finite.
* *Two files and two secrets* in `startup` are the configured and the default
  ones, and what is configured before and after an edit.

The three `gateway` runs set `CHECK_DEADLOCK FALSE`: when every connection is
spent, or the process has ended, or every pool thread is wedged, nothing more
happens. The others check for deadlock, though the process can always end and
start anew; that a part of it does not wait for ever is what the liveness
properties are for.

## 5. Fairness

* `Accounts!FairSpec`: weak fairness of `Step(t)`: a thread inside `dispatch`
  is scheduled, and nothing in a handler waits except for locks held for one
  step.
* `Gateway!FairSpec`: weak fairness of the main thread, of each thread inside a
  handler, and of running a completion on *some* thread. A thread that waits
  for the bus is served although `std::mutex` is not fair: with finitely many
  connections no thread can overtake it for ever. Peers are under no
  obligation.
* `StreamControl!FairSpec`: weak fairness of handlers and of the worker, that
  is, the calls into ffmpeg return, with a frame or with an error. The code
  asks for that with the option `stimeout` (`StreamRelayer.cpp:79`). Losing a
  camera is never required.
* `StreamHub!FairSpec`: the pool and the worker are scheduled. A handshake and a
  write end, with success or not, because the constructor sets beast's
  suggested timeouts (`WebSocketSession.cpp:7`); a read ends when its client has
  gone. Clients are under no obligation: a browser may stay for ever.
* `Relay!FairSpec`: as in the parts; weak fairness of `Broadcast`, since the
  packets of a frame are broadcast one after the other
  (`StreamRelayer.cpp:212-229`); and strong fairness of a completed write,
  since requests may take the threads again and again: asio's queue is FIFO, so
  a completion is run when a thread becomes free. Waiting for the bus is weakly
  fair, as its mutex is held for one request at a time.
* `Startup!FairSpec`: weak fairness of the main thread; nothing it calls waits
  for others.

Liveness is stated where the nested publish enters, or with `"wedged"` as an
outcome of its own; where it blocks nothing is answered at all
(`gateway_wedge`). Likewise for frames: where the nested lock of `sendFrame`
blocks (`StreamHub!Wedge`), the first frame stops worker and hub for good, so
`BroadcastEnds` and `FramesReachClients` are stated for the library that lets
it pass, and no property covers the other one.

## 6. The proofs

TLC checks the instances above. TLAPS proves, for any sets of names, passwords,
tokens, threads, connections, descriptors and addresses, and for either relock
outcome:

* `AccountsProofs`: type correctness, `DispatchHoldsBus`, `NoStaleDecision`,
  `NoSessionOutlivesEviction`, `TruthfulSuccess`, `RootAdministers`, and the
  action properties `AccountsRetained` and `AdminOnly`.
* `AccountsRefinement`: the handlers implement `AccountService`, initial states
  and steps.
* `GatewayProofs`: type correctness, `SubscriberListExclusive`,
  `AnswerOwnRequest`, `NoForeignDescriptor`, `OnlyKnownLeaks`; the handlers, bus
  and descriptors implement `Exchange`.
* `StreamControlProofs`: type correctness, `SpawnIsAlone`, `OneStream`,
  `TruthfulStream`, `ShowsWhatRuns`; endpoints and worker implement
  `CameraService`; no request ever waits for the relayer's mutex
  (`WaitsForWorkerOnly`); a joined worker comes nearer to its end with each of
  its steps (`StopApproaches`).
* `StreamHubProofs`: type correctness, `OneWriter`, `NoFrameStranded`,
  `InOrder`, `DepartureNoticed`.
* `StreamHubRefinement`: the handlers and `sendFrame` implement `FrameService`.
* `RelayProofs`: the composition implements both of its parts; from that, type
  correctness, `FramesAreCurrent`, the hub's properties again, and that the
  whole still implements `CameraService` and `FrameService`; a joined worker
  comes nearer to its end also through broadcasts (`WholeApproaches`) and can
  always take a step (`WorkerCanGo`).
* `StartupProofs`: type correctness, `ServesAPair`, `ConfiguredUnlessFailed`,
  `RowsUnderOneKey`, the action property `RowsKept`; start and endpoints
  implement `Vault`; and, where no call fails, the root account can log in as
  long as no edit changes the secret in effect.

The assumptions are the `ASSUME`s of the modules: the special values (no
token, no thread, no descriptor …) are not among the ordinary ones, the root
name is a name, and the main thread is not a pool thread. `Relay` assumes what
its parts assume (`RelayAssumption`). TLC evaluates them in every run.

*Argument for Accounts.* None of the properties is inductive alone. `IInv` adds
`Control`, which says what the place of a thread implies about its request and
its caller (at `route` the caller still owns its cookie and is active; at
`erase` the target's row is already inactive), and `EmptyRows` (a name without
a row has the default record). `DispatchHoldsBus` is what makes the rest
inductive: the lemma `Alone` derives from it that no other thread is inside
while one acts, so no other thread's control clause can be broken. Each action
has a lemma; `StepPreserves` and `Invariance` put them together.

`RootAdministers` is inductive with `Control`: an approval or an eviction is
made for a caller with the role of an administrator, who by the invariant is
root (lemma `IsRoot`), and no statement changes a role.

*Argument for the refinement.* Under `IInv` each action either changes nothing
the mapping sees or is one operation of `AccountService`; the sweep `EvictErase`
and every read map to stuttering.

*Argument for Gateway.* `IInv` says that a connection is in the hands of one
thread and that the thread's place tells where the descriptor is: with the
thread (`emplace`, `write`, `close`), in `connections_` (`publish` to `erase`),
or closed. `OwnerInv` ties open connections to the kernel's table one to one.
A descriptor the kernel hands out is free there, so by `OwnerInv` it is none
that the program still uses. For `Exchange`, `LocalInv` also says what a thread
that is about to leave has done with its request; the bus makes `Serving` a set
of at most one.

*Argument for StreamControl.* `IInv` ties the two locks to the place of the one
request that is inside the bus, and the flag to `thread`: a fallen flag means
that no worker is left, unless a request is just joining it (`FlagInv`), and a
worker leaves its loop only when the flag is down. `LatestRuns` says that the
latest row is ahead of the stream only between `Save` and `Spawn`. The request
that starts a worker gives the mutex back and takes it again; that the thread
may still be assigned follows from the bus alone. The refinement needs that the
flag falls before the join and the camera closes before the worker is `done`.

*Argument for `stop`.* That `stop` returns is liveness, which stays with TLC; what
makes it true is safety and proved. `WaitsForWorkerOnly`: while a request joins,
only a worker can keep it waiting, and that worker's flag is down.
`StopApproaches`: `Distance` (open, relay, sleep, loop, done) falls with each of
the worker's steps and nobody else's step raises it, so a fair worker ends.

*Argument for StreamHub.* `IInv` says that `is_writing_` of a session that has
not failed means exactly one of: a pending write, a thread between `onWrite` and
`async_write`, or the worker between `Push` and `Relock`; and it counts frames:
those a client was sent, those in its queue and the one written but not yet
removed add up to the frames broadcast since it registered, the one in progress
left out until the worker has visited it. The front of the queue is the next
number, so what is written is in order whatever its buffer holds. A session
whose write failed keeps `is_writing_` and is covered until it leaves the hub.

*Argument for its refinement.* Under `IInv` a broadcast lengthens the mapped
backlogs at its start, a completed write shortens one, and `Push`, `Pop`,
`Relock` and the rest leave the mapping alone.

*Argument for Relay.* Each action is a step of one part that stutters the other,
so the composition implements both specifications and inherits their invariants
(`PartsAsSpecified`). What is new is `CastInv`: while a broadcast is in progress
the worker stands at `relay`; `StreamControl`'s invariant then says that it is
the thread that `start()` assigned last, on its address, and that no `join` has
returned. `Nearer` orders, lexicographically, the worker's distance, the packets
in hand and the sessions still to visit, each step of the worker lowers it, and
`WorkerCanGo` shows that such a step is there without help from a pool thread or
a client: together, `stop` waits out the broadcasts in hand and no more. Where
the nested lock of `sendFrame` blocks, the worker is stuck in it and the
theorem says so.

*Argument for Startup.* `IInv` follows the arguments of `init` from `ReadJson`
to `serving`: what is opened and the key are those of `want`, which is the
configuration until the catch block and the defaults afterwards. Rows are
written with both columns under one key and changed only by an account that has
logged in, which it can only with both columns under the key of this run.

*Argument for Vault.* A row is under one key while both columns are
(`RowsUnderOneKey`), so a key stands for it; a start writes at most the row of
the root account, and only one that is missing, so it is `Serve`, or stutters.
`RootLogsInWhileSecretStays` assumes `~MayFail` and `[][SecretStays]_vars`; both
are met by behaviours of the `startup_admin` run, up to the edit that refutes
`RootCanLogIn`. Its invariant says that every row of every file is under
the secret in effect.

Only model-checked: the liveness properties `DispatchAnswers`, `EvictionSweeps`,
`RequestsAnswered`, `CameraRequestEnds`, `Reconnects`, `RequestsEnd`,
`BroadcastEnds`, `FramesReachClients` and `StartEnds` (fairness and `ENABLED`
are outside what the installed provers can do), and the properties of the
violation runs. Only proved: that requests are inside `dispatch` one at a time
(`DispatchHoldsBus`) and subscriber lists are exclusive
(`SubscriberListExclusive`), both of which the runs show through what rests on
them; `RowsKept`, which `ImplementsVault` contains; `WaitsForWorkerOnly`,
`StopApproaches`, `WholeApproaches` and `WorkerCanGo`, which the runs show as
liveness; that Relay implements its parts and their services, and Relay's types.

## 7. What the models found

* **The bus locks itself out** (`gateway_wedge`): where locking an owned mutex
  blocks, the first answer stops the server (`Application.hpp:32`).
* **Browsers are never connected** (`hub_handshake`): the request that asks for
  a WebSocket is consumed by `HttpSession`, and `async_accept` waits for a
  second one (`WebSocketSession.cpp:19`).
* **A client that leaves ends the process** (`hub_session`):
  `~WebSocketSession` calls `shared_from_this()` (`WebSocketSession.cpp:11`).
* **No administrator after a change of secret** (`startup_admin`): the row that
  can no longer be decrypted keeps the bootstrap from making a new one
  (`Database.cpp:76`).

Met on the way, without a run of its own: `/health` is answered to connection 0
and its connection leaks (one of the two leaks `OnlyKnownLeaks` admits);
`bootstrapAdmin` logs success whatever its `INSERT` did (`InsertFails`); a failed
`DELETE` leaves two camera configurations, and the login of a camera is deleted
with each new one although `README.md:13` wants logins kept.

What surprised by holding: `StreamRelayer::start` gives its mutex back between
testing `running_` and assigning `thread_`, which would let a second `start` in
and terminate the process, were the two not serialised by the bus
(`SpawnIsAlone`). And `onWrite`, which takes the session's mutex twice with
`sendFrame` in between, never starts two writes nor strands a frame: the flag
stays up from the first push to the empty queue (`OneWriter`,
`NoFrameStranded`).

## 8. What is not modelled

* CryptoHelper beyond its promise: the models need that hashing is injective and
  that a text opens under the key it was made with and no other; hex, nonces and
  OpenSSL contexts are left out, and each call may fail.
* The text of requests and responses, static files, log lines.
* DBController, DBConnector, DBThreadPool: placeholders without behaviour.
* `Config::ReadYaml`: never called.
* A partial `write` of a response, and the wrap-around of `g_nextConnId` after
  2^31 connections.
* ffmpeg's decoding and encoding.
* The data race inside beast when a read and a write of one session run on two
  threads without a strand: beast's own state is not modelled, only the order in
  which the session starts and ends its operations.
* The web client (`app.js`): JavaScript outside the server's process. The models
  hold what it can do to the server: send, ask again, fall behind, leave. How
  the page reacts to a late `onclose` or to overlapping fetches is listed among
  the hazards without a property; the 21-byte header of a frame
  (`StreamRelayer.cpp:216-225`) is left out.
* Markup, style, build files.

## 9. The plan

Done, in this order: EventBus, UserStore, Accounts with AccountService, Gateway
and StreamControl with their proofs; then StreamHub with FrameService, Relay and
Startup with theirs; then CameraService, Exchange and Vault with the proofs that
the models implement them, and the rankings behind `stop`.

Left, for whoever goes on:

1. **Rankings for the other handlers**: that a thread inside `dispatch`, or
   inside the path of a connection, comes nearer to its end with each step, as
   `StopApproaches` says of the worker; the safety half of `DispatchAnswers` and
   `RequestsAnswered`.
2. **Account endpoints and Startup together**, so that approval and eviction meet
   rows under different keys.
3. **Player** and **FrameCodec**: the WebSocket and decoder of `app.js` (late
   `onclose` of an old socket, overlapping fetches), and the header of a frame
   (`StreamRelayer.cpp:216-225`, `app.js:383-400`).
