---------------------------- MODULE StreamControl ----------------------------
(***************************************************************************)
(* The camera endpoints of ReplyServer::dispatch (src/core/                *)
(* ReplyHandlers.cpp:295-340), the rtsp_config table (src/core/            *)
(* Database.cpp) and StreamRelayer (src/core/StreamRelayer.cpp): a pool    *)
(* thread starts and stops the one worker thread that reads the camera.    *)
(*                                                                         *)
(* Only the requests of an administrator get this far; Accounts shows how  *)
(* the others are refused.  StreamRelayer::start unlocks a lock_guard,     *)
(* which no compiler accepts; the lock is modelled as the unique_lock its  *)
(* comment "avoid deadlock" asks for.                                      *)
(***************************************************************************)
EXTENDS EventBus, Sequences, Naturals

CONSTANTS Urls,      \* camera addresses
          NoUrl,     \* an empty field; no address yet
          Workers,   \* identities for worker threads
          NoWorker,  \* a std::thread that is not joinable
          MaxRows,   \* bound: rows of rtsp_config
          MayFail    \* whether statements and thread creation may fail

ASSUME StreamAssumption ==
  /\ NoUrl \notin Urls
  /\ NoWorker \notin Workers
  /\ MaxRows \in Nat \ {0}
  /\ MayFail \in BOOLEAN

VARIABLES rows,     \* rtsp_config, the addresses by increasing id
          running,  \* StreamRelayer::running_
          thread,   \* StreamRelayer::thread_
          rtspUrl,  \* StreamRelayer::rtspUrl_
          mutex,    \* the holder of StreamRelayer::mutex_
          worker,   \* where each worker is in runLoop
          source,   \* the address each worker has open
          pc,       \* where each pool thread is in dispatch
          req,      \* the request it handles
          status    \* the status code of the response it publishes

relayer == <<running, thread, rtspUrl, mutex>>
loop    == <<worker, source>>
local   == <<pc, req, status>>
vars    == <<bus, rows, relayer, loop, local>>

Labels == {"idle", "get", "clear", "save", "start", "stop", "join", "relock",
           "spawn", "reply", "wedged"}

Request == [op : {"get", "save", "stop"}, url : Urls \cup {NoUrl}]
NoRequest == [op |-> "get", url |-> NoUrl]

TypeOK ==
  /\ BusTypeOK
  /\ rows \in Seq(Urls)
  /\ running \in BOOLEAN
  /\ thread \in Workers \cup {NoWorker}
  /\ rtspUrl \in Urls \cup {NoUrl}
  /\ mutex \in Threads \cup {NoThread}
  /\ worker \in [Workers -> {"none", "loop", "open", "relay", "sleep", "exited"}]
  /\ source \in [Workers -> Urls \cup {NoUrl}]
  /\ pc \in [Threads -> Labels]
  /\ req \in [Threads -> Request]
  /\ status \in [Threads -> {200, 400, 500}]

(* What a process starts with; a configured stream is not resumed. *)
Fresh ==
  /\ running = FALSE /\ thread = NoWorker /\ rtspUrl = NoUrl /\ mutex = NoThread
  /\ worker = [w \in Workers |-> "none"]
  /\ source = [w \in Workers |-> NoUrl]
  /\ pc = [t \in Threads |-> "idle"]
  /\ req = [t \in Threads |-> NoRequest]
  /\ status = [t \in Threads |-> 200]

Init == BusInit /\ rows = <<>> /\ Fresh

-----------------------------------------------------------------------------
(* dispatch. *)

Goto(t, label) == pc' = [pc EXCEPT ![t] = label] /\ UNCHANGED <<req, status>>

Answer(t, code) ==
  /\ pc' = [pc EXCEPT ![t] = "reply"]
  /\ status' = [status EXCEPT ![t] = code]
  /\ UNCHANGED req

Publish(t, r) ==
  /\ pc[t] = "idle"
  /\ Acquire(t)
  /\ r.op = "save" => Len(rows) < MaxRows
  /\ pc' = [pc EXCEPT ![t] = CASE r.op = "get"  -> "get"
                               [] r.op = "save" -> "clear"
                               [] r.op = "stop" -> "stop"]
  /\ req' = [req EXCEPT ![t] = r]
  /\ UNCHANGED <<rows, relayer, loop, status>>

Get(t) ==
  /\ pc[t] = "get"
  /\ Answer(t, 200)
  /\ UNCHANGED <<bus, rows, relayer, loop>>

(* A body that does not parse, or lacks a field. *)
BadRequest(t) ==
  /\ pc[t] = "clear"
  /\ \/ Answer(t, 500)
     \/ req[t].url = NoUrl /\ Answer(t, 400)
  /\ UNCHANGED <<bus, rows, relayer, loop>>

(* Mutant: a missing field is not noticed. *)
ClearUnvalidated(t) ==
  /\ pc[t] = "clear"
  /\ \/ rows' = <<>>
     \/ MayFail /\ UNCHANGED rows
  /\ Goto(t, "save")
  /\ UNCHANGED <<bus, relayer, loop>>

(* clearRtspConfigs; nobody looks at its result. *)
Clear(t) ==
  /\ pc[t] = "clear" /\ req[t].url # NoUrl
  /\ \/ rows' = <<>>
     \/ MayFail /\ UNCHANGED rows
  /\ Goto(t, "save")
  /\ UNCHANGED <<bus, relayer, loop>>

(* Mutant: the outcome of the INSERT is not looked at. *)
SaveUnchecked(t) ==
  /\ pc[t] = "save"
  /\ \/ rows' = Append(rows, req[t].url)
     \/ MayFail /\ UNCHANGED rows
  /\ Goto(t, "start")
  /\ UNCHANGED <<bus, relayer, loop>>

(* saveRtspConfig: the statement or the cipher may fail. *)
Save(t) ==
  /\ pc[t] = "save"
  /\ \/ rows' = Append(rows, req[t].url) /\ Goto(t, "start")
     \/ MayFail /\ UNCHANGED rows /\ Answer(t, 500)
  /\ UNCHANGED <<bus, relayer, loop>>

-----------------------------------------------------------------------------
(* StreamRelayer::start. *)

Lock(t) == mutex = NoThread /\ mutex' = t
Unlock(t) == mutex = t /\ mutex' = NoThread

(* Mutant: start calls stop without letting go of the mutex. *)
StartHolding(t) ==
  /\ pc[t] = "start"
  /\ Lock(t)
  /\ Goto(t, IF running THEN "stop" ELSE "spawn")
  /\ UNCHANGED <<bus, rows, running, thread, rtspUrl, loop>>

(* Mutant: a worker that runs is not stopped. *)
StartAnother(t) ==
  /\ pc[t] = "start"
  /\ Lock(t) /\ Goto(t, "spawn")
  /\ UNCHANGED <<bus, rows, running, thread, rtspUrl, loop>>

(* The mutex is taken; if a worker runs it is given back for stop(). *)
Start(t) ==
  /\ pc[t] = "start"
  /\ IF running
     THEN mutex = NoThread /\ Goto(t, "stop") /\ UNCHANGED mutex
     ELSE Lock(t) /\ Goto(t, "spawn")
  /\ UNCHANGED <<bus, rows, running, thread, rtspUrl, loop>>

Relock(t) ==
  /\ pc[t] = "relock"
  /\ Lock(t) /\ Goto(t, "spawn")
  /\ UNCHANGED <<bus, rows, running, thread, rtspUrl, loop>>

Idle(w) == worker[w] = "none"

(* Mutant: the address of the previous start stays. *)
SpawnStale(t) ==
  /\ pc[t] = "spawn"
  /\ running' = TRUE
  /\ Unlock(t)
  /\ \E w \in Workers :
       /\ Idle(w)
       /\ thread' = w
       /\ worker' = [worker EXCEPT ![w] = "loop"]
       /\ Answer(t, 200)
  /\ UNCHANGED <<bus, rows, rtspUrl, source>>

(* The address, the flag and the thread; the constructor of std::thread    *)
(* may throw and leaves the flag set.                                      *)
Spawn(t) ==
  /\ pc[t] = "spawn"
  /\ rtspUrl' = req[t].url
  /\ running' = TRUE
  /\ Unlock(t)
  /\ \/ \E w \in Workers :
          /\ Idle(w)
          /\ thread' = w
          /\ worker' = [worker EXCEPT ![w] = "loop"]
          /\ Answer(t, 200)
     \/ /\ MayFail
        /\ Answer(t, 500)
        /\ UNCHANGED <<thread, worker>>
  /\ UNCHANGED <<bus, rows, source>>

-----------------------------------------------------------------------------
(* StreamRelayer::stop, from the endpoint or from start. *)

Return(t) == IF req[t].op = "stop" THEN Answer(t, 200) ELSE Goto(t, "relock")

(* Mutant: the flag falls, the worker is not waited for. *)
StopWithoutJoin(t) ==
  /\ pc[t] = "stop"
  /\ mutex = NoThread
  /\ running' = FALSE
  /\ thread' = NoWorker
  /\ Return(t)
  /\ UNCHANGED <<bus, rows, rtspUrl, mutex, loop>>

Stop(t) ==
  /\ pc[t] = "stop"
  /\ IF running
     THEN Lock(t) /\ running' = FALSE /\ Goto(t, "join")
     ELSE mutex = NoThread /\ Return(t) /\ UNCHANGED <<mutex, running>>
  /\ UNCHANGED <<bus, rows, thread, rtspUrl, loop>>

(* Holding both the mutex and the bus, it waits for the worker to return. *)
Join(t) ==
  /\ pc[t] = "join"
  /\ IF thread = NoWorker
     THEN UNCHANGED <<thread, worker>>
     ELSE /\ worker[thread] = "exited"
          /\ worker' = [worker EXCEPT ![thread] = "none"]
          /\ thread' = NoWorker
  /\ Unlock(t)
  /\ Return(t)
  /\ UNCHANGED <<bus, rows, running, rtspUrl, source>>

-----------------------------------------------------------------------------
(* The nested publish of the response, as in Accounts. *)

Reply(t) ==
  /\ pc[t] = "reply"
  /\ "enter" \in RelockOutcomes
  /\ Release(t)
  /\ pc' = [pc EXCEPT ![t] = "idle"]
  /\ req' = [req EXCEPT ![t] = NoRequest]
  /\ status' = [status EXCEPT ![t] = 200]
  /\ UNCHANGED <<rows, relayer, loop>>

ReplyWedged(t) ==
  /\ pc[t] = "reply"
  /\ Wedge(t)
  /\ Goto(t, "wedged")
  /\ UNCHANGED <<rows, relayer, loop>>

-----------------------------------------------------------------------------
(* StreamRelayer::runLoop. *)

WorkerGoes(w, from, to) == worker[w] = from /\ worker' = [worker EXCEPT ![w] = to]

(* The test of the outer loop. *)
LoopTest(w) ==
  /\ WorkerGoes(w, "loop", IF running THEN "open" ELSE "exited")
  /\ UNCHANGED <<bus, rows, relayer, source, local>>

(* The camera is opened, with a decoder and an encoder, or one of them is  *)
(* not; rtspUrl_ is read under no lock.                                    *)
Open(w) ==
  /\ \/ /\ WorkerGoes(w, "open", "relay")
        /\ source' = [source EXCEPT ![w] = rtspUrl]
     \/ WorkerGoes(w, "open", "sleep") /\ UNCHANGED source
  /\ UNCHANGED <<bus, rows, relayer, local>>

(* The inner loop relays frame after frame, which changes nothing here,    *)
(* until a read fails ...                                                  *)
CloseCamera(w) ==
  /\ WorkerGoes(w, "relay", "sleep")
  /\ source' = [source EXCEPT ![w] = NoUrl]
  /\ UNCHANGED <<bus, rows, relayer, local>>

CameraLost(w) == running /\ CloseCamera(w)

(* ... or the flag falls. *)
RelayEnds(w) == ~running /\ CloseCamera(w)

(* Mutant: a lost camera ends the worker. *)
AwakeToQuit(w) ==
  /\ WorkerGoes(w, "sleep", "exited")
  /\ UNCHANGED <<bus, rows, relayer, source, local>>

(* Three seconds after a failure, one after the loss of the camera. *)
Awake(w) ==
  /\ WorkerGoes(w, "sleep", "loop")
  /\ UNCHANGED <<bus, rows, relayer, source, local>>

-----------------------------------------------------------------------------
(* The process ends and is started again: the table alone survives. *)
Restart ==
  /\ bus' = NoThread
  /\ running' = FALSE /\ thread' = NoWorker /\ rtspUrl' = NoUrl
  /\ mutex' = NoThread
  /\ worker' = [w \in Workers |-> "none"]
  /\ source' = [w \in Workers |-> NoUrl]
  /\ pc' = [t \in Threads |-> "idle"]
  /\ req' = [t \in Threads |-> NoRequest]
  /\ status' = [t \in Threads |-> 200]
  /\ UNCHANGED rows

Step(t) ==
  \/ Get(t) \/ BadRequest(t) \/ Clear(t) \/ Save(t)
  \/ Start(t) \/ Relock(t) \/ Spawn(t) \/ Stop(t) \/ Join(t)
  \/ Reply(t) \/ ReplyWedged(t)

RunLoop(w) == LoopTest(w) \/ Open(w) \/ RelayEnds(w) \/ Awake(w)

Next ==
  \/ \E t \in Threads : Step(t) \/ \E r \in Request : Publish(t, r)
  \/ \E w \in Workers : RunLoop(w) \/ CameraLost(w)
  \/ Restart

Spec == Init /\ [][Next]_vars

(* Pool threads and workers are scheduled; opening and reading a camera    *)
(* come back, with a frame or an error.  A camera need not ever be lost.   *)
FairSpec ==
  /\ Spec
  /\ \A t \in Threads : WF_vars(Step(t))
  /\ \A w \in Workers : WF_vars(RunLoop(w))

-----------------------------------------------------------------------------
(* Properties. *)

Working(w) == worker[w] \notin {"none", "exited"}

(* When start() comes to assign rtspUrl_ and thread_, no worker is left:   *)
(* the address is not written under a reader, and no joinable std::thread  *)
(* is assigned to, which would terminate the process.                      *)
SpawnIsAlone ==
  \A t \in Threads : pc[t] = "spawn" =>
    thread = NoWorker /\ \A w \in Workers : worker[w] = "none"

(* There is one worker at most, thread_ knows it, and what it relays is    *)
(* the address of the last start(), never that of an earlier one.          *)
OneStream ==
  \A w \in Workers :
    /\ worker[w] # "none" => w = thread
    /\ worker[w] = "relay" => source[w] = rtspUrl

(* "Stream started successfully" and "Stream stopped successfully" are     *)
(* true when they are published: a worker runs for the address that is     *)
(* now the latest in the table, or none runs at all.                       *)
TruthfulStream ==
  \A t \in Threads :
    pc[t] \in {"reply", "wedged"} /\ status[t] = 200 =>
      /\ req[t].op = "save" =>
           /\ running /\ thread # NoWorker /\ Working(thread)
           /\ rtspUrl = req[t].url
           /\ rows # <<>> /\ rows[Len(rows)] = req[t].url
      /\ req[t].op = "stop" =>
           ~running /\ \A w \in Workers : ~Working(w)

(* Between requests, what GET /api/rtsp shows (the latest row, if there is *)
(* one) is the address of the stream that runs, whichever statements of    *)
(* earlier requests failed.                                                *)
ShowsWhatRuns ==
  bus = NoThread /\ running /\ rows # <<>> => rows[Len(rows)] = rtspUrl

(* Every camera request ends, or wedges at the nested publish, although    *)
(* stop() joins the worker under two locks: the worker needs neither of    *)
(* them to notice the flag.                                                *)
CameraRequestEnds ==
  \A t \in Threads : pc[t] # "idle" ~> pc[t] \in {"idle", "wedged"}

(* A worker that cannot open its camera, or has lost it, keeps trying as   *)
(* long as the stream is wanted.                                           *)
Reconnects ==
  \A w \in Workers :
    worker[w] = "sleep" /\ running ~> worker[w] = "open" \/ ~running

(* The endpoints, the relayer and its worker implement CameraService: what *)
(* is streamed is the address of the worker thread_ stands for, and the    *)
(* camera is open where a worker relays.                                   *)
Saved == IF rows = <<>> THEN NoUrl ELSE rows[Len(rows)]

Stream == IF thread = NoWorker THEN NoUrl ELSE rtspUrl

Airing == {source[w] : w \in {x \in Workers : worker[x] = "relay"}}

Phase(label) == CASE label = "idle" -> "idle"
                  [] label \in {"reply", "wedged"} -> "answered"
                  [] OTHER -> "served"

Stage == [t \in Threads |-> Phase(pc[t])]

Camera == INSTANCE CameraService WITH
  Clients <- Threads, saved <- Saved, stream <- Stream, airing <- Airing,
  stage <- Stage, request <- req, code <- status

ImplementsCamera == Camera!Spec
=============================================================================
