-------------------------------- MODULE Relay --------------------------------
(***************************************************************************)
(* StreamControl and StreamHub put together: the worker that the camera    *)
(* endpoints start and stop is the one that broadcasts, and the handlers   *)
(* of requests and of WebSocket sessions run on the same threads.  A       *)
(* thread whose request has to wait for the bus runs nothing else          *)
(* meanwhile, and stop() waits for a worker that may be in a broadcast.    *)
(***************************************************************************)
EXTENDS Sequences, Naturals

CONSTANTS Threads, NoThread, RelockOutcomes,            \* the pool
          Urls, NoUrl, Workers, NoWorker, MaxRows, MayFail,
          Sessions, Browsers, NoSession, BufferOutcomes, MaxFrames

VARIABLES bus, rows, running, thread, rtspUrl, mutex, worker, source, pc, req,
          status,   \* the variables of StreamControl
          alive, peer, reading, writing, queue, is_writing, sent, joined,
          sessions, frame, cast, todo, at, mine, copy,
          hpc,      \* the variables of StreamHub, hpc for its pc
          packets,  \* of the frame the worker has read, still to broadcast
          waiting   \* the threads whose request waits for the bus

Control == INSTANCE StreamControl
Hub == INSTANCE StreamHub WITH pc <- hpc

ASSUME RelayAssumption ==
  Control!BusAssumption /\ Control!StreamAssumption /\ Hub!HubAssumption

control  == <<bus, rows, running, thread, rtspUrl, mutex, worker, source, pc,
              req, status>>
delivery == <<alive, peer, reading, writing, queue, is_writing, sent, joined,
              sessions, frame, cast, todo, at, hpc, mine, copy>>
vars     == <<control, delivery, packets, waiting>>

(* A thread does one thing at a time. *)
Busy(t) == pc[t] # "idle" \/ hpc[t] # "idle" \/ t \in waiting

TypeOK ==
  /\ Control!TypeOK /\ Hub!TypeOK
  /\ packets \in 0 .. MaxFrames
  /\ waiting \subseteq Threads

Init == Control!Init /\ Hub!Init /\ packets = 0 /\ waiting = {}

-----------------------------------------------------------------------------
(* Requests. *)

(* publish() is called; the request is looked at when the bus is free. *)
Arrive(t) ==
  /\ alive /\ ~Busy(t)
  /\ waiting' = waiting \cup {t}
  /\ UNCHANGED <<control, delivery, packets>>

Publish(t) ==
  /\ alive /\ t \in waiting
  /\ \E r \in Control!Request : Control!Publish(t, r)
  /\ waiting' = waiting \ {t}
  /\ UNCHANGED <<delivery, packets>>

Dispatch(t) ==
  /\ alive /\ Control!Step(t)
  /\ UNCHANGED <<delivery, packets, waiting>>

-----------------------------------------------------------------------------
(* The worker. *)

(* Mutant: another thread broadcasts, and the loop goes on meanwhile. *)
LoopUnbounded(w) ==
  /\ alive
  /\ Control!RunLoop(w) \/ Control!CameraLost(w)
  /\ UNCHANGED <<delivery, packets, waiting>>

(* It takes no step of the loop before it is done with the frame in hand. *)
Done(w) == worker[w] = "relay" => cast = "idle" /\ packets = 0

Loop(w) ==
  /\ alive /\ Done(w)
  /\ Control!RunLoop(w) \/ Control!CameraLost(w)
  /\ UNCHANGED <<delivery, packets, waiting>>

(* The test of the inner loop, and a frame that decoder and encoder turn   *)
(* into some packets.                                                      *)
Read ==
  /\ alive /\ running
  /\ \E w \in Workers : worker[w] = "relay" /\ Done(w)
  /\ packets' \in 1 .. MaxFrames - frame
  /\ UNCHANGED <<control, delivery, waiting>>

(* The flag was up when the frame was read; it may have fallen since. *)
Broadcast ==
  /\ packets > 0 /\ packets' = packets - 1
  /\ Hub!Broadcast
  /\ UNCHANGED <<control, waiting>>

Casting == Hub!Casting /\ UNCHANGED <<control, packets, waiting>>

-----------------------------------------------------------------------------
(* Sessions. *)

Complete(t, s) ==
  /\ ~Busy(t)
  /\ Hub!Completion(t, s) \/ Hub!Upgrade(t, s)
  /\ UNCHANGED <<control, packets, waiting>>

Handle(t) == Hub!Handler(t) /\ UNCHANGED <<control, packets, waiting>>

Client(s) ==
  /\ Hub!AskAgain(s) \/ Hub!Depart(s)
  /\ UNCHANGED <<control, packets, waiting>>

Restart == Control!Restart /\ Hub!Restart /\ packets' = 0 /\ waiting' = {}

Next ==
  \/ \E t \in Threads : \/ Arrive(t) \/ Publish(t) \/ Dispatch(t) \/ Handle(t)
                        \/ \E s \in Sessions : Complete(t, s)
  \/ \E w \in Workers : Loop(w)
  \/ Read \/ Broadcast \/ Casting
  \/ \E s \in Sessions : Client(s)
  \/ Restart

Spec == Init /\ [][Next]_vars

(* As in the parts; the encoder gives its packets, and a camera need not   *)
(* send frames.  A completion takes its turn in the FIFO queue of the      *)
(* pool: when a thread is free again and again, it runs.                   *)
FairSpec ==
  /\ Spec
  /\ \A t \in Threads :
       WF_vars(Publish(t)) /\ WF_vars(Dispatch(t)) /\ WF_vars(Handle(t))
  /\ \A w \in Workers :
       WF_vars(alive /\ Done(w) /\ Control!RunLoop(w)
               /\ UNCHANGED <<delivery, packets, waiting>>)
  /\ WF_vars(Broadcast) /\ WF_vars(Casting)
  /\ \A s \in Sessions :
       SF_vars(\E t \in Threads :
                 /\ ~Busy(t) /\ (Hub!Written(t, s) \/ Hub!WriteFails(t, s))
                 /\ UNCHANGED <<control, packets, waiting>>)

-----------------------------------------------------------------------------
(* Properties. *)

(* A broadcast, and the packets still to be broadcast, are the current     *)
(* worker's and of the camera that was asked for last; when "Stream        *)
(* stopped" is published there are none.                                   *)
FramesAreCurrent ==
  /\ cast # "idle" \/ packets # 0 =>
       /\ thread # NoWorker /\ worker[thread] = "relay"
       /\ source[thread] = rtspUrl
  /\ \A t \in Threads :
       pc[t] = "reply" /\ req[t].op = "stop" /\ status[t] = 200 =>
         cast = "idle" /\ packets = 0

(* Every camera request ends: stop() waits for a worker that may be in a   *)
(* broadcast, with all other threads waiting for the bus, and the          *)
(* broadcast needs none of them.                                           *)
RequestsEnd ==
  \A t \in Threads : pc[t] # "idle" ~> pc[t] = "idle" \/ ~alive

(* A broadcast waits for no client, nor for any thread of the pool. *)
BroadcastEnds == cast = "each" ~> cast = "idle" \/ ~alive

(* A frame queued for a client is written or the client leaves the hub,    *)
(* however many requests come for the same threads.                        *)
FramesReachClients ==
  \A s \in Sessions :
    s \in sessions /\ queue[s] # <<>> ~>
      queue[s] = <<>> \/ s \notin sessions \/ ~alive
=============================================================================
