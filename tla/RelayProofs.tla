----------------------------- MODULE RelayProofs -----------------------------
(***************************************************************************)
(* Proofs about Relay: put together, the camera endpoints and the hub each *)
(* do nothing they do not do alone, so that what is proved of each of them *)
(* holds of the whole; and the two agree on whose frames are broadcast.    *)
(***************************************************************************)
EXTENDS Relay, TLAPS

CP == INSTANCE StreamControlProofs
HP == INSTANCE StreamHubRefinement WITH pc <- hpc

-----------------------------------------------------------------------------
(* The parts. *)

(* A step of the whole is a step of the control part, or leaves it alone.  *)
LEMMA ControlStep == [Next]_vars => [Control!Next]_(Control!vars)
<1> SUFFICES ASSUME [Next]_vars PROVE Control!Next \/ UNCHANGED Control!vars
  OBVIOUS
<1>1. CASE UNCHANGED control
  BY <1>1 DEF control, Control!vars, Control!relayer, Control!loop, Control!local
<1>2. ASSUME NEW t \in Threads, Publish(t) \/ Dispatch(t) PROVE Control!Next
  BY <1>2 DEF Publish, Dispatch, Control!Next
<1>3. ASSUME NEW w \in Workers, Loop(w) PROVE Control!Next
  BY <1>3 DEF Loop, Control!Next
<1>4. CASE Restart
  BY <1>4 DEF Restart, Control!Next
<1>5. CASE /\ ~UNCHANGED control /\ ~Restart
           /\ \A t \in Threads : ~(Publish(t) \/ Dispatch(t))
           /\ \A w \in Workers : ~Loop(w)
  BY <1>5 DEF Next, vars, Arrive, Handle, Complete, Read, Broadcast, Casting, Client
<1> QED BY <1>1, <1>2, <1>3, <1>4, <1>5

(* ... and of the hub. *)
LEMMA HubStep == [Next]_vars => [Hub!Next]_(Hub!vars)
<1> SUFFICES ASSUME [Next]_vars PROVE Hub!Next \/ UNCHANGED Hub!vars
  OBVIOUS
<1>1. CASE UNCHANGED delivery
  BY <1>1 DEF delivery, Hub!vars, Hub!client, Hub!output, Hub!hub, Hub!worker,
              Hub!local
<1>2. ASSUME NEW t \in Threads, Handle(t) PROVE Hub!Next
  BY <1>2 DEF Handle, Hub!Next
<1>3. ASSUME NEW t \in Threads, NEW s \in Sessions, Complete(t, s) PROVE Hub!Next
  BY <1>3 DEF Complete, Hub!Next
<1>4. ASSUME NEW s \in Sessions, Client(s) PROVE Hub!Next
  BY <1>4 DEF Client, Hub!Next
<1>5. CASE Broadcast \/ Casting \/ Restart
  BY <1>5 DEF Broadcast, Casting, Restart, Hub!Next
<1>6. CASE \/ \E t \in Threads : Arrive(t) \/ Publish(t) \/ Dispatch(t)
           \/ Read \/ \E w \in Workers : Loop(w)
           \/ UNCHANGED vars
  BY <1>1, <1>6 DEF vars, Arrive, Publish, Dispatch, Loop, Read
<1> QED BY <1>2, <1>3, <1>4, <1>5, <1>6 DEF Next

(* The camera endpoints and the hub behave as specified alone, although    *)
(* they share threads and the worker.                                      *)
THEOREM PartsAsSpecified == Spec => Control!Spec /\ Hub!Spec
<1>1. Init => Control!Init /\ Hub!Init
  BY DEF Init
<1> QED BY <1>1, ControlStep, HubStep, PTL DEF Spec, Control!Spec, Hub!Spec

(* CP and HP, which hold the proofs, are the same specifications. *)
LEMMA SameControl == Control!Spec => CP!Spec
<1>1. Control!Init => CP!Init
  BY DEF Control!Init, CP!Init, Control!Fresh, CP!Fresh, Control!BusInit,
         CP!BusInit, Control!NoRequest, CP!NoRequest
<1>2. [Control!Next]_(Control!vars) => [CP!Next]_(CP!vars)
  BY DEF Control!Next, CP!Next, Control!Step, CP!Step, Control!Publish,
         CP!Publish, Control!Get, CP!Get, Control!BadRequest, CP!BadRequest,
         Control!Clear, CP!Clear, Control!Save, CP!Save, Control!Start,
         CP!Start, Control!Relock, CP!Relock, Control!Spawn, CP!Spawn,
         Control!Stop, CP!Stop, Control!Join, CP!Join, Control!Reply,
         CP!Reply, Control!ReplyWedged, CP!ReplyWedged, Control!RunLoop,
         CP!RunLoop, Control!LoopTest, CP!LoopTest, Control!Open, CP!Open,
         Control!RelayEnds, CP!RelayEnds, Control!Awake, CP!Awake,
         Control!CameraLost, CP!CameraLost, Control!CloseCamera,
         CP!CloseCamera, Control!Restart, CP!Restart, Control!Goto, CP!Goto,
         Control!Answer, CP!Answer, Control!Lock, CP!Lock, Control!Unlock,
         CP!Unlock, Control!Idle, CP!Idle, Control!Return, CP!Return,
         Control!WorkerGoes, CP!WorkerGoes, Control!Acquire, CP!Acquire,
         Control!Release, CP!Release, Control!Wedge, CP!Wedge,
         Control!Request, CP!Request, Control!NoRequest, CP!NoRequest,
         Control!vars, CP!vars, Control!relayer, CP!relayer, Control!loop,
         CP!loop, Control!local, CP!local
<1> QED BY <1>1, <1>2, PTL DEF Control!Spec, CP!Spec

(* The same for the hub. *)
LEMMA SameHub == Hub!Spec => HP!Spec
<1>1. Hub!Init => HP!Init
  BY DEF Hub!Init, HP!Init, Hub!NoFrame, HP!NoFrame
<1>2. [Hub!Next]_(Hub!vars) => [HP!Next]_(HP!vars)
  BY DEF Hub!Next, HP!Next, Hub!Handler, HP!Handler, Hub!Completion,
         HP!Completion, Hub!Casting, HP!Casting, Hub!Upgrade, HP!Upgrade,
         Hub!AskAgain, HP!AskAgain, Hub!Depart, HP!Depart, Hub!Accepted,
         HP!Accepted, Hub!AcceptFails, HP!AcceptFails, Hub!Register,
         HP!Register, Hub!DoRead, HP!DoRead, Hub!ReadFails, HP!ReadFails,
         Hub!Unregister, HP!Unregister, Hub!Written, HP!Written,
         Hub!WriteFails, HP!WriteFails, Hub!Pop, HP!Pop, Hub!Rest, HP!Rest,
         Hub!CopyFront, HP!CopyFront, Hub!StartWrite, HP!StartWrite,
         Hub!Broadcast, HP!Broadcast, Hub!Push, HP!Push, Hub!Relock,
         HP!Relock, Hub!Wedge, HP!Wedge, Hub!EndBroadcast, HP!EndBroadcast,
         Hub!Restart, HP!Restart, Hub!Handle, HP!Handle, Hub!At, HP!At,
         Hub!Goto, HP!Goto, Hub!Return, HP!Return, Hub!Referred, HP!Referred,
         Hub!HubFree, HP!HubFree, Hub!SessionFree, HP!SessionFree,
         Hub!NoFrame, HP!NoFrame, Hub!Garbage, HP!Garbage, Hub!vars, HP!vars,
         Hub!client, HP!client, Hub!output, HP!output, Hub!hub, HP!hub,
         Hub!worker, HP!worker, Hub!local, HP!local
<1> QED BY <1>1, <1>2, PTL DEF Hub!Spec, HP!Spec

(* What is invariant in the parts is invariant in the whole. *)
LEMMA PartsInvariant == Spec => []CP!IInv /\ []HP!IInv
<1>1. CP!Spec => []CP!IInv
  BY CP!Invariance, RelayAssumption
<1>2. HP!Spec => []HP!IInv
  BY HP!Invariance, RelayAssumption
<1> QED BY <1>1, <1>2, SameControl, SameHub, PartsAsSpecified, PTL

-----------------------------------------------------------------------------
(* The worker and its broadcast. *)

(* The worker stands at relay, and the bound is kept. *)
CastInv ==
  /\ cast # "idle" \/ packets # 0 => thread # NoWorker /\ worker[thread] = "relay"
  /\ packets \in 0 .. MaxFrames /\ packets <= MaxFrames - frame

(* What CP!IInv says of the worker, and of the requests that end it. *)
LEMMA WorkerFacts ==
  ASSUME CP!IInv
  PROVE  /\ thread \in Workers \cup {NoWorker} /\ NoWorker \notin Workers
         /\ worker \in [Workers -> {"none", "loop", "open", "relay", "sleep", "exited"}]
         /\ \A w \in Workers : /\ worker[w] # "none" => w = thread
                               /\ worker[w] = "relay" => source[w] = rtspUrl
         /\ \A t \in Threads :
              /\ pc[t] = "spawn" => thread = NoWorker
              /\ pc[t] = "reply" /\ req[t].op = "stop" /\ status[t] = 200 =>
                   \A w \in Workers : worker[w] \in {"none", "exited"}
BY RelayAssumption
   DEF CP!IInv, CP!TypeOK, CP!OneStream, CP!Control, CP!LocalInv, CP!TruthfulStream,
       CP!Working, Control!StreamAssumption

(* How many frames there are so far, and may be. *)
LEMMA FrameFacts ==
  ASSUME HP!IInv
  PROVE  frame \in 0 .. MaxFrames /\ MaxFrames \in Nat
BY RelayAssumption DEF HP!IInv, HP!TypeOK, Hub!HubAssumption

(* While the worker has a frame in hand nothing moves it: it takes no step *)
(* of its loop, stop() waits until it has returned, and start() for        *)
(* stop().                                                                 *)
LEMMA CastInvStep ==
  ASSUME CP!IInv, HP!IInv, CastInv, [Next]_vars
  PROVE  CastInv'
<1> USE DEF CastInv
<1>1. CASE UNCHANGED <<thread, worker, cast, packets, frame>>
  BY <1>1
<1>2. ASSUME NEW t \in Threads, Dispatch(t) PROVE CastInv'
  <2>1. CASE Control!Spawn(t)
    BY <1>2, <2>1, WorkerFacts DEF Dispatch, delivery, Control!Spawn
  <2>2. CASE Control!Join(t)
    BY <1>2, <2>2, WorkerFacts DEF Dispatch, delivery, Control!Join
  <2>3. CASE ~Control!Spawn(t) /\ ~Control!Join(t)
    BY <1>1, <1>2, <2>3
    DEF Dispatch, delivery, Control!Step, Control!Get, Control!BadRequest,
        Control!Clear, Control!Save, Control!Start, Control!Relock, Control!Stop,
        Control!Reply, Control!ReplyWedged, Control!relayer, Control!loop
  <2> QED BY <2>1, <2>2, <2>3
<1>3. ASSUME NEW w \in Workers, Loop(w) PROVE CastInv'
  <2>1. UNCHANGED <<thread, cast, packets, frame>>
    BY <1>3
    DEF Loop, delivery, Control!RunLoop, Control!LoopTest, Control!Open,
        Control!RelayEnds, Control!CameraLost, Control!CloseCamera, Control!Awake,
        Control!relayer
  <2>2. worker[w] # "none"
    BY <1>3, WorkerFacts
    DEF Loop, Control!RunLoop, Control!LoopTest, Control!Open,
        Control!RelayEnds, Control!CameraLost, Control!CloseCamera, Control!Awake,
        Control!WorkerGoes
  <2>3. w = thread /\ cast = "idle" /\ packets = 0
    BY <1>3, <2>2, WorkerFacts DEF Loop, Done
  <2> QED BY <2>1, <2>3
<1>4. CASE Read
  <2>1. PICK w \in Workers : worker[w] = "relay" /\ Done(w)
    BY <1>4 DEF Read
  <2>2. w = thread /\ thread # NoWorker
    BY <2>1, WorkerFacts
  <2>3. /\ packets' \in 1 .. MaxFrames - frame
        /\ UNCHANGED <<thread, worker, frame>>
    BY <1>4 DEF Read, control, delivery
  <2> QED BY <2>1, <2>2, <2>3, FrameFacts
<1>5. CASE Broadcast
  <2>1. /\ packets > 0 /\ packets' = packets - 1 /\ frame' = frame + 1
        /\ UNCHANGED <<thread, worker>>
    BY <1>5 DEF Broadcast, Hub!Broadcast, control
  <2> QED BY <2>1, FrameFacts
<1>6. CASE Casting
  <2>1. cast # "idle" /\ UNCHANGED <<thread, worker, packets, frame>>
    BY <1>6 DEF Casting, control, Hub!Casting, Hub!Push, Hub!Relock, Hub!Wedge,
                Hub!EndBroadcast, Hub!hub
  <2> QED BY <2>1
<1>7. CASE Restart
  BY <1>7, FrameFacts DEF Restart, Hub!Restart
<1>8. ASSUME NEW t \in Threads, Arrive(t) \/ Publish(t) PROVE CastInv'
  BY <1>1, <1>8 DEF Arrive, Publish, control, delivery, Control!Publish,
                    Control!relayer, Control!loop
<1>9. ASSUME NEW t \in Threads, Handle(t) PROVE CastInv'
  <2>1. UNCHANGED <<thread, worker, cast, packets, frame>>
    BY <1>9
    DEF Handle, control, Hub!Handler, Hub!Register, Hub!DoRead, Hub!Unregister,
        Hub!Pop, Hub!Rest, Hub!CopyFront, Hub!StartWrite, Hub!worker, Hub!hub
  <2> QED BY <1>1, <2>1
<1>10. ASSUME NEW t \in Threads, NEW s \in Sessions, Complete(t, s) PROVE CastInv'
  <2>1. UNCHANGED <<thread, worker, cast, packets, frame>>
    BY <1>10
    DEF Complete, control, Hub!Completion, Hub!Upgrade, Hub!Accepted,
        Hub!AcceptFails, Hub!ReadFails, Hub!Written, Hub!WriteFails, Hub!worker,
        Hub!hub
  <2> QED BY <1>1, <2>1
<1>11. ASSUME NEW s \in Sessions, Client(s) PROVE CastInv'
  BY <1>1, <1>11 DEF Client, control, Hub!AskAgain, Hub!Depart, Hub!worker, Hub!hub
<1>12. CASE UNCHANGED vars
  BY <1>1, <1>12 DEF vars, control, delivery
<1> QED BY <1>2, <1>3, <1>4, <1>5, <1>6, <1>7, <1>8, <1>9, <1>10, <1>11, <1>12
        DEF Next

(* Every reachable state. *)
LEMMA CastInvariance == Spec => []CastInv
<1>1. Init => CastInv
  BY RelayAssumption DEF Init, Hub!Init, CastInv, Hub!HubAssumption
<1> QED BY <1>1, CastInvStep, PartsInvariant, PTL DEF Spec

-----------------------------------------------------------------------------
(* The properties. *)

Waiters == waiting \subseteq Threads

(* The variables of both parts keep their types when the parts run         *)
(* together.                                                               *)
THEOREM TypeCorrect == Spec => []TypeOK
<1>1. CP!IInv => Control!TypeOK
  BY DEF CP!IInv, CP!TypeOK, CP!BusTypeOK, CP!Labels, CP!Request,
         Control!TypeOK, Control!BusTypeOK, Control!Labels, Control!Request
<1>2. HP!IInv => Hub!TypeOK
  BY DEF HP!IInv, HP!TypeOK, HP!Frame, HP!NoFrame, HP!Garbage,
         Hub!TypeOK, Hub!Frame, Hub!NoFrame, Hub!Garbage
<1>3. Init => Waiters
  BY DEF Init, Waiters
<1>4. Waiters /\ [Next]_vars => Waiters'
  BY DEF Waiters, Next, vars, Arrive, Publish, Dispatch, Handle, Complete, Loop,
         Read, Broadcast, Casting, Client, Restart
<1>5. Spec => []Waiters
  BY <1>3, <1>4, PTL DEF Spec
<1>6. Control!TypeOK /\ Hub!TypeOK /\ Waiters /\ CastInv => TypeOK
  BY DEF TypeOK, Waiters, CastInv
<1> QED BY <1>1, <1>2, <1>5, <1>6, PartsInvariant, CastInvariance, PTL

(* What is broadcast is read by the current worker from the camera of the  *)
(* last start(), and when "Stream stopped" is published no broadcast is in *)
(* progress.                                                               *)
THEOREM BroadcastsAreCurrent == Spec => []FramesAreCurrent
<1>1. CP!IInv /\ CastInv => FramesAreCurrent
  BY WorkerFacts DEF CastInv, FramesAreCurrent
<1> QED BY <1>1, PartsInvariant, CastInvariance, PTL

(* Sharing threads and the worker, sessions still have one writer each,    *)
(* lose no frame and send all of them in order.                            *)
THEOREM HubKeepsItsPromises ==
  Spec => [](Hub!OneWriter /\ Hub!NoFrameStranded /\ Hub!InOrder)
<1>1. HP!Spec => [](HP!OneWriter /\ HP!NoFrameStranded /\ HP!InOrder)
  BY HP!SessionsHaveOneWriter, HP!QueuedFramesHaveAWriter, HP!FramesInOrder,
     RelayAssumption, PTL
<1>2. HP!OneWriter /\ HP!NoFrameStranded /\ HP!InOrder
        => Hub!OneWriter /\ Hub!NoFrameStranded /\ Hub!InOrder
  BY DEF HP!OneWriter, HP!NoFrameStranded, HP!InOrder, HP!WriterThreads, HP!Popping,
         HP!NoFrame, HP!Garbage,
         Hub!OneWriter, Hub!NoFrameStranded, Hub!InOrder, Hub!WriterThreads,
         Hub!Popping, Hub!NoFrame, Hub!Garbage
<1> QED BY <1>1, <1>2, SameHub, PartsAsSpecified, PTL

(* Put together, the endpoints still implement CameraService and the hub   *)
(* FrameService: neither the threads nor the worker they share lets one    *)
(* break what the other promises.                                          *)
THEOREM WholeImplementsServices ==
  Spec => Control!ImplementsCamera /\ Hub!ImplementsFrames
<1>1. CP!Spec => CP!ImplementsCamera
  BY CP!EndpointsImplementCamera, RelayAssumption
<1>2. HP!Spec => HP!ImplementsFrames
  BY HP!HubImplementsFrames, RelayAssumption
<1>3. CP!ImplementsCamera => Control!ImplementsCamera
  <2>1. CP!Camera!Init => Control!Camera!Init
    BY DEF CP!Camera!Init, Control!Camera!Init, CP!Camera!Idle, Control!Camera!Idle,
           CP!Camera!NoRequest, Control!Camera!NoRequest, CP!Saved, Control!Saved,
           CP!Stream, Control!Stream, CP!Airing, Control!Airing, CP!Stage,
           Control!Stage, CP!Phase, Control!Phase
  <2>2. [CP!Camera!Next]_<<CP!Camera!camera, CP!Camera!talk>>
          => [Control!Camera!Next]_<<Control!Camera!camera, Control!Camera!talk>>
    BY DEF CP!Camera!Next, Control!Camera!Next, CP!Camera!Ask, Control!Camera!Ask,
         CP!Camera!Look, Control!Camera!Look, CP!Camera!Refuse,
         Control!Camera!Refuse, CP!Camera!Saving,
         Control!Camera!Saving, CP!Camera!Forget,
         Control!Camera!Forget, CP!Camera!Store, Control!Camera!Store,
         CP!Camera!TurnOff, Control!Camera!TurnOff, CP!Camera!TurnOn,
         Control!Camera!TurnOn, CP!Camera!Halt, Control!Camera!Halt,
         CP!Camera!Return, Control!Camera!Return, CP!Camera!Connect,
         Control!Camera!Connect, CP!Camera!Disconnect,
         Control!Camera!Disconnect, CP!Camera!Restart,
         Control!Camera!Restart, CP!Camera!Idle, Control!Camera!Idle,
         CP!Camera!Serving, Control!Camera!Serving, CP!Camera!Answer,
         Control!Camera!Answer, CP!Camera!Request,
         Control!Camera!Request, CP!Camera!NoRequest,
         Control!Camera!NoRequest, CP!Camera!camera,
         Control!Camera!camera, CP!Camera!talk, Control!Camera!talk,
         CP!Saved, Control!Saved, CP!Stream, Control!Stream,
         CP!Airing, Control!Airing, CP!Stage, Control!Stage, CP!Phase,
         Control!Phase
  <2> QED
    BY <2>1, <2>2, PTL
    DEF CP!ImplementsCamera, Control!ImplementsCamera, CP!Camera!Spec,
        Control!Camera!Spec
<1>4. HP!ImplementsFrames => Hub!ImplementsFrames
  <2>1. HP!Service!Init => Hub!Service!Init
    BY DEF HP!Service!Init, Hub!Service!Init, HP!Backlog, Hub!Backlog, HP!Unwritten,
           Hub!Unwritten, HP!Popping, Hub!Popping
  <2>2. [HP!Service!Next]_<<sessions, HP!Backlog, sent, frame>>
          => [Hub!Service!Next]_<<sessions, Hub!Backlog, sent, frame>>
    BY DEF HP!Service!Next, Hub!Service!Next, HP!Service!Join, Hub!Service!Join,
         HP!Service!Leave, Hub!Service!Leave, HP!Service!Send,
         Hub!Service!Send, HP!Service!Broadcast,
         Hub!Service!Broadcast, HP!Service!Restart,
         Hub!Service!Restart, HP!Backlog, Hub!Backlog, HP!Unwritten,
         Hub!Unwritten, HP!Popping, Hub!Popping, HP!Garbage,
         Hub!Garbage, HP!NoFrame, Hub!NoFrame
  <2> QED
    BY <2>1, <2>2, PTL
    DEF HP!ImplementsFrames, Hub!ImplementsFrames, HP!Service!Spec,
        Hub!Service!Spec
<1> QED BY <1>1, <1>2, <1>3, <1>4, SameControl, SameHub, PartsAsSpecified, PTL

-----------------------------------------------------------------------------
(* Why stop() returns although its worker may be broadcasting.             *)

(* What the worker has still to do, the most significant first: its way to *)
(* the end of the loop, the packets in hand, the broadcast it is in, the   *)
(* sessions to visit, the session it is at.                                *)
Nearer ==
  \/ CP!Distance(worker'[thread]) < CP!Distance(worker[thread])
  \/ UNCHANGED worker /\ packets' < packets
  \/ UNCHANGED <<worker, packets>> /\ cast = "each" /\ cast' \in {"idle", "wedged"}
  \/ /\ UNCHANGED <<worker, packets, cast>>
     /\ todo' \subseteq todo /\ todo' # todo
  \/ UNCHANGED <<worker, packets, cast, todo>> /\ at = NoSession /\ at' # NoSession

(* While a request joins the worker, whatever the worker does takes it     *)
(* nearer to its end, and what others do does not put it back.             *)
WholeApproaches ==
  \A t \in Threads : pc[t] = "join" /\ pc'[t] = "join" =>
    UNCHANGED <<worker, packets, cast, todo, at>> \/ Nearer

(* ... and as long as the process lives there is always something for it   *)
(* to do: the next step of its loop, a packet to broadcast, a session      *)
(* whose mutex no thread keeps, or the end of the broadcast.  Only the     *)
(* nested lock of sendFrame can stop it for good.                          *)
WorkerCanGo ==
  \A t \in Threads : pc[t] = "join" /\ thread # NoWorker =>
    \/ worker[thread] = "exited"
    \/ worker[thread] \in {"loop", "open", "sleep"} /\ Done(thread)
    \/ worker[thread] = "relay" /\ ~running /\ Done(thread)
    \/ packets > 0 /\ cast = "idle" /\ frame < MaxFrames
    \/ cast = "each" /\ at \in todo
    \/ cast = "each" /\ at = NoSession /\ todo \subseteq sessions
    \/ cast = "wedged"

(* The request that joins has the bus for itself, and the flag is down.    *)
LEMMA Joining ==
  ASSUME CP!IInv, NEW t \in Threads, pc[t] = "join"
  PROVE  ~running /\ bus = t /\ \A u \in Threads : u # t => pc[u] = "idle"
<1>1. \A u \in Threads : pc[u] # "idle" <=> bus = u
  BY DEF CP!IInv, CP!BusInv
<1>2. ~running
  BY DEF CP!IInv, CP!Control, CP!LocalInv
<1> QED BY <1>1, <1>2

(* Neither it nor any other request takes a step while it waits.           *)
LEMMA NoRequestMoves ==
  ASSUME CP!IInv, NEW t \in Threads, pc[t] = "join", pc'[t] = "join",
         NEW u \in Threads, Dispatch(u) \/ Publish(u)
  PROVE  FALSE
<1>1. CASE Publish(u)
  BY <1>1, Joining, RelayAssumption
     DEF Publish, Control!Publish, Control!Acquire, Control!BusAssumption
<1>2. CASE Dispatch(u)
  <2>1. pc[u] # "idle"
    BY <1>2 DEF Dispatch, Control!Step, Control!Get, Control!BadRequest,
                Control!Clear, Control!Save, Control!Start, Control!Relock,
                Control!Spawn, Control!Stop, Control!Join, Control!Reply,
                Control!ReplyWedged
  <2>2. u = t
    BY <2>1, Joining
  <2>3. Control!Join(t)
    BY <1>2, <2>2
       DEF Dispatch, Control!Step, Control!Get, Control!BadRequest, Control!Clear,
           Control!Save, Control!Start, Control!Relock, Control!Spawn, Control!Stop,
           Control!Reply, Control!ReplyWedged
  <2>4. pc'[t] \in {"reply", "relock"}
    BY <2>3 DEF Control!Join, Control!Return, Control!Answer, Control!Goto,
                CP!IInv, CP!TypeOK
  <2> QED BY <2>4
<1> QED BY <1>1, <1>2

(* A step of the loop.                                                     *)
LEMMA LoopApproaches ==
  ASSUME CP!IInv, ~running, NEW w \in Workers, Loop(w)
  PROVE  CP!Distance(worker'[thread]) < CP!Distance(worker[thread])
<1>1. CP!RunLoop(w) \/ CP!CameraLost(w)
  BY DEF Loop, Control!RunLoop, CP!RunLoop, Control!LoopTest, CP!LoopTest,
         Control!Open, CP!Open, Control!RelayEnds, CP!RelayEnds, Control!Awake,
         CP!Awake, Control!CameraLost, CP!CameraLost, Control!CloseCamera,
         CP!CloseCamera, Control!WorkerGoes, CP!WorkerGoes, Control!relayer,
         CP!relayer, Control!local, CP!local
<1>2. CP!StreamAssumption
  BY RelayAssumption DEF Control!StreamAssumption, CP!StreamAssumption
<1>3. w = thread /\ CP!Distance(worker'[w]) < CP!Distance(worker[w])
  BY <1>1, <1>2, CP!WorkerApproaches, RelayAssumption
<1> QED BY <1>3

(* A step of a broadcast.                                                  *)
LEMMA CastingApproaches ==
  ASSUME HP!IInv, Casting
  PROVE  Nearer
<1>1. /\ todo \subseteq Sessions /\ NoSession \notin Sessions
      /\ at # NoSession => at \in todo
  BY RelayAssumption DEF HP!IInv, HP!TypeOK, HP!Places, Hub!HubAssumption
<1>2. UNCHANGED <<worker, packets>>
  BY DEF Casting, control
<1>3. ASSUME NEW s \in Sessions, Hub!Push(s) PROVE Nearer
  BY <1>1, <1>2, <1>3 DEF Hub!Push, Nearer
<1>4. CASE Hub!Relock
  BY <1>1, <1>2, <1>4 DEF Hub!Relock, Nearer
<1>5. CASE Hub!Wedge \/ Hub!EndBroadcast
  BY <1>2, <1>5 DEF Hub!Wedge, Hub!EndBroadcast, Nearer
<1> QED BY <1>3, <1>4, <1>5 DEF Casting, Hub!Casting

(* The flag was down before the request began to join, so the worker reads *)
(* no further frame; the packets of the last one and the sessions of each  *)
(* broadcast are used up one by one, whatever clients and other requests   *)
(* do meanwhile.                                                           *)
THEOREM StopOutlastsBroadcasts == Spec => [][WholeApproaches]_vars
<1>1. ASSUME CP!IInv, HP!IInv, CastInv, [Next]_vars,
             NEW t \in Threads, pc[t] = "join", pc'[t] = "join"
      PROVE  UNCHANGED <<worker, packets, cast, todo, at>> \/ Nearer
  <2>1. ~running
    BY <1>1, Joining
  <2>2. ASSUME NEW u \in Threads, Dispatch(u) \/ Publish(u) PROVE FALSE
    BY <1>1, <2>2, NoRequestMoves
  <2>3. ASSUME NEW u \in Threads, Arrive(u)
        PROVE  UNCHANGED <<worker, packets, cast, todo, at>>
    BY <2>3 DEF Arrive, control, delivery
  <2>4. ASSUME NEW u \in Threads, Handle(u)
        PROVE  UNCHANGED <<worker, packets, cast, todo, at>>
    BY <2>4 DEF Handle, control, Hub!Handler, Hub!Register, Hub!DoRead,
                Hub!Unregister, Hub!Pop, Hub!Rest, Hub!CopyFront,
                Hub!StartWrite, Hub!worker
  <2>5. ASSUME NEW u \in Threads, NEW s \in Sessions, Complete(u, s)
        PROVE  UNCHANGED <<worker, packets, cast, todo, at>>
    BY <2>5 DEF Complete, control, Hub!Completion, Hub!Upgrade, Hub!Accepted,
                Hub!AcceptFails, Hub!ReadFails, Hub!Written, Hub!WriteFails,
                Hub!worker
  <2>6. ASSUME NEW s \in Sessions, Client(s)
        PROVE  UNCHANGED <<worker, packets, cast, todo, at>>
    BY <2>6 DEF Client, control, Hub!AskAgain, Hub!Depart, Hub!worker
  <2>7. ASSUME NEW w \in Workers, Loop(w) PROVE Nearer
    BY <1>1, <2>1, <2>7, LoopApproaches DEF Nearer
  <2>8. CASE Read
    BY <2>1, <2>8 DEF Read
  <2>9. CASE Broadcast
    <3>1. packets \in Nat /\ packets' = packets - 1 /\ UNCHANGED worker
      BY <1>1, <2>9, FrameFacts DEF Broadcast, control, CastInv
    <3> QED BY <3>1 DEF Nearer
  <2>10. CASE Casting
    BY <1>1, <2>10, CastingApproaches
  <2>11. CASE Restart
    BY <1>1, <2>11 DEF Restart, Control!Restart
  <2>12. CASE UNCHANGED vars
    BY <2>12 DEF vars, control, delivery
  <2> QED BY <1>1, <2>2, <2>3, <2>4, <2>5, <2>6, <2>7, <2>8, <2>9, <2>10, <2>11,
             <2>12
          DEF Next
<1>2. CP!IInv /\ HP!IInv /\ CastInv /\ [Next]_vars => WholeApproaches
  BY <1>1 DEF WholeApproaches
<1> QED BY <1>2, PartsInvariant, CastInvariance, PTL DEF Spec

(* A worker that is waited for is never itself kept waiting: it needs no   *)
(* thread of the pool, no lock that a request holds, and no client.        *)
THEOREM JoinedWorkersCanGo == Spec => []WorkerCanGo
<1>1. ASSUME CP!IInv, HP!IInv, CastInv,
             NEW t \in Threads, pc[t] = "join", thread # NoWorker
      PROVE  \/ worker[thread] = "exited"
             \/ worker[thread] \in {"loop", "open", "sleep"} /\ Done(thread)
             \/ worker[thread] = "relay" /\ ~running /\ Done(thread)
             \/ packets > 0 /\ cast = "idle" /\ frame < MaxFrames
             \/ cast = "each" /\ at \in todo
             \/ cast = "each" /\ at = NoSession /\ todo \subseteq sessions
             \/ cast = "wedged"
  <2>1. ~running
    BY <1>1, Joining
  <2>2. worker[thread] \in {"loop", "open", "relay", "sleep", "exited"}
    BY <1>1, WorkerFacts DEF CP!IInv, CP!FlagInv
  <2>3. cast \in {"idle", "each", "wedged"}
    BY <1>1 DEF HP!IInv, HP!TypeOK
  <2>4. /\ at # NoSession => at \in todo
        /\ todo \subseteq sessions
    BY <1>1 DEF HP!IInv, HP!Places
  <2>5. packets # 0 => packets > 0 /\ frame < MaxFrames
    BY <1>1, FrameFacts DEF CastInv
  <2>6. CASE cast = "idle" /\ packets = 0
    BY <2>1, <2>2, <2>6 DEF Done
  <2>7. CASE cast = "idle" /\ packets # 0
    BY <2>5, <2>7
  <2>8. CASE cast # "idle"
    BY <2>3, <2>4, <2>8
  <2> QED BY <2>6, <2>7, <2>8
<1>2. CP!IInv /\ HP!IInv /\ CastInv => WorkerCanGo
  BY <1>1 DEF WorkerCanGo
<1> QED BY <1>2, PartsInvariant, CastInvariance, PTL
=============================================================================
