------------------------- MODULE StreamHubRefinement -------------------------
(***************************************************************************)
(* StreamHub implements FrameService, for every set of clients and pool    *)
(* threads and any number of frames: each handler of the hub and of its    *)
(* sessions is one operation of the service or none of its business.       *)
(***************************************************************************)
EXTENDS StreamHubProofs

ServiceVars == <<sessions, Backlog, sent, frame>>

-----------------------------------------------------------------------------
(* Queues. *)

(* A queue grows at its end and shrinks at its front. *)
LEMMA AppendTail ==
  ASSUME NEW S, NEW q \in Seq(S), q # <<>>, NEW e \in S
  PROVE  /\ Tail(Append(q, e)) = Append(Tail(q), e)
         /\ Head(Append(q, e)) = Head(q)
         /\ Append(q, e) # <<>>
OBVIOUS

(* Whoever is about to pop has something to pop. *)
LEMMA PoppingNonempty ==
  ASSUME IInv, NEW s \in Sessions, Popping(s) = 1
  PROVE  queue[s] # <<>>
BY DEF IInv, OrderInv, OrderOf, Popping

(* What is unwritten is a queue of frames. *)
LEMMA UnwrittenType ==
  ASSUME IInv, NEW s \in Sessions
  PROVE  Unwritten(s) \in Seq(Frame)
<1>1. queue[s] \in Seq(Frame)
  BY DEF IInv, TypeOK
<1>2. CASE Popping(s) = 1
  BY <1>1, <1>2, PoppingNonempty, TailFacts DEF Unwritten
<1>3. CASE Popping(s) # 1
  BY <1>1, <1>3 DEF Unwritten
<1> QED BY <1>2, <1>3

(* A step that touches neither the queues, nor who is about to pop, nor    *)
(* the broadcast leaves every backlog as it is.                            *)
LEMMA BacklogUnchanged ==
  ASSUME UNCHANGED <<queue, todo, at, frame>>,
         \A s \in Sessions : Popping(s)' = Popping(s)
  PROVE  UNCHANGED Backlog
BY DEF Backlog, Unwritten

-----------------------------------------------------------------------------
(* Each step is an operation of the service, or silent. *)

(* Steps of clients, reads, and the threads that write, before and after   *)
(* the message is out.                                                     *)
LEMMA SilentSteps ==
  ASSUME IInv, UNCHANGED <<sessions, queue, sent, frame, todo, at>>,
         \A s \in Sessions, t \in Threads :
           (mine[t] = s /\ pc[t] = "pop")' <=> (mine[t] = s /\ pc[t] = "pop")
  PROVE  UNCHANGED ServiceVars
<1>1. \A s \in Sessions : Popping(s)' = Popping(s)
  BY DEF Popping
<1> QED BY <1>1, BacklogUnchanged DEF ServiceVars

(* A viewer joins when its session is inserted. *)
LEMMA RegisterJoins ==
  ASSUME IInv, NEW t \in Threads, Register(t)
  PROVE  Service!Next
<1>1. mine[t] \in Sessions \ sessions
  BY Handles DEF Register, At, IInv, NewInv, New
<1>2. \A s \in Sessions : Popping(s)' = Popping(s)
  BY DEF Popping, Register, At, Goto, IInv, TypeOK
<1>3. UNCHANGED Backlog
  BY <1>2, BacklogUnchanged DEF Register, output, worker
<1>4. Service!Join(mine[t])
  BY <1>1, <1>3 DEF Service!Join, Register, Goto, output
<1> QED BY <1>1, <1>4 DEF Service!Next

(* It leaves when the session is erased; what is pending goes on. *)
LEMMA UnregisterLeaves ==
  ASSUME IInv, NEW t \in Threads, Unregister(t)
  PROVE  Service!Next
<1>1. mine[t] \in Sessions
  BY Handles DEF Unregister, At
<1>2. \A s \in Sessions : Popping(s)' = Popping(s)
  BY DEF Popping, Unregister, At, Return, IInv, TypeOK
<1>3. UNCHANGED Backlog
  BY <1>2, BacklogUnchanged DEF Unregister, output, worker
<1>4. Service!Leave(mine[t])
  BY <1>3 DEF Service!Leave, Unregister, output
<1> QED BY <1>1, <1>4 DEF Service!Next

(* The message leaves the backlog with the end of its write, though the    *)
(* queue has it until Pop.                                                 *)
LEMMA WrittenSends ==
  ASSUME IInv, NEW t \in Threads, NEW s \in Sessions, Written(t, s)
  PROVE  Service!Next
<1> DEFINE q == queue[s]
           extra == s \in todo /\ at # s
<1>1. Popping(s) = 0 /\ Popping(s)' = 1
  BY DEF IInv, Popping, TypeOK, Places, WriterInv, Writes, Written, Handle
<1>2. \A r \in Sessions \ {s} : Popping(r)' = Popping(r)
  BY DEF IInv, Popping, TypeOK, Places, Written, Handle
<1>3. UNCHANGED <<queue, todo, at, frame, sessions>>
  BY DEF Written, hub, worker
<1>4. q \in Seq(Frame) /\ q # <<>> /\ writing[s] = Head(q)
  BY TailFacts DEF IInv, TypeOK, OrderInv, OrderOf, Written
<1>5. extra => frame \in Frame
  BY DEF IInv, TypeOK, Places, Frame
<1>6. /\ Backlog[s] = IF extra THEN Append(q, frame) ELSE q
      /\ Backlog'[s] = IF extra THEN Append(Tail(q), frame) ELSE Tail(q)
      /\ \A r \in Sessions \ {s} : Backlog'[r] = Backlog[r]
  BY <1>1, <1>2, <1>3 DEF Backlog, Unwritten
<1>7. /\ Backlog[s] # <<>> /\ Head(Backlog[s]) = writing[s]
      /\ Backlog'[s] = Tail(Backlog[s])
  <2>1. CASE extra
    <3>1. /\ Tail(Append(q, frame)) = Append(Tail(q), frame)
          /\ Head(Append(q, frame)) = Head(q) /\ Append(q, frame) # <<>>
      BY <1>4, <1>5, <2>1, AppendTail
    <3>2. Backlog[s] = Append(q, frame) /\ Backlog'[s] = Append(Tail(q), frame)
      BY <1>6, <2>1
    <3> QED BY ONLY <1>4, <3>1, <3>2, Zenon
  <2>2. CASE ~extra
    BY <1>4, <1>6, <2>2
  <2> QED BY <2>1, <2>2
<1>8. Backlog' = [Backlog EXCEPT ![s] = Tail(Backlog[s])]
  BY <1>6, <1>7 DEF Backlog
<1>9. \E message \in {writing[s], Garbage} : sent' = [sent EXCEPT ![s] = Append(sent[s], message)]
  BY DEF Written
<1>10. Service!Send(s)
  BY <1>3, <1>7, <1>8, <1>9 DEF Service!Send
<1> QED BY <1>10 DEF Service!Next

(* The front of the queue was no longer in the backlog. *)
LEMMA PopIsSilent ==
  ASSUME IInv, NEW t \in Threads, Pop(t)
  PROVE  UNCHANGED ServiceVars
<1>1. mine[t] \in Sessions
  BY Handles DEF Pop, At
<1>2. Popping(mine[t]) = 1 /\ Popping(mine[t])' = 0
  BY <1>1 DEF IInv, Popping, TypeOK, WriterInv, Writes, Pop, At, Goto
<1>3. \A r \in Sessions \ {mine[t]} : Popping(r)' = Popping(r)
  BY <1>1 DEF IInv, Popping, TypeOK, Pop, At, Goto
<1>4. /\ UNCHANGED <<todo, at, frame, sessions, sent, mine>>
      /\ queue' = [queue EXCEPT ![mine[t]] = Tail(queue[mine[t]])]
  BY <1>1, <1>2, PoppingNonempty DEF Pop, Goto, hub, worker, IInv, TypeOK
<1>5. Unwritten(mine[t])' = Unwritten(mine[t])
  BY <1>1, <1>2, <1>4 DEF Unwritten, IInv, TypeOK
<1>6. \A r \in Sessions \ {mine[t]} : Unwritten(r)' = Unwritten(r)
  BY <1>1, <1>3, <1>4 DEF Unwritten, IInv, TypeOK
<1>7. UNCHANGED Backlog
  BY <1>1, <1>4, <1>5, <1>6 DEF Backlog
<1> QED BY <1>4, <1>7 DEF ServiceVars

(* The frame is in every registered viewer's backlog from the start. *)
LEMMA BroadcastIsOne ==
  ASSUME IInv, Broadcast
  PROVE  Service!Next
<1>1. \A s \in Sessions : Popping(s)' = Popping(s)
  BY DEF Popping, Broadcast, local
<1>2. \A s \in Sessions : Unwritten(s)' = Unwritten(s)
  BY <1>1 DEF Unwritten, Broadcast, output
<1>3. /\ todo = {} /\ at = NoSession /\ at' = NoSession /\ todo' = sessions
      /\ frame' = frame + 1 /\ frame < MaxFrames /\ UNCHANGED <<sessions, sent>>
  BY DEF IInv, Places, Broadcast, HubFree, output
<1>4. Backlog' = [s \in Sessions |->
        IF s \in sessions THEN Append(Backlog[s], frame + 1) ELSE Backlog[s]]
  <2>1. \A s \in Sessions : Backlog[s] = Unwritten(s)
    BY <1>3 DEF Backlog
  <2>2. \A s \in Sessions : s # at'
    BY <1>3, HubAssumption
  <2> QED BY <1>2, <1>3, <2>1, <2>2 DEF Backlog
<1>5. Service!Broadcast
  BY <1>3, <1>4 DEF Service!Broadcast
<1> QED BY <1>5 DEF Service!Next

(* What was in the backlog is now in the queue. *)
LEMMA PushIsSilent ==
  ASSUME IInv, NEW s \in Sessions, Push(s)
  PROVE  UNCHANGED ServiceVars
<1>1. \A r \in Sessions : Popping(r)' = Popping(r)
  BY DEF Popping, Push, local
<1>2. /\ queue' = [queue EXCEPT ![s] = Append(queue[s], frame)]
      /\ UNCHANGED <<sessions, sent, frame>> /\ frame \in Frame
      /\ s \in todo /\ at # s /\ ~(s \in todo' /\ at' # s)
      /\ \A r \in Sessions \ {s} : (r \in todo' /\ at' # r <=> r \in todo /\ at # r)
  BY HubAssumption DEF Push, hub, IInv, TypeOK, Places, Frame
<1>3. Unwritten(s)' = Append(Unwritten(s), frame)
  <2>1. queue[s] \in Seq(Frame) /\ queue'[s] = Append(queue[s], frame)
    BY <1>2 DEF IInv, TypeOK
  <2>2. CASE Popping(s) = 1
    BY <1>1, <1>2, <2>1, <2>2, PoppingNonempty, AppendTail DEF Unwritten
  <2>3. CASE Popping(s) # 1
    BY <1>1, <2>1, <2>3 DEF Unwritten
  <2> QED BY <2>2, <2>3
<1>4. \A r \in Sessions \ {s} : Unwritten(r)' = Unwritten(r)
  BY <1>1, <1>2 DEF Unwritten, IInv, TypeOK
<1>5. UNCHANGED Backlog
  BY <1>2, <1>3, <1>4 DEF Backlog
<1> QED BY <1>2, <1>5 DEF ServiceVars

(* doWrite on the worker: the session has had its frame. *)
LEMMA RelockIsSilent ==
  ASSUME IInv, Relock
  PROVE  UNCHANGED ServiceVars
<1>1. \A r \in Sessions : Popping(r)' = Popping(r)
  BY DEF Popping, Relock, local
<1>2. UNCHANGED <<sessions, queue, sent, frame>>
  BY DEF Relock, hub
<1>3. \A r \in Sessions : (r \in todo' /\ at' # r <=> r \in todo /\ at # r)
  BY HubAssumption DEF Relock
<1>4. UNCHANGED Backlog
  BY <1>1, <1>2, <1>3 DEF Backlog, Unwritten
<1> QED BY <1>2, <1>4 DEF ServiceVars

(* Nobody watches a process that has just been started. *)
LEMMA RestartRestarts ==
  ASSUME Restart
  PROVE  Service!Next
<1>1. Backlog' = [s \in Sessions |-> <<>>]
  <2>1. \A s \in Sessions : Popping(s)' = 0
    BY DEF Popping, Restart
  <2> QED BY <2>1 DEF Backlog, Unwritten, Restart
<1>2. Service!Restart
  BY <1>1 DEF Service!Restart, Restart
<1> QED BY <1>2 DEF Service!Next

-----------------------------------------------------------------------------
(* Viewers see broadcasts and departures as whole operations, whatever the *)
(* interleaving of onAccept, onRead, onWrite and sendFrame.                *)
THEOREM HubImplementsFrames == Spec => ImplementsFrames
<1>1. Init => Service!Init
  <2> SUFFICES ASSUME Init PROVE Service!Init
    OBVIOUS
  <2>1. \A s \in Sessions : Popping(s) = 0
    BY DEF Popping, Init
  <2>2. Backlog = [s \in Sessions |-> <<>>]
    BY <2>1 DEF Backlog, Unwritten, Init
  <2> QED BY <2>2 DEF Service!Init, Init
<1>2. ASSUME IInv, [Next]_vars
      PROVE  Service!Next \/ UNCHANGED ServiceVars
  <2>1. ASSUME NEW t \in Threads, Handler(t)
        PROVE  Service!Next \/ UNCHANGED ServiceVars
    <3>1. CASE Register(t) \/ Unregister(t) \/ Pop(t)
      BY <1>2, <3>1, RegisterJoins, UnregisterLeaves, PopIsSilent
    <3>2. CASE DoRead(t) \/ Rest(t) \/ CopyFront(t) \/ StartWrite(t)
      <4>1. UNCHANGED <<sessions, queue, sent, frame, todo, at>>
        BY <3>2 DEF DoRead, Rest, CopyFront, StartWrite, output, hub, worker
      <4>2. \A s \in Sessions, u \in Threads :
              (mine[u] = s /\ pc[u] = "pop")' <=> (mine[u] = s /\ pc[u] = "pop")
        BY <1>2, <3>2
        DEF DoRead, Rest, CopyFront, StartWrite, At, Goto, Return, IInv, TypeOK
      <4> QED BY <1>2, <4>1, <4>2, SilentSteps
    <3> QED BY <2>1, <3>1, <3>2 DEF Handler
  <2>2. ASSUME NEW t \in Threads, NEW s \in Sessions, Completion(t, s) \/ Upgrade(t, s)
        PROVE  Service!Next \/ UNCHANGED ServiceVars
    <3>1. CASE Written(t, s)
      BY <1>2, <3>1, WrittenSends
    <3>2. CASE \/ Accepted(t, s) \/ AcceptFails(t, s) \/ ReadFails(t, s)
               \/ WriteFails(t, s) \/ Upgrade(t, s)
      <4>1. UNCHANGED <<sessions, queue, sent, frame, todo, at>>
        BY <3>2 DEF Accepted, AcceptFails, ReadFails, WriteFails, Upgrade,
                    output, hub, worker
      <4>2. \A r \in Sessions, u \in Threads :
              (mine[u] = r /\ pc[u] = "pop")' <=> (mine[u] = r /\ pc[u] = "pop")
        BY <1>2, <3>2
        DEF Accepted, AcceptFails, ReadFails, WriteFails, Upgrade, Handle, local,
            IInv, TypeOK
      <4> QED BY <1>2, <4>1, <4>2, SilentSteps
    <3> QED BY <2>2, <3>1, <3>2 DEF Completion
  <2>3. ASSUME NEW s \in Sessions, AskAgain(s) \/ Depart(s)
        PROVE  Service!Next \/ UNCHANGED ServiceVars
    BY <1>2, <2>3, SilentSteps DEF AskAgain, Depart, output, hub, worker, local
  <2>4. CASE Casting
    <3>1. CASE (\E s \in Sessions : Push(s)) \/ Relock
      BY <1>2, <3>1, PushIsSilent, RelockIsSilent
    <3>2. CASE Wedge
      BY <1>2, <3>2, SilentSteps DEF Wedge, output, hub, local
    <3>3. CASE EndBroadcast
      BY <1>2, <3>3, SilentSteps DEF EndBroadcast, output, hub, local
    <3> QED BY <2>4, <3>1, <3>2, <3>3 DEF Casting
  <2>5. CASE UNCHANGED vars
    BY <1>2, <2>5, SilentSteps DEF vars, output, hub, worker, local
  <2> QED BY <1>2, <2>1, <2>2, <2>3, <2>4, <2>5, BroadcastIsOne, RestartRestarts
      DEF Next
<1> QED BY <1>1, <1>2, Invariance, PTL
    DEF Spec, ImplementsFrames, Service!Spec, ServiceVars
=============================================================================
