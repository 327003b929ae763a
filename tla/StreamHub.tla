------------------------------ MODULE StreamHub ------------------------------
(***************************************************************************)
(* WebSocketHub and WebSocketSession (src/core/WebSocketSession.cpp): the  *)
(* relayer's worker broadcasts frames, pool threads run the completion     *)
(* handlers of the sessions' reads and writes.                             *)
(*                                                                         *)
(* The mutex of the hub is held from the start to the end of a broadcast,  *)
(* the mutex of session `at' by the worker between Push and Relock; every  *)
(* other critical section is one step.  A session is referred to by the    *)
(* hub's set, its pending operations and the handlers that run; whoever    *)
(* lets go last runs the destructor, whose shared_from_this() throws,      *)
(* which ends the process.                                                 *)
(***************************************************************************)
EXTENDS Sequences, Naturals

CONSTANTS Threads,        \* threads of the pool
          Sessions,       \* WebSocket sessions, one per client that upgrades
          Browsers,       \* those whose client asks for one handshake only
          NoSession,      \* a thread that handles none
          RelockOutcomes, \* of locking a mutex one owns, see EventBus
          BufferOutcomes, \* of a write from memory that is gone
          MaxFrames       \* bound: frames broadcast

ASSUME HubAssumption ==
  /\ Browsers \subseteq Sessions
  /\ NoSession \notin Sessions
  /\ RelockOutcomes \subseteq {"block", "enter"}
  /\ BufferOutcomes \subseteq {"intact", "garbage"}
  /\ MaxFrames \in Nat

VARIABLES alive,      \* the process has not been terminated
          peer,       \* what the client of each session does
          reading,    \* the pending accept or read of each session
          writing,    \* the frame of the pending async_write, or NoFrame
          queue,      \* WebSocketSession::write_queue_
          is_writing, \* WebSocketSession::is_writing_
          sent,       \* the messages written to each client
          joined,     \* the frames broadcast before each session registered
          sessions,   \* WebSocketHub::sessions_
          frame,      \* the frames broadcast so far; the last one's number
          cast,       \* where the worker is in broadcastFrame
          todo,       \* the sessions its loop has still to visit
          at,         \* the session whose mutex it holds
          pc,         \* where each pool thread is in a handler
          mine,       \* the session it handles
          copy        \* the frame it has copied from the queue

client == <<peer, reading>>
output == <<writing, queue, is_writing, sent>>
hub    == <<sessions, frame, joined>>
worker == <<cast, todo, at>>
local  == <<pc, mine, copy>>
vars   == <<alive, client, output, hub, worker, local>>

Frame   == 1 .. MaxFrames
NoFrame == 0
Garbage == 0

TypeOK ==
  /\ alive \in BOOLEAN
  /\ peer \in [Sessions -> {"away", "waiting", "again", "open", "gone"}]
  /\ reading \in [Sessions -> {"none", "accept", "read"}]
  /\ writing \in [Sessions -> Frame \cup {NoFrame}]
  /\ queue \in [Sessions -> Seq(Frame)]
  /\ is_writing \in [Sessions -> BOOLEAN]
  /\ sent \in [Sessions -> Seq(Frame \cup {Garbage})]
  /\ joined \in [Sessions -> 0 .. MaxFrames]
  /\ sessions \in SUBSET Sessions
  /\ frame \in 0 .. MaxFrames
  /\ cast \in {"idle", "each", "wedged"}
  /\ todo \in SUBSET Sessions
  /\ at \in Sessions \cup {NoSession}
  /\ pc \in [Threads -> {"idle", "register", "read", "unregister", "pop",
                         "doWrite", "write"}]
  /\ mine \in [Threads -> Sessions \cup {NoSession}]
  /\ copy \in [Threads -> Frame \cup {NoFrame}]

Init ==
  /\ alive = TRUE
  /\ peer = [s \in Sessions |-> "away"]
  /\ reading = [s \in Sessions |-> "none"]
  /\ writing = [s \in Sessions |-> NoFrame]
  /\ queue = [s \in Sessions |-> <<>>]
  /\ is_writing = [s \in Sessions |-> FALSE]
  /\ sent = [s \in Sessions |-> <<>>]
  /\ joined = [s \in Sessions |-> 0]
  /\ sessions = {} /\ frame = 0
  /\ cast = "idle" /\ todo = {} /\ at = NoSession
  /\ pc = [t \in Threads |-> "idle"]
  /\ mine = [t \in Threads |-> NoSession]
  /\ copy = [t \in Threads |-> NoFrame]

-----------------------------------------------------------------------------
(* A completed operation starts a handler on an idle thread; the handler   *)
(* ends by starting the next operation or by letting the session go.       *)

Handle(t, s, label) ==
  /\ alive /\ pc[t] = "idle"
  /\ pc' = [pc EXCEPT ![t] = label]
  /\ mine' = [mine EXCEPT ![t] = s]
  /\ UNCHANGED <<alive, copy>>

At(t, label) == alive /\ pc[t] = label

Goto(t, label) == pc' = [pc EXCEPT ![t] = label] /\ UNCHANGED <<alive, mine>>

Return(t) ==
  /\ pc' = [pc EXCEPT ![t] = "idle"]
  /\ mine' = [mine EXCEPT ![t] = NoSession]
  /\ copy' = [copy EXCEPT ![t] = NoFrame]

(* An operation in progress or another handler refers to s. *)
Referred(t, s) ==
  \/ reading[s] # "none" \/ writing[s] # NoFrame
  \/ \E u \in Threads \ {t} : mine[u] = s

HubFree == cast = "idle"
SessionFree(s) == at # s

-----------------------------------------------------------------------------
(* The clients. *)

(* HttpSession::onRead hands the socket over and the session waits for a   *)
(* handshake; but the request that asked for it has been consumed.         *)
Upgrade(t, s) ==
  /\ alive /\ pc[t] = "idle" /\ peer[s] = "away"
  /\ peer' = [peer EXCEPT ![s] = "waiting"]
  /\ reading' = [reading EXCEPT ![s] = "accept"]
  /\ UNCHANGED <<alive, output, hub, worker, local>>

(* A client that asks once more, which no browser does. *)
AskAgain(s) ==
  /\ alive /\ peer[s] = "waiting" /\ s \notin Browsers
  /\ peer' = [peer EXCEPT ![s] = "again"]
  /\ UNCHANGED <<alive, reading, output, hub, worker, local>>

Depart(s) ==
  /\ alive /\ peer[s] \in {"waiting", "again", "open"}
  /\ peer' = [peer EXCEPT ![s] = "gone"]
  /\ UNCHANGED <<alive, reading, output, hub, worker, local>>

-----------------------------------------------------------------------------
(* onAccept and onRead. *)

Accepted(t, s) ==
  /\ reading[s] = "accept" /\ peer[s] = "again"
  /\ Handle(t, s, "register")
  /\ reading' = [reading EXCEPT ![s] = "none"]
  /\ peer' = [peer EXCEPT ![s] = "open"]
  /\ UNCHANGED <<output, hub, worker>>

(* The handshake fails or times out; nothing refers to the session then. *)
AcceptFails(t, s) ==
  /\ alive /\ pc[t] = "idle"
  /\ reading[s] = "accept"
  /\ reading' = [reading EXCEPT ![s] = "none"]
  /\ alive' = FALSE
  /\ UNCHANGED <<peer, output, hub, worker, local>>

(* Mutant: the pointer has been moved away before it is registered. *)
RegisterMoved(t) ==
  /\ At(t, "register") /\ HubFree
  /\ sessions' = sessions \cup {NoSession}
  /\ joined' = [joined EXCEPT ![mine[t]] = frame]
  /\ Goto(t, "read")
  /\ UNCHANGED <<client, output, frame, worker, copy>>

Register(t) ==
  /\ At(t, "register") /\ HubFree
  /\ sessions' = sessions \cup {mine[t]}
  /\ joined' = [joined EXCEPT ![mine[t]] = frame]
  /\ Goto(t, "read")
  /\ UNCHANGED <<client, output, frame, worker, copy>>

(* doRead.  A message that arrives is thrown away and the next read begun, *)
(* which changes nothing here.                                             *)
DoRead(t) ==
  /\ At(t, "read")
  /\ reading' = [reading EXCEPT ![mine[t]] = "read"]
  /\ Return(t)
  /\ UNCHANGED <<alive, peer, output, hub, worker>>

(* Mutant: a read that fails just ends. *)
ReadFailsSilently(t, s) ==
  /\ alive /\ pc[t] = "idle" /\ reading[s] = "read"
  /\ reading' = [reading EXCEPT ![s] = "none"]
  /\ UNCHANGED <<alive, peer, output, hub, worker, local>>

(* The client has gone, or nothing was heard of it for too long. *)
ReadFails(t, s) ==
  /\ reading[s] = "read"
  /\ Handle(t, s, "unregister")
  /\ reading' = [reading EXCEPT ![s] = "none"]
  /\ UNCHANGED <<peer, output, hub, worker>>

Unregister(t) ==
  /\ At(t, "unregister") /\ HubFree
  /\ sessions' = sessions \ {mine[t]}
  /\ Return(t)
  /\ alive' = Referred(t, mine[t])
  /\ UNCHANGED <<client, output, frame, joined, worker>>

-----------------------------------------------------------------------------
(* onWrite and doWrite on a pool thread. *)

(* The message is out.  The vector it was to be read from went with the    *)
(* call of doWrite.                                                        *)
Written(t, s) ==
  /\ writing[s] # NoFrame
  /\ Handle(t, s, "pop")
  /\ writing' = [writing EXCEPT ![s] = NoFrame]
  /\ \E outcome \in BufferOutcomes :
       sent' = [sent EXCEPT ![s] =
         Append(@, IF outcome = "intact" THEN writing[s] ELSE Garbage)]
  /\ UNCHANGED <<client, queue, is_writing, hub, worker>>

(* Mutant: a write that fails just ends. *)
WriteFailsSilently(t, s) ==
  /\ alive /\ pc[t] = "idle" /\ writing[s] # NoFrame
  /\ writing' = [writing EXCEPT ![s] = NoFrame]
  /\ UNCHANGED <<alive, client, queue, is_writing, sent, hub, worker, local>>

WriteFails(t, s) ==
  /\ writing[s] # NoFrame
  /\ Handle(t, s, "unregister")
  /\ writing' = [writing EXCEPT ![s] = NoFrame]
  /\ UNCHANGED <<client, queue, is_writing, sent, hub, worker>>

(* Mutant: the queue keeps the frame that was written. *)
PopNothing(t) ==
  /\ At(t, "pop") /\ SessionFree(mine[t])
  /\ Goto(t, "doWrite")
  /\ UNCHANGED <<client, output, hub, worker, copy>>

Pop(t) ==
  /\ At(t, "pop") /\ SessionFree(mine[t])
  /\ queue' = [queue EXCEPT ![mine[t]] = IF @ = <<>> THEN @ ELSE Tail(@)]
  /\ Goto(t, "doWrite")
  /\ UNCHANGED <<client, writing, is_writing, sent, hub, worker, copy>>

(* Mutant: the flag stays up when nothing is left to write. *)
RestStuck(t) ==
  /\ At(t, "doWrite") /\ SessionFree(mine[t])
  /\ queue[mine[t]] = <<>>
  /\ Return(t)
  /\ alive' = (mine[t] \in sessions \/ Referred(t, mine[t]))
  /\ UNCHANGED <<client, output, hub, worker>>

(* Nothing is left to write. *)
Rest(t) ==
  /\ At(t, "doWrite") /\ SessionFree(mine[t])
  /\ queue[mine[t]] = <<>>
  /\ is_writing' = [is_writing EXCEPT ![mine[t]] = FALSE]
  /\ Return(t)
  /\ alive' = (mine[t] \in sessions \/ Referred(t, mine[t]))
  /\ UNCHANGED <<client, writing, queue, sent, hub, worker>>

(* Mutant: a client that is behind gets the newest frame. *)
CopyNewest(t) ==
  /\ At(t, "doWrite") /\ SessionFree(mine[t])
  /\ queue[mine[t]] # <<>>
  /\ copy' = [copy EXCEPT ![t] = queue[mine[t]][Len(queue[mine[t]])]]
  /\ Goto(t, "write")
  /\ UNCHANGED <<client, output, hub, worker>>

CopyFront(t) ==
  /\ At(t, "doWrite") /\ SessionFree(mine[t])
  /\ queue[mine[t]] # <<>>
  /\ copy' = [copy EXCEPT ![t] = Head(queue[mine[t]])]
  /\ Goto(t, "write")
  /\ UNCHANGED <<client, output, hub, worker>>

(* async_write, after the mutex was given back. *)
StartWrite(t) ==
  /\ At(t, "write")
  /\ writing' = [writing EXCEPT ![mine[t]] = copy[t]]
  /\ Return(t)
  /\ UNCHANGED <<alive, client, queue, is_writing, sent, hub, worker>>

-----------------------------------------------------------------------------
(* broadcastFrame and sendFrame on the worker. *)

Broadcast ==
  /\ alive /\ HubFree /\ frame < MaxFrames
  /\ frame' = frame + 1
  /\ cast' = "each" /\ todo' = sessions
  /\ UNCHANGED <<alive, client, output, sessions, joined, at, local>>

(* Mutant: each frame starts a write of its own. *)
PushAlways(s) ==
  /\ alive /\ cast = "each" /\ at = NoSession /\ s \in todo
  /\ queue' = [queue EXCEPT ![s] = Append(@, frame)]
  /\ is_writing' = [is_writing EXCEPT ![s] = TRUE]
  /\ at' = s
  /\ UNCHANGED <<alive, client, writing, sent, hub, cast, todo, local>>

(* Mutant: a client that has not taken the last frame is waited for. *)
PushWaiting(s) ==
  /\ alive /\ cast = "each" /\ at = NoSession /\ s \in todo
  /\ ~is_writing[s]
  /\ queue' = [queue EXCEPT ![s] = Append(@, frame)]
  /\ is_writing' = [is_writing EXCEPT ![s] = TRUE]
  /\ at' = s
  /\ UNCHANGED <<alive, client, writing, sent, hub, cast, todo, local>>

Push(s) ==
  /\ alive /\ cast = "each" /\ at = NoSession /\ s \in todo
  /\ queue' = [queue EXCEPT ![s] = Append(@, frame)]
  /\ is_writing' = [is_writing EXCEPT ![s] = TRUE]
  /\ IF is_writing[s]
     THEN todo' = todo \ {s} /\ UNCHANGED at
     ELSE at' = s /\ UNCHANGED todo
  /\ UNCHANGED <<alive, client, writing, sent, hub, cast, local>>

(* doWrite locks the mutex sendFrame has, and passes ... *)
Relock ==
  /\ alive /\ cast = "each" /\ at # NoSession
  /\ "enter" \in RelockOutcomes
  /\ IF queue[at] = <<>>
     THEN is_writing' = [is_writing EXCEPT ![at] = FALSE] /\ UNCHANGED writing
     ELSE writing' = [writing EXCEPT ![at] = Head(queue[at])] /\ UNCHANGED is_writing
  /\ todo' = todo \ {at} /\ at' = NoSession
  /\ UNCHANGED <<alive, client, queue, sent, hub, cast, local>>

(* ... or waits for itself, with the hub's mutex. *)
Wedge ==
  /\ alive /\ cast = "each" /\ at # NoSession
  /\ "block" \in RelockOutcomes
  /\ cast' = "wedged"
  /\ UNCHANGED <<alive, client, output, hub, todo, at, local>>

EndBroadcast ==
  /\ alive /\ cast = "each" /\ todo = {}
  /\ cast' = "idle"
  /\ UNCHANGED <<alive, client, output, hub, todo, at, local>>

-----------------------------------------------------------------------------
(* The process ends and is started again. *)
Restart ==
  /\ alive' = TRUE
  /\ peer' = [s \in Sessions |-> "away"]
  /\ reading' = [s \in Sessions |-> "none"]
  /\ writing' = [s \in Sessions |-> NoFrame]
  /\ queue' = [s \in Sessions |-> <<>>]
  /\ is_writing' = [s \in Sessions |-> FALSE]
  /\ sent' = [s \in Sessions |-> <<>>]
  /\ joined' = [s \in Sessions |-> 0]
  /\ sessions' = {} /\ frame' = 0
  /\ cast' = "idle" /\ todo' = {} /\ at' = NoSession
  /\ pc' = [t \in Threads |-> "idle"]
  /\ mine' = [t \in Threads |-> NoSession]
  /\ copy' = [t \in Threads |-> NoFrame]

Completion(t, s) ==
  \/ Accepted(t, s) \/ AcceptFails(t, s) \/ ReadFails(t, s)
  \/ Written(t, s) \/ WriteFails(t, s)

Handler(t) ==
  \/ Register(t) \/ DoRead(t) \/ Unregister(t)
  \/ Pop(t) \/ Rest(t) \/ CopyFront(t) \/ StartWrite(t)

Casting == (\E s \in Sessions : Push(s)) \/ Relock \/ Wedge \/ EndBroadcast

Next ==
  \/ \E t \in Threads : \/ Handler(t)
                        \/ \E s \in Sessions : Completion(t, s) \/ Upgrade(t, s)
  \/ \E s \in Sessions : AskAgain(s) \/ Depart(s)
  \/ Broadcast \/ Casting
  \/ Restart

Spec == Init /\ [][Next]_vars

(* The pool and the worker are scheduled.  A pending handshake or write    *)
(* comes to an end, at the latest by the timeout the constructor sets; a   *)
(* read does when the client has gone.                                     *)
FairSpec ==
  /\ Spec
  /\ WF_vars(Casting)
  /\ \A t \in Threads : WF_vars(Handler(t))
  /\ \A s \in Sessions :
       /\ WF_vars(\E t \in Threads : Accepted(t, s) \/ AcceptFails(t, s))
       /\ WF_vars(\E t \in Threads : Written(t, s) \/ WriteFails(t, s))
       /\ WF_vars(peer[s] = "gone" /\ \E t \in Threads : ReadFails(t, s))

-----------------------------------------------------------------------------
(* Properties. *)

(* Who is about to write, or writes, to the client of s. *)
WriterThreads(s) ==
  {t \in Threads : mine[t] = s /\ pc[t] \in {"pop", "doWrite", "write"}}

(* A session has one writer: beast allows one async_write at a time, and   *)
(* sendFrame, onWrite and doWrite take the mutex three times on the way.   *)
OneWriter ==
  \A s \in Sessions :
    /\ \A t, u \in WriterThreads(s) : t = u
    /\ writing[s] # NoFrame => WriterThreads(s) = {} /\ at # s
    /\ at = s => WriterThreads(s) = {}

(* A queued frame has somebody who will write it: no interleaving of       *)
(* onWrite with sendFrame leaves is_writing_ set and nobody at work, unless *)
(* a write has failed.                                                     *)
NoFrameStranded ==
  \A s \in sessions : queue[s] # <<>> =>
    \/ writing[s] # NoFrame \/ WriterThreads(s) # {} \/ at = s
    \/ \E t \in Threads : mine[t] = s /\ pc[t] = "unregister"

(* Frames of the queue of s that are still to be written. *)
Popping(s) == IF \E t \in Threads : mine[t] = s /\ pc[t] = "pop" THEN 1 ELSE 0

(* A client is sent the frames broadcast since it joined, each once and in *)
(* order, and while it is registered none is left out; the content of a    *)
(* message may be lost with its buffer.                                    *)
InOrder ==
  \A s \in Sessions :
    /\ \A i \in 1 .. Len(sent[s]) : sent[s][i] \in {joined[s] + i, Garbage}
    /\ s \in sessions =>
         joined[s] + Len(sent[s]) + Len(queue[s]) - Popping(s)
           = IF s \in todo /\ at # s THEN frame - 1 ELSE frame

(* Whoever is in the hub is being read, so that its departure is noticed   *)
(* and it does not stay for ever.                                          *)
DepartureNoticed ==
  \A s \in sessions :
    \/ reading[s] = "read"
    \/ \E t \in Threads : mine[t] = s /\ pc[t] \in {"read", "unregister"}

(* The handlers and the broadcast implement FrameService.  A broadcast     *)
(* counts from its start for everybody registered then; a frame leaves the *)
(* backlog when its write is complete.                                     *)
Unwritten(s) == IF Popping(s) = 1 THEN Tail(queue[s]) ELSE queue[s]

Backlog == [s \in Sessions |->
  IF s \in todo /\ at # s THEN Append(Unwritten(s), frame) ELSE Unwritten(s)]

Service == INSTANCE FrameService WITH
  Viewers <- Sessions, watching <- sessions, backlog <- Backlog,
  received <- sent, count <- frame

ImplementsFrames == Service!Spec

(* WebSocketSession.cpp:18 "Accept the websocket handshake", :33 "Client   *)
(* connected": a browser that has asked for its handshake and stays is     *)
(* connected, unless the process is started anew.                          *)
BrowserConnected ==
  \A s \in Browsers :
    peer[s] = "waiting" ~> s \in sessions \/ peer[s] \in {"gone", "away"}

(* Application.hpp:179 "keep the service running": no client that leaves   *)
(* takes the process with it.                                              *)
ServiceKeepsRunning == alive
=============================================================================
