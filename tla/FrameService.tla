---------------------------- MODULE FrameService ----------------------------
(***************************************************************************)
(* What the WebSocket hub promises its viewers, without threads, locks or  *)
(* pending operations: a broadcast is for everybody who watches at that    *)
(* moment, and each viewer's frames leave in the order of the broadcasts.  *)
(***************************************************************************)
EXTENDS Sequences, Naturals

CONSTANTS Viewers, MaxFrames, Garbage

VARIABLES watching,  \* the viewers that are connected
          backlog,   \* the frames each of them has still to be sent
          received,  \* the messages each of them was sent
          count      \* the number of frames broadcast

Init ==
  /\ watching = {} /\ count = 0
  /\ backlog = [v \in Viewers |-> <<>>]
  /\ received = [v \in Viewers |-> <<>>]

Join(v) ==
  /\ v \notin watching
  /\ watching' = watching \cup {v}
  /\ UNCHANGED <<backlog, received, count>>

(* What is in the backlog may still be sent. *)
Leave(v) ==
  /\ watching' = watching \ {v}
  /\ UNCHANGED <<backlog, received, count>>

Broadcast ==
  /\ count < MaxFrames
  /\ count' = count + 1
  /\ backlog' = [v \in Viewers |->
       IF v \in watching THEN Append(backlog[v], count + 1) ELSE backlog[v]]
  /\ UNCHANGED <<watching, received>>

(* The oldest frame of the backlog, though its content may be lost. *)
Send(v) ==
  /\ backlog[v] # <<>>
  /\ backlog' = [backlog EXCEPT ![v] = Tail(backlog[v])]
  /\ \E message \in {Head(backlog[v]), Garbage} :
       received' = [received EXCEPT ![v] = Append(received[v], message)]
  /\ UNCHANGED <<watching, count>>

(* The end of the process ends every connection. *)
Restart ==
  /\ watching' = {} /\ count' = 0
  /\ backlog' = [v \in Viewers |-> <<>>]
  /\ received' = [v \in Viewers |-> <<>>]

Next ==
  \/ \E v \in Viewers : Join(v) \/ Leave(v) \/ Send(v)
  \/ Broadcast \/ Restart

Spec == Init /\ [][Next]_<<watching, backlog, received, count>>
=============================================================================
