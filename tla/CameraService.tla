---------------------------- MODULE CameraService ----------------------------
(***************************************************************************)
(* What the camera endpoints promise their clients, without threads, locks *)
(* or flags.  There is one stream or none.  The camera is open only for    *)
(* it, a stream is turned off only when the camera has been closed, and    *)
(* another is turned on only then, for an address that is already saved.   *)
(***************************************************************************)
CONSTANTS Clients, Urls, NoUrl

VARIABLES saved,    \* the address in the table, or NoUrl
          stream,   \* the address that is streamed, or NoUrl
          airing,   \* the addresses for which a camera is open
          stage,    \* how far the request of each client has come
          request,  \* what it asks for
          code      \* the status code of its answer

camera == <<saved, stream, airing>>
talk   == <<stage, request, code>>

Request == [op : {"get", "save", "stop"}, url : Urls \cup {NoUrl}]
NoRequest == [op |-> "get", url |-> NoUrl]

(* A process that has just been started; the table is kept. *)
Idle ==
  /\ stream = NoUrl /\ airing = {}
  /\ stage = [c \in Clients |-> "idle"]
  /\ request = [c \in Clients |-> NoRequest]
  /\ code = [c \in Clients |-> 200]

Init == saved = NoUrl /\ Idle

(* One request is served at a time. *)
Ask(c, r) ==
  /\ \A d \in Clients : stage[d] = "idle"
  /\ stage' = [stage EXCEPT ![c] = "served"]
  /\ request' = [request EXCEPT ![c] = r]
  /\ UNCHANGED <<code, camera>>

Serving(c, op) == stage[c] = "served" /\ request[c].op = op

Answer(c, k) ==
  /\ stage' = [stage EXCEPT ![c] = "answered"]
  /\ code' = [code EXCEPT ![c] = k]
  /\ UNCHANGED request

Look(c) == Serving(c, "get") /\ Answer(c, 200) /\ UNCHANGED camera

(* A save that is refused has started nothing. *)
Refuse(c) ==
  /\ Serving(c, "save")
  /\ \/ Answer(c, 500)
     \/ request[c].url = NoUrl /\ Answer(c, 400)
  /\ UNCHANGED camera

Saving(c) == Serving(c, "save") /\ request[c].url # NoUrl

Forget(c) ==
  /\ Saving(c)
  /\ saved' = NoUrl
  /\ UNCHANGED <<stream, airing, talk>>

Store(c) ==
  /\ Saving(c)
  /\ saved' = request[c].url
  /\ UNCHANGED <<stream, airing, talk>>

(* The old stream makes way for the address that is saved by now. *)
TurnOff(c) ==
  /\ Saving(c) /\ saved = request[c].url
  /\ airing = {}
  /\ stream' = NoUrl
  /\ UNCHANGED <<saved, airing, talk>>

TurnOn(c) ==
  /\ Saving(c) /\ saved = request[c].url
  /\ stream = NoUrl /\ airing = {}
  /\ stream' = request[c].url
  /\ Answer(c, 200)
  /\ UNCHANGED <<saved, airing>>

Halt(c) ==
  /\ Serving(c, "stop")
  /\ airing = {}
  /\ stream' = NoUrl
  /\ Answer(c, 200)
  /\ UNCHANGED <<saved, airing>>

Return(c) ==
  /\ stage[c] = "answered"
  /\ stage' = [stage EXCEPT ![c] = "idle"]
  /\ request' = [request EXCEPT ![c] = NoRequest]
  /\ code' = [code EXCEPT ![c] = 200]
  /\ UNCHANGED camera

Connect ==
  /\ stream # NoUrl /\ airing = {}
  /\ airing' = {stream}
  /\ UNCHANGED <<saved, stream, talk>>

Disconnect ==
  /\ airing' = {}
  /\ UNCHANGED <<saved, stream, talk>>

Restart == Idle' /\ UNCHANGED saved

Next ==
  \/ \E c \in Clients :
       \/ \E r \in Request : Ask(c, r)
       \/ Look(c) \/ Refuse(c) \/ Forget(c) \/ Store(c)
       \/ TurnOff(c) \/ TurnOn(c) \/ Halt(c) \/ Return(c)
  \/ Connect \/ Disconnect \/ Restart

Spec == Init /\ [][Next]_<<camera, talk>>
=============================================================================
