------------------------------ MODULE EventBus ------------------------------
(***************************************************************************)
(* The process-wide EventBus of src/include/Application.hpp (lines 16-45). *)
(* One std::mutex guards the subscriber lists of every event type, and     *)
(* publish() holds it while it runs the subscribers.  All that other       *)
(* components observe of the bus is who holds that mutex.                  *)
(*                                                                         *)
(* dispatch() runs inside publish(HttpRequestEvent) and itself calls       *)
(* publish(HttpResponseEvent): the thread locks a mutex it already owns.   *)
(* The C++ standard leaves that undefined.  RelockOutcomes lists what the  *)
(* library may do: "block" (pthread NORMAL mutexes: the thread waits for   *)
(* itself) or "enter" (mutexes that count the owner's acquisitions).       *)
(***************************************************************************)
CONSTANTS Threads,        \* threads that publish: pool threads, main thread
          NoThread,       \* nobody holds the mutex
          RelockOutcomes  \* outcomes of locking a mutex one already owns

ASSUME BusAssumption ==
  /\ NoThread \notin Threads
  /\ RelockOutcomes \subseteq {"block", "enter"}
  /\ RelockOutcomes # {}

VARIABLE bus  \* the thread inside publish() or subscribe(), or NoThread

BusTypeOK == bus \in Threads \cup {NoThread}

BusInit == bus = NoThread

(* Mutant: publish() runs the subscribers after the lock is gone. *)
AcquireForgotten(t) == bus' = t

(* lock_guard's constructor in publish() and subscribe(), not nested. *)
Acquire(t) == bus = NoThread /\ bus' = t

(* The nested publish(): the mutex counts, the owner passes. *)
Reenter(t) == bus = t /\ "enter" \in RelockOutcomes /\ UNCHANGED bus

(* The nested publish(): the owner waits for itself and never returns. *)
Wedge(t) == bus = t /\ "block" \in RelockOutcomes /\ UNCHANGED bus

(* Mutant: the mutex stays locked. *)
ReleaseForgotten(t) == bus = t /\ UNCHANGED bus

(* lock_guard's destructor when the outermost call returns. *)
Release(t) == bus = t /\ bus' = NoThread
=============================================================================
