--------------------------- MODULE StreamHubProofs ---------------------------
(***************************************************************************)
(* Proofs about StreamHub, for every set of clients and pool threads, any  *)
(* number of frames, and for either behaviour of the nested lock and of    *)
(* the lost buffer.  IInv says of each session which one thread or         *)
(* operation is at work on its queue, and counts its frames.               *)
(***************************************************************************)
EXTENDS StreamHub, Integers, TLAPS

-----------------------------------------------------------------------------
(* The inductive invariant. *)

(* The loop of a broadcast and the threads. *)
Places ==
  /\ \A t \in Threads : pc[t] = "idle" <=> mine[t] = NoSession
  /\ cast = "idle" => todo = {} /\ at = NoSession
  /\ cast # "idle" => frame # 0
  /\ todo \subseteq sessions
  /\ at # NoSession => at \in todo

New(s) ==
  /\ s \notin sessions
  /\ queue[s] = <<>> /\ sent[s] = <<>>
  /\ ~is_writing[s] /\ writing[s] = NoFrame

(* Until a session is registered, one handler at most knows it. *)
NewInv ==
  \A s \in Sessions :
    /\ peer[s] = "away" => reading[s] = "none"
    /\ peer[s] = "away" \/ reading[s] = "accept" =>
         New(s) /\ \A t \in Threads : mine[t] # s
    /\ \A t \in Threads : mine[t] = s /\ pc[t] = "register" =>
         /\ New(s) /\ reading[s] = "none"
         /\ \A u \in Threads : mine[u] = s => u = t

Writes(t, s) == mine[t] = s /\ pc[t] \in {"pop", "doWrite", "write"}

(* OneWriter, and is_writing_ is up while somebody writes. *)
WriterInv ==
  \A s \in Sessions :
    /\ \A t, u \in Threads : Writes(t, s) /\ Writes(u, s) => t = u
    /\ writing[s] # NoFrame \/ at = s =>
         is_writing[s] /\ \A t \in Threads : ~Writes(t, s)
    /\ writing[s] # NoFrame => at # s
    /\ \A t \in Threads : Writes(t, s) => is_writing[s]
    /\ at = s => queue[s] # <<>>

Works(t, s) == mine[t] = s /\ pc[t] \in {"pop", "doWrite", "write", "unregister"}

(* ... and nobody leaves it up who does not also leave the hub. *)
FlagInv ==
  \A s \in Sessions :
    /\ queue[s] # <<>> => is_writing[s]
    /\ s \in sessions /\ is_writing[s] =>
         writing[s] # NoFrame \/ at = s \/ \E t \in Threads : Works(t, s)

Out(s) == joined[s] + Len(sent[s]) - Popping(s)

(* The queue continues what was sent; whoever writes has its first frame. *)
OrderOf(s) ==
  /\ \A i \in 1 .. Len(sent[s]) : sent[s][i] \in {joined[s] + i, Garbage}
  /\ \A i \in 1 .. Len(queue[s]) : queue[s][i] = Out(s) + i
  /\ s \in sessions =>
       Out(s) + Len(queue[s]) = IF s \in todo /\ at # s THEN frame - 1 ELSE frame
  /\ writing[s] # NoFrame => queue[s] # <<>> /\ writing[s] = queue[s][1]
  /\ \A t \in Threads : mine[t] = s =>
       /\ pc[t] = "pop" => queue[s] # <<>>
       /\ pc[t] = "write" => queue[s] # <<>> /\ copy[t] = queue[s][1]

OrderInv == \A s \in Sessions : OrderOf(s)

IInv ==
  /\ TypeOK
  /\ Places
  /\ NewInv
  /\ WriterInv
  /\ FlagInv
  /\ OrderInv
  /\ DepartureNoticed

-----------------------------------------------------------------------------
(* Sequences. *)

(* What a frame at the end of a queue leaves where it was. *)
LEMMA AppendFacts ==
  ASSUME NEW S, NEW q \in Seq(S), NEW e \in S
  PROVE  /\ Append(q, e) \in Seq(S) /\ Append(q, e) # <<>>
         /\ Len(Append(q, e)) = Len(q) + 1
         /\ \A i \in 1 .. Len(q) : Append(q, e)[i] = q[i]
         /\ Append(q, e)[Len(q) + 1] = e
OBVIOUS

(* What is left of a queue without its first frame. *)
LEMMA TailFacts ==
  ASSUME NEW S, NEW q \in Seq(S), q # <<>>
  PROVE  /\ Tail(q) \in Seq(S) /\ Len(q) \in Nat \ {0}
         /\ Len(Tail(q)) = Len(q) - 1
         /\ \A i \in 1 .. Len(q) - 1 : Tail(q)[i] = q[i + 1]
         /\ Head(q) = q[1] /\ q[1] \in S
OBVIOUS

(* The empty queue. *)
LEMMA EmptyFacts ==
  ASSUME NEW S
  PROVE  /\ <<>> \in Seq(S) /\ Len(<<>>) = 0
         /\ \A q \in Seq(S) : Len(q) \in Nat /\ (q = <<>> <=> Len(q) = 0)
OBVIOUS

(* Sums. *)
LEMMA Regroup ==
  ASSUME NEW a \in Int, NEW b \in Int, NEW c \in Int, NEW p \in Int
  PROVE  /\ a + b + c - p = (a + b - p) + c
         /\ a + b = c - 1 => a + (b + 1) = c
OBVIOUS

(* Whether a handler of s is about to pop. *)
LEMMA PoppingFacts ==
  ASSUME NEW s
  PROVE  /\ Popping(s) \in {0, 1}
         /\ Popping(s) = 1 <=> \E t \in Threads : mine[t] = s /\ pc[t] = "pop"
BY DEF Popping

(* A thread that is in a handler handles a session. *)
LEMMA Handles ==
  ASSUME IInv, NEW t \in Threads, pc[t] # "idle"
  PROVE  mine[t] \in Sessions
BY HubAssumption DEF IInv, TypeOK, Places

(* The counts are numbers. *)
LEMMA OutFacts ==
  ASSUME TypeOK, NEW s \in Sessions
  PROVE  /\ Out(s) \in Int /\ Popping(s) \in {0, 1} /\ joined[s] \in Nat
         /\ Len(sent[s]) \in Nat /\ Len(queue[s]) \in Nat
<1>1. Popping(s) \in {0, 1}
  BY PoppingFacts
<1>2. joined[s] \in Nat /\ Len(sent[s]) \in Nat /\ Len(queue[s]) \in Nat
  BY HubAssumption DEF TypeOK
<1> QED BY <1>1, <1>2 DEF Out

-----------------------------------------------------------------------------
(* The clients. *)

(* A session that nobody knows yet. *)
LEMMA UpgradePreserves ==
  ASSUME IInv, NEW t \in Threads, NEW s \in Sessions, Upgrade(t, s)
  PROVE  IInv'
<1> USE HubAssumption
    DEF IInv, NoFrame, Garbage, Upgrade, client, output, hub, worker, local
<1>1. TypeOK'
  BY DEF TypeOK
<1>2. Places'
  BY DEF Places
<1>3. NewInv'
  BY DEF TypeOK, NewInv, New
<1>4. WriterInv'
  BY DEF WriterInv, Writes
<1>5. FlagInv'
  BY DEF FlagInv, Works
<1>6. OrderInv'
  <2>1. \A r \in Sessions : Popping(r)' = Popping(r)
    BY DEF Popping
  <2>2. \A r \in Sessions : Out(r)' = Out(r)
    BY <2>1 DEF Out
  <2> QED BY <2>2 DEF OrderInv, OrderOf
<1>7. DepartureNoticed'
  BY DEF TypeOK, Places, NewInv, New, DepartureNoticed
<1> QED BY <1>1, <1>2, <1>3, <1>4, <1>5, <1>6, <1>7

(* Only the client has moved. *)
LEMMA AskAgainPreserves ==
  ASSUME IInv, NEW s \in Sessions, AskAgain(s)
  PROVE  IInv'
<1> USE HubAssumption
    DEF IInv, NoFrame, Garbage, AskAgain, client, output, hub, worker, local
<1>1. TypeOK'
  BY DEF TypeOK
<1>2. Places'
  BY DEF Places
<1>3. NewInv'
  BY DEF NewInv, New
<1>4. WriterInv'
  BY DEF WriterInv, Writes
<1>5. FlagInv'
  BY DEF FlagInv, Works
<1>6. OrderInv'
  <2>1. \A r \in Sessions : Popping(r)' = Popping(r)
    BY DEF Popping
  <2>2. \A r \in Sessions : Out(r)' = Out(r)
    BY <2>1 DEF Out
  <2> QED BY <2>2 DEF OrderInv, OrderOf
<1>7. DepartureNoticed'
  BY DEF DepartureNoticed
<1> QED BY <1>1, <1>2, <1>3, <1>4, <1>5, <1>6, <1>7

(* Only the client has moved. *)
LEMMA DepartPreserves ==
  ASSUME IInv, NEW s \in Sessions, Depart(s)
  PROVE  IInv'
<1> USE HubAssumption
    DEF IInv, NoFrame, Garbage, Depart, client, output, hub, worker, local
<1>1. TypeOK'
  BY DEF TypeOK
<1>2. Places'
  BY DEF Places
<1>3. NewInv'
  BY DEF NewInv, New
<1>4. WriterInv'
  BY DEF WriterInv, Writes
<1>5. FlagInv'
  BY DEF FlagInv, Works
<1>6. OrderInv'
  <2>1. \A r \in Sessions : Popping(r)' = Popping(r)
    BY DEF Popping
  <2>2. \A r \in Sessions : Out(r)' = Out(r)
    BY <2>1 DEF Out
  <2> QED BY <2>2 DEF OrderInv, OrderOf
<1>7. DepartureNoticed'
  BY DEF DepartureNoticed
<1> QED BY <1>1, <1>2, <1>3, <1>4, <1>5, <1>6, <1>7

-----------------------------------------------------------------------------
(* onAccept and onRead. *)

(* One handler has the new session. *)
LEMMA AcceptedPreserves ==
  ASSUME IInv, NEW t \in Threads, NEW s \in Sessions, Accepted(t, s)
  PROVE  IInv'
<1> USE HubAssumption
    DEF IInv, NoFrame, Garbage, Accepted, Handle, client, output, hub,
        worker, local
<1>1. TypeOK'
  BY DEF TypeOK
<1>2. Places'
  BY DEF TypeOK, Places
<1>3. NewInv'
  BY DEF TypeOK, NewInv, New
<1>4. WriterInv'
  <2>1. \A u \in Threads, r \in Sessions : Writes(u, r)' <=> Writes(u, r)
    BY DEF TypeOK, Places, Writes
  <2> QED BY <2>1 DEF WriterInv, TypeOK
<1>5. FlagInv'
  <2>1. \A u \in Threads, r \in Sessions : Works(u, r)' <=> Works(u, r)
    BY DEF TypeOK, Places, Works
  <2> QED BY <2>1 DEF FlagInv, TypeOK
<1>6. OrderInv'
  <2>1. \A r \in Sessions : Popping(r)' = Popping(r)
    BY DEF Popping
  <2>2. \A r \in Sessions : Out(r)' = Out(r)
    BY <2>1 DEF Out
  <2> QED BY <2>2 DEF OrderInv, OrderOf
<1>7. DepartureNoticed'
  BY DEF DepartureNoticed
<1> QED BY <1>1, <1>2, <1>3, <1>4, <1>5, <1>6, <1>7

(* The new session has gone, and the process with it. *)
LEMMA AcceptFailsPreserves ==
  ASSUME IInv, NEW t \in Threads, NEW s \in Sessions, AcceptFails(t, s)
  PROVE  IInv'
<1> USE HubAssumption
    DEF IInv, NoFrame, Garbage, AcceptFails, client, output, hub, worker, local
<1>1. TypeOK'
  BY DEF TypeOK
<1>2. Places'
  BY DEF Places
<1>3. NewInv'
  BY DEF NewInv, New
<1>4. WriterInv'
  BY DEF WriterInv, Writes
<1>5. FlagInv'
  BY DEF FlagInv, Works
<1>6. OrderInv'
  <2>1. \A r \in Sessions : Popping(r)' = Popping(r)
    BY DEF Popping
  <2>2. \A r \in Sessions : Out(r)' = Out(r)
    BY <2>1 DEF Out
  <2> QED BY <2>2 DEF OrderInv, OrderOf
<1>7. DepartureNoticed'
  BY DEF DepartureNoticed
<1> QED BY <1>1, <1>2, <1>3, <1>4, <1>5, <1>6, <1>7

(* A session counts its frames from here. *)
LEMMA RegisterPreserves ==
  ASSUME IInv, NEW t \in Threads, Register(t)
  PROVE  IInv'
<1>a. mine[t] \in Sessions
  BY Handles DEF Register, At
<1> USE HubAssumption, <1>a
    DEF IInv, NoFrame, Garbage, Register, At, Goto, HubFree, client, output,
        hub, worker, local
<1>1. TypeOK'
  BY DEF TypeOK
<1>2. Places'
  BY DEF Places
<1>3. NewInv'
  BY DEF TypeOK, NewInv, New
<1>4. WriterInv'
  <2>1. \A u \in Threads, r \in Sessions : Writes(u, r)' <=> Writes(u, r)
    BY DEF TypeOK, Places, Writes
  <2> QED BY <2>1 DEF WriterInv, TypeOK
<1>5. FlagInv'
  BY DEF TypeOK, Places, NewInv, New, WriterInv, Writes, FlagInv, Works
<1>6. OrderInv'
  <2>1. \A r \in Sessions : Popping(r)' = Popping(r)
    BY DEF Popping, TypeOK, Places
  <2>2. Popping(mine[t]) = 0
    BY DEF Popping, TypeOK, NewInv
  <2>3. Out(mine[t])' = frame
    <3>1. sent[mine[t]] = <<>>
      BY DEF NewInv, New
    <3> QED BY <2>1, <2>2, <3>1, EmptyFacts DEF Out, TypeOK
  <2>4. \A s \in Sessions \ {mine[t]} : Out(s)' = Out(s)
    BY <2>1 DEF Out, TypeOK
  <2>5. queue[mine[t]] = <<>> /\ sent[mine[t]] = <<>> /\ writing[mine[t]] = NoFrame
    BY DEF NewInv, New
  <2>6. todo = {} /\ at = NoSession
    BY DEF Places
  <2> QED BY <2>1, <2>3, <2>4, <2>5, <2>6, EmptyFacts DEF OrderInv, OrderOf, TypeOK, Places, NewInv
<1>7. DepartureNoticed'
  BY DEF TypeOK, DepartureNoticed
<1> QED BY <1>1, <1>2, <1>3, <1>4, <1>5, <1>6, <1>7

(* The read is pending when its handler returns. *)
LEMMA DoReadPreserves ==
  ASSUME IInv, NEW t \in Threads, DoRead(t)
  PROVE  IInv'
<1>a. mine[t] \in Sessions
  BY Handles DEF DoRead, At
<1> USE HubAssumption, <1>a
    DEF IInv, NoFrame, Garbage, DoRead, At, Return, client, output, hub,
        worker, local
<1>1. TypeOK'
  BY DEF TypeOK
<1>2. Places'
  BY DEF TypeOK, Places
<1>3. NewInv'
  BY DEF NewInv, New
<1>4. WriterInv'
  <2>1. \A u \in Threads, r \in Sessions : Writes(u, r)' <=> Writes(u, r)
    BY DEF TypeOK, Places, Writes
  <2> QED BY <2>1 DEF WriterInv, TypeOK
<1>5. FlagInv'
  <2>1. \A u \in Threads, r \in Sessions : Works(u, r)' <=> Works(u, r)
    BY DEF TypeOK, Places, Works
  <2> QED BY <2>1 DEF FlagInv, TypeOK
<1>6. OrderInv'
  <2>1. \A r \in Sessions : Popping(r)' = Popping(r)
    BY DEF Popping
  <2>2. \A r \in Sessions : Out(r)' = Out(r)
    BY <2>1 DEF Out
  <2> QED BY <2>2 DEF OrderInv, OrderOf
<1>7. DepartureNoticed'
  BY DEF TypeOK, DepartureNoticed
<1> QED BY <1>1, <1>2, <1>3, <1>4, <1>5, <1>6, <1>7

(* The handler that will unregister the session takes over from the read. *)
LEMMA ReadFailsPreserves ==
  ASSUME IInv, NEW t \in Threads, NEW s \in Sessions, ReadFails(t, s)
  PROVE  IInv'
<1> USE HubAssumption
    DEF IInv, NoFrame, Garbage, ReadFails, Handle, client, output, hub,
        worker, local
<1>1. TypeOK'
  BY DEF TypeOK
<1>2. Places'
  BY DEF TypeOK, Places
<1>3. NewInv'
  BY DEF NewInv, New
<1>4. WriterInv'
  <2>1. \A u \in Threads, r \in Sessions : Writes(u, r)' <=> Writes(u, r)
    BY DEF TypeOK, Places, Writes
  <2> QED BY <2>1 DEF WriterInv, TypeOK
<1>5. FlagInv'
  BY DEF FlagInv, Works
<1>6. OrderInv'
  <2>1. \A r \in Sessions : Popping(r)' = Popping(r)
    BY DEF Popping
  <2>2. \A r \in Sessions : Out(r)' = Out(r)
    BY <2>1 DEF Out
  <2> QED BY <2>2 DEF OrderInv, OrderOf
<1>7. DepartureNoticed'
  BY DEF TypeOK, Places, DepartureNoticed
<1> QED BY <1>1, <1>2, <1>3, <1>4, <1>5, <1>6, <1>7

(* A session outside the hub promises nothing more. *)
LEMMA UnregisterPreserves ==
  ASSUME IInv, NEW t \in Threads, Unregister(t)
  PROVE  IInv'
<1>a. mine[t] \in Sessions
  BY Handles DEF Unregister, At
<1> USE HubAssumption, <1>a
    DEF IInv, NoFrame, Garbage, Unregister, At, Return, HubFree, Referred,
        client, output, hub, worker, local
<1>1. TypeOK'
  BY DEF TypeOK
<1>2. Places'
  BY DEF TypeOK, Places
<1>3. NewInv'
  BY DEF NewInv, New
<1>4. WriterInv'
  BY DEF WriterInv, Writes
<1>5. FlagInv'
  BY DEF FlagInv, Works
<1>6. OrderInv'
  <2>1. \A r \in Sessions : Popping(r)' = Popping(r)
    BY DEF Popping
  <2>2. \A r \in Sessions : Out(r)' = Out(r)
    BY <2>1 DEF Out
  <2> QED BY <2>2 DEF OrderInv, OrderOf
<1>7. DepartureNoticed'
  BY DEF DepartureNoticed
<1> QED BY <1>1, <1>2, <1>3, <1>4, <1>5, <1>6, <1>7

-----------------------------------------------------------------------------
(* onWrite and doWrite. *)

(* The message is no longer pending, and its frame not yet popped. *)
LEMMA WrittenPreserves ==
  ASSUME IInv, NEW t \in Threads, NEW s \in Sessions, Written(t, s)
  PROVE  IInv'
<1> USE HubAssumption
    DEF IInv, NoFrame, Garbage, Written, Handle, client, output, hub, worker,
        local
<1>1. TypeOK'
  BY DEF TypeOK
<1>2. Places'
  BY DEF TypeOK, Places
<1>3. NewInv'
  BY DEF NewInv, New
<1>4. WriterInv'
  BY DEF TypeOK, WriterInv, Writes
<1>5. FlagInv'
  BY DEF TypeOK, Places, FlagInv, Works
<1>6. OrderInv'
  <2>1. Popping(s) = 0 /\ Popping(s)' = 1
    BY DEF Popping, TypeOK, Places, WriterInv, Writes
  <2>2. \A r \in Sessions \ {s} : Popping(r)' = Popping(r)
    BY DEF Popping, TypeOK, Places
  <2>3. PICK m \in {writing[s], Garbage} : sent' = [sent EXCEPT ![s] = Append(sent[s], m)]
    OBVIOUS
  <2>4. m \in Frame \cup {Garbage} /\ sent[s] \in Seq(Frame \cup {Garbage})
    BY DEF TypeOK
  <2>5. /\ sent'[s] = Append(sent[s], m) /\ \A r \in Sessions \ {s} : sent'[r] = sent[r]
        /\ Len(sent[s]) \in Nat /\ Len(sent'[s]) = Len(sent[s]) + 1
        /\ \A i \in 1 .. Len(sent[s]) : sent'[s][i] = sent[s][i]
        /\ sent'[s][Len(sent[s]) + 1] = m
    BY <2>3, <2>4, AppendFacts, EmptyFacts DEF TypeOK
  <2>6. \A r \in Sessions : Out(r)' = Out(r)
    BY <2>1, <2>2, <2>5 DEF Out, TypeOK
  <2>7. queue[s] # <<>> /\ writing[s] = queue[s][1] /\ Len(queue[s]) \in Nat \ {0}
    BY TailFacts DEF OrderInv, OrderOf, TypeOK
  <2>8. writing[s] = joined[s] + Len(sent[s]) + 1
    <3>1. 1 \in 1 .. Len(queue[s]) /\ queue[s][1] = Out(s) + 1
      BY <2>7 DEF OrderInv, OrderOf
    <3>2. Out(s) = joined[s] + Len(sent[s]) - 0
      BY <2>1 DEF Out
    <3>3. joined[s] \in Nat /\ Len(sent[s]) \in Nat
      BY OutFacts
    <3> QED BY ONLY <2>7, <3>1, <3>2, <3>3
  <2>9. ASSUME NEW r \in Sessions
        PROVE  \A i \in 1 .. Len(sent'[r]) : sent'[r][i] \in {joined[r] + i, Garbage}
    <3>1. CASE r = s
      <4>1. joined[s] \in Nat /\ joined'[s] = joined[s]
        BY OutFacts
      <4>2. \A i \in 1 .. Len(sent[s]) : sent[s][i] \in {joined[s] + i, Garbage}
        BY DEF OrderInv, OrderOf
      <4>3. m \in {joined[s] + (Len(sent[s]) + 1), Garbage}
        BY <2>3, <2>5, <2>8, <4>1
      <4>4. ASSUME NEW i \in 1 .. Len(sent'[s])
            PROVE  i = Len(sent[s]) + 1 \/ i \in 1 .. Len(sent[s])
        BY ONLY <2>5, <4>4
      <4> QED BY ONLY <2>5, <3>1, <4>1, <4>2, <4>3, <4>4
    <3>2. CASE r # s
      BY <2>5, <3>2 DEF OrderInv, OrderOf
    <3> QED BY <3>1, <3>2
  <2> QED BY <2>1, <2>2, <2>6, <2>7, <2>9 DEF OrderInv, OrderOf, TypeOK, Places, WriterInv, Writes
<1>7. DepartureNoticed'
  BY DEF DepartureNoticed
<1> QED BY <1>1, <1>2, <1>3, <1>4, <1>5, <1>6, <1>7

(* The flag stays up, and the handler will unregister the session. *)
LEMMA WriteFailsPreserves ==
  ASSUME IInv, NEW t \in Threads, NEW s \in Sessions, WriteFails(t, s)
  PROVE  IInv'
<1> USE HubAssumption
    DEF IInv, NoFrame, Garbage, WriteFails, Handle, client, output, hub,
        worker, local
<1>1. TypeOK'
  BY DEF TypeOK
<1>2. Places'
  BY DEF TypeOK, Places
<1>3. NewInv'
  BY DEF NewInv, New
<1>4. WriterInv'
  BY DEF WriterInv, Writes
<1>5. FlagInv'
  BY DEF TypeOK, Places, FlagInv, Works
<1>6. OrderInv'
  <2>1. \A r \in Sessions : Popping(r)' = Popping(r)
    BY DEF Popping
  <2>2. \A r \in Sessions : Out(r)' = Out(r)
    BY <2>1 DEF Out
  <2> QED BY <2>2 DEF OrderInv, OrderOf
<1>7. DepartureNoticed'
  BY DEF DepartureNoticed
<1> QED BY <1>1, <1>2, <1>3, <1>4, <1>5, <1>6, <1>7

(* The front of the queue is the frame that was written. *)
LEMMA PopPreserves ==
  ASSUME IInv, NEW t \in Threads, Pop(t)
  PROVE  IInv'
<1>a. mine[t] \in Sessions
  BY Handles DEF Pop, At
<1>b. /\ queue' = [queue EXCEPT ![mine[t]] = queue'[mine[t]]]
      /\ queue'[mine[t]] \in Seq(Frame)
      /\ Len(queue[mine[t]]) \in Nat /\ queue[mine[t]] # <<>>
      /\ Len(queue'[mine[t]]) = Len(queue[mine[t]]) - 1
      /\ \A i \in 1 .. Len(queue[mine[t]]) - 1 : queue'[mine[t]][i] = queue[mine[t]][i + 1]
  <2>1. queue[mine[t]] # <<>> /\ queue[mine[t]] \in Seq(Frame)
    BY <1>a DEF IInv, OrderInv, OrderOf, TypeOK, Pop, At
  <2>2. /\ queue' = [queue EXCEPT ![mine[t]] = queue'[mine[t]]]
        /\ queue'[mine[t]] = Tail(queue[mine[t]])
    BY <1>a, <2>1 DEF IInv, TypeOK, Pop
  <2> QED BY <2>1, <2>2, TailFacts
<1> USE HubAssumption, <1>a
    DEF IInv, NoFrame, Garbage, Pop, At, Goto, SessionFree, client, output,
        hub, worker, local
<1>1. TypeOK'
  <2>1. queue' \in [Sessions -> Seq(Frame)]
    BY <1>b DEF TypeOK
  <2> QED BY <2>1 DEF TypeOK, Places
<1>2. Places'
  BY DEF Places
<1>3. NewInv'
  BY DEF NewInv, New
<1>4. WriterInv'
  <2>1. \A u \in Threads, r \in Sessions : Writes(u, r)' <=> Writes(u, r)
    BY DEF TypeOK, Places, Writes
  <2> QED BY <1>b, <2>1 DEF WriterInv, TypeOK
<1>5. FlagInv'
  <2>1. \A u \in Threads, r \in Sessions : Works(u, r)' <=> Works(u, r)
    BY DEF TypeOK, Places, Works
  <2>2. is_writing[mine[t]]
    BY DEF WriterInv, Writes
  <2> QED BY <1>b, <2>1, <2>2 DEF FlagInv, TypeOK
<1>6. OrderInv'
  <2>1. Popping(mine[t]) = 1 /\ Popping(mine[t])' = 0
    BY DEF Popping, TypeOK, WriterInv, Writes
  <2>2. \A r \in Sessions \ {mine[t]} : Popping(r)' = Popping(r)
    BY DEF Popping, TypeOK
  <2>3. /\ \A r \in Sessions \ {mine[t]} : Out(r)' = Out(r)
        /\ Out(mine[t])' = Out(mine[t]) + 1
        /\ \A r \in Sessions : Out(r) \in Int
    <3>1. \A r \in Sessions : /\ Out(r) \in Int /\ joined[r] \in Nat
                             /\ Len(sent[r]) \in Nat
      BY OutFacts
    <3>2. /\ Out(mine[t]) = joined[mine[t]] + Len(sent[mine[t]]) - 1
          /\ Out(mine[t])' = joined[mine[t]] + Len(sent[mine[t]]) - 0
      BY <2>1 DEF Out
    <3>3. \A r \in Sessions \ {mine[t]} : Out(r)' = Out(r)
      BY <2>2 DEF Out
    <3> QED BY ONLY <1>a, <3>1, <3>2, <3>3
  <2>4. writing[mine[t]] = NoFrame
        /\ \A u \in Threads : mine[u] = mine[t] /\ pc[u] \in {"pop", "write"} => u = t
    BY DEF WriterInv, Writes
  <2>5. ASSUME NEW r \in Sessions \ {mine[t]}
        PROVE  OrderOf(r)'
    <3>1. queue'[r] = queue[r] /\ Out(r)' = Out(r) /\ OrderOf(r)
      BY <1>b, <2>3 DEF TypeOK, OrderInv
    <3> QED BY <3>1 DEF OrderOf, TypeOK
  <2>6. OrderOf(mine[t])'
    <3>1. OrderOf(mine[t]) /\ Out(mine[t]) \in Int /\ frame \in Nat
      BY <2>3 DEF OrderInv, OrderOf, TypeOK
    <3>2. \A i \in 1 .. Len(queue'[mine[t]]) : queue'[mine[t]][i] = Out(mine[t])' + i
      <4>1. \A i \in 1 .. Len(queue[mine[t]]) : queue[mine[t]][i] = Out(mine[t]) + i
        BY <3>1 DEF OrderOf
      <4>2. Out(mine[t])' = Out(mine[t]) + 1 /\ Out(mine[t]) \in Int
        BY <2>3, <3>1
      <4>3. ASSUME NEW i \in 1 .. Len(queue'[mine[t]])
            PROVE  queue'[mine[t]][i] = Out(mine[t])' + i
        <5>1. i \in 1 .. Len(queue[mine[t]]) - 1 /\ i + 1 \in 1 .. Len(queue[mine[t]])
          BY ONLY <1>b, <4>3
        <5>2. queue'[mine[t]][i] = Out(mine[t]) + (i + 1)
          BY ONLY <1>b, <4>1, <5>1
        <5> QED BY ONLY <4>2, <5>1, <5>2
      <4> QED BY <4>3
    <3>3. Out(mine[t])' + Len(queue'[mine[t]]) = Out(mine[t]) + Len(queue[mine[t]])
      BY ONLY <1>a, <1>b, <2>3, <3>1
    <3>4. \A u \in Threads : mine[u] = mine[t] => pc'[u] \notin {"pop", "write"}
      BY <2>4 DEF TypeOK
    <3> QED BY <2>4, <3>1, <3>2, <3>3, <3>4 DEF OrderOf
  <2> QED BY <2>5, <2>6 DEF OrderInv, OrderOf
<1>7. DepartureNoticed'
  BY DEF DepartureNoticed
<1> QED BY <1>1, <1>2, <1>3, <1>4, <1>5, <1>6, <1>7

(* The flag falls with an empty queue and no other writer. *)
LEMMA RestPreserves ==
  ASSUME IInv, NEW t \in Threads, Rest(t)
  PROVE  IInv'
<1>a. mine[t] \in Sessions
  BY Handles DEF Rest, At
<1> USE HubAssumption, <1>a
    DEF IInv, NoFrame, Garbage, Rest, At, Return, SessionFree, Referred,
        client, output, hub, worker, local
<1>1. TypeOK'
  BY DEF TypeOK
<1>2. Places'
  BY DEF TypeOK, Places
<1>3. NewInv'
  BY DEF NewInv, New
<1>4. WriterInv'
  BY DEF TypeOK, WriterInv, Writes
<1>5. FlagInv'
  BY DEF TypeOK, FlagInv, Works
<1>6. OrderInv'
  <2>1. \A r \in Sessions : Popping(r)' = Popping(r)
    BY DEF Popping
  <2>2. \A r \in Sessions : Out(r)' = Out(r)
    BY <2>1 DEF Out
  <2> QED BY <2>2 DEF OrderInv, OrderOf
<1>7. DepartureNoticed'
  BY DEF DepartureNoticed
<1> QED BY <1>1, <1>2, <1>3, <1>4, <1>5, <1>6, <1>7

(* The copy is the front of the queue until the write is complete. *)
LEMMA CopyFrontPreserves ==
  ASSUME IInv, NEW t \in Threads, CopyFront(t)
  PROVE  IInv'
<1>a. mine[t] \in Sessions
  BY Handles DEF CopyFront, At
<1> USE HubAssumption, <1>a
    DEF IInv, NoFrame, Garbage, CopyFront, At, Goto, SessionFree, client,
        output, hub, worker, local
<1>1. TypeOK'
  BY TailFacts DEF TypeOK
<1>2. Places'
  BY DEF Places
<1>3. NewInv'
  BY DEF NewInv, New
<1>4. WriterInv'
  BY DEF WriterInv, Writes
<1>5. FlagInv'
  BY DEF FlagInv, Works
<1>6. OrderInv'
  <2>1. \A r \in Sessions : Popping(r)' = Popping(r)
    BY DEF Popping, TypeOK, Places
  <2>2. \A r \in Sessions : Out(r)' = Out(r)
    BY <2>1 DEF Out
  <2>3. Head(queue[mine[t]]) = queue[mine[t]][1]
    BY TailFacts DEF TypeOK
  <2> QED BY <2>1, <2>2, <2>3 DEF OrderInv, OrderOf, TypeOK, Places
<1>7. DepartureNoticed'
  BY DEF DepartureNoticed
<1> QED BY <1>1, <1>2, <1>3, <1>4, <1>5, <1>6, <1>7

(* The pending write takes over from its handler. *)
LEMMA StartWritePreserves ==
  ASSUME IInv, NEW t \in Threads, StartWrite(t)
  PROVE  IInv'
<1>a. mine[t] \in Sessions
  BY Handles DEF StartWrite, At
<1> USE HubAssumption, <1>a
    DEF IInv, NoFrame, Garbage, StartWrite, At, Return, client, output, hub,
        worker, local
<1>1. TypeOK'
  BY DEF TypeOK
<1>2. Places'
  BY DEF TypeOK, Places
<1>3. NewInv'
  BY DEF NewInv, New
<1>4. WriterInv'
  BY DEF TypeOK, WriterInv, Writes
<1>5. FlagInv'
  <2>1. copy[t] # NoFrame
    <3>1. queue[mine[t]] # <<>> /\ copy[t] = queue[mine[t]][1]
      BY DEF OrderInv, OrderOf
    <3>2. queue[mine[t]] \in Seq(Frame)
      BY DEF TypeOK
    <3> QED BY <3>1, <3>2, TailFacts DEF Frame
  <2>2. \A u \in Threads \ {t}, r \in Sessions : Works(u, r)' <=> Works(u, r)
    BY DEF TypeOK, Works
  <2>3. \A r \in Sessions : Works(t, r) => r = mine[t]
    BY DEF Works
  <2>4. writing'[mine[t]] # NoFrame
    BY <2>1 DEF TypeOK
  <2>5. \A r \in Sessions \ {mine[t]} : writing'[r] = writing[r]
    BY DEF TypeOK
  <2> QED BY <2>2, <2>3, <2>4, <2>5 DEF FlagInv
<1>6. OrderInv'
  <2>1. \A r \in Sessions : Popping(r)' = Popping(r)
    BY DEF Popping
  <2>2. \A r \in Sessions : Out(r)' = Out(r)
    BY <2>1 DEF Out
  <2> QED BY <2>2 DEF OrderInv, OrderOf, TypeOK
<1>7. DepartureNoticed'
  BY DEF DepartureNoticed
<1> QED BY <1>1, <1>2, <1>3, <1>4, <1>5, <1>6, <1>7

-----------------------------------------------------------------------------
(* broadcastFrame and sendFrame. *)

(* Everybody who is registered has one frame to come. *)
LEMMA BroadcastPreserves ==
  ASSUME IInv, Broadcast
  PROVE  IInv'
<1> USE HubAssumption
    DEF IInv, NoFrame, Garbage, Broadcast, HubFree, client, output, hub,
        worker, local
<1>1. TypeOK'
  BY DEF TypeOK
<1>2. Places'
  BY DEF TypeOK, Places
<1>3. NewInv'
  BY DEF NewInv, New
<1>4. WriterInv'
  BY DEF WriterInv, Writes
<1>5. FlagInv'
  BY DEF FlagInv, Works
<1>6. OrderInv'
  <2>1. \A r \in Sessions : Popping(r)' = Popping(r)
    BY DEF Popping, TypeOK, Places
  <2>2. \A r \in Sessions : Out(r)' = Out(r)
    BY <2>1 DEF Out
  <2> QED BY <2>2 DEF OrderInv, OrderOf, TypeOK, Places
<1>7. DepartureNoticed'
  BY DEF DepartureNoticed
<1> QED BY <1>1, <1>2, <1>3, <1>4, <1>5, <1>6, <1>7

(* The new frame follows the last one; sendFrame takes the flag if it is free. *)
LEMMA PushPreserves ==
  ASSUME IInv, NEW s \in Sessions, Push(s)
  PROVE  IInv'
<1>a. /\ at = NoSession /\ frame \in Frame
      /\ queue' = [queue EXCEPT ![s] = queue'[s]]
      /\ Len(queue[s]) \in Nat /\ queue'[s] \in Seq(Frame)
      /\ queue'[s] # <<>> /\ Len(queue'[s]) = Len(queue[s]) + 1
      /\ \A i \in 1 .. Len(queue[s]) : queue'[s][i] = queue[s][i]
      /\ queue'[s][Len(queue[s]) + 1] = frame
  <2>1. at = NoSession /\ frame \in Frame /\ queue[s] \in Seq(Frame)
    BY DEF IInv, TypeOK, Places, Frame, Push
  <2>2. /\ queue' = [queue EXCEPT ![s] = queue'[s]]
        /\ queue'[s] = Append(queue[s], frame)
    BY DEF IInv, TypeOK, Push
  <2>3. /\ Append(queue[s], frame) \in Seq(Frame) /\ Append(queue[s], frame) # <<>>
        /\ Len(Append(queue[s], frame)) = Len(queue[s]) + 1
        /\ \A i \in 1 .. Len(queue[s]) : Append(queue[s], frame)[i] = queue[s][i]
        /\ Append(queue[s], frame)[Len(queue[s]) + 1] = frame
    BY <2>1, AppendFacts
  <2>4. Len(queue[s]) \in Nat
    BY <2>1
  <2>5. /\ queue'[s] \in Seq(Frame) /\ queue'[s] # <<>>
        /\ Len(queue'[s]) = Len(queue[s]) + 1
        /\ \A i \in 1 .. Len(queue[s]) : queue'[s][i] = queue[s][i]
        /\ queue'[s][Len(queue[s]) + 1] = frame
    BY ONLY <2>2, <2>3, Zenon
  <2> QED BY ONLY <2>1, <2>2, <2>4, <2>5, Zenon
<1> USE HubAssumption
    DEF IInv, NoFrame, Garbage, Push, client, output, hub, worker, local
<1>1. TypeOK'
  <2>1. queue' \in [Sessions -> Seq(Frame)]
    BY <1>a DEF TypeOK
  <2>2. /\ is_writing' \in [Sessions -> BOOLEAN] /\ todo' \in SUBSET Sessions
        /\ at' \in Sessions \cup {NoSession}
    BY DEF TypeOK
  <2> QED BY <2>1, <2>2 DEF TypeOK
<1>2. Places'
  BY DEF Places
<1>3. NewInv'
  BY DEF TypeOK, Places, NewInv, New
<1>4. WriterInv'
  <2>1. \A u \in Threads, r \in Sessions : Writes(u, r)' <=> Writes(u, r)
    BY DEF Writes
  <2>2. CASE is_writing[s]
    BY <1>a, <2>1, <2>2 DEF WriterInv, TypeOK
  <2>3. CASE ~is_writing[s]
    BY <1>a, <2>1, <2>3 DEF WriterInv, TypeOK
  <2> QED BY <2>2, <2>3
<1>5. FlagInv'
  <2>1. \A u \in Threads, r \in Sessions : Works(u, r)' <=> Works(u, r)
    BY DEF Works
  <2> QED BY <1>a, <2>1 DEF FlagInv, TypeOK
<1>6. OrderInv'
  <2>1. \A r \in Sessions : Popping(r)' = Popping(r)
    BY DEF Popping
  <2>2. \A r \in Sessions : Out(r)' = Out(r) /\ Out(r) \in Int
    BY <2>1, OutFacts DEF Out
  <2>3. s \in sessions /\ Out(s) + Len(queue[s]) = frame - 1 /\ frame \in Nat
    BY DEF Places, OrderInv, OrderOf, TypeOK
  <2>4. \A i \in 1 .. Len(queue'[s]) : queue'[s][i] = Out(s) + i
    <3>1. \A i \in 1 .. Len(queue[s]) : queue[s][i] = Out(s) + i
      BY DEF OrderInv, OrderOf
    <3>2. Out(s) \in Int
      BY <2>2
    <3>3. ASSUME NEW i \in 1 .. Len(queue'[s])
          PROVE  queue'[s][i] = Out(s) + i
      <4>1. CASE i = Len(queue[s]) + 1
        <5>1. Len(queue[s]) \in Nat /\ queue'[s][Len(queue[s]) + 1] = frame
          BY ONLY <1>a
        <5>2. Out(s) + (Len(queue[s]) + 1) = frame
          <6>1. Out(s) \in Int /\ Len(queue[s]) \in Int /\ frame \in Int
            BY <2>3, <3>2, <5>1
          <6> QED BY ONLY <2>3, <6>1, Regroup
        <5> QED BY ONLY <4>1, <5>1, <5>2
      <4>2. CASE i # Len(queue[s]) + 1
        <5>1. i \in 1 .. Len(queue[s])
          BY ONLY <1>a, <3>3, <4>2
        <5> QED BY ONLY <1>a, <3>1, <5>1
      <4> QED BY <4>1, <4>2
    <3> QED BY <3>3
  <2>5. Out(s) + Len(queue'[s]) = frame
    BY ONLY <1>a, <2>2, <2>3
  <2>6. \A r \in Sessions : r # s => (r \in todo' /\ at' # r <=> r \in todo /\ at # r)
    OBVIOUS
  <2>7. ~(s \in todo' /\ at' # s)
    OBVIOUS
  <2>8. queue[s] # <<>> => queue'[s][1] = queue[s][1]
    <3>1. queue[s] # <<>> => 1 \in 1 .. Len(queue[s])
      BY TailFacts DEF TypeOK
    <3> QED BY ONLY <1>a, <3>1
  <2>9. ASSUME NEW r \in Sessions, r # s
        PROVE  OrderOf(r)'
    <3>1. queue'[r] = queue[r] /\ Out(r)' = Out(r) /\ OrderOf(r)
      BY <1>a, <2>2, <2>9 DEF TypeOK, OrderInv
    <3> QED BY <2>6, <2>9, <3>1 DEF OrderOf
  <2>10. OrderOf(s)'
    <3>1. OrderOf(s) /\ Out(s)' = Out(s)
      BY <2>2 DEF OrderInv, OrderOf
    <3> QED BY <1>a, <2>4, <2>5, <2>7, <2>8, <3>1 DEF OrderOf
  <2> QED BY <2>9, <2>10 DEF OrderInv, OrderOf
<1>7. DepartureNoticed'
  BY DEF DepartureNoticed
<1> QED BY <1>1, <1>2, <1>3, <1>4, <1>5, <1>6, <1>7

(* The queue of the session it has locked is not empty. *)
LEMMA RelockPreserves ==
  ASSUME IInv, Relock
  PROVE  IInv'
<1>a. /\ at \in Sessions /\ at \in sessions /\ at \in todo /\ is_writing[at]
      /\ queue[at] # <<>> /\ Head(queue[at]) = queue[at][1] /\ queue[at][1] \in Frame
  <2>1. at \in Sessions /\ at \in sessions /\ at \in todo
    BY DEF IInv, TypeOK, Places, Relock
  <2>2. queue[at] # <<>> /\ is_writing[at] /\ queue[at] \in Seq(Frame)
    BY <2>1 DEF IInv, WriterInv, TypeOK
  <2> QED BY <2>1, <2>2, TailFacts
<1>b. writing' = [writing EXCEPT ![at] = queue[at][1]] /\ UNCHANGED is_writing
  BY <1>a DEF Relock
<1> USE HubAssumption, <1>a, <1>b
    DEF IInv, NoFrame, Garbage, Relock, client, output, hub, worker, local
<1>1. TypeOK'
  BY DEF TypeOK
<1>2. Places'
  BY DEF Places
<1>3. NewInv'
  <2>1. \A r \in Sessions : New(r) => r # at /\ New(r)'
    BY DEF New, TypeOK
  <2> QED BY <2>1 DEF NewInv
<1>4. WriterInv'
  BY DEF WriterInv, Writes
<1>5. FlagInv'
  <2>1. \A u \in Threads, r \in Sessions : Works(u, r)' <=> Works(u, r)
    BY DEF Works
  <2>2. queue[at][1] # NoFrame
    BY DEF Frame
  <2> QED BY <2>1, <2>2 DEF FlagInv, TypeOK
<1>6. OrderInv'
  <2>1. \A r \in Sessions : Popping(r)' = Popping(r)
    BY DEF Popping
  <2>2. \A r \in Sessions : Out(r)' = Out(r)
    BY <2>1 DEF Out
  <2> QED BY <2>2 DEF OrderInv, OrderOf
<1>7. DepartureNoticed'
  BY DEF DepartureNoticed
<1> QED BY <1>1, <1>2, <1>3, <1>4, <1>5, <1>6, <1>7

(* The worker stays where it is. *)
LEMMA WedgePreserves ==
  ASSUME IInv, Wedge
  PROVE  IInv'
<1> USE HubAssumption
    DEF IInv, NoFrame, Garbage, Wedge, client, output, hub, worker, local
<1>1. TypeOK'
  BY DEF TypeOK
<1>2. Places'
  BY DEF Places
<1>3. NewInv'
  BY DEF NewInv, New
<1>4. WriterInv'
  BY DEF WriterInv, Writes
<1>5. FlagInv'
  BY DEF FlagInv, Works
<1>6. OrderInv'
  <2>1. \A r \in Sessions : Popping(r)' = Popping(r)
    BY DEF Popping
  <2>2. \A r \in Sessions : Out(r)' = Out(r)
    BY <2>1 DEF Out
  <2> QED BY <2>2 DEF OrderInv, OrderOf
<1>7. DepartureNoticed'
  BY DEF DepartureNoticed
<1> QED BY <1>1, <1>2, <1>3, <1>4, <1>5, <1>6, <1>7

(* Nobody has a frame to come. *)
LEMMA EndBroadcastPreserves ==
  ASSUME IInv, EndBroadcast
  PROVE  IInv'
<1> USE HubAssumption
    DEF IInv, NoFrame, Garbage, EndBroadcast, client, output, hub, worker,
        local
<1>1. TypeOK'
  BY DEF TypeOK
<1>2. Places'
  BY DEF Places
<1>3. NewInv'
  BY DEF NewInv, New
<1>4. WriterInv'
  BY DEF WriterInv, Writes
<1>5. FlagInv'
  BY DEF FlagInv, Works
<1>6. OrderInv'
  <2>1. \A r \in Sessions : Popping(r)' = Popping(r)
    BY DEF Popping
  <2>2. \A r \in Sessions : Out(r)' = Out(r)
    BY <2>1 DEF Out
  <2> QED BY <2>2 DEF OrderInv, OrderOf
<1>7. DepartureNoticed'
  BY DEF DepartureNoticed
<1> QED BY <1>1, <1>2, <1>3, <1>4, <1>5, <1>6, <1>7

-----------------------------------------------------------------------------
(* The whole. *)

(* As in the beginning. *)
LEMMA RestartPreserves ==
  ASSUME IInv, Restart
  PROVE  IInv'
<1> USE HubAssumption
    DEF IInv, NoFrame, Garbage, Restart, client, output, hub, worker, local
<1>1. TypeOK'
  BY EmptyFacts DEF TypeOK
<1>2. Places'
  BY DEF Places
<1>3. NewInv'
  BY DEF NewInv, New
<1>4. WriterInv'
  BY DEF WriterInv, Writes
<1>5. FlagInv'
  BY DEF FlagInv, Works
<1>6. OrderInv'
  <2>1. \A s \in Sessions : Popping(s)' = 0
    BY DEF Popping
  <2> QED BY <2>1, EmptyFacts DEF OrderInv, OrderOf
<1>7. DepartureNoticed'
  BY DEF DepartureNoticed
<1> QED BY <1>1, <1>2, <1>3, <1>4, <1>5, <1>6, <1>7

(* The state in which the process starts. *)
LEMMA InitEstablishes == Init => IInv
<1> SUFFICES ASSUME Init PROVE IInv
  OBVIOUS
<1> USE HubAssumption DEF Init, NoFrame, Garbage
<1>1. TypeOK
  BY EmptyFacts DEF TypeOK, Frame
<1>2. Places /\ NewInv /\ DepartureNoticed
  BY DEF Places, NewInv, New, DepartureNoticed
<1>3. WriterInv /\ FlagInv
  BY DEF WriterInv, Writes, FlagInv, Works
<1>4. OrderInv
  BY EmptyFacts DEF OrderInv, OrderOf
<1> QED BY <1>1, <1>2, <1>3, <1>4 DEF IInv

(* A step that changes nothing. *)
LEMMA StutterPreserves ==
  ASSUME IInv, UNCHANGED vars
  PROVE  IInv'
<1> USE DEF vars, client, output, hub, worker, local, IInv
<1>1. TypeOK' /\ Places'
  BY DEF TypeOK, Places
<1>2. NewInv' /\ DepartureNoticed'
  BY DEF NewInv, New, DepartureNoticed
<1>3. WriterInv' /\ FlagInv'
  BY DEF WriterInv, Writes, FlagInv, Works
<1>4. OrderInv'
  <2>1. \A r \in Sessions : Out(r)' = Out(r)
    BY DEF Out, Popping
  <2> QED BY <2>1 DEF OrderInv, OrderOf
<1> QED BY <1>1, <1>2, <1>3, <1>4

(* Every step. *)
LEMMA StepsPreserve ==
  ASSUME IInv, [Next]_vars
  PROVE  IInv'
<1>1. ASSUME NEW t \in Threads, Handler(t) PROVE IInv'
  BY <1>1, RegisterPreserves, DoReadPreserves, UnregisterPreserves,
     PopPreserves, RestPreserves, CopyFrontPreserves, StartWritePreserves
     DEF Handler
<1>2. ASSUME NEW t \in Threads, NEW s \in Sessions, Completion(t, s) \/ Upgrade(t, s)
      PROVE IInv'
  BY <1>2, UpgradePreserves, AcceptedPreserves, AcceptFailsPreserves,
     ReadFailsPreserves, WrittenPreserves, WriteFailsPreserves
     DEF Completion
<1>3. ASSUME NEW s \in Sessions, AskAgain(s) \/ Depart(s) PROVE IInv'
  BY <1>3, AskAgainPreserves, DepartPreserves
<1>4. CASE Broadcast
  BY <1>4, BroadcastPreserves
<1>5. CASE Casting
  BY <1>5, PushPreserves, RelockPreserves, WedgePreserves, EndBroadcastPreserves
     DEF Casting
<1>6. CASE Restart
  BY <1>6, RestartPreserves
<1>7. CASE UNCHANGED vars
  BY <1>7, StutterPreserves
<1> QED BY <1>1, <1>2, <1>3, <1>4, <1>5, <1>6, <1>7 DEF Next

(* Every reachable state. *)
THEOREM Invariance == Spec => []IInv
<1>1. Init => IInv
  BY InitEstablishes
<1>2. IInv /\ [Next]_vars => IInv'
  BY StepsPreserve
<1> QED BY <1>1, <1>2, PTL DEF Spec

-----------------------------------------------------------------------------
(* The properties. *)

(* The variables of the hub and of every session keep their types, however *)
(* many threads and clients there are.                                     *)
THEOREM TypeCorrect == Spec => []TypeOK
<1>1. IInv => TypeOK
  BY DEF IInv
<1> QED BY <1>1, Invariance, PTL

(* No session ever has two writers: neither two threads between onWrite    *)
(* and async_write, nor one beside a pending write or beside sendFrame.    *)
THEOREM SessionsHaveOneWriter == Spec => []OneWriter
<1>1. IInv => OneWriter
  <2> SUFFICES ASSUME IInv, NEW s \in Sessions
               PROVE  /\ \A t, u \in WriterThreads(s) : t = u
                      /\ writing[s] # NoFrame => WriterThreads(s) = {} /\ at # s
                      /\ at = s => WriterThreads(s) = {}
    BY DEF OneWriter
  <2>1. \A t \in Threads : t \in WriterThreads(s) <=> Writes(t, s)
    BY DEF WriterThreads, Writes
  <2>2. WriterThreads(s) \subseteq Threads
    BY DEF WriterThreads
  <2> QED BY <2>1, <2>2 DEF IInv, WriterInv
<1> QED BY <1>1, Invariance, PTL

(* A frame in the queue of a registered session is never left there with   *)
(* nobody to write it.                                                     *)
THEOREM QueuedFramesHaveAWriter == Spec => []NoFrameStranded
<1>1. IInv => NoFrameStranded
  <2> SUFFICES ASSUME IInv, NEW s \in sessions, queue[s] # <<>>
               PROVE  \/ writing[s] # NoFrame \/ WriterThreads(s) # {} \/ at = s
                      \/ \E t \in Threads : mine[t] = s /\ pc[t] = "unregister"
    BY DEF NoFrameStranded
  <2>1. s \in Sessions
    BY DEF IInv, TypeOK
  <2>2. writing[s] # NoFrame \/ at = s \/ \E t \in Threads : Works(t, s)
    BY <2>1 DEF IInv, FlagInv
  <2> QED BY <2>2 DEF Works, WriterThreads
<1> QED BY <1>1, Invariance, PTL

(* Every client is sent the frames broadcast since it joined, in order,    *)
(* none twice and none left out.                                           *)
THEOREM FramesInOrder == Spec => []InOrder
<1>1. IInv => InOrder
  <2> SUFFICES ASSUME IInv, NEW s \in Sessions
               PROVE  /\ \A i \in 1 .. Len(sent[s]) : sent[s][i] \in {joined[s] + i, Garbage}
                      /\ s \in sessions =>
                           joined[s] + Len(sent[s]) + Len(queue[s]) - Popping(s)
                             = IF s \in todo /\ at # s THEN frame - 1 ELSE frame
    BY DEF InOrder
  <2>1. OrderOf(s)
    BY DEF IInv, OrderInv
  <2>2. joined[s] + Len(sent[s]) + Len(queue[s]) - Popping(s) = Out(s) + Len(queue[s])
    <3>1. /\ joined[s] \in Nat /\ Len(sent[s]) \in Nat /\ Len(queue[s]) \in Nat
          /\ Popping(s) \in {0, 1}
      BY OutFacts DEF IInv
    <3>2. Out(s) = joined[s] + Len(sent[s]) - Popping(s)
      BY DEF Out
    <3>3. /\ joined[s] \in Int /\ Len(sent[s]) \in Int /\ Len(queue[s]) \in Int
          /\ Popping(s) \in Int
      BY <3>1
    <3> QED BY ONLY <3>2, <3>3, Regroup
  <2> QED BY <2>1, <2>2 DEF OrderOf
<1> QED BY <1>1, Invariance, PTL

(* No client stays in the hub unobserved: its session has a read pending,  *)
(* or a thread is about to start one or to unregister it.                  *)
THEOREM DeparturesAreNoticed == Spec => []DepartureNoticed
<1>1. IInv => DepartureNoticed
  BY DEF IInv
<1> QED BY <1>1, Invariance, PTL
=============================================================================
