------------------------ MODULE StreamControlProofs ------------------------
(***************************************************************************)
(* Proofs about StreamControl, for every set of addresses, pool threads    *)
(* and workers, and for either behaviour of the nested publish.  One       *)
(* inductive invariant, IInv, carries all of them: the bus admits one      *)
(* request, so what the relayer's two locks, flag and thread_ say can be   *)
(* told from where that request is.                                        *)
(***************************************************************************)
EXTENDS StreamControl, TLAPS

-----------------------------------------------------------------------------
(* The inductive invariant. *)

BusInv == \A t \in Threads : pc[t] # "idle" <=> bus = t

MutexInv == \A t \in Threads : pc[t] \in {"join", "spawn"} <=> mutex = t

Latest == rows[Len(rows)]

(* The address is in the table; the worker for it has yet to be started. *)
Saving(t) ==
  \/ pc[t] \in {"start", "relock", "spawn"}
  \/ pc[t] \in {"stop", "join"} /\ req[t].op = "save"

LocalInv(t) ==
  /\ pc[t] = "get" => req[t].op = "get"
  /\ pc[t] \in {"clear", "save", "start", "relock", "spawn"} => req[t].op = "save"
  /\ pc[t] \in {"stop", "join"} => req[t].op \in {"save", "stop"}
  /\ pc[t] = "save" \/ Saving(t) => req[t].url \in Urls
  /\ Saving(t) => rows # <<>> /\ Latest = req[t].url
  /\ pc[t] \in {"join", "relock", "spawn"} => ~running
  /\ pc[t] \in {"relock", "spawn"} => thread = NoWorker

Control == \A t \in Threads : LocalInv(t)

(* The flag and thread_ disagree only while a request joins the worker, or *)
(* after the thread could not be created; a std::thread is of a worker     *)
(* that was started for an address.                                        *)
FlagInv ==
  /\ thread # NoWorker => rtspUrl \in Urls /\ worker[thread] # "none"
  /\ ~running => thread = NoWorker \/ \E t \in Threads : pc[t] = "join"
  /\ running /\ thread # NoWorker => Working(thread)

LatestRuns ==
  running /\ rows # <<>> => Latest = rtspUrl \/ \E t \in Threads : Saving(t)

IInv ==
  /\ TypeOK
  /\ BusInv
  /\ MutexInv
  /\ Control
  /\ FlagInv
  /\ OneStream
  /\ LatestRuns
  /\ TruthfulStream

-----------------------------------------------------------------------------
(* Whoever is inside the bus is there alone. *)
LEMMA Alone ==
  ASSUME IInv, NEW t \in Threads, pc[t] # "idle"
  PROVE  \A u \in Threads : u # t => pc[u] = "idle"
BY DEF IInv, BusInv

(* While nobody joins, a fallen flag means that no worker is left. *)
LEMMA NobodyLeft ==
  ASSUME IInv, ~running, \A t \in Threads : pc[t] # "join"
  PROVE  thread = NoWorker /\ \A w \in Workers : worker[w] = "none"
BY StreamAssumption DEF IInv, FlagInv, OneStream

(* No worker is without a std::thread. *)
LEMMA EmptyThread ==
  ASSUME IInv, thread = NoWorker
  PROVE  \A w \in Workers : worker[w] = "none"
BY StreamAssumption DEF IInv, OneStream

(* The table after an INSERT. *)
LEMMA LatestOfAppend ==
  ASSUME rows \in Seq(Urls), NEW u \in Urls, rows' = Append(rows, u)
  PROVE  rows' \in Seq(Urls) /\ rows' # <<>> /\ rows'[Len(rows')] = u
OBVIOUS

(* The table after a DELETE. *)
LEMMA EmptyTable == <<>> \in Seq(Urls)
OBVIOUS

(* The fields of a request. *)
LEMMA Requests ==
  /\ NoRequest \in Request
  /\ \A r \in Request : r.op \in {"get", "save", "stop"} /\ r.url \in Urls \cup {NoUrl}
BY DEF NoRequest, Request

-----------------------------------------------------------------------------
(* The endpoints. *)

(* The bus was free, so nobody else is anywhere in dispatch. *)
LEMMA PublishPreserves ==
  ASSUME IInv, NEW t \in Threads, NEW r \in Request, Publish(t, r)
  PROVE  IInv'
<1>a. /\ pc[t] = "idle" /\ bus = NoThread /\ bus' = t
      /\ req' = [req EXCEPT ![t] = r]
      /\ UNCHANGED <<rows, running, thread, rtspUrl, mutex, worker, source, status>>
  BY DEF Publish, Acquire, relayer, loop
<1>b. PICK l \in {"get", "clear", "stop"} :
        /\ pc' = [pc EXCEPT ![t] = l]
        /\ l = "get" => r.op = "get"
        /\ l = "clear" => r.op = "save"
        /\ l = "stop" => r.op = "stop"
  BY Requests DEF Publish
<1> USE StreamAssumption, BusAssumption, <1>a, <1>b
    DEF IInv
<1>1. TypeOK'
  BY DEF TypeOK, BusTypeOK, Labels
<1>2. BusInv'
  BY DEF TypeOK, BusInv
<1>3. MutexInv'
  BY DEF TypeOK, MutexInv
<1>4. Control'
  BY DEF TypeOK, Control, LocalInv, Saving, Latest
<1>5. FlagInv'
  BY DEF TypeOK, FlagInv, Working, Control, LocalInv
<1>6. OneStream'
  BY DEF TypeOK, OneStream
<1>7. LatestRuns'
  BY DEF TypeOK, LatestRuns, Latest, Saving, Control, LocalInv
<1>8. TruthfulStream'
  BY DEF TypeOK, TruthfulStream, Working
<1> QED BY <1>1, <1>2, <1>3, <1>4, <1>5, <1>6, <1>7, <1>8

(* A GET answers 200 but is neither a save nor a stop. *)
LEMMA GetPreserves ==
  ASSUME IInv, NEW t \in Threads, Get(t)
  PROVE  IInv'
<1> USE StreamAssumption, BusAssumption, Alone
    DEF IInv, Get, Answer, relayer, loop
<1>1. TypeOK'
  BY DEF TypeOK, BusTypeOK, Labels
<1>2. BusInv'
  BY DEF TypeOK, BusInv
<1>3. MutexInv'
  BY DEF TypeOK, MutexInv
<1>4. Control'
  BY DEF TypeOK, Control, LocalInv, Saving, Latest
<1>5. FlagInv'
  BY DEF TypeOK, FlagInv, Working, Control, LocalInv
<1>6. OneStream'
  BY DEF TypeOK, OneStream
<1>7. LatestRuns'
  BY DEF TypeOK, LatestRuns, Latest, Saving, Control, LocalInv
<1>8. TruthfulStream'
  BY Alone DEF TypeOK, TruthfulStream, Working, Control, LocalInv
<1> QED BY <1>1, <1>2, <1>3, <1>4, <1>5, <1>6, <1>7, <1>8

(* An error promises nothing. *)
LEMMA BadRequestPreserves ==
  ASSUME IInv, NEW t \in Threads, BadRequest(t)
  PROVE  IInv'
<1> USE StreamAssumption, BusAssumption, Alone
    DEF IInv, BadRequest, Answer, relayer, loop
<1>1. TypeOK'
  BY DEF TypeOK, BusTypeOK, Labels
<1>2. BusInv'
  BY DEF TypeOK, BusInv
<1>3. MutexInv'
  BY DEF TypeOK, MutexInv
<1>4. Control'
  BY DEF TypeOK, Control, LocalInv, Saving, Latest
<1>5. FlagInv'
  BY DEF TypeOK, FlagInv, Working, Control, LocalInv
<1>6. OneStream'
  BY DEF TypeOK, OneStream
<1>7. LatestRuns'
  BY DEF TypeOK, LatestRuns, Latest, Saving, Control, LocalInv
<1>8. TruthfulStream'
  BY DEF TypeOK, TruthfulStream, Working
<1> QED BY <1>1, <1>2, <1>3, <1>4, <1>5, <1>6, <1>7, <1>8

(* With no row left there is nothing to disagree with the stream. *)
LEMMA ClearPreserves ==
  ASSUME IInv, NEW t \in Threads, Clear(t)
  PROVE  IInv'
<1> USE StreamAssumption, BusAssumption, Alone
    DEF IInv, Clear, Goto, relayer, loop
<1>1. TypeOK'
  <2>1. rows' \in Seq(Urls)
    <3>1. rows' = <<>> \/ rows' = rows
      OBVIOUS
    <3>2. rows \in Seq(Urls)
      BY DEF TypeOK
    <3> QED BY ONLY <3>1, <3>2, EmptyTable
  <2>2. pc' \in [Threads -> Labels]
    BY DEF TypeOK, Labels
  <2> QED BY <2>1, <2>2 DEF TypeOK, BusTypeOK
<1>2. BusInv'
  BY DEF TypeOK, BusInv
<1>3. MutexInv'
  BY DEF TypeOK, MutexInv
<1>4. Control'
  BY Requests DEF TypeOK, Control, LocalInv, Saving, Latest
<1>5. FlagInv'
  BY DEF TypeOK, FlagInv, Working, Control, LocalInv
<1>6. OneStream'
  BY DEF TypeOK, OneStream
<1>7. LatestRuns'
  BY DEF TypeOK, LatestRuns, Latest, Saving, Control, LocalInv
<1>8. TruthfulStream'
  BY DEF TypeOK, TruthfulStream, Working
<1> QED BY <1>1, <1>2, <1>3, <1>4, <1>5, <1>6, <1>7, <1>8

(* From here to Spawn, the latest row is ahead of the stream. *)
LEMMA SavePreserves ==
  ASSUME IInv, NEW t \in Threads, Save(t)
  PROVE  IInv'
<1> USE StreamAssumption, BusAssumption, Alone
    DEF IInv, Save, Goto, Answer, relayer, loop
<1>1. TypeOK'
  BY LatestOfAppend DEF TypeOK, BusTypeOK, Labels, Control, LocalInv
<1>2. BusInv'
  BY DEF TypeOK, BusInv
<1>3. MutexInv'
  BY DEF TypeOK, MutexInv
<1>4. Control'
  BY DEF TypeOK, Control, LocalInv, Saving, Latest
<1>5. FlagInv'
  BY DEF TypeOK, FlagInv, Working, Control, LocalInv
<1>6. OneStream'
  BY DEF TypeOK, OneStream
<1>7. LatestRuns'
  BY DEF TypeOK, LatestRuns, Latest, Saving, Control, LocalInv
<1>8. TruthfulStream'
  BY DEF TypeOK, TruthfulStream, Working
<1> QED BY <1>1, <1>2, <1>3, <1>4, <1>5, <1>6, <1>7, <1>8

-----------------------------------------------------------------------------
(* StreamRelayer, called by the endpoints. *)

(* With the flag down and nobody joining, no worker is left. *)
LEMMA StartPreserves ==
  ASSUME IInv, NEW t \in Threads, Start(t)
  PROVE  IInv'
<1> USE StreamAssumption, BusAssumption, Alone
    DEF IInv, Start, Lock, Goto, relayer, loop
<1>1. TypeOK'
  BY DEF TypeOK, BusTypeOK, Labels
<1>2. BusInv'
  BY DEF TypeOK, BusInv
<1>3. MutexInv'
  BY DEF TypeOK, MutexInv
<1>4. Control'
  BY NobodyLeft DEF TypeOK, Control, LocalInv, Saving, Latest
<1>5. FlagInv'
  BY DEF TypeOK, FlagInv, Working, Control, LocalInv
<1>6. OneStream'
  BY DEF TypeOK, OneStream
<1>7. LatestRuns'
  BY DEF TypeOK, LatestRuns, Latest, Saving, Control, LocalInv
<1>8. TruthfulStream'
  BY DEF TypeOK, TruthfulStream, Working
<1> QED BY <1>1, <1>2, <1>3, <1>4, <1>5, <1>6, <1>7, <1>8

(* stop() left no worker, and nobody else could start one. *)
LEMMA RelockPreserves ==
  ASSUME IInv, NEW t \in Threads, Relock(t)
  PROVE  IInv'
<1> USE StreamAssumption, BusAssumption, Alone
    DEF IInv, Relock, Lock, Goto, relayer, loop
<1>1. TypeOK'
  BY DEF TypeOK, BusTypeOK, Labels
<1>2. BusInv'
  BY DEF TypeOK, BusInv
<1>3. MutexInv'
  BY DEF TypeOK, MutexInv
<1>4. Control'
  BY DEF TypeOK, Control, LocalInv, Saving, Latest
<1>5. FlagInv'
  BY DEF TypeOK, FlagInv, Working, Control, LocalInv
<1>6. OneStream'
  BY DEF TypeOK, OneStream
<1>7. LatestRuns'
  BY DEF TypeOK, LatestRuns, Latest, Saving, Control, LocalInv
<1>8. TruthfulStream'
  BY DEF TypeOK, TruthfulStream, Working
<1> QED BY <1>1, <1>2, <1>3, <1>4, <1>5, <1>6, <1>7, <1>8

(* The new worker is the only one; the table and the stream agree again. *)
LEMMA SpawnPreserves ==
  ASSUME IInv, NEW t \in Threads, Spawn(t)
  PROVE  IInv'
<1> USE StreamAssumption, BusAssumption, Alone
    DEF IInv, Spawn, Unlock, Answer, Idle, relayer, loop
<1>1. TypeOK'
  <2>1. /\ pc' \in [Threads -> Labels]
        /\ status' \in [Threads -> {200, 400, 500}]
    BY DEF TypeOK, Labels
  <2>2. /\ rtspUrl' \in Urls \cup {NoUrl}
        /\ mutex' \in Threads \cup {NoThread}
        /\ running' \in BOOLEAN
    BY Requests DEF TypeOK
  <2>3. /\ thread' \in Workers \cup {NoWorker}
        /\ worker' \in [Workers -> {"none", "loop", "open", "relay", "sleep", "exited"}]
    BY DEF TypeOK
  <2> QED BY <2>1, <2>2, <2>3 DEF TypeOK, BusTypeOK
<1>2. BusInv'
  BY DEF TypeOK, BusInv
<1>3. MutexInv'
  BY DEF TypeOK, MutexInv
<1>4. Control'
  BY DEF TypeOK, Control, LocalInv, Saving, Latest
<1>5. FlagInv'
  <2>1. rtspUrl' \in Urls
    BY DEF Control, LocalInv, Saving
  <2>2. running' /\ (thread' # NoWorker => worker'[thread'] = "loop")
    BY DEF TypeOK, Control, LocalInv
  <2> QED BY <2>1, <2>2 DEF FlagInv, Working
<1>6. OneStream'
  BY EmptyThread DEF TypeOK, OneStream, Control, LocalInv
<1>7. LatestRuns'
  BY DEF TypeOK, LatestRuns, Latest, Saving, Control, LocalInv
<1>8. TruthfulStream'
  BY Alone DEF TypeOK, TruthfulStream, Working, Control, LocalInv, Saving, Latest
<1> QED BY <1>1, <1>2, <1>3, <1>4, <1>5, <1>6, <1>7, <1>8

(* The flag falls; if it was down, no worker is left to stop. *)
LEMMA StopPreserves ==
  ASSUME IInv, NEW t \in Threads, Stop(t)
  PROVE  IInv'
<1> USE StreamAssumption, BusAssumption, Alone
    DEF IInv, Stop, Lock, Goto, Return, Answer, relayer, loop
<1>1. TypeOK'
  <2>1. /\ pc' \in [Threads -> Labels]
        /\ status' \in [Threads -> {200, 400, 500}]
    BY DEF TypeOK, Labels
  <2>2. running' \in BOOLEAN /\ mutex' \in Threads \cup {NoThread}
    <3>1. running' \in {running, FALSE} /\ mutex' \in {mutex, t}
      OBVIOUS
    <3>2. running \in BOOLEAN /\ mutex \in Threads \cup {NoThread}
      BY DEF TypeOK
    <3> QED BY ONLY <3>1, <3>2, t \in Threads
  <2> QED BY <2>1, <2>2 DEF TypeOK, BusTypeOK
<1>2. BusInv'
  BY DEF TypeOK, BusInv
<1>3. MutexInv'
  BY DEF TypeOK, MutexInv
<1>4. Control'
  BY NobodyLeft DEF TypeOK, Control, LocalInv, Saving, Latest
<1>5. FlagInv'
  BY DEF TypeOK, FlagInv, Working, Control, LocalInv
<1>6. OneStream'
  BY DEF TypeOK, OneStream
<1>7. LatestRuns'
  BY DEF TypeOK, LatestRuns, Latest, Saving, Control, LocalInv
<1>8. TruthfulStream'
  BY NobodyLeft DEF TypeOK, TruthfulStream, Working
<1> QED BY <1>1, <1>2, <1>3, <1>4, <1>5, <1>6, <1>7, <1>8

(* The last worker is gone. *)
LEMMA JoinPreserves ==
  ASSUME IInv, NEW t \in Threads, Join(t)
  PROVE  IInv'
<1> USE StreamAssumption, BusAssumption, Alone
    DEF IInv, Join, Unlock, Goto, Return, Answer, relayer, loop
<1>1. TypeOK'
  BY DEF TypeOK, BusTypeOK, Labels
<1>2. BusInv'
  BY DEF TypeOK, BusInv
<1>3. MutexInv'
  BY DEF TypeOK, MutexInv
<1>4. Control'
  BY DEF TypeOK, Control, LocalInv, Saving, Latest
<1>5. FlagInv'
  BY DEF TypeOK, FlagInv, Working, Control, LocalInv
<1>6. OneStream'
  BY DEF TypeOK, OneStream
<1>7. LatestRuns'
  BY DEF TypeOK, LatestRuns, Latest, Saving, Control, LocalInv
<1>8. TruthfulStream'
  BY  DEF TypeOK, TruthfulStream, Working, Control, LocalInv, OneStream
<1> QED BY <1>1, <1>2, <1>3, <1>4, <1>5, <1>6, <1>7, <1>8

-----------------------------------------------------------------------------
(* The nested publish of the response. *)

(* The bus is free again. *)
LEMMA ReplyPreserves ==
  ASSUME IInv, NEW t \in Threads, Reply(t)
  PROVE  IInv'
<1> USE StreamAssumption, BusAssumption, Alone
    DEF IInv, Reply, Release, relayer, loop
<1>1. TypeOK'
  BY Requests DEF TypeOK, BusTypeOK, Labels
<1>2. BusInv'
  BY DEF TypeOK, BusInv
<1>3. MutexInv'
  BY DEF TypeOK, MutexInv
<1>4. Control'
  BY DEF TypeOK, Control, LocalInv, Saving, Latest
<1>5. FlagInv'
  BY DEF TypeOK, FlagInv, Working, Control, LocalInv
<1>6. OneStream'
  BY DEF TypeOK, OneStream
<1>7. LatestRuns'
  BY DEF TypeOK, LatestRuns, Latest, Saving, Control, LocalInv
<1>8. TruthfulStream'
  BY DEF TypeOK, TruthfulStream, Working
<1> QED BY <1>1, <1>2, <1>3, <1>4, <1>5, <1>6, <1>7, <1>8

(* The bus stays held for ever, what was true stays true. *)
LEMMA ReplyWedgedPreserves ==
  ASSUME IInv, NEW t \in Threads, ReplyWedged(t)
  PROVE  IInv'
<1> USE StreamAssumption, BusAssumption, Alone
    DEF IInv, ReplyWedged, Wedge, Goto, relayer, loop
<1>1. TypeOK'
  BY DEF TypeOK, BusTypeOK, Labels
<1>2. BusInv'
  BY DEF TypeOK, BusInv
<1>3. MutexInv'
  BY DEF TypeOK, MutexInv
<1>4. Control'
  BY DEF TypeOK, Control, LocalInv, Saving, Latest
<1>5. FlagInv'
  BY DEF TypeOK, FlagInv, Working, Control, LocalInv
<1>6. OneStream'
  BY DEF TypeOK, OneStream
<1>7. LatestRuns'
  BY DEF TypeOK, LatestRuns, Latest, Saving, Control, LocalInv
<1>8. TruthfulStream'
  BY DEF TypeOK, TruthfulStream, Working
<1> QED BY <1>1, <1>2, <1>3, <1>4, <1>5, <1>6, <1>7, <1>8

-----------------------------------------------------------------------------
(* The worker. *)

(* A worker leaves only when the flag is down. *)
LEMMA LoopTestPreserves ==
  ASSUME IInv, NEW w \in Workers, LoopTest(w)
  PROVE  IInv'
<1> USE StreamAssumption, BusAssumption
    DEF IInv, LoopTest, WorkerGoes, relayer, local
<1>1. TypeOK'
  BY DEF TypeOK, BusTypeOK, Labels
<1>2. BusInv'
  BY DEF BusInv
<1>3. MutexInv'
  BY DEF MutexInv
<1>4. Control'
  BY DEF Control, LocalInv, Saving, Latest
<1>5. FlagInv'
  BY DEF TypeOK, FlagInv, Working, Control, LocalInv
<1>6. OneStream'
  BY DEF TypeOK, OneStream
<1>7. LatestRuns'
  BY DEF LatestRuns, Latest, Saving
<1>8. TruthfulStream'
  BY DEF TypeOK, TruthfulStream, Working
<1> QED BY <1>1, <1>2, <1>3, <1>4, <1>5, <1>6, <1>7, <1>8

(* It opens the address of the last start, which nobody can be changing. *)
LEMMA OpenPreserves ==
  ASSUME IInv, NEW w \in Workers, Open(w)
  PROVE  IInv'
<1> USE StreamAssumption, BusAssumption
    DEF IInv, Open, WorkerGoes, relayer, local
<1>1. TypeOK'
  <2>1. worker' \in [Workers -> {"none", "loop", "open", "relay", "sleep", "exited"}]
    BY DEF TypeOK
  <2>2. source' \in [Workers -> Urls \cup {NoUrl}]
    BY DEF TypeOK
  <2> QED BY <2>1, <2>2 DEF TypeOK, BusTypeOK
<1>2. BusInv'
  BY DEF BusInv
<1>3. MutexInv'
  BY DEF MutexInv
<1>4. Control'
  BY DEF Control, LocalInv, Saving, Latest
<1>5. FlagInv'
  BY DEF TypeOK, FlagInv, Working, Control, LocalInv
<1>6. OneStream'
  BY DEF TypeOK, OneStream
<1>7. LatestRuns'
  BY DEF LatestRuns, Latest, Saving
<1>8. TruthfulStream'
  BY DEF TypeOK, TruthfulStream, Working
<1> QED BY <1>1, <1>2, <1>3, <1>4, <1>5, <1>6, <1>7, <1>8

(* It relays nothing any more. *)
LEMMA CloseCameraPreserves ==
  ASSUME IInv, NEW w \in Workers, CameraLost(w) \/ RelayEnds(w)
  PROVE  IInv'
<1> USE StreamAssumption, BusAssumption
    DEF IInv, CameraLost, RelayEnds, CloseCamera, WorkerGoes, relayer, local
<1>1. TypeOK'
  BY DEF TypeOK, BusTypeOK, Labels
<1>2. BusInv'
  BY DEF BusInv
<1>3. MutexInv'
  BY DEF MutexInv
<1>4. Control'
  BY DEF Control, LocalInv, Saving, Latest
<1>5. FlagInv'
  BY DEF TypeOK, FlagInv, Working, Control, LocalInv
<1>6. OneStream'
  BY DEF TypeOK, OneStream
<1>7. LatestRuns'
  BY DEF LatestRuns, Latest, Saving
<1>8. TruthfulStream'
  BY DEF TypeOK, TruthfulStream, Working
<1> QED BY <1>1, <1>2, <1>3, <1>4, <1>5, <1>6, <1>7, <1>8

(* It goes back to the test of the flag. *)
LEMMA AwakePreserves ==
  ASSUME IInv, NEW w \in Workers, Awake(w)
  PROVE  IInv'
<1> USE StreamAssumption, BusAssumption
    DEF IInv, Awake, WorkerGoes, relayer, local
<1>1. TypeOK'
  BY DEF TypeOK, BusTypeOK, Labels
<1>2. BusInv'
  BY DEF BusInv
<1>3. MutexInv'
  BY DEF MutexInv
<1>4. Control'
  BY DEF Control, LocalInv, Saving, Latest
<1>5. FlagInv'
  BY DEF TypeOK, FlagInv, Working, Control, LocalInv
<1>6. OneStream'
  BY DEF TypeOK, OneStream
<1>7. LatestRuns'
  BY DEF LatestRuns, Latest, Saving
<1>8. TruthfulStream'
  BY DEF TypeOK, TruthfulStream, Working
<1> QED BY <1>1, <1>2, <1>3, <1>4, <1>5, <1>6, <1>7, <1>8

-----------------------------------------------------------------------------
(* The process. *)

(* Only the table survives; no stream runs that could disagree with it. *)
LEMMA RestartPreserves ==
  ASSUME IInv, Restart
  PROVE  IInv'
<1> USE StreamAssumption, BusAssumption, Requests
    DEF IInv, Restart
<1>1. TypeOK'
  <2>1. req' \in [Threads -> Request]
    <3>1. req' = [t \in Threads |-> NoRequest]
      OBVIOUS
    <3> QED BY ONLY <3>1, Requests
  <2>2. /\ pc' \in [Threads -> Labels]
        /\ status' \in [Threads -> {200, 400, 500}]
    BY ONLY Restart DEF Restart, Labels
  <2>3. /\ worker' \in [Workers -> {"none", "loop", "open", "relay", "sleep", "exited"}]
        /\ source' \in [Workers -> Urls \cup {NoUrl}]
    BY ONLY Restart DEF Restart
  <2> QED BY <2>1, <2>2, <2>3 DEF TypeOK, BusTypeOK
<1>2. BusInv'
  BY DEF TypeOK, BusInv
<1>3. MutexInv'
  BY DEF TypeOK, MutexInv
<1>4. Control'
  BY DEF TypeOK, Control, LocalInv, Saving, Latest
<1>5. FlagInv'
  BY DEF TypeOK, FlagInv, Working, Control, LocalInv
<1>6. OneStream'
  BY DEF TypeOK, OneStream
<1>7. LatestRuns'
  BY DEF TypeOK, LatestRuns, Latest, Saving, Control, LocalInv
<1>8. TruthfulStream'
  BY DEF TypeOK, TruthfulStream, Working
<1> QED BY <1>1, <1>2, <1>3, <1>4, <1>5, <1>6, <1>7, <1>8

(* Nothing happens. *)
LEMMA StutterPreserves ==
  ASSUME IInv, UNCHANGED vars
  PROVE  IInv'
<1> USE StreamAssumption, BusAssumption
    DEF IInv, vars, relayer, loop, local
<1>1. TypeOK'
  BY DEF TypeOK, BusTypeOK, Labels
<1>2. BusInv'
  BY DEF TypeOK, BusInv
<1>3. MutexInv'
  BY DEF TypeOK, MutexInv
<1>4. Control'
  BY DEF Control, LocalInv, Saving, Latest
<1>5. FlagInv'
  BY DEF TypeOK, FlagInv, Working, Control, LocalInv
<1>6. OneStream'
  BY DEF TypeOK, OneStream
<1>7. LatestRuns'
  BY DEF LatestRuns, Latest, Saving
<1>8. TruthfulStream'
  BY DEF TypeOK, TruthfulStream, Working
<1> QED BY <1>1, <1>2, <1>3, <1>4, <1>5, <1>6, <1>7, <1>8

-----------------------------------------------------------------------------
(* The theorems. *)

(* The process has just been started, over an empty table. *)
LEMMA InitEstablishes == Init => IInv
<1> SUFFICES ASSUME Init PROVE IInv
  OBVIOUS
<1> USE StreamAssumption, BusAssumption DEF Init, Fresh, BusInit
<1>1. TypeOK
  BY Requests, EmptyTable DEF TypeOK, BusTypeOK, Labels
<1>2. BusInv /\ MutexInv
  BY DEF BusInv, MutexInv
<1>3. Control /\ FlagInv /\ LatestRuns
  BY DEF Control, LocalInv, Saving, FlagInv, LatestRuns
<1>4. OneStream /\ TruthfulStream
  BY DEF OneStream, TruthfulStream
<1> QED BY <1>1, <1>2, <1>3, <1>4 DEF IInv

(* One lemma per action. *)
LEMMA StepsPreserve == IInv /\ [Next]_vars => IInv'
<1> SUFFICES ASSUME IInv, [Next]_vars PROVE IInv'
  OBVIOUS
<1>1. ASSUME NEW t \in Threads, Step(t) PROVE IInv'
  BY <1>1, GetPreserves, BadRequestPreserves, ClearPreserves, SavePreserves,
     StartPreserves, RelockPreserves, SpawnPreserves, StopPreserves,
     JoinPreserves, ReplyPreserves, ReplyWedgedPreserves DEF Step
<1>2. ASSUME NEW w \in Workers, RunLoop(w) \/ CameraLost(w) PROVE IInv'
  BY <1>2, LoopTestPreserves, OpenPreserves, CloseCameraPreserves,
     AwakePreserves DEF RunLoop
<1> QED
  BY <1>1, <1>2, PublishPreserves, RestartPreserves, StutterPreserves DEF Next

(* The invariant is inductive. *)
LEMMA Invariance == Spec => []IInv
BY InitEstablishes, StepsPreserve, PTL DEF Spec

(* The variables of the camera endpoints and of the relayer keep their     *)
(* types: dispatch (ReplyHandlers.cpp:295-340) and StreamRelayer.          *)
THEOREM TypeCorrect == Spec => []TypeOK
BY Invariance, PTL DEF IInv

(* start() assigns rtspUrl_ and thread_ (StreamRelayer.cpp) only when no   *)
(* worker is left, whoever called it and whatever failed before.           *)
THEOREM StartIsAlone == Spec => []SpawnIsAlone
<1>1. IInv => SpawnIsAlone
  BY EmptyThread DEF IInv, Control, LocalInv, SpawnIsAlone
<1> QED BY <1>1, Invariance, PTL

(* There is one worker at most, thread_ knows it, and it relays the        *)
(* address of the last start().                                            *)
THEOREM StreamIsOne == Spec => []OneStream
BY Invariance, PTL DEF IInv

(* The answers "Stream started" and "Stream stopped" are true.             *)
THEOREM AnswersAreTrue == Spec => []TruthfulStream
BY Invariance, PTL DEF IInv

(* GET /api/rtsp shows the address that is relayed.                        *)
THEOREM TableShowsStream == Spec => []ShowsWhatRuns
<1>1. IInv => ShowsWhatRuns
  BY BusAssumption DEF IInv, BusInv, LatestRuns, Latest, Saving, ShowsWhatRuns
<1> QED BY <1>1, Invariance, PTL


-----------------------------------------------------------------------------
(* Why stop() returns.  That the worker is scheduled is left to the runs;  *)
(* here is what each of its steps does for the request that waits.         *)

(* No request waits for the relayer's mutex, which only a request inside   *)
(* the bus can have; what a join waits for has returned or is on its way:  *)
(* the flag is down, and the worker asks for no lock.                      *)
WaitsForWorkerOnly ==
  \A t \in Threads :
    /\ pc[t] \in {"start", "stop", "relock"} => mutex = NoThread
    /\ pc[t] \in {"spawn", "join"} => mutex = t
    /\ pc[t] = "join" /\ thread # NoWorker =>
         ~running /\ worker[thread] # "none"

(* The steps of a worker whose flag is down, until it returns. *)
Distance(place) == CASE place = "open"  -> 4
                     [] place = "relay" -> 3
                     [] place = "sleep" -> 2
                     [] place = "loop"  -> 1
                     [] OTHER           -> 0

(* While a request joins it, whatever a worker does takes it nearer to its *)
(* end, and nobody starts another or raises the flag.                      *)
StopApproaches ==
  \A t \in Threads : pc[t] = "join" /\ pc'[t] = "join" =>
    /\ UNCHANGED <<running, thread, rtspUrl, rows>>
    /\ worker' # worker =>
         /\ thread # NoWorker
         /\ Distance(worker'[thread]) < Distance(worker[thread])

(* Neither of the two locks a stop() holds, nor any other, is waited for   *)
(* by whom it waits for: the one thing that a camera request may have to   *)
(* wait for is a worker whose flag has fallen.                             *)
THEOREM OnlyWorkersAreWaitedFor == Spec => []WaitsForWorkerOnly
<1>1. IInv => WaitsForWorkerOnly
  <2> SUFFICES ASSUME IInv, NEW t \in Threads
               PROVE  /\ pc[t] \in {"start", "stop", "relock"} => mutex = NoThread
                      /\ pc[t] \in {"spawn", "join"} => mutex = t
                      /\ pc[t] = "join" /\ thread # NoWorker =>
                           ~running /\ worker[thread] # "none"
    BY DEF WaitsForWorkerOnly
  <2>1. pc[t] \in {"spawn", "join"} => mutex = t
    BY DEF IInv, MutexInv
  <2>2. ASSUME pc[t] \in {"start", "stop", "relock"} PROVE mutex = NoThread
    <3>1. mutex # t
      BY <2>2 DEF IInv, MutexInv
    <3>2. \A u \in Threads : u # t => mutex # u
      BY <2>2, Alone DEF IInv, MutexInv
    <3> QED BY <3>1, <3>2 DEF IInv, TypeOK
  <2>3. pc[t] = "join" => ~running
    BY DEF IInv, Control, LocalInv
  <2>4. thread # NoWorker => worker[thread] # "none"
    BY DEF IInv, FlagInv
  <2> QED BY <2>1, <2>2, <2>3, <2>4
<1> QED BY <1>1, Invariance, PTL

(* A step of a worker whose flag is down. *)
LEMMA WorkerApproaches ==
  ASSUME IInv, ~running, NEW w \in Workers, RunLoop(w) \/ CameraLost(w)
  PROVE  /\ w = thread /\ UNCHANGED <<running, thread, rtspUrl, rows>>
         /\ Distance(worker'[w]) < Distance(worker[w])
<1>1. /\ worker[w] # "none"
      /\ UNCHANGED <<running, thread, rtspUrl, rows>>
      /\ \/ worker[w] = "loop" /\ worker' = [worker EXCEPT ![w] = "exited"]
         \/ /\ worker[w] = "open"
            /\ \E to \in {"relay", "sleep"} : worker' = [worker EXCEPT ![w] = to]
         \/ worker[w] = "relay" /\ worker' = [worker EXCEPT ![w] = "sleep"]
         \/ worker[w] = "sleep" /\ worker' = [worker EXCEPT ![w] = "loop"]
  BY DEF RunLoop, LoopTest, Open, RelayEnds, CameraLost, CloseCamera, Awake,
         WorkerGoes, relayer
<1>2. w = thread
  BY <1>1 DEF IInv, OneStream
<1>3. \/ worker[w] = "loop" /\ worker'[w] = "exited"
      \/ worker[w] = "open" /\ worker'[w] \in {"relay", "sleep"}
      \/ worker[w] = "relay" /\ worker'[w] = "sleep"
      \/ worker[w] = "sleep" /\ worker'[w] = "loop"
  BY <1>1 DEF IInv, TypeOK
<1>4. Distance(worker'[w]) < Distance(worker[w])
  BY <1>3 DEF Distance
<1> QED BY <1>1, <1>2, <1>4

(* Each step of the worker shortens the wait of the request that joins it, *)
(* whether the camera opens, fails or is lost on the way; with the         *)
(* scheduling that FairSpec assumes, this is why stop() returns.           *)
THEOREM StopWaitsForFewSteps == Spec => [][StopApproaches]_vars
<1>1. ASSUME IInv, [Next]_vars, NEW t \in Threads, pc[t] = "join", pc'[t] = "join"
      PROVE  /\ UNCHANGED <<running, thread, rtspUrl, rows>>
             /\ worker' # worker =>
                  /\ thread # NoWorker
                  /\ Distance(worker'[thread]) < Distance(worker[thread])
  <2>1. ~running
    BY <1>1 DEF IInv, Control, LocalInv
  <2>2. \A u \in Threads : u # t => pc[u] = "idle"
    BY <1>1, Alone
  <2>3. ASSUME NEW u \in Threads, Step(u) PROVE FALSE
    <3>1. CASE u # t
      BY <2>2, <2>3, <3>1 DEF Step, Get, BadRequest, Clear, Save, Start, Relock,
                              Spawn, Stop, Join, Reply, ReplyWedged
    <3>2. CASE u = t
      <4>1. Join(t)
        BY <1>1, <2>3, <3>2 DEF Step, Get, BadRequest, Clear, Save, Start, Relock,
                                Spawn, Stop, Reply, ReplyWedged
      <4>2. pc'[t] \in {"reply", "relock"}
        BY <1>1, <4>1 DEF Join, Return, Answer, Goto, IInv, TypeOK
      <4> QED BY <1>1, <4>2
    <3> QED BY <3>1, <3>2
  <2>4. ASSUME NEW u \in Threads, NEW r \in Request, Publish(u, r) PROVE FALSE
    <3>1. bus = t
      BY <1>1 DEF IInv, BusInv
    <3> QED BY <2>4, <3>1, BusAssumption DEF Publish, Acquire
  <2>5. ~Restart
    BY <1>1 DEF Restart
  <2>6. ASSUME NEW w \in Workers, RunLoop(w) \/ CameraLost(w)
        PROVE  /\ thread # NoWorker /\ UNCHANGED <<running, thread, rtspUrl, rows>>
               /\ Distance(worker'[thread]) < Distance(worker[thread])
    <3>1. /\ w = thread /\ UNCHANGED <<running, thread, rtspUrl, rows>>
          /\ Distance(worker'[w]) < Distance(worker[w])
      BY <1>1, <2>1, <2>6, WorkerApproaches
    <3> QED BY <3>1, StreamAssumption
  <2>7. CASE UNCHANGED vars
    BY <2>7 DEF vars, relayer, loop
  <2> QED BY <1>1, <2>3, <2>4, <2>5, <2>6, <2>7 DEF Next
<1>2. IInv /\ [Next]_vars => StopApproaches
  BY <1>1 DEF StopApproaches
<1> QED BY <1>2, Invariance, PTL DEF Spec
-----------------------------------------------------------------------------
(* The refinement of CameraService: every step of the program is one step  *)
(* of the service, or none.                                                *)

Serves == [Camera!Next]_<<Camera!camera, Camera!talk>>

(* What clients see of a thread that moves on. *)
LEMMA StageMoves ==
  ASSUME pc \in [Threads -> Labels], NEW t \in Threads, NEW l \in Labels,
         pc' = [pc EXCEPT ![t] = l]
  PROVE  /\ Stage' = [Stage EXCEPT ![t] = Phase(l)]
         /\ Phase(l) = Phase(pc[t]) => Stage' = Stage
BY DEF Stage

(* The stages of the labels. *)
LEMMA Phases ==
  /\ Phase("idle") = "idle"
  /\ Phase("reply") = "answered" /\ Phase("wedged") = "answered"
  /\ \A l \in Labels \ {"idle", "reply", "wedged"} : Phase(l) = "served"
BY DEF Phase, Labels

(* The camera is open for the last start() or not at all. *)
LEMMA AiringNow ==
  ASSUME IInv
  PROVE  Airing = IF thread # NoWorker /\ worker[thread] = "relay"
                  THEN {rtspUrl} ELSE {}
BY StreamAssumption DEF IInv, TypeOK, OneStream, Airing

(* A step that leaves the relayer and the table alone. *)
LEMMA SameCamera ==
  ASSUME UNCHANGED <<rows, relayer, loop>>
  PROVE  UNCHANGED Camera!camera
BY DEF relayer, loop, Camera!camera, Saved, Stream, Airing

(* A thread that is past idle and has not answered is being served. *)
LEMMA Served ==
  ASSUME IInv, NEW t \in Threads, pc[t] \notin {"idle", "reply", "wedged"}
  PROVE  Stage[t] = "served"
BY Phases DEF IInv, TypeOK, Stage

(* A label is changed for another of the same stage, nothing else is. *)
LEMMA Silent ==
  ASSUME IInv, NEW t \in Threads, NEW l \in Labels, Goto(t, l),
         Phase(l) = Phase(pc[t]), UNCHANGED Camera!camera
  PROVE  Serves
BY StageMoves DEF IInv, TypeOK, Goto, Serves, Camera!talk

(* An answer, while the camera and the table stay. *)
LEMMA Answers ==
  ASSUME IInv, NEW t \in Threads, NEW k, Answer(t, k)
  PROVE  Camera!Answer(t, k)
<1>1. pc \in [Threads -> Labels] /\ "reply" \in Labels
  BY DEF IInv, TypeOK, Labels
<1>2. Stage' = [Stage EXCEPT ![t] = Phase("reply")]
  BY <1>1, StageMoves DEF Answer
<1> QED BY <1>2, Phases DEF Answer, Camera!Answer

LEMMA PublishServes ==
  ASSUME IInv, NEW t \in Threads, NEW r \in Request, Publish(t, r)
  PROVE  Serves
<1>1. \A d \in Threads : Stage[d] = "idle"
  BY Phases, BusAssumption DEF IInv, BusInv, Publish, Acquire, Stage
<1>2. PICK l \in {"get", "clear", "stop"} : pc' = [pc EXCEPT ![t] = l]
  BY Requests DEF Publish
<1>3. Stage' = [Stage EXCEPT ![t] = "served"]
  <2>1. pc \in [Threads -> Labels] /\ l \in Labels \ {"idle", "reply", "wedged"}
    BY DEF IInv, TypeOK, Labels
  <2>2. Stage' = [Stage EXCEPT ![t] = Phase(l)]
    BY <1>2, <2>1, StageMoves
  <2> QED BY <2>1, <2>2, Phases
<1>4. UNCHANGED Camera!camera
  BY SameCamera DEF Publish
<1>5. Camera!Ask(t, r)
  BY <1>1, <1>3, <1>4 DEF Publish, Camera!Ask
<1>6. r \in Camera!Request
  BY DEF Request, Camera!Request
<1> QED BY <1>5, <1>6 DEF Serves, Camera!Next

LEMMA GetServes ==
  ASSUME IInv, NEW t \in Threads, Get(t)
  PROVE  Serves
<1>1. Stage[t] = "served" /\ req[t].op = "get"
  BY Served DEF Get, IInv, Control, LocalInv
<1>2. Camera!Answer(t, 200) /\ UNCHANGED Camera!camera
  BY Answers, SameCamera DEF Get
<1>3. Camera!Look(t)
  BY <1>1, <1>2 DEF Camera!Look, Camera!Serving
<1> QED BY <1>3 DEF Serves, Camera!Next

(* An answer that says that a save has failed. *)
LEMMA Refused ==
  ASSUME IInv, NEW t \in Threads,
         pc[t] \in {"clear", "save", "spawn"}, UNCHANGED Camera!camera,
         \/ Answer(t, 500)
         \/ req[t].url = NoUrl /\ Answer(t, 400)
  PROVE  Serves
<1>1. Stage[t] = "served" /\ req[t].op = "save"
  BY Served DEF IInv, Control, LocalInv
<1>2. \/ Camera!Answer(t, 500)
      \/ req[t].url = NoUrl /\ Camera!Answer(t, 400)
  BY Answers
<1>3. Camera!Refuse(t)
  BY <1>1, <1>2 DEF Camera!Refuse, Camera!Serving
<1> QED BY <1>3 DEF Serves, Camera!Next

LEMMA BadRequestServes ==
  ASSUME IInv, NEW t \in Threads, BadRequest(t)
  PROVE  Serves
BY Refused, SameCamera DEF BadRequest

(* The request is a save, for an address. *)
LEMMA Saves ==
  ASSUME IInv, NEW t \in Threads,
         \/ pc[t] = "clear" /\ req[t].url # NoUrl
         \/ pc[t] = "save"
         \/ Saving(t)
  PROVE  /\ Camera!Saving(t)
         /\ req[t].url \in Urls
         /\ Saving(t) => Saved = req[t].url
<1>1. Stage[t] = "served" /\ req[t].op = "save"
  BY Served DEF IInv, Control, LocalInv, Saving
<1>2. req[t].url \in Urls
  BY Requests DEF IInv, TypeOK, Control, LocalInv
<1>3. Saving(t) => Saved = req[t].url
  BY DEF IInv, Control, LocalInv, Saving, Saved, Latest
<1> QED BY <1>1, <1>2, <1>3, StreamAssumption DEF Camera!Saving, Camera!Serving

(* The relayer and the client see nothing of a DELETE. *)
LEMMA ClearServes ==
  ASSUME IInv, NEW t \in Threads, Clear(t)
  PROVE  Serves
<1>1. UNCHANGED <<Stream, Airing>>
  BY DEF Clear, relayer, loop, Stream, Airing
<1>2. UNCHANGED Camera!talk
  <2>1. pc \in [Threads -> Labels] /\ "save" \in Labels /\ "clear" \in Labels
    BY DEF IInv, TypeOK, Labels
  <2>2. UNCHANGED Stage
    BY <2>1, StageMoves, Phases DEF Clear, Goto
  <2> QED BY <2>2 DEF Clear, Goto, Camera!talk
<1>3. CASE UNCHANGED rows
  BY <1>1, <1>2, <1>3 DEF Serves, Camera!camera, Saved
<1>4. CASE rows' = <<>>
  <2>1. Saved' = NoUrl
    BY <1>4 DEF Saved
  <2>2. Camera!Saving(t)
    <3>1. pc[t] = "clear" /\ req[t].url # NoUrl
      BY DEF Clear
    <3> QED BY <3>1, Saves
  <2>3. Camera!Forget(t)
    BY <1>1, <1>2, <2>1, <2>2 DEF Camera!Forget
  <2> QED BY <2>3 DEF Serves, Camera!Next
<1> QED BY <1>3, <1>4 DEF Clear

LEMMA SaveServes ==
  ASSUME IInv, NEW t \in Threads, Save(t)
  PROVE  Serves
<1>1. CASE UNCHANGED rows /\ Answer(t, 500)
  BY <1>1, Refused, SameCamera DEF Save
<1>2. CASE rows' = Append(rows, req[t].url) /\ Goto(t, "start")
  <2>1. req[t].url \in Urls /\ Camera!Saving(t)
    <3>1. pc[t] = "save"
      BY DEF Save
    <3> QED BY <3>1, Saves
  <2>2. Saved' = req[t].url
    BY <1>2, <2>1, LatestOfAppend DEF IInv, TypeOK, Saved
  <2>3. UNCHANGED <<Stream, Airing>>
    BY DEF Save, relayer, loop, Stream, Airing
  <2>4. UNCHANGED Camera!talk
    <3>1. pc \in [Threads -> Labels] /\ "save" \in Labels /\ "start" \in Labels
      BY DEF IInv, TypeOK, Labels
    <3>2. UNCHANGED Stage
      BY <1>2, <3>1, StageMoves, Phases DEF Save, Goto
    <3> QED BY <1>2, <3>2 DEF Goto, Camera!talk
  <2>5. Camera!Store(t)
    BY <2>1, <2>2, <2>3, <2>4 DEF Camera!Store
  <2> QED BY <2>5 DEF Serves, Camera!Next
<1> QED BY <1>1, <1>2 DEF Save

(* A step that only changes the place of the thread, the flag, the mutex   *)
(* and the bus.                                                            *)
LEMMA InnerStep ==
  ASSUME IInv, NEW t \in Threads, NEW l \in Labels, Goto(t, l),
         Phase(l) = Phase(pc[t]),
         UNCHANGED <<rows, thread, rtspUrl, loop>>
  PROVE  Serves
BY Silent DEF loop, Camera!camera, Saved, Stream, Airing

LEMMA StartServes ==
  ASSUME IInv, NEW t \in Threads, Start(t) \/ Relock(t)
  PROVE  Serves
<1>1. PICK l \in {"stop", "spawn"} : Goto(t, l)
  BY DEF Start, Relock
<1>2. l \in Labels /\ Phase(l) = Phase(pc[t])
  <2>1. /\ {l, "start", "relock"} \subseteq Labels \ {"idle", "reply", "wedged"}
        /\ pc[t] \in {"start", "relock"}
    BY DEF Start, Relock, Labels
  <2> QED BY <2>1, Phases
<1>3. UNCHANGED <<rows, thread, rtspUrl, loop>>
  BY DEF Start, Relock
<1> QED BY <1>1, <1>2, <1>3, InnerStep

(* The new stream goes on, or the thread cannot be created and none does. *)
LEMMA SpawnServes ==
  ASSUME IInv, NEW t \in Threads, Spawn(t)
  PROVE  Serves
<1>1. /\ pc[t] = "spawn" /\ Saving(t)
      /\ thread = NoWorker /\ \A w \in Workers : worker[w] = "none"
  BY EmptyThread DEF Spawn, IInv, Control, LocalInv, Saving
<1>2. /\ Camera!Saving(t) /\ Saved = req[t].url
      /\ Stream = NoUrl /\ Airing = {}
  <2>1. Camera!Saving(t) /\ Saved = req[t].url
    BY <1>1, Saves
  <2>2. Stream = NoUrl /\ Airing = {}
    BY <1>1, AiringNow DEF Stream
  <2> QED BY <2>1, <2>2
<1>3. UNCHANGED Saved
  BY DEF Spawn, Saved
<1>4. CASE UNCHANGED <<thread, worker>> /\ Answer(t, 500)
  <2>1. UNCHANGED Camera!camera
    BY <1>1, <1>2, <1>3, <1>4 DEF Spawn, Camera!camera, Stream, Airing
  <2> QED BY <1>1, <1>4, <2>1, Refused
<1>5. ASSUME NEW w \in Workers, thread' = w,
             worker' = [worker EXCEPT ![w] = "loop"], Answer(t, 200)
      PROVE  Serves
  <2>1. Stream' = req[t].url
    BY <1>5, StreamAssumption DEF Spawn, Stream
  <2>2. Airing' = {}
    BY <1>1, <1>5 DEF IInv, TypeOK, Airing
  <2>3. Camera!Answer(t, 200)
    BY <1>5, Answers
  <2>4. Camera!TurnOn(t)
    BY <1>2, <1>3, <2>1, <2>2, <2>3 DEF Camera!TurnOn
  <2> QED BY <2>4 DEF Serves, Camera!Next
<1> QED BY <1>4, <1>5 DEF Spawn

(* The way out of stop(), when no worker is left. *)
LEMMA ReturnServes ==
  ASSUME IInv, NEW t \in Threads, pc[t] \in {"stop", "join"}, Return(t),
         Airing = {}, Airing' = {}, Stream' = NoUrl, UNCHANGED Saved
  PROVE  Serves
<1>1. CASE req[t].op = "stop"
  <2>1. Stage[t] = "served"
    BY Served
  <2>2. Camera!Answer(t, 200)
    BY <1>1, Answers DEF Return
  <2>3. Camera!Halt(t)
    BY <1>1, <2>1, <2>2 DEF Camera!Halt, Camera!Serving
  <2> QED BY <2>3 DEF Serves, Camera!Next
<1>2. CASE req[t].op # "stop"
  <2>1. Saving(t)
    BY <1>2 DEF IInv, Control, LocalInv, Saving
  <2>2. Camera!Saving(t) /\ Saved = req[t].url
    BY <2>1, Saves
  <2>3. UNCHANGED Camera!talk
    <3>1. /\ pc \in [Threads -> Labels]
          /\ {"relock", pc[t]} \subseteq Labels \ {"idle", "reply", "wedged"}
      BY DEF IInv, TypeOK, Labels
    <3>2. UNCHANGED Stage
      BY <1>2, <3>1, StageMoves, Phases DEF Return, Goto
    <3> QED BY <1>2, <3>2 DEF Return, Goto, Camera!talk
  <2>4. Camera!TurnOff(t)
    BY <2>2, <2>3 DEF Camera!TurnOff
  <2> QED BY <2>4 DEF Serves, Camera!Next
<1> QED BY <1>1, <1>2

(* A flag that is down already means that nothing is left to turn off. *)
LEMMA StopServes ==
  ASSUME IInv, NEW t \in Threads, Stop(t)
  PROVE  Serves
<1>1. UNCHANGED <<rows, thread, rtspUrl, loop>> /\ pc[t] = "stop"
  BY DEF Stop
<1>2. CASE running
  <2>1. Goto(t, "join")
    BY <1>2 DEF Stop
  <2>2. /\ {"stop", "join"} \subseteq Labels \ {"idle", "reply", "wedged"}
    BY DEF Labels
  <2> QED BY <1>1, <2>1, <2>2, Phases, InnerStep
<1>3. CASE ~running
  <2>1. \A u \in Threads : pc[u] # "join"
    BY <1>1, Alone
  <2>2. thread = NoWorker
    BY <1>3, <2>1, NobodyLeft
  <2>3. Airing = {} /\ Airing' = {} /\ Stream' = NoUrl /\ UNCHANGED Saved
    BY <1>1, <2>2, AiringNow DEF loop, Airing, Stream, Saved
  <2>4. Return(t)
    BY <1>3 DEF Stop
  <2> QED BY <1>1, <2>3, <2>4, ReturnServes
<1> QED BY <1>2, <1>3

(* The worker that is joined has closed its camera. *)
LEMMA JoinServes ==
  ASSUME IInv, NEW t \in Threads, Join(t)
  PROVE  Serves
<1>1. Airing = {}
  BY AiringNow DEF Join
<1>2. thread' = NoWorker /\ Stream' = NoUrl
  BY DEF Join, Stream
<1>3. Airing' = {}
  <2>1. \A w \in Workers : worker[w] # "relay"
    BY <1>1 DEF Airing
  <2>2. \A w \in Workers : worker'[w] # "relay"
    BY <2>1 DEF Join, IInv, TypeOK
  <2> QED BY <2>2 DEF Airing
<1>4. UNCHANGED Saved
  BY DEF Join, Saved
<1>5. pc[t] = "join" /\ Return(t)
  BY DEF Join
<1> QED BY <1>1, <1>2, <1>3, <1>4, <1>5, ReturnServes

(* The client has its answer, or will never have it. *)
LEMMA ReplyServes ==
  ASSUME IInv, NEW t \in Threads, Reply(t) \/ ReplyWedged(t)
  PROVE  Serves
<1>1. UNCHANGED Camera!camera /\ pc[t] = "reply"
  BY SameCamera DEF Reply, ReplyWedged
<1>2. CASE ReplyWedged(t)
  <2>1. "wedged" \in Labels /\ Goto(t, "wedged")
    BY <1>2 DEF ReplyWedged, Labels
  <2> QED BY <1>1, <2>1, Phases, Silent
<1>3. CASE Reply(t)
  <2>1. pc \in [Threads -> Labels] /\ {"reply", "idle"} \subseteq Labels
    BY DEF IInv, TypeOK, Labels
  <2>2. Stage[t] = "answered"
    BY <1>1, Phases DEF Stage
  <2>3. Stage' = [Stage EXCEPT ![t] = "idle"]
    BY <1>3, <2>1, StageMoves, Phases DEF Reply
  <2>4. Camera!Return(t)
    BY <1>1, <1>3, <2>2, <2>3
       DEF Reply, Camera!Return, Camera!NoRequest, NoRequest
  <2> QED BY <2>4 DEF Serves, Camera!Next
<1> QED BY <1>2, <1>3

(* The worker opens the address of the stream it runs for, and closes it.  *)
LEMMA RunLoopServes ==
  ASSUME IInv, NEW w \in Workers, RunLoop(w) \/ CameraLost(w)
  PROVE  Serves
<1>1. UNCHANGED <<Saved, Stream, Camera!talk>>
  BY DEF RunLoop, LoopTest, Open, RelayEnds, Awake, CameraLost, CloseCamera,
         relayer, local, Saved, Stream, Camera!talk, Stage
<1>2. PICK to \in {"open", "exited", "relay", "sleep", "loop"} :
        /\ worker' = [worker EXCEPT ![w] = to]
        /\ worker[w] \in {"loop", "open", "relay", "sleep"}
        /\ to = "relay" => worker[w] = "open"
                         /\ source' = [source EXCEPT ![w] = rtspUrl]
  BY DEF RunLoop, LoopTest, Open, RelayEnds, Awake, CameraLost, CloseCamera,
         WorkerGoes
<1>3. w = thread /\ thread # NoWorker
  BY <1>2, StreamAssumption DEF IInv, OneStream
<1>4. \A x \in Workers : x # w => worker'[x] # "relay"
  BY <1>2, <1>3 DEF IInv, TypeOK, OneStream
<1>5. worker'[w] = to
  BY <1>2 DEF IInv, TypeOK
<1>6. CASE to # "relay"
  <2>1. Airing' = {}
    BY <1>4, <1>5, <1>6 DEF Airing
  <2>2. Camera!Disconnect
    BY <1>1, <2>1 DEF Camera!Disconnect
  <2> QED BY <2>2 DEF Serves, Camera!Next
<1>7. CASE to = "relay"
  <2>1. Stream = rtspUrl /\ Stream # NoUrl /\ Airing = {}
    BY <1>2, <1>3, <1>7, AiringNow, StreamAssumption DEF IInv, FlagInv, Stream
  <2>2. source'[w] = rtspUrl
    BY <1>2, <1>7 DEF IInv, TypeOK
  <2>3. Airing' = {rtspUrl}
    BY <1>4, <1>5, <1>7, <2>2 DEF Airing
  <2>4. Camera!Connect
    BY <1>1, <2>1, <2>3 DEF Camera!Connect
  <2> QED BY <2>4 DEF Serves, Camera!Next
<1> QED BY <1>6, <1>7

(* Only the table is kept. *)
LEMMA RestartServes ==
  ASSUME IInv, Restart
  PROVE  Serves
<1>1. UNCHANGED Saved /\ Stream' = NoUrl
  BY DEF Restart, Saved, Stream
<1>2. Airing' = {}
  BY DEF Restart, Airing
<1>3. Stage' = [t \in Threads |-> "idle"]
  BY Phases DEF Restart, Stage
<1>4. /\ req' = [t \in Threads |-> NoRequest]
      /\ status' = [t \in Threads |-> 200]
  BY DEF Restart
<1>5. Camera!Restart
  BY <1>1, <1>2, <1>3, <1>4
     DEF Camera!Restart, Camera!Idle, Camera!NoRequest, NoRequest
<1> QED BY <1>5 DEF Serves, Camera!Next

(* The endpoints, StreamRelayer::start and stop, and runLoop implement     *)
(* CameraService: however requests, the worker and restarts interleave and *)
(* whatever fails, clients see one stream or none, turned off only when    *)
(* its camera is closed and on only for the address just saved.            *)
THEOREM EndpointsImplementCamera == Spec => ImplementsCamera
<1>1. Init => Camera!Init
  BY Phases DEF Init, Fresh, Camera!Init, Camera!Idle, Camera!NoRequest,
     NoRequest, Saved, Stream, Airing, Stage
<1>2. ASSUME IInv, [Next]_vars
      PROVE  [Camera!Next]_<<Camera!camera, Camera!talk>>
  <2>1. ASSUME NEW t \in Threads, Step(t) PROVE Serves
    BY <1>2, <2>1, GetServes, BadRequestServes, ClearServes, SaveServes,
       StartServes, SpawnServes, StopServes, JoinServes, ReplyServes DEF Step
  <2>2. CASE UNCHANGED vars
    BY <2>2 DEF vars, relayer, loop, local, Serves, Camera!camera,
       Camera!talk, Saved, Stream, Airing, Stage
  <2>3. ASSUME NEW t \in Threads, NEW r \in Request, Publish(t, r) PROVE Serves
    BY <1>2, <2>3, PublishServes
  <2>4. ASSUME NEW w \in Workers, RunLoop(w) \/ CameraLost(w) PROVE Serves
    BY <1>2, <2>4, RunLoopServes
  <2>5. CASE Restart
    BY <1>2, <2>5, RestartServes DEF Serves
  <2> QED BY <1>2, <2>1, <2>2, <2>3, <2>4, <2>5 DEF Next, Serves
<1> QED BY <1>1, <1>2, Invariance, PTL DEF Spec, ImplementsCamera, Camera!Spec
=============================================================================
