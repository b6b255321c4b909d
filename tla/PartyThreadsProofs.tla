------------------------- MODULE PartyThreadsProofs -------------------------
(***************************************************************************)
(* Proofs about PartyThreads for every number of layers, every capacity of *)
(* the wire and every pattern of messages.                                 *)
(*                                                                         *)
(* The counter is written without its lock, and the event of the main      *)
(* thread may still be raised from an earlier layer.  That neither does    *)
(* harm rests on one fact, LInv: as long as no worker is being stopped,    *)
(* the counter is the number of workers that are to be woken, have been    *)
(* woken or are busy, so it can only be written when it is zero.  It       *)
(* speaks of one party at a time, and a step of a party leaves the other's *)
(* threads alone.                                                          *)
(***************************************************************************)
EXTENDS PartyThreads, FiniteSetTheorems, SequenceTheorems, TLAPS

\* Worker i is to be woken, has been woken or is busy.
Pending(p, i) ==
    \/ Assigned(p, i)
    \/ main[p] = "wakeSender"
    \/ main[p] = "wakeReceiver" /\ i = Receiver

Count(p, i) == IF Pending(p, i) THEN 1 ELSE 0

\* The worker that Cleanup is stopping.
Stopping(p) == IF Sender \in stopped[p] THEN Receiver ELSE Sender
BeingStopped(p, i) == main[p] = "join" /\ i = Stopping(p)

CounterOK(p) ==
    /\ main[p] # "join" => working[p] = Count(p, Sender) + Count(p, Receiver)
    /\ main[p] \in {"evaluate", "finish", "join"} => working[p] = 0

\* PutJob is only called for a worker that is done with its last job.
WakeOK(p) ==
    /\ main[p] = "wakeSender" => ~ Assigned(p, Sender) /\ ~ Assigned(p, Receiver)
    /\ main[p] = "wakeReceiver" => ~ Assigned(p, Receiver)
    /\ main[p] = "join" =>
         \A i \in Worker : Assigned(p, i) => i = Stopping(p) /\ worker[p][i] \in {"idle", "raise", "job"}

StopOK(p) ==
    /\ \A i \in Worker :
         /\ job[p][i] = "stop" => i \in stopped[p] \/ BeingStopped(p, i)
         /\ worker[p][i] = "exit" => i \in stopped[p] \/ BeingStopped(p, i)
         /\ i \in stopped[p] => worker[p][i] = "exit"
    /\ main[p] = "join" => job[p][Stopping(p)] = "stop"
    /\ main[p] \notin {"evaluate", "join"} => layer[p] \in Layer /\ stopped[p] = {}
    /\ main[p] = "join" \/ stopped[p] # {} => layer[p] = Layers + 1

\* Each worker's event is only raised while it waits for it.
EventOK(p) ==
    /\ \A i \in Worker :
         worker[p][i] \in {"job", "send", "receive", "notify"} => ~ workerEvt[p][i]
    /\ worker[p][Sender] # "receive"
    /\ worker[p][Receiver] \notin {"send", "sending"}
    /\ worker[p][Sender] = "sending" => (workerEvt[p][Sender] <=> outbox[p] = << >>)
    /\ outbox[p] # << >> => worker[p][Sender] = "sending" /\ Len(outbox[p]) = 1

LInv(p) == CounterOK(p) /\ WakeOK(p) /\ StopOK(p) /\ EventOK(p)

\* The inductive invariant.
PInv == TypeOK /\ \A p \in Party : LInv(p)

(***************************************************************************)
(* Types.                                                                  *)
(***************************************************************************)

LEMMA InitType == Init => TypeOK
  BY ThreadsAssumption DEF Init, TypeOK, Party, Worker, Layer, ThreadsAssumption




LEMMA TwoWorkers == Cardinality(Worker) = 2
<1>1. Worker = {0} \cup {1} /\ 1 \notin {0}
  BY DEF Worker
<1>2. IsFiniteSet({0}) /\ Cardinality({0}) = 1
  BY FS_Singleton
<1>3. Cardinality({0} \cup {1}) = 2
  BY <1>1, <1>2, FS_AddElement
<1> QED  BY <1>1, <1>3

LEMMA EvaluateKeeps ==
  ASSUME PInv, NEW p \in Party, Evaluate(p)
  PROVE  TypeOK' /\ LInv(p)'
<1>1. TypeOK /\ LInv(p)
  BY DEF PInv
<1>2. TypeOK'
  BY <1>1, TwoWorkers, ThreadsAssumption DEF Evaluate, GoMain, Woken, TypeOK, Party, Worker, Layer, Sender, Receiver, LInv, StopOK, CounterOK, EventOK, Count, Pending, Assigned, ThreadsAssumption
<1>3. CounterOK(p)'
  BY <1>1, TwoWorkers, ThreadsAssumption DEF Evaluate, GoMain, Woken, TypeOK, Party, Worker, Layer, Sender, Receiver, CounterOK, WakeOK, StopOK, EventOK, LInv, Count, Pending, Assigned, Stopping, BeingStopped, ThreadsAssumption
<1>4. WakeOK(p)'
  BY <1>1, ThreadsAssumption DEF Evaluate, GoMain, Woken, TypeOK, Party, Worker, Layer, Sender, Receiver, CounterOK, WakeOK, StopOK, EventOK, LInv, Count, Pending, Assigned, Stopping, BeingStopped, ThreadsAssumption
<1>5. StopOK(p)'
  BY <1>1, ThreadsAssumption DEF Evaluate, GoMain, Woken, TypeOK, Party, Worker, Layer, Sender, Receiver, CounterOK, WakeOK, StopOK, EventOK, LInv, Count, Pending, Assigned, Stopping, BeingStopped, ThreadsAssumption
<1>6. EventOK(p)'
  BY <1>1, ThreadsAssumption DEF Evaluate, GoMain, Woken, TypeOK, Party, Worker, Layer, Sender, Receiver, CounterOK, WakeOK, StopOK, EventOK, LInv, Count, Pending, Assigned, Stopping, BeingStopped, ThreadsAssumption
<1> QED  BY <1>2, <1>3, <1>4, <1>5, <1>6 DEF LInv

LEMMA WakeSenderKeeps ==
  ASSUME PInv, NEW p \in Party, WakeSender(p)
  PROVE  TypeOK' /\ LInv(p)'
<1>1. TypeOK /\ LInv(p)
  BY DEF PInv
<1>2. TypeOK'
  BY <1>1, ThreadsAssumption DEF WakeSender, GoMain, PutJob, TypeOK, Party, Worker, Layer, Sender, Receiver, LInv, StopOK, CounterOK, EventOK, Count, Pending, Assigned, ThreadsAssumption
<1>3. CounterOK(p)'
  BY <1>1, ThreadsAssumption DEF WakeSender, GoMain, PutJob, TypeOK, Party, Worker, Layer, Sender, Receiver, CounterOK, WakeOK, StopOK, EventOK, LInv, Count, Pending, Assigned, Stopping, BeingStopped, ThreadsAssumption
<1>4. WakeOK(p)'
  BY <1>1, ThreadsAssumption DEF WakeSender, GoMain, PutJob, TypeOK, Party, Worker, Layer, Sender, Receiver, CounterOK, WakeOK, StopOK, EventOK, LInv, Count, Pending, Assigned, Stopping, BeingStopped, ThreadsAssumption
<1>5. StopOK(p)'
  BY <1>1, ThreadsAssumption DEF WakeSender, GoMain, PutJob, TypeOK, Party, Worker, Layer, Sender, Receiver, CounterOK, WakeOK, StopOK, EventOK, LInv, Count, Pending, Assigned, Stopping, BeingStopped, ThreadsAssumption
<1>6. EventOK(p)'
  BY <1>1, ThreadsAssumption DEF WakeSender, GoMain, PutJob, TypeOK, Party, Worker, Layer, Sender, Receiver, CounterOK, WakeOK, StopOK, EventOK, LInv, Count, Pending, Assigned, Stopping, BeingStopped, ThreadsAssumption
<1> QED  BY <1>2, <1>3, <1>4, <1>5, <1>6 DEF LInv

LEMMA WakeReceiverKeeps ==
  ASSUME PInv, NEW p \in Party, WakeReceiver(p)
  PROVE  TypeOK' /\ LInv(p)'
<1>1. TypeOK /\ LInv(p)
  BY DEF PInv
<1>2. TypeOK'
  BY <1>1, ThreadsAssumption DEF WakeReceiver, GoMain, PutJob, TypeOK, Party, Worker, Layer, Sender, Receiver, LInv, StopOK, CounterOK, EventOK, Count, Pending, Assigned, ThreadsAssumption
<1>3. CounterOK(p)'
  <2>1. \A j \in Worker : Pending(p, j)' <=> Pending(p, j)
    BY <1>1 DEF WakeReceiver, GoMain, PutJob, TypeOK, Party, Worker, Sender, Receiver, LInv, WakeOK, StopOK, EventOK, Pending, Assigned, Stopping, BeingStopped
  <2>2. \A j \in Worker : Count(p, j)' = Count(p, j)
    BY <2>1 DEF Count
  <2> QED  BY <1>1, <2>2 DEF WakeReceiver, GoMain, PutJob, TypeOK, Party, Worker, Sender, Receiver, LInv, CounterOK
<1>4. WakeOK(p)'
  BY <1>1, ThreadsAssumption DEF WakeReceiver, GoMain, PutJob, TypeOK, Party, Worker, Layer, Sender, Receiver, CounterOK, WakeOK, StopOK, EventOK, LInv, Count, Pending, Assigned, Stopping, BeingStopped, ThreadsAssumption
<1>5. StopOK(p)'
  BY <1>1, ThreadsAssumption DEF WakeReceiver, GoMain, PutJob, TypeOK, Party, Worker, Layer, Sender, Receiver, CounterOK, WakeOK, StopOK, EventOK, LInv, Count, Pending, Assigned, Stopping, BeingStopped, ThreadsAssumption
<1>6. EventOK(p)'
  BY <1>1, ThreadsAssumption DEF WakeReceiver, GoMain, PutJob, TypeOK, Party, Worker, Layer, Sender, Receiver, CounterOK, WakeOK, StopOK, EventOK, LInv, Count, Pending, Assigned, Stopping, BeingStopped, ThreadsAssumption
<1> QED  BY <1>2, <1>3, <1>4, <1>5, <1>6 DEF LInv

LEMMA AllNotifiedKeeps ==
  ASSUME PInv, NEW p \in Party, AllNotified(p)
  PROVE  TypeOK' /\ LInv(p)'
<1>1. TypeOK /\ LInv(p)
  BY DEF PInv
<1>2. TypeOK'
  BY <1>1, ThreadsAssumption DEF AllNotified, GoMain, TypeOK, Party, Worker, Layer, Sender, Receiver, LInv, StopOK, CounterOK, EventOK, Count, Pending, Assigned, ThreadsAssumption
<1>3. CounterOK(p)'
  BY <1>1, ThreadsAssumption DEF AllNotified, GoMain, TypeOK, Party, Worker, Layer, Sender, Receiver, CounterOK, WakeOK, StopOK, EventOK, LInv, Count, Pending, Assigned, Stopping, BeingStopped, ThreadsAssumption
<1>4. WakeOK(p)'
  BY <1>1, ThreadsAssumption DEF AllNotified, GoMain, TypeOK, Party, Worker, Layer, Sender, Receiver, CounterOK, WakeOK, StopOK, EventOK, LInv, Count, Pending, Assigned, Stopping, BeingStopped, ThreadsAssumption
<1>5. StopOK(p)'
  BY <1>1, ThreadsAssumption DEF AllNotified, GoMain, TypeOK, Party, Worker, Layer, Sender, Receiver, CounterOK, WakeOK, StopOK, EventOK, LInv, Count, Pending, Assigned, Stopping, BeingStopped, ThreadsAssumption
<1>6. EventOK(p)'
  BY <1>1, ThreadsAssumption DEF AllNotified, GoMain, TypeOK, Party, Worker, Layer, Sender, Receiver, CounterOK, WakeOK, StopOK, EventOK, LInv, Count, Pending, Assigned, Stopping, BeingStopped, ThreadsAssumption
<1> QED  BY <1>2, <1>3, <1>4, <1>5, <1>6 DEF LInv

LEMMA StillWorkingKeeps ==
  ASSUME PInv, NEW p \in Party, StillWorking(p)
  PROVE  TypeOK' /\ LInv(p)'
<1>1. TypeOK /\ LInv(p)
  BY DEF PInv
<1>2. TypeOK'
  BY <1>1, ThreadsAssumption DEF StillWorking, GoMain, TypeOK, Party, Worker, Layer, Sender, Receiver, LInv, StopOK, CounterOK, EventOK, Count, Pending, Assigned, ThreadsAssumption
<1>3. CounterOK(p)'
  BY <1>1, ThreadsAssumption DEF StillWorking, GoMain, TypeOK, Party, Worker, Layer, Sender, Receiver, CounterOK, WakeOK, StopOK, EventOK, LInv, Count, Pending, Assigned, Stopping, BeingStopped, ThreadsAssumption
<1>4. WakeOK(p)'
  BY <1>1, ThreadsAssumption DEF StillWorking, GoMain, TypeOK, Party, Worker, Layer, Sender, Receiver, CounterOK, WakeOK, StopOK, EventOK, LInv, Count, Pending, Assigned, Stopping, BeingStopped, ThreadsAssumption
<1>5. StopOK(p)'
  BY <1>1, ThreadsAssumption DEF StillWorking, GoMain, TypeOK, Party, Worker, Layer, Sender, Receiver, CounterOK, WakeOK, StopOK, EventOK, LInv, Count, Pending, Assigned, Stopping, BeingStopped, ThreadsAssumption
<1>6. EventOK(p)'
  BY <1>1, ThreadsAssumption DEF StillWorking, GoMain, TypeOK, Party, Worker, Layer, Sender, Receiver, CounterOK, WakeOK, StopOK, EventOK, LInv, Count, Pending, Assigned, Stopping, BeingStopped, ThreadsAssumption
<1> QED  BY <1>2, <1>3, <1>4, <1>5, <1>6 DEF LInv

LEMMA WaitEventKeeps ==
  ASSUME PInv, NEW p \in Party, WaitEvent(p)
  PROVE  TypeOK' /\ LInv(p)'
<1>1. TypeOK /\ LInv(p)
  BY DEF PInv
<1>2. TypeOK'
  BY <1>1, ThreadsAssumption DEF WaitEvent, GoMain, AfterEvent, TypeOK, Party, Worker, Layer, Sender, Receiver, LInv, StopOK, CounterOK, EventOK, Count, Pending, Assigned, ThreadsAssumption
<1>3. CounterOK(p)'
  BY <1>1, ThreadsAssumption DEF WaitEvent, GoMain, AfterEvent, TypeOK, Party, Worker, Layer, Sender, Receiver, CounterOK, WakeOK, StopOK, EventOK, LInv, Count, Pending, Assigned, Stopping, BeingStopped, ThreadsAssumption
<1>4. WakeOK(p)'
  BY <1>1, ThreadsAssumption DEF WaitEvent, GoMain, AfterEvent, TypeOK, Party, Worker, Layer, Sender, Receiver, CounterOK, WakeOK, StopOK, EventOK, LInv, Count, Pending, Assigned, Stopping, BeingStopped, ThreadsAssumption
<1>5. StopOK(p)'
  BY <1>1, ThreadsAssumption DEF WaitEvent, GoMain, AfterEvent, TypeOK, Party, Worker, Layer, Sender, Receiver, CounterOK, WakeOK, StopOK, EventOK, LInv, Count, Pending, Assigned, Stopping, BeingStopped, ThreadsAssumption
<1>6. EventOK(p)'
  BY <1>1, ThreadsAssumption DEF WaitEvent, GoMain, AfterEvent, TypeOK, Party, Worker, Layer, Sender, Receiver, CounterOK, WakeOK, StopOK, EventOK, LInv, Count, Pending, Assigned, Stopping, BeingStopped, ThreadsAssumption
<1> QED  BY <1>2, <1>3, <1>4, <1>5, <1>6 DEF LInv

LEMMA FinishLayerKeeps ==
  ASSUME PInv, NEW p \in Party, FinishLayer(p)
  PROVE  TypeOK' /\ LInv(p)'
<1>1. TypeOK /\ LInv(p)
  BY DEF PInv
<1>2. TypeOK'
  BY <1>1, ThreadsAssumption DEF FinishLayer, GoMain, TypeOK, Party, Worker, Layer, Sender, Receiver, LInv, StopOK, CounterOK, EventOK, Count, Pending, Assigned, ThreadsAssumption
<1>3. CounterOK(p)'
  BY <1>1, ThreadsAssumption DEF FinishLayer, GoMain, TypeOK, Party, Worker, Layer, Sender, Receiver, CounterOK, WakeOK, StopOK, EventOK, LInv, Count, Pending, Assigned, Stopping, BeingStopped, ThreadsAssumption
<1>4. WakeOK(p)'
  BY <1>1, ThreadsAssumption DEF FinishLayer, GoMain, TypeOK, Party, Worker, Layer, Sender, Receiver, CounterOK, WakeOK, StopOK, EventOK, LInv, Count, Pending, Assigned, Stopping, BeingStopped, ThreadsAssumption
<1>5. StopOK(p)'
  BY <1>1, ThreadsAssumption DEF FinishLayer, GoMain, TypeOK, Party, Worker, Layer, Sender, Receiver, CounterOK, WakeOK, StopOK, EventOK, LInv, Count, Pending, Assigned, Stopping, BeingStopped, ThreadsAssumption
<1>6. EventOK(p)'
  BY <1>1, ThreadsAssumption DEF FinishLayer, GoMain, TypeOK, Party, Worker, Layer, Sender, Receiver, CounterOK, WakeOK, StopOK, EventOK, LInv, Count, Pending, Assigned, Stopping, BeingStopped, ThreadsAssumption
<1> QED  BY <1>2, <1>3, <1>4, <1>5, <1>6 DEF LInv

LEMMA StopKeeps ==
  ASSUME PInv, NEW p \in Party, NEW i \in Worker, Stop(p, i)
  PROVE  TypeOK' /\ LInv(p)'
<1>1. TypeOK /\ LInv(p)
  BY DEF PInv
<1>2. TypeOK'
  BY <1>1, ThreadsAssumption DEF Stop, GoMain, PutJob, TypeOK, Party, Worker, Layer, Sender, Receiver, LInv, StopOK, CounterOK, EventOK, Count, Pending, Assigned, ThreadsAssumption
<1>3. CounterOK(p)'
  BY <1>1, ThreadsAssumption DEF Stop, GoMain, PutJob, TypeOK, Party, Worker, Layer, Sender, Receiver, CounterOK, WakeOK, StopOK, EventOK, LInv, Count, Pending, Assigned, Stopping, BeingStopped, ThreadsAssumption
<1>4. WakeOK(p)'
  BY <1>1, ThreadsAssumption DEF Stop, GoMain, PutJob, TypeOK, Party, Worker, Layer, Sender, Receiver, CounterOK, WakeOK, StopOK, EventOK, LInv, Count, Pending, Assigned, Stopping, BeingStopped, ThreadsAssumption
<1>5. StopOK(p)'
  BY <1>1, ThreadsAssumption DEF Stop, GoMain, PutJob, TypeOK, Party, Worker, Layer, Sender, Receiver, CounterOK, WakeOK, StopOK, EventOK, LInv, Count, Pending, Assigned, Stopping, BeingStopped, ThreadsAssumption
<1>6. EventOK(p)'
  BY <1>1, ThreadsAssumption DEF Stop, GoMain, PutJob, TypeOK, Party, Worker, Layer, Sender, Receiver, CounterOK, WakeOK, StopOK, EventOK, LInv, Count, Pending, Assigned, Stopping, BeingStopped, ThreadsAssumption
<1> QED  BY <1>2, <1>3, <1>4, <1>5, <1>6 DEF LInv

LEMMA JoinKeeps ==
  ASSUME PInv, NEW p \in Party, NEW i \in Worker, Join(p, i)
  PROVE  TypeOK' /\ LInv(p)'
<1>1. TypeOK /\ LInv(p)
  BY DEF PInv
<1>2. TypeOK'
  BY <1>1, ThreadsAssumption DEF Join, GoMain, TypeOK, Party, Worker, Layer, Sender, Receiver, LInv, StopOK, CounterOK, EventOK, Count, Pending, Assigned, ThreadsAssumption
<1>3. CounterOK(p)'
  BY <1>1, ThreadsAssumption DEF Join, GoMain, TypeOK, Party, Worker, Layer, Sender, Receiver, CounterOK, WakeOK, StopOK, EventOK, LInv, Count, Pending, Assigned, Stopping, BeingStopped, ThreadsAssumption
<1>4. WakeOK(p)'
  BY <1>1, ThreadsAssumption DEF Join, GoMain, TypeOK, Party, Worker, Layer, Sender, Receiver, CounterOK, WakeOK, StopOK, EventOK, LInv, Count, Pending, Assigned, Stopping, BeingStopped, ThreadsAssumption
<1>5. StopOK(p)'
  BY <1>1, ThreadsAssumption DEF Join, GoMain, TypeOK, Party, Worker, Layer, Sender, Receiver, CounterOK, WakeOK, StopOK, EventOK, LInv, Count, Pending, Assigned, Stopping, BeingStopped, ThreadsAssumption
<1>6. EventOK(p)'
  BY <1>1, ThreadsAssumption DEF Join, GoMain, TypeOK, Party, Worker, Layer, Sender, Receiver, CounterOK, WakeOK, StopOK, EventOK, LInv, Count, Pending, Assigned, Stopping, BeingStopped, ThreadsAssumption
<1> QED  BY <1>2, <1>3, <1>4, <1>5, <1>6 DEF LInv

LEMMA WaitJobKeeps ==
  ASSUME PInv, NEW p \in Party, NEW i \in Worker, WaitJob(p, i)
  PROVE  TypeOK' /\ LInv(p)'
<1>1. TypeOK /\ LInv(p)
  BY DEF PInv
<1>2. TypeOK'
  BY <1>1, ThreadsAssumption DEF WaitJob, GoWorker, Lowered, TypeOK, Party, Worker, Layer, Sender, Receiver, LInv, StopOK, CounterOK, EventOK, Count, Pending, Assigned, ThreadsAssumption
<1>3. CounterOK(p)'
  <2>1. \A j \in Worker : Pending(p, j)' <=> Pending(p, j)
    BY <1>1 DEF WaitJob, GoWorker, Lowered, TypeOK, Party, Worker, Sender, Receiver, LInv, WakeOK, StopOK, EventOK, Pending, Assigned, Stopping, BeingStopped
  <2>2. \A j \in Worker : Count(p, j)' = Count(p, j)
    BY <2>1 DEF Count
  <2> QED  BY <1>1, <2>2 DEF WaitJob, GoWorker, Lowered, TypeOK, Party, Worker, Sender, Receiver, LInv, CounterOK
<1>4. WakeOK(p)'
  BY <1>1, ThreadsAssumption DEF WaitJob, GoWorker, Lowered, TypeOK, Party, Worker, Layer, Sender, Receiver, CounterOK, WakeOK, StopOK, EventOK, LInv, Count, Pending, Assigned, Stopping, BeingStopped, ThreadsAssumption
<1>5. StopOK(p)'
  BY <1>1, ThreadsAssumption DEF WaitJob, GoWorker, Lowered, TypeOK, Party, Worker, Layer, Sender, Receiver, CounterOK, WakeOK, StopOK, EventOK, LInv, Count, Pending, Assigned, Stopping, BeingStopped, ThreadsAssumption
<1>6. EventOK(p)'
  BY <1>1, ThreadsAssumption DEF WaitJob, GoWorker, Lowered, TypeOK, Party, Worker, Layer, Sender, Receiver, CounterOK, WakeOK, StopOK, EventOK, LInv, Count, Pending, Assigned, Stopping, BeingStopped, ThreadsAssumption
<1> QED  BY <1>2, <1>3, <1>4, <1>5, <1>6 DEF LInv

LEMMA ReadJobKeeps ==
  ASSUME PInv, NEW p \in Party, NEW i \in Worker, ReadJob(p, i)
  PROVE  TypeOK' /\ LInv(p)'
<1>1. TypeOK /\ LInv(p)
  BY DEF PInv
<1>2. TypeOK'
  BY <1>1, ThreadsAssumption DEF ReadJob, GoWorker, TypeOK, Party, Worker, Layer, Sender, Receiver, LInv, StopOK, CounterOK, EventOK, Count, Pending, Assigned, ThreadsAssumption
<1>3. CounterOK(p)'
  BY <1>1, ThreadsAssumption DEF ReadJob, GoWorker, TypeOK, Party, Worker, Layer, Sender, Receiver, CounterOK, WakeOK, StopOK, EventOK, LInv, Count, Pending, Assigned, Stopping, BeingStopped, ThreadsAssumption
<1>4. WakeOK(p)'
  BY <1>1, ThreadsAssumption DEF ReadJob, GoWorker, TypeOK, Party, Worker, Layer, Sender, Receiver, CounterOK, WakeOK, StopOK, EventOK, LInv, Count, Pending, Assigned, Stopping, BeingStopped, ThreadsAssumption
<1>5. StopOK(p)'
  BY <1>1, ThreadsAssumption DEF ReadJob, GoWorker, TypeOK, Party, Worker, Layer, Sender, Receiver, CounterOK, WakeOK, StopOK, EventOK, LInv, Count, Pending, Assigned, Stopping, BeingStopped, ThreadsAssumption
<1>6. EventOK(p)'
  BY <1>1, ThreadsAssumption DEF ReadJob, GoWorker, TypeOK, Party, Worker, Layer, Sender, Receiver, CounterOK, WakeOK, StopOK, EventOK, LInv, Count, Pending, Assigned, Stopping, BeingStopped, ThreadsAssumption
<1> QED  BY <1>2, <1>3, <1>4, <1>5, <1>6 DEF LInv

LEMMA NotifyKeeps ==
  ASSUME PInv, NEW p \in Party, NEW i \in Worker, Notify(p, i)
  PROVE  TypeOK' /\ LInv(p)'
<1>1. TypeOK /\ LInv(p)
  BY DEF PInv
<1>a. /\ Pending(p, i) /\ ~ Pending(p, i)'
      /\ \A j \in Worker \ {i} : Pending(p, j)' <=> Pending(p, j)
  BY <1>1 DEF Notify, GoWorker, TypeOK, Party, Worker, Sender, Receiver, LInv, WakeOK, StopOK, EventOK, Pending, Assigned, Stopping, BeingStopped
<1>b. main[p] \notin {"evaluate", "finish", "join"}
  <2>1. main[p] # "join"
    BY <1>1 DEF Notify, GoWorker, TypeOK, Party, Worker, LInv, WakeOK, Assigned
  <2> QED  BY <1>1, <1>a, <2>1 DEF LInv, CounterOK, Count, Worker, Sender, Receiver
<1>c. /\ Count(p, i) = 1 /\ Count(p, i)' = 0
      /\ \A j \in Worker \ {i} : Count(p, j)' = Count(p, j)
  BY <1>a DEF Count
<1>d. working[p] = Count(p, Sender) + Count(p, Receiver)
  BY <1>1, <1>b DEF LInv, CounterOK
<1>e. \A j \in Worker : Count(p, j) \in 0 .. 1
  BY DEF Count
<1>f. working[p] \in 1 .. 2
  BY <1>c, <1>d, <1>e DEF Worker, Sender, Receiver
<1>3. CounterOK(p)'
  BY <1>1, <1>b, <1>c, <1>d, <1>e DEF Notify, GoWorker, TypeOK, Party, Worker, Sender, Receiver, CounterOK
<1>2. TypeOK'
  BY <1>1, <1>f DEF Notify, GoWorker, LastToNotify, TypeOK, Party, Worker
<1>4. WakeOK(p)'
  BY <1>1, ThreadsAssumption DEF Notify, GoWorker, LastToNotify, TypeOK, Party, Worker, Layer, Sender, Receiver, CounterOK, WakeOK, StopOK, EventOK, LInv, Count, Pending, Assigned, Stopping, BeingStopped, ThreadsAssumption
<1>5. StopOK(p)'
  BY <1>1, ThreadsAssumption DEF Notify, GoWorker, LastToNotify, TypeOK, Party, Worker, Layer, Sender, Receiver, CounterOK, WakeOK, StopOK, EventOK, LInv, Count, Pending, Assigned, Stopping, BeingStopped, ThreadsAssumption
<1>6. EventOK(p)'
  BY <1>1, ThreadsAssumption DEF Notify, GoWorker, LastToNotify, TypeOK, Party, Worker, Layer, Sender, Receiver, CounterOK, WakeOK, StopOK, EventOK, LInv, Count, Pending, Assigned, Stopping, BeingStopped, ThreadsAssumption
<1> QED  BY <1>2, <1>3, <1>4, <1>5, <1>6 DEF LInv

LEMMA RaiseEventKeeps ==
  ASSUME PInv, NEW p \in Party, NEW i \in Worker, RaiseEvent(p, i)
  PROVE  TypeOK' /\ LInv(p)'
<1>1. TypeOK /\ LInv(p)
  BY DEF PInv
<1>2. TypeOK'
  BY <1>1, ThreadsAssumption DEF RaiseEvent, GoWorker, TypeOK, Party, Worker, Layer, Sender, Receiver, LInv, StopOK, CounterOK, EventOK, Count, Pending, Assigned, ThreadsAssumption
<1>3. CounterOK(p)'
  <2>1. \A j \in Worker : Pending(p, j)' <=> Pending(p, j)
    BY <1>1 DEF RaiseEvent, GoWorker, TypeOK, Party, Worker, Sender, Receiver, LInv, WakeOK, StopOK, EventOK, Pending, Assigned, Stopping, BeingStopped
  <2>2. \A j \in Worker : Count(p, j)' = Count(p, j)
    BY <2>1 DEF Count
  <2> QED  BY <1>1, <2>2 DEF RaiseEvent, GoWorker, TypeOK, Party, Worker, Sender, Receiver, LInv, CounterOK
<1>4. WakeOK(p)'
  BY <1>1, ThreadsAssumption DEF RaiseEvent, GoWorker, TypeOK, Party, Worker, Layer, Sender, Receiver, CounterOK, WakeOK, StopOK, EventOK, LInv, Count, Pending, Assigned, Stopping, BeingStopped, ThreadsAssumption
<1>5. StopOK(p)'
  BY <1>1, ThreadsAssumption DEF RaiseEvent, GoWorker, TypeOK, Party, Worker, Layer, Sender, Receiver, CounterOK, WakeOK, StopOK, EventOK, LInv, Count, Pending, Assigned, Stopping, BeingStopped, ThreadsAssumption
<1>6. EventOK(p)'
  BY <1>1, ThreadsAssumption DEF RaiseEvent, GoWorker, TypeOK, Party, Worker, Layer, Sender, Receiver, CounterOK, WakeOK, StopOK, EventOK, LInv, Count, Pending, Assigned, Stopping, BeingStopped, ThreadsAssumption
<1> QED  BY <1>2, <1>3, <1>4, <1>5, <1>6 DEF LInv

LEMMA SendKeeps ==
  ASSUME PInv, NEW p \in Party, Send(p)
  PROVE  TypeOK' /\ LInv(p)'
<1>1. TypeOK /\ LInv(p)
  BY DEF PInv
<1>a. layer[p] \in Layer
  <2>1. Assigned(p, Sender)
    BY <1>1 DEF Send, GoWorker, Assigned
  <2>2. main[p] # "join"
    BY <1>1, <2>1 DEF Send, GoWorker, LInv, WakeOK, Worker, Sender
  <2>3. Count(p, Sender) = 1 /\ Count(p, Receiver) \in 0 .. 1
    BY <2>1 DEF Count, Pending
  <2>4. main[p] # "evaluate"
    BY <1>1, <2>2, <2>3 DEF LInv, CounterOK
  <2> QED  BY <1>1, <2>2, <2>4 DEF LInv, StopOK
<1>b. outbox[p] = << >> /\ ~ workerEvt[p][Sender]
  BY <1>1 DEF Send, GoWorker, LInv, EventOK, Worker, Sender
<1>c. /\ Append(outbox[p], layer[p]) \in Seq(Layer)
      /\ Append(outbox[p], layer[p]) # << >>
      /\ Len(Append(outbox[p], layer[p])) = 1
  BY <1>a, <1>b
<1>2. TypeOK'
  BY <1>1, <1>c DEF Send, GoWorker, TypeOK, Party, Worker, Layer, Sender, Receiver, LInv, StopOK, CounterOK, EventOK, Count, Pending, Assigned, ThreadsAssumption
<1>3. CounterOK(p)'
  BY <1>1, ThreadsAssumption DEF Send, GoWorker, TypeOK, Party, Worker, Layer, Sender, Receiver, CounterOK, WakeOK, StopOK, EventOK, LInv, Count, Pending, Assigned, Stopping, BeingStopped, ThreadsAssumption
<1>4. WakeOK(p)'
  BY <1>1, ThreadsAssumption DEF Send, GoWorker, TypeOK, Party, Worker, Layer, Sender, Receiver, CounterOK, WakeOK, StopOK, EventOK, LInv, Count, Pending, Assigned, Stopping, BeingStopped, ThreadsAssumption
<1>5. StopOK(p)'
  BY <1>1, ThreadsAssumption DEF Send, GoWorker, TypeOK, Party, Worker, Layer, Sender, Receiver, CounterOK, WakeOK, StopOK, EventOK, LInv, Count, Pending, Assigned, Stopping, BeingStopped, ThreadsAssumption
<1>6. EventOK(p)'
  BY <1>1, <1>b, <1>c DEF Send, GoWorker, TypeOK, Party, Worker, Sender, Receiver, LInv, EventOK
<1> QED  BY <1>2, <1>3, <1>4, <1>5, <1>6 DEF LInv

LEMMA SendDoneKeeps ==
  ASSUME PInv, NEW p \in Party, SendDone(p)
  PROVE  TypeOK' /\ LInv(p)'
<1>1. TypeOK /\ LInv(p)
  BY DEF PInv
<1>2. TypeOK'
  BY <1>1, ThreadsAssumption DEF SendDone, GoWorker, Lowered, TypeOK, Party, Worker, Layer, Sender, Receiver, LInv, StopOK, CounterOK, EventOK, Count, Pending, Assigned, ThreadsAssumption
<1>3. CounterOK(p)'
  BY <1>1, ThreadsAssumption DEF SendDone, GoWorker, Lowered, TypeOK, Party, Worker, Layer, Sender, Receiver, CounterOK, WakeOK, StopOK, EventOK, LInv, Count, Pending, Assigned, Stopping, BeingStopped, ThreadsAssumption
<1>4. WakeOK(p)'
  BY <1>1, ThreadsAssumption DEF SendDone, GoWorker, Lowered, TypeOK, Party, Worker, Layer, Sender, Receiver, CounterOK, WakeOK, StopOK, EventOK, LInv, Count, Pending, Assigned, Stopping, BeingStopped, ThreadsAssumption
<1>5. StopOK(p)'
  BY <1>1, ThreadsAssumption DEF SendDone, GoWorker, Lowered, TypeOK, Party, Worker, Layer, Sender, Receiver, CounterOK, WakeOK, StopOK, EventOK, LInv, Count, Pending, Assigned, Stopping, BeingStopped, ThreadsAssumption
<1>6. EventOK(p)'
  BY <1>1, ThreadsAssumption DEF SendDone, GoWorker, Lowered, TypeOK, Party, Worker, Layer, Sender, Receiver, CounterOK, WakeOK, StopOK, EventOK, LInv, Count, Pending, Assigned, Stopping, BeingStopped, ThreadsAssumption
<1> QED  BY <1>2, <1>3, <1>4, <1>5, <1>6 DEF LInv

LEMMA ReceiveKeeps ==
  ASSUME PInv, NEW p \in Party, Receive(p)
  PROVE  TypeOK' /\ LInv(p)'
<1>1. TypeOK /\ LInv(p)
  BY DEF PInv
<1>a. wire[Peer(p)] # << >> => Tail(wire[Peer(p)]) \in Seq(Layer)
  BY <1>1 DEF TypeOK, Peer, Party
<1>b. Peer(p) \in Party
  BY DEF Peer, Party
<1>2. TypeOK'
  BY <1>1, <1>a, <1>b DEF Receive, GoWorker, TypeOK, Worker, Receiver
<1>3. CounterOK(p)'
  BY <1>1, ThreadsAssumption DEF Receive, GoWorker, Expects, Peer, TypeOK, Party, Worker, Layer, Sender, Receiver, CounterOK, WakeOK, StopOK, EventOK, LInv, Count, Pending, Assigned, Stopping, BeingStopped, ThreadsAssumption
<1>4. WakeOK(p)'
  BY <1>1, ThreadsAssumption DEF Receive, GoWorker, Expects, Peer, TypeOK, Party, Worker, Layer, Sender, Receiver, CounterOK, WakeOK, StopOK, EventOK, LInv, Count, Pending, Assigned, Stopping, BeingStopped, ThreadsAssumption
<1>5. StopOK(p)'
  BY <1>1, ThreadsAssumption DEF Receive, GoWorker, Expects, Peer, TypeOK, Party, Worker, Layer, Sender, Receiver, CounterOK, WakeOK, StopOK, EventOK, LInv, Count, Pending, Assigned, Stopping, BeingStopped, ThreadsAssumption
<1>6. EventOK(p)'
  BY <1>1, ThreadsAssumption DEF Receive, GoWorker, Expects, Peer, TypeOK, Party, Worker, Layer, Sender, Receiver, CounterOK, WakeOK, StopOK, EventOK, LInv, Count, Pending, Assigned, Stopping, BeingStopped, ThreadsAssumption
<1> QED  BY <1>2, <1>3, <1>4, <1>5, <1>6 DEF LInv

LEMMA TransmitKeeps ==
  ASSUME PInv, NEW p \in Party, Transmit(p)
  PROVE  TypeOK' /\ LInv(p)'
<1>1. TypeOK /\ LInv(p)
  BY DEF PInv
<1>a. /\ Len(outbox[p]) = 1 /\ worker[p][Sender] = "sending"
      /\ Tail(outbox[p]) = << >> /\ Head(outbox[p]) \in Layer
  <2>1. outbox[p] \in Seq(Layer) /\ outbox[p] # << >>
    BY <1>1 DEF Transmit, TypeOK
  <2>2. Len(outbox[p]) = 1 /\ worker[p][Sender] = "sending"
    BY <1>1, <2>1 DEF LInv, EventOK
  <2>3. Head(outbox[p]) \in Layer /\ Tail(outbox[p]) \in Seq(Layer) /\ Len(Tail(outbox[p])) = 0
    BY <2>1, <2>2
  <2>4. Tail(outbox[p]) = << >>
    BY <2>3, EmptySeq
  <2> QED  BY <2>2, <2>3, <2>4
<1>b. Append(wire[p], Head(outbox[p])) \in Seq(Layer)
  BY <1>1, <1>a DEF TypeOK
<1>2. TypeOK'
  BY <1>1, <1>a, <1>b DEF Transmit, TypeOK, Worker, Sender
<1>3. CounterOK(p)'
  BY <1>1, ThreadsAssumption DEF Transmit, TypeOK, Party, Worker, Layer, Sender, Receiver, CounterOK, WakeOK, StopOK, EventOK, LInv, Count, Pending, Assigned, Stopping, BeingStopped, ThreadsAssumption
<1>4. WakeOK(p)'
  BY <1>1, ThreadsAssumption DEF Transmit, TypeOK, Party, Worker, Layer, Sender, Receiver, CounterOK, WakeOK, StopOK, EventOK, LInv, Count, Pending, Assigned, Stopping, BeingStopped, ThreadsAssumption
<1>5. StopOK(p)'
  BY <1>1, ThreadsAssumption DEF Transmit, TypeOK, Party, Worker, Layer, Sender, Receiver, CounterOK, WakeOK, StopOK, EventOK, LInv, Count, Pending, Assigned, Stopping, BeingStopped, ThreadsAssumption
<1>6. EventOK(p)'
  BY <1>1, <1>a DEF Transmit, TypeOK, Party, Worker, Sender, Receiver, LInv, EventOK
<1> QED  BY <1>2, <1>3, <1>4, <1>5, <1>6 DEF LInv
(***************************************************************************)
(* A step of one party leaves the threads of the other where they are.     *)
(***************************************************************************)

PartyStep(p) == Main(p) \/ (\E i \in Worker : WorkerStep(p, i)) \/ Transmit(p)

Untouched(q) ==
    /\ layer'[q] = layer[q]
    /\ main'[q] = main[q]
    /\ working'[q] = working[q]
    /\ worker'[q] = worker[q]
    /\ workerEvt'[q] = workerEvt[q]
    /\ job'[q] = job[q]
    /\ outbox'[q] = outbox[q]
    /\ stopped'[q] = stopped[q]

LEMMA OthersUntouched ==
  ASSUME PInv, NEW p \in Party, NEW q \in Party \ {p}, PartyStep(p)
  PROVE  Untouched(q)
<1>1. TypeOK
  BY DEF PInv
<1>2. CASE Main(p)
  <2>1. CASE Evaluate(p)
    BY <1>1, <2>1 DEF Evaluate, GoMain, Woken, TypeOK, Untouched
  <2>2. CASE WakeSender(p)
    BY <1>1, <2>2 DEF WakeSender, GoMain, PutJob, TypeOK, Untouched
  <2>3. CASE WakeReceiver(p)
    BY <1>1, <2>3 DEF WakeReceiver, GoMain, PutJob, TypeOK, Untouched
  <2>4. CASE AllNotified(p)
    BY <1>1, <2>4 DEF AllNotified, GoMain, TypeOK, Untouched
  <2>5. CASE StillWorking(p)
    BY <1>1, <2>5 DEF StillWorking, GoMain, TypeOK, Untouched
  <2>6. CASE WaitEvent(p)
    BY <1>1, <2>6 DEF WaitEvent, GoMain, AfterEvent, TypeOK, Untouched
  <2>7. CASE FinishLayer(p)
    BY <1>1, <2>7 DEF FinishLayer, GoMain, TypeOK, Untouched
  <2>8. ASSUME NEW i \in Worker, Stop(p, i) \/ Join(p, i)
        PROVE  Untouched(q)
    BY <1>1, <2>8 DEF Stop, Join, GoMain, PutJob, TypeOK, Untouched
  <2> QED  BY <1>2, <2>1, <2>2, <2>3, <2>4, <2>5, <2>6, <2>7, <2>8 DEF Main
<1>3. ASSUME NEW i \in Worker, WorkerStep(p, i)
      PROVE  Untouched(q)
  <2>1. CASE WaitJob(p, i)
    BY <1>1, <2>1 DEF WaitJob, GoWorker, Lowered, TypeOK, Untouched
  <2>2. CASE ReadJob(p, i)
    BY <1>1, <2>2 DEF ReadJob, GoWorker, TypeOK, Untouched
  <2>3. CASE Notify(p, i)
    BY <1>1, <2>3 DEF Notify, GoWorker, LastToNotify, TypeOK, Untouched
  <2>4. CASE RaiseEvent(p, i)
    BY <1>1, <2>4 DEF RaiseEvent, GoWorker, TypeOK, Untouched
  <2>5. CASE Send(p)
    BY <1>1, <2>5 DEF Send, GoWorker, TypeOK, Untouched
  <2>6. CASE SendDone(p)
    BY <1>1, <2>6 DEF SendDone, GoWorker, Lowered, TypeOK, Untouched
  <2>7. CASE Receive(p)
    BY <1>1, <2>7 DEF Receive, GoWorker, Expects, Peer, TypeOK, Untouched
  <2> QED  BY <1>3, <2>1, <2>2, <2>3, <2>4, <2>5, <2>6, <2>7 DEF WorkerStep
<1>4. CASE Transmit(p)
  BY <1>1, <1>4 DEF Transmit, TypeOK, Untouched
<1> QED  BY <1>2, <1>3, <1>4 DEF PartyStep

LEMMA UntouchedKeeps ==
  ASSUME NEW q, LInv(q), Untouched(q)
  PROVE  LInv(q)'
<1>1. \A i : Assigned(q, i)' <=> Assigned(q, i)
  BY DEF Untouched, Assigned
<1>2. \A i : Count(q, i)' = Count(q, i)
  BY <1>1 DEF Untouched, Count, Pending
<1>3. Stopping(q)' = Stopping(q) /\ \A i : BeingStopped(q, i)' <=> BeingStopped(q, i)
  BY DEF Untouched, Stopping, BeingStopped
<1>4. CounterOK(q)'
  BY <1>2 DEF Untouched, CounterOK, LInv
<1>5. WakeOK(q)'
  BY <1>1, <1>3 DEF Untouched, WakeOK, LInv
<1>6. StopOK(q)'
  BY <1>3 DEF Untouched, StopOK, LInv
<1>7. EventOK(q)'
  BY DEF Untouched, EventOK, LInv
<1> QED  BY <1>4, <1>5, <1>6, <1>7 DEF LInv

LEMMA PartyStepKeeps ==
  ASSUME PInv, NEW p \in Party, PartyStep(p)
  PROVE  PInv'
<1>1. TypeOK' /\ LInv(p)'
  BY EvaluateKeeps, WakeSenderKeeps, WakeReceiverKeeps, AllNotifiedKeeps,
     StillWorkingKeeps, WaitEventKeeps, FinishLayerKeeps, StopKeeps, JoinKeeps,
     WaitJobKeeps, ReadJobKeeps, NotifyKeeps, RaiseEventKeeps, SendKeeps,
     SendDoneKeeps, ReceiveKeeps, TransmitKeeps
  DEF PartyStep, Main, WorkerStep
<1>2. ASSUME NEW q \in Party \ {p}
      PROVE  LInv(q)'
  <2>1. Untouched(q)
    BY OthersUntouched
  <2>2. LInv(q)
    BY DEF PInv
  <2> QED  BY <2>1, <2>2, UntouchedKeeps
<1> QED  BY <1>1, <1>2 DEF PInv

LEMMA StutterKeeps ==
  ASSUME PInv, UNCHANGED vars
  PROVE  PInv'
<1>1. TypeOK'
  BY DEF PInv, TypeOK, vars
<1>2. ASSUME NEW q \in Party
      PROVE  LInv(q)'
  <2>1. Untouched(q)
    BY DEF vars, Untouched
  <2>2. LInv(q)
    BY DEF PInv
  <2> QED  BY <2>1, <2>2, UntouchedKeeps
<1> QED  BY <1>1, <1>2 DEF PInv

LEMMA InitEstablishes == Init => PInv
<1> SUFFICES ASSUME Init
             PROVE  PInv
  OBVIOUS
<1>1. TypeOK
  BY InitType
<1>2. ASSUME NEW p \in Party
      PROVE  LInv(p)
  <2>1. \A i \in Worker : ~ Assigned(p, i) /\ Count(p, i) = 0
    BY DEF Init, Assigned, Count, Pending
  <2>2. CounterOK(p) /\ WakeOK(p)
    BY <2>1 DEF Init, CounterOK, WakeOK, Worker, Sender, Receiver
  <2>3. StopOK(p) /\ EventOK(p)
    BY ThreadsAssumption DEF Init, StopOK, EventOK, ThreadsAssumption, Worker, Sender, Receiver
  <2> QED  BY <2>2, <2>3 DEF LInv
<1> QED  BY <1>1, <1>2 DEF PInv

(***************************************************************************)
(* The theorems.                                                           *)
(***************************************************************************)

\* However the threads of both parties interleave, the counter of each party
\* is exact and its events are only raised for a thread that waits.
THEOREM ThreadsInvariance == Spec => []PInv
<1>1. Init => PInv
  BY InitEstablishes
<1>2. PInv /\ [Next]_vars => PInv'
  <2> SUFFICES ASSUME PInv, [Next]_vars
               PROVE  PInv'
    OBVIOUS
  <2>1. CASE UNCHANGED vars
    BY <2>1, StutterKeeps
  <2>2. ASSUME NEW p \in Party, PartyStep(p)
        PROVE  PInv'
    BY <2>2, PartyStepKeeps
  <2>3. CASE Terminated
    BY <2>3, StutterKeeps DEF Terminated
  <2> QED  BY <2>1, <2>2, <2>3 DEF Next, PartyStep
<1> QED  BY <1>1, <1>2, PTL DEF Spec

\* The threads' variables have their types.
THEOREM ThreadsTyped == Spec => []TypeOK
<1>1. PInv => TypeOK
  BY DEF PInv
<1> QED  BY <1>1, ThreadsInvariance, PTL

\* The main thread computes on the sharings' buffers only while no worker
\* does, although the event it waits for may be an old one.
THEOREM BuffersSafe == Spec => []BuffersNotShared
<1>1. PInv => BuffersNotShared
  <2> SUFFICES ASSUME PInv, NEW p \in Party, main[p] \in {"evaluate", "finish"},
                      NEW i \in Worker
               PROVE  ~ UsesBuffers(p, i)
    BY DEF BuffersNotShared
  <2>1. \A j : Count(p, j) \in 0 .. 1
    BY DEF Count
  <2>2. Count(p, Sender) + Count(p, Receiver) = 0
    BY DEF PInv, LInv, CounterOK
  <2>3. Count(p, i) = 0
    BY <2>1, <2>2 DEF Worker, Sender, Receiver
  <2> QED  BY <2>3 DEF Count, Pending, Assigned, UsesBuffers
<1> QED  BY <1>1, ThreadsInvariance, PTL

LEMMA CountOfTwo ==
  ASSUME NEW S \in SUBSET Worker
  PROVE  Cardinality(S) = (IF Sender \in S THEN 1 ELSE 0) + (IF Receiver \in S THEN 1 ELSE 0)
<1>1. Cardinality({}) = 0 /\ Cardinality({0}) = 1 /\ Cardinality({1}) = 1
  BY FS_EmptySet, FS_Singleton
<1>2. S = {} \/ S = {0} \/ S = {1} \/ S = Worker
  BY DEF Worker
<1>3. 0 # 1 /\ {0} # {} /\ {1} # {} /\ 0 \in Worker /\ 1 \in Worker
  BY DEF Worker
<1> QED  BY <1>1, <1>2, <1>3, TwoWorkers DEF Sender, Receiver

\* The counter is the number of workers still to be woken or busy.
THEOREM CounterNeverLost == Spec => []CounterExact
<1>1. PInv => CounterExact
  <2> SUFFICES ASSUME PInv, NEW p \in Party, main[p] # "join"
               PROVE  working[p] = Cardinality({i \in Worker : Pending(p, i)})
    BY DEF CounterExact, Pending
  <2>1. working[p] = Count(p, Sender) + Count(p, Receiver)
    BY DEF PInv, LInv, CounterOK
  <2>2. Cardinality({i \in Worker : Pending(p, i)}) = Count(p, Sender) + Count(p, Receiver)
    BY CountOfTwo DEF Count, Worker, Sender, Receiver
  <2> QED  BY <2>1, <2>2
<1> QED  BY <1>1, ThreadsInvariance, PTL

\* A worker that waits for its message to leave is woken by nothing else.
THEOREM NoEarlyWake == Spec => []WokenBySendOnly
<1>1. PInv => WokenBySendOnly
  BY DEF PInv, LInv, EventOK, WokenBySendOnly
<1> QED  BY <1>1, ThreadsInvariance, PTL
(***************************************************************************)
(* Messages and layers.  What is under way from a party to its peer are    *)
(* the messages of the layers that its sender has handled and the peer's   *)
(* receiver has not, in order.                                             *)
(***************************************************************************)

\* Worker i has not handled the current layer yet.
Ahead(p, i) ==
    \/ main[p] \in {"evaluate", "wakeSender", "join"}
    \/ main[p] = "wakeReceiver" /\ i = Receiver
    \/ worker[p][i] \in {"job", "send", "receive"}
    \/ worker[p][i] \in {"idle", "raise"} /\ workerEvt[p][i]

\* The last layer that worker i of party p has handled.
Handled(p, i) == IF Ahead(p, i) THEN layer[p] - 1 ELSE layer[p]

UnderWay(p) == wire[p] \o outbox[p]

Due(p) == {d \in Layer : /\ traffic[p][d]
                         /\ Handled(Peer(p), Receiver) < d
                         /\ d <= Handled(p, Sender)}

\* Q holds the layers of D, in increasing order.
Carries(Q, D) ==
    /\ \A n, m \in 1 .. Len(Q) : n < m => Q[n] < Q[m]
    /\ \A d \in Layer : (\E n \in 1 .. Len(Q) : Q[n] = d) <=> d \in D

\* The peer has handled no message before it was sent.
SentFirst(p) ==
    \A d \in Layer : traffic[p][d] /\ d <= Handled(Peer(p), Receiver) => d <= Handled(p, Sender)

InOrder(p) == Carries(UnderWay(p), Due(p)) /\ SentFirst(p)

WInv == PInv /\ \A p \in Party : InOrder(p)

\* A layer above all others is appended.
LEMMA CarriesAppend ==
  ASSUME NEW Q \in Seq(Layer), NEW D \in SUBSET Layer, NEW d \in Layer,
         Carries(Q, D), \A x \in D : x < d
  PROVE  Carries(Append(Q, d), D \cup {d})
<1> DEFINE R == Append(Q, d)
<1>1. /\ R \in Seq(Layer) /\ Len(R) = Len(Q) + 1 /\ Len(Q) \in Nat
      /\ \A n \in 1 .. Len(Q) : R[n] = Q[n]
      /\ R[Len(Q) + 1] = d
  BY AppendProperties
<1> HIDE DEF R
<1>2. \A n \in 1 .. Len(Q) : Q[n] \in D
  BY ElementOfSeq DEF Carries
<1>3. ASSUME NEW n \in 1 .. Len(R), NEW m \in 1 .. Len(R), n < m
      PROVE  R[n] < R[m]
  <2>1. n \in 1 .. Len(Q)
    BY <1>1, <1>3
  <2>2. CASE m \in 1 .. Len(Q)
    BY <1>1, <1>3, <2>1, <2>2 DEF Carries
  <2>3. CASE m = Len(Q) + 1
    BY <1>1, <1>2, <2>1, <2>3
  <2> QED  BY <1>1, <2>2, <2>3
<1>4. ASSUME NEW x \in Layer
      PROVE  (\E n \in 1 .. Len(R) : R[n] = x) <=> x \in D \cup {d}
  <2>1. ASSUME NEW n \in 1 .. Len(R)
        PROVE  R[n] \in D \cup {d}
    BY <1>1, <1>2
  <2>2. CASE x \in D
    <3>1. PICK n \in 1 .. Len(Q) : Q[n] = x
      BY <2>2 DEF Carries
    <3> QED  BY <1>1, <2>2, <3>1
  <2>3. CASE x = d
    BY <1>1, <2>3
  <2> QED  BY <2>1, <2>2, <2>3
<1>5. Carries(R, D \cup {d})
  BY <1>3, <1>4 DEF Carries
<1> QED  BY <1>5 DEF R

\* The first one is the least, and is taken off.
LEMMA CarriesTail ==
  ASSUME NEW Q \in Seq(Layer), NEW D \in SUBSET Layer, Q # << >>, Carries(Q, D)
  PROVE  /\ Q[1] \in D /\ \A x \in D : Q[1] <= x
         /\ Carries(Tail(Q), D \ {Q[1]})
<1> DEFINE R == Tail(Q)
<1>1. /\ R \in Seq(Layer) /\ Len(R) = Len(Q) - 1 /\ Len(Q) \in Nat \ {0}
      /\ \A n \in 1 .. Len(R) : R[n] = Q[n+1]
  BY HeadTailProperties, EmptySeq
<1> HIDE DEF R
<1>a. \A n \in 1 .. Len(Q) : Q[n] \in Layer
  BY ElementOfSeq
<1>2. \A n \in 1 .. Len(Q) : Q[n] \in D /\ Q[n] \in Nat
  BY <1>a, ThreadsAssumption DEF Carries, Layer, ThreadsAssumption
<1>3. Q[1] \in D
  BY <1>1, <1>2
<1>4. ASSUME NEW x \in D
      PROVE  Q[1] <= x
  <2>1. PICK n \in 1 .. Len(Q) : Q[n] = x
    BY DEF Carries
  <2>2. n = 1 \/ Q[1] < Q[n]
    BY <1>1, <2>1 DEF Carries
  <2> QED  BY <1>1, <1>2, <2>1, <2>2
<1>5. ASSUME NEW n \in 1 .. Len(R), NEW m \in 1 .. Len(R), n < m
      PROVE  R[n] < R[m]
  BY <1>1, <1>5 DEF Carries
<1>6. ASSUME NEW x \in Layer
      PROVE  (\E n \in 1 .. Len(R) : R[n] = x) <=> x \in D \ {Q[1]}
  <2>1. ASSUME NEW n \in 1 .. Len(R)
        PROVE  R[n] \in D \ {Q[1]}
    <3>1. R[n] = Q[n+1] /\ n + 1 \in 1 .. Len(Q) /\ 1 \in 1 .. Len(Q) /\ 1 < n + 1
      BY <1>1
    <3>2. Q[1] < Q[n+1]
      BY <3>1 DEF Carries
    <3> QED  BY <1>1, <1>2, <3>1, <3>2
  <2>2. ASSUME x \in D \ {Q[1]}
        PROVE  \E n \in 1 .. Len(R) : R[n] = x
    <3>1. PICK n \in 1 .. Len(Q) : Q[n] = x
      BY <2>2 DEF Carries
    <3>2. n - 1 \in 1 .. Len(R) /\ R[n-1] = Q[n]
      BY <1>1, <2>2, <3>1
    <3> QED  BY <3>1, <3>2
  <2> QED  BY <2>1, <2>2
<1>7. Carries(R, D \ {Q[1]})
  BY <1>5, <1>6 DEF Carries
<1> QED  BY <1>3, <1>4, <1>7 DEF R

\* Only Send and Receive handle a layer.
QuietStep(p) ==
    \/ Main(p)
    \/ \E i \in Worker : WaitJob(p, i) \/ ReadJob(p, i) \/ Notify(p, i) \/ RaiseEvent(p, i)
    \/ SendDone(p)

LEMMA QuietHandled ==
  ASSUME PInv, NEW p \in Party, QuietStep(p)
  PROVE  \A i \in Worker : Handled(p, i)' = Handled(p, i)
<1>1. TypeOK /\ LInv(p)
  BY DEF PInv
<1> USE DEF Handled, Ahead
<1>2. CASE Evaluate(p)
  BY <1>1, <1>2, ThreadsAssumption DEF Evaluate, GoMain, Woken, TypeOK, Party, Worker, Sender, Receiver, LInv, CounterOK, WakeOK, StopOK, EventOK, Count, Pending, Assigned, Stopping, BeingStopped, Layer, ThreadsAssumption
<1>3. CASE WakeSender(p)
  BY <1>1, <1>3, ThreadsAssumption DEF WakeSender, GoMain, PutJob, TypeOK, Party, Worker, Sender, Receiver, LInv, CounterOK, WakeOK, StopOK, EventOK, Count, Pending, Assigned, Stopping, BeingStopped, Layer, ThreadsAssumption
<1>4. CASE WakeReceiver(p)
  BY <1>1, <1>4, ThreadsAssumption DEF WakeReceiver, GoMain, PutJob, TypeOK, Party, Worker, Sender, Receiver, LInv, CounterOK, WakeOK, StopOK, EventOK, Count, Pending, Assigned, Stopping, BeingStopped, Layer, ThreadsAssumption
<1>5. CASE AllNotified(p)
  BY <1>1, <1>5, ThreadsAssumption DEF AllNotified, GoMain, TypeOK, Party, Worker, Sender, Receiver, LInv, CounterOK, WakeOK, StopOK, EventOK, Count, Pending, Assigned, Stopping, BeingStopped, Layer, ThreadsAssumption
<1>6. CASE StillWorking(p)
  BY <1>1, <1>6, ThreadsAssumption DEF StillWorking, GoMain, TypeOK, Party, Worker, Sender, Receiver, LInv, CounterOK, WakeOK, StopOK, EventOK, Count, Pending, Assigned, Stopping, BeingStopped, Layer, ThreadsAssumption
<1>7. CASE WaitEvent(p)
  BY <1>1, <1>7, ThreadsAssumption DEF WaitEvent, GoMain, AfterEvent, TypeOK, Party, Worker, Sender, Receiver, LInv, CounterOK, WakeOK, StopOK, EventOK, Count, Pending, Assigned, Stopping, BeingStopped, Layer, ThreadsAssumption
<1>8. CASE FinishLayer(p)
  <2>1. \A i : Count(p, i) \in 0 .. 1
    BY DEF Count
  <2>2. Count(p, Sender) + Count(p, Receiver) = 0
    BY <1>1, <1>8 DEF FinishLayer, GoMain, LInv, CounterOK
  <2>3. \A i \in Worker : ~ Assigned(p, i)
    BY <2>1, <2>2 DEF Count, Pending, Worker, Sender, Receiver
  <2>4. layer[p] \in Int /\ layer'[p] = layer[p] + 1 /\ main[p] = "finish" /\ main'[p] = "evaluate"
    BY <1>1, <1>8, ThreadsAssumption DEF FinishLayer, GoMain, TypeOK, ThreadsAssumption
  <2> QED  BY <2>3, <2>4 DEF Assigned
<1>9. ASSUME NEW i \in Worker, Stop(p, i)
      PROVE  \A j \in Worker : Handled(p, j)' = Handled(p, j)
  BY <1>1, <1>9 DEF Stop, GoMain, PutJob, TypeOK, Party, Worker, Sender, Receiver, LInv, CounterOK, WakeOK, StopOK, EventOK, Count, Pending, Assigned, Stopping, BeingStopped
<1>10. ASSUME NEW i \in Worker, Join(p, i)
      PROVE  \A j \in Worker : Handled(p, j)' = Handled(p, j)
  BY <1>1, <1>10 DEF Join, GoMain, TypeOK, Party, Worker, Sender, Receiver, LInv, CounterOK, WakeOK, StopOK, EventOK, Count, Pending, Assigned, Stopping, BeingStopped
<1>11. ASSUME NEW i \in Worker, WaitJob(p, i)
      PROVE  \A j \in Worker : Handled(p, j)' = Handled(p, j)
  BY <1>1, <1>11 DEF WaitJob, GoWorker, Lowered, TypeOK, Party, Worker, Sender, Receiver, LInv, CounterOK, WakeOK, StopOK, EventOK, Count, Pending, Assigned, Stopping, BeingStopped
<1>12. ASSUME NEW i \in Worker, ReadJob(p, i)
      PROVE  \A j \in Worker : Handled(p, j)' = Handled(p, j)
  BY <1>1, <1>12 DEF ReadJob, GoWorker, TypeOK, Party, Worker, Sender, Receiver, LInv, CounterOK, WakeOK, StopOK, EventOK, Count, Pending, Assigned, Stopping, BeingStopped
<1>13. ASSUME NEW i \in Worker, Notify(p, i)
      PROVE  \A j \in Worker : Handled(p, j)' = Handled(p, j)
  BY <1>1, <1>13 DEF Notify, GoWorker, LastToNotify, TypeOK, Party, Worker, Sender, Receiver, LInv, CounterOK, WakeOK, StopOK, EventOK, Count, Pending, Assigned, Stopping, BeingStopped
<1>14. ASSUME NEW i \in Worker, RaiseEvent(p, i)
      PROVE  \A j \in Worker : Handled(p, j)' = Handled(p, j)
  BY <1>1, <1>14 DEF RaiseEvent, GoWorker, TypeOK, Party, Worker, Sender, Receiver, LInv, CounterOK, WakeOK, StopOK, EventOK, Count, Pending, Assigned, Stopping, BeingStopped
<1>15. CASE SendDone(p)
  BY <1>1, <1>15 DEF SendDone, GoWorker, Lowered, TypeOK, Party, Worker, Sender, Receiver, LInv, CounterOK, WakeOK, StopOK, EventOK, Count, Pending, Assigned, Stopping, BeingStopped
<1> QED  BY <1>2, <1>3, <1>4, <1>5, <1>6, <1>7, <1>8, <1>9, <1>10, <1>11, <1>12, <1>13, <1>14, <1>15 DEF QuietStep, Main

\* The messages of p and the layers due are as before.
SameMessages(p) ==
    /\ UnderWay(p)' = UnderWay(p)
    /\ traffic' = traffic
    /\ Handled(p, Sender)' = Handled(p, Sender)
    /\ Handled(Peer(p), Receiver)' = Handled(Peer(p), Receiver)

LEMMA SameOrder ==
  ASSUME NEW p, InOrder(p), SameMessages(p)
  PROVE  InOrder(p)'
<1>1. Due(p)' = Due(p)
  BY DEF SameMessages, Due, Layer
<1>2. Carries(UnderWay(p), Due(p))'
  BY <1>1 DEF SameMessages, InOrder, Carries, Layer
<1>3. SentFirst(p)'
  BY DEF SameMessages, InOrder, SentFirst, Layer
<1> QED  BY <1>2, <1>3 DEF InOrder

LEMMA UntouchedHandled ==
  ASSUME NEW q, Untouched(q)
  PROVE  \A i : Handled(q, i)' = Handled(q, i)
BY DEF Untouched, Handled, Ahead

LEMMA PeerOfPeer == \A p \in Party : Peer(p) \in Party \ {p} /\ Peer(Peer(p)) = p
BY DEF Peer, Party

LEMMA QuietMessages ==
  ASSUME WInv, NEW p \in Party, QuietStep(p)
  PROVE  \A q \in Party : InOrder(q)'
<1>1. PartyStep(p)
  BY DEF QuietStep, PartyStep, WorkerStep, Worker, Sender
<1>2. PInv /\ \A q \in Party : InOrder(q)
  BY DEF WInv
<1>3. wire' = wire /\ outbox' = outbox /\ traffic' = traffic
  BY DEF QuietStep, Main, Evaluate, WakeSender, WakeReceiver, AllNotified,
         StillWorking, WaitEvent, FinishLayer, Stop, Join, WaitJob, ReadJob,
         Notify, RaiseEvent, SendDone
<1>4. \A q \in Party : \A i \in Worker : Handled(q, i)' = Handled(q, i)
  <2>1. \A q \in Party \ {p} : Untouched(q)
    BY <1>1, <1>2, OthersUntouched
  <2> QED  BY <1>2, <2>1, QuietHandled, UntouchedHandled
<1>5. \A q \in Party : SameMessages(q)
  BY <1>3, <1>4, PeerOfPeer DEF SameMessages, UnderWay, Worker, Sender, Receiver
<1> QED  BY <1>2, <1>5, SameOrder

LEMMA TransmitMessages ==
  ASSUME WInv, NEW p \in Party, Transmit(p)
  PROVE  \A q \in Party : InOrder(q)'
<1>1. PInv /\ TypeOK /\ LInv(p) /\ \A q \in Party : InOrder(q)
  BY DEF WInv, PInv
<1>2. PICK x \in Layer : outbox[p] = << x >>
  <2>1. outbox[p] \in Seq(Layer) /\ outbox[p] # << >> /\ Len(outbox[p]) = 1
    BY <1>1 DEF Transmit, TypeOK, LInv, EventOK
  <2>2. outbox[p][1] \in Layer
    BY <2>1, ElementOfSeq
  <2>3. outbox[p] = << outbox[p][1] >>
    BY <2>1, <2>2
  <2> QED  BY <2>2, <2>3
<1>3. wire[p] \in Seq(Layer)
  BY <1>1 DEF TypeOK
<1>4. /\ wire' = [wire EXCEPT ![p] = Append(wire[p], x)]
      /\ outbox' = [outbox EXCEPT ![p] = << >>]
  BY <1>2 DEF Transmit
<1>5. Append(wire[p], x) \o << >> = wire[p] \o << x >>
  <2>1. Append(wire[p], x) \in Seq(Layer) /\ Append(wire[p], x) = wire[p] \o << x >>
    BY <1>2, <1>3, AppendProperties, AppendIsConcat
  <2> QED  BY <2>1, ConcatEmptySeq
<1>6. \A q \in Party : UnderWay(q)' = UnderWay(q)
  BY <1>1, <1>2, <1>4, <1>5 DEF UnderWay, TypeOK
<1>7. \A q \in Party : \A i \in Worker : Handled(q, i)' = Handled(q, i)
  <2>1. worker[p][Sender] = "sending"
    BY <1>1 DEF Transmit, LInv, EventOK
  <2>2. \A i \in Worker : Handled(p, i)' = Handled(p, i)
    BY <1>1, <2>1 DEF Transmit, Handled, Ahead, TypeOK, Worker, Sender, Receiver
  <2>3. \A q \in Party \ {p} : Untouched(q)
    BY <1>1, OthersUntouched DEF PartyStep
  <2> QED  BY <2>2, <2>3, UntouchedHandled
<1>8. \A q \in Party : SameMessages(q)
  BY <1>6, <1>7, PeerOfPeer DEF SameMessages, Worker, Sender, Receiver, Transmit
<1> QED  BY <1>1, <1>8, SameOrder

\* While worker i is inside its job the party is in a layer, and handling it
\* is what is left to do.
LEMMA InJob ==
  ASSUME PInv, NEW p \in Party, NEW i \in Worker, worker[p][i] \in {"send", "receive"}
  PROVE  layer[p] \in Layer /\ main[p] \notin {"evaluate", "finish", "join"}
<1>1. TypeOK /\ LInv(p) /\ Assigned(p, i)
  BY DEF PInv, Assigned
<1>2. main[p] # "join"
  BY <1>1 DEF LInv, WakeOK
<1>3. Count(p, i) = 1 /\ \A j : Count(p, j) \in 0 .. 1
  BY <1>1 DEF Count, Pending
<1>4. Count(p, Sender) + Count(p, Receiver) # 0
  BY <1>3 DEF Worker, Sender, Receiver
<1>5. main[p] \notin {"evaluate", "finish"}
  BY <1>1, <1>2, <1>4 DEF LInv, CounterOK
<1> QED  BY <1>1, <1>2, <1>5 DEF LInv, StopOK

LEMMA AppendToTail ==
  \A L : \A t, u \in Seq(L) : \A d \in L : t \o Append(u, d) = Append(t \o u, d)
<1> SUFFICES ASSUME NEW L, NEW t \in Seq(L), NEW u \in Seq(L), NEW d \in L
             PROVE  t \o Append(u, d) = Append(t \o u, d)
  OBVIOUS
<1> DEFINE one == << d >>
<1>1. Append(u, d) = u \o one /\ one \in Seq(L)
  BY AppendIsConcat
<1>2. t \o u \in Seq(L) /\ Append(t \o u, d) = (t \o u) \o one
  BY ConcatProperties, AppendIsConcat
<1> HIDE DEF one
<1>3. t \o (u \o one) = (t \o u) \o one
  BY <1>1, ConcatAssociative
<1> QED  BY <1>1, <1>2, <1>3

LEMMA SendMessages ==
  ASSUME WInv, NEW p \in Party, Send(p)
  PROVE  \A q \in Party : InOrder(q)'
<1>1. PInv /\ TypeOK /\ LInv(p) /\ \A q \in Party : InOrder(q)
  BY DEF WInv, PInv
<1>2. worker[p][Sender] = "send"
  BY DEF Send, GoWorker
<1>3. layer[p] \in Layer /\ main[p] \notin {"evaluate", "finish", "join"}
  BY <1>1, <1>2, InJob DEF Worker, Sender
<1>4. main[p] # "wakeSender" /\ ~ workerEvt[p][Sender]
  BY <1>1, <1>2 DEF LInv, WakeOK, EventOK, Assigned, Worker, Sender
<1>5. /\ worker'[p][Sender] \in {"sending", "notify"}
      /\ worker'[p][Receiver] = worker[p][Receiver]
      /\ UNCHANGED <<traffic, layer, main, workerEvt, wire>>
  BY <1>1 DEF Send, GoWorker, TypeOK, Worker, Sender, Receiver
<1>6. Handled(p, Sender) = layer[p] - 1 /\ Handled(p, Sender)' = layer[p]
  BY <1>2, <1>3, <1>4, <1>5 DEF Handled, Ahead, Sender, Receiver
<1>7. Handled(p, Receiver)' = Handled(p, Receiver)
  BY <1>1, <1>5 DEF Handled, Ahead, TypeOK, Sender, Receiver, Worker
<1>8. \A q \in Party \ {p} : Untouched(q)
  BY <1>1, OthersUntouched DEF PartyStep, WorkerStep, Worker, Sender
<1>9. ASSUME NEW q \in Party \ {p}
      PROVE  InOrder(q)'
  <2>1. UnderWay(q)' = UnderWay(q)
    BY <1>1, <1>5 DEF UnderWay, Send, TypeOK
  <2>2. Peer(q) = p
    BY DEF Peer, Party
  <2>3. SameMessages(q)
    BY <1>5, <1>7, <1>8, <2>1, <2>2, UntouchedHandled DEF SameMessages
  <2> QED  BY <1>1, <2>3, SameOrder
<1>10. InOrder(p)'
  <2> DEFINE d == layer[p]
  <2>1. Handled(Peer(p), Receiver)' = Handled(Peer(p), Receiver)
    BY <1>8, PeerOfPeer, UntouchedHandled
  <2>2. Due(p) \subseteq Layer /\ \A x \in Due(p) : x < d
    BY <1>3, <1>6, ThreadsAssumption DEF Due, Layer, ThreadsAssumption
  <2>3. wire[p] \in Seq(Layer) /\ outbox[p] \in Seq(Layer)
    BY <1>1 DEF TypeOK
  <2>a. traffic[p][d] => Handled(Peer(p), Receiver) < d
    <3>1. Handled(Peer(p), Receiver) \in Int /\ d \in Int
      BY <1>1, <1>3, PeerOfPeer, ThreadsAssumption
      DEF Handled, TypeOK, Layer, ThreadsAssumption
    <3> QED  BY <1>1, <1>3, <1>6, <3>1 DEF InOrder, SentFirst
  <2>b. SentFirst(p)'
    BY <1>1, <1>3, <1>5, <1>6, <2>1, ThreadsAssumption
    DEF InOrder, SentFirst, Layer, ThreadsAssumption
  <2>c. Carries(UnderWay(p), Due(p))
    BY <1>1 DEF InOrder
  <2>4. CASE traffic[p][d]
    <3>1. Due(p)' = Due(p) \cup {d}
      BY <1>3, <1>5, <1>6, <2>1, <2>4, <2>a, ThreadsAssumption DEF Due, Layer, ThreadsAssumption
    <3>2. outbox'[p] = Append(outbox[p], d)
      BY <1>1, <2>4 DEF Send, TypeOK
    <3>3. UnderWay(p)' = Append(UnderWay(p), d)
      <4> DEFINE AtEnd(t, u, x) == t \o Append(u, x) = Append(t \o u, x)
      <4>1. \A t, u \in Seq(Layer), x \in Layer : AtEnd(t, u, x)
        BY AppendToTail
      <4> HIDE DEF AtEnd
      <4>2. AtEnd(wire[p], outbox[p], d)
        BY <1>3, <2>3, <4>1
      <4> QED  BY <1>5, <3>2, <4>2 DEF UnderWay, AtEnd
    <3>4. UnderWay(p) \in Seq(Layer)
      BY <2>3, ConcatProperties DEF UnderWay
    <3>5. Carries(Append(UnderWay(p), d), Due(p) \cup {d})
      BY <1>3, <2>2, <2>c, <3>4, CarriesAppend
    <3>6. Carries(UnderWay(p), Due(p))'
      BY <3>1, <3>3, <3>5 DEF Carries, Layer
    <3> QED  BY <2>b, <3>6 DEF InOrder
  <2>5. CASE ~ traffic[p][d]
    <3>1. Due(p)' = Due(p)
      BY <1>3, <1>5, <1>6, <2>1, <2>5, ThreadsAssumption DEF Due, Layer, ThreadsAssumption
    <3>2. UnderWay(p)' = UnderWay(p)
      BY <1>1, <1>5, <2>5 DEF Send, UnderWay, TypeOK
    <3>3. Carries(UnderWay(p), Due(p))'
      BY <2>c, <3>1, <3>2 DEF Carries, Layer
    <3> QED  BY <2>b, <3>3 DEF InOrder
  <2> QED  BY <2>4, <2>5
<1> QED  BY <1>9, <1>10

LEMMA TailOfHead ==
  \A L : \A t, u \in Seq(L) : t # << >> =>
    /\ t \o u \in Seq(L) /\ t \o u # << >>
    /\ (t \o u)[1] = Head(t) /\ Tail(t) \o u = Tail(t \o u)
<1> SUFFICES ASSUME NEW L, NEW t \in Seq(L), NEW u \in Seq(L), t # << >>
             PROVE  /\ t \o u \in Seq(L) /\ t \o u # << >>
                    /\ (t \o u)[1] = Head(t) /\ Tail(t) \o u = Tail(t \o u)
  OBVIOUS
<1>1. /\ Len(t) \in Nat \ {0} /\ Len(u) \in Nat
      /\ Tail(t) \in Seq(L) /\ Len(Tail(t)) = Len(t) - 1
      /\ \A i \in 1 .. Len(Tail(t)) : Tail(t)[i] = t[i+1]
  BY EmptySeq, LenProperties, HeadTailProperties
<1>2. /\ t \o u \in Seq(L) /\ Len(t \o u) = Len(t) + Len(u)
      /\ \A i \in 1 .. Len(t) + Len(u) :
           (t \o u)[i] = IF i <= Len(t) THEN t[i] ELSE u[i - Len(t)]
  BY ConcatProperties
<1>3. t \o u # << >>
  BY <1>1, <1>2, EmptySeq
<1>4. (t \o u)[1] = Head(t)
  BY <1>1, <1>2
<1>5. /\ Tail(t) \o u \in Seq(L) /\ Len(Tail(t) \o u) = Len(t) - 1 + Len(u)
      /\ \A i \in 1 .. Len(t) - 1 + Len(u) :
           (Tail(t) \o u)[i] = IF i <= Len(t) - 1 THEN Tail(t)[i] ELSE u[i - (Len(t) - 1)]
  BY <1>1, ConcatProperties
<1>6. /\ Tail(t \o u) \in Seq(L) /\ Len(Tail(t \o u)) = Len(t) + Len(u) - 1
      /\ \A i \in 1 .. Len(Tail(t \o u)) : Tail(t \o u)[i] = (t \o u)[i+1]
  BY <1>1, <1>2, <1>3, HeadTailProperties
<1>7. Len(Tail(t) \o u) = Len(Tail(t \o u))
  BY <1>1, <1>5, <1>6
<1>8. ASSUME NEW i \in 1 .. Len(Tail(t) \o u)
      PROVE  (Tail(t) \o u)[i] = Tail(t \o u)[i]
  <2>1. CASE i <= Len(t) - 1
    BY <1>1, <1>2, <1>5, <1>6, <2>1
  <2>2. CASE i > Len(t) - 1
    <3>1. i - (Len(t) - 1) = (i + 1) - Len(t) /\ i + 1 \in 1 .. Len(t) + Len(u) /\ ~ (i + 1 <= Len(t))
      BY <1>1, <1>5, <2>2
    <3>2. (t \o u)[i+1] = u[(i + 1) - Len(t)]
      BY <1>2, <3>1
    <3>3. (Tail(t) \o u)[i] = u[i - (Len(t) - 1)]
      BY <1>1, <1>5, <2>2
    <3> QED  BY <1>1, <1>5, <1>6, <3>1, <3>2, <3>3
  <2> QED  BY <1>1, <1>5, <2>1, <2>2
<1>9. Tail(t) \o u = Tail(t \o u)
  BY <1>5, <1>6, <1>7, <1>8, SeqEqual
<1> QED  BY <1>2, <1>3, <1>4, <1>9

\* A receiver that expects a message finds its own layer's in front.
LEMMA FrontIsOwn ==
  ASSUME PInv, NEW p \in Party, InOrder(p),
         worker[Peer(p)][Receiver] = "receive", traffic[p][layer[Peer(p)]], wire[p] # << >>
  PROVE  /\ UnderWay(p) \in Seq(Layer) /\ UnderWay(p) # << >>
         /\ UnderWay(p)[1] = Head(wire[p]) /\ Tail(wire[p]) \o outbox[p] = Tail(UnderWay(p))
         /\ Head(wire[p]) = layer[Peer(p)]
         /\ layer[Peer(p)] <= Handled(p, Sender)
         /\ Handled(Peer(p), Receiver) = layer[Peer(p)] - 1
<1> DEFINE q == Peer(p)
           Q == UnderWay(p)
<1>1. q \in Party /\ TypeOK
  BY PeerOfPeer DEF PInv
<1>2. layer[q] \in Layer
  BY <1>1, InJob DEF Worker, Receiver
<1>3. wire[p] \in Seq(Layer) /\ outbox[p] \in Seq(Layer)
  BY <1>1 DEF TypeOK
<1>4. /\ Q \in Seq(Layer) /\ Q # << >>
      /\ Q[1] = Head(wire[p]) /\ Tail(wire[p]) \o outbox[p] = Tail(Q)
  <2> DEFINE Front(t, u) == /\ t \o u \in Seq(Layer) /\ t \o u # << >>
                            /\ (t \o u)[1] = Head(t) /\ Tail(t) \o u = Tail(t \o u)
  <2>1. \A t, u \in Seq(Layer) : t # << >> => Front(t, u)
    BY TailOfHead
  <2> HIDE DEF Front
  <2>2. Front(wire[p], outbox[p])
    BY <1>3, <2>1
  <2> QED  BY <2>2 DEF Front, UnderWay
<1>5. Due(p) \in SUBSET Layer /\ Carries(Q, Due(p))
  BY DEF Due, InOrder
<1> HIDE DEF q, Q
<1>6. Q[1] \in Due(p) /\ \A x \in Due(p) : Q[1] <= x
  BY <1>4, <1>5, CarriesTail
<1>7. Handled(q, Receiver) = layer[q] - 1
  BY DEF Handled, Ahead, q
<1>8. layer[q] \in Int /\ Q[1] \in Int /\ layer[q] - 1 < Q[1] /\ Q[1] <= Handled(p, Sender)
  BY <1>2, <1>6, <1>7, ThreadsAssumption DEF Due, Layer, ThreadsAssumption, q
<1>9. Handled(p, Sender) \in Int
  BY <1>1, ThreadsAssumption DEF TypeOK, Handled, ThreadsAssumption
<1>10. layer[q] <= Handled(p, Sender)
  BY <1>8, <1>9
<1>11. layer[q] \in Due(p)
  BY <1>2, <1>7, <1>8, <1>10 DEF Due, q
<1>12. Q[1] = layer[q]
  BY <1>6, <1>8, <1>11
<1> QED  BY <1>4, <1>7, <1>10, <1>12 DEF q, Q

LEMMA ReceiveMessages ==
  ASSUME WInv, NEW p \in Party, Receive(p)
  PROVE  \A q \in Party : InOrder(q)'
<1> DEFINE f == Peer(p)
<1>1. PInv /\ TypeOK /\ LInv(p) /\ \A q \in Party : InOrder(q)
  BY DEF WInv, PInv
<1>2. f \in Party /\ f # p /\ Peer(f) = p /\ Party = {p, f}
  BY DEF Peer, Party
<1>3. /\ worker[p][Receiver] = "receive" /\ worker'[p][Receiver] = "notify"
      /\ worker'[p][Sender] = worker[p][Sender]
      /\ UNCHANGED <<traffic, layer, main, workerEvt, outbox>>
  BY <1>1 DEF Receive, GoWorker, TypeOK, Worker, Sender, Receiver
<1>4. layer[p] \in Layer /\ main[p] \notin {"evaluate", "finish", "join"}
  BY <1>1, <1>3, InJob DEF Worker, Receiver
<1>5. main[p] \notin {"wakeSender", "wakeReceiver"} /\ ~ workerEvt[p][Receiver]
  BY <1>1, <1>3 DEF LInv, WakeOK, EventOK, Assigned, Worker, Receiver
<1>6. Handled(p, Receiver) = layer[p] - 1 /\ Handled(p, Receiver)' = layer[p]
  BY <1>3, <1>4, <1>5 DEF Handled, Ahead
<1>7. Handled(p, Sender)' = Handled(p, Sender)
  BY <1>3 DEF Handled, Ahead, Sender, Receiver
<1>8. Untouched(f)
  BY <1>1, <1>2, OthersUntouched DEF PartyStep, WorkerStep, Worker, Receiver
<1>9. \A i : Handled(f, i)' = Handled(f, i)
  BY <1>8, UntouchedHandled
<1>10. wire'[p] = wire[p]
  BY <1>1, <1>2 DEF Receive, TypeOK
<1>11. InOrder(p)'
  <2>1. SameMessages(p)
    BY <1>3, <1>7, <1>9, <1>10 DEF SameMessages, UnderWay
  <2> QED  BY <1>1, <2>1, SameOrder
<1>12. InOrder(f) /\ Carries(UnderWay(f), Due(f)) /\ SentFirst(f)
  BY <1>1, <1>2 DEF InOrder
<1>13. Handled(f, Sender) \in Int
  BY <1>1, <1>2, ThreadsAssumption DEF TypeOK, Handled, ThreadsAssumption
<1>14. CASE traffic[f][layer[p]]
  <2>1. wire[f] # << >> /\ wire' = [wire EXCEPT ![f] = Tail(wire[f])]
    BY <1>14 DEF Receive, Expects
  <2>2. /\ UnderWay(f) \in Seq(Layer) /\ UnderWay(f) # << >>
        /\ UnderWay(f)[1] = layer[p] /\ Tail(wire[f]) \o outbox[f] = Tail(UnderWay(f))
        /\ layer[p] <= Handled(f, Sender)
    BY <1>1, <1>2, <1>3, <1>12, <1>14, <2>1, FrontIsOwn
  <2>3. Due(f) \in SUBSET Layer
    BY DEF Due
  <2>4. Carries(Tail(UnderWay(f)), Due(f) \ {layer[p]})
    BY <1>12, <2>2, <2>3, CarriesTail
  <2>5. Due(f)' = Due(f) \ {layer[p]}
    BY <1>2, <1>3, <1>4, <1>6, <1>9, ThreadsAssumption DEF Due, Layer, ThreadsAssumption
  <2>6. UnderWay(f)' = Tail(UnderWay(f))
    BY <1>1, <1>2, <1>3, <2>1, <2>2 DEF UnderWay, TypeOK
  <2>7. Carries(UnderWay(f), Due(f))'
    BY <2>4, <2>5, <2>6 DEF Carries, Layer
  <2>8. SentFirst(f)'
    BY <1>2, <1>3, <1>4, <1>6, <1>9, <1>12, <1>13, <2>2, ThreadsAssumption
    DEF SentFirst, Layer, ThreadsAssumption
  <2> QED  BY <1>2, <1>11, <2>7, <2>8 DEF InOrder
<1>15. CASE ~ traffic[f][layer[p]]
  <2>1. wire' = wire
    BY <1>15 DEF Receive, Expects
  <2>2. UnderWay(f)' = UnderWay(f)
    BY <1>3, <2>1 DEF UnderWay
  <2>3. Due(f)' = Due(f)
    BY <1>2, <1>3, <1>4, <1>6, <1>9, <1>15, ThreadsAssumption DEF Due, Layer, ThreadsAssumption
  <2>4. Carries(UnderWay(f), Due(f))'
    BY <1>12, <2>2, <2>3 DEF Carries, Layer
  <2>5. SentFirst(f)'
    BY <1>2, <1>3, <1>4, <1>6, <1>9, <1>12, <1>15, ThreadsAssumption
    DEF SentFirst, Layer, ThreadsAssumption
  <2> QED  BY <1>2, <1>11, <2>4, <2>5 DEF InOrder
<1> QED  BY <1>14, <1>15

LEMMA WInvInit == Init => WInv
<1> SUFFICES ASSUME Init
             PROVE  WInv
  OBVIOUS
<1>1. PInv /\ TypeOK
  BY InitEstablishes DEF PInv
<1>2. ASSUME NEW p \in Party
      PROVE  InOrder(p)
  <2>1. UnderWay(p) = << >> /\ Len(UnderWay(p)) = 0
    BY ConcatEmptySeq, EmptySeq DEF Init, UnderWay
  <2>2. \A i : Handled(p, i) = 0 /\ Handled(Peer(p), i) = 0
    BY PeerOfPeer DEF Init, Handled, Ahead
  <2>3. Due(p) = {} /\ SentFirst(p)
    BY <2>2, ThreadsAssumption DEF Due, SentFirst, Layer, ThreadsAssumption
  <2>4. Carries(UnderWay(p), {})
    BY <2>1 DEF Carries
  <2> QED  BY <2>3, <2>4 DEF InOrder
<1> QED  BY <1>1, <1>2 DEF WInv

\* Whichever party is ahead and whatever is still on the wire, a receiver
\* takes the message of its own layer.
THEOREM LayersNeverMixed == Spec => []ReceivesOwnLayer
<1>1. Init => WInv
  BY WInvInit
<1>2. WInv /\ [Next]_vars => WInv'
  <2> SUFFICES ASSUME WInv, [Next]_vars
               PROVE  WInv'
    OBVIOUS
  <2>1. PInv /\ \A q \in Party : InOrder(q)
    BY DEF WInv
  <2>2. CASE UNCHANGED vars
    <3>1. PInv'
      BY <2>1, <2>2, StutterKeeps
    <3>2. \A q \in Party : SameMessages(q)
      BY <2>2 DEF vars, SameMessages, UnderWay, Handled, Ahead
    <3> QED  BY <2>1, <3>1, <3>2, SameOrder DEF WInv
  <2>3. ASSUME NEW p \in Party, PartyStep(p)
        PROVE  WInv'
    <3>1. PInv'
      BY <2>1, <2>3, PartyStepKeeps
    <3>2. QuietStep(p) \/ Send(p) \/ Receive(p) \/ Transmit(p)
      BY <2>3 DEF PartyStep, WorkerStep, QuietStep
    <3>3. \A q \in Party : InOrder(q)'
      BY <3>2, QuietMessages, SendMessages, ReceiveMessages, TransmitMessages
    <3> QED  BY <3>1, <3>3 DEF WInv
  <2>4. CASE Terminated
    BY <2>2, <2>4 DEF Terminated
  <2> QED  BY <2>2, <2>3, <2>4 DEF Next, PartyStep
<1>3. WInv => ReceivesOwnLayer
  <2> SUFFICES ASSUME WInv, NEW p \in Party, worker[p][Receiver] = "receive",
                      traffic[Peer(p)][layer[p]], wire[Peer(p)] # << >>
               PROVE  Head(wire[Peer(p)]) = layer[p]
    BY DEF ReceivesOwnLayer
  <2>1. Peer(p) \in Party /\ Peer(Peer(p)) = p /\ PInv /\ InOrder(Peer(p))
    BY PeerOfPeer DEF WInv
  <2> QED  BY <2>1, FrontIsOwn
<1> QED  BY <1>1, <1>2, <1>3, PTL DEF Spec
=============================================================================
