---------------------------- MODULE SetupThreads ----------------------------
(***************************************************************************)
(* The setup phase: ABYSetup of both parties, its worker threads, and the  *)
(* main threads that ABYParty::ExecCircuit leads through base OTs, the OT  *)
(* tasks of the sharings, the homomorphic triples and the transfer of      *)
(* garbled circuits.                                                       *)
(*                                                                         *)
(* All jobs go through WakeupWorkerThreads and WaitWorkerThreads, but run  *)
(* on one, two or all threads.  The OTs and the exchange of ciphertexts    *)
(* are external: what two threads do together over the network is one      *)
(* step.  CEvent and the channels are those of PartyThreads; the channel   *)
(* delivers bytes, whatever the sender's cuts.                             *)
(***************************************************************************)
EXTENDS Integers, FiniteSets, Sequences

CONSTANTS
    NumOTThreads,    \* m_nNumOTThreads
    MTGenAlg,        \* m_eMTGenAlg: "MT_OT", "MT_PAILLIER" or "MT_DGK"
    Window,          \* GARBLED_TABLE_WINDOW
    Circuits         \* what the sharings need in each circuit of the process

Party == {"SERVER", "CLIENT"}
Peer(p) == IF p = "SERVER" THEN "CLIENT" ELSE "SERVER"
Role(p) == IF p = "SERVER" THEN 0 ELSE 1
Thread == 0 .. 2 * NumOTThreads - 1
Queue == {0, 1}

\* depth: the layers of the sharing's circuit; ands: m_nGarbledTableCtr after each
\* AND gate, in garbling order; univ: the UNIV gates; outs: the outputs to the
\* evaluator.
Need == [depth : Nat, ands : Seq(Nat \ {0}), univ : Nat, outs : Nat]

\* A gate is on a layer.
Layered(need) == need.depth = 0 => need.ands = <<>> /\ need.univ = 0 /\ need.outs = 0

\* bool: the S_BOOL circuit has ANDs; muls: multiplications of S_ARITH; what
\* S_YAO and S_YAO_REV need.
ASSUME SetupAssumption ==
    /\ NumOTThreads \in Nat \ {0} /\ Window \in Nat \ {0}
    /\ MTGenAlg \in {"MT_OT", "MT_PAILLIER", "MT_DGK"}
    /\ Circuits \in Seq([bool : BOOLEAN, muls : Nat, yao : Need, rev : Need])
    /\ \A c \in DOMAIN Circuits : \A need \in {Circuits[c].yao, Circuits[c].rev} :
         /\ \A k, l \in DOMAIN need.ands : k < l => need.ands[k] < need.ands[l]
         /\ Layered(need)

VARIABLES
    circuit,      \* how many circuits the process has begun to execute
    calls,        \* what the main thread has yet to call in this ExecCircuit
    main,         \* "next": at the next call; "wake": in PutJobs; "block": waits for m_evt
    woken,        \* threads PutJob has reached in this WakeupWorkerThreads
    working,      \* m_nWorkingThreads
    evt,          \* m_evt
    worker,       \* where each worker thread is
    workerEvt,    \* each worker's own m_evt
    job,          \* each worker's m_eJob
    tasks,        \* m_vIKNPOTTasks
    pktask,       \* numMTs of m_vPKMTGenTasks
    sndtask,      \* m_tsndtask: what is in its buffer
    rcvtask,      \* m_trcvtask: what is to come, and has not
    made,         \* halves of arithmetic triples that were made, by thread
    outbox,       \* bytes that wait for the sending thread
    wire          \* bytes on the way to the peer

vars == <<circuit, calls, main, woken, working, evt, worker, workerEvt, job, tasks, pktask,
          sndtask, rcvtask, made, outbox, wire>>

-------------------------------------------------------------------------------
(***************************************************************************)
(* What the main threads call.                                             *)
(***************************************************************************)
Wake(e) == <<[op |-> "wake", job |-> e]>>
Wait == <<[op |-> "wait"]>>
AddSendTask(chunk) == Wait \o <<[op |-> "sndtask", data |-> chunk]>> \o Wake("Send")
AddReceiveTask(chunk) == Wait \o <<[op |-> "rcvtask", data |-> chunk]>> \o Wake("Receive")
KeyExchange == <<[op |-> "sndkey"], [op |-> "rcvkey"]>>

Tables(y, from, to) == [k \in 1 .. to - from |-> <<y, "table", from + k>>]
UnivTables(y, n) == [k \in 1 .. n |-> <<y, "univ", k>>]
Outputs(y, n) == [k \in 1 .. n |-> <<y, "output", k>>]

NumTables(need) == IF need.ands = <<>> THEN 0 ELSE need.ands[Len(need.ands)]
Used(need) == need.depth > 0

\* Mutant: the position of what is sent stays at the first window.
WindowFromStart(g, ctr) == Tables(g.sharing, 0, ctr - g.sent)

\* The tables up to ctr that were garbled and not sent.
NextWindow(g, ctr) == Tables(g.sharing, g.sent, ctr)

\* gate AND gates are garbled, sent tables are sent.
GarbleFrom(y, need, gate, sent) ==
    [op |-> "garble", sharing |-> y, need |-> need, gate |-> gate, sent |-> sent]

CreateAndSendGarbledCircuit(y, need) == <<GarbleFrom(y, need, 0, 0)>>

\* The next AND gate; its tables are sent if they fill the window.
EvaluateANDGate(g) ==
    LET ctr == g.need.ands[g.gate + 1]
    IN  IF ctr - g.sent >= Window
        THEN AddSendTask(NextWindow(g, ctr)) \o <<GarbleFrom(g.sharing, g.need, g.gate + 1, ctr)>>
        ELSE <<GarbleFrom(g.sharing, g.need, g.gate + 1, g.sent)>>

\* After the last gate: what is left, the tables of UNIV gates, the output bits.
SendUnivAndOutputs(y, need) ==
    (IF need.univ > 0 THEN AddSendTask(UnivTables(y, need.univ)) ELSE <<>>)
      \o (IF need.outs > 0 THEN AddSendTask(Outputs(y, need.outs)) ELSE <<>>)

SendRest(g) ==
    (IF g.sent < NumTables(g.need) THEN AddSendTask(NextWindow(g, NumTables(g.need))) ELSE <<>>)
      \o SendUnivAndOutputs(g.sharing, g.need)

\* All tables of AND gates at once, then the same.
ReceiveUnivAndOutputs(y, need) ==
    (IF need.univ > 0 THEN AddReceiveTask(UnivTables(y, need.univ)) ELSE <<>>)
      \o (IF need.outs > 0 THEN AddReceiveTask(Outputs(y, need.outs)) ELSE <<>>)

ReceiveGarbledCircuitAndOutputShares(y, need) ==
    (IF need.ands # <<>> THEN AddReceiveTask(Tables(y, 0, NumTables(need))) ELSE <<>>)
      \o ReceiveUnivAndOutputs(y, need)

\* The server garbles S_YAO, the client S_YAO_REV.
Garbler(y) == IF y = "S_YAO" THEN "SERVER" ELSE "CLIENT"
YaoNeed(c, y) == IF y = "S_YAO" THEN c.yao ELSE c.rev

YaoPerformSetupPhase(p, c, y) ==
    IF ~Used(YaoNeed(c, y)) THEN <<>>
    ELSE IF p = Garbler(y) THEN CreateAndSendGarbledCircuit(y, YaoNeed(c, y))
    ELSE ReceiveGarbledCircuitAndOutputShares(y, YaoNeed(c, y))

\* The garbler does not wait when there is no gate.
YaoFinishSetupPhase(p, c, y) ==
    IF p = Garbler(y) /\ ~Used(YaoNeed(c, y)) THEN <<>> ELSE Wait

\* Mutant: at both parties what is received comes first.
OwnReceivedFirst(p) == IF p = "SERVER" THEN <<"S_YAO_REV", "S_YAO">> ELSE <<"S_YAO", "S_YAO_REV">>

\* At both parties, what is garbled there comes first.
YaoOrder(p) == IF p = "SERVER" THEN <<"S_YAO", "S_YAO_REV">> ELSE <<"S_YAO_REV", "S_YAO">>

PerformSetupPhase(c) ==
    Wake("IKNPOTExt") \o Wait
      \o (IF MTGenAlg = "MT_PAILLIER" THEN Wake("MTPaillier") \o Wait ELSE <<>>)
      \o (IF MTGenAlg = "MT_DGK" /\ c.muls > 0 THEN KeyExchange ELSE <<>>)
      \o (IF MTGenAlg = "MT_DGK" THEN Wake("MTDGK") \o Wait ELSE <<>>)

\* What follows the sharings' PrepareSetupPhase.
ExecCircuit(p, c) ==
    PerformSetupPhase(c)
      \o YaoPerformSetupPhase(p, c, YaoOrder(p)[1]) \o YaoPerformSetupPhase(p, c, YaoOrder(p)[2])
      \o YaoFinishSetupPhase(p, c, "S_YAO") \o YaoFinishSetupPhase(p, c, "S_YAO_REV")
      \o <<[op |-> "online"]>>

\* ABYSetup::PrepareSetupPhase, when the first circuit is executed.
ConnectAndBaseOTs ==
    Wake("NP") \o Wait \o (IF MTGenAlg = "MT_PAILLIER" THEN KeyExchange ELSE <<>>)

QueueOf(y) == IF y = "S_YAO" THEN 0 ELSE 1

\* The OT tasks the sharings add to queue j, in their order: who sends in it,
\* by the union of the task that is filled.
OTTasks(p, c, j) ==
    LET both(s) == [sharing |-> s, sends |-> (j = Role(p))]
        yao(y) == [sharing |-> y, sends |-> (p = Garbler(y))]
    IN  (IF c.bool THEN <<both("S_BOOL")>> ELSE <<>>)
          \o (IF Used(c.yao) /\ j = QueueOf("S_YAO") THEN <<yao("S_YAO")>> ELSE <<>>)
          \o (IF c.muls > 0 /\ MTGenAlg = "MT_OT" THEN <<both("S_ARITH")>> ELSE <<>>)
          \o (IF Used(c.rev) /\ j = QueueOf("S_YAO_REV") THEN <<yao("S_YAO_REV")>> ELSE <<>>)

-------------------------------------------------------------------------------
(***************************************************************************)
(* The main threads.                                                       *)
(***************************************************************************)
Calls(p, op) == main[p] = "next" /\ calls[p] # <<>> /\ Head(calls[p]).op = op
Return(p) == calls' = [calls EXCEPT ![p] = Tail(@)]

Garble(p) ==
    /\ Calls(p, "garble")
    /\ LET g == Head(calls[p])
       IN  calls' = [calls EXCEPT ![p] =
               (IF g.gate < Len(g.need.ands) THEN EvaluateANDGate(g) ELSE SendRest(g)) \o Tail(@)]
    /\ UNCHANGED <<circuit, main, woken, working, evt, worker, workerEvt, job, tasks, pktask,
                   sndtask, rcvtask, made, outbox, wire>>

\* The next circuit can be executed.
Returned(p) == main[p] = "next" /\ calls[p] = <<>> /\ circuit[p] < Len(Circuits)

\* ExecCircuit begins with the sharings' PrepareSetupPhase.
PrepareSharings(p) ==
    /\ Returned(p)
    /\ circuit' = [circuit EXCEPT ![p] = @ + 1]
    /\ LET c == Circuits[circuit[p] + 1]
       IN  /\ calls' = [calls EXCEPT ![p] = ExecCircuit(p, c)]
           /\ tasks' = [tasks EXCEPT ![p] = [j \in Queue |-> @[j] \o OTTasks(p, c, j)]]
           /\ pktask' = [pktask EXCEPT ![p] = IF MTGenAlg = "MT_OT" THEN 0 ELSE c.muls]
           /\ made' = [made EXCEPT ![p] = {}]
    /\ UNCHANGED <<main, woken, working, evt, worker, workerEvt, job, sndtask, rcvtask, outbox, wire>>

ThreadsFor(e) ==
    IF e \in {"MTPaillier", "MTDGK"} THEN 2 * NumOTThreads
    ELSE IF e \in {"Send", "Receive"} THEN 1
    ELSE 2

\* The counter, without the lock ...
WakeupWorkerThreads(p) ==
    /\ Calls(p, "wake")
    /\ working' = [working EXCEPT ![p] = ThreadsFor(Head(calls[p]).job)]
    /\ woken' = [woken EXCEPT ![p] = 0]
    /\ main' = [main EXCEPT ![p] = "wake"]
    /\ UNCHANGED <<circuit, calls, evt, worker, workerEvt, job, tasks, pktask, sndtask, rcvtask, made, outbox, wire>>

\* ... and a job for each of the first threads.
PutJob(p) ==
    /\ main[p] = "wake"
    /\ LET e == Head(calls[p]).job
           i == woken[p]
       IN  /\ job' = [job EXCEPT ![p][i] = e]
           /\ workerEvt' = [workerEvt EXCEPT ![p][i] = TRUE]
           /\ woken' = [woken EXCEPT ![p] = i + 1]
           /\ IF i + 1 = ThreadsFor(e)
              THEN Return(p) /\ main' = [main EXCEPT ![p] = "next"]
              ELSE UNCHANGED <<calls, main>>
    /\ UNCHANGED <<circuit, working, evt, worker, tasks, pktask, sndtask, rcvtask, made, outbox, wire>>

\* WaitWorkerThreads reads the counter under the lock; if workers are left, it
\* waits for the event and reads again.
NoneWorking(p) ==
    /\ Calls(p, "wait") /\ working[p] = 0
    /\ Return(p)
    /\ UNCHANGED <<circuit, main, woken, working, evt, worker, workerEvt, job, tasks, pktask,
                   sndtask, rcvtask, made, outbox, wire>>

SomeWorking(p) ==
    /\ Calls(p, "wait") /\ working[p] > 0
    /\ main' = [main EXCEPT ![p] = "block"]
    /\ UNCHANGED <<circuit, calls, woken, working, evt, worker, workerEvt, job, tasks, pktask,
                   sndtask, rcvtask, made, outbox, wire>>

\* Mutant: the event is taken to mean that no worker is left.
TrustEvent(p) == Tail(calls[p])

ReadAgain(p) == calls[p]

WaitEvent(p) ==
    /\ main[p] = "block" /\ evt[p]
    /\ evt' = [evt EXCEPT ![p] = FALSE]
    /\ main' = [main EXCEPT ![p] = "next"]
    /\ calls' = [calls EXCEPT ![p] = ReadAgain(p)]
    /\ UNCHANGED <<circuit, woken, working, worker, workerEvt, job, tasks, pktask, sndtask, rcvtask,
                   made, outbox, wire>>

SetSendTask(p) ==
    /\ Calls(p, "sndtask") /\ Return(p)
    /\ sndtask' = [sndtask EXCEPT ![p] = Head(calls[p]).data]
    /\ UNCHANGED <<circuit, main, woken, working, evt, worker, workerEvt, job, tasks, pktask,
                   rcvtask, made, outbox, wire>>

SetReceiveTask(p) ==
    /\ Calls(p, "rcvtask") /\ Return(p)
    /\ rcvtask' = [rcvtask EXCEPT ![p] = Head(calls[p]).data]
    /\ UNCHANGED <<circuit, main, woken, working, evt, worker, workerEvt, job, tasks, pktask,
                   sndtask, made, outbox, wire>>

\* keyExchange, on the main thread and the channel of the transfers.
SendKey(p) ==
    /\ Calls(p, "sndkey") /\ Return(p)
    /\ outbox' = [outbox EXCEPT ![p] = Append(@, [data |-> <<<<"key", "key", 1>>>>, raise |-> FALSE])]
    /\ UNCHANGED <<circuit, main, woken, working, evt, worker, workerEvt, job, tasks, pktask,
                   sndtask, rcvtask, made, wire>>

ReceiveKey(p) ==
    /\ Calls(p, "rcvkey") /\ wire[Peer(p)] # <<>>
    /\ Return(p)
    /\ wire' = [wire EXCEPT ![Peer(p)] = Tail(@)]
    /\ UNCHANGED <<circuit, main, woken, working, evt, worker, workerEvt, job, tasks, pktask,
                   sndtask, rcvtask, made, outbox>>

\* The online phase, and Reset, which empties the lists of tasks.
Online(p) ==
    /\ Calls(p, "online") /\ Return(p)
    /\ tasks' = [tasks EXCEPT ![p] = [j \in Queue |-> <<>>]]
    /\ pktask' = [pktask EXCEPT ![p] = 0]
    /\ UNCHANGED <<circuit, main, woken, working, evt, worker, workerEvt, job, sndtask, rcvtask,
                   made, outbox, wire>>

Main(p) ==
    \/ PrepareSharings(p) \/ Garble(p) \/ WakeupWorkerThreads(p) \/ PutJob(p)
    \/ NoneWorking(p) \/ SomeWorking(p) \/ WaitEvent(p)
    \/ SetSendTask(p) \/ SetReceiveTask(p) \/ SendKey(p) \/ ReceiveKey(p) \/ Online(p)

-------------------------------------------------------------------------------
(***************************************************************************)
(* The worker threads.                                                     *)
(***************************************************************************)
At(p, i, st) == worker[p][i] = st
Go(p, i, st) == worker' = [worker EXCEPT ![p][i] = st]

\* Mutant: the queue goes by the thread alone.
QueueByThread(p, i) == i

\* threadid ^ m_eRole
QueueFor(p, i) == IF p = "SERVER" THEN i ELSE 1 - i

\* Waits for a job and reads it.
TakeJob(p, i) ==
    /\ At(p, i, "idle") /\ workerEvt[p][i]
    /\ workerEvt' = [workerEvt EXCEPT ![p][i] = FALSE]
    /\ Go(p, i, job[p][i])
    /\ UNCHANGED <<circuit, calls, main, woken, working, evt, job, tasks, pktask, sndtask, rcvtask,
                   made, outbox, wire>>

\* Thread 0 sends and thread 1 receives, on the sockets that lead to the other
\* kind of thread of the peer.
Snd == 0
Rcv == 1

\* ComputeBaseOTs of p's sender with the peer's receiver.
BaseOTs(p) ==
    /\ At(p, Snd, "NP") /\ At(Peer(p), Rcv, "NP")
    /\ worker' = [worker EXCEPT ![p][Snd] = "notify", ![Peer(p)][Rcv] = "notify"]
    /\ UNCHANGED <<circuit, calls, main, woken, working, evt, workerEvt, job, tasks, pktask, sndtask,
                   rcvtask, made, outbox, wire>>

TaskOf(p, i) == tasks[p][QueueFor(p, i)]

\* ThreadRunIKNPSnd with the peer's ThreadRunIKNPRcv: the next task of each.
IKNPOTs(p) ==
    /\ At(p, Snd, "IKNPOTExt") /\ At(Peer(p), Rcv, "IKNPOTExt")
    /\ TaskOf(p, Snd) # <<>> /\ TaskOf(Peer(p), Rcv) # <<>>
    /\ tasks' = [tasks EXCEPT ![p][QueueFor(p, Snd)] = Tail(@),
                              ![Peer(p)][QueueFor(Peer(p), Rcv)] = Tail(@)]
    /\ UNCHANGED <<circuit, calls, main, woken, working, evt, worker, workerEvt, job, pktask, sndtask,
                   rcvtask, made, outbox, wire>>

\* No task is left.
IKNPDone(p, i) ==
    /\ At(p, i, "IKNPOTExt") /\ TaskOf(p, i) = <<>>
    /\ Go(p, i, "notify")
    /\ UNCHANGED <<circuit, calls, main, woken, working, evt, workerEvt, job, tasks, pktask, sndtask,
                   rcvtask, made, outbox, wire>>

\* Mutant: every thread of the first rest takes one more, not two.
MTsSingly(n, i) ==
    n \div (2 * NumOTThreads) + (IF i < n % (2 * NumOTThreads) THEN 1 ELSE 0)

\* How many of n triples thread i makes: in pairs, one as sender and one as
\* receiver.
MyNumMTs(n, i) ==
    2 * (n \div (4 * NumOTThreads) + (IF 2 * i < n % (4 * NumOTThreads) THEN 1 ELSE 0))

MyStart(n, i) ==
    LET start[t \in 0 .. i] == IF t = 0 THEN 0 ELSE start[t-1] + MyNumMTs(n, t-1)
    IN  start[i]

\* The first half of the thread's triples, or the second.
Half(n, i, second) ==
    LET start == MyStart(n, i) + (IF second THEN MyNumMTs(n, i) \div 2 ELSE 0)
        \* computeArithmeticMTs rounds the half up
        size == (MyNumMTs(n, i) + 1) \div 2
    IN  {[mt |-> k, second |-> second] : k \in start .. start + size - 1}

\* computeArithmeticMTs of thread i at both parties: with one's own key on one
\* half, under the other's key on the other half.
PaillierMTs(i) ==
    /\ \A p \in Party : worker[p][i] \in {"MTPaillier", "MTDGK"}
    /\ worker' = [p \in Party |-> [worker[p] EXCEPT ![i] = "notify"]]
    /\ made' = [p \in Party |->
            made[p] \cup {[mt |-> h.mt, own |-> (h.second = (p = "CLIENT")), by |-> i] :
                            h \in Half(pktask[p], i, FALSE) \cup Half(pktask[p], i, TRUE)}]
    /\ UNCHANGED <<circuit, calls, main, woken, working, evt, workerEvt, job, tasks, pktask, sndtask,
                   rcvtask, outbox, wire>>

\* ThreadSendData: blocking_send of what m_tsndtask says now.
SendData(p, i) ==
    /\ At(p, i, "Send")
    /\ outbox' = [outbox EXCEPT ![p] = Append(@, [data |-> sndtask[p], raise |-> TRUE])]
    /\ Go(p, i, "sending")
    /\ UNCHANGED <<circuit, calls, main, woken, working, evt, workerEvt, job, tasks, pktask, sndtask,
                   rcvtask, made, wire>>

\* On the event that PutJob raises, too.
SendDone(p, i) ==
    /\ At(p, i, "sending") /\ workerEvt[p][i]
    /\ workerEvt' = [workerEvt EXCEPT ![p][i] = FALSE]
    /\ Go(p, i, "notify")
    /\ UNCHANGED <<circuit, calls, main, woken, working, evt, job, tasks, pktask, sndtask, rcvtask,
                   made, outbox, wire>>

\* ThreadReceiveData: as many bytes as m_trcvtask says, from the next one on.
ReceiveData(p, i) ==
    /\ At(p, i, "Receive")
    /\ Len(wire[Peer(p)]) >= Len(rcvtask[p])
    /\ wire' = [wire EXCEPT ![Peer(p)] = SubSeq(@, Len(rcvtask[p]) + 1, Len(@))]
    /\ Go(p, i, "notify")
    /\ UNCHANGED <<circuit, calls, main, woken, working, evt, workerEvt, job, tasks, pktask, sndtask,
                   rcvtask, made, outbox>>

\* ThreadNotifyTaskDone: the counter under the lock, the event after it.
Notify(p, i) ==
    /\ At(p, i, "notify")
    /\ working' = [working EXCEPT ![p] = @ - 1]
    /\ Go(p, i, IF working[p] = 1 THEN "raise" ELSE "idle")
    /\ UNCHANGED <<circuit, calls, main, woken, evt, workerEvt, job, tasks, pktask, sndtask, rcvtask,
                   made, outbox, wire>>

RaiseEvent(p, i) ==
    /\ At(p, i, "raise")
    /\ evt' = [evt EXCEPT ![p] = TRUE]
    /\ Go(p, i, "idle")
    /\ UNCHANGED <<circuit, calls, main, woken, working, workerEvt, job, tasks, pktask, sndtask,
                   rcvtask, made, outbox, wire>>

Worker(p, i) ==
    \/ TakeJob(p, i) \/ IKNPDone(p, i) \/ SendData(p, i) \/ SendDone(p, i)
    \/ ReceiveData(p, i) \/ Notify(p, i) \/ RaiseEvent(p, i)

\* The sending thread of the channel.
Transmit(p) ==
    /\ outbox[p] # <<>>
    /\ outbox' = [outbox EXCEPT ![p] = Tail(@)]
    /\ wire' = [wire EXCEPT ![p] = @ \o Head(outbox[p]).data]
    /\ workerEvt' = [workerEvt EXCEPT ![p][0] = @ \/ Head(outbox[p]).raise]
    /\ UNCHANGED <<circuit, calls, main, woken, working, evt, worker, job, tasks, pktask, sndtask,
                   rcvtask, made>>

Init ==
    /\ circuit = [p \in Party |-> 0]
    /\ calls = [p \in Party |-> ConnectAndBaseOTs]
    /\ main = [p \in Party |-> "next"]
    /\ woken = [p \in Party |-> 0]
    /\ working = [p \in Party |-> 0]
    /\ evt = [p \in Party |-> FALSE]
    /\ worker = [p \in Party |-> [i \in Thread |-> "idle"]]
    /\ workerEvt = [p \in Party |-> [i \in Thread |-> FALSE]]
    /\ job = [p \in Party |-> [i \in Thread |-> "undefined"]]
    /\ tasks = [p \in Party |-> [j \in Queue |-> <<>>]]
    /\ pktask = [p \in Party |-> 0]
    /\ sndtask = [p \in Party |-> <<>>]
    /\ rcvtask = [p \in Party |-> <<>>]
    /\ made = [p \in Party |-> {}]
    /\ outbox = [p \in Party |-> <<>>]
    /\ wire = [p \in Party |-> <<>>]

Next ==
    \/ \E p \in Party :
         \/ Main(p) \/ BaseOTs(p) \/ IKNPOTs(p) \/ Transmit(p)
         \/ \E i \in Thread : Worker(p, i)
    \/ \E i \in Thread : PaillierMTs(i)

\* Every thread is scheduled, and the network delivers.
Fairness ==
    /\ \A p \in Party :
        /\ WF_vars(Main(p)) /\ WF_vars(BaseOTs(p)) /\ WF_vars(IKNPOTs(p)) /\ WF_vars(Transmit(p))
        /\ \A i \in Thread : WF_vars(Worker(p, i))
    /\ \A i \in Thread : WF_vars(PaillierMTs(i))

Spec == Init /\ [][Next]_vars /\ Fairness

-------------------------------------------------------------------------------
(***************************************************************************)
(* Properties.                                                             *)
(***************************************************************************)
\* Has been given a job and is not through with it.
Busy(p, i) ==
    \/ worker[p][i] \notin {"idle", "raise"}
    \/ worker[p][i] \in {"idle", "raise"} /\ workerEvt[p][i]

\* The main thread touches what jobs use, the task lists and the one send and
\* one receive task, only while no thread is at a job, whatever events are left
\* raised by earlier jobs and however many threads a job has.
TasksNotShared ==
    \A p \in Party :
        (\/ Returned(p)
         \/ \E op \in {"sndtask", "rcvtask", "sndkey", "rcvkey", "wake", "online"} : Calls(p, op))
        => \A i \in Thread : ~Busy(p, i)

\* Two threads that run an OT together are at the same task of the same
\* sharing, and one has its sender's, the other its receiver's buffers.
OTsPaired ==
    \A p \in Party :
        LET snd == TaskOf(p, Snd)
            rcv == TaskOf(Peer(p), Rcv)
        IN  /\ At(p, Snd, "IKNPOTExt") /\ At(Peer(p), Rcv, "IKNPOTExt") /\ snd # <<>> /\ rcv # <<>>
            => /\ Head(snd).sharing = Head(rcv).sharing
               /\ Head(snd).sends /\ ~Head(rcv).sends

\* The bytes a receive job takes are the ones it is for, though the garbler
\* cuts its tables into windows and the evaluator asks for all at once, and
\* both directions share the channel with the key exchange.
ReceivesItsData ==
    \A p \in Party :
        (\E i \in Thread : At(p, i, "Receive") /\ ~workerEvt[p][i])
        => \A k \in DOMAIN wire[Peer(p)] \cap DOMAIN rcvtask[p] :
                wire[Peer(p)][k] = rcvtask[p][k]

\* When the homomorphic triples of a circuit are made, each was made exactly
\* once by either party, under its own key by exactly one; of an odd number, one
\* triple more is made, and no other.
TriplesDivided ==
    \A p \in Party : Calls(p, "online") /\ pktask[p] > 0 =>
        LET n == pktask[p]
            own(q) == {h.mt : h \in {m \in made[q] : m.own}}
            other(q) == {h.mt : h \in {m \in made[q] : ~m.own}}
        IN  /\ Cardinality(made[p]) = n + (n % 2)
            /\ own(p) \cup other(p) = 0 .. n + (n % 2) - 1
            /\ Calls(Peer(p), "online") /\ pktask[Peer(p)] = n => own(p) = other(Peer(p))

\* Both parties get through the setup of all circuits: no job's wake-up is
\* lost, and neither waits for data the other sends only after it.  The system
\* stops there, and nowhere else.
SetupEnds == <>(\A p \in Party : calls[p] = <<>> /\ circuit[p] = Len(Circuits))
=============================================================================
