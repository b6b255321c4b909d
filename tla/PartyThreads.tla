---------------------------- MODULE PartyThreads ----------------------------
(***************************************************************************)
(* The threads of ABYParty during the online phase, at both parties:       *)
(* EvaluateCircuit() runs the layers on the main thread and, after each,   *)
(* hands the exchange of messages to two worker threads, one that sends    *)
(* and one that receives (PerformInteraction), and waits for both.  At the *)
(* end Cleanup() stops them.                                               *)
(*                                                                         *)
(* CEvent and the channels are external (ENCRYPTO_utils): an event is a    *)
(* flag that Set raises and a successful Wait lowers; blocking_send queues *)
(* the buffer for the sending thread, which raises the caller's event once *)
(* it is on the wire.                                                      *)
(***************************************************************************)
EXTENDS Integers, FiniteSets, Sequences

CONSTANTS
    Layers,       \* number of circuit layers evaluated
    Capacity,     \* messages the wire holds in each direction
    Traffics      \* which layers of which party have data to send

Party == {"SERVER", "CLIENT"}
Peer(p) == IF p = "SERVER" THEN "CLIENT" ELSE "SERVER"
Layer == 1 .. Layers
Worker == {0, 1}
Sender == 0
Receiver == 1

ASSUME ThreadsAssumption ==
    /\ Layers \in Nat /\ Capacity \in Nat \ {0}
    /\ Traffics \subseteq [Party -> [Layer -> BOOLEAN]]

VARIABLES
    traffic,      \* traffic[p][d]: party p sends something in layer d
    layer,        \* m_nDepth + 1
    main,         \* where the main thread is
    working,      \* m_nWorkingThreads
    evt,          \* m_evt of the party
    worker,       \* where each worker thread is
    workerEvt,    \* each worker's own m_evt
    job,          \* each worker's m_eJob
    outbox,       \* layers whose message waits for the sending thread
    wire,         \* layers whose message is on the way to the peer
    stopped       \* workers that have been joined

vars == <<traffic, layer, main, working, evt, worker, workerEvt, job, outbox,
          wire, stopped>>

(***************************************************************************)
(* The main thread.                                                        *)
(***************************************************************************)

GoMain(p, from, to) == main[p] = from /\ main' = [main EXCEPT ![p] = to]

\* Mutant: the counter is set for one worker.
OneWoken == 1

Woken == Cardinality(Worker)

\* Local and interactive operations of the layer, then WakeupWorkerThreads
\* writes the counter, without the lock.
Evaluate(p) ==
    /\ layer[p] \in Layer
    /\ GoMain(p, "evaluate", "wakeSender")
    /\ working' = [working EXCEPT ![p] = Woken]
    /\ UNCHANGED <<traffic, layer, evt, worker, workerEvt, job, outbox, wire, stopped>>

\* PutJob, under the worker's job mutex.
PutJob(p, i, e) ==
    /\ job' = [job EXCEPT ![p][i] = e]
    /\ workerEvt' = [workerEvt EXCEPT ![p][i] = TRUE]

WakeSender(p) ==
    /\ GoMain(p, "wakeSender", "wakeReceiver")
    /\ PutJob(p, Sender, "comm")
    /\ UNCHANGED <<traffic, layer, working, evt, worker, outbox, wire, stopped>>

WakeReceiver(p) ==
    /\ GoMain(p, "wakeReceiver", "check")
    /\ PutJob(p, Receiver, "comm")
    /\ UNCHANGED <<traffic, layer, working, evt, worker, outbox, wire, stopped>>

\* WaitWorkerThreads: read the counter under the lock ...
AllNotified(p) ==
    /\ working[p] = 0
    /\ GoMain(p, "check", "finish")
    /\ UNCHANGED <<traffic, layer, working, evt, worker, workerEvt, job, outbox, wire, stopped>>

StillWorking(p) ==
    /\ working[p] > 0
    /\ GoMain(p, "check", "block")
    /\ UNCHANGED <<traffic, layer, working, evt, worker, workerEvt, job, outbox, wire, stopped>>

\* Mutant: waking up is taken to mean that the workers are done.
TrustEvent == "finish"

AfterEvent == "check"

\* ... and wait for the event, which may be left from an earlier layer.
WaitEvent(p) ==
    /\ evt[p]
    /\ GoMain(p, "block", AfterEvent)
    /\ evt' = [evt EXCEPT ![p] = FALSE]
    /\ UNCHANGED <<traffic, layer, working, worker, workerEvt, job, outbox, wire, stopped>>

\* FinishCircuitLayer of every sharing, on what was received.
FinishLayer(p) ==
    /\ GoMain(p, "finish", "evaluate")
    /\ layer' = [layer EXCEPT ![p] = @ + 1]
    /\ UNCHANGED <<traffic, working, evt, worker, workerEvt, job, outbox, wire, stopped>>

\* Cleanup stops and joins the workers one after the other.
Stop(p, i) ==
    /\ layer[p] = Layers + 1
    /\ i \notin stopped[p]
    /\ \A j \in Worker : j < i => j \in stopped[p]
    /\ GoMain(p, "evaluate", "join")
    /\ PutJob(p, i, "stop")
    /\ UNCHANGED <<traffic, layer, working, evt, worker, outbox, wire, stopped>>

Join(p, i) ==
    /\ i \notin stopped[p]
    /\ worker[p][i] = "exit"
    /\ GoMain(p, "join", "evaluate")
    /\ stopped' = [stopped EXCEPT ![p] = @ \cup {i}]
    /\ UNCHANGED <<traffic, layer, working, evt, worker, workerEvt, job, outbox, wire>>

Main(p) ==
    \/ Evaluate(p) \/ WakeSender(p) \/ WakeReceiver(p)
    \/ AllNotified(p) \/ StillWorking(p) \/ WaitEvent(p) \/ FinishLayer(p)
    \/ \E i \in Worker : Stop(p, i) \/ Join(p, i)

(***************************************************************************)
(* The worker threads.                                                     *)
(***************************************************************************)

GoWorker(p, i, from, to) == worker[p][i] = from /\ worker' = [worker EXCEPT ![p][i] = to]

\* Mutant: the event stays raised until it is raised again.
StaysRaised(p, i) == workerEvt

Lowered(p, i) == [workerEvt EXCEPT ![p][i] = FALSE]

WaitJob(p, i) ==
    /\ workerEvt[p][i]
    /\ GoWorker(p, i, "idle", "job")
    /\ workerEvt' = Lowered(p, i)
    /\ UNCHANGED <<traffic, layer, main, working, evt, job, outbox, wire, stopped>>

ReadJob(p, i) ==
    /\ GoWorker(p, i, "job", IF job[p][i] = "stop" THEN "exit"
                             ELSE IF i = Sender THEN "send" ELSE "receive")
    /\ UNCHANGED <<traffic, layer, main, working, evt, workerEvt, job, outbox, wire, stopped>>

\* ThreadSendValues: collect the sharings' buffers; nothing is sent if they
\* are empty.
Send(p) ==
    /\ GoWorker(p, Sender, "send", IF traffic[p][layer[p]] THEN "sending" ELSE "notify")
    /\ outbox' = [outbox EXCEPT ![p] = IF traffic[p][layer[p]] THEN Append(@, layer[p]) ELSE @]
    /\ UNCHANGED <<traffic, layer, main, working, evt, workerEvt, job, wire, stopped>>

\* The worker waits on the same event that PutJob raises.
SendDone(p) ==
    /\ workerEvt[p][Sender]
    /\ GoWorker(p, Sender, "sending", "notify")
    /\ workerEvt' = Lowered(p, Sender)
    /\ UNCHANGED <<traffic, layer, main, working, evt, job, outbox, wire, stopped>>

\* Mutant: the receiver expects what its own party sends.
ExpectsOwn(p) == traffic[p][layer[p]]

Expects(p) == traffic[Peer(p)][layer[p]]

\* ThreadReceiveValues: the circuit tells how much the peer sends.
Receive(p) ==
    /\ GoWorker(p, Receiver, "receive", "notify")
    /\ IF Expects(p)
       THEN /\ wire[Peer(p)] # << >>
            /\ wire' = [wire EXCEPT ![Peer(p)] = Tail(@)]
       ELSE UNCHANGED wire
    /\ UNCHANGED <<traffic, layer, main, working, evt, workerEvt, job, outbox, stopped>>

\* Mutant: only the first of the two workers to finish raises the event.
RaiseAtFirst(n) == n = 1

LastToNotify(n) == n = 0

\* ThreadNotifyTaskDone: the counter under the lock, the event after it.
Notify(p, i) ==
    /\ GoWorker(p, i, "notify", IF LastToNotify(working[p] - 1) THEN "raise" ELSE "idle")
    /\ working' = [working EXCEPT ![p] = @ - 1]
    /\ UNCHANGED <<traffic, layer, main, evt, workerEvt, job, outbox, wire, stopped>>

RaiseEvent(p, i) ==
    /\ GoWorker(p, i, "raise", "idle")
    /\ evt' = [evt EXCEPT ![p] = TRUE]
    /\ UNCHANGED <<traffic, layer, main, working, workerEvt, job, outbox, wire, stopped>>

WorkerStep(p, i) ==
    \/ WaitJob(p, i) \/ ReadJob(p, i) \/ Notify(p, i) \/ RaiseEvent(p, i)
    \/ i = Sender /\ (Send(p) \/ SendDone(p))
    \/ i = Receiver /\ Receive(p)

\* The sending thread of the channel: the buffer is on the wire before the
\* event of the thread that waits in blocking_send is raised.
Transmit(p) ==
    /\ outbox[p] # << >>
    /\ Len(wire[p]) < Capacity
    /\ outbox' = [outbox EXCEPT ![p] = Tail(@)]
    /\ wire' = [wire EXCEPT ![p] = Append(@, Head(outbox[p]))]
    /\ workerEvt' = [workerEvt EXCEPT ![p][Sender] = TRUE]
    /\ UNCHANGED <<traffic, layer, main, working, evt, worker, job, stopped>>

Terminated ==
    /\ \A p \in Party : stopped[p] = Worker
    /\ UNCHANGED vars

Init ==
    /\ traffic \in Traffics
    /\ layer = [p \in Party |-> 1]
    /\ main = [p \in Party |-> "evaluate"]
    /\ working = [p \in Party |-> 0]
    /\ evt = [p \in Party |-> FALSE]
    /\ worker = [p \in Party |-> [i \in Worker |-> "idle"]]
    /\ workerEvt = [p \in Party |-> [i \in Worker |-> FALSE]]
    /\ job = [p \in Party |-> [i \in Worker |-> "undefined"]]
    /\ outbox = [p \in Party |-> << >>]
    /\ wire = [p \in Party |-> << >>]
    /\ stopped = [p \in Party |-> {}]

Next ==
    \/ \E p \in Party :
         \/ Main(p)
         \/ \E i \in Worker : WorkerStep(p, i)
         \/ Transmit(p)
    \/ Terminated

\* Every thread is scheduled: the operating system preempts but starves none.
Fairness ==
    \A p \in Party :
        /\ WF_vars(Main(p))
        /\ \A i \in Worker : WF_vars(WorkerStep(p, i))
        /\ WF_vars(Transmit(p))

Spec == Init /\ [][Next]_vars /\ Fairness

(***************************************************************************)
(* Properties.                                                             *)
(***************************************************************************)

TypeOK ==
    /\ traffic \in Traffics
    /\ layer \in [Party -> 1 .. Layers + 1]
    /\ main \in [Party -> {"evaluate", "wakeSender", "wakeReceiver", "check",
                           "block", "finish", "join"}]
    /\ working \in [Party -> 0 .. 2]
    /\ evt \in [Party -> BOOLEAN]
    /\ worker \in [Party -> [Worker -> {"idle", "job", "send", "sending", "receive",
                                        "notify", "raise", "exit"}]]
    /\ workerEvt \in [Party -> [Worker -> BOOLEAN]]
    /\ job \in [Party -> [Worker -> {"undefined", "comm", "stop"}]]
    /\ outbox \in [Party -> Seq(Layer)]
    /\ wire \in [Party -> Seq(Layer)]
    /\ stopped \in [Party -> SUBSET Worker]

\* Worker i works on the sharings' buffers.
UsesBuffers(p, i) == worker[p][i] \in {"send", "sending", "receive", "notify"}

\* The main thread evaluates and finishes layers only while no worker is
\* inside ThreadSendValues or ThreadReceiveValues: an event left raised by an
\* earlier layer never lets it run ahead.
BuffersNotShared ==
    \A p \in Party : main[p] \in {"evaluate", "finish"} =>
        \A i \in Worker : ~ UsesBuffers(p, i)

\* Worker i has been given a job of this layer and has not counted down.
Assigned(p, i) ==
    \/ worker[p][i] \in {"job", "send", "sending", "receive", "notify"}
    \/ worker[p][i] \in {"idle", "raise"} /\ workerEvt[p][i]

\* The counter, written without the lock and counted down with it, is the
\* number of workers still to be woken or busy: no count-down is lost to the
\* next layer's reset.
CounterExact ==
    \A p \in Party : main[p] # "join" =>
        working[p] = Cardinality(
            {i \in Worker : \/ Assigned(p, i)
                            \/ main[p] = "wakeSender"
                            \/ main[p] = "wakeReceiver" /\ i = Receiver})

\* PutJob and the sending thread raise the same event; a worker that waits
\* for its message to be sent is only woken when it is on the wire.
WokenBySendOnly ==
    \A p \in Party : worker[p][Sender] = "sending" =>
        (workerEvt[p][Sender] <=> outbox[p] = << >>)

\* The next message on the wire is the peer's message of the very layer that
\* the receiver is in, even when one party is a layer ahead.
ReceivesOwnLayer ==
    \A p \in Party :
        worker[p][Receiver] = "receive" /\ traffic[Peer(p)][layer[p]]
          /\ wire[Peer(p)] # << >> => Head(wire[Peer(p)]) = layer[p]

\* Both parties get through all layers and stop their threads, however small
\* the wire: no wake-up is lost and no worker waits for the other party's
\* worker in a circle.
BothFinish == <>(\A p \in Party : stopped[p] = Worker)
=============================================================================
