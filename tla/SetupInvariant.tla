---------------------------- MODULE SetupInvariant ----------------------------
(***************************************************************************)
(* Why the setup phase is safe: an inductive invariant of SetupThreads, in *)
(* four parts.  SetupProofs proves it; TLC checks it on the instance of    *)
(* MCSetupThreads.                                                         *)
(***************************************************************************)
EXTENDS SetupThreads, SequencesExt

Job == {"NP", "IKNPOTExt", "MTPaillier", "MTDGK", "Send", "Receive"}
Sharing == {"S_BOOL", "S_ARITH", "S_YAO", "S_YAO_REV"}
OTTask == [sharing : Sharing, sends : BOOLEAN]
Bytes == Seq({"S_YAO", "S_YAO_REV", "key"} \X {"table", "univ", "output", "key"} \X Nat)

Increasing(need) == \A k, l \in DOMAIN need.ands : k < l => need.ands[k] < need.ands[l]

\* What is being garbled: no table was sent that was not garbled before.
Garbling ==
    {g \in [op : {"garble"}, sharing : {"S_YAO", "S_YAO_REV"}, need : Need, gate : Nat, sent : Nat] :
        /\ g.gate <= Len(g.need.ands) /\ g.sent <= NumTables(g.need) /\ Increasing(g.need)
        /\ \A k \in DOMAIN g.need.ands : k > g.gate => g.sent < g.need.ands[k]}

Call == [op : {"wait", "sndkey", "rcvkey", "online"}] \cup [op : {"wake"}, job : Job]
          \cup [op : {"sndtask", "rcvtask"}, data : Bytes] \cup Garbling

TypeOK ==
    /\ circuit \in [Party -> 0 .. Len(Circuits)]
    /\ calls \in [Party -> Seq(Call)]
    /\ main \in [Party -> {"next", "wake", "block"}]
    /\ woken \in [Party -> Nat]
    /\ working \in [Party -> Nat]
    /\ evt \in [Party -> BOOLEAN]
    /\ worker \in [Party -> [Thread -> Job \cup {"idle", "sending", "notify", "raise"}]]
    /\ workerEvt \in [Party -> [Thread -> BOOLEAN]]
    /\ job \in [Party -> [Thread -> Job \cup {"undefined"}]]
    /\ tasks \in [Party -> [Queue -> Seq(OTTask)]]
    /\ pktask \in [Party -> Nat]
    /\ sndtask \in [Party -> Bytes]
    /\ rcvtask \in [Party -> Bytes]
    /\ made \in [Party -> SUBSET [mt : Nat, own : BOOLEAN, by : Thread]]
    /\ outbox \in [Party -> Seq([data : Bytes, raise : BOOLEAN])]
    /\ wire \in [Party -> Bytes]

-------------------------------------------------------------------------------
(***************************************************************************)
(* Threads: the counter is the number of threads that are to be woken or   *)
(* are busy, and is written only when there are none.                      *)
(***************************************************************************)
IsWake(c, e) == c.op = "wake" /\ c.job = e
HeadIs(p, op) == calls[p] # <<>> /\ Head(calls[p]).op = op
HeadWakes(p, e) == calls[p] # <<>> /\ IsWake(Head(calls[p]), e)

MTJob == {"MTPaillier", "MTDGK"}
IsMT(c) == c.op = "wake" /\ c.job \in MTJob

\* Whatever is called after c may be d: a wake-up is waited for before anything
\* else but garbling is done, a task is filled for the job it is for, and the
\* OT extension comes first in its circuit, the online phase last.
MayFollow(c, d) ==
    /\ c.op \in {"wake", "garble"} => d.op \in {"wait", "garble"}
    /\ c.op = "sndtask" <=> IsWake(d, "Send")
    /\ c.op = "rcvtask" <=> IsWake(d, "Receive")
    /\ c.op # "online" /\ ~ IsWake(d, "IKNPOTExt")

OrderOK(p) ==
    /\ \A k \in 1 .. Len(calls[p]) - 1 : MayFollow(calls[p][k], calls[p][k+1])
    /\ calls[p] # <<>> => calls[p][Len(calls[p])].op \in
            (IF circuit[p] = 0 THEN {"wait", "rcvkey"} ELSE {"online"})
    /\ \A k, l \in 1 .. Len(calls[p]) : calls[p][k].op = "garble" /\ IsMT(calls[p][l]) => l < k
    /\ circuit[p] = 0 =>
         \A k \in 1 .. Len(calls[p]) : calls[p][k].op # "garble" /\ ~ IsMT(calls[p][k])

ToWake(p) == IF main[p] = "wake" THEN ThreadsFor(Head(calls[p]).job) - woken[p] ELSE 0

CounterOK(p) == working[p] = Cardinality({i \in Thread : Busy(p, i)}) + ToWake(p)

MainOK(p) ==
    /\ main[p] = "wake" =>
         /\ HeadIs(p, "wake")
         /\ woken[p] < ThreadsFor(Head(calls[p]).job)
         /\ \A i \in Thread : Busy(p, i) => i < woken[p]
    /\ main[p] = "block" => HeadIs(p, "wait")
    /\ main[p] = "next" =>
         HeadIs(p, "wait") \/ HeadIs(p, "garble") \/ \A i \in Thread : ~ Busy(p, i)

\* Raised by the channel when it has sent what the job gave it.
Raises(p) == {k \in DOMAIN outbox[p] : outbox[p][k].raise}

JobsOK(p) ==
    /\ \A i \in Thread :
         /\ worker[p][i] \in Job \cup {"notify"} => ~ workerEvt[p][i]
         /\ worker[p][i] # "idle" \/ workerEvt[p][i] => job[p][i] \in Job
         /\ worker[p][i] \in {"Send", "Receive", "sending"} => i = 0
         /\ workerEvt[p][i] /\ job[p][i] \in {"Send", "Receive"} => i = 0
    /\ worker[p][0] = "sending" /\ ~ workerEvt[p][0] <=> Raises(p) # {}
    /\ \A k, l \in Raises(p) : k = l

ThreadsOK(p) == OrderOK(p) /\ CounterOK(p) /\ MainOK(p) /\ JobsOK(p)

\* PutJobs has reached thread i.
Woken(p, i) == main[p] = "wake" /\ i < woken[p]

\* Thread i is to do job e, or does it.
HasJob(p, i, e) ==
    \/ worker[p][i] = e
    \/ worker[p][i] \in {"idle", "raise"} /\ workerEvt[p][i] /\ job[p][i] = e

-------------------------------------------------------------------------------
(***************************************************************************)
(* OT tasks: both parties fill a queue for the same circuit alike and take *)
(* from it together; one of them can only be ahead over empty queues.      *)
(***************************************************************************)
Sharings(list) == [k \in DOMAIN list |-> list[k].sharing]
TasksFor(p, j, k) == OTTasks(p, Circuits[k], j)
ThreadOf(p, j) == IF p = "SERVER" THEN j ELSE 1 - j

\* Thread i is still to extend OTs, or does.
ToExtend(p, i) == (HeadWakes(p, "IKNPOTExt") /\ ~ Woken(p, i)) \/ HasJob(p, i, "IKNPOTExt")

TasksOK(p) ==
    \A j \in Queue :
        /\ \A k \in DOMAIN tasks[p][j] : tasks[p][j][k].sends <=> j = Role(p)
        /\ tasks[p][j] # <<>> => ToExtend(p, ThreadOf(p, j))
        /\ circuit[p] = 0 => tasks[p][j] = <<>>

QueuesAgree ==
    \A j \in Queue :
        /\ circuit["SERVER"] = circuit["CLIENT"] =>
             Sharings(tasks["SERVER"][j]) = Sharings(tasks["CLIENT"][j])
        /\ \A p \in Party : circuit[p] > circuit[Peer(p)] =>
             /\ tasks[Peer(p)][j] = <<>>
             /\ tasks[p][j] = TasksFor(p, j, circuit[p])
             /\ \A k \in circuit[Peer(p)] + 1 .. circuit[p] - 1 : TasksFor(p, j, k) = <<>>

-------------------------------------------------------------------------------
(***************************************************************************)
(* Homomorphic triples: those of the threads that are through.             *)
(***************************************************************************)
MadeBy(p, n, i) ==
    {[mt |-> h.mt, own |-> (h.second = (p = "CLIENT")), by |-> i] :
        h \in Half(n, i, FALSE) \cup Half(n, i, TRUE)}

SomeMT(list) == \E k \in 1 .. Len(list) : IsMT(list[k])
HeadMT(p) == IsMT(Head(calls[p]))

\* Thread i is still to be woken for its triples ...
Ahead(p, i) == SomeMT(calls[p]) /\ ~ (HeadMT(p) /\ Woken(p, i))

\* ... or has not made them yet.
HasMT(p, i) == \E e \in MTJob : HasJob(p, i, e)
ToMake(p, i) == Ahead(p, i) \/ HasMT(p, i)

MadeOK(p) ==
    /\ \A k, l \in 1 .. Len(calls[p]) : IsMT(calls[p][k]) /\ IsMT(calls[p][l]) => k = l
    /\ \A i \in Thread : ~ (Ahead(p, i) /\ HasMT(p, i))
    /\ circuit[p] > 0 /\ calls[p] # <<>> /\ MTGenAlg # "MT_OT" =>
         made[p] = UNION {MadeBy(p, pktask[p], i) : i \in {t \in Thread : ~ ToMake(p, t)}}
    /\ MTGenAlg = "MT_OT" => pktask[p] = 0

-------------------------------------------------------------------------------
(***************************************************************************)
(* Transfers: what a party has sent and is still to send, and what its     *)
(* peer has received and is still to receive, are beginnings of one        *)
(* stream.                                                                 *)
(***************************************************************************)
Key == <<<<"key", "key", 1>>>>
Garbled(p) == IF p = "SERVER" THEN "S_YAO" ELSE "S_YAO_REV"

\* What follows the tables of the AND gates.
AfterTables(y, need) == UnivTables(y, need.univ) \o Outputs(y, need.outs)

SentBy(c) ==
    IF c.op = "sndkey" THEN Key
    ELSE IF c.op = "sndtask" THEN c.data
    ELSE IF c.op = "garble"
    THEN Tables(c.sharing, c.sent, NumTables(c.need)) \o AfterTables(c.sharing, c.need)
    ELSE <<>>

ReceivedBy(c) == IF c.op = "rcvkey" THEN Key ELSE IF c.op = "rcvtask" THEN c.data ELSE <<>>

AllSent(list) == FlattenSeq([k \in DOMAIN list |-> SentBy(list[k])])
AllReceived(list) == FlattenSeq([k \in DOMAIN list |-> ReceivedBy(list[k])])
AllQueued(list) == FlattenSeq([k \in DOMAIN list |-> list[k].data])

\* In the send or the receive task, for a job not begun.
Loaded(p) == IF HeadWakes(p, "Send") \/ HasJob(p, 0, "Send") THEN sndtask[p] ELSE <<>>
Awaited(p) == IF HeadWakes(p, "Receive") \/ HasJob(p, 0, "Receive") THEN rcvtask[p] ELSE <<>>

\* What p sends before the first circuit, and for circuit c.
FirstSent == IF MTGenAlg = "MT_PAILLIER" THEN Key ELSE <<>>
CircuitSent(p, c) ==
    LET need == YaoNeed(c, Garbled(p))
    IN  (IF MTGenAlg = "MT_DGK" /\ c.muls > 0 THEN Key ELSE <<>>)
          \o Tables(Garbled(p), 0, NumTables(need)) \o AfterTables(Garbled(p), need)

\* What p sends up to circuit k.
Stream(p, k) == FirstSent \o FlattenSeq([l \in 1 .. k |-> CircuitSent(p, Circuits[l])])

\* What is sent and not yet received, or still to be sent; what is still to be
\* received.
Pending(p) == wire[p] \o (AllQueued(outbox[p]) \o (Loaded(p) \o AllSent(calls[p])))
Expected(p) == Awaited(p) \o AllReceived(calls[p])

\* a and b begin alike; then e is left of a, and d of b.
BeginAlike(a, e, b, d) ==
    \E n \in 0 .. Len(a) : LET got == SubSeq(a, 1, n) IN a = got \o e /\ b = got \o d

StreamOK(p) ==
    BeginAlike(Stream(p, circuit[Peer(p)]), Expected(Peer(p)), Stream(p, circuit[p]), Pending(p))

-------------------------------------------------------------------------------
TInv == TypeOK /\ \A p \in Party : ThreadsOK(p)
QInv == TInv /\ QueuesAgree /\ \A p \in Party : TasksOK(p)
MInv == TInv /\ \A p \in Party : MadeOK(p)
RInv == TInv /\ \A p \in Party : StreamOK(p)

SInv == QInv /\ MInv /\ RInv
===============================================================================
