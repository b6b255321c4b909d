------------------------------- MODULE AbyLayers -------------------------------
(***************************************************************************)
(* The evaluation of circuits on shares, at both parties, from the setup   *)
(* phase over the layers to Reset and the next circuit of the process:     *)
(* ABYParty::ExecCircuit and the sharings it drives.  Every layer lets     *)
(* each sharing evaluate its gates, exchanges the bytes of all sharings    *)
(* in each direction, and lets each finish.                                *)
(***************************************************************************)
EXTENDS ClearValues, CircuitShape

CONSTANTS
    KeyBits,
    Workloads,          \* of processes: the circuits one evaluates, in order
    Seeds               \* of the random bits

Circuits == UNION {ToSet(w) : w \in Workloads}

\* The circuits are made with the operators of CircuitBuilder.
ASSUME WorkloadsAssumption ==
    /\ \A w \in Workloads : w \in Seq(Circuits)
    /\ \A c \in Circuits : WellFormed(c) /\ UsesConversions(c)

VARIABLES
    load,        \* the circuits the process has yet to build
    run,         \* the number of the circuit it is at
    step,        \* by party: what it does next
    todo,        \* by party: its communication threads that are not done
    share,       \* by party: its gates and its sharings
    wire         \* by party: what it sent and is not received, by sharing

vars == <<load, run, circ, seed, clear, step, todo, depth, share, wire>>

Bool == INSTANCE BoolSharing
Arith == INSTANCE ArithSharing
Garbling == INSTANCE YaoServerSharing
Evaluation == INSTANCE YaoClientSharing
Lut == INSTANCE SetupLUT

Garbles(p, x) == p = Garbling!Garbler(x)

\* Of the object x at p: the roles in the other Yao object are swapped.
RoleIn(p, x) == IF x = "YAO_REV" THEN Other(p) ELSE p

\* GetMaxCommunicationRounds: the last tables of SPLUT are sent a layer later.
MaxDepth(c) == Max({c.maxdepth[x] + (IF x = "SPLUT" THEN 1 ELSE 0) : x \in ToSet(Sharings)})

-------------------------------------------------------------------------------
(***************************************************************************)
(* The setup phase.                                                        *)
(***************************************************************************)
NewYao(p, x, old) ==
    IF Garbles(p, x) THEN Garbling!NewGarbler(old) ELSE Evaluation!NewEvaluator(old)

\* What is left of the circuit before: see Reset.
NewShare(p, given, left) ==
    [nused |-> Listed([i \in Gates |-> Gate(i).nused]),
     live |-> Listed([i \in Gates |-> Gate(i).type = "SHARED_IN"]),
     val |-> given, stale |-> FALSE,
     bool |-> Bool!NewBool(circ, DOMAIN left.bool.lutGates), arith |-> Arith!NewArith,
     lut |-> Lut!NewLut(circ, p),
     yao |-> [x \in Yao |-> NewYao(p, x, left.yao[x])]]

OwnCircuit(p) == CHOOSE x \in Yao : Garbles(p, x)

\* Each garbles one circuit, and gets the other's.
PerformSetup(p) == Garbling!PerformSetupPhase(OwnCircuit(p), NewShare(p, share[p].val, share[p]))

ReceiveGarbled(p, s, other) ==
    LET x == OwnCircuit(Other(p))
    IN  Evaluation!FinishSetupPhase(x, s, other.yao[x], Garbling!OutputShares(x, other))

-------------------------------------------------------------------------------
(***************************************************************************)
(* What a layer asks of a sharing.                                         *)
(***************************************************************************)
EvaluateOperations(p, s, x) ==
    CASE x = "BOOL" ->
            Once(LAMBDA t : Bool!EvaluateInteractiveOperations(p, t), Bool!EvaluateLocalOperations(p, s))
      [] x = "ARITH" ->
            Once(LAMBDA t : Arith!EvaluateInteractiveOperations(p, t), Arith!EvaluateLocalOperations(p, s))
      [] x = "SPLUT" ->
            Once(LAMBDA t : Lut!EvaluateInteractiveOperations(p, t), Lut!EvaluateLocalOperations(p, s))
      [] x \in Yao /\ Garbles(p, x) -> Garbling!EvaluateOperations(x, s)
      [] x \in Yao /\ ~Garbles(p, x) -> Evaluation!EvaluateOperations(x, s)

DataToSend(p, s, x) ==
    CASE x = "BOOL" -> Bool!GetDataToSend(s)
      [] x = "ARITH" -> Arith!GetDataToSend(p, s)
      [] x = "SPLUT" -> Lut!GetDataToSend(s)
      [] x \in Yao /\ Garbles(p, x) -> Garbling!GetDataToSend(x, s)
      [] x \in Yao /\ ~Garbles(p, x) -> Evaluation!GetDataToSend(x, s)

BuffersToReceive(p, s, x) ==
    CASE x = "BOOL" -> Bool!GetBuffersToReceive(s)
      [] x = "ARITH" -> Arith!GetBuffersToReceive(p, s)
      [] x = "SPLUT" -> Lut!GetBuffersToReceive(s)
      [] x \in Yao /\ Garbles(p, x) -> Garbling!GetBuffersToReceive(x, s)
      [] x \in Yao /\ ~Garbles(p, x) -> Evaluation!GetBuffersToReceive(x, s)

\* What taking the data to send changes.
DataSent(p, s, x) ==
    CASE x \in {"BOOL", "ARITH"} -> s
      [] x = "SPLUT" -> Lut!DataSent(s)
      [] x \in Yao /\ Garbles(p, x) -> Garbling!DataSent(x, s)
      [] x \in Yao /\ ~Garbles(p, x) -> Evaluation!DataSent(x, s)

\* Hands the data to the buffers of the sharing.
Receive(s, x, data) ==
    CASE x = "BOOL" -> [s EXCEPT !.bool.rcv = data]
      [] x = "ARITH" -> [s EXCEPT !.arith.rcv = data]
      [] x = "SPLUT" -> [s EXCEPT !.lut.rcv = data]
      [] x \in Yao -> [s EXCEPT !.yao[x].rcv = data]

FinishLayer(p, s, x) ==
    CASE x = "BOOL" -> Bool!FinishCircuitLayer(p, s)
      [] x = "ARITH" -> Arith!FinishCircuitLayer(p, s)
      [] x = "SPLUT" -> Lut!FinishCircuitLayer(p, s)
      [] x \in Yao /\ Garbles(p, x) -> Garbling!FinishCircuitLayer(x, s)
      [] x \in Yao /\ ~Garbles(p, x) -> Evaluation!FinishCircuitLayer(x, s)

AllSharings(s, Op(_, _)) == Through(Op, s, Sharings)

HasBytes(x, sizes) ==
    CASE x = "BOOL" -> ~Bool!IsEmpty(sizes)
      [] x = "ARITH" -> ~Arith!IsEmpty(sizes)
      [] x = "SPLUT" -> ~Lut!IsEmpty(sizes)
      [] x \in Yao -> \E part \in DOMAIN sizes : sizes[part] # 0

\* What a sharing sends, and which layer's it is; the layer is not sent.
Packet(x, data, layer) == [sharing |-> x, data |-> data, depth |-> layer]

\* The bytes of a layer, those that SPLUT stashed in the layer before among
\* them, and the bytes that are awaited; what is empty leaves no trace in them.
MessageOf(p) ==
    Selected(Listed([k \in DOMAIN Sharings |->
                        Packet(Sharings[k], DataToSend(p, share[p], Sharings[k]), depth[p])]),
              LAMBDA m : m.sharing # "SPLUT" /\ HasBytes(m.sharing, m.data.sizes))
    \o Selected(<<Packet("SPLUT", Lut!StashToSend(share[p]), depth[p] - 1),
                   Packet("SPLUT", Lut!GetDataToSend(share[p]), depth[p])>>,
                 LAMBDA m : HasBytes(m.sharing, m.data.sizes))

AwaitedOf(p) ==
    Selected(Listed([k \in DOMAIN Sharings |->
                        <<Sharings[k], BuffersToReceive(p, share[p], Sharings[k])>>]),
              LAMBDA a : HasBytes(a[1], a[2]))

-------------------------------------------------------------------------------
(***************************************************************************)
(* The parties.                                                            *)
(***************************************************************************)
Before == [bool |-> [lutGates |-> <<>>], yao |-> [x \in Yao |-> [keyCtr |-> 0, rcvGates |-> <<>>]]]

Init ==
    /\ load \in Workloads /\ run = 0 /\ circ = EmptyCircuit /\ seed \in Seeds
    /\ clear = <<>>
    /\ step = [p \in Party |-> "reset"]
    /\ todo = [p \in Party |-> {}]
    /\ depth = [p \in Party |-> 0]
    /\ share = [p \in Party |-> Before]
    /\ wire = [p \in Party |-> <<>>]

\* Mutant: the last layer is left out.
AtDepthTooEarly(d) == IF d + 1 < MaxDepth(circ) THEN "evaluate" ELSE "synchronize"

\* The next layer, or none is left.
AtDepth(d) == IF d < MaxDepth(circ) THEN "evaluate" ELSE "synchronize"

\* The application puts the gates of its next circuit, with its inputs, at both.
Build ==
    /\ \A p \in Party : step[p] = "reset"
    /\ load # <<>>
    /\ load' = Tail(load)
    /\ run' = run + 1
    /\ circ' = Head(load)
    /\ \E c \in {Head(load)} : \E input \in Inputs(c) :
           /\ clear' = Clear(c, input)
           /\ share' = [p \in Party |-> [bool |-> share[p].bool, yao |-> share[p].yao,
                  val |-> [i \in DOMAIN c.gates |->
                      IF c.gates[i].type = "SHARED_IN" THEN GivenShare(c, input, p, i) ELSE <<>>]]]
    /\ step' = [p \in Party |-> "setup"]
    /\ UNCHANGED <<seed, todo, depth, wire>>

\* The setup phase of both: OTs, triples, tables, garbled circuits.
PerformSetupPhase ==
    /\ \A p \in Party : step[p] = "setup"
    /\ \E new \in {[SERVER |-> PerformSetup("SERVER"), CLIENT |-> PerformSetup("CLIENT")]} :
           share' = [p \in Party |-> ReceiveGarbled(p, new[p], new[Other(p)])]
    /\ step' = [p \in Party |-> AtDepth(0)]
    /\ UNCHANGED <<load, run, circ, seed, clear, todo, depth, wire>>

\* The gates of the layer, sharing by sharing.
Evaluate(p) ==
    /\ step[p] = "evaluate"
    /\ share' = [share EXCEPT ![p] = AllSharings(@, LAMBDA s, x : EvaluateOperations(p, s, x))]
    /\ step' = [step EXCEPT ![p] = "interact"]
    /\ todo' = [todo EXCEPT ![p] = {"send", "receive"}]
    /\ UNCHANGED <<load, run, circ, seed, clear, depth, wire>>

ThreadSendValues(p) ==
    /\ "send" \in todo[p]
    /\ \E m \in {MessageOf(p)} :
           wire' = [wire EXCEPT ![p] = @ \o m]
    /\ share' = [share EXCEPT ![p] = AllSharings(@, LAMBDA s, x : DataSent(p, s, x))]
    /\ todo' = [todo EXCEPT ![p] = @ \ {"send"}]
    /\ UNCHANGED <<load, run, circ, seed, clear, step, depth>>

\* The channel is a stream: a party takes as many bytes as it awaits.
Matches(packet, awaited) == packet.sharing = awaited[1] /\ packet.data.sizes = awaited[2]

ThreadReceiveValues(p) ==
    /\ "receive" \in todo[p]
    /\ \E awaited \in {AwaitedOf(p)} :
           LET n == Len(awaited)
               sent == wire[Other(p)]
           IN  /\ Len(sent) >= n
               /\ \A k \in 1 .. n : Matches(sent[k], awaited[k])
               /\ share' = [share EXCEPT ![p] =
                      Through(LAMBDA s, k : Receive(s, sent[k].sharing, sent[k].data), @,
                              [k \in 1 .. n |-> k])]
               /\ wire' = [wire EXCEPT ![Other(p)] = SubSeq(@, n + 1, Len(@))]
    /\ todo' = [todo EXCEPT ![p] = @ \ {"receive"}]
    /\ UNCHANGED <<load, run, circ, seed, clear, step, depth>>

\* A load through the null pointer whose value nothing uses may crash, or be
\* optimised away.
AfterLayer(p) ==
    {AtDepth(depth[p] + 1)} \cup (IF Bool!NoTables(share[p]) THEN {"crashed"} ELSE {})

FinishCircuitLayer(p) ==
    /\ step[p] = "interact" /\ todo[p] = {}
    /\ share' = [share EXCEPT ![p] = AllSharings(@, LAMBDA s, x : FinishLayer(p, s, x))]
    /\ depth' = [depth EXCEPT ![p] = @ + 1]
    /\ \E next \in AfterLayer(p) : step' = [step EXCEPT ![p] = next]
    /\ UNCHANGED <<load, run, circ, seed, clear, todo, wire>>

\* synchronize_end: no one leaves before both are through.
Synchronize(p) ==
    /\ step[p] = "synchronize"
    /\ step[Other(p)] \in {"synchronize", "done", "reset"}
    /\ step' = [step EXCEPT ![p] = "done"]
    /\ UNCHANGED <<load, run, circ, seed, clear, todo, depth, share, wire>>

\* The values the application has read stay in the record, and what Reset does
\* not reset: see NewShare.
Reset(p) ==
    /\ step[p] = "done"
    /\ share' = [share EXCEPT ![p].live = [i \in Gates |-> FALSE]]
    /\ depth' = [depth EXCEPT ![p] = 0]
    /\ step' = [step EXCEPT ![p] = "reset"]
    /\ UNCHANGED <<load, run, circ, seed, clear, todo, wire>>

\* The application is through.
Exit ==
    /\ \A p \in Party : step[p] = "reset"
    /\ load = <<>>
    /\ UNCHANGED vars

Next ==
    \/ Build \/ PerformSetupPhase \/ Exit
    \/ \E p \in Party :
        \/ Evaluate(p) \/ ThreadSendValues(p) \/ ThreadReceiveValues(p)
        \/ FinishCircuitLayer(p) \/ Synchronize(p) \/ Reset(p)

Spec == Init /\ [][Next]_vars

-------------------------------------------------------------------------------
(***************************************************************************)
(* Properties.                                                             *)
(***************************************************************************)
\* The circuit is there, and its setup phase is through.
InCircuit == run > 0 /\ \A p \in Party : step[p] # "setup"

\* The parties' progress and records are of their types; triples are taken
\* from the start of a byte in every layer, as the byte-wise EvaluateMTs needs.
TypeOK ==
    /\ run \in Nat /\ seed \in Seeds
    /\ step \in [Party ->
           {"reset", "setup", "evaluate", "interact", "synchronize", "done", "crashed"}]
    /\ todo \in [Party -> SUBSET {"send", "receive"}]
    /\ InCircuit => \A p \in Party :
        /\ depth[p] \in 0 .. MaxDepth(circ)
        /\ share[p].live \in [Gates -> BOOLEAN]
        /\ \A i \in Gates : Len(share[p].val[i]) \in {0, Gate(i).nvals}
        /\ \A k \in DOMAIN circ.ands : share[p].bool.mtStartIdx[k] % 8 = 0

\* Behind the sum of two shares in a garbled circuit, whose bits are no bits of
\* the number before they are added.
BehindShares ==
    Through(LAMBDA behind, i :
        IF \/ Gate(i).type = "CONV" /\ Gate(i).context \in Yao
                /\ Gate(Gate(i).ins[1]).context = "ARITH"
           \/ ToSet(Gate(i).ins) \cap behind # {}
        THEN behind \cup {i} ELSE behind, {}, [i \in Gates |-> i])

\* What a gate's values at the two parties stand for.
OpensTo(i, server, client) ==
    LET g == Gate(i)
        x == g.context
        garbled == IF x = "YAO" THEN server ELSE client
        key == IF x = "YAO" THEN client ELSE server
    IN  CASE x \in {"BOOL", "SPLUT"} -> XorBits(server, client) = clear[i]
          [] x = "ARITH" -> \A k \in 1 .. g.nvals : (server[k] + client[k]) % Modulus = clear[i][k]
          [] x \in Yao /\ g.type = "CONV" ->
                \A k \in 1 .. g.nvals : (Lsb(key[k]) + garbled[k].pi) % 2 = clear[i][k]
          [] x \in Yao /\ g.type # "CONV" ->
                \A k \in 1 .. g.nvals :
                    key[k] = IF garbled[k].pi = clear[i][k] THEN garbled[k].key
                             ELSE Garbling!OtherKey(x, garbled[k].key)

\* What the two parties hold of a gate opens to the clear value of the gate,
\* whatever gates and conversions made it, in every layer and every circuit:
\* shares add up to it, and the evaluator's key is the one of the wire's two
\* that stands for it.
SharesOpen ==
    InCircuit => \A i \in Gates \ BehindShares :
        LET server == share["SERVER"].val[i]
            client == share["CLIENT"].val[i]
        IN  Gate(i).type # "OUT" /\ server # <<>> /\ client # <<>> => OpensTo(i, server, client)

\* The use counts of the construction are right for the evaluation: no party
\* reads a gate after UsedGate freed it, and none is used more often than counted.
NoUseAfterFree ==
    InCircuit => \A p \in Party :
        /\ ~share[p].stale
        /\ \A i \in Gates : share[p].nused[i] \in 0 .. Gate(i).nused

KeysSuffice(p, x, y) ==
    LET bits == NumInputBits(circ, x, "CLIENT") + NumConversionBits(circ, x)
    IN  IF Garbles(p, x)
        THEN /\ y.keyIdx + y.clientInCtr <= bits
             /\ y.permCtr <= NumInputBits(circ, x, "SERVER") + NumA2YBits(circ, x)
                               + NumConversionBits(circ, x)
        ELSE /\ y.choiceCtr <= bits /\ y.keyRcvIdx + y.rcvCtr <= bits
             /\ y.tableCtr <= Len(y.tables) /\ y.univCtr <= Len(y.univ)

\* Of bits and of numbers, and the OTs of the conversions to numbers.
TriplesSuffice(p) ==
    /\ \A k \in DOMAIN circ.ands : share[p].bool.mtIdx[k] <= Bool!NumMTs(circ, k)
    /\ share[p].arith.mtIdx <= NumMULs(circ)
    /\ share[p].arith.convIdx + (IF p = "SERVER" THEN share[p].arith.convRcvCtr
                                 ELSE share[p].arith.convSndCtr) <= NumCONVGates(circ)

\* No layer takes more triples, tables, keys or OTs than the setup phase
\* prepared, though every layer skips to a byte, and a conversion takes the
\* keys of an input.
PreparedSuffices ==
    InCircuit => \A p \in Party : step[p] = "interact" =>
        /\ TriplesSuffice(p)
        /\ \A kind \in Bool!LutKinds(circ) : share[p].bool.selCtr[kind] <= Len(Bool!LutTables(kind))
        /\ \A kind \in Lut!Kinds(circ) :
            /\ share[p].lut.maskIdx[kind] <= Lut!NumOTs(p, kind)
            /\ share[p].lut.choiceIdx[kind] <= Lut!NumOTs(Other(p), kind)
        /\ \A x \in Yao : KeysSuffice(p, x, share[p].yao[x])

\* Every conversion of bits to a number, which is asked for in one layer and
\* answered in the next, is through before the circuit is left: Reset asserts it.
ConversionsAreThrough ==
    InCircuit => \A p \in Party : step[p] = "done" =>
        /\ share[p].arith.convIdx = NumCONVGates(circ)
        /\ share[p].arith.convRcvCtr = 0 /\ share[p].arith.CONVGates2 = <<>>

\* The parties' layers stay in step though only bytes are sent: what a party
\* waits for in a layer is what the other sent of that layer, part by part, and
\* what it does not wait for is of a later layer.
BuffersAgree ==
    InCircuit => \A p \in Party :
        LET sent == wire[Other(p)]
            awaited == AwaitedOf(p)
        IN  "receive" \in todo[p] =>
                \A k \in DOMAIN sent :
                    IF k <= Len(awaited)
                    THEN sent[k].depth = depth[p] /\ Matches(sent[k], awaited[k])
                    ELSE sent[k].depth > depth[p]

\* What is for p in the circuit it is at, and has not left.
OutputsFor(p) ==
    IF step[p] = "reset" THEN {}
    ELSE {i \in Gates : Gate(i).type = "OUT" /\ Gate(i).gs \in {RoleIn(p, Gate(i).context), "ALL"}}

\* An output is there when its layer is through; before, a garbler's holds a
\* permutation bit.
IsThere(p, i) == Gate(i).depth < depth[p]

Ideal == INSTANCE IdealCircuit WITH
    promised <- [p \in Party |-> {<<run, i, clear[i]>> : i \in OutputsFor(p)}],
    output <- [p \in Party |-> {<<run, i, share[p].val[i]>> :
        i \in {o \in OutputsFor(p) : IsThere(p, o)}}]

\* Evaluating circuits on shares is as good as a trusted party: the outputs are
\* right, go to whom they are for, and a party has all of its own before Reset.
ImplementsIdeal == Ideal!Spec

\* "Evaluate the gate and use the servers output permutation bits to compute the
\* output" (yaoclientsharing.cpp): the bits are those of this output, so that a
\* party that is done has the clear values, in whatever order the outputs of
\* different layers were put.
OutputsAreClear ==
    InCircuit => \A p \in Party : step[p] = "done" =>
        \A i \in OutputsFor(p) : share[p].val[i] = clear[i]

\* "if the circuit setup expects a execution and reset loop for n iterations,
\* these methods would be triggered n times" (sharing.h): Reset prepares for a
\* next circuit, whichever it is.
ResetAllowsNextCircuit == \A p \in Party : step[p] # "crashed"
===============================================================================
