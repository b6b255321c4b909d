---------------------------- MODULE YaoClientSharing ----------------------------
(***************************************************************************)
(* YaoClientSharing: the evaluator, with one key for every wire.  It asks  *)
(* for the keys of its bits in one layer and has them at the end of the    *)
(* next.  Its state is s.yao[x]; the value of a wire is a key, of an       *)
(* output gate a bit.                                                      *)
(***************************************************************************)
EXTENDS YaoSharing

Me(x) == Evaluator(x)

\* rcvGates is not reset with the rest, so old has it.
NewEvaluator(old) ==
    [tables |-> <<>>, univ |-> <<>>, outShares |-> <<>>, tableCtr |-> 0, univCtr |-> 0,
     outBitCtr |-> 0, serverGates |-> <<>>, sndOT |-> <<>>, sndGates |-> <<>>,
     rcvGates |-> old.rcvGates, rcvCtr |-> 0, choiceCtr |-> 0, keyRcvIdx |-> 0,
     outSnd |-> <<>>, rcv |-> <<>>]

\* The garbled circuit arrives at the end of the setup phase.
FinishSetupPhase(x, s, garbler, outShares) ==
    [s EXCEPT !.yao[x].tables = garbler.tables, !.yao[x].univ = garbler.univ,
              !.yao[x].outShares = outShares]

-------------------------------------------------------------------------------
\* Mutant: the right half does not depend on the left key.
EvaluateGarbledTableHalf(l, r, table, c) ==
    XorKeys(<<EncryptWire(l, 2 * c), EncryptWire(r, 2 * c + 1),
              If(Lsb(l), table[1]), If(Lsb(r), table[2])>>)

EvaluateGarbledTable(l, r, table, c) ==
    XorKeys(<<EncryptWire(l, 2 * c), EncryptWire(r, 2 * c + 1),
              If(Lsb(l), table[1]), If(Lsb(r), XorBits(table[2], l))>>)

EvaluateUniversalGate(l, r, table) ==
    LET id == 2 * Lsb(l) + Lsb(r)
    IN  EncryptWireGRR3(IF id = 0 THEN ZeroKey ELSE table[id], l, r, id)

LocalKeys(x, s, g) ==
    LET in == Parents(s, g)
        y == s.yao[x]
    IN  CASE g.type = "LIN" -> [k \in 1 .. g.nvals |-> XorBits(in[1][k], in[2][k])]
          [] g.type = "INV" -> in[1]
          [] g.type = "CONSTANT" -> [k \in 1 .. g.nvals |-> ZeroKey]
          [] g.type = "NON_LIN" -> [k \in 1 .. g.nvals |->
                EvaluateGarbledTable(in[1][k], in[2][k], y.tables[y.tableCtr + k], y.tableCtr + k - 1)]
          [] g.type = "UNIV" -> [k \in 1 .. g.nvals |->
                EvaluateUniversalGate(in[1][k], in[2][k], y.univ[y.univCtr + k])]
          [] MovesValues(g) -> Moved(g, in)

EvaluateLocal(x, s, i) ==
    LET g == Gate(i)
    IN  [Computed(s, i, LocalKeys(x, s, g)) EXCEPT
            !.yao[x].tableCtr = @ + (IF g.type = "NON_LIN" THEN g.nvals ELSE 0),
            !.yao[x].univCtr = @ + (IF g.type = "UNIV" THEN g.nvals ELSE 0)]

LastBits(keys) == [k \in DOMAIN keys |-> Lsb(keys[k])]

EvaluateServerOutputGate(x, s, i) ==
    LET g == Gate(i)
    IN  [Reads(s, g.ins) EXCEPT !.yao[x].outSnd = @ \o LastBits(s.val[g.ins[1]])]

\* Takes the permutation bits in the order in which outputs are evaluated.
EvaluateClientOutputGate(x, s, i) ==
    LET g == Gate(i)
        y == s.yao[x]
        pis == SubSeq(y.outShares, y.outBitCtr + 1, y.outBitCtr + g.nvals)
    IN  [Computed(s, i, XorBits(LastBits(s.val[g.ins[1]]), pis)) EXCEPT !.yao[x].outBitCtr = @ + g.nvals]

EvaluateOutputGate(x, s, i) ==
    CASE Gate(i).gs = "SERVER" -> EvaluateServerOutputGate(x, s, i)
      [] Gate(i).gs = "CLIENT" -> EvaluateClientOutputGate(x, s, i)
      [] Gate(i).gs = "ALL" -> EvaluateClientOutputGate(x, EvaluateServerOutputGate(x, s, i), i)

AwaitServerKeys(x, s, i) == [s EXCEPT !.yao[x].serverGates = Append(@, i)]

\* Asks for the keys of these bits.
ReceiveClientKeys(x, s, i, bits) ==
    [s EXCEPT !.yao[x].sndOT = @ \o bits, !.yao[x].sndGates = Append(@, i)]

\* What the evaluator holds of the bits: of a garbled circuit's, as its garbler.
OwnPart(s, g) ==
    LET parent == s.val[g.ins[1]]
    IN  CASE ParentContext(g) = "BOOL" -> parent
          [] ParentContext(g) = "ARITH" -> [k \in DOMAIN parent |-> ShareBit(parent[k], g.gs)]
          [] ParentContext(g) \in Yao -> [k \in DOMAIN parent |-> parent[k].pi]

EvaluateConversionGate(x, s, i) ==
    LET g == Gate(i)
        read == Reads(s, g.ins)
    IN  IF IsServerShare(g) THEN AwaitServerKeys(x, read, i)
        ELSE ReceiveClientKeys(x, read, i, OwnPart(s, g))

EvaluateInteractive(x, s, i) ==
    LET g == Gate(i)
    IN  CASE g.type = "IN" /\ g.gs = "SERVER" -> AwaitServerKeys(x, s, i)
          [] g.type = "IN" /\ g.gs = "CLIENT" -> ReceiveClientKeys(x, s, i, clear[i])
          [] g.type = "OUT" -> EvaluateOutputGate(x, s, i)
          [] g.type = "CONV" -> EvaluateConversionGate(x, s, i)

EvaluateOperations(x, s) ==
    LET d == depth[Me(x)]
    IN  Once(LAMBDA local :
            Through(LAMBDA t, i : EvaluateInteractive(x, t, i), local, QueueOnLvl(circ.interactive[x], d)),
            Through(LAMBDA t, i : EvaluateLocal(x, t, i), s, QueueOnLvl(circ.local[x], d)))

-------------------------------------------------------------------------------
ChosenBits(x, s) ==
    XorBits(s.yao[x].sndOT,
            [k \in DOMAIN s.yao[x].sndOT |-> ChoiceBit(x, s.yao[x].choiceCtr + k)])

GetDataToSend(x, s) ==
    [sizes |-> [choices |-> Bytes(Len(s.yao[x].sndOT)), out |-> Bytes(Len(s.yao[x].outSnd))],
     choices |-> ChosenBits(x, s), out |-> s.yao[x].outSnd]

\* Mutant: the OTs of one layer are used again in the next.
DataSentAgain(x, s) == s

\* Every bit takes an OT of its own.
DataSent(x, s) == [s EXCEPT !.yao[x].choiceCtr = @ + Len(s.yao[x].sndOT)]

GetBuffersToReceive(x, s) ==
    [server |-> SumNvals(circ, s.yao[x].serverGates), client |-> s.yao[x].rcvCtr]

AssignServerInputKeys(x, s) ==
    [AssignInOrder(s, s.yao[x].serverGates, s.yao[x].rcv.server) EXCEPT !.yao[x].serverGates = <<>>]

\* Of every pair, the key under the mask that was chosen.
AssignClientInputKeys(x, s) ==
    LET y == s.yao[x]
        choice(k) == ChoiceBit(x, y.keyRcvIdx + k)
        key(k) == XorBits(y.rcv.client[k][1 + choice(k)], ROTMask(x, choice(k), y.keyRcvIdx + k))
    IN  IF y.rcvCtr = 0 THEN s
        ELSE [AssignInOrder(s, y.rcvGates, [k \in DOMAIN y.rcv.client |-> key(k)]) EXCEPT
                !.yao[x] = [y EXCEPT !.keyRcvIdx = y.keyRcvIdx + y.rcvCtr, !.rcvGates = <<>>, !.rcvCtr = 0]]

\* What was asked for in this layer is awaited in the next.
FinishCircuitLayer(x, s) ==
    LET assigned == AssignClientInputKeys(x, AssignServerInputKeys(x, s))
        y == assigned.yao[x]
    IN  [assigned EXCEPT !.yao[x] = [y EXCEPT
            !.rcvCtr = IF y.sndOT = <<>> THEN y.rcvCtr ELSE Len(y.sndOT),
            !.rcvGates = y.rcvGates \o y.sndGates,
            !.sndOT = <<>>, !.sndGates = <<>>, !.outSnd = <<>>, !.rcv = <<>>]]
===============================================================================
