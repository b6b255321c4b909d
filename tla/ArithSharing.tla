------------------------------ MODULE ArithSharing ------------------------------
(***************************************************************************)
(* ArithSharing: the evaluation of arithmetic gates on additive shares     *)
(* modulo 2^ShareBits, at one of two parties, and the conversion of bits   *)
(* into numbers, which takes two layers.  A party's state is s.arith.      *)
(***************************************************************************)
EXTENDS GateStore

Mod(x) == x % Modulus
NumberXor(x, y) == NumberOf([b \in 1 .. ShareBits |-> (BitOf(x, b - 1) + BitOf(y, b - 1)) % 2])

(***************************************************************************)
(* Setup: triples from correlated OTs, one for every bit of A, and the     *)
(* OTs of the conversions.                                                 *)
(***************************************************************************)
TripleA(p, i) == DrawNumber(p, "arith A", i)
TripleB(p, i) == DrawNumber(p, "arith B", i)
Correlation(p, i, bit) == DrawNumber(p, "arith C", i * ShareBits + bit)

\* What the sender p keeps, and what the other makes of what it gets.
Mask(p, i) == Total([b \in 1 .. ShareBits |-> Correlation(p, i, b - 1)], ShareBits)
UnMask(p, i) ==
    Total([b \in 1 .. ShareBits |->
        BitOf(TripleA(p, i), b - 1) * 2^(b - 1) * TripleB(Other(p), i)
            - Correlation(Other(p), i, b - 1)], ShareBits)

\* Mutant: what was received is left out.
TripleCUnanswered(p, i) == Mod(TripleA(p, i) * TripleB(p, i) + Mask(p, i))

\* ComputeMTsFromOTs.
TripleC(p, i) == Mod(TripleA(p, i) * TripleB(p, i) + Mask(p, i) + UnMask(p, i))

ConversionMask(bit, i) == DrawNumber("SERVER", IF bit = 0 THEN "mask0" ELSE "mask1", i)
ConversionChoice(i) == Flip(seed, "CLIENT", "convert", i)
ConversionRandomness(i) == DrawNumber("SERVER", "convert", i)

NewArith ==
    [mtIdx |-> 0, mtStartIdx |-> 0, D |-> <<>>, E |-> <<>>, MULGates |-> <<>>,
     inSnd |-> <<>>, inGates |-> <<>>, outSnd |-> <<>>, outGates |-> <<>>,
     convSnd |-> <<>>, convSndCtr |-> 0, convRcvCtr |-> 0, convIdx |-> 0, convIdx2 |-> 0,
     CONVGates |-> <<>>, CONVGates2 |-> <<>>, rcv |-> <<>>]

-------------------------------------------------------------------------------
Each(v, Op(_)) == [k \in DOMAIN v |-> Op(v[k])]

\* The constant is a multiplication gate's left or right input.
ConstantOf(g) == CHOOSE i \in ToSet(g.ins) : Gate(i).type = "CONSTANT"
Factor(s, g) == s.val[g.ins[IF g.ins[1] = ConstantOf(g) THEN 2 ELSE 1]]

LocalShare(p, s, g, in) ==
    CASE g.type = "CONSTANT" -> [k \in 1 .. g.nvals |-> IF p = "SERVER" THEN g.gs ELSE 0]
      [] g.type = "LIN" -> [k \in 1 .. g.nvals |-> Mod(in[1][k] + in[2][k])]
      [] g.type = "INV" -> Each(in[1], LAMBDA x : Mod(-x))
      [] g.type = "NON_LIN_CONST" -> Each(Factor(s, g), LAMBDA x : Mod(x * Gate(ConstantOf(g)).gs))
      [] g.type = "SHARED_OUT" -> in[1]
      [] OTHER -> EvaluateSIMDGate(g, in)

EvaluateLocal(p, s, i) ==
    IF Gate(i).type = "SHARED_IN" THEN s
    ELSE Computed(s, i, LocalShare(p, s, Gate(i), Parents(s, Gate(i))))

EvaluateLocalOperations(p, s) ==
    Through(LAMBDA t, i : EvaluateLocal(p, t, i), s, QueueOnLvl(circ.local["ARITH"], depth[p]))

SelectiveOpen(p, s, i) ==
    LET g == Gate(i)
        d == [k \in 1 .. g.nvals |-> Mod(s.val[g.ins[1]][k] - TripleA(p, s.arith.mtIdx + k))]
        e == [k \in 1 .. g.nvals |-> Mod(s.val[g.ins[2]][k] - TripleB(p, s.arith.mtIdx + k))]
    IN  UsedGates([Reads(s, g.ins) EXCEPT
            !.arith.D = @ \o d, !.arith.E = @ \o e, !.arith.mtIdx = @ + g.nvals,
            !.arith.MULGates = Append(@, i)], g.ins)

ShareValues(p, s, i) ==
    LET random == [k \in 1 .. Gate(i).nvals |->
                      DrawNumber(p, "in", 100 * depth[p] + Len(s.arith.inSnd) + k)]
    IN  [Assign(s, i, [k \in DOMAIN random |-> Mod(clear[i][k] - random[k])])
            EXCEPT !.arith.inSnd = @ \o random]

ReconstructValue(s, i) ==
    LET g == Gate(i)
        sent == [Reads(s, g.ins) EXCEPT !.arith.outSnd = @ \o s.val[g.ins[1]]]
    IN  IF g.gs # "ALL" THEN UsedGates(sent, g.ins) ELSE sent

\* The client sends the bits of its shares under its choices of the OTs; the
\* inputs stay in use until the shares are assigned.
EvaluateCONVGate(p, s, i) ==
    LET g == Gate(i)
        n == g.nvals * Len(g.ins)
        at == s.arith.convIdx + s.arith.convSndCtr
        choices == [k \in 1 .. n |-> ConversionChoice(at + k)]
        queued == [s EXCEPT !.arith.CONVGates = Append(@, i)]
    IN  IF p = "SERVER" THEN [queued EXCEPT !.arith.convRcvCtr = @ + n]
        ELSE [Reads(queued, g.ins) EXCEPT
                  !.arith.convSnd = @ \o XorBits(choices, Concat(Parents(s, g))),
                  !.arith.convSndCtr = @ + n]

AwaitOutput(s, i) == [s EXCEPT !.arith.outGates = Append(@, i)]

EvaluateInteractive(p, s, i) ==
    LET g == Gate(i)
    IN  CASE g.type = "NON_LIN" -> SelectiveOpen(p, s, i)
          [] g.type = "IN" /\ g.gs = p -> ShareValues(p, s, i)
          [] g.type = "IN" /\ g.gs # p -> [s EXCEPT !.arith.inGates = Append(@, i)]
          [] g.type = "OUT" /\ g.gs = p -> AwaitOutput(s, i)
          [] g.type = "OUT" /\ g.gs = "ALL" -> ReconstructValue(AwaitOutput(s, i), i)
          [] g.type = "OUT" /\ g.gs = Other(p) -> ReconstructValue(s, i)
          [] g.type = "CONV" -> EvaluateCONVGate(p, s, i)

EvaluateInteractiveOperations(p, s) ==
    Through(LAMBDA t, i : EvaluateInteractive(p, t, i), s,
            QueueOnLvl(circ.interactive["ARITH"], depth[p]))

-------------------------------------------------------------------------------
(***************************************************************************)
(* A layer's message: the numbers and, of the conversions, the client's    *)
(* bits or the server's pairs.                                             *)
(***************************************************************************)
Opened(s) == s.arith.mtIdx - s.arith.mtStartIdx
\* By the party that sends them.
ConversionBytes(p, n) == IF p = "CLIENT" THEN Bytes(n) ELSE 2 * n

GetDataToSend(p, s) ==
    [sizes |-> [in |-> Len(s.arith.inSnd), out |-> Len(s.arith.outSnd), opened |-> Opened(s),
                conv |-> ConversionBytes(p, s.arith.convSndCtr)],
     in |-> s.arith.inSnd, out |-> s.arith.outSnd, D |-> s.arith.D, E |-> s.arith.E,
     conv |-> s.arith.convSnd]

GetBuffersToReceive(p, s) ==
    [in |-> SumNvals(circ, s.arith.inGates), out |-> SumNvals(circ, s.arith.outGates),
     opened |-> Opened(s), conv |-> ConversionBytes(Other(p), s.arith.convRcvCtr)]

IsEmpty(sizes) == sizes = [in |-> 0, out |-> 0, opened |-> 0, conv |-> 0]

-------------------------------------------------------------------------------
(***************************************************************************)
(* FinishCircuitLayer.                                                     *)
(***************************************************************************)
MTResult(p, s, k) ==
    LET d == Mod(s.arith.D[k] + s.arith.rcv.D[k])
        e == Mod(s.arith.E[k] + s.arith.rcv.E[k])
        t == s.arith.mtStartIdx + k
        shared == TripleA(p, t) * e + TripleB(p, t) * d + TripleC(p, t)
    IN  Mod(IF p = "SERVER" THEN shared + d * e ELSE shared)

EvaluateMULGate(p, s) ==
    [AssignInOrder(s, s.arith.MULGates, [k \in DOMAIN s.arith.D |-> MTResult(p, s, k)])
        EXCEPT !.arith.mtStartIdx = s.arith.mtIdx]

AssignInputShares(s) == AssignInOrder(s, s.arith.inGates, s.arith.rcv.in)

AssignOutputShare(s, i, shares) ==
    LET g == Gate(i)
    IN  Computed(s, i, [k \in 1 .. g.nvals |-> Mod(s.val[g.ins[1]][k] + shares[k])])

AssignOutputShares(s) ==
    Through(LAMBDA t, m :
        AssignOutputShare(t, s.arith.outGates[m], Stretch(s.arith.outGates, m, s.arith.rcv.out)),
        s, [m \in DOMAIN s.arith.outGates |-> m])

\* Where bit j of value k of a conversion stands among the bits of the gate.
BitAt(g, j, k) == (j - 1) * g.nvals + k
SumOfBits(g, Share(_, _), k) ==
    Mod(Total([j \in DOMAIN g.ins |-> Share(j, k)], Len(g.ins)))
ShareOfBits(g, Share(_, _)) == [k \in 1 .. g.nvals |-> SumOfBits(g, Share, k)]

\* Mutant: the pair is in the order of the bit, whatever the client asked.
PairIgnoresChoice(cor, asked, weight, at) ==
    LET masked(bit) == NumberXor(ConversionMask(bit, at),
                                 Mod(bit * weight - ConversionRandomness(at)))
    IN  <<masked(cor), masked(1 - cor)>>

\* The number the client gets for either value of its own share of the bit.
Pair(cor, asked, weight, at) ==
    LET masked(bit, mask) == NumberXor(ConversionMask(mask, at),
                                       Mod(bit * weight - ConversionRandomness(at)))
    IN  <<masked(cor, asked), masked(1 - cor, 1 - asked)>>

\* The server's share of a bit is random, and what the client gets is the rest.
AssignServerConversionShare(s, i, lctr) ==
    LET g == Gate(i)
        at(j, k) == s.arith.convIdx + lctr + BitAt(g, j, k)
        pairs == [b \in 1 .. g.nvals * Len(g.ins) |->
            LET j == 1 + ((b - 1) \div g.nvals)
                k == 1 + ((b - 1) % g.nvals)
            IN  Pair(s.val[g.ins[j]][k], s.arith.rcv.conv[lctr + b], 2^(j - 1), at(j, k))]
        share == ShareOfBits(g, LAMBDA j, k : ConversionRandomness(at(j, k)))
    IN  [Computed(s, i, share) EXCEPT !.arith.convSnd = @ \o Concat(pairs)]

AssignClientConversionShare(s, i, lctr) ==
    LET g == Gate(i)
        share == ShareOfBits(g, LAMBDA j, k :
            LET own == s.val[g.ins[j]][k]
                b == lctr + BitAt(g, j, k)
            IN  NumberXor(s.arith.rcv.conv[2 * b - 1 + own],
                          ConversionMask(ConversionChoice(s.arith.convIdx2 + b), s.arith.convIdx2 + b)))
    IN  Computed(s, i, share)

AssignEach(s, ids, Op(_, _, _)) ==
    Through(LAMBDA t, m : Op(t, ids[m], CountBits(circ, SubSeq(ids, 1, m - 1))), s, [m \in DOMAIN ids |-> m])

AssignServerConversionShares(s) ==
    LET sent == [s EXCEPT !.arith.convSnd = <<>>, !.arith.convSndCtr = 0]
    IN  IF s.arith.convRcvCtr = 0 THEN sent
        ELSE [AssignEach(sent, s.arith.CONVGates, AssignServerConversionShare)
                EXCEPT !.arith = [@ EXCEPT
                    !.convSndCtr = s.arith.convRcvCtr, !.convRcvCtr = 0,
                    !.convIdx = s.arith.convIdx + s.arith.convRcvCtr, !.CONVGates = <<>>]]

\* Mutant: the bits of the next layer have the places of this one's.
ConvIdxStays(s) == s.arith.convIdx

NextConvIdx(s) == s.arith.convIdx + s.arith.convSndCtr

\* Only what the last layer sent is answered in this one.
AssignClientConversionShares(s) ==
    LET assigned == IF s.arith.convRcvCtr = 0 THEN s
                    ELSE [AssignEach(s, s.arith.CONVGates2, AssignClientConversionShare)
                            EXCEPT !.arith.convRcvCtr = 0, !.arith.CONVGates2 = <<>>]
    IN  IF s.arith.convSndCtr = 0 THEN assigned
        ELSE [assigned EXCEPT !.arith = [@ EXCEPT
                !.convIdx2 = s.arith.convIdx, !.convIdx = NextConvIdx(s),
                !.CONVGates2 = s.arith.CONVGates, !.CONVGates = <<>>,
                !.convRcvCtr = s.arith.convSndCtr, !.convSndCtr = 0, !.convSnd = <<>>]]

AssignConversionShares(p, s) ==
    IF p = "SERVER" THEN AssignServerConversionShares(s) ELSE AssignClientConversionShares(s)

InitNewLayer(s) ==
    [s EXCEPT !.arith = [s.arith EXCEPT !.D = <<>>, !.E = <<>>, !.MULGates = <<>>,
        !.inSnd = <<>>, !.inGates = <<>>, !.outSnd = <<>>, !.outGates = <<>>, !.rcv = <<>>]]

FinishCircuitLayer(p, s) ==
    Once(LAMBDA muls :
        Once(LAMBDA outs : InitNewLayer(AssignConversionShares(p, outs)),
             AssignOutputShares(AssignInputShares(muls))),
        EvaluateMULGate(p, s))
===============================================================================
