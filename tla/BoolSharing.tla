------------------------------ MODULE BoolSharing ------------------------------
(***************************************************************************)
(* BoolSharing: the evaluation of Boolean gates on XOR shares (GMW), at    *)
(* one of two parties.  A party's state, s.bool, is that of a circuit;     *)
(* triples and openings are held by index for the current layer only, and  *)
(* the random bits come from Flip.  The bits that byte-wise copies carry   *)
(* along are left out; the bytes on the wire and the indices that skip to  *)
(* a byte are not.                                                         *)
(***************************************************************************)
EXTENDS GateStore

\* Mutant: the next layer starts where this one ended.
NoPadding(n) == n
PadToByte(n) == 8 * Bytes(n)

(***************************************************************************)
(* Setup: the triples and the tables, as the OTs leave them.               *)
(***************************************************************************)
\* Mutant: only as many triples as there are ANDs.
NumMTsExact(c, k) == c.ands[k].numgates

\* Every layer may leave up to a byte of triples unused.
NumMTs(c, k) ==
    IF c.ands[k].numgates > 0 THEN c.ands[k].numgates + 8 * c.maxdepth["BOOL"] ELSE 0

\* The sender's two random strings, of which the receiver's A picks one.
OTString(p, bit, k, i) ==
    LET bitlen == circ.ands[k].bitlen
    IN  Draw(p, IF bit = 0 THEN "X0" ELSE "X1", 90 * k + i * bitlen, bitlen)
TripleA(p, k, i) == Flip(seed, p, "A", 90 * k + i)
TripleB(p, k, i) == XorBits(OTString(p, 1, k, i), OTString(p, 0, k, i))

\* ComputeMTs: the zero mask, A * B, and what was received.
TripleC(p, k, i) ==
    XorBits(XorBits(OTString(p, 0, k, i), AndBits(TripleA(p, k, i), TripleB(p, k, i))),
            OTString(Other(p), TripleA(p, k, i), k, i))

LutKinds(c) == {l.kind : l \in {l \in ToSet(c.luts) : l.context = "BOOL"}}

\* The tables of one kind, in the order of the layers.
LutTables(kind) ==
    Concat([d \in 1 .. circ.maxdepth["BOOL"] |->
        Selected(circ.luts, LAMBDA l : l.context = "BOOL" /\ l.kind = kind /\ l.depth = d - 1)])

Rotation(p, kind, m) == Draw(p, "rot", 10 * m, kind[1])

\* The server's table_mask is random; the client's is the table, rotated by
\* both and under the server's, which the 1-out-of-N OT gives it.
TableMask(p, kind, m, at) ==
    LET random == Draw("SERVER", "table", 50 * m + 10 * at[1] + 5 * at[Len(at)], kind[2])
        rotated == XorBits(XorBits(Rotation("SERVER", kind, m), Rotation("CLIENT", kind, m)), at)
    IN  IF p = "SERVER" THEN random ELSE XorBits(LutTables(kind)[m].table[rotated], random)

NoOpenings(c) == [kind \in LutKinds(c) |-> <<>>]

\* The record of a new circuit: PrepareOnlinePhase.  keys: the kinds for which
\* m_vOPLUTGates has an entry, now empty.
NewBool(c, keys) ==
    LET zeros == [k \in DOMAIN c.ands |-> 0]
        nones == [k \in DOMAIN c.ands |-> <<>>]
        none == [kind \in LutKinds(c) |-> 0]
    IN  [mtIdx |-> zeros, mtStartIdx |-> zeros, D |-> nones, E |-> nones, ANDGates |-> nones,
         inSnd |-> <<>>, inGates |-> <<>>, outSnd |-> <<>>, outGates |-> <<>>,
         selOpening |-> NoOpenings(c), selCtr |-> none, maskCtr |-> none,
         lutGates |-> [kind \in keys |-> <<>>], rcv |-> <<>>]

-------------------------------------------------------------------------------
(***************************************************************************)
(* The gates at party p, as operators on its record s.                     *)
(***************************************************************************)
EvaluateLocal(p, s, i) ==
    IF Gate(i).type = "SHARED_IN" THEN s
    ELSE Computed(s, i, XorShare(p, Gate(i), Parents(s, Gate(i))))

EvaluateLocalOperations(p, s) ==
    Through(LAMBDA t, i : EvaluateLocal(p, t, i), s, QueueOnLvl(circ.local["BOOL"], depth[p]))

FindBitLenPosition(bitlen) == CHOOSE k \in DOMAIN circ.ands : circ.ands[k].bitlen = bitlen

\* SelectiveOpen and SelectiveOpenVec: both inputs under the next triples.
SelectiveOpen(p, s, i) ==
    LET g == Gate(i)
        k == FindBitLenPosition(g.gs)
        n == g.nvals \div g.gs
        choice == s.val[g.ins[1]]
        vector == s.val[g.ins[2]]
        d == [j \in 1 .. n |-> (choice[j] + TripleA(p, k, s.bool.mtIdx[k] + j)) % 2]
        e == [j \in 1 .. n |-> XorBits(SubSeq(vector, (j - 1) * g.gs + 1, j * g.gs),
                                       TripleB(p, k, s.bool.mtIdx[k] + j))]
    IN  UsedGates([Reads(s, g.ins) EXCEPT
            !.bool.D[k] = @ \o d, !.bool.E[k] = @ \o e, !.bool.mtIdx[k] = @ + n,
            !.bool.ANDGates[k] = Append(@, i)], g.ins)

\* m_vOPLUTGates gets an entry of a kind with the first gate of it.
WithLast(lutGates, kind, i) ==
    [k \in DOMAIN lutGates \cup {kind} |->
        (IF k \in DOMAIN lutGates THEN lutGates[k] ELSE <<>>) \o (IF k = kind THEN <<i>> ELSE <<>>)]

\* The inputs stay in use until the table is looked up.
SelectiveOpenOPLUT(p, s, i) ==
    LET g == Gate(i)
        kind == KindOf(g)
        in == Parents(s, g)
        nvals == Gate(g.ins[1]).nvals
        openings == [n \in 1 .. nvals |->
            XorBits(Selection(in, n), Rotation(p, kind, s.bool.selCtr[kind] + n))]
    IN  [Reads(s, g.ins) EXCEPT
            !.bool.selOpening[kind] = @ \o openings, !.bool.selCtr[kind] = @ + nvals,
            !.bool.lutGates = WithLast(@, kind, i)]

\* Random bits both hide the own input and are what the other gets of it.
ShareValues(p, s, i) ==
    LET random == Draw(p, "in", 100 * depth[p] + Len(s.bool.inSnd), Gate(i).nvals)
    IN  [Assign(s, i, XorBits(random, clear[i])) EXCEPT !.bool.inSnd = @ \o random]

ReconstructValue(s, i) ==
    LET g == Gate(i)
        sent == [Reads(s, g.ins) EXCEPT !.bool.outSnd = @ \o s.val[g.ins[1]]]
    IN  IF g.gs # "ALL" THEN UsedGates(sent, g.ins) ELSE sent

AwaitOutput(s, i) == [s EXCEPT !.bool.outGates = Append(@, i)]

EvaluateInteractive(p, s, i) ==
    LET g == Gate(i)
    IN  CASE g.type \in {"NON_LIN", "NON_LIN_VEC"} -> SelectiveOpen(p, s, i)
          [] g.type = "IN" /\ g.gs = p -> ShareValues(p, s, i)
          [] g.type = "IN" /\ g.gs # p -> [s EXCEPT !.bool.inGates = Append(@, i)]
          [] g.type = "OUT" /\ g.gs = p -> AwaitOutput(s, i)
          [] g.type = "OUT" /\ g.gs = "ALL" -> ReconstructValue(AwaitOutput(s, i), i)
          [] g.type = "OUT" /\ g.gs = Other(p) -> ReconstructValue(s, i)
          [] g.type = "TT" -> SelectiveOpenOPLUT(p, s, i)

EvaluateInteractiveOperations(p, s) ==
    Through(LAMBDA t, i : EvaluateInteractive(p, t, i), s,
            QueueOnLvl(circ.interactive["BOOL"], depth[p]))

-------------------------------------------------------------------------------

(***************************************************************************)
(* A layer's message: which bytes it has, and which are awaited.           *)
(***************************************************************************)
OpeningBytes(s) ==
    [ands |-> [k \in DOMAIN circ.ands |-> Bytes(s.bool.mtIdx[k] - s.bool.mtStartIdx[k])],
     luts |-> [kind \in LutKinds(circ) |-> Bytes(kind[1] * Len(s.bool.selOpening[kind]))]]

\* The bytes of the layer's message, and what they hold.
GetDataToSend(s) ==
    [sizes |-> [in |-> Bytes(Len(s.bool.inSnd)), out |-> Bytes(Len(s.bool.outSnd)),
                openings |-> OpeningBytes(s)],
     in |-> s.bool.inSnd, out |-> s.bool.outSnd, D |-> s.bool.D, E |-> s.bool.E,
     luts |-> s.bool.selOpening]

GetBuffersToReceive(s) ==
    [in |-> Bytes(SumNvals(circ, s.bool.inGates)),
     out |-> Bytes(SumNvals(circ, s.bool.outGates)), openings |-> OpeningBytes(s)]

IsEmpty(sizes) ==
    /\ sizes.in = 0 /\ sizes.out = 0
    /\ \A k \in DOMAIN sizes.openings.ands : sizes.openings.ands[k] = 0
    /\ \A kind \in DOMAIN sizes.openings.luts : sizes.openings.luts[kind] = 0

-------------------------------------------------------------------------------
(***************************************************************************)
(* FinishCircuitLayer.                                                     *)
(***************************************************************************)
\* A AND e, d AND B, C, and d AND e at one of the two.
MTResult(p, s, k, j) ==
    LET d == (s.bool.D[k][j] + s.bool.rcv.D[k][j]) % 2
        e == XorBits(s.bool.E[k][j], s.bool.rcv.E[k][j])
        t == s.bool.mtStartIdx[k] + j
        shared == XorBits(XorBits(AndBits(TripleA(p, k, t), e), AndBits(d, TripleB(p, k, t))),
                          TripleC(p, k, t))
    IN  IF p = "SERVER" THEN XorBits(shared, AndBits(d, e)) ELSE shared

\* The triples of the byte that are left are skipped.
PastTheByte(b) ==
    LET next == [k \in DOMAIN b.mtIdx |-> PadToByte(b.mtIdx[k])]
    IN  [b EXCEPT !.mtIdx = next, !.mtStartIdx = next]

MTResults(p, s, k) == Concat([j \in DOMAIN s.bool.D[k] |-> MTResult(p, s, k, j)])

EvaluateANDGates(p, s) ==
    Through(LAMBDA t, k : AssignInOrder(t, s.bool.ANDGates[k], MTResults(p, s, k)),
        [s EXCEPT !.bool = PastTheByte(s.bool)],
        [k \in DOMAIN circ.ands |-> k])

\* Looks up the opened indices of gate i, which start after gatectr others.
EvaluateOPLUTGate(p, s, i, gatectr) ==
    LET g == Gate(i)
        kind == KindOf(g)
        nvals == Gate(g.ins[1]).nvals
        tableid(n) == XorBits(s.bool.selOpening[kind][gatectr + n], s.bool.rcv.luts[kind][gatectr + n])
        out == [n \in 1 .. nvals |-> TableMask(p, kind, s.bool.maskCtr[kind] + n, tableid(n))]
    IN  UsedGates([Assign(s, i, LutLayout(g, nvals, out)) EXCEPT !.bool.maskCtr[kind] = @ + nvals], g.ins)

\* The gates of a kind are in the order of the layer, and the kinds have nothing
\* to do with each other.  As many openings of the kind came before in this layer
\* as tables were used.
EvaluateOPLUTGates(p, s) ==
    Through(LAMBDA t, i :
        EvaluateOPLUTGate(p, t, i, t.bool.maskCtr[KindOf(Gate(i))] - s.bool.maskCtr[KindOf(Gate(i))]),
        s, InOrder(UNION {ToSet(s.bool.lutGates[kind]) : kind \in DOMAIN s.bool.lutGates}, Len(circ.gates)))

\* m_vOPLUTGates has a kind this circuit does not use, and m_vOP_LUT_data gives
\* a null pointer for it.
NoTables(s) == \E kind \in DOMAIN s.bool.lutGates : kind \notin LutKinds(circ)

AssignInputShares(s) == AssignInOrder(s, s.bool.inGates, s.bool.rcv.in)

AssignOutputShare(s, i, bits) ==
    LET g == Gate(i)
    IN  UsedGates(Assign(Reads(s, g.ins), i, XorBits(s.val[g.ins[1]], bits)), g.ins)

AssignOutputShares(s) ==
    Through(LAMBDA t, m :
        AssignOutputShare(t, s.bool.outGates[m], Stretch(s.bool.outGates, m, s.bool.rcv.out)),
        s, [m \in DOMAIN s.bool.outGates |-> m])

\* A layer's buffers and lists empty, but for the inputs it awaits already.
NewLayer(b, inGates) ==
    LET nones == [k \in DOMAIN b.ANDGates |-> <<>>]
    IN  [b EXCEPT !.D = nones, !.E = nones, !.ANDGates = nones,
                  !.inSnd = <<>>, !.inGates = inGates, !.outSnd = <<>>, !.outGates = <<>>,
                  !.selOpening = NoOpenings(circ),
                  !.lutGates = [kind \in DOMAIN b.lutGates |-> <<>>], !.rcv = <<>>]

\* Mutant: the inputs of one layer are awaited in the next, too.
InitNewLayerKeepsInputs(s) == [s EXCEPT !.bool = NewLayer(s.bool, s.bool.inGates)]

InitNewLayer(s) == [s EXCEPT !.bool = NewLayer(s.bool, <<>>)]

FinishCircuitLayer(p, s) ==
    Once(LAMBDA ands :
        Once(LAMBDA luts :
            InitNewLayer(AssignOutputShares(AssignInputShares(luts))),
            EvaluateOPLUTGates(p, ands)),
        EvaluateANDGates(p, s))
===============================================================================
