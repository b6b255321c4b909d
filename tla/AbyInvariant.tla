----------------------------- MODULE AbyInvariant -----------------------------
(***************************************************************************)
(* Why the layers take no more than the setup phase prepared, and leave no *)
(* conversion behind: an inductive invariant of AbyLayers.  Between two    *)
(* layers a party has taken what the gates of the layers before it weigh.  *)
(* AbyProofs proves that it holds of every workload.                       *)
(***************************************************************************)
EXTENDS AbyLayers

Newer(c) == 1 .. Len(c.gates)

-------------------------------------------------------------------------------
(***************************************************************************)
(* The records of a party.                                                 *)
(***************************************************************************)
Common == {"nused", "live", "val", "stale"}
Sides == {"bool", "arith", "lut", "yao"}

\* The gates of a party, which its sharings share.
IsStore(c, s) ==
    /\ DOMAIN s = Common \cup Sides
    /\ DOMAIN s.val = Newer(c)
    /\ s.live \in [Newer(c) -> BOOLEAN]
    /\ \A i \in Newer(c) :
        DOMAIN s.val[i] = 1 .. Len(s.val[i]) /\ Len(s.val[i]) \in {0, c.gates[i].nvals}

Ids(c) == Seq(Newer(c))

ArithFields ==
    {"mtIdx", "mtStartIdx", "D", "E", "MULGates", "inSnd", "inGates", "outSnd", "outGates",
     "convSnd", "convSndCtr", "convRcvCtr", "convIdx", "convIdx2", "CONVGates", "CONVGates2", "rcv"}
BoolFields ==
    {"mtIdx", "mtStartIdx", "D", "E", "ANDGates", "inSnd", "inGates", "outSnd", "outGates",
     "selOpening", "selCtr", "maskCtr", "lutGates", "rcv"}
LutFields ==
    {"playSender", "maskIdx", "choiceIdx", "choiceSnd", "choiceRcvCtr", "maskSnd", "maskRcvCtr",
     "TTGates", "inSnd", "inGates", "outSnd", "outGates", "stash", "rcv"}
GarblerFields ==
    {"permCtr", "clientInCtr", "clientGates", "tables", "univ", "dests", "destCtr", "keyIdx",
     "keyCtr", "keySnd", "serverSnd", "outGates", "rcv"}
EvaluatorFields ==
    {"tables", "univ", "outShares", "tableCtr", "univCtr", "outBitCtr", "serverGates", "sndOT",
     "sndGates", "rcvGates", "rcvCtr", "choiceCtr", "keyRcvIdx", "outSnd", "rcv"}

\* A sharing's lists hold gates of the circuit.
IsArith(c, a) ==
    /\ DOMAIN a = ArithFields
    /\ a.MULGates \in Ids(c) /\ a.inGates \in Ids(c) /\ a.outGates \in Ids(c)
    /\ a.CONVGates \in Ids(c) /\ a.CONVGates2 \in Ids(c)
    /\ a.mtIdx \in Nat /\ a.convIdx \in Nat /\ a.convSndCtr \in Nat /\ a.convRcvCtr \in Nat

IsBool(c, a) ==
    /\ DOMAIN a = BoolFields
    /\ a.inGates \in Ids(c) /\ a.outGates \in Ids(c)
    /\ a.mtIdx \in [DOMAIN c.ands -> Nat] /\ a.ANDGates \in [DOMAIN c.ands -> Ids(c)]
    /\ \A kind \in DOMAIN a.lutGates : a.lutGates[kind] \in Ids(c)

IsLut(c, a) ==
    /\ DOMAIN a = LutFields
    /\ a.TTGates \in Ids(c) /\ a.inGates \in Ids(c) /\ a.outGates \in Ids(c)

IsGarbler(c, a) ==
    /\ DOMAIN a = GarblerFields
    /\ a.clientGates \in Ids(c) /\ a.outGates \in Ids(c)

\* The gates it waits for may be of a circuit before.
IsEvaluator(c, a) ==
    /\ DOMAIN a = EvaluatorFields
    /\ a.serverGates \in Ids(c) /\ a.sndGates \in Ids(c) /\ a.rcvGates \in Seq(Nat)

IsYao(p, c, y) ==
    /\ DOMAIN y = Yao
    /\ \A x \in Yao : IF Garbles(p, x) THEN IsGarbler(c, y[x]) ELSE IsEvaluator(c, y[x])

IsRecord(p, c, s) ==
    /\ IsStore(c, s)
    /\ IsBool(c, s.bool) /\ IsArith(c, s.arith) /\ IsLut(c, s.lut) /\ IsYao(p, c, s.yao)
IsShare(p, s) == IsRecord(p, circ, s)

-------------------------------------------------------------------------------
(***************************************************************************)
(* What the gates of a circuit weigh, by layers.                           *)
(***************************************************************************)
BeforeDepth(c, w, d) == [i \in Newer(c) |-> IF c.gates[i].depth < d THEN w[i] ELSE 0]
AtDepthOnly(c, w, d) == [i \in Newer(c) |-> IF c.gates[i].depth = d THEN w[i] ELSE 0]
\* What the gates of the layers before d weigh, those of layer d, and all.
BeforeLayer(c, w, d) == Total(BeforeDepth(c, w, d), Len(c.gates))
AtLayer(c, w, d) == Total(AtDepthOnly(c, w, d), Len(c.gates))
InAll(c, w) == Total(w, Len(c.gates))

\* Conversions to numbers weigh their bits, and multiplications their values.
IsConversion(g) == g.context = "ARITH" /\ g.type = "CONV"
ConvBits(c) ==
    [i \in Newer(c) |-> IF IsConversion(c.gates[i]) THEN c.gates[i].nvals * Len(c.gates[i].ins) ELSE 0]
IsMul(g) == g.context = "ARITH" /\ g.type = "NON_LIN"
MulVals(c) == [i \in Newer(c) |-> IF IsMul(c.gates[i]) THEN c.gates[i].nvals ELSE 0]

\* What each gate takes of the k-th kind of triples.
AndVals(c, k) == [i \in Newer(c) |-> AndsTaken(c, i, c.ands[k].bitlen)]

-------------------------------------------------------------------------------
(***************************************************************************)
(* What a party has taken.                                                 *)
(***************************************************************************)
\* The bits that are asked for, and answered, in a layer.
Asked(p, a) == IF p = "SERVER" THEN a.convRcvCtr ELSE a.convSndCtr
\* No gates without bits.
AsksForAll(p, a) == Asked(p, a) = 0 => a.CONVGates = <<>>
Settled(p, a) == p = "SERVER" \/ a.convRcvCtr = 0 => a.CONVGates2 = <<>>

\* The bits of the layer before, whose answer the client has not used yet.
Unanswered(c, d) == IF d = 0 THEN 0 ELSE AtLayer(c, ConvBits(c), d - 1)

ConversionsBegin(p, c, d, a) ==
    /\ a.convIdx = BeforeLayer(c, ConvBits(c), d)
    /\ p = "CLIENT" => a.convRcvCtr = Unanswered(c, d)
    /\ Settled(p, a)

\* Every layer starts at a byte, and may leave up to a byte of triples unused.
TriplesBegin(c, d, b) ==
    \A k \in DOMAIN c.ands :
        /\ b.mtStartIdx[k] \in Nat /\ b.mtStartIdx[k] % 8 = 0
        /\ b.mtStartIdx[k] <= BeforeLayer(c, AndVals(c, k), d) + 8 * d
        /\ b.mtStartIdx[k] <= Bool!NumMTs(c, k)

BetweenLayers(p, c, d, s) ==
    /\ ConversionsBegin(p, c, d, s.arith) /\ TriplesBegin(c, d, s.bool)
    /\ Asked(p, s.arith) = 0 /\ s.arith.CONVGates = <<>>
    /\ s.arith.mtIdx = BeforeLayer(c, MulVals(c), d)
    /\ \A k \in DOMAIN c.ands : s.bool.mtIdx[k] = s.bool.mtStartIdx[k]

InLayer(p, c, d, s) ==
    /\ ConversionsBegin(p, c, d, s.arith) /\ TriplesBegin(c, d, s.bool)
    /\ Asked(p, s.arith) = AtLayer(c, ConvBits(c), d) /\ AsksForAll(p, s.arith)
    /\ s.arith.mtIdx = BeforeLayer(c, MulVals(c), d + 1)
    /\ \A k \in DOMAIN c.ands :
        s.bool.mtIdx[k] = s.bool.mtStartIdx[k] + AtLayer(c, AndVals(c, k), d)

-------------------------------------------------------------------------------
(***************************************************************************)
(* The inductive invariant.                                                *)
(***************************************************************************)
\* A party's next step is at, in layer d, and its threads are todo.
StepOK(at, threads, d) ==
    /\ threads # {} => at = "interact"
    /\ at \in {"reset", "setup"} => d = 0

DepthOK(c, at, d) ==
    /\ d <= MaxDepth(c)
    /\ at \in {"evaluate", "interact"} => d < MaxDepth(c)
    /\ at \in {"synchronize", "done"} => d = MaxDepth(c)

\* The values of a circuit, or of none.
HasRoom(c, s) ==
    /\ DOMAIN s.val = Newer(c)
    /\ \A i \in Newer(c) :
        DOMAIN s.val[i] = 1 .. Len(s.val[i]) /\ Len(s.val[i]) \in {0, c.gates[i].nvals}

\* The gates that an evaluator waits for stay in its record.
Waits(p, s) == \A x \in Yao : ~Garbles(p, x) => s.yao[x].rcvGates \in Seq(Nat)

ShareOK(p, c, at, d, s) ==
    /\ IsRecord(p, c, s)
    /\ \A k \in DOMAIN c.ands : s.bool.mtStartIdx[k] \in Nat /\ s.bool.mtStartIdx[k] % 8 = 0
    /\ at \in {"evaluate", "synchronize", "done"} => BetweenLayers(p, c, d, s)
    /\ at = "interact" => InLayer(p, c, d, s)

PartyOK(p, c, at, d, s) ==
    IF at = "setup" THEN HasRoom(c, s) ELSE DepthOK(c, at, d) /\ ShareOK(p, c, at, d, s)

Steps == {"reset", "setup", "evaluate", "interact", "synchronize", "done", "crashed"}

Inv ==
    /\ run \in Nat /\ seed \in Seeds
    /\ load \in Seq(Circuits) /\ (run > 0 => circ \in Circuits)
    /\ step \in [Party -> Steps] /\ todo \in [Party -> SUBSET {"send", "receive"}]
    /\ depth \in [Party -> Nat] /\ DOMAIN share = Party
    /\ run = 0 => \A p \in Party : step[p] = "reset"
    /\ \A p \in Party : StepOK(step[p], todo[p], depth[p]) /\ Waits(p, share[p])
    /\ run > 0 => \A p \in Party : PartyOK(p, circ, step[p], depth[p], share[p])
===============================================================================
