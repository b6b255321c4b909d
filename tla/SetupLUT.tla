------------------------------- MODULE SetupLUT --------------------------------
(***************************************************************************)
(* SetupLUT: the sharing SPLUT, in which every interactive gate is a table *)
(* that one party shares out by 1-out-of-N OTs prepared before.  The       *)
(* parties take turns: the one that receives in a layer sends its choices  *)
(* at once and waits for the masked tables, which the other computes when  *)
(* it has the choices, and sends, with all it has stashed in this layer,   *)
(* in the next, in which it receives.  A party's state is s.lut.           *)
(***************************************************************************)
EXTENDS GateStore

\* The most inputs a table has.
MaxInputs == 8

LutsOf(c) == Selected(c.luts, LAMBDA l : l.context = "SPLUT")
Kinds(c) == {l.kind : l \in ToSet(LutsOf(c))}

\* m_vNOTs: the server sends in the even layers, and the client in the odd ones.
NumOTs(sender, kind) ==
    Len(Selected(LutsOf(circ), LAMBDA l :
        l.kind = kind /\ l.depth % 2 = (IF sender = "SERVER" THEN 0 ELSE 1)))

\* The n-th OT of a kind of which the party is the sender: a random string for
\* every row of the table; of which it is the receiver: the row it gets.
OTString(sender, kind, n, row) ==
    Draw(sender, "X", 160 * kind[2] + 40 * n + NumberOf(row) * kind[2], kind[2])
OTChoice(receiver, kind, n) == Draw(receiver, "C", 40 * kind[2] + 7 * n, kind[1])

\* What hides the table's output, and is the sender's share of it.
TableRnd(sender, kind, n) == Draw(sender, "rnd", 90 * kind[1] + 20 * kind[2] + n * kind[2], kind[2])

NoValues(c) == [kind \in Kinds(c) |-> <<>>]
Nothing == [in |-> <<>>, out |-> <<>>]

\* The record of a new circuit.  maskIdx, choiceIdx: of the OTs of a kind that
\* were used.
NewLut(c, p) ==
    LET none == [kind \in Kinds(c) |-> 0]
    IN  [playSender |-> p = "SERVER", maskIdx |-> none, choiceIdx |-> none,
         choiceSnd |-> NoValues(c), choiceRcvCtr |-> none,
         maskSnd |-> NoValues(c), maskRcvCtr |-> none, TTGates |-> <<>>,
         inSnd |-> <<>>, inGates |-> <<>>, outSnd |-> <<>>, outGates |-> <<>>,
         stash |-> Nothing, rcv |-> <<>>]

-------------------------------------------------------------------------------
(***************************************************************************)
(* The gates.  Local ones are those of BoolSharing, but a combiner does    *)
(* not count as a use of its inputs.                                       *)
(***************************************************************************)
LocalShare(p, g, in) == XorShare(p, g, in)

EvaluateSIMD(s, i, share) ==
    IF Gate(i).type = "COMBINE" THEN Assign(Reads(s, Gate(i).ins), i, share)
    ELSE Computed(s, i, share)

EvaluateLocal(p, s, i) ==
    IF Gate(i).type = "SHARED_IN" THEN s
    ELSE EvaluateSIMD(s, i, LocalShare(p, Gate(i), Parents(s, Gate(i))))

EvaluateLocalOperations(p, s) ==
    Through(LAMBDA t, i : EvaluateLocal(p, t, i), s, QueueOnLvl(circ.local["SPLUT"], depth[p]))

NvalsIn(g) == Gate(g.ins[1]).nvals

\* The receiver's share of the inputs, under the choices of its OTs.
EvaluateTTGate(p, s, i) ==
    LET g == Gate(i)
        kind == KindOf(g)
        in == Parents(s, g)
        first == s.lut.choiceIdx[kind] + Len(s.lut.choiceSnd[kind])
        choices == [n \in 1 .. NvalsIn(g) |->
                       XorBits(Selection(in, n), OTChoice(p, kind, first + n))]
        queued == [s EXCEPT !.lut.TTGates = Append(@, i)]
    IN  IF s.lut.playSender THEN [queued EXCEPT !.lut.choiceRcvCtr[kind] = @ + NvalsIn(g)]
        ELSE [Reads(queued, g.ins) EXCEPT
                !.lut.choiceSnd[kind] = @ \o choices, !.lut.maskRcvCtr[kind] = @ + NvalsIn(g)]

ShareValues(p, s, i) ==
    LET random == Draw(p, "in", 100 * depth[p] + 50 + Len(s.lut.inSnd), Gate(i).nvals)
    IN  [Assign(s, i, XorBits(random, clear[i])) EXCEPT !.lut.inSnd = @ \o random]

ReconstructValue(s, i) ==
    LET g == Gate(i)
        sent == [Reads(s, g.ins) EXCEPT !.lut.outSnd = @ \o s.val[g.ins[1]]]
    IN  IF g.gs # "ALL" THEN UsedGates(sent, g.ins) ELSE sent

AwaitOutput(s, i) == [s EXCEPT !.lut.outGates = Append(@, i)]

EvaluateInteractive(p, s, i) ==
    LET g == Gate(i)
    IN  CASE g.type = "TT" -> EvaluateTTGate(p, s, i)
          [] g.type = "IN" /\ g.gs = p -> ShareValues(p, s, i)
          [] g.type = "IN" /\ g.gs # p -> [s EXCEPT !.lut.inGates = Append(@, i)]
          [] g.type = "OUT" /\ g.gs = p -> AwaitOutput(s, i)
          [] g.type = "OUT" /\ g.gs = "ALL" -> ReconstructValue(AwaitOutput(s, i), i)
          [] g.type = "OUT" /\ g.gs = Other(p) -> ReconstructValue(s, i)

EvaluateInteractiveOperations(p, s) ==
    Through(LAMBDA t, i : EvaluateInteractive(p, t, i), s,
            QueueOnLvl(circ.interactive["SPLUT"], depth[p]))

-------------------------------------------------------------------------------
(***************************************************************************)
(* A layer's bytes.                                                        *)
(***************************************************************************)
ChoiceBytes(counts) == [kind \in DOMAIN counts |-> Bytes(kind[1] * counts[kind])]
MaskBytes(counts) == [kind \in DOMAIN counts |-> Bytes(kind[2] * 2^kind[1] * counts[kind])]
Lengths(values) == [kind \in DOMAIN values |-> Len(values[kind])]

\* Of bits that are sent, with masks or with choices.
Part(bits, masks, choices) ==
    [sizes |-> [in |-> Bytes(Len(bits.in)), out |-> Bytes(Len(bits.out)),
                masks |-> MaskBytes(Lengths(masks)), choices |-> ChoiceBytes(Lengths(choices))],
     in |-> bits.in, out |-> bits.out, masks |-> masks, choices |-> choices]

\* Only the receiver sends: what it stashed in the layer before, as the sender,
\* with the tables it masked at its end, and what it has to send now.
StashToSend(s) ==
    IF s.lut.playSender THEN Part(Nothing, NoValues(circ), NoValues(circ))
    ELSE Part(s.lut.stash, s.lut.maskSnd, NoValues(circ))
GetDataToSend(s) ==
    IF s.lut.playSender THEN Part(Nothing, NoValues(circ), NoValues(circ))
    ELSE Part([in |-> s.lut.inSnd, out |-> s.lut.outSnd], NoValues(circ), s.lut.choiceSnd)

DataSent(s) ==
    IF s.lut.playSender
    THEN [s EXCEPT !.lut.stash = [in |-> @.in \o s.lut.inSnd, out |-> @.out \o s.lut.outSnd]]
    ELSE [s EXCEPT !.lut.maskSnd = NoValues(circ)]

GetBuffersToReceive(s) ==
    [in |-> Bytes(SumNvals(circ, s.lut.inGates)), out |-> Bytes(SumNvals(circ, s.lut.outGates)),
     masks |-> MaskBytes(s.lut.maskRcvCtr), choices |-> ChoiceBytes(s.lut.choiceRcvCtr)]

IsEmpty(sizes) ==
    /\ sizes.in = 0 /\ sizes.out = 0
    /\ \A kind \in DOMAIN sizes.masks : sizes.masks[kind] = 0 /\ sizes.choices[kind] = 0

-------------------------------------------------------------------------------
(***************************************************************************)
(* FinishCircuitLayer.                                                     *)
(***************************************************************************)
\* m_vTTGates: by the number of their inputs.
InOrderOfInputs(ids) ==
    Concat([n \in 1 .. MaxInputs |-> Selected(ids, LAMBDA i : Len(Gate(i).ins) = n)])

\* Of the n-th OT, for a value whose inputs' share is own: the row that the
\* receiver's share t of the inputs selects, under the string that its choice
\* has if its share is t.
MaskedTable(p, g, kind, n, own, asked) ==
    [row \in Bits(kind[1]) |->
        XorBits(XorBits(TableRnd(p, kind, n), OTString(p, kind, n, row)),
                g.gs[XorBits(own, XorBits(asked, row))])]

\* asked: the choices received for the tables of this kind in the layer, from
\* those of gate i on.
SenderEvaluateTTGate(p, s, i, asked) ==
    LET g == Gate(i)
        kind == KindOf(g)
        in == Parents(s, g)
        first == s.lut.maskIdx[kind]
        out == [n \in 1 .. NvalsIn(g) |-> TableRnd(p, kind, first + n)]
        tables == [n \in 1 .. NvalsIn(g) |->
                      MaskedTable(p, g, kind, first + n, Selection(in, n), asked[n])]
    IN  UsedGates([Assign(Reads(s, g.ins), i, LutLayout(g, NvalsIn(g), out)) EXCEPT
            !.lut.maskSnd[kind] = @ \o tables, !.lut.maskIdx[kind] = first + NvalsIn(g)], g.ins)

ReceiverEvaluateTTGate(p, s, i, masks) ==
    LET g == Gate(i)
        kind == KindOf(g)
        first == s.lut.choiceIdx[kind]
        row(n) == OTChoice(p, kind, first + n)
        out == [n \in 1 .. NvalsIn(g) |->
                   XorBits(masks[n][row(n)], OTString(Other(p), kind, first + n, row(n)))]
    IN  UsedGates([Assign(s, i, LutLayout(g, NvalsIn(g), out)) EXCEPT
            !.lut.choiceIdx[kind] = first + NvalsIn(g)], g.ins)

From(values, used) == SubSeq(values, used + 1, Len(values))

\* Of what was received in the layer that began with s.
ChoicesLeft(s, t, kind) == From(s.lut.rcv.choices[kind], t.lut.maskIdx[kind] - s.lut.maskIdx[kind])
MasksLeft(s, t, kind) == From(s.lut.rcv.masks[kind], t.lut.choiceIdx[kind] - s.lut.choiceIdx[kind])

EvaluateTTGates(p, s) ==
    LET ids == InOrderOfInputs(s.lut.TTGates)
        sent == Through(LAMBDA t, i :
            SenderEvaluateTTGate(p, t, i, ChoicesLeft(s, t, KindOf(Gate(i)))), s, ids)
        received == Through(LAMBDA t, i :
            ReceiverEvaluateTTGate(p, t, i, MasksLeft(s, t, KindOf(Gate(i)))), s, ids)
    IN  [IF s.lut.playSender THEN sent ELSE received EXCEPT !.lut.TTGates = <<>>]

AssignInputShares(s) == AssignInOrder(s, s.lut.inGates, s.lut.rcv.in)

AssignOutputShare(s, i, bits) == Computed(s, i, XorBits(s.val[Gate(i).ins[1]], bits))

AssignOutputShares(s) ==
    Through(LAMBDA t, m :
        AssignOutputShare(t, s.lut.outGates[m], Stretch(s.lut.outGates, m, s.lut.rcv.out)),
        s, [m \in DOMAIN s.lut.outGates |-> m])

\* Of the receiver, the stash is on its way.
InitNewLayer(s) ==
    LET none == [kind \in Kinds(circ) |-> 0]
    IN  [s EXCEPT !.lut = [s.lut EXCEPT
            !.inSnd = <<>>, !.inGates = <<>>, !.outSnd = <<>>, !.outGates = <<>>,
            !.stash = IF s.lut.playSender THEN s.lut.stash ELSE Nothing,
            !.choiceSnd = NoValues(circ), !.choiceRcvCtr = none, !.maskRcvCtr = none, !.rcv = <<>>]]

FinishCircuitLayer(p, s) ==
    Once(LAMBDA t : [InitNewLayer(AssignOutputShares(AssignInputShares(t)))
                        EXCEPT !.lut.playSender = ~@],
         EvaluateTTGates(p, s))
===============================================================================
