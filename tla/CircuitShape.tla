----------------------------- MODULE CircuitShape -----------------------------
(***************************************************************************)
(* What holds of the circuits that are made with CircuitBuilder: what the  *)
(* queues hold, and what the counts count.                                 *)
(***************************************************************************)
EXTENDS AbyCircuit

\* The gates of the interactive queues; the other gates are in the local ones.
Interactive(g) ==
    \/ g.type \in {"IN", "OUT", "TT", "NON_LIN_VEC"}
    \/ g.type = "NON_LIN" /\ g.context \notin Yao
    \/ g.type = "CONV" /\ g.context # "BOOL"

GatesAt(c, x, d, interactive) ==
    {i \in DOMAIN c.gates : LET g == c.gates[i] IN
        g.context = x /\ g.depth = d /\ (Interactive(g) <=> interactive)}

IsGate(c, i) ==
    LET g == c.gates[i]
    IN  /\ g.context \in ToSet(Sharings) /\ g.depth \in Nat /\ g.nvals \in Nat \ {0}
        /\ Len(g.ins) \in Nat /\ DOMAIN g.ins = 1 .. Len(g.ins)
        /\ \A k \in 1 .. Len(g.ins) : g.ins[k] \in 1 .. i - 1
        /\ g.type \in {"CONV", "TT", "NON_LIN", "NON_LIN_VEC", "OUT"} => Len(g.ins) > 0
        /\ g.type = "IN" => g.gs \in Party
        /\ g.type = "OUT" => g.gs \in Role
        /\ g.type = "TT" => g.context \in {"BOOL", "SPLUT"}
        /\ g.type = "NON_LIN_VEC" => g.context = "BOOL"
        /\ g.type \in {"NON_LIN", "CONV"} => g.context # "SPLUT"

HasGatesInOrder(c) ==
    /\ Len(c.gates) \in Nat /\ DOMAIN c.gates = 1 .. Len(c.gates)
    /\ \A i \in DOMAIN c.gates : IsGate(c, i)

\* A gate is on its layer of its sharing, once, and the ids of a layer ascend.
HasLayers(c) ==
    \A x \in ToSet(Sharings) :
        /\ c.maxdepth[x] \in Nat
        /\ Len(c.interactive[x]) \in 0 .. c.maxdepth[x] /\ Len(c.local[x]) \in 0 .. c.maxdepth[x]
        /\ \A i \in DOMAIN c.gates : c.gates[i].context = x => c.gates[i].depth < c.maxdepth[x]
        /\ \A d \in 0 .. c.maxdepth[x] - 1 :
            /\ Picks(QueueOnLvl(c.interactive[x], d), GatesAt(c, x, d, TRUE))
            /\ Picks(QueueOnLvl(c.local[x], d), GatesAt(c, x, d, FALSE))

\* The single bits or the vectors that gate i takes triples for.
AndsTaken(c, i, bitlen) ==
    LET g == c.gates[i]
    IN  IF g.context = "BOOL" /\ g.type \in {"NON_LIN", "NON_LIN_VEC"} /\ g.gs = bitlen
        THEN g.nvals \div g.gs ELSE 0

HasANDsCounted(c) ==
    /\ Len(c.ands) \in Nat /\ DOMAIN c.ands = 1 .. Len(c.ands)
    /\ \A k, l \in DOMAIN c.ands : c.ands[k].bitlen = c.ands[l].bitlen => k = l
    /\ \A k \in DOMAIN c.ands : c.ands[k].numgates =
            Total([i \in DOMAIN c.gates |-> AndsTaken(c, i, c.ands[k].bitlen)], Len(c.gates))
    /\ \A i \in DOMAIN c.gates : LET g == c.gates[i] IN
        g.context = "BOOL" /\ g.type \in {"NON_LIN", "NON_LIN_VEC"} =>
            g.gs \in Nat \ {0} /\ \E k \in DOMAIN c.ands : c.ands[k].bitlen = g.gs

WellFormed(c) == HasGatesInOrder(c) /\ HasLayers(c) /\ HasANDsCounted(c)

\* The numbers that are made of bits are used, as the two rounds that make one
\* need a layer after the one in which they are asked for.
UsesConversions(c) ==
    \A i \in DOMAIN c.gates : LET g == c.gates[i] IN
        g.context = "ARITH" /\ g.type = "CONV" =>
            \E x \in ToSet(Sharings) : g.depth + 2 <= c.maxdepth[x]
===============================================================================
