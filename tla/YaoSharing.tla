------------------------------- MODULE YaoSharing -------------------------------
(***************************************************************************)
(* YaoSharing: what the garbler and the evaluator of a circuit share.  A   *)
(* wire has two keys that differ in R, whose last bit is 1; the garbler    *)
(* keeps the one that ends in 0 and a permutation bit pi, the evaluator    *)
(* has the key of the wire's value, whose last bit is the value xor pi.    *)
(* x is one of the two objects: the server garbles YAO, the client         *)
(* YAO_REV, and each calls the garbler SERVER.                             *)
(***************************************************************************)
EXTENDS GateStore

CONSTANT KeyBits        \* symbits: 80 to 256 in the code

Garbler(x) == IF x = "YAO" THEN "SERVER" ELSE "CLIENT"
Evaluator(x) == Other(Garbler(x))

ZeroKey == [k \in 1 .. KeyBits |-> 0]
XorKeys(keys) == Through(XorBits, ZeroKey, keys)
If(bit, key) == AndBits(bit, key)

GlobalKey(x) == Draw(x, "R", 0, KeyBits - 1) \o <<1>>
OtherKey(x, key) == XorBits(key, GlobalKey(x))

\* CreateRandomWireKeys: the last bit is cleared.
InputKey(x, whose, n) == Draw(x, whose, KeyBits * n, KeyBits - 1) \o <<0>>
PermBit(x, n) == Flip(seed, x, "perm", n)

\* The OTs that hand out the keys of the evaluator's bits.
ROTMask(x, bit, n) == Draw(x, IF bit = 0 THEN "M0" ELSE "M1", KeyBits * n, KeyBits)
ChoiceBit(x, n) == Flip(seed, x, "choice", n)

\* AES under a fixed key: some function of the key and the gate, the same for
\* both objects.
Hash(what, key, id) ==
    Draw("SERVER", what, KeyBits * (NumberOf(key) + 2^KeyBits * id), KeyBits)

EncryptWire(key, id) == Hash("wire", key, id)

EncryptWireGRR3(p, l, r, id) ==
    XorBits(p, Hash("row", l, NumberOf(r) + 2^KeyBits * id))

\* A conversion of arithmetic shares: whose bits, and which.
ParentContext(g) == Gate(g.ins[1]).context
IsServerShare(g) == ParentContext(g) = "ARITH" /\ g.gs % 2 = 0
ShareBit(value, pos) == BitOf(value, pos \div 2)

\* Garbled and evaluated alike, on the pairs of keys and bits or on the keys.
MovesValues(g) == g.type \in {"SHARED_OUT", "COMBINE", "SPLIT", "REPEAT", "COMBINEPOS", "SUBSET"}
Moved(g, in) == IF g.type = "SHARED_OUT" THEN in[1] ELSE EvaluateSIMDGate(g, in)
===============================================================================
