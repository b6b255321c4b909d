----------------------------- MODULE IdealCircuit -----------------------------
(***************************************************************************)
(* What evaluating circuits on shares promises: as if the parties gave     *)
(* their inputs to someone both trust, who computes in the clear and hands *)
(* each party the outputs that are for it, and nothing else.  No party     *)
(* leaves a circuit before it has all of its outputs.                      *)
(***************************************************************************)
CONSTANT Party

VARIABLES
    promised,     \* by party: the clear value of every output gate for it
    output        \* by party: the outputs it has

vars == <<promised, output>>

Nothing == {}
NoOne == [p \in Party |-> Nothing]

Init == promised = NoOne /\ output = NoOne

\* The next circuit; its inputs, and so its outputs, may be any.
Begin == promised = NoOne /\ DOMAIN promised' = Party /\ UNCHANGED output

Give(p) ==
    /\ output[p] # output'[p]
    /\ output[p] \subseteq output'[p]
    /\ output'[p] \subseteq promised[p]
    /\ \A q \in Party \ {p} : output'[q] = output[q]
    /\ UNCHANGED promised

Leave(p) ==
    /\ output[p] = promised[p]
    /\ promised' = [promised EXCEPT ![p] = Nothing]
    /\ output' = [output EXCEPT ![p] = Nothing]

Next == Begin \/ \E p \in Party : Give(p) \/ Leave(p)

Spec == Init /\ [][Next]_vars
===============================================================================
