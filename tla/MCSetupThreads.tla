--------------------------- MODULE MCSetupThreads ---------------------------
(***************************************************************************)
(* Two circuits: one with all kinds of work, where the tables of S_YAO fill *)
(* the window once, with an odd number of multiplications; and one without *)
(* S_YAO, ANDs and outputs.                                                *)
(***************************************************************************)
EXTENDS SetupInvariant

MCCircuits ==
    <<[bool |-> TRUE, muls |-> 5,
       yao |-> [depth |-> 2, ands |-> <<1, 3, 4>>, univ |-> 1, outs |-> 1],
       rev |-> [depth |-> 1, ands |-> <<2>>, univ |-> 0, outs |-> 1]],
      [bool |-> FALSE, muls |-> 6,
       yao |-> [depth |-> 0, ands |-> <<>>, univ |-> 0, outs |-> 0],
       rev |-> [depth |-> 1, ands |-> <<>>, univ |-> 1, outs |-> 0]]>>
=============================================================================
