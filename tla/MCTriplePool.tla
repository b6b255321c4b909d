----------------------------- MODULE MCTriplePool -----------------------------
(* Two circuits against two stored bytes: half and the other half, nothing   *)
(* and all of it, too much at once and then little, and an overrun at the    *)
(* second circuit.                                                           *)
EXTENDS TriplePool

MCWorkloads == {<<1, 1>>, <<0, 2>>, <<3, 1>>, <<1, 2>>}
===============================================================================
