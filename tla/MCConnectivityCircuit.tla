------------------------ MODULE MCConnectivityCircuit ------------------------
(* Small input matrices for ConnectivityCircuit.                           *)
EXTENDS ConnectivityCircuit

CONSTANT Owners   \* which parties may hold a link

Pairs == {<<n, x>> \in Node \X Node : x < n}
MCDatas ==
    {[p \in Party |-> [n \in Node |-> {x \in 0 .. n-1 : label[<<n, x>>] \in {p, "BOTH"}}]] :
        label \in [Pairs -> Owners \cup {"NONE"}]}
==============================================================================
