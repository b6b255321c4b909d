--------------------------- MODULE MCPartyThreads ---------------------------
(* The server sends in every layer, the client in any set of layers; or    *)
(* only the last layer has messages at all.                                *)
EXTENDS PartyThreads

MCTraffics ==
    {t \in [Party -> [Layer -> BOOLEAN]] :
        \/ \A d \in Layer : t["SERVER"][d]
        \/ \A p \in Party : \A d \in Layer : t[p][d] = (d = Layers)}
=============================================================================
