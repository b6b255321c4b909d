------------------------------- MODULE Closure -------------------------------
(***************************************************************************)
(* Connected components without paths: a set is closed under links when no *)
(* link leaves it, and the components are the least non-empty closed sets. *)
(***************************************************************************)

\* links is a set of sets of two nodes.
ClosedUnder(links, T) == \A l \in links : l \cap T # {} => l \subseteq T

\* The components that lie inside S.
LeastClosed(links, S) ==
    {C \in (SUBSET S) \ {{}} :
        /\ ClosedUnder(links, C)
        /\ \A D \in (SUBSET C) \ {{}, C} : ~ ClosedUnder(links, D)}
==============================================================================
