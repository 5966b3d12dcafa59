----------------------------- MODULE MCTopology -----------------------------
(***************************************************************************)
(* Four services: the smallest graph with a transitive dependent and one   *)
(* more beyond the search.  Three of them are integrations, no more than   *)
(* are listed, and three dependencies, no more than are listed, make a     *)
(* star (more services than a search visits) or a chain (longer than it    *)
(* follows).  With four integrations, one of which is not listed, there is *)
(* one dependency, an outage, and a worker that has just started.          *)
(***************************************************************************)
EXTENDS Topology, TLC

Star == \A e, f \in edges : e[1] = f[1]
Chain == \A e, f \in edges : e = f \/ (e[1] # f[1] /\ e[2] # f[2])

MCInit ==
    /\ Init
    /\ \/ integrations # Services /\ Cardinality(edges) = 3 /\ (Star \/ Chain)
       \/ /\ integrations = Services /\ Cardinality(edges) = 1
          /\ open # {} /\ snapshot = NothingKnown

MCSpec == MCInit /\ [][Next]_vars

Symmetry == Permutations(Services) \cup Permutations(Admins) \cup Permutations(Slots)
=============================================================================
