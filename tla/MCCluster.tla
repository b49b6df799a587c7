----------------------------- MODULE MCCluster -----------------------------
(* Cluster, instantiated for TLC. *)
EXTENDS Cluster

\* The subscriptions are interchangeable, and so are the readers.
Symmetric == Permutations(Subs) \cup Permutations(Readers)

=============================================================================
