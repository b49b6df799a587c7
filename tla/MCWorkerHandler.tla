-------------------------- MODULE MCWorkerHandler --------------------------
(* WorkerHandler, instantiated for TLC. *)
EXTENDS WorkerHandler, TLC

\* The clients are interchangeable.
Symmetric == Permutations(Clients)

=============================================================================
