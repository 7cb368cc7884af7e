---------------------------- MODULE MCWorkerPool ----------------------------
(* A small instance of WorkerPool for TLC. *)
EXTENDS WorkerPool

CONSTANTS a1

Unbounded == [a \in Actor |-> None]

=============================================================================
