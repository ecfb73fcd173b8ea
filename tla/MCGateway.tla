------------------------------ MODULE MCGateway ------------------------------
(* Small engines; the worker threads are interchangeable.                  *)
EXTENDS Gateway, TLC

WorkerSymmetry == Permutations(Worker)
=============================================================================
