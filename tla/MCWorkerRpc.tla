---------------------------- MODULE MCWorkerRpc ----------------------------
(* A small instance of WorkerRpc: a render, a change of the same document, *)
(* a read and a call of a method the worker does not know.                 *)
EXTENDS WorkerRpc

MCDocOf == [c \in Calls |-> "doc"]
=============================================================================
