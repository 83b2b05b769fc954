---------------------------- MODULE MCPageCache ----------------------------
(* A small instance of PageCache: two pages whose models do not fit        *)
(* together, and one scale or two.                                         *)
EXTENDS PageCache

CONSTANTS p1, p2

MCModelBytes == [p \in Pages |-> IF p = p1 THEN 1 ELSE 2]
MCPixelBytes == [s \in Scales |-> s]
=============================================================================
