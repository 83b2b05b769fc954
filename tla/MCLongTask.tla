----------------------------- MODULE MCLongTask -----------------------------
\* Two batches of two keys, and a panel mounted twice.
EXTENDS LongTask, TLC

AllKeys == {"k1", "k2"}
TwoKeys == [b \in 1 .. N |-> IF b = 1 THEN "k1" ELSE "k2"]
Second == {"k2"}
Calls == Permutations(Loops) \cup Permutations(Ops)
=============================================================================
