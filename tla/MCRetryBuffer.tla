---------------------------- MODULE MCRetryBuffer ----------------------------
(* Instances of RetryBuffer small enough for TLC. *)
EXTENDS RetryBuffer

CONSTANTS w1, w2, w3, w4, k1, k2

\* Two writes of one key that do not fit in a batch together, a smaller one that
\* fits beside either, and a write of another key.
Four     == {w1, w2, w3, w4}
FourKey  == [w \in Four |-> IF w = w4 THEN k2 ELSE k1]
FourSize == [w \in Four |-> IF w \in {w1, w2} THEN 2 ELSE 1]
=============================================================================
