---------------------------- MODULE MCBufferPool ----------------------------
(* TLC instances of BufferPool. *)
EXTENDS BufferPool, TLC

CONSTANTS t1, t2, t3

TwoThreads   == {t1, t2}
ThreeThreads == {t1, t2, t3}

Symmetry3 == Permutations(ThreeThreads)
=============================================================================
