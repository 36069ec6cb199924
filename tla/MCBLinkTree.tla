---------------------------- MODULE MCBLinkTree -----------------------------
(* TLC instances of BLinkTree. *)
EXTENDS BLinkTree

CONSTANTS t1, t2

TwoThreads == {t1, t2}

Call(kind, prefix, tid) == [kind |-> kind, key |-> prefix * TidRange + tid]

\* The last call of the load splits the root leaf.  Before its new root is in
\* place two unique inserts and a lookup of prefix 6 race with inserts that
\* split the right leaf inside prefix 6; rows 1 and 4 are deleted ones.
MixedLoad == << Call("Insert", 2, 1), Call("Delete", 2, 1), Call("Insert", 3, 1),
                Call("Insert", 5, 1), Call("Insert", 6, 4) >>
MixedOps == { Call("Insert", 6, 1), Call("Insert", 9, 1),
              Call("InsertUnique", 6, 2), Call("InsertUnique", 6, 3),
              Call("Get", 6, 0) }
=============================================================================
