--------------------------- MODULE IndexContents ----------------------------
(***************************************************************************)
(* What an index promises: a set of (key, tuple id) entries that changes   *)
(* by one whole requested entry at a time.  Splits, separators and new     *)
(* roots are invisible at this level.                                      *)
(***************************************************************************)
CONSTANTS
  Added,    \* the entries that inserts ask for
  Removed   \* the entries that deletes ask for

VARIABLE entries

AbsInit == entries = {}

Add(e) ==
  /\ e \in Added \ entries
  /\ entries' = entries \union {e}

Remove(e) ==
  /\ e \in Removed \intersect entries
  /\ entries' = entries \ {e}

AbsNext == \E e \in Added \union Removed : Add(e) \/ Remove(e)

AbsSpec == AbsInit /\ [][AbsNext]_entries
=============================================================================
