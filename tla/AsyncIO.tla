------------------------------ MODULE AsyncIO -------------------------------
(***************************************************************************)
(* What the buffer pool expects of the disk.  A request for a page is      *)
(* outstanding exactly as long as the page's IO flag is set: the flag is   *)
(* set with the request, one completion ends both, and no completion comes *)
(* for a page without a request.                                           *)
(***************************************************************************)
CONSTANT Pages

VARIABLES
  flag,     \* the pages whose waiters wait
  pending   \* the pages with a request at the disk

AsyncInit == flag = {} /\ pending = {}

Request(p) ==
  /\ p \notin pending
  /\ pending' = pending \cup {p}
  /\ flag'    = flag \cup {p}

Complete(p) ==
  /\ p \in pending
  /\ pending' = pending \ {p}
  /\ flag'    = flag \ {p}

AsyncNext == \E p \in Pages : Request(p) \/ Complete(p)

AsyncSpec == AsyncInit /\ [][AsyncNext]_<<flag, pending>>
=============================================================================
