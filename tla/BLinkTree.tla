------------------------------ MODULE BLinkTree ------------------------------
(***************************************************************************)
(* BTreeIndex: a B-link tree with optimistic descents, one write latch at  *)
(* a time for inserts and deletes, latches kept from left to right for     *)
(* unique inserts, and separators that are propagated after the split.     *)
(*                                                                         *)
(* A key is prefix * TidRange + tid: KeyNormEncoder puts the tuple id      *)
(* behind the encoded columns, so the byte order of keys is this order and *)
(* tid 0 is below every entry of its prefix.  A node is its header and the *)
(* SET of its slots (slots are kept sorted; IndexPage is about the bytes). *)
(* What a thread reads of a node between Lock<Optimistic> and a successful *)
(* Unlock<Optimistic> is one step that needs the node not write-latched:   *)
(* OptimisticLockProofs shows that such a read is never torn.              *)
(***************************************************************************)
EXTENDS Integers, Sequences, FiniteSets, FiniteSetsExt, SequencesExt

CONSTANTS
  Threads,     \* the threads that call the index
  Ops,         \* the calls made: records [kind, key], each made once
  Load,        \* calls made one after the other before those of Ops
  TidRange,    \* tuple ids are 1 .. TidRange - 1
  Dead,        \* tuple ids whose newest version is a safe deletion
  LeafCap,     \* entries a leaf's heap holds
  InterCap,    \* separators an inner node's heap holds
  FreedReads,  \* what a freed key buffer may hold, apart from the old key
  MaxPages,    \* bound: pages of the index
  None         \* no thread

NoPage == 0    \* UNDEFINED_PAGE
NoKey  == 0    \* UNDEFINED_OFFSET: the node has no high fence
Empty  == 0    \* the empty key of a leftmost separator

Kinds == {"Insert", "InsertUnique", "Delete", "Get"}
Calls == Ops \union Range(Load)

ASSUME BLinkTreeAssumption ==
  /\ LeafCap \in Nat /\ LeafCap >= 2 /\ InterCap \in Nat /\ InterCap >= 2
  /\ TidRange \in Nat \ {0}
  /\ MaxPages \in Nat \ {0}
  /\ None \notin Threads
  /\ FreedReads \subseteq Nat
  /\ Load \in Seq(Range(Load))
  /\ \A op \in Calls : op.kind \in Kinds /\ op.key \in Nat

VARIABLES
  nodes,     \* the pages of the index: Reserve hands out 1, 2, 3, ...
  root,      \* root_id_
  latch,     \* the holder of each page's write latch
  todo,      \* the calls of Ops that are still to be made
  load,      \* the calls of Load that are still to be made
  th,        \* each thread's call: see IdleThread
  must, may  \* entries present all through a Get, and at any time in it

vars == <<nodes, root, latch, todo, load, th, must, may>>

IdleThread ==
  [pc    |-> "idle",
   op    |-> [kind |-> "Get", key |-> 0],
   pid   |-> NoPage,   \* the page looked at, or the left page of a split
   stack |-> <<>>,     \* TlState: inner nodes passed on the way down
   key   |-> 0,        \* the key looked for: the call's or the separator's
   child |-> NoPage,   \* the new page the separator leads to
   level |-> 0,        \* drop_level; 0 while the call itself descends
   ins   |-> NoPage,   \* InsertUnique: insert_page
   freed |-> FALSE,    \* key points into a buffer that is already freed
   found |-> {}]       \* Get: results

Prefix(k) == k \div TidRange
Low(k)    == Prefix(k) * TidRange   \* the key of tid 0

-----------------------------------------------------------------------------
(* The node layouts, as sets of slots.                                     *)

Slot(k, p) == [key |-> k, child |-> p]

\* InitHeader: no fence, no right link, an empty heap.
InitHeader(lvl, slots) ==
  [level |-> lvl, slots |-> slots, high |-> NoKey, rlink |-> NoPage,
   used |-> Cardinality(slots)]

Keys(n) == {s.key : s \in n.slots}

\* Mutant: a key equal to the fence is looked for on the left.
HasSplitStrict(n, k) == n.high # NoKey /\ n.high < k

\* HasSplit: the fence is at or below the key, which now lives to the right.
HasSplit(n, k) == n.high # NoKey /\ n.high <= k

\* Mutant: compares the tuple id too.
HighFullCmp(n, k) == n.high # NoKey /\ n.high = k

\* HighPrefixCmp: entries of k's prefix may go on in the right sibling.
HighPrefixCmp(n, k) == n.high # NoKey /\ Prefix(n.high) = Prefix(k)

\* Get of an inner node, FindChild: the child of the largest separator <= k.
FindChild(n, k) ==
  LET m == Max({x \in Keys(n) : x <= k})
  IN  (CHOOSE s \in n.slots : s.key = m).child

\* The heap has room: deletes free the slot and never the heap.
HasSpace(n) == n.used < (IF n.level = 0 THEN LeafCap ELSE InterCap)

InsertSlot(n, s) ==
  [n EXCEPT !.slots = @ \union {s}, !.used = @ + 1]

\* FindSplitPoint for keys of one length: the smallest half of the bytes,
\* where the empty separator has none; at least one slot goes right.
FindSplitPoint(n) ==
  LET count == Cardinality(n.slots)
      bytes == Cardinality(n.slots \ {s \in n.slots : s.key = Empty})
  IN  Min({count - bytes + (bytes + 1) \div 2, count - 1})

\* Split: the first slots stay, the others move right with the old fence and
\* right link; the first key moved is the separator and the left fence.  Both
\* heaps are compacted, then the new slot goes to its side.
Lower(n) ==
  {s \in n.slots : Cardinality({x \in Keys(n) : x < s.key}) < FindSplitPoint(n)}
Sentinel(n) == Min({s.key : s \in n.slots \ Lower(n)})

LeftHalf(n, s, new) ==
  LET half == [n EXCEPT !.slots = Lower(n), !.used = Cardinality(Lower(n)),
                        !.rlink = new, !.high = Sentinel(n)]
  IN  IF Sentinel(n) <= s.key THEN half ELSE InsertSlot(half, s)

\* Mutant: the copy starts one slot after the split point.
RightHalfSkipsSlot(n, s) ==
  LET kept == {x \in n.slots \ Lower(n) : x.key # Sentinel(n)}
      half == [InitHeader(n.level, kept) EXCEPT !.high = n.high, !.rlink = n.rlink]
  IN  IF Sentinel(n) <= s.key THEN InsertSlot(half, s) ELSE half

RightHalf(n, s) ==
  LET half == [InitHeader(n.level, n.slots \ Lower(n))
                 EXCEPT !.high = n.high, !.rlink = n.rlink]
  IN  IF Sentinel(n) <= s.key THEN InsertSlot(half, s) ELSE half

-----------------------------------------------------------------------------
\* The constructor reserves the root leaf.
Init ==
  /\ nodes = <<InitHeader(0, {})>>
  /\ root  = 1
  /\ latch = [p \in 1 .. MaxPages |-> None]
  /\ todo  = Ops
  /\ load  = Load
  /\ th    = [t \in Threads |-> IdleThread]
  /\ must  = [t \in Threads |-> {}]
  /\ may   = [t \in Threads |-> {}]

Leaves  == {p \in DOMAIN nodes : nodes[p].level = 0}
Entries == UNION {Keys(nodes[p]) : p \in Leaves}

Node(t) == nodes[th[t].pid]
At(t, pc) == th[t].pc = pc
Return(t) == th' = [th EXCEPT ![t] = IdleThread]
Latched(t, p) == latch' = [latch EXCEPT ![p] = t]
Unlatched(t) == latch' = [p \in DOMAIN latch |->
                            IF latch[p] = t THEN None ELSE latch[p]]
Readable(t) == latch[th[t].pid] \in {None, t}

\* The calls t may make next: those of Load by one thread.
NextCalls(t) ==
  IF load = <<>> THEN todo
  ELSE IF t = CHOOSE u \in Threads : TRUE THEN {Head(load)} ELSE {}

\* Insert, InsertUnique, Delete and Get build the key, clear TlState and load
\* the root.  Get and InsertUnique search with tid 0.  The tree's callers
\* only delete an entry that is there.
Begin(t) ==
  /\ At(t, "idle")
  /\ \E op \in NextCalls(t) :
       /\ op.kind = "Delete" => op.key \in Entries
       /\ th' = [th EXCEPT
            ![t].pc = "drop", ![t].op = op, ![t].pid = root,
            ![t].key = IF op.kind \in {"Get", "InsertUnique"}
                       THEN Low(op.key) ELSE op.key]
       /\ IF load = <<>>
            THEN todo' = todo \ {op} /\ UNCHANGED load
            ELSE load' = Tail(load) /\ UNCHANGED todo
  /\ UNCHANGED <<nodes, root, latch>>

\* DropToLevel, one validated read of a node per step: arrive ...
Arrive(t) ==
  /\ At(t, "drop") /\ Readable(t)
  /\ Node(t).level <= th[t].level
  /\ IF th[t].level = 0
       THEN th' = [th EXCEPT ![t].pc =
                     IF th[t].op.kind = "Get" THEN "get" ELSE "latch"]
       ELSE \E k \in {th[t].key} \union (IF th[t].freed THEN FreedReads ELSE {}) :
              th' = [th EXCEPT ![t].pc = "latch", ![t].key = k]
  /\ UNCHANGED <<nodes, root, latch, todo, load>>

\* ... follow the right link of a node that was split ...
DropRight(t) ==
  /\ At(t, "drop") /\ Readable(t)
  /\ Node(t).level > th[t].level
  /\ HasSplit(Node(t), th[t].key)
  /\ th' = [th EXCEPT ![t].pid = Node(t).rlink]
  /\ UNCHANGED <<nodes, root, latch, todo, load>>

\* ... or push the node and go down.
DropDown(t) ==
  /\ At(t, "drop") /\ Readable(t)
  /\ Node(t).level > th[t].level
  /\ ~HasSplit(Node(t), th[t].key)
  /\ th' = [th EXCEPT ![t].pid   = FindChild(Node(t), th[t].key),
                      ![t].stack = Append(@, th[t].pid)]
  /\ UNCHANGED <<nodes, root, latch, todo, load>>

\* Lock<Write> and GetNode<Write>.
WriteLatch(t) ==
  /\ At(t, "latch")
  /\ latch[th[t].pid] = None
  /\ Latched(t, th[t].pid)
  /\ th' = [th EXCEPT ![t].pc = "right"]
  /\ UNCHANGED <<nodes, root, todo, load>>

\* Mutant: latches the node it came from again.
GoRightStays(t) ==
  /\ At(t, "right")
  /\ HasSplit(Node(t), th[t].key)
  /\ Unlatched(t)
  /\ th' = [th EXCEPT ![t].pc = "latch"]
  /\ UNCHANGED <<nodes, root, todo, load>>

\* GoRightLeaf and GoRightInter: release before latching the right sibling.
GoRight(t) ==
  /\ At(t, "right")
  /\ HasSplit(Node(t), th[t].key)
  /\ Unlatched(t)
  /\ th' = [th EXCEPT ![t].pc = "latch", ![t].pid = Node(t).rlink]
  /\ UNCHANGED <<nodes, root, todo, load>>

\* The latched node is the one the key belongs to.
Reached(t) == At(t, "right") /\ ~HasSplit(Node(t), th[t].key)

Conflict(n, k) ==
  \E e \in Keys(n) : Prefix(e) = Prefix(k) /\ e % TidRange \notin Dead

\* Mutant: the leaf is released before its right sibling is checked.
DropLatches(t) == Unlatched(t)

\* "Latch crabbing": visited keeps the leaves latched to the end of the call.
KeepLatches(t) == UNCHANGED latch

\* The loop of InsertUnique on one leaf: a conflicting entry of the prefix
\* ends the call; otherwise go on while the fence has the prefix, keeping all
\* latches, then insert into the first leaf the full key belongs to.
CheckUnique(t) ==
  /\ th[t].op.kind = "InsertUnique" /\ th[t].child = NoPage
  /\ Reached(t) \/ At(t, "check")
  /\ LET k   == th[t].op.key
         ins == IF th[t].ins = NoPage /\ ~HasSplit(Node(t), k)
                THEN th[t].pid ELSE th[t].ins
     IN  \/ /\ Conflict(Node(t), k)
            /\ Unlatched(t)
            /\ Return(t)
         \/ /\ ~Conflict(Node(t), k)
            /\ HighPrefixCmp(Node(t), k)
            /\ th' = [th EXCEPT ![t].pc = "crab", ![t].ins = ins, ![t].key = k,
                                ![t].pid = Node(t).rlink]
            /\ KeepLatches(t)
         \/ /\ ~Conflict(Node(t), k)
            /\ ~HighPrefixCmp(Node(t), k)
            /\ th' = [th EXCEPT ![t].pc = "put", ![t].pid = ins, ![t].key = k]
            /\ UNCHANGED latch
  /\ UNCHANGED <<nodes, root, todo, load>>

\* GetNode<Write> of the right sibling while the leaves before it are held.
Crab(t) ==
  /\ At(t, "crab")
  /\ latch[th[t].pid] = None
  /\ Latched(t, th[t].pid)
  /\ th' = [th EXCEPT ![t].pc = "check"]
  /\ UNCHANGED <<nodes, root, todo, load>>

\* The thread may put its slot into the latched node: an entry into a leaf,
\* or (child is set) a separator into an inner node.
MayPut(t) ==
  \/ At(t, "put")
  \/ Reached(t) /\ (th[t].op.kind = "Insert" \/ th[t].child # NoPage)

NewSlot(t) == Slot(th[t].key, th[t].child)

\* The node has room: insert, release and return.
Insert(t) ==
  /\ MayPut(t)
  /\ HasSpace(Node(t))
  /\ nodes' = [nodes EXCEPT ![th[t].pid] = InsertSlot(@, NewSlot(t))]
  /\ Unlatched(t)
  /\ Return(t)
  /\ UNCHANGED <<root, todo, load>>

\* SplitLeaf and SplitInter, then the release of everything latched; the
\* separator goes to the parent on the stack, or to a new root.  The key of
\* a separator that an inner split sends up lives in a buffer that is freed
\* before the parent is searched.
Split(t) ==
  /\ MayPut(t)
  /\ ~HasSpace(Node(t)) /\ Len(nodes) < MaxPages
  /\ Cardinality(Node(t).slots) >= 2
  /\ LET n     == Node(t)
         new   == Len(nodes) + 1
         k     == Sentinel(n)
         stack == th[t].stack
         freed == n.level > 0
     IN  /\ nodes' = Append([nodes EXCEPT ![th[t].pid] = LeftHalf(n, NewSlot(t), new)],
                            RightHalf(n, NewSlot(t)))
         /\ \/ /\ stack = <<>>
               /\ th' = [th EXCEPT ![t].pc = "root", ![t].key = k,
                                   ![t].child = new, ![t].freed = freed]
            \/ /\ stack # <<>>
               /\ \E seen \in {k} \union (IF freed THEN FreedReads ELSE {}) :
                    th' = [th EXCEPT ![t].pc = "latch", ![t].key = seen,
                                     ![t].child = new, ![t].pid = Last(stack),
                                     ![t].stack = Front(stack)]
  /\ Unlatched(t)
  /\ UNCHANGED <<root, todo, load>>

\* Under root_mtx_: the node split is still the root, which grows ...
CreateNewRoot(t) ==
  /\ At(t, "root")
  /\ root = th[t].pid /\ Len(nodes) < MaxPages
  /\ nodes' = Append(nodes, InitHeader(Node(t).level + 1,
                              {Slot(Empty, th[t].pid), NewSlot(t)}))
  /\ root' = Len(nodes) + 1
  /\ Return(t)
  /\ UNCHANGED <<latch, todo, load>>

\* Mutant: the separator of a node that is not the root is given up.
NotRootGivesUp(t) ==
  /\ At(t, "root")
  /\ root # th[t].pid
  /\ Return(t)
  /\ UNCHANGED <<nodes, root, latch, todo, load>>

\* ... or it is not, and the parent is looked for from the root: the mutex is
\* released first.
NotRoot(t) ==
  /\ At(t, "root")
  /\ root # th[t].pid
  /\ th' = [th EXCEPT ![t].pc = "redrop", ![t].level = Node(t).level + 1]
  /\ UNCHANGED <<nodes, root, latch, todo, load>>

Redrop(t) ==
  /\ At(t, "redrop")
  /\ th' = [th EXCEPT ![t].pc = "drop", ![t].pid = root]
  /\ UNCHANGED <<nodes, root, latch, todo, load>>

\* DeleteInternal: the slot goes, the heap keeps the bytes.
Delete(t) ==
  /\ Reached(t)
  /\ th[t].op.kind = "Delete"
  /\ th[t].key \in Keys(Node(t))
  /\ nodes' = [nodes EXCEPT ![th[t].pid].slots = {s \in @ : s.key # th[t].key}]
  /\ Unlatched(t)
  /\ Return(t)
  /\ UNCHANGED <<root, todo, load>>

\* InternalGet, one validated read of a leaf: go right, or collect.
GetRight(t) ==
  /\ At(t, "get") /\ Readable(t)
  /\ HasSplit(Node(t), th[t].key)
  /\ th' = [th EXCEPT ![t].pid = Node(t).rlink]
  /\ UNCHANGED <<nodes, root, latch, todo, load>>

GetCollect(t) ==
  /\ At(t, "get") /\ Readable(t)
  /\ ~HasSplit(Node(t), th[t].key)
  /\ LET here == {k \in Keys(Node(t)) : Prefix(k) = Prefix(th[t].key)}
     IN  th' = [th EXCEPT ![t].found = @ \union here,
                          ![t].pc = IF HighPrefixCmp(Node(t), th[t].key)
                                    THEN "next" ELSE "returned"]
  /\ UNCHANGED <<nodes, root, latch, todo, load>>

\* The right link is read after the validation, whoever holds the latch.
GetNext(t) ==
  /\ At(t, "next")
  /\ IF Node(t).rlink = NoPage
       THEN th' = [th EXCEPT ![t].pc = "returned"]
       ELSE th' = [th EXCEPT ![t].pc = "get", ![t].pid = Node(t).rlink]
  /\ UNCHANGED <<nodes, root, latch, todo, load>>

GetReturn(t) ==
  /\ At(t, "returned")
  /\ Return(t)
  /\ UNCHANGED <<nodes, root, latch, todo, load>>

Step(t) ==
  \/ Begin(t) \/ Arrive(t) \/ DropRight(t) \/ DropDown(t)
  \/ WriteLatch(t) \/ GoRight(t) \/ CheckUnique(t) \/ Crab(t)
  \/ Insert(t) \/ Split(t) \/ CreateNewRoot(t) \/ NotRoot(t) \/ Redrop(t)
  \/ Delete(t)
  \/ GetRight(t) \/ GetCollect(t) \/ GetNext(t) \/ GetReturn(t)

\* Bookkeeping for GetComplete: not state of the program.
Observe ==
  LET getting(u) == th'[u].op.kind = "Get" /\ th'[u].pc # "idle"
  IN  /\ must' = [u \in Threads |->
                    IF ~getting(u) THEN {}
                    ELSE IF At(u, "idle") THEN Entries'
                    ELSE must[u] \intersect Entries']
      /\ may'  = [u \in Threads |->
                    IF ~getting(u) THEN {}
                    ELSE IF At(u, "idle") THEN Entries'
                    ELSE may[u] \union Entries']

\* The children of an inner node are one level below it.  What the code does
\* after a separator went to the wrong level is undefined: nothing more is
\* modelled from there.
LevelConsistency ==
  \A p \in DOMAIN nodes : \A s \in nodes[p].slots :
    s.child # NoPage => nodes[s.child].level = nodes[p].level - 1

Quiet == load = <<>> /\ \A t \in Threads : At(t, "idle")

Finished ==
  \/ ~LevelConsistency
  \/ todo = {} /\ Quiet

Next ==
  \/ LevelConsistency /\ \E t \in Threads : Step(t) /\ Observe
  \/ Finished /\ UNCHANGED vars

Spec == Init /\ [][Next]_vars

\* A thread in a call keeps running; shared_mutex and mutex let everyone in.
FairSpec == Spec /\ \A t \in Threads : WF_vars(Step(t) /\ Observe)

-----------------------------------------------------------------------------
(* Properties.                                                             *)

\* The shape of the variables: links lead to nodes, and a node has a right link
\* exactly when it has a high fence.
TypeOK ==
  /\ root \in DOMAIN nodes
  /\ DOMAIN nodes \subseteq DOMAIN latch
  /\ \A p \in DOMAIN nodes :
       /\ nodes[p].rlink \in DOMAIN nodes \union {NoPage}
       /\ nodes[p].rlink = NoPage <=> nodes[p].high = NoKey
       /\ \A s \in nodes[p].slots : s.child \in DOMAIN nodes \union {NoPage}
  /\ \A p \in DOMAIN latch : latch[p] \in Threads \union {None}

\* The node of the given level at which a search for k that is now at page p
\* ends when nobody else moves: right links first, then the covering child.
WalkFrom(p, k, lvl) ==
  LET at[i \in 0 .. Len(nodes)] ==
        IF i = 0 THEN p
        ELSE LET q == at[i - 1]
                 n == nodes[q]
             IN  IF HasSplit(n, k) THEN n.rlink
                 ELSE IF n.level <= lvl THEN q ELSE FindChild(n, k)
  IN  at[Len(nodes)]

\* Every entry is found by a search from the root, whatever splits are half
\* done, and no thread has strayed: from the page a descending thread is at,
\* its key leads to the same leaf as from the root.
SearchFindsEntry ==
  LevelConsistency =>
    /\ \A p \in Leaves : \A k \in Keys(nodes[p]) : WalkFrom(root, k, 0) = p
    /\ \A t \in Threads :
         /\ th[t].child = NoPage
         /\ th[t].pc \in {"drop", "latch", "right"}
         => WalkFrom(th[t].pid, th[t].key, 0) = WalkFrom(root, th[t].key, 0)

\* When no call is running every page but the root hangs under exactly one
\* separator: no separator of a split is lost or put in twice.
SeparatorsComplete ==
  LevelConsistency /\ Quiet =>
    \A p \in DOMAIN nodes \ {root} :
      Cardinality({q \in DOMAIN nodes : \E s \in nodes[q].slots : s.child = p}) = 1

\* A Get returns every entry of its prefix that was there all the time, and
\* only entries of its prefix that were there at some time.
GetComplete ==
  \A t \in Threads :
    At(t, "returned") =>
      LET mine(S) == {k \in S : Prefix(k) = Prefix(th[t].key)}
      IN  mine(must[t]) \subseteq th[t].found /\ th[t].found \subseteq mine(may[t])

\* InsertUnique admits one live entry per prefix: calls that race for the
\* same prefix do not both succeed, wherever in the leaf chain they insert.
UniqueKeys ==
  \A o \in Calls :
    o.kind = "InsertUnique" =>
      Cardinality({k \in Entries : Prefix(k) = Prefix(o.key)
                                   /\ k % TidRange \notin Dead}) <= 1

Asked(kinds) == {o.key : o \in {c \in Calls : c.kind \in kinds}}

Contents == INSTANCE IndexContents WITH
  Added   <- Asked({"Insert", "InsertUnique"}),
  Removed <- Asked({"Delete"}),
  entries <- Entries

\* The tree implements a set of entries: a split, a separator or a new root
\* changes no entry, an insert adds its own and a delete removes its own.
ImplementsContents == Contents!AbsSpec

\* Every call returns (or the levels went wrong): latches are taken from left
\* to right and bottom up, and no descent goes round in circles.
CallsReturn ==
  \A t \in Threads : ~At(t, "idle") ~> At(t, "idle") \/ ~LevelConsistency
=============================================================================
