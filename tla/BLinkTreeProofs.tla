--------------------------- MODULE BLinkTreeProofs ---------------------------
(***************************************************************************)
(* Proofs about BLinkTree, for any threads, calls and capacities, when the *)
(* freed buffer of a separator still holds its key (FreedReads = {}, the   *)
(* case the runs check).                                                   *)
(*                                                                         *)
(* The low fence of a page is the high fence of its left sibling; no page  *)
(* keeps it, but no step ever changes it: a split moves the upper half of  *)
(* a node to a NEW page, whose low fence is the separator.  With it a node *)
(* covers an interval of keys, the intervals of a level are disjoint, a    *)
(* separator is the low fence of its child, and a thread that is at a page *)
(* can only have gone too far left.  What is said of the pages is said of  *)
(* a sequence of nodes ns, so that it is proved once per kind of change.   *)
(* All of it holds up to the first separator on a wrong level, after which *)
(* the model takes no step (LevelConsistency).                             *)
(***************************************************************************)
EXTENDS BLinkTree, FiniteSetTheorems, SequenceTheorems, WellFoundedInduction, TLAPS

PCs == {"idle", "drop", "latch", "right", "crab", "check", "put", "root",
        "redrop", "get", "next", "returned"}

NodeShape ==
  [level : Nat, slots : SUBSET [key : Nat, child : Nat],
   high : Nat, rlink : Nat, used : Nat]

ThreadShape ==
  [pc : PCs, op : Calls \union {[kind |-> "Get", key |-> 0]}, pid : Nat,
   stack : Seq(Nat), key : Nat, child : Nat, level : Nat, ins : Nat,
   freed : BOOLEAN, found : SUBSET Nat]

\* The low fence of page p: the high fence of its left sibling.
LowFence(ns, p) ==
  LET left == {q \in DOMAIN ns : ns[q].rlink = p}
  IN  IF left = {} THEN 0 ELSE ns[CHOOSE q \in left : TRUE].high

\* Key k belongs to the interval of page p.
Covers(ns, p, k) ==
  LowFence(ns, p) <= k /\ (ns[p].high = NoKey \/ k < ns[p].high)

-----------------------------------------------------------------------------
(* The pages.                                                              *)

\* Nodes are well formed and their slots finite.
NodesOK(ns) ==
  /\ ns \in Seq(NodeShape)
  /\ \A p \in DOMAIN ns : IsFiniteSet(ns[p].slots)

\* A page has a right link exactly when it has a high fence; the link leads to
\* a page of its level, and no two pages have the same right sibling.
Linked(ns) ==
  /\ \A p \in DOMAIN ns :
       /\ ns[p].rlink = NoPage <=> ns[p].high = NoKey
       /\ ns[p].rlink # NoPage =>
            ns[p].rlink \in DOMAIN ns /\ ns[ns[p].rlink].level = ns[p].level
  /\ \A p, q \in DOMAIN ns :
       ns[p].rlink = ns[q].rlink /\ ns[p].rlink # NoPage => p = q

\* Intervals are not empty, and the keys of a page are in its interval.
Fenced(ns) ==
  \A p \in DOMAIN ns :
    /\ ns[p].high # NoKey => LowFence(ns, p) < ns[p].high
    /\ \A s \in ns[p].slots : Covers(ns, p, s.key)

\* The intervals of the pages of one level are disjoint.
Before(ns, p, q) == ns[p].high # NoKey /\ ns[p].high <= LowFence(ns, q)
Apart(ns) ==
  \A p, q \in DOMAIN ns :
    ns[p].level = ns[q].level /\ p # q => Before(ns, p, q) \/ Before(ns, q, p)

\* An entry has no child; a separator is the low fence of its child, which is
\* one level below, and an inner node has a separator for its low fence.
Separated(ns) ==
  \A p \in DOMAIN ns :
    /\ ns[p].level = 0 => \A s \in ns[p].slots : s.child = NoPage
    /\ ns[p].level > 0 =>
         /\ \A s \in ns[p].slots :
              /\ s.child \in DOMAIN ns
              /\ ns[s.child].level = ns[p].level - 1
              /\ LowFence(ns, s.child) = s.key
         /\ \E s \in ns[p].slots : s.key = LowFence(ns, p)

\* The root is leftmost, on the highest level.
Top(ns, r) ==
  /\ r \in DOMAIN ns
  /\ \A p \in DOMAIN ns : ns[p].level <= ns[r].level /\ ns[p].rlink # r

PagesOK(ns, r) ==
  NodesOK(ns) /\ Linked(ns) /\ Fenced(ns) /\ Apart(ns) /\ Separated(ns) /\ Top(ns, r)

-----------------------------------------------------------------------------
(* The threads.                                                            *)

\* The shape of the other variables.
ShapeOK ==
  /\ th \in [Threads -> ThreadShape]
  /\ latch \in [1 .. MaxPages -> Threads \union {None}]
  /\ Len(nodes) <= MaxPages
  /\ todo \subseteq Calls /\ load \in Seq(Calls)

\* An idle thread remembers nothing; a call is at a page.
FormOK(ns, T) ==
  /\ T \in ThreadShape
  /\ T.pc = "idle" => T = IdleThread
  /\ T.pc # "idle" => T.op \in Calls /\ T.pid \in DOMAIN ns

\* What a call does at which place, and the key it looks for there.
CallOK(T) ==
  /\ T.pc \in {"get", "next", "returned"} => T.op.kind = "Get"
  /\ T.pc \in {"latch", "right"} => T.op.kind # "Get"
  /\ T.pc \in {"crab", "check", "put"} => T.op.kind = "InsertUnique"
  /\ T.pc \in {"crab", "check", "put", "get", "next", "returned"} => T.child = NoPage
  /\ T.pc \in {"root", "redrop"} => T.child # NoPage
  /\ T.child # NoPage => T.op.kind \in {"Insert", "InsertUnique"}
  /\ T.child = NoPage =>
       /\ T.level = 0
       /\ T.op.kind \in {"Insert", "Delete"} => T.key = T.op.key
       /\ T.op.kind = "Get" => T.key = Low(T.op.key)
       /\ T.op.kind = "InsertUnique" =>
            T.key = IF T.pc \in {"crab", "check", "put"} THEN T.op.key
                    ELSE Low(T.op.key)

\* The stack holds pages of falling levels, each to the left of the next.
StackOK(ns, T) ==
  /\ T.pc \in {"root", "redrop"} => T.stack = <<>>
  /\ \A i \in DOMAIN T.stack :
       /\ T.stack[i] \in DOMAIN ns
       /\ \A j \in 1 .. i - 1 :
            /\ ns[T.stack[i]].level < ns[T.stack[j]].level
            /\ LowFence(ns, T.stack[j]) <= LowFence(ns, T.stack[i])
       /\ ns[T.pid].level < ns[T.stack[i]].level
       /\ LowFence(ns, T.stack[i]) <= LowFence(ns, T.pid)
       /\ T.pc \in {"crab", "check"} /\ T.ins # NoPage =>
            LowFence(ns, T.stack[i]) <= LowFence(ns, T.ins)

\* The page a thread is at: of the right level, and not to the right of the
\* page its key belongs to.
PlaceOK(ns, T) ==
  /\ T.pc \in {"drop", "latch", "right"} => LowFence(ns, T.pid) <= T.key
  /\ T.pc = "drop" => T.level <= ns[T.pid].level + 1
  /\ T.child = NoPage /\ T.pc \notin {"idle", "drop"} => ns[T.pid].level = 0
  /\ T.child # NoPage /\ T.pc \in {"latch", "right"} =>
       ns[T.child].level <= ns[T.pid].level

\* The page a separator leads to.
CarriedOK(ns, T) ==
  T.child # NoPage =>
    /\ T.child \in DOMAIN ns
    /\ LowFence(ns, T.child) = T.key /\ T.key > 0
    /\ T.pc = "root" => ns[T.child].level = ns[T.pid].level
    /\ T.pc \in {"redrop", "drop"} => T.level = ns[T.child].level + 1
    /\ ns[T.child].level = 0 => T.key \in Asked({"Insert", "InsertUnique"})

\* InsertUnique holds the leaf it will insert into.
InsertOK(ns, l, t, T) ==
  /\ T.pc \in {"crab", "check"} =>
       /\ T.ins = NoPage => LowFence(ns, T.pid) <= T.key
       /\ Low(T.op.key) <= LowFence(ns, T.pid)
       /\ T.ins # NoPage =>
            T.ins \in DOMAIN ns /\ ns[T.ins].level = 0 /\ l[T.ins] = t
            /\ Covers(ns, T.ins, T.key)
  /\ T.pc = "put" => Covers(ns, T.pid, T.key)
  /\ T.pc \notin {"crab", "check", "put"} /\ T.child = NoPage => T.ins = NoPage

\* Whoever changes a node holds its latch.
LatchesOK(l, t, T) == T.pc \in {"right", "check", "put"} => l[T.pid] = t

EntriesAsked == Entries \subseteq Asked({"Insert", "InsertUnique"})

ThreadOK(ns, l, t, T) ==
  /\ FormOK(ns, T) /\ CallOK(T)
  /\ StackOK(ns, T) /\ PlaceOK(ns, T) /\ CarriedOK(ns, T)
  /\ InsertOK(ns, l, t, T) /\ LatchesOK(l, t, T)

TreeInv ==
  /\ PagesOK(nodes, root)
  /\ ShapeOK
  /\ \A t \in Threads : ThreadOK(nodes, latch, t, th[t])
  /\ EntriesAsked

-----------------------------------------------------------------------------
(* What the three properties need on top.                                  *)

\* Every page but the root hangs under a separator or is carried by exactly
\* one thread to where it will.
Hangs(ns, p) == \E q \in DOMAIN ns : \E s \in ns[q].slots : s.child = p
CarryInv ==
  /\ \A p \in DOMAIN nodes \ {root} :
       Hangs(nodes, p) \/ \E t \in Threads : th[t].child = p
  /\ \A t \in Threads : th[t].child # NoPage => ~Hangs(nodes, th[t].child)
  /\ \A t, u \in Threads :
       th[t].child # NoPage /\ th[t].child = th[u].child => t = u

\* Key k is an entry.
InLeaf(ns, k) ==
  \E p \in DOMAIN ns : ns[p].level = 0 /\ \E s \in ns[p].slots : s.key = k

\* What a Get has not collected is not to the left of it: M are the entries
\* that were there all the time, Y those that were there at some time.
GetOK(ns, T, M, Y) ==
  T.op.kind = "Get" /\ T.pc # "idle" =>
    /\ T.found \subseteq {k \in Y : Prefix(k) = Prefix(T.key)}
    /\ \A k \in M : InLeaf(ns, k)
    /\ \A k \in M :
         Prefix(k) = Prefix(T.key) /\ k \notin T.found =>
           /\ T.pc # "returned"
           /\ LowFence(ns, T.pid) <= k
           /\ T.pc = "next" => ns[T.pid].high # NoKey /\ ns[T.pid].high <= k
GetInv == \A t \in Threads : GetOK(nodes, th[t], must[t], may[t])

\* InsertUnique has checked the keys of its prefix up to the page it is at: it
\* holds the leaves they belong to, and none of them is a live entry.
Done(ns, T, e) ==
  Prefix(e) = Prefix(T.op.key) /\ (T.pc = "put" \/ e < LowFence(ns, T.pid))
CheckedOK(ns, l, t, T) ==
  T.pc \in {"crab", "check", "put"} =>
    /\ \A p \in DOMAIN ns : ns[p].level = 0 =>
         \A e \in Nat : Done(ns, T, e) /\ Covers(ns, p, e) => l[p] = t
    /\ \A e \in Nat : InLeaf(ns, e) /\ Done(ns, T, e) => e % TidRange \in Dead
CheckedInv == \A t \in Threads : CheckedOK(nodes, latch, t, th[t])

\* A live entry of the prefix of a unique insert is the only one.
OneLive ==
  \A o \in Calls : o.kind = "InsertUnique" =>
    \A e, f \in Entries :
      /\ Prefix(e) = Prefix(o.key) /\ e % TidRange \notin Dead
      /\ Prefix(f) = Prefix(o.key) /\ f % TidRange \notin Dead
      => e = f

-----------------------------------------------------------------------------
(* Keys and prefixes.                                                      *)

\* Tuple ids have a range (KeyNormEncoder appends one to every key).
LEMMA TidRangeType == TidRange \in Nat /\ TidRange > 0
  BY BLinkTreeAssumption

\* Division with remainder, for the encoding of keys.
LEMMA KeyParts ==
  ASSUME NEW k \in Nat
  PROVE  /\ Prefix(k) \in Nat /\ Low(k) \in Nat
         /\ Low(k) = Prefix(k) * TidRange
         /\ Low(k) <= k /\ k < Low(k) + TidRange
  BY TidRangeType, Z3 DEF Prefix, Low

\* Larger prefixes have larger keys: what lies between two keys of a prefix
\* has that prefix (HighPrefixCmp looks at the fence only).
LEMMA PrefixBetween ==
  ASSUME NEW a \in Nat, NEW b \in Nat, NEW c \in Nat,
         a <= b, b <= c, Prefix(a) = Prefix(c)
  PROVE  Prefix(b) = Prefix(a)
<1> DEFINE A == Prefix(a) B == Prefix(b) T == TidRange
<1>1. A \in Nat /\ B \in Nat /\ T \in Nat /\ T > 0
  BY KeyParts, TidRangeType
<1>2. /\ A * T <= a /\ a < A * T + T /\ c < A * T + T
      /\ B * T <= b /\ b < B * T + T
  BY KeyParts
<1> HIDE DEF A, B, T
<1>3. ~(B > A)
  <2> SUFFICES ASSUME B >= A + 1 PROVE FALSE
    BY <1>1
  <2>1. B * T >= (A + 1) * T
    BY <1>1, Z3
  <2>2. (A + 1) * T = A * T + T
    BY <1>1, Z3
  <2> QED BY <2>1, <2>2, <1>1, <1>2
<1>4. ~(A > B)
  <2> SUFFICES ASSUME A >= B + 1 PROVE FALSE
    BY <1>1
  <2>1. A * T >= (B + 1) * T
    BY <1>1, Z3
  <2>2. (B + 1) * T = B * T + T
    BY <1>1, Z3
  <2> QED BY <2>1, <2>2, <1>1, <1>2
<1> QED BY <1>1, <1>3, <1>4 DEF A, B

\* The key of tid 0 has the prefix and is below all its keys.
LEMMA LowKey ==
  ASSUME NEW k \in Nat
  PROVE  /\ Prefix(Low(k)) = Prefix(k)
         /\ \A e \in Nat : Prefix(e) = Prefix(k) => Low(k) <= e
<1> DEFINE P == Prefix(k) T == TidRange
<1>1. P \in Nat /\ T \in Nat /\ T > 0 /\ Low(k) = P * T /\ P * T \in Nat
  BY KeyParts, TidRangeType
<1>2. (P * T) \div T = P
  <2> HIDE DEF P, T
  <2> QED BY <1>1, Z3
<1>3. Prefix(Low(k)) = Prefix(k)
  BY <1>1, <1>2 DEF Prefix
<1>4. ASSUME NEW e \in Nat, Prefix(e) = Prefix(k) PROVE Low(k) <= e
  BY <1>4, KeyParts
<1> QED BY <1>3, <1>4

-----------------------------------------------------------------------------
(* Least and largest elements.                                             *)

\* Every set of numbers has a least element, which Min returns.
LEMMA MinOfNat ==
  ASSUME NEW S \in SUBSET Nat, S # {}
  PROVE  Min(S) \in S /\ \A y \in S : Min(S) <= y
<1> DEFINE R == OpToRel(<, Nat)
<1>1. IsWellFoundedOn(R, Nat)
  BY NatLessThanWellFounded
<1>2. \A a, b \in Nat : <<a, b>> \in R <=> a < b
  BY DEF OpToRel
<1> HIDE DEF R
<1>3. PICK x \in S : \A y \in S : ~(<<y, x>> \in R)
  BY <1>1, WFMin
<1>4. ASSUME NEW y \in S PROVE x <= y
  <2>1. y \in Nat /\ x \in Nat
    OBVIOUS
  <2>2. ~(y < x)
    BY <1>2, <1>3, <2>1
  <2> QED BY <2>1, <2>2
<1> QED BY <1>4 DEF Min

\* A bounded set of numbers has a largest element, which Max returns.
LEMMA MaxOfNat ==
  ASSUME NEW S \in SUBSET Nat, S # {}, NEW b \in Nat, \A y \in S : y <= b
  PROVE  Max(S) \in S /\ \A y \in S : y <= Max(S)
<1> DEFINE D == {z \in Nat : \E y \in S : z = b - y}
<1>1. D \in SUBSET Nat /\ D # {}
  <2>1. PICK y \in S : TRUE
    OBVIOUS
  <2>2. y \in Nat /\ b - y \in Nat
    OBVIOUS
  <2> QED BY <2>1, <2>2
<1>2. Min(D) \in D /\ \A z \in D : Min(D) <= z
  BY <1>1, MinOfNat
<1>3. PICK x \in S : Min(D) = b - x
  BY <1>2
<1>4. ASSUME NEW y \in S PROVE y <= x
  <2>1. b - y \in D
    BY Z3
  <2> QED BY <2>1, <1>2, <1>3
<1> QED BY <1>4 DEF Max

-----------------------------------------------------------------------------
(* The split point.                                                        *)

\* At least one slot stays and at least one goes (FindSplitPoint).
LEMMA SplitPointInside ==
  ASSUME NEW n, IsFiniteSet(n.slots), Cardinality(n.slots) >= 2,
         \A s, x \in n.slots : s.key = x.key => s = x
  PROVE  FindSplitPoint(n) \in 1 .. Cardinality(n.slots) - 1
<1> DEFINE E == {s \in n.slots : s.key = Empty}
           count == Cardinality(n.slots)
           bytes == Cardinality(n.slots \ E)
           a == count - bytes + (bytes + 1) \div 2
<1>1. count \in Nat /\ bytes \in Nat /\ bytes <= count
  <2>1. (n.slots \ E) \in SUBSET n.slots
    OBVIOUS
  <2> QED BY <2>1, FS_Subset, FS_CardinalityType
<1>2. FindSplitPoint(n) = Min({a, count - 1})
  BY DEF FindSplitPoint
<1> HIDE DEF count, bytes
<1>3. count >= 2
  BY DEF count
<1>4. a \in Nat /\ a >= 1
  BY <1>1, <1>3, Z3
<1>5. {a, count - 1} \in SUBSET Nat /\ {a, count - 1} # {}
  BY <1>1, <1>3, <1>4
<1>6. /\ Min({a, count - 1}) \in {a, count - 1}
      /\ \A y \in {a, count - 1} : Min({a, count - 1}) <= y
  BY <1>5, MinOfNat
<1>7. FindSplitPoint(n) \in Nat /\ FindSplitPoint(n) >= 1 /\ FindSplitPoint(n) <= count - 1
  BY <1>1, <1>2, <1>3, <1>4, <1>6
<1> QED BY <1>7, <1>1, <1>3 DEF count

\* Slots of different keys are as many as their keys.
LEMMA KeysOfSlots ==
  ASSUME NEW S, IsFiniteSet(S), \A s, x \in S : s.key = x.key => s = x
  PROVE  LET K == {s.key : s \in S}
         IN  IsFiniteSet(K) /\ Cardinality(K) = Cardinality(S)
<1> DEFINE K == {s.key : s \in S}
           f == [s \in S |-> s.key]
<1>1. f \in Surjection(S, K)
  BY DEF Surjection
<1>2. f \in Injection(S, K)
  BY DEF Injection, IsInjective
<1> HIDE DEF K, f
<1>3. IsFiniteSet(K) /\ Cardinality(K) = Cardinality(S)
  BY <1>1, <1>2, FS_Surjection
<1> QED BY <1>3 DEF K

\* What stays is below the separator, what goes is not, and both parts are
\* there; the least slot stays (the loops of SplitLeaf and SplitInter).
LEMMA SplitParts ==
  ASSUME NEW n, IsFiniteSet(n.slots), Cardinality(n.slots) >= 2,
         n.slots \in SUBSET [key : Nat, child : Nat],
         \A s, x \in n.slots : s.key = x.key => s = x
  PROVE  /\ Lower(n) \subseteq n.slots
         /\ Sentinel(n) \in Nat
         /\ \E s \in n.slots \ Lower(n) : s.key = Sentinel(n)
         /\ \A s \in Lower(n) : s.key < Sentinel(n)
         /\ \A s \in n.slots \ Lower(n) : Sentinel(n) <= s.key
         /\ \A s \in n.slots : (\A x \in n.slots : s.key <= x.key) => s \in Lower(n)
<1> DEFINE K == Keys(n)
           B(k) == {x \in K : x < k}
           sp == FindSplitPoint(n)
<1>1. K \in SUBSET Nat /\ \A s \in n.slots : s.key \in K /\ s.key \in Nat
  BY DEF Keys
<1>2. IsFiniteSet(K) /\ Cardinality(K) = Cardinality(n.slots)
  BY KeysOfSlots DEF Keys
<1>3. sp \in Nat /\ 1 <= sp /\ sp <= Cardinality(K) - 1
  BY SplitPointInside, <1>2, FS_CardinalityType
<1>4. Lower(n) = {s \in n.slots : Cardinality(B(s.key)) < sp}
  BY DEF Lower
<1>5. ASSUME NEW k PROVE IsFiniteSet(B(k)) /\ Cardinality(B(k)) \in Nat
  BY <1>2, FS_Subset, FS_CardinalityType
<1>6. ASSUME NEW a \in Nat, NEW b \in Nat, a <= b
      PROVE  Cardinality(B(a)) <= Cardinality(B(b))
  <2>1. B(a) \in SUBSET B(b)
    BY <1>1, <1>6
  <2> QED BY <2>1, <1>5, FS_Subset
<1> HIDE DEF sp
<1>7. ASSUME NEW s \in n.slots, \A x \in n.slots : s.key <= x.key
      PROVE  s \in Lower(n)
  <2>1. B(s.key) = {}
    BY <1>1, <1>7 DEF Keys
  <2>2. Cardinality(B(s.key)) = 0
    BY <2>1, FS_EmptySet
  <2> QED BY <2>2, <1>3, <1>4
<1>8. \E s \in n.slots : s \notin Lower(n)
  <2> SUFFICES ASSUME \A s \in n.slots : s \in Lower(n) PROVE FALSE
    OBVIOUS
  <2> DEFINE rank == [k \in K |-> Cardinality(B(k))]
             R == 0 .. sp - 1
  <2>1. ASSUME NEW k \in K PROVE Cardinality(B(k)) \in R
    <3>1. PICK s \in n.slots : s.key = k
      BY DEF Keys
    <3> QED BY <3>1, <1>3, <1>4, <1>5
  <2>2. rank \in [K -> R]
    BY <2>1
  <2>3. IsFiniteSet(R) /\ Cardinality(R) = sp
    BY <1>3, FS_Interval
  <2>4. Cardinality(R) < Cardinality(K)
    BY <2>3, <1>2, <1>3, FS_CardinalityType
  <2>5. PICK x, y \in K : x # y /\ rank[x] = rank[y]
    <3> HIDE DEF rank, R, K
    <3> QED BY <2>2, <2>3, <2>4, <1>2, FS_PigeonHole
  <2>6. ASSUME NEW v \in K, NEW w \in K, v < w
        PROVE  Cardinality(B(v)) # Cardinality(B(w))
    <3>1. B(v) \in SUBSET B(w) /\ v \in B(w) /\ v \notin B(v)
      BY <1>1, <2>6
    <3>2. IsFiniteSet(B(w)) /\ B(w) # B(v)
      BY <3>1, <1>5
    <3> HIDE DEF B
    <3> QED BY <3>1, <3>2, FS_Subset
  <2>7. x \in Nat /\ y \in Nat
    BY <1>1
  <2>8. x < y \/ y < x
    BY <2>5, <2>7
  <2> QED BY <2>5, <2>6, <2>8
<1> DEFINE U == {s.key : s \in n.slots \ Lower(n)}
<1>9. U \in SUBSET Nat /\ U # {} /\ Sentinel(n) = Min(U)
  BY <1>1, <1>8 DEF Sentinel
<1>10. Sentinel(n) \in U /\ \A y \in U : Sentinel(n) <= y
  BY <1>9, MinOfNat
<1>11. PICK m \in n.slots \ Lower(n) : m.key = Sentinel(n)
  BY <1>10
<1>12. ASSUME NEW s \in Lower(n) PROVE s.key < Sentinel(n)
  <2>1. s \in n.slots /\ Cardinality(B(s.key)) < sp
    BY <1>4
  <2>2. ~(Cardinality(B(m.key)) < sp)
    BY <1>4
  <2>3. s.key \in Nat /\ m.key \in Nat
    BY <1>1, <2>1
  <2>4. CASE m.key <= s.key
    <3>1. Cardinality(B(m.key)) <= Cardinality(B(s.key))
      BY <1>6, <2>3, <2>4
    <3>2. Cardinality(B(m.key)) \in Nat /\ Cardinality(B(s.key)) \in Nat
      BY <1>5
    <3> HIDE DEF B
    <3> QED BY <3>1, <3>2, <2>1, <2>2, <1>3
  <2> QED BY <2>3, <2>4, <1>11
<1>13. Lower(n) \subseteq n.slots /\ Sentinel(n) \in Nat
  BY <1>4, <1>9, <1>10
<1>14. \A s \in n.slots \ Lower(n) : Sentinel(n) <= s.key
  BY <1>10
<1> QED BY <1>7, <1>11, <1>12, <1>13, <1>14

-----------------------------------------------------------------------------
(* Fences and children.                                                    *)

\* The fields of a page.
LEMMA NodeFacts ==
  ASSUME NEW ns, NodesOK(ns), NEW p \in DOMAIN ns
  PROVE  /\ ns[p] \in NodeShape
         /\ ns[p].level \in Nat /\ ns[p].high \in Nat /\ ns[p].rlink \in Nat
         /\ ns[p].used \in Nat
         /\ ns[p].slots \in SUBSET [key : Nat, child : Nat]
         /\ IsFiniteSet(ns[p].slots)
         /\ \A s \in ns[p].slots : s.key \in Nat /\ s.child \in Nat
         /\ Len(ns) \in Nat /\ DOMAIN ns = 1 .. Len(ns) /\ p \in 1 .. Len(ns)
         /\ p \in Nat /\ p # NoPage
<1>1. ns \in Seq(NodeShape) /\ IsFiniteSet(ns[p].slots)
  BY DEF NodesOK
<1>2. ns[p] \in NodeShape /\ Len(ns) \in Nat /\ DOMAIN ns = 1 .. Len(ns)
  BY <1>1
<1>3. /\ ns[p].level \in Nat /\ ns[p].high \in Nat /\ ns[p].rlink \in Nat
      /\ ns[p].used \in Nat
      /\ ns[p].slots \in SUBSET [key : Nat, child : Nat]
  BY <1>2 DEF NodeShape
<1>4. \A s \in ns[p].slots : s.key \in Nat /\ s.child \in Nat
  BY <1>3
<1> QED BY <1>1, <1>2, <1>3, <1>4 DEF NoPage

\* A low fence is a key.
LEMMA LowFenceType ==
  ASSUME NEW ns, NodesOK(ns), NEW p
  PROVE  LowFence(ns, p) \in Nat
<1> DEFINE left == {q \in DOMAIN ns : ns[q].rlink = p}
<1>1. CASE left = {}
  BY <1>1 DEF LowFence
<1>2. CASE left # {}
  <2>1. (CHOOSE q \in left : TRUE) \in left
    BY <1>2
  <2> QED BY <1>2, <2>1, NodeFacts DEF LowFence
<1> QED BY <1>1, <1>2

\* The low fence of a right sibling is the high fence of the node.
LEMMA LowFenceOfRight ==
  ASSUME NEW ns, Linked(ns), NEW q \in DOMAIN ns, ns[q].rlink # NoPage
  PROVE  LowFence(ns, ns[q].rlink) = ns[q].high
<1> DEFINE p == ns[q].rlink
           left == {x \in DOMAIN ns : ns[x].rlink = p}
<1>1. \A x \in left : x = q
  BY DEF Linked
<1>2. q \in left /\ (CHOOSE x \in left : TRUE) \in left
  OBVIOUS
<1>3. (CHOOSE x \in left : TRUE) = q
  BY <1>1, <1>2
<1> QED BY <1>2, <1>3 DEF LowFence

\* A leftmost page has the lowest fence.
LEMMA LowFenceLeftmost ==
  ASSUME NEW ns, NEW p, \A q \in DOMAIN ns : ns[q].rlink # p
  PROVE  LowFence(ns, p) = 0
  BY DEF LowFence

\* Two pages of a level that cover the same key are the same page.
LEMMA CoversOnce ==
  ASSUME NEW ns, NodesOK(ns), Apart(ns), NEW k \in Nat,
         NEW p \in DOMAIN ns, NEW q \in DOMAIN ns,
         ns[p].level = ns[q].level, Covers(ns, p, k), Covers(ns, q, k)
  PROVE  p = q
<1>1. /\ ns[p].high \in Nat /\ ns[q].high \in Nat
      /\ LowFence(ns, p) \in Nat /\ LowFence(ns, q) \in Nat
  BY NodeFacts, LowFenceType
<1>2. ASSUME p # q PROVE FALSE
  <2>1. Before(ns, p, q) \/ Before(ns, q, p)
    BY <1>2 DEF Apart
  <2> QED BY <1>1, <2>1 DEF Before, Covers
<1> QED BY <1>2

\* A page covers its own low fence.
LEMMA CoversLow ==
  ASSUME NEW ns, NodesOK(ns), Fenced(ns), NEW p \in DOMAIN ns
  PROVE  Covers(ns, p, LowFence(ns, p))
  BY NodeFacts, LowFenceType DEF Fenced, Covers

\* The slots of a node have different keys.
LEMMA SlotsDiffer ==
  ASSUME NEW ns, NEW r, PagesOK(ns, r), NEW p \in DOMAIN ns,
         NEW s \in ns[p].slots, NEW x \in ns[p].slots, s.key = x.key
  PROVE  s = x
<1>1. NodesOK(ns) /\ Fenced(ns) /\ Apart(ns) /\ Separated(ns)
  BY DEF PagesOK
<1>2. /\ s \in [key : Nat, child : Nat] /\ x \in [key : Nat, child : Nat]
      /\ ns[p].level \in Nat
  BY <1>1, NodeFacts
<1>3. CASE ns[p].level = 0
  <2>1. s.child = NoPage /\ x.child = NoPage
    BY <1>1, <1>3 DEF Separated
  <2> QED BY <1>2, <2>1
<1>4. CASE ns[p].level > 0
  <2>1. /\ s.child \in DOMAIN ns /\ x.child \in DOMAIN ns
        /\ ns[s.child].level = ns[x.child].level
        /\ LowFence(ns, s.child) = s.key /\ LowFence(ns, x.child) = s.key
    BY <1>1, <1>4 DEF Separated
  <2>2. Covers(ns, s.child, s.key) /\ Covers(ns, x.child, s.key)
    BY <1>1, <2>1, CoversLow
  <2>3. s.child = x.child
    BY <1>1, <1>2, <2>1, <2>2, CoversOnce
  <2> QED BY <1>2, <2>3
<1> QED BY <1>2, <1>3, <1>4

\* The descent goes to a child that is not to the right of the key, and to the
\* right of the node it comes from or below it (FindChild).
LEMMA FindChildFacts ==
  ASSUME NEW ns, NEW r, PagesOK(ns, r), NEW p \in DOMAIN ns, NEW k \in Nat,
         ns[p].level > 0, LowFence(ns, p) <= k
  PROVE  LET c == FindChild(ns[p], k)
         IN  /\ c \in DOMAIN ns
             /\ ns[c].level = ns[p].level - 1
             /\ LowFence(ns, c) <= k
             /\ LowFence(ns, p) <= LowFence(ns, c)
<1> DEFINE K == {x \in Keys(ns[p]) : x <= k}
           m == Max(K)
           s == CHOOSE y \in ns[p].slots : y.key = m
<1>1. NodesOK(ns) /\ Fenced(ns) /\ Separated(ns)
  BY DEF PagesOK
<1>2. LowFence(ns, p) \in Nat /\ \A y \in ns[p].slots : y.key \in Nat
  BY <1>1, NodeFacts, LowFenceType
<1>3. K \in SUBSET Nat /\ \A y \in K : y <= k
  BY <1>2 DEF Keys
<1>4. LowFence(ns, p) \in K
  <2>1. PICK y \in ns[p].slots : y.key = LowFence(ns, p)
    BY <1>1 DEF Separated
  <2> QED BY <2>1 DEF Keys
<1>5. m \in K /\ LowFence(ns, p) <= m
  <2>1. Max(K) \in K /\ \A y \in K : y <= Max(K)
    BY <1>3, <1>4, MaxOfNat
  <2> QED BY <2>1, <1>4
<1>6. s \in ns[p].slots /\ s.key = m
  <2>1. \E y \in ns[p].slots : y.key = m
    BY <1>5 DEF Keys
  <2> QED BY <2>1
<1>7. /\ s.child \in DOMAIN ns
      /\ ns[s.child].level = ns[p].level - 1
      /\ LowFence(ns, s.child) = s.key
  BY <1>1, <1>6 DEF Separated
<1>8. FindChild(ns[p], k) = s.child
  BY DEF FindChild
<1>9. m <= k
  BY <1>5
<1> QED BY <1>5, <1>6, <1>7, <1>8, <1>9

-----------------------------------------------------------------------------
(* Changes of the pages.                                                   *)

\* Pages stay, on their level and with their low fence.
Extends(ns, ms) ==
  \A p \in DOMAIN ns :
    /\ p \in DOMAIN ms
    /\ ms[p].level = ns[p].level
    /\ LowFence(ms, p) = LowFence(ns, p)

\* Only slots change.
SameLinks(ns, ms) ==
  /\ DOMAIN ms = DOMAIN ns
  /\ \A p \in DOMAIN ns :
       /\ ms[p].level = ns[p].level
       /\ ms[p].high = ns[p].high
       /\ ms[p].rlink = ns[p].rlink

\* Inserts without a split and deletes leave all intervals as they are.
LEMMA SameLinksFences ==
  ASSUME NEW ns, NEW ms, SameLinks(ns, ms)
  PROVE  /\ \A p : LowFence(ms, p) = LowFence(ns, p)
         /\ \A p \in DOMAIN ns : \A k : Covers(ms, p, k) <=> Covers(ns, p, k)
         /\ Extends(ns, ms)
<1>1. ASSUME NEW p PROVE LowFence(ms, p) = LowFence(ns, p)
  <2> DEFINE L == {q \in DOMAIN ns : ns[q].rlink = p}
             M == {q \in DOMAIN ms : ms[q].rlink = p}
  <2>1. L = M
    BY DEF SameLinks
  <2>2. CASE L = {}
    BY <2>1, <2>2 DEF LowFence
  <2>3. CASE L # {}
    <3>1. (CHOOSE q \in L : TRUE) \in DOMAIN ns
      BY <2>3
    <3>2. ms[CHOOSE q \in M : TRUE].high = ns[CHOOSE q \in L : TRUE].high
      BY <2>1, <3>1 DEF SameLinks
    <3> QED BY <2>1, <2>3, <3>2 DEF LowFence
  <2> QED BY <2>2, <2>3
<1> QED BY <1>1 DEF SameLinks, Covers, Extends

\* With the links unchanged, the structure is that of the slots.
LEMMA SameLinksPages ==
  ASSUME NEW ns, NEW r, PagesOK(ns, r), NEW ms, SameLinks(ns, ms), NodesOK(ms),
         \A p \in DOMAIN ns : \A s \in ms[p].slots : Covers(ns, p, s.key),
         Separated(ms)
  PROVE  PagesOK(ms, r)
<1>1. Linked(ns) /\ Fenced(ns) /\ Apart(ns) /\ Top(ns, r)
  BY DEF PagesOK
<1>2. /\ \A p : LowFence(ms, p) = LowFence(ns, p)
      /\ \A p \in DOMAIN ns : \A k : Covers(ms, p, k) <=> Covers(ns, p, k)
  BY SameLinksFences
<1>3. Linked(ms)
  BY <1>1 DEF Linked, SameLinks
<1>4. Fenced(ms)
  BY <1>1, <1>2 DEF Fenced, SameLinks
<1>5. Apart(ms)
  BY <1>1, <1>2 DEF Apart, Before, SameLinks
<1>6. Top(ms, r)
  BY <1>1 DEF Top, SameLinks
<1> QED BY <1>3, <1>4, <1>5, <1>6 DEF PagesOK

\* An entry of a leaf or a separator of an inner node.
Fits(ns, p, s) ==
  /\ s \in [key : Nat, child : Nat]
  /\ Covers(ns, p, s.key)
  /\ ns[p].level = 0 => s.child = NoPage
  /\ ns[p].level > 0 =>
       /\ s.child \in DOMAIN ns
       /\ ns[s.child].level = ns[p].level - 1
       /\ LowFence(ns, s.child) = s.key

\* A slot more changes no header field but the bytes used.
LEMMA InsertSlotFacts ==
  ASSUME NEW n \in NodeShape, NEW s \in [key : Nat, child : Nat]
  PROVE  /\ InsertSlot(n, s) \in NodeShape
         /\ InsertSlot(n, s).slots = n.slots \union {s}
         /\ InsertSlot(n, s).level = n.level
         /\ InsertSlot(n, s).high = n.high
         /\ InsertSlot(n, s).rlink = n.rlink
<1>1. /\ n.slots \union {s} \in SUBSET [key : Nat, child : Nat]
      /\ n.used + 1 \in Nat
  BY DEF NodeShape
<1>2. InsertSlot(n, s) = [n EXCEPT !.slots = n.slots \union {s}, !.used = n.used + 1]
  BY DEF InsertSlot
<1> QED BY <1>1, <1>2 DEF NodeShape

PutOf(ns, p, s) == [ns EXCEPT ![p] = InsertSlot(@, s)]

\* ms is ns with slot s in page p.
IsPut(ns, p, s, ms) ==
  /\ NodesOK(ms) /\ SameLinks(ns, ms) /\ Len(ms) = Len(ns)
  /\ ms[p].slots = ns[p].slots \union {s}
  /\ \A q \in DOMAIN ns \ {p} : ms[q] = ns[q]

\* The pages after an insert without a split.
LEMMA PutPages ==
  ASSUME NEW ns, NodesOK(ns), NEW p \in DOMAIN ns, NEW s \in [key : Nat, child : Nat]
  PROVE  IsPut(ns, p, s, PutOf(ns, p, s))
<1> DEFINE ms == PutOf(ns, p, s)
<1>2. /\ ns \in Seq(NodeShape) /\ ns[p] \in NodeShape /\ ns[p].used \in Nat
      /\ ns[p].slots \in SUBSET [key : Nat, child : Nat] /\ IsFiniteSet(ns[p].slots)
      /\ \A q \in DOMAIN ns : IsFiniteSet(ns[q].slots)
  BY NodeFacts DEF NodesOK
<1>3. /\ InsertSlot(ns[p], s) \in NodeShape
      /\ InsertSlot(ns[p], s).slots = ns[p].slots \union {s}
      /\ InsertSlot(ns[p], s).level = ns[p].level
      /\ InsertSlot(ns[p], s).high = ns[p].high
      /\ InsertSlot(ns[p], s).rlink = ns[p].rlink
  BY <1>2, InsertSlotFacts
<1>4. /\ DOMAIN ms = DOMAIN ns /\ ms \in Seq(NodeShape) /\ Len(ms) = Len(ns)
      /\ ms[p] = InsertSlot(ns[p], s)
      /\ \A q \in DOMAIN ns \ {p} : ms[q] = ns[q]
  BY <1>2, <1>3 DEF PutOf
<1> HIDE DEF ms
<1>5. SameLinks(ns, ms)
  BY <1>3, <1>4 DEF SameLinks
<1>6. IsFiniteSet(ns[p].slots \union {s})
  BY <1>2, FS_AddElement
<1>7. NodesOK(ms)
  BY <1>2, <1>3, <1>4, <1>6 DEF NodesOK
<1> QED BY <1>3, <1>4, <1>5, <1>7 DEF IsPut, ms

\* Insert without a split.
LEMMA PutKeeps ==
  ASSUME NEW ns, NEW r, PagesOK(ns, r), NEW p \in DOMAIN ns, NEW s, Fits(ns, p, s)
  PROVE  SameLinks(ns, PutOf(ns, p, s)) /\ PagesOK(PutOf(ns, p, s), r)
<1> DEFINE ms == PutOf(ns, p, s)
<1>1. NodesOK(ns) /\ Separated(ns) /\ Fenced(ns)
  BY DEF PagesOK
<1>2. s \in [key : Nat, child : Nat]
  BY DEF Fits
<1>3. IsPut(ns, p, s, ms)
  BY <1>1, <1>2, PutPages
<1> HIDE DEF ms
<1>4. /\ ms[p].slots = ns[p].slots \union {s}
      /\ \A q \in DOMAIN ns \ {p} : ms[q] = ns[q]
  BY <1>3 DEF IsPut
<1>5. SameLinks(ns, ms)
  BY <1>3 DEF IsPut
<1>7. NodesOK(ms)
  BY <1>3 DEF IsPut
<1>8. \A q \in DOMAIN ns : \A x \in ms[q].slots : x \in ns[q].slots \/ (q = p /\ x = s)
  BY <1>4
<1>9. \A q \in DOMAIN ns : \A x \in ms[q].slots : Covers(ns, q, x.key)
  BY <1>1, <1>8 DEF Fenced, Fits
<1>10. \A q : LowFence(ms, q) = LowFence(ns, q)
  BY <1>5, SameLinksFences
<1>11. \A q \in DOMAIN ns : ns[q].slots \subseteq ms[q].slots
  BY <1>4
<1>12. Separated(ms)
  <2> SUFFICES ASSUME NEW q \in DOMAIN ns
               PROVE  /\ ns[q].level = 0 => \A x \in ms[q].slots : x.child = NoPage
                      /\ ns[q].level > 0 =>
                           /\ \A x \in ms[q].slots :
                                /\ x.child \in DOMAIN ns
                                /\ ns[x.child].level = ns[q].level - 1
                                /\ LowFence(ns, x.child) = x.key
                           /\ \E x \in ms[q].slots : x.key = LowFence(ns, q)
    BY <1>5, <1>10 DEF Separated, SameLinks
  <2> QED BY <1>1, <1>8, <1>11 DEF Separated, Fits
<1>13. PagesOK(ms, r)
  BY <1>5, <1>7, <1>9, <1>12, SameLinksPages
<1> QED BY <1>5, <1>13 DEF ms

RemoveOf(ns, p, k) == [ns EXCEPT ![p].slots = {s \in @ : s.key # k}]

\* ms is ns without the slots of key k in page p.
IsRemoved(ns, p, k, ms) ==
  /\ SameLinks(ns, ms) /\ Len(ms) = Len(ns)
  /\ ms[p].slots = {s \in ns[p].slots : s.key # k}
  /\ \A q \in DOMAIN ns \ {p} : ms[q] = ns[q]

\* DeleteInternal on a leaf.
LEMMA RemoveKeeps ==
  ASSUME NEW ns, NEW r, PagesOK(ns, r), NEW p \in DOMAIN ns, ns[p].level = 0, NEW k
  PROVE  IsRemoved(ns, p, k, RemoveOf(ns, p, k)) /\ PagesOK(RemoveOf(ns, p, k), r)
<1> DEFINE ms == RemoveOf(ns, p, k)
           S == {s \in ns[p].slots : s.key # k}
<1>1. NodesOK(ns) /\ Separated(ns) /\ Fenced(ns)
  BY DEF PagesOK
<1>2. /\ ns \in Seq(NodeShape) /\ ns[p] \in NodeShape /\ ns[p].used \in Nat
      /\ ns[p].slots \in SUBSET [key : Nat, child : Nat] /\ IsFiniteSet(ns[p].slots)
  BY <1>1, NodeFacts DEF NodesOK
<1>3. S \in SUBSET ns[p].slots /\ IsFiniteSet(S)
  BY <1>2, FS_Subset
<1>4. /\ DOMAIN ms = DOMAIN ns /\ ms \in Seq(NodeShape) /\ Len(ms) = Len(ns)
      /\ ms[p] = [ns[p] EXCEPT !.slots = S]
      /\ \A q \in DOMAIN ns \ {p} : ms[q] = ns[q]
  <2>1. S \in SUBSET [key : Nat, child : Nat]
    BY <1>2
  <2>2. [ns[p] EXCEPT !.slots = S] \in NodeShape
    <3> HIDE DEF S
    <3> QED BY <1>2, <2>1 DEF NodeShape
  <2>3. ms = [ns EXCEPT ![p] = [ns[p] EXCEPT !.slots = S]]
    BY DEF RemoveOf
  <2> QED BY <1>2, <2>2, <2>3
<1>5. /\ ms[p].level = ns[p].level /\ ms[p].high = ns[p].high
      /\ ms[p].rlink = ns[p].rlink /\ ms[p].slots = S
  BY <1>2, <1>4 DEF NodeShape
<1> HIDE DEF ms
<1>6. SameLinks(ns, ms)
  BY <1>4, <1>5 DEF SameLinks
<1>7. NodesOK(ms)
  BY <1>1, <1>3, <1>4, <1>5 DEF NodesOK
<1>8. \A q \in DOMAIN ns : ms[q].slots \subseteq ns[q].slots
  BY <1>3, <1>4, <1>5
<1>9. \A q \in DOMAIN ns : \A x \in ms[q].slots : Covers(ns, q, x.key)
  BY <1>1, <1>8 DEF Fenced
<1>10. \A q : LowFence(ms, q) = LowFence(ns, q)
  BY <1>6, SameLinksFences
<1>11. \A q \in DOMAIN ns : ns[q].level > 0 => ms[q] = ns[q]
  BY <1>4
<1>12. Separated(ms)
  <2> SUFFICES ASSUME NEW q \in DOMAIN ns
               PROVE  /\ ns[q].level = 0 => \A x \in ms[q].slots : x.child = NoPage
                      /\ ns[q].level > 0 =>
                           /\ \A x \in ms[q].slots :
                                /\ x.child \in DOMAIN ns
                                /\ ns[x.child].level = ns[q].level - 1
                                /\ LowFence(ns, x.child) = x.key
                           /\ \E x \in ms[q].slots : x.key = LowFence(ns, q)
    BY <1>6, <1>10 DEF Separated, SameLinks
  <2> QED BY <1>1, <1>8, <1>11 DEF Separated
<1>13. PagesOK(ms, r)
  BY <1>6, <1>7, <1>9, <1>12, SameLinksPages
<1> QED BY <1>4, <1>5, <1>6, <1>13 DEF ms, IsRemoved

\* The slots of the two nodes after a split.
LeftSlots(n, s) == Lower(n) \union {x \in {s} : ~(Sentinel(n) <= s.key)}
RightSlots(n, s) == (n.slots \ Lower(n)) \union {x \in {s} : Sentinel(n) <= s.key}

\* The two nodes of a split: header fields, slots, and where the new slot goes.
LEMMA HalfFacts ==
  ASSUME NEW n \in NodeShape, IsFiniteSet(n.slots), Cardinality(n.slots) >= 2,
         \A a, b \in n.slots : a.key = b.key => a = b,
         NEW s \in [key : Nat, child : Nat], NEW new \in Nat
  PROVE  LET L == LeftHalf(n, s, new)
             R == RightHalf(n, s)
             S == Sentinel(n)
         IN  /\ L \in NodeShape /\ IsFiniteSet(L.slots)
             /\ L.level = n.level /\ L.high = S /\ L.rlink = new
             /\ L.slots = LeftSlots(n, s)
             /\ R \in NodeShape /\ IsFiniteSet(R.slots)
             /\ R.level = n.level /\ R.high = n.high /\ R.rlink = n.rlink
             /\ R.slots = RightSlots(n, s)
<1> DEFINE S == Sentinel(n)
           A == Lower(n)
           B == n.slots \ Lower(n)
           a == [n EXCEPT !.slots = A, !.used = Cardinality(A),
                          !.rlink = new, !.high = S]
           b == [InitHeader(n.level, B) EXCEPT !.high = n.high, !.rlink = n.rlink]
<1>1. /\ n.slots \in SUBSET [key : Nat, child : Nat]
      /\ n.level \in Nat /\ n.high \in Nat /\ n.rlink \in Nat /\ n.used \in Nat
  BY DEF NodeShape
<1>2. A \in SUBSET n.slots /\ S \in Nat
  BY <1>1, SplitParts
<1>3. /\ IsFiniteSet(A) /\ Cardinality(A) \in Nat
      /\ IsFiniteSet(B) /\ Cardinality(B) \in Nat
  BY <1>2, FS_Subset, FS_CardinalityType
<1>4. A \in SUBSET [key : Nat, child : Nat] /\ B \in SUBSET [key : Nat, child : Nat]
  BY <1>1, <1>2
<1> HIDE DEF A, B, S
<1>5. /\ a \in NodeShape /\ a.slots = A /\ a.level = n.level /\ a.high = S
      /\ a.rlink = new
  BY <1>1, <1>2, <1>3, <1>4 DEF NodeShape
<1>6. /\ b \in NodeShape /\ b.slots = B /\ b.level = n.level /\ b.high = n.high
      /\ b.rlink = n.rlink
  BY <1>1, <1>3, <1>4 DEF NodeShape, InitHeader
<1>7. /\ LeftHalf(n, s, new) = IF S <= s.key THEN a ELSE InsertSlot(a, s)
      /\ RightHalf(n, s) = IF S <= s.key THEN InsertSlot(b, s) ELSE b
  BY DEF LeftHalf, RightHalf, A, B, S
<1> HIDE DEF a, b
<1>8. /\ InsertSlot(a, s) \in NodeShape /\ InsertSlot(a, s).slots = A \union {s}
      /\ InsertSlot(a, s).level = n.level /\ InsertSlot(a, s).high = S
      /\ InsertSlot(a, s).rlink = new
  BY <1>5, InsertSlotFacts
<1>9. /\ InsertSlot(b, s) \in NodeShape /\ InsertSlot(b, s).slots = B \union {s}
      /\ InsertSlot(b, s).level = n.level /\ InsertSlot(b, s).high = n.high
      /\ InsertSlot(b, s).rlink = n.rlink
  BY <1>6, InsertSlotFacts
<1>10. IsFiniteSet(A \union {s}) /\ IsFiniteSet(B \union {s})
  BY <1>3, FS_AddElement
<1>11. CASE S <= s.key
  <2>1. /\ LeftHalf(n, s, new) = a /\ RightHalf(n, s) = InsertSlot(b, s)
        /\ {x \in {s} : ~(S <= s.key)} = {} /\ {x \in {s} : S <= s.key} = {s}
    BY <1>7, <1>11
  <2>2. A \union {} = A
    OBVIOUS
  <2> QED BY <2>1, <2>2, <1>3, <1>5, <1>9, <1>10 DEF A, B, S, LeftSlots, RightSlots
<1>12. CASE ~(S <= s.key)
  <2>1. /\ LeftHalf(n, s, new) = InsertSlot(a, s) /\ RightHalf(n, s) = b
        /\ {x \in {s} : ~(S <= s.key)} = {s} /\ {x \in {s} : S <= s.key} = {}
    BY <1>7, <1>12
  <2>2. B \union {} = B
    OBVIOUS
  <2> QED BY <2>1, <2>2, <1>3, <1>6, <1>8, <1>10 DEF A, B, S, LeftSlots, RightSlots
<1> QED BY <1>11, <1>12

SplitOf(ns, p, s) ==
  Append([ns EXCEPT ![p] = LeftHalf(ns[p], s, Len(ns) + 1)], RightHalf(ns[p], s))

\* ms is ns after the split of page p.
IsSplit(ns, p, s, ms) ==
  LET new == Len(ns) + 1
  IN  /\ NodesOK(ms)
      /\ Len(ms) = new /\ new \notin DOMAIN ns /\ new \in Nat /\ new # NoPage
      /\ DOMAIN ms = DOMAIN ns \union {new}
      /\ \A q \in DOMAIN ns \ {p} : ms[q] = ns[q]
      /\ ms[p].level = ns[p].level /\ ms[p].high = Sentinel(ns[p])
      /\ ms[p].rlink = new /\ ms[p].slots = LeftSlots(ns[p], s)
      /\ ms[new].level = ns[p].level /\ ms[new].high = ns[p].high
      /\ ms[new].rlink = ns[p].rlink /\ ms[new].slots = RightSlots(ns[p], s)

\* The pages after a split, before anything is said of the fences.
LEMMA SplitPages ==
  ASSUME NEW ns, NEW r, PagesOK(ns, r), NEW p \in DOMAIN ns,
         Cardinality(ns[p].slots) >= 2, NEW s \in [key : Nat, child : Nat]
  PROVE  IsSplit(ns, p, s, SplitOf(ns, p, s))
<1> DEFINE new == Len(ns) + 1
           L == LeftHalf(ns[p], s, new)
           R == RightHalf(ns[p], s)
           es == [ns EXCEPT ![p] = L]
           ms == SplitOf(ns, p, s)
<1>1. /\ NodesOK(ns) /\ ns \in Seq(NodeShape)
      /\ \A q \in DOMAIN ns : IsFiniteSet(ns[q].slots)
  BY DEF PagesOK, NodesOK
<1>2. /\ ns[p] \in NodeShape /\ IsFiniteSet(ns[p].slots)
      /\ Len(ns) \in Nat /\ DOMAIN ns = 1 .. Len(ns)
  BY <1>1, NodeFacts
<1>3. \A a, b \in ns[p].slots : a.key = b.key => a = b
  BY SlotsDiffer
<1>4. new \in Nat /\ new \notin DOMAIN ns /\ new # NoPage
  BY <1>2 DEF NoPage
<1>5. /\ L \in NodeShape /\ IsFiniteSet(L.slots)
      /\ L.level = ns[p].level /\ L.high = Sentinel(ns[p]) /\ L.rlink = new
      /\ L.slots = LeftSlots(ns[p], s)
      /\ R \in NodeShape /\ IsFiniteSet(R.slots)
      /\ R.level = ns[p].level /\ R.high = ns[p].high /\ R.rlink = ns[p].rlink
      /\ R.slots = RightSlots(ns[p], s)
  BY <1>2, <1>3, <1>4, HalfFacts
<1>6. ms = Append(es, R)
  BY DEF SplitOf
<1> HIDE DEF L, R
<1>7. /\ es \in Seq(NodeShape) /\ Len(es) = Len(ns) /\ es[p] = L
      /\ \A q \in DOMAIN ns \ {p} : es[q] = ns[q]
  BY <1>1, <1>2, <1>5
<1> HIDE DEF es, ms
<1>8. /\ ms \in Seq(NodeShape) /\ Len(ms) = new /\ DOMAIN ms = 1 .. new
      /\ ms[new] = R /\ \A q \in DOMAIN ns : ms[q] = es[q]
  BY <1>2, <1>5, <1>6, <1>7
<1>9. DOMAIN ms = DOMAIN ns \union {new}
  BY <1>2, <1>8
<1>10. NodesOK(ms)
  BY <1>1, <1>5, <1>7, <1>8, <1>9 DEF NodesOK
<1>11. ms[p] = L /\ \A q \in DOMAIN ns \ {p} : ms[q] = ns[q]
  BY <1>7, <1>8
<1> QED BY <1>4, <1>5, <1>8, <1>9, <1>10, <1>11 DEF ms, IsSplit

\* The separator lies inside the interval of the node that is split.
LEMMA SentinelInside ==
  ASSUME NEW ns, NEW r, PagesOK(ns, r), NEW p \in DOMAIN ns,
         Cardinality(ns[p].slots) >= 2
  PROVE  LET n == ns[p]
             S == Sentinel(n)
         IN  /\ S \in Nat /\ LowFence(ns, p) < S /\ S # NoKey
             /\ Covers(ns, p, S)
             /\ Lower(n) \subseteq n.slots
             /\ \E x \in n.slots \ Lower(n) : x.key = S
             /\ \A x \in Lower(n) : x.key < S
             /\ \A x \in n.slots \ Lower(n) : S <= x.key
             /\ \A x \in n.slots : x.key = LowFence(ns, p) => x \in Lower(n)
<1> DEFINE n == ns[p]
           S == Sentinel(n)
<1>1. NodesOK(ns) /\ Fenced(ns)
  BY DEF PagesOK
<1>2. /\ n \in NodeShape /\ IsFiniteSet(n.slots)
      /\ n.slots \in SUBSET [key : Nat, child : Nat]
      /\ LowFence(ns, p) \in Nat /\ \A x \in n.slots : x.key \in Nat
  BY <1>1, NodeFacts, LowFenceType
<1>3. \A a, b \in n.slots : a.key = b.key => a = b
  BY SlotsDiffer
<1>4. /\ Lower(n) \subseteq n.slots
      /\ S \in Nat
      /\ \E x \in n.slots \ Lower(n) : x.key = S
      /\ \A x \in Lower(n) : x.key < S
      /\ \A x \in n.slots \ Lower(n) : S <= x.key
      /\ \A x \in n.slots : (\A y \in n.slots : x.key <= y.key) => x \in Lower(n)
  BY <1>2, <1>3, SplitParts
<1>5. \A x \in n.slots : LowFence(ns, p) <= x.key /\ Covers(ns, p, x.key)
  BY <1>1 DEF Fenced, Covers
<1>6. \A x \in n.slots : x.key = LowFence(ns, p) => x \in Lower(n)
  BY <1>4, <1>5
<1>7. \E x \in Lower(n) : TRUE
  <2> DEFINE K == {x.key : x \in n.slots}
  <2>1. K \in SUBSET Nat /\ K # {}
    BY <1>2, <1>4
  <2>2. Min(K) \in K /\ \A y \in K : Min(K) <= y
    BY <2>1, MinOfNat
  <2>3. PICK x \in n.slots : x.key = Min(K)
    BY <2>2
  <2>4. \A y \in n.slots : x.key <= y.key
    BY <2>2, <2>3
  <2> QED BY <1>4, <2>4
<1>8. PICK x \in Lower(n) : TRUE
  BY <1>7
<1>9. LowFence(ns, p) <= x.key /\ x.key < S /\ x.key \in Nat
  BY <1>2, <1>4, <1>5, <1>8
<1>10. LowFence(ns, p) < S /\ S # NoKey
  BY <1>2, <1>4, <1>9 DEF NoKey
<1>11. Covers(ns, p, S)
  BY <1>4, <1>5
<1> QED BY <1>4, <1>6, <1>10, <1>11

\* SplitLeaf and SplitInter keep the structure.  Fences of old pages stay; the
\* new page has the separator as its low fence, and the halves share the
\* interval of the node.
LEMMA SplitKeeps ==
  ASSUME NEW ns, NEW r, PagesOK(ns, r), NEW p \in DOMAIN ns,
         Cardinality(ns[p].slots) >= 2, NEW s, Fits(ns, p, s)
  PROVE  LET ms == SplitOf(ns, p, s)
             new == Len(ns) + 1
         IN  /\ PagesOK(ms, r)
             /\ Extends(ns, ms)
             /\ LowFence(ms, new) = Sentinel(ns[p])
             /\ \A k \in Nat : Covers(ms, new, k) \/ Covers(ms, p, k) => Covers(ns, p, k)
<1> DEFINE ms == SplitOf(ns, p, s)
           new == Len(ns) + 1
           n == ns[p]
           S == Sentinel(n)
<1>1. /\ NodesOK(ns) /\ Linked(ns) /\ Fenced(ns) /\ Apart(ns) /\ Separated(ns)
      /\ Top(ns, r) /\ s \in [key : Nat, child : Nat]
  BY DEF PagesOK, Fits
<1>2. /\ NodesOK(ms)
      /\ new \notin DOMAIN ns /\ new \in Nat /\ new # NoPage
      /\ DOMAIN ms = DOMAIN ns \union {new}
      /\ \A q \in DOMAIN ns \ {p} : ms[q] = ns[q]
      /\ ms[p].level = n.level /\ ms[p].high = S /\ ms[p].rlink = new
      /\ ms[p].slots = LeftSlots(n, s)
      /\ ms[new].level = n.level /\ ms[new].high = n.high
      /\ ms[new].rlink = n.rlink
      /\ ms[new].slots = RightSlots(n, s)
  <2>1. s \in [key : Nat, child : Nat]
    BY DEF Fits
  <2>2. IsSplit(ns, p, s, ms)
    BY <2>1, SplitPages
  <2> HIDE DEF ms
  <2> QED BY <2>2 DEF IsSplit
<1>3. /\ S \in Nat /\ LowFence(ns, p) < S /\ S # NoKey /\ Covers(ns, p, S)
      /\ Lower(n) \subseteq n.slots
      /\ \E x \in n.slots \ Lower(n) : x.key = S
      /\ \A x \in Lower(n) : x.key < S
      /\ \A x \in n.slots \ Lower(n) : S <= x.key
      /\ \A x \in n.slots : x.key = LowFence(ns, p) => x \in Lower(n)
  BY SentinelInside
<1>0. /\ ms[p].slots = Lower(n) \union {x \in {s} : ~(S <= s.key)}
      /\ ms[new].slots = (n.slots \ Lower(n)) \union {x \in {s} : S <= s.key}
  BY <1>2 DEF LeftSlots, RightSlots
<1> HIDE DEF ms, new, S
<1>4. /\ \A q \in DOMAIN ns : ns[q].rlink # new
      /\ n.rlink \in DOMAIN ns \union {NoPage} /\ n.rlink # new
  BY <1>1, <1>2 DEF Linked
<1>5. Linked(ms)
  <2>1. ASSUME NEW q \in DOMAIN ms
        PROVE  /\ ms[q].rlink = NoPage <=> ms[q].high = NoKey
               /\ ms[q].rlink # NoPage =>
                    ms[q].rlink \in DOMAIN ms /\ ms[ms[q].rlink].level = ms[q].level
    <3>1. CASE q = new
      BY <3>1, <1>1, <1>2, <1>3, <1>4 DEF Linked
    <3>2. CASE q = p
      BY <3>2, <1>1, <1>2, <1>3, <1>4 DEF Linked
    <3>3. CASE q \in DOMAIN ns \ {p}
      BY <3>3, <1>1, <1>2, <1>3, <1>4 DEF Linked
    <3> QED BY <3>1, <3>2, <3>3, <1>2
  <2>2. ASSUME NEW q \in DOMAIN ms, NEW x \in DOMAIN ms,
               ms[q].rlink = ms[x].rlink, ms[q].rlink # NoPage
        PROVE  q = x
    BY <2>2, <1>1, <1>2, <1>4 DEF Linked
  <2> QED BY <2>1, <2>2 DEF Linked
<1>6. ASSUME NEW q \in DOMAIN ns PROVE LowFence(ms, q) = LowFence(ns, q)
  <2>0. q # NoPage
    BY <1>1, NodeFacts
  <2>1. CASE \A x \in DOMAIN ns : ns[x].rlink # q
    <3>1. \A x \in DOMAIN ms : ms[x].rlink # q
      BY <2>1, <1>2
    <3> QED BY <2>1, <3>1, LowFenceLeftmost
  <2>2. ASSUME NEW x \in DOMAIN ns, ns[x].rlink = q
        PROVE  LowFence(ms, q) = LowFence(ns, q)
    <3>1. LowFence(ns, q) = ns[x].high
      BY <2>0, <2>2, <1>1, LowFenceOfRight
    <3>2. CASE x = p
      <4>1. LowFence(ms, q) = ms[new].high
        BY <2>0, <2>2, <3>2, <1>2, <1>5, LowFenceOfRight
      <4> QED BY <3>1, <3>2, <4>1, <1>2
    <3>3. CASE x # p
      <4>1. LowFence(ms, q) = ms[x].high
        BY <2>0, <2>2, <3>3, <1>2, <1>5, LowFenceOfRight
      <4> QED BY <3>1, <3>3, <4>1, <1>2
    <3> QED BY <3>2, <3>3
  <2> QED BY <2>1, <2>2
<1>7. LowFence(ms, new) = S
  BY <1>2, <1>5, LowFenceOfRight
<1>8. Extends(ns, ms)
  BY <1>2, <1>6 DEF Extends
<1>9. /\ \A q \in DOMAIN ns : LowFence(ns, q) \in Nat
      /\ \A q \in DOMAIN ns : ns[q].high \in Nat /\ ns[q].level \in Nat
      /\ \A x \in n.slots : x.key \in Nat /\ s.key \in Nat
  BY <1>1, NodeFacts, LowFenceType
<1>10. n.high # NoKey => S < n.high
  BY <1>3 DEF Covers
<1>11. Fenced(ms)
  <2> SUFFICES ASSUME NEW q \in DOMAIN ms
               PROVE  /\ ms[q].high # NoKey => LowFence(ms, q) < ms[q].high
                      /\ \A x \in ms[q].slots : Covers(ms, q, x.key)
    BY DEF Fenced
  <2>1. CASE q = new
    <3>1. \A x \in ms[q].slots : S <= x.key /\ Covers(ns, p, x.key)
      BY <2>1, <1>0, <1>1, <1>3 DEF Fenced, Fits
    <3> QED BY <3>1, <2>1, <1>2, <1>7, <1>10 DEF Covers
  <2>2. CASE q = p
    <3>1. \A x \in ms[q].slots : x.key < S /\ Covers(ns, p, x.key)
      <4>1. s.key \in Nat
        BY <1>1
      <4> QED BY <4>1, <2>2, <1>0, <1>1, <1>3 DEF Fenced, Fits
    <3> QED BY <3>1, <2>2, <1>2, <1>3, <1>6 DEF Covers
  <2>3. CASE q \in DOMAIN ns \ {p}
    BY <2>3, <1>1, <1>2, <1>6 DEF Fenced, Covers
  <2> QED BY <2>1, <2>2, <2>3, <1>2
<1>12. Apart(ms)
  <2>1. ASSUME NEW q \in DOMAIN ns, q # p, ns[q].level = n.level
        PROVE  /\ Before(ms, q, p) \/ Before(ms, p, q)
               /\ Before(ms, q, new) \/ Before(ms, new, q)
    <3>1. CASE Before(ns, q, p)
      <4>1. ns[q].high # NoKey /\ ns[q].high <= LowFence(ns, p)
        BY <3>1 DEF Before
      <4>2. ns[q].high <= S
        BY <4>1, <1>3, <1>9
      <4> QED BY <4>1, <4>2, <2>1, <1>2, <1>6, <1>7 DEF Before
    <3>2. CASE Before(ns, p, q)
      <4>1. n.high # NoKey /\ n.high <= LowFence(ns, q)
        BY <3>2 DEF Before
      <4>2. S <= LowFence(ns, q)
        BY <4>1, <1>3, <1>9, <1>10
      <4> QED BY <4>1, <4>2, <2>1, <1>2, <1>3, <1>6, <1>7 DEF Before
    <3> QED BY <2>1, <3>1, <3>2, <1>1 DEF Apart
  <2>2. Before(ms, p, new)
    BY <1>2, <1>3, <1>7 DEF Before
  <2>3. ASSUME NEW q \in DOMAIN ns \ {p}, NEW x \in DOMAIN ns \ {p},
               ns[q].level = ns[x].level, q # x
        PROVE  Before(ms, q, x) \/ Before(ms, x, q)
    BY <2>3, <1>1, <1>2, <1>6 DEF Apart, Before
  <2> SUFFICES ASSUME NEW q \in DOMAIN ms, NEW x \in DOMAIN ms,
                      ms[q].level = ms[x].level, q # x
               PROVE  Before(ms, q, x) \/ Before(ms, x, q)
    BY DEF Apart
  <2>4. CASE q \in {p, new}
    <3>1. CASE x \in {p, new}
      BY <2>2, <2>4, <3>1
    <3>2. CASE x \in DOMAIN ns \ {p}
      <4>1. ns[x].level = n.level
        BY <2>4, <3>2, <1>2
      <4> QED BY <4>1, <2>1, <2>4, <3>2
    <3> QED BY <3>1, <3>2, <1>2
  <2>5. CASE q \in DOMAIN ns \ {p}
    <3>1. CASE x \in {p, new}
      <4>1. ns[q].level = n.level
        BY <2>5, <3>1, <1>2
      <4> QED BY <4>1, <2>1, <2>5, <3>1
    <3>2. CASE x \in DOMAIN ns \ {p}
      BY <2>3, <2>5, <3>2, <1>2
    <3> QED BY <3>1, <3>2, <1>2
  <2> QED BY <2>4, <2>5, <1>2
<1>13. Separated(ms)
  <2>1. ASSUME NEW q \in DOMAIN ns, NEW x, x \in ns[q].slots \/ (q = p /\ x = s)
        PROVE  /\ ns[q].level = 0 => x.child = NoPage
               /\ ns[q].level > 0 =>
                    /\ x.child \in DOMAIN ns
                    /\ ns[x.child].level = ns[q].level - 1
                    /\ LowFence(ns, x.child) = x.key
    BY <2>1, <1>1 DEF Separated, Fits
  <2>2. \A c \in DOMAIN ns : /\ c \in DOMAIN ms /\ ms[c].level = ns[c].level
                             /\ LowFence(ms, c) = LowFence(ns, c)
    BY <1>8 DEF Extends
  <2>3. ASSUME NEW q \in DOMAIN ms
        PROVE  \E o \in DOMAIN ns :
                 /\ ms[q].level = ns[o].level
                 /\ \A x \in ms[q].slots : x \in ns[o].slots \/ (o = p /\ x = s)
    <3>1. CASE q \in {p, new}
      BY <3>1, <1>0, <1>2, <1>3
    <3>2. CASE q \in DOMAIN ns \ {p}
      BY <3>2, <1>2
    <3> QED BY <3>1, <3>2, <1>2
  <2>4. ASSUME NEW q \in DOMAIN ms, ms[q].level > 0
        PROVE  \E x \in ms[q].slots : x.key = LowFence(ms, q)
    <3>1. CASE q = new
      BY <3>1, <1>0, <1>3, <1>7
    <3>2. CASE q = p
      <4>1. PICK x \in n.slots : x.key = LowFence(ns, p)
        BY <2>4, <3>2, <1>1, <1>2 DEF Separated
      <4>2. x \in ms[p].slots
        BY <4>1, <1>0, <1>3
      <4> QED BY <3>2, <4>1, <4>2, <1>6
    <3>3. CASE q \in DOMAIN ns \ {p}
      BY <2>4, <3>3, <1>1, <1>2, <1>6 DEF Separated
    <3> QED BY <3>1, <3>2, <3>3, <1>2
  <2>5. ASSUME NEW q \in DOMAIN ms, NEW x \in ms[q].slots
        PROVE  /\ ms[q].level = 0 => x.child = NoPage
               /\ ms[q].level > 0 =>
                    /\ x.child \in DOMAIN ms
                    /\ ms[x.child].level = ms[q].level - 1
                    /\ LowFence(ms, x.child) = x.key
    <3>1. PICK o \in DOMAIN ns :
            /\ ms[q].level = ns[o].level
            /\ \A y \in ms[q].slots : y \in ns[o].slots \/ (o = p /\ y = s)
      BY <2>3
    <3>2. x \in ns[o].slots \/ (o = p /\ x = s)
      BY <3>1
    <3> QED BY <3>1, <3>2, <2>1, <2>2
  <2> QED BY <2>4, <2>5 DEF Separated
<1>14. Top(ms, r)
  <2>1. ms[r].level = ns[r].level /\ r \in DOMAIN ms /\ r # new
    BY <1>1, <1>2 DEF Top
  <2> QED BY <2>1, <1>1, <1>2, <1>4 DEF Top
<1>15. \A k \in Nat : Covers(ms, new, k) \/ Covers(ms, p, k) => Covers(ns, p, k)
  BY <1>2, <1>3, <1>6, <1>7, <1>9, <1>10 DEF Covers
<1> QED BY <1>2, <1>5, <1>7, <1>8, <1>11, <1>12, <1>13, <1>14, <1>15
        DEF PagesOK, ms, new, S

GrowOf(ns, r, s) == Append(ns, InitHeader(ns[r].level + 1, {Slot(Empty, r), s}))

\* ms is ns under a new root.
IsGrowth(ns, r, s, ms) ==
  LET new == Len(ns) + 1
  IN  /\ NodesOK(ms)
      /\ Len(ms) = new /\ new \notin DOMAIN ns /\ new \in Nat /\ new # NoPage
      /\ DOMAIN ms = DOMAIN ns \union {new}
      /\ \A q \in DOMAIN ns : ms[q] = ns[q]
      /\ ms[new].level = ns[r].level + 1 /\ ms[new].high = NoKey
      /\ ms[new].rlink = NoPage /\ ms[new].slots = {Slot(Empty, r), s}

\* The pages after CreateNewRoot.
LEMMA GrowPages ==
  ASSUME NEW ns, NodesOK(ns), NEW r \in DOMAIN ns, NEW s \in [key : Nat, child : Nat]
  PROVE  IsGrowth(ns, r, s, GrowOf(ns, r, s))
<1> DEFINE new == Len(ns) + 1
           S == {Slot(Empty, r), s}
           n == InitHeader(ns[r].level + 1, S)
           ms == GrowOf(ns, r, s)
<1>1. /\ ns \in Seq(NodeShape) /\ \A q \in DOMAIN ns : IsFiniteSet(ns[q].slots)
      /\ Len(ns) \in Nat /\ DOMAIN ns = 1 .. Len(ns)
      /\ ns[r].level \in Nat /\ r \in Nat
  BY NodeFacts DEF NodesOK
<1>2. S \in SUBSET [key : Nat, child : Nat]
  BY <1>1 DEF Slot, Empty
<1>3. IsFiniteSet(S) /\ Cardinality(S) \in Nat
  <2>1. IsFiniteSet({Slot(Empty, r)})
    BY FS_Singleton
  <2>2. IsFiniteSet({Slot(Empty, r)} \union {s})
    BY <2>1, FS_AddElement
  <2>3. S = {Slot(Empty, r)} \union {s}
    OBVIOUS
  <2>4. IsFiniteSet(S)
    BY <2>2, <2>3
  <2> HIDE DEF S
  <2> QED BY <2>4, FS_CardinalityType
<1> HIDE DEF S
<1>4. /\ n \in NodeShape /\ n.slots = S /\ n.level = ns[r].level + 1
      /\ n.high = NoKey /\ n.rlink = NoPage
  <2>1. ns[r].level + 1 \in Nat
    BY <1>1
  <2> QED BY <2>1, <1>2, <1>3 DEF NodeShape, InitHeader, NoKey, NoPage
<1>5. ms = Append(ns, n)
  BY DEF GrowOf, S
<1> HIDE DEF n, ms
<1>6. /\ ms \in Seq(NodeShape) /\ Len(ms) = new /\ DOMAIN ms = 1 .. new
      /\ ms[new] = n /\ \A q \in DOMAIN ns : ms[q] = ns[q]
  BY <1>1, <1>4, <1>5
<1>7. /\ DOMAIN ms = DOMAIN ns \union {new} /\ new \notin DOMAIN ns
      /\ new \in Nat /\ new # NoPage
  BY <1>1, <1>6 DEF NoPage
<1>8. NodesOK(ms)
  BY <1>1, <1>3, <1>4, <1>6, <1>7 DEF NodesOK
<1> QED BY <1>4, <1>6, <1>7, <1>8 DEF IsGrowth, ms, S

\* CreateNewRoot keeps the structure: the old root was leftmost and highest.
LEMMA GrowKeeps ==
  ASSUME NEW ns, NEW r, PagesOK(ns, r), NEW s \in [key : Nat, child : Nat],
         s.child \in DOMAIN ns, ns[s.child].level = ns[r].level,
         LowFence(ns, s.child) = s.key
  PROVE  LET ms == GrowOf(ns, r, s)
         IN  PagesOK(ms, Len(ns) + 1) /\ Extends(ns, ms)
<1> DEFINE ms == GrowOf(ns, r, s)
           new == Len(ns) + 1
<1>1. /\ NodesOK(ns) /\ Linked(ns) /\ Fenced(ns) /\ Apart(ns) /\ Separated(ns)
      /\ Top(ns, r) /\ r \in DOMAIN ns
  BY DEF PagesOK, Top
<1>2. IsGrowth(ns, r, s, ms)
  BY <1>1, GrowPages
<1> HIDE DEF ms
<1>3. /\ NodesOK(ms)
      /\ new \notin DOMAIN ns /\ new \in Nat /\ new # NoPage
      /\ DOMAIN ms = DOMAIN ns \union {new}
      /\ \A q \in DOMAIN ns : ms[q] = ns[q]
      /\ ms[new].level = ns[r].level + 1 /\ ms[new].high = NoKey
      /\ ms[new].rlink = NoPage /\ ms[new].slots = {Slot(Empty, r), s}
  BY <1>2 DEF IsGrowth
<1> HIDE DEF new
<1>4. \A q \in DOMAIN ns : ns[q].level \in Nat /\ ns[q].rlink # new /\ q # NoPage
  BY <1>1, <1>3, NodeFacts DEF Linked
<1>5. Linked(ms)
  BY <1>1, <1>3, <1>4 DEF Linked
<1>6. ASSUME NEW q \in DOMAIN ns PROVE LowFence(ms, q) = LowFence(ns, q)
  <2>1. CASE \A x \in DOMAIN ns : ns[x].rlink # q
    <3>1. \A x \in DOMAIN ms : ms[x].rlink # q
      BY <2>1, <1>3, <1>4
    <3> QED BY <2>1, <3>1, LowFenceLeftmost
  <2>2. ASSUME NEW x \in DOMAIN ns, ns[x].rlink = q
        PROVE  LowFence(ms, q) = LowFence(ns, q)
    <3>1. LowFence(ns, q) = ns[x].high
      BY <2>2, <1>1, <1>4, LowFenceOfRight
    <3>2. LowFence(ms, q) = ms[x].high
      BY <2>2, <1>3, <1>4, <1>5, LowFenceOfRight
    <3> QED BY <3>1, <3>2, <1>3
  <2> QED BY <2>1, <2>2
<1>7. LowFence(ms, new) = 0
  <2>1. \A x \in DOMAIN ms : ms[x].rlink # new
    BY <1>3, <1>4
  <2> QED BY <2>1, LowFenceLeftmost
<1>8. Extends(ns, ms)
  BY <1>3, <1>6 DEF Extends
<1>9. LowFence(ns, r) = 0
  BY <1>1, LowFenceLeftmost DEF Top
<1>10. ASSUME NEW x \in ms[new].slots
       PROVE  /\ x.child \in DOMAIN ns /\ ns[x.child].level = ns[r].level
              /\ LowFence(ns, x.child) = x.key /\ x.key \in Nat
  BY <1>1, <1>3, <1>9 DEF Slot, Empty
<1>11. Fenced(ms)
  <2> SUFFICES ASSUME NEW q \in DOMAIN ms
               PROVE  /\ ms[q].high # NoKey => LowFence(ms, q) < ms[q].high
                      /\ \A x \in ms[q].slots : Covers(ms, q, x.key)
    BY DEF Fenced
  <2>1. CASE q = new
    BY <2>1, <1>3, <1>7, <1>10 DEF Covers
  <2>2. CASE q \in DOMAIN ns
    BY <2>2, <1>1, <1>3, <1>6 DEF Fenced, Covers
  <2> QED BY <2>1, <2>2, <1>3
<1>12. Apart(ms)
  <2>1. \A q \in DOMAIN ns : ms[q].level # ms[new].level
    BY <1>1, <1>3, <1>4 DEF Top
  <2>2. ASSUME NEW q \in DOMAIN ms, NEW x \in DOMAIN ms,
               ms[q].level = ms[x].level, q # x
        PROVE  Before(ms, q, x) \/ Before(ms, x, q)
    <3>1. q \in DOMAIN ns /\ x \in DOMAIN ns
      BY <2>1, <2>2, <1>3
    <3> QED BY <2>2, <3>1, <1>1, <1>3, <1>6 DEF Apart, Before
  <2> QED BY <2>2 DEF Apart
<1>13. Separated(ms)
  <2> SUFFICES ASSUME NEW q \in DOMAIN ms
               PROVE  /\ ms[q].level = 0 => \A x \in ms[q].slots : x.child = NoPage
                      /\ ms[q].level > 0 =>
                           /\ \A x \in ms[q].slots :
                                /\ x.child \in DOMAIN ms
                                /\ ms[x.child].level = ms[q].level - 1
                                /\ LowFence(ms, x.child) = x.key
                           /\ \E x \in ms[q].slots : x.key = LowFence(ms, q)
    BY DEF Separated
  <2>1. CASE q = new
    <3>1. ms[q].level > 0 /\ ms[q].level - 1 = ns[r].level
      BY <2>1, <1>1, <1>3, <1>4
    <3>2. Slot(Empty, r) \in ms[q].slots /\ Slot(Empty, r).key = LowFence(ms, q)
      BY <2>1, <1>3, <1>7 DEF Slot, Empty
    <3>3. ASSUME NEW x \in ms[q].slots
          PROVE  /\ x.child \in DOMAIN ms
                 /\ ms[x.child].level = ns[r].level
                 /\ LowFence(ms, x.child) = x.key
      BY <2>1, <1>3, <1>6, <1>10
    <3> QED BY <3>1, <3>2, <3>3
  <2>2. CASE q \in DOMAIN ns
    BY <2>2, <1>1, <1>3, <1>6 DEF Separated
  <2> QED BY <2>1, <2>2, <1>3
<1>14. Top(ms, new)
  BY <1>1, <1>3, <1>4 DEF Top
<1> QED BY <1>3, <1>5, <1>8, <1>11, <1>12, <1>13, <1>14 DEF PagesOK, ms, new

-----------------------------------------------------------------------------
(* What a thread does.                                                     *)

\* The fields of a thread.
LEMMA ThreadFacts ==
  ASSUME NEW T \in ThreadShape
  PROVE  /\ T.pc \in PCs /\ T.pid \in Nat /\ T.stack \in Seq(Nat) /\ T.key \in Nat
         /\ T.child \in Nat /\ T.level \in Nat /\ T.ins \in Nat
         /\ T.freed \in BOOLEAN /\ T.found \in SUBSET Nat
         /\ T.op \in Calls \union {[kind |-> "Get", key |-> 0]}
         /\ T.op.kind \in Kinds /\ T.op.key \in Nat
<1>1. /\ T.pc \in PCs /\ T.pid \in Nat /\ T.stack \in Seq(Nat) /\ T.key \in Nat
      /\ T.child \in Nat /\ T.level \in Nat /\ T.ins \in Nat
      /\ T.freed \in BOOLEAN /\ T.found \in SUBSET Nat
      /\ T.op \in Calls \union {[kind |-> "Get", key |-> 0]}
  BY DEF ThreadShape
<1>2. \A op \in Calls : op.kind \in Kinds /\ op.key \in Nat
  BY BLinkTreeAssumption
<1>3. T.op.kind \in Kinds /\ T.op.key \in Nat
  <2>1. CASE T.op \in Calls
    BY <1>2, <2>1
  <2>2. CASE T.op = [kind |-> "Get", key |-> 0]
    BY <2>2 DEF Kinds
  <2> QED BY <1>1, <2>1, <2>2
<1> QED BY <1>1, <1>3

\* A thread that returns is as good as new.
LEMMA IdleOK ==
  ASSUME NEW ns, NEW l, NEW t
  PROVE  ThreadOK(ns, l, t, IdleThread) /\ IdleThread \in ThreadShape
<1>1. IdleThread \in ThreadShape
  BY DEF IdleThread, ThreadShape, PCs, NoPage
<1>2. /\ IdleThread.pc = "idle" /\ IdleThread.stack = <<>> /\ IdleThread.child = NoPage
      /\ IdleThread.ins = NoPage /\ IdleThread.level = 0 /\ IdleThread.key = 0
      /\ IdleThread.op.kind = "Get" /\ IdleThread.op.key = 0
  BY DEF IdleThread
<1>3. Low(0) = 0
  BY KeyParts
<1>4. DOMAIN IdleThread.stack = {}
  BY <1>2
<1> HIDE DEF IdleThread
<1> QED BY <1>1, <1>2, <1>3, <1>4
        DEF ThreadOK, FormOK, CallOK, StackOK, PlaceOK, CarriedOK, InsertOK, LatchesOK

\* What others do to the pages and latches leaves a thread where it was: fences
\* and levels stay, and pages it has latched are not split.
LEMMA OthersKeep ==
  ASSUME NEW ns, NEW ms, NEW l, NEW m, NEW t, NEW T, Extends(ns, ms),
         ThreadOK(ns, l, t, T),
         \A p \in DOMAIN ns : l[p] = t => m[p] = t /\ ms[p].high = ns[p].high
  PROVE  ThreadOK(ms, m, t, T)
<1>1. CASE T.pc = "idle"
  BY <1>1, IdleOK DEF ThreadOK, FormOK
<1>2. CASE T.pc # "idle"
  <2>1. /\ FormOK(ns, T) /\ CallOK(T) /\ T.pid \in DOMAIN ns
        /\ StackOK(ns, T) /\ PlaceOK(ns, T) /\ CarriedOK(ns, T)
        /\ InsertOK(ns, l, t, T) /\ LatchesOK(l, t, T)
    BY <1>2 DEF ThreadOK, FormOK
  <2>2. \A p \in DOMAIN ns : /\ p \in DOMAIN ms /\ ms[p].level = ns[p].level
                             /\ LowFence(ms, p) = LowFence(ns, p)
    BY DEF Extends
  <2>3. FormOK(ms, T)
    BY <2>1, <2>2 DEF FormOK
  <2>4. T.pc \in {"crab", "check"} /\ T.ins # NoPage => T.ins \in DOMAIN ns
    BY <2>1 DEF InsertOK
  <2>5. StackOK(ms, T)
    <3>1. \A i \in DOMAIN T.stack : \A j \in 1 .. i - 1 : j \in DOMAIN T.stack
      <4>1. T.stack \in Seq(Nat)
        BY <2>1, ThreadFacts DEF FormOK
      <4> QED BY <4>1
    <3> QED BY <2>1, <2>2, <2>4, <3>1 DEF StackOK
  <2>6. PlaceOK(ms, T) /\ CarriedOK(ms, T)
    BY <2>1, <2>2 DEF PlaceOK, CarriedOK
  <2>7. LatchesOK(m, t, T)
    BY <2>1 DEF LatchesOK
  <2>8. InsertOK(ms, m, t, T)
    <3>1. T.pc = "put" => l[T.pid] = t
      BY <2>1 DEF LatchesOK
    <3> QED BY <2>1, <2>2, <3>1 DEF InsertOK, Covers
  <2> QED BY <2>1, <2>3, <2>5, <2>6, <2>7, <2>8 DEF ThreadOK
<1> QED BY <1>1, <1>2

\* A call starts at the root, which is to the left of every key.
LEMMA BeginKeeps ==
  ASSUME NEW ns, NEW r, PagesOK(ns, r), NEW l, NEW t, NEW T, NEW op \in Calls,
         T = [IdleThread EXCEPT
                !.pc = "drop", !.op = op, !.pid = r,
                !.key = IF op.kind \in {"Get", "InsertUnique"}
                        THEN Low(op.key) ELSE op.key]
  PROVE  ThreadOK(ns, l, t, T)
<1>1. op.kind \in Kinds /\ op.key \in Nat
  BY BLinkTreeAssumption
<1>2. /\ T.pc = "drop" /\ T.op = op /\ T.pid = r /\ T.stack = <<>> /\ T.child = NoPage
      /\ T.level = 0 /\ T.ins = NoPage /\ T.freed = FALSE /\ T.found = {}
      /\ T.key = IF op.kind \in {"Get", "InsertUnique"} THEN Low(op.key) ELSE op.key
  BY DEF IdleThread
<1>3. r \in DOMAIN ns /\ r \in Nat /\ ns[r].level \in Nat /\ LowFence(ns, r) = 0
  <2>1. NodesOK(ns) /\ Top(ns, r)
    BY DEF PagesOK
  <2> QED BY <2>1, NodeFacts, LowFenceLeftmost DEF Top
<1>4. T.key \in Nat
  BY <1>1, <1>2, KeyParts
<1>5. T \in ThreadShape
  <2>1. PICK k \in Nat : k = T.key
    BY <1>4
  <2>2. T = [pc |-> "drop", op |-> op, pid |-> r, stack |-> <<>>, key |-> k,
             child |-> NoPage, level |-> 0, ins |-> NoPage, freed |-> FALSE,
             found |-> {}]
    BY <2>1 DEF IdleThread
  <2>3. op \in Calls \union {[kind |-> "Get", key |-> 0]} /\ <<>> \in Seq(Nat)
    OBVIOUS
  <2>4. "drop" \in PCs /\ NoPage \in Nat /\ 0 \in Nat /\ r \in Nat
        /\ FALSE \in BOOLEAN /\ {} \in SUBSET Nat
    BY <1>3 DEF PCs, NoPage
  <2> HIDE DEF PCs, NoPage
  <2> QED BY ONLY <2>1, <2>2, <2>3, <2>4 DEF ThreadShape
<1>6. DOMAIN T.stack = {}
  BY <1>2
<1>7. FormOK(ns, T) /\ CallOK(T)
  BY <1>1, <1>2, <1>3, <1>5 DEF FormOK, CallOK, Kinds
<1>8. StackOK(ns, T)
  BY <1>2, <1>6 DEF StackOK
<1>9. PlaceOK(ns, T) /\ CarriedOK(ns, T) /\ InsertOK(ns, l, t, T) /\ LatchesOK(l, t, T)
  BY <1>2, <1>3, <1>4 DEF PlaceOK, CarriedOK, InsertOK, LatchesOK
<1> QED BY <1>7, <1>8, <1>9 DEF ThreadOK

\* Arrive: at the level looked for, or one below it when the tree is lower than
\* the level a separator is meant for.
LEMMA ArriveKeeps ==
  ASSUME NEW ns, NEW r, PagesOK(ns, r), NEW l, NEW t, NEW T, ThreadOK(ns, l, t, T),
         T.pc = "drop", ns[T.pid].level <= T.level, NEW pc,
         pc = IF T.level = 0 /\ T.op.kind = "Get" THEN "get" ELSE "latch",
         NEW U, U = [T EXCEPT !.pc = pc]
  PROVE  ThreadOK(ns, l, t, U)
<1>1. /\ FormOK(ns, T) /\ CallOK(T) /\ StackOK(ns, T) /\ PlaceOK(ns, T)
      /\ CarriedOK(ns, T) /\ InsertOK(ns, l, t, T) /\ T \in ThreadShape
      /\ T.pid \in DOMAIN ns /\ NodesOK(ns)
  BY DEF ThreadOK, FormOK, PagesOK
<1>2. /\ U.pc = pc /\ U.op = T.op /\ U.pid = T.pid /\ U.stack = T.stack
      /\ U.key = T.key /\ U.child = T.child /\ U.level = T.level /\ U.ins = T.ins
      /\ U \in ThreadShape
  BY <1>1 DEF ThreadShape, PCs
<1>3. ns[T.pid].level \in Nat /\ T.level \in Nat /\ T.child \in Nat
  BY <1>1, NodeFacts, ThreadFacts
<1>4. T.child # NoPage => ns[T.child].level \in Nat /\ T.level = ns[T.child].level + 1
  BY <1>1, NodeFacts DEF CarriedOK
<1>5. pc = "get" => T.child = NoPage
  BY <1>3, <1>4
<1>6. FormOK(ns, U)
  BY <1>1, <1>2 DEF FormOK
<1>7. CallOK(U)
  BY <1>1, <1>2, <1>3, <1>4, <1>5 DEF CallOK
<1>8. StackOK(ns, U)
  BY <1>1, <1>2 DEF StackOK
<1>9. PlaceOK(ns, U)
  <2>1. T.child = NoPage => ns[T.pid].level = 0
    BY <1>1, <1>3 DEF CallOK
  <2>2. T.child # NoPage => ns[T.child].level <= ns[T.pid].level
    <3>1. T.level <= ns[T.pid].level + 1
      BY <1>1 DEF PlaceOK
    <3> QED BY <3>1, <1>3, <1>4
  <2> QED BY <2>1, <2>2, <1>1, <1>2 DEF PlaceOK
<1>10. CarriedOK(ns, U) /\ InsertOK(ns, l, t, U) /\ LatchesOK(l, t, U)
  BY <1>1, <1>2 DEF CarriedOK, InsertOK, LatchesOK
<1> QED BY <1>6, <1>7, <1>8, <1>9, <1>10 DEF ThreadOK

\* DropRight, GoRight, GetRight and GetNext: the right sibling is of the same
\* level, to the right of the stack and, when the fence is at or below the key,
\* not to the right of the key.
LEMMA RightKeeps ==
  ASSUME NEW ns, NEW r, PagesOK(ns, r), NEW l, NEW m, NEW t, NEW T,
         ThreadOK(ns, l, t, T), T.pc \in {"drop", "right", "get", "next"},
         T.pc \in {"drop", "right"} => HasSplit(ns[T.pid], T.key),
         ns[T.pid].rlink # NoPage, NEW pc,
         pc = IF T.pc = "drop" THEN "drop" ELSE IF T.pc = "right" THEN "latch" ELSE "get",
         NEW U, U = [T EXCEPT !.pc = pc, !.pid = ns[T.pid].rlink]
  PROVE  ThreadOK(ns, m, t, U)
<1> DEFINE n == ns[T.pid]
           q == n.rlink
<1>1. /\ FormOK(ns, T) /\ CallOK(T) /\ StackOK(ns, T) /\ PlaceOK(ns, T)
      /\ CarriedOK(ns, T) /\ InsertOK(ns, l, t, T) /\ T \in ThreadShape
      /\ T.pid \in DOMAIN ns /\ NodesOK(ns) /\ Linked(ns) /\ Fenced(ns) /\ T.pc # "idle"
  BY DEF ThreadOK, FormOK, PagesOK
<1>2. q \in DOMAIN ns /\ ns[q].level = n.level /\ LowFence(ns, q) = n.high
      /\ n.high # NoKey
  BY <1>1, LowFenceOfRight DEF Linked
<1>3. q \in Nat /\ n.high \in Nat /\ LowFence(ns, T.pid) \in Nat /\ T.key \in Nat
      /\ n.level \in Nat
  BY <1>1, <1>2, NodeFacts, LowFenceType, ThreadFacts
<1>4. /\ U.pc = pc /\ U.op = T.op /\ U.pid = q /\ U.stack = T.stack
      /\ U.key = T.key /\ U.child = T.child /\ U.level = T.level /\ U.ins = T.ins
      /\ U \in ThreadShape
  BY <1>1, <1>3 DEF ThreadShape, PCs
<1>5. LowFence(ns, T.pid) <= LowFence(ns, q)
  BY <1>1, <1>2, <1>3 DEF Fenced
<1>6. pc \in {"drop", "latch"} => LowFence(ns, q) <= T.key
  BY <1>2 DEF HasSplit
<1>7. FormOK(ns, U)
  BY <1>1, <1>2, <1>4 DEF FormOK
<1>8. CallOK(U)
  BY <1>1, <1>4 DEF CallOK
<1>9. StackOK(ns, U)
  <2>1. ASSUME NEW i \in DOMAIN T.stack
        PROVE  LowFence(ns, T.stack[i]) <= LowFence(ns, q)
    <3>1. LowFence(ns, T.stack[i]) <= LowFence(ns, T.pid)
      BY <1>1 DEF StackOK
    <3>2. LowFence(ns, T.stack[i]) \in Nat /\ LowFence(ns, q) \in Nat
      BY <1>1, LowFenceType
    <3> QED BY <3>1, <3>2, <1>3, <1>5
  <2> QED BY <2>1, <1>1, <1>2, <1>4 DEF StackOK
<1>10. PlaceOK(ns, U)
  BY <1>1, <1>2, <1>4, <1>6 DEF PlaceOK
<1>11. CarriedOK(ns, U) /\ InsertOK(ns, m, t, U) /\ LatchesOK(m, t, U)
  BY <1>1, <1>4 DEF CarriedOK, InsertOK, LatchesOK
<1> QED BY <1>7, <1>8, <1>9, <1>10, <1>11 DEF ThreadOK

\* DropDown: the child is one level lower and covers or precedes the key.
LEMMA DownKeeps ==
  ASSUME NEW ns, NEW r, PagesOK(ns, r), NEW l, NEW t, NEW T, ThreadOK(ns, l, t, T),
         T.pc = "drop", ns[T.pid].level > T.level,
         NEW U, U = [T EXCEPT !.pid = FindChild(ns[T.pid], T.key),
                              !.stack = Append(T.stack, T.pid)]
  PROVE  ThreadOK(ns, l, t, U)
<1> DEFINE n == ns[T.pid]
           c == FindChild(n, T.key)
<1>1. /\ FormOK(ns, T) /\ CallOK(T) /\ StackOK(ns, T) /\ PlaceOK(ns, T)
      /\ CarriedOK(ns, T) /\ InsertOK(ns, l, t, T) /\ T \in ThreadShape
      /\ T.pid \in DOMAIN ns /\ NodesOK(ns)
  BY DEF ThreadOK, FormOK, PagesOK
<1>2. /\ n.level \in Nat /\ T.level \in Nat /\ T.key \in Nat /\ T.stack \in Seq(Nat)
      /\ T.pid \in Nat /\ LowFence(ns, T.pid) \in Nat
  BY <1>1, NodeFacts, ThreadFacts, LowFenceType
<1>3. LowFence(ns, T.pid) <= T.key
  BY <1>1 DEF PlaceOK
<1>4. /\ c \in DOMAIN ns /\ ns[c].level = n.level - 1 /\ LowFence(ns, c) <= T.key
      /\ LowFence(ns, T.pid) <= LowFence(ns, c)
  BY <1>1, <1>2, <1>3, FindChildFacts
<1>5. c \in Nat /\ LowFence(ns, c) \in Nat
  BY <1>1, <1>4, NodeFacts, LowFenceType
<1> DEFINE st == Append(T.stack, T.pid)
<1>6. /\ st \in Seq(Nat) /\ Len(st) = Len(T.stack) + 1 /\ Len(T.stack) \in Nat
      /\ st[Len(st)] = T.pid /\ DOMAIN st = 1 .. Len(st)
      /\ DOMAIN T.stack = 1 .. Len(T.stack)
      /\ \A i \in DOMAIN T.stack : st[i] = T.stack[i]
  BY <1>2
<1> HIDE DEF c, st
<1>7. /\ U.pc = "drop" /\ U.op = T.op /\ U.pid = c /\ U.stack = st
      /\ U.key = T.key /\ U.child = T.child /\ U.level = T.level /\ U.ins = T.ins
      /\ U \in ThreadShape
  <2>1. U = [T EXCEPT !.pid = c, !.stack = st]
    BY DEF c, st
  <2> QED BY <2>1, <1>1, <1>5, <1>6 DEF ThreadShape, PCs
<1>8. FormOK(ns, U)
  BY <1>1, <1>4, <1>7 DEF FormOK
<1>9. CallOK(U)
  BY <1>1, <1>7 DEF CallOK
<1>10. StackOK(ns, U)
  <2>1. ASSUME NEW i \in 1 .. Len(T.stack)
        PROVE  /\ st[i] \in DOMAIN ns /\ ns[st[i]].level > n.level
               /\ LowFence(ns, st[i]) <= LowFence(ns, T.pid)
               /\ ns[st[i]].level \in Nat /\ LowFence(ns, st[i]) \in Nat
               /\ \A j \in 1 .. i - 1 :
                    /\ ns[st[i]].level < ns[st[j]].level
                    /\ LowFence(ns, st[j]) <= LowFence(ns, st[i])
    <3>1. /\ T.stack[i] \in DOMAIN ns /\ ns[T.stack[i]].level > n.level
          /\ LowFence(ns, T.stack[i]) <= LowFence(ns, T.pid)
          /\ \A j \in 1 .. i - 1 :
               /\ ns[T.stack[i]].level < ns[T.stack[j]].level
               /\ LowFence(ns, T.stack[j]) <= LowFence(ns, T.stack[i])
      <4>1. i \in DOMAIN T.stack
        BY <1>6
      <4>2. ns[T.stack[i]].level \in Nat /\ T.stack[i] \in DOMAIN ns
        BY <1>1, <4>1, NodeFacts DEF StackOK
      <4> QED BY <1>1, <1>2, <4>1, <4>2 DEF StackOK
    <3>2. \A j \in 1 .. i - 1 : st[j] = T.stack[j]
      BY <1>6
    <3>3. st[i] = T.stack[i]
      BY <1>6
    <3>4. ns[T.stack[i]].level \in Nat /\ LowFence(ns, T.stack[i]) \in Nat
      BY <3>1, <1>1, NodeFacts, LowFenceType
    <3> QED BY <3>1, <3>2, <3>3, <3>4
  <2>2. ASSUME NEW i \in 1 .. Len(st)
        PROVE  /\ st[i] \in DOMAIN ns
               /\ \A j \in 1 .. i - 1 :
                    /\ ns[st[i]].level < ns[st[j]].level
                    /\ LowFence(ns, st[j]) <= LowFence(ns, st[i])
               /\ ns[c].level < ns[st[i]].level
               /\ LowFence(ns, st[i]) <= LowFence(ns, c)
    <3>1. CASE i \in 1 .. Len(T.stack)
      <4>1. /\ st[i] \in DOMAIN ns /\ ns[st[i]].level > n.level
            /\ LowFence(ns, st[i]) <= LowFence(ns, T.pid)
            /\ ns[st[i]].level \in Nat /\ LowFence(ns, st[i]) \in Nat
        BY <3>1, <2>1
      <4>2. ns[c].level < ns[st[i]].level
        <5>1. n.level \in Nat /\ ns[c].level = n.level - 1
          BY <1>2, <1>4
        <5> HIDE DEF n
        <5> QED BY <4>1, <5>1
      <4>3. LowFence(ns, st[i]) <= LowFence(ns, c)
        <5>1. LowFence(ns, T.pid) \in Nat
          BY <1>1, LowFenceType
        <5> QED BY <4>1, <5>1, <1>4, <1>5
      <4> QED BY <3>1, <4>1, <4>2, <4>3, <2>1
    <3>2. CASE i = Len(T.stack) + 1
      <4>1. st[i] = T.pid
        BY <3>2, <1>6
      <4>2. \A j \in 1 .. i - 1 : j \in 1 .. Len(T.stack)
        BY <3>2, <1>6
      <4> QED BY <4>1, <4>2, <2>1, <1>1, <1>2, <1>4
    <3> QED BY <3>1, <3>2, <1>6
  <2> QED BY <2>2, <1>6, <1>7 DEF StackOK
<1>11. PlaceOK(ns, U)
  BY <1>1, <1>2, <1>4, <1>7 DEF PlaceOK
<1>12. CarriedOK(ns, U) /\ InsertOK(ns, l, t, U) /\ LatchesOK(l, t, U)
  BY <1>1, <1>7 DEF CarriedOK, InsertOK, LatchesOK
<1> QED BY <1>8, <1>9, <1>10, <1>11, <1>12 DEF ThreadOK

\* WriteLatch and Crab: one more latch.
LEMMA LatchKeeps ==
  ASSUME NEW ns, NEW r, PagesOK(ns, r), NEW l, NEW m, NEW t, NEW T,
         ThreadOK(ns, l, t, T), T.pc \in {"latch", "crab"},
         m[T.pid] = t, \A p \in DOMAIN ns : l[p] = t => m[p] = t, NEW pc,
         pc = IF T.pc = "latch" THEN "right" ELSE "check",
         NEW U, U = [T EXCEPT !.pc = pc]
  PROVE  ThreadOK(ns, m, t, U)
<1>1. /\ FormOK(ns, T) /\ CallOK(T) /\ StackOK(ns, T) /\ PlaceOK(ns, T)
      /\ CarriedOK(ns, T) /\ InsertOK(ns, l, t, T) /\ T \in ThreadShape
      /\ T.pid \in DOMAIN ns
  BY DEF ThreadOK, FormOK
<1>2. /\ U.pc = pc /\ U.op = T.op /\ U.pid = T.pid /\ U.stack = T.stack
      /\ U.key = T.key /\ U.child = T.child /\ U.level = T.level /\ U.ins = T.ins
      /\ U \in ThreadShape
  BY <1>1 DEF ThreadShape, PCs
<1>3. FormOK(ns, U) /\ CallOK(U) /\ LatchesOK(m, t, U)
  BY <1>1, <1>2 DEF FormOK, CallOK, LatchesOK
<1>4. StackOK(ns, U)
  BY <1>1, <1>2 DEF StackOK
<1>5. PlaceOK(ns, U) /\ CarriedOK(ns, U)
  BY <1>1, <1>2 DEF PlaceOK, CarriedOK
<1>6. InsertOK(ns, m, t, U)
  BY <1>1, <1>2 DEF InsertOK
<1> QED BY <1>3, <1>4, <1>5, <1>6 DEF ThreadOK

\* GetCollect and the end of the chain.
LEMMA CollectKeeps ==
  ASSUME NEW ns, NEW l, NEW t, NEW T, ThreadOK(ns, l, t, T), T.pc \in {"get", "next"},
         NEW pc \in {"next", "returned"}, NEW F \in SUBSET Nat,
         NEW U, U = [T EXCEPT !.pc = pc, !.found = F]
  PROVE  ThreadOK(ns, l, t, U)
<1>1. /\ FormOK(ns, T) /\ CallOK(T) /\ StackOK(ns, T) /\ PlaceOK(ns, T)
      /\ CarriedOK(ns, T) /\ InsertOK(ns, l, t, T) /\ T \in ThreadShape
  BY DEF ThreadOK, FormOK
<1>2. /\ U.pc = pc /\ U.op = T.op /\ U.pid = T.pid /\ U.stack = T.stack
      /\ U.key = T.key /\ U.child = T.child /\ U.level = T.level /\ U.ins = T.ins
      /\ U \in ThreadShape
  BY <1>1 DEF ThreadShape, PCs
<1>3. FormOK(ns, U) /\ CallOK(U) /\ LatchesOK(l, t, U)
  BY <1>1, <1>2 DEF FormOK, CallOK, LatchesOK
<1>4. StackOK(ns, U)
  BY <1>1, <1>2 DEF StackOK
<1>5. PlaceOK(ns, U) /\ CarriedOK(ns, U)
  BY <1>1, <1>2 DEF PlaceOK, CarriedOK
<1>6. InsertOK(ns, l, t, U)
  BY <1>1, <1>2 DEF InsertOK
<1> QED BY <1>3, <1>4, <1>5, <1>6 DEF ThreadOK

\* NotRoot: the level above the split node is looked for.
LEMMA NotRootKeeps ==
  ASSUME NEW ns, NEW r, PagesOK(ns, r), NEW l, NEW t, NEW T, ThreadOK(ns, l, t, T),
         T.pc = "root",
         NEW U, U = [T EXCEPT !.pc = "redrop", !.level = ns[T.pid].level + 1]
  PROVE  ThreadOK(ns, l, t, U)
<1>1. /\ FormOK(ns, T) /\ CallOK(T) /\ StackOK(ns, T) /\ PlaceOK(ns, T)
      /\ CarriedOK(ns, T) /\ InsertOK(ns, l, t, T) /\ T \in ThreadShape
      /\ T.pid \in DOMAIN ns /\ NodesOK(ns)
  BY DEF ThreadOK, FormOK, PagesOK
<1>2. ns[T.pid].level + 1 \in Nat
  BY <1>1, NodeFacts
<1>3. /\ U.pc = "redrop" /\ U.op = T.op /\ U.pid = T.pid /\ U.stack = T.stack
      /\ U.key = T.key /\ U.child = T.child /\ U.level = ns[T.pid].level + 1
      /\ U.ins = T.ins /\ U \in ThreadShape
  BY <1>1, <1>2 DEF ThreadShape, PCs
<1>4. FormOK(ns, U) /\ CallOK(U) /\ LatchesOK(l, t, U)
  BY <1>1, <1>3 DEF FormOK, CallOK, LatchesOK
<1>5. StackOK(ns, U)
  BY <1>1, <1>3 DEF StackOK
<1>6. PlaceOK(ns, U) /\ CarriedOK(ns, U) /\ InsertOK(ns, l, t, U)
  BY <1>1, <1>3 DEF PlaceOK, CarriedOK, InsertOK, CallOK
<1> QED BY <1>4, <1>5, <1>6 DEF ThreadOK

\* Redrop: from the root again, which is at most one level too low.
LEMMA RedropKeeps ==
  ASSUME NEW ns, NEW r, PagesOK(ns, r), NEW l, NEW t, NEW T, ThreadOK(ns, l, t, T),
         T.pc = "redrop", NEW U, U = [T EXCEPT !.pc = "drop", !.pid = r]
  PROVE  ThreadOK(ns, l, t, U)
<1>1. /\ FormOK(ns, T) /\ CallOK(T) /\ StackOK(ns, T) /\ PlaceOK(ns, T)
      /\ CarriedOK(ns, T) /\ InsertOK(ns, l, t, T) /\ T \in ThreadShape
      /\ NodesOK(ns) /\ Top(ns, r)
  BY DEF ThreadOK, FormOK, PagesOK
<1>2. r \in DOMAIN ns /\ r \in Nat /\ ns[r].level \in Nat /\ LowFence(ns, r) = 0
      /\ T.key \in Nat
  BY <1>1, NodeFacts, LowFenceLeftmost, ThreadFacts DEF Top
<1>3. /\ U.pc = "drop" /\ U.op = T.op /\ U.pid = r /\ U.stack = T.stack
      /\ U.key = T.key /\ U.child = T.child /\ U.level = T.level
      /\ U.ins = T.ins /\ U \in ThreadShape
  BY <1>1, <1>2 DEF ThreadShape, PCs
<1>4. FormOK(ns, U) /\ CallOK(U) /\ LatchesOK(l, t, U)
  BY <1>1, <1>2, <1>3 DEF FormOK, CallOK, LatchesOK
<1>5. T.child \in DOMAIN ns /\ T.child # NoPage /\ T.level = ns[T.child].level + 1
  BY <1>1 DEF CallOK, CarriedOK
<1>6. ns[T.child].level <= ns[r].level /\ ns[T.child].level \in Nat
  BY <1>1, <1>5, NodeFacts DEF Top
<1>7. StackOK(ns, U)
  <2>1. DOMAIN U.stack = {}
    BY <1>1, <1>3 DEF StackOK
  <2> QED BY <1>1, <1>3, <2>1 DEF StackOK
<1>8. PlaceOK(ns, U)
  BY <1>2, <1>3, <1>5, <1>6 DEF PlaceOK
<1>9. CarriedOK(ns, U) /\ InsertOK(ns, l, t, U)
  BY <1>1, <1>3, <1>5 DEF CarriedOK, InsertOK
<1> QED BY <1>4, <1>7, <1>8, <1>9 DEF ThreadOK

\* InsertUnique at a leaf: the fence is above all keys below the prefix, and
\* the leaf to insert into, once found, is latched and covers the key.
LEMMA CheckFacts ==
  ASSUME NEW ns, NEW r, PagesOK(ns, r), NEW l, NEW t, NEW T, ThreadOK(ns, l, t, T),
         T.op.kind = "InsertUnique", T.child = NoPage,
         (T.pc = "right" /\ ~HasSplit(ns[T.pid], T.key)) \/ T.pc = "check",
         NEW ins, ins = IF T.ins = NoPage /\ ~HasSplit(ns[T.pid], T.op.key)
                        THEN T.pid ELSE T.ins
  PROVE  /\ ns[T.pid].high # NoKey => Low(T.op.key) < ns[T.pid].high
         /\ ns[T.pid].level = 0 /\ l[T.pid] = t
         /\ ins = NoPage => HasSplit(ns[T.pid], T.op.key)
         /\ ins # NoPage =>
              /\ ins \in DOMAIN ns /\ ns[ins].level = 0 /\ l[ins] = t
              /\ Covers(ns, ins, T.op.key)
              /\ \A i \in DOMAIN T.stack :
                   LowFence(ns, T.stack[i]) <= LowFence(ns, ins)
<1> DEFINE n == ns[T.pid]
           k == T.op.key
<1>1. /\ FormOK(ns, T) /\ CallOK(T) /\ StackOK(ns, T) /\ PlaceOK(ns, T)
      /\ InsertOK(ns, l, t, T) /\ LatchesOK(l, t, T) /\ T \in ThreadShape
      /\ NodesOK(ns) /\ Fenced(ns) /\ T.pid \in DOMAIN ns
  BY DEF ThreadOK, FormOK, PagesOK
<1>2. /\ n.high \in Nat /\ LowFence(ns, T.pid) \in Nat /\ k \in Nat /\ T.pid # NoPage
      /\ Low(k) \in Nat /\ Low(k) <= k
  BY <1>1, NodeFacts, LowFenceType, ThreadFacts, KeyParts
<1>3. n.level = 0 /\ l[T.pid] = t
  BY <1>1 DEF PlaceOK, LatchesOK
<1>4. CASE T.pc = "right" /\ ~HasSplit(n, T.key)
  <2>1. T.key = Low(k) /\ T.ins = NoPage /\ LowFence(ns, T.pid) <= Low(k)
    BY <1>1, <1>4 DEF CallOK, InsertOK, PlaceOK
  <2>2. n.high # NoKey => Low(k) < n.high
    BY <1>2, <1>4, <2>1 DEF HasSplit
  <2>3. CASE HasSplit(n, k)
    BY <1>3, <2>1, <2>2, <2>3
  <2>4. CASE ~HasSplit(n, k)
    <3>1. ins = T.pid /\ Covers(ns, T.pid, k)
      BY <1>2, <2>1, <2>4 DEF HasSplit, Covers
    <3>2. \A i \in DOMAIN T.stack : LowFence(ns, T.stack[i]) <= LowFence(ns, T.pid)
      BY <1>1 DEF StackOK
    <3> QED BY <1>1, <1>2, <1>3, <2>2, <3>1, <3>2
  <2> QED BY <2>3, <2>4
<1>5. CASE T.pc = "check"
  <2>1. /\ T.key = k /\ Low(k) <= LowFence(ns, T.pid)
        /\ T.ins = NoPage => LowFence(ns, T.pid) <= k
        /\ T.ins # NoPage => T.ins \in DOMAIN ns /\ ns[T.ins].level = 0 /\ l[T.ins] = t
                             /\ Covers(ns, T.ins, k)
    BY <1>1, <1>5 DEF CallOK, InsertOK
  <2>2. n.high # NoKey => Low(k) < n.high
    BY <1>1, <1>2, <2>1 DEF Fenced
  <2>3. CASE T.ins = NoPage /\ HasSplit(n, k)
    BY <1>3, <2>2, <2>3
  <2>4. CASE T.ins = NoPage /\ ~HasSplit(n, k)
    <3>1. ins = T.pid /\ Covers(ns, T.pid, k)
      BY <1>2, <2>1, <2>4 DEF HasSplit, Covers
    <3>2. \A i \in DOMAIN T.stack : LowFence(ns, T.stack[i]) <= LowFence(ns, T.pid)
      BY <1>1 DEF StackOK
    <3> QED BY <1>1, <1>2, <1>3, <2>2, <3>1, <3>2
  <2>5. CASE T.ins # NoPage
    <3>1. ins = T.ins
      BY <2>5
    <3>2. \A i \in DOMAIN T.stack : LowFence(ns, T.stack[i]) <= LowFence(ns, T.ins)
      BY <1>1, <1>5, <2>5 DEF StackOK
    <3> QED BY <1>3, <2>1, <2>2, <2>5, <3>1, <3>2
  <2> QED BY <2>3, <2>4, <2>5
<1> QED BY <1>4, <1>5

\* Popping the stack (TlState).
LEMMA FrontFacts ==
  ASSUME NEW s \in Seq(Nat), s # <<>>
  PROVE  /\ Front(s) \in Seq(Nat) /\ DOMAIN Front(s) = 1 .. Len(s) - 1
         /\ \A i \in 1 .. Len(s) - 1 : Front(s)[i] = s[i]
         /\ Len(s) \in Nat /\ Len(s) > 0 /\ DOMAIN s = 1 .. Len(s)
         /\ Last(s) = s[Len(s)] /\ Last(s) \in Nat
<1> DEFINE d == Len(s)
           f == SubSeq(s, 1, d - 1)
<1>1. d \in Nat /\ d > 0 /\ DOMAIN s = 1 .. d /\ \A i \in 1 .. d - 1 : s[i] \in Nat
  OBVIOUS
<1>2. /\ f \in Seq(Nat)
      /\ Len(f) = IF 1 <= d - 1 THEN (d - 1) - 1 + 1 ELSE 0
      /\ \A i \in 1 .. (d - 1) - 1 + 1 : f[i] = s[1 + i - 1]
  BY <1>1, SubSeqProperties
<1> HIDE DEF f
<1>3. Len(f) = d - 1
  <2>1. d = 1 \/ 1 <= d - 1
    BY <1>1
  <2>2. (d - 1) - 1 + 1 = d - 1
    BY <1>1
  <2> HIDE DEF d
  <2>3. CASE d = 1
    BY <1>2, <2>3
  <2>4. CASE 1 <= d - 1
    BY <1>2, <2>2, <2>4
  <2> QED BY <2>1, <2>3, <2>4
<1>4. DOMAIN f = 1 .. d - 1
  BY <1>2, <1>3
<1>5. ASSUME NEW i \in 1 .. d - 1 PROVE f[i] = s[i]
  <2>1. (d - 1) - 1 + 1 = d - 1 /\ 1 + i - 1 = i
    BY <1>1
  <2> QED BY <1>2, <2>1
<1> QED BY <1>1, <1>2, <1>4, <1>5 DEF Front, Last, f

\* InsertUnique goes on to the right sibling of the leaf it has checked.
LEMMA CrabRightKeeps ==
  ASSUME NEW ns, NEW r, PagesOK(ns, r), NEW l, NEW t, NEW T, ThreadOK(ns, l, t, T),
         T.op.kind = "InsertUnique", T.child = NoPage,
         (T.pc = "right" /\ ~HasSplit(ns[T.pid], T.key)) \/ T.pc = "check",
         NEW ins, ins = IF T.ins = NoPage /\ ~HasSplit(ns[T.pid], T.op.key)
                        THEN T.pid ELSE T.ins,
         HighPrefixCmp(ns[T.pid], T.op.key),
         NEW U, U = [T EXCEPT !.pc = "crab", !.ins = ins, !.key = T.op.key,
                              !.pid = ns[T.pid].rlink]
  PROVE  ThreadOK(ns, l, t, U)
<1> DEFINE n == ns[T.pid]
           k == T.op.key
           q == n.rlink
<1>1. /\ FormOK(ns, T) /\ CallOK(T) /\ StackOK(ns, T) /\ PlaceOK(ns, T)
      /\ T \in ThreadShape /\ NodesOK(ns) /\ Fenced(ns) /\ Linked(ns)
      /\ T.pid \in DOMAIN ns
  BY DEF ThreadOK, FormOK, PagesOK
<1>2. /\ n.high # NoKey => Low(k) < n.high
      /\ n.level = 0
      /\ ins = NoPage => HasSplit(n, k)
      /\ ins # NoPage =>
           /\ ins \in DOMAIN ns /\ ns[ins].level = 0 /\ l[ins] = t
           /\ Covers(ns, ins, k)
           /\ \A i \in DOMAIN T.stack : LowFence(ns, T.stack[i]) <= LowFence(ns, ins)
  BY CheckFacts
<1>3. n.high # NoKey
  BY DEF HighPrefixCmp
<1>4. q \in DOMAIN ns /\ ns[q].level = 0 /\ LowFence(ns, q) = n.high
  BY <1>1, <1>2, <1>3, LowFenceOfRight DEF Linked
<1>5. /\ q \in Nat /\ k \in Nat /\ n.high \in Nat /\ LowFence(ns, T.pid) \in Nat
      /\ T.ins \in Nat /\ T.pid \in Nat /\ Low(k) \in Nat
  BY <1>1, <1>4, NodeFacts, ThreadFacts, LowFenceType, KeyParts
<1>6. ins \in Nat
  BY <1>5
<1> HIDE DEF q
<1>7. /\ U.pc = "crab" /\ U.op = T.op /\ U.pid = q /\ U.stack = T.stack
      /\ U.key = k /\ U.child = NoPage /\ U.level = T.level /\ U.ins = ins
      /\ U \in ThreadShape
  <2>1. U = [T EXCEPT !.pc = "crab", !.ins = ins, !.key = k, !.pid = q]
    BY DEF q
  <2> QED BY <2>1, <1>1, <1>5, <1>6 DEF ThreadShape, PCs
<1>8. FormOK(ns, U) /\ CallOK(U) /\ LatchesOK(l, t, U)
  BY <1>1, <1>4, <1>7 DEF FormOK, CallOK, LatchesOK
<1>9. StackOK(ns, U)
  <2>1. ASSUME NEW i \in DOMAIN T.stack
        PROVE  LowFence(ns, T.stack[i]) <= LowFence(ns, q)
    <3>1. LowFence(ns, T.stack[i]) <= LowFence(ns, T.pid)
      BY <1>1 DEF StackOK
    <3>2. LowFence(ns, T.stack[i]) \in Nat /\ LowFence(ns, T.pid) < n.high
      BY <1>1, <1>3, LowFenceType DEF Fenced
    <3> QED BY <3>1, <3>2, <1>4, <1>5
  <2> QED BY <2>1, <1>1, <1>2, <1>4, <1>7 DEF StackOK
<1>10. PlaceOK(ns, U) /\ CarriedOK(ns, U)
  BY <1>4, <1>7 DEF PlaceOK, CarriedOK
<1>11. InsertOK(ns, l, t, U)
  <2>1. ins = NoPage => LowFence(ns, q) <= k
    BY <1>2, <1>4 DEF HasSplit
  <2>2. Low(k) <= LowFence(ns, q)
    BY <1>2, <1>3, <1>4, <1>5
  <2> QED BY <2>1, <2>2, <1>2, <1>7 DEF InsertOK
<1> QED BY <1>8, <1>9, <1>10, <1>11 DEF ThreadOK

\* InsertUnique has checked the last leaf: one of those it holds is the leaf
\* the entry belongs to (insert_page is set).
LEMMA LastLeafKeeps ==
  ASSUME NEW ns, NEW r, PagesOK(ns, r), NEW l, NEW t, NEW T, ThreadOK(ns, l, t, T),
         T.op.kind = "InsertUnique", T.child = NoPage,
         (T.pc = "right" /\ ~HasSplit(ns[T.pid], T.key)) \/ T.pc = "check",
         NEW ins, ins = IF T.ins = NoPage /\ ~HasSplit(ns[T.pid], T.op.key)
                        THEN T.pid ELSE T.ins,
         ~HighPrefixCmp(ns[T.pid], T.op.key),
         NEW U, U = [T EXCEPT !.pc = "put", !.pid = ins, !.key = T.op.key]
  PROVE  ThreadOK(ns, l, t, U)
<1> DEFINE n == ns[T.pid]
           k == T.op.key
<1>1. /\ FormOK(ns, T) /\ CallOK(T) /\ StackOK(ns, T) /\ PlaceOK(ns, T)
      /\ T \in ThreadShape /\ NodesOK(ns) /\ Fenced(ns) /\ Linked(ns)
      /\ T.pid \in DOMAIN ns
  BY DEF ThreadOK, FormOK, PagesOK
<1>2. /\ n.high # NoKey => Low(k) < n.high
      /\ n.level = 0
      /\ ins = NoPage => HasSplit(n, k)
      /\ ins # NoPage =>
           /\ ins \in DOMAIN ns /\ ns[ins].level = 0 /\ l[ins] = t
           /\ Covers(ns, ins, k)
           /\ \A i \in DOMAIN T.stack : LowFence(ns, T.stack[i]) <= LowFence(ns, ins)
  BY CheckFacts
<1>3. /\ k \in Nat /\ n.high \in Nat /\ T.ins \in Nat /\ T.pid \in Nat /\ Low(k) \in Nat
  BY <1>1, NodeFacts, ThreadFacts, KeyParts
<1>4. ins # NoPage
  <2> SUFFICES ASSUME ins = NoPage PROVE FALSE
    OBVIOUS
  <2>1. n.high # NoKey /\ n.high <= k /\ Low(k) < n.high
    BY <1>2 DEF HasSplit
  <2>2. Prefix(Low(k)) = Prefix(k) /\ Low(k) <= n.high
    BY <1>3, <2>1, LowKey
  <2>3. Prefix(n.high) = Prefix(k)
    BY <1>3, <2>1, <2>2, PrefixBetween
  <2> QED BY <2>1, <2>3 DEF HighPrefixCmp
<1>5. ins \in Nat
  BY <1>3
<1>6. /\ U.pc = "put" /\ U.op = T.op /\ U.pid = ins /\ U.stack = T.stack
      /\ U.key = k /\ U.child = NoPage /\ U.level = T.level /\ U.ins = T.ins
      /\ U \in ThreadShape
  BY <1>1, <1>3, <1>5 DEF ThreadShape, PCs
<1>7. FormOK(ns, U) /\ CallOK(U) /\ LatchesOK(l, t, U)
  BY <1>1, <1>2, <1>4, <1>6 DEF FormOK, CallOK, LatchesOK
<1>8. StackOK(ns, U)
  BY <1>1, <1>2, <1>4, <1>6 DEF StackOK
<1>9. PlaceOK(ns, U) /\ CarriedOK(ns, U) /\ InsertOK(ns, l, t, U)
  BY <1>2, <1>4, <1>6 DEF PlaceOK, CarriedOK, InsertOK
<1> QED BY <1>7, <1>8, <1>9 DEF ThreadOK

\* After a split: the separator goes to the parent on the stack, or to a root.
LEMMA SplitThread ==
  ASSUME NEW ns, NEW r, PagesOK(ns, r), NEW l, NEW m, NEW t, NEW T,
         ThreadOK(ns, l, t, T), T.pc \in {"right", "put"},
         T.op.kind \in {"Insert", "InsertUnique"},
         Cardinality(ns[T.pid].slots) >= 2, NEW s, Fits(ns, T.pid, s),
         ns[T.pid].level = 0 => Sentinel(ns[T.pid]) \in Asked({"Insert", "InsertUnique"}),
         NEW freed \in BOOLEAN, NEW new, new = Len(ns) + 1, NEW U,
         \/ T.stack = <<>> /\ U = [T EXCEPT !.pc = "root", !.key = Sentinel(ns[T.pid]),
                                            !.child = new, !.freed = freed]
         \/ T.stack # <<>> /\ U = [T EXCEPT !.pc = "latch", !.key = Sentinel(ns[T.pid]),
                                            !.child = new, !.pid = Last(T.stack),
                                            !.stack = Front(T.stack)]
  PROVE  ThreadOK(SplitOf(ns, T.pid, s), m, t, U)
<1> DEFINE n == ns[T.pid]
           ms == SplitOf(ns, T.pid, s)
           S == Sentinel(n)
<1>1. /\ FormOK(ns, T) /\ CallOK(T) /\ StackOK(ns, T) /\ PlaceOK(ns, T)
      /\ T \in ThreadShape /\ NodesOK(ns) /\ Fenced(ns) /\ Linked(ns)
      /\ T.pid \in DOMAIN ns
  BY DEF ThreadOK, FormOK, PagesOK
<1>2. /\ S \in Nat /\ LowFence(ns, T.pid) < S /\ S # NoKey
      /\ LowFence(ns, T.pid) \in Nat /\ n.level \in Nat
  BY <1>1, SentinelInside, LowFenceType, NodeFacts
<1>3. Extends(ns, ms) /\ LowFence(ms, new) = S
  BY <1>1, SplitKeeps
<1>4. IsSplit(ns, T.pid, s, ms)
  <2>1. s \in [key : Nat, child : Nat]
    BY DEF Fits
  <2> QED BY <2>1, <1>1, SplitPages
<1> HIDE DEF ms
<1>5. /\ new \in DOMAIN ms /\ new \in Nat /\ new # NoPage /\ ms[new].level = n.level
      /\ ms[T.pid].level = n.level /\ T.pid \in DOMAIN ms
  BY <1>1, <1>4 DEF IsSplit
<1>6. \A p \in DOMAIN ns : /\ p \in DOMAIN ms /\ ms[p].level = ns[p].level
                           /\ LowFence(ms, p) = LowFence(ns, p)
  BY <1>3 DEF Extends
<1>7. T.op \in Calls
  BY <1>1 DEF FormOK
<1> HIDE DEF S
<1>8. CASE /\ T.stack = <<>>
           /\ U = [T EXCEPT !.pc = "root", !.key = S, !.child = new, !.freed = freed]
  <2>1. /\ U.pc = "root" /\ U.op = T.op /\ U.pid = T.pid /\ U.stack = <<>>
        /\ U.key = S /\ U.child = new /\ U \in ThreadShape
    BY <1>1, <1>2, <1>5, <1>8 DEF ThreadShape, PCs
  <2>2. FormOK(ms, U) /\ CallOK(U) /\ LatchesOK(m, t, U)
    BY <2>1, <1>5, <1>7 DEF FormOK, CallOK, LatchesOK
  <2>3. StackOK(ms, U) /\ PlaceOK(ms, U) /\ InsertOK(ms, m, t, U)
    BY <2>1, <1>5 DEF StackOK, PlaceOK, InsertOK
  <2>4. CarriedOK(ms, U)
    BY <2>1, <1>2, <1>3, <1>5 DEF CarriedOK, S, NoKey
  <2> QED BY <2>2, <2>3, <2>4 DEF ThreadOK, ms
<1>9. CASE /\ T.stack # <<>>
           /\ U = [T EXCEPT !.pc = "latch", !.key = S, !.child = new,
                            !.pid = Last(T.stack), !.stack = Front(T.stack)]
  <2> DEFINE p == Last(T.stack)
             st == Front(T.stack)
             d == Len(T.stack)
  <2>0. T.stack \in Seq(Nat)
    BY <1>1, ThreadFacts
  <2>1. /\ d \in Nat /\ d > 0 /\ DOMAIN T.stack = 1 .. d
        /\ p = T.stack[d] /\ d \in DOMAIN T.stack /\ p \in Nat
    BY <2>0, <1>9, FrontFacts
  <2>2. /\ st \in Seq(Nat) /\ DOMAIN st = 1 .. d - 1
        /\ \A i \in 1 .. d - 1 : st[i] = T.stack[i]
    BY <2>0, <1>9, FrontFacts
  <2> HIDE DEF p, st, d
  <2>3. /\ U.pc = "latch" /\ U.op = T.op /\ U.pid = p /\ U.stack = st
        /\ U.key = S /\ U.child = new /\ U \in ThreadShape
    <3>1. U = [T EXCEPT !.pc = "latch", !.key = S, !.child = new, !.pid = p, !.stack = st]
      BY <1>9 DEF p, st
    <3> QED BY <3>1, <1>1, <1>2, <1>5, <2>1, <2>2 DEF ThreadShape, PCs
  <2>4. /\ p \in DOMAIN ns /\ n.level < ns[p].level
        /\ LowFence(ns, p) <= LowFence(ns, T.pid)
        /\ \A j \in 1 .. d - 1 :
             ns[p].level < ns[T.stack[j]].level /\ LowFence(ns, T.stack[j]) <= LowFence(ns, p)
    BY <1>1, <2>1 DEF StackOK
  <2>5. LowFence(ns, p) \in Nat /\ ns[p].level \in Nat
    BY <1>1, <2>4, LowFenceType, NodeFacts
  <2>6. p \in DOMAIN ms /\ ms[p].level = ns[p].level /\ LowFence(ms, p) <= S
        /\ n.level <= ms[p].level
    BY <2>4, <2>5, <1>2, <1>6
  <2>7. FormOK(ms, U) /\ CallOK(U) /\ LatchesOK(m, t, U)
    BY <2>3, <2>6, <1>5, <1>7 DEF FormOK, CallOK, LatchesOK
  <2>8. StackOK(ms, U)
    <3>1. ASSUME NEW i \in 1 .. d - 1
          PROVE  /\ st[i] \in DOMAIN ns
                 /\ \A j \in 1 .. i - 1 :
                      /\ st[j] \in DOMAIN ns
                      /\ ns[st[i]].level < ns[st[j]].level
                      /\ LowFence(ns, st[j]) <= LowFence(ns, st[i])
                 /\ ns[p].level < ns[st[i]].level
                 /\ LowFence(ns, st[i]) <= LowFence(ns, p)
      <4>1. i \in DOMAIN T.stack /\ st[i] = T.stack[i]
        BY <2>1, <2>2
      <4>2. \A j \in 1 .. i - 1 : j \in 1 .. d - 1 /\ j \in DOMAIN T.stack
        BY <2>1
      <4>3. \A j \in 1 .. i - 1 : st[j] = T.stack[j]
        BY <4>2, <2>2
      <4> QED BY <4>1, <4>2, <4>3, <2>4, <1>1 DEF StackOK
    <3> QED BY <3>1, <2>2, <2>3, <2>4, <1>6 DEF StackOK
  <2>9. PlaceOK(ms, U) /\ InsertOK(ms, m, t, U)
    BY <2>3, <2>6, <1>5 DEF PlaceOK, InsertOK
  <2>10. CarriedOK(ms, U)
    BY <2>3, <1>2, <1>3, <1>5 DEF CarriedOK, S, NoKey
  <2> QED BY <2>7, <2>8, <2>9, <2>10 DEF ThreadOK, ms
<1> QED BY <1>8, <1>9 DEF S

-----------------------------------------------------------------------------
(* What a change does to the entries and to the parents.                   *)

\* Entries is the union of the leaves.
LEMMA EntriesInLeaf ==
  /\ \A k : k \in Entries <=> InLeaf(nodes, k)
  /\ \A k : k \in Entries' <=> InLeaf(nodes', k)
  BY DEF Entries, Leaves, Keys, InLeaf

\* An insert adds its entry when the page is a leaf, and its child.
LEMMA PutEntries ==
  ASSUME NEW ns, NEW p \in DOMAIN ns, NEW s, NEW ms, IsPut(ns, p, s, ms)
  PROVE  /\ \A k : InLeaf(ms, k) <=> InLeaf(ns, k) \/ (ns[p].level = 0 /\ k = s.key)
         /\ \A c : Hangs(ms, c) <=> Hangs(ns, c) \/ c = s.child
<1>1. /\ DOMAIN ms = DOMAIN ns /\ ms[p].slots = ns[p].slots \union {s}
      /\ \A q \in DOMAIN ns : ms[q].level = ns[q].level
      /\ \A q \in DOMAIN ns \ {p} : ms[q].slots = ns[q].slots
  BY DEF IsPut, SameLinks
<1>2. \A q \in DOMAIN ns : \A x : x \in ms[q].slots <=> x \in ns[q].slots \/ (q = p /\ x = s)
  BY <1>1
<1>3. ASSUME NEW k
      PROVE  InLeaf(ms, k) <=> InLeaf(ns, k) \/ (ns[p].level = 0 /\ k = s.key)
  BY <1>1, <1>2 DEF InLeaf
<1>4. ASSUME NEW c PROVE Hangs(ms, c) <=> Hangs(ns, c) \/ c = s.child
  BY <1>1, <1>2 DEF Hangs
<1> QED BY <1>3, <1>4

\* So does a split, and nothing else: no slot is lost or copied.
LEMMA SplitEntries ==
  ASSUME NEW ns, NEW p \in DOMAIN ns, NEW s, NEW ms, IsSplit(ns, p, s, ms),
         Lower(ns[p]) \subseteq ns[p].slots
  PROVE  /\ \A k : InLeaf(ms, k) <=> InLeaf(ns, k) \/ (ns[p].level = 0 /\ k = s.key)
         /\ \A c : Hangs(ms, c) <=> Hangs(ns, c) \/ c = s.child
<1> DEFINE new == Len(ns) + 1
           L == LeftSlots(ns[p], s)
           R == RightSlots(ns[p], s)
<1>1. /\ DOMAIN ms = DOMAIN ns \union {new} /\ new \notin DOMAIN ns
      /\ \A q \in DOMAIN ns \ {p} : ms[q] = ns[q]
      /\ ms[p].level = ns[p].level /\ ms[p].slots = L
      /\ ms[new].level = ns[p].level /\ ms[new].slots = R
  BY DEF IsSplit
<1>2. \A x : x \in L \/ x \in R <=> x \in ns[p].slots \/ x = s
  BY DEF LeftSlots, RightSlots
<1> HIDE DEF new, L, R
<1>3. ASSUME NEW k
      PROVE  InLeaf(ms, k) <=> InLeaf(ns, k) \/ (ns[p].level = 0 /\ k = s.key)
  <2>1. ASSUME InLeaf(ms, k)
        PROVE  InLeaf(ns, k) \/ (ns[p].level = 0 /\ k = s.key)
    <3>1. PICK q \in DOMAIN ms : ms[q].level = 0 /\ \E x \in ms[q].slots : x.key = k
      BY <2>1 DEF InLeaf
    <3>2. PICK x \in ms[q].slots : x.key = k
      BY <3>1
    <3>3. CASE q \in {p, new}
      BY <3>1, <3>2, <3>3, <1>1, <1>2 DEF InLeaf
    <3>4. CASE q \in DOMAIN ns \ {p}
      BY <3>1, <3>2, <3>4, <1>1 DEF InLeaf
    <3> QED BY <3>3, <3>4, <1>1
  <2>2. ASSUME InLeaf(ns, k) PROVE InLeaf(ms, k)
    <3>1. PICK q \in DOMAIN ns : ns[q].level = 0 /\ \E x \in ns[q].slots : x.key = k
      BY <2>2 DEF InLeaf
    <3>2. PICK x \in ns[q].slots : x.key = k
      BY <3>1
    <3>3. CASE q = p
      BY <3>1, <3>2, <3>3, <1>1, <1>2 DEF InLeaf
    <3>4. CASE q # p
      BY <3>1, <3>2, <3>4, <1>1 DEF InLeaf
    <3> QED BY <3>3, <3>4
  <2>3. ASSUME ns[p].level = 0, k = s.key PROVE InLeaf(ms, k)
    BY <2>3, <1>1, <1>2 DEF InLeaf
  <2> QED BY <2>1, <2>2, <2>3
<1>4. ASSUME NEW c PROVE Hangs(ms, c) <=> Hangs(ns, c) \/ c = s.child
  <2>1. ASSUME Hangs(ms, c) PROVE Hangs(ns, c) \/ c = s.child
    <3>1. PICK q \in DOMAIN ms : \E x \in ms[q].slots : x.child = c
      BY <2>1 DEF Hangs
    <3>2. CASE q \in {p, new}
      BY <3>1, <3>2, <1>1, <1>2 DEF Hangs
    <3>3. CASE q \in DOMAIN ns \ {p}
      BY <3>1, <3>3, <1>1 DEF Hangs
    <3> QED BY <3>2, <3>3, <1>1
  <2>2. ASSUME Hangs(ns, c) PROVE Hangs(ms, c)
    <3>1. PICK q \in DOMAIN ns : \E x \in ns[q].slots : x.child = c
      BY <2>2 DEF Hangs
    <3>2. CASE q = p
      BY <3>1, <3>2, <1>1, <1>2 DEF Hangs
    <3>3. CASE q # p
      BY <3>1, <3>3, <1>1 DEF Hangs
    <3> QED BY <3>2, <3>3
  <2>3. ASSUME c = s.child PROVE Hangs(ms, c)
    BY <2>3, <1>1, <1>2 DEF Hangs
  <2> QED BY <2>1, <2>2, <2>3
<1> QED BY <1>3, <1>4

\* A new root has no entry and becomes the parent of two pages.
LEMMA GrowEntries ==
  ASSUME NEW ns, NodesOK(ns), NEW r \in DOMAIN ns, NEW s, NEW ms, IsGrowth(ns, r, s, ms)
  PROVE  /\ \A k : InLeaf(ms, k) <=> InLeaf(ns, k)
         /\ \A c : Hangs(ms, c) <=> Hangs(ns, c) \/ c = s.child \/ c = r
<1> DEFINE new == Len(ns) + 1
<1>1. /\ DOMAIN ms = DOMAIN ns \union {new} /\ new \notin DOMAIN ns
      /\ \A q \in DOMAIN ns : ms[q] = ns[q]
      /\ ms[new].level = ns[r].level + 1 /\ ms[new].slots = {Slot(Empty, r), s}
  BY DEF IsGrowth
<1>2. ms[new].level # 0
  BY <1>1, NodeFacts
<1> HIDE DEF new
<1>3. ASSUME NEW k PROVE InLeaf(ms, k) <=> InLeaf(ns, k)
  BY <1>1, <1>2 DEF InLeaf
<1>4. ASSUME NEW c PROVE Hangs(ms, c) <=> Hangs(ns, c) \/ c = s.child \/ c = r
  <2>1. \A x : x \in ms[new].slots <=> x = s \/ x = Slot(Empty, r)
    BY <1>1
  <2>2. Slot(Empty, r).child = r
    BY DEF Slot
  <2> HIDE DEF Slot
  <2> QED BY <1>1, <2>1, <2>2 DEF Hangs
<1> QED BY <1>3, <1>4

\* A delete takes away its own key only, and no child.
LEMMA RemoveEntries ==
  ASSUME NEW ns, NEW p \in DOMAIN ns, NEW x, NEW ms, IsRemoved(ns, p, x, ms),
         \A s \in ns[p].slots : s.child = NoPage
  PROVE  /\ \A k : InLeaf(ms, k) => InLeaf(ns, k)
         /\ \A k : InLeaf(ns, k) /\ k # x => InLeaf(ms, k)
         /\ \A c : c # NoPage => (Hangs(ms, c) <=> Hangs(ns, c))
<1>1. /\ DOMAIN ms = DOMAIN ns
      /\ \A q \in DOMAIN ns : ms[q].level = ns[q].level
      /\ \A q \in DOMAIN ns \ {p} : ms[q].slots = ns[q].slots
  BY DEF IsRemoved, SameLinks
<1>2. \A y : y \in ms[p].slots <=> y \in ns[p].slots /\ y.key # x
  BY DEF IsRemoved
<1>3. ASSUME NEW k, InLeaf(ms, k) PROVE InLeaf(ns, k)
  BY <1>1, <1>2, <1>3 DEF InLeaf
<1>4. ASSUME NEW k, InLeaf(ns, k), k # x PROVE InLeaf(ms, k)
  BY <1>1, <1>2, <1>4 DEF InLeaf
<1>5. ASSUME NEW c, c # NoPage PROVE Hangs(ms, c) <=> Hangs(ns, c)
  BY <1>1, <1>2, <1>5 DEF Hangs
<1> QED BY <1>3, <1>4, <1>5

-----------------------------------------------------------------------------
(* The steps.                                                              *)

Consistent(ns) ==
  \A p \in DOMAIN ns : \A s \in ns[p].slots :
    s.child # NoPage => ns[s.child].level = ns[p].level - 1

\* What the invariant says of one thread.
LEMMA ThreadAt ==
  ASSUME TreeInv, NEW t \in Threads
  PROVE  /\ th[t] \in ThreadShape /\ ThreadOK(nodes, latch, t, th[t])
         /\ PagesOK(nodes, root) /\ NodesOK(nodes)
         /\ th[t].pc # "idle" => th[t].pid \in DOMAIN nodes /\ th[t].op \in Calls
<1>1. ThreadOK(nodes, latch, t, th[t]) /\ PagesOK(nodes, root)
  BY DEF TreeInv
<1>2. FormOK(nodes, th[t]) /\ NodesOK(nodes)
  BY <1>1 DEF ThreadOK, PagesOK
<1> QED BY <1>1, <1>2 DEF FormOK

\* A thread that may put its slot has latched the page whose interval the key
\* is in; an entry goes to a leaf and was asked for.
LEMMA PutSlot ==
  ASSUME TreeInv, NEW t \in Threads, MayPut(t)
  PROVE  /\ th[t].pc \in {"right", "put"} /\ th[t].pid \in DOMAIN nodes
         /\ th[t].op.kind \in {"Insert", "InsertUnique"} /\ th[t].op \in Calls
         /\ NewSlot(t) \in [key : Nat, child : Nat]
         /\ NewSlot(t).key = th[t].key /\ NewSlot(t).child = th[t].child
         /\ latch[th[t].pid] = t
         /\ Covers(nodes, th[t].pid, th[t].key)
         /\ th[t].child = NoPage => nodes[th[t].pid].level = 0 /\ th[t].key = th[t].op.key
         /\ th[t].child # NoPage =>
              /\ th[t].pc = "right" /\ th[t].child \in DOMAIN nodes
              /\ LowFence(nodes, th[t].child) = th[t].key
              /\ nodes[th[t].child].level <= nodes[th[t].pid].level
         /\ nodes[th[t].pid].level = 0 => th[t].key \in Asked({"Insert", "InsertUnique"})
<1> DEFINE T == th[t]
<1>1. T \in ThreadShape /\ ThreadOK(nodes, latch, t, T) /\ NodesOK(nodes)
  BY ThreadAt
<1>2. /\ FormOK(nodes, T) /\ CallOK(T) /\ PlaceOK(nodes, T) /\ CarriedOK(nodes, T)
      /\ InsertOK(nodes, latch, t, T) /\ LatchesOK(latch, t, T)
  BY <1>1 DEF ThreadOK
<1>3. \/ T.pc = "put"
      \/ /\ T.pc = "right" /\ ~HasSplit(nodes[T.pid], T.key)
         /\ T.op.kind = "Insert" \/ T.child # NoPage
  BY DEF MayPut, Reached, At, Node
<1>4. /\ NewSlot(t) \in [key : Nat, child : Nat]
      /\ NewSlot(t).key = T.key /\ NewSlot(t).child = T.child
  BY <1>1, ThreadFacts DEF NewSlot, Slot
<1>5. /\ T.pc # "idle" /\ T.pid \in DOMAIN nodes /\ T.op \in Calls
      /\ T.op.kind \in {"Insert", "InsertUnique"} /\ latch[T.pid] = t
      /\ T.pc = "put" => T.child = NoPage
  BY <1>2, <1>3 DEF FormOK, CallOK, LatchesOK
<1>6. Covers(nodes, T.pid, T.key)
  <2>1. CASE T.pc = "put"
    BY <2>1, <1>2 DEF InsertOK
  <2>2. CASE T.pc = "right"
    <3>1. LowFence(nodes, T.pid) <= T.key
      BY <2>2, <1>2 DEF PlaceOK
    <3>2. ~HasSplit(nodes[T.pid], T.key)
      BY <2>2, <1>3
    <3>3. nodes[T.pid].high \in Nat /\ T.key \in Nat
      BY <1>1, <1>5, NodeFacts, ThreadFacts
    <3> QED BY <3>1, <3>2, <3>3 DEF HasSplit, Covers
  <2> QED BY <1>3, <2>1, <2>2
<1>7. T.child = NoPage => nodes[T.pid].level = 0 /\ T.key = T.op.key
  BY <1>2, <1>3, <1>5 DEF PlaceOK, CallOK
<1>8. T.child # NoPage =>
        /\ T.pc = "right" /\ T.child \in DOMAIN nodes
        /\ LowFence(nodes, T.child) = T.key
        /\ nodes[T.child].level <= nodes[T.pid].level
        /\ nodes[T.child].level = 0 => T.key \in Asked({"Insert", "InsertUnique"})
  BY <1>2, <1>3, <1>5 DEF PlaceOK, CarriedOK
<1>9. ASSUME nodes[T.pid].level = 0 PROVE T.key \in Asked({"Insert", "InsertUnique"})
  <2>1. CASE T.child = NoPage
    BY <2>1, <1>5, <1>7 DEF Asked
  <2>2. CASE T.child # NoPage
    <3>1. nodes[T.child].level \in Nat
      BY <2>2, <1>1, <1>8, NodeFacts
    <3>2. nodes[T.child].level = 0
      BY <2>2, <1>8, <1>9, <3>1
    <3> QED BY <2>2, <1>8, <3>2
  <2> QED BY <2>1, <2>2
<1> HIDE DEF T
<1> QED BY <1>3, <1>4, <1>5, <1>6, <1>7, <1>8, <1>9 DEF T

\* The slot fits when the step leaves the levels consistent.
LEMMA PutFits ==
  ASSUME TreeInv, NEW t \in Threads, MayPut(t), NEW ms, Consistent(ms),
         \/ IsPut(nodes, th[t].pid, NewSlot(t), ms)
         \/ IsSplit(nodes, th[t].pid, NewSlot(t), ms)
  PROVE  Fits(nodes, th[t].pid, NewSlot(t))
<1> DEFINE p == th[t].pid
           c == th[t].child
           s == NewSlot(t)
<1>1. /\ p \in DOMAIN nodes /\ s \in [key : Nat, child : Nat]
      /\ s.key = th[t].key /\ s.child = c
      /\ Covers(nodes, p, th[t].key)
      /\ c = NoPage => nodes[p].level = 0
      /\ c # NoPage => c \in DOMAIN nodes /\ LowFence(nodes, c) = th[t].key
  BY PutSlot
<1>2. NodesOK(nodes)
  BY ThreadAt
<1> HIDE DEF p, c, s
<1>3. ASSUME c # NoPage PROVE nodes[c].level = nodes[p].level - 1
  <2>1. CASE IsPut(nodes, p, s, ms)
    <3>1. /\ DOMAIN ms = DOMAIN nodes /\ s \in ms[p].slots
          /\ ms[c].level = nodes[c].level /\ ms[p].level = nodes[p].level
      BY <2>1, <1>1, <1>3 DEF IsPut, SameLinks
    <3> QED BY <3>1, <1>1, <1>3 DEF Consistent
  <2>2. CASE IsSplit(nodes, p, s, ms)
    <3> DEFINE new == Len(nodes) + 1
    <3>1. /\ DOMAIN ms = DOMAIN nodes \union {new}
          /\ ms[c].level = nodes[c].level
          /\ ms[p].level = nodes[p].level /\ ms[new].level = nodes[p].level
          /\ ms[p].slots = LeftSlots(nodes[p], s) /\ ms[new].slots = RightSlots(nodes[p], s)
      BY <2>2, <1>1, <1>3 DEF IsSplit
    <3> HIDE DEF new
    <3>2. s \in ms[p].slots \/ s \in ms[new].slots
      BY <3>1 DEF LeftSlots, RightSlots
    <3> QED BY <3>1, <3>2, <1>1, <1>3 DEF Consistent
  <2> QED BY <2>1, <2>2 DEF p, s
<1>4. ASSUME nodes[p].level = 0 PROVE c = NoPage
  <2>1. c # NoPage => nodes[c].level \in Nat
    BY <1>1, <1>2, NodeFacts
  <2> QED BY <2>1, <1>3, <1>4
<1>5. nodes[p].level > 0 => c # NoPage
  BY <1>1
<1> QED BY <1>1, <1>3, <1>4, <1>5 DEF Fits, p, s

\* Latches of other threads stay: a latch is only taken when it is free, and a
\* thread only releases its own.
LEMMA LatchStep ==
  ASSUME TreeInv, NEW t \in Threads, Step(t)
  PROVE  /\ latch' \in [1 .. MaxPages -> Threads \union {None}]
         /\ \A p \in DOMAIN nodes : p \in DOMAIN latch
         /\ \A u \in Threads \ {t} : \A p \in DOMAIN latch : latch[p] = u => latch'[p] = u
<1>1. latch \in [1 .. MaxPages -> Threads \union {None}] /\ Len(nodes) <= MaxPages
  BY DEF TreeInv, ShapeOK
<1>2. \A p \in DOMAIN nodes : p \in 1 .. MaxPages
  <2> TAKE p \in DOMAIN nodes
  <2>1. p \in 1 .. Len(nodes) /\ Len(nodes) \in Nat
    BY ThreadAt, NodeFacts
  <2>2. MaxPages \in Nat
    BY BLinkTreeAssumption
  <2> QED BY <2>1, <2>2, <1>1
<1>3. None \notin Threads
  BY BLinkTreeAssumption
<1>4. \/ UNCHANGED latch
      \/ Unlatched(t)
      \/ latch[th[t].pid] = None /\ Latched(t, th[t].pid)
  BY DEF Step, Begin, Arrive, DropRight, DropDown, WriteLatch, GoRight, CheckUnique,
         KeepLatches, Crab, Insert, Split, CreateNewRoot, NotRoot, Redrop, Delete,
         GetRight, GetCollect, GetNext, GetReturn
<1>5. CASE UNCHANGED latch
  BY <1>1, <1>2, <1>5
<1>6. CASE Unlatched(t)
  BY <1>1, <1>2, <1>3, <1>6 DEF Unlatched
<1>7. CASE latch[th[t].pid] = None /\ Latched(t, th[t].pid)
  BY <1>1, <1>2, <1>3, <1>7 DEF Latched
<1> QED BY <1>4, <1>5, <1>6, <1>7

\* The five things a step can do to the pages.
LEMMA PageKinds ==
  ASSUME NEW t \in Threads, Step(t)
  PROVE  \/ nodes' = nodes /\ root' = root
         \/ Insert(t) \/ Split(t) \/ CreateNewRoot(t) \/ Delete(t)
  BY DEF Step, Begin, Arrive, DropRight, DropDown, WriteLatch, GoRight, CheckUnique,
         Crab, NotRoot, Redrop, GetRight, GetCollect, GetNext, GetReturn

\* Insert, seen from the pages.
LEMMA InsertPages ==
  ASSUME TreeInv, NEW t \in Threads, Insert(t)
  PROVE  /\ MayPut(t) /\ root' = root
         /\ nodes' = PutOf(nodes, th[t].pid, NewSlot(t))
         /\ IsPut(nodes, th[t].pid, NewSlot(t), nodes')
<1>1. MayPut(t) /\ root' = root /\ nodes' = PutOf(nodes, th[t].pid, NewSlot(t))
  BY DEF Insert, PutOf
<1>2. /\ th[t].pid \in DOMAIN nodes /\ NewSlot(t) \in [key : Nat, child : Nat]
      /\ NodesOK(nodes)
  BY <1>1, PutSlot, ThreadAt
<1> QED BY <1>1, <1>2, PutPages

\* Split, seen from the pages.
LEMMA SplitOfPages ==
  ASSUME TreeInv, NEW t \in Threads, Split(t)
  PROVE  /\ MayPut(t) /\ root' = root /\ Len(nodes) < MaxPages
         /\ Cardinality(nodes[th[t].pid].slots) >= 2
         /\ nodes' = SplitOf(nodes, th[t].pid, NewSlot(t))
         /\ IsSplit(nodes, th[t].pid, NewSlot(t), nodes')
<1>1. /\ MayPut(t) /\ root' = root /\ Len(nodes) < MaxPages
      /\ Cardinality(nodes[th[t].pid].slots) >= 2
      /\ nodes' = SplitOf(nodes, th[t].pid, NewSlot(t))
  BY DEF Split, SplitOf, Node
<1>2. /\ th[t].pid \in DOMAIN nodes /\ NewSlot(t) \in [key : Nat, child : Nat]
      /\ PagesOK(nodes, root)
  BY <1>1, PutSlot, ThreadAt
<1> QED BY <1>1, <1>2, SplitPages

\* CreateNewRoot, seen from the pages: the page split is the root, and the new
\* page is on its level.
LEMMA GrowOfPages ==
  ASSUME TreeInv, NEW t \in Threads, CreateNewRoot(t)
  PROVE  /\ th[t].pc = "root" /\ th[t].pid = root /\ root' = Len(nodes) + 1
         /\ Len(nodes) < MaxPages
         /\ nodes' = GrowOf(nodes, root, NewSlot(t))
         /\ IsGrowth(nodes, root, NewSlot(t), nodes')
         /\ NewSlot(t) \in [key : Nat, child : Nat]
         /\ NewSlot(t).key = th[t].key /\ NewSlot(t).child = th[t].child
         /\ th[t].child # NoPage
         /\ NewSlot(t).child \in DOMAIN nodes
         /\ nodes[NewSlot(t).child].level = nodes[root].level
         /\ LowFence(nodes, NewSlot(t).child) = NewSlot(t).key
<1>1. /\ th[t].pc = "root" /\ th[t].pid = root /\ root' = Len(nodes) + 1
      /\ Len(nodes) < MaxPages
      /\ nodes' = GrowOf(nodes, root, NewSlot(t))
  BY DEF CreateNewRoot, At, GrowOf, Node
<1>2. /\ th[t] \in ThreadShape /\ ThreadOK(nodes, latch, t, th[t]) /\ NodesOK(nodes)
      /\ root \in DOMAIN nodes
  BY ThreadAt, <1>1 DEF Top
<1>3. CallOK(th[t]) /\ CarriedOK(nodes, th[t])
  BY <1>2 DEF ThreadOK
<1>4. /\ th[t].child # NoPage /\ th[t].child \in DOMAIN nodes
      /\ nodes[th[t].child].level = nodes[root].level
      /\ LowFence(nodes, th[t].child) = th[t].key
  BY <1>1, <1>3 DEF CallOK, CarriedOK
<1>5. /\ NewSlot(t) \in [key : Nat, child : Nat]
      /\ NewSlot(t).key = th[t].key /\ NewSlot(t).child = th[t].child
  BY <1>2, ThreadFacts DEF NewSlot, Slot
<1>6. IsGrowth(nodes, root, NewSlot(t), nodes')
  BY <1>1, <1>2, <1>5, GrowPages
<1> QED BY <1>1, <1>4, <1>5, <1>6

\* Delete, seen from the pages.
LEMMA DeletePages ==
  ASSUME TreeInv, NEW t \in Threads, Delete(t)
  PROVE  /\ root' = root /\ th[t].pid \in DOMAIN nodes /\ nodes[th[t].pid].level = 0
         /\ th[t].key = th[t].op.key /\ th[t].op \in Calls /\ th[t].op.kind = "Delete"
         /\ th[t].key \in Keys(nodes[th[t].pid]) /\ latch[th[t].pid] = t
         /\ nodes' = RemoveOf(nodes, th[t].pid, th[t].key)
         /\ IsRemoved(nodes, th[t].pid, th[t].key, nodes')
         /\ PagesOK(nodes', root)
         /\ \A s \in nodes[th[t].pid].slots : s.child = NoPage
<1>1. /\ root' = root /\ th[t].pc = "right" /\ th[t].op.kind = "Delete"
      /\ th[t].key \in Keys(nodes[th[t].pid])
      /\ nodes' = RemoveOf(nodes, th[t].pid, th[t].key)
  BY DEF Delete, RemoveOf, Reached, At, Node
<1>2. /\ th[t].pid \in DOMAIN nodes /\ th[t].op \in Calls
      /\ ThreadOK(nodes, latch, t, th[t]) /\ PagesOK(nodes, root)
  BY <1>1, ThreadAt
<1>3. CallOK(th[t]) /\ PlaceOK(nodes, th[t]) /\ LatchesOK(latch, t, th[t]) /\ Separated(nodes)
  BY <1>2 DEF ThreadOK, PagesOK
<1>4. nodes[th[t].pid].level = 0 /\ th[t].key = th[t].op.key /\ latch[th[t].pid] = t
  BY <1>1, <1>3 DEF CallOK, PlaceOK, LatchesOK
<1>5. \A s \in nodes[th[t].pid].slots : s.child = NoPage
  BY <1>2, <1>3, <1>4 DEF Separated
<1> QED BY <1>1, <1>2, <1>4, <1>5, RemoveKeeps

\* A step that leaves the levels consistent keeps the pages in order, their
\* levels and low fences, and the high fences of what others have latched.
LEMMA PageStep ==
  ASSUME TreeInv, NEW t \in Threads, Step(t), Consistent(nodes')
  PROVE  /\ PagesOK(nodes', root') /\ Extends(nodes, nodes')
         /\ Len(nodes') <= MaxPages
         /\ \A p \in DOMAIN nodes : latch[p] # t => nodes'[p].high = nodes[p].high
<1>1. PagesOK(nodes, root) /\ NodesOK(nodes)
  BY ThreadAt
<1>2. Len(nodes) <= MaxPages
  BY DEF TreeInv, ShapeOK
<1>3. CASE nodes' = nodes /\ root' = root
  BY <1>1, <1>2, <1>3 DEF Extends
<1>4. CASE Insert(t)
  <2>1. /\ MayPut(t) /\ root' = root /\ nodes' = PutOf(nodes, th[t].pid, NewSlot(t))
        /\ IsPut(nodes, th[t].pid, NewSlot(t), nodes')
    BY <1>4, InsertPages
  <2>2. th[t].pid \in DOMAIN nodes /\ Fits(nodes, th[t].pid, NewSlot(t))
    BY <2>1, PutSlot, PutFits
  <2>3. SameLinks(nodes, nodes') /\ PagesOK(nodes', root')
    BY <1>1, <2>1, <2>2, PutKeeps
  <2>4. Extends(nodes, nodes')
    BY <2>3, SameLinksFences
  <2>5. Len(nodes') = Len(nodes)
    BY <2>1 DEF IsPut
  <2> QED BY <2>3, <2>4, <2>5, <1>2 DEF SameLinks
<1>5. CASE Split(t)
  <2>1. /\ MayPut(t) /\ root' = root /\ Len(nodes) < MaxPages
        /\ Cardinality(nodes[th[t].pid].slots) >= 2
        /\ nodes' = SplitOf(nodes, th[t].pid, NewSlot(t))
        /\ IsSplit(nodes, th[t].pid, NewSlot(t), nodes')
    BY <1>5, SplitOfPages
  <2>2. /\ th[t].pid \in DOMAIN nodes /\ Fits(nodes, th[t].pid, NewSlot(t))
        /\ latch[th[t].pid] = t
    BY <2>1, PutSlot, PutFits
  <2>3. PagesOK(nodes', root') /\ Extends(nodes, nodes')
    BY <1>1, <2>1, <2>2, SplitKeeps
  <2>4. /\ Len(nodes') = Len(nodes) + 1
        /\ \A p \in DOMAIN nodes \ {th[t].pid} : nodes'[p] = nodes[p]
    BY <2>1 DEF IsSplit
  <2>5. Len(nodes) \in Nat /\ MaxPages \in Nat
    BY <1>1, <2>2, NodeFacts, BLinkTreeAssumption
  <2> QED BY <2>1, <2>2, <2>3, <2>4, <2>5
<1>6. CASE CreateNewRoot(t)
  <2>1. /\ root' = Len(nodes) + 1 /\ Len(nodes) < MaxPages
        /\ nodes' = GrowOf(nodes, root, NewSlot(t))
        /\ IsGrowth(nodes, root, NewSlot(t), nodes')
        /\ NewSlot(t) \in [key : Nat, child : Nat]
        /\ NewSlot(t).child \in DOMAIN nodes
        /\ nodes[NewSlot(t).child].level = nodes[root].level
        /\ LowFence(nodes, NewSlot(t).child) = NewSlot(t).key
    BY <1>6, GrowOfPages
  <2>2. PagesOK(nodes', root') /\ Extends(nodes, nodes')
    BY <1>1, <2>1, GrowKeeps
  <2>3. Len(nodes') = Len(nodes) + 1 /\ \A p \in DOMAIN nodes : nodes'[p] = nodes[p]
    BY <2>1 DEF IsGrowth
  <2>4. Len(nodes) \in Nat /\ MaxPages \in Nat
    BY <1>1, <2>1, NodeFacts, BLinkTreeAssumption
  <2> QED BY <2>1, <2>2, <2>3, <2>4
<1>7. CASE Delete(t)
  <2>1. /\ root' = root /\ IsRemoved(nodes, th[t].pid, th[t].key, nodes')
        /\ PagesOK(nodes', root)
    BY <1>7, DeletePages
  <2>2. SameLinks(nodes, nodes') /\ Len(nodes') = Len(nodes)
    BY <2>1 DEF IsRemoved
  <2>3. Extends(nodes, nodes')
    BY <2>2, SameLinksFences
  <2> QED BY <2>1, <2>2, <2>3, <1>2 DEF SameLinks
<1> QED BY <1>3, <1>4, <1>5, <1>6, <1>7, PageKinds

\* A step of t changes nobody else's call.
LEMMA ThreadFrame ==
  ASSUME TreeInv, NEW t \in Threads, Step(t)
  PROVE  /\ DOMAIN th' = Threads /\ th' = [u \in Threads |-> th'[u]]
         /\ \A u \in Threads \ {t} : th'[u] = th[u]
<1>1. th \in [Threads -> ThreadShape]
  BY DEF TreeInv, ShapeOK
<1>2. CASE Begin(t) \/ Arrive(t) \/ DropRight(t) \/ DropDown(t) \/ WriteLatch(t) \/ GoRight(t)
  BY <1>1, <1>2 DEF Begin, Arrive, DropRight, DropDown, WriteLatch, GoRight
<1>3. CASE CheckUnique(t)
  BY <1>1, <1>3 DEF CheckUnique, Return
<1>4. CASE Crab(t) \/ Insert(t) \/ CreateNewRoot(t) \/ NotRoot(t) \/ Redrop(t) \/ Delete(t)
  BY <1>1, <1>4 DEF Crab, Insert, CreateNewRoot, NotRoot, Redrop, Delete, Return
<1>5. CASE Split(t)
  BY <1>1, <1>5 DEF Split
<1>6. CASE GetRight(t) \/ GetCollect(t) \/ GetNext(t) \/ GetReturn(t)
  BY <1>1, <1>6 DEF GetRight, GetCollect, GetNext, GetReturn, Return
<1> QED BY <1>2, <1>3, <1>4, <1>5, <1>6 DEF Step

\* The thread that begins a call, descends, or walks right.
LEMMA DescentStep ==
  ASSUME FreedReads = {}, TreeInv, NEW t \in Threads,
         Begin(t) \/ Arrive(t) \/ DropRight(t) \/ DropDown(t) \/ NotRoot(t) \/ Redrop(t)
  PROVE  ThreadOK(nodes', latch', t, th'[t])
<1> DEFINE T == th[t]
           U == th'[t]
<1>1. th \in [Threads -> ThreadShape] /\ load \in Seq(Calls) /\ todo \subseteq Calls
  BY DEF TreeInv, ShapeOK
<1>2. /\ T \in ThreadShape /\ ThreadOK(nodes, latch, t, T) /\ PagesOK(nodes, root)
      /\ NodesOK(nodes)
      /\ T.pc # "idle" => T.pid \in DOMAIN nodes
  BY ThreadAt
<1>3. nodes' = nodes /\ latch' = latch
  BY DEF Begin, Arrive, DropRight, DropDown, NotRoot, Redrop
<1>4. CASE Begin(t)
  <2>1. T = IdleThread
    BY <1>2, <1>4 DEF ThreadOK, FormOK, Begin, At
  <2>2. PICK op \in NextCalls(t) :
          th' = [th EXCEPT ![t].pc = "drop", ![t].op = op, ![t].pid = root,
                   ![t].key = IF op.kind \in {"Get", "InsertUnique"}
                              THEN Low(op.key) ELSE op.key]
    BY <1>4 DEF Begin
  <2>3. op \in Calls
    BY <1>1 DEF NextCalls
  <2>4. U = [T EXCEPT !.pc = "drop", !.op = op, !.pid = root,
                      !.key = IF op.kind \in {"Get", "InsertUnique"}
                              THEN Low(op.key) ELSE op.key]
    BY <1>1, <2>2
  <2> HIDE DEF T, U
  <2> QED BY <1>2, <1>3, <2>1, <2>3, <2>4, BeginKeeps DEF U
<1>5. CASE Arrive(t)
  <2> DEFINE pc == IF T.level = 0 /\ T.op.kind = "Get" THEN "get" ELSE "latch"
  <2>1. T.pc = "drop" /\ nodes[T.pid].level <= T.level
    BY <1>5 DEF Arrive, At, Node
  <2>2. U = [T EXCEPT !.pc = pc]
    <3>1. CASE T.level = 0
      BY <1>1, <1>5, <3>1 DEF Arrive
    <3>2. CASE T.level # 0
      <4>1. \E k \in {T.key} \union {} : th' = [th EXCEPT ![t].pc = "latch", ![t].key = k]
        BY <1>5, <3>2 DEF Arrive
      <4>2. U = [T EXCEPT !.pc = "latch", !.key = T.key]
        BY <1>1, <4>1
      <4> HIDE DEF T, U
      <4>3. U = [T EXCEPT !.pc = "latch"]
        BY <1>2, <4>2 DEF ThreadShape
      <4> QED BY <3>2, <4>3
    <3> QED BY <3>1, <3>2
  <2> HIDE DEF T, U
  <2> QED BY <1>2, <1>3, <2>1, <2>2, ArriveKeeps DEF U
<1>6. CASE DropRight(t)
  <2>1. T.pc = "drop" /\ HasSplit(nodes[T.pid], T.key)
    BY <1>6 DEF DropRight, At, Node
  <2>2. U = [T EXCEPT !.pid = nodes[T.pid].rlink]
    BY <1>1, <1>6 DEF DropRight, Node
  <2> HIDE DEF T, U
  <2>3. U = [T EXCEPT !.pc = "drop", !.pid = nodes[T.pid].rlink]
    BY <1>2, <2>1, <2>2 DEF ThreadShape
  <2>4. nodes[T.pid].rlink # NoPage
    BY <1>2, <2>1 DEF PagesOK, Linked, HasSplit
  <2> QED BY <1>2, <1>3, <2>1, <2>3, <2>4, RightKeeps DEF U
<1>7. CASE DropDown(t)
  <2>1. T.pc = "drop" /\ nodes[T.pid].level > T.level
    BY <1>7 DEF DropDown, At, Node
  <2>2. U = [T EXCEPT !.pid = FindChild(nodes[T.pid], T.key), !.stack = Append(T.stack, T.pid)]
    BY <1>1, <1>7 DEF DropDown, Node
  <2> HIDE DEF T, U
  <2> QED BY <1>2, <1>3, <2>1, <2>2, DownKeeps DEF U
<1>8. CASE NotRoot(t)
  <2>1. T.pc = "root"
    BY <1>8 DEF NotRoot, At
  <2>2. U = [T EXCEPT !.pc = "redrop", !.level = nodes[T.pid].level + 1]
    BY <1>1, <1>8 DEF NotRoot, Node
  <2> HIDE DEF T, U
  <2> QED BY <1>2, <1>3, <2>1, <2>2, NotRootKeeps DEF U
<1>9. CASE Redrop(t)
  <2>1. T.pc = "redrop"
    BY <1>9 DEF Redrop, At
  <2>2. U = [T EXCEPT !.pc = "drop", !.pid = root]
    BY <1>1, <1>9 DEF Redrop
  <2> HIDE DEF T, U
  <2> QED BY <1>2, <1>3, <2>1, <2>2, RedropKeeps DEF U
<1> QED BY <1>4, <1>5, <1>6, <1>7, <1>8, <1>9

\* The thread that takes or hands over latches.
LEMMA LatchingStep ==
  ASSUME TreeInv, NEW t \in Threads, WriteLatch(t) \/ GoRight(t) \/ Crab(t) \/ CheckUnique(t)
  PROVE  ThreadOK(nodes', latch', t, th'[t])
<1> DEFINE T == th[t]
           U == th'[t]
<1>1. /\ th \in [Threads -> ThreadShape]
      /\ latch \in [1 .. MaxPages -> Threads \union {None}]
  BY DEF TreeInv, ShapeOK
<1>2. /\ T \in ThreadShape /\ ThreadOK(nodes, latch, t, T) /\ PagesOK(nodes, root)
      /\ NodesOK(nodes)
      /\ T.pc # "idle" => T.pid \in DOMAIN nodes
  BY ThreadAt
<1>3. nodes' = nodes
  BY DEF WriteLatch, GoRight, Crab, CheckUnique
<1>4. ASSUME Step(t) PROVE \A p \in DOMAIN nodes : p \in DOMAIN latch
  BY <1>4, LatchStep
<1>5. CASE WriteLatch(t) \/ Crab(t)
  <2> DEFINE pc == IF T.pc = "latch" THEN "right" ELSE "check"
  <2>1. T.pc \in {"latch", "crab"} /\ Latched(t, T.pid) /\ Step(t)
    BY <1>5 DEF WriteLatch, Crab, At, Step
  <2>2. U = [T EXCEPT !.pc = pc]
    BY <1>1, <1>5 DEF WriteLatch, Crab, At
  <2>3. \A p \in DOMAIN nodes : p \in DOMAIN latch
    BY <1>4, <2>1
  <2>6. T.pid \in DOMAIN nodes
    BY <1>2, <2>1
  <2>4. latch'[T.pid] = t /\ \A p \in DOMAIN nodes : latch[p] = t => latch'[p] = t
    BY <1>1, <2>1, <2>3, <2>6 DEF Latched
  <2> HIDE DEF T, U
  <2> QED BY <1>2, <1>3, <2>1, <2>2, <2>4, LatchKeeps DEF U
<1>6. CASE GoRight(t)
  <2>1. T.pc = "right" /\ HasSplit(nodes[T.pid], T.key)
    BY <1>6 DEF GoRight, At, Node
  <2>2. U = [T EXCEPT !.pc = "latch", !.pid = nodes[T.pid].rlink]
    BY <1>1, <1>6 DEF GoRight, Node
  <2> HIDE DEF T, U
  <2>3. nodes[T.pid].rlink # NoPage
    BY <1>2, <2>1 DEF PagesOK, Linked, HasSplit
  <2> QED BY <1>2, <1>3, <2>1, <2>2, <2>3, RightKeeps DEF U
<1>7. CASE CheckUnique(t)
  <2> DEFINE ins == IF T.ins = NoPage /\ ~HasSplit(nodes[T.pid], T.op.key)
                    THEN T.pid ELSE T.ins
  <2>1. /\ T.op.kind = "InsertUnique" /\ T.child = NoPage
        /\ (T.pc = "right" /\ ~HasSplit(nodes[T.pid], T.key)) \/ T.pc = "check"
    BY <1>7 DEF CheckUnique, Reached, At, Node
  <2>2. \/ Return(t)
        \/ /\ HighPrefixCmp(nodes[T.pid], T.op.key)
           /\ latch' = latch
           /\ th' = [th EXCEPT ![t].pc = "crab", ![t].ins = ins, ![t].key = T.op.key,
                               ![t].pid = nodes[T.pid].rlink]
        \/ /\ ~HighPrefixCmp(nodes[T.pid], T.op.key)
           /\ latch' = latch
           /\ th' = [th EXCEPT ![t].pc = "put", ![t].pid = ins, ![t].key = T.op.key]
    BY <1>7 DEF CheckUnique, KeepLatches, Node
  <2>3. CASE Return(t)
    <3>1. U = IdleThread
      BY <1>1, <2>3 DEF Return
    <3> QED BY <3>1, IdleOK
  <2>4. CASE /\ HighPrefixCmp(nodes[T.pid], T.op.key)
             /\ latch' = latch
             /\ th' = [th EXCEPT ![t].pc = "crab", ![t].ins = ins, ![t].key = T.op.key,
                                 ![t].pid = nodes[T.pid].rlink]
    <3>1. U = [T EXCEPT !.pc = "crab", !.ins = ins, !.key = T.op.key,
                        !.pid = nodes[T.pid].rlink]
      BY <1>1, <2>4
    <3> HIDE DEF T, U
    <3> QED BY <1>2, <1>3, <2>1, <2>4, <3>1, CrabRightKeeps DEF U
  <2>5. CASE /\ ~HighPrefixCmp(nodes[T.pid], T.op.key)
             /\ latch' = latch
             /\ th' = [th EXCEPT ![t].pc = "put", ![t].pid = ins, ![t].key = T.op.key]
    <3>1. U = [T EXCEPT !.pc = "put", !.pid = ins, !.key = T.op.key]
      BY <1>1, <2>5
    <3> HIDE DEF T, U
    <3> QED BY <1>2, <1>3, <2>1, <2>5, <3>1, LastLeafKeeps DEF U
  <2> QED BY <2>2, <2>3, <2>4, <2>5
<1> QED BY <1>5, <1>6, <1>7

\* The thread that reads leaves for a Get.
LEMMA GetStep ==
  ASSUME TreeInv, NEW t \in Threads,
         GetRight(t) \/ GetCollect(t) \/ GetNext(t) \/ GetReturn(t)
  PROVE  ThreadOK(nodes', latch', t, th'[t])
<1> DEFINE T == th[t]
           U == th'[t]
<1>1. th \in [Threads -> ThreadShape]
  BY DEF TreeInv, ShapeOK
<1>2. /\ T \in ThreadShape /\ ThreadOK(nodes, latch, t, T) /\ PagesOK(nodes, root)
      /\ NodesOK(nodes)
      /\ T.pc # "idle" => T.pid \in DOMAIN nodes
  BY ThreadAt
<1>3. nodes' = nodes /\ latch' = latch
  BY DEF GetRight, GetCollect, GetNext, GetReturn
<1>4. CASE GetRight(t)
  <2>1. T.pc = "get" /\ HasSplit(nodes[T.pid], T.key)
    BY <1>4 DEF GetRight, At, Node
  <2>2. U = [T EXCEPT !.pid = nodes[T.pid].rlink]
    BY <1>1, <1>4 DEF GetRight, Node
  <2> HIDE DEF T, U
  <2>3. U = [T EXCEPT !.pc = "get", !.pid = nodes[T.pid].rlink]
    BY <1>2, <2>1, <2>2 DEF ThreadShape
  <2>4. nodes[T.pid].rlink # NoPage
    BY <1>2, <2>1 DEF PagesOK, Linked, HasSplit
  <2> QED BY <1>2, <1>3, <2>1, <2>3, <2>4, RightKeeps DEF U
<1>5. CASE GetCollect(t)
  <2> DEFINE here == {k \in Keys(nodes[T.pid]) : Prefix(k) = Prefix(T.key)}
             pc == IF HighPrefixCmp(nodes[T.pid], T.key) THEN "next" ELSE "returned"
  <2>1. T.pc = "get"
    BY <1>5 DEF GetCollect, At
  <2>2. U = [T EXCEPT !.found = T.found \union here, !.pc = pc]
    BY <1>1, <1>5 DEF GetCollect, Node
  <2>3. T.found \union here \in SUBSET Nat
    <3>1. T.pid \in DOMAIN nodes
      BY <1>2, <2>1
    <3>2. \A s \in nodes[T.pid].slots : s.key \in Nat
      BY <1>2, <3>1, NodeFacts
    <3>3. T.found \in SUBSET Nat
      BY <1>2, ThreadFacts
    <3> QED BY <3>2, <3>3 DEF Keys
  <2>4. pc \in {"next", "returned"}
    OBVIOUS
  <2> HIDE DEF T, U, here, pc
  <2>5. U = [T EXCEPT !.pc = pc, !.found = T.found \union here]
    BY <1>2, <2>2 DEF ThreadShape
  <2> QED BY <1>2, <1>3, <2>1, <2>3, <2>4, <2>5, CollectKeeps DEF U
<1>6. CASE GetNext(t)
  <2>1. T.pc = "next"
    BY <1>6 DEF GetNext, At
  <2>2. CASE nodes[T.pid].rlink = NoPage
    <3>1. U = [T EXCEPT !.pc = "returned"]
      BY <1>1, <1>6, <2>2 DEF GetNext, Node
    <3> HIDE DEF T, U
    <3>2. U = [T EXCEPT !.pc = "returned", !.found = T.found] /\ T.found \in SUBSET Nat
      BY <1>2, <3>1 DEF ThreadShape
    <3> QED BY <1>2, <1>3, <2>1, <3>2, CollectKeeps DEF U
  <2>3. CASE nodes[T.pid].rlink # NoPage
    <3>1. U = [T EXCEPT !.pc = "get", !.pid = nodes[T.pid].rlink]
      BY <1>1, <1>6, <2>3 DEF GetNext, Node
    <3> HIDE DEF T, U
    <3> QED BY <1>2, <1>3, <2>1, <2>3, <3>1, RightKeeps DEF U
  <2> QED BY <2>2, <2>3
<1>7. CASE GetReturn(t)
  <2>1. U = IdleThread
    BY <1>1, <1>7 DEF GetReturn, Return
  <2> QED BY <2>1, IdleOK
<1> QED BY <1>4, <1>5, <1>6, <1>7

\* The separator a leaf split sends up is a key of the leaf.
LEMMA SentinelAsked ==
  ASSUME TreeInv, NEW t \in Threads, Split(t), nodes[th[t].pid].level = 0
  PROVE  Sentinel(nodes[th[t].pid]) \in Asked({"Insert", "InsertUnique"})
<1> DEFINE p == th[t].pid
<1>1. MayPut(t) /\ Cardinality(nodes[p].slots) >= 2 /\ PagesOK(nodes, root)
  BY SplitOfPages, ThreadAt
<1>2. p \in DOMAIN nodes
  BY <1>1, PutSlot
<1>3. \E x \in nodes[p].slots : x.key = Sentinel(nodes[p])
  <2> HIDE DEF p
  <2>1. \E x \in nodes[p].slots \ Lower(nodes[p]) : x.key = Sentinel(nodes[p])
    BY <1>1, <1>2, SentinelInside
  <2> QED BY <2>1
<1>4. InLeaf(nodes, Sentinel(nodes[p]))
  BY <1>2, <1>3 DEF InLeaf
<1> QED BY <1>4, EntriesInLeaf DEF TreeInv, EntriesAsked

\* The thread that changes pages.
LEMMA WriterStep ==
  ASSUME FreedReads = {}, TreeInv, NEW t \in Threads, Consistent(nodes'),
         Insert(t) \/ Split(t) \/ CreateNewRoot(t) \/ Delete(t)
  PROVE  ThreadOK(nodes', latch', t, th'[t])
<1> DEFINE T == th[t]
           U == th'[t]
<1>1. th \in [Threads -> ThreadShape]
  BY DEF TreeInv, ShapeOK
<1>2. T \in ThreadShape /\ ThreadOK(nodes, latch, t, T) /\ PagesOK(nodes, root)
  BY ThreadAt
<1>3. CASE Insert(t) \/ CreateNewRoot(t) \/ Delete(t)
  <2>1. U = IdleThread
    BY <1>1, <1>3 DEF Insert, CreateNewRoot, Delete, Return
  <2> QED BY <2>1, IdleOK
<1>4. CASE Split(t)
  <2> DEFINE new == Len(nodes) + 1
             k == Sentinel(nodes[T.pid])
             freed == nodes[T.pid].level > 0
  <2>1. /\ MayPut(t) /\ Cardinality(nodes[T.pid].slots) >= 2
        /\ nodes' = SplitOf(nodes, T.pid, NewSlot(t))
        /\ IsSplit(nodes, T.pid, NewSlot(t), nodes')
    BY <1>4, SplitOfPages
  <2>2. /\ T.pc \in {"right", "put"} /\ T.op.kind \in {"Insert", "InsertUnique"}
        /\ Fits(nodes, T.pid, NewSlot(t))
    BY <2>1, PutSlot, PutFits
  <2>3. nodes[T.pid].level = 0 => k \in Asked({"Insert", "InsertUnique"})
    BY <1>4, SentinelAsked
  <2>4. \/ /\ T.stack = <<>>
           /\ th' = [th EXCEPT ![t].pc = "root", ![t].key = k,
                               ![t].child = new, ![t].freed = freed]
        \/ /\ T.stack # <<>>
           /\ \E seen \in {k} \union (IF freed THEN FreedReads ELSE {}) :
                    th' = [th EXCEPT ![t].pc = "latch", ![t].key = seen,
                                     ![t].child = new, ![t].pid = Last(T.stack),
                                     ![t].stack = Front(T.stack)]
    BY <1>4 DEF Split, Node
  <2>5. \/ T.stack = <<>> /\ U = [T EXCEPT !.pc = "root", !.key = k,
                                           !.child = new, !.freed = freed]
        \/ T.stack # <<>> /\ U = [T EXCEPT !.pc = "latch", !.key = k,
                                           !.child = new, !.pid = Last(T.stack),
                                           !.stack = Front(T.stack)]
    <3>1. CASE T.stack = <<>>
      BY <1>1, <2>4, <3>1
    <3>2. CASE T.stack # <<>>
      <4>1. th' = [th EXCEPT ![t].pc = "latch", ![t].key = k,
                             ![t].child = new, ![t].pid = Last(T.stack),
                             ![t].stack = Front(T.stack)]
        BY <2>4, <3>2
      <4> QED BY <1>1, <3>2, <4>1
    <3> QED BY <3>1, <3>2
  <2>6. freed \in BOOLEAN
    OBVIOUS
  <2> HIDE DEF T, U, freed
  <2> QED BY <1>2, <2>1, <2>2, <2>3, <2>5, <2>6, SplitThread DEF U, k, new
<1> QED BY <1>3, <1>4

\* What a step does to the entries: an insert or a split puts the entry of the
\* call that makes it, a delete takes its own away; also the step that breaks
\* the levels.
LEMMA EntriesStep ==
  ASSUME TreeInv, NEW t \in Threads, Step(t)
  PROVE  \/ Entries' = Entries
         \/ /\ Insert(t) \/ Split(t)
            /\ nodes[th[t].pid].level = 0
            /\ th[t].key \in Asked({"Insert", "InsertUnique"})
            /\ Entries' = Entries \union {th[t].key}
         \/ /\ Delete(t)
            /\ th[t].key \in Asked({"Delete"}) /\ th[t].key \in Entries
            /\ Entries' = Entries \ {th[t].key}
<1> DEFINE p == th[t].pid
           e == th[t].key
           s == NewSlot(t)
<1>1. PagesOK(nodes, root) /\ NodesOK(nodes)
  BY ThreadAt
<1>2. ASSUME \A k : InLeaf(nodes', k) <=> InLeaf(nodes, k) \/ (nodes[p].level = 0 /\ k = s.key),
             MayPut(t), Insert(t) \/ Split(t)
      PROVE  \/ Entries' = Entries
             \/ /\ Insert(t) \/ Split(t)
                /\ nodes[p].level = 0
                /\ e \in Asked({"Insert", "InsertUnique"})
                /\ Entries' = Entries \union {e}
  <2>1. s.key = e /\ nodes[p].level = 0 => e \in Asked({"Insert", "InsertUnique"})
    BY <1>2, PutSlot
  <2>2. \A k : k \in Entries' <=> k \in Entries \/ (nodes[p].level = 0 /\ k = e)
    BY <1>2, PutSlot, EntriesInLeaf
  <2>3. CASE nodes[p].level = 0
    <3>1. Entries' = Entries \union {e}
      BY <2>2, <2>3
    <3>2. e \in Asked({"Insert", "InsertUnique"})
      BY <1>2, <2>3, PutSlot
    <3> QED BY <1>2, <2>3, <3>1, <3>2
  <2>4. CASE nodes[p].level # 0
    BY <2>2, <2>4
  <2> QED BY <2>3, <2>4
<1>3. CASE nodes' = nodes /\ root' = root
  BY <1>3 DEF Entries, Leaves
<1>4. CASE Insert(t)
  <2>1. MayPut(t) /\ IsPut(nodes, p, s, nodes') /\ p \in DOMAIN nodes
    BY <1>4, InsertPages, PutSlot
  <2> HIDE DEF p, s, e
  <2>2. \A k : InLeaf(nodes', k) <=> InLeaf(nodes, k) \/ (nodes[p].level = 0 /\ k = s.key)
    BY <2>1, PutEntries
  <2> QED BY <1>2, <1>4, <2>1, <2>2 DEF p, e
<1>5. CASE Split(t)
  <2>1. /\ MayPut(t) /\ IsSplit(nodes, p, s, nodes') /\ p \in DOMAIN nodes
        /\ Cardinality(nodes[p].slots) >= 2
    BY <1>5, SplitOfPages, PutSlot
  <2> HIDE DEF p, s, e
  <2>2. Lower(nodes[p]) \subseteq nodes[p].slots
    BY <1>1, <2>1, SentinelInside
  <2>3. \A k : InLeaf(nodes', k) <=> InLeaf(nodes, k) \/ (nodes[p].level = 0 /\ k = s.key)
    BY <2>1, <2>2, SplitEntries
  <2> QED BY <1>2, <1>5, <2>1, <2>3 DEF p, e
<1>6. CASE CreateNewRoot(t)
  <2>1. IsGrowth(nodes, root, s, nodes') /\ root \in DOMAIN nodes
    BY <1>1, <1>6, GrowOfPages DEF PagesOK, Top
  <2> HIDE DEF s
  <2>2. \A k : InLeaf(nodes', k) <=> InLeaf(nodes, k)
    BY <1>1, <2>1, GrowEntries
  <2> QED BY <2>2, EntriesInLeaf
<1>7. CASE Delete(t)
  <2>1. /\ p \in DOMAIN nodes /\ nodes[p].level = 0 /\ e \in Keys(nodes[p])
        /\ e = th[t].op.key /\ th[t].op \in Calls /\ th[t].op.kind = "Delete"
        /\ IsRemoved(nodes, p, e, nodes')
        /\ \A x \in nodes[p].slots : x.child = NoPage
    BY <1>7, DeletePages
  <2>2. e \in Asked({"Delete"})
    BY <2>1 DEF Asked
  <2> HIDE DEF p, e
  <2>3. InLeaf(nodes, e)
    BY <2>1 DEF InLeaf, Keys
  <2>4. /\ \A k : InLeaf(nodes', k) => InLeaf(nodes, k)
        /\ \A k : InLeaf(nodes, k) /\ k # e => InLeaf(nodes', k)
    BY <2>1, RemoveEntries
  <2>5. CASE InLeaf(nodes', e)
    <3>1. Entries' = Entries
      BY <2>4, <2>5, EntriesInLeaf
    <3> QED BY <3>1
  <2>6. CASE ~InLeaf(nodes', e)
    <3>1. Entries' = Entries \ {e}
      BY <2>4, <2>6, EntriesInLeaf
    <3>2. e \in Entries
      BY <2>3, EntriesInLeaf
    <3> QED BY <1>7, <2>2, <3>1, <3>2 DEF e
  <2> QED BY <2>5, <2>6
<1> QED BY <1>3, <1>4, <1>5, <1>6, <1>7, PageKinds DEF p, e

\* The calls still to be made are calls.
LEMMA CallsStep ==
  ASSUME TreeInv, NEW t \in Threads, Step(t)
  PROVE  todo' \subseteq Calls /\ load' \in Seq(Calls)
<1>1. todo \subseteq Calls /\ load \in Seq(Calls)
  BY DEF TreeInv, ShapeOK
<1>2. \/ todo' = todo /\ load' = load
      \/ /\ todo' \subseteq todo
         /\ load' = load \/ (load # <<>> /\ load' = Tail(load))
  BY DEF Step, Begin, Arrive, DropRight, DropDown, WriteLatch, GoRight, CheckUnique,
         Crab, Insert, Split, CreateNewRoot, NotRoot, Redrop, Delete,
         GetRight, GetCollect, GetNext, GetReturn
<1> QED BY <1>1, <1>2

\* Every step that leaves the levels consistent keeps TreeInv.
LEMMA TreeStep ==
  ASSUME FreedReads = {}, TreeInv, NEW t \in Threads, Step(t), LevelConsistency'
  PROVE  TreeInv'
<1>1. Consistent(nodes')
  BY DEF LevelConsistency, Consistent
<1>2. /\ PagesOK(nodes', root') /\ Extends(nodes, nodes') /\ Len(nodes') <= MaxPages
      /\ \A p \in DOMAIN nodes : latch[p] # t => nodes'[p].high = nodes[p].high
  BY <1>1, PageStep
<1>3. /\ latch' \in [1 .. MaxPages -> Threads \union {None}]
      /\ \A p \in DOMAIN nodes : p \in DOMAIN latch
      /\ \A u \in Threads \ {t} : \A p \in DOMAIN latch : latch[p] = u => latch'[p] = u
  BY LatchStep
<1>4. ThreadOK(nodes', latch', t, th'[t])
  BY <1>1, DescentStep, LatchingStep, WriterStep, GetStep DEF Step
<1>5. \A u \in Threads \ {t} : ThreadOK(nodes', latch', u, th'[u])
  <2> TAKE u \in Threads \ {t}
  <2>1. th'[u] = th[u] /\ ThreadOK(nodes, latch, u, th[u])
    BY ThreadFrame, ThreadAt
  <2>2. \A p \in DOMAIN nodes : latch[p] = u => latch'[p] = u /\ nodes'[p].high = nodes[p].high
    BY <1>2, <1>3
  <2> QED BY <1>2, <2>1, <2>2, OthersKeep
<1>6. \A u \in Threads : ThreadOK(nodes', latch', u, th'[u])
  BY <1>4, <1>5
<1>7. th' \in [Threads -> ThreadShape]
  <2>1. \A u \in Threads : th'[u] \in ThreadShape
    BY <1>6 DEF ThreadOK, FormOK
  <2> QED BY <2>1, ThreadFrame
<1>8. ShapeOK'
  BY <1>2, <1>3, <1>7, CallsStep DEF ShapeOK
<1>9. EntriesAsked'
  <2>1. Entries \subseteq Asked({"Insert", "InsertUnique"})
    BY DEF TreeInv, EntriesAsked
  <2>2. Entries' \subseteq Asked({"Insert", "InsertUnique"})
    BY <2>1, EntriesStep
  <2> QED BY <2>2 DEF EntriesAsked
<1> QED BY <1>2, <1>6, <1>8, <1>9 DEF TreeInv

\* The constructor's single empty leaf.
LEMMA TreeInit ==
  ASSUME Init
  PROVE  TreeInv
<1> DEFINE n == InitHeader(0, {})
<1>1. nodes = <<n>> /\ root = 1
  BY DEF Init
<1>2. /\ n \in NodeShape /\ n.level = 0 /\ n.slots = {} /\ n.high = NoKey
      /\ n.rlink = NoPage /\ IsFiniteSet(n.slots)
  BY FS_EmptySet DEF InitHeader, NodeShape, NoKey, NoPage
<1> HIDE DEF n
<1>3. DOMAIN nodes = {1} /\ nodes[1] = n /\ Len(nodes) = 1
  BY <1>1
<1>4. NodesOK(nodes)
  BY <1>1, <1>2, <1>3 DEF NodesOK
<1>5. Linked(nodes) /\ Fenced(nodes) /\ Apart(nodes) /\ Separated(nodes)
  BY <1>2, <1>3 DEF Linked, Fenced, Apart, Separated
<1>6. Top(nodes, root)
  BY <1>1, <1>2, <1>3 DEF Top, NoPage
<1>7. th = [t \in Threads |-> IdleThread]
  BY DEF Init
<1>8. \A t \in Threads : ThreadOK(nodes, latch, t, th[t]) /\ th[t] \in ThreadShape
  BY <1>7, IdleOK
<1>9. ShapeOK
  <2>1. MaxPages \in Nat /\ MaxPages >= 1 /\ Load \in Seq(Range(Load))
    BY BLinkTreeAssumption
  <2>2. load \in Seq(Calls) /\ todo \subseteq Calls
    <3>1. Range(Load) \subseteq Calls /\ Ops \subseteq Calls
      BY DEF Calls
    <3>2. Load \in Seq(Calls)
      <4> HIDE DEF Calls
      <4> QED BY <2>1, <3>1
    <3> QED BY <3>1, <3>2 DEF Init
  <2>3. latch \in [1 .. MaxPages -> Threads \union {None}]
    BY DEF Init
  <2>4. th \in [Threads -> ThreadShape]
    BY <1>7, <1>8
  <2> QED BY <1>3, <2>1, <2>2, <2>3, <2>4 DEF ShapeOK
<1>10. EntriesAsked
  <2>1. \A k : ~InLeaf(nodes, k)
    BY <1>2, <1>3 DEF InLeaf
  <2> QED BY <2>1, EntriesInLeaf DEF EntriesAsked
<1> QED BY <1>4, <1>5, <1>6, <1>8, <1>9, <1>10 DEF TreeInv, PagesOK

\* Up to the first separator on a wrong level, the tree is a B-link tree: links
\* and fences agree, the pages of a level cover disjoint intervals, separators
\* are the low fences of their children, the root is leftmost on the highest
\* level, and no call is at a page to the right of the one its key belongs to.
\* This is what every optimistic, latch-free step of BTreeIndex relies on.
THEOREM TreeInvAlways ==
  ASSUME FreedReads = {}
  PROVE  Spec => [](LevelConsistency => TreeInv)
<1>1. Init => TreeInv
  BY TreeInit
<1>2. ASSUME LevelConsistency => TreeInv, [Next]_vars
      PROVE  (LevelConsistency => TreeInv)'
  <2>1. CASE UNCHANGED vars
    <3>1. nodes' = nodes /\ LevelConsistency' = LevelConsistency
      BY <2>1 DEF vars, LevelConsistency
    <3>2. Entries' = Entries
      BY <2>1 DEF vars, Entries, Leaves
    <3> QED BY <1>2, <2>1, <3>1, <3>2 DEF vars, TreeInv, ShapeOK, EntriesAsked
  <2>2. CASE LevelConsistency /\ \E t \in Threads : Step(t) /\ Observe
    BY <1>2, <2>2, TreeStep
  <2> QED BY <1>2, <2>1, <2>2 DEF Next
<1> QED BY <1>1, <1>2, PTL DEF Spec

-----------------------------------------------------------------------------
(* The tree as a set of entries.                                           *)

\* Every step is a step of IndexContents or changes no entry; also the one that
\* puts a separator on a wrong level.
THEOREM ImplementsContentsAlways ==
  ASSUME FreedReads = {}
  PROVE  Spec => ImplementsContents
<1>1. Init => Contents!AbsInit
  <2> SUFFICES ASSUME Init PROVE Entries = {}
    BY DEF Contents!AbsInit
  <2>1. nodes = <<InitHeader(0, {})>>
    BY DEF Init
  <2>2. DOMAIN nodes = {1} /\ nodes[1].slots = {}
    BY <2>1 DEF InitHeader
  <2>3. \A k : ~InLeaf(nodes, k)
    BY <2>2 DEF InLeaf
  <2> QED BY <2>3, EntriesInLeaf
<1>2. ASSUME LevelConsistency => TreeInv, [Next]_vars
      PROVE  [Contents!AbsNext]_Entries
  <2>1. CASE UNCHANGED vars
    BY <2>1 DEF vars, Entries, Leaves
  <2>2. CASE LevelConsistency /\ \E t \in Threads : Step(t) /\ Observe
    <3>1. PICK t \in Threads : Step(t)
      BY <2>2
    <3>2. TreeInv
      BY <1>2, <2>2
    <3>3. CASE Entries' = Entries
      BY <3>3
    <3>4. CASE /\ th[t].key \in Asked({"Insert", "InsertUnique"})
               /\ Entries' = Entries \union {th[t].key}
      <4>1. CASE th[t].key \in Entries
        BY <3>4, <4>1
      <4>2. CASE th[t].key \notin Entries
        BY <3>4, <4>2 DEF Contents!AbsNext, Contents!Add
      <4> QED BY <4>1, <4>2
    <3>5. CASE /\ th[t].key \in Asked({"Delete"}) /\ th[t].key \in Entries
               /\ Entries' = Entries \ {th[t].key}
      BY <3>5 DEF Contents!AbsNext, Contents!Remove
    <3> QED BY <3>1, <3>2, <3>3, <3>4, <3>5, EntriesStep
  <2> QED BY <1>2, <2>1, <2>2 DEF Next
<1> QED BY <1>1, <1>2, TreeInvAlways, PTL DEF Spec, ImplementsContents, Contents!AbsSpec

-----------------------------------------------------------------------------
(* Separators.                                                             *)

\* Only Insert, Split and CreateNewRoot change what a thread carries.
LEMMA ChildStep ==
  ASSUME TreeInv, NEW t \in Threads, Step(t)
  PROVE  /\ \A u \in Threads \ {t} : th'[u].child = th[u].child
         /\ Insert(t) \/ CreateNewRoot(t) \/ Delete(t) => th'[t].child = NoPage
         /\ Split(t) => th'[t].child = Len(nodes) + 1 /\ th'[t].pc \in {"root", "latch"}
         /\ ~(Insert(t) \/ Split(t) \/ CreateNewRoot(t)) => th'[t].child = th[t].child
<1>1. th \in [Threads -> ThreadShape]
  BY DEF TreeInv, ShapeOK
<1>2. /\ th[t] \in ThreadShape /\ FormOK(nodes, th[t]) /\ CallOK(th[t])
      /\ IdleThread.child = NoPage
  BY ThreadAt DEF ThreadOK, IdleThread
<1>8. {"pc", "op", "pid", "stack", "key", "child", "level", "ins", "freed", "found"}
        = DOMAIN th[t]
  BY <1>2 DEF ThreadShape
<1>3. \A u \in Threads \ {t} : th'[u] = th[u]
  BY ThreadFrame
<1>4. Return(t) => th'[t].child = NoPage
  BY <1>1, <1>2 DEF Return
<1>5. Insert(t) \/ CreateNewRoot(t) \/ Delete(t) => th'[t].child = NoPage
  BY <1>4 DEF Insert, CreateNewRoot, Delete
<1>6. Split(t) => th'[t].child = Len(nodes) + 1 /\ th'[t].pc \in {"root", "latch"}
  <2> SUFFICES ASSUME Split(t)
               PROVE  th'[t].child = Len(nodes) + 1 /\ th'[t].pc \in {"root", "latch"}
    OBVIOUS
  <2> DEFINE k == Sentinel(nodes[th[t].pid])
             new == Len(nodes) + 1
             freed == nodes[th[t].pid].level > 0
             S == {k} \union (IF freed THEN FreedReads ELSE {})
  <2>1. \/ th' = [th EXCEPT ![t].pc = "root", ![t].key = k,
                            ![t].child = new, ![t].freed = freed]
        \/ \E seen \in S :
             th' = [th EXCEPT ![t].pc = "latch", ![t].key = seen,
                              ![t].child = new, ![t].pid = Last(th[t].stack),
                              ![t].stack = Front(th[t].stack)]
    BY DEF Split, Node
  <2> HIDE DEF k, new, freed, S
  <2>2. CASE th' = [th EXCEPT ![t].pc = "root", ![t].key = k,
                              ![t].child = new, ![t].freed = freed]
    <3>1. th'[t] = [th[t] EXCEPT !.pc = "root", !.key = k, !.child = new, !.freed = freed]
      BY <1>1, <2>2
    <3> QED BY <3>1, <1>8 DEF new
  <2>3. ASSUME NEW seen \in S,
               th' = [th EXCEPT ![t].pc = "latch", ![t].key = seen,
                                ![t].child = new, ![t].pid = Last(th[t].stack),
                                ![t].stack = Front(th[t].stack)]
        PROVE  th'[t].child = Len(nodes) + 1 /\ th'[t].pc \in {"root", "latch"}
    <3>1. th'[t] = [th[t] EXCEPT !.pc = "latch", !.key = seen, !.child = new,
                                 !.pid = Last(th[t].stack), !.stack = Front(th[t].stack)]
      BY <1>1, <2>3
    <3> QED BY <3>1, <1>8 DEF new
  <2> QED BY <2>1, <2>2, <2>3
<1>7. ASSUME ~(Insert(t) \/ Split(t) \/ CreateNewRoot(t)) PROVE th'[t].child = th[t].child
  <2>1. CASE DropRight(t) \/ DropDown(t) \/ WriteLatch(t) \/ GoRight(t)
    BY <1>1, <1>8, <2>1 DEF DropRight, DropDown, WriteLatch, GoRight
  <2>7. CASE Begin(t)
    BY <1>1, <1>8, <2>7 DEF Begin
  <2>8. CASE Arrive(t)
    BY <1>1, <1>8, <2>8 DEF Arrive
  <2>2. CASE CheckUnique(t)
    <3>1. th[t].child = NoPage
      BY <2>2 DEF CheckUnique
    <3> QED BY <1>1, <1>8, <1>4, <2>2, <3>1 DEF CheckUnique
  <2>3. CASE Crab(t) \/ NotRoot(t) \/ Redrop(t)
    BY <1>1, <1>8, <2>3 DEF Crab, NotRoot, Redrop
  <2>4. CASE Delete(t)
    <3>1. th[t].child = NoPage
      BY <1>2, <2>4 DEF Delete, CallOK
    <3> QED BY <1>5, <2>4, <3>1
  <2>5. CASE GetRight(t) \/ GetCollect(t) \/ GetNext(t)
    BY <1>1, <1>8, <2>5 DEF GetRight, GetCollect, GetNext
  <2>6. CASE GetReturn(t)
    <3>1. th[t].child = NoPage
      BY <1>2, <2>6 DEF GetReturn, At, CallOK
    <3> QED BY <1>4, <2>6, <3>1 DEF GetReturn
  <2> QED BY <1>7, <2>1, <2>2, <2>3, <2>4, <2>5, <2>6, <2>7, <2>8 DEF Step
<1> QED BY <1>3, <1>5, <1>6, <1>7

\* A child is a page: what a separator leads to, and what a thread carries.
LEMMA ChildrenArePages ==
  ASSUME TreeInv
  PROVE  /\ \A c : Hangs(nodes, c) => c = NoPage \/ c \in DOMAIN nodes
         /\ \A u \in Threads : th[u].child # NoPage =>
              th[u].child \in DOMAIN nodes /\ th[u].child # root
<1>1. PagesOK(nodes, root)
  BY DEF TreeInv
<1>2. NodesOK(nodes) /\ Separated(nodes) /\ Top(nodes, root)
  BY <1>1 DEF PagesOK
<1>3. ASSUME NEW q \in DOMAIN nodes, NEW s \in nodes[q].slots
      PROVE  s.child = NoPage \/ s.child \in DOMAIN nodes
  <2>1. nodes[q].level \in Nat
    BY <1>2, NodeFacts
  <2> QED BY <2>1, <1>2 DEF Separated
<1>4. ASSUME NEW u \in Threads, th[u].child # NoPage
      PROVE  th[u].child \in DOMAIN nodes /\ th[u].child # root
  <2>1. CarriedOK(nodes, th[u])
    BY DEF TreeInv, ThreadOK
  <2>2. th[u].child \in DOMAIN nodes /\ LowFence(nodes, th[u].child) > 0
    BY <1>4, <2>1 DEF CarriedOK
  <2>3. LowFence(nodes, root) = 0
    BY <1>2, LowFenceLeftmost DEF Top
  <2> QED BY <2>2, <2>3
<1> QED BY <1>3, <1>4 DEF Hangs

\* A split's page is carried until the step that makes it hang; no other
\* thread carries it.
LEMMA CarryStep ==
  ASSUME TreeInv, CarryInv, NEW t \in Threads, Step(t)
  PROVE  CarryInv'
<1> DEFINE C(u) == th[u].child
           D(u) == th'[u].child
           s == NewSlot(t)
<1>1. /\ \A p \in DOMAIN nodes \ {root} : Hangs(nodes, p) \/ \E u \in Threads : C(u) = p
      /\ \A u \in Threads : C(u) # NoPage => ~Hangs(nodes, C(u))
      /\ \A u, v \in Threads : C(u) # NoPage /\ C(u) = C(v) => u = v
  BY DEF CarryInv
<1>2. /\ \A u \in Threads \ {t} : D(u) = C(u)
      /\ Insert(t) \/ CreateNewRoot(t) \/ Delete(t) => D(t) = NoPage
      /\ Split(t) => D(t) = Len(nodes) + 1
      /\ ~(Insert(t) \/ Split(t) \/ CreateNewRoot(t)) => D(t) = C(t)
  BY ChildStep
<1>3. /\ \A c : Hangs(nodes, c) => c = NoPage \/ c \in DOMAIN nodes
      /\ \A u \in Threads : C(u) # NoPage => C(u) \in DOMAIN nodes /\ C(u) # root
      /\ NoPage \notin DOMAIN nodes
  BY ChildrenArePages, ThreadAt, NodeFacts
<1>4. PagesOK(nodes, root) /\ NodesOK(nodes) /\ root \in DOMAIN nodes
  BY ThreadAt DEF PagesOK, Top
<1> SUFFICES
      /\ \A p \in DOMAIN nodes' \ {root'} : Hangs(nodes', p) \/ \E u \in Threads : D(u) = p
      /\ \A u \in Threads : D(u) # NoPage => ~Hangs(nodes', D(u))
      /\ \A u, v \in Threads : D(u) # NoPage /\ D(u) = D(v) => u = v
  BY DEF CarryInv
<1> HIDE DEF C, D
<1>5. CASE (nodes' = nodes /\ root' = root) /\ ~(Insert(t) \/ Split(t) \/ CreateNewRoot(t))
  <2>1. \A u \in Threads : D(u) = C(u)
    BY <1>2, <1>5
  <2> QED BY <1>1, <1>5, <2>1
<1>6. CASE Insert(t)
  <2>1. /\ MayPut(t) /\ IsPut(nodes, th[t].pid, s, nodes') /\ th[t].pid \in DOMAIN nodes
        /\ s.child = C(t) /\ root' = root
    BY <1>6, InsertPages, PutSlot DEF C
  <2> HIDE DEF s
  <2>2. \A c : Hangs(nodes', c) <=> Hangs(nodes, c) \/ c = C(t)
    BY <2>1, PutEntries
  <2>3. DOMAIN nodes' = DOMAIN nodes
    BY <2>1 DEF IsPut, SameLinks
  <2> QED BY <1>1, <1>2, <1>3, <1>6, <2>1, <2>2, <2>3
<1>7. CASE Split(t)
  <2> DEFINE new == Len(nodes) + 1
  <2>1. /\ MayPut(t) /\ IsSplit(nodes, th[t].pid, s, nodes') /\ th[t].pid \in DOMAIN nodes
        /\ s.child = C(t) /\ root' = root /\ Cardinality(nodes[th[t].pid].slots) >= 2
    BY <1>7, SplitOfPages, PutSlot DEF C
  <2> HIDE DEF s
  <2>2. Lower(nodes[th[t].pid]) \subseteq nodes[th[t].pid].slots
    BY <1>4, <2>1, SentinelInside
  <2>3. \A c : Hangs(nodes', c) <=> Hangs(nodes, c) \/ c = C(t)
    BY <2>1, <2>2, SplitEntries
  <2>4. DOMAIN nodes' = DOMAIN nodes \union {new} /\ new \notin DOMAIN nodes /\ new # NoPage
    BY <2>1 DEF IsSplit
  <2>5. D(t) = new
    BY <1>2, <1>7
  <2> HIDE DEF new
  <2>6. \A p \in DOMAIN nodes' \ {root'} : Hangs(nodes', p) \/ \E u \in Threads : D(u) = p
    BY <1>1, <1>2, <2>1, <2>3, <2>4, <2>5
  <2>7. \A u \in Threads : D(u) # NoPage => ~Hangs(nodes', D(u))
    BY <1>1, <1>2, <1>3, <2>3, <2>4, <2>5
  <2>8. \A u, v \in Threads : D(u) # NoPage /\ D(u) = D(v) => u = v
    BY <1>1, <1>2, <1>3, <2>4, <2>5
  <2> QED BY <2>6, <2>7, <2>8
<1>8. CASE CreateNewRoot(t)
  <2> DEFINE new == Len(nodes) + 1
  <2>1. /\ IsGrowth(nodes, root, s, nodes') /\ root' = new
        /\ s.child = C(t) /\ C(t) # NoPage
    BY <1>8, GrowOfPages DEF C
  <2> HIDE DEF s
  <2>2. \A c : Hangs(nodes', c) <=> Hangs(nodes, c) \/ c = C(t) \/ c = root
    BY <1>4, <2>1, GrowEntries
  <2>3. DOMAIN nodes' = DOMAIN nodes \union {new}
    BY <2>1 DEF IsGrowth
  <2> HIDE DEF new
  <2> QED BY <1>1, <1>2, <1>3, <1>8, <2>1, <2>2, <2>3
<1>9. CASE Delete(t)
  <2>1. /\ root' = root /\ th[t].pid \in DOMAIN nodes
        /\ IsRemoved(nodes, th[t].pid, th[t].key, nodes')
        /\ \A x \in nodes[th[t].pid].slots : x.child = NoPage
        /\ th[t].op.kind = "Delete"
    BY <1>9, DeletePages
  <2>2. \A c : c # NoPage => (Hangs(nodes', c) <=> Hangs(nodes, c))
    BY <2>1, RemoveEntries
  <2>3. DOMAIN nodes' = DOMAIN nodes
    BY <2>1 DEF IsRemoved, SameLinks
  <2>4. C(t) = NoPage /\ D(t) = NoPage
    <3>1. CallOK(th[t])
      BY ThreadAt DEF ThreadOK
    <3> QED BY <1>2, <1>9, <2>1, <3>1 DEF CallOK, C
  <2>5. \A u \in Threads : D(u) = C(u)
    BY <1>2, <2>4
  <2> QED BY <1>1, <1>3, <2>1, <2>2, <2>3, <2>5
<1> QED BY <1>5, <1>6, <1>7, <1>8, <1>9, PageKinds

\* A page hangs under one page only: its separator is its low fence.
LEMMA OneParent ==
  ASSUME NEW ns, NEW r, PagesOK(ns, r), NEW p, p # NoPage,
         NEW q1 \in DOMAIN ns, NEW s1 \in ns[q1].slots, s1.child = p,
         NEW q2 \in DOMAIN ns, NEW s2 \in ns[q2].slots, s2.child = p
  PROVE  q1 = q2
<1>1. NodesOK(ns) /\ Fenced(ns) /\ Apart(ns) /\ Separated(ns)
  BY DEF PagesOK
<1>2. ASSUME NEW q \in DOMAIN ns, NEW s \in ns[q].slots, s.child = p
      PROVE  /\ ns[p].level = ns[q].level - 1 /\ LowFence(ns, p) = s.key
             /\ ns[q].level \in Nat /\ s.key \in Nat /\ Covers(ns, q, s.key)
  <2>1. ns[q].level \in Nat /\ s.key \in Nat
    BY <1>1, NodeFacts
  <2>2. ns[q].level > 0
    BY <1>1, <1>2, <2>1 DEF Separated
  <2> QED BY <1>1, <1>2, <2>1, <2>2 DEF Separated, Fenced
<1>3. /\ ns[q1].level = ns[q2].level /\ s1.key = s2.key /\ s1.key \in Nat
      /\ Covers(ns, q1, s1.key) /\ Covers(ns, q2, s1.key)
  BY <1>2
<1> QED BY <1>1, <1>3, CoversOnce

\* When no call runs, every page but the root hangs under exactly one page: the
\* separator of every split arrives, through a second descent or a new root if
\* need be, and only once.
THEOREM SeparatorsCompleteAlways ==
  ASSUME FreedReads = {}
  PROVE  Spec => []SeparatorsComplete
<1> DEFINE I == LevelConsistency => TreeInv /\ CarryInv
<1>1. Init => I
  <2> SUFFICES ASSUME Init PROVE CarryInv
    BY TreeInit
  <2>1. nodes = <<InitHeader(0, {})>> /\ root = 1 /\ th = [t \in Threads |-> IdleThread]
    BY DEF Init
  <2>2. DOMAIN nodes = {1} /\ \A t \in Threads : th[t].child = NoPage
    BY <2>1 DEF IdleThread
  <2> QED BY <2>1, <2>2 DEF CarryInv
<1>2. ASSUME I, [Next]_vars PROVE I'
  <2>1. CASE UNCHANGED vars
    <3>1. nodes' = nodes /\ LevelConsistency' = LevelConsistency
      BY <2>1 DEF vars, LevelConsistency
    <3>2. Entries' = Entries
      BY <2>1 DEF vars, Entries, Leaves
    <3>3. TreeInv => TreeInv'
      BY <2>1, <3>1, <3>2 DEF vars, TreeInv, ShapeOK, EntriesAsked
    <3>4. CarryInv => CarryInv'
      BY <2>1, <3>1 DEF vars, CarryInv
    <3> QED BY <1>2, <3>1, <3>3, <3>4
  <2>2. CASE LevelConsistency /\ \E t \in Threads : Step(t) /\ Observe
    BY <1>2, <2>2, TreeStep, CarryStep
  <2> QED BY <1>2, <2>1, <2>2 DEF Next
<1>3. I => SeparatorsComplete
  <2> SUFFICES ASSUME TreeInv, CarryInv, Quiet, NEW p \in DOMAIN nodes \ {root}
               PROVE  Cardinality({q \in DOMAIN nodes :
                                     \E s \in nodes[q].slots : s.child = p}) = 1
    BY DEF SeparatorsComplete
  <2> DEFINE Q == {q \in DOMAIN nodes : \E s \in nodes[q].slots : s.child = p}
  <2>1. PagesOK(nodes, root) /\ NodesOK(nodes)
    BY DEF TreeInv, PagesOK
  <2>2. p # NoPage
    BY <2>1, NodeFacts
  <2>3. \A t \in Threads : th[t].child = NoPage
    <3> TAKE t \in Threads
    <3>1. th[t].pc = "idle" /\ FormOK(nodes, th[t])
      BY DEF Quiet, At, TreeInv, ThreadOK
    <3>2. th[t] = IdleThread
      BY <3>1 DEF FormOK
    <3> QED BY <3>2 DEF IdleThread
  <2>4. Hangs(nodes, p)
    BY <2>2, <2>3 DEF CarryInv
  <2>5. PICK q \in DOMAIN nodes : \E s \in nodes[q].slots : s.child = p
    BY <2>4 DEF Hangs
  <2>6. \A q2 \in Q : q2 = q
    BY <2>1, <2>2, <2>5, OneParent
  <2>7. Q = {q}
    BY <2>5, <2>6
  <2> HIDE DEF Q
  <2>8. Cardinality(Q) = 1
    BY <2>7, FS_Singleton
  <2> QED BY <2>8 DEF Q
<1> QED BY <1>1, <1>2, <1>3, PTL DEF Spec

-----------------------------------------------------------------------------
(* Lookups.                                                                *)

\* A Get looks for tid 0, which is below all keys of its prefix.
LEMMA GetKey ==
  ASSUME NEW T \in ThreadShape, CallOK(T), T.op.kind = "Get"
  PROVE  /\ T.child = NoPage /\ T.key = Low(T.op.key) /\ T.key \in Nat
         /\ \A k \in Nat : Prefix(k) = Prefix(T.key) => T.key <= k
<1>1. T.child = NoPage /\ T.key = Low(T.op.key)
  BY DEF CallOK
<1>2. T.op.key \in Nat /\ T.key \in Nat
  BY ThreadFacts
<1> QED BY <1>1, <1>2, LowKey

\* Keys of entries are numbers.
LEMMA LeafKeys ==
  ASSUME NEW ns, NodesOK(ns), NEW k, InLeaf(ns, k)
  PROVE  k \in Nat
  BY NodeFacts DEF InLeaf

\* What others do leaves a Get where it was: high fences only come down.
LEMMA GetOthers ==
  ASSUME NEW ns, NEW ms, NodesOK(ns), NodesOK(ms), Extends(ns, ms),
         \A p \in DOMAIN ns : ns[p].high # NoKey =>
           ms[p].high # NoKey /\ ms[p].high <= ns[p].high,
         NEW T, T.pc # "idle" => T.pid \in DOMAIN ns,
         NEW M, NEW Y, GetOK(ns, T, M, Y), NEW N, NEW Z,
         N \subseteq M, Y \subseteq Z, \A k \in N : InLeaf(ms, k)
  PROVE  GetOK(ms, T, N, Z)
<1> SUFFICES ASSUME T.op.kind = "Get", T.pc # "idle"
             PROVE  GetOK(ms, T, N, Z)
  BY DEF GetOK
<1>1. /\ T.found \subseteq {k \in Y : Prefix(k) = Prefix(T.key)}
      /\ \A k \in M :
         Prefix(k) = Prefix(T.key) /\ k \notin T.found =>
           /\ T.pc # "returned"
           /\ LowFence(ns, T.pid) <= k
           /\ T.pc = "next" => ns[T.pid].high # NoKey /\ ns[T.pid].high <= k
  BY DEF GetOK
<1>2. T.found \subseteq {k \in Z : Prefix(k) = Prefix(T.key)}
  BY <1>1
<1>3. T.pid \in DOMAIN ns /\ LowFence(ms, T.pid) = LowFence(ns, T.pid)
  BY DEF Extends
<1>4. ns[T.pid].high \in Nat /\ ms[T.pid].high \in Nat
  BY <1>3, NodeFacts DEF Extends
<1>5. ASSUME NEW k \in N, Prefix(k) = Prefix(T.key), k \notin T.found
      PROVE  /\ T.pc # "returned"
             /\ LowFence(ms, T.pid) <= k
             /\ T.pc = "next" => ms[T.pid].high # NoKey /\ ms[T.pid].high <= k
  <2>1. k \in Nat
    BY LeafKeys
  <2>2. /\ T.pc # "returned" /\ LowFence(ns, T.pid) <= k
        /\ T.pc = "next" => ns[T.pid].high # NoKey /\ ns[T.pid].high <= k
    BY <1>1, <1>5
  <2> QED BY <1>3, <1>4, <2>1, <2>2
<1> QED BY <1>2, <1>5 DEF GetOK

\* The next page of a descent is not to the right of the key of tid 0.
LEMMA GetDrops ==
  ASSUME NEW ns, NodesOK(ns), NEW l, NEW t, NEW U, ThreadOK(ns, l, t, U), U.pc = "drop",
         NEW N, NEW Z, \A k \in N : InLeaf(ns, k),
         U.op.kind = "Get" => U.found \subseteq {k \in Z : Prefix(k) = Prefix(U.key)}
  PROVE  GetOK(ns, U, N, Z)
<1> SUFFICES ASSUME U.op.kind = "Get" PROVE GetOK(ns, U, N, Z)
  BY DEF GetOK
<1>1. U \in ThreadShape /\ CallOK(U) /\ LowFence(ns, U.pid) <= U.key
  BY DEF ThreadOK, FormOK, PlaceOK
<1>2. U.key \in Nat /\ \A k \in Nat : Prefix(k) = Prefix(U.key) => U.key <= k
  BY <1>1, GetKey
<1>3. LowFence(ns, U.pid) \in Nat
  BY LowFenceType
<1>4. \A k \in N : Prefix(k) = Prefix(U.key) => LowFence(ns, U.pid) <= k
  <2> SUFFICES ASSUME NEW k \in N, Prefix(k) = Prefix(U.key) PROVE LowFence(ns, U.pid) <= k
    OBVIOUS
  <2>1. k \in Nat
    BY LeafKeys
  <2> QED BY <1>1, <1>2, <1>3, <2>1
<1> QED BY <1>4 DEF GetOK

\* The right sibling of a leaf that was split, or that has been collected.
LEMMA GetGoesRight ==
  ASSUME NEW ns, NEW r, PagesOK(ns, r), NEW l, NEW t, NEW T, ThreadOK(ns, l, t, T),
         \/ T.pc = "get" /\ HasSplit(ns[T.pid], T.key)
         \/ T.pc = "next" /\ ns[T.pid].rlink # NoPage,
         NEW U, U = [T EXCEPT !.pc = "get", !.pid = ns[T.pid].rlink],
         NEW N, NEW Z, GetOK(ns, T, N, Z)
  PROVE  GetOK(ns, U, N, Z)
<1>1. /\ T \in ThreadShape /\ CallOK(T) /\ T.pid \in DOMAIN ns /\ T.op.kind = "Get"
      /\ NodesOK(ns) /\ Linked(ns)
  BY DEF ThreadOK, FormOK, CallOK, PagesOK
<1>2. /\ U.pc = "get" /\ U.pid = ns[T.pid].rlink /\ U.key = T.key /\ U.op = T.op
      /\ U.found = T.found
  BY <1>1 DEF ThreadShape
<1>3. T.key \in Nat /\ \A k \in Nat : Prefix(k) = Prefix(T.key) => T.key <= k
  BY <1>1, GetKey
<1>4. ns[T.pid].rlink # NoPage /\ ns[T.pid].high \in Nat
  BY <1>1, NodeFacts DEF Linked, HasSplit
<1>5. LowFence(ns, ns[T.pid].rlink) = ns[T.pid].high
  BY <1>1, <1>4, LowFenceOfRight
<1>6. /\ T.found \subseteq {k \in Z : Prefix(k) = Prefix(T.key)}
      /\ \A k \in N : InLeaf(ns, k)
      /\ \A k \in N : Prefix(k) = Prefix(T.key) /\ k \notin T.found /\ T.pc = "next"
                        => ns[T.pid].high <= k
  BY <1>1 DEF GetOK
<1>7. ASSUME NEW k \in N, Prefix(k) = Prefix(T.key), k \notin T.found
      PROVE  LowFence(ns, U.pid) <= k
  <2>1. k \in Nat
    BY <1>1, <1>6, LeafKeys
  <2>2. CASE T.pc = "next"
    BY <1>2, <1>5, <1>6, <1>7, <2>2
  <2>3. CASE HasSplit(ns[T.pid], T.key)
    BY <1>2, <1>3, <1>4, <1>5, <1>7, <2>1, <2>3 DEF HasSplit
  <2> QED BY <2>2, <2>3
<1>8. /\ U.found \subseteq {k \in Z : Prefix(k) = Prefix(U.key)}
      /\ \A k \in N : InLeaf(ns, k)
  BY <1>2, <1>6
<1> QED BY <1>2, <1>7, <1>8 DEF GetOK

\* What a Get collects on a leaf.
Collected(n, k) == {x \in Keys(n) : Prefix(x) = Prefix(k)}

\* A leaf is collected: what is still missing is to the right of it, and the
\* fence then has the prefix.
LEMMA GetCollects ==
  ASSUME NEW ns, NEW r, PagesOK(ns, r), NEW l, NEW t, NEW T, ThreadOK(ns, l, t, T),
         T.pc = "get", ~HasSplit(ns[T.pid], T.key), NEW here,
         here = Collected(ns[T.pid], T.key), NEW U, U.found = T.found \union here,
         U.pc = "next" \/ ~HighPrefixCmp(ns[T.pid], T.key),
         U.pid = T.pid, U.key = T.key, U.op = T.op,
         NEW N, NEW Z, GetOK(ns, T, N, Z), here \subseteq Z
  PROVE  GetOK(ns, U, N, Z)
<1> DEFINE n == ns[T.pid]
<1>1. /\ T \in ThreadShape /\ CallOK(T) /\ T.pid \in DOMAIN ns /\ T.op.kind = "Get"
      /\ NodesOK(ns) /\ Fenced(ns) /\ Apart(ns) /\ PlaceOK(ns, T)
  BY DEF ThreadOK, FormOK, CallOK, PagesOK
<1>3. /\ T.key \in Nat /\ T.child = NoPage
      /\ \A k \in Nat : Prefix(k) = Prefix(T.key) => T.key <= k
  BY <1>1, GetKey
<1>4. n.level = 0 /\ n.high \in Nat
  BY <1>1, <1>3, NodeFacts DEF PlaceOK
<1>5. /\ T.found \subseteq {k \in Z : Prefix(k) = Prefix(T.key)}
      /\ \A k \in N : InLeaf(ns, k)
      /\ \A k \in N : Prefix(k) = Prefix(T.key) /\ k \notin T.found
                        => LowFence(ns, T.pid) <= k
  BY <1>1 DEF GetOK
<1> HIDE DEF n
<1>6. ASSUME NEW k \in N, Prefix(k) = Prefix(T.key), k \notin T.found, k \notin here
      PROVE  LowFence(ns, T.pid) <= k /\ n.high # NoKey /\ n.high <= k /\ U.pc = "next"
  <2>1. k \in Nat /\ InLeaf(ns, k) /\ LowFence(ns, T.pid) <= k
    BY <1>1, <1>5, <1>6, LeafKeys
  <2>2. PICK q \in DOMAIN ns : ns[q].level = 0 /\ \E s \in ns[q].slots : s.key = k
    BY <2>1 DEF InLeaf
  <2>3. Covers(ns, q, k)
    BY <1>1, <2>2 DEF Fenced
  <2>4. k \notin Keys(n)
    BY <1>6 DEF n, Collected
  <2>5. q # T.pid
    BY <2>2, <2>4 DEF Keys, n
  <2>6. ~Covers(ns, T.pid, k)
    BY <1>1, <1>4, <2>1, <2>2, <2>3, <2>5, CoversOnce DEF n
  <2>7. n.high # NoKey /\ n.high <= k
    BY <1>4, <2>1, <2>6 DEF Covers, n
  <2>8. T.key <= n.high
    BY <1>3, <1>4, <2>7 DEF HasSplit, n
  <2>9. Prefix(n.high) = Prefix(T.key)
    BY <1>3, <1>4, <1>6, <2>1, <2>7, <2>8, PrefixBetween
  <2> QED BY <2>1, <2>7, <2>9 DEF HighPrefixCmp, n
<1>7. U.found \subseteq {k \in Z : Prefix(k) = Prefix(U.key)}
  BY <1>5 DEF Collected
<1>8. \A k \in N : InLeaf(ns, k)
  BY <1>5
<1>9. ASSUME NEW k \in N, Prefix(k) = Prefix(U.key), k \notin U.found
      PROVE  /\ U.pc # "returned" /\ LowFence(ns, U.pid) <= k
             /\ ns[U.pid].high # NoKey /\ ns[U.pid].high <= k
  BY <1>6, <1>9 DEF n
<1> QED BY <1>7, <1>8, <1>9 DEF GetOK

\* The bookkeeping of a call that runs and of one that starts.
LEMMA Observed ==
  ASSUME Observe, NEW u \in Threads, th'[u].op.kind = "Get", th'[u].pc # "idle"
  PROVE  /\ th[u].pc = "idle" => must'[u] = Entries' /\ may'[u] = Entries'
         /\ th[u].pc # "idle" => /\ must'[u] = must[u] \intersect Entries'
                                 /\ may'[u] = may[u] \union Entries'
  BY DEF Observe, At

\* High fences only come down: a split cuts the interval of its page.
LEMMA HighStep ==
  ASSUME TreeInv, NEW t \in Threads, Step(t)
  PROVE  \A p \in DOMAIN nodes : nodes[p].high # NoKey =>
           nodes'[p].high # NoKey /\ nodes'[p].high <= nodes[p].high
<1>1. PagesOK(nodes, root) /\ NodesOK(nodes)
  BY ThreadAt
<1>2. \A p \in DOMAIN nodes : nodes[p].high \in Nat
  BY <1>1, NodeFacts
<1>3. CASE nodes' = nodes
  BY <1>2, <1>3
<1>4. CASE Insert(t)
  <2>1. SameLinks(nodes, nodes')
    BY <1>4, InsertPages DEF IsPut
  <2> QED BY <1>2, <2>1 DEF SameLinks
<1>5. CASE Split(t)
  <2> DEFINE q == th[t].pid
  <2>1. /\ IsSplit(nodes, q, NewSlot(t), nodes') /\ q \in DOMAIN nodes
        /\ Cardinality(nodes[q].slots) >= 2
    BY <1>5, SplitOfPages, PutSlot
  <2> HIDE DEF q
  <2>2. nodes'[q].high = Sentinel(nodes[q]) /\ \A p \in DOMAIN nodes \ {q} : nodes'[p] = nodes[p]
    BY <2>1 DEF IsSplit
  <2>3. /\ Sentinel(nodes[q]) \in Nat /\ Sentinel(nodes[q]) # NoKey
        /\ Covers(nodes, q, Sentinel(nodes[q]))
    BY <1>1, <2>1, SentinelInside
  <2>4. nodes[q].high # NoKey => Sentinel(nodes[q]) <= nodes[q].high
    BY <1>2, <2>1, <2>3 DEF Covers
  <2> QED BY <1>2, <2>2, <2>3, <2>4
<1>6. CASE CreateNewRoot(t)
  <2>1. \A p \in DOMAIN nodes : nodes'[p] = nodes[p]
    BY <1>6, GrowOfPages DEF IsGrowth
  <2> QED BY <1>2, <2>1
<1>7. CASE Delete(t)
  <2>1. SameLinks(nodes, nodes')
    BY <1>7, DeletePages DEF IsRemoved
  <2> QED BY <1>2, <2>1 DEF SameLinks
<1> QED BY <1>3, <1>4, <1>5, <1>6, <1>7, PageKinds

\* The Get that makes the step.
LEMMA GetOwnStep ==
  ASSUME FreedReads = {}, TreeInv, TreeInv', GetInv, NEW t \in Threads, Step(t), Observe
  PROVE  GetOK(nodes', th'[t], must'[t], may'[t])
<1> DEFINE T == th[t]
           U == th'[t]
           M == must[t]
           Y == may[t]
           N == must'[t]
           Z == may'[t]
<1> SUFFICES ASSUME U.op.kind = "Get", U.pc # "idle" PROVE GetOK(nodes', U, N, Z)
  BY DEF GetOK
<1>1. th \in [Threads -> ThreadShape] /\ PagesOK(nodes, root) /\ NodesOK(nodes)
  BY ThreadAt DEF TreeInv, ShapeOK
<1>2. /\ T \in ThreadShape /\ ThreadOK(nodes, latch, t, T) /\ CallOK(T)
      /\ T.pc # "idle" => T.pid \in DOMAIN nodes
      /\ T.pc = "idle" => T = IdleThread
  BY ThreadAt DEF ThreadOK, FormOK
<1>3. /\ {"pc", "op", "pid", "stack", "key", "child", "level", "ins", "freed", "found"}
           = DOMAIN T
  BY <1>2 DEF ThreadShape
<1>4. ThreadOK(nodes', latch', t, U) /\ NodesOK(nodes')
  BY DEF TreeInv, PagesOK
<1>5. U.pc \in {"drop", "get", "next", "returned"}
  <2>1. CallOK(U) /\ U.pc \in PCs
    BY <1>4, ThreadFacts DEF ThreadOK, FormOK
  <2> QED BY <2>1 DEF CallOK, PCs
<1>6. /\ T.pc = "idle" => N = Entries' /\ Z = Entries'
      /\ T.pc # "idle" => N = M \intersect Entries' /\ Z = Y \union Entries'
  BY Observed
<1>7. \A k \in N : InLeaf(nodes', k)
  BY <1>6, EntriesInLeaf
<1>8. GetOK(nodes, T, M, Y)
  BY DEF GetInv
<1>9. T.pc # "idle" => N \subseteq M /\ Y \subseteq Z
  BY <1>6
<1> HIDE DEF M, Y, N, Z
<1>20. T.pc # "idle" => GetOK(nodes, T, N, Z)
  BY <1>8, <1>9 DEF GetOK
<1>10. CASE Begin(t)
  <2>1. U.pc = "drop" /\ U.found = {}
    <3>1. T = IdleThread
      BY <1>2, <1>10 DEF Begin, At
    <3>2. T.found = {}
      BY <3>1 DEF IdleThread
    <3> QED BY <1>1, <1>3, <1>10, <3>2 DEF Begin
  <2> QED BY <1>4, <1>7, <2>1, GetDrops
<1>11. CASE DropRight(t) \/ DropDown(t) \/ Redrop(t)
  <2>1. /\ U.pc = "drop" /\ U.op = T.op /\ U.found = T.found /\ U.key = T.key
        /\ T.pc # "idle"
    BY <1>1, <1>3, <1>11 DEF DropRight, DropDown, Redrop, At
  <2>2. T.found \subseteq {k \in Y : Prefix(k) = Prefix(T.key)}
    BY <1>8, <2>1 DEF GetOK
  <2>3. U.found \subseteq {k \in Z : Prefix(k) = Prefix(U.key)}
    BY <1>9, <2>1, <2>2
  <2> HIDE DEF T, U
  <2> QED BY <1>4, <1>7, <2>1, <2>3, GetDrops DEF U
<1>12. CASE Arrive(t)
  <2>1. /\ U.op = T.op /\ U.found = T.found /\ U.pid = T.pid
        /\ T.pc # "idle" /\ U.pc \in {"get", "latch"} /\ nodes' = nodes
    BY <1>1, <1>3, <1>12 DEF Arrive, At
  <2>2. U.key = T.key
    BY <1>1, <1>3, <1>12 DEF Arrive
  <2> HIDE DEF T, U
  <2>3. /\ T.found \subseteq {k \in Y : Prefix(k) = Prefix(T.key)}
        /\ \A k \in M : Prefix(k) = Prefix(T.key) /\ k \notin T.found
                           => LowFence(nodes, T.pid) <= k
    BY <1>8, <2>1 DEF GetOK
  <2>4. U.found \subseteq {k \in Z : Prefix(k) = Prefix(U.key)}
    BY <1>9, <2>1, <2>2, <2>3
  <2>5. \A k \in N : Prefix(k) = Prefix(U.key) /\ k \notin U.found
                           => LowFence(nodes', U.pid) <= k
    BY <1>9, <2>1, <2>2, <2>3
  <2> QED BY <1>7, <2>1, <2>4, <2>5 DEF GetOK
<1>13. CASE GetRight(t)
  <2>1. T.pc = "get" /\ HasSplit(nodes[T.pid], T.key) /\ nodes' = nodes
    BY <1>13 DEF GetRight, At, Node
  <2>2. U = [T EXCEPT !.pid = nodes[T.pid].rlink]
    BY <1>1, <1>13 DEF GetRight, Node
  <2> HIDE DEF T, U
  <2>3. U = [T EXCEPT !.pc = "get", !.pid = nodes[T.pid].rlink]
    BY <1>2, <2>1, <2>2 DEF ThreadShape
  <2>5. GetOK(nodes, U, N, Z)
    BY <1>1, <1>2, <1>20, <2>1, <2>3, GetGoesRight
  <2> QED BY <2>1, <2>5
<1>14. CASE GetCollect(t)
  <2> DEFINE here == {k \in Keys(nodes[T.pid]) : Prefix(k) = Prefix(T.key)}
             pc == IF HighPrefixCmp(nodes[T.pid], T.key) THEN "next" ELSE "returned"
  <2>1. T.pc = "get" /\ ~HasSplit(nodes[T.pid], T.key) /\ nodes' = nodes
    BY <1>14 DEF GetCollect, At, Node
  <2>2. U = [T EXCEPT !.found = T.found \union here, !.pc = pc]
    BY <1>1, <1>14 DEF GetCollect, Node
  <2>3. here \subseteq Z
    <3>1. nodes[T.pid].level = 0 /\ T.pid \in DOMAIN nodes
      BY <1>2, <2>1 DEF ThreadOK, PlaceOK, CallOK
    <3>2. \A k \in Keys(nodes[T.pid]) : InLeaf(nodes, k)
      BY <3>1 DEF InLeaf, Keys
    <3>3. \A k \in Keys(nodes[T.pid]) : k \in Entries'
      BY <2>1, <3>2, EntriesInLeaf
    <3> QED BY <1>6, <2>1, <3>3
  <2>4. T.pc # "idle" /\ GetOK(nodes, T, N, Z)
    BY <1>20, <2>1
  <2> HIDE DEF T, U
  <2>6. /\ U.found = T.found \union here /\ U.pid = T.pid /\ U.key = T.key /\ U.op = T.op
        /\ U.pc = "next" \/ ~HighPrefixCmp(nodes[T.pid], T.key)
        /\ here = Collected(nodes[T.pid], T.key)
    BY <1>2, <2>2 DEF Collected, ThreadShape
  <2> HIDE DEF here, pc
  <2>5. GetOK(nodes, U, N, Z)
    BY <1>1, <1>2, <2>1, <2>3, <2>4, <2>6, GetCollects
  <2> QED BY <2>1, <2>5
<1>15. CASE GetNext(t)
  <2>1. T.pc = "next" /\ nodes' = nodes /\ T.op.kind = "Get"
    BY <1>2, <1>15 DEF GetNext, At, CallOK
  <2>2. CASE nodes[T.pid].rlink = NoPage
    <3>1. U.found = T.found /\ U.key = T.key
      BY <1>1, <1>3, <1>15, <2>2 DEF GetNext, Node
    <3> HIDE DEF T, U
    <3>2. nodes[T.pid].high = NoKey
      BY <1>1, <1>2, <2>1, <2>2 DEF PagesOK, Linked
    <3>3. /\ T.found \subseteq {k \in Y : Prefix(k) = Prefix(T.key)}
          /\ \A k \in M : ~(Prefix(k) = Prefix(T.key) /\ k \notin T.found)
      BY <1>8, <2>1, <3>2 DEF GetOK
    <3>4. U.found \subseteq {k \in Z : Prefix(k) = Prefix(U.key)}
      BY <1>9, <2>1, <3>1, <3>3
    <3>5. \A k \in N : ~(Prefix(k) = Prefix(U.key) /\ k \notin U.found)
      BY <1>9, <2>1, <3>1, <3>3
    <3> QED BY <1>7, <3>4, <3>5 DEF GetOK
  <2>3. CASE nodes[T.pid].rlink # NoPage
    <3>1. U = [T EXCEPT !.pc = "get", !.pid = nodes[T.pid].rlink]
      BY <1>1, <1>15, <2>3 DEF GetNext, Node
    <3> HIDE DEF T, U
    <3>3. GetOK(nodes, U, N, Z)
      BY <1>1, <1>2, <1>20, <2>1, <2>3, <3>1, GetGoesRight
    <3> QED BY <2>1, <3>3
  <2> QED BY <2>2, <2>3
<1>16. CASE WriteLatch(t) \/ GoRight(t) \/ Crab(t) \/ NotRoot(t)
  <2>1. U.pc \in {"right", "latch", "check", "redrop"}
    BY <1>1, <1>3, <1>16 DEF WriteLatch, GoRight, Crab, NotRoot
  <2> QED BY <1>5, <2>1
<1>17. CASE CheckUnique(t)
  <2>1. Return(t) \/ U.pc \in {"crab", "put"}
    BY <1>1, <1>3, <1>17 DEF CheckUnique
  <2>2. Return(t) => U.pc = "idle"
    BY <1>1 DEF Return, IdleThread
  <2> QED BY <1>5, <2>1, <2>2
<1>18. CASE Insert(t) \/ CreateNewRoot(t) \/ Delete(t) \/ GetReturn(t)
  <2>1. Return(t)
    BY <1>18 DEF Insert, CreateNewRoot, Delete, GetReturn
  <2>2. U.pc = "idle"
    BY <1>1, <2>1 DEF Return, IdleThread
  <2> QED BY <2>2
<1>19. CASE Split(t)
  <2>1. U.pc \in {"root", "latch"}
    BY <1>1, <1>3, <1>19 DEF Split
  <2> QED BY <1>5, <2>1
<1> QED BY <1>10, <1>11, <1>12, <1>13, <1>14, <1>15, <1>16, <1>17, <1>18, <1>19 DEF Step

\* Every step that leaves the levels consistent keeps GetInv.
LEMMA GetInvStep ==
  ASSUME FreedReads = {}, TreeInv, GetInv, NEW t \in Threads, Step(t), Observe,
         LevelConsistency'
  PROVE  GetInv'
<1>1. TreeInv'
  BY TreeStep
<1>2. NodesOK(nodes) /\ NodesOK(nodes')
  BY <1>1 DEF TreeInv, PagesOK
<1>3. Extends(nodes, nodes')
  BY PageStep DEF LevelConsistency, Consistent
<1>4. \A p \in DOMAIN nodes : nodes[p].high # NoKey =>
        nodes'[p].high # NoKey /\ nodes'[p].high <= nodes[p].high
  BY HighStep
<1>5. ASSUME NEW u \in Threads \ {t}
      PROVE  GetOK(nodes', th'[u], must'[u], may'[u])
  <2> SUFFICES ASSUME th'[u].op.kind = "Get", th'[u].pc # "idle"
               PROVE  GetOK(nodes', th'[u], must'[u], may'[u])
    BY DEF GetOK
  <2> DEFINE T == th[u]
             M == must[u]
             Y == may[u]
             N == must'[u]
             Z == may'[u]
  <2>1. th'[u] = T
    BY ThreadFrame
  <2>2. T.pc # "idle" /\ T.pid \in DOMAIN nodes
    BY <2>1, ThreadAt
  <2>3. N = M \intersect Entries' /\ Z = Y \union Entries'
    BY <2>1, <2>2, Observed
  <2>4. GetOK(nodes, T, M, Y)
    BY DEF GetInv
  <2>5. N \subseteq M /\ Y \subseteq Z /\ \A k \in N : InLeaf(nodes', k)
    BY <2>3, EntriesInLeaf
  <2> HIDE DEF T, M, Y, N, Z
  <2>6. GetOK(nodes', T, N, Z)
    BY <1>2, <1>3, <1>4, <2>2, <2>4, <2>5, GetOthers
  <2> QED BY <2>1, <2>6 DEF N, Z
<1>6. GetOK(nodes', th'[t], must'[t], may'[t])
  BY <1>1, GetOwnStep
<1> QED BY <1>5, <1>6 DEF GetInv

\* A Get that is through has everything: what GetInv says of it.
LEMMA GetInvComplete ==
  ASSUME TreeInv, GetInv
  PROVE  GetComplete
<1> SUFFICES ASSUME NEW t \in Threads, th[t].pc = "returned"
             PROVE  LET mine(S) == {k \in S : Prefix(k) = Prefix(th[t].key)}
                    IN  mine(must[t]) \subseteq th[t].found /\ th[t].found \subseteq mine(may[t])
  BY DEF GetComplete, At
<1>1. th[t].op.kind = "Get"
  BY ThreadAt DEF ThreadOK, CallOK
<1>2. GetOK(nodes, th[t], must[t], may[t])
  BY DEF GetInv
<1> QED BY <1>1, <1>2 DEF GetOK

\* A step that breaks the levels takes no Get to its end, and those that are at
\* their end stay complete: must only shrinks, may only grows.
LEMMA BrokenStep ==
  ASSUME TreeInv, GetComplete, NEW t \in Threads, Step(t), Observe,
         LevelConsistency, ~LevelConsistency'
  PROVE  GetComplete'
<1>1. th \in [Threads -> ThreadShape]
  BY DEF TreeInv, ShapeOK
<1>2. ~(nodes' = nodes)
  BY DEF LevelConsistency
<1>3. Insert(t) \/ Split(t) \/ CreateNewRoot(t) \/ Delete(t)
  BY <1>2, PageKinds
<1>4. th'[t].pc # "returned"
  <2>1. CASE Insert(t) \/ CreateNewRoot(t) \/ Delete(t)
    BY <1>1, <2>1 DEF Insert, CreateNewRoot, Delete, Return, IdleThread
  <2>2. CASE Split(t)
    BY <2>2, ChildStep
  <2> QED BY <1>3, <2>1, <2>2
<1> SUFFICES ASSUME NEW u \in Threads, th'[u].pc = "returned"
             PROVE  LET mine(S) == {k \in S : Prefix(k) = Prefix(th'[u].key)}
                    IN  /\ mine(must'[u]) \subseteq th'[u].found
                        /\ th'[u].found \subseteq mine(may'[u])
  BY DEF GetComplete, At
<1>5. th'[u] = th[u] /\ th[u].pc = "returned" /\ th'[u].pc # "idle" /\ th[u].pc # "idle"
  BY <1>4, ThreadFrame
<1>6. th'[u].op.kind = "Get"
  BY <1>5, ThreadAt DEF ThreadOK, CallOK
<1>7. must'[u] = must[u] \intersect Entries' /\ may'[u] = may[u] \union Entries'
  BY <1>5, <1>6, Observed
<1>8. LET mine(S) == {k \in S : Prefix(k) = Prefix(th[u].key)}
      IN  mine(must[u]) \subseteq th[u].found /\ th[u].found \subseteq mine(may[u])
  BY <1>5 DEF GetComplete, At
<1> QED BY <1>5, <1>7, <1>8

\* A Get returns every entry of its prefix that was there from its first to its
\* last step, and nothing that was never there: InternalGet reads leaves that
\* others insert into, delete from and split, and latches none of them.
THEOREM GetCompleteAlways ==
  ASSUME FreedReads = {}
  PROVE  Spec => []GetComplete
<1> DEFINE I == GetComplete /\ (LevelConsistency => TreeInv /\ GetInv)
<1>1. Init => I
  <2> SUFFICES ASSUME Init PROVE TreeInv /\ GetInv
    BY GetInvComplete
  <2>1. TreeInv
    BY TreeInit
  <2>2. \A t \in Threads : th[t].pc = "idle"
    BY DEF Init, IdleThread
  <2> QED BY <2>1, <2>2 DEF GetInv, GetOK
<1>2. ASSUME I, [Next]_vars PROVE I'
  <2>1. CASE UNCHANGED vars
    <3>1. /\ nodes' = nodes /\ th' = th /\ must' = must /\ may' = may
          /\ LevelConsistency' = LevelConsistency
      BY <2>1 DEF vars, LevelConsistency
    <3>2. Entries' = Entries
      BY <2>1 DEF vars, Entries, Leaves
    <3>3. TreeInv => TreeInv'
      BY <2>1, <3>1, <3>2 DEF vars, TreeInv, ShapeOK, EntriesAsked
    <3>4. (GetInv => GetInv') /\ (GetComplete => GetComplete')
      BY <3>1 DEF GetInv, GetComplete, At
    <3> QED BY <1>2, <3>1, <3>3, <3>4
  <2>2. CASE LevelConsistency /\ \E t \in Threads : Step(t) /\ Observe
    <3>1. PICK t \in Threads : Step(t) /\ Observe
      BY <2>2
    <3>2. CASE LevelConsistency'
      <4>1. TreeInv' /\ GetInv'
        BY <1>2, <2>2, <3>1, <3>2, TreeStep, GetInvStep
      <4>2. GetComplete'
        BY <4>1, GetInvComplete, PTL
      <4> QED BY <4>1, <4>2
    <3>3. CASE ~LevelConsistency'
      BY <1>2, <2>2, <3>1, <3>3, BrokenStep
    <3> QED BY <3>2, <3>3
  <2> QED BY <1>2, <2>1, <2>2 DEF Next
<1> QED BY <1>1, <1>2, PTL DEF Spec

-----------------------------------------------------------------------------
(* Unique inserts.                                                         *)

\* What others do leaves the checked part checked: they put entries into, and
\* split, only leaves they have latched themselves.
LEMMA CheckedOthers ==
  ASSUME NEW ns, NEW ms, Extends(ns, ms), NEW l, NEW m, NEW u, NEW T,
         T.pc # "idle" => T.pid \in DOMAIN ns, CheckedOK(ns, l, u, T),
         \A p \in DOMAIN ms : ms[p].level = 0 => \A e \in Nat : Covers(ms, p, e) =>
           \E q \in DOMAIN ns : /\ ns[q].level = 0 /\ Covers(ns, q, e)
                                /\ l[q] = u => m[p] = u,
         \A e \in Nat : InLeaf(ms, e) =>
           \/ InLeaf(ns, e)
           \/ \E q \in DOMAIN ns : ns[q].level = 0 /\ Covers(ns, q, e) /\ l[q] # u
  PROVE  CheckedOK(ms, m, u, T)
<1> SUFFICES ASSUME T.pc \in {"crab", "check", "put"} PROVE CheckedOK(ms, m, u, T)
  BY DEF CheckedOK
<1>1. /\ \A p \in DOMAIN ns : ns[p].level = 0 =>
           \A e \in Nat : Done(ns, T, e) /\ Covers(ns, p, e) => l[p] = u
      /\ \A e \in Nat : InLeaf(ns, e) /\ Done(ns, T, e) => e % TidRange \in Dead
  BY DEF CheckedOK
<1>2. \A e : Done(ms, T, e) <=> Done(ns, T, e)
  <2>1. LowFence(ms, T.pid) = LowFence(ns, T.pid)
    BY DEF Extends
  <2> QED BY <2>1 DEF Done
<1>3. ASSUME NEW p \in DOMAIN ms, ms[p].level = 0, NEW e \in Nat, Done(ms, T, e),
             Covers(ms, p, e)
      PROVE  m[p] = u
  <2>1. PICK q \in DOMAIN ns : ns[q].level = 0 /\ Covers(ns, q, e) /\ (l[q] = u => m[p] = u)
    BY <1>3
  <2> QED BY <1>1, <1>2, <1>3, <2>1
<1>4. ASSUME NEW e \in Nat, InLeaf(ms, e), Done(ms, T, e) PROVE e % TidRange \in Dead
  BY <1>1, <1>2, <1>4
<1> QED BY <1>3, <1>4 DEF CheckedOK

\* The leaf looked at is checked like those before it.
LEMMA LeafChecked ==
  ASSUME NEW ns, NEW r, PagesOK(ns, r), NEW l, NEW t, NEW T, ThreadOK(ns, l, t, T),
         CheckedOK(ns, l, t, T), T.op.kind = "InsertUnique", T.child = NoPage,
         (T.pc = "right" /\ ~HasSplit(ns[T.pid], T.key)) \/ T.pc = "check",
         ~Conflict(ns[T.pid], T.op.key),
         NEW e \in Nat, Prefix(e) = Prefix(T.op.key),
         ns[T.pid].high # NoKey => e < ns[T.pid].high
  PROVE  /\ \A p \in DOMAIN ns : ns[p].level = 0 /\ Covers(ns, p, e) => l[p] = t
         /\ InLeaf(ns, e) => e % TidRange \in Dead
<1>1. /\ T \in ThreadShape /\ CallOK(T) /\ T.pid \in DOMAIN ns
      /\ NodesOK(ns) /\ Fenced(ns) /\ Apart(ns) /\ PlaceOK(ns, T) /\ LatchesOK(l, t, T)
  BY DEF ThreadOK, FormOK, PagesOK
<1>2. T.op.key \in Nat /\ T.key \in Nat /\ LowFence(ns, T.pid) \in Nat
  BY <1>1, ThreadFacts, LowFenceType
<1>3. ns[T.pid].level = 0 /\ l[T.pid] = t
  BY <1>1 DEF PlaceOK, LatchesOK
<1>4. InLeaf(ns, e) => \E p \in DOMAIN ns : /\ ns[p].level = 0 /\ Covers(ns, p, e)
                                            /\ \E s \in ns[p].slots : s.key = e
  BY <1>1 DEF InLeaf, Fenced
<1>5. CASE LowFence(ns, T.pid) <= e
  <2>1. Covers(ns, T.pid, e)
    BY <1>5 DEF Covers
  <2>2. \A p \in DOMAIN ns : ns[p].level = 0 /\ Covers(ns, p, e) => p = T.pid
    BY <1>1, <1>3, <2>1, CoversOnce
  <2>3. InLeaf(ns, e) => e \in Keys(ns[T.pid])
    BY <1>4, <2>2 DEF Keys
  <2>4. e \in Keys(ns[T.pid]) => e % TidRange \in Dead
    BY DEF Conflict
  <2> QED BY <1>3, <2>2, <2>3, <2>4
<1>6. CASE e < LowFence(ns, T.pid)
  <2>1. CASE T.pc = "check"
    <3>1. Done(ns, T, e)
      BY <1>6 DEF Done
    <3> QED BY <2>1, <3>1 DEF CheckedOK
  <2>2. CASE T.pc = "right"
    <3>1. T.key = Low(T.op.key) /\ LowFence(ns, T.pid) <= T.key
      BY <1>1, <2>2 DEF CallOK, PlaceOK
    <3>2. Low(T.op.key) <= e
      BY <1>2, LowKey
    <3>3. FALSE
      BY <1>2, <1>6, <3>1, <3>2
    <3> QED BY <3>3
  <2> QED BY <2>1, <2>2
<1> QED BY <1>2, <1>5, <1>6

\* On to the right sibling: everything below its low fence is checked.
LEMMA CheckedRight ==
  ASSUME NEW ns, NEW r, PagesOK(ns, r), NEW l, NEW t, NEW T, ThreadOK(ns, l, t, T),
         CheckedOK(ns, l, t, T), T.op.kind = "InsertUnique", T.child = NoPage,
         (T.pc = "right" /\ ~HasSplit(ns[T.pid], T.key)) \/ T.pc = "check",
         ~Conflict(ns[T.pid], T.op.key), HighPrefixCmp(ns[T.pid], T.op.key),
         NEW U, U.pc = "crab", U.op = T.op, U.pid = ns[T.pid].rlink
  PROVE  CheckedOK(ns, l, t, U)
<1>1. T.pid \in DOMAIN ns /\ NodesOK(ns) /\ Linked(ns)
  BY DEF ThreadOK, FormOK, PagesOK
<1>2. ns[T.pid].rlink # NoPage
  BY <1>1 DEF HighPrefixCmp, Linked
<1>3. LowFence(ns, U.pid) = ns[T.pid].high
  BY <1>1, <1>2, LowFenceOfRight
<1>4. ASSUME NEW e \in Nat, Done(ns, U, e)
      PROVE  /\ \A p \in DOMAIN ns : ns[p].level = 0 /\ Covers(ns, p, e) => l[p] = t
             /\ InLeaf(ns, e) => e % TidRange \in Dead
  <2>1. Prefix(e) = Prefix(T.op.key) /\ e < ns[T.pid].high
    BY <1>3, <1>4 DEF Done
  <2> QED BY <2>1, LeafChecked
<1> QED BY <1>4 DEF CheckedOK

\* On the last leaf of the prefix: all keys of the prefix are checked.
LEMMA CheckedLast ==
  ASSUME NEW ns, NEW r, PagesOK(ns, r), NEW l, NEW t, NEW T, ThreadOK(ns, l, t, T),
         CheckedOK(ns, l, t, T), T.op.kind = "InsertUnique", T.child = NoPage,
         (T.pc = "right" /\ ~HasSplit(ns[T.pid], T.key)) \/ T.pc = "check",
         ~Conflict(ns[T.pid], T.op.key), ~HighPrefixCmp(ns[T.pid], T.op.key),
         NEW U, U.pc = "put", U.op = T.op
  PROVE  CheckedOK(ns, l, t, U)
<1>1. T \in ThreadShape /\ T.pid \in DOMAIN ns /\ NodesOK(ns)
  BY DEF ThreadOK, FormOK, PagesOK
<1>2. T.op.key \in Nat /\ ns[T.pid].high \in Nat /\ Low(T.op.key) \in Nat
  BY <1>1, ThreadFacts, NodeFacts, KeyParts
<1>3. ns[T.pid].high # NoKey => Low(T.op.key) < ns[T.pid].high
  BY CheckFacts
<1>4. ASSUME NEW e \in Nat, Done(ns, U, e)
      PROVE  /\ \A p \in DOMAIN ns : ns[p].level = 0 /\ Covers(ns, p, e) => l[p] = t
             /\ InLeaf(ns, e) => e % TidRange \in Dead
  <2>1. Prefix(e) = Prefix(T.op.key)
    BY <1>4 DEF Done
  <2>2. ASSUME ns[T.pid].high # NoKey, ns[T.pid].high <= e PROVE FALSE
    <3>1. Prefix(Low(T.op.key)) = Prefix(e)
      BY <1>2, <2>1, LowKey
    <3>2. Prefix(ns[T.pid].high) = Prefix(Low(T.op.key))
      BY <1>2, <1>3, <2>2, <3>1, PrefixBetween
    <3> QED BY <2>1, <2>2, <3>1, <3>2 DEF HighPrefixCmp
  <2>3. ns[T.pid].high # NoKey => e < ns[T.pid].high
    BY <1>2, <2>2
  <2> QED BY <2>1, <2>3, LeafChecked
<1> QED BY <1>4 DEF CheckedOK

\* The leaves after a step cover what leaves before it covered; a leaf is only
\* cut, and an entry only added, by the thread that has latched it.
LEMMA CoverStep ==
  ASSUME TreeInv, NEW t \in Threads, Step(t), Consistent(nodes'), NEW u \in Threads \ {t}
  PROVE  /\ \A p \in DOMAIN nodes' : nodes'[p].level = 0 =>
              \A e \in Nat : Covers(nodes', p, e) =>
                \E q \in DOMAIN nodes : /\ nodes[q].level = 0 /\ Covers(nodes, q, e)
                                        /\ latch[q] = u => latch'[p] = u
         /\ \A e \in Nat : InLeaf(nodes', e) =>
              \/ InLeaf(nodes, e)
              \/ \E q \in DOMAIN nodes :
                   nodes[q].level = 0 /\ Covers(nodes, q, e) /\ latch[q] # u
<1>1. PagesOK(nodes, root) /\ NodesOK(nodes)
  BY ThreadAt
<1>2. NodesOK(nodes') /\ Extends(nodes, nodes')
  BY PageStep DEF PagesOK
<1>3. \A p \in DOMAIN nodes : nodes[p].high # NoKey =>
        nodes'[p].high # NoKey /\ nodes'[p].high <= nodes[p].high
  BY HighStep
<1>4. ASSUME NEW p \in DOMAIN nodes, nodes'[p].level = 0, NEW e \in Nat, Covers(nodes', p, e)
      PROVE  \E q \in DOMAIN nodes : /\ nodes[q].level = 0 /\ Covers(nodes, q, e)
                                     /\ latch[q] = u => latch'[p] = u
  <2>1. /\ nodes[p].level = 0 /\ LowFence(nodes', p) = LowFence(nodes, p)
        /\ p \in DOMAIN nodes'
    BY <1>2, <1>4 DEF Extends
  <2>2. nodes[p].high \in Nat /\ nodes'[p].high \in Nat
    BY <1>1, <1>2, <2>1, NodeFacts
  <2>3. Covers(nodes, p, e)
    BY <1>3, <1>4, <2>1, <2>2 DEF Covers
  <2>4. latch[p] = u => latch'[p] = u
    BY LatchStep
  <2> QED BY <2>1, <2>3, <2>4
<1>5. ASSUME NEW p \in DOMAIN nodes', p \notin DOMAIN nodes, nodes'[p].level = 0,
             NEW e \in Nat, Covers(nodes', p, e)
      PROVE  \E q \in DOMAIN nodes : /\ nodes[q].level = 0 /\ Covers(nodes, q, e)
                                     /\ latch[q] = u => latch'[p] = u
  <2>1. CASE nodes' = nodes
    BY <1>5, <2>1
  <2>2. CASE Insert(t)
    BY <1>5, <2>2, InsertPages DEF IsPut, SameLinks
  <2>3. CASE Split(t)
    <3> DEFINE q == th[t].pid
               s == NewSlot(t)
    <3>1. /\ q \in DOMAIN nodes /\ latch[q] = t /\ Cardinality(nodes[q].slots) >= 2
          /\ IsSplit(nodes, q, s, nodes') /\ nodes' = SplitOf(nodes, q, s)
          /\ Fits(nodes, q, s)
      BY <2>3, SplitOfPages, PutSlot, PutFits
    <3> HIDE DEF q, s
    <3>2. /\ p = Len(nodes) + 1 /\ nodes[q].level = 0
      BY <1>5, <3>1 DEF IsSplit
    <3>3. \A k \in Nat : Covers(nodes', Len(nodes) + 1, k) => Covers(nodes, q, k)
      BY <1>1, <3>1, SplitKeeps
    <3>4. Covers(nodes, q, e)
      BY <1>5, <3>2, <3>3
    <3> QED BY <3>1, <3>2, <3>4
  <2>4. CASE CreateNewRoot(t)
    <3>1. IsGrowth(nodes, root, NewSlot(t), nodes') /\ root \in DOMAIN nodes
      BY <1>1, <2>4, GrowOfPages DEF PagesOK, Top
    <3>2. nodes'[p].level = nodes[root].level + 1 /\ nodes[root].level \in Nat
      BY <1>1, <1>5, <3>1, NodeFacts DEF IsGrowth
    <3>3. FALSE
      BY <1>5, <3>2
    <3> QED BY <3>3
  <2>5. CASE Delete(t)
    BY <1>5, <2>5, DeletePages DEF IsRemoved, SameLinks
  <2> QED BY <2>1, <2>2, <2>3, <2>4, <2>5, PageKinds
<1>6. ASSUME NEW e \in Nat, InLeaf(nodes', e), ~InLeaf(nodes, e)
      PROVE  \E q \in DOMAIN nodes :
               nodes[q].level = 0 /\ Covers(nodes, q, e) /\ latch[q] # u
  <2>1. e \in Entries' /\ e \notin Entries
    BY <1>6, EntriesInLeaf
  <2>2. (Insert(t) \/ Split(t)) /\ nodes[th[t].pid].level = 0 /\ e = th[t].key
    BY <2>1, EntriesStep
  <2>3. MayPut(t)
    BY <2>2 DEF Insert, Split
  <2>4. /\ th[t].pid \in DOMAIN nodes /\ latch[th[t].pid] = t
        /\ Covers(nodes, th[t].pid, th[t].key)
    BY <2>3, PutSlot
  <2> QED BY <2>2, <2>4
<1> QED BY <1>4, <1>5, <1>6

\* The unique insert that makes the step.
LEMMA CheckedOwnStep ==
  ASSUME TreeInv, CheckedInv, NEW t \in Threads, Step(t)
  PROVE  CheckedOK(nodes', latch', t, th'[t])
<1> DEFINE T == th[t]
           U == th'[t]
<1> SUFFICES ASSUME U.pc \in {"crab", "check", "put"} PROVE CheckedOK(nodes', latch', t, U)
  BY DEF CheckedOK
<1>1. /\ th \in [Threads -> ThreadShape] /\ PagesOK(nodes, root)
      /\ latch \in [1 .. MaxPages -> Threads \union {None}]
  BY DEF TreeInv, ShapeOK
<1>2. /\ T \in ThreadShape /\ ThreadOK(nodes, latch, t, T)
      /\ T.pc # "idle" => T.pid \in DOMAIN nodes
  BY ThreadAt
<1>3. {"pc", "op", "pid", "stack", "key", "child", "level", "ins", "freed", "found"} = DOMAIN T
  BY <1>2 DEF ThreadShape
<1>4. CheckedOK(nodes, latch, t, T)
  BY DEF CheckedInv
<1>5. Return(t) => U.pc = "idle"
  BY <1>1 DEF Return, IdleThread
<1>6. CASE CheckUnique(t)
  <2> DEFINE ins == IF T.ins = NoPage /\ ~HasSplit(nodes[T.pid], T.op.key)
                    THEN T.pid ELSE T.ins
  <2>1. /\ T.op.kind = "InsertUnique" /\ T.child = NoPage /\ nodes' = nodes
        /\ (T.pc = "right" /\ ~HasSplit(nodes[T.pid], T.key)) \/ T.pc = "check"
    BY <1>6 DEF CheckUnique, Reached, At, Node
  <2>2. \/ /\ ~Conflict(nodes[T.pid], T.op.key)
           /\ HighPrefixCmp(nodes[T.pid], T.op.key)
           /\ latch' = latch
           /\ th' = [th EXCEPT ![t].pc = "crab", ![t].ins = ins, ![t].key = T.op.key,
                               ![t].pid = nodes[T.pid].rlink]
        \/ /\ ~Conflict(nodes[T.pid], T.op.key)
           /\ ~HighPrefixCmp(nodes[T.pid], T.op.key)
           /\ latch' = latch
           /\ th' = [th EXCEPT ![t].pc = "put", ![t].pid = ins, ![t].key = T.op.key]
    BY <1>5, <1>6 DEF CheckUnique, KeepLatches, Node
  <2> HIDE DEF ins
  <2>3. CASE /\ ~Conflict(nodes[T.pid], T.op.key)
             /\ HighPrefixCmp(nodes[T.pid], T.op.key)
             /\ latch' = latch
             /\ th' = [th EXCEPT ![t].pc = "crab", ![t].ins = ins, ![t].key = T.op.key,
                                 ![t].pid = nodes[T.pid].rlink]
    <3>1. U = [T EXCEPT !.pc = "crab", !.ins = ins, !.key = T.op.key,
                        !.pid = nodes[T.pid].rlink]
      BY <1>1, <2>3
    <3>2. U.pc = "crab" /\ U.op = T.op /\ U.pid = nodes[T.pid].rlink
      BY <1>3, <3>1
    <3> HIDE DEF T, U
    <3> QED BY <1>1, <1>2, <1>4, <2>1, <2>3, <3>2, CheckedRight
  <2>4. CASE /\ ~Conflict(nodes[T.pid], T.op.key)
             /\ ~HighPrefixCmp(nodes[T.pid], T.op.key)
             /\ latch' = latch
             /\ th' = [th EXCEPT ![t].pc = "put", ![t].pid = ins, ![t].key = T.op.key]
    <3>1. U = [T EXCEPT !.pc = "put", !.pid = ins, !.key = T.op.key]
      BY <1>1, <2>4
    <3>2. U.pc = "put" /\ U.op = T.op
      BY <1>3, <3>1
    <3> HIDE DEF T, U
    <3> QED BY <1>1, <1>2, <1>4, <2>1, <2>4, <3>2, CheckedLast
  <2> QED BY <2>2, <2>3, <2>4
<1>7. CASE Crab(t)
  <2>1. /\ T.pc = "crab" /\ U.pc = "check" /\ U.op = T.op /\ U.pid = T.pid
        /\ nodes' = nodes /\ Latched(t, T.pid)
    BY <1>1, <1>3, <1>7 DEF Crab, At
  <2>2. \A p \in DOMAIN nodes : p \in DOMAIN latch
    BY LatchStep
  <2>3. \A p \in DOMAIN nodes : latch[p] = t => latch'[p] = t
    BY <1>1, <2>1, <2>2 DEF Latched
  <2> HIDE DEF T, U
  <2>4. \A e : Done(nodes', U, e) <=> Done(nodes, T, e)
    BY <2>1 DEF Done
  <2> QED BY <1>4, <2>1, <2>3, <2>4 DEF CheckedOK
<1>8. CASE Begin(t)
  BY <1>1, <1>3, <1>8 DEF Begin
<1>9. CASE Arrive(t)
  BY <1>1, <1>3, <1>9 DEF Arrive
<1>10. CASE DropRight(t) \/ DropDown(t) \/ WriteLatch(t) \/ GoRight(t)
  BY <1>1, <1>3, <1>10 DEF DropRight, DropDown, WriteLatch, GoRight, At
<1>11. CASE Insert(t) \/ CreateNewRoot(t) \/ Delete(t) \/ GetReturn(t)
  BY <1>5, <1>11 DEF Insert, CreateNewRoot, Delete, GetReturn
<1>12. CASE Split(t)
  BY <1>12, ChildStep
<1>13. CASE NotRoot(t) \/ Redrop(t)
  BY <1>1, <1>3, <1>13 DEF NotRoot, Redrop
<1>14. CASE GetRight(t) \/ GetCollect(t) \/ GetNext(t)
  BY <1>1, <1>3, <1>14 DEF GetRight, GetCollect, GetNext, At
<1> QED BY <1>6, <1>7, <1>8, <1>9, <1>10, <1>11, <1>12, <1>13, <1>14 DEF Step

\* Every step that leaves the levels consistent keeps CheckedInv.
LEMMA CheckedStep ==
  ASSUME TreeInv, CheckedInv, NEW t \in Threads, Step(t), LevelConsistency'
  PROVE  CheckedInv'
<1>1. Consistent(nodes')
  BY DEF LevelConsistency, Consistent
<1>2. Extends(nodes, nodes')
  BY <1>1, PageStep
<1>3. ASSUME NEW u \in Threads \ {t} PROVE CheckedOK(nodes', latch', u, th'[u])
  <2>1. /\ th'[u] = th[u] /\ CheckedOK(nodes, latch, u, th[u])
        /\ th[u].pc # "idle" => th[u].pid \in DOMAIN nodes
    BY ThreadFrame, ThreadAt DEF CheckedInv
  <2>2. \A p \in DOMAIN nodes' : nodes'[p].level = 0 =>
          \A e \in Nat : Covers(nodes', p, e) =>
            \E q \in DOMAIN nodes : /\ nodes[q].level = 0 /\ Covers(nodes, q, e)
                                    /\ latch[q] = u => latch'[p] = u
    BY <1>1, CoverStep
  <2>3. \A e \in Nat : InLeaf(nodes', e) =>
          \/ InLeaf(nodes, e)
          \/ \E q \in DOMAIN nodes :
               nodes[q].level = 0 /\ Covers(nodes, q, e) /\ latch[q] # u
    BY <1>1, CoverStep
  <2>4. CheckedOK(nodes', latch', u, th[u])
    BY <1>2, <2>1, <2>2, <2>3, CheckedOthers
  <2> QED BY <2>1, <2>4
<1>4. CheckedOK(nodes', latch', t, th'[t])
  BY CheckedOwnStep
<1> QED BY <1>3, <1>4 DEF CheckedInv

\* Prefixes of unique inserts get no live entry in another way: in a unique
\* index every insert is an InsertUnique, or enters a row that is deleted.
UniquePrefixes ==
  \A o, c \in Calls :
    /\ o.kind = "InsertUnique" /\ c.kind = "Insert"
    /\ Prefix(c.key) = Prefix(o.key)
    => c.key % TidRange \in Dead

\* Every step that leaves the levels consistent keeps OneLive.
LEMMA OneLiveStep ==
  ASSUME UniquePrefixes, TreeInv, CheckedInv, OneLive, NEW t \in Threads, Step(t),
         LevelConsistency'
  PROVE  OneLive'
<1> DEFINE Lives(o, e) == Prefix(e) = Prefix(o.key) /\ e % TidRange \notin Dead
<1>1. Consistent(nodes')
  BY DEF LevelConsistency, Consistent
<1>2. ASSUME NEW o \in Calls, o.kind = "InsertUnique",
             NEW e \in Entries, NEW f \in Entries, Lives(o, e), Lives(o, f)
      PROVE  e = f
  BY <1>2 DEF OneLive
<1>3. ASSUME Insert(t) \/ Split(t), nodes[th[t].pid].level = 0,
             NEW o \in Calls, o.kind = "InsertUnique", Lives(o, th[t].key),
             NEW e \in Entries, Lives(o, e)
      PROVE  FALSE
  <2> DEFINE T == th[t]
  <2>1. MayPut(t)
    BY <1>3 DEF Insert, Split
  <2>2. \/ IsPut(nodes, T.pid, NewSlot(t), nodes')
        \/ IsSplit(nodes, T.pid, NewSlot(t), nodes')
    BY <1>3, InsertPages, SplitOfPages
  <2>3. Fits(nodes, T.pid, NewSlot(t))
    BY <1>1, <2>1, <2>2, PutFits
  <2>4. NewSlot(t).child = T.child
    BY <2>1, PutSlot
  <2>5. T.child = NoPage
    BY <1>3, <2>3, <2>4 DEF Fits
  <2>6. T.key = T.op.key /\ T.op \in Calls /\ T.op.kind \in {"Insert", "InsertUnique"}
    BY <2>1, <2>5, PutSlot
  <2>7. CASE T.op.kind = "Insert"
    BY <1>3, <2>6, <2>7 DEF UniquePrefixes
  <2>8. CASE T.op.kind = "InsertUnique"
    <3>1. T.pc = "put"
      BY <2>1, <2>5, <2>8 DEF MayPut, At
    <3>2. InLeaf(nodes, e) /\ e \in Nat
      BY EntriesInLeaf, ThreadAt, LeafKeys
    <3>3. CheckedOK(nodes, latch, t, T)
      BY DEF CheckedInv
    <3>4. Done(nodes, T, e)
      BY <1>3, <2>6, <3>1 DEF Done
    <3> QED BY <1>3, <3>1, <3>2, <3>3, <3>4 DEF CheckedOK
  <2> QED BY <2>6, <2>7, <2>8
<1>4. ASSUME NEW o \in Calls, o.kind = "InsertUnique",
             NEW e \in Entries', NEW f \in Entries', Lives(o, e), Lives(o, f)
      PROVE  e = f
  <2>1. CASE Entries' \subseteq Entries
    BY <1>2, <1>4, <2>1
  <2>2. CASE /\ Insert(t) \/ Split(t)
             /\ nodes[th[t].pid].level = 0
             /\ Entries' = Entries \union {th[t].key}
    <3>1. CASE e \in Entries /\ f \in Entries
      BY <1>2, <1>4, <3>1
    <3>2. CASE e = th[t].key /\ f = th[t].key
      BY <3>2
    <3>3. CASE e = th[t].key /\ f \in Entries
      BY <1>3, <1>4, <2>2, <3>3
    <3>4. CASE f = th[t].key /\ e \in Entries
      BY <1>3, <1>4, <2>2, <3>4
    <3> QED BY <2>2, <3>1, <3>2, <3>3, <3>4
  <2>3. \/ Entries' \subseteq Entries
        \/ /\ Insert(t) \/ Split(t)
           /\ nodes[th[t].pid].level = 0
           /\ Entries' = Entries \union {th[t].key}
    BY EntriesStep
  <2> QED BY <2>1, <2>2, <2>3
<1> QED BY <1>4 DEF OneLive

\* In a unique index at most one live entry per prefix is there at any time,
\* however many InsertUnique calls race for it and wherever the leaves of the
\* prefix are split meanwhile: the latches of all leaves of the prefix are held
\* from the check to the insert.  (Up to the first separator on a wrong level:
\* one that lands in a leaf looks like an entry.)
THEOREM UniqueKeysAlways ==
  ASSUME FreedReads = {}, UniquePrefixes
  PROVE  Spec => [](LevelConsistency => UniqueKeys)
<1> DEFINE I == LevelConsistency => TreeInv /\ CheckedInv /\ OneLive
<1>1. Init => I
  <2> SUFFICES ASSUME Init PROVE TreeInv /\ CheckedInv /\ OneLive
    OBVIOUS
  <2>1. TreeInv
    BY TreeInit
  <2>2. \A t \in Threads : th[t].pc = "idle"
    BY DEF Init, IdleThread
  <2>3. nodes = <<InitHeader(0, {})>>
    BY DEF Init
  <2>4. DOMAIN nodes = {1} /\ nodes[1].slots = {}
    BY <2>3 DEF InitHeader
  <2>5. \A k : ~InLeaf(nodes, k)
    BY <2>4 DEF InLeaf
  <2>6. Entries = {}
    BY <2>5, EntriesInLeaf
  <2> QED BY <2>1, <2>2, <2>6 DEF CheckedInv, CheckedOK, OneLive
<1>2. ASSUME I, [Next]_vars PROVE I'
  <2>1. CASE UNCHANGED vars
    <3>1. /\ nodes' = nodes /\ th' = th /\ latch' = latch
          /\ LevelConsistency' = LevelConsistency
      BY <2>1 DEF vars, LevelConsistency
    <3>2. Entries' = Entries
      BY <2>1 DEF vars, Entries, Leaves
    <3>3. TreeInv => TreeInv'
      BY <2>1, <3>1, <3>2 DEF vars, TreeInv, ShapeOK, EntriesAsked
    <3>4. (CheckedInv => CheckedInv') /\ (OneLive => OneLive')
      BY <3>1, <3>2 DEF CheckedInv, OneLive
    <3> QED BY <1>2, <3>1, <3>3, <3>4
  <2>2. CASE LevelConsistency /\ \E t \in Threads : Step(t) /\ Observe
    BY <1>2, <2>2, TreeStep, CheckedStep, OneLiveStep
  <2> QED BY <1>2, <2>1, <2>2 DEF Next
<1>3. I => (LevelConsistency => UniqueKeys)
  <2> SUFFICES ASSUME OneLive, NEW o \in Calls, o.kind = "InsertUnique"
               PROVE  Cardinality({k \in Entries : Prefix(k) = Prefix(o.key)
                                                   /\ k % TidRange \notin Dead}) <= 1
    BY DEF UniqueKeys
  <2> DEFINE S == {k \in Entries : Prefix(k) = Prefix(o.key) /\ k % TidRange \notin Dead}
  <2>1. \A e, f \in S : e = f
    BY DEF OneLive
  <2> HIDE DEF S
  <2>2. CASE S = {}
    <3>1. Cardinality(S) = 0
      BY <2>2, FS_EmptySet
    <3> QED BY <3>1 DEF S
  <2>3. CASE S # {}
    <3>1. PICK e \in S : S = {e}
      BY <2>1, <2>3
    <3>2. Cardinality(S) = 1
      BY <3>1, FS_Singleton
    <3> QED BY <3>2 DEF S
  <2> QED BY <2>2, <2>3
<1> QED BY <1>1, <1>2, <1>3, PTL DEF Spec

-----------------------------------------------------------------------------
(* Searches.                                                               *)

\* One step of a search for k that nobody disturbs, and a search of n steps.
NextPage(ns, k, q) ==
  IF HasSplit(ns[q], k) THEN ns[q].rlink
  ELSE IF ns[q].level <= 0 THEN q ELSE FindChild(ns[q], k)
IsWalk(ns, k, p, n, w) ==
  w = [i \in 0 .. n |-> IF i = 0 THEN p ELSE NextPage(ns, k, w[i - 1])]

\* The search has arrived.
Arrived(ns, k, q) == ns[q].level = 0 /\ ~HasSplit(ns[q], k)

\* Page b is below a, or to the right of it on its level.
Ahead(ns, a, b) ==
  \/ ns[b].level < ns[a].level
  \/ ns[b].level = ns[a].level /\ LowFence(ns, a) < LowFence(ns, b)

\* A search of any number of steps can be made (WalkFrom is well defined).
LEMMA WalkExists ==
  ASSUME NEW ns, NEW k, NEW p, NEW n \in Nat
  PROVE  \E w : IsWalk(ns, k, p, n, w)
<1> SUFFICES ASSUME ~\E w : IsWalk(ns, k, p, n, w) PROVE FALSE
  OBVIOUS
<1> DEFINE S == {j \in Nat : ~\E w : IsWalk(ns, k, p, j, w)}
<1>1. S \in SUBSET Nat /\ S # {}
  OBVIOUS
<1>2. PICK m \in S : \A y \in S : m <= y
  BY <1>1, MinOfNat
<1>3. m \in Nat /\ ~\E w : IsWalk(ns, k, p, m, w)
  OBVIOUS
<1>4. m # 0
  <2> DEFINE g == [i \in 0 .. 0 |-> p]
  <2>1. IsWalk(ns, k, p, 0, g)
    <3>1. g = [i \in 0 .. 0 |-> IF i = 0 THEN p ELSE NextPage(ns, k, g[i - 1])]
      OBVIOUS
    <3> QED BY <3>1 DEF IsWalk
  <2> QED BY <1>3, <2>1
<1>5. m - 1 \in Nat /\ m - 1 \notin S
  BY <1>2, <1>3, <1>4
<1>6. PICK f : IsWalk(ns, k, p, m - 1, f)
  BY <1>5
<1> HIDE DEF S
<1>7. f = [i \in 0 .. m - 1 |-> IF i = 0 THEN p ELSE NextPage(ns, k, f[i - 1])]
  BY <1>6 DEF IsWalk
<1>8. f[0] = p /\ \A i \in 1 .. m - 1 : f[i] = NextPage(ns, k, f[i - 1])
  BY <1>5, <1>7
<1> DEFINE g == [i \in 0 .. m |-> IF i = m THEN NextPage(ns, k, f[m - 1]) ELSE f[i]]
<1>9. \A i \in 0 .. m - 1 : g[i] = f[i]
  BY <1>3, <1>4
<1>10. g[m] = NextPage(ns, k, f[m - 1]) /\ m - 1 \in 0 .. m - 1 /\ 0 \in 0 .. m - 1
  BY <1>3, <1>4
<1>11. g = [i \in 0 .. m |-> g[i]]
  OBVIOUS
<1> HIDE DEF g
<1>12. ASSUME NEW i \in 0 .. m
       PROVE  g[i] = IF i = 0 THEN p ELSE NextPage(ns, k, g[i - 1])
  <2>1. CASE i = 0
    BY <1>8, <1>9, <1>10, <2>1
  <2>2. CASE i # 0 /\ i # m
    <3>1. i \in 1 .. m - 1 /\ i \in 0 .. m - 1 /\ i - 1 \in 0 .. m - 1
      BY <1>3, <2>2
    <3>2. g[i] = f[i] /\ g[i - 1] = f[i - 1]
      BY <1>9, <3>1
    <3> QED BY <1>8, <2>2, <3>1, <3>2
  <2>3. CASE i = m
    BY <1>4, <1>9, <1>10, <2>3
  <2> QED BY <2>1, <2>2, <2>3
<1>13. g = [i \in 0 .. m |-> IF i = 0 THEN p ELSE NextPage(ns, k, g[i - 1])]
  BY <1>11, <1>12
<1> QED BY <1>3, <1>13 DEF IsWalk

\* WalkFrom is where a search of as many steps as there are pages ends.
LEMMA WalkFromIs ==
  ASSUME NEW p, NEW k, Len(nodes) \in Nat
  PROVE  \E w : IsWalk(nodes, k, p, Len(nodes), w) /\ WalkFrom(p, k, 0) = w[Len(nodes)]
<1> DEFINE v == CHOOSE w : IsWalk(nodes, k, p, Len(nodes), w)
<1>1. IsWalk(nodes, k, p, Len(nodes), v)
  BY WalkExists
<1>2. WalkFrom(p, k, 0) = v[Len(nodes)]
  BY DEF WalkFrom, IsWalk, NextPage
<1> QED BY <1>1, <1>2

\* A step of a search stays left of the key, and gets ahead until it arrives.
LEMMA WalkStep ==
  ASSUME NEW ns, NEW r, PagesOK(ns, r), NEW q \in DOMAIN ns, NEW k \in Nat,
         LowFence(ns, q) <= k
  PROVE  LET x == NextPage(ns, k, q)
         IN  /\ x \in DOMAIN ns /\ LowFence(ns, x) <= k
             /\ Arrived(ns, k, q) => x = q
             /\ ~Arrived(ns, k, q) => Ahead(ns, q, x)
<1>1. NodesOK(ns) /\ Linked(ns) /\ Fenced(ns)
  BY DEF PagesOK
<1>2. ns[q].level \in Nat /\ ns[q].high \in Nat /\ LowFence(ns, q) \in Nat
  BY <1>1, NodeFacts, LowFenceType
<1>3. CASE HasSplit(ns[q], k)
  <2>1. ns[q].high # NoKey /\ ns[q].high <= k /\ ns[q].rlink # NoPage
    BY <1>1, <1>3 DEF HasSplit, Linked
  <2>2. ns[q].rlink \in DOMAIN ns /\ ns[ns[q].rlink].level = ns[q].level
    BY <1>1, <2>1 DEF Linked
  <2>3. LowFence(ns, ns[q].rlink) = ns[q].high
    BY <1>1, <2>1, LowFenceOfRight
  <2>4. LowFence(ns, q) < ns[q].high
    BY <1>1, <2>1 DEF Fenced
  <2> QED BY <1>3, <2>1, <2>2, <2>3, <2>4 DEF NextPage, Arrived, Ahead
<1>4. CASE ~HasSplit(ns[q], k) /\ ns[q].level <= 0
  BY <1>2, <1>4 DEF NextPage, Arrived
<1>5. CASE ~HasSplit(ns[q], k) /\ ns[q].level > 0
  <2>1. NextPage(ns, k, q) = FindChild(ns[q], k)
    BY <1>2, <1>5 DEF NextPage
  <2>2. /\ FindChild(ns[q], k) \in DOMAIN ns
        /\ ns[FindChild(ns[q], k)].level = ns[q].level - 1
        /\ LowFence(ns, FindChild(ns[q], k)) <= k
    BY <1>5, FindChildFacts
  <2>3. ns[FindChild(ns[q], k)].level < ns[q].level
    BY <1>2, <2>2
  <2> QED BY <1>5, <2>1, <2>2, <2>3 DEF Arrived, Ahead
<1> QED BY <1>2, <1>3, <1>4, <1>5

\* All pages of a search are to the left of the key, and once it has arrived it
\* stays.
LEMMA WalkPages ==
  ASSUME NEW ns, NEW r, PagesOK(ns, r), NEW p \in DOMAIN ns, NEW k \in Nat,
         LowFence(ns, p) <= k, NEW n \in Nat, NEW w, IsWalk(ns, k, p, n, w)
  PROVE  /\ \A i \in 0 .. n : w[i] \in DOMAIN ns /\ LowFence(ns, w[i]) <= k
         /\ \A i \in 0 .. n : i # 0 => /\ Arrived(ns, k, w[i - 1]) => w[i] = w[i - 1]
                                       /\ ~Arrived(ns, k, w[i - 1]) => Ahead(ns, w[i - 1], w[i])
<1>1. /\ w[0] = p
      /\ \A i \in 0 .. n : i # 0 => w[i] = NextPage(ns, k, w[i - 1])
  BY DEF IsWalk
<1> DEFINE S == {i \in 0 .. n : ~(w[i] \in DOMAIN ns /\ LowFence(ns, w[i]) <= k)}
<1>2. S = {}
  <2> SUFFICES ASSUME S # {} PROVE FALSE
    OBVIOUS
  <2>1. S \in SUBSET Nat
    OBVIOUS
  <2>2. PICK m \in S : \A y \in S : m <= y
    BY <2>1, MinOfNat
  <2>3. m \in 0 .. n /\ ~(w[m] \in DOMAIN ns /\ LowFence(ns, w[m]) <= k)
    OBVIOUS
  <2>4. m # 0
    BY <1>1, <2>3
  <2>5. m - 1 \in 0 .. n /\ m - 1 \notin S
    BY <2>2, <2>3, <2>4
  <2>6. w[m - 1] \in DOMAIN ns /\ LowFence(ns, w[m - 1]) <= k
    BY <2>5
  <2>7. w[m] \in DOMAIN ns /\ LowFence(ns, w[m]) <= k
    <3> HIDE DEF S
    <3>1. NextPage(ns, k, w[m - 1]) \in DOMAIN ns /\ LowFence(ns, NextPage(ns, k, w[m - 1])) <= k
      BY <2>6, WalkStep
    <3> QED BY <1>1, <2>3, <2>4, <3>1
  <2> QED BY <2>3, <2>7
<1>3. \A i \in 0 .. n : w[i] \in DOMAIN ns /\ LowFence(ns, w[i]) <= k
  BY <1>2
<1>4. ASSUME NEW i \in 0 .. n, i # 0
      PROVE  /\ Arrived(ns, k, w[i - 1]) => w[i] = w[i - 1]
             /\ ~Arrived(ns, k, w[i - 1]) => Ahead(ns, w[i - 1], w[i])
  <2>1. i - 1 \in 0 .. n
    BY <1>4
  <2>2. w[i - 1] \in DOMAIN ns /\ LowFence(ns, w[i - 1]) <= k
    BY <1>3, <2>1
  <2>3. w[i] = NextPage(ns, k, w[i - 1])
    BY <1>1, <1>4
  <2> HIDE DEF S
  <2> QED BY <2>2, <2>3, WalkStep
<1> QED BY <1>3, <1>4

\* A search that has not arrived after n steps has never been at a page twice.
LEMMA WalkApart ==
  ASSUME NEW ns, NodesOK(ns), NEW k \in Nat, NEW n \in Nat, NEW w,
         \A i \in 0 .. n : w[i] \in DOMAIN ns,
         \A i \in 0 .. n : i # 0 => /\ Arrived(ns, k, w[i - 1]) => w[i] = w[i - 1]
                                    /\ ~Arrived(ns, k, w[i - 1]) => Ahead(ns, w[i - 1], w[i]),
         ~Arrived(ns, k, w[n])
  PROVE  \A i, j \in 0 .. n : i < j => Ahead(ns, w[i], w[j])
<1> DEFINE D == {d \in 0 .. n : Arrived(ns, k, w[n - d])}
<1>1. D = {}
  <2> SUFFICES ASSUME D # {} PROVE FALSE
    OBVIOUS
  <2>1. D \in SUBSET Nat
    OBVIOUS
  <2>2. PICK d \in D : \A y \in D : d <= y
    BY <2>1, MinOfNat
  <2>3. d \in 0 .. n /\ d # 0 /\ d - 1 \in 0 .. n /\ d - 1 \notin D
    BY <2>2
  <2>4. n - d \in 0 .. n /\ n - (d - 1) \in 0 .. n /\ n - (d - 1) # 0
        /\ (n - (d - 1)) - 1 = n - d
    BY <2>3
  <2>5. Arrived(ns, k, w[n - d]) /\ ~Arrived(ns, k, w[n - (d - 1)])
    BY <2>3
  <2> HIDE DEF D
  <2>6. w[n - (d - 1)] = w[n - d]
    BY <2>4, <2>5
  <2> QED BY <2>5, <2>6
<1>2. \A i \in 0 .. n : ~Arrived(ns, k, w[i])
  <2> TAKE i \in 0 .. n
  <2>1. n - i \in 0 .. n /\ n - (n - i) = i
    OBVIOUS
  <2> QED BY <1>1, <2>1
<1>3. \A i \in 0 .. n : i # 0 => Ahead(ns, w[i - 1], w[i])
  <2> SUFFICES ASSUME NEW i \in 0 .. n, i # 0 PROVE Ahead(ns, w[i - 1], w[i])
    OBVIOUS
  <2>1. i - 1 \in 0 .. n
    OBVIOUS
  <2> QED BY <1>2, <2>1
<1>4. ASSUME NEW a \in DOMAIN ns, NEW b \in DOMAIN ns, NEW c \in DOMAIN ns,
             Ahead(ns, a, b), Ahead(ns, b, c)
      PROVE  Ahead(ns, a, c)
  <2>1. /\ ns[a].level \in Nat /\ ns[b].level \in Nat /\ ns[c].level \in Nat
        /\ LowFence(ns, a) \in Nat /\ LowFence(ns, b) \in Nat /\ LowFence(ns, c) \in Nat
    BY NodeFacts, LowFenceType
  <2> QED BY <1>4, <2>1 DEF Ahead
<1> SUFFICES ASSUME NEW i \in 0 .. n PROVE \A j \in 0 .. n : i < j => Ahead(ns, w[i], w[j])
  OBVIOUS
<1> DEFINE S == {j \in 0 .. n : i < j /\ ~Ahead(ns, w[i], w[j])}
<1>5. S = {}
  <2> SUFFICES ASSUME S # {} PROVE FALSE
    OBVIOUS
  <2>1. S \in SUBSET Nat
    OBVIOUS
  <2>2. PICK m \in S : \A y \in S : m <= y
    BY <2>1, MinOfNat
  <2>3. m \in 0 .. n /\ i < m /\ ~Ahead(ns, w[i], w[m])
    OBVIOUS
  <2>4. m # 0 /\ m - 1 \in 0 .. n /\ m - 1 \notin S
    BY <2>2, <2>3
  <2>5. Ahead(ns, w[m - 1], w[m])
    BY <1>3, <2>3, <2>4
  <2>6. CASE m - 1 = i
    BY <2>3, <2>5, <2>6
  <2>7. CASE i < m - 1
    <3>1. Ahead(ns, w[i], w[m - 1])
      BY <2>4, <2>7
    <3>2. w[i] \in DOMAIN ns /\ w[m - 1] \in DOMAIN ns /\ w[m] \in DOMAIN ns
      BY <2>3, <2>4
    <3> QED BY <1>4, <2>3, <2>5, <3>1, <3>2
  <2> QED BY <2>3, <2>6, <2>7
<1> QED BY <1>5

\* A search for k from a page that is not to the right of k arrives at the leaf
\* whose interval k is in, after at most as many steps as there are pages.
LEMMA WalkArrives ==
  ASSUME TreeInv, NEW p \in DOMAIN nodes, NEW k \in Nat, LowFence(nodes, p) <= k
  PROVE  LET q == WalkFrom(p, k, 0)
         IN  q \in DOMAIN nodes /\ nodes[q].level = 0 /\ Covers(nodes, q, k)
<1> DEFINE n == Len(nodes)
<1>1. PagesOK(nodes, root) /\ NodesOK(nodes)
  BY DEF TreeInv, PagesOK
<1>2. n \in Nat /\ DOMAIN nodes = 1 .. n
  BY <1>1, NodeFacts
<1>3. PICK w : IsWalk(nodes, k, p, n, w) /\ WalkFrom(p, k, 0) = w[n]
  BY <1>2, WalkFromIs
<1> HIDE DEF n
<1>4. \A i \in 0 .. n : w[i] \in DOMAIN nodes /\ LowFence(nodes, w[i]) <= k
  BY <1>1, <1>2, <1>3, WalkPages
<1>5. \A i \in 0 .. n : i # 0 =>
        /\ Arrived(nodes, k, w[i - 1]) => w[i] = w[i - 1]
        /\ ~Arrived(nodes, k, w[i - 1]) => Ahead(nodes, w[i - 1], w[i])
  BY <1>1, <1>2, <1>3, WalkPages
<1>6. n \in 0 .. n
  BY <1>2
<1>7. Arrived(nodes, k, w[n])
  <2> SUFFICES ASSUME ~Arrived(nodes, k, w[n]) PROVE FALSE
    OBVIOUS
  <2>1. \A i, j \in 0 .. n : i < j => Ahead(nodes, w[i], w[j])
    BY <1>1, <1>2, <1>4, <1>5, WalkApart
  <2>2. \A i, j \in 0 .. n : i < j => w[i] # w[j]
    <3> SUFFICES ASSUME NEW i \in 0 .. n, NEW j \in 0 .. n, i < j, w[i] = w[j] PROVE FALSE
      OBVIOUS
    <3>1. Ahead(nodes, w[i], w[i]) /\ w[i] \in DOMAIN nodes
      BY <1>4, <2>1
    <3>2. nodes[w[i]].level \in Nat /\ LowFence(nodes, w[i]) \in Nat
      BY <1>1, <3>1, NodeFacts, LowFenceType
    <3> QED BY <3>1, <3>2 DEF Ahead
  <2> DEFINE f == [i \in 0 .. n |-> w[i]]
  <2>3. f \in [0 .. n -> 1 .. n]
    BY <1>2, <1>4
  <2>4. /\ IsFiniteSet(0 .. n) /\ IsFiniteSet(1 .. n)
        /\ Cardinality(0 .. n) = n + 1 /\ Cardinality(1 .. n) = n
    BY <1>2, FS_Interval
  <2>5. Cardinality(1 .. n) < Cardinality(0 .. n)
    BY <1>2, <2>4
  <2> HIDE DEF f
  <2>6. PICK x, y \in 0 .. n : x # y /\ f[x] = f[y]
    BY <2>3, <2>4, <2>5, FS_PigeonHole
  <2>7. w[x] = w[y] /\ x \in Nat /\ y \in Nat
    BY <2>6 DEF f
  <2>8. x < y \/ y < x
    BY <2>6, <2>7
  <2> QED BY <2>2, <2>6, <2>7, <2>8
<1>8. w[n] \in DOMAIN nodes /\ LowFence(nodes, w[n]) <= k
  BY <1>4, <1>6
<1>9. nodes[w[n]].high \in Nat
  BY <1>1, <1>8, NodeFacts
<1>10. nodes[w[n]].level = 0 /\ Covers(nodes, w[n], k)
  BY <1>7, <1>8, <1>9 DEF Arrived, HasSplit, Covers
<1> QED BY <1>3, <1>8, <1>10

\* Every entry is found by a search from the root, whatever splits are half
\* done, and a descending call's key leads from the page it is at to the same
\* leaf as from the root: right links make up for separators not yet there.
THEOREM SearchFindsEntryAlways ==
  ASSUME FreedReads = {}
  PROVE  Spec => []SearchFindsEntry
<1>1. ASSUME LevelConsistency => TreeInv PROVE SearchFindsEntry
  <2> SUFFICES ASSUME TreeInv
               PROVE  /\ \A p \in Leaves : \A k \in Keys(nodes[p]) : WalkFrom(root, k, 0) = p
                      /\ \A t \in Threads :
                           th[t].child = NoPage /\ th[t].pc \in {"drop", "latch", "right"}
                           => WalkFrom(th[t].pid, th[t].key, 0) = WalkFrom(root, th[t].key, 0)
    BY <1>1 DEF SearchFindsEntry
  <2>1. PagesOK(nodes, root)
    BY DEF TreeInv
  <2>2. NodesOK(nodes) /\ Fenced(nodes) /\ Apart(nodes) /\ root \in DOMAIN nodes
        /\ LowFence(nodes, root) = 0
    BY <2>1, LowFenceLeftmost DEF PagesOK, Top
  <2>3. ASSUME NEW k \in Nat
        PROVE  LET q == WalkFrom(root, k, 0)
               IN  q \in DOMAIN nodes /\ nodes[q].level = 0 /\ Covers(nodes, q, k)
    BY <2>2, WalkArrives
  <2>4. ASSUME NEW p \in Leaves, NEW k \in Keys(nodes[p]) PROVE WalkFrom(root, k, 0) = p
    <3>1. p \in DOMAIN nodes /\ nodes[p].level = 0
      BY DEF Leaves
    <3>2. k \in Nat /\ Covers(nodes, p, k)
      BY <2>2, <3>1, NodeFacts DEF Keys, Fenced
    <3> QED BY <2>2, <2>3, <3>1, <3>2, CoversOnce
  <2>5. ASSUME NEW t \in Threads, th[t].child = NoPage,
               th[t].pc \in {"drop", "latch", "right"}
        PROVE  WalkFrom(th[t].pid, th[t].key, 0) = WalkFrom(root, th[t].key, 0)
    <3> DEFINE p == th[t].pid
               k == th[t].key
    <3>1. th[t] \in ThreadShape /\ ThreadOK(nodes, latch, t, th[t]) /\ p \in DOMAIN nodes
      BY <2>5, ThreadAt
    <3>2. k \in Nat /\ LowFence(nodes, p) <= k
      BY <2>5, <3>1, ThreadFacts DEF ThreadOK, PlaceOK
    <3> HIDE DEF p, k
    <3>3. LET q == WalkFrom(p, k, 0)
          IN  q \in DOMAIN nodes /\ nodes[q].level = 0 /\ Covers(nodes, q, k)
      BY <3>1, <3>2, WalkArrives
    <3>4. WalkFrom(p, k, 0) = WalkFrom(root, k, 0)
      BY <2>2, <2>3, <3>2, <3>3, CoversOnce
    <3> QED BY <3>4 DEF p, k
  <2> QED BY <2>4, <2>5
<1> QED BY <1>1, TreeInvAlways, PTL
=============================================================================
