----------------------------- MODULE IndexPage ------------------------------
(***************************************************************************)
(* The bytes of a B-link tree node: BtreeVarlenLayoutLeaf and              *)
(* BtreeVarlenLayoutIntermediate.  Behind the header a page has an array   *)
(* of 2-byte slots that grows up and a heap of tuples that grows down; a   *)
(* tuple is a small header, then the key.  Keys are numbers, compared as   *)
(* memcmp and the lengths compare them, with their lengths given.  The     *)
(* module runs one level of a tree: a chain of pages linked by right links *)
(* that inserts split and deletes thin out.  Offsets are 16-bit numbers.   *)
(***************************************************************************)
EXTENDS Integers, Sequences, FiniteSets, FiniteSetsExt, SequencesExt, PrefixSums

CONSTANTS
  PageSize,    \* DB7_PAGE_SIZE
  HeaderSize,  \* header_size_
  TupleSize,   \* bytes in front of a leaf's key, and an inner node's
  TupleAlign,  \* their alignment
  Keys,        \* the keys: prefix * TidRange + tid
  TidRange,
  KeyLen,      \* the length of a key
  MaxDeletes   \* bound: deletes since the start

Kinds   == {"leaf", "inter"}
Empty   == 0          \* the empty key of a leftmost separator
NoFence == 65535      \* UNDEFINED_OFFSET
U16     == 65536

ASSUME IndexPageAssumption ==
  /\ PageSize \in Nat /\ PageSize < U16 - 1 /\ PageSize % 4 = 0
  /\ HeaderSize \in Nat /\ HeaderSize < PageSize
  /\ \A x \in Kinds : TupleSize[x] \in Nat \ {0} /\ TupleAlign[x] \in {2, 4}
  /\ Keys \subseteq Nat \ {Empty}
  /\ \A k \in Keys : KeyLen[k] \in Nat
  /\ TidRange \in Nat \ {0}
  /\ MaxDeletes \in Nat

VARIABLES
  kind,     \* which of the two layouts
  pages,    \* the chain: slots (offsets), heap (offset -> key), top, fence
  present,  \* history: the keys the level should hold
  deletes   \* deletes so far

pageVars == <<kind, pages, present, deletes>>

Length(k) == IF k = Empty THEN 0 ELSE KeyLen[k]
Prefix(k) == k \div TidRange

\* InitHeader.
InitPage == [slots |-> <<>>, heap |-> <<>>, top |-> PageSize, fence |-> NoFence]

Count(p)   == Len(p.slots)
KeyAt(p, i) == p.heap[p.slots[i + 1]]          \* slots[i] of the code
PageKeys(p) == {p.heap[p.slots[i]] : i \in DOMAIN p.slots}

-----------------------------------------------------------------------------
(* The heap.                                                               *)

\* CalculateHeapOffset, in 16 bits.
CalculateHeapOffset(top, len) ==
  LET o == (top - len - TupleSize[kind]) % U16 IN o - (o % TupleAlign[kind])

\* AppendHeap: returns the page; the tuple is at its new top.
AppendHeap(p, k) ==
  LET o == CalculateHeapOffset(p.top, Length(k))
  IN  [slots |-> p.slots,
       heap  |-> [x \in DOMAIN p.heap \union {o} |-> IF x = o THEN k ELSE p.heap[x]],
       top   |-> o,
       fence |-> p.fence]

\* The tops of a heap to which keys are appended one after the other.
Tops(ks) ==
  LET top[i \in 0 .. Len(ks)] ==
        IF i = 0 THEN PageSize ELSE CalculateHeapOffset(top[i - 1], Length(ks[i]))
  IN  top

\* The page those appends make: the first tuple is the fence if there is one,
\* the others get the slots in their order.
AppendAll(ks, hasFence) ==
  LET top == Tops(ks)
      f   == IF hasFence THEN 1 ELSE 0
  IN  [slots |-> [i \in 1 .. Len(ks) - f |-> top[f + i]],
       heap  |-> [o \in {top[i] : i \in 1 .. Len(ks)} |->
                    ks[Max({i \in 1 .. Len(ks) : top[i] = o})]],
       top   |-> top[Len(ks)],
       fence |-> IF hasFence THEN top[1] ELSE NoFence]

\* Mutant: the header is forgotten.
HasSpaceNoHeader(p, k) ==
  CalculateHeapOffset(p.top, Length(k)) >= (Count(p) + 1) * 2

HasSpace(p, k) ==
  CalculateHeapOffset(p.top, Length(k)) >= (Count(p) + 1) * 2 + HeaderSize

-----------------------------------------------------------------------------
(* Searches.                                                               *)

\* The loop all four searches share: the first slot that is not in `below'.
\* The interval has length 0 after n steps at the latest and then stays.
BinarySearch(n, below) ==
  LET step[i \in 0 .. n] ==
        IF i = 0 THEN <<0, n>>
        ELSE LET lo  == step[i - 1][1]
                 hi  == step[i - 1][2]
                 mid == lo + (hi - lo) \div 2
             IN  IF lo >= hi THEN <<lo, hi>>
                 ELSE IF mid \in below THEN <<mid + 1, hi>> ELSE <<lo, mid>>
  IN  step[n][1]

Slots(p) == 0 .. Count(p) - 1

\* Mutant: compares the prefixes and not the tuple ids.
FindInsertByPrefix(p, k) ==
  BinarySearch(Count(p), {i \in Slots(p) : Prefix(KeyAt(p, i)) < Prefix(k)})

FindInsertPosition(p, k) ==
  BinarySearch(Count(p), {i \in Slots(p) : KeyAt(p, i) < k})

FindStartPosition(p, k) ==
  BinarySearch(Count(p), {i \in Slots(p) : Prefix(KeyAt(p, i)) < Prefix(k)})

FindChild(p, k) ==
  BinarySearch(Count(p), {i \in Slots(p) : KeyAt(p, i) <= k})

\* FindDeletePosition stops early at an equal key: keys are distinct, so it
\* returns what FindInsertPosition does.
FindDeletePosition(p, k) == FindInsertPosition(p, k)

\* HasSplit and HighPrefixCmp.
HasSplit(p, k) == p.fence # NoFence /\ p.heap[p.fence] <= k
HighPrefixCmp(p, k) == p.fence # NoFence /\ Prefix(p.heap[p.fence]) = Prefix(k)

\* Mutant: starts at the first key of the prefix and never looks at the end.
GetUnbounded(p, k) ==
  {KeyAt(p, i) : i \in FindInsertPosition(p, k) .. Count(p) - 1}

\* Get of a leaf: from the insert position of tid 0 while the prefix agrees.
Get(p, k) ==
  LET from == FindInsertPosition(p, k)
  IN  {KeyAt(p, i) : i \in {j \in from .. Count(p) - 1 :
         \A h \in from .. j : Prefix(KeyAt(p, h)) = Prefix(k)}}

\* The entries CheckUnique looks at: FindStartPosition compares the prefix.
CheckUnique(p, k) ==
  LET from == FindStartPosition(p, k)
  IN  {KeyAt(p, i) : i \in {j \in from .. Count(p) - 1 :
         \A h \in from .. j : Prefix(KeyAt(p, h)) = Prefix(k)}}

-----------------------------------------------------------------------------
(* Insert, delete and split.                                               *)

\* InsertSlot, ShiftRightInsert.
InsertSlot(p, o) ==
  [slots |-> InsertAt(p.slots, FindInsertPosition(p, p.heap[o]) + 1, o),
   heap  |-> p.heap, top |-> p.top, fence |-> p.fence]

Insert(p, k) == LET q == AppendHeap(p, k) IN InsertSlot(q, q.top)

\* Delete, ShiftLeftDelete: the heap keeps the tuple's bytes.
Delete(p, k) ==
  [slots |-> RemoveAt(p.slots, FindDeletePosition(p, k) + 1),
   heap  |-> p.heap, top |-> p.top, fence |-> p.fence]

\* FindSplitPoint: the first slot at which half the key bytes are reached
\* stays on the left, at least one slot goes right.
FindSplitPoint(p) ==
  LET n     == Count(p)
      bytes == PartialSums([i \in 1 .. n |-> Length(KeyAt(p, i - 1))])
      half  == {i \in 1 .. n : bytes[i] >= bytes[n] \div 2}
  IN  Min({Min(half), n - 1})

\* CopyHalfRight, and the right page's header in Split: the old fence first,
\* then the tuples from the split point on.
CopyHalfRight(p, split) ==
  LET f == IF p.fence = NoFence THEN 0 ELSE 1
  IN  AppendAll([i \in 1 .. f + Count(p) - split |->
                   IF i <= f THEN p.heap[p.fence] ELSE KeyAt(p, split + i - f - 1)],
                f = 1)

FirstSlots(p, split) == {p.slots[i] : i \in 1 .. split}

\* Mutant: packs the tuples in slot order.
CompactInSlotOrder(p, split) ==
  LET top == Tops([i \in 1 .. split |-> KeyAt(p, i - 1)])
  IN  [o \in FirstSlots(p, split) |-> top[CHOOSE i \in 1 .. split : p.slots[i] = o]]

\* CompactHeap and MoveHeap: the tuples that stay move against the end of the
\* page, from the highest offset down, each below the one that was above it.
\* The result maps old offsets to new ones.
CompactHeap(p, split) ==
  LET moved[o \in FirstSlots(p, split)] ==
        LET above == {x \in FirstSlots(p, split) : x > o}
        IN  CalculateHeapOffset(IF above = {} THEN PageSize ELSE moved[Min(above)],
                                Length(p.heap[o]))
  IN  moved

\* The left page: compacted, and the right page's first key as its fence.
KeepHalfLeft(p, split) ==
  LET moved  == CompactHeap(p, split)
      old(o) == CHOOSE x \in FirstSlots(p, split) : moved[x] = o
      packed == [slots |-> [i \in 1 .. split |-> moved[p.slots[i]]],
                 heap  |-> [o \in {moved[x] : x \in FirstSlots(p, split)} |-> p.heap[old(o)]],
                 top   |-> moved[Min(FirstSlots(p, split))],
                 fence |-> NoFence]
      fenced == AppendHeap(packed, KeyAt(p, split))
  IN  [slots |-> fenced.slots, heap |-> fenced.heap,
       top |-> fenced.top, fence |-> fenced.top]

\* Split: both halves, then the new key in the one it belongs to.
Split(p, k) ==
  LET split == FindSplitPoint(p)
      left  == KeepHalfLeft(p, split)
      right == CopyHalfRight(p, split)
  IN  IF KeyAt(p, split) <= k THEN <<left, Insert(right, k)>>
      ELSE <<Insert(left, k), right>>

-----------------------------------------------------------------------------
\* A leaf level starts with one empty leaf, an inner level with CreateRoot:
\* the empty key in front and one separator, in the order of their slots.
PageInit ==
  /\ \/ /\ kind = "leaf"
        /\ present = {}
        /\ pages = <<InitPage>>
     \/ /\ kind = "inter"
        /\ \E k \in Keys :
             /\ present = {Empty, k}
             /\ pages = <<AppendAll(<<Empty, k>>, FALSE)>>
  /\ deletes = 0

\* The page of the chain a key belongs to: right links are followed while
\* HasSplit.
Target(k) == Min({i \in DOMAIN pages : ~HasSplit(pages[i], k)})

InsertKey(k) ==
  /\ k \notin present
  /\ HasSpace(pages[Target(k)], k)
  /\ pages' = [pages EXCEPT ![Target(k)] = Insert(@, k)]
  /\ present' = present \union {k}
  /\ UNCHANGED <<kind, deletes>>

\* BLinkTree::Insert splits a page without space.  With fewer than two tuples
\* the assertion of FindSplitPoint ends the process: see SplitHasTwoTuples.
SplitFor(k) ==
  /\ k \notin present
  /\ ~HasSpace(pages[Target(k)], k)
  /\ Count(pages[Target(k)]) >= 2
  /\ pages' = SubSeq(pages, 1, Target(k) - 1) \o Split(pages[Target(k)], k)
              \o SubSeq(pages, Target(k) + 1, Len(pages))
  /\ present' = present \union {k}
  /\ UNCHANGED <<kind, deletes>>

DeleteKey(k) ==
  /\ kind = "leaf"
  /\ deletes < MaxDeletes
  /\ k \in present
  /\ pages' = [pages EXCEPT ![Target(k)] = Delete(@, k)]
  /\ present' = present \ {k}
  /\ deletes' = deletes + 1
  /\ UNCHANGED kind

PageNext == \E k \in Keys : InsertKey(k) \/ SplitFor(k) \/ DeleteKey(k)

PageSpec == PageInit /\ [][PageNext]_pageVars

-----------------------------------------------------------------------------
(* Properties.                                                             *)

Live(p) == Range(p.slots) \union ({p.fence} \ {NoFence})
End(p, o) == o + TupleSize[kind] + Length(p.heap[o])

\* Header, slots, live tuples and the fence never overlap and stay inside the
\* page, at the alignment the code reads them with, through any sequence of
\* inserts, deletes and splits with their compaction.
NoOverlap ==
  \A i \in DOMAIN pages :
    LET p == pages[i]
    IN  \A o \in Live(p) :
          /\ o >= HeaderSize + 2 * Count(p)
          /\ End(p, o) <= PageSize
          /\ o % TupleAlign[kind] = 0
          /\ \A x \in Live(p) : x < o => End(p, x) <= o

\* No key is lost, duplicated or out of order: each page's slots are sorted
\* and lie below its fence and not below its left neighbour's.
LevelSorted ==
  /\ UNION {PageKeys(pages[i]) : i \in DOMAIN pages} = present
  /\ \A i \in DOMAIN pages :
       LET p == pages[i]
       IN  /\ \A x, y \in 0 .. Count(p) - 1 : x < y => KeyAt(p, x) < KeyAt(p, y)
           /\ \A k \in PageKeys(p) : Target(k) = i
           /\ p.fence = NoFence <=> i = Len(pages)

\* Lookups find what is there: following Get from the page of tid 0 as long as
\* the fence has the prefix yields exactly the keys of the prefix, CheckUnique
\* looks at the same keys of a page, and FindChild is the last slot <= key.
LookupsAgree ==
  \A k \in Keys :
    LET low  == Prefix(k) * TidRange
        from == Target(low)
        run  == {i \in from .. Len(pages) :
                   \A j \in from .. i - 1 : HighPrefixCmp(pages[j], low)}
    IN  /\ kind = "leaf" =>
             /\ UNION {Get(pages[i], low) : i \in run}
                  = {x \in present : Prefix(x) = Prefix(k)}
             /\ \A i \in run : CheckUnique(pages[i], k) = Get(pages[i], low)
        /\ kind = "inter" =>
             LET p == pages[Target(k)]
             IN  KeyAt(p, FindChild(p, k) - 1) = Max({x \in PageKeys(p) : x <= k})

\* What Split asserts of a page that holds the two tuples it asks for: the new
\* key fits into the half it belongs to, compaction moves no tuple down.
SplitAsserts ==
  \A k \in Keys \ present :
    LET p == pages[Target(k)]
    IN  ~HasSpace(p, k) /\ Count(p) >= 2 =>
          LET split == FindSplitPoint(p)
              left  == KeepHalfLeft(p, split)
          IN  /\ HasSpace(IF KeyAt(p, split) <= k THEN CopyHalfRight(p, split)
                          ELSE left, k)
              /\ \A i \in 1 .. split : left.slots[i] >= p.slots[i]

\* A level that deletes have emptied can be filled again: a page that has no
\* space for a key holds the two tuples that FindSplitPoint asks for.  Delete
\* gives no heap bytes back, so a page that was full once violates this.
SplitHasTwoTuples ==
  \A k \in Keys \ present :
    ~HasSpace(pages[Target(k)], k) => Count(pages[Target(k)]) >= 2
=============================================================================
