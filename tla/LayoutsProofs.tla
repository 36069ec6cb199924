---------------------------- MODULE LayoutsProofs ----------------------------
(***************************************************************************)
(* Theorems about the bytes of pages, chunks and keys, for every value of  *)
(* the constants.  The loops of the code are recursive functions: each is  *)
(* shown to exist (LoopRuns), and a statement about all its rounds follows *)
(* from one about each round (StepByStep).  First the columns of a page    *)
(* and of a data chunk, then the order of encoded keys, then the level of  *)
(* slotted pages: what a page holds (PageOK), its searches, an insert, a   *)
(* delete, a split, the level as a whole (LevelInv), and the theorems.     *)
(***************************************************************************)
EXTENDS IndexPage, TableLayouts, FiniteSetTheorems, SequenceTheorems,
        WellFoundedInduction, TLAPS

-----------------------------------------------------------------------------
(* Loops: least counterexamples stand in for induction.                    *)

(* Lemma: every nonempty set of numbers has a least element. *)
LEMMA LeastNat ==
  ASSUME NEW S \in SUBSET Nat, S # {}
  PROVE  \E m \in S : \A y \in S : m <= y
<1> DEFINE R == OpToRel(<, Nat)
<1>1. IsWellFoundedOn(R, Nat)
  BY NatLessThanWellFounded
<1>2. \A a, b \in Nat : <<a, b>> \in R <=> a < b
  BY DEF OpToRel
<1> HIDE DEF R
<1>3. PICK x \in S : \A y \in S : ~(<<y, x>> \in R)
  BY <1>1, WFMin
<1>4. \A y \in S : ~(y < x)
  BY <1>2, <1>3
<1> QED BY <1>4

(* Lemma: what holds at 0 and from one step to the next holds up to n; T are  *)
(* the steps at which it holds.                                              *)
LEMMA StepByStep ==
  ASSUME NEW n \in Nat, NEW T, 0 \in T, \A i \in 1 .. n : i - 1 \in T => i \in T
  PROVE  \A i \in 0 .. n : i \in T
<1> DEFINE S == (0 .. n) \ T
<1> SUFFICES ASSUME S # {} PROVE FALSE
  OBVIOUS
<1>1. S \in SUBSET Nat
  OBVIOUS
<1>2. PICK m \in S : \A y \in S : m <= y
  BY <1>1, LeastNat
<1>3. m \in 1 .. n
  BY <1>2
<1>4. m - 1 \notin S
  BY <1>2, <1>3
<1>5. m - 1 \in T
  BY <1>3, <1>4
<1> QED BY <1>2, <1>3, <1>5

\* f[i] is the value after i steps of a loop that starts with b, where step i
\* takes x to step[i][x].
IsRun(f, b, n, step) == f[0] = b /\ \A i \in 1 .. n : f[i] = step[i][f[i - 1]]

(* Lemma: a loop over 1 .. n whose step i takes the value x to step[i][x] can *)
(* be run, so the recursive function that stands for it exists.              *)
LEMMA LoopRuns ==
  ASSUME NEW b, NEW n \in Nat, NEW step
  PROVE  \E f : IsRun(f, b, n, step)
<1> DEFINE Runs(m, f) == f = [i \in 0 .. m |-> IF i = 0 THEN b ELSE step[i][f[i - 1]]]
           T == {m \in Nat : \E f : Runs(m, f)}
<1>1. 0 \in T
  <2> DEFINE g == [i \in 0 .. 0 |-> b]
  <2>1. Runs(0, g)
    <3>1. g = [i \in 0 .. 0 |-> IF i = 0 THEN b ELSE step[i][g[i - 1]]]
      OBVIOUS
    <3> QED BY <3>1
  <2> QED BY <2>1
<1>2. ASSUME NEW m \in 1 .. n, m - 1 \in T PROVE m \in T
  <2>5. PICK f : Runs(m - 1, f)
    BY <1>2
  <2>6. f[0] = b /\ \A i \in 1 .. m - 1 : f[i] = step[i][f[i - 1]]
    BY <2>5
  <2> DEFINE g == [i \in 0 .. m |-> IF i = m THEN step[m][f[m - 1]] ELSE f[i]]
  <2>10. ASSUME NEW i \in 1 .. m PROVE g[i] = step[i][g[i - 1]]
    <3>1. CASE i = m
      BY <3>1
    <3>2. CASE i # m
      <4>1. i \in 1 .. m - 1 /\ i - 1 \in 0 .. m /\ i - 1 # m
        BY <3>2
      <4> QED BY <2>6, <4>1
    <3> QED BY <3>1, <3>2
  <2>11. g[0] = b
    BY <2>6
  <2>a. g = [i \in 0 .. m |-> g[i]]
    OBVIOUS
  <2> HIDE DEF g
  <2>b. \A i \in 0 .. m : g[i] = IF i = 0 THEN b ELSE step[i][g[i - 1]]
    BY <2>10, <2>11
  <2>12. g = [i \in 0 .. m |-> IF i = 0 THEN b ELSE step[i][g[i - 1]]]
    BY <2>a, <2>b
  <2>13. \E h : Runs(m, h)
    BY <2>12
  <2> HIDE DEF Runs
  <2> QED BY <2>13
<1> HIDE DEF T
<1>3. \A i \in 0 .. n : i \in T
  BY <1>1, <1>2, StepByStep
<1>4. PICK f : Runs(n, f)
  BY <1>3 DEF T
<1>5. f[0] = b /\ \A i \in 1 .. n : f[i] = step[i][f[i - 1]]
  BY <1>4
<1> HIDE DEF Runs
<1> QED BY <1>5 DEF IsRun

-----------------------------------------------------------------------------
(* The arithmetic of rows.                                                 *)

(* Lemma: the sums of a list of numbers. *)
LEMMA SumsAre ==
  ASSUME NEW s \in Seq(Int)
  PROVE  /\ PartialSums(s) \in [0 .. Len(s) -> Int]
         /\ PartialSums(s)[0] = 0
         /\ \A i \in 1 .. Len(s) : PartialSums(s)[i] = PartialSums(s)[i - 1] + s[i]
<1> DEFINE n == Len(s)
           step == [i \in 1 .. n |-> [x \in Int |-> x + s[i]]]
           IsSum(g) == g = [i \in 0 .. n |-> IF i = 0 THEN 0 ELSE g[i - 1] + s[i]]
<1>1. n \in Nat /\ \A i \in 1 .. n : s[i] \in Int
  OBVIOUS
<1> DEFINE zero == 0
<1> HIDE DEF step, n, zero
<1>2. PICK f : IsRun(f, zero, n, step)
  BY <1>1, LoopRuns
<1>3. f[0] = 0 /\ \A i \in 1 .. n : f[i] = step[i][f[i - 1]]
  BY <1>2 DEF IsRun, zero
<1>3a. \A i \in 1 .. n, x \in Int : step[i][x] = x + s[i]
  BY DEF step
<1> DEFINE T0 == {i \in 0 .. n : f[i] \in Int}
<1>4. \A i \in 0 .. n : i \in T0
  <2>1. 0 \in T0
    BY <1>1, <1>3
  <2>2. ASSUME NEW i \in 1 .. n, i - 1 \in T0 PROVE i \in T0
    <3>1. f[i - 1] \in Int /\ i \in 0 .. n
      BY <1>1, <2>2
    <3>2. f[i] = f[i - 1] + s[i]
      BY <1>3, <1>3a, <3>1
    <3> QED BY <1>1, <3>1, <3>2
  <2> HIDE DEF T0
  <2> QED BY <1>1, <2>1, <2>2, StepByStep
<1>4a. \A i \in 1 .. n : f[i] = f[i - 1] + s[i]
  <2> TAKE i \in 1 .. n
  <2>1. i - 1 \in 0 .. n
    BY <1>1
  <2>2. f[i - 1] \in Int
    BY <1>4, <2>1
  <2> QED BY <1>3, <1>3a, <2>2
<1> HIDE DEF T0
<1> DEFINE h == [i \in 0 .. n |-> f[i]]
<1>4b. \A i \in 0 .. n : h[i] = IF i = 0 THEN 0 ELSE h[i - 1] + s[i]
  BY <1>1, <1>3, <1>4a
<1>4c. h = [i \in 0 .. n |-> h[i]]
  OBVIOUS
<1> HIDE DEF h
<1>5. IsSum(h)
  BY <1>4b, <1>4c
<1>6. IsSum(CHOOSE g : IsSum(g))
  BY <1>5
<1>7. PartialSums(s) = CHOOSE g : IsSum(g)
  BY DEF PartialSums, n
<1> DEFINE p == PartialSums(s)
<1>8. p = [i \in 0 .. n |-> IF i = 0 THEN 0 ELSE p[i - 1] + s[i]]
  BY <1>6, <1>7
<1> HIDE DEF p
<1>9. p[0] = 0 /\ \A i \in 1 .. n : p[i] = p[i - 1] + s[i]
  BY <1>1, <1>8
<1> DEFINE T == {i \in 0 .. n : p[i] \in Int}
<1>10. \A i \in 0 .. n : i \in T
  <2>1. 0 \in T
    BY <1>1, <1>9
  <2>2. ASSUME NEW i \in 1 .. n, i - 1 \in T PROVE i \in T
    BY <1>1, <1>9, <2>2
  <2> HIDE DEF T
  <2> QED BY <1>1, <2>1, <2>2, StepByStep
<1>11. p \in [0 .. n -> Int]
  BY <1>8, <1>10
<1> QED BY <1>9, <1>11 DEF p, n

Widths == {1, 2, 4, 8, 16}

(* Lemma: AlignUp goes up to the next multiple, less than one alignment away. *)
LEMMA AlignUpIs ==
  ASSUME NEW n \in Nat, NEW to \in Widths
  PROVE  /\ AlignUp(n, to) \in Nat
         /\ n <= AlignUp(n, to) /\ AlignUp(n, to) <= n + to - 1
         /\ AlignUp(n, to) % to = 0
<1>1. CASE to = 1
  BY <1>1 DEF AlignUp
<1>2. CASE to = 2
  BY <1>2 DEF AlignUp
<1>3. CASE to = 4
  BY <1>3 DEF AlignUp
<1>4. CASE to = 8
  BY <1>4 DEF AlignUp
<1>5. CASE to = 16
  BY <1>5 DEF AlignUp
<1> QED BY <1>1, <1>2, <1>3, <1>4, <1>5 DEF Widths

(* Lemma: the loop of the two layouts: each column starts at an aligned       *)
(* offset not before the end of the one in front, and ends a width later.    *)
LEMMA EndsAre ==
  ASSUME NEW from \in Nat, NEW aligns \in Seq(Widths), NEW widths,
         \A i \in 1 .. Len(aligns) : widths[i] \in Nat
  PROVE  /\ \A i \in 0 .. Len(aligns) : Ends(from, aligns, widths)[i] \in Nat
         /\ Ends(from, aligns, widths)[0] = from
         /\ \A i \in 1 .. Len(aligns) :
              Ends(from, aligns, widths)[i]
                = AlignUp(Ends(from, aligns, widths)[i - 1], aligns[i]) + widths[i]
<1> DEFINE n == Len(aligns)
           step == [i \in 1 .. n |-> [x \in Nat |-> AlignUp(x, aligns[i]) + widths[i]]]
           IsEnd(g) == g = [i \in 0 .. n |-> IF i = 0 THEN from
                                  ELSE AlignUp(g[i - 1], aligns[i]) + widths[i]]
<1>1. n \in Nat /\ \A i \in 1 .. n : aligns[i] \in Widths /\ widths[i] \in Nat
  OBVIOUS
<1> HIDE DEF step, n
<1>2. PICK f : IsRun(f, from, n, step)
  BY <1>1, LoopRuns
<1>3. f[0] = from /\ \A i \in 1 .. n : f[i] = step[i][f[i - 1]]
  BY <1>2 DEF IsRun
<1>4. \A i \in 1 .. n, x \in Nat : step[i][x] = AlignUp(x, aligns[i]) + widths[i]
  BY DEF step
<1>4n. \A i \in 1 .. n, x \in Nat : AlignUp(x, aligns[i]) + widths[i] \in Nat
  BY <1>1, AlignUpIs, SMTT(30)
<1> DEFINE T0 == {i \in 0 .. n : f[i] \in Nat}
<1>5. \A i \in 0 .. n : i \in T0
  <2>1. 0 \in T0
    BY <1>1, <1>3
  <2>2. ASSUME NEW i \in 1 .. n, i - 1 \in T0 PROVE i \in T0
    <3>1. f[i - 1] \in Nat /\ i \in 0 .. n
      BY <1>1, <2>2
    <3>2. f[i] = AlignUp(f[i - 1], aligns[i]) + widths[i]
      BY <1>3, <1>4, <3>1
    <3> QED BY <1>4n, <3>1, <3>2
  <2> HIDE DEF T0
  <2> QED BY <1>1, <2>1, <2>2, StepByStep
<1>6. \A i \in 1 .. n : f[i] = AlignUp(f[i - 1], aligns[i]) + widths[i]
  <2> TAKE i \in 1 .. n
  <2>1. i - 1 \in 0 .. n
    BY <1>1
  <2>2. f[i - 1] \in Nat
    BY <1>5, <2>1
  <2> QED BY <1>3, <1>4, <2>2
<1> HIDE DEF T0
<1> DEFINE h == [i \in 0 .. n |-> f[i]]
<1>7. \A i \in 0 .. n : h[i] = IF i = 0 THEN from
                               ELSE AlignUp(h[i - 1], aligns[i]) + widths[i]
  BY <1>1, <1>3, <1>6
<1>8. h = [i \in 0 .. n |-> h[i]]
  OBVIOUS
<1> HIDE DEF h
<1>9. IsEnd(h)
  BY <1>7, <1>8
<1>10. IsEnd(CHOOSE g : IsEnd(g))
  BY <1>9
<1>11. Ends(from, aligns, widths) = CHOOSE g : IsEnd(g)
  BY DEF Ends, n
<1> DEFINE p == Ends(from, aligns, widths)
<1>12. p = [i \in 0 .. n |-> IF i = 0 THEN from ELSE AlignUp(p[i - 1], aligns[i]) + widths[i]]
  BY <1>10, <1>11
<1> HIDE DEF p
<1>13. p[0] = from /\ \A i \in 1 .. n : p[i] = AlignUp(p[i - 1], aligns[i]) + widths[i]
  BY <1>1, <1>12
<1> DEFINE T == {i \in 0 .. n : p[i] \in Nat}
<1>14. \A i \in 0 .. n : i \in T
  <2>1. 0 \in T
    BY <1>1, <1>13
  <2>2. ASSUME NEW i \in 1 .. n, i - 1 \in T PROVE i \in T
    <3>1. p[i - 1] \in Nat /\ i \in 0 .. n
      BY <1>1, <2>2
    <3> QED BY <1>4n, <1>13, <3>1
  <2> HIDE DEF T
  <2> QED BY <1>1, <2>1, <2>2, StepByStep
<1> QED BY <1>13, <1>14 DEF p, n

(* Lemma: where the columns start. *)
LEMMA StartsAre ==
  ASSUME NEW from \in Nat, NEW aligns \in Seq(Widths), NEW widths,
         \A i \in 1 .. Len(aligns) : widths[i] \in Nat
  PROVE  \A i \in 1 .. Len(aligns) :
           /\ Starts(from, aligns, widths)[i] \in Nat
           /\ Ends(from, aligns, widths)[i - 1] <= Starts(from, aligns, widths)[i]
           /\ Starts(from, aligns, widths)[i]
                <= Ends(from, aligns, widths)[i - 1] + aligns[i] - 1
           /\ Ends(from, aligns, widths)[i]
                = Starts(from, aligns, widths)[i] + widths[i]
           /\ Starts(from, aligns, widths)[i] % aligns[i] = 0
<1> DEFINE end == Ends(from, aligns, widths)
           start == Starts(from, aligns, widths)
<1>1. /\ \A i \in 0 .. Len(aligns) : end[i] \in Nat
      /\ \A i \in 1 .. Len(aligns) : end[i] = AlignUp(end[i - 1], aligns[i]) + widths[i]
  BY EndsAre
<1>2. \A i \in 1 .. Len(aligns) : start[i] = AlignUp(end[i - 1], aligns[i])
  BY DEF Starts
<1> HIDE DEF end, start
<1>3. ASSUME NEW i \in 1 .. Len(aligns)
      PROVE /\ start[i] \in Nat /\ end[i - 1] <= start[i]
            /\ start[i] <= end[i - 1] + aligns[i] - 1
            /\ end[i] = start[i] + widths[i] /\ start[i] % aligns[i] = 0
  <2>1. i - 1 \in 0 .. Len(aligns) /\ aligns[i] \in Widths
    OBVIOUS
  <2>2. end[i - 1] \in Nat
    BY <1>1, <2>1
  <2> DEFINE a == AlignUp(end[i - 1], aligns[i])
  <2>3. a \in Nat /\ end[i - 1] <= a /\ a <= end[i - 1] + aligns[i] - 1 /\ a % aligns[i] = 0
    BY <2>1, <2>2, AlignUpIs
  <2>4. start[i] = a /\ end[i] = a + widths[i]
    BY <1>1, <1>2
  <2> QED BY <2>3, <2>4
<1> QED BY <1>3 DEF end, start

(* A table's columns: their sizes, at least one. *)
Columns == {s \in Seq(Widths) : Len(s) >= 1}

(* Lemma: the sizes of the columns, summed. *)
LEMMA RowSizeIs ==
  ASSUME NEW cols \in Columns
  PROVE  /\ Len(cols) \in Nat /\ Len(cols) >= 1
         /\ \A i \in 1 .. Len(cols) : cols[i] \in Widths /\ cols[i] \in Nat
         /\ PartialSums(cols)[0] = 0
         /\ \A i \in 0 .. Len(cols) :
              /\ PartialSums(cols)[i] \in Nat
              /\ i <= PartialSums(cols)[i] /\ PartialSums(cols)[i] <= 16 * i
         /\ \A i \in 1 .. Len(cols) :
              PartialSums(cols)[i] = PartialSums(cols)[i - 1] + cols[i]
         /\ PartialSums(cols)[Len(cols)] = RowSize(cols)
<1> DEFINE n == Len(cols)
           p == PartialSums(cols)
<1>1. cols \in Seq(Int) /\ n \in Nat /\ n >= 1 /\ \A i \in 1 .. n : cols[i] \in Widths
  BY DEF Columns, Widths
<1>2. p[0] = 0 /\ \A i \in 1 .. n : p[i] = p[i - 1] + cols[i]
  BY <1>1, SumsAre
<1> HIDE DEF p, n
<1> DEFINE T == {i \in 0 .. n : p[i] \in Nat /\ i <= p[i] /\ p[i] <= 16 * i}
<1>3. \A i \in 0 .. n : i \in T
  <2>1. 0 \in T
    BY <1>1, <1>2
  <2>2. ASSUME NEW i \in 1 .. n, i - 1 \in T PROVE i \in T
    <3>1. cols[i] \in Nat /\ 1 <= cols[i] /\ cols[i] <= 16
      BY <1>1 DEF Widths
    <3>2. p[i - 1] \in Nat /\ i - 1 <= p[i - 1] /\ p[i - 1] <= 16 * (i - 1) /\ i \in 0 .. n
      BY <1>1, <2>2
    <3>3. p[i] = p[i - 1] + cols[i]
      BY <1>2
    <3> QED BY <1>1, <3>1, <3>2, <3>3
  <2> HIDE DEF T
  <2> QED BY <1>1, <2>1, <2>2, StepByStep
<1>4. p[n] = RowSize(cols)
  BY DEF p, n, RowSize
<1>5. \A i \in 1 .. n : cols[i] \in Nat
  BY <1>1 DEF Widths
<1> QED BY <1>1, <1>2, <1>3, <1>4, <1>5 DEF p, n

(* Lemma: the columns of a chunk follow its header. *)
LEMMA ChunkIs ==
  ASSUME NEW cols \in Columns
  PROVE  /\ \A i \in 1 .. Len(cols) :
              /\ DataChunkLayout(cols).offsets[i] \in Nat
              /\ DataChunkLayout(cols).offsets[i] % (IF cols[i] < 8 THEN cols[i] ELSE 8) = 0
         /\ 8 + 6 * Len(cols) <= DataChunkLayout(cols).offsets[1]
         /\ \A i \in 1 .. Len(cols) - 1 :
              DataChunkLayout(cols).offsets[i] + cols[i] <= DataChunkLayout(cols).offsets[i + 1]
         /\ DataChunkLayout(cols).total \in Nat
         /\ DataChunkLayout(cols).offsets[Len(cols)] + cols[Len(cols)]
              <= DataChunkLayout(cols).total
         /\ 8 + 6 * Len(cols) + RowSize(cols) <= DataChunkLayout(cols).total
<1> DEFINE n == Len(cols)
           header == ChunkHeaderSize(cols)
           aligns == ChunkAligns(cols)
           end == Ends(header, aligns, cols)
           start == Starts(header, aligns, cols)
           p == PartialSums(cols)
           total == DataChunkLayout(cols).total
           offsets == DataChunkLayout(cols).offsets
<1>1. n \in Nat /\ n >= 1 /\ \A i \in 1 .. n : cols[i] \in Widths /\ cols[i] \in Nat
  BY RowSizeIs
<1>2. header = 8 + 6 * n /\ header \in Nat
  BY <1>1 DEF ChunkHeaderSize, AlignUp
<1>3. Len(aligns) = n /\ aligns \in Seq(Widths)
  BY <1>1 DEF ChunkAligns, Widths
<1>4. \A i \in 1 .. n : aligns[i] = (IF cols[i] < 8 THEN cols[i] ELSE 8)
  BY DEF ChunkAligns
<1>5. total = AlignUp(end[n], 8) /\ offsets = start
  BY DEF DataChunkLayout
<1>6. p[0] = 0 /\ p[n] = RowSize(cols)
      /\ (\A i \in 0 .. n : p[i] \in Nat) /\ \A i \in 1 .. n : p[i] = p[i - 1] + cols[i]
  BY RowSizeIs
<1> HIDE DEF n, header, aligns, p, total, offsets
<1>7. /\ \A i \in 0 .. n : end[i] \in Nat
      /\ end[0] = header
  BY <1>1, <1>2, <1>3, EndsAre
<1>8. \A i \in 1 .. n :
        /\ start[i] \in Nat /\ end[i - 1] <= start[i]
        /\ end[i] = start[i] + cols[i] /\ start[i] % aligns[i] = 0
  <2>1. \A i \in 1 .. Len(aligns) : cols[i] \in Nat
    BY <1>1, <1>3
  <2>2. \A i \in 1 .. Len(aligns) :
           /\ Starts(header, aligns, cols)[i] \in Nat
           /\ Ends(header, aligns, cols)[i - 1] <= Starts(header, aligns, cols)[i]
           /\ Ends(header, aligns, cols)[i] = Starts(header, aligns, cols)[i] + cols[i]
           /\ Starts(header, aligns, cols)[i] % aligns[i] = 0
    BY <1>2, <1>3, <2>1, StartsAre, ZenonT(30)
  <2> QED BY <1>3, <2>2
<1> HIDE DEF end, start
<1> DEFINE T == {i \in 0 .. n : header + p[i] <= end[i]}
<1>9. \A i \in 0 .. n : i \in T
  <2>1. 0 \in T
    BY <1>1, <1>2, <1>6, <1>7
  <2>2. ASSUME NEW i \in 1 .. n, i - 1 \in T PROVE i \in T
    <3>1. i - 1 \in 0 .. n /\ i \in 0 .. n /\ header + p[i - 1] <= end[i - 1]
      BY <1>1, <2>2
    <3>2. /\ end[i - 1] \in Nat /\ end[i] \in Nat /\ p[i - 1] \in Nat /\ p[i] = p[i - 1] + cols[i]
          /\ start[i] \in Nat /\ end[i - 1] <= start[i] /\ end[i] = start[i] + cols[i]
          /\ cols[i] \in Nat
      BY <1>1, <1>6, <1>7, <1>8, <3>1
    <3> QED BY <1>2, <3>1, <3>2
  <2> HIDE DEF T
  <2> QED BY <1>1, <2>1, <2>2, StepByStep
<1>10. n \in 0 .. n /\ n \in 1 .. n /\ 1 \in 1 .. n /\ 0 \in 0 .. n
  BY <1>1
<1>11. header + p[n] <= end[n] /\ end[n] \in Nat /\ p[n] \in Nat
  BY <1>6, <1>7, <1>9, <1>10
<1>12. end[n] <= total /\ total \in Nat
  BY <1>5, <1>11, AlignUpIs DEF Widths
<1>13. \A i \in 1 .. n - 1 : offsets[i] + cols[i] <= offsets[i + 1]
  <2> TAKE i \in 1 .. n - 1
  <2>1. i \in 1 .. n /\ i + 1 \in 1 .. n /\ (i + 1) - 1 = i
    BY <1>1
  <2> QED BY <1>5, <1>8, <2>1
<1>14. header <= offsets[1]
  BY <1>5, <1>7, <1>8, <1>10
<1>15. offsets[n] + cols[n] <= total
  BY <1>1, <1>5, <1>8, <1>10, <1>11, <1>12
<1>16. header + p[n] <= total
  BY <1>2, <1>11, <1>12
<1> QED BY <1>2, <1>4, <1>5, <1>6, <1>8, <1>12, <1>13, <1>14, <1>15, <1>16
        DEF n, header, aligns, p, total, offsets

(* Lemma: the padding of the worst case is the row's size less one byte for   *)
(* every column.                                                             *)
LEMMA WorstCasePadIs ==
  ASSUME NEW cols \in Columns
  PROVE  WorstCasePad(cols) = RowSize(cols) - Len(cols)
<1> DEFINE n == Len(cols)
           pads == [i \in 1 .. n |-> cols[i] - 1]
           p == PartialSums(cols)
           q == PartialSums(pads)
<1>1. n \in Nat /\ \A i \in 1 .. n : cols[i] \in Nat
  BY RowSizeIs
<1>2. pads \in Seq(Int) /\ Len(pads) = n
  BY <1>1
<1>3. \A i \in 1 .. n : pads[i] = cols[i] - 1
  OBVIOUS
<1>4. p[0] = 0 /\ p[n] = RowSize(cols) /\ (\A i \in 0 .. n : p[i] \in Nat)
      /\ \A i \in 1 .. n : p[i] = p[i - 1] + cols[i]
  BY RowSizeIs
<1>5. WorstCasePad(cols) = q[n]
  BY <1>2 DEF WorstCasePad, RowSize
<1> HIDE DEF n, pads, p
<1>6. q[0] = 0 /\ (\A i \in 1 .. n : q[i] = q[i - 1] + pads[i]) /\ q \in [0 .. n -> Int]
  BY <1>2, SumsAre
<1> HIDE DEF q
<1> DEFINE T == {i \in 0 .. n : q[i] = p[i] - i}
<1>7. \A i \in 0 .. n : i \in T
  <2>1. 0 \in T
    BY <1>1, <1>4, <1>6
  <2>2. ASSUME NEW i \in 1 .. n, i - 1 \in T PROVE i \in T
    <3>1. i \in 0 .. n /\ i - 1 \in 0 .. n /\ q[i - 1] = p[i - 1] - (i - 1)
      BY <1>1, <2>2
    <3>2. /\ p[i] = p[i - 1] + cols[i] /\ q[i] = q[i - 1] + (cols[i] - 1)
          /\ p[i - 1] \in Nat /\ cols[i] \in Nat
      BY <1>1, <1>3, <1>4, <1>6, <3>1
    <3> QED BY <3>1, <3>2
  <2> HIDE DEF T
  <2> QED BY <1>1, <2>1, <2>2, StepByStep
<1>8. q[n] = p[n] - n
  BY <1>1, <1>7
<1> QED BY <1>4, <1>5, <1>8 DEF n

(* Lemma: products grow with their factors. *)
LEMMA Products ==
  ASSUME NEW a \in Int, NEW b \in Int, NEW c \in Nat
  PROVE  /\ a * c \in Int
         /\ a <= b => a * c <= b * c
         /\ (a + b) * c = a * c + b * c
         /\ c * (a + b) = c * a + c * b
         /\ a * c = c * a
         /\ a * (b * c) = (a * b) * c
OBVIOUS

(* Lemma: division leaves a remainder smaller than the divisor. *)
LEMMA Quotient ==
  ASSUME NEW a \in Int, NEW b \in Nat, b >= 1
  PROVE  /\ a \div b \in Int
         /\ (a \div b) * b <= a
         /\ a < (a \div b) * b + b
OBVIOUS

(* Lemma: a page of a table of up to 72 columns has rows, and MaxRowCount is  *)
(* the largest number the estimate allows.                                   *)
LEMMA MaxRowCountIs ==
  ASSUME NEW cols \in Columns, Len(cols) <= 72
  PROVE  /\ MaxRowCount(cols) \in Nat /\ MaxRowCount(cols) >= 1
         /\ MaxRowCount(cols) + 8 * (MaxRowCount(cols) * RowSize(cols))
              <= 65504 - 8 * RowSize(cols) + 8 * Len(cols)
         /\ MaxRowCount(cols) * (1 + 8 * RowSize(cols))
              >= 65504 - 16 * RowSize(cols) + 8 * Len(cols)
<1> DEFINE n == Len(cols)
           r == RowSize(cols)
           m == MaxRowCount(cols)
           a == 65504 - 8 * r + 8 * n
           b == 1 + 8 * r
<1>1. n \in Nat /\ n >= 1 /\ n <= 72 /\ r \in Nat /\ n <= r /\ r <= 16 * n
  BY RowSizeIs
<1>2. m = a \div b
  <2>1. m = ((8192 - 4 - (r - n)) * 8) \div (1 + 8 * r)
    BY WorstCasePadIs DEF MaxRowCount, DB7_PAGE_SIZE, HEADER_SIZE
  <2>2. (8192 - 4 - (r - n)) * 8 = a
    BY <1>1
  <2> QED BY <2>1, <2>2
<1> HIDE DEF m, n, r
<1>3. a \in Int /\ b \in Nat /\ b >= 1 /\ a >= 2 * b
  BY <1>1
<1>3a. a = 65504 - 8 * r + 8 * n /\ b = 1 + 8 * r
  OBVIOUS
<1> HIDE DEF a, b
<1>4. m \in Int /\ m * b <= a /\ a < m * b + b
  BY <1>2, <1>3, Quotient
<1>5. m >= 1
  <2> SUFFICES ASSUME m <= 0 PROVE FALSE
    BY <1>4
  <2>1. m * b <= 0 * b
    BY <1>3, <1>4, Products
  <2> QED BY <1>3, <1>4, <2>1
<1>6. m * b = m + 8 * (m * r)
  BY <1>1, <1>3a, <1>4
<1>7. m * b >= 65504 - 16 * r + 8 * n
  <2> DEFINE x == m * b
  <2>1. x \in Int /\ a < x + b
    BY <1>3, <1>4, Products
  <2> HIDE DEF x
  <2>2. x >= 65504 - 16 * r + 8 * n
    BY <1>1, <1>3a, <2>1
  <2> QED BY <2>2 DEF x
<1>8. m + 8 * (m * r) <= 65504 - 8 * r + 8 * n
  BY <1>3a, <1>4, <1>6
<1>9. m \in Nat /\ m >= 1
  BY <1>4, <1>5
<1> QED BY <1>3a, <1>7, <1>8, <1>9 DEF m, n, r

(* Lemma: bitmap and columns of a page end within it. *)
LEMMA OffsetsAre ==
  ASSUME NEW cols \in Columns, Len(cols) <= 72
  PROVE  LET rows == MaxRowCount(cols) IN
         /\ \A i \in 1 .. Len(cols) :
              /\ CalculateOffsets(cols)[i] \in Nat
              /\ CalculateOffsets(cols)[i] % cols[i] = 0
         /\ HEADER_SIZE + (rows + 7) \div 8 <= CalculateOffsets(cols)[1]
         /\ \A i \in 1 .. Len(cols) - 1 :
              rows * cols[i] + CalculateOffsets(cols)[i] <= CalculateOffsets(cols)[i + 1]
         /\ rows * cols[Len(cols)] + CalculateOffsets(cols)[Len(cols)] <= DB7_PAGE_SIZE
<1> DEFINE n == Len(cols)
           rows == MaxRowCount(cols)
           from == HEADER_SIZE + (rows + 7) \div 8
           widths == [i \in 1 .. n |-> rows * cols[i]]
           end == Ends(from, cols, widths)
           start == Starts(from, cols, widths)
           offsets == CalculateOffsets(cols)
           p == PartialSums(cols)
<1>1. n \in Nat /\ n >= 1 /\ cols \in Seq(Widths)
      /\ \A i \in 1 .. n : cols[i] \in Widths /\ cols[i] \in Nat
  BY RowSizeIs DEF Columns
<1>2. p[0] = 0 /\ p[n] = RowSize(cols) /\ (\A i \in 0 .. n : p[i] \in Nat)
      /\ \A i \in 1 .. n : p[i] = p[i - 1] + cols[i]
  BY RowSizeIs
<1>3. rows \in Nat /\ rows >= 1
      /\ rows + 8 * (rows * p[n]) <= 65504 - 8 * p[n] + 8 * n
  BY <1>2, MaxRowCountIs
<1>4. offsets = start
  BY DEF CalculateOffsets
<1> HIDE DEF rows, offsets, p
<1>5. from \in Nat /\ 8 * from <= 32 + rows + 7 /\ from = 4 + (rows + 7) \div 8
  BY <1>3 DEF HEADER_SIZE
<1>6. \A i \in 1 .. n : widths[i] = rows * cols[i] /\ widths[i] \in Nat
  BY <1>1, <1>3
<1>7. from = HEADER_SIZE + (rows + 7) \div 8
  OBVIOUS
<1> HIDE DEF n, from, widths
<1>8. (\A i \in 0 .. n : end[i] \in Nat) /\ end[0] = from
  BY <1>1, <1>5, <1>6, EndsAre DEF n
<1>9. \A i \in 1 .. n :
        /\ start[i] \in Nat /\ end[i - 1] <= start[i]
        /\ start[i] <= end[i - 1] + cols[i] - 1
        /\ end[i] = start[i] + widths[i] /\ start[i] % cols[i] = 0
  <2>1. \A i \in 1 .. Len(cols) : widths[i] \in Nat
    BY <1>6 DEF n
  <2>2. \A i \in 1 .. Len(cols) :
        /\ Starts(from, cols, widths)[i] \in Nat
        /\ Ends(from, cols, widths)[i - 1] <= Starts(from, cols, widths)[i]
        /\ Starts(from, cols, widths)[i] <= Ends(from, cols, widths)[i - 1] + cols[i] - 1
        /\ Ends(from, cols, widths)[i] = Starts(from, cols, widths)[i] + widths[i]
        /\ Starts(from, cols, widths)[i] % cols[i] = 0
    BY <1>1, <1>5, <2>1, StartsAre
  <2> QED BY <2>2 DEF n
<1> HIDE DEF end, start
<1> DEFINE T == {i \in 0 .. n : end[i] <= from + (p[i] - i) + rows * p[i]}
<1>10. \A i \in 0 .. n : i \in T
  <2>1. 0 \in T
    BY <1>1, <1>2, <1>3, <1>5, <1>8, SMTT(30)
  <2>2. ASSUME NEW i \in 1 .. n, i - 1 \in T PROVE i \in T
    <3>1. i - 1 \in 0 .. n /\ i \in 0 .. n
          /\ end[i - 1] <= from + (p[i - 1] - (i - 1)) + rows * p[i - 1]
      BY <1>1, <2>2
    <3>2. /\ end[i - 1] \in Nat /\ p[i - 1] \in Nat /\ p[i] = p[i - 1] + cols[i]
          /\ start[i] \in Nat /\ start[i] <= end[i - 1] + cols[i] - 1
          /\ end[i] = start[i] + rows * cols[i] /\ cols[i] \in Nat
      BY <1>1, <1>2, <1>6, <1>8, <1>9, <3>1
    <3> DEFINE b == p[i - 1]
               c == cols[i]
               e == end[i - 1]
               s == start[i]
    <3>3. /\ b \in Nat /\ c \in Nat /\ e \in Nat /\ s \in Nat /\ s <= e + c - 1
          /\ p[i] = b + c /\ end[i] = s + rows * c
          /\ e <= from + (b - (i - 1)) + rows * b
      BY <3>1, <3>2
    <3> HIDE DEF b, c, e, s
    <3>4. rows * (b + c) = rows * b + rows * c
      BY <1>3, <3>3, Products
    <3> DEFINE x == rows * b
               y == rows * c
               z == rows * (b + c)
    <3>5. x \in Int /\ y \in Int /\ z = x + y /\ e <= from + (b - (i - 1)) + x
      BY <1>3, <3>3, <3>4, Products
    <3>6. end[i] = s + y /\ rows * p[i] = z
      BY <3>3
    <3> HIDE DEF x, y, z
    <3>6a. b \in Nat /\ c \in Nat /\ e \in Nat /\ s \in Nat /\ s <= e + c - 1 /\ from \in Nat
      BY <1>5, <3>3
    <3>7. s + y <= from + ((b + c) - i) + z
      BY <3>5, <3>6a
    <3>8. end[i] <= from + (p[i] - i) + rows * p[i]
      BY <3>3, <3>6, <3>7
    <3> QED BY <3>1, <3>8
  <2> HIDE DEF T
  <2> QED BY <1>1, <2>1, <2>2, StepByStep
<1>11. n \in 0 .. n /\ n \in 1 .. n /\ 1 \in 1 .. n
  BY <1>1
<1>12. end[n] \in Nat /\ p[n] \in Nat /\ end[n] <= from + (p[n] - n) + rows * p[n]
  BY <1>2, <1>8, <1>10, <1>11
<1>13. end[n] <= 8192
  <2> DEFINE x == rows * p[n]
             y == p[n]
             z == end[n]
  <2>1. /\ x \in Int /\ y \in Int /\ z \in Int
        /\ rows + 8 * x <= 65504 - 8 * y + 8 * n
        /\ z <= from + (y - n) + x
    BY <1>3, <1>12, Products
  <2> HIDE DEF x, y, z
  <2>2. z <= 8192
    BY <1>1, <1>3, <1>5, <2>1
  <2> QED BY <2>2 DEF z
<1>14. \A i \in 1 .. n - 1 : rows * cols[i] + start[i] <= start[i + 1]
  <2> TAKE i \in 1 .. n - 1
  <2>1. i \in 1 .. n /\ i + 1 \in 1 .. n /\ (i + 1) - 1 = i
    BY <1>1
  <2>2. /\ end[i] <= start[i + 1] /\ end[i] = start[i] + rows * cols[i] /\ start[i] \in Nat
        /\ cols[i] \in Nat
    BY <1>1, <1>6, <1>9, <2>1
  <2>3. rows * cols[i] \in Int
    BY <1>3, <2>2, Products
  <2> QED BY <2>2, <2>3
<1>15. rows * cols[n] + start[n] = end[n]
  <2>1. end[n] = start[n] + rows * cols[n] /\ start[n] \in Nat /\ cols[n] \in Nat
    BY <1>1, <1>6, <1>9, <1>11
  <2>2. rows * cols[n] \in Int
    BY <1>3, <2>1, Products
  <2> QED BY <2>1, <2>2
<1>16. from <= start[1]
  BY <1>8, <1>9, <1>11
<1> QED BY <1>4, <1>7, <1>9, <1>13, <1>14, <1>15, <1>16 DEF rows, n, offsets, DB7_PAGE_SIZE

(* Lemma: counting chunk bytes sends fewer rows to a page than it holds. *)
LEMMA RowsSentFit ==
  ASSUME NEW cols \in Columns, Len(cols) <= 72
  PROVE  RowsSentToPage(cols) < MaxRowCount(cols)
<1> DEFINE n == Len(cols)
           r == RowSize(cols)
           m == MaxRowCount(cols)
           t == DataChunkLayout(cols).total
           q == RowsSentToPage(cols)
           a == 65504 - 16 * r + 8 * n
           b == 1 + 8 * r
           c == 8 + 6 * n + r
<1>1. n \in Nat /\ n >= 1 /\ n <= 72 /\ r \in Nat /\ n <= r /\ r <= 16 * n
  BY RowSizeIs
<1>2. t \in Nat /\ c <= t
  BY <1>1, ChunkIs
<1>3. m \in Nat /\ a <= m * b
  BY <1>1, MaxRowCountIs
<1>4. q = 8188 \div t
  BY DEF RowsSentToPage, DB7_PAGE_SIZE, HEADER_SIZE
<1> HIDE DEF n, r, m, t, q
<1>5. a \in Nat /\ b \in Nat /\ c \in Nat /\ c >= 1
  BY <1>1
<1>6. a * c > 8188 * b
  <2> DEFINE x == n * r
             y == r * r
  <2>1. x \in Int /\ y \in Int /\ x = r * n
    BY <1>1, Products
  <2>2. y <= 16 * x
    <3>1. r * r <= (16 * n) * r
      BY <1>1, Products
    <3>2. (16 * n) * r = 16 * (n * r)
      BY <1>1
    <3> QED BY <3>1, <3>2
  <2>3. x <= 72 * r
    BY <1>1, Products
  <2>4. n * n \in Nat
    BY <1>1
  <2>5. a * c = 524032 + 393088 * n + 65376 * r - 88 * x - 16 * y + 48 * (n * n)
    BY <1>1
  <2>6. 8188 * b = 8188 + 65504 * r
    BY <1>1
  <2> DEFINE z == n * n
             u == a * c
  <2>7. u = 524032 + 393088 * n + 65376 * r - 88 * x - 16 * y + 48 * z /\ z \in Nat
    BY <2>4, <2>5
  <2> HIDE DEF x, y, z, u
  <2>8. u > 8188 + 65504 * r
    BY <1>1, <2>1, <2>2, <2>3, <2>7
  <2> QED BY <2>6, <2>8 DEF u
<1> HIDE DEF a, b, c
<1>7. SUFFICES ASSUME m <= q PROVE FALSE
  <2>1. q \in Int
    BY <1>2, <1>4, <1>5, Quotient
  <2> QED BY <1>3, <2>1 DEF m, q
<1>8. q \in Nat /\ q * t <= 8188
  <2>1. q \in Int /\ q * t <= 8188
    BY <1>2, <1>4, <1>5, Quotient
  <2> QED BY <1>3, <1>7, <2>1
<1>9. a * t <= 8188 * b
  <2>1. a <= q * b
    <3>1. m * b <= q * b
      BY <1>3, <1>5, <1>7, <1>8, Products
    <3>2. m * b \in Int /\ q * b \in Int
      BY <1>3, <1>5, <1>8, Products
    <3> QED BY <1>3, <1>5, <3>1, <3>2
  <2>2. a * t <= (q * b) * t
    <3>1. q * b \in Int
      BY <1>5, <1>8, Products
    <3> QED BY <1>2, <1>5, <2>1, <3>1, Products
  <2>3. (q * b) * t = (q * t) * b
    BY <1>2, <1>5, <1>8
  <2>4. (q * t) * b <= 8188 * b
    <3>1. q * t \in Int
      BY <1>2, <1>8, Products
    <3> QED BY <1>5, <1>8, <3>1, Products
  <2>5. a * t \in Int /\ (q * t) * b \in Int /\ 8188 * b \in Int
    BY <1>2, <1>5, <1>8
  <2> QED BY <2>2, <2>3, <2>4, <2>5
<1>10. a * c <= a * t
  <2>1. c * a <= t * a
    BY <1>2, <1>5, Products
  <2>2. c * a = a * c /\ t * a = a * t
    BY <1>2, <1>5, Products
  <2> QED BY <2>1, <2>2
<1> QED
  <2>1. a * c \in Int /\ a * t \in Int /\ 8188 * b \in Int
    BY <1>2, <1>5
  <2> QED BY <1>6, <1>9, <1>10, <2>1

(* Lemma: the layout of a table is sound. *)
LEMMA PageHoldsRows ==
  ASSUME NEW cols \in Columns, Len(cols) <= 72
  PROVE  LET rows == MaxRowCount(cols)
             n    == Len(cols)
         IN /\ DeletedByte(rows - 1) < CalcOffset(cols, 0, 1)
            /\ \A i \in 1 .. n : CalcOffset(cols, 0, i) % cols[i] = 0
            /\ \A i \in 1 .. n - 1 :
                 CalcOffset(cols, rows, i) <= CalcOffset(cols, 0, i + 1)
            /\ CalcOffset(cols, rows, n) <= DB7_PAGE_SIZE
            /\ RowsSentToPage(cols) < rows
<1> DEFINE n == Len(cols)
           rows == MaxRowCount(cols)
           offsets == CalculateOffsets(cols)
<1>1. n \in Nat /\ n >= 1 /\ \A i \in 1 .. n : cols[i] \in Nat
  BY RowSizeIs
<1>2. /\ \A i \in 1 .. n : offsets[i] \in Nat /\ offsets[i] % cols[i] = 0
      /\ HEADER_SIZE + (rows + 7) \div 8 <= offsets[1]
      /\ \A i \in 1 .. n - 1 : rows * cols[i] + offsets[i] <= offsets[i + 1]
      /\ rows * cols[n] + offsets[n] <= DB7_PAGE_SIZE
  BY OffsetsAre
<1>3. rows \in Nat /\ RowsSentToPage(cols) < rows
  BY MaxRowCountIs, RowsSentFit
<1>4. \A i \in 1 .. n : CalcOffset(cols, 0, i) = offsets[i]
  <2> TAKE i \in 1 .. n
  <2>1. CalcOffset(cols, 0, i) = 0 * cols[i] + offsets[i]
    BY DEF CalcOffset
  <2> HIDE DEF offsets, n
  <2> QED BY <1>1, <1>2, <2>1
<1>5. \A i \in 1 .. n : CalcOffset(cols, rows, i) = rows * cols[i] + offsets[i]
  BY DEF CalcOffset
<1>6. 1 \in 1 .. n /\ n \in 1 .. n /\ \A i \in 1 .. n - 1 : i \in 1 .. n /\ i + 1 \in 1 .. n
  BY <1>1
<1>7. DeletedByte(rows - 1) < offsets[1]
  <2>1. DeletedByte(rows - 1) = HEADER_SIZE + (rows - 1) \div 8
    BY DEF DeletedByte
  <2>2. offsets[1] \in Nat
    BY <1>2, <1>6
  <2> HIDE DEF offsets, n, rows
  <2>3. (rows - 1) \div 8 < (rows + 7) \div 8 /\ (rows - 1) \div 8 \in Int /\ (rows + 7) \div 8 \in Int
    BY <1>3
  <2> QED BY <1>2, <2>1, <2>2, <2>3 DEF HEADER_SIZE
<1> HIDE DEF offsets, n, rows
<1>8. \A i \in 1 .. n - 1 : CalcOffset(cols, rows, i) <= CalcOffset(cols, 0, i + 1)
  BY <1>2, <1>4, <1>5, <1>6
<1>9. CalcOffset(cols, rows, n) <= DB7_PAGE_SIZE
  BY <1>2, <1>5, <1>6
<1>10. DeletedByte(rows - 1) < CalcOffset(cols, 0, 1)
  BY <1>4, <1>6, <1>7
<1>11. \A i \in 1 .. n : CalcOffset(cols, 0, i) % cols[i] = 0
  BY <1>2, <1>4
<1> QED BY <1>3, <1>8, <1>9, <1>10, <1>11 DEF n, rows

SqlTypes == {"BOOLEAN", "TINYINT", "SMALLINT", "INTEGER", "DOUBLE", "VARCHAR", "VARBINARY"}

(* A list of n column types. *)
TypeList(s, n) == s \in Seq(SqlTypes) /\ Len(s) = n

(* Lemma: lists of one type. *)
LEMMA TimesIs ==
  ASSUME NEW n \in Nat, NEW type \in SqlTypes
  PROVE  TypeList(Times(n, type), n)
BY DEF Times, TypeList

(* Lemma: the lengths of lists that are put together add up. *)
LEMMA TypesConcat ==
  ASSUME NEW a, NEW b, NEW m \in Nat, NEW n \in Nat, TypeList(a, m), TypeList(b, n)
  PROVE  TypeList(a \o b, m + n)
BY DEF TypeList

(* Lemma: the system tables have between two and 22 columns. *)
LEMMA SchemasAre ==
  ASSUME NEW s \in Schemas
  PROVE  \E n \in 1 .. 22 : TypeList(s, n)
<1> USE DEF SqlTypes, TypeList
<1>1. TypeList(CreateDatabaseSchema, 2) /\ TypeList(CreateNamespaceSchema, 2)
  BY DEF CreateDatabaseSchema, CreateNamespaceSchema
<1>2. TypeList(CreateClassSchema, 5)
  BY DEF CreateClassSchema
<1>3. TypeList(CreateAttributeSchema, 6)
  BY DEF CreateAttributeSchema
<1>4. TypeList(CreateTypeSchema, 6)
  BY DEF CreateTypeSchema
<1> DEFINE a1 == Times(2, "INTEGER")
           a2 == Times(7, "BOOLEAN")
           a3 == <<"TINYINT">>
           b1 == <<"INTEGER", "VARCHAR", "INTEGER", "TINYINT">>
           b2 == Times(3, "BOOLEAN")
           b3 == Times(3, "INTEGER")
           c1 == <<"INTEGER", "VARCHAR">>
           c2 == Times(2, "BOOLEAN")
           d1 == <<"INTEGER", "VARCHAR", "INTEGER", "INTEGER", "DOUBLE", "DOUBLE", "INTEGER">>
           d2 == Times(4, "BOOLEAN")
           d3 == <<"TINYINT", "SMALLINT", "SMALLINT", "INTEGER">>
           d4 == Times(5, "VARBINARY")
           d5 == <<"VARCHAR", "VARBINARY">>
<1>5. TypeList(a3, 1) /\ TypeList(b1, 4) /\ TypeList(c1, 2)
  OBVIOUS
<1>6. TypeList(d1, 7) /\ TypeList(d3, 4) /\ TypeList(d5, 2)
  OBVIOUS
<1> HIDE DEF TypeList
<1>7. /\ TypeList(a1, 2) /\ TypeList(a2, 7) /\ TypeList(b2, 3) /\ TypeList(b3, 3)
      /\ TypeList(c2, 2) /\ TypeList(d2, 4) /\ TypeList(d4, 5)
  BY TimesIs
<1>8. /\ CreateIndexSchema = a1 \o a2 \o a3
      /\ CreateConstraintSchema = b1 \o b2 \o b3
      /\ CreateLanguageSchema = c1 \o c2 \o b3
      /\ CreateProcSchema = d1 \o d2 \o d3 \o d4 \o d5
  BY DEF CreateIndexSchema, CreateConstraintSchema, CreateLanguageSchema, CreateProcSchema
<1> HIDE DEF a1, a2, a3, b1, b2, b3, c1, c2, d1, d2, d3, d4, d5, SqlTypes
<1>9. TypeList(CreateIndexSchema, 10)
  <2>1. TypeList(a1 \o a2, 2 + 7)
    BY <1>7, TypesConcat
  <2>2. TypeList((a1 \o a2) \o a3, 9 + 1)
    BY <1>5, <2>1, TypesConcat
  <2> QED BY <1>8, <2>2
<1>10. TypeList(CreateConstraintSchema, 10)
  <2>1. TypeList(b1 \o b2, 4 + 3)
    BY <1>5, <1>7, TypesConcat
  <2>2. TypeList((b1 \o b2) \o b3, 7 + 3)
    BY <1>7, <2>1, TypesConcat
  <2> QED BY <1>8, <2>2
<1>11. TypeList(CreateLanguageSchema, 7)
  <2>1. TypeList(c1 \o c2, 2 + 2)
    BY <1>5, <1>7, TypesConcat
  <2>2. TypeList((c1 \o c2) \o b3, 4 + 3)
    BY <1>7, <2>1, TypesConcat
  <2> QED BY <1>8, <2>2
<1>12. TypeList(CreateProcSchema, 22)
  <2>1. TypeList(d1 \o d2, 7 + 4)
    BY <1>6, <1>7, TypesConcat
  <2>2. TypeList((d1 \o d2) \o d3, 11 + 4)
    BY <1>6, <2>1, TypesConcat
  <2>3. TypeList((d1 \o d2 \o d3) \o d4, 15 + 5)
    BY <1>7, <2>2, TypesConcat
  <2>4. TypeList((d1 \o d2 \o d3 \o d4) \o d5, 20 + 2)
    BY <1>6, <2>3, TypesConcat
  <2> QED BY <1>8, <2>4
<1> QED BY <1>1, <1>2, <1>3, <1>4, <1>9, <1>10, <1>11, <1>12 DEF Schemas

(* Lemma: what the layouts of a table are computed from. *)
LEMMA SizeListsAre ==
  ASSUME TableLayoutsAssumption, NEW s \in SizeLists
  PROVE  s \in Columns /\ (MaxColumns <= 72 => Len(s) <= 72)
<1>1. CASE s \in UNION {[1 .. n -> {1, 2, 4, 8, 16}] : n \in 1 .. MaxColumns}
  <2>1. PICK n \in 1 .. MaxColumns : s \in [1 .. n -> {1, 2, 4, 8, 16}]
    BY <1>1
  <2>2. n \in Nat /\ n >= 1 /\ n <= MaxColumns /\ MaxColumns \in Nat
    BY DEF TableLayoutsAssumption
  <2>3. s \in Seq(Widths) /\ Len(s) = n
    BY <2>1, <2>2 DEF Widths
  <2> QED BY <2>2, <2>3 DEF Columns
<1>2. CASE s \in {CreateLayoutFromSchema(x) : x \in Schemas}
  <2>1. PICK x \in Schemas : s = CreateLayoutFromSchema(x)
    BY <1>2
  <2>2. PICK n \in 1 .. 22 : TypeList(x, n)
    BY SchemasAre
  <2>3. \A t \in SqlTypes : SizeOf[t] \in Widths
    BY DEF SizeOf, SqlTypes, Widths
  <2>4. DOMAIN x = 1 .. n /\ n \in Nat /\ \A i \in 1 .. n : x[i] \in SqlTypes
    BY <2>2 DEF TypeList
  <2>5. s = [i \in 1 .. n |-> SizeOf[x[i]]]
    BY <2>1, <2>4 DEF CreateLayoutFromSchema
  <2>6. s \in Seq(Widths) /\ Len(s) = n
    BY <2>3, <2>4, <2>5
  <2>7. n >= 1 /\ n <= 72
    OBVIOUS
  <2> QED BY <2>6, <2>7 DEF Columns
<1> QED
  <2> DEFINE A == UNION {[1 .. n -> {1, 2, 4, 8, 16}] : n \in 1 .. MaxColumns}
             B == {CreateLayoutFromSchema(x) : x \in Schemas}
  <2>1. SizeLists = A \cup B
    BY DEF SizeLists
  <2> HIDE DEF A, B
  <2>2. s \in A \/ s \in B
    BY <2>1
  <2> QED BY <1>1, <1>2, <2>2 DEF A, B

(* The table and the index, if they exist, are ones that can be created. *)
TablesInv ==
  /\ sizes = <<>> \/ sizes \in SizeLists
  /\ types = <<>> \/ types \in KeyTypes

(* Lemma: TablesInv is an invariant. *)
LEMMA TablesInvAlways == TablesSpec => []TablesInv
<1>1. TablesInit => TablesInv
  BY DEF TablesInit, TablesInv
<1>2. TablesInv /\ [TablesNext]_tableVars => TablesInv'
  <2> SUFFICES ASSUME TablesInv, [TablesNext]_tableVars PROVE TablesInv'
    OBVIOUS
  <2>0. SizeLists' = SizeLists /\ KeyTypes' = KeyTypes
    OBVIOUS
  <2>1. CASE CreateLayouts
    BY <2>1 DEF CreateLayouts, TablesInv
  <2>2. CASE CreateKey
    BY <2>2 DEF CreateKey, TablesInv
  <2>3. CASE UNCHANGED tableVars
    BY <2>3 DEF tableVars, TablesInv
  <2> QED BY <2>1, <2>2, <2>3 DEF TablesNext
<1> QED BY <1>1, <1>2, PTL DEF TablesSpec

(* Theorem: PaxLayout is sound for every table of up to 72 columns, of any   *)
(* sizes in any order, and for the system tables: bitmap and columns do not   *)
(* overlap, are aligned and end within the page, and the free space manager   *)
(* sends fewer rows to a page than it holds.                                 *)
THEOREM PagesHoldRowsAlways ==
  ASSUME TableLayoutsAssumption, MaxColumns <= 72
  PROVE  TablesSpec => []PagesHoldRows
<1>1. TablesInv => PagesHoldRows
  <2> SUFFICES ASSUME TablesInv, sizes # <<>> PROVE PagesHoldRows
    BY DEF PagesHoldRows
  <2>1. sizes \in Columns /\ Len(sizes) <= 72
    BY SizeListsAre DEF TablesInv
  <2> QED BY <2>1, PageHoldsRows DEF PagesHoldRows
<1> QED BY <1>1, TablesInvAlways, PTL

(* Theorem: chunks are sound for tables of any number of columns of any sizes *)
(* in any order: DataChunk's accessors find the header DataChunkLayout wrote, *)
(* columns are aligned and overlap neither the header nor each other, and end *)
(* within the chunk.                                                         *)
THEOREM ChunksWellFormedAlways ==
  ASSUME TableLayoutsAssumption
  PROVE  TablesSpec => []ChunksWellFormed
<1>1. TablesInv => ChunksWellFormed
  <2> SUFFICES ASSUME TablesInv, sizes # <<>> PROVE ChunksWellFormed
    BY DEF ChunksWellFormed
  <2> DEFINE n == Len(sizes)
             chunk == DataChunkLayout(sizes)
  <2>1. sizes \in Columns
    BY SizeListsAre DEF TablesInv
  <2>2. n \in Nat /\ \A i \in 1 .. n : sizes[i] \in Nat
    BY <2>1, RowSizeIs
  <2>3. GetDataPtr(sizes) = 8 + 6 * n
    BY <2>2 DEF GetDataPtr, GetOffsetsPtr, AlignUp
  <2>4. /\ \A i \in 1 .. n : chunk.offsets[i] % (IF sizes[i] < 8 THEN sizes[i] ELSE 8) = 0
        /\ 8 + 6 * n <= chunk.offsets[1]
        /\ \A i \in 1 .. n - 1 : chunk.offsets[i] + sizes[i] <= chunk.offsets[i + 1]
        /\ chunk.offsets[n] + sizes[n] <= chunk.total
    BY <2>1, ChunkIs
  <2> QED BY <2>3, <2>4 DEF ChunksWellFormed
<1> QED BY <1>1, TablesInvAlways, PTL

-----------------------------------------------------------------------------
(* Lists that are put together.                                            *)

\* f[i] is the first i lists of ss, put together.
Flattened(S, ss, f) ==
  /\ FlattenSeq(ss) = f[Len(ss)]
  /\ f[1] = ss[1]
  /\ \A i \in 2 .. Len(ss) : f[i] = f[i - 1] \o ss[i]
  /\ \A i \in 1 .. Len(ss) : f[i] \in Seq(S)

(* Lemma: what FlattenSeq returns: the lists one after the other. *)
LEMMA FlattenSeqIs ==
  ASSUME NEW S, NEW ss \in Seq(Seq(S)), Len(ss) >= 1
  PROVE  \E f : Flattened(S, ss, f)
<1> DEFINE n == Len(ss)
           step == [i \in 1 .. n |-> [x \in Seq(S) |-> IF i = 1 THEN ss[1] ELSE x \o ss[i]]]
           none == <<>>
           IsFlat(g) == g = [i \in 1 .. n |-> IF i = 1 THEN ss[i] ELSE g[i - 1] \o ss[i]]
<1>1. n \in Nat /\ n >= 1 /\ \A i \in 1 .. n : ss[i] \in Seq(S)
  OBVIOUS
<1>1a. none \in Seq(S)
  OBVIOUS
<1> HIDE DEF step, n, none
<1>2. PICK f : IsRun(f, none, n, step)
  BY <1>1, LoopRuns
<1>3. f[0] = none /\ \A i \in 1 .. n : f[i] = step[i][f[i - 1]]
  BY <1>2 DEF IsRun
<1>4. \A i \in 1 .. n, x \in Seq(S) :
        step[i][x] = (IF i = 1 THEN ss[1] ELSE x \o ss[i]) /\ step[i][x] \in Seq(S)
  <2> TAKE i \in 1 .. n, x \in Seq(S)
  <2>1. step[i][x] = IF i = 1 THEN ss[1] ELSE x \o ss[i]
    BY DEF step
  <2>2. ss[i] \in Seq(S)
    BY <1>1
  <2>3. x \o ss[i] \in Seq(S)
    BY <2>2, ConcatProperties
  <2> QED BY <1>1, <2>1, <2>2, <2>3
<1> DEFINE T0 == {i \in 0 .. n : f[i] \in Seq(S)}
<1>5. \A i \in 0 .. n : i \in T0
  <2>1. 0 \in T0
    BY <1>1, <1>1a, <1>3
  <2>2. ASSUME NEW i \in 1 .. n, i - 1 \in T0 PROVE i \in T0
    <3>1. f[i - 1] \in Seq(S) /\ i \in 0 .. n
      BY <1>1, <2>2
    <3> QED BY <1>3, <1>4, <3>1
  <2> HIDE DEF T0
  <2> QED BY <1>1, <2>1, <2>2, StepByStep
<1>6. \A i \in 1 .. n : f[i] \in Seq(S) /\ f[i] = IF i = 1 THEN ss[1] ELSE f[i - 1] \o ss[i]
  <2> TAKE i \in 1 .. n
  <2>1. i - 1 \in 0 .. n /\ i \in 0 .. n
    BY <1>1
  <2>2. f[i - 1] \in Seq(S) /\ f[i] \in Seq(S)
    BY <1>5, <2>1
  <2> QED BY <1>3, <1>4, <2>2
<1> HIDE DEF T0
<1> DEFINE h == [i \in 1 .. n |-> f[i]]
<1>7. \A i \in 1 .. n : h[i] = IF i = 1 THEN ss[i] ELSE h[i - 1] \o ss[i]
  <2> TAKE i \in 1 .. n
  <2>1. CASE i = 1
    BY <1>6, <2>1
  <2>2. CASE i # 1
    <3>1. i - 1 \in 1 .. n
      BY <1>1, <2>2
    <3> QED BY <1>6, <2>2, <3>1
  <2> QED BY <2>1, <2>2
<1>8. h = [i \in 1 .. n |-> h[i]]
  OBVIOUS
<1> HIDE DEF h
<1>9. IsFlat(h)
  BY <1>7, <1>8
<1>10. IsFlat(CHOOSE g : IsFlat(g))
  BY <1>9
<1> DEFINE p == CHOOSE g : IsFlat(g)
<1>11. FlattenSeq(ss) = p[n]
  BY <1>1 DEF FlattenSeq, n
<1>12. p = [i \in 1 .. n |-> IF i = 1 THEN ss[i] ELSE p[i - 1] \o ss[i]]
  BY <1>10
<1> HIDE DEF p
<1>12a. \A i \in 1 .. n : p[i] = IF i = 1 THEN ss[i] ELSE p[i - 1] \o ss[i]
  BY <1>12
<1>13. p[1] = ss[1] /\ \A i \in 2 .. n : p[i] = p[i - 1] \o ss[i]
  <2>1. 1 \in 1 .. n
    BY <1>1
  <2>2. p[1] = ss[1]
    BY <1>12a, <2>1
  <2>3. \A i \in 2 .. n : i \in 1 .. n /\ i # 1
    BY <1>1
  <2> QED BY <1>12a, <2>2, <2>3
<1> DEFINE T == {i \in 0 .. n : i = 0 \/ p[i] \in Seq(S)}
<1>14. \A i \in 0 .. n : i \in T
  <2>1. 0 \in T
    BY <1>1
  <2>2. ASSUME NEW i \in 1 .. n, i - 1 \in T PROVE i \in T
    <3>1. CASE i = 1
      BY <1>1, <1>13, <3>1
    <3>2. CASE i # 1
      <4>1. i \in 2 .. n /\ p[i - 1] \in Seq(S) /\ ss[i] \in Seq(S)
        BY <1>1, <2>2, <3>2
      <4>2. p[i - 1] \o ss[i] \in Seq(S)
        BY <4>1, ConcatProperties
      <4>3. p[i] = p[i - 1] \o ss[i]
        BY <1>13, <4>1
      <4>4. i \in 0 .. n
        BY <1>1
      <4>5. p[i] \in Seq(S)
        BY <4>2, <4>3, Zenon
      <4> QED BY <4>4, <4>5
    <3> QED BY <3>1, <3>2
  <2> HIDE DEF T
  <2> QED BY <1>1, <2>1, <2>2, StepByStep
<1>15. \A i \in 1 .. n : p[i] \in Seq(S)
  BY <1>1, <1>14
<1>16. Flattened(S, ss, p)
  BY <1>11, <1>13, <1>15 DEF n, Flattened
<1> QED BY <1>16

(* Lemma: lists of numbers that are put together. *)
LEMMA FlattenSeqType ==
  ASSUME NEW S, NEW ss \in Seq(Seq(S)), Len(ss) >= 1
  PROVE  FlattenSeq(ss) \in Seq(S)
<1>1. Len(ss) \in 1 .. Len(ss)
  OBVIOUS
<1> QED BY <1>1, FlattenSeqIs DEF Flattened

(* Lemma: one list is left as it is, two are put together. *)
LEMMA FlattenOneOrTwo ==
  ASSUME NEW S, NEW a \in Seq(S), NEW b \in Seq(S)
  PROVE  FlattenSeq(<<a>>) = a /\ FlattenSeq(<<a, b>>) = a \o b
<1>1. FlattenSeq(<<a>>) = a
  <2> DEFINE ss == <<a>>
  <2>1. ss \in Seq(Seq(S)) /\ Len(ss) >= 1 /\ Len(ss) = 1 /\ ss[1] = a
    OBVIOUS
  <2> HIDE DEF ss
  <2>2. PICK f : Flattened(S, ss, f)
    BY <2>1, FlattenSeqIs, Zenon
  <2>3. FlattenSeq(ss) = ss[1]
    BY <2>1, <2>2 DEF Flattened
  <2> QED BY <2>1, <2>3 DEF ss
<1>2. FlattenSeq(<<a, b>>) = a \o b
  <2> DEFINE ss == <<a, b>>
  <2>1. ss \in Seq(Seq(S)) /\ Len(ss) >= 1 /\ Len(ss) = 2 /\ ss[1] = a /\ ss[2] = b
    OBVIOUS
  <2> HIDE DEF ss
  <2>2. PICK f : Flattened(S, ss, f)
    BY <2>1, FlattenSeqIs, Zenon
  <2>3. FlattenSeq(ss) = f[2] /\ f[1] = ss[1]
    BY <2>1, <2>2 DEF Flattened
  <2>4. 2 \in 2 .. Len(ss) /\ 2 - 1 = 1
    BY <2>1
  <2>5. f[2] = f[2 - 1] \o ss[2]
    BY <2>2, <2>4 DEF Flattened
  <2>6. f[2] = f[1] \o ss[2]
    BY <2>4, <2>5
  <2> QED BY <2>1, <2>3, <2>6 DEF ss
<1> QED BY <1>1, <1>2

-----------------------------------------------------------------------------
(* The order of keys.                                                      *)

\* u and v differ, u is smaller where they first do.
FirstLess(u, v) ==
  \E i \in 1 .. Len(u) :
    /\ i <= Len(v) /\ u[i] < v[i]
    /\ \A j \in 1 .. i - 1 : u[j] = v[j]

(* Lemma: memcmp decides at the first difference. *)
LEMMA FirstLessBefore ==
  ASSUME NEW u \in Seq(Nat), NEW v \in Seq(Nat), FirstLess(u, v)
  PROVE  Before(u, v) /\ ~Before(v, u)
<1>1. PICK i \in 1 .. Len(u) : /\ i <= Len(v) /\ u[i] < v[i]
                               /\ \A j \in 1 .. i - 1 : u[j] = v[j]
  BY DEF FirstLess
<1>2. Len(u) \in Nat /\ Len(v) \in Nat /\ DOMAIN u = 1 .. Len(u) /\ DOMAIN v = 1 .. Len(v)
      /\ (\A j \in 1 .. Len(u) : u[j] \in Nat) /\ (\A j \in 1 .. Len(v) : v[j] \in Nat)
  OBVIOUS
<1>3. i \in 1 .. Len(v) /\ i \in Nat /\ u[i] \in Nat /\ v[i] \in Nat
  BY <1>1, <1>2
<1>4. Before(u, v)
  <2>1. \A j \in 1 .. i - 1 : j <= Len(u) /\ u[j] = v[j]
    BY <1>1, <1>2, <1>3
  <2>2. i <= Len(u) /\ i \in DOMAIN v
    BY <1>2, <1>3
  <2> QED BY <1>1, <2>1, <2>2 DEF Before
<1>5. ASSUME Before(v, u) PROVE FALSE
  <2>1. PICK k \in 1 .. Len(u) :
          /\ \A j \in 1 .. k - 1 : j <= Len(v) /\ v[j] = u[j]
          /\ k = Len(v) + 1 \/ (k <= Len(v) /\ v[k] < u[k])
    BY <1>2, <1>5 DEF Before
  <2>2. CASE k < i
    <3>1. k \in 1 .. i - 1 /\ k \in 1 .. Len(v) /\ k <= Len(v)
      BY <1>2, <1>3, <2>2
    <3>2. u[k] = v[k] /\ u[k] \in Nat /\ v[k] \in Nat
      BY <1>1, <1>2, <3>1
    <3> QED BY <1>2, <2>1, <3>1, <3>2
  <2>3. CASE k = i
    BY <1>1, <1>2, <1>3, <2>1, <2>3
  <2>4. CASE k > i
    <3>1. i \in 1 .. k - 1
      BY <1>3, <2>4
    <3> QED BY <1>1, <1>3, <2>1, <3>1
  <2> QED BY <1>3, <2>2, <2>3, <2>4
<1> QED BY <1>4, <1>5

(* Lemma: nothing comes before itself. *)
LEMMA NotBeforeItself ==
  ASSUME NEW u \in Seq(Nat)
  PROVE  ~Before(u, u)
<1>1. Len(u) \in Nat /\ DOMAIN u = 1 .. Len(u) /\ \A j \in 1 .. Len(u) : u[j] \in Nat
  OBVIOUS
<1> QED BY <1>1 DEF Before

(* Lemma: what follows the first difference does not matter. *)
LEMMA FirstLessConcat ==
  ASSUME NEW u \in Seq(Nat), NEW v \in Seq(Nat), NEW s \in Seq(Nat), NEW t \in Seq(Nat),
         FirstLess(u, v)
  PROVE  FirstLess(u \o s, v \o t)
<1>1. PICK i \in 1 .. Len(u) : /\ i <= Len(v) /\ u[i] < v[i]
                               /\ \A j \in 1 .. i - 1 : u[j] = v[j]
  BY DEF FirstLess
<1>2. Len(u) \in Nat /\ Len(v) \in Nat /\ Len(s) \in Nat /\ Len(t) \in Nat
  OBVIOUS
<1>3. /\ Len(u \o s) = Len(u) + Len(s) /\ Len(v \o t) = Len(v) + Len(t)
      /\ \A j \in 1 .. Len(u) : (u \o s)[j] = u[j]
      /\ \A j \in 1 .. Len(v) : (v \o t)[j] = v[j]
  BY ConcatProperties
<1>4. i \in 1 .. Len(u \o s) /\ i <= Len(v \o t) /\ i \in 1 .. Len(v)
      /\ \A j \in 1 .. i - 1 : j \in 1 .. Len(u) /\ j \in 1 .. Len(v)
  BY <1>1, <1>2, <1>3
<1> QED BY <1>1, <1>3, <1>4 DEF FirstLess

(* Lemma: a common beginning does not matter. *)
LEMMA FirstLessBehind ==
  ASSUME NEW u \in Seq(Nat), NEW s \in Seq(Nat), NEW t \in Seq(Nat), FirstLess(s, t)
  PROVE  FirstLess(u \o s, u \o t)
<1> DEFINE a == u \o s
           b == u \o t
           m == Len(u)
<1>1. PICK i \in 1 .. Len(s) : /\ i <= Len(t) /\ s[i] < t[i]
                               /\ \A j \in 1 .. i - 1 : s[j] = t[j]
  BY DEF FirstLess
<1>2. m \in Nat /\ Len(s) \in Nat /\ Len(t) \in Nat
  OBVIOUS
<1>3. /\ Len(a) = m + Len(s) /\ Len(b) = m + Len(t)
      /\ \A j \in 1 .. m : a[j] = u[j] /\ b[j] = u[j]
      /\ \A j \in m + 1 .. m + Len(s) : a[j] = s[j - m]
      /\ \A j \in m + 1 .. m + Len(t) : b[j] = t[j - m]
  BY ConcatProperties
<1> HIDE DEF a, b, m
<1>4. m + i \in 1 .. Len(a) /\ m + i <= Len(b) /\ (m + i) - m = i
      /\ m + i \in m + 1 .. m + Len(s) /\ m + i \in m + 1 .. m + Len(t)
  BY <1>1, <1>2, <1>3
<1>5. a[m + i] < b[m + i]
  BY <1>1, <1>3, <1>4
<1>6. ASSUME NEW j \in 1 .. (m + i) - 1 PROVE a[j] = b[j]
  <2>1. CASE j <= m
    BY <1>2, <1>3, <2>1
  <2>2. CASE j > m
    <3>1. /\ j - m \in 1 .. i - 1
          /\ j \in m + 1 .. m + Len(s) /\ j \in m + 1 .. m + Len(t)
      BY <1>1, <1>2, <2>2
    <3> QED BY <1>1, <1>3, <3>1
  <2> QED BY <1>2, <2>1, <2>2
<1>7. FirstLess(a, b)
  BY <1>4, <1>5, <1>6 DEF FirstLess
<1> QED BY <1>7 DEF a, b

(* Lemma: two different strings without zeros differ, once they are           *)
(* terminated with a zero, at a place both have, and in the order of the      *)
(* strings.                                                                  *)
LEMMA TerminatedOrder ==
  ASSUME NEW m \in Seq(Nat \ {0}), NEW n \in Seq(Nat \ {0})
  PROVE  \/ m = n
         \/ Before(m, n) /\ ~Before(n, m) /\ FirstLess(Append(m, 0), Append(n, 0))
         \/ Before(n, m) /\ ~Before(m, n) /\ FirstLess(Append(n, 0), Append(m, 0))
<1> DEFINE u == Append(m, 0)
           v == Append(n, 0)
           lm == Len(m)
           ln == Len(n)
<1>0. m \in Seq(Nat) /\ n \in Seq(Nat) /\ u \in Seq(Nat) /\ v \in Seq(Nat)
  OBVIOUS
<1>1. /\ lm \in Nat /\ ln \in Nat /\ DOMAIN m = 1 .. lm /\ DOMAIN n = 1 .. ln
      /\ Len(u) = lm + 1 /\ Len(v) = ln + 1 /\ Len(m) = lm /\ Len(n) = ln
  OBVIOUS
<1>2. /\ \A i \in 1 .. lm : u[i] = m[i] /\ m[i] \in Nat /\ m[i] > 0
      /\ \A i \in 1 .. ln : v[i] = n[i] /\ n[i] \in Nat /\ n[i] > 0
      /\ u[lm + 1] = 0 /\ v[ln + 1] = 0
  BY <1>1
<1>2a. m = n <=> lm = ln /\ \A i \in 1 .. lm : m[i] = n[i]
  BY SeqEqual
<1> HIDE DEF lm, ln
<1> HIDE DEF u, v
<1> DEFINE D == {i \in 1 .. lm + 1 : i <= ln + 1 /\ u[i] # v[i]}
<1>3. SUFFICES ASSUME m # n
               PROVE  \/ Before(m, n) /\ ~Before(n, m) /\ FirstLess(u, v)
                      \/ Before(n, m) /\ ~Before(m, n) /\ FirstLess(v, u)
  BY DEF u, v
<1>4. D # {}
  <2>1. CASE lm < ln
    <3>1. lm + 1 \in 1 .. lm + 1 /\ lm + 1 <= ln + 1 /\ lm + 1 \in 1 .. ln
      BY <1>1, <2>1
    <3>2. lm + 1 \in D
      BY <1>2, <3>1
    <3> QED BY <3>2
  <2>2. CASE lm > ln
    <3>1. ln + 1 \in 1 .. lm + 1 /\ ln + 1 <= ln + 1 /\ ln + 1 \in 1 .. lm
      BY <1>1, <2>2
    <3>2. ln + 1 \in D
      BY <1>2, <3>1
    <3> QED BY <3>2
  <2>3. CASE lm = ln
    <3>1. PICK i \in 1 .. lm : m[i] # n[i]
      BY <1>2a, <1>3, <2>3
    <3>2. i \in 1 .. lm + 1 /\ i <= ln + 1 /\ i \in 1 .. ln
      BY <1>1, <2>3
    <3>3. i \in D
      BY <1>2, <3>1, <3>2
    <3> QED BY <3>3
  <2> QED BY <1>1, <2>1, <2>2, <2>3
<1>5. D \in SUBSET Nat
  BY <1>1
<1>6. PICK d \in D : \A y \in D : d <= y
  <2> HIDE DEF D
  <2> QED BY <1>4, <1>5, LeastNat
<1>7. d \in 1 .. lm + 1 /\ d \in 1 .. ln + 1 /\ u[d] # v[d] /\ d \in Nat
      /\ d <= lm + 1 /\ d <= ln + 1
  BY <1>1, <1>6
<1>8. \A j \in 1 .. d - 1 : u[j] = v[j] /\ m[j] = n[j] /\ j <= lm /\ j <= ln
  <2> TAKE j \in 1 .. d - 1
  <2>1. j \notin D /\ j \in 1 .. lm + 1 /\ j <= ln + 1 /\ j \in 1 .. lm /\ j \in 1 .. ln
    BY <1>1, <1>6, <1>7
  <2> QED BY <1>2, <2>1
<1> HIDE DEF D
<1>9. u[d] \in Nat /\ v[d] \in Nat
  <2>1. /\ d = lm + 1 \/ d \in 1 .. lm
        /\ d = ln + 1 \/ d \in 1 .. ln
    BY <1>1, <1>7
  <2> QED BY <1>2, <2>1, SMTT(30)
<1>10. CASE u[d] < v[d]
  <2>1. FirstLess(u, v)
    BY <1>1, <1>7, <1>8, <1>10 DEF FirstLess
  <2>2. d \in 1 .. ln
    BY <1>1, <1>2, <1>7, <1>9, <1>10
  <2>3. d = lm + 1 \/ (d <= lm /\ m[d] < n[d])
    <3>1. d = lm + 1 \/ d \in 1 .. lm
      BY <1>1, <1>7
    <3> QED BY <1>2, <1>10, <2>2, <3>1
  <2>4. Before(m, n)
    BY <1>1, <1>8, <2>2, <2>3 DEF Before
  <2>5. ASSUME Before(n, m) PROVE FALSE
    <3>1. PICK k \in 1 .. lm :
            /\ \A j \in 1 .. k - 1 : j <= ln /\ n[j] = m[j]
            /\ k = ln + 1 \/ (k <= ln /\ n[k] < m[k])
      BY <1>1, <2>5 DEF Before
    <3>2. CASE k < d
      <4>1. k \in 1 .. d - 1 /\ k <= ln
        BY <1>1, <1>7, <1>8, <3>2
      <4>2. m[k] = n[k] /\ m[k] \in Nat
        BY <1>2, <1>8, <4>1
      <4> QED BY <1>1, <3>1, <4>1, <4>2
    <3>3. CASE k >= d
      <4>1. d \in 1 .. lm /\ m[d] \in Nat /\ n[d] \in Nat /\ m[d] < n[d]
        BY <1>1, <1>2, <1>7, <2>2, <2>3, <3>3
      <4>2. CASE k = d
        BY <1>1, <2>2, <3>1, <4>1, <4>2
      <4>3. CASE k > d
        <5>1. d \in 1 .. k - 1
          BY <1>7, <4>3
        <5> QED BY <3>1, <4>1, <5>1
      <4> QED BY <1>7, <3>3, <4>2, <4>3
    <3> QED BY <1>7, <3>2, <3>3
  <2> QED BY <2>1, <2>4, <2>5
<1>11. CASE v[d] < u[d]
  <2>1. FirstLess(v, u)
    BY <1>1, <1>7, <1>8, <1>11 DEF FirstLess
  <2>2. d \in 1 .. lm
    BY <1>1, <1>2, <1>7, <1>9, <1>11
  <2>3. d = ln + 1 \/ (d <= ln /\ n[d] < m[d])
    <3>1. d = ln + 1 \/ d \in 1 .. ln
      BY <1>1, <1>7
    <3> QED BY <1>2, <1>11, <2>2, <3>1
  <2>4. Before(n, m)
    BY <1>1, <1>8, <2>2, <2>3 DEF Before
  <2>5. ASSUME Before(m, n) PROVE FALSE
    <3>1. PICK k \in 1 .. ln :
            /\ \A j \in 1 .. k - 1 : j <= lm /\ m[j] = n[j]
            /\ k = lm + 1 \/ (k <= lm /\ m[k] < n[k])
      BY <1>1, <2>5 DEF Before
    <3>2. CASE k < d
      <4>1. k \in 1 .. d - 1 /\ k <= lm
        BY <1>1, <1>7, <1>8, <3>2
      <4>2. n[k] = m[k] /\ n[k] \in Nat
        BY <1>2, <1>8, <4>1
      <4> QED BY <1>1, <3>1, <4>1, <4>2
    <3>3. CASE k >= d
      <4>1. d \in 1 .. ln /\ n[d] \in Nat /\ m[d] \in Nat /\ n[d] < m[d]
        BY <1>1, <1>2, <1>7, <2>2, <2>3, <3>3
      <4>2. CASE k = d
        BY <1>1, <2>2, <3>1, <4>1, <4>2
      <4>3. CASE k > d
        <5>1. d \in 1 .. k - 1
          BY <1>7, <4>3
        <5> QED BY <3>1, <4>1, <5>1
      <4> QED BY <1>7, <3>3, <4>2, <4>3
    <3> QED BY <1>7, <3>2, <3>3
  <2> QED BY <2>1, <2>4, <2>5
<1> QED BY <1>7, <1>9, <1>10, <1>11

(* Lemma: quotients and remainders order numbers. *)
LEMMA QuotientOrder ==
  ASSUME NEW a \in Nat, NEW b \in Nat, NEW r \in Nat, r >= 1, a < b
  PROVE  /\ a \div r \in Nat /\ b \div r \in Nat /\ a % r \in Nat /\ b % r \in Nat
         /\ a \div r < b \div r \/ (a \div r = b \div r /\ a % r < b % r)
<1> DEFINE p == a \div r
           q == b \div r
           x == a % r
           y == b % r
<1>1. /\ p \in Int /\ p * r <= a /\ a < p * r + r
      /\ q \in Int /\ q * r <= b /\ b < q * r + r
  BY Quotient
<1>2. x = a - p * r /\ y = b - q * r
  OBVIOUS
<1> HIDE DEF p, q, x, y
<1>3. p * r \in Int /\ q * r \in Int
  BY <1>1
<1>4. x \in Nat /\ y \in Nat
  BY <1>1, <1>2, <1>3
<1>5. p \in Nat /\ q \in Nat
  <2>1. ASSUME p <= -1 PROVE FALSE
    <3>1. p * r <= (-1) * r
      BY <1>1, <2>1, Products
    <3> QED BY <1>1, <1>3, <3>1
  <2>2. ASSUME q <= -1 PROVE FALSE
    <3>1. q * r <= (-1) * r
      BY <1>1, <2>2, Products
    <3> QED BY <1>1, <1>3, <3>1
  <2> QED BY <1>1, <2>1, <2>2
<1>6. p <= q
  <2>1. ASSUME q + 1 <= p PROVE FALSE
    <3>1. (q + 1) * r <= p * r
      BY <1>1, <2>1, Products
    <3>2. (q + 1) * r = q * r + r
      BY <1>1
    <3> QED BY <1>1, <1>3, <3>1, <3>2
  <2> QED BY <1>1, <2>1
<1>7. p = q => x < y
  BY <1>2, <1>3
<1> QED BY <1>1, <1>4, <1>5, <1>6, <1>7 DEF p, q, x, y

(* Lemma: EncodeUnsigned keeps the order. *)
LEMMA UnsignedOrder ==
  ASSUME TableLayoutsAssumption, NEW a \in Nat, NEW b \in Nat
  PROVE  /\ EncodeUnsigned(a) \in Seq(Nat)
         /\ a < b => FirstLess(EncodeUnsigned(a), EncodeUnsigned(b))
<1>0. Radix \in Nat /\ Radix >= 1
  BY DEF TableLayoutsAssumption
<1>1. EncodeUnsigned(a) \in Seq(Nat)
  <2>1. a \div Radix \in Nat /\ a % Radix \in Nat
    BY <1>0, QuotientOrder, a < a + 1, a + 1 \in Nat
  <2> QED BY <2>1 DEF EncodeUnsigned
<1>2. ASSUME a < b PROVE FirstLess(EncodeUnsigned(a), EncodeUnsigned(b))
  <2> DEFINE u == EncodeUnsigned(a)
             v == EncodeUnsigned(b)
  <2>1. /\ a \div Radix \in Nat /\ b \div Radix \in Nat /\ a % Radix \in Nat /\ b % Radix \in Nat
        /\ \/ a \div Radix < b \div Radix
           \/ a \div Radix = b \div Radix /\ a % Radix < b % Radix
    BY <1>0, <1>2, QuotientOrder
  <2>2. /\ Len(u) = 2 /\ Len(v) = 2 /\ u[1] = a \div Radix /\ u[2] = a % Radix
        /\ v[1] = b \div Radix /\ v[2] = b % Radix
    BY DEF EncodeUnsigned
  <2> HIDE DEF u, v
  <2>3. u[1] < v[1] \/ (u[1] = v[1] /\ u[2] < v[2])
    BY <2>1, <2>2
  <2>4. CASE u[1] < v[1]
    <3>1. 1 \in 1 .. Len(u) /\ 1 <= Len(v) /\ \A j \in 1 .. 1 - 1 : u[j] = v[j]
      BY <2>2
    <3>2. FirstLess(u, v)
      BY <2>4, <3>1 DEF FirstLess
    <3> QED BY <3>2 DEF u, v
  <2>5. CASE u[1] = v[1] /\ u[2] < v[2]
    <3>1. 2 \in 1 .. Len(u) /\ 2 <= Len(v) /\ \A j \in 1 .. 2 - 1 : u[j] = v[j]
      BY <2>2, <2>5
    <3>2. FirstLess(u, v)
      BY <2>5, <3>1 DEF FirstLess
    <3> QED BY <3>2 DEF u, v
  <2> QED BY <2>3, <2>4, <2>5
<1> QED BY <1>1, <1>2

(* Lemma: the remainder of a number less than one divisor away. *)
LEMMA NearRemainder ==
  ASSUME NEW a \in Int, NEW b \in Nat, b >= 1
  PROVE  /\ 0 <= a /\ a < b => a % b = a
         /\ b <= a /\ a < 2 * b => a % b = a - b
         /\ -b <= a /\ a < 0 => a % b = a + b
<1> DEFINE q == a \div b
           x == a % b
<1>1. q \in Int /\ q * b <= a /\ a < q * b + b
  BY Quotient
<1>2. x = a - q * b
  OBVIOUS
<1> HIDE DEF q, x
<1>3. q * b \in Int
  BY <1>1
<1>4. q >= 2 => 2 * b <= q * b
  BY <1>1, Products
<1>5. q >= 1 => 1 * b <= q * b
  BY <1>1, Products
<1>6. q >= 0 => 0 * b <= q * b
  BY <1>1, Products
<1>7. q <= 0 => q * b <= 0 * b
  BY <1>1, Products
<1>8. q <= -1 => q * b <= (-1) * b
  BY <1>1, Products
<1>9. q <= -2 => q * b <= (-2) * b
  BY <1>1, Products
<1>10. ASSUME 0 <= a, a < b PROVE x = a
  <2>1. q = 0
    BY <1>1, <1>3, <1>5, <1>8, <1>10
  <2> QED BY <1>2, <2>1
<1>11. ASSUME b <= a, a < 2 * b PROVE x = a - b
  <2>1. q = 1
    BY <1>1, <1>3, <1>4, <1>7, <1>11
  <2> QED BY <1>2, <2>1
<1>12. ASSUME -b <= a, a < 0 PROVE x = a + b
  <2>1. q = -1
    BY <1>1, <1>3, <1>6, <1>9, <1>12
  <2> QED BY <1>2, <2>1
<1> QED BY <1>10, <1>11, <1>12 DEF x

\* The outcomes of comparing two values of a column, and of their encodings.
ComparesLike(type, a, b, u, v) ==
  \/ Less(type, a, b) /\ ~Less(type, b, a) /\ FirstLess(u, v)
  \/ Less(type, b, a) /\ ~Less(type, a, b) /\ FirstLess(v, u)
  \/ ~Less(type, a, b) /\ ~Less(type, b, a) /\ u = v

(* Lemma: what is encoded unsigned with an offset keeps its order. *)
LEMMA NumberOrder ==
  ASSUME TableLayoutsAssumption, NEW type, type # "VARCHAR",
         NEW a \in Int, NEW b \in Int, NEW c \in Nat, NEW d \in Nat,
         a < b => c < d, b < a => d < c, a = b => c = d
  PROVE  /\ EncodeUnsigned(c) \in Seq(Nat) /\ EncodeUnsigned(d) \in Seq(Nat)
         /\ ComparesLike(type, a, b, EncodeUnsigned(c), EncodeUnsigned(d))
<1>1. /\ EncodeUnsigned(c) \in Seq(Nat) /\ EncodeUnsigned(d) \in Seq(Nat)
      /\ c < d => FirstLess(EncodeUnsigned(c), EncodeUnsigned(d))
      /\ d < c => FirstLess(EncodeUnsigned(d), EncodeUnsigned(c))
  BY UnsignedOrder
<1>2. Less(type, a, b) <=> a < b
  BY DEF Less
<1>3. Less(type, b, a) <=> b < a
  BY DEF Less
<1>4. a < b \/ b < a \/ a = b
  OBVIOUS
<1> QED BY <1>1, <1>2, <1>3, <1>4 DEF ComparesLike

(* Lemma: half the numbers. *)
LEMMA HalfIs ==
  ASSUME TableLayoutsAssumption
  PROVE  Half \in Nat /\ Half >= 1
<1>1. Radix \in Nat /\ Radix >= 4
  BY DEF TableLayoutsAssumption
<1> DEFINE x == Radix * Radix
<1>2. x \in Int /\ 4 * Radix <= x
  BY <1>1, Products
<1>3. Half = x \div 2
  BY DEF Half
<1> HIDE DEF x
<1> QED BY <1>1, <1>2, <1>3

(* Lemma: the two's complement with its sign bit flipped. *)
LEMMA EncodeSignedIs ==
  ASSUME TableLayoutsAssumption, NEW i \in Ints
  PROVE  EncodeSigned(i) = EncodeUnsigned(i + Half) /\ i + Half \in Nat
<1> DEFINE h == Half
           w == 2 * Half
<1>1. h \in Nat /\ h >= 1 /\ w = 2 * h
  BY HalfIs
<1>2. i \in Int /\ -h <= i /\ i < h
  BY <1>1 DEF Ints
<1>3. EncodeSigned(i) = EncodeUnsigned(((i % w) + h) % w)
  BY DEF EncodeSigned
<1> HIDE DEF h, w
<1>4. w \in Nat /\ w >= 1 /\ -w <= i /\ i < w
  BY <1>1, <1>2
<1>5. ((i % w) + h) % w = i + h
  <2>1. CASE i >= 0
    <3>1. i % w = i
      BY <1>2, <1>4, <2>1, NearRemainder
    <3>2. i + h \in Int /\ 0 <= i + h /\ i + h < w
      BY <1>1, <1>2, <2>1
    <3>3. (i + h) % w = i + h
      BY <1>4, <3>2, NearRemainder
    <3> QED BY <3>1, <3>3
  <2>2. CASE i < 0
    <3>1. i % w = i + w
      BY <1>2, <1>4, <2>2, NearRemainder
    <3>2. (i + w) + h \in Int /\ w <= (i + w) + h /\ (i + w) + h < 2 * w
      BY <1>1, <1>2, <2>2
    <3>3. ((i + w) + h) % w = ((i + w) + h) - w
      BY <1>4, <3>2, NearRemainder
    <3>4. ((i + w) + h) - w = i + h
      BY <1>1, <1>2
    <3> QED BY <3>1, <3>3, <3>4
  <2> QED BY <1>2, <2>1, <2>2
<1>6. i + h \in Nat
  BY <1>1, <1>2
<1> QED BY <1>3, <1>5, <1>6 DEF h

(* Lemma: normalized strings have no zeros. *)
LEMMA NormalizedIs ==
  ASSUME TableLayoutsAssumption, NEW s \in Strings
  PROVE  Normalized(s) \in Seq(Nat \ {0})
<1> DEFINE C == Nat \ {0}
           Fold(c) == CASE c = 1 -> <<1>> [] c = 2 -> <<1>> [] c = 3 -> <<1, 3>>
           ss == [i \in DOMAIN s |-> Fold(s[i])]
<1>1. PICK n \in 0 .. StringLength : s \in [1 .. n -> 1 .. 3]
  BY DEF Strings
<1>2. n \in Nat
  BY <1>1 DEF TableLayoutsAssumption
<1>3. Normalized(s) = FlattenSeq(ss)
  BY DEF Normalized
<1>4. Fold(1) \in Seq(C) /\ Fold(2) \in Seq(C) /\ Fold(3) \in Seq(C)
  <2>1. Fold(1) = <<1>> /\ Fold(2) = <<1>> /\ Fold(3) = <<1, 3>>
    OBVIOUS
  <2> QED BY <2>1
<1>5. \A i \in 1 .. n : Fold(s[i]) \in Seq(C)
  <2> TAKE i \in 1 .. n
  <2>1. s[i] = 1 \/ s[i] = 2 \/ s[i] = 3
    BY <1>1
  <2> HIDE DEF Fold, C
  <2> QED BY <1>4, <2>1
<1>6. ss = [i \in 1 .. n |-> Fold(s[i])]
  BY <1>1
<1> HIDE DEF Fold, C, ss
<1>7. ss \in Seq(Seq(C)) /\ Len(ss) = n
  BY <1>2, <1>5, <1>6
<1>8. CASE n = 0
  <2>1. ss = <<>>
    BY <1>7, <1>8
  <2>2. FlattenSeq(ss) = ss
    BY <1>7, <1>8 DEF FlattenSeq
  <2>3. <<>> \in Seq(C)
    OBVIOUS
  <2> QED BY <1>3, <2>1, <2>2, <2>3 DEF C
<1>9. CASE n # 0
  <2>1. Len(ss) >= 1
    BY <1>2, <1>7, <1>9
  <2>2. FlattenSeq(ss) \in Seq(C)
    BY <1>7, <2>1, FlattenSeqType, Zenon
  <2> QED BY <1>3, <2>2 DEF C
<1> QED BY <1>8, <1>9

(* Lemma: every type of column is encoded in the order of its values. *)
LEMMA ColumnOrder ==
  ASSUME TableLayoutsAssumption,
         NEW type \in {"UINTEGER", "INTEGER", "DOUBLE", "VARCHAR"},
         NEW a \in ValuesOf(type), NEW b \in ValuesOf(type)
  PROVE  /\ SwitchType(type, a) \in Seq(Nat) /\ SwitchType(type, b) \in Seq(Nat)
         /\ ComparesLike(type, a, b, SwitchType(type, a), SwitchType(type, b))
<1>0. Half \in Nat /\ Half >= 1
  BY HalfIs
<1>1. CASE type = "UINTEGER"
  <2>1. a \in Nat /\ b \in Nat
    BY <1>0, <1>1 DEF ValuesOf, Nats
  <2>2. SwitchType(type, a) = EncodeUnsigned(a) /\ SwitchType(type, b) = EncodeUnsigned(b)
    BY <1>1 DEF SwitchType
  <2> QED BY <1>1, <2>1, <2>2, NumberOrder
<1>2. CASE type = "INTEGER"
  <2>1. a \in Ints /\ b \in Ints
    BY <1>2 DEF ValuesOf
  <2>2. SwitchType(type, a) = EncodeSigned(a) /\ SwitchType(type, b) = EncodeSigned(b)
    BY <1>2 DEF SwitchType
  <2>3. /\ EncodeSigned(a) = EncodeUnsigned(a + Half) /\ a + Half \in Nat
        /\ EncodeSigned(b) = EncodeUnsigned(b + Half) /\ b + Half \in Nat
    BY <2>1, EncodeSignedIs
  <2>4. a \in Int /\ b \in Int
    BY <1>0, <2>1 DEF Ints
  <2> DEFINE c == a + Half
             d == b + Half
  <2>5. (a < b => c < d) /\ (b < a => d < c) /\ (a = b => c = d)
    BY <1>0, <2>4
  <2>6. c \in Nat /\ d \in Nat
    BY <2>3
  <2>7. SwitchType(type, a) = EncodeUnsigned(c) /\ SwitchType(type, b) = EncodeUnsigned(d)
    BY <2>2, <2>3
  <2> HIDE DEF c, d
  <2> QED BY <1>2, <2>4, <2>5, <2>6, <2>7, NumberOrder
<1>3. CASE type = "DOUBLE"
  <2> DEFINE Bits(x) == IF x < 0 THEN (2 * Half - 1) - (Half - x) ELSE x + Half
             c == Bits(a)
             d == Bits(b)
  <2>1. a \in Doubles /\ b \in Doubles
    BY <1>3 DEF ValuesOf
  <2>2. SwitchType(type, a) = EncodeUnsigned(c) /\ SwitchType(type, b) = EncodeUnsigned(d)
    BY <1>3 DEF SwitchType, EncodeDouble
  <2>3. /\ a \in Int /\ 2 - Half <= a /\ b \in Int /\ 2 - Half <= b
    BY <1>0, <2>1 DEF Doubles
  <2>4. c \in Nat /\ d \in Nat
    BY <1>0, <2>3
  <2>5. (a < b => c < d) /\ (b < a => d < c) /\ (a = b => c = d)
    BY <1>0, <2>3
  <2> HIDE DEF c, d
  <2> QED BY <1>3, <2>2, <2>3, <2>4, <2>5, NumberOrder
<1>4. CASE type = "VARCHAR"
  <2> DEFINE m == Normalized(a)
             n == Normalized(b)
  <2>1. m \in Seq(Nat \ {0}) /\ n \in Seq(Nat \ {0})
    BY <1>4, NormalizedIs DEF ValuesOf
  <2>2. SwitchType(type, a) = Append(m, 0) /\ SwitchType(type, b) = Append(n, 0)
    BY <1>4 DEF SwitchType, EncodeString
  <2>3. /\ Less(type, a, b) <=> Before(m, n)
        /\ Less(type, b, a) <=> Before(n, m)
    BY <1>4 DEF Less
  <2> HIDE DEF m, n
  <2>4. Append(m, 0) \in Seq(Nat) /\ Append(n, 0) \in Seq(Nat) /\ m \in Seq(Nat)
    BY <2>1
  <2>5. \/ m = n
        \/ Before(m, n) /\ ~Before(n, m) /\ FirstLess(Append(m, 0), Append(n, 0))
        \/ Before(n, m) /\ ~Before(m, n) /\ FirstLess(Append(n, 0), Append(m, 0))
    BY <2>1, TerminatedOrder
  <2>6. ~Before(m, m)
    BY <2>4, NotBeforeItself
  <2> QED BY <2>2, <2>3, <2>4, <2>5, <2>6 DEF ComparesLike
<1> QED BY <1>1, <1>2, <1>3, <1>4

\* k and l compare like their encodings u and v.
TidsCompare(k, l, u, v) ==
  \/ k < l /\ ~(l < k) /\ FirstLess(u, v)
  \/ l < k /\ ~(k < l) /\ FirstLess(v, u)
  \/ ~(k < l) /\ ~(l < k) /\ u = v

(* Lemma: tuple ids at the end of a key. *)
LEMMA TidOrder ==
  ASSUME TableLayoutsAssumption,
         NEW k \in {0, Radix - 1, Radix}, NEW l \in {0, Radix - 1, Radix}
  PROVE  /\ EncodeUnsigned(k) \in Seq(Nat) /\ EncodeUnsigned(l) \in Seq(Nat)
         /\ TidsCompare(k, l, EncodeUnsigned(k), EncodeUnsigned(l))
<1>1. k \in Nat /\ l \in Nat
  BY DEF TableLayoutsAssumption
<1>2. /\ EncodeUnsigned(k) \in Seq(Nat) /\ EncodeUnsigned(l) \in Seq(Nat)
      /\ k < l => FirstLess(EncodeUnsigned(k), EncodeUnsigned(l))
      /\ l < k => FirstLess(EncodeUnsigned(l), EncodeUnsigned(k))
  BY <1>1, UnsignedOrder
<1>3. \/ k < l /\ ~(l < k)
      \/ l < k /\ ~(k < l)
      \/ ~(k < l) /\ ~(l < k) /\ k = l
  BY <1>1
<1> QED BY <1>2, <1>3 DEF TidsCompare

(* Lemma: the keys of rows of one column. *)
LEMMA OneColumnOrder ==
  ASSUME TableLayoutsAssumption,
         NEW type \in {"UINTEGER", "INTEGER", "DOUBLE", "VARCHAR"},
         NEW x \in RowsOf(<<type>>), NEW y \in RowsOf(<<type>>),
         NEW k \in {0, Radix - 1, Radix}, NEW l \in {0, Radix - 1, Radix}
  PROVE  Before(BuildKey(<<type>>, x, k), BuildKey(<<type>>, y, l)) <=>
           \/ RowLess(<<type>>, x, y)
           \/ ~RowLess(<<type>>, y, x) /\ k < l
<1>1. PICK a \in ValuesOf(type) : x = <<a>>
  BY DEF RowsOf
<1>2. PICK b \in ValuesOf(type) : y = <<b>>
  BY DEF RowsOf
<1> DEFINE u == SwitchType(type, a)
           v == SwitchType(type, b)
           s == EncodeUnsigned(k)
           t == EncodeUnsigned(l)
<1>3. u \in Seq(Nat) /\ v \in Seq(Nat) /\ ComparesLike(type, a, b, u, v)
  BY ColumnOrder
<1>4. s \in Seq(Nat) /\ t \in Seq(Nat) /\ TidsCompare(k, l, s, t)
  BY TidOrder
<1>5. /\ [i \in DOMAIN <<type>> |-> SwitchType(<<type>>[i], x[i])] = <<u>>
      /\ [i \in DOMAIN <<type>> |-> SwitchType(<<type>>[i], y[i])] = <<v>>
  BY <1>1, <1>2
<1>6. BuildKey(<<type>>, x, k) = u \o s /\ BuildKey(<<type>>, y, l) = v \o t
  <2>1. BuildKey(<<type>>, x, k) = FlattenSeq(<<u>>) \o s
    BY <1>5 DEF BuildKey
  <2>2. BuildKey(<<type>>, y, l) = FlattenSeq(<<v>>) \o t
    BY <1>5 DEF BuildKey
  <2> HIDE DEF u, v, s, t
  <2> QED BY <1>3, <2>1, <2>2, FlattenOneOrTwo
<1>7. /\ RowLess(<<type>>, x, y) <=> Less(type, a, b)
      /\ RowLess(<<type>>, y, x) <=> Less(type, b, a)
  BY <1>1, <1>2 DEF RowLess
<1> HIDE DEF u, v, s, t
<1>8. u \o s \in Seq(Nat) /\ v \o t \in Seq(Nat)
  BY <1>3, <1>4
<1>9. FirstLess(u, v) => Before(u \o s, v \o t)
  BY <1>3, <1>4, <1>8, FirstLessConcat, FirstLessBefore
<1>10. FirstLess(v, u) => ~Before(u \o s, v \o t)
  BY <1>3, <1>4, <1>8, FirstLessConcat, FirstLessBefore
<1>11. u = v /\ FirstLess(s, t) => Before(u \o s, v \o t)
  BY <1>3, <1>4, <1>8, FirstLessBehind, FirstLessBefore
<1>12. u = v /\ FirstLess(t, s) => ~Before(u \o s, v \o t)
  BY <1>3, <1>4, <1>8, FirstLessBehind, FirstLessBefore
<1>13. u = v /\ s = t => ~Before(u \o s, v \o t)
  BY <1>8, NotBeforeItself
<1> QED BY <1>3, <1>4, <1>6, <1>7, <1>9, <1>10, <1>11, <1>12, <1>13 DEF ComparesLike, TidsCompare

(* Lemma: the keys of rows of two columns. *)
LEMMA TwoColumnsOrder ==
  ASSUME TableLayoutsAssumption,
         NEW type \in {"UINTEGER", "INTEGER", "DOUBLE", "VARCHAR"},
         NEW type2 \in {"UINTEGER", "INTEGER", "DOUBLE", "VARCHAR"},
         NEW x \in RowsOf(<<type, type2>>), NEW y \in RowsOf(<<type, type2>>),
         NEW k \in {0, Radix - 1, Radix}, NEW l \in {0, Radix - 1, Radix}
  PROVE  Before(BuildKey(<<type, type2>>, x, k), BuildKey(<<type, type2>>, y, l)) <=>
           \/ RowLess(<<type, type2>>, x, y)
           \/ ~RowLess(<<type, type2>>, y, x) /\ k < l
<1> DEFINE key == <<type, type2>>
<1>0. Len(key) = 2 /\ key[1] = type /\ key[2] = type2 /\ DOMAIN key = {1, 2}
  OBVIOUS
<1>1. PICK a \in ValuesOf(type), c \in ValuesOf(type2) : x = <<a, c>>
  BY <1>0 DEF RowsOf
<1>2. PICK b \in ValuesOf(type), d \in ValuesOf(type2) : y = <<b, d>>
  BY <1>0 DEF RowsOf
<1> DEFINE u == SwitchType(type, a)
           v == SwitchType(type, b)
           p == SwitchType(type2, c)
           q == SwitchType(type2, d)
           s == EncodeUnsigned(k)
           t == EncodeUnsigned(l)
<1>3. u \in Seq(Nat) /\ v \in Seq(Nat) /\ ComparesLike(type, a, b, u, v)
  BY ColumnOrder
<1>3a. p \in Seq(Nat) /\ q \in Seq(Nat) /\ ComparesLike(type2, c, d, p, q)
  BY ColumnOrder
<1>4. s \in Seq(Nat) /\ t \in Seq(Nat) /\ TidsCompare(k, l, s, t)
  BY TidOrder
<1>5. /\ [i \in DOMAIN key |-> SwitchType(key[i], x[i])] = <<u, p>>
      /\ [i \in DOMAIN key |-> SwitchType(key[i], y[i])] = <<v, q>>
  BY <1>1, <1>2
<1>6. BuildKey(key, x, k) = (u \o p) \o s /\ BuildKey(key, y, l) = (v \o q) \o t
  <2>1. BuildKey(key, x, k) = FlattenSeq(<<u, p>>) \o s
    BY <1>5 DEF BuildKey
  <2>2. BuildKey(key, y, l) = FlattenSeq(<<v, q>>) \o t
    BY <1>5 DEF BuildKey
  <2> HIDE DEF u, v, p, q, s, t, key
  <2> QED BY <1>3, <1>3a, <2>1, <2>2, FlattenOneOrTwo
<1>7. /\ RowLess(key, x, y) <=> \/ Less(type, a, b)
                                \/ /\ ~Less(type, a, b) /\ ~Less(type, b, a)
                                   /\ Less(type2, c, d)
      /\ RowLess(key, y, x) <=> \/ Less(type, b, a)
                                \/ /\ ~Less(type, a, b) /\ ~Less(type, b, a)
                                   /\ Less(type2, d, c)
  <2>1. x[1] = a /\ x[2] = c /\ y[1] = b /\ y[2] = d
    BY <1>1, <1>2
  <2>2. /\ \A j \in 1 .. 1 - 1 : FALSE
        /\ \A j \in 1 .. 2 - 1 : j = 1
        /\ 1 \in 1 .. 2 - 1
    OBVIOUS
  <2> HIDE DEF key
  <2>3. RowLess(key, x, y) <=> \/ Less(type, a, b)
                               \/ /\ ~Less(type, a, b) /\ ~Less(type, b, a)
                                  /\ Less(type2, c, d)
    BY <1>0, <2>1, <2>2 DEF RowLess
  <2>4. RowLess(key, y, x) <=> \/ Less(type, b, a)
                               \/ /\ ~Less(type, a, b) /\ ~Less(type, b, a)
                                  /\ Less(type2, d, c)
    BY <1>0, <2>1, <2>2 DEF RowLess
  <2> QED BY <2>3, <2>4
<1> HIDE DEF u, v, p, q, s, t, key
<1> DEFINE m == u \o p
           n == v \o q
<1>8. m \in Seq(Nat) /\ n \in Seq(Nat)
  BY <1>3, <1>3a
<1>9. /\ FirstLess(u, v) => FirstLess(m, n)
      /\ FirstLess(v, u) => FirstLess(n, m)
  BY <1>3, <1>3a, FirstLessConcat
<1>10. /\ u = v /\ FirstLess(p, q) => FirstLess(m, n)
       /\ u = v /\ FirstLess(q, p) => FirstLess(n, m)
       /\ u = v /\ p = q => m = n
  BY <1>3, <1>3a, FirstLessBehind
<1> HIDE DEF m, n
<1>11. m \o s \in Seq(Nat) /\ n \o t \in Seq(Nat)
  BY <1>4, <1>8
<1>12. FirstLess(m, n) => Before(m \o s, n \o t)
  BY <1>4, <1>8, <1>11, FirstLessConcat, FirstLessBefore
<1>13. FirstLess(n, m) => ~Before(m \o s, n \o t)
  BY <1>4, <1>8, <1>11, FirstLessConcat, FirstLessBefore
<1>14. m = n /\ FirstLess(s, t) => Before(m \o s, n \o t)
  BY <1>4, <1>8, <1>11, FirstLessBehind, FirstLessBefore
<1>15. m = n /\ FirstLess(t, s) => ~Before(m \o s, n \o t)
  BY <1>4, <1>8, <1>11, FirstLessBehind, FirstLessBefore
<1>16. m = n /\ s = t => ~Before(m \o s, n \o t)
  BY <1>11, NotBeforeItself
<1>17. BuildKey(key, x, k) = m \o s /\ BuildKey(key, y, l) = n \o t
  BY <1>6 DEF m, n
<1>18. Before(BuildKey(key, x, k), BuildKey(key, y, l)) <=>
         RowLess(key, x, y) \/ (~RowLess(key, y, x) /\ k < l)
  BY <1>3, <1>3a, <1>4, <1>7, <1>9, <1>10, <1>12, <1>13, <1>14, <1>15, <1>16, <1>17
     DEF ComparesLike, TidsCompare
<1> QED BY <1>18 DEF key

(* Theorem: for every radix and every length of strings, the byte strings     *)
(* KeyNormEncoder makes of rows are in the order of the rows, and of the      *)
(* tuple ids where the rows are equal: signed and unsigned numbers, doubles   *)
(* and normalized strings of any lengths, put together without separators.    *)
THEOREM KeyOrderAlways ==
  ASSUME TableLayoutsAssumption
  PROVE  TablesSpec => []KeyOrder
<1>1. TablesInv => KeyOrder
  <2> SUFFICES ASSUME TablesInv, types # <<>> PROVE KeyOrder
    BY DEF KeyOrder
  <2> DEFINE Ordered(key) ==
               \A x, y \in RowsOf(key), k, l \in {0, Radix - 1, Radix} :
                 Before(BuildKey(key, x, k), BuildKey(key, y, l)) <=>
                   \/ RowLess(key, x, y)
                   \/ ~RowLess(key, y, x) /\ k < l
  <2>1. Ordered(<<"INTEGER">>) /\ Ordered(<<"VARCHAR">>)
    BY OneColumnOrder
  <2>2. /\ Ordered(<<"INTEGER", "VARCHAR">>) /\ Ordered(<<"UINTEGER", "DOUBLE">>)
        /\ Ordered(<<"VARCHAR", "INTEGER">>)
    BY TwoColumnsOrder
  <2>3. types \in KeyTypes
    BY DEF TablesInv
  <2>4. KeyOrder <=> (types # <<>> => Ordered(types))
    BY DEF KeyOrder
  <2> HIDE DEF Ordered
  <2>5. Ordered(types)
    BY <2>1, <2>2, <2>3 DEF KeyTypes
  <2> QED BY <2>4, <2>5
<1> QED BY <1>1, TablesInvAlways, PTL

-----------------------------------------------------------------------------
(* Tuples that do not overlap: sums of the sizes of those above an offset.   *)

(* Lemma: the sums of two lists that differ in one place. *)
LEMMA SumsDiffer ==
  ASSUME NEW n \in Nat, NEW a \in Seq(Int), NEW b \in Seq(Int), Len(a) = n, Len(b) = n,
         NEW j \in 1 .. n, NEW w \in Int, a[j] = b[j] + w,
         \A i \in 1 .. n : i # j => a[i] = b[i]
  PROVE  PartialSums(a)[n] = PartialSums(b)[n] + w
<1> DEFINE p == PartialSums(a)
           q == PartialSums(b)
           T == {i \in 0 .. n : p[i] = q[i] + (IF 1 <= j /\ j <= i THEN w ELSE 0)}
<1>1. p[0] = 0 /\ \A i \in 1 .. n : p[i] = p[i - 1] + a[i]
  BY SumsAre
<1>2. q[0] = 0 /\ (\A i \in 1 .. n : q[i] = q[i - 1] + b[i]) /\ \A i \in 0 .. n : q[i] \in Int
  BY SumsAre
<1>3. \A i \in 1 .. n : b[i] \in Int
  OBVIOUS
<1> HIDE DEF p, q
<1>4. 0 \in T
  <2>1. p[0] = 0 /\ q[0] = 0
    BY <1>1, <1>2
  <2>2. ~(1 <= j /\ j <= 0) /\ 0 \in 0 .. n
    OBVIOUS
  <2>3. p[0] = q[0] + (IF 1 <= j /\ j <= 0 THEN w ELSE 0)
    BY <2>1, <2>2
  <2> QED BY <2>2, <2>3
<1>5. ASSUME NEW i \in 1 .. n, i - 1 \in T PROVE i \in T
  <2>1. /\ p[i - 1] = q[i - 1] + (IF 1 <= j /\ j <= i - 1 THEN w ELSE 0)
        /\ i - 1 \in 0 .. n /\ i \in 0 .. n
    BY <1>5
  <2>2. q[i - 1] \in Int /\ b[i] \in Int
    BY <1>2, <1>3, <2>1
  <2>3. p[i] = p[i - 1] + a[i] /\ q[i] = q[i - 1] + b[i]
    BY <1>1, <1>2
  <2>4. CASE i = j
    <3>1. a[i] = b[i] + w /\ 1 <= j /\ j <= i /\ ~(j <= i - 1)
      BY <2>4
    <3>2. p[i - 1] = q[i - 1]
      BY <2>1, <2>2, <3>1
    <3>3. p[i] = q[i] + w
      BY <2>2, <2>3, <3>1, <3>2
    <3> QED BY <2>1, <3>1, <3>3
  <2>5. CASE i # j
    <3>1. a[i] = b[i] /\ (j <= i <=> j <= i - 1)
      BY <2>5
    <3>2. CASE 1 <= j /\ j <= i
      <4>1. p[i - 1] = q[i - 1] + w
        BY <2>1, <3>1, <3>2
      <4>2. p[i] = q[i] + w
        BY <2>2, <2>3, <3>1, <4>1
      <4> QED BY <2>1, <3>2, <4>2
    <3>3. CASE ~(1 <= j /\ j <= i)
      <4>1. p[i - 1] = q[i - 1]
        BY <2>1, <2>2, <3>1, <3>3
      <4>2. p[i] = q[i] + 0
        BY <2>2, <2>3, <3>1, <4>1
      <4> QED BY <2>1, <3>3, <4>2
    <3> QED BY <3>2, <3>3
  <2> QED BY <2>4, <2>5
<1> HIDE DEF T
<1>6. \A i \in 0 .. n : i \in T
  BY <1>4, <1>5, StepByStep
<1>7. n \in T
  BY <1>6
<1> QED BY <1>7 DEF T, p, q

(* Lemma: sums grow with the numbers. *)
LEMMA SumsGrow ==
  ASSUME NEW n \in Nat, NEW a \in Seq(Int), NEW b \in Seq(Int), Len(a) = n, Len(b) = n,
         \A i \in 1 .. n : a[i] <= b[i]
  PROVE  \A i \in 0 .. n :
           /\ PartialSums(a)[i] \in Int /\ PartialSums(b)[i] \in Int
           /\ PartialSums(a)[i] <= PartialSums(b)[i]
<1> DEFINE p == PartialSums(a)
           q == PartialSums(b)
           T == {i \in 0 .. n : p[i] <= q[i]}
<1>1. p[0] = 0 /\ (\A i \in 1 .. n : p[i] = p[i - 1] + a[i]) /\ \A i \in 0 .. n : p[i] \in Int
  BY SumsAre
<1>2. q[0] = 0 /\ (\A i \in 1 .. n : q[i] = q[i - 1] + b[i]) /\ \A i \in 0 .. n : q[i] \in Int
  BY SumsAre
<1>3. \A i \in 1 .. n : a[i] \in Int /\ b[i] \in Int
  OBVIOUS
<1> HIDE DEF p, q
<1>4. 0 \in T
  BY <1>1, <1>2
<1>5. ASSUME NEW i \in 1 .. n, i - 1 \in T PROVE i \in T
  <2>1. p[i - 1] <= q[i - 1] /\ i - 1 \in 0 .. n /\ i \in 0 .. n
    BY <1>5
  <2>2. p[i - 1] \in Int /\ q[i - 1] \in Int /\ a[i] \in Int /\ b[i] \in Int /\ a[i] <= b[i]
    BY <1>1, <1>2, <1>3, <2>1
  <2>3. p[i] = p[i - 1] + a[i] /\ q[i] = q[i - 1] + b[i]
    BY <1>1, <1>2
  <2> QED BY <2>1, <2>2, <2>3
<1> HIDE DEF T
<1>6. \A i \in 0 .. n : i \in T
  BY <1>4, <1>5, StepByStep
<1> QED BY <1>1, <1>2, <1>6 DEF T, p, q

\* Tuples at the offsets os of the sizes ws: the sizes of those not below x.
\* The sum is 0 where the list of offsets is empty.
Counted(os, ws, x) == [i \in 1 .. Len(os) |-> IF os[i] >= x THEN ws[i] ELSE 0]
Above(os, ws, x) == PartialSums(Counted(os, ws, x))[Len(os)]

\* As many sizes, all positive, as offsets.
Tuples(os, ws) ==
  /\ os \in Seq(Nat) /\ ws \in Seq(Nat) /\ Len(ws) = Len(os)
  /\ \A i \in 1 .. Len(os) : ws[i] >= 1

(* Lemma: Counted is a list of numbers. *)
LEMMA CountedIs ==
  ASSUME NEW os, NEW ws, Tuples(os, ws), NEW x \in Int
  PROVE  /\ Counted(os, ws, x) \in Seq(Int) /\ Len(Counted(os, ws, x)) = Len(os)
         /\ \A i \in 1 .. Len(os) : Counted(os, ws, x)[i] = IF os[i] >= x THEN ws[i] ELSE 0
         /\ Len(os) \in Nat
         /\ \A i \in 1 .. Len(os) : os[i] \in Nat /\ ws[i] \in Nat /\ ws[i] >= 1
         /\ Above(os, ws, x) \in Int
<1>1. /\ Len(os) \in Nat
      /\ \A i \in 1 .. Len(os) : os[i] \in Nat /\ ws[i] \in Nat /\ ws[i] >= 1
  BY DEF Tuples
<1>2. /\ Counted(os, ws, x) \in Seq(Int) /\ Len(Counted(os, ws, x)) = Len(os)
      /\ \A i \in 1 .. Len(os) : Counted(os, ws, x)[i] = IF os[i] >= x THEN ws[i] ELSE 0
  BY <1>1 DEF Counted
<1>3. Above(os, ws, x) \in Int
  <2>1. PartialSums(Counted(os, ws, x)) \in [0 .. Len(os) -> Int]
    BY <1>2, SumsAre
  <2> QED BY <1>1, <2>1 DEF Above
<1> QED BY <1>1, <1>2, <1>3

(* Lemma: no tuple between y and x: the sums agree. *)
LEMMA AboveSame ==
  ASSUME NEW os, NEW ws, Tuples(os, ws), NEW x \in Int, NEW y \in Int,
         \A i \in 1 .. Len(os) : os[i] >= x <=> os[i] >= y
  PROVE  Above(os, ws, x) = Above(os, ws, y)
<1>1. Counted(os, ws, x) = Counted(os, ws, y)
  BY DEF Counted
<1> QED BY <1>1 DEF Above

(* Lemma: one tuple j between y and x. *)
LEMMA AboveOneMore ==
  ASSUME NEW os, NEW ws, Tuples(os, ws), NEW x \in Int, NEW y \in Int,
         NEW j \in 1 .. Len(os), os[j] < x, os[j] >= y,
         \A i \in 1 .. Len(os) : i # j => (os[i] >= x <=> os[i] >= y)
  PROVE  Above(os, ws, y) = Above(os, ws, x) + ws[j]
<1> DEFINE n == Len(os)
           a == Counted(os, ws, y)
           b == Counted(os, ws, x)
           w == ws[j]
<1>1. /\ a \in Seq(Int) /\ Len(a) = n
      /\ \A i \in 1 .. n : a[i] = IF os[i] >= y THEN ws[i] ELSE 0
  BY CountedIs
<1>2. /\ b \in Seq(Int) /\ Len(b) = n
      /\ \A i \in 1 .. n : b[i] = IF os[i] >= x THEN ws[i] ELSE 0
  BY CountedIs
<1>3. n \in Nat /\ w \in Int /\ j \in Int /\ 1 <= j /\ j <= n
      /\ \A i \in 1 .. n : os[i] \in Nat /\ ws[i] \in Nat
  BY CountedIs
<1> HIDE DEF n, a, b
<1>4. a[j] = b[j] + w /\ \A i \in 1 .. n : i # j => a[i] = b[i]
  <2>1. ~(os[j] >= x) /\ os[j] >= y
    BY <1>3
  <2>2. a[j] = b[j] + w
    BY <1>1, <1>2, <1>3, <2>1
  <2>3. \A i \in 1 .. n : i # j => a[i] = b[i]
    BY <1>1, <1>2 DEF n
  <2> QED BY <2>2, <2>3
<1> HIDE DEF w
<1>5. PartialSums(a)[n] = PartialSums(b)[n] + w
  <2>1. a \in Seq(Int) /\ Len(a) = n /\ b \in Seq(Int) /\ Len(b) = n /\ n \in Nat /\ w \in Int
    BY <1>1, <1>2, <1>3
  <2>2. j \in 1 .. n
    BY DEF n
  <2> QED BY <1>4, <2>1, <2>2, SumsDiffer, Zenon
<1> QED BY <1>3, <1>5 DEF Above, n, a, b, w

(* Lemma: nothing above the highest tuple. *)
LEMMA AboveNone ==
  ASSUME NEW os, NEW ws, Tuples(os, ws), NEW x \in Int,
         \A i \in 1 .. Len(os) : os[i] < x
  PROVE  Above(os, ws, x) = 0
<1> DEFINE n == Len(os)
           a == Counted(os, ws, x)
           p == PartialSums(a)
           T == {i \in 0 .. n : p[i] = 0}
<1>1. /\ a \in Seq(Int) /\ Len(a) = n
      /\ \A i \in 1 .. n : a[i] = IF os[i] >= x THEN ws[i] ELSE 0
  BY CountedIs
<1>2. n \in Nat /\ \A i \in 1 .. n : os[i] \in Nat
  BY CountedIs
<1>3. \A i \in 1 .. n : a[i] = 0
  BY <1>1, <1>2
<1> HIDE DEF a, n
<1>4. p[0] = 0 /\ \A i \in 1 .. n : p[i] = p[i - 1] + a[i]
  BY <1>1, SumsAre
<1> HIDE DEF p
<1>5. 0 \in T
  BY <1>2, <1>4
<1>6. ASSUME NEW i \in 1 .. n, i - 1 \in T PROVE i \in T
  BY <1>2, <1>3, <1>4, <1>6
<1> HIDE DEF T
<1>7. \A i \in 0 .. n : i \in T
  BY <1>2, <1>5, <1>6, StepByStep
<1> QED BY <1>2, <1>7 DEF T, p, a, n, Above

(* Lemma: all tuples are above an offset that is not above any. *)
LEMMA AboveAll ==
  ASSUME NEW os, NEW ws, Tuples(os, ws), NEW x \in Int,
         \A i \in 1 .. Len(os) : os[i] >= x
  PROVE  Above(os, ws, x) = PartialSums(ws)[Len(os)]
<1>1. ws \in Seq(Nat) /\ Len(ws) = Len(os)
  BY DEF Tuples
<1>2. Counted(os, ws, x) = [i \in 1 .. Len(ws) |-> ws[i]]
  BY <1>1 DEF Counted
<1>3. ws = [i \in 1 .. Len(ws) |-> ws[i]]
  BY <1>1
<1> QED BY <1>2, <1>3 DEF Above

(* Lemma: the higher the offset, the fewer tuples above it. *)
LEMMA AboveFewer ==
  ASSUME NEW os, NEW ws, Tuples(os, ws), NEW x \in Int, NEW y \in Int, y <= x
  PROVE  Above(os, ws, x) <= Above(os, ws, y)
<1> DEFINE n == Len(os)
           a == Counted(os, ws, x)
           b == Counted(os, ws, y)
<1>1. /\ a \in Seq(Int) /\ Len(a) = n
      /\ \A i \in 1 .. n : a[i] = IF os[i] >= x THEN ws[i] ELSE 0
  BY CountedIs
<1>2. /\ b \in Seq(Int) /\ Len(b) = n
      /\ \A i \in 1 .. n : b[i] = IF os[i] >= y THEN ws[i] ELSE 0
  BY CountedIs
<1>3. n \in Nat /\ \A i \in 1 .. n : os[i] \in Nat /\ ws[i] \in Nat
  BY CountedIs
<1> HIDE DEF n, a, b
<1>4. \A i \in 1 .. n : a[i] <= b[i]
  <2> TAKE i \in 1 .. n
  <2>1. os[i] \in Nat /\ ws[i] \in Nat
    BY <1>3
  <2>2. (os[i] >= x => os[i] >= y) /\ 0 <= ws[i]
    BY <2>1
  <2>3. a[i] = (IF os[i] >= x THEN ws[i] ELSE 0) /\ b[i] = (IF os[i] >= y THEN ws[i] ELSE 0)
    BY <1>1, <1>2
  <2> QED BY <2>1, <2>2, <2>3
<1>5. PartialSums(a)[n] <= PartialSums(b)[n]
  BY <1>1, <1>2, <1>3, <1>4, SumsGrow
<1> QED BY <1>5 DEF Above, n, a, b

\* The tuples lie one behind the other below the offset e.
Apart(os, ws, e) ==
  /\ \A i \in 1 .. Len(os) : os[i] + ws[i] <= e
  /\ \A i, j \in 1 .. Len(os) : os[i] < os[j] => os[i] + ws[i] <= os[j]
  /\ \A i, j \in 1 .. Len(os) : os[i] = os[j] => i = j

(* Lemma: tuples that do not overlap fit into the space they lie in. *)
LEMMA Packing ==
  ASSUME NEW os, NEW ws, Tuples(os, ws), NEW e \in Nat, Apart(os, ws, e),
         NEW x \in 0 .. e
  PROVE  Above(os, ws, x) <= e - x
<1> DEFINE n == Len(os)
           T == {d \in 0 .. e : \A y \in e - d .. e : Above(os, ws, y) <= e - y}
<1>1. n \in Nat /\ \A i \in 1 .. n : os[i] \in Nat /\ ws[i] \in Nat /\ ws[i] >= 1
  BY CountedIs
<1>2. /\ \A i \in 1 .. n : os[i] + ws[i] <= e
      /\ \A i, j \in 1 .. n : os[i] < os[j] => os[i] + ws[i] <= os[j]
      /\ \A i, j \in 1 .. n : os[i] = os[j] => i = j
  BY DEF Apart
<1>3. \A y \in Int : Above(os, ws, y) \in Int
  BY CountedIs
<1> HIDE DEF n
<1>4. 0 \in T
  <2>1. Above(os, ws, e) = 0
    <3>1. \A i \in 1 .. n : os[i] < e
      BY <1>1, <1>2
    <3> QED BY <3>1, AboveNone DEF n
  <2> QED BY <2>1
<1>5. ASSUME NEW d \in 1 .. e, d - 1 \in T PROVE d \in T
  <2> DEFINE y == e - d
  <2>1. y \in Int /\ y + 1 \in Int /\ y >= 0 /\ y < e
    OBVIOUS
  <2>2. \A z \in y + 1 .. e : Above(os, ws, z) <= e - z
    BY <1>5
  <2> HIDE DEF y
  <2>3. Above(os, ws, y) <= e - y
    <3>1. CASE \A i \in 1 .. n : os[i] # y
      <4>1. \A i \in 1 .. n : os[i] >= y + 1 <=> os[i] >= y
        BY <1>1, <2>1, <3>1
      <4>2. Above(os, ws, y + 1) = Above(os, ws, y)
        BY <2>1, <4>1, AboveSame DEF n
      <4>3. Above(os, ws, y + 1) <= e - (y + 1)
        BY <2>1, <2>2
      <4> QED BY <1>3, <2>1, <4>2, <4>3
    <3>2. CASE \E i \in 1 .. n : os[i] = y
      <4>1. PICK j \in 1 .. n : os[j] = y
        BY <3>2
      <4> DEFINE z == y + ws[j]
      <4>2. z \in Int /\ z \in y + 1 .. e /\ y < z
        BY <1>1, <1>2, <2>1, <4>1
      <4>2a. ws[j] \in Nat /\ z = y + ws[j]
        BY <1>1
      <4> HIDE DEF z
      <4>3. \A i \in 1 .. n : i # j => (os[i] >= z <=> os[i] >= y)
        <5> TAKE i \in 1 .. n
        <5> HAVE i # j
        <5>1. os[i] # y /\ os[i] \in Nat
          BY <1>1, <1>2, <4>1
        <5>2. os[i] > y => os[i] >= z
          BY <1>1, <1>2, <4>1, <4>2a, <5>1
        <5> QED BY <2>1, <4>2, <5>1, <5>2
      <4>4. os[j] < z /\ os[j] >= y
        BY <2>1, <4>1, <4>2
      <4>5. Above(os, ws, y) = Above(os, ws, z) + ws[j]
        BY <2>1, <4>2, <4>3, <4>4, AboveOneMore DEF n
      <4>6. Above(os, ws, z) <= e - z /\ Above(os, ws, z) \in Int
        BY <1>3, <2>2, <4>2
      <4> QED BY <2>1, <4>2, <4>2a, <4>5, <4>6
    <3> QED BY <3>1, <3>2
  <2>4. \A z \in y .. e : Above(os, ws, z) <= e - z
    <3> TAKE z \in y .. e
    <3>1. z = y \/ z \in y + 1 .. e
      BY <2>1
    <3> QED BY <2>2, <2>3, <3>1
  <2>5. d \in 0 .. e
    OBVIOUS
  <2> QED BY <2>4, <2>5 DEF y
<1> HIDE DEF T
<1>6. \A d \in 0 .. e : d \in T
  BY <1>4, <1>5, StepByStep
<1>7. e - x \in T
  BY <1>6
<1>8. \A y \in e - (e - x) .. e : Above(os, ws, y) <= e - y
  BY <1>7 DEF T
<1>9. x \in e - (e - x) .. e
  OBVIOUS
<1> QED BY <1>8, <1>9

-----------------------------------------------------------------------------
(* Index pages: offsets.  Each tuple takes its padded size from the heap.     *)

CONSTANTS
  MaxTuple,   \* no tuple is longer, padding included
  MinLength,  \* no key but the empty one is shorter
  FullCount   \* pages with up to so many slots have room

AllKeys == Keys \union {Empty}

\* The bytes a tuple takes from the heap of a page of kind kd.
Padded(kd, k) == AlignUp(Length(k) + TupleSize[kd], TupleAlign[kd])

\* On a page of kind kd with d deletes no offset is taken below zero: either no
\* tuple is longer than the header, which the heap never reaches, or there is
\* room for FullCount tuples and for those of the deleted keys.
NoWrap(kd, d) ==
  \/ \A k \in AllKeys : Padded(kd, k) <= HeaderSize
  \/ HeaderSize + 2 * (FullCount + 1) + (FullCount + 2 + d) * MaxTuple <= PageSize

\* Pages are large for their keys: there is room for FullCount tuples, FullCount
\* slots take more bytes than a tuple, and the keys of half a page more than
\* three tuples.  Deletes are bounded only where leaf tuples are longer than the
\* header.
Roomy ==
  /\ MaxTuple \in Nat /\ MinLength \in Nat /\ FullCount \in Nat
  /\ \A k \in Keys, x \in Kinds : KeyLen[k] + TupleSize[x] + TupleAlign[x] - 1 <= MaxTuple
  /\ \A x \in Kinds : TupleSize[x] + TupleAlign[x] - 1 <= MaxTuple
  /\ \A k \in Keys : MinLength <= KeyLen[k]
  /\ HeaderSize + 2 * (FullCount + 1) + (FullCount + 2) * MaxTuple <= PageSize
  /\ MaxTuple <= HeaderSize + 2 * FullCount
  /\ 6 * MaxTuple <= FullCount * MinLength
  /\ NoWrap("leaf", MaxDeletes)

(* Lemma: pages of 8192 bytes are, for keys of 9 to 18 bytes (one or two      *)
(* numbers and the tuple id) and any number of deletes.                      *)
LEMMA RoomyPages ==
  ASSUME PageSize = 8192, HeaderSize = 20, TupleSize = [leaf |-> 2, inter |-> 8],
         TupleAlign = [leaf |-> 2, inter |-> 4], \A k \in Keys : KeyLen[k] \in 9 .. 18,
         MaxTuple = 29, MinLength = 9, FullCount = 20
  PROVE  Roomy
<1>1. \A x \in Kinds : TupleSize[x] \in {2, 8} /\ TupleAlign[x] \in {2, 4}
  BY DEF Kinds
<1>2. \A k \in Keys, x \in Kinds : KeyLen[k] + TupleSize[x] + TupleAlign[x] - 1 <= MaxTuple
  BY <1>1
<1>3. \A x \in Kinds : TupleSize[x] + TupleAlign[x] - 1 <= MaxTuple
  BY <1>1
<1>4. ASSUME NEW k \in AllKeys PROVE Padded("leaf", k) <= HeaderSize
  <2>1. TupleSize["leaf"] = 2 /\ TupleAlign["leaf"] = 2
    OBVIOUS
  <2> DEFINE n == Length(k)
  <2>2. n \in 0 .. 18
    BY <1>4 DEF AllKeys, Length
  <2>3. Padded("leaf", k) = AlignUp(n + 2, 2)
    BY <2>1 DEF Padded
  <2> HIDE DEF n
  <2>4. AlignUp(n + 2, 2) <= 20
    BY <2>2 DEF AlignUp
  <2> QED BY <2>3, <2>4
<1>5. NoWrap("leaf", MaxDeletes)
  BY <1>4 DEF NoWrap
<1> QED BY <1>2, <1>3, <1>5 DEF Roomy

(* Lemma: and for keys of 9 to 69 bytes and 38 deletes.                       *)
LEMMA RoomyLongKeys ==
  ASSUME PageSize = 8192, HeaderSize = 20, TupleSize = [leaf |-> 2, inter |-> 8],
         TupleAlign = [leaf |-> 2, inter |-> 4], \A k \in Keys : KeyLen[k] \in 9 .. 69,
         MaxDeletes <= 38, MaxTuple = 80, MinLength = 9, FullCount = 60
  PROVE  Roomy
<1>1. MaxDeletes \in Nat
  BY IndexPageAssumption
<1>2. \A x \in Kinds : TupleSize[x] \in {2, 8} /\ TupleAlign[x] \in {2, 4}
  BY DEF Kinds
<1>3. \A k \in Keys, x \in Kinds : KeyLen[k] + TupleSize[x] + TupleAlign[x] - 1 <= MaxTuple
  BY <1>2
<1>4. \A x \in Kinds : TupleSize[x] + TupleAlign[x] - 1 <= MaxTuple
  BY <1>2
<1>5. HeaderSize + 2 * (FullCount + 1) + (FullCount + 2 + MaxDeletes) * MaxTuple <= PageSize
  BY <1>1
<1>6. NoWrap("leaf", MaxDeletes)
  BY <1>5 DEF NoWrap
<1> QED BY <1>3, <1>4, <1>6 DEF Roomy

(* Lemma: the size of a tuple. *)
LEMMA PaddedIs ==
  ASSUME Roomy, NEW kd \in Kinds, NEW k \in AllKeys
  PROVE  /\ k \in Nat /\ Length(k) \in Nat /\ Padded(kd, k) \in Nat
         /\ Length(k) + TupleSize[kd] <= Padded(kd, k)
         /\ Length(k) <= Padded(kd, k) /\ 1 <= Padded(kd, k)
         /\ Padded(kd, k) <= MaxTuple
         /\ Padded(kd, k) % TupleAlign[kd] = 0
         /\ k # Empty => MinLength <= Length(k)
<1> DEFINE s == TupleSize[kd]
           a == TupleAlign[kd]
           n == Length(k)
<1>1. s \in Nat /\ s >= 1 /\ a \in {2, 4} /\ a \in Widths
  BY IndexPageAssumption DEF Widths
<1>2. n \in Nat /\ k \in Nat /\ n + s + a - 1 <= MaxTuple /\ (k # Empty => MinLength <= n)
  BY <1>1, IndexPageAssumption DEF Roomy, AllKeys, Length, Empty
<1> HIDE DEF s, a, n
<1> DEFINE m == n + s
<1>3. m \in Nat /\ m = n + s
  BY <1>1, <1>2
<1> HIDE DEF m
<1>4. AlignUp(m, a) \in Nat /\ m <= AlignUp(m, a) /\ AlignUp(m, a) <= m + a - 1 /\ AlignUp(m, a) % a = 0
  BY <1>1, <1>3, AlignUpIs
<1>5. Padded(kd, k) = AlignUp(m, a)
  BY DEF Padded, m, n, s, a
<1>6. MaxTuple \in Nat
  BY DEF Roomy
<1>7. /\ n + s <= Padded(kd, k) /\ n <= Padded(kd, k) /\ 1 <= Padded(kd, k)
      /\ Padded(kd, k) <= MaxTuple /\ Padded(kd, k) \in Nat /\ Padded(kd, k) % a = 0
  BY <1>1, <1>2, <1>3, <1>4, <1>5, <1>6
<1> QED BY <1>2, <1>7 DEF n, s, a

\* An offset a tuple of a page of kind kd may have.
Offset(kd, o) == o \in Nat /\ o <= PageSize /\ o % TupleAlign[kd] = 0

(* Lemma: with room for the tuple, CalculateHeapOffset takes its padded size. *)
LEMMA HeapOffsetIs ==
  ASSUME Roomy, kind \in Kinds, NEW k \in AllKeys, NEW t, Offset(kind, t), Padded(kind, k) <= t
  PROVE  /\ CalculateHeapOffset(t, Length(k)) = t - Padded(kind, k)
         /\ Offset(kind, t - Padded(kind, k))
<1> DEFINE s == TupleSize[kind]
           a == TupleAlign[kind]
           n == Length(k)
<1>1. s \in Nat /\ s >= 1 /\ a \in {2, 4} /\ PageSize \in Nat /\ PageSize < 65535
  BY IndexPageAssumption DEF U16
<1>2. n \in Nat /\ t \in Nat /\ t <= PageSize /\ t % a = 0
  BY PaddedIs DEF Offset
<1>3. CalculateHeapOffset(t, n) = ((t - n - s) % 65536) - (((t - n - s) % 65536) % a)
  BY DEF CalculateHeapOffset, U16
<1>4. Padded(kind, k) = ((n + s + a - 1) \div a) * a
  BY DEF Padded, AlignUp
<1>5. Padded(kind, k) \in Nat /\ n + s <= Padded(kind, k)
  BY PaddedIs
<1> HIDE DEF s, a, n
<1>6. t - n - s \in Nat /\ t - n - s < 65535
  BY <1>1, <1>2, <1>5
<1>7. (t - n - s) % 65536 = t - n - s
  BY <1>6
<1>8. /\ t - n - s - ((t - n - s) % a) = t - ((n + s + a - 1) \div a) * a
      /\ (t - ((n + s + a - 1) \div a) * a) % a = 0
  <2>1. CASE a = 2
    BY <1>1, <1>2, <2>1
  <2>2. CASE a = 4
    BY <1>1, <1>2, <2>2
  <2> QED BY <1>1, <2>1, <2>2
<1>9. CalculateHeapOffset(t, n) = t - Padded(kind, k) /\ (t - Padded(kind, k)) % a = 0
  BY <1>3, <1>4, <1>7, <1>8
<1>10. t - Padded(kind, k) \in Nat /\ t - Padded(kind, k) <= PageSize
  BY <1>1, <1>2, <1>5
<1> QED BY <1>9, <1>10 DEF Offset, n, a

(* Lemma: a list that never falls from one place to the next never falls. *)
LEMMA Climbs ==
  ASSUME NEW n \in Nat, NEW f, \A i \in 0 .. n : f[i] \in Int,
         \A i \in 1 .. n : f[i - 1] <= f[i]
  PROVE  \A i, j \in 0 .. n : i <= j => f[i] <= f[j]
<1> TAKE i \in 0 .. n
<1> DEFINE T == {j \in 0 .. n : i <= j => f[i] <= f[j]}
<1>1. 0 \in T
  <2>1. 0 \in 0 .. n /\ (i <= 0 => i = 0)
    OBVIOUS
  <2>2. i <= 0 => f[i] <= f[0]
    BY <2>1
  <2> QED BY <2>1, <2>2
<1>2. ASSUME NEW j \in 1 .. n, j - 1 \in T PROVE j \in T
  <2>1. (i <= j - 1 => f[i] <= f[j - 1]) /\ j - 1 \in 0 .. n /\ j \in 0 .. n
    BY <1>2
  <2>2. f[i] \in Int /\ f[j - 1] \in Int /\ f[j] \in Int /\ f[j - 1] <= f[j]
    BY <2>1
  <2>3. i <= j => f[i] <= f[j]
    <3>1. CASE i = j
      BY <2>2, <3>1
    <3>2. CASE i # j
      BY <2>1, <2>2, <3>2
    <3> QED BY <3>1, <3>2
  <2> QED BY <2>1, <2>3
<1> HIDE DEF T
<1>3. \A j \in 0 .. n : j \in T
  BY <1>1, <1>2, StepByStep
<1> QED BY <1>3 DEF T

(* Lemma: where the numbers of b are not less than those of a, the sums drift *)
(* apart.                                                                    *)
LEMMA SumsDrift ==
  ASSUME NEW n \in Nat, NEW a \in Seq(Int), NEW b \in Seq(Int), Len(a) = n, Len(b) = n,
         \A i \in 1 .. n : a[i] <= b[i]
  PROVE  \A i, j \in 0 .. n : i <= j =>
           PartialSums(a)[j] - PartialSums(a)[i] <= PartialSums(b)[j] - PartialSums(b)[i]
<1> DEFINE p == PartialSums(a)
           q == PartialSums(b)
           f == [i \in 0 .. n |-> q[i] - p[i]]
<1>1. (\A i \in 1 .. n : p[i] = p[i - 1] + a[i]) /\ \A i \in 0 .. n : p[i] \in Int
  BY SumsAre
<1>2. (\A i \in 1 .. n : q[i] = q[i - 1] + b[i]) /\ \A i \in 0 .. n : q[i] \in Int
  BY SumsAre
<1>3. \A i \in 1 .. n : a[i] \in Int /\ b[i] \in Int
  OBVIOUS
<1> HIDE DEF p, q
<1>4. \A i \in 0 .. n : f[i] = q[i] - p[i] /\ f[i] \in Int
  BY <1>1, <1>2
<1> HIDE DEF f
<1>5. ASSUME NEW i \in 1 .. n PROVE f[i - 1] <= f[i]
  <2>1. i \in 0 .. n /\ i - 1 \in 0 .. n
    OBVIOUS
  <2>2. f[i] = q[i] - p[i] /\ f[i - 1] = q[i - 1] - p[i - 1]
    BY <1>4, <2>1
  <2>3. q[i] = q[i - 1] + b[i] /\ p[i] = p[i - 1] + a[i] /\ a[i] <= b[i]
    BY <1>1, <1>2
  <2>4. q[i - 1] \in Int /\ p[i - 1] \in Int /\ a[i] \in Int /\ b[i] \in Int
    BY <1>1, <1>2, <1>3, <2>1
  <2> QED BY <2>2, <2>3, <2>4
<1>6. \A i, j \in 0 .. n : i <= j => f[i] <= f[j]
  BY <1>4, <1>5, Climbs
<1>7. ASSUME NEW i \in 0 .. n, NEW j \in 0 .. n, i <= j PROVE p[j] - p[i] <= q[j] - q[i]
  <2>1. f[i] <= f[j]
    BY <1>6, <1>7
  <2> QED BY <1>1, <1>2, <1>4, <2>1
<1> QED BY <1>7 DEF p, q

(* Lemma: the sums of numbers that are not negative do not fall. *)
LEMMA SumsClimb ==
  ASSUME NEW n \in Nat, NEW a \in Seq(Nat), Len(a) = n
  PROVE  /\ \A i \in 0 .. n : PartialSums(a)[i] \in Nat
         /\ PartialSums(a)[0] = 0
         /\ \A i \in 1 .. n : PartialSums(a)[i] = PartialSums(a)[i - 1] + a[i]
         /\ \A i, j \in 0 .. n : i <= j => PartialSums(a)[i] <= PartialSums(a)[j]
<1> DEFINE p == PartialSums(a)
<1>1. a \in Seq(Int)
  OBVIOUS
<1>2. p[0] = 0 /\ (\A i \in 1 .. n : p[i] = p[i - 1] + a[i]) /\ \A i \in 0 .. n : p[i] \in Int
  BY <1>1, SumsAre
<1>3. \A i \in 1 .. n : a[i] \in Nat
  OBVIOUS
<1> HIDE DEF p
<1>4. \A i \in 1 .. n : p[i - 1] <= p[i]
  <2> TAKE i \in 1 .. n
  <2>1. i - 1 \in 0 .. n
    OBVIOUS
  <2> QED BY <1>2, <1>3, <2>1
<1>5. \A i, j \in 0 .. n : i <= j => p[i] <= p[j]
  BY <1>2, <1>4, Climbs
<1>6. \A i \in 0 .. n : p[i] \in Nat
  <2> TAKE i \in 0 .. n
  <2>1. 0 \in 0 .. n /\ 0 <= i
    OBVIOUS
  <2>2. p[0] <= p[i]
    BY <1>5, <2>1
  <2> QED BY <1>2, <2>2
<1> QED BY <1>2, <1>5, <1>6 DEF p

\* The m numbers of a behind the first f are those of b behind the first g.
Along(a, f, b, g, m) ==
  f + m <= Len(a) /\ g + m <= Len(b) /\ \A x \in 1 .. m : a[f + x] = b[g + x]

(* Lemma: two lists with the same numbers from two places on. *)
LEMMA SumsAlong ==
  ASSUME NEW a \in Seq(Int), NEW b \in Seq(Int), NEW f \in Nat, NEW g \in Nat, NEW m \in Nat,
         Along(a, f, b, g, m)
  PROVE  PartialSums(a)[f + m] - PartialSums(a)[f] = PartialSums(b)[g + m] - PartialSums(b)[g]
<1> DEFINE p == PartialSums(a)
           q == PartialSums(b)
           la == Len(a)
           lb == Len(b)
           T == {x \in 0 .. m : p[f + x] - p[f] = q[g + x] - q[g]}
<1>1. la \in Nat /\ lb \in Nat /\ f + m <= la /\ g + m <= lb
  BY DEF Along
<1>2. (\A i \in 1 .. la : p[i] = p[i - 1] + a[i]) /\ \A i \in 0 .. la : p[i] \in Int
  BY SumsAre
<1>3. (\A i \in 1 .. lb : q[i] = q[i - 1] + b[i]) /\ \A i \in 0 .. lb : q[i] \in Int
  BY SumsAre
<1>4. \A i \in 1 .. la : a[i] \in Int
  OBVIOUS
<1> HIDE DEF p, q, la, lb
<1>5. p[f] \in Int /\ q[g] \in Int
  BY <1>1, <1>2, <1>3
<1>6. 0 \in T
  <2>1. f + 0 = f /\ g + 0 = g /\ p[f] - p[f] = 0 /\ q[g] - q[g] = 0
    BY <1>5
  <2>2. p[f + 0] - p[f] = q[g + 0] - q[g]
    BY <2>1
  <2> QED BY <2>2
<1>7. ASSUME NEW x \in 1 .. m, x - 1 \in T PROVE x \in T
  <2>1. p[f + (x - 1)] - p[f] = q[g + (x - 1)] - q[g]
    BY <1>7
  <2>2. /\ f + x \in 1 .. la /\ g + x \in 1 .. lb /\ f + (x - 1) = f + x - 1
        /\ g + (x - 1) = g + x - 1 /\ f + x - 1 \in 0 .. la /\ g + x - 1 \in 0 .. lb
    BY <1>1
  <2>3. p[f + x] = p[f + x - 1] + a[f + x] /\ q[g + x] = q[g + x - 1] + b[g + x]
    BY <1>2, <1>3, <2>2
  <2>4. a[f + x] = b[g + x] /\ a[f + x] \in Int
    BY <1>4, <2>2 DEF Along
  <2>5. p[f + x - 1] \in Int /\ q[g + x - 1] \in Int
    BY <1>2, <1>3, <2>2
  <2>6. p[f + x - 1] - p[f] = q[g + x - 1] - q[g]
    BY <2>1, <2>2, Zenon
  <2>7. p[f + x] - p[f] = q[g + x] - q[g]
    <3> DEFINE u == p[f + x - 1]
               v == q[g + x - 1]
               d == a[f + x]
               pf == p[f]
               qg == q[g]
    <3>1. p[f + x] = u + d /\ q[g + x] = v + d /\ u - pf = v - qg
      BY <2>3, <2>4, <2>6
    <3>2. u \in Int /\ v \in Int /\ d \in Int /\ pf \in Int /\ qg \in Int
      BY <1>5, <2>4, <2>5
    <3> HIDE DEF u, v, d, pf, qg
    <3>3. (u + d) - pf = (v + d) - qg
      BY <3>1, <3>2
    <3> QED BY <3>1, <3>3 DEF pf, qg
  <2> QED BY <2>7
<1> HIDE DEF T
<1>8. \A x \in 0 .. m : x \in T
  BY <1>6, <1>7, StepByStep
<1>9. m \in T
  BY <1>8
<1> QED BY <1>9 DEF T, p, q

(* Lemma: the sum of the first m numbers depends on no others. *)
LEMMA SumsPrefix ==
  ASSUME NEW a \in Seq(Nat), NEW b \in Seq(Nat), NEW m \in Nat,
         m <= Len(a), m <= Len(b), \A x \in 1 .. m : a[x] = b[x]
  PROVE  PartialSums(a)[m] = PartialSums(b)[m]
<1> DEFINE p == PartialSums(a)
           q == PartialSums(b)
           la == Len(a)
           lb == Len(b)
           T == {x \in 0 .. m : p[x] = q[x]}
<1>1. la \in Nat /\ lb \in Nat /\ m <= la /\ m <= lb
  OBVIOUS
<1>2. p[0] = 0 /\ \A i \in 1 .. la : p[i] = p[i - 1] + a[i]
  BY SumsClimb
<1>3. q[0] = 0 /\ \A i \in 1 .. lb : q[i] = q[i - 1] + b[i]
  BY SumsClimb
<1> HIDE DEF p, q, la, lb
<1>4. 0 \in T
  BY <1>2, <1>3
<1>5. ASSUME NEW x \in 1 .. m, x - 1 \in T PROVE x \in T
  <2>1. p[x - 1] = q[x - 1] /\ x \in 0 .. m
    BY <1>5
  <2>2. x \in 1 .. la /\ x \in 1 .. lb
    BY <1>1
  <2>3. p[x] = p[x - 1] + a[x] /\ q[x] = q[x - 1] + b[x] /\ a[x] = b[x]
    BY <1>2, <1>3, <2>2
  <2> QED BY <2>1, <2>3
<1> HIDE DEF T
<1>6. \A x \in 0 .. m : x \in T
  BY <1>4, <1>5, StepByStep
<1>7. m \in T
  BY <1>6
<1> QED BY <1>7 DEF T, p, q

(* Lemma: the sum of numbers of which only the first may be less than m. *)
LEMMA SumsAtLeast ==
  ASSUME NEW n \in Nat, NEW a \in Seq(Nat), Len(a) = n, NEW m \in Nat,
         \A i \in 2 .. n : m <= a[i]
  PROVE  (n - 1) * m <= PartialSums(a)[n]
<1> DEFINE p == PartialSums(a)
           T == {i \in 0 .. n : (i - 1) * m <= p[i]}
<1>1. /\ p[0] = 0 /\ (\A i \in 1 .. n : p[i] = p[i - 1] + a[i]) /\ \A i \in 0 .. n : p[i] \in Nat
  BY SumsClimb
<1>2. \A i \in 1 .. n : a[i] \in Nat
  OBVIOUS
<1> HIDE DEF p
<1>3. 0 \in T
  <2>1. (0 - 1) * m <= p[0]
    BY <1>1
  <2> QED BY <2>1
<1>4. ASSUME NEW i \in 1 .. n, i - 1 \in T PROVE i \in T
  <2>1. (i - 1 - 1) * m <= p[i - 1] /\ i - 1 \in 0 .. n /\ i \in 0 .. n
    BY <1>4
  <2>2. p[i] = p[i - 1] + a[i] /\ a[i] \in Nat /\ p[i - 1] \in Nat /\ p[i] \in Nat
    BY <1>1, <1>2, <2>1
  <2>3. (i - 1) * m <= p[i]
    <3>1. CASE i = 1
      BY <2>2, <3>1
    <3>2. CASE i # 1
      <4> DEFINE c == i - 1 - 1
                 one == 1
      <4>1. c \in Int /\ one \in Int /\ c + one = i - 1 /\ one * m = m /\ c = i - 1 - 1
        OBVIOUS
      <4> HIDE DEF c, one
      <4>2. (c + one) * m = c * m + one * m /\ c * m \in Int
        BY <4>1, Products
      <4>3. m <= a[i]
        BY <3>2
      <4> QED BY <2>1, <2>2, <4>1, <4>2, <4>3
    <3> QED BY <3>1, <3>2
  <2> QED BY <2>1, <2>3
<1> HIDE DEF T
<1>5. \A i \in 0 .. n : i \in T
  BY <1>3, <1>4, StepByStep
<1>6. n \in T
  BY <1>5
<1> QED BY <1>6 DEF T, p

-----------------------------------------------------------------------------
(* Index pages: searches.                                                    *)

\* The same as a recursive function, where all steps are alike.
IsLoop(f, b, n, step) == f = [i \in 0 .. n |-> IF i = 0 THEN b ELSE step[f[i - 1]]]

(* Lemma: a loop whose steps stay in a set D, written as a recursive function. *)
LEMMA TypedLoop ==
  ASSUME NEW D, NEW b \in D, NEW n \in Nat, NEW step \in [D -> D]
  PROVE  \E f : IsLoop(f, b, n, step)
<1> DEFINE st == [i \in 1 .. n |-> step]
<1>1. PICK f : IsRun(f, b, n, st)
  <2> HIDE DEF st
  <2> QED BY LoopRuns
<1>2. f[0] = b /\ \A i \in 1 .. n : f[i] = step[f[i - 1]]
  BY <1>1 DEF IsRun
<1> DEFINE h == [i \in 0 .. n |-> f[i]]
<1>3. \A i \in 0 .. n : h[i] = IF i = 0 THEN b ELSE step[h[i - 1]]
  BY <1>2
<1>4. h = [i \in 0 .. n |-> h[i]]
  OBVIOUS
<1> HIDE DEF h
<1>5. IsLoop(h, b, n, step)
  BY <1>3, <1>4 DEF IsLoop
<1> QED BY <1>5

(* Lemma: binary search finds the end of an initial segment of the slots. *)
LEMMA BinarySearchIs ==
  ASSUME NEW n \in Nat, NEW below, NEW r \in 0 .. n,
         \A i \in 0 .. n - 1 : i \in below <=> i < r
  PROVE  BinarySearch(n, below) = r
<1> DEFINE D == Nat \X Nat
           E(x) == LET lo  == x[1]
                       hi  == x[2]
                       mid == lo + (hi - lo) \div 2
                   IN  IF lo >= hi THEN <<lo, hi>>
                       ELSE IF mid \in below THEN <<mid + 1, hi>> ELSE <<lo, mid>>
           IsSearch(g) == g = [i \in 0 .. n |-> IF i = 0 THEN <<0, n>> ELSE E(g[i - 1])]
           b == <<0, n>>
           step == [x \in D |-> E(x)]
<1>1. \A lo, hi \in Nat : lo < hi => LET mid == lo + (hi - lo) \div 2 IN
         mid \in Nat /\ lo <= mid /\ mid < hi
  OBVIOUS
<1>2. \A x \in D : E(x) \in D
  <2> TAKE x \in D
  <2> DEFINE lo == x[1]
             hi == x[2]
             mid == lo + (hi - lo) \div 2
  <2>1. lo \in Nat /\ hi \in Nat
    OBVIOUS
  <2>2. lo < hi => mid \in Nat
    BY <1>1, <2>1
  <2>3. E(x) = IF lo >= hi THEN <<lo, hi>>
               ELSE IF mid \in below THEN <<mid + 1, hi>> ELSE <<lo, mid>>
    OBVIOUS
  <2> HIDE DEF mid, lo, hi
  <2>4. ~(lo >= hi) => mid \in Nat /\ mid + 1 \in Nat
    BY <2>1, <2>2
  <2>5. (IF lo >= hi THEN <<lo, hi>>
         ELSE IF mid \in below THEN <<mid + 1, hi>> ELSE <<lo, mid>>) \in D
    BY <2>1, <2>4
  <2> QED BY <2>3, <2>5
<1>3. b \in D /\ step \in [D -> D] /\ \A x \in D : step[x] = E(x)
  BY <1>2
<1> HIDE DEF step, D, b
<1>4a. PICK f : IsLoop(f, b, n, step)
  BY <1>3, TypedLoop
<1>4. f = [i \in 0 .. n |-> IF i = 0 THEN b ELSE step[f[i - 1]]]
  BY <1>4a DEF IsLoop
<1>5. \A i \in 0 .. n : f[i] \in D
  <2> DEFINE T == {i \in 0 .. n : f[i] \in D}
  <2>1. 0 \in T
    BY <1>3, <1>4
  <2>2. ASSUME NEW i \in 1 .. n, i - 1 \in T PROVE i \in T
    <3>1. f[i - 1] \in D /\ i \in 0 .. n /\ i # 0
      BY <2>2
    <3>2. f[i] = step[f[i - 1]]
      BY <1>4, <3>1
    <3> QED BY <1>3, <3>1, <3>2
  <2> HIDE DEF T
  <2>3. \A i \in 0 .. n : i \in T
    BY <2>1, <2>2, StepByStep
  <2> QED BY <2>3 DEF T
<1> HIDE DEF E
<1>6. IsSearch(f)
  <2>1. \A i \in 0 .. n : i # 0 => step[f[i - 1]] = E(f[i - 1])
    <3> SUFFICES ASSUME NEW i \in 0 .. n, i # 0 PROVE step[f[i - 1]] = E(f[i - 1])
      OBVIOUS
    <3>1. i - 1 \in 0 .. n
      OBVIOUS
    <3>2. f[i - 1] \in D
      BY <1>5, <3>1
    <3> QED BY <1>3, <3>2
  <2>2. [i \in 0 .. n |-> IF i = 0 THEN b ELSE step[f[i - 1]]]
          = [i \in 0 .. n |-> IF i = 0 THEN <<0, n>> ELSE E(f[i - 1])]
    BY <2>1 DEF b
  <2> QED BY <1>4, <2>2
<1>7. IsSearch(CHOOSE g : IsSearch(g))
  BY <1>6
<1>8. PICK g : IsSearch(g) /\ BinarySearch(n, below) = g[n][1]
  BY <1>7 DEF BinarySearch, E
<1>9. g[0] = <<0, n>> /\ \A i \in 1 .. n : g[i] = E(g[i - 1])
  <2>1. g = [i \in 0 .. n |-> IF i = 0 THEN <<0, n>> ELSE E(g[i - 1])]
    BY <1>8
  <2>2. \A i \in 0 .. n : g[i] = IF i = 0 THEN <<0, n>> ELSE E(g[i - 1])
    BY <2>1, Zenon
  <2>3. 0 \in 0 .. n /\ \A i \in 1 .. n : i \in 0 .. n /\ i # 0
    OBVIOUS
  <2> QED BY <2>2, <2>3
<1> DEFINE Ok(x, i) == /\ x = <<x[1], x[2]>> /\ x[1] \in Nat /\ x[2] \in Nat
                       /\ x[1] <= r /\ r <= x[2] /\ x[2] <= n
                       /\ x[1] = x[2] \/ x[2] - x[1] <= n - i
           T == {i \in 0 .. n : Ok(g[i], i)}
<1>10. 0 \in T
  BY <1>9
<1>11. ASSUME NEW i \in 1 .. n, i - 1 \in T PROVE i \in T
  <2> DEFINE x == g[i - 1]
             lo == x[1]
             hi == x[2]
             mid == lo + (hi - lo) \div 2
  <2>1. Ok(x, i - 1) /\ i \in 0 .. n /\ g[i] = E(x)
    BY <1>9, <1>11
  <2>2. E(x) = IF lo >= hi THEN <<lo, hi>>
               ELSE IF mid \in below THEN <<mid + 1, hi>> ELSE <<lo, mid>>
    BY DEF E
  <2>3. /\ lo \in Nat /\ hi \in Nat /\ lo <= r /\ r <= hi /\ hi <= n
        /\ lo = hi \/ hi - lo <= n - (i - 1)
    BY <2>1
  <2>4. lo < hi => mid \in Nat /\ lo <= mid /\ mid < hi
    BY <1>1, <2>3
  <2> HIDE DEF x, lo, hi, mid
  <2>5. CASE lo >= hi
    <3>1. g[i] = <<lo, hi>> /\ lo = hi
      BY <2>1, <2>2, <2>3, <2>5
    <3> QED BY <2>1, <2>3, <3>1
  <2>6. CASE lo < hi /\ mid \in below
    <3>1. g[i] = <<mid + 1, hi>>
      BY <2>1, <2>2, <2>3, <2>6
    <3>2. mid < r
      BY <2>3, <2>4, <2>6
    <3>3. mid + 1 \in Nat /\ mid + 1 <= r /\ (mid + 1 = hi \/ hi - (mid + 1) <= n - i)
      BY <2>3, <2>4, <2>6, <3>2
    <3> QED BY <2>1, <2>3, <3>1, <3>3
  <2>7. CASE lo < hi /\ mid \notin below
    <3>1. g[i] = <<lo, mid>>
      BY <2>1, <2>2, <2>3, <2>7
    <3>2. r <= mid
      BY <2>3, <2>4, <2>7
    <3>3. mid \in Nat /\ mid <= n /\ (lo = mid \/ mid - lo <= n - i)
      BY <2>3, <2>4, <2>7, <3>2
    <3> QED BY <2>1, <2>3, <3>1, <3>2, <3>3
  <2> QED BY <2>3, <2>5, <2>6, <2>7
<1> HIDE DEF T
<1>12. \A i \in 0 .. n : i \in T
  BY <1>10, <1>11, StepByStep
<1>13. Ok(g[n], n)
  BY <1>12 DEF T
<1> QED BY <1>8, <1>13

-----------------------------------------------------------------------------
(* Index pages: the invariant of a page.                                     *)

Heaps == UNION {[D -> AllKeys] : D \in SUBSET Nat}
Pages == [slots : Seq(Nat), heap : Heaps, top : Nat, fence : Nat]

\* The key of the tuple at an offset, and the fence key.
At(p, o)    == p.heap[o]
FenceKey(p) == p.heap[p.fence]

\* Where the tuples lie on a page of kind kd after d deletes: header and slots
\* are below the heap, tuples are apart, and the heap has not used more than a
\* tuple for each slot, the fence and each delete.
Geometry(kd, d, p) ==
  /\ Offset(kd, p.top)
  /\ HeaderSize + 2 * Len(p.slots) <= p.top
  /\ \A o \in Live(p) :
       /\ o \in DOMAIN p.heap /\ Offset(kd, o)
       /\ p.top <= o /\ o + Padded(kd, At(p, o)) <= PageSize
  /\ \A x, o \in Live(p) : x < o => x + Padded(kd, At(p, x)) <= o
  /\ PageSize <= p.top + (Len(p.slots) + 1 + d) * MaxTuple

\* The slots are sorted and below the fence.
Ordered(p) ==
  /\ \A i, j \in 1 .. Len(p.slots) : i < j => At(p, p.slots[i]) < At(p, p.slots[j])
  /\ p.fence # NoFence => \A i \in 1 .. Len(p.slots) : At(p, p.slots[i]) < FenceKey(p)

PageOK(kd, d, p) == p \in Pages /\ Geometry(kd, d, p) /\ Ordered(p)

\* A level: pages that are as they should, with growing fences between them.
\* Inner pages hold the separator they were made for.
Level(kd, d, ps, keys) ==
  /\ ps \in Seq(Pages) /\ Len(ps) >= 1
  /\ \A i \in 1 .. Len(ps) : PageOK(kd, d, ps[i])
  /\ \A i \in 1 .. Len(ps) : ps[i].fence = NoFence <=> i = Len(ps)
  /\ \A i, j \in 1 .. Len(ps) : i < j /\ j < Len(ps) => FenceKey(ps[i]) < FenceKey(ps[j])
  /\ \A i, j \in 1 .. Len(ps) : i < j => \A k \in PageKeys(ps[j]) : FenceKey(ps[i]) <= k
  /\ UNION {PageKeys(ps[i]) : i \in 1 .. Len(ps)} = keys
  /\ kd = "inter" => \A i \in 1 .. Len(ps) :
       (IF i = 1 THEN Empty ELSE FenceKey(ps[i - 1])) \in PageKeys(ps[i])

LevelInv ==
  /\ kind \in Kinds /\ deletes \in 0 .. MaxDeletes
  /\ kind = "inter" => deletes = 0
  /\ Level(kind, deletes, pages, present)

(* Lemma: heaps. *)
LEMMA HeapIs ==
  /\ \A h \in Heaps : DOMAIN h \subseteq Nat /\ \A o \in DOMAIN h : h[o] \in AllKeys
  /\ \A D \in SUBSET Nat : \A h \in [D -> AllKeys] : h \in Heaps
  BY DEF Heaps

(* Lemma: what a page of the invariant has. *)
LEMMA PageFacts ==
  ASSUME Roomy, NEW kd \in Kinds, NEW d, NEW p, PageOK(kd, d, p)
  PROVE  /\ p.slots \in Seq(Nat) /\ Len(p.slots) \in Nat /\ DOMAIN p.slots = 1 .. Len(p.slots)
         /\ \A i \in 1 .. Len(p.slots) : p.slots[i] \in Live(p) /\ p.slots[i] \in Nat
         /\ \A o \in Live(p) : /\ At(p, o) \in AllKeys /\ o \in Nat /\ o # NoFence
                               /\ o <= PageSize /\ o \in DOMAIN p.heap
         /\ \A o \in Live(p) : o = p.fence \/ \E i \in 1 .. Len(p.slots) : o = p.slots[i]
         /\ p.fence # NoFence => p.fence \in Live(p)
         /\ PageKeys(p) = {At(p, p.slots[i]) : i \in 1 .. Len(p.slots)}
         /\ \A i \in 1 .. Len(p.slots) : At(p, p.slots[i]) \in AllKeys
         /\ p.top \in Nat /\ p.heap \in Heaps /\ p.fence \in Nat
         /\ p = [slots |-> p.slots, heap |-> p.heap, top |-> p.top, fence |-> p.fence]
<1>1. /\ p.slots \in Seq(Nat) /\ p.heap \in Heaps /\ p.top \in Nat /\ p.fence \in Nat
      /\ p = [slots |-> p.slots, heap |-> p.heap, top |-> p.top, fence |-> p.fence]
  BY DEF PageOK, Pages
<1>2. /\ Len(p.slots) \in Nat /\ DOMAIN p.slots = 1 .. Len(p.slots)
      /\ \A i \in 1 .. Len(p.slots) : p.slots[i] \in Nat
  BY <1>1
<1> DEFINE n == Len(p.slots)
           s == p.slots
<1> HIDE DEF n, s
<1>3. Live(p) = {s[i] : i \in 1 .. n} \union ({p.fence} \ {NoFence})
  BY <1>2 DEF Live, Range, n, s
<1>4. (\A i \in 1 .. n : s[i] \in Live(p)) /\ (p.fence # NoFence => p.fence \in Live(p))
  BY <1>3
<1>5. \A o \in Live(p) : o = p.fence \/ \E i \in 1 .. n : o = s[i]
  BY <1>3
<1>6. \A o \in Live(p) : o \in DOMAIN p.heap /\ o \in Nat /\ o <= PageSize
  BY DEF PageOK, Geometry, Offset
<1>7. \A o \in Live(p) : At(p, o) \in AllKeys
  BY <1>1, <1>6, HeapIs DEF At
<1>8. \A o \in Live(p) : o # NoFence
  <2>1. PageSize \in Nat /\ PageSize < 65535
    BY IndexPageAssumption DEF U16
  <2> QED BY <1>6, <2>1 DEF NoFence
<1>9. PageKeys(p) = {At(p, s[i]) : i \in 1 .. n}
  BY <1>2 DEF PageKeys, At, n, s
<1>10. \A i \in 1 .. n : At(p, s[i]) \in AllKeys
  BY <1>4, <1>7
<1> QED BY <1>1, <1>2, <1>4, <1>5, <1>6, <1>7, <1>8, <1>9, <1>10 DEF n, s

(* Lemma: a page has always room for the offset arithmetic.                   *)
LEMMA Room ==
  ASSUME Roomy, NEW kd \in Kinds, NEW d \in Nat, NoWrap(kd, d), NEW p, PageOK(kd, d, p),
         NEW k \in AllKeys
  PROVE  Padded(kd, k) <= p.top
<1> DEFINE n == Len(p.slots)
           t == p.top
           c == n + 1 + d
           e == FullCount + 1 + d
           one == 1
           w == Padded(kd, k)
<1>1. /\ n \in Nat /\ t \in Nat
  BY PageFacts
<1>2. HeaderSize + 2 * n <= t /\ PageSize <= t + c * MaxTuple
  BY DEF PageOK, Geometry
<1>3. /\ HeaderSize \in Nat /\ PageSize \in Nat
      /\ MaxTuple \in Nat /\ FullCount \in Nat /\ MaxTuple <= HeaderSize + 2 * FullCount
  BY IndexPageAssumption DEF Roomy
<1>4. w \in Nat /\ w <= MaxTuple
  BY PaddedIs
<1>5. CASE w <= HeaderSize
  <2> HIDE DEF n, t, w
  <2>1. w <= t
    BY <1>1, <1>2, <1>3, <1>4, <1>5
  <2> QED BY <2>1 DEF w, t
<1>6. CASE HeaderSize + 2 * (FullCount + 1) + (FullCount + 2 + d) * MaxTuple <= PageSize
  <2>1. c \in Int /\ e \in Int /\ one \in Int /\ (n <= FullCount => c <= e)
        /\ FullCount + 2 + d = e + one /\ one * MaxTuple = MaxTuple
    BY <1>1, <1>3
  <2> HIDE DEF n, t, c, e, one, w
  <2>2. c * MaxTuple \in Int /\ e * MaxTuple \in Int /\ (c <= e => c * MaxTuple <= e * MaxTuple)
    BY <1>3, <2>1, Products
  <2>3. (e + one) * MaxTuple = e * MaxTuple + one * MaxTuple
    BY <1>3, <2>1, Products
  <2>4. HeaderSize + 2 * (FullCount + 1) + (e * MaxTuple + MaxTuple) <= PageSize
    BY <1>6, <2>1, <2>3
  <2>5. MaxTuple <= t
    <3>1. CASE n <= FullCount
      BY <1>1, <1>2, <1>3, <2>1, <2>2, <2>4, <3>1
    <3>2. CASE n > FullCount
      BY <1>1, <1>2, <1>3, <3>2
    <3> QED BY <1>1, <1>3, <3>1, <3>2
  <2>6. w <= t
    BY <1>1, <1>3, <1>4, <2>5
  <2> QED BY <2>6 DEF w, t
<1> QED BY <1>5, <1>6 DEF NoWrap

\* Room for one more slot and the tuple of a key.
Fits(kd, p, k) == HeaderSize + 2 * (Len(p.slots) + 1) + Padded(kd, k) <= p.top

(* Lemma: HasSpace does not wrap around and says whether the tuple fits. *)
LEMMA SpaceIs ==
  ASSUME Roomy, kind \in Kinds, NEW d \in Nat, NoWrap(kind, d), NEW p, PageOK(kind, d, p),
         NEW k \in AllKeys
  PROVE  /\ CalculateHeapOffset(p.top, Length(k)) = p.top - Padded(kind, k)
         /\ Offset(kind, p.top - Padded(kind, k))
         /\ HasSpace(p, k) <=> Fits(kind, p, k)
<1> DEFINE n == Len(p.slots)
           t == p.top
           w == Padded(kind, k)
<1>1. n \in Nat /\ t \in Nat
  BY PageFacts
<1>2. w <= t
  BY Room
<1>3. w \in Nat
  BY PaddedIs
<1>4. HeaderSize \in Nat
  BY IndexPageAssumption
<1>5. Offset(kind, t)
  BY DEF PageOK, Geometry
<1>6. CalculateHeapOffset(t, Length(k)) = t - w /\ Offset(kind, t - w)
  BY <1>2, <1>5, HeapOffsetIs
<1>7. HasSpace(p, k) <=> t - w >= (n + 1) * 2 + HeaderSize
  BY <1>6 DEF HasSpace, Count
<1>8. Fits(kind, p, k) <=> HeaderSize + 2 * (n + 1) + w <= t
  BY DEF Fits
<1> HIDE DEF n, t, w
<1>9. HasSpace(p, k) <=> Fits(kind, p, k)
  BY <1>1, <1>3, <1>4, <1>7, <1>8
<1> QED BY <1>6, <1>9 DEF n, t, w

\* m is s with e behind the first r elements.
IsInsert(m, s, r, e) ==
  /\ Len(m) = Len(s) + 1
  /\ \A j \in 1 .. Len(s) + 1 :
       m[j] = IF j <= r THEN s[j] ELSE IF j = r + 1 THEN e ELSE s[j - 1]

(* Lemma: a sequence with an element more. *)
LEMMA InsertAtIs ==
  ASSUME NEW S, NEW s \in Seq(S), NEW r \in 0 .. Len(s), NEW e \in S
  PROVE  /\ InsertAt(s, r + 1, e) \in Seq(S)
         /\ IsInsert(InsertAt(s, r + 1, e), s, r, e)
<1> DEFINE n == Len(s)
           a == SubSeq(s, 1, r)
           b == <<e>>
           c == SubSeq(s, r + 1, n)
           ab == a \o b
<1>1. n \in Nat /\ \A i \in 1 .. n : s[i] \in S
  OBVIOUS
<1>2. InsertAt(s, r + 1, e) = ab \o c
  <2>1. (r + 1) - 1 = r
    OBVIOUS
  <2> QED BY <2>1, Zenon DEF InsertAt
<1>3. r \in Nat /\ r <= n
  OBVIOUS
<1> HIDE DEF n
<1>4. a \in Seq(S) /\ Len(a) = r /\ \A i \in 1 .. r : a[i] = s[i]
  <2> DEFINE one == 1
  <2>1. one \in Int /\ r \in Int /\ \A i \in one .. r : s[i] \in S
    BY <1>1, <1>3
  <2> HIDE DEF one
  <2>2. /\ SubSeq(s, one, r) \in Seq(S)
        /\ Len(SubSeq(s, one, r)) = IF one <= r THEN r - one + 1 ELSE 0
        /\ \A i \in 1 .. r - one + 1 : SubSeq(s, one, r)[i] = s[one + i - 1]
    BY <2>1, SubSeqProperties
  <2>3. one = 1 /\ r - one + 1 = r /\ \A i \in 1 .. r : one + i - 1 = i
    BY <1>3 DEF one
  <2> QED BY <1>3, <2>2, <2>3
<1>5. b \in Seq(S) /\ Len(b) = 1 /\ b[1] = e
  OBVIOUS
<1>6. c \in Seq(S) /\ Len(c) = n - r /\ \A i \in 1 .. n - r : c[i] = s[r + i]
  <2> DEFINE m == r + 1
  <2>1. m \in Int /\ n \in Int /\ \A i \in m .. n : s[i] \in S
    BY <1>1, <1>3
  <2> HIDE DEF m
  <2>2. /\ SubSeq(s, m, n) \in Seq(S)
        /\ Len(SubSeq(s, m, n)) = IF m <= n THEN n - m + 1 ELSE 0
        /\ \A i \in 1 .. n - m + 1 : SubSeq(s, m, n)[i] = s[m + i - 1]
    BY <2>1, SubSeqProperties
  <2>3. m = r + 1 /\ n - m + 1 = n - r /\ \A i \in 1 .. n - r : m + i - 1 = r + i
    BY <1>1, <1>3 DEF m
  <2> QED BY <1>1, <1>3, <2>2, <2>3
<1> HIDE DEF a, b, c
<1>7. /\ ab \in Seq(S) /\ Len(ab) = r + 1
      /\ \A i \in 1 .. r + 1 : ab[i] = IF i <= r THEN a[i] ELSE b[i - r]
  <2>1. /\ a \o b \in Seq(S) /\ Len(a \o b) = Len(a) + Len(b)
        /\ \A i \in 1 .. Len(a) + Len(b) :
             (a \o b)[i] = IF i <= Len(a) THEN a[i] ELSE b[i - Len(a)]
    BY <1>4, <1>5, ConcatProperties
  <2> QED BY <1>4, <1>5, <2>1, Zenon
<1> HIDE DEF ab
<1>8. /\ ab \o c \in Seq(S) /\ Len(ab \o c) = r + 1 + (n - r)
      /\ \A i \in 1 .. r + 1 + (n - r) :
           (ab \o c)[i] = IF i <= r + 1 THEN ab[i] ELSE c[i - (r + 1)]
  <2>1. /\ ab \o c \in Seq(S) /\ Len(ab \o c) = Len(ab) + Len(c)
        /\ \A i \in 1 .. Len(ab) + Len(c) :
             (ab \o c)[i] = IF i <= Len(ab) THEN ab[i] ELSE c[i - Len(ab)]
    BY <1>6, <1>7, ConcatProperties
  <2> QED BY <1>6, <1>7, <2>1, Zenon
<1>9. r + 1 + (n - r) = n + 1
  BY <1>1, <1>3
<1>10. \A j \in 1 .. n + 1 : (ab \o c)[j] =
         IF j <= r THEN s[j] ELSE IF j = r + 1 THEN e ELSE s[j - 1]
  <2> TAKE j \in 1 .. n + 1
  <2>1. (ab \o c)[j] = IF j <= r + 1 THEN ab[j] ELSE c[j - (r + 1)]
    BY <1>8, <1>9
  <2>2. CASE j <= r
    <3>1. j \in 1 .. r /\ j \in 1 .. r + 1 /\ j <= r + 1
      BY <1>3, <2>2
    <3> QED BY <1>4, <1>7, <2>1, <2>2, <3>1
  <2>3. CASE j = r + 1
    <3>1. j \in 1 .. r + 1 /\ j <= r + 1 /\ ~(j <= r) /\ j - r = 1
      BY <1>3, <2>3
    <3> QED BY <1>5, <1>7, <2>1, <2>3, <3>1
  <2>4. CASE j > r + 1
    <3>1. j - (r + 1) \in 1 .. n - r /\ r + (j - (r + 1)) = j - 1 /\ ~(j <= r + 1) /\ ~(j <= r) /\ j # r + 1
      BY <1>1, <1>3, <2>4
    <3>2. c[j - (r + 1)] = s[j - 1]
      BY <1>6, <3>1
    <3> QED BY <2>1, <3>1, <3>2
  <2>5. j <= r \/ j = r + 1 \/ j > r + 1
    BY <1>1, <1>3
  <2> QED BY <2>2, <2>3, <2>4, <2>5
<1> QED BY <1>2, <1>8, <1>9, <1>10 DEF n, IsInsert

\* m is s without the element behind the first r.
IsRemove(m, s, r) ==
  /\ Len(m) = Len(s) - 1
  /\ \A j \in 1 .. Len(s) - 1 : m[j] = IF j <= r THEN s[j] ELSE s[j + 1]

(* Lemma: a sequence with an element less. *)
LEMMA RemoveAtIs ==
  ASSUME NEW S, NEW s \in Seq(S), NEW r \in 0 .. Len(s) - 1
  PROVE  /\ RemoveAt(s, r + 1) \in Seq(S)
         /\ IsRemove(RemoveAt(s, r + 1), s, r)
<1> DEFINE n == Len(s)
           a == SubSeq(s, 1, r)
           c == SubSeq(s, r + 2, n)
<1>1. n \in Nat /\ (\A i \in 1 .. n : s[i] \in S) /\ r \in Nat /\ r + 1 <= n
  OBVIOUS
<1>2. RemoveAt(s, r + 1) = a \o c
  <2>1. (r + 1) - 1 = r /\ (r + 1) + 1 = r + 2
    OBVIOUS
  <2> QED BY <2>1, Zenon DEF RemoveAt
<1> HIDE DEF n
<1>4. a \in Seq(S) /\ Len(a) = r /\ \A i \in 1 .. r : a[i] = s[i]
  <2> DEFINE one == 1
  <2>1. one \in Int /\ r \in Int /\ \A i \in one .. r : s[i] \in S
    BY <1>1
  <2> HIDE DEF one
  <2>2. /\ SubSeq(s, one, r) \in Seq(S)
        /\ Len(SubSeq(s, one, r)) = IF one <= r THEN r - one + 1 ELSE 0
        /\ \A i \in 1 .. r - one + 1 : SubSeq(s, one, r)[i] = s[one + i - 1]
    BY <2>1, SubSeqProperties
  <2>3. one = 1 /\ r - one + 1 = r /\ \A i \in 1 .. r : one + i - 1 = i
    BY <1>1 DEF one
  <2> QED BY <1>1, <2>2, <2>3
<1>6. c \in Seq(S) /\ Len(c) = n - 1 - r /\ \A i \in 1 .. n - 1 - r : c[i] = s[r + 1 + i]
  <2> DEFINE m == r + 2
  <2>1. m \in Int /\ n \in Int /\ \A i \in m .. n : s[i] \in S
    BY <1>1
  <2> HIDE DEF m
  <2>2. /\ SubSeq(s, m, n) \in Seq(S)
        /\ Len(SubSeq(s, m, n)) = IF m <= n THEN n - m + 1 ELSE 0
        /\ \A i \in 1 .. n - m + 1 : SubSeq(s, m, n)[i] = s[m + i - 1]
    BY <2>1, SubSeqProperties
  <2>3. m = r + 2 /\ n - m + 1 = n - 1 - r /\ \A i \in 1 .. n - 1 - r : m + i - 1 = r + 1 + i
    BY <1>1 DEF m
  <2> QED BY <1>1, <2>2, <2>3
<1> HIDE DEF a, c
<1>8. /\ a \o c \in Seq(S) /\ Len(a \o c) = r + (n - 1 - r)
      /\ \A i \in 1 .. r + (n - 1 - r) : (a \o c)[i] = IF i <= r THEN a[i] ELSE c[i - r]
  BY <1>4, <1>6, ConcatProperties
<1>9. r + (n - 1 - r) = n - 1
  BY <1>1
<1>10. \A j \in 1 .. n - 1 : (a \o c)[j] = IF j <= r THEN s[j] ELSE s[j + 1]
  <2> TAKE j \in 1 .. n - 1
  <2>1. (a \o c)[j] = IF j <= r THEN a[j] ELSE c[j - r]
    BY <1>8, <1>9
  <2>2. CASE j <= r
    BY <1>4, <2>1, <2>2
  <2>4. CASE j > r
    <3>1. j - r \in 1 .. n - 1 - r /\ r + 1 + (j - r) = j + 1 /\ ~(j <= r)
      BY <1>1, <2>4
    <3>2. c[j - r] = s[j + 1]
      BY <1>6, <3>1
    <3> QED BY <2>1, <3>1, <3>2
  <2>5. j <= r \/ j > r
    BY <1>1
  <2> QED BY <2>2, <2>4, <2>5
<1> QED BY <1>2, <1>8, <1>9, <1>10 DEF n, IsRemove

(* Lemma: FindInsertPosition is the number of keys below the key. *)
LEMMA InsertPositionIs ==
  ASSUME NEW p, NEW n \in Nat, Len(p.slots) = n, NEW k \in Nat,
         \A i \in 1 .. n : At(p, p.slots[i]) \in Nat,
         \A i, j \in 1 .. n : i < j => At(p, p.slots[i]) < At(p, p.slots[j])
  PROVE  /\ FindInsertPosition(p, k) \in 0 .. n
         /\ \A i \in 1 .. n : At(p, p.slots[i]) < k <=> i <= FindInsertPosition(p, k)
<1> DEFINE key(i) == At(p, p.slots[i])
           T == {i \in 0 .. n : \A j \in 1 .. n : j > i => ~(key(j) < k)}
<1>1. (\A i \in 1 .. n : key(i) \in Nat) /\ \A i, j \in 1 .. n : i < j => key(i) < key(j)
  OBVIOUS
<1> HIDE DEF key
<1>2. n \in T
  OBVIOUS
<1>3. T \in SUBSET Nat
  OBVIOUS
<1>4. PICK r \in T : \A y \in T : r <= y
  <2> HIDE DEF T
  <2> QED BY <1>2, <1>3, LeastNat
<1>5. r \in 0 .. n /\ \A j \in 1 .. n : j > r => ~(key(j) < k)
  BY <1>4
<1>6. ASSUME NEW j \in 1 .. n, j <= r PROVE key(j) < k
  <2> SUFFICES ASSUME ~(key(j) < k) PROVE FALSE
    OBVIOUS
  <2>1. \A x \in 1 .. n : x > j - 1 => ~(key(x) < k)
    <3> TAKE x \in 1 .. n
    <3> HAVE x > j - 1
    <3>1. key(x) \in Nat /\ key(j) \in Nat /\ (x = j \/ key(j) < key(x))
      BY <1>1
    <3> QED BY <3>1
  <2>2. j - 1 \in T
    BY <2>1
  <2>3. r <= j - 1
    BY <1>4, <2>2
  <2> QED BY <1>5, <1>6, <2>3
<1>7. \A i \in 1 .. n : key(i) < k <=> i <= r
  BY <1>5, <1>6
<1> DEFINE below == {i \in Slots(p) : KeyAt(p, i) < k}
<1>8. \A i \in 0 .. n - 1 : i \in below <=> i < r
  <2> TAKE i \in 0 .. n - 1
  <2>1. i \in Slots(p)
    BY DEF Slots, Count
  <2>2. KeyAt(p, i) = key(i + 1)
    BY DEF KeyAt, key, At
  <2>3. i + 1 \in 1 .. n /\ (i + 1 <= r <=> i < r)
    BY <1>5
  <2> QED BY <1>7, <2>1, <2>2, <2>3
<1> HIDE DEF below
<1>9. BinarySearch(n, below) = r
  BY <1>5, <1>8, BinarySearchIs
<1>10. FindInsertPosition(p, k) = r
  BY <1>9 DEF FindInsertPosition, Count, below
<1> QED BY <1>5, <1>7, <1>10 DEF key

-----------------------------------------------------------------------------
(* Index pages: insert and delete.                                           *)

(* Lemma: a page with one tuple more has one MaxTuple more. *)
LEMMA OneMoreTuple ==
  ASSUME NEW c \in Int, NEW m \in Nat, NEW t \in Nat, NEW w \in Nat, w <= m,
         NEW e \in Nat, e <= t + c * m
  PROVE  e <= (t - w) + (c + 1) * m
<1> DEFINE one == 1
<1>1. one \in Int /\ one * m = m
  OBVIOUS
<1>2. c * m \in Int
  BY Products
<1>3. (c + one) * m = c * m + one * m
  <2> HIDE DEF one
  <2> QED BY <1>1, Products
<1>4. (c + 1) * m = c * m + m
  BY <1>1, <1>3
<1> DEFINE x == c * m
           y == (c + 1) * m
<1>5. x \in Int /\ y = x + m /\ e <= t + x
  BY <1>2, <1>4
<1> HIDE DEF x, y
<1>6. e <= (t - w) + y
  BY <1>5
<1> QED BY <1>6 DEF y

(* Lemma: Insert of a key that fits. *)
LEMMA InsertIs ==
  ASSUME Roomy, kind \in Kinds, NEW d \in Nat, NoWrap(kind, d), NEW p, PageOK(kind, d, p),
         NEW k \in Keys, k \notin PageKeys(p), Fits(kind, p, k),
         p.fence # NoFence => k < FenceKey(p)
  PROVE  /\ PageOK(kind, d, Insert(p, k))
         /\ PageKeys(Insert(p, k)) = PageKeys(p) \union {k}
         /\ Insert(p, k).fence = p.fence
         /\ p.fence # NoFence => FenceKey(Insert(p, k)) = FenceKey(p)
<1> DEFINE n == Len(p.slots)
           t == p.top
           w == Padded(kind, k)
           o == t - w
           s == p.slots
           key(i) == At(p, s[i])
           q == AppendHeap(p, k)
           z == Insert(p, k)
           r == FindInsertPosition(q, k)
<1>1. /\ s \in Seq(Nat) /\ n \in Nat /\ DOMAIN s = 1 .. n
      /\ \A i \in 1 .. n : s[i] \in Live(p) /\ s[i] \in Nat
      /\ \A x \in Live(p) : x # NoFence /\ x \in DOMAIN p.heap
      /\ \A x \in Live(p) : x = p.fence \/ \E i \in 1 .. n : x = s[i]
      /\ p.fence # NoFence => p.fence \in Live(p)
      /\ PageKeys(p) = {key(i) : i \in 1 .. n}
      /\ t \in Nat /\ p.heap \in Heaps /\ p.fence \in Nat
  BY PageFacts
<1>2. \A i \in 1 .. n : key(i) \in AllKeys
  BY PageFacts
<1>3. k \in AllKeys /\ k \in Nat
  BY IndexPageAssumption DEF AllKeys
<1>4. w \in Nat /\ 1 <= w /\ w <= MaxTuple
  BY <1>3, PaddedIs
<1>5. CalculateHeapOffset(t, Length(k)) = o /\ Offset(kind, o)
  BY <1>3, SpaceIs
<1>6. q = [slots |-> s, heap |-> [x \in DOMAIN p.heap \union {o} |-> IF x = o THEN k ELSE p.heap[x]],
           top |-> o, fence |-> p.fence]
  BY <1>5 DEF AppendHeap
<1>7. HeaderSize + 2 * (n + 1) + w <= t
  BY DEF Fits
<1>8. HeaderSize \in Nat /\ PageSize \in Nat /\ MaxTuple \in Nat /\ d \in Nat
  BY IndexPageAssumption DEF Roomy
<1>9. /\ Offset(kind, t)
      /\ \A x \in Live(p) : Offset(kind, x) /\ t <= x /\ x + Padded(kind, At(p, x)) <= PageSize
      /\ \A x, y \in Live(p) : x < y => x + Padded(kind, At(p, x)) <= y
      /\ PageSize <= t + (n + 1 + d) * MaxTuple
  BY DEF PageOK, Geometry
<1>10. /\ \A i, j \in 1 .. n : i < j => key(i) < key(j)
       /\ p.fence # NoFence => \A i \in 1 .. n : key(i) < FenceKey(p)
  BY DEF PageOK, Ordered
<1> HIDE DEF n, t, w, s, key
<1>11. o \in Nat /\ o < t /\ o + w = t /\ HeaderSize + 2 * (n + 1) <= o
  BY <1>1, <1>4, <1>5, <1>7, <1>8 DEF Offset
<1>12. \A x \in Live(p) : x # o /\ x \in Nat /\ t <= x
  BY <1>9, <1>11, <1>1 DEF Offset
<1> HIDE DEF o
<1> DEFINE h == [x \in DOMAIN p.heap \union {o} |-> IF x = o THEN k ELSE p.heap[x]]
<1>13. h[o] = k /\ o \in DOMAIN h /\ \A x \in Live(p) : x \in DOMAIN h /\ h[x] = At(p, x)
  BY <1>1, <1>12 DEF At
<1>14. h \in Heaps
  <2>1. DOMAIN p.heap \subseteq Nat /\ \A x \in DOMAIN p.heap : p.heap[x] \in AllKeys
    BY <1>1, HeapIs
  <2> DEFINE D == DOMAIN p.heap \union {o}
  <2>2. D \in SUBSET Nat
    BY <1>11, <2>1
  <2>3. h \in [D -> AllKeys]
    BY <1>3, <2>1
  <2> HIDE DEF D, h
  <2> QED BY <2>2, <2>3, HeapIs
<1>15. q.slots = s /\ q.heap = h /\ q.top = o /\ q.fence = p.fence
  BY <1>6
<1> HIDE DEF h, q
<1>16. \A i \in 1 .. n : At(q, q.slots[i]) = key(i)
  BY <1>1, <1>13, <1>15 DEF At, key
<1>17. r \in 0 .. n /\ \A i \in 1 .. n : key(i) < k <=> i <= r
  <2>1. Len(q.slots) = n
    BY <1>15 DEF n, s
  <2>2. \A i \in 1 .. n : At(q, q.slots[i]) \in Nat
    <3> TAKE i \in 1 .. n
    <3>1. key(i) \in AllKeys
      BY <1>2
    <3> QED BY <1>16, <3>1, PaddedIs
  <2>3. \A i, j \in 1 .. n : i < j => At(q, q.slots[i]) < At(q, q.slots[j])
    BY <1>10, <1>16
  <2>4. r \in 0 .. n /\ \A i \in 1 .. n : At(q, q.slots[i]) < k <=> i <= r
    BY <1>1, <1>3, <2>1, <2>2, <2>3, InsertPositionIs
  <2> QED BY <1>16, <2>4
<1>18. z = [slots |-> InsertAt(s, r + 1, o), heap |-> h, top |-> o, fence |-> p.fence]
  <2>1. q.heap[q.top] = k
    BY <1>13, <1>15
  <2>2. Insert(p, k) = InsertSlot(q, q.top)
    BY DEF Insert, q
  <2>3. InsertSlot(q, q.top) = [slots |-> InsertAt(q.slots, FindInsertPosition(q, q.heap[q.top]) + 1, q.top),
                                heap |-> q.heap, top |-> q.top, fence |-> q.fence]
    BY DEF InsertSlot
  <2> QED BY <1>15, <2>1, <2>2, <2>3
<1> HIDE DEF r
<1> DEFINE m == InsertAt(s, r + 1, o)
<1>19. /\ m \in Seq(Nat) /\ Len(m) = n + 1
       /\ \A j \in 1 .. n + 1 : m[j] = IF j <= r THEN s[j] ELSE IF j = r + 1 THEN o ELSE s[j - 1]
  <2>1. s \in Seq(Nat) /\ r \in 0 .. Len(s) /\ o \in Nat
    BY <1>1, <1>11, <1>17 DEF n, s
  <2>2. m \in Seq(Nat) /\ IsInsert(m, s, r, o)
    BY <2>1, InsertAtIs
  <2>3. Len(s) = n
    BY DEF n, s
  <2> QED BY <2>2, <2>3 DEF IsInsert
<1>20. z.slots = m /\ z.heap = h /\ z.top = o /\ z.fence = p.fence
  BY <1>18
<1>20a. z = [slots |-> m, heap |-> h, top |-> o, fence |-> p.fence]
  BY <1>18
<1> HIDE DEF m, z
<1>21. Live(z) = Live(p) \union {o}
  <2>1. DOMAIN m = 1 .. n + 1
    BY <1>19
  <2>2. Live(z) = {m[j] : j \in 1 .. n + 1} \union ({p.fence} \ {NoFence})
    BY <1>20, <2>1 DEF Live, Range
  <2>3. Live(p) = {s[i] : i \in 1 .. n} \union ({p.fence} \ {NoFence})
    BY <1>1 DEF Live, Range, s
  <2>4. {m[j] : j \in 1 .. n + 1} = {s[i] : i \in 1 .. n} \union {o}
    <3>1. ASSUME NEW j \in 1 .. n + 1 PROVE m[j] = o \/ \E i \in 1 .. n : m[j] = s[i]
      <4>1. CASE j <= r
        <5>1. j \in 1 .. n
          BY <1>1, <1>17, <4>1
        <5>2. m[j] = s[j]
          BY <1>19, <4>1, Zenon
        <5> QED BY <5>1, <5>2
      <4>2. CASE j = r + 1
        BY <1>17, <1>19, <4>2
      <4>3. CASE j > r + 1
        <5>1. j - 1 \in 1 .. n /\ ~(j <= r) /\ j # r + 1
          BY <1>1, <1>17, <4>3
        <5>2. m[j] = s[j - 1]
          BY <1>19, <5>1, Zenon
        <5> QED BY <5>1, <5>2
      <4> QED BY <1>1, <1>17, <4>1, <4>2, <4>3
    <3>2. ASSUME NEW i \in 1 .. n PROVE \E j \in 1 .. n + 1 : m[j] = s[i]
      <4>1. CASE i <= r
        <5>1. i \in 1 .. n + 1 /\ m[i] = s[i]
          BY <1>1, <1>17, <1>19, <4>1
        <5> QED BY <5>1
      <4>2. CASE i > r
        <5>1. i + 1 \in 1 .. n + 1 /\ ~(i + 1 <= r) /\ i + 1 # r + 1 /\ (i + 1) - 1 = i
          BY <1>1, <1>17, <4>2
        <5>2. m[i + 1] = s[i]
          BY <1>19, <5>1
        <5> QED BY <5>1, <5>2
      <4> QED BY <1>17, <4>1, <4>2
    <3>3. r + 1 \in 1 .. n + 1 /\ m[r + 1] = o
      BY <1>1, <1>17, <1>19
    <3> QED BY <3>1, <3>2, <3>3
  <2> QED BY <2>2, <2>3, <2>4
<1>22. At(z, o) = k /\ \A x \in Live(p) : At(z, x) = At(p, x)
  BY <1>13, <1>20 DEF At
<1>23. \A j \in 1 .. n + 1 : /\ j <= r => j \in 1 .. n /\ At(z, m[j]) = key(j)
                             /\ j = r + 1 => At(z, m[j]) = k
                             /\ j > r + 1 => j - 1 \in 1 .. n /\ At(z, m[j]) = key(j - 1)
  <2> TAKE j \in 1 .. n + 1
  <2>1. CASE j <= r
    <3>0. j \in 1 .. n
      BY <1>1, <1>17, <2>1
    <3>1. j \in 1 .. n /\ m[j] = s[j]
      BY <1>19, <2>1, <3>0, Zenon
    <3> QED BY <1>1, <1>17, <1>22, <2>1, <3>1 DEF key
  <2>2. CASE j = r + 1
    <3>1. m[j] = o
      BY <1>17, <1>19, <2>2
    <3> QED BY <1>17, <1>22, <2>2, <3>1
  <2>3. CASE j > r + 1
    <3>1. j - 1 \in 1 .. n /\ m[j] = s[j - 1]
      BY <1>1, <1>17, <1>19, <2>3
    <3> QED BY <1>1, <1>17, <1>22, <2>3, <3>1 DEF key
  <2> QED BY <1>17, <2>1, <2>2, <2>3
<1>24. z \in Pages
  BY <1>1, <1>11, <1>14, <1>19, <1>20a DEF Pages
<1>25. Geometry(kind, d, z)
  <2>1. Offset(kind, z.top) /\ HeaderSize + 2 * Len(z.slots) <= z.top
    BY <1>5, <1>11, <1>19, <1>20
  <2>2. ASSUME NEW x \in Live(z)
        PROVE  /\ x \in DOMAIN z.heap /\ Offset(kind, x)
               /\ z.top <= x /\ x + Padded(kind, At(z, x)) <= PageSize
    <3>1. CASE x = o
      <4>1. t <= PageSize
        BY <1>9 DEF Offset
      <4> QED BY <1>1, <1>5, <1>8, <1>11, <1>13, <1>20, <1>22, <3>1, <4>1 DEF w
    <3>2. CASE x \in Live(p)
      BY <1>1, <1>9, <1>11, <1>12, <1>13, <1>20, <1>22, <3>2
    <3> QED BY <1>21, <3>1, <3>2
  <2>3. ASSUME NEW x \in Live(z), NEW y \in Live(z), x < y
        PROVE  x + Padded(kind, At(z, x)) <= y
    <3>1. CASE x \in Live(p) /\ y \in Live(p)
      BY <1>9, <1>22, <2>3, <3>1
    <3>2. CASE x = o /\ y \in Live(p)
      BY <1>11, <1>12, <1>22, <3>2 DEF w
    <3>3. CASE y = o
      <4>1. x \in Nat /\ o <= x
        BY <1>1, <1>11, <1>12, <1>21
      <4> QED BY <1>11, <2>3, <3>3, <4>1
    <3> QED BY <1>21, <3>1, <3>2, <3>3
  <2>4. PageSize <= z.top + (Len(z.slots) + 1 + d) * MaxTuple
    <3> DEFINE c == n + 1 + d
    <3>1. c \in Int /\ PageSize <= t + c * MaxTuple /\ c + 1 = n + 1 + 1 + d
      BY <1>1, <1>8, <1>9
    <3> HIDE DEF c
    <3>2. PageSize <= (t - w) + (c + 1) * MaxTuple
      BY <1>1, <1>4, <1>8, <3>1, OneMoreTuple
    <3> QED BY <1>19, <1>20, <3>1, <3>2 DEF o
  <2> QED BY <2>1, <2>2, <2>3, <2>4 DEF Geometry
<1>26. \A i \in 1 .. n : key(i) # k /\ key(i) \in Nat
  <2> TAKE i \in 1 .. n
  <2>1. key(i) \in PageKeys(p) /\ key(i) \in AllKeys
    BY <1>1, <1>2
  <2> QED BY <2>1, PaddedIs
<1>27. Ordered(z)
  <2>1. ASSUME NEW i \in 1 .. n + 1, NEW j \in 1 .. n + 1, i < j
        PROVE  At(z, m[i]) < At(z, m[j])
    <3>1. CASE j <= r
      BY <1>10, <1>17, <1>23, <2>1, <3>1
    <3>2. CASE j = r + 1
      <4>1. i <= r /\ i \in 1 .. n
        BY <1>17, <1>23, <2>1, <3>2
      <4>2. key(i) < k
        BY <1>17, <4>1
      <4> QED BY <1>23, <3>2, <4>1, <4>2
    <3>3. CASE j > r + 1
      <4>1. j - 1 \in 1 .. n /\ At(z, m[j]) = key(j - 1) /\ j - 1 > r
        BY <1>17, <1>23, <3>3
      <4>2. k < key(j - 1)
        <5>1. ~(key(j - 1) < k)
          BY <1>17, <4>1
        <5> QED BY <1>3, <1>26, <4>1, <5>1
      <4>3. CASE i = r + 1
        BY <1>23, <4>1, <4>2, <4>3
      <4>4. CASE i <= r
        <5>1. i \in 1 .. n /\ At(z, m[i]) = key(i) /\ i < j - 1
          BY <1>17, <1>23, <3>3, <4>4
        <5> QED BY <1>10, <4>1, <5>1
      <4>5. CASE i > r + 1
        <5>1. i - 1 \in 1 .. n /\ At(z, m[i]) = key(i - 1) /\ i - 1 < j - 1
          BY <1>23, <2>1, <4>5
        <5> QED BY <1>10, <4>1, <5>1
      <4> QED BY <1>17, <4>3, <4>4, <4>5
    <3> QED BY <1>17, <3>1, <3>2, <3>3
  <2>2. ASSUME p.fence # NoFence, NEW j \in 1 .. n + 1 PROVE At(z, m[j]) < FenceKey(z)
    <3>1. FenceKey(z) = FenceKey(p)
      BY <1>1, <1>20, <1>22, <2>2 DEF FenceKey, At
    <3>2. At(z, m[j]) = k \/ \E i \in 1 .. n : At(z, m[j]) = key(i)
      BY <1>17, <1>23
    <3> QED BY <1>10, <2>2, <3>1, <3>2
  <2> QED BY <1>19, <1>20, <2>1, <2>2 DEF Ordered
<1>28. PageKeys(z) = PageKeys(p) \union {k}
  <2>1. DOMAIN m = 1 .. n + 1
    BY <1>19
  <2>2. PageKeys(z) = {At(z, m[j]) : j \in 1 .. n + 1}
    BY <1>20, <2>1 DEF PageKeys, At
  <2>3. \A j \in 1 .. n + 1 : At(z, m[j]) = k \/ \E i \in 1 .. n : At(z, m[j]) = key(i)
    BY <1>17, <1>23
  <2>4. \A i \in 1 .. n : \E j \in 1 .. n + 1 : At(z, m[j]) = key(i)
    <3> TAKE i \in 1 .. n
    <3>1. CASE i <= r
      <4>1. i \in 1 .. n + 1
        BY <1>1
      <4> QED BY <1>23, <3>1, <4>1
    <3>2. CASE i > r
      <4>1. i + 1 \in 1 .. n + 1 /\ i + 1 > r + 1 /\ (i + 1) - 1 = i
        BY <1>1, <1>17, <3>2
      <4>2. At(z, m[i + 1]) = key(i)
        BY <1>23, <4>1
      <4> QED BY <4>1, <4>2
    <3> QED BY <1>17, <3>1, <3>2
  <2>5. \E j \in 1 .. n + 1 : At(z, m[j]) = k
    <3>1. r + 1 \in 1 .. n + 1
      BY <1>1, <1>17
    <3> QED BY <1>23, <3>1
  <2> QED BY <1>1, <2>2, <2>3, <2>4, <2>5
<1>29. p.fence # NoFence => FenceKey(z) = FenceKey(p)
  BY <1>1, <1>20, <1>22 DEF FenceKey, At
<1> QED BY <1>20, <1>24, <1>25, <1>27, <1>28, <1>29 DEF PageOK, z

(* Lemma: Delete of a key that is there. *)
LEMMA DeleteIs ==
  ASSUME Roomy, NEW kd \in Kinds, NEW d \in Nat, NEW p, PageOK(kd, d, p),
         NEW k \in Keys, k \in PageKeys(p)
  PROVE  /\ PageOK(kd, d + 1, Delete(p, k))
         /\ PageKeys(Delete(p, k)) = PageKeys(p) \ {k}
         /\ Delete(p, k).fence = p.fence
         /\ FenceKey(Delete(p, k)) = FenceKey(p)
<1> DEFINE n == Len(p.slots)
           s == p.slots
           key(i) == At(p, s[i])
           z == Delete(p, k)
           r == FindInsertPosition(p, k)
           m == RemoveAt(s, r + 1)
<1>1. /\ s \in Seq(Nat) /\ n \in Nat /\ DOMAIN s = 1 .. n
      /\ \A i \in 1 .. n : s[i] \in Live(p)
      /\ p.fence # NoFence => p.fence \in Live(p)
      /\ PageKeys(p) = {key(i) : i \in 1 .. n}
      /\ p.top \in Nat /\ p.heap \in Heaps /\ p.fence \in Nat
  BY PageFacts
<1>2. \A i \in 1 .. n : key(i) \in Nat
  <2>1. \A i \in 1 .. n : key(i) \in AllKeys
    BY PageFacts
  <2> QED BY <2>1, PaddedIs
<1>3. k \in Nat
  BY IndexPageAssumption
<1>8. HeaderSize \in Nat /\ PageSize \in Nat /\ MaxTuple \in Nat
  BY IndexPageAssumption DEF Roomy
<1>9. /\ Offset(kd, p.top) /\ HeaderSize + 2 * n <= p.top
      /\ \A x \in Live(p) : x \in DOMAIN p.heap /\ Offset(kd, x) /\ p.top <= x /\ x + Padded(kd, At(p, x)) <= PageSize
      /\ \A x, y \in Live(p) : x < y => x + Padded(kd, At(p, x)) <= y
      /\ PageSize <= p.top + (n + 1 + d) * MaxTuple
  BY DEF PageOK, Geometry
<1>10. /\ \A i, j \in 1 .. n : i < j => key(i) < key(j)
       /\ p.fence # NoFence => \A i \in 1 .. n : key(i) < FenceKey(p)
  BY DEF PageOK, Ordered
<1>17. r \in 0 .. n /\ \A i \in 1 .. n : key(i) < k <=> i <= r
  BY <1>1, <1>2, <1>3, <1>10, InsertPositionIs
<1>18. z = [slots |-> m, heap |-> p.heap, top |-> p.top, fence |-> p.fence]
  BY DEF Delete, FindDeletePosition
<1>18a. n \in Nat
  BY <1>1
<1> HIDE DEF n, s, key, z, r
<1>19. r \in 0 .. n - 1 /\ key(r + 1) = k
  <2>1. PICK c \in 1 .. n : key(c) = k
    BY <1>1
  <2>2. ~(c <= r)
    BY <1>3, <1>17, <2>1
  <2>3. r + 1 \in 1 .. n /\ r + 1 <= c
    BY <1>1, <1>17, <2>1, <2>2
  <2>4. ~(key(r + 1) < k)
    BY <1>17, <2>3
  <2>5. r + 1 = c
    BY <1>10, <2>1, <2>3, <2>4
  <2> QED BY <1>1, <1>17, <2>1, <2>3, <2>5
<1>20. /\ m \in Seq(Nat) /\ Len(m) = n - 1
       /\ \A j \in 1 .. n - 1 : m[j] = IF j <= r THEN s[j] ELSE s[j + 1]
  <2>1. s \in Seq(Nat) /\ Len(s) = n /\ r \in 0 .. Len(s) - 1
    BY <1>1, <1>19 DEF n, s
  <2>2. m \in Seq(Nat) /\ IsRemove(m, s, r)
    BY <2>1, RemoveAtIs
  <2> QED BY <2>1, <2>2 DEF IsRemove
<1>21. z.slots = m /\ z.heap = p.heap /\ z.top = p.top /\ z.fence = p.fence
  BY <1>18
<1> HIDE DEF m
<1>22. /\ FenceKey(z) = FenceKey(p) /\ \A x : At(z, x) = At(p, x)
  BY <1>21 DEF FenceKey, At
<1>23. \A j \in 1 .. n - 1 : /\ j <= r => j \in 1 .. n /\ m[j] = s[j] /\ At(z, m[j]) = key(j)
                             /\ j > r => j + 1 \in 1 .. n /\ m[j] = s[j + 1] /\ At(z, m[j]) = key(j + 1)
  <2> TAKE j \in 1 .. n - 1
  <2>1. j \in 1 .. n /\ j + 1 \in 1 .. n /\ (j > r => ~(j <= r))
    BY <1>18a, <1>19
  <2>2. m[j] = IF j <= r THEN s[j] ELSE s[j + 1]
    BY <1>20, Zenon
  <2> QED BY <1>22, <2>1, <2>2 DEF key
<1>24. Live(z) \subseteq Live(p)
  <2>1. DOMAIN m = 1 .. n - 1
    BY <1>20
  <2>2. Live(z) = {m[j] : j \in 1 .. n - 1} \union ({p.fence} \ {NoFence})
    BY <1>21, <2>1 DEF Live, Range
  <2>3. \A j \in 1 .. n - 1 : m[j] \in Live(p)
    <3> TAKE j \in 1 .. n - 1
    <3>1. j <= r \/ j > r
      BY <1>19
    <3> QED BY <1>1, <1>23, <3>1
  <2> QED BY <1>1, <2>2, <2>3
<1>25. z \in Pages
  BY <1>1, <1>18, <1>20 DEF Pages
<1>26. Geometry(kd, d + 1, z)
  <2>1. Offset(kd, z.top) /\ HeaderSize + 2 * Len(z.slots) <= z.top
    <3>1. HeaderSize + 2 * (n - 1) <= p.top
      BY <1>1, <1>8, <1>9
    <3> QED BY <1>9, <1>20, <1>21, <3>1
  <2>2. \A x \in Live(z) : /\ x \in DOMAIN z.heap /\ Offset(kd, x)
                           /\ z.top <= x /\ x + Padded(kd, At(z, x)) <= PageSize
    BY <1>9, <1>21, <1>22, <1>24
  <2>3. \A x, y \in Live(z) : x < y => x + Padded(kd, At(z, x)) <= y
    BY <1>9, <1>22, <1>24
  <2>4. PageSize <= z.top + (Len(z.slots) + 1 + (d + 1)) * MaxTuple
    <3>1. Len(z.slots) + 1 + (d + 1) = n + 1 + d
      BY <1>1, <1>20, <1>21, SMTT(30)
    <3> QED BY <1>9, <1>21, <3>1
  <2> QED BY <2>1, <2>2, <2>3, <2>4 DEF Geometry
<1>27. Ordered(z)
  <2>1. ASSUME NEW i \in 1 .. n - 1, NEW j \in 1 .. n - 1, i < j
        PROVE  At(z, m[i]) < At(z, m[j])
    <3>1. i <= r \/ i > r
      BY <1>19
    <3>2. j <= r \/ j > r
      BY <1>19
    <3>3. /\ i <= r => i \in 1 .. n /\ At(z, m[i]) = key(i)
          /\ i > r => i + 1 \in 1 .. n /\ At(z, m[i]) = key(i + 1)
          /\ j <= r => j \in 1 .. n /\ At(z, m[j]) = key(j)
          /\ j > r => j + 1 \in 1 .. n /\ At(z, m[j]) = key(j + 1)
      BY <1>23
    <3>4. i < j + 1 /\ i + 1 < j + 1 /\ (i > r => j > r)
      BY <1>19, <2>1
    <3> QED BY <1>10, <2>1, <3>1, <3>2, <3>3, <3>4
  <2>2. ASSUME p.fence # NoFence, NEW j \in 1 .. n - 1 PROVE At(z, m[j]) < FenceKey(z)
    <3>1. j <= r \/ j > r
      BY <1>19
    <3>2. \E i \in 1 .. n : At(z, m[j]) = key(i)
      BY <1>23, <3>1
    <3> QED BY <1>10, <1>22, <2>2, <3>2
  <2> QED BY <1>20, <1>21, <2>1, <2>2 DEF Ordered
<1>28. PageKeys(z) = PageKeys(p) \ {k}
  <2>1. DOMAIN m = 1 .. n - 1
    BY <1>20
  <2>2. PageKeys(z) = {At(z, m[j]) : j \in 1 .. n - 1}
    BY <1>21, <2>1 DEF PageKeys, At
  <2>3. ASSUME NEW j \in 1 .. n - 1 PROVE \E i \in 1 .. n : At(z, m[j]) = key(i) /\ i # r + 1
    <3>1. CASE j <= r
      <4>1. j \in 1 .. n /\ At(z, m[j]) = key(j) /\ j # r + 1
        BY <1>19, <1>23, <3>1
      <4> QED BY <4>1
    <3>2. CASE j > r
      <4>1. j + 1 \in 1 .. n /\ At(z, m[j]) = key(j + 1) /\ j + 1 # r + 1
        BY <1>19, <1>23, <3>2
      <4> QED BY <4>1
    <3> QED BY <1>19, <3>1, <3>2
  <2>4. ASSUME NEW i \in 1 .. n, i # r + 1 PROVE \E j \in 1 .. n - 1 : At(z, m[j]) = key(i)
    <3>1. CASE i <= r
      <4>1. i \in 1 .. n - 1
        BY <1>1, <1>19, <3>1
      <4> QED BY <1>23, <3>1, <4>1
    <3>2. CASE i > r
      <4>1. i - 1 \in 1 .. n - 1 /\ i - 1 > r /\ (i - 1) + 1 = i
        BY <1>18a, <1>19, <2>4, <3>2
      <4>2. At(z, m[i - 1]) = key(i)
        BY <1>23, <4>1
      <4> QED BY <4>1, <4>2
    <3> QED BY <1>19, <3>1, <3>2
  <2>5. \A i \in 1 .. n : key(i) = k <=> i = r + 1
    <3> TAKE i \in 1 .. n
    <3>1. r + 1 \in 1 .. n /\ (i = r + 1 \/ i < r + 1 \/ r + 1 < i)
      BY <1>1, <1>19, SMTT(30)
    <3>2. i # r + 1 => key(i) < key(r + 1) \/ key(r + 1) < key(i)
      BY <1>10, <3>1
    <3> QED BY <1>2, <1>3, <1>19, <3>1, <3>2
  <2>6. PageKeys(z) \subseteq PageKeys(p) \ {k}
    BY <1>1, <2>2, <2>3, <2>5
  <2>7. PageKeys(p) \ {k} \subseteq PageKeys(z)
    BY <1>1, <2>2, <2>4, <2>5
  <2> QED BY <2>6, <2>7
<1> QED BY <1>21, <1>22, <1>25, <1>26, <1>27, <1>28 DEF PageOK, z

(* Lemma: one delete more does not disturb a page. *)
LEMMA OneMoreDelete ==
  ASSUME Roomy, NEW kd \in Kinds, NEW d \in Nat, NEW p, PageOK(kd, d, p)
  PROVE  PageOK(kd, d + 1, p)
<1> DEFINE c == Len(p.slots) + 1 + d
           t == p.top
           w == 0
<1>0. Len(p.slots) \in Nat /\ t \in Nat
  BY PageFacts
<1>0a. MaxTuple \in Nat /\ PageSize \in Nat
  BY IndexPageAssumption DEF Roomy
<1>1. c \in Int /\ t \in Nat /\ MaxTuple \in Nat /\ PageSize \in Nat /\ w \in Nat /\ w <= MaxTuple
  BY <1>0, <1>0a
<1>2. PageSize <= t + c * MaxTuple
  BY DEF PageOK, Geometry
<1>3. t - w = t /\ c + 1 = Len(p.slots) + 1 + (d + 1)
  <2> DEFINE n == Len(p.slots)
  <2>1. n \in Nat /\ c = n + 1 + d
    BY <1>0
  <2>2. t - w = t
    BY <1>0
  <2> HIDE DEF n, c
  <2>3. c + 1 = n + 1 + (d + 1)
    BY <2>1
  <2> QED BY <2>2, <2>3 DEF n
<1> HIDE DEF c, w, t
<1>4. PageSize <= (t - w) + (c + 1) * MaxTuple
  BY <1>1, <1>2, OneMoreTuple
<1>5. PageSize <= t + (Len(p.slots) + 1 + (d + 1)) * MaxTuple
  BY <1>3, <1>4
<1> QED BY <1>5 DEF PageOK, Geometry, t

-----------------------------------------------------------------------------
(* Index pages: packed heaps.                                                *)

(* Lemma: the sum of n numbers that are not greater than m. *)
LEMMA SumsAtMost ==
  ASSUME NEW n \in Nat, NEW a \in Seq(Nat), Len(a) = n, NEW m \in Nat,
         \A i \in 1 .. n : a[i] <= m
  PROVE  \A i \in 0 .. n : PartialSums(a)[i] <= i * m
<1> DEFINE p == PartialSums(a)
           T == {i \in 0 .. n : p[i] <= i * m}
<1>1. /\ p[0] = 0 /\ (\A i \in 1 .. n : p[i] = p[i - 1] + a[i]) /\ \A i \in 0 .. n : p[i] \in Nat
  BY SumsClimb
<1>2. \A i \in 1 .. n : a[i] \in Nat
  OBVIOUS
<1> HIDE DEF p
<1>3. 0 \in T
  <2>1. p[0] <= 0 * m
    BY <1>1
  <2> QED BY <2>1
<1>4. ASSUME NEW i \in 1 .. n, i - 1 \in T PROVE i \in T
  <2>1. p[i - 1] <= (i - 1) * m /\ i - 1 \in 0 .. n /\ i \in 0 .. n
    BY <1>4
  <2>2. p[i] = p[i - 1] + a[i] /\ a[i] \in Nat /\ p[i - 1] \in Nat /\ a[i] <= m
    BY <1>1, <1>2, <2>1
  <2> DEFINE c == i - 1
             one == 1
  <2>3. c \in Int /\ one \in Int /\ c + one = i /\ one * m = m /\ p[i - 1] <= c * m
    BY <2>1
  <2> HIDE DEF c, one
  <2>4. (c + one) * m = c * m + one * m /\ c * m \in Int
    BY <2>3, Products
  <2>5. p[i] <= i * m
    <3> DEFINE x == c * m
               y == (c + one) * m
    <3>1. x \in Int /\ y = x + m /\ p[i - 1] <= x
      BY <2>3, <2>4
    <3>2. y = i * m
      BY <2>3
    <3> HIDE DEF x, y
    <3>3. p[i] <= y
      BY <2>2, <3>1
    <3> QED BY <3>2, <3>3
  <2> QED BY <2>1, <2>5
<1> HIDE DEF T
<1>5. \A i \in 0 .. n : i \in T
  BY <1>3, <1>4, StepByStep
<1> QED BY <1>5 DEF T, p

(* Lemma: the sum of multiples of an alignment. *)
LEMMA SumsMultiple ==
  ASSUME NEW n \in Nat, NEW a \in Seq(Nat), Len(a) = n, NEW m \in {2, 4},
         \A i \in 1 .. n : a[i] % m = 0
  PROVE  \A i \in 0 .. n : PartialSums(a)[i] % m = 0
<1> DEFINE p == PartialSums(a)
           T == {i \in 0 .. n : p[i] % m = 0}
<1>1. /\ p[0] = 0 /\ (\A i \in 1 .. n : p[i] = p[i - 1] + a[i]) /\ \A i \in 0 .. n : p[i] \in Nat
  BY SumsClimb
<1>2. \A i \in 1 .. n : a[i] \in Nat
  OBVIOUS
<1> HIDE DEF p
<1>3. 0 \in T
  <2>1. p[0] % m = 0
    BY <1>1
  <2> QED BY <2>1
<1>4. ASSUME NEW i \in 1 .. n, i - 1 \in T PROVE i \in T
  <2>1. p[i - 1] % m = 0 /\ i - 1 \in 0 .. n /\ i \in 0 .. n
    BY <1>4
  <2>2. p[i] = p[i - 1] + a[i] /\ a[i] \in Nat /\ p[i - 1] \in Nat /\ a[i] % m = 0
    BY <1>1, <1>2, <2>1
  <2> DEFINE u == p[i - 1]
             v == a[i]
  <2>3. u \in Nat /\ v \in Nat /\ u % m = 0 /\ v % m = 0 /\ p[i] = u + v
    BY <2>1, <2>2
  <2> HIDE DEF u, v
  <2>4. (u + v) % m = 0
    <3>1. CASE m = 2
      BY <2>3, <3>1
    <3>2. CASE m = 4
      BY <2>3, <3>2, SMTT(30)
    <3> QED BY <3>1, <3>2
  <2> QED BY <2>1, <2>3, <2>4
<1> HIDE DEF T
<1>5. \A i \in 0 .. n : i \in T
  BY <1>3, <1>4, StepByStep
<1> QED BY <1>5 DEF T, p

(* Lemma: offsets counted from the end of the page. *)
LEMMA FromTheEnd ==
  ASSUME Roomy, NEW kd \in Kinds, NEW x \in Nat, x <= PageSize, x % TupleAlign[kd] = 0
  PROVE  Offset(kd, PageSize - x)
<1> DEFINE a == TupleAlign[kd]
<1>1. PageSize \in Nat /\ PageSize % 4 = 0 /\ a \in {2, 4}
  BY IndexPageAssumption
<1>2. x % a = 0
  OBVIOUS
<1> HIDE DEF a
<1>3. (PageSize - x) % a = 0
  <2>1. CASE a = 2
    BY <1>1, <1>2, <2>1
  <2>2. CASE a = 4
    BY <1>1, <1>2, <2>2
  <2> QED BY <1>1, <2>1, <2>2
<1> QED BY <1>1, <1>3 DEF Offset, a

\* The sizes of the tuples of a list of keys.
Sizes(kd, ks) == [i \in 1 .. Len(ks) |-> Padded(kd, ks[i])]

(* Lemma: the sizes and their sums. *)
LEMMA SizesAre ==
  ASSUME Roomy, NEW kd \in Kinds, NEW ks \in Seq(AllKeys)
  PROVE  /\ Sizes(kd, ks) \in Seq(Nat) /\ Len(Sizes(kd, ks)) = Len(ks) /\ Len(ks) \in Nat
         /\ \A i \in 1 .. Len(ks) : Sizes(kd, ks)[i] = Padded(kd, ks[i]) /\ ks[i] \in AllKeys
         /\ \A i \in 0 .. Len(ks) : /\ PartialSums(Sizes(kd, ks))[i] \in Nat
                                    /\ PartialSums(Sizes(kd, ks))[i] % TupleAlign[kd] = 0
                                    /\ PartialSums(Sizes(kd, ks))[i] <= i * MaxTuple
         /\ PartialSums(Sizes(kd, ks))[0] = 0
         /\ \A i \in 1 .. Len(ks) : PartialSums(Sizes(kd, ks))[i]
                = PartialSums(Sizes(kd, ks))[i - 1] + Padded(kd, ks[i])
         /\ \A i, j \in 0 .. Len(ks) : i <= j =>
              PartialSums(Sizes(kd, ks))[i] <= PartialSums(Sizes(kd, ks))[j]
<1> DEFINE n == Len(ks)
           a == Sizes(kd, ks)
           m == TupleAlign[kd]
<1>1. n \in Nat /\ \A i \in 1 .. n : ks[i] \in AllKeys
  OBVIOUS
<1>2. \A i \in 1 .. n : Padded(kd, ks[i]) \in Nat /\ Padded(kd, ks[i]) <= MaxTuple /\ Padded(kd, ks[i]) % m = 0
  BY <1>1, PaddedIs
<1>3. a \in Seq(Nat) /\ Len(a) = n /\ \A i \in 1 .. n : a[i] = Padded(kd, ks[i])
  BY <1>1, <1>2 DEF Sizes
<1>4. m \in {2, 4} /\ MaxTuple \in Nat
  BY IndexPageAssumption DEF Roomy
<1>5. \A i \in 1 .. n : a[i] <= MaxTuple /\ a[i] % m = 0
  BY <1>2, <1>3
<1> HIDE DEF a, n, m
<1>6. /\ \A i \in 0 .. n : PartialSums(a)[i] \in Nat
      /\ PartialSums(a)[0] = 0
      /\ \A i \in 1 .. n : PartialSums(a)[i] = PartialSums(a)[i - 1] + a[i]
      /\ \A i, j \in 0 .. n : i <= j => PartialSums(a)[i] <= PartialSums(a)[j]
  BY <1>1, <1>3, SumsClimb
<1>7. \A i \in 0 .. n : PartialSums(a)[i] <= i * MaxTuple
  BY <1>1, <1>3, <1>4, <1>5, SumsAtMost
<1>8. \A i \in 0 .. n : PartialSums(a)[i] % m = 0
  BY <1>1, <1>3, <1>4, <1>5, SumsMultiple
<1>9. \A i \in 1 .. n : PartialSums(a)[i] = PartialSums(a)[i - 1] + Padded(kd, ks[i])
  BY <1>3, <1>6
<1> QED BY <1>1, <1>3, <1>6, <1>7, <1>8, <1>9 DEF a, n, m

(* Lemma: appends to an empty heap put one tuple below the other. *)
LEMMA TopsAre ==
  ASSUME Roomy, kind \in Kinds, NEW ks \in Seq(AllKeys),
         PartialSums(Sizes(kind, ks))[Len(ks)] <= PageSize
  PROVE  \A i \in 0 .. Len(ks) : /\ Tops(ks)[i] = PageSize - PartialSums(Sizes(kind, ks))[i]
                                 /\ Offset(kind, Tops(ks)[i])
<1> DEFINE n == Len(ks)
           P == PartialSums(Sizes(kind, ks))
           IsTop(g) == g = [i \in 0 .. n |->
                              IF i = 0 THEN PageSize ELSE CalculateHeapOffset(g[i - 1], Length(ks[i]))]
<1>1. /\ n \in Nat /\ \A i \in 1 .. n : ks[i] \in AllKeys
      /\ \A i \in 0 .. n : P[i] \in Nat /\ P[i] % TupleAlign[kind] = 0
      /\ P[0] = 0
      /\ \A i \in 1 .. n : P[i] = P[i - 1] + Padded(kind, ks[i])
      /\ \A i, j \in 0 .. n : i <= j => P[i] <= P[j]
  BY SizesAre
<1>2. PageSize \in Nat
  BY IndexPageAssumption
<1>2a. P[n] <= PageSize
  OBVIOUS
<1> HIDE DEF n, P
<1>3. \A i \in 0 .. n : P[i] <= PageSize /\ Offset(kind, PageSize - P[i])
  <2> TAKE i \in 0 .. n
  <2>1. n \in 0 .. n /\ i <= n
    BY <1>1
  <2>2. P[i] <= P[n] /\ P[i] \in Nat /\ P[n] \in Nat
    BY <1>1, <2>1
  <2>3. P[i] <= PageSize
    BY <1>2, <1>2a, <2>2
  <2> QED BY <1>1, <2>2, <2>3, FromTheEnd
<1>4. ASSUME NEW i \in 1 .. n
      PROVE  CalculateHeapOffset(PageSize - P[i - 1], Length(ks[i])) = PageSize - P[i]
  <2>1. i - 1 \in 0 .. n /\ i \in 0 .. n /\ ks[i] \in AllKeys
    BY <1>1
  <2>2. P[i] = P[i - 1] + Padded(kind, ks[i]) /\ P[i - 1] \in Nat /\ P[i] \in Nat /\ P[i] <= PageSize
    BY <1>1, <1>3, <2>1
  <2>3. Padded(kind, ks[i]) \in Nat
    BY <2>1, PaddedIs
  <2> DEFINE t == PageSize - P[i - 1]
  <2>4. Offset(kind, t)
    BY <1>3, <2>1
  <2>5. Padded(kind, ks[i]) <= t /\ t - Padded(kind, ks[i]) = PageSize - P[i]
    BY <1>2, <2>2, <2>3
  <2> HIDE DEF t
  <2>6. CalculateHeapOffset(t, Length(ks[i])) = t - Padded(kind, ks[i])
    BY <2>1, <2>4, <2>5, HeapOffsetIs
  <2> QED BY <2>5, <2>6 DEF t
<1> DEFINE g0 == [i \in 0 .. n |-> PageSize - P[i]]
<1>5. IsTop(g0)
  <2>1. \A i \in 0 .. n : g0[i] = IF i = 0 THEN PageSize ELSE CalculateHeapOffset(g0[i - 1], Length(ks[i]))
    <3> TAKE i \in 0 .. n
    <3>1. CASE i = 0
      <4>1. g0[0] = PageSize - P[0]
        BY <1>1
      <4> QED BY <1>1, <1>2, <3>1, <4>1
    <3>2. CASE i # 0
      <4>1. i \in 1 .. n /\ i - 1 \in 0 .. n
        <5>1. n \in Nat
          BY <1>1
        <5> QED BY <3>2, <5>1
      <4>2. g0[i] = PageSize - P[i] /\ g0[i - 1] = PageSize - P[i - 1]
        BY <4>1
      <4> HIDE DEF g0
      <4> QED BY <1>4, <3>2, <4>1, <4>2
    <3> QED BY <3>1, <3>2
  <2>2. g0 = [i \in 0 .. n |-> g0[i]]
    OBVIOUS
  <2> HIDE DEF g0
  <2> QED BY <2>1, <2>2
<1>6. IsTop(CHOOSE g : IsTop(g))
  <2> HIDE DEF g0, IsTop
  <2> QED BY <1>5
<1>7. Tops(ks) = CHOOSE g : IsTop(g)
  BY DEF Tops, n
<1> DEFINE h == Tops(ks)
<1>8. IsTop(h)
  BY <1>6, <1>7
<1>9. h[0] = PageSize /\ \A i \in 1 .. n : h[i] = CalculateHeapOffset(h[i - 1], Length(ks[i]))
  <2> HIDE DEF h
  <2>1. \A i \in 0 .. n : h[i] = IF i = 0 THEN PageSize ELSE CalculateHeapOffset(h[i - 1], Length(ks[i]))
    BY <1>8, Zenon
  <2>2. 0 \in 0 .. n /\ \A i \in 1 .. n : i \in 0 .. n /\ i # 0
    BY <1>1
  <2> QED BY <2>1, <2>2
<1> HIDE DEF h, IsTop
<1> DEFINE T == {i \in 0 .. n : h[i] = PageSize - P[i]}
<1>10. 0 \in T
  BY <1>1, <1>2, <1>9
<1>11. ASSUME NEW i \in 1 .. n, i - 1 \in T PROVE i \in T
  <2>1. h[i - 1] = PageSize - P[i - 1] /\ i \in 0 .. n
    BY <1>11
  <2> QED BY <1>4, <1>9, <2>1
<1> HIDE DEF T
<1>12. \A i \in 0 .. n : i \in T
  BY <1>1, <1>10, <1>11, StepByStep
<1>13. \A i \in 0 .. n : h[i] = PageSize - P[i]
  BY <1>12 DEF T
<1> QED BY <1>3, <1>13 DEF h, n, P

(* Lemma: the page AppendAll makes of keys that are sorted behind the fence. *)
LEMMA AppendAllIs ==
  ASSUME Roomy, kind \in Kinds, NEW d \in Nat, NEW ks \in Seq(AllKeys), NEW hf \in BOOLEAN,
         NEW f \in 0 .. 1, f = (IF hf THEN 1 ELSE 0), f <= Len(ks),
         HeaderSize + 2 * (Len(ks) - f) + PartialSums(Sizes(kind, ks))[Len(ks)] <= PageSize,
         \A i, j \in f + 1 .. Len(ks) : i < j => ks[i] < ks[j],
         hf => \A i \in f + 1 .. Len(ks) : ks[i] < ks[1]
  PROVE  /\ PageOK(kind, d, AppendAll(ks, hf))
         /\ PageKeys(AppendAll(ks, hf)) = {ks[i] : i \in f + 1 .. Len(ks)}
         /\ AppendAll(ks, hf).fence = NoFence <=> ~hf
         /\ hf => FenceKey(AppendAll(ks, hf)) = ks[1]
         /\ AppendAll(ks, hf).top = PageSize - PartialSums(Sizes(kind, ks))[Len(ks)]
         /\ Len(AppendAll(ks, hf).slots) = Len(ks) - f
<1> DEFINE n == Len(ks)
           P == PartialSums(Sizes(kind, ks))
           t == Tops(ks)
           w(i) == Padded(kind, ks[i])
           z == AppendAll(ks, hf)
<1>1. n \in Nat /\ f \in Nat /\ f <= n /\ HeaderSize \in Nat /\ PageSize \in Nat /\ PageSize < 65535
  BY IndexPageAssumption DEF U16
<1>2. \A i \in 1 .. n : ks[i] \in AllKeys
  OBVIOUS
<1>3. /\ \A i \in 0 .. n : P[i] \in Nat /\ P[i] <= i * MaxTuple
      /\ P[0] = 0
      /\ \A i \in 1 .. n : P[i] = P[i - 1] + w(i)
      /\ \A i, j \in 0 .. n : i <= j => P[i] <= P[j]
  BY SizesAre
<1>4. \A i \in 1 .. n : w(i) \in Nat /\ w(i) >= 1
  BY <1>2, PaddedIs
<1>5. HeaderSize + 2 * (n - f) + P[n] <= PageSize
  OBVIOUS
<1>6. P[n] <= PageSize /\ P[n] \in Nat
  <2>1. n \in 0 .. n
    BY <1>1
  <2>2. P[n] \in Nat
    BY <1>3, <2>1
  <2> HIDE DEF n, P
  <2> QED BY <1>1, <1>5, <2>2
<1>7. \A i \in 0 .. n : t[i] = PageSize - P[i] /\ Offset(kind, t[i])
  BY <1>6, TopsAre
<1>8. f = 1 <=> hf
  OBVIOUS
<1>9. /\ \A i, j \in f + 1 .. n : i < j => ks[i] < ks[j]
      /\ hf => \A i \in f + 1 .. n : ks[i] < ks[1]
  OBVIOUS
<1> DEFINE sl == [i \in 1 .. n - f |-> t[f + i]]
           H == {t[i] : i \in 1 .. n}
           h == [o \in H |-> ks[Max({i \in 1 .. n : t[i] = o})]]
<1>10. z = [slots |-> sl, heap |-> h, top |-> t[n], fence |-> IF hf THEN t[1] ELSE NoFence]
  BY DEF AppendAll
<1> HIDE DEF n, P, w, t, z
<1>11. \A i \in 1 .. n : /\ t[i] + w(i) = t[i - 1] /\ t[i] \in Nat /\ t[i] < 65535
                         /\ t[i - 1] \in Nat /\ t[i - 1] <= PageSize
  <2> TAKE i \in 1 .. n
  <2>1. i - 1 \in 0 .. n /\ i \in 0 .. n
    BY <1>1
  <2>2. t[i] = PageSize - P[i] /\ t[i - 1] = PageSize - P[i - 1] /\ t[i] \in Nat /\ t[i - 1] \in Nat
        /\ t[i] <= PageSize /\ t[i - 1] <= PageSize
    BY <1>7, <2>1 DEF Offset
  <2>3. P[i] = P[i - 1] + w(i) /\ P[i] \in Nat /\ P[i - 1] \in Nat /\ w(i) \in Nat
    BY <1>3, <1>4, <2>1
  <2> DEFINE u == t[i]
             v == t[i - 1]
             wi == w(i)
             a == P[i]
             b == P[i - 1]
  <2>4. /\ u = PageSize - a /\ v = PageSize - b /\ a = b + wi /\ a \in Nat /\ b \in Nat
        /\ wi \in Nat /\ u \in Nat /\ u <= PageSize
    BY <2>2, <2>3
  <2> HIDE DEF u, v, wi, a, b
  <2>5. u + wi = v /\ u < 65535
    BY <1>1, <2>4
  <2> QED BY <2>2, <2>5 DEF u, v, wi
<1>12. ASSUME NEW i \in 1 .. n, NEW j \in 1 .. n, i < j
       PROVE  t[j] + w(j) <= t[i] /\ t[j] < t[i]
  <2>1. i \in 0 .. n /\ j - 1 \in 0 .. n /\ i <= j - 1
    BY <1>1, <1>12
  <2>2. t[i] = PageSize - P[i] /\ t[j - 1] = PageSize - P[j - 1] /\ P[i] <= P[j - 1]
    BY <1>3, <1>7, <2>1
  <2>3. P[i] \in Nat /\ P[j - 1] \in Nat
    BY <1>3, <2>1
  <2>4. t[j - 1] <= t[i]
    BY <1>1, <2>2, <2>3
  <2> QED BY <1>4, <1>11, <2>4
<1>13. \A i, j \in 1 .. n : t[i] = t[j] => i = j
  <2> SUFFICES ASSUME NEW i \in 1 .. n, NEW j \in 1 .. n, t[i] = t[j], i # j PROVE FALSE
    OBVIOUS
  <2>1. i < j \/ j < i
    OBVIOUS
  <2>2. t[i] \in Nat /\ t[j] \in Nat
    BY <1>11
  <2> QED BY <1>12, <2>1, <2>2
<1>14. ASSUME NEW i \in 1 .. n PROVE t[i] \in H /\ h[t[i]] = ks[i]
  <2>1. {j \in 1 .. n : t[j] = t[i]} = {i}
    BY <1>13
  <2>2. Max({i}) = i
    BY DEF Max
  <2>3. t[i] \in H
    OBVIOUS
  <2>4. h[t[i]] = ks[Max({j \in 1 .. n : t[j] = t[i]})]
    BY <2>3
  <2> QED BY <2>1, <2>2, <2>3, <2>4
<1>15. h \in Heaps /\ DOMAIN h = H
  <2>1. H \in SUBSET Nat
    BY <1>11
  <2>2. \A o \in H : h[o] \in AllKeys
    <3> TAKE o \in H
    <3>1. PICK i \in 1 .. n : o = t[i]
      OBVIOUS
    <3> QED BY <1>2, <1>14, <3>1
  <2>3. h = [o \in H |-> h[o]]
    OBVIOUS
  <2> HIDE DEF h, H
  <2>4. h \in [H -> AllKeys]
    BY <2>2, <2>3
  <2> QED BY <2>1, <2>4, HeapIs
<1>16. /\ n - f \in Nat /\ sl \in Seq(Nat) /\ Len(sl) = n - f /\ DOMAIN sl = 1 .. n - f
       /\ \A i \in 1 .. n - f : f + i \in 1 .. n /\ f + i \in f + 1 .. n /\ sl[i] = t[f + i]
  <2>1. n - f \in Nat
    BY <1>1
  <2>2. \A i \in 1 .. n - f : f + i \in 1 .. n /\ f + i \in f + 1 .. n
    BY <1>1
  <2>3. \A i \in 1 .. n - f : t[f + i] \in Nat
    BY <1>11, <2>2
  <2> DEFINE c == n - f
  <2>4. c \in Nat /\ \A i \in 1 .. c : t[f + i] \in Nat
    BY <2>1, <2>3
  <2> HIDE DEF c
  <2>5. [i \in 1 .. c |-> t[f + i]] \in Seq(Nat) /\ Len([i \in 1 .. c |-> t[f + i]]) = c
    BY <2>4
  <2> QED BY <2>1, <2>2, <2>5 DEF c
<1>17. z.slots = sl /\ z.heap = h /\ z.top = t[n] /\ z.fence = IF hf THEN t[1] ELSE NoFence
  BY <1>10
<1> HIDE DEF sl, h, H
<1>18. hf => 1 \in 1 .. n /\ z.fence = t[1] /\ z.fence \in Nat /\ z.fence # NoFence
  <2> HAVE hf
  <2>1. 1 \in 1 .. n
    BY <1>1, <1>8
  <2> QED BY <1>11, <1>17, <2>1 DEF NoFence
<1>19. ~hf => z.fence = NoFence
  BY <1>17
<1>20. \A x \in Live(z) : \E i \in 1 .. n : x = t[i]
  <2>1. Live(z) = {sl[i] : i \in 1 .. n - f} \union ({z.fence} \ {NoFence})
    BY <1>16, <1>17 DEF Live, Range
  <2> QED BY <1>16, <1>18, <1>19, <2>1
<1>21. \A i \in 1 .. n : At(z, t[i]) = ks[i]
  BY <1>14, <1>17 DEF At
<1>22. t[n] = PageSize - P[n] /\ Offset(kind, t[n]) /\ t[n] \in Nat
  <2>1. n \in 0 .. n
    BY <1>1
  <2> QED BY <1>7, <2>1 DEF Offset
<1>23. z \in Pages
  <2>1. z.fence \in Nat
    BY <1>18, <1>19 DEF NoFence
  <2>2. z = [slots |-> z.slots, heap |-> z.heap, top |-> z.top, fence |-> z.fence]
    BY <1>10
  <2>3. z.slots \in Seq(Nat) /\ z.heap \in Heaps /\ z.top \in Nat
    BY <1>15, <1>16, <1>17, <1>22
  <2> QED BY <2>1, <2>2, <2>3 DEF Pages
<1>24. Geometry(kind, d, z)
  <2>1. Offset(kind, z.top) /\ HeaderSize + 2 * Len(z.slots) <= z.top
    <3>1. HeaderSize + 2 * (n - f) <= t[n]
      BY <1>1, <1>5, <1>6, <1>22
    <3> QED BY <1>16, <1>17, <1>22, <3>1
  <2>2. ASSUME NEW x \in Live(z)
        PROVE  /\ x \in DOMAIN z.heap /\ Offset(kind, x)
               /\ z.top <= x /\ x + Padded(kind, At(z, x)) <= PageSize
    <3>1. PICK i \in 1 .. n : x = t[i]
      BY <1>20
    <3>2. x \in DOMAIN z.heap
      BY <1>14, <1>15, <1>17, <3>1
    <3>3. Offset(kind, x)
      <4>1. i \in 0 .. n
        BY <1>1
      <4> QED BY <1>7, <3>1, <4>1
    <3>4. t[n] <= t[i]
      <4>1. CASE i = n
        BY <1>22, <4>1
      <4>2. CASE i # n
        <5>1. n \in 1 .. n /\ i < n
          BY <1>1, <4>2
        <5> QED BY <1>11, <1>12, <5>1
      <4> QED BY <4>1, <4>2
    <3>5. t[i] + w(i) <= PageSize
      BY <1>11
    <3> QED BY <1>17, <1>21, <3>1, <3>2, <3>3, <3>4, <3>5 DEF w
  <2>3. ASSUME NEW x \in Live(z), NEW y \in Live(z), x < y
        PROVE  x + Padded(kind, At(z, x)) <= y
    <3>1. PICK i \in 1 .. n : x = t[i]
      BY <1>20
    <3>2. PICK j \in 1 .. n : y = t[j]
      BY <1>20
    <3>3. j < i
      <4>1. t[i] \in Nat /\ t[j] \in Nat
        BY <1>11
      <4>2. i # j
        BY <2>3, <3>1, <3>2, <4>1
      <4>3. ~(i < j)
        BY <1>12, <2>3, <3>1, <3>2, <4>1
      <4> QED BY <4>2, <4>3
    <3>4. t[i] + w(i) <= t[j]
      BY <1>12, <3>3
    <3> QED BY <1>21, <3>1, <3>2, <3>4 DEF w
  <2>4. PageSize <= z.top + (Len(z.slots) + 1 + d) * MaxTuple
    <3> DEFINE c == Len(z.slots) + 1 + d
    <3>1. c \in Int /\ n \in Int /\ n <= c
      BY <1>1, <1>16, <1>17
    <3>2. MaxTuple \in Nat
      BY DEF Roomy
    <3> HIDE DEF c
    <3>3. n * MaxTuple <= c * MaxTuple /\ n * MaxTuple \in Int /\ c * MaxTuple \in Int
      BY <3>1, <3>2, Products
    <3>4. P[n] <= n * MaxTuple
      <4>1. n \in 0 .. n
        BY <1>1
      <4> QED BY <1>3, <4>1
    <3> DEFINE x == n * MaxTuple
               y == c * MaxTuple
    <3>5. x <= y /\ x \in Int /\ y \in Int /\ P[n] <= x
      BY <3>3, <3>4
    <3> HIDE DEF x, y
    <3>6. PageSize <= t[n] + y
      BY <1>1, <1>6, <1>22, <3>5
    <3> QED BY <1>17, <3>6 DEF c, y
  <2> QED BY <2>1, <2>2, <2>3, <2>4 DEF Geometry
<1>25. \A i \in 1 .. n - f : At(z, sl[i]) = ks[f + i] /\ f + i \in f + 1 .. n
  BY <1>16, <1>21
<1>26. hf => FenceKey(z) = ks[1]
  BY <1>18, <1>21 DEF FenceKey, At
<1>27. Ordered(z)
  <2>1. ASSUME NEW i \in 1 .. n - f, NEW j \in 1 .. n - f, i < j PROVE At(z, sl[i]) < At(z, sl[j])
    <3>1. f + i < f + j
      BY <1>1, <2>1
    <3> QED BY <1>9, <1>25, <3>1
  <2>2. ASSUME z.fence # NoFence, NEW i \in 1 .. n - f PROVE At(z, sl[i]) < FenceKey(z)
    <3>1. hf
      BY <1>19, <2>2
    <3> QED BY <1>9, <1>25, <1>26, <3>1
  <2> QED BY <1>16, <1>17, <2>1, <2>2 DEF Ordered
<1>28. PageKeys(z) = {ks[i] : i \in f + 1 .. n}
  <2>1. PageKeys(z) = {At(z, sl[i]) : i \in 1 .. n - f}
    BY <1>16, <1>17 DEF PageKeys, At
  <2>2. \A j \in f + 1 .. n : j - f \in 1 .. n - f /\ f + (j - f) = j
    BY <1>1
  <2>3. \A j \in f + 1 .. n : ks[j] = At(z, sl[j - f])
    <3> TAKE j \in f + 1 .. n
    <3>1. j - f \in 1 .. n - f /\ f + (j - f) = j
      BY <2>2
    <3>2. At(z, sl[j - f]) = ks[f + (j - f)]
      BY <1>25, <3>1
    <3> QED BY <3>1, <3>2
  <2> QED BY <1>25, <2>1, <2>2, <2>3
<1> QED BY <1>16, <1>17, <1>18, <1>19, <1>22, <1>23, <1>24, <1>26, <1>27, <1>28 DEF PageOK, z, n, P

-----------------------------------------------------------------------------
(* Index pages: what the tuples of a page take.                              *)

FirstKeys(p, c)    == [i \in 1 .. c |-> At(p, p.slots[i])]
FirstOffsets(p, c) == [i \in 1 .. c |-> p.slots[i]]

\* The sizes of the tuples of the first slots, added up.
Used(kd, p, i) == PartialSums(Sizes(kd, FirstKeys(p, Len(p.slots))))[i]

(* Lemma: the first slots' tuples do not overlap. *)
LEMMA FirstTuples ==
  ASSUME Roomy, NEW kd \in Kinds, NEW d, NEW p, PageOK(kd, d, p), NEW c \in 0 .. Len(p.slots)
  PROVE  /\ FirstKeys(p, c) \in Seq(AllKeys) /\ Len(FirstKeys(p, c)) = c
         /\ Len(FirstOffsets(p, c)) = c
         /\ \A i \in 1 .. c : /\ FirstOffsets(p, c)[i] = p.slots[i]
                              /\ Sizes(kd, FirstKeys(p, c))[i] = Padded(kd, At(p, p.slots[i]))
         /\ Tuples(FirstOffsets(p, c), Sizes(kd, FirstKeys(p, c)))
         /\ Apart(FirstOffsets(p, c), Sizes(kd, FirstKeys(p, c)), PageSize)
<1> DEFINE n == Len(p.slots)
           s == p.slots
           key(i) == At(p, s[i])
           ks == FirstKeys(p, c)
           os == FirstOffsets(p, c)
           ws == Sizes(kd, ks)
<1>1. n \in Nat /\ \A i \in 1 .. n : s[i] \in Live(p) /\ s[i] \in Nat /\ key(i) \in AllKeys
  BY PageFacts
<1>2. /\ \A x \in Live(p) : x + Padded(kd, At(p, x)) <= PageSize
      /\ \A x, y \in Live(p) : x < y => x + Padded(kd, At(p, x)) <= y
      /\ \A i, j \in 1 .. n : i < j => key(i) < key(j)
  BY DEF PageOK, Geometry, Ordered
<1>3. c \in Nat /\ c <= n /\ \A i \in 1 .. c : i \in 1 .. n
  BY <1>1
<1>4. ks \in Seq(AllKeys) /\ Len(ks) = c /\ \A i \in 1 .. c : ks[i] = key(i)
  BY <1>1, <1>3 DEF FirstKeys
<1>5. os \in Seq(Nat) /\ Len(os) = c /\ \A i \in 1 .. c : os[i] = s[i]
  BY <1>1, <1>3 DEF FirstOffsets
<1> HIDE DEF ks, os
<1>6. ws \in Seq(Nat) /\ Len(ws) = c /\ \A i \in 1 .. c : ws[i] = Padded(kd, key(i))
  <2>1. /\ ws \in Seq(Nat) /\ Len(ws) = Len(ks)
        /\ \A i \in 1 .. Len(ks) : ws[i] = Padded(kd, ks[i])
    BY <1>4, SizesAre
  <2> QED BY <1>4, <2>1
<1> HIDE DEF ws
<1>7. \A i \in 1 .. c : ws[i] >= 1
  <2> TAKE i \in 1 .. c
  <2>1. key(i) \in AllKeys
    BY <1>1, <1>3
  <2>2. 1 <= Padded(kd, key(i)) /\ Padded(kd, key(i)) \in Nat
    BY <2>1, PaddedIs
  <2> QED BY <1>6, <2>2
<1>8. Tuples(os, ws)
  BY <1>5, <1>6, <1>7 DEF Tuples
<1>9. Apart(os, ws, PageSize)
  <2>1. ASSUME NEW i \in 1 .. c PROVE os[i] + ws[i] <= PageSize
    BY <1>1, <1>2, <1>3, <1>5, <1>6
  <2>2. ASSUME NEW i \in 1 .. c, NEW j \in 1 .. c, os[i] < os[j] PROVE os[i] + ws[i] <= os[j]
    BY <1>1, <1>2, <1>3, <1>5, <1>6, <2>2
  <2>3. ASSUME NEW i \in 1 .. c, NEW j \in 1 .. c, os[i] = os[j] PROVE i = j
    <3>1. key(i) = key(j) /\ i \in 1 .. n /\ j \in 1 .. n
      BY <1>3, <1>5, <2>3
    <3>2. key(i) \in Nat
      BY <1>1, <3>1, PaddedIs
    <3>3. ~(i < j) /\ ~(j < i)
      BY <1>2, <3>1, <3>2
    <3> QED BY <3>3
  <2> QED BY <1>5, <2>1, <2>2, <2>3 DEF Apart
<1> QED BY <1>4, <1>5, <1>6, <1>8, <1>9 DEF ks, os, ws

(* Lemma: Used, and that it does not depend on the slots behind. *)
LEMMA UsedIs ==
  ASSUME Roomy, NEW kd \in Kinds, NEW d, NEW p, PageOK(kd, d, p)
  PROVE  /\ \A i \in 0 .. Len(p.slots) : Used(kd, p, i) \in Nat /\ Used(kd, p, i) <= i * MaxTuple
         /\ Used(kd, p, 0) = 0
         /\ \A i \in 1 .. Len(p.slots) :
              Used(kd, p, i) = Used(kd, p, i - 1) + Padded(kd, At(p, p.slots[i]))
         /\ \A i, j \in 0 .. Len(p.slots) : i <= j => Used(kd, p, i) <= Used(kd, p, j)
         /\ \A c \in 0 .. Len(p.slots) :
              PartialSums(Sizes(kd, FirstKeys(p, c)))[c] = Used(kd, p, c)
<1> DEFINE n == Len(p.slots)
           ks == FirstKeys(p, n)
           P == PartialSums(Sizes(kd, ks))
<1>1. n \in Nat /\ n \in 0 .. n
  BY PageFacts
<1>2. ks \in Seq(AllKeys) /\ Len(ks) = n /\ \A i \in 1 .. n : ks[i] = At(p, p.slots[i])
  <2>1. ks \in Seq(AllKeys) /\ Len(ks) = n
    BY <1>1, FirstTuples
  <2> QED BY <2>1 DEF FirstKeys
<1>3. \A i : Used(kd, p, i) = P[i]
  BY DEF Used
<1> HIDE DEF ks
<1>4. /\ \A i \in 0 .. Len(ks) : P[i] \in Nat /\ P[i] <= i * MaxTuple
      /\ P[0] = 0
      /\ \A i \in 1 .. Len(ks) : P[i] = P[i - 1] + Padded(kd, ks[i])
      /\ \A i, j \in 0 .. Len(ks) : i <= j => P[i] <= P[j]
      /\ Sizes(kd, ks) \in Seq(Nat) /\ Len(Sizes(kd, ks)) = Len(ks)
      /\ \A i \in 1 .. Len(ks) : Sizes(kd, ks)[i] = Padded(kd, ks[i])
  BY <1>2, SizesAre
<1>5. ASSUME NEW c \in 0 .. n PROVE PartialSums(Sizes(kd, FirstKeys(p, c)))[c] = P[c]
  <2> DEFINE a == Sizes(kd, FirstKeys(p, c))
             b == Sizes(kd, ks)
  <2>1. a \in Seq(Nat) /\ Len(a) = c /\ \A i \in 1 .. c : a[i] = Padded(kd, At(p, p.slots[i]))
    <3>1. /\ FirstKeys(p, c) \in Seq(AllKeys) /\ Len(FirstKeys(p, c)) = c
          /\ \A i \in 1 .. c : a[i] = Padded(kd, At(p, p.slots[i]))
      BY FirstTuples
    <3>2. a \in Seq(Nat) /\ Len(a) = Len(FirstKeys(p, c))
      BY <3>1, SizesAre
    <3> QED BY <3>1, <3>2
  <2>2. b \in Seq(Nat) /\ Len(b) = n /\ \A i \in 1 .. n : b[i] = Padded(kd, At(p, p.slots[i]))
    BY <1>2, <1>4
  <2>3. c \in Nat /\ c <= n /\ \A i \in 1 .. c : i \in 1 .. n
    BY <1>1
  <2> HIDE DEF a, b
  <2>4. (\A x \in 1 .. c : a[x] = b[x]) /\ c <= Len(a) /\ c <= Len(b)
    BY <2>1, <2>2, <2>3
  <2>12. PartialSums(a)[c] = PartialSums(b)[c]
    BY <2>1, <2>2, <2>3, <2>4, SumsPrefix
  <2> QED BY <2>12 DEF a, b
<1> HIDE DEF P
<1>6. \A i \in 0 .. n : P[i] \in Nat /\ P[i] <= i * MaxTuple
  BY <1>2, <1>4
<1>7. \A i \in 1 .. n : P[i] = P[i - 1] + Padded(kd, At(p, p.slots[i]))
  BY <1>2, <1>4
<1>8. \A i, j \in 0 .. n : i <= j => P[i] <= P[j]
  BY <1>2, <1>4
<1> QED BY <1>3, <1>4, <1>5, <1>6, <1>7, <1>8

(* Lemma: the tuples of the slots and the fence fit above the top of the heap. *)
LEMMA HeapUse ==
  ASSUME Roomy, NEW kd \in Kinds, NEW d, NEW p, PageOK(kd, d, p)
  PROVE  p.top + Used(kd, p, Len(p.slots))
           + (IF p.fence = NoFence THEN 0 ELSE Padded(kd, FenceKey(p))) <= PageSize
<1> DEFINE n == Len(p.slots)
           s == p.slots
           t == p.top
           e == PageSize
<1>1. /\ n \in Nat /\ n \in 0 .. n
      /\ \A i \in 1 .. n : s[i] \in Live(p) /\ s[i] \in Nat /\ At(p, s[i]) \in AllKeys
      /\ p.fence # NoFence => p.fence \in Live(p)
      /\ \A x \in Live(p) : At(p, x) \in AllKeys /\ x \in Nat
      /\ t \in Nat
  BY PageFacts
<1>2. /\ \A x \in Live(p) : x + Padded(kd, At(p, x)) <= e /\ t <= x
      /\ \A x, y \in Live(p) : x < y => x + Padded(kd, At(p, x)) <= y
      /\ t <= e
  BY DEF PageOK, Geometry, Offset
<1>3. e \in Nat
  BY IndexPageAssumption
<1> DEFINE ks == FirstKeys(p, n)
           os == FirstOffsets(p, n)
           ws == Sizes(kd, ks)
<1>4. /\ Tuples(os, ws) /\ Apart(os, ws, e) /\ Len(os) = n
      /\ \A i \in 1 .. n : os[i] = s[i] /\ ws[i] = Padded(kd, At(p, s[i]))
  BY <1>1, FirstTuples
<1>5. PartialSums(ws)[n] = Used(kd, p, n) /\ Used(kd, p, n) \in Nat
  BY <1>1, UsedIs DEF Used
<1>6. CASE p.fence = NoFence
  <2> HIDE DEF os, ws
  <2>1. \A i \in 1 .. Len(os) : os[i] >= t
    BY <1>1, <1>2, <1>4
  <2>2. Above(os, ws, t) = PartialSums(ws)[Len(os)]
    BY <1>1, <1>4, <2>1, AboveAll
  <2>3. t \in 0 .. e
    BY <1>1, <1>2, <1>3
  <2>4. Above(os, ws, t) <= e - t
    BY <1>3, <1>4, <2>3, Packing
  <2>5. Used(kd, p, n) <= e - t
    BY <1>4, <1>5, <2>2, <2>4
  <2> QED BY <1>1, <1>3, <1>5, <1>6, <2>5
<1>7. CASE p.fence # NoFence
  <2> DEFINE x == p.fence
             v == Padded(kd, FenceKey(p))
             m == n + 1
             o2 == [i \in 1 .. m |-> IF i <= n THEN s[i] ELSE x]
             w2 == [i \in 1 .. m |-> IF i <= n THEN ws[i] ELSE v]
  <2>1. x \in Live(p) /\ x \in Nat /\ At(p, x) = FenceKey(p)
    BY <1>1, <1>7 DEF FenceKey, At
  <2>2. v \in Nat /\ v >= 1 /\ v = Padded(kd, At(p, x))
    BY <1>1, <2>1, PaddedIs
  <2>3. ws \in Seq(Nat) /\ Len(ws) = n /\ \A i \in 1 .. n : ws[i] \in Nat /\ ws[i] >= 1
    <3>1. ws \in Seq(Nat) /\ Len(ws) = Len(os) /\ \A i \in 1 .. Len(os) : ws[i] >= 1
      BY <1>4 DEF Tuples
    <3> QED BY <1>4, <3>1
  <2>4. m \in Nat /\ m = n + 1 /\ (\A i \in 1 .. m : i <= n => i \in 1 .. n) /\ ~(m <= n) /\ m \in 1 .. m
    BY <1>1
  <2> HIDE DEF ws, x, v, m
  <2>5. /\ o2 \in Seq(Nat) /\ Len(o2) = m
        /\ \A i \in 1 .. m : o2[i] = IF i <= n THEN s[i] ELSE x
    <3>1. \A i \in 1 .. m : (IF i <= n THEN s[i] ELSE x) \in Nat
      BY <1>1, <2>1, <2>4
    <3> QED BY <2>4, <3>1
  <2>6. /\ w2 \in Seq(Nat) /\ Len(w2) = m
        /\ \A i \in 1 .. m : w2[i] = IF i <= n THEN ws[i] ELSE v
    <3>1. \A i \in 1 .. m : (IF i <= n THEN ws[i] ELSE v) \in Nat
      BY <2>2, <2>3, <2>4
    <3> QED BY <2>4, <3>1
  <2> HIDE DEF o2, w2
  <2>7. \A i \in 1 .. m : o2[i] \in Live(p) /\ w2[i] = Padded(kd, At(p, o2[i])) /\ w2[i] >= 1
    <3> TAKE i \in 1 .. m
    <3>1. CASE i <= n
      <4>1. i \in 1 .. n
        BY <2>4, <3>1
      <4>2. o2[i] = s[i] /\ w2[i] = ws[i]
        BY <2>5, <2>6, <3>1
      <4> QED BY <1>1, <1>4, <2>3, <4>1, <4>2
    <3>2. CASE ~(i <= n)
      <4>1. o2[i] = x /\ w2[i] = v
        BY <2>5, <2>6, <3>2
      <4> QED BY <2>1, <2>2, <4>1
    <3> QED BY <3>1, <3>2
  <2>8. Tuples(o2, w2)
    BY <2>5, <2>6, <2>7 DEF Tuples
  <2>9. Apart(o2, w2, e)
    <3>1. \A i \in 1 .. m : o2[i] + w2[i] <= e
      BY <1>2, <2>7
    <3>2. \A i, j \in 1 .. m : o2[i] < o2[j] => o2[i] + w2[i] <= o2[j]
      BY <1>2, <2>7
    <3>3. ASSUME NEW i \in 1 .. m, NEW j \in 1 .. m, o2[i] = o2[j] PROVE i = j
      <4>1. \A a \in 1 .. n : s[a] # x
        <5> TAKE a \in 1 .. n
        <5>1. At(p, s[a]) < At(p, x)
          BY <1>7, <2>1 DEF PageOK, Ordered
        <5>2. At(p, x) \in Nat
          BY <1>1, <2>1, PaddedIs
        <5> QED BY <5>1, <5>2
      <4>2. \A a, b \in 1 .. n : s[a] = s[b] => a = b
        BY <1>4 DEF Apart
      <4>3. o2[i] = (IF i <= n THEN s[i] ELSE x) /\ o2[j] = (IF j <= n THEN s[j] ELSE x)
        BY <2>5
      <4>4. CASE i <= n /\ j <= n
        BY <2>4, <3>3, <4>2, <4>3, <4>4
      <4>5. CASE ~(i <= n) /\ ~(j <= n)
        BY <1>1, <2>4, <4>5
      <4>6. CASE i <= n /\ ~(j <= n)
        BY <2>4, <3>3, <4>1, <4>3, <4>6
      <4>7. CASE ~(i <= n) /\ j <= n
        BY <2>4, <3>3, <4>1, <4>3, <4>7
      <4> QED BY <4>4, <4>5, <4>6, <4>7
    <3> QED BY <2>5, <3>1, <3>2, <3>3 DEF Apart
  <2>10. Above(o2, w2, t) <= e - t
    <3>1. t \in 0 .. e
      BY <1>1, <1>2, <1>3
    <3> QED BY <1>3, <2>8, <2>9, <3>1, Packing
  <2>11. Above(o2, w2, t) = PartialSums(w2)[m]
    <3>1. \A i \in 1 .. Len(o2) : o2[i] >= t
      BY <1>1, <1>2, <2>5, <2>7
    <3>2. Above(o2, w2, t) = PartialSums(w2)[Len(o2)]
      BY <1>1, <2>8, <3>1, AboveAll
    <3> QED BY <2>5, <3>2
  <2>12. PartialSums(w2)[m] = PartialSums(w2)[n] + v /\ PartialSums(w2)[n] \in Nat
    <3>1. /\ \A i \in 0 .. m : PartialSums(w2)[i] \in Nat
          /\ \A i \in 1 .. m : PartialSums(w2)[i] = PartialSums(w2)[i - 1] + w2[i]
      BY <2>4, <2>6, SumsClimb
    <3>2. w2[m] = v /\ m - 1 = n /\ n \in 0 .. m
      BY <1>1, <2>4, <2>6
    <3> QED BY <2>4, <3>1, <3>2
  <2>13. PartialSums(w2)[n] = PartialSums(ws)[n]
    <3>1. \A y \in 1 .. n : w2[y] = ws[y]
      <4> TAKE y \in 1 .. n
      <4>1. y \in 1 .. m /\ y <= n
        BY <1>1, <2>4
      <4> QED BY <2>6, <4>1
    <3>2. n <= Len(w2) /\ n <= Len(ws)
      BY <1>1, <2>3, <2>4, <2>6
    <3> QED BY <1>1, <2>3, <2>6, <3>1, <3>2, SumsPrefix
  <2>14. Used(kd, p, n) + v <= e - t
    BY <1>5, <2>10, <2>11, <2>12, <2>13
  <2>15. t + Used(kd, p, n) + v <= e
    BY <1>1, <1>3, <1>5, <2>2, <2>14
  <2> QED BY <1>7, <2>15 DEF v
<1> QED BY <1>6, <1>7

-----------------------------------------------------------------------------
(* Index pages: compaction.                                                  *)

(* Lemma: the least element of a set of numbers. *)
LEMMA MinIs ==
  ASSUME NEW S \in SUBSET Nat, S # {}
  PROVE  Min(S) \in S /\ \A y \in S : Min(S) <= y
<1>1. \E x \in S : \A y \in S : x <= y
  BY LeastNat
<1> QED BY <1>1 DEF Min

\* Where compaction puts the tuple at the offset o: below those above it.
NewOffset(kd, p, c, o) ==
  PageSize - Above(FirstOffsets(p, c), Sizes(kd, FirstKeys(p, c)), o)

(* Lemma: compacted tuples stay apart, none moves down. *)
LEMMA NewOffsets ==
  ASSUME Roomy, NEW kd \in Kinds, NEW d, NEW p, PageOK(kd, d, p), NEW c \in 1 .. Len(p.slots)
  PROVE  /\ \A o \in FirstSlots(p, c) :
              /\ o \in Live(p)
              /\ o <= NewOffset(kd, p, c, o) /\ Offset(kd, NewOffset(kd, p, c, o))
              /\ NewOffset(kd, p, c, o) + Padded(kd, At(p, o)) <= PageSize
              /\ PageSize - Used(kd, p, c) <= NewOffset(kd, p, c, o)
         /\ \A x, y \in FirstSlots(p, c) : x < y =>
              NewOffset(kd, p, c, x) + Padded(kd, At(p, x)) <= NewOffset(kd, p, c, y)
         /\ \A o \in FirstSlots(p, c) : (\A x \in FirstSlots(p, c) : x <= o) =>
              NewOffset(kd, p, c, o) = PageSize - Padded(kd, At(p, o))
         /\ \A o, m \in FirstSlots(p, c) : o < m /\ (\A x \in FirstSlots(p, c) : x > o => m <= x) =>
              NewOffset(kd, p, c, o) = NewOffset(kd, p, c, m) - Padded(kd, At(p, o))
         /\ \A o \in FirstSlots(p, c) : (\A x \in FirstSlots(p, c) : o <= x) =>
              NewOffset(kd, p, c, o) = PageSize - Used(kd, p, c)
<1> DEFINE n == Len(p.slots)
           s == p.slots
           os == FirstOffsets(p, c)
           ws == Sizes(kd, FirstKeys(p, c))
           F == FirstSlots(p, c)
           N(o) == NewOffset(kd, p, c, o)
           w(o) == Padded(kd, At(p, o))
           al == TupleAlign[kd]
<1>1. /\ n \in Nat /\ \A i \in 1 .. n : s[i] \in Live(p) /\ s[i] \in Nat
      /\ \A x \in Live(p) : At(p, x) \in AllKeys /\ x \in Nat /\ x <= PageSize
  BY PageFacts
<1>2. PageSize \in Nat
  BY IndexPageAssumption
<1>3. c \in 0 .. n /\ c \in Nat /\ c >= 1 /\ \A i \in 1 .. c : i \in 1 .. n
  BY <1>1
<1>4. /\ Tuples(os, ws) /\ Apart(os, ws, PageSize) /\ Len(os) = c
      /\ \A i \in 1 .. c : os[i] = s[i] /\ ws[i] = w(s[i])
  BY <1>3, FirstTuples
<1>5. F = {s[i] : i \in 1 .. c}
  BY DEF FirstSlots
<1>6. \A o \in F : o \in Live(p) /\ o \in Nat /\ o <= PageSize /\ w(o) \in Nat /\ w(o) >= 1
                   /\ w(o) % al = 0 /\ \E i \in 1 .. c : os[i] = o /\ ws[i] = w(o)
  <2> TAKE o \in F
  <2>1. PICK i \in 1 .. c : o = s[i]
    BY <1>5
  <2>2. i \in 1 .. n
    BY <1>3
  <2>3. o \in Live(p) /\ o \in Nat /\ o <= PageSize /\ At(p, o) \in AllKeys
    BY <1>1, <2>1, <2>2
  <2>4. w(o) \in Nat /\ w(o) >= 1 /\ w(o) % al = 0
    BY <2>3, PaddedIs
  <2>5. os[i] = o /\ ws[i] = w(o)
    BY <1>4, <2>1
  <2> QED BY <2>3, <2>4, <2>5
<1>6a. \A i \in 1 .. c : os[i] \in F
  BY <1>4, <1>5
<1>7. \A o : N(o) = PageSize - Above(os, ws, o)
  BY DEF NewOffset
<1>8. /\ \A i, j \in 1 .. c : os[i] = os[j] => i = j
      /\ \A x, y \in F : x < y => x + w(x) <= y
  <2>1. \A i, j \in 1 .. c : os[i] = os[j] => i = j
    BY <1>4 DEF Apart
  <2>2. \A x, y \in Live(p) : x < y => x + w(x) <= y
    BY DEF PageOK, Geometry
  <2> QED BY <1>6, <2>1, <2>2
<1>9. PartialSums(ws)[c] = Used(kd, p, c) /\ Used(kd, p, c) \in Nat
  BY <1>3, UsedIs
<1> HIDE DEF n, s, os, ws, F, N, w, al
<1>10. \A x \in Int : Above(os, ws, x) \in Int
  BY <1>4, CountedIs
<1>11. \A x \in Nat : Above(os, ws, x) \in Nat /\ Above(os, ws, x) % al = 0
  <2> TAKE x \in Nat
  <2> DEFINE a == Counted(os, ws, x)
  <2>1. /\ a \in Seq(Int) /\ Len(a) = Len(os)
        /\ \A i \in 1 .. Len(os) : a[i] = IF os[i] >= x THEN ws[i] ELSE 0
        /\ \A i \in 1 .. Len(os) : ws[i] \in Nat
    <3>1. x \in Int
      OBVIOUS
    <3>2. /\ a \in Seq(Int) /\ Len(a) = Len(os)
          /\ \A i \in 1 .. Len(os) : a[i] = IF os[i] >= x THEN ws[i] ELSE 0
          /\ \A i \in 1 .. Len(os) : os[i] \in Nat /\ ws[i] \in Nat /\ ws[i] >= 1
      BY <1>4, <3>1, CountedIs, SMTT(30)
    <3> QED BY <3>2, Zenon
  <2> HIDE DEF a
  <2>2. al \in {2, 4}
    BY IndexPageAssumption DEF al
  <2>3. \A i \in 1 .. c : a[i] \in Nat /\ a[i] % al = 0
    <3> TAKE i \in 1 .. c
    <3>1. a[i] = (IF os[i] >= x THEN ws[i] ELSE 0) /\ ws[i] \in Nat
      BY <1>4, <2>1
    <3>2. ws[i] % al = 0
      <4>1. os[i] \in F
        BY <1>6a
      <4>2. PICK j \in 1 .. c : os[j] = os[i] /\ ws[j] = w(os[i])
        BY <1>6, <4>1
      <4>3. j = i
        BY <1>8, <4>2
      <4> QED BY <1>6, <4>1, <4>2, <4>3
    <3>3. 0 % al = 0
      BY <2>2
    <3> QED BY <3>1, <3>2, <3>3
  <2>4. a \in Seq(Nat) /\ Len(a) = c
    <3>1. a \in Seq(Int) /\ Len(a) = c
      BY <1>4, <2>1
    <3> QED BY <2>3, <3>1
  <2>5. PartialSums(a)[c] \in Nat /\ PartialSums(a)[c] % al = 0
    <3>1. c \in 0 .. c
      BY <1>3
    <3>2. \A i \in 0 .. c : PartialSums(a)[i] \in Nat
      BY <1>3, <2>4, SumsClimb
    <3>3. \A i \in 0 .. c : PartialSums(a)[i] % al = 0
      BY <1>3, <2>2, <2>3, <2>4, SumsMultiple
    <3> QED BY <3>1, <3>2, <3>3
  <2>6. Above(os, ws, x) = PartialSums(a)[c]
    BY <1>4 DEF Above, a
  <2> QED BY <2>5, <2>6
<1>12. \A o \in F : Above(os, ws, o) <= PageSize - o
  <2> TAKE o \in F
  <2>1. o \in 0 .. PageSize
    BY <1>2, <1>6
  <2> QED BY <1>2, <1>4, <2>1, Packing
<1>13. \A o \in F : o <= N(o) /\ Offset(kd, N(o)) /\ N(o) \in Nat
  <2> TAKE o \in F
  <2> DEFINE a == Above(os, ws, o)
  <2>1. o \in Nat /\ a \in Nat /\ a % al = 0 /\ a <= PageSize - o /\ N(o) = PageSize - a
    BY <1>6, <1>7, <1>11, <1>12
  <2> HIDE DEF a
  <2>2. a <= PageSize /\ o <= N(o)
    BY <1>2, <2>1
  <2>3. Offset(kd, PageSize - a)
    BY <2>1, <2>2, FromTheEnd DEF al
  <2> QED BY <2>1, <2>2, <2>3 DEF Offset
<1>14. ASSUME NEW o \in F, NEW x \in Nat, o < x, \A y \in F : y > o => y >= x
       PROVE  Above(os, ws, o) = Above(os, ws, x) + w(o)
  <2>1. PICK j \in 1 .. c : os[j] = o /\ ws[j] = w(o)
    BY <1>6
  <2>2. \A i \in 1 .. c : i # j => (os[i] >= x <=> os[i] >= o)
    <3> TAKE i \in 1 .. c
    <3> HAVE i # j
    <3>1. os[i] \in F /\ os[i] # o
      BY <1>6a, <1>8, <2>1
    <3>2. os[i] \in Nat /\ o \in Nat
      BY <1>6, <3>1
    <3>3. os[i] > o => os[i] >= x
      BY <1>14, <3>1
    <3> QED BY <1>14, <3>1, <3>2, <3>3
  <2>3. j \in 1 .. Len(os) /\ os[j] < x /\ os[j] >= o /\ x \in Int /\ o \in Int
    BY <1>4, <1>6, <1>14, <2>1
  <2>4. \A i \in 1 .. Len(os) : i # j => (os[i] >= x <=> os[i] >= o)
    BY <1>4, <2>2
  <2>5. Above(os, ws, o) = Above(os, ws, x) + ws[j]
    BY <1>4, <2>3, <2>4, AboveOneMore
  <2> QED BY <2>1, <2>5
<1>15. ASSUME NEW x \in F, NEW y \in F, x < y PROVE N(x) + w(x) <= N(y)
  <2> DEFINE x1 == x + 1
  <2>1. x \in Nat /\ y \in Nat /\ x1 \in Nat /\ x < x1 /\ x1 <= y /\ \A v \in F : v > x => v >= x1
    BY <1>6, <1>15
  <2> HIDE DEF x1
  <2>2. Above(os, ws, x) = Above(os, ws, x1) + w(x)
    BY <1>14, <2>1
  <2>3. Above(os, ws, y) <= Above(os, ws, x1)
    BY <1>4, <2>1, AboveFewer
  <2> DEFINE a == Above(os, ws, x)
             b == Above(os, ws, y)
             b1 == Above(os, ws, x1)
  <2>4. a \in Nat /\ b \in Nat /\ b1 \in Nat /\ N(x) = PageSize - a /\ N(y) = PageSize - b /\ w(x) \in Nat
    BY <1>6, <1>7, <1>11, <2>1
  <2>5. a = b1 + w(x) /\ b <= b1
    BY <2>2, <2>3
  <2> HIDE DEF a, b, b1
  <2> QED BY <1>2, <2>4, <2>5
<1>16. ASSUME NEW o \in F, \A x \in F : x <= o PROVE N(o) = PageSize - w(o)
  <2> DEFINE x1 == o + 1
  <2>1. o \in Nat /\ x1 \in Nat /\ o < x1 /\ \A v \in F : v > o => v >= x1
    BY <1>6, <1>16
  <2>1a. \A v \in F : v < x1
    BY <1>6, <1>16
  <2> HIDE DEF x1
  <2>2. Above(os, ws, o) = Above(os, ws, x1) + w(o)
    BY <1>14, <2>1
  <2>3. Above(os, ws, x1) = 0
    <3>1. \A i \in 1 .. Len(os) : os[i] < x1
      BY <1>4, <1>6a, <2>1a
    <3> QED BY <1>4, <2>1, <3>1, AboveNone
  <2> QED BY <1>6, <1>7, <2>2, <2>3
<1>17. ASSUME NEW o \in F, NEW m \in F, o < m, \A x \in F : x > o => m <= x
       PROVE  N(o) = N(m) - w(o)
  <2>1. o \in Nat /\ m \in Nat /\ \A v \in F : v > o => v >= m
    BY <1>6, <1>17
  <2>2. Above(os, ws, o) = Above(os, ws, m) + w(o)
    BY <1>14, <1>17, <2>1
  <2> DEFINE a == Above(os, ws, o)
             b == Above(os, ws, m)
  <2>3. a \in Nat /\ b \in Nat /\ N(o) = PageSize - a /\ N(m) = PageSize - b /\ a = b + w(o) /\ w(o) \in Nat
    BY <1>6, <1>7, <1>11, <2>1, <2>2
  <2> HIDE DEF a, b
  <2> QED BY <1>2, <2>3
<1>18. ASSUME NEW o \in F PROVE PageSize - Used(kd, p, c) <= N(o)
  <2> DEFINE z == 0
  <2>1. z \in Int /\ z <= o /\ o \in Int /\ \A i \in 1 .. Len(os) : os[i] >= z
    <3>1. \A i \in 1 .. Len(os) : os[i] \in Nat
      BY <1>4, <1>6, <1>6a
    <3> QED BY <1>6, <3>1
  <2> HIDE DEF z
  <2>2. Above(os, ws, o) <= Above(os, ws, z)
    BY <1>4, <2>1, AboveFewer
  <2>3. Above(os, ws, z) = PartialSums(ws)[Len(os)]
    BY <1>4, <2>1, AboveAll
  <2>4. Above(os, ws, o) <= Used(kd, p, c) /\ Above(os, ws, o) \in Int /\ N(o) = PageSize - Above(os, ws, o)
    BY <1>4, <1>7, <1>9, <1>10, <2>1, <2>2, <2>3
  <2> QED BY <1>2, <1>9, <2>4
<1>19. ASSUME NEW o \in F, \A x \in F : o <= x PROVE N(o) = PageSize - Used(kd, p, c)
  <2>1. o \in Int /\ \A i \in 1 .. Len(os) : os[i] >= o
    BY <1>4, <1>6, <1>6a, <1>19
  <2>2. Above(os, ws, o) = PartialSums(ws)[Len(os)]
    BY <1>4, <2>1, AboveAll
  <2> QED BY <1>4, <1>7, <1>9, <2>2
<1>20. ASSUME NEW o \in F PROVE N(o) + w(o) <= PageSize
  <2> DEFINE x1 == o + 1
  <2>1. o \in Nat /\ x1 \in Nat /\ o < x1 /\ \A v \in F : v > o => v >= x1
    BY <1>6
  <2> HIDE DEF x1
  <2>2. Above(os, ws, o) = Above(os, ws, x1) + w(o)
    BY <1>14, <2>1
  <2> DEFINE a == Above(os, ws, o)
             b == Above(os, ws, x1)
  <2>3. a \in Nat /\ b \in Nat /\ N(o) = PageSize - a /\ a = b + w(o) /\ w(o) \in Nat
    BY <1>6, <1>7, <1>11, <2>1, <2>2
  <2> HIDE DEF a, b
  <2> QED BY <1>2, <2>3
<1> QED BY <1>6, <1>13, <1>15, <1>16, <1>17, <1>18, <1>19, <1>20 DEF F, N, w

(* Lemma: CompactHeap is NewOffset. *)
LEMMA CompactHeapIs ==
  ASSUME Roomy, kind \in Kinds, NEW d, NEW p, PageOK(kind, d, p), NEW c \in 1 .. Len(p.slots)
  PROVE  \A o \in FirstSlots(p, c) : CompactHeap(p, c)[o] = NewOffset(kind, p, c, o)
<1> DEFINE F == FirstSlots(p, c)
           N(o) == NewOffset(kind, p, c, o)
           w(o) == Padded(kind, At(p, o))
           up(o) == {x \in F : x > o}
           IsMoved(g) == g = [o \in F |-> CalculateHeapOffset(
                                IF up(o) = {} THEN PageSize ELSE g[Min(up(o))], Length(At(p, o)))]
<1>1. /\ \A o \in F : o \in Live(p) /\ o <= N(o) /\ Offset(kind, N(o)) /\ N(o) + w(o) <= PageSize
      /\ \A o \in F : (\A x \in F : x <= o) => N(o) = PageSize - w(o)
      /\ \A o, m \in F : o < m /\ (\A x \in F : x > o => m <= x) => N(o) = N(m) - w(o)
  BY NewOffsets
<1>2. /\ \A x \in Live(p) : At(p, x) \in AllKeys /\ x \in Nat /\ x <= PageSize
      /\ \A x, y \in Live(p) : x < y => x + w(x) <= y
      /\ \A x \in Live(p) : x + w(x) <= PageSize
  <2>1. \A x \in Live(p) : At(p, x) \in AllKeys /\ x \in Nat /\ x <= PageSize
    BY PageFacts
  <2> QED BY <2>1 DEF PageOK, Geometry
<1>3. PageSize \in Nat /\ Offset(kind, PageSize)
  <2>1. PageSize \in Nat /\ 0 \in Nat /\ 0 <= PageSize /\ PageSize - 0 = PageSize
    BY IndexPageAssumption
  <2>2. 0 % TupleAlign[kind] = 0
    BY IndexPageAssumption
  <2> DEFINE z == 0
  <2>3. z \in Nat /\ z <= PageSize /\ z % TupleAlign[kind] = 0 /\ PageSize - z = PageSize
    BY <2>1, <2>2
  <2> HIDE DEF z
  <2>4. Offset(kind, PageSize - z)
    BY <2>3, FromTheEnd
  <2> QED BY <2>1, <2>3, <2>4
<1>4. \A o \in F : o \in Nat /\ o <= PageSize /\ At(p, o) \in AllKeys /\ w(o) \in Nat /\ w(o) >= 1 /\ N(o) \in Nat
  <2> TAKE o \in F
  <2>1. o \in Live(p) /\ Offset(kind, N(o))
    BY <1>1
  <2>2. At(p, o) \in AllKeys /\ o \in Nat /\ o <= PageSize
    BY <1>2, <2>1
  <2> QED BY <2>1, <2>2, PaddedIs DEF Offset
<1> HIDE DEF F, N, w
<1>5. ASSUME NEW o \in F, NEW g, \A x \in F : x > o => g[x] = N(x)
      PROVE  CalculateHeapOffset(IF up(o) = {} THEN PageSize ELSE g[Min(up(o))], Length(At(p, o))) = N(o)
  <2>1. CASE up(o) = {}
    <3>1. \A x \in F : x <= o
      BY <1>4, <2>1
    <3>2. N(o) = PageSize - w(o)
      BY <1>1, <3>1
    <3>3. w(o) <= PageSize
      BY <1>3, <1>4, <3>2
    <3>4. CalculateHeapOffset(PageSize, Length(At(p, o))) = PageSize - w(o)
      BY <1>3, <1>4, <3>3, HeapOffsetIs DEF w
    <3> QED BY <2>1, <3>2, <3>4
  <2>2. CASE up(o) # {}
    <3> DEFINE m == Min(up(o))
               t == N(m)
    <3>1. up(o) \in SUBSET Nat
      BY <1>4
    <3>2. m \in up(o) /\ \A y \in up(o) : m <= y
      <4> HIDE DEF up
      <4> QED BY <2>2, <3>1, MinIs
    <3> HIDE DEF m
    <3>3. m \in F /\ o < m /\ \A x \in F : x > o => m <= x
      BY <1>4, <3>2
    <3>4. g[m] = t
      BY <1>5, <3>3, <1>4
    <3>5. N(o) = t - w(o)
      BY <1>1, <3>3
    <3>6. Offset(kind, t)
      BY <1>1, <3>3
    <3>7. w(o) <= t
      <4>1. o + w(o) <= m
        BY <1>1, <1>2, <3>3 DEF w
      <4>2. m <= t /\ o \in Nat /\ m \in Nat /\ t \in Nat /\ w(o) \in Nat
        BY <1>1, <1>4, <3>3
      <4> HIDE DEF t
      <4> QED BY <4>1, <4>2
    <3> HIDE DEF t
    <3>8. CalculateHeapOffset(t, Length(At(p, o))) = t - w(o)
      BY <1>4, <3>6, <3>7, HeapOffsetIs DEF w
    <3> QED BY <2>2, <3>4, <3>5, <3>8 DEF m
  <2> QED BY <2>1, <2>2
<1> HIDE DEF up
<1> DEFINE g0 == [o \in F |-> N(o)]
<1>6. IsMoved(g0)
  <2>1. \A x \in F : g0[x] = N(x)
    OBVIOUS
  <2>2. g0 = [o \in F |-> g0[o]]
    OBVIOUS
  <2> HIDE DEF g0
  <2>3. \A o \in F : g0[o] = CalculateHeapOffset(
                       IF up(o) = {} THEN PageSize ELSE g0[Min(up(o))], Length(At(p, o)))
    BY <1>5, <2>1
  <2> QED BY <2>2, <2>3
<1>7. IsMoved(CHOOSE g : IsMoved(g))
  <2> HIDE DEF g0, IsMoved
  <2> QED BY <1>6
<1>8. CompactHeap(p, c) = CHOOSE g : IsMoved(g)
  BY DEF CompactHeap, At, F, up
<1> DEFINE h == CompactHeap(p, c)
<1>9. IsMoved(h)
  BY <1>7, <1>8
<1> HIDE DEF h
<1>10. \A o \in F : h[o] = CalculateHeapOffset(
                       IF up(o) = {} THEN PageSize ELSE h[Min(up(o))], Length(At(p, o)))
  BY <1>9, Zenon
<1> HIDE DEF IsMoved
<1> DEFINE T == {e \in 0 .. PageSize : \A o \in F : o >= PageSize - e => h[o] = N(o)}
<1>11. 0 \in T
  <2>1. \A o \in F : ~(o >= PageSize - 0)
    <3> TAKE o \in F
    <3>1. o + w(o) <= PageSize
      BY <1>1, <1>2 DEF w
    <3> QED BY <1>3, <1>4, <3>1
  <2> QED BY <1>3, <2>1
<1>12. ASSUME NEW e \in 1 .. PageSize, e - 1 \in T PROVE e \in T
  <2>1. e \in 0 .. PageSize /\ e \in Nat
    BY <1>3
  <2>2. \A x \in F : x >= PageSize - (e - 1) => h[x] = N(x)
    BY <1>12
  <2>3. ASSUME NEW o \in F, o >= PageSize - e PROVE h[o] = N(o)
    <3>1. \A x \in F : x > o => h[x] = N(x)
      <4> TAKE x \in F
      <4> HAVE x > o
      <4>1. x >= PageSize - (e - 1)
        BY <1>3, <1>4, <2>1, <2>3
      <4> QED BY <2>2, <4>1
    <3>2. CalculateHeapOffset(IF up(o) = {} THEN PageSize ELSE h[Min(up(o))], Length(At(p, o))) = N(o)
      BY <1>5, <3>1
    <3> QED BY <1>10, <3>2
  <2> QED BY <2>1, <2>3
<1> HIDE DEF T
<1>13. \A e \in 0 .. PageSize : e \in T
  BY <1>3, <1>11, <1>12, StepByStep
<1>14. \A o \in F : h[o] = N(o)
  <2> TAKE o \in F
  <2>1. PageSize - o \in 0 .. PageSize /\ o >= PageSize - (PageSize - o)
    BY <1>3, <1>4
  <2>2. PageSize - o \in T
    BY <1>13, <2>1
  <2> QED BY <2>1, <2>2 DEF T
<1> QED BY <1>14 DEF F, N, h

(* Lemma: the left half of a split. *)
LEMMA KeepHalfLeftIs ==
  ASSUME Roomy, kind \in Kinds, NEW d \in Nat, NEW p, PageOK(kind, d, p),
         NEW c \in 1 .. Len(p.slots) - 1
  PROVE  /\ PageOK(kind, d, KeepHalfLeft(p, c))
         /\ Len(KeepHalfLeft(p, c).slots) = c
         /\ \A i \in 1 .. c : p.slots[i] <= KeepHalfLeft(p, c).slots[i]
         /\ KeepHalfLeft(p, c).top = PageSize - Used(kind, p, c + 1)
         /\ PageKeys(KeepHalfLeft(p, c)) = {At(p, p.slots[i]) : i \in 1 .. c}
         /\ KeepHalfLeft(p, c).fence # NoFence
         /\ FenceKey(KeepHalfLeft(p, c)) = At(p, p.slots[c + 1])
<1> DEFINE n == Len(p.slots)
           s == p.slots
           key(i) == At(p, s[i])
           F == FirstSlots(p, c)
           N(o) == NewOffset(kind, p, c, o)
           w(o) == Padded(kind, At(p, o))
           mv == CompactHeap(p, c)
           U(i) == Used(kind, p, i)
           k == key(c + 1)
           v == Padded(kind, k)
           t1 == PageSize - U(c)
           o2 == PageSize - U(c + 1)
           z == KeepHalfLeft(p, c)
<1>1. /\ n \in Nat /\ \A i \in 1 .. n : s[i] \in Live(p) /\ s[i] \in Nat /\ key(i) \in AllKeys
      /\ p.top \in Nat
  BY PageFacts
<1>2. /\ PageSize \in Nat /\ HeaderSize \in Nat /\ PageSize < 65535
  BY IndexPageAssumption DEF U16
<1>3. /\ c \in Nat /\ c >= 1 /\ c \in 1 .. n /\ c \in 0 .. n /\ c + 1 \in 1 .. n /\ c + 1 \in 0 .. n
      /\ \A i \in 1 .. c : i \in 1 .. n
  BY <1>1
<1>4. /\ \A o \in F : /\ o \in Live(p) /\ o <= N(o) /\ Offset(kind, N(o)) /\ N(o) + w(o) <= PageSize
                      /\ PageSize - U(c) <= N(o)
      /\ \A x, y \in F : x < y => N(x) + w(x) <= N(y)
      /\ \A o \in F : (\A x \in F : o <= x) => N(o) = PageSize - U(c)
  BY <1>3, NewOffsets
<1>5. \A o \in F : mv[o] = N(o)
  BY <1>3, CompactHeapIs
<1>6. F = {s[i] : i \in 1 .. c}
  BY DEF FirstSlots
<1>7. \A o \in F : o \in Nat /\ N(o) \in Nat /\ N(o) <= PageSize /\ At(p, o) \in AllKeys /\ w(o) \in Nat /\ w(o) >= 1
  <2> TAKE o \in F
  <2>1. o \in Live(p) /\ Offset(kind, N(o))
    BY <1>4
  <2>2. At(p, o) \in AllKeys /\ o \in Nat
    BY <2>1, PageFacts
  <2> QED BY <2>1, <2>2, PaddedIs DEF Offset
<1>8. /\ U(c) \in Nat /\ U(c + 1) \in Nat /\ U(c + 1) = U(c) + v /\ U(c + 1) <= (c + 1) * MaxTuple
      /\ U(c + 1) <= U(n) /\ U(n) \in Nat
  <2>1. c + 1 <= n /\ n \in 0 .. n /\ (c + 1) - 1 = c
    BY <1>1, <1>3
  <2>2. U(c + 1) = U((c + 1) - 1) + v
    BY <1>3, UsedIs
  <2>3. /\ \A i \in 0 .. n : U(i) \in Nat /\ U(i) <= i * MaxTuple
        /\ \A i, j \in 0 .. n : i <= j => U(i) <= U(j)
    BY UsedIs
  <2> QED BY <1>3, <2>1, <2>2, <2>3
<1>9. p.top + U(n) <= PageSize
  <2>1. p.top + U(n) + (IF p.fence = NoFence THEN 0 ELSE Padded(kind, FenceKey(p))) <= PageSize
    BY HeapUse
  <2>2. (IF p.fence = NoFence THEN 0 ELSE Padded(kind, FenceKey(p))) \in Nat
    <3>1. p.fence # NoFence => FenceKey(p) \in AllKeys
      BY PageFacts DEF FenceKey, At
    <3> QED BY <3>1, PaddedIs
  <2> DEFINE q == IF p.fence = NoFence THEN 0 ELSE Padded(kind, FenceKey(p))
             u == U(n)
  <2>3. q \in Nat /\ u \in Nat /\ p.top + u + q <= PageSize
    BY <1>8, <2>1, <2>2
  <2> HIDE DEF q, u
  <2>4. p.top + u <= PageSize
    BY <1>1, <1>2, <2>3
  <2> QED BY <2>4 DEF u
<1>10. k \in AllKeys /\ v \in Nat /\ v >= 1 /\ v <= MaxTuple
  <2>1. k \in AllKeys
    BY <1>1, <1>3
  <2> HIDE DEF k
  <2> QED BY <2>1, PaddedIs
<1>11. HeaderSize + 2 * n <= p.top
  BY DEF PageOK, Geometry
<1>12. \A i, j \in 1 .. n : i < j => key(i) < key(j)
  BY DEF PageOK, Ordered
<1>12a. KeyAt(p, c) = k
  BY DEF KeyAt, At
<1> DEFINE sl == [i \in 1 .. c |-> mv[s[i]]]
           D1 == {mv[x] : x \in F}
           h1 == [o \in D1 |-> At(p, CHOOSE x \in F : mv[x] = o)]
           packed == [slots |-> sl, heap |-> h1, top |-> mv[Min(F)], fence |-> NoFence]
<1>13. z = [slots |-> AppendHeap(packed, k).slots, heap |-> AppendHeap(packed, k).heap,
            top |-> AppendHeap(packed, k).top, fence |-> AppendHeap(packed, k).top]
  BY <1>12a DEF KeepHalfLeft, At
<1> HIDE DEF n, s, key, F, N, w, mv, U, k, v, z
<1>14. F \in SUBSET Nat /\ F # {}
  BY <1>3, <1>6, <1>7
<1>15. mv[Min(F)] = t1
  <2>1. Min(F) \in F /\ \A y \in F : Min(F) <= y
    BY <1>14, MinIs
  <2> QED BY <1>4, <1>5, <2>1
<1>16. /\ t1 \in Nat /\ o2 \in Nat /\ t1 - v = o2 /\ p.top <= o2 /\ v <= t1 /\ t1 <= PageSize
       /\ o2 < t1
  <2> DEFINE u0 == U(c)
             u1 == U(c + 1)
             u2 == U(n)
  <2>1. /\ u0 \in Nat /\ u1 \in Nat /\ u2 \in Nat /\ u1 = u0 + v /\ u1 <= u2
        /\ p.top + u2 <= PageSize /\ t1 = PageSize - u0 /\ o2 = PageSize - u1
    BY <1>8, <1>9
  <2> HIDE DEF u0, u1, u2, t1, o2
  <2> QED BY <1>1, <1>2, <1>10, <2>1
<1>17. Offset(kind, t1)
  <2>1. PICK m \in F : \A y \in F : m <= y
    BY <1>14, LeastNat
  <2> QED BY <1>4, <2>1
<1>18. CalculateHeapOffset(t1, Length(k)) = o2 /\ Offset(kind, o2)
  <2>1. CalculateHeapOffset(t1, Length(k)) = t1 - v /\ Offset(kind, t1 - v)
    <3> HIDE DEF t1
    <3> QED BY <1>10, <1>16, <1>17, HeapOffsetIs DEF v
  <2> QED BY <1>16, <2>1
<1> HIDE DEF t1, o2
<1> DEFINE h == [x \in D1 \union {o2} |-> IF x = o2 THEN k ELSE h1[x]]
<1>19. AppendHeap(packed, k) = [slots |-> sl, heap |-> h, top |-> o2, fence |-> NoFence]
  BY <1>15, <1>18 DEF AppendHeap
<1>20. z = [slots |-> sl, heap |-> h, top |-> o2, fence |-> o2]
  <2> DEFINE a == AppendHeap(packed, k)
  <2>1. a.slots = sl /\ a.heap = h /\ a.top = o2
    <3> HIDE DEF packed, sl, h
    <3> QED BY <1>19
  <2>2. z = [slots |-> a.slots, heap |-> a.heap, top |-> a.top, fence |-> a.top]
    BY <1>13
  <2> HIDE DEF a, sl, h
  <2> QED BY <2>1, <2>2
<1>21. z.slots = sl /\ z.heap = h /\ z.top = o2 /\ z.fence = o2
  BY <1>20
<1>22. \A x, y \in F : N(x) = N(y) => x = y
  <2> SUFFICES ASSUME NEW x \in F, NEW y \in F, N(x) = N(y), x # y PROVE FALSE
    OBVIOUS
  <2>1. x < y \/ y < x
    BY <1>7
  <2>2. N(x) + w(x) <= N(y) \/ N(y) + w(y) <= N(x)
    BY <1>4, <2>1
  <2> QED BY <1>7, <2>2
<1>23. ASSUME NEW x \in F PROVE N(x) \in D1 /\ h1[N(x)] = At(p, x) /\ t1 <= N(x) /\ N(x) # o2
  <2>1. N(x) \in D1
    BY <1>5
  <2>2. (CHOOSE y \in F : mv[y] = N(x)) = x
    BY <1>5, <1>22
  <2>3. t1 <= N(x)
    BY <1>4 DEF t1
  <2>4. N(x) # o2
    BY <1>7, <1>16, <2>3
  <2> QED BY <2>1, <2>2, <2>3, <2>4
<1>24. D1 = {N(x) : x \in F}
  BY <1>5
<1>25. DOMAIN h = D1 \union {o2} /\ h[o2] = k /\ \A x \in F : h[N(x)] = At(p, x)
  <2>1. DOMAIN h = D1 \union {o2} /\ h[o2] = k
    OBVIOUS
  <2>2. ASSUME NEW x \in F PROVE h[N(x)] = At(p, x)
    BY <1>23
  <2> QED BY <2>1, <2>2
<1>26. h \in Heaps
  <2> DEFINE D == D1 \union {o2}
  <2>1. D \in SUBSET Nat
    BY <1>7, <1>16, <1>24
  <2>2. \A o \in D : h[o] \in AllKeys
    <3> TAKE o \in D
    <3>1. CASE o = o2
      BY <1>10, <1>25, <3>1
    <3>2. CASE o # o2
      <4>1. PICK x \in F : o = N(x)
        BY <1>24, <3>2
      <4> QED BY <1>7, <1>25, <4>1
    <3> QED BY <3>1, <3>2
  <2>3. h = [o \in D |-> h[o]]
    OBVIOUS
  <2> HIDE DEF h, D
  <2>4. h \in [D -> AllKeys]
    BY <2>2, <2>3
  <2> QED BY <2>1, <2>4, HeapIs
<1>27. \A i \in 1 .. c : s[i] \in F /\ sl[i] = N(s[i]) /\ N(s[i]) \in Nat
  BY <1>5, <1>6, <1>7
<1>28. sl \in Seq(Nat) /\ Len(sl) = c /\ DOMAIN sl = 1 .. c
  <2>1. sl = [i \in 1 .. c |-> N(s[i])]
    BY <1>5, <1>6
  <2>2. \A i \in 1 .. c : N(s[i]) \in Nat
    BY <1>27
  <2> QED BY <1>3, <2>1, <2>2
<1> HIDE DEF sl, h, D1, h1, packed
<1>29. o2 # NoFence
  BY <1>2, <1>16 DEF NoFence
<1>30. Live(z) = {N(x) : x \in F} \union {o2}
  <2>1. Live(z) = {sl[i] : i \in 1 .. c} \union {o2}
    BY <1>21, <1>28, <1>29 DEF Live, Range
  <2>2. {sl[i] : i \in 1 .. c} = {N(x) : x \in F}
    BY <1>6, <1>27
  <2> QED BY <2>1, <2>2
<1>31. At(z, o2) = k /\ \A x \in F : At(z, N(x)) = At(p, x)
  BY <1>21, <1>25 DEF At
<1>32. z \in Pages
  <2>1. z.slots \in Seq(Nat) /\ z.heap \in Heaps /\ z.top \in Nat /\ z.fence \in Nat
    BY <1>16, <1>21, <1>26, <1>28
  <2>2. z = [slots |-> z.slots, heap |-> z.heap, top |-> z.top, fence |-> z.fence]
    BY <1>20
  <2> QED BY <2>1, <2>2 DEF Pages
<1>33. Geometry(kind, d, z)
  <2>1. Offset(kind, z.top) /\ HeaderSize + 2 * Len(z.slots) <= z.top
    <3>1. HeaderSize + 2 * c <= o2
      BY <1>1, <1>2, <1>3, <1>11, <1>16
    <3> QED BY <1>18, <1>21, <1>28, <3>1
  <2>2. ASSUME NEW x \in Live(z)
        PROVE  /\ x \in DOMAIN z.heap /\ Offset(kind, x)
               /\ z.top <= x /\ x + Padded(kind, At(z, x)) <= PageSize
    <3>1. CASE x = o2
      <4>1. o2 + v <= PageSize
        BY <1>2, <1>10, <1>16
      <4> QED BY <1>16, <1>18, <1>21, <1>25, <1>31, <3>1, <4>1 DEF v
    <3>2. CASE x # o2
      <4>1. PICK y \in F : x = N(y)
        BY <1>30, <3>2
      <4>2. Offset(kind, x) /\ x + w(y) <= PageSize
        BY <1>4, <4>1
      <4>3. z.top <= x
        BY <1>7, <1>16, <1>21, <1>23, <4>1
      <4>4. x \in DOMAIN z.heap
        BY <1>21, <1>23, <1>25, <4>1
      <4>5. w(y) = Padded(kind, At(z, x))
        BY <1>31, <4>1 DEF w
      <4> QED BY <4>2, <4>3, <4>4, <4>5
    <3> QED BY <3>1, <3>2
  <2>3. ASSUME NEW x \in Live(z), NEW y \in Live(z), x < y
        PROVE  x + Padded(kind, At(z, x)) <= y
    <3>1. CASE y = o2
      <4>1. o2 <= x /\ x \in Nat
        BY <1>7, <1>16, <1>23, <1>30
      <4> QED BY <1>16, <2>3, <3>1, <4>1
    <3>2. CASE y # o2
      <4>1. PICK b \in F : y = N(b)
        BY <1>30, <3>2
      <4>2. CASE x = o2
        <5>1. o2 + v = t1
          BY <1>10, <1>16
        <5>2. t1 <= y
          BY <1>23, <4>1
        <5> QED BY <1>31, <4>2, <5>1, <5>2 DEF v
      <4>3. CASE x # o2
        <5>1. PICK a \in F : x = N(a)
          BY <1>30, <4>3
        <5>2. a < b
          <6>1. a # b
            BY <1>7, <2>3, <4>1, <5>1
          <6>2. ~(b < a)
            <7>1. b < a => N(b) + w(b) <= N(a)
              BY <1>4
            <7> QED BY <1>7, <2>3, <4>1, <5>1, <7>1
          <6> QED BY <1>7, <6>1, <6>2
        <5>3. N(a) + w(a) <= N(b)
          BY <1>4, <5>2
        <5> QED BY <1>31, <4>1, <5>1, <5>3 DEF w
      <4> QED BY <4>2, <4>3
    <3> QED BY <3>1, <3>2
  <2>4. PageSize <= z.top + (Len(z.slots) + 1 + d) * MaxTuple
    <3> DEFINE e == c + 1 + d
               c1 == c + 1
    <3>1. e \in Int /\ c1 \in Int /\ c1 <= e
      BY <1>3
    <3>2. MaxTuple \in Nat
      BY DEF Roomy
    <3>3. U(c + 1) <= c1 * MaxTuple
      BY <1>8
    <3> HIDE DEF e, c1
    <3>4. c1 * MaxTuple <= e * MaxTuple /\ c1 * MaxTuple \in Int /\ e * MaxTuple \in Int
      BY <3>1, <3>2, Products
    <3> DEFINE a == c1 * MaxTuple
               b == e * MaxTuple
               u == U(c + 1)
    <3>5. a <= b /\ a \in Int /\ b \in Int /\ u <= a /\ u \in Nat /\ o2 = PageSize - u
      BY <1>8, <3>3, <3>4 DEF o2
    <3> HIDE DEF a, b, u
    <3>6. PageSize <= o2 + b
      BY <1>2, <3>5
    <3> QED BY <1>21, <1>28, <3>6 DEF b, e
  <2> QED BY <2>1, <2>2, <2>3, <2>4 DEF Geometry
<1>34. \A i \in 1 .. c : At(z, sl[i]) = key(i)
  BY <1>27, <1>31 DEF key
<1>35. FenceKey(z) = k
  BY <1>21, <1>31 DEF FenceKey, At
<1>36. Ordered(z)
  <2>1. \A i, j \in 1 .. c : i < j => At(z, sl[i]) < At(z, sl[j])
    BY <1>3, <1>12, <1>34
  <2>2. \A i \in 1 .. c : At(z, sl[i]) < FenceKey(z)
    <3> TAKE i \in 1 .. c
    <3>1. i \in 1 .. n /\ i < c + 1
      BY <1>3
    <3>2. key(i) < k
      BY <1>3, <1>12, <3>1 DEF k
    <3> QED BY <1>34, <1>35, <3>2
  <2> QED BY <1>21, <1>28, <2>1, <2>2 DEF Ordered
<1>37. PageKeys(z) = {key(i) : i \in 1 .. c}
  <2>1. PageKeys(z) = {At(z, sl[i]) : i \in 1 .. c}
    BY <1>21, <1>28 DEF PageKeys, At
  <2> QED BY <1>34, <2>1
<1>38. \A i \in 1 .. c : s[i] <= sl[i]
  BY <1>4, <1>27
<1> QED BY <1>21, <1>28, <1>29, <1>32, <1>33, <1>35, <1>36, <1>37, <1>38
        DEF PageOK, z, s, key, U, k, o2

-----------------------------------------------------------------------------
(* Index pages: splits.                                                      *)

(* Lemma: FindSplitPoint leaves tuples on both sides, and of a page with many  *)
(* tuples as many bytes that either half has room for one more.              *)
LEMMA FindSplitPointIs ==
  ASSUME Roomy, NEW kd \in Kinds, NEW d, NEW p, PageOK(kd, d, p), Len(p.slots) >= 2
  PROVE  /\ FindSplitPoint(p) \in 1 .. Len(p.slots) - 1
         /\ FullCount < Len(p.slots) =>
              /\ MaxTuple <= Used(kd, p, FindSplitPoint(p))
              /\ Used(kd, p, FindSplitPoint(p) + 1) + MaxTuple <= Used(kd, p, Len(p.slots))
<1> DEFINE n == Len(p.slots)
           s == p.slots
           key(i) == At(p, s[i])
           a == [i \in 1 .. n |-> Length(KeyAt(p, i - 1))]
           b == Sizes(kd, FirstKeys(p, n))
           B == PartialSums(a)
           U == PartialSums(b)
           m == MaxTuple
<1>1. n \in Nat /\ \A i \in 1 .. n : key(i) \in AllKeys
  BY PageFacts
<1>2. \A i, j \in 1 .. n : i < j => key(i) < key(j)
  BY DEF PageOK, Ordered
<1>3. FullCount \in Nat /\ m \in Nat /\ MinLength \in Nat /\ 6 * m <= FullCount * MinLength
  BY DEF Roomy
<1>4. \A i \in 1 .. n : /\ key(i) \in Nat /\ Length(key(i)) \in Nat /\ Padded(kd, key(i)) \in Nat
                        /\ Length(key(i)) <= Padded(kd, key(i)) /\ Padded(kd, key(i)) <= m
                        /\ 1 <= Padded(kd, key(i))
                        /\ (key(i) # Empty => MinLength <= Length(key(i)))
  BY <1>1, PaddedIs
<1>5. \A i : KeyAt(p, i - 1) = p.heap[s[(i - 1) + 1]]
  BY DEF KeyAt
<1>6. \A i \in 1 .. n : a[i] = Length(key(i))
  <2> TAKE i \in 1 .. n
  <2>1. (i - 1) + 1 = i
    OBVIOUS
  <2>2. KeyAt(p, i - 1) = key(i)
    BY <1>5, <2>1 DEF At
  <2> QED BY <2>2
<1>7. /\ b \in Seq(Nat) /\ Len(b) = n /\ \A i \in 1 .. n : b[i] = Padded(kd, key(i))
  <2>1. n \in 0 .. n
    BY <1>1
  <2>2. /\ FirstKeys(p, n) \in Seq(AllKeys) /\ Len(FirstKeys(p, n)) = n
        /\ \A i \in 1 .. n : b[i] = Padded(kd, key(i))
    BY <2>1, FirstTuples
  <2>3. b \in Seq(Nat) /\ Len(b) = Len(FirstKeys(p, n))
    BY <2>2, SizesAre
  <2> QED BY <2>2, <2>3
<1>8. a \in Seq(Nat) /\ Len(a) = n
  <2>1. a = [i \in 1 .. n |-> Length(key(i))]
    BY <1>6
  <2>2. \A i \in 1 .. n : Length(key(i)) \in Nat
    BY <1>4
  <2>3. n \in Nat
    BY <1>1
  <2> DEFINE l(i) == Length(key(i))
  <2> HIDE DEF n, l
  <2>4. [i \in 1 .. n |-> l(i)] \in Seq(Nat) /\ Len([i \in 1 .. n |-> l(i)]) = n
    BY <2>2, <2>3 DEF l
  <2> QED BY <2>1, <2>4 DEF l
<1>9. FindSplitPoint(p) = Min({Min({i \in 1 .. n : B[i] >= B[n] \div 2}), n - 1})
  BY DEF FindSplitPoint, Count
<1>10. \A i : Used(kd, p, i) = U[i]
  BY DEF Used
<1> HIDE DEF n, s, key, a, b, m
<1>11. \A i \in 2 .. n : MinLength <= a[i]
  <2> TAKE i \in 2 .. n
  <2>1. i \in 1 .. n /\ 1 \in 1 .. n /\ 1 < i
    BY <1>1
  <2>2. key(1) < key(i) /\ key(1) \in Nat /\ key(i) \in Nat
    BY <1>2, <1>4, <2>1
  <2>3. key(i) # Empty
    BY <2>2 DEF Empty
  <2> QED BY <1>4, <1>6, <2>1, <2>3
<1>12. (n - 1) * MinLength <= B[n]
  BY <1>1, <1>3, <1>8, <1>11, SumsAtLeast
<1>13. /\ B[0] = 0 /\ (\A i \in 1 .. n : B[i] = B[i - 1] + a[i]) /\ \A i \in 0 .. n : B[i] \in Nat
       /\ \A i, j \in 0 .. n : i <= j => B[i] <= B[j]
  BY <1>1, <1>8, SumsClimb
<1>14. /\ U[0] = 0 /\ \A i \in 0 .. n : U[i] \in Nat
  BY <1>1, <1>7, SumsClimb
<1>15. \A i, j \in 0 .. n : i <= j => B[j] - B[i] <= U[j] - U[i]
  <2>1. \A i \in 1 .. n : a[i] <= b[i]
    BY <1>4, <1>6, <1>7
  <2>2. a \in Seq(Int) /\ b \in Seq(Int)
    BY <1>7, <1>8
  <2> QED BY <1>1, <1>7, <1>8, <2>1, <2>2, SumsDrift
<1> HIDE DEF B, U
<1>18. n >= 2
  BY DEF n
<1>16. 1 <= m /\ 1 <= n
  <2>1. 1 <= n
    BY <1>1, <1>18
  <2>2. 1 \in 1 .. n
    BY <1>1, <2>1
  <2>3. 1 <= Padded(kd, key(1)) /\ Padded(kd, key(1)) <= m /\ Padded(kd, key(1)) \in Nat
    BY <1>4, <2>2
  <2> QED BY <1>3, <2>1, <2>3
<1>17. (FullCount < n => 6 * m <= B[n]) /\ B[n] \in Nat
  <2>0. B[n] \in Nat
    <3>1. n \in 0 .. n
      BY <1>1
    <3> QED BY <1>13, <3>1
  <2> SUFFICES ASSUME FullCount < n PROVE 6 * m <= B[n]
    BY <2>0
  <2> DEFINE e == n - 1
             x == FullCount * MinLength
             y == (n - 1) * MinLength
  <2>1. FullCount \in Int /\ e \in Int /\ FullCount <= e
    BY <1>1, <1>3
  <2>2. FullCount * MinLength <= e * MinLength /\ FullCount * MinLength \in Int /\ e * MinLength \in Int
    <3> HIDE DEF e
    <3> QED BY <1>3, <2>1, Products
  <2>3. x <= y /\ x \in Int /\ y \in Int /\ 6 * m <= x /\ y <= B[n]
    BY <1>3, <1>12, <2>2
  <2> HIDE DEF x, y
  <2> QED BY <1>3, <2>0, <2>3
<1> DEFINE t == B[n]
           h == t \div 2
           H == {i \in 1 .. n : B[i] >= h}
<1>19. t \in Nat /\ h \in Nat /\ 2 * h <= t /\ t <= 2 * h + 1 /\ (FullCount < n => 6 * m <= t)
  BY <1>17
<1>20. n \in H /\ H \in SUBSET Nat
  <2>1. n \in 1 .. n
    BY <1>1, <1>16
  <2> HIDE DEF h
  <2> QED BY <1>19, <2>1
<1> DEFINE c == Min(H)
<1>21. c \in H /\ \A y \in H : c <= y
  <2> HIDE DEF H
  <2> QED BY <1>20, MinIs
<1>22. c \in 1 .. n /\ B[c] >= h /\ B[c] \in Nat
  <2>1. c \in 1 .. n /\ B[c] >= h
    BY <1>21
  <2>2. c \in 0 .. n
    BY <1>1, <2>1
  <2> QED BY <1>13, <2>1, <2>2
<1>23. (B[c - 1] < h /\ B[c - 1] \in Nat) \/ c = 1
  <2> SUFFICES ASSUME c # 1 PROVE B[c - 1] < h /\ B[c - 1] \in Nat
    OBVIOUS
  <2> HIDE DEF c
  <2>1. c - 1 \in 1 .. n /\ c - 1 \in 0 .. n /\ ~(c <= c - 1)
    BY <1>1, <1>22
  <2>2. c - 1 \notin H
    BY <1>21, <2>1
  <2>3. B[c - 1] \in Nat
    BY <1>13, <2>1
  <2> HIDE DEF h
  <2> QED BY <1>19, <2>1, <2>2, <2>3
<1> HIDE DEF c, H, h, t
<1>24. \A i \in 1 .. n : /\ i - 1 \in 0 .. n /\ B[i - 1] \in Nat /\ B[i] \in Nat
                         /\ B[i] <= B[i - 1] + m
  <2> TAKE i \in 1 .. n
  <2>1. i - 1 \in 0 .. n /\ i \in 0 .. n
    BY <1>1
  <2>2. a[i] <= m /\ a[i] \in Nat
    <3>1. a[i] = Length(key(i)) /\ Length(key(i)) \in Nat /\ Length(key(i)) <= Padded(kd, key(i))
          /\ Padded(kd, key(i)) <= m /\ Padded(kd, key(i)) \in Nat
      BY <1>4, <1>6
    <3> QED BY <1>3, <3>1
  <2>3. B[i] = B[i - 1] + a[i] /\ B[i - 1] \in Nat /\ B[i] \in Nat
    BY <1>13, <2>1
  <2> QED BY <1>3, <2>1, <2>2, <2>3
<1>25. B[c] <= h + m
  <2>1. B[c] <= B[c - 1] + m /\ B[c - 1] \in Nat
    BY <1>22, <1>24
  <2>2. CASE c = 1
    <3>1. B[c - 1] = 0
      BY <1>13, <2>2
    <3> QED BY <1>3, <1>19, <1>22, <2>1, <3>1
  <2>3. CASE c # 1
    <3>1. B[c - 1] < h
      BY <1>23, <2>3
    <3> QED BY <1>3, <1>19, <1>22, <2>1, <3>1
  <2> QED BY <2>2, <2>3
<1>26. c - 1 \in 0 .. n /\ n \in 0 .. n /\ 0 \in 0 .. n /\ c \in Nat /\ 1 <= c /\ c <= n
  BY <1>1, <1>16, <1>22
<1>27. FindSplitPoint(p) = (IF c = n THEN n - 1 ELSE c) /\ FindSplitPoint(p) \in 1 .. n - 1
  <2> DEFINE Z == {c, n - 1}
  <2>1. Z \in SUBSET Nat /\ Z # {}
    BY <1>1, <1>18, <1>26
  <2>2. FindSplitPoint(p) = Min(Z)
    BY <1>9 DEF c, H, h, t
  <2>3. Min(Z) \in Z /\ \A y \in Z : Min(Z) <= y
    <3> HIDE DEF Z
    <3> QED BY <2>1, MinIs
  <2>4. Min(Z) = c \/ Min(Z) = n - 1
    BY <2>3
  <2>5. Min(Z) <= c /\ Min(Z) <= n - 1
    BY <2>3
  <2> HIDE DEF Z
  <2> QED BY <1>1, <1>18, <1>26, <2>2, <2>4, <2>5
<1>28. ASSUME FullCount < n PROVE m <= U[FindSplitPoint(p)] /\ U[FindSplitPoint(p) + 1] + m <= U[n]
  <2>1. c # n
    <3> SUFFICES ASSUME c = n PROVE FALSE
      OBVIOUS
    <3>1. t <= h + m
      BY <1>25 DEF t
    <3> QED BY <1>3, <1>16, <1>19, <1>28, <3>1
  <2>2. c + 1 \in 1 .. n /\ c \in 0 .. n /\ c + 1 \in 0 .. n /\ (c + 1) - 1 = c /\ c + 1 <= n
        /\ n \in 0 .. n /\ 0 \in 0 .. n /\ 0 <= c
    BY <1>1, <1>26, <2>1
  <2>3. m <= U[c]
    <3>1. B[c] - B[0] <= U[c] - U[0] /\ U[c] \in Nat
      BY <1>14, <1>15, <2>2
    <3>2. B[c] <= U[c]
      BY <1>13, <1>14, <1>22, <3>1
    <3> QED BY <1>3, <1>19, <1>22, <1>28, <3>1, <3>2
  <2>4. U[c + 1] + m <= U[n]
    <3> DEFINE b1 == B[c + 1]
               u1 == U[c + 1]
               u2 == U[n]
               b0 == B[c]
    <3>1. t - b1 <= u2 - u1 /\ u1 \in Nat /\ u2 \in Nat
      BY <1>14, <1>15, <2>2 DEF t
    <3>2. b1 <= b0 + m /\ b1 \in Nat /\ b0 \in Nat /\ b0 <= h + m
      BY <1>24, <1>25, <2>2
    <3> HIDE DEF b1, u1, u2, b0
    <3>3. u1 + m <= u2
      BY <1>3, <1>19, <1>28, <3>1, <3>2
    <3> QED BY <3>3 DEF u1, u2
  <2> QED BY <1>27, <2>1, <2>3, <2>4
<1> QED BY <1>10, <1>27, <1>28 DEF n, m

(* Lemma: the right half of a split. *)
LEMMA CopyHalfRightIs ==
  ASSUME Roomy, kind \in Kinds, NEW d \in Nat, NEW p, PageOK(kind, d, p),
         NEW c \in 1 .. Len(p.slots) - 1
  PROVE  /\ PageOK(kind, d, CopyHalfRight(p, c)) /\ PageOK(kind, 0, CopyHalfRight(p, c))
         /\ Len(CopyHalfRight(p, c).slots) = Len(p.slots) - c
         /\ p.top + Used(kind, p, c) <= CopyHalfRight(p, c).top
         /\ PageKeys(CopyHalfRight(p, c)) = {At(p, p.slots[i]) : i \in c + 1 .. Len(p.slots)}
         /\ CopyHalfRight(p, c).fence = NoFence <=> p.fence = NoFence
         /\ p.fence # NoFence => FenceKey(CopyHalfRight(p, c)) = FenceKey(p)
<1> DEFINE n == Len(p.slots)
           s == p.slots
           key(i) == At(p, s[i])
           f == IF p.fence = NoFence THEN 0 ELSE 1
           hf == (f = 1)
           ln == f + n - c
           ks == [i \in 1 .. ln |-> IF i <= f THEN p.heap[p.fence] ELSE KeyAt(p, c + i - f - 1)]
           fk == FenceKey(p)
           q == IF p.fence = NoFence THEN 0 ELSE Padded(kind, FenceKey(p))
           U(i) == Used(kind, p, i)
           z == CopyHalfRight(p, c)
<1>1. /\ n \in Nat /\ p.top \in Nat /\ \A i \in 1 .. n : key(i) \in AllKeys
  BY PageFacts
<1>2. p.fence # NoFence => fk \in AllKeys
  BY PageFacts DEF FenceKey, At
<1>3. /\ \A i, j \in 1 .. n : i < j => key(i) < key(j)
      /\ p.fence # NoFence => \A i \in 1 .. n : key(i) < fk
      /\ HeaderSize + 2 * n <= p.top
  BY DEF PageOK, Ordered, Geometry
<1>4. PageSize \in Nat /\ HeaderSize \in Nat
  BY IndexPageAssumption
<1>5. /\ f \in 0 .. 1 /\ f \in Nat /\ hf \in BOOLEAN /\ f = (IF hf THEN 1 ELSE 0) /\ (hf <=> p.fence # NoFence)
  OBVIOUS
<1>6. z = AppendAll(ks, hf)
  BY DEF CopyHalfRight, Count
<1>7. p.top + U(n) + q <= PageSize
  BY HeapUse
<1>8. /\ \A i \in 0 .. n : U(i) \in Nat
      /\ \A i, j \in 0 .. n : i <= j => U(i) <= U(j)
  BY UsedIs
<1>9. q \in Nat /\ (p.fence # NoFence => q = Padded(kind, fk)) /\ (p.fence = NoFence => q = 0)
  BY <1>2, PaddedIs
<1>9a. c \in Nat /\ c >= 1 /\ c < n
  BY <1>1
<1> HIDE DEF n
<1>9b. ln \in Nat /\ f <= ln /\ ln - f = n - c /\ f + (n - c) = ln
  BY <1>1, <1>5, <1>9a
<1>10. \A i \in f + 1 .. ln : c + i - f \in c + 1 .. n /\ KeyAt(p, c + i - f - 1) = key(c + i - f)
  <2> TAKE i \in f + 1 .. ln
  <2>1. c + i - f \in c + 1 .. n /\ (c + i - f - 1) + 1 = c + i - f
    <3>1. f \in Nat /\ n \in Nat /\ c \in Nat /\ c < n
      BY <1>1, <1>5, <1>9a
    <3> HIDE DEF f
    <3>2. i \in f + 1 .. f + n - c
      OBVIOUS
    <3> HIDE DEF ln
    <3> QED BY <3>1, <3>2
  <2>2. KeyAt(p, c + i - f - 1) = p.heap[s[(c + i - f - 1) + 1]]
    BY DEF KeyAt
  <2> QED BY <2>1, <2>2 DEF At
<1> HIDE DEF s, key, U, z, fk, q
<1>11. \A i \in f + 1 .. ln : ks[i] = key(c + i - f) /\ c + i - f \in 1 .. n
  <2> TAKE i \in f + 1 .. ln
  <2>1. i \in 1 .. ln /\ ~(i <= f)
    <3> HIDE DEF f
    <3> QED BY <1>5, <1>9b
  <2>2. ks[i] = KeyAt(p, c + i - f - 1)
    <3> HIDE DEF f, ln
    <3> QED BY <2>1
  <2>3. c + i - f \in 1 .. n
    <3>1. c + i - f \in c + 1 .. n
      BY <1>10
    <3> HIDE DEF f, ln
    <3> QED BY <1>9a, <1>1, <3>1
  <2> QED BY <1>10, <2>2, <2>3
<1>12. hf => f = 1 /\ ks[1] = fk /\ 1 \in 1 .. ln
  <2> SUFFICES ASSUME hf PROVE f = 1 /\ ks[1] = fk /\ 1 \in 1 .. ln
    OBVIOUS
  <2>1. f = 1
    OBVIOUS
  <2> HIDE DEF f
  <2>2. 1 \in 1 .. ln /\ 1 <= f
    BY <1>9b, <2>1
  <2> QED BY <2>1, <2>2 DEF fk, FenceKey
<1> DEFINE D == 1 .. ln
<1>13. \A i \in D : ks[i] \in AllKeys
  <2> TAKE i \in D
  <2>1. CASE i \in f + 1 .. ln
    BY <1>1, <1>11, <2>1
  <2>2. CASE i \notin f + 1 .. ln
    <3>1. hf /\ i = 1
      <4> HIDE DEF ks
      <4> QED BY <1>5, <1>9b, <2>2
    <3> QED BY <1>2, <1>5, <1>12, <3>1
  <2> QED BY <2>1, <2>2
<1>14. ks = [i \in D |-> ks[i]]
  OBVIOUS
<1> HIDE DEF f, hf, ln, ks
<1>15. ks \in Seq(AllKeys) /\ Len(ks) = ln
  <2>1. ln \in Nat
    BY <1>9b
  <2>2. ks \in [D -> AllKeys]
    <3> HIDE DEF D
    <3> QED BY <1>13, <1>14
  <2> QED BY <2>1, <2>2
<1> HIDE DEF D
<1> DEFINE P == PartialSums(Sizes(kind, ks))
           a == Sizes(kind, ks)
           b == Sizes(kind, FirstKeys(p, n))
<1>16. /\ a \in Seq(Nat) /\ Len(a) = ln /\ \A i \in 1 .. ln : a[i] = Padded(kind, ks[i])
       /\ P[0] = 0 /\ \A i \in 1 .. ln : P[i] = P[i - 1] + Padded(kind, ks[i])
       /\ \A i \in 0 .. ln : P[i] \in Nat
  <2>1. /\ a \in Seq(Nat) /\ Len(a) = Len(ks) /\ \A i \in 1 .. Len(ks) : a[i] = Padded(kind, ks[i])
        /\ P[0] = 0 /\ \A i \in 1 .. Len(ks) : P[i] = P[i - 1] + Padded(kind, ks[i])
        /\ \A i \in 0 .. Len(ks) : P[i] \in Nat
    BY <1>15, SizesAre
  <2> QED BY <1>15, <2>1
<1>17. /\ b \in Seq(Nat) /\ Len(b) = n /\ \A i \in 1 .. n : b[i] = Padded(kind, key(i))
  <2>1. n \in 0 .. Len(p.slots)
    BY <1>1 DEF n
  <2>2. /\ FirstKeys(p, n) \in Seq(AllKeys) /\ Len(FirstKeys(p, n)) = n
        /\ \A i \in 1 .. n : b[i] = Padded(kind, At(p, p.slots[i]))
    BY <2>1, FirstTuples
  <2>3. b \in Seq(Nat) /\ Len(b) = Len(FirstKeys(p, n))
    BY <2>2, SizesAre
  <2> QED BY <2>2, <2>3 DEF key, s
<1>18. \A i : U(i) = PartialSums(b)[i]
  BY DEF U, Used, n
<1> HIDE DEF P, a, b
<1>19. \A x \in 1 .. n - c : a[f + x] = b[c + x]
  <2> TAKE x \in 1 .. n - c
  <2>1. f + x \in f + 1 .. ln /\ f + x \in 1 .. ln /\ c + (f + x) - f = c + x /\ c + x \in 1 .. n
    BY <1>1, <1>5, <1>9a, <1>9b
  <2>2. ks[f + x] = key(c + x)
    BY <1>11, <2>1
  <2> QED BY <1>16, <1>17, <2>1, <2>2
<1>20. P[f + (n - c)] - P[f] = U(c + (n - c)) - U(c)
  <2> DEFINE m == n - c
  <2>1. m \in Nat /\ f + m <= ln /\ c + m <= n
    BY <1>1, <1>9a, <1>9b
  <2>2. a \in Seq(Int) /\ b \in Seq(Int)
    BY <1>16, <1>17
  <2>3. f + m <= Len(a) /\ c + m <= Len(b)
    BY <1>16, <1>17, <2>1
  <2>4. \A x \in 1 .. m : a[f + x] = b[c + x]
    BY <1>19
  <2> HIDE DEF m
  <2>5. PartialSums(a)[f + m] - PartialSums(a)[f] = PartialSums(b)[c + m] - PartialSums(b)[c]
    <3>1. f \in Nat /\ c \in Nat /\ m \in Nat
      BY <1>5, <1>9a, <2>1
    <3>2. Along(a, f, b, c, m)
      BY <2>3, <2>4 DEF Along
    <3> QED BY <2>2, <3>1, <3>2, SumsAlong
  <2> QED BY <1>18, <2>5 DEF P, m, a
<1>21. P[f] = q
  <2>1. CASE f = 0
    BY <1>5, <1>9, <1>16, <2>1
  <2>2. CASE f = 1
    <3>1. hf /\ 1 \in 1 .. ln /\ ks[1] = fk /\ 1 - 1 = 0
      BY <1>5, <1>12, <2>2
    <3>2. P[1] = P[0] + Padded(kind, fk)
      BY <1>16, <3>1
    <3> QED BY <1>5, <1>9, <1>16, <2>2, <3>1, <3>2
  <2> QED BY <1>5, <2>1, <2>2
<1> DEFINE t == P[ln]
           un == U(n)
           uc == U(c)
<1>22. t - q = un - uc /\ t \in Nat /\ un \in Nat /\ uc \in Nat
  <2>1. c + (n - c) = n /\ n \in 0 .. n /\ c \in 0 .. n /\ ln \in 0 .. ln
    BY <1>1, <1>9a, <1>9b
  <2> QED BY <1>8, <1>9b, <1>16, <1>20, <1>21, <2>1
<1>23. p.top + un + q <= PageSize
  BY <1>7
<1> HIDE DEF t, un, uc
<1>24. HeaderSize + 2 * (ln - f) + t <= PageSize /\ p.top + uc <= PageSize - t
  <2>1. /\ n \in Nat /\ p.top \in Nat /\ HeaderSize + 2 * n <= p.top /\ PageSize \in Nat
        /\ HeaderSize \in Nat /\ q \in Nat /\ c \in Nat /\ ln - f = n - c
    BY <1>1, <1>3, <1>4, <1>9, <1>9a, <1>9b
  <2>2. HeaderSize + 2 * (n - c) + t <= PageSize /\ p.top + uc <= PageSize - t
    <3> DEFINE pt == p.top
    <3>1. pt \in Nat /\ HeaderSize + 2 * n <= pt /\ pt + un + q <= PageSize
      BY <1>23, <2>1
    <3> HIDE DEF pt
    <3>2. HeaderSize + 2 * (n - c) + t <= PageSize /\ pt + uc <= PageSize - t
      BY <1>22, <2>1, <3>1
    <3> QED BY <3>2 DEF pt
  <2> QED BY <2>1, <2>2
<1>25. \A i, j \in f + 1 .. ln : i < j => ks[i] < ks[j]
  <2> TAKE i, j \in f + 1 .. ln
  <2> HAVE i < j
  <2>1. c + i - f < c + j - f
    BY <1>5, <1>9a, <1>9b
  <2> QED BY <1>3, <1>11, <2>1
<1>26. hf => \A i \in f + 1 .. ln : ks[i] < ks[1]
  BY <1>3, <1>5, <1>11, <1>12
<1>27. /\ PageOK(kind, d, z) /\ PageOK(kind, 0, z)
       /\ PageKeys(z) = {ks[i] : i \in f + 1 .. ln}
       /\ z.fence = NoFence <=> ~hf
       /\ hf => FenceKey(z) = ks[1]
       /\ z.top = PageSize - t
       /\ Len(z.slots) = ln - f
  <2>1. /\ f <= Len(ks) /\ HeaderSize + 2 * (Len(ks) - f) + PartialSums(Sizes(kind, ks))[Len(ks)] <= PageSize
        /\ \A i, j \in f + 1 .. Len(ks) : i < j => ks[i] < ks[j]
        /\ hf => \A i \in f + 1 .. Len(ks) : ks[i] < ks[1]
    BY <1>9b, <1>15, <1>24, <1>25, <1>26 DEF t, P
  <2>2. /\ PageOK(kind, d, AppendAll(ks, hf))
        /\ PageKeys(AppendAll(ks, hf)) = {ks[i] : i \in f + 1 .. Len(ks)}
        /\ AppendAll(ks, hf).fence = NoFence <=> ~hf
        /\ hf => FenceKey(AppendAll(ks, hf)) = ks[1]
        /\ AppendAll(ks, hf).top = PageSize - PartialSums(Sizes(kind, ks))[Len(ks)]
        /\ Len(AppendAll(ks, hf).slots) = Len(ks) - f
    <3>1. f \in 0 .. 1 /\ hf \in BOOLEAN /\ f = (IF hf THEN 1 ELSE 0) /\ ks \in Seq(AllKeys)
      BY <1>5, <1>15
    <3> QED BY <2>1, <3>1, AppendAllIs, Zenon
  <2>3. PageOK(kind, 0, AppendAll(ks, hf))
    <3>1. f \in 0 .. 1 /\ hf \in BOOLEAN /\ f = (IF hf THEN 1 ELSE 0) /\ ks \in Seq(AllKeys)
      BY <1>5, <1>15
    <3>2. 0 \in Nat
      OBVIOUS
    <3> QED BY <2>1, <3>1, <3>2, AppendAllIs, Zenon
  <2> QED BY <1>6, <1>15, <2>2, <2>3 DEF t, P
<1>28. {ks[i] : i \in f + 1 .. ln} = {key(i) : i \in c + 1 .. n}
  <2>1. ASSUME NEW i \in c + 1 .. n PROVE \E j \in f + 1 .. ln : key(i) = ks[j]
    <3>1. i - c + f \in f + 1 .. ln /\ c + (i - c + f) - f = i
      BY <1>1, <1>5, <1>9a, <1>9b
    <3> QED BY <1>11, <3>1
  <2>2. ASSUME NEW j \in f + 1 .. ln PROVE \E i \in c + 1 .. n : key(i) = ks[j]
    <3>1. c + j - f \in c + 1 .. n
      BY <1>10
    <3> QED BY <1>11, <3>1
  <2> QED BY <2>1, <2>2
<1> QED BY <1>5, <1>9b, <1>12, <1>24, <1>27, <1>28 DEF z, n, uc, U, fk, key, s

(* Lemma: in both halves of a page the new key fits. *)
LEMMA HalvesFit ==
  ASSUME Roomy, kind \in Kinds, NEW d \in Nat, NEW p, PageOK(kind, d, p),
         Len(p.slots) >= 2, NEW k \in AllKeys
  PROVE  /\ Fits(kind, KeepHalfLeft(p, FindSplitPoint(p)), k)
         /\ Fits(kind, CopyHalfRight(p, FindSplitPoint(p)), k)
<1> DEFINE n == Len(p.slots)
           c == FindSplitPoint(p)
           U(i) == Used(kind, p, i)
           l == KeepHalfLeft(p, c)
           r == CopyHalfRight(p, c)
           w == Padded(kind, k)
           t == p.top
           q == IF p.fence = NoFence THEN 0 ELSE Padded(kind, FenceKey(p))
           lt == l.top
           rt == r.top
           ll == Len(l.slots)
           rl == Len(r.slots)
           u0 == U(c)
           u1 == U(c + 1)
           un == U(n)
<1>1. c \in 1 .. n - 1 /\ (FullCount < n => MaxTuple <= u0 /\ u1 + MaxTuple <= un)
  BY FindSplitPointIs
<1>2. n \in Nat /\ t \in Nat /\ (p.fence # NoFence => FenceKey(p) \in AllKeys)
  BY PageFacts DEF FenceKey, At
<1>3. HeaderSize + 2 * n <= t
  BY DEF PageOK, Geometry
<1>4. t + un + q <= PageSize
  BY HeapUse
<1>5. q \in Nat
  BY <1>2, PaddedIs
<1>6. w \in Nat /\ w <= MaxTuple
  BY PaddedIs
<1>7. ll = c /\ lt = PageSize - u1
  BY <1>1, KeepHalfLeftIs
<1>8. rl = n - c /\ t + u0 <= rt /\ PageOK(kind, d, r) /\ PageOK(kind, 0, r)
  BY <1>1, CopyHalfRightIs
<1>9. rt \in Nat /\ PageSize <= rt + (rl + 1 + 0) * MaxTuple
  BY <1>8, PageFacts DEF PageOK, Geometry
<1>10. \A i \in 0 .. n : U(i) \in Nat /\ U(i) <= i * MaxTuple
  BY UsedIs
<1>11. PageSize \in Nat /\ HeaderSize \in Nat /\ MaxTuple \in Nat /\ FullCount \in Nat
       /\ HeaderSize + 2 * (FullCount + 1) + (FullCount + 2) * MaxTuple <= PageSize
  BY IndexPageAssumption DEF Roomy
<1> HIDE DEF n, c, U
<1>12. u0 \in Nat /\ u1 \in Nat /\ un \in Nat /\ u1 <= (c + 1) * MaxTuple
  <2>1. c \in 0 .. n /\ c + 1 \in 0 .. n /\ n \in 0 .. n
    BY <1>1, <1>2
  <2> QED BY <1>10, <2>1
<1> HIDE DEF l, r, w, t, q, lt, rt, ll, rl, u0, u1, un
<1>13. CASE FullCount < n
  <2>1. HeaderSize + 2 * (ll + 1) + w <= lt
    BY <1>1, <1>2, <1>3, <1>4, <1>5, <1>6, <1>7, <1>11, <1>12, <1>13
  <2>2. HeaderSize + 2 * (rl + 1) + w <= rt
    BY <1>1, <1>2, <1>3, <1>6, <1>8, <1>9, <1>11, <1>12, <1>13
  <2> QED BY <2>1, <2>2 DEF Fits, l, r, w, lt, rt, ll, rl, c
<1>14. CASE ~(FullCount < n)
  <2> DEFINE one == 1
             a == c + 1
             b == rl + 1
             e == FullCount + 1
             am == a * MaxTuple
             bm == b * MaxTuple
             em == e * MaxTuple
  <2>1. /\ a \in Int /\ b \in Int /\ e \in Int /\ one \in Int /\ a <= e /\ b <= e
        /\ FullCount + 2 = e + one /\ one * MaxTuple = MaxTuple /\ rl + 1 + 0 = b
        /\ c \in Nat /\ rl \in Nat
    BY <1>1, <1>2, <1>8, <1>11, <1>14
  <2>2. /\ am \in Int /\ bm \in Int /\ em \in Int /\ am <= em /\ bm <= em
        /\ (e + one) * MaxTuple = em + one * MaxTuple
    <3> HIDE DEF one, a, b, e
    <3> QED BY <1>11, <2>1, Products
  <2>3. HeaderSize + 2 * (FullCount + 1) + (em + MaxTuple) <= PageSize
    BY <1>11, <2>1, <2>2
  <2>4. u1 <= am /\ PageSize <= rt + bm
    BY <1>9, <1>12, <2>1
  <2> HIDE DEF am, bm, em
  <2>5. HeaderSize + 2 * (ll + 1) + w <= lt
    BY <1>1, <1>2, <1>6, <1>7, <1>11, <1>12, <1>14, <2>1, <2>2, <2>3, <2>4
  <2>6. HeaderSize + 2 * (rl + 1) + w <= rt
    BY <1>1, <1>2, <1>6, <1>8, <1>9, <1>11, <1>14, <2>1, <2>2, <2>3, <2>4
  <2> QED BY <2>5, <2>6 DEF Fits, l, r, w, lt, rt, ll, rl, c
<1> QED BY <1>13, <1>14

\* What a split makes of the page p for the key k: the left half's fence is a key
\* of p with another one below it, and each half has the keys on its side.
IsSplit(kd, d, p, k, l, r) ==
  /\ PageOK(kd, d, l) /\ PageOK(kd, d, r)
  /\ l.fence # NoFence
  /\ r.fence = NoFence <=> p.fence = NoFence
  /\ p.fence # NoFence => FenceKey(r) = FenceKey(p) /\ FenceKey(l) < FenceKey(p)
  /\ FenceKey(l) \in PageKeys(p)
  /\ \E x \in PageKeys(p) : x < FenceKey(l)
  /\ PageKeys(l) = {x \in PageKeys(p) \union {k} : x < FenceKey(l)}
  /\ PageKeys(r) = {x \in PageKeys(p) \union {k} : FenceKey(l) <= x}

(* Lemma: the split of a page. *)
LEMMA SplitIs ==
  ASSUME Roomy, kind \in Kinds, NEW d \in Nat, NoWrap(kind, d), NEW p, PageOK(kind, d, p),
         Len(p.slots) >= 2, NEW k \in Keys, k \notin PageKeys(p),
         p.fence # NoFence => k < FenceKey(p)
  PROVE  \E l, r : Split(p, k) = <<l, r>> /\ IsSplit(kind, d, p, k, l, r)
<1> DEFINE n == Len(p.slots)
           c == FindSplitPoint(p)
           s == p.slots
           key(i) == At(p, s[i])
           l0 == KeepHalfLeft(p, c)
           r0 == CopyHalfRight(p, c)
           F == key(c + 1)
<1>1. c \in 1 .. n - 1
  BY FindSplitPointIs
<1>2. n \in Nat /\ PageKeys(p) = {key(i) : i \in 1 .. n} /\ \A i \in 1 .. n : key(i) \in AllKeys
  BY PageFacts
<1>3. d \in Nat
  OBVIOUS
<1>4. k \in AllKeys /\ k \in Nat
  BY IndexPageAssumption DEF AllKeys
<1>5. /\ PageOK(kind, d, l0) /\ PageKeys(l0) = {key(i) : i \in 1 .. c}
      /\ l0.fence # NoFence /\ FenceKey(l0) = F
  BY <1>1, <1>3, KeepHalfLeftIs
<1>6. /\ PageOK(kind, d, r0) /\ PageKeys(r0) = {key(i) : i \in c + 1 .. n}
      /\ r0.fence = NoFence <=> p.fence = NoFence
      /\ p.fence # NoFence => FenceKey(r0) = FenceKey(p)
  BY <1>1, <1>3, CopyHalfRightIs
<1>7. Fits(kind, l0, k) /\ Fits(kind, r0, k)
  BY <1>3, <1>4, HalvesFit
<1>8. /\ \A i, j \in 1 .. n : i < j => key(i) < key(j)
      /\ p.fence # NoFence => \A i \in 1 .. n : key(i) < FenceKey(p)
  BY DEF PageOK, Ordered
<1>9. KeyAt(p, c) = F
  BY DEF KeyAt, At
<1>10. Split(p, k) = IF F <= k THEN <<l0, Insert(r0, k)>> ELSE <<Insert(l0, k), r0>>
  BY <1>9 DEF Split
<1> HIDE DEF n, c, s, key, l0, r0, F
<1>11. \A i \in 1 .. n : key(i) \in Nat
  BY <1>2, PaddedIs
<1>12. n \in Nat /\ c \in Nat /\ c >= 1 /\ c < n /\ c \in 1 .. n /\ c + 1 \in 1 .. n
  BY <1>1, <1>2
<1>13. F \in PageKeys(p) /\ F \in Nat
  BY <1>2, <1>11, <1>12 DEF F
<1>14. \A i \in 1 .. n : key(i) < F <=> i <= c
  <2> TAKE i \in 1 .. n
  <2>1. CASE i <= c
    <3>1. i < c + 1
      BY <1>12, <2>1
    <3> QED BY <1>8, <1>12, <2>1, <3>1 DEF F
  <2>2. CASE i > c
    <3>1. i = c + 1 \/ c + 1 < i
      BY <1>12, <2>2
    <3>2. key(i) = F \/ F < key(i)
      BY <1>8, <1>12, <3>1 DEF F
    <3>3. key(i) \in Nat
      BY <1>11
    <3>4. ~(key(i) < F) /\ ~(i <= c)
      BY <1>12, <1>13, <2>2, <3>2, <3>3
    <3> QED BY <3>4
  <2> QED BY <1>12, <2>1, <2>2
<1>15. \E x \in PageKeys(p) : x < F
  BY <1>2, <1>12, <1>14
<1>16. PageKeys(l0) = {x \in PageKeys(p) : x < F}
  <2>1. \A i \in 1 .. c : i \in 1 .. n /\ i <= c
    BY <1>12
  <2>2. ASSUME NEW x \in PageKeys(l0) PROVE x \in PageKeys(p) /\ x < F
    <3>1. PICK i \in 1 .. c : x = key(i)
      BY <1>5
    <3> QED BY <1>2, <1>14, <2>1, <3>1
  <2>3. ASSUME NEW x \in PageKeys(p), x < F PROVE x \in PageKeys(l0)
    <3>1. PICK i \in 1 .. n : x = key(i)
      BY <1>2
    <3>2. i \in 1 .. c
      BY <1>12, <1>14, <2>3, <3>1
    <3> QED BY <1>5, <3>1, <3>2
  <2> QED BY <2>2, <2>3
<1>17. PageKeys(r0) = {x \in PageKeys(p) : F <= x}
  <2>1. \A i \in c + 1 .. n : i \in 1 .. n /\ ~(i <= c)
    BY <1>12
  <2>2. ASSUME NEW x \in PageKeys(r0) PROVE x \in PageKeys(p) /\ F <= x
    <3>1. PICK i \in c + 1 .. n : x = key(i)
      BY <1>6
    <3>2. x \in PageKeys(p) /\ ~(x < F) /\ x \in Nat
      BY <1>2, <1>11, <1>14, <2>1, <3>1
    <3> QED BY <1>13, <3>2
  <2>3. ASSUME NEW x \in PageKeys(p), F <= x PROVE x \in PageKeys(r0)
    <3>1. PICK i \in 1 .. n : x = key(i)
      BY <1>2
    <3>2. ~(i <= c)
      BY <1>11, <1>13, <1>14, <2>3, <3>1
    <3>3. i \in c + 1 .. n
      BY <1>12, <3>2
    <3> QED BY <1>6, <3>1, <3>3
  <2> QED BY <2>2, <2>3
<1>18. p.fence # NoFence => F < FenceKey(p)
  BY <1>8, <1>12 DEF F
<1>19. k # F
  BY <1>13
<1>20. CASE F <= k
  <2> DEFINE r == Insert(r0, k)
  <2>1. k \notin PageKeys(r0) /\ (r0.fence # NoFence => k < FenceKey(r0))
    BY <1>6, <1>17
  <2>2. /\ PageOK(kind, d, r) /\ PageKeys(r) = PageKeys(r0) \union {k}
        /\ r.fence = r0.fence /\ (r0.fence # NoFence => FenceKey(r) = FenceKey(r0))
    BY <1>6, <1>7, <2>1, InsertIs
  <2>3. Split(p, k) = <<l0, r>>
    BY <1>10, <1>20
  <2> HIDE DEF r
  <2>4. PageKeys(l0) = {x \in PageKeys(p) \union {k} : x < F}
    <3>1. ~(k < F)
      BY <1>4, <1>13, <1>20
    <3> QED BY <1>16, <3>1
  <2>5. PageKeys(r) = {x \in PageKeys(p) \union {k} : F <= x}
    BY <1>17, <1>20, <2>2
  <2>6. IsSplit(kind, d, p, k, l0, r)
    BY <1>5, <1>6, <1>13, <1>15, <1>18, <2>2, <2>4, <2>5 DEF IsSplit
  <2> QED BY <2>3, <2>6
<1>21. CASE ~(F <= k)
  <2> DEFINE l == Insert(l0, k)
  <2>0. k < F
    BY <1>4, <1>13, <1>21
  <2>1. k \notin PageKeys(l0) /\ (l0.fence # NoFence => k < FenceKey(l0))
    BY <1>5, <1>16, <2>0
  <2>2. /\ PageOK(kind, d, l) /\ PageKeys(l) = PageKeys(l0) \union {k}
        /\ l.fence = l0.fence /\ (l0.fence # NoFence => FenceKey(l) = FenceKey(l0))
    BY <1>5, <1>7, <2>1, InsertIs
  <2>3. Split(p, k) = <<l, r0>>
    BY <1>10, <1>21
  <2> HIDE DEF l
  <2>4. PageKeys(l) = {x \in PageKeys(p) \union {k} : x < F}
    BY <1>16, <2>0, <2>2
  <2>5. PageKeys(r0) = {x \in PageKeys(p) \union {k} : F <= x}
    BY <1>17, <1>21
  <2>6. FenceKey(l) = F /\ l.fence # NoFence
    BY <1>5, <2>2
  <2>7. IsSplit(kind, d, p, k, l, r0)
    BY <1>6, <1>13, <1>15, <1>18, <2>2, <2>4, <2>5, <2>6 DEF IsSplit
  <2> QED BY <2>3, <2>7
<1> QED BY <1>20, <1>21

-----------------------------------------------------------------------------
(* Index pages: the chain of pages of a level.                               *)

(* Lemma: what a level has. *)
LEMMA LevelFacts ==
  ASSUME Roomy, NEW kd \in Kinds, NEW d, NEW ps, NEW keys, Level(kd, d, ps, keys)
  PROVE  /\ ps \in Seq(Pages) /\ Len(ps) \in Nat /\ Len(ps) >= 1 /\ DOMAIN ps = 1 .. Len(ps)
         /\ \A i \in 1 .. Len(ps) : /\ PageOK(kd, d, ps[i]) /\ ps[i] \in Pages
                                    /\ ps[i].fence = NoFence <=> i = Len(ps)
                                    /\ PageKeys(ps[i]) \subseteq AllKeys
                                    /\ PageKeys(ps[i]) \subseteq Nat
         /\ \A i \in 1 .. Len(ps) : i < Len(ps) =>
              FenceKey(ps[i]) \in Nat /\ \A k \in PageKeys(ps[i]) : k < FenceKey(ps[i])
         /\ \A i, j \in 1 .. Len(ps) : i < j /\ j < Len(ps) => FenceKey(ps[i]) < FenceKey(ps[j])
         /\ \A i, j \in 1 .. Len(ps) : i < j => \A k \in PageKeys(ps[j]) : FenceKey(ps[i]) <= k
         /\ UNION {PageKeys(ps[i]) : i \in 1 .. Len(ps)} = keys
<1> DEFINE n == Len(ps)
<1>1. ps \in Seq(Pages) /\ n >= 1
  BY DEF Level
<1>2. n \in Nat /\ DOMAIN ps = 1 .. n
  BY <1>1
<1>3. /\ \A i \in 1 .. n : PageOK(kd, d, ps[i]) /\ (ps[i].fence = NoFence <=> i = n)
      /\ \A i, j \in 1 .. n : i < j /\ j < n => FenceKey(ps[i]) < FenceKey(ps[j])
      /\ \A i, j \in 1 .. n : i < j => \A k \in PageKeys(ps[j]) : FenceKey(ps[i]) <= k
      /\ UNION {PageKeys(ps[i]) : i \in 1 .. n} = keys
  BY DEF Level
<1>4. \A k \in AllKeys : k \in Nat
  BY PaddedIs
<1> HIDE DEF n
<1>5. ASSUME NEW i \in 1 .. n
      PROVE  /\ ps[i] \in Pages /\ PageKeys(ps[i]) \subseteq AllKeys /\ PageKeys(ps[i]) \subseteq Nat
             /\ i < n => FenceKey(ps[i]) \in Nat /\ \A k \in PageKeys(ps[i]) : k < FenceKey(ps[i])
  <2> DEFINE p == ps[i]
  <2>1. PageOK(kd, d, p) /\ (i < n => p.fence # NoFence)
    BY <1>2, <1>3
  <2> HIDE DEF p
  <2>2. /\ PageKeys(p) = {At(p, p.slots[j]) : j \in 1 .. Len(p.slots)}
        /\ \A j \in 1 .. Len(p.slots) : At(p, p.slots[j]) \in AllKeys
        /\ p.fence # NoFence => FenceKey(p) \in AllKeys
    BY <2>1, PageFacts DEF FenceKey, At
  <2>3. p.fence # NoFence => \A j \in 1 .. Len(p.slots) : At(p, p.slots[j]) < FenceKey(p)
    BY <2>1 DEF PageOK, Ordered
  <2>4. PageKeys(p) \subseteq AllKeys /\ p \in Pages
    BY <2>1, <2>2 DEF PageOK
  <2>5. p.fence # NoFence => \A k \in PageKeys(p) : k < FenceKey(p)
    BY <2>2, <2>3
  <2> QED BY <1>4, <2>1, <2>2, <2>4, <2>5 DEF p
<1> QED BY <1>1, <1>2, <1>3, <1>5 DEF n

(* Lemma: the page a key belongs to. *)
LEMMA TargetIs ==
  ASSUME Roomy, LevelInv, NEW k \in Nat
  PROVE  /\ Target(k) \in 1 .. Len(pages)
         /\ pages[Target(k)].fence # NoFence => k < FenceKey(pages[Target(k)])
         /\ \A i \in 1 .. Len(pages) : i < Target(k) => FenceKey(pages[i]) <= k
         /\ \A i \in 1 .. Len(pages) : k \in PageKeys(pages[i]) => Target(k) = i
<1> DEFINE n == Len(pages)
           S == {i \in DOMAIN pages : ~HasSplit(pages[i], k)}
           t == Target(k)
           fk(i) == FenceKey(pages[i])
<1>1. kind \in Kinds /\ Level(kind, deletes, pages, present)
  BY DEF LevelInv
<1>2. /\ n \in Nat /\ n >= 1 /\ DOMAIN pages = 1 .. n
      /\ \A i \in 1 .. n : /\ pages[i].fence = NoFence <=> i = n
                           /\ PageKeys(pages[i]) \subseteq Nat
      /\ \A i \in 1 .. n : i < n => fk(i) \in Nat /\ \A x \in PageKeys(pages[i]) : x < fk(i)
      /\ \A i, j \in 1 .. n : i < j => \A x \in PageKeys(pages[j]) : fk(i) <= x
  BY <1>1, LevelFacts
<1>3. \A i : HasSplit(pages[i], k) <=> pages[i].fence # NoFence /\ fk(i) <= k
  BY DEF HasSplit, FenceKey
<1>4. t = Min(S)
  BY DEF Target
<1> HIDE DEF n, fk, t
<1>5. S = {i \in 1 .. n : ~(i < n /\ fk(i) <= k)}
  BY <1>2, <1>3
<1>6. S \in SUBSET Nat /\ n \in S
  BY <1>2, <1>5
<1>7. t \in S /\ \A i \in S : t <= i
  <2> HIDE DEF S
  <2> QED BY <1>4, <1>6, MinIs
<1> HIDE DEF S
<1>8. t \in 1 .. n /\ ~(t < n /\ fk(t) <= k)
  BY <1>5, <1>7
<1>9. pages[t].fence # NoFence => k < fk(t)
  <2>1. pages[t].fence # NoFence => t < n
    BY <1>2, <1>8
  <2>2. t < n => fk(t) \in Nat
    BY <1>2, <1>8
  <2> QED BY <1>8, <2>1, <2>2
<1>10. ASSUME NEW i \in 1 .. n, i < t PROVE fk(i) <= k
  <2>1. i \notin S
    BY <1>7, <1>8, <1>10
  <2> QED BY <1>5, <2>1
<1>11. ASSUME NEW i \in 1 .. n, k \in PageKeys(pages[i]) PROVE t = i
  <2>1. i \in S
    <3> SUFFICES ASSUME i < n /\ fk(i) <= k PROVE FALSE
      BY <1>5
    <3>1. k < fk(i) /\ fk(i) \in Nat
      BY <1>2, <1>11
    <3> QED BY <3>1
  <2>2. t <= i
    BY <1>7, <2>1
  <2>3. ~(t < i)
    <3> SUFFICES ASSUME t < i PROVE FALSE
      OBVIOUS
    <3>1. fk(t) <= k
      BY <1>2, <1>8, <1>11
    <3>2. t < n
      BY <1>2, <1>8
    <3> QED BY <1>8, <3>1, <3>2
  <2> QED BY <1>8, <2>2, <2>3
<1> QED BY <1>8, <1>9, <1>10, <1>11 DEF n, fk, t

(* Lemma: a level in which one page has changed and kept its fence. *)
LEMMA LevelReplaced ==
  ASSUME Roomy, NEW kd \in Kinds, NEW d, NEW ps, NEW keys, Level(kd, d, ps, keys),
         NEW e, \A i \in 1 .. Len(ps) : PageOK(kd, e, ps[i]),
         NEW t \in 1 .. Len(ps), NEW q, PageOK(kd, e, q), q.fence = ps[t].fence,
         q.fence # NoFence => FenceKey(q) = FenceKey(ps[t]),
         \A k \in PageKeys(q) : \A i \in 1 .. Len(ps) : i < t => FenceKey(ps[i]) <= k,
         kd = "inter" => PageKeys(ps[t]) \subseteq PageKeys(q),
         NEW more, more = UNION {PageKeys(IF i = t THEN q ELSE ps[i]) : i \in 1 .. Len(ps)}
  PROVE  Level(kd, e, [ps EXCEPT ![t] = q], more)
<1> DEFINE n == Len(ps)
           qs == [ps EXCEPT ![t] = q]
           fk(i) == FenceKey(ps[i])
<1>1. /\ ps \in Seq(Pages) /\ n \in Nat /\ n >= 1 /\ DOMAIN ps = 1 .. n
      /\ \A i \in 1 .. n : ps[i].fence = NoFence <=> i = n
      /\ \A i, j \in 1 .. n : i < j /\ j < n => fk(i) < fk(j)
      /\ \A i, j \in 1 .. n : i < j => \A k \in PageKeys(ps[j]) : fk(i) <= k
  BY LevelFacts
<1>2. q \in Pages
  BY DEF PageOK
<1>3. qs \in Seq(Pages) /\ Len(qs) = n /\ \A i \in 1 .. n : qs[i] = IF i = t THEN q ELSE ps[i]
  <2> HIDE DEF n
  <2>1. qs = [i \in 1 .. n |-> IF i = t THEN q ELSE ps[i]]
    BY <1>1
  <2>2. \A i \in 1 .. n : ps[i] \in Pages
    BY <1>1
  <2>3. qs \in [1 .. n -> Pages]
    <3> HIDE DEF qs
    <3> QED BY <1>2, <2>1, <2>2
  <2>4. \A i \in 1 .. n : qs[i] = IF i = t THEN q ELSE ps[i]
    <3> HIDE DEF qs
    <3> QED BY <2>1
  <2>5. n \in Nat
    BY <1>1
  <2> HIDE DEF qs
  <2>6. qs \in Seq(Pages) /\ Len(qs) = n
    BY <2>3, <2>5
  <2> QED BY <2>4, <2>6
<1>4. kd = "inter" => \A i \in 1 .. n :
        (IF i = 1 THEN Empty ELSE FenceKey(ps[i - 1])) \in PageKeys(ps[i])
  BY DEF Level
<1>5. /\ t \in 1 .. n /\ q.fence = ps[t].fence /\ (q.fence # NoFence => FenceKey(q) = fk(t))
      /\ \A k \in PageKeys(q) : \A i \in 1 .. n : i < t => fk(i) <= k
      /\ \A i \in 1 .. n : PageOK(kd, e, ps[i])
  OBVIOUS
<1> HIDE DEF n, qs
<1>6. \A i \in 1 .. n : i < n => FenceKey(qs[i]) = fk(i)
  <2> TAKE i \in 1 .. n
  <2> HAVE i < n
  <2>1. CASE i = t
    <3>1. q.fence # NoFence
      BY <1>1, <1>5, <2>1
    <3> QED BY <1>3, <1>5, <2>1, <3>1
  <2>2. CASE i # t
    BY <1>3, <2>2
  <2> QED BY <2>1, <2>2
<1> HIDE DEF fk
<1>7. \A i \in 1 .. n : PageOK(kd, e, qs[i]) /\ (qs[i].fence = NoFence <=> i = n)
  BY <1>1, <1>3, <1>5
<1>8. \A i, j \in 1 .. n : i < j /\ j < n => FenceKey(qs[i]) < FenceKey(qs[j])
  <2> TAKE i, j \in 1 .. n
  <2> HAVE i < j /\ j < n
  <2>1. i < n
    BY <1>1
  <2> QED BY <1>1, <1>6, <2>1
<1>9. \A i, j \in 1 .. n : i < j => \A k \in PageKeys(qs[j]) : FenceKey(qs[i]) <= k
  <2> TAKE i, j \in 1 .. n
  <2> HAVE i < j
  <2>1. i < n
    BY <1>1
  <2>2. FenceKey(qs[i]) = fk(i)
    BY <1>6, <2>1
  <2>3. CASE j = t
    BY <1>3, <1>5, <2>2, <2>3
  <2>4. CASE j # t
    BY <1>1, <1>3, <2>2, <2>4
  <2> QED BY <2>3, <2>4
<1>10. UNION {PageKeys(qs[i]) : i \in 1 .. n} = more
  <2>1. \A i \in 1 .. n : PageKeys(qs[i]) = PageKeys(IF i = t THEN q ELSE ps[i])
    BY <1>3, Zenon
  <2>2. {PageKeys(qs[i]) : i \in 1 .. n} = {PageKeys(IF i = t THEN q ELSE ps[i]) : i \in 1 .. n}
    BY <2>1
  <2> QED BY <2>2 DEF n
<1>11. kd = "inter" => \A i \in 1 .. n :
         (IF i = 1 THEN Empty ELSE FenceKey(qs[i - 1])) \in PageKeys(qs[i])
  <2> SUFFICES ASSUME kd = "inter", NEW i \in 1 .. n
               PROVE  (IF i = 1 THEN Empty ELSE FenceKey(qs[i - 1])) \in PageKeys(qs[i])
    OBVIOUS
  <2>1. PageKeys(ps[i]) \subseteq PageKeys(qs[i])
    BY <1>3
  <2>2. (IF i = 1 THEN Empty ELSE FenceKey(ps[i - 1])) \in PageKeys(ps[i])
    BY <1>4
  <2>3. i # 1 => FenceKey(qs[i - 1]) = FenceKey(ps[i - 1])
    <3> HAVE i # 1
    <3>1. i - 1 \in 1 .. n /\ i - 1 < n
      BY <1>1
    <3> QED BY <1>6, <3>1 DEF fk
  <2> QED BY <2>1, <2>2, <2>3
<1> QED BY <1>1, <1>3, <1>7, <1>8, <1>9, <1>10, <1>11 DEF Level, qs

(* Lemma: on a level of the invariant no offset is taken below zero. *)
LEMMA LevelNoWrap ==
  ASSUME Roomy, LevelInv PROVE deletes \in Nat /\ NoWrap(kind, deletes)
<1>1. kind \in Kinds /\ deletes \in 0 .. MaxDeletes /\ (kind = "inter" => deletes = 0)
  BY DEF LevelInv
<1>2. deletes \in Nat /\ MaxDeletes \in Nat /\ HeaderSize \in Nat /\ PageSize \in Nat
      /\ FullCount \in Nat /\ MaxTuple \in Nat
  BY <1>1, IndexPageAssumption DEF Roomy
<1>3. CASE kind = "inter"
  <2>1. FullCount + 2 + deletes = FullCount + 2
    BY <1>1, <1>2, <1>3
  <2> QED BY <1>2, <2>1 DEF NoWrap, Roomy
<1>4. CASE kind = "leaf"
  <2>1. CASE \A k \in AllKeys : Padded("leaf", k) <= HeaderSize
    BY <1>2, <1>4, <2>1 DEF NoWrap
  <2>2. CASE HeaderSize + 2 * (FullCount + 1) + (FullCount + 2 + MaxDeletes) * MaxTuple <= PageSize
    <3> DEFINE a == FullCount + 2 + deletes
               b == FullCount + 2 + MaxDeletes
               am == a * MaxTuple
               bm == b * MaxTuple
    <3>1. a \in Int /\ b \in Int /\ a <= b
      BY <1>1, <1>2
    <3>2. am \in Int /\ bm \in Int /\ am <= bm
      <4> HIDE DEF a, b
      <4> QED BY <1>2, <3>1, Products
    <3>3. HeaderSize + 2 * (FullCount + 1) + bm <= PageSize
      BY <2>2
    <3> HIDE DEF am, bm
    <3>4. HeaderSize + 2 * (FullCount + 1) + am <= PageSize
      BY <1>2, <3>2, <3>3
    <3> QED BY <1>2, <3>4 DEF NoWrap, am
  <2> QED BY <2>1, <2>2 DEF Roomy, NoWrap
<1> QED BY <1>1, <1>3, <1>4 DEF Kinds

(* Lemma: an insert into a page with space keeps the level. *)
LEMMA InsertKeyKeeps ==
  ASSUME Roomy, LevelInv, NEW k \in Keys, InsertKey(k)
  PROVE  LevelInv'
<1> DEFINE n == Len(pages)
           t == Target(k)
           p == pages[t]
           q == Insert(p, k)
           more == UNION {PageKeys(IF i = t THEN q ELSE pages[i]) : i \in 1 .. n}
<1>1. /\ kind \in Kinds /\ deletes \in 0 .. MaxDeletes /\ (kind = "inter" => deletes = 0)
      /\ Level(kind, deletes, pages, present) /\ deletes \in Nat /\ NoWrap(kind, deletes)
  BY LevelNoWrap DEF LevelInv
<1>2. /\ k \notin present /\ HasSpace(p, k) /\ pages' = [pages EXCEPT ![t] = q]
      /\ present' = present \union {k} /\ kind' = kind /\ deletes' = deletes
  BY DEF InsertKey
<1>3. k \in Nat /\ k \in AllKeys
  BY IndexPageAssumption DEF AllKeys
<1>4. /\ t \in 1 .. n /\ (p.fence # NoFence => k < FenceKey(p))
      /\ \A i \in 1 .. n : i < t => FenceKey(pages[i]) <= k
  BY <1>3, TargetIs
<1>5. /\ \A i \in 1 .. n : PageOK(kind, deletes, pages[i])
      /\ \A i, j \in 1 .. n : i < j => \A x \in PageKeys(pages[j]) : FenceKey(pages[i]) <= x
      /\ UNION {PageKeys(pages[i]) : i \in 1 .. n} = present
  BY <1>1, LevelFacts
<1>6. PageOK(kind, deletes, p) /\ k \notin PageKeys(p)
  <2> HIDE DEF n, t
  <2> QED BY <1>2, <1>4, <1>5
<1>7. Fits(kind, p, k)
  <2> HIDE DEF p
  <2> QED BY <1>1, <1>2, <1>3, <1>6, SpaceIs
<1>8. /\ PageOK(kind, deletes, q) /\ PageKeys(q) = PageKeys(p) \union {k} /\ q.fence = p.fence
      /\ p.fence # NoFence => FenceKey(q) = FenceKey(p)
  <2> HIDE DEF p
  <2> QED BY <1>1, <1>4, <1>6, <1>7, InsertIs
<1> HIDE DEF n, t, p, q, more
<1>9. more = present \union {k}
  <2>1. \A i \in 1 .. n : PageKeys(IF i = t THEN q ELSE pages[i])
                            = IF i = t THEN PageKeys(pages[i]) \union {k} ELSE PageKeys(pages[i])
    BY <1>8 DEF p
  <2>2. more = UNION {IF i = t THEN PageKeys(pages[i]) \union {k} ELSE PageKeys(pages[i]) : i \in 1 .. n}
    BY <2>1 DEF more
  <2>3. ASSUME NEW x \in more PROVE x \in present \union {k}
    <3>1. PICK i \in 1 .. n : x \in IF i = t THEN PageKeys(pages[i]) \union {k} ELSE PageKeys(pages[i])
      BY <2>2
    <3> QED BY <1>5, <3>1
  <2>4. ASSUME NEW x \in present PROVE x \in more
    <3>1. PICK i \in 1 .. n : x \in PageKeys(pages[i])
      BY <1>5
    <3>2. x \in IF i = t THEN PageKeys(pages[i]) \union {k} ELSE PageKeys(pages[i])
      BY <3>1
    <3> QED BY <2>2, <3>2
  <2>5. k \in more
    <3>1. k \in IF t = t THEN PageKeys(pages[t]) \union {k} ELSE PageKeys(pages[t])
      OBVIOUS
    <3> QED BY <1>4, <2>2, <3>1
  <2> QED BY <2>3, <2>4, <2>5
<1>10. \A x \in PageKeys(q) : \A i \in 1 .. n : i < t => FenceKey(pages[i]) <= x
  BY <1>4, <1>5, <1>8 DEF p
<1>11. PageKeys(p) \subseteq PageKeys(q)
  BY <1>8
<1>12. Level(kind, deletes, [pages EXCEPT ![t] = q], more)
  <2>1. /\ t \in 1 .. Len(pages) /\ \A i \in 1 .. Len(pages) : PageOK(kind, deletes, pages[i])
        /\ q.fence = pages[t].fence /\ (q.fence # NoFence => FenceKey(q) = FenceKey(pages[t]))
        /\ \A x \in PageKeys(q) : \A i \in 1 .. Len(pages) : i < t => FenceKey(pages[i]) <= x
        /\ (kind = "inter" => PageKeys(pages[t]) \subseteq PageKeys(q))
        /\ more = UNION {PageKeys(IF i = t THEN q ELSE pages[i]) : i \in 1 .. Len(pages)}
    BY <1>4, <1>5, <1>8, <1>10, <1>11 DEF n, p, more
  <2> QED BY <1>1, <1>8, <2>1, LevelReplaced
<1>13. Level(kind, deletes, pages', present')
  BY <1>2, <1>9, <1>12
<1> QED BY <1>1, <1>2, <1>13 DEF LevelInv

(* Lemma: a delete keeps the level of leaves. *)
LEMMA DeleteKeyKeeps ==
  ASSUME Roomy, LevelInv, NEW k \in Keys, DeleteKey(k)
  PROVE  LevelInv'
<1> DEFINE n == Len(pages)
           t == Target(k)
           p == pages[t]
           q == Delete(p, k)
           e == deletes + 1
           more == UNION {PageKeys(IF i = t THEN q ELSE pages[i]) : i \in 1 .. n}
<1>1. kind \in Kinds /\ deletes \in 0 .. MaxDeletes /\ Level(kind, deletes, pages, present)
  BY DEF LevelInv
<1>2. /\ k \in present /\ pages' = [pages EXCEPT ![t] = q] /\ kind = "leaf" /\ deletes < MaxDeletes
      /\ present' = present \ {k} /\ kind' = kind /\ deletes' = e
  BY DEF DeleteKey
<1>3. k \in Nat /\ deletes \in Nat /\ e \in 0 .. MaxDeletes
  BY <1>1, <1>2, IndexPageAssumption
<1>4. /\ t \in 1 .. n /\ \A i \in 1 .. n : k \in PageKeys(pages[i]) => t = i
  BY <1>3, TargetIs
<1>5. /\ \A i \in 1 .. n : PageOK(kind, deletes, pages[i])
      /\ \A i, j \in 1 .. n : i < j => \A x \in PageKeys(pages[j]) : FenceKey(pages[i]) <= x
      /\ UNION {PageKeys(pages[i]) : i \in 1 .. n} = present
  BY <1>1, LevelFacts
<1>6. PageOK(kind, deletes, p) /\ k \in PageKeys(p)
  <2> HIDE DEF n, t
  <2> QED BY <1>2, <1>4, <1>5
<1>7. /\ PageOK(kind, e, q) /\ PageKeys(q) = PageKeys(p) \ {k} /\ q.fence = p.fence
      /\ FenceKey(q) = FenceKey(p)
  <2> HIDE DEF p
  <2> QED BY <1>1, <1>3, <1>6, DeleteIs
<1>8. \A i \in 1 .. n : PageOK(kind, e, pages[i])
  BY <1>1, <1>3, <1>5, OneMoreDelete
<1> HIDE DEF n, t, p, q, e, more
<1>9. more = present \ {k}
  <2>1. \A i \in 1 .. n : PageKeys(IF i = t THEN q ELSE pages[i]) = PageKeys(pages[i]) \ {k}
    BY <1>4, <1>7 DEF p
  <2>2. more = UNION {PageKeys(pages[i]) \ {k} : i \in 1 .. n}
    BY <2>1 DEF more
  <2> QED BY <1>5, <2>2
<1>10. \A x \in PageKeys(q) : \A i \in 1 .. n : i < t => FenceKey(pages[i]) <= x
  BY <1>4, <1>5, <1>7 DEF p
<1>11. Level(kind, e, [pages EXCEPT ![t] = q], more)
  <2>1. /\ t \in 1 .. Len(pages) /\ \A i \in 1 .. Len(pages) : PageOK(kind, e, pages[i])
        /\ q.fence = pages[t].fence /\ (q.fence # NoFence => FenceKey(q) = FenceKey(pages[t]))
        /\ \A x \in PageKeys(q) : \A i \in 1 .. Len(pages) : i < t => FenceKey(pages[i]) <= x
        /\ (kind = "inter" => PageKeys(pages[t]) \subseteq PageKeys(q))
        /\ more = UNION {PageKeys(IF i = t THEN q ELSE pages[i]) : i \in 1 .. Len(pages)}
    BY <1>2, <1>4, <1>7, <1>8, <1>10 DEF n, p, more
  <2> QED BY <1>1, <1>7, <2>1, LevelReplaced
<1>12. Level(kind, e, pages', present')
  BY <1>2, <1>9, <1>11
<1> QED BY <1>1, <1>2, <1>3, <1>12 DEF LevelInv

\* qs is ps with l and r in the place of the page t.
IsSplice(qs, ps, t, l, r) ==
  /\ Len(qs) = Len(ps) + 1
  /\ \A i \in 1 .. Len(ps) : i < t => qs[i] = ps[i]
  /\ qs[t] = l /\ qs[t + 1] = r
  /\ \A i \in 1 .. Len(ps) : t < i => qs[i + 1] = ps[i]

(* Lemma: the chain a split makes. *)
LEMMA SpliceIs ==
  ASSUME NEW D, NEW ps \in Seq(D), NEW t \in 1 .. Len(ps), NEW l \in D, NEW r \in D
  PROVE  /\ SubSeq(ps, 1, t - 1) \o <<l, r>> \o SubSeq(ps, t + 1, Len(ps)) \in Seq(D)
         /\ IsSplice(SubSeq(ps, 1, t - 1) \o <<l, r>> \o SubSeq(ps, t + 1, Len(ps)), ps, t, l, r)
<1> DEFINE n == Len(ps)
           a == SubSeq(ps, 1, t - 1)
           b == <<l, r>>
           c == SubSeq(ps, t + 1, n)
<1>1. n \in Nat /\ t \in 1 .. n /\ \A i \in 1 .. n : ps[i] \in D
  OBVIOUS
<1>2. a \in Seq(D) /\ Len(a) = t - 1 /\ \A i \in 1 .. t - 1 : a[i] = ps[i]
  <2>1. t - 1 \in 0 .. n /\ (t - 1) - 1 + 1 = t - 1
    BY <1>1
  <2>2. a \in Seq(D) /\ Len(a) = t - 1
    <3>1. \A i \in 1 .. t - 1 : ps[i] \in D
      BY <1>1
    <3> QED BY <1>1, <2>1, <3>1
  <2>3. \A i \in 1 .. t - 1 : a[i] = ps[i]
    BY <1>1, <2>1
  <2> QED BY <2>2, <2>3
<1>3. b \in Seq(D) /\ Len(b) = 2 /\ b[1] = l /\ b[2] = r
  OBVIOUS
<1>4. c \in Seq(D) /\ Len(c) = n - t /\ \A i \in 1 .. n - t : c[i] = ps[t + i]
  <2>1. c \in Seq(D) /\ Len(c) = n - t
    <3>1. \A i \in t + 1 .. n : ps[i] \in D
      BY <1>1
    <3> QED BY <1>1, <3>1
  <2>2. \A i \in 1 .. n - t : c[i] = ps[t + i]
    BY <1>1
  <2> QED BY <2>1, <2>2
<1> HIDE DEF n, a, b, c
<1> DEFINE ab == a \o b
<1>5. ab \in Seq(D) /\ Len(ab) = t + 1 /\ (\A i \in 1 .. t - 1 : ab[i] = ps[i])
      /\ ab[t] = l /\ ab[t + 1] = r
  <2>1. ab \in Seq(D) /\ Len(ab) = Len(a) + Len(b)
    BY <1>2, <1>3, ConcatProperties
  <2>2. Len(ab) = t + 1
    BY <1>1, <1>2, <1>3, <2>1
  <2>3. \A i \in 1 .. t - 1 : ab[i] = a[i]
    BY <1>1, <1>2, <1>3
  <2>4. ab[t] = b[1] /\ ab[t + 1] = b[2]
    <3>1. \A i \in 1 .. Len(a) + Len(b) : ab[i] = IF i <= Len(a) THEN a[i] ELSE b[i - Len(a)]
      BY <1>2, <1>3, ConcatProperties
    <3>2. \A i \in 1 .. t + 1 : ab[i] = IF i <= t - 1 THEN a[i] ELSE b[i - (t - 1)]
      <4>1. t - 1 + 2 = t + 1
        BY <1>1
      <4> QED BY <1>2, <1>3, <3>1, <4>1
    <3>3. t \in 1 .. t + 1 /\ t + 1 \in 1 .. t + 1 /\ ~(t <= t - 1) /\ ~(t + 1 <= t - 1)
          /\ t - (t - 1) = 1 /\ (t + 1) - (t - 1) = 2
      BY <1>1
    <3>4. ab[t] = b[t - (t - 1)] /\ ab[t + 1] = b[(t + 1) - (t - 1)]
      BY <3>2, <3>3, Zenon
    <3> QED BY <3>3, <3>4
  <2> QED BY <1>2, <1>3, <2>1, <2>2, <2>3, <2>4
<1> HIDE DEF ab
<1> DEFINE z == ab \o c
<1>6. z \in Seq(D) /\ Len(z) = n + 1
  <2>1. z \in Seq(D) /\ Len(z) = Len(ab) + Len(c)
    BY <1>4, <1>5, ConcatProperties
  <2> QED BY <1>1, <1>4, <1>5, <2>1
<1>7. \A i \in 1 .. t + 1 : z[i] = ab[i]
  BY <1>1, <1>4, <1>5
<1>8. \A i \in 1 .. n - t : z[t + 1 + i] = c[i]
  BY <1>1, <1>4, <1>5
<1> HIDE DEF z
<1>9. IsSplice(z, ps, t, l, r)
  <2>1. ASSUME NEW i \in 1 .. n, i < t PROVE z[i] = ps[i]
    <3>1. i \in 1 .. t - 1 /\ i \in 1 .. t + 1
      BY <1>1, <2>1
    <3> QED BY <1>5, <1>7, <3>1
  <2>2. z[t] = l /\ z[t + 1] = r
    <3>1. t \in 1 .. t + 1 /\ t + 1 \in 1 .. t + 1
      BY <1>1
    <3> QED BY <1>5, <1>7, <3>1
  <2>3. ASSUME NEW i \in 1 .. n, t < i PROVE z[i + 1] = ps[i]
    <3>1. i - t \in 1 .. n - t /\ t + 1 + (i - t) = i + 1 /\ t + (i - t) = i
      BY <1>1, <2>3
    <3>2. z[t + 1 + (i - t)] = c[i - t] /\ c[i - t] = ps[t + (i - t)]
      BY <1>4, <1>8, <3>1
    <3> QED BY <3>1, <3>2
  <2> QED BY <1>6, <2>1, <2>2, <2>3 DEF IsSplice, n
<1> QED BY <1>6, <1>9 DEF z, ab, a, b, c, n

(* Lemma: a level in which a page has been split for a key that belongs to it. *)
LEMMA LevelSplit ==
  ASSUME Roomy, NEW kd \in Kinds, NEW d, NEW ps, NEW keys, Level(kd, d, ps, keys),
         NEW t \in 1 .. Len(ps), NEW k \in Nat, NEW l, NEW r, IsSplit(kd, d, ps[t], k, l, r),
         \A i \in 1 .. Len(ps) : i < t => FenceKey(ps[i]) <= k,
         NEW qs \in Seq(Pages), IsSplice(qs, ps, t, l, r)
  PROVE  Level(kd, d, qs, keys \union {k})
<1> DEFINE n == Len(ps)
           fk(i) == FenceKey(ps[i])
           gk(i) == FenceKey(qs[i])
           K(i) == PageKeys(ps[i])
           G(i) == PageKeys(qs[i])
           F == FenceKey(l)
<1>1. /\ n \in Nat /\ n >= 1
      /\ \A i \in 1 .. n : PageOK(kd, d, ps[i]) /\ (ps[i].fence = NoFence <=> i = n) /\ K(i) \subseteq Nat
      /\ \A i \in 1 .. n : i < n => fk(i) \in Nat
      /\ \A i, j \in 1 .. n : i < j /\ j < n => fk(i) < fk(j)
      /\ \A i, j \in 1 .. n : i < j => \A x \in K(j) : fk(i) <= x
      /\ UNION {K(i) : i \in 1 .. n} = keys
  BY LevelFacts
<1>2. kd = "inter" => \A i \in 1 .. n : (IF i = 1 THEN Empty ELSE fk(i - 1)) \in K(i)
  BY DEF Level
<1>3. /\ Len(qs) = n + 1 /\ (\A i \in 1 .. n : i < t => qs[i] = ps[i])
      /\ qs[t] = l /\ qs[t + 1] = r /\ \A i \in 1 .. n : t < i => qs[i + 1] = ps[i]
  BY DEF IsSplice
<1>4. /\ PageOK(kd, d, l) /\ PageOK(kd, d, r) /\ l.fence # NoFence
      /\ r.fence = NoFence <=> ps[t].fence = NoFence
      /\ ps[t].fence # NoFence => FenceKey(r) = fk(t) /\ F < fk(t)
      /\ F \in K(t) /\ (\E x \in K(t) : x < F)
      /\ PageKeys(l) = {x \in K(t) \union {k} : x < F}
      /\ PageKeys(r) = {x \in K(t) \union {k} : F <= x}
  BY DEF IsSplit
<1>5. t \in 1 .. n /\ \A i \in 1 .. n : i < t => fk(i) <= k
  OBVIOUS
<1> HIDE DEF n
<1>6. \A j \in 1 .. n + 1 : \/ j \in 1 .. n /\ j < t
                            \/ j = t
                            \/ j = t + 1
                            \/ \E i \in 1 .. n : t < i /\ j = i + 1
  <2> TAKE j \in 1 .. n + 1
  <2>1. j > t + 1 => j - 1 \in 1 .. n /\ t < j - 1 /\ j = (j - 1) + 1
    BY <1>1, <1>5
  <2>2. j \in Int /\ t \in Int /\ n \in Nat
    BY <1>1, <1>5
  <2>3. j < t \/ j = t \/ j = t + 1 \/ j > t + 1
    BY <2>2
  <2>4. j < t => j \in 1 .. n
    BY <1>5, <2>2
  <2> QED BY <2>1, <2>3, <2>4
<1>7. /\ \A i \in 1 .. n : i < t => gk(i) = fk(i) /\ G(i) = K(i)
      /\ gk(t) = F /\ G(t) = {x \in K(t) \union {k} : x < F}
      /\ G(t + 1) = {x \in K(t) \union {k} : F <= x} /\ (t < n => gk(t + 1) = fk(t))
      /\ \A i \in 1 .. n : t < i => gk(i + 1) = fk(i) /\ G(i + 1) = K(i)
      /\ (t < n => F < fk(t))
  <2>1. t < n => ps[t].fence # NoFence
    BY <1>1, <1>5
  <2> QED BY <1>3, <1>4, <2>1
<1>8. \A j \in 1 .. n + 1 : PageOK(kd, d, qs[j]) /\ (qs[j].fence = NoFence <=> j = n + 1)
  <2> TAKE j \in 1 .. n + 1
  <2>1. CASE j \in 1 .. n /\ j < t
    <3>1. j # n /\ j # n + 1
      BY <1>1, <1>5, <2>1
    <3> QED BY <1>1, <1>3, <2>1, <3>1
  <2>2. CASE j = t
    <3>1. j # n + 1
      BY <1>1, <1>5, <2>2
    <3> QED BY <1>3, <1>4, <2>2, <3>1
  <2>3. CASE j = t + 1
    <3>1. j = n + 1 <=> t = n
      BY <1>1, <1>5, <2>3
    <3> QED BY <1>1, <1>3, <1>4, <1>5, <2>3, <3>1
  <2>4. ASSUME NEW i \in 1 .. n, t < i, j = i + 1
        PROVE  PageOK(kd, d, qs[j]) /\ (qs[j].fence = NoFence <=> j = n + 1)
    <3>1. j = n + 1 <=> i = n
      BY <1>1, <2>4
    <3> QED BY <1>1, <1>3, <2>4, <3>1
  <2> QED BY <1>6, <2>1, <2>2, <2>3, <2>4
<1>9. F \in Nat /\ \A i \in 1 .. n : i < t => fk(i) < F /\ fk(i) \in Nat
  <2>1. F \in Nat
    BY <1>1, <1>4, <1>5
  <2>2. PICK x \in K(t) : x < F
    BY <1>4
  <2>3. x \in Nat
    BY <1>1, <1>5
  <2>4. ASSUME NEW i \in 1 .. n, i < t PROVE fk(i) < F /\ fk(i) \in Nat
    <3>1. i < n
      BY <1>1, <1>5, <2>4
    <3>2. fk(i) <= x /\ fk(i) \in Nat
      BY <1>1, <1>5, <2>4, <3>1
    <3> QED BY <2>1, <2>2, <2>3, <3>2
  <2> QED BY <2>1, <2>4
<1> HIDE DEF fk, gk, K, G, F
<1>10. \A a, b \in 1 .. n + 1 : a < b /\ b < n + 1 => gk(a) < gk(b)
  <2> SUFFICES ASSUME NEW a \in 1 .. n + 1, NEW b \in 1 .. n + 1, a < b, b < n + 1
               PROVE  gk(a) < gk(b)
    OBVIOUS
  <2>1. CASE b \in 1 .. n /\ b < t
    <3>1. a \in 1 .. n /\ a < t /\ b < n
      BY <1>1, <1>5, <2>1
    <3> QED BY <1>1, <1>7, <2>1, <3>1
  <2>2. CASE b = t
    <3>1. a \in 1 .. n /\ a < t
      BY <1>1, <1>5, <2>2
    <3> QED BY <1>7, <1>9, <2>2, <3>1
  <2>3. CASE b = t + 1
    <3>1. t < n /\ (a = t \/ (a \in 1 .. n /\ a < t))
      BY <1>1, <1>5, <2>3
    <3>2. gk(b) = fk(t)
      BY <1>7, <2>3, <3>1
    <3>3. CASE a = t
      BY <1>7, <3>1, <3>2, <3>3
    <3>4. CASE a \in 1 .. n /\ a < t
      BY <1>1, <1>5, <1>7, <3>1, <3>2, <3>4
    <3> QED BY <3>1, <3>3, <3>4
  <2>4. ASSUME NEW i \in 1 .. n, t < i, b = i + 1 PROVE gk(a) < gk(b)
    <3>1. i < n /\ t < n
      BY <1>1, <1>5, <2>4
    <3>2. gk(b) = fk(i) /\ fk(i) \in Nat /\ fk(t) \in Nat /\ fk(t) < fk(i)
      BY <1>1, <1>5, <1>7, <2>4, <3>1
    <3>3. CASE a \in 1 .. n /\ a < t
      <4>1. a < i
        BY <1>5, <2>4, <3>3
      <4> QED BY <1>1, <1>7, <2>4, <3>1, <3>2, <3>3, <4>1
    <3>4. CASE a = t
      <4>1. gk(a) = F /\ F < fk(t)
        BY <1>7, <3>1, <3>4
      <4> QED BY <1>9, <3>2, <4>1
    <3>5. CASE a = t + 1
      <4>1. gk(a) = fk(t)
        BY <1>7, <3>1, <3>5
      <4> QED BY <3>2, <4>1
    <3>6. ASSUME NEW h \in 1 .. n, t < h, a = h + 1 PROVE gk(a) < gk(b)
      <4>1. h < i
        BY <2>4, <3>6
      <4>2. gk(a) = fk(h)
        BY <1>7, <3>6
      <4> QED BY <1>1, <2>4, <3>1, <3>2, <4>1, <4>2
    <3> QED BY <1>6, <3>3, <3>4, <3>5, <3>6
  <2> QED BY <1>6, <2>1, <2>2, <2>3, <2>4
<1>11. \A a, b \in 1 .. n + 1 : a < b => \A x \in G(b) : gk(a) <= x
  <2> SUFFICES ASSUME NEW a \in 1 .. n + 1, NEW b \in 1 .. n + 1, a < b, NEW x \in G(b)
               PROVE  gk(a) <= x
    OBVIOUS
  <2>1. CASE b \in 1 .. n /\ b < t
    <3>1. a \in 1 .. n /\ a < t
      BY <1>1, <1>5, <2>1
    <3> QED BY <1>1, <1>7, <2>1, <3>1
  <2>2. CASE b = t \/ b = t + 1
    <3>1. x \in K(t) \union {k}
      BY <1>7, <2>2
    <3>2. CASE a \in 1 .. n /\ a < t
      BY <1>1, <1>5, <1>7, <3>1, <3>2
    <3>3. CASE ~(a \in 1 .. n /\ a < t)
      <4>1. a = t /\ b = t + 1
        BY <1>1, <1>5, <2>2, <3>3
      <4> QED BY <1>7, <4>1
    <3> QED BY <3>2, <3>3
  <2>3. ASSUME NEW i \in 1 .. n, t < i, b = i + 1 PROVE gk(a) <= x
    <3>1. x \in K(i) /\ x \in Nat /\ t < n /\ fk(t) \in Nat /\ fk(t) <= x
      <4>1. t < n
        BY <1>1, <1>5, <2>3
      <4>2. x \in K(i)
        BY <1>7, <2>3
      <4>3. x \in Nat
        BY <1>1, <2>3, <4>2
      <4>4. fk(t) \in Nat
        BY <1>1, <1>5, <4>1
      <4>5. fk(t) <= x
        BY <1>1, <1>5, <2>3, <4>2
      <4> QED BY <4>1, <4>2, <4>3, <4>4, <4>5
    <3>3. CASE a \in 1 .. n /\ a < t
      <4>1. a < i
        BY <1>5, <2>3, <3>3
      <4> QED BY <1>1, <1>7, <2>3, <3>1, <3>3, <4>1
    <3>4. CASE a = t
      <4>1. gk(a) = F /\ F < fk(t)
        BY <1>7, <3>1, <3>4
      <4> QED BY <1>9, <3>1, <4>1
    <3>5. CASE a = t + 1
      <4>1. gk(a) = fk(t)
        BY <1>7, <3>1, <3>5
      <4> QED BY <3>1, <4>1
    <3>6. ASSUME NEW h \in 1 .. n, t < h, a = h + 1 PROVE gk(a) <= x
      <4>1. h < i
        BY <2>3, <3>6
      <4>2. gk(a) = fk(h)
        BY <1>7, <3>6
      <4> QED BY <1>1, <2>3, <3>1, <4>1, <4>2
    <3> QED BY <1>6, <3>3, <3>4, <3>5, <3>6
  <2> QED BY <1>6, <2>1, <2>2, <2>3
<1>12. UNION {G(j) : j \in 1 .. n + 1} = keys \union {k}
  <2>0. /\ t \in 1 .. n + 1 /\ t + 1 \in 1 .. n + 1
        /\ \A i \in 1 .. n : i \in 1 .. n + 1 /\ i + 1 \in 1 .. n + 1
    BY <1>1, <1>5
  <2>1. ASSUME NEW j \in 1 .. n + 1, NEW x \in G(j) PROVE x \in keys \union {k}
    <3>1. CASE j \in 1 .. n /\ j < t
      BY <1>1, <1>7, <2>1, <3>1
    <3>2. CASE j = t \/ j = t + 1
      <4>1. x \in K(t) \union {k}
        BY <1>7, <2>1, <3>2
      <4> QED BY <1>1, <1>5, <4>1
    <3>3. ASSUME NEW i \in 1 .. n, t < i, j = i + 1 PROVE x \in keys \union {k}
      BY <1>1, <1>7, <2>1, <3>3
    <3> QED BY <1>6, <3>1, <3>2, <3>3
  <2>2. ASSUME NEW x \in K(t) \union {k} PROVE \E j \in 1 .. n + 1 : x \in G(j)
    <3>1. x \in Nat
      BY <1>1, <1>5
    <3>2. x < F \/ F <= x
      BY <1>9, <3>1
    <3> QED BY <1>7, <2>0, <3>2
  <2>3. ASSUME NEW x \in keys PROVE \E j \in 1 .. n + 1 : x \in G(j)
    <3>1. PICK i \in 1 .. n : x \in K(i)
      BY <1>1
    <3>2. i < t \/ i = t \/ t < i
      BY <1>1, <1>5
    <3>3. CASE i < t
      BY <1>7, <2>0, <3>1, <3>3
    <3>4. CASE i = t
      BY <2>2, <3>1, <3>4
    <3>5. CASE t < i
      BY <1>7, <2>0, <3>1, <3>5
    <3> QED BY <3>2, <3>3, <3>4, <3>5
  <2> QED BY <2>1, <2>2, <2>3
<1>13. kd = "inter" => \A j \in 1 .. n + 1 : (IF j = 1 THEN Empty ELSE gk(j - 1)) \in G(j)
  <2> SUFFICES ASSUME kd = "inter", NEW j \in 1 .. n + 1
               PROVE  (IF j = 1 THEN Empty ELSE gk(j - 1)) \in G(j)
    OBVIOUS
  <2>0. \A i \in 1 .. n : (i = 1 => Empty \in K(i)) /\ (i # 1 => fk(i - 1) \in K(i))
    BY <1>2
  <2>1. CASE j \in 1 .. n /\ j < t
    <3>1. j # 1 => j - 1 \in 1 .. n /\ j - 1 < t
      BY <1>1, <1>5, <2>1
    <3> QED BY <1>7, <2>0, <2>1, <3>1
  <2>2. CASE j = t
    <3>1. j # 1 => j - 1 \in 1 .. n /\ j - 1 < t
      BY <1>1, <1>5, <2>2
    <3>2. j = 1 => Empty \in K(t) /\ Empty < F
      <4>1. PICK x \in K(t) : x < F
        BY <1>4 DEF K, F
      <4>2. x \in Nat
        BY <1>1, <1>5
      <4>3. Empty < F
        BY <1>9, <4>1, <4>2 DEF Empty
      <4> QED BY <1>5, <2>0, <2>2, <4>3
    <3>3. j # 1 => gk(j - 1) \in K(t) /\ gk(j - 1) < F
      BY <1>5, <1>7, <1>9, <2>0, <2>2, <3>1
    <3> QED BY <1>7, <2>2, <3>2, <3>3
  <2>3. CASE j = t + 1
    <3>1. j # 1 /\ j - 1 = t
      BY <1>5, <2>3
    <3>2. F \in G(t + 1)
      <4>1. F \in K(t)
        BY <1>4 DEF K, F
      <4> QED BY <1>7, <1>9, <4>1
    <3> QED BY <1>7, <2>3, <3>1, <3>2
  <2>4. ASSUME NEW i \in 1 .. n, t < i, j = i + 1
        PROVE  (IF j = 1 THEN Empty ELSE gk(j - 1)) \in G(j)
    <3>1. j # 1 /\ j - 1 = i /\ i # 1 /\ t < n
      BY <1>1, <1>5, <2>4
    <3>2. fk(i - 1) \in K(i) /\ G(j) = K(i)
      BY <1>7, <2>0, <2>4, <3>1
    <3>3. gk(i) = fk(i - 1)
      <4>1. CASE i = t + 1
        <5>1. i - 1 = t
          BY <1>5, <4>1
        <5> QED BY <1>7, <3>1, <4>1, <5>1
      <4>2. CASE i # t + 1
        <5>1. i - 1 \in 1 .. n /\ t < i - 1 /\ (i - 1) + 1 = i
          BY <1>1, <1>5, <2>4, <4>2
        <5>2. gk((i - 1) + 1) = fk(i - 1)
          BY <1>7, <5>1
        <5> QED BY <5>1, <5>2
      <4> QED BY <4>1, <4>2
    <3> QED BY <3>1, <3>2, <3>3
  <2> QED BY <1>6, <2>1, <2>2, <2>3, <2>4
<1>14. n + 1 >= 1
  BY <1>1
<1> DEFINE m == Len(qs)
<1>15. m = n + 1
  BY <1>3
<1> HIDE DEF m
<1>16. m >= 1 /\ \A j \in 1 .. m : PageOK(kd, d, qs[j])
  BY <1>8, <1>14, <1>15
<1>17. \A j \in 1 .. m : qs[j].fence = NoFence <=> j = m
  BY <1>8, <1>15
<1>18. \A i, j \in 1 .. m : i < j /\ j < m => FenceKey(qs[i]) < FenceKey(qs[j])
  BY <1>10, <1>15 DEF gk
<1>19. \A i, j \in 1 .. m : i < j => \A x \in PageKeys(qs[j]) : FenceKey(qs[i]) <= x
  BY <1>11, <1>15 DEF gk, G
<1>20. UNION {PageKeys(qs[i]) : i \in 1 .. m} = keys \union {k}
  BY <1>12, <1>15 DEF G
<1>21. kd = "inter" => \A i \in 1 .. m :
         (IF i = 1 THEN Empty ELSE FenceKey(qs[i - 1])) \in PageKeys(qs[i])
  BY <1>13, <1>15 DEF gk, G
<1> QED BY <1>16, <1>17, <1>18, <1>19, <1>20, <1>21 DEF Level, m

(* Lemma: a page without space is split. *)
LEMMA SplitForKeeps ==
  ASSUME Roomy, LevelInv, NEW k \in Keys, SplitFor(k)
  PROVE  LevelInv'
<1> DEFINE n == Len(pages)
           t == Target(k)
           p == pages[t]
           qs == SubSeq(pages, 1, t - 1) \o Split(p, k) \o SubSeq(pages, t + 1, n)
<1>1. /\ kind \in Kinds /\ deletes \in 0 .. MaxDeletes /\ (kind = "inter" => deletes = 0)
      /\ Level(kind, deletes, pages, present) /\ deletes \in Nat /\ NoWrap(kind, deletes)
  BY LevelNoWrap DEF LevelInv
<1>2. /\ k \notin present /\ Count(p) >= 2 /\ pages' = qs
      /\ present' = present \union {k} /\ kind' = kind /\ deletes' = deletes
  BY DEF SplitFor
<1>3. k \in Nat /\ k \in AllKeys
  BY IndexPageAssumption DEF AllKeys
<1>4. /\ t \in 1 .. n /\ (p.fence # NoFence => k < FenceKey(p))
      /\ \A i \in 1 .. n : i < t => FenceKey(pages[i]) <= k
  BY <1>3, TargetIs
<1>5. /\ \A i \in 1 .. n : PageOK(kind, deletes, pages[i])
      /\ UNION {PageKeys(pages[i]) : i \in 1 .. n} = present
      /\ pages \in Seq(Pages)
  BY <1>1, LevelFacts
<1> HIDE DEF t
<1>6. PageOK(kind, deletes, p) /\ k \notin PageKeys(p)
  <2> HIDE DEF n
  <2> QED BY <1>2, <1>4, <1>5
<1> HIDE DEF p
<1>7. Len(p.slots) >= 2
  BY <1>2 DEF Count
<1>8. PICK l, r : Split(p, k) = <<l, r>> /\ IsSplit(kind, deletes, p, k, l, r)
  BY <1>1, <1>4, <1>6, <1>7, SplitIs
<1>9. l \in Pages /\ r \in Pages
  BY <1>8 DEF IsSplit, PageOK
<1>10. qs = SubSeq(pages, 1, t - 1) \o <<l, r>> \o SubSeq(pages, t + 1, n)
  BY <1>8
<1> DEFINE zs == SubSeq(pages, 1, t - 1) \o <<l, r>> \o SubSeq(pages, t + 1, n)
<1>11. zs \in Seq(Pages) /\ IsSplice(zs, pages, t, l, r)
  BY <1>4, <1>5, <1>9, SpliceIs
<1> HIDE DEF qs, zs
<1>12. Level(kind, deletes, zs, present \union {k})
  <2>1. t \in 1 .. Len(pages) /\ \A i \in 1 .. Len(pages) : i < t => FenceKey(pages[i]) <= k
    BY <1>4
  <2>2. IsSplit(kind, deletes, pages[t], k, l, r)
    BY <1>8 DEF p
  <2> QED BY <1>1, <1>3, <1>11, <2>1, <2>2, LevelSplit
<1>13. Level(kind, deletes, pages', present')
  BY <1>2, <1>10, <1>12 DEF zs
<1> QED BY <1>1, <1>2, <1>13 DEF LevelInv

(* Lemma: a level of one page without fence. *)
LEMMA OnePage ==
  ASSUME Roomy, NEW kd \in Kinds, NEW d, NEW p, PageOK(kd, d, p), p.fence = NoFence,
         kd = "inter" => Empty \in PageKeys(p)
  PROVE  Level(kd, d, <<p>>, PageKeys(p))
<1> DEFINE ps == <<p>>
<1>1. p \in Pages
  BY DEF PageOK
<1>2. ps \in Seq(Pages) /\ Len(ps) = 1 /\ ps[1] = p
  BY <1>1
<1> HIDE DEF ps
<1>3. \A i \in 1 .. 1 : i = 1
  OBVIOUS
<1>4. \A i, j \in 1 .. 1 : ~(i < j)
  OBVIOUS
<1>5. UNION {PageKeys(ps[i]) : i \in 1 .. 1} = PageKeys(p)
  <2>1. 1 \in 1 .. 1
    OBVIOUS
  <2> QED BY <1>2, <1>3, <2>1
<1>6. \A i \in 1 .. 1 : PageOK(kd, d, ps[i]) /\ (ps[i].fence = NoFence <=> i = 1)
  BY <1>2, <1>3
<1>7. kd = "inter" => \A i \in 1 .. 1 : (IF i = 1 THEN Empty ELSE FenceKey(ps[i - 1])) \in PageKeys(ps[i])
  BY <1>2, <1>3
<1>8. 1 >= 1
  OBVIOUS
<1>9. Level(kd, d, ps, PageKeys(p))
  BY <1>2, <1>4, <1>5, <1>6, <1>7, <1>8 DEF Level
<1> QED BY <1>9 DEF ps

(* Lemma: the empty leaf. *)
LEMMA InitPageIs ==
  ASSUME Roomy, NEW kd \in Kinds, NEW d \in Nat
  PROVE  PageOK(kd, d, InitPage) /\ PageKeys(InitPage) = {} /\ InitPage.fence = NoFence
<1> DEFINE p == InitPage
<1>1. p.slots = <<>> /\ p.heap = <<>> /\ p.top = PageSize /\ p.fence = NoFence
      /\ p = [slots |-> p.slots, heap |-> p.heap, top |-> p.top, fence |-> p.fence]
  BY DEF InitPage
<1> HIDE DEF p
<1>2. PageSize \in Nat /\ HeaderSize \in Nat /\ HeaderSize < PageSize /\ MaxTuple \in Nat
      /\ TupleAlign[kd] \in {2, 4}
  BY IndexPageAssumption DEF Roomy
<1>3. p.heap \in Heaps
  <2> DEFINE E == {}
  <2>1. <<>> \in [E -> AllKeys] /\ E \in SUBSET Nat
    OBVIOUS
  <2> HIDE DEF E
  <2> QED BY <1>1, <2>1, HeapIs
<1>4. p.slots \in Seq(Nat) /\ Len(p.slots) = 0 /\ DOMAIN p.slots = {} /\ Range(p.slots) = {}
  BY <1>1 DEF Range
<1>5. p \in Pages
  <2>1. NoFence \in Nat
    BY DEF NoFence
  <2>2. p.slots \in Seq(Nat) /\ p.heap \in Heaps /\ p.top \in Nat /\ p.fence \in Nat
    BY <1>1, <1>2, <1>3, <1>4, <2>1
  <2> QED BY <1>1, <2>2 DEF Pages
<1>6. Live(p) = {} /\ PageKeys(p) = {}
  BY <1>1, <1>4 DEF Live, PageKeys
<1>7. Offset(kd, PageSize)
  <2>1. PageSize % 4 = 0
    BY IndexPageAssumption
  <2>2. PageSize % TupleAlign[kd] = 0
    BY <1>2, <2>1
  <2> QED BY <1>2, <2>2 DEF Offset
<1>8. Geometry(kd, d, p)
  <2>1. HeaderSize + 2 * Len(p.slots) <= p.top
    BY <1>1, <1>2, <1>4
  <2>2. PageSize <= p.top + (Len(p.slots) + 1 + d) * MaxTuple
    <3> DEFINE c == Len(p.slots) + 1 + d
    <3>1. c \in Nat
      BY <1>4
    <3> HIDE DEF c
    <3>2. c * MaxTuple \in Nat
      BY <1>2, <3>1
    <3> DEFINE x == c * MaxTuple
    <3>3. x \in Nat
      BY <3>2
    <3> HIDE DEF x
    <3>4. PageSize <= p.top + x
      BY <1>1, <1>2, <3>3
    <3> QED BY <3>4 DEF x, c
  <2> QED BY <1>1, <1>6, <1>7, <2>1, <2>2 DEF Geometry
<1>9. Ordered(p)
  BY <1>1, <1>4 DEF Ordered
<1> QED BY <1>1, <1>5, <1>6, <1>8, <1>9 DEF PageOK, p

(* Lemma: the page CreateRoot makes. *)
LEMMA RootIs ==
  ASSUME Roomy, kind \in Kinds, NEW d \in Nat, NEW k \in Keys
  PROVE  /\ PageOK(kind, d, AppendAll(<<Empty, k>>, FALSE))
         /\ PageKeys(AppendAll(<<Empty, k>>, FALSE)) = {Empty, k}
         /\ AppendAll(<<Empty, k>>, FALSE).fence = NoFence
<1> DEFINE ks == <<Empty, k>>
           f == 0
           hf == FALSE
           P == PartialSums(Sizes(kind, ks))
           u == P[2]
           m == MaxTuple
<1>1. k \in AllKeys /\ Empty \in AllKeys /\ k \in Nat /\ k # 0
  BY IndexPageAssumption DEF AllKeys, Empty
<1>2. ks \in Seq(AllKeys) /\ Len(ks) = 2 /\ ks[1] = Empty /\ ks[2] = k
  BY <1>1
<1> HIDE DEF ks
<1>3. u \in Nat /\ u <= 2 * m
  <2>1. \A i \in 0 .. Len(ks) : P[i] \in Nat /\ P[i] <= i * MaxTuple
    BY <1>2, SizesAre
  <2>2. 2 \in 0 .. Len(ks)
    BY <1>2
  <2> QED BY <2>1, <2>2
<1>4. HeaderSize + 4 + u <= PageSize
  <2>1. 1 <= m
    <3>1. 1 <= Padded(kind, k) /\ Padded(kind, k) <= m /\ Padded(kind, k) \in Nat
      BY <1>1, PaddedIs
    <3>2. m \in Nat
      BY DEF Roomy
    <3> QED BY <3>1, <3>2
  <2>2. /\ m \in Nat /\ FullCount \in Nat /\ MinLength \in Nat
        /\ HeaderSize \in Nat /\ PageSize \in Nat
        /\ HeaderSize + 2 * (FullCount + 1) + (FullCount + 2) * m <= PageSize
        /\ 6 * m <= FullCount * MinLength
    BY IndexPageAssumption DEF Roomy
  <2> HIDE DEF m, u
  <2>3. FullCount # 0
    BY <2>1, <2>2
  <2> DEFINE c == FullCount + 2
             two == 2
             x == c * m
  <2>4. c \in Int /\ two \in Int /\ two <= c
    BY <2>2
  <2>5. two * m <= c * m /\ c * m \in Int
    <3> HIDE DEF c, two
    <3> QED BY <2>2, <2>4, Products
  <2>6. 2 * m <= x /\ x \in Int /\ HeaderSize + 2 * (FullCount + 1) + x <= PageSize
    BY <2>2, <2>5
  <2> HIDE DEF x, c
  <2> QED BY <1>3, <2>2, <2>3, <2>6
<1>5. f \in 0 .. 1 /\ hf \in BOOLEAN /\ f = (IF hf THEN 1 ELSE 0) /\ f <= Len(ks) /\ ~hf
  BY <1>2
<1>6. HeaderSize + 2 * (Len(ks) - f) + PartialSums(Sizes(kind, ks))[Len(ks)] <= PageSize
  <2>1. 2 * (Len(ks) - f) = 4
    BY <1>2
  <2> QED BY <1>2, <1>4, <2>1
<1>7. f + 1 .. Len(ks) = {1, 2}
  BY <1>2
<1>8. \A i, j \in f + 1 .. Len(ks) : i < j => ks[i] < ks[j]
  <2>1. \A i, j \in {1, 2} : i < j => i = 1 /\ j = 2
    OBVIOUS
  <2>2. ks[1] < ks[2]
    BY <1>1, <1>2 DEF Empty
  <2> QED BY <1>7, <2>1, <2>2
<1>9. {ks[i] : i \in f + 1 .. Len(ks)} = {Empty, k}
  BY <1>2, <1>7
<1>10. hf => \A i \in f + 1 .. Len(ks) : ks[i] < ks[1]
  BY <1>5
<1> HIDE DEF f, hf
<1>11. /\ PageOK(kind, d, AppendAll(ks, hf))
       /\ PageKeys(AppendAll(ks, hf)) = {ks[i] : i \in f + 1 .. Len(ks)}
       /\ AppendAll(ks, hf).fence = NoFence <=> ~hf
  BY <1>2, <1>5, <1>6, <1>8, <1>10, AppendAllIs, Zenon
<1> QED BY <1>5, <1>9, <1>11 DEF ks, hf

(* Lemma: the first level is as the invariant says. *)
LEMMA LevelInit ==
  ASSUME Roomy, PageInit PROVE LevelInv
<1>1. deletes = 0 /\ deletes \in 0 .. MaxDeletes /\ deletes \in Nat
  BY IndexPageAssumption DEF PageInit
<1>2. CASE kind = "leaf" /\ present = {} /\ pages = <<InitPage>>
  <2>1. kind \in Kinds /\ kind # "inter"
    BY <1>2 DEF Kinds
  <2>2. PageOK(kind, deletes, InitPage) /\ PageKeys(InitPage) = {} /\ InitPage.fence = NoFence
    BY <1>1, <2>1, InitPageIs
  <2>3. Level(kind, deletes, <<InitPage>>, PageKeys(InitPage))
    BY <2>1, <2>2, OnePage
  <2> QED BY <1>1, <1>2, <2>1, <2>2, <2>3 DEF LevelInv
<1>3. ASSUME NEW k \in Keys, kind = "inter", present = {Empty, k},
             pages = <<AppendAll(<<Empty, k>>, FALSE)>>
      PROVE  LevelInv
  <2> DEFINE p == AppendAll(<<Empty, k>>, FALSE)
  <2>1. kind \in Kinds
    BY <1>3 DEF Kinds
  <2>2. PageOK(kind, deletes, p) /\ PageKeys(p) = {Empty, k} /\ p.fence = NoFence
    BY <1>1, <2>1, RootIs
  <2>3. pages = <<p>>
    BY <1>3
  <2> HIDE DEF p
  <2>4. Level(kind, deletes, <<p>>, PageKeys(p))
    BY <2>1, <2>2, OnePage
  <2> QED BY <1>1, <1>3, <2>1, <2>2, <2>3, <2>4 DEF LevelInv
<1> QED BY <1>2, <1>3 DEF PageInit

(* Lemma: the level invariant holds from the first page on, through any       *)
(* inserts, splits and deletes.                                              *)
LEMMA LevelAlways ==
  ASSUME Roomy PROVE PageSpec => []LevelInv
<1>1. PageInit => LevelInv
  BY LevelInit
<1>2. LevelInv /\ [PageNext]_pageVars => LevelInv'
  <2> SUFFICES ASSUME LevelInv, [PageNext]_pageVars PROVE LevelInv'
    OBVIOUS
  <2>1. ASSUME NEW k \in Keys, InsertKey(k) PROVE LevelInv'
    BY <2>1, InsertKeyKeeps
  <2>2. ASSUME NEW k \in Keys, SplitFor(k) PROVE LevelInv'
    BY <2>2, SplitForKeeps
  <2>3. ASSUME NEW k \in Keys, DeleteKey(k) PROVE LevelInv'
    BY <2>3, DeleteKeyKeeps
  <2>4. CASE UNCHANGED pageVars
    BY <2>4 DEF pageVars, LevelInv
  <2> QED BY <2>1, <2>2, <2>3, <2>4 DEF PageNext
<1> QED BY <1>1, <1>2, PTL DEF PageSpec

(* Theorem: in pages that are large for their keys (Roomy) header, slots, live *)
(* tuples and the fence never overlap and stay inside the page, aligned, as    *)
(* Insert, Delete, CompactHeap and CopyHalfRight place them.                 *)
THEOREM NoOverlapAlways ==
  ASSUME Roomy PROVE PageSpec => []NoOverlap
<1>1. LevelInv => NoOverlap
  <2> SUFFICES ASSUME LevelInv PROVE NoOverlap
    OBVIOUS
  <2>1. kind \in Kinds /\ Level(kind, deletes, pages, present)
    BY DEF LevelInv
  <2>2. DOMAIN pages = 1 .. Len(pages) /\ \A i \in 1 .. Len(pages) : PageOK(kind, deletes, pages[i])
    BY <2>1, LevelFacts
  <2>3. ASSUME NEW p, PageOK(kind, deletes, p), NEW o \in Live(p)
        PROVE  /\ o >= HeaderSize + 2 * Count(p)
               /\ End(p, o) <= PageSize
               /\ o % TupleAlign[kind] = 0
               /\ \A x \in Live(p) : x < o => End(p, x) <= o
    <3>1. /\ HeaderSize + 2 * Len(p.slots) <= p.top
          /\ \A x \in Live(p) : Offset(kind, x) /\ p.top <= x /\ x + Padded(kind, At(p, x)) <= PageSize
          /\ \A x, y \in Live(p) : x < y => x + Padded(kind, At(p, x)) <= y
      BY <2>3 DEF PageOK, Geometry
    <3>2. /\ \A x \in Live(p) : At(p, x) \in AllKeys /\ x \in Nat
          /\ Len(p.slots) \in Nat /\ p.top \in Nat
      BY <2>1, <2>3, PageFacts
    <3>3. PageSize \in Nat /\ HeaderSize \in Nat /\ TupleSize[kind] \in Nat
      BY <2>1, IndexPageAssumption
    <3>4. ASSUME NEW x \in Live(p) PROVE End(p, x) \in Nat /\ End(p, x) <= x + Padded(kind, At(p, x))
                                         /\ Padded(kind, At(p, x)) \in Nat
      <4> DEFINE k == At(p, x)
      <4>1. /\ Length(k) \in Nat /\ Padded(kind, k) \in Nat
            /\ Length(k) + TupleSize[kind] <= Padded(kind, k)
        BY <2>1, <3>2, <3>4, PaddedIs
      <4>2. End(p, x) = x + TupleSize[kind] + Length(k)
        BY DEF End, At
      <4>3. x \in Nat
        BY <3>2, <3>4
      <4> HIDE DEF k
      <4>4. /\ x + TupleSize[kind] + Length(k) \in Nat
            /\ x + TupleSize[kind] + Length(k) <= x + Padded(kind, k)
        BY <3>3, <4>1, <4>3
      <4> QED BY <4>1, <4>2, <4>4 DEF k
    <3>5. o >= HeaderSize + 2 * Count(p)
      <4>1. p.top <= o /\ o \in Nat
        BY <2>3, <3>1, <3>2
      <4>2. Count(p) = Len(p.slots)
        BY DEF Count
      <4> QED BY <3>1, <3>2, <3>3, <4>1, <4>2
    <3>6. End(p, o) <= PageSize
      <4> DEFINE w == Padded(kind, At(p, o))
                 e == End(p, o)
      <4>1. e \in Nat /\ e <= o + w /\ w \in Nat /\ o + w <= PageSize /\ o \in Nat
        BY <2>3, <3>1, <3>2, <3>4
      <4> HIDE DEF w, e
      <4>2. e <= PageSize
        BY <3>3, <4>1
      <4> QED BY <4>2 DEF e
    <3>7. o % TupleAlign[kind] = 0
      BY <2>3, <3>1 DEF Offset
    <3>8. ASSUME NEW x \in Live(p), x < o PROVE End(p, x) <= o
      <4> DEFINE w == Padded(kind, At(p, x))
                 e == End(p, x)
      <4>1. e \in Nat /\ e <= x + w /\ w \in Nat /\ x + w <= o /\ x \in Nat /\ o \in Nat
        BY <2>3, <3>1, <3>2, <3>4, <3>8
      <4> HIDE DEF w, e
      <4>2. e <= o
        BY <4>1
      <4> QED BY <4>2 DEF e
    <3> QED BY <3>5, <3>6, <3>7, <3>8
  <2> QED BY <2>2, <2>3 DEF NoOverlap
<1>2. PageSpec => []LevelInv
  BY LevelAlways
<1> QED BY <1>1, <1>2, PTL

(* Theorem: inserts, splits and deletes lose no key, duplicate none and keep   *)
(* each page sorted below its fence: every key is on the page the right links *)
(* lead to, and only the last page has no fence.                             *)
THEOREM LevelSortedAlways ==
  ASSUME Roomy PROVE PageSpec => []LevelSorted
<1>1. LevelInv => LevelSorted
  <2> SUFFICES ASSUME LevelInv PROVE LevelSorted
    OBVIOUS
  <2>1. kind \in Kinds /\ Level(kind, deletes, pages, present)
    BY DEF LevelInv
  <2>2. /\ DOMAIN pages = 1 .. Len(pages)
        /\ \A i \in 1 .. Len(pages) : /\ PageOK(kind, deletes, pages[i])
                                      /\ pages[i].fence = NoFence <=> i = Len(pages)
                                      /\ PageKeys(pages[i]) \subseteq Nat
        /\ UNION {PageKeys(pages[i]) : i \in 1 .. Len(pages)} = present
    BY <2>1, LevelFacts
  <2>3. ASSUME NEW i \in 1 .. Len(pages), NEW k \in PageKeys(pages[i]) PROVE Target(k) = i
    <3>1. k \in Nat
      BY <2>2, <2>3
    <3> QED BY <2>3, <3>1, TargetIs
  <2>4. ASSUME NEW p, PageOK(kind, deletes, p)
        PROVE  \A x, y \in 0 .. Count(p) - 1 : x < y => KeyAt(p, x) < KeyAt(p, y)
    <3> DEFINE n == Len(p.slots)
    <3>1. n \in Nat
      BY <2>1, <2>4, PageFacts
    <3>2. \A i, j \in 1 .. n : i < j => At(p, p.slots[i]) < At(p, p.slots[j])
      BY <2>4 DEF PageOK, Ordered
    <3>3. \A x : KeyAt(p, x) = At(p, p.slots[x + 1])
      BY DEF KeyAt, At
    <3>4. Count(p) = n
      BY DEF Count
    <3> HIDE DEF n
    <3>5. ASSUME NEW x \in 0 .. n - 1, NEW y \in 0 .. n - 1, x < y PROVE KeyAt(p, x) < KeyAt(p, y)
      <4>1. x + 1 \in 1 .. n /\ y + 1 \in 1 .. n /\ x + 1 < y + 1
        BY <3>1, <3>5
      <4> QED BY <3>2, <3>3, <4>1
    <3> QED BY <3>4, <3>5
  <2> QED BY <2>2, <2>3, <2>4 DEF LevelSorted
<1>2. PageSpec => []LevelInv
  BY LevelAlways
<1> QED BY <1>1, <1>2, PTL

(* Theorem: when Split is called on a page with two tuples or more, however    *)
(* many deletes have thinned it out, its other assertions hold: the new key   *)
(* fits into its half, and CompactHeap moves no tuple down, over one it has   *)
(* not moved yet.                                                            *)
THEOREM SplitAssertsAlways ==
  ASSUME Roomy PROVE PageSpec => []SplitAsserts
<1>1. LevelInv => SplitAsserts
  <2> SUFFICES ASSUME LevelInv PROVE SplitAsserts
    OBVIOUS
  <2>1. /\ kind \in Kinds /\ Level(kind, deletes, pages, present)
        /\ deletes \in Nat /\ NoWrap(kind, deletes)
    BY LevelNoWrap DEF LevelInv
  <2>2. \A i \in 1 .. Len(pages) : PageOK(kind, deletes, pages[i])
    BY <2>1, LevelFacts
  <2>3. deletes \in Nat
    BY <2>1
  <2>4. ASSUME NEW k \in Keys, NEW p, p = pages[Target(k)], Count(p) >= 2
        PROVE  /\ HasSpace(IF KeyAt(p, FindSplitPoint(p)) <= k THEN CopyHalfRight(p, FindSplitPoint(p))
                           ELSE KeepHalfLeft(p, FindSplitPoint(p)), k)
               /\ \A i \in 1 .. FindSplitPoint(p) :
                    KeepHalfLeft(p, FindSplitPoint(p)).slots[i] >= p.slots[i]
    <3> DEFINE c == FindSplitPoint(p)
               n == Len(p.slots)
               l == KeepHalfLeft(p, c)
               r == CopyHalfRight(p, c)
    <3>1. k \in Nat /\ k \in AllKeys
      BY IndexPageAssumption DEF AllKeys
    <3>2. PageOK(kind, deletes, p)
      BY <2>2, <2>4, <3>1, TargetIs
    <3>3. n >= 2
      BY <2>4 DEF Count
    <3>4. c \in 1 .. n - 1
      BY <2>1, <3>2, <3>3, FindSplitPointIs
    <3>5. PageOK(kind, deletes, l) /\ \A i \in 1 .. c : p.slots[i] <= l.slots[i]
      BY <2>1, <2>3, <3>2, <3>4, KeepHalfLeftIs
    <3>6. PageOK(kind, deletes, r)
      BY <2>1, <2>3, <3>2, <3>4, CopyHalfRightIs
    <3>7. Fits(kind, l, k) /\ Fits(kind, r, k)
      BY <2>1, <2>3, <3>1, <3>2, <3>3, HalvesFit
    <3> HIDE DEF l, r
    <3>8. HasSpace(l, k) /\ HasSpace(r, k)
      BY <2>1, <3>1, <3>5, <3>6, <3>7, SpaceIs
    <3>9. HasSpace(IF KeyAt(p, c) <= k THEN r ELSE l, k)
      <4>1. CASE KeyAt(p, c) <= k
        BY <3>8, <4>1
      <4>2. CASE ~(KeyAt(p, c) <= k)
        BY <3>8, <4>2
      <4> QED BY <4>1, <4>2
    <3>10. \A i \in 1 .. c : l.slots[i] >= p.slots[i]
      <4> TAKE i \in 1 .. c
      <4>1. p.slots[i] <= l.slots[i]
        BY <3>5
      <4> QED BY <4>1
    <3> QED BY <3>9, <3>10 DEF l, r
  <2> QED BY <2>4 DEF SplitAsserts
<1>2. PageSpec => []LevelInv
  BY LevelAlways
<1> QED BY <1>1, <1>2, PTL

-----------------------------------------------------------------------------
(* Index pages: lookups.                                                     *)

(* Lemma: keys below a prefix are the keys below its first tuple id. *)
LEMMA PrefixIs ==
  ASSUME NEW k \in Nat
  PROVE  /\ Prefix(k) * TidRange \in Nat /\ Prefix(Prefix(k) * TidRange) = Prefix(k)
         /\ \A x \in Nat : Prefix(x) < Prefix(k) <=> x < Prefix(k) * TidRange
         /\ \A x \in Nat : Prefix(x) \in Nat
         /\ \A x, y \in Nat : x <= y => Prefix(x) <= Prefix(y)
<1> DEFINE b == TidRange
           c == Prefix(k)
           low == c * b
<1>1. b \in Nat /\ b >= 1
  BY IndexPageAssumption
<1>2. \A x \in Nat : /\ Prefix(x) \in Nat /\ Prefix(x) * b \in Nat
                     /\ Prefix(x) * b <= x /\ x < Prefix(x) * b + b
  <2> TAKE x \in Nat
  <2> DEFINE q == x \div b
  <2>1. q \in Int /\ q * b <= x /\ x < q * b + b
    <3> HIDE DEF b
    <3> QED BY <1>1, Quotient
  <2>2. q \in Nat
    <3> HIDE DEF b
    <3> QED BY <1>1
  <2>3. Prefix(x) = q
    BY DEF Prefix
  <2> HIDE DEF q, b
  <2>4. q * b \in Nat
    BY <1>1, <2>2
  <2> QED BY <2>1, <2>2, <2>3, <2>4
<1> HIDE DEF b
<1>3. ASSUME NEW u \in Nat, NEW v \in Nat, u < v
      PROVE  u * b + b <= v * b /\ u * b \in Nat /\ v * b \in Nat
  <2> DEFINE one == 1
             w == u + one
  <2>1. u \in Int /\ one \in Int /\ w \in Int /\ v \in Int /\ w <= v /\ one * b = b
    BY <1>1, <1>3
  <2>2. w * b <= v * b
    <3> HIDE DEF w, one
    <3> QED BY <1>1, <2>1, Products
  <2>3. w * b = u * b + one * b
    <3> HIDE DEF one
    <3> QED BY <1>1, <2>1, Products
  <2>4. u * b \in Nat /\ v * b \in Nat
    BY <1>1
  <2> HIDE DEF one, w
  <2> QED BY <2>1, <2>2, <2>3, <2>4
<1>4. c \in Nat /\ low \in Nat
  BY <1>2
<1>5. \A x \in Nat : Prefix(x) < c <=> x < low
  <2> TAKE x \in Nat
  <2> DEFINE a == Prefix(x)
             ab == a * b
  <2>1. a \in Nat /\ ab \in Nat /\ ab <= x /\ x < ab + b
    BY <1>2
  <2>2. a < c => ab + b <= low
    <3> HIDE DEF a, c
    <3> QED BY <1>3, <1>4, <2>1
  <2>3. c < a => low + b <= ab
    <3> HIDE DEF a, c
    <3> QED BY <1>3, <1>4, <2>1
  <2>4. c = a => low = ab
    OBVIOUS
  <2> HIDE DEF a, ab, c, low
  <2>5. a < c <=> x < low
    BY <1>1, <1>4, <2>1, <2>2, <2>3, <2>4
  <2> QED BY <2>5 DEF a
<1>6. ASSUME NEW x \in Nat, NEW y \in Nat, x <= y PROVE Prefix(x) <= Prefix(y)
  <2> DEFINE u == Prefix(x)
             v == Prefix(y)
             ub == u * b
             vb == v * b
  <2>1. /\ u \in Nat /\ ub \in Nat /\ ub <= x /\ x < ub + b
        /\ v \in Nat /\ vb \in Nat /\ vb <= y /\ y < vb + b
    BY <1>2
  <2>2. v < u => vb + b <= ub
    <3> HIDE DEF u, v
    <3> QED BY <1>3, <2>1
  <2> HIDE DEF u, v, ub, vb
  <2>3. u <= v
    BY <1>1, <1>6, <2>1, <2>2
  <2> QED BY <2>3 DEF u, v
<1>7. Prefix(low) = c
  <2> DEFINE a == Prefix(low)
             ab == a * b
  <2>1. a \in Nat /\ ab \in Nat /\ ab <= low
    <3> HIDE DEF low
    <3> QED BY <1>2, <1>4
  <2>2. ~(a < c)
    <3>1. ~(low < low)
      BY <1>4
    <3> HIDE DEF low
    <3> QED BY <1>4, <1>5, <3>1
  <2>3. c < a => low + b <= ab
    <3> HIDE DEF a, c
    <3> QED BY <1>3, <1>4, <2>1
  <2> HIDE DEF a, ab, c, low
  <2>4. a = c
    BY <1>1, <1>4, <2>1, <2>2, <2>3
  <2> QED BY <2>4 DEF a
<1> QED BY <1>2, <1>4, <1>5, <1>6, <1>7 DEF b

(* Lemma: Get returns the page's keys of the prefix, and CheckUnique looks at  *)
(* the same.                                                                 *)
LEMMA GetIs ==
  ASSUME Roomy, NEW kd \in Kinds, NEW d, NEW p, PageOK(kd, d, p), NEW k \in Nat
  PROVE  /\ Get(p, Prefix(k) * TidRange) = {x \in PageKeys(p) : Prefix(x) = Prefix(k)}
         /\ CheckUnique(p, k) = Get(p, Prefix(k) * TidRange)
<1> DEFINE n == Len(p.slots)
           key(i) == At(p, p.slots[i])
           low == Prefix(k) * TidRange
           c == Prefix(k)
           r == FindInsertPosition(p, low)
           J == {j \in r .. n - 1 : \A h \in r .. j : Prefix(KeyAt(p, h)) = c}
<1>1. n \in Nat /\ PageKeys(p) = {key(i) : i \in 1 .. n} /\ \A i \in 1 .. n : key(i) \in AllKeys
  BY PageFacts
<1>2. \A i \in 1 .. n : key(i) \in Nat
  BY <1>1, PaddedIs
<1>3. \A i, j \in 1 .. n : i < j => key(i) < key(j)
  BY DEF PageOK, Ordered
<1>4. /\ low \in Nat /\ Prefix(low) = c
      /\ \A x \in Nat : Prefix(x) < c <=> x < low
      /\ \A x \in Nat : Prefix(x) \in Nat
      /\ \A x, y \in Nat : x <= y => Prefix(x) <= Prefix(y)
      /\ c \in Nat
  BY PrefixIs
<1>5. \A x : KeyAt(p, x) = key(x + 1)
  BY DEF KeyAt, At
<1>6. Count(p) = n
  BY DEF Count
<1> HIDE DEF low
<1>7. r \in 0 .. n /\ \A i \in 1 .. n : key(i) < low <=> i <= r
  BY <1>1, <1>2, <1>3, <1>4, InsertPositionIs
<1>8. Get(p, low) = {KeyAt(p, i) : i \in J}
  BY <1>4, <1>6 DEF Get
<1>9. FindStartPosition(p, k) = r
  <2> DEFINE A == {i \in Slots(p) : Prefix(KeyAt(p, i)) < Prefix(k)}
             B == {i \in Slots(p) : KeyAt(p, i) < low}
  <2>1. Slots(p) = 0 .. n - 1
    BY <1>6 DEF Slots
  <2>2. ASSUME NEW i \in 0 .. n - 1 PROVE Prefix(KeyAt(p, i)) < c <=> KeyAt(p, i) < low
    <3>1. i + 1 \in 1 .. n
      BY <1>1, <2>2
    <3>2. KeyAt(p, i) \in Nat
      BY <1>2, <1>5, <3>1
    <3> QED BY <1>4, <3>2
  <2>3. A = B
    BY <2>1, <2>2
  <2>4. FindStartPosition(p, k) = BinarySearch(Count(p), A) /\ r = BinarySearch(Count(p), B)
    BY DEF FindStartPosition, FindInsertPosition
  <2> QED BY <2>3, <2>4
<1>10. CheckUnique(p, k) = {KeyAt(p, i) : i \in J}
  BY <1>6, <1>9 DEF CheckUnique
<1> HIDE DEF n, key, c, r
<1>11. ASSUME NEW j \in J PROVE KeyAt(p, j) \in PageKeys(p) /\ Prefix(KeyAt(p, j)) = c
  <2>1. j \in r .. n - 1 /\ r \in Nat /\ n \in Nat
    BY <1>1, <1>7, <1>11
  <2>2. j \in r .. j /\ j + 1 \in 1 .. n
    BY <2>1
  <2> QED BY <1>1, <1>5, <1>11, <2>2
<1>12. ASSUME NEW x \in PageKeys(p), Prefix(x) = c PROVE \E j \in J : x = KeyAt(p, j)
  <2>1. PICK i \in 1 .. n : x = key(i)
    BY <1>1, <1>12
  <2>2. x \in Nat /\ ~(x < low)
    <3>1. x \in Nat
      BY <1>2, <2>1
    <3>2. ~(Prefix(x) < c)
      BY <1>4, <1>12
    <3> QED BY <1>4, <3>1, <3>2
  <2>3. ~(i <= r) /\ r \in Nat /\ n \in Nat
    BY <1>1, <1>7, <2>1, <2>2
  <2>4. i - 1 \in r .. n - 1 /\ (i - 1) + 1 = i
    BY <2>3
  <2>5. ASSUME NEW h \in r .. i - 1 PROVE Prefix(KeyAt(p, h)) = c
    <3> DEFINE y == key(h + 1)
    <3>1. h + 1 \in 1 .. n /\ ~(h + 1 <= r) /\ h + 1 <= i
      BY <2>3, <2>5
    <3>2. y \in Nat /\ ~(y < low)
      BY <1>2, <1>7, <3>1
    <3>3. y <= x
      <4>1. CASE h + 1 = i
        BY <2>1, <2>2, <4>1
      <4>2. CASE h + 1 # i
        <5>1. h + 1 < i
          BY <2>3, <3>1, <4>2
        <5>2. y < x
          BY <1>3, <2>1, <3>1, <5>1
        <5> QED BY <2>2, <3>2, <5>2
      <4> QED BY <4>1, <4>2
    <3> HIDE DEF y
    <3>4. ~(Prefix(y) < c) /\ Prefix(y) <= Prefix(x) /\ Prefix(y) \in Nat
      BY <1>4, <2>2, <3>2, <3>3
    <3>5. Prefix(y) = c
      BY <1>4, <1>12, <3>4
    <3> QED BY <1>5, <3>5 DEF y
  <2>6. i - 1 \in J
    BY <2>4, <2>5
  <2> QED BY <1>5, <2>1, <2>4, <2>6
<1>13. {KeyAt(p, i) : i \in J} = {x \in PageKeys(p) : Prefix(x) = c}
  <2> HIDE DEF J
  <2> QED BY <1>11, <1>12
<1> QED BY <1>8, <1>10, <1>13 DEF low, c

(* Lemma: FindChild of an inner page that has a separator not above the key is *)
(* behind the greatest such separator.                                       *)
LEMMA FindChildIs ==
  ASSUME Roomy, NEW kd \in Kinds, NEW d, NEW p, PageOK(kd, d, p), NEW k \in Nat,
         \E x \in PageKeys(p) : x <= k
  PROVE  KeyAt(p, FindChild(p, k) - 1) = Max({x \in PageKeys(p) : x <= k})
<1> DEFINE n == Len(p.slots)
           key(i) == At(p, p.slots[i])
           up == k + 1
           r == FindInsertPosition(p, up)
           S == {x \in PageKeys(p) : x <= k}
<1>1. n \in Nat /\ PageKeys(p) = {key(i) : i \in 1 .. n} /\ \A i \in 1 .. n : key(i) \in AllKeys
  BY PageFacts
<1>2. \A i \in 1 .. n : key(i) \in Nat
  BY <1>1, PaddedIs
<1>3. \A i, j \in 1 .. n : i < j => key(i) < key(j)
  BY DEF PageOK, Ordered
<1>4. up \in Nat /\ \A x \in Nat : x < up <=> x <= k
  OBVIOUS
<1>5. \A x : KeyAt(p, x) = key(x + 1)
  BY DEF KeyAt, At
<1>6. Slots(p) = 0 .. n - 1
  BY DEF Slots, Count
<1> HIDE DEF up
<1>7. r \in 0 .. n /\ \A i \in 1 .. n : key(i) < up <=> i <= r
  BY <1>1, <1>2, <1>3, <1>4, InsertPositionIs
<1>8. FindChild(p, k) = r
  <2> DEFINE A == {i \in Slots(p) : KeyAt(p, i) <= k}
             B == {i \in Slots(p) : KeyAt(p, i) < up}
  <2>1. ASSUME NEW i \in 0 .. n - 1 PROVE KeyAt(p, i) <= k <=> KeyAt(p, i) < up
    <3>1. i + 1 \in 1 .. n
      BY <1>1, <2>1
    <3>2. KeyAt(p, i) \in Nat
      BY <1>2, <1>5, <3>1
    <3> QED BY <1>4, <3>2
  <2>2. A = B
    BY <1>6, <2>1
  <2>3. FindChild(p, k) = BinarySearch(Count(p), A) /\ r = BinarySearch(Count(p), B)
    BY DEF FindChild, FindInsertPosition
  <2> QED BY <2>2, <2>3
<1> HIDE DEF n, key, r
<1>9. \A i \in 1 .. n : key(i) <= k <=> i <= r
  BY <1>2, <1>4, <1>7
<1>10. r \in 1 .. n
  <2>1. PICK x \in PageKeys(p) : x <= k
    OBVIOUS
  <2>2. PICK i \in 1 .. n : x = key(i)
    BY <1>1
  <2>3. i <= r
    BY <1>9, <2>1, <2>2
  <2> QED BY <1>1, <1>7, <2>3
<1>11. key(r) \in S
  BY <1>1, <1>7, <1>9, <1>10
<1>12. \A y \in S : key(r) >= y
  <2> TAKE y \in S
  <2>1. PICK i \in 1 .. n : y = key(i)
    BY <1>1
  <2>2. i <= r
    BY <1>9, <2>1
  <2>3. i = r \/ i < r
    BY <1>10, <2>2
  <2>4. key(i) = key(r) \/ key(i) < key(r)
    BY <1>3, <1>10, <2>3
  <2>5. key(i) \in Nat /\ key(r) \in Nat
    BY <1>2, <1>10
  <2> QED BY <2>1, <2>4, <2>5
<1>13. S \in SUBSET Nat
  BY <1>1, <1>2
<1>14. Max(S) = key(r)
  <2> HIDE DEF S
  <2> DEFINE m == Max(S)
  <2>1. m \in S /\ \A y \in S : m >= y
    BY <1>11, <1>12 DEF Max
  <2>2. m \in Nat /\ key(r) \in Nat
    BY <1>11, <1>13, <2>1
  <2>3. m >= key(r) /\ key(r) >= m
    BY <1>11, <1>12, <2>1
  <2> HIDE DEF m
  <2>4. m = key(r)
    BY <2>2, <2>3
  <2> QED BY <2>4 DEF m
<1>15. KeyAt(p, FindChild(p, k) - 1) = key(r)
  <2>1. (r - 1) + 1 = r
    BY <1>10
  <2> QED BY <1>5, <1>8, <2>1
<1> QED BY <1>14, <1>15

(* Lemma: the keys of a prefix are on the pages from the one of its first      *)
(* tuple id on, as long as the fences have the prefix.                       *)
LEMMA PrefixRun ==
  ASSUME Roomy, LevelInv, NEW k \in Nat, NEW x \in present, Prefix(x) = Prefix(k)
  PROVE  /\ Target(x) \in Target(Prefix(k) * TidRange) .. Len(pages)
         /\ x \in PageKeys(pages[Target(x)])
         /\ \A j \in Target(Prefix(k) * TidRange) .. Target(x) - 1 :
              HighPrefixCmp(pages[j], Prefix(k) * TidRange)
<1> DEFINE n == Len(pages)
           low == Prefix(k) * TidRange
           c == Prefix(k)
           f == Target(low)
           t == Target(x)
           fk(i) == FenceKey(pages[i])
<1>1. kind \in Kinds /\ Level(kind, deletes, pages, present)
  BY DEF LevelInv
<1>2. /\ n \in Nat
      /\ \A i \in 1 .. n : pages[i].fence = NoFence <=> i = n
      /\ \A i \in 1 .. n : i < n => fk(i) \in Nat
      /\ \A i, j \in 1 .. n : i < j /\ j < n => fk(i) < fk(j)
      /\ \A i \in 1 .. n : PageKeys(pages[i]) \subseteq Nat
      /\ UNION {PageKeys(pages[i]) : i \in 1 .. n} = present
  BY <1>1, LevelFacts
<1>3. /\ low \in Nat /\ Prefix(low) = c
      /\ \A y \in Nat : Prefix(y) < c <=> y < low
      /\ \A y \in Nat : Prefix(y) \in Nat
      /\ \A y, z \in Nat : y <= z => Prefix(y) <= Prefix(z)
      /\ c \in Nat
  BY PrefixIs
<1>4. PICK i \in 1 .. n : x \in PageKeys(pages[i])
  BY <1>2
<1>5. x \in Nat
  BY <1>2, <1>4
<1>6. /\ t \in 1 .. n /\ t = i /\ (pages[t].fence # NoFence => x < fk(t))
      /\ \A j \in 1 .. n : j < t => fk(j) <= x
  BY <1>4, <1>5, TargetIs
<1> HIDE DEF low
<1>7. /\ f \in 1 .. n /\ (pages[f].fence # NoFence => low < fk(f))
      /\ \A j \in 1 .. n : j < f => fk(j) <= low
  BY <1>3, TargetIs
<1>8. Prefix(x) = c
  OBVIOUS
<1> HIDE DEF n, c, f, t
<1>9. low <= x
  <2>1. ~(Prefix(x) < c)
    BY <1>3, <1>8
  <2> QED BY <1>3, <1>5, <2>1
<1>10. f <= t
  <2> SUFFICES ASSUME t < f PROVE FALSE
    BY <1>6, <1>7
  <2>1. t < n
    BY <1>2, <1>6, <1>7
  <2>2. fk(t) <= low /\ fk(t) \in Nat /\ x < fk(t)
    BY <1>2, <1>6, <1>7, <2>1
  <2> QED BY <1>3, <1>5, <1>9, <2>2
<1>11. ASSUME NEW j \in f .. t - 1 PROVE HighPrefixCmp(pages[j], low)
  <2>1. j \in 1 .. n /\ j < t /\ j < n /\ f <= j /\ f < n
    BY <1>2, <1>6, <1>7, <1>11
  <2>2. fk(j) \in Nat /\ fk(j) <= x /\ fk(f) \in Nat /\ low < fk(f)
    BY <1>2, <1>6, <1>7, <2>1
  <2>3. fk(f) <= fk(j)
    <3>1. CASE f = j
      BY <2>2, <3>1
    <3>2. CASE f # j
      <4>1. f < j
        BY <1>7, <2>1, <3>2
      <4>2. fk(f) < fk(j)
        BY <1>2, <1>7, <2>1, <4>1
      <4> QED BY <2>2, <4>2
    <3> QED BY <3>1, <3>2
  <2> DEFINE y == fk(j)
  <2>4. y \in Nat /\ low < y /\ y <= x
    BY <1>3, <2>2, <2>3
  <2> HIDE DEF y
  <2>5. ~(Prefix(y) < c) /\ Prefix(y) <= Prefix(x) /\ Prefix(y) \in Nat
    BY <1>3, <1>5, <2>4
  <2>6. Prefix(y) = Prefix(low)
    BY <1>3, <1>8, <2>5
  <2>7. pages[j].fence # NoFence
    BY <1>2, <2>1
  <2> QED BY <2>6, <2>7 DEF HighPrefixCmp, y, FenceKey
<1>12. t \in f .. n
  BY <1>2, <1>6, <1>7, <1>10
<1> QED BY <1>4, <1>6, <1>11, <1>12 DEF n, low, f, t

(* Theorem: lookups find what is there. Get followed along the right links     *)
(* yields exactly the keys of the prefix that were inserted and not deleted,  *)
(* CheckUnique looks at the same keys, and FindChild of an inner page picks   *)
(* the last separator not above the key.                                     *)
THEOREM LookupsAgreeAlways ==
  ASSUME Roomy PROVE PageSpec => []LookupsAgree
<1>1. LevelInv => LookupsAgree
  <2> SUFFICES ASSUME LevelInv PROVE LookupsAgree
    OBVIOUS
  <2>1. kind \in Kinds /\ Level(kind, deletes, pages, present)
    BY DEF LevelInv
  <2>2. /\ Len(pages) \in Nat
        /\ \A i \in 1 .. Len(pages) : PageOK(kind, deletes, pages[i])
        /\ UNION {PageKeys(pages[i]) : i \in 1 .. Len(pages)} = present
    BY <2>1, LevelFacts
  <2>3. ASSUME NEW k \in Keys, NEW low, low = Prefix(k) * TidRange, NEW run,
               run = {i \in Target(low) .. Len(pages) :
                        \A j \in Target(low) .. i - 1 : HighPrefixCmp(pages[j], low)}
        PROVE  /\ UNION {Get(pages[i], low) : i \in run} = {x \in present : Prefix(x) = Prefix(k)}
               /\ \A i \in run : CheckUnique(pages[i], k) = Get(pages[i], low)
    <3>1. k \in Nat
      BY IndexPageAssumption
    <3>2. low \in Nat
      BY <2>3, <3>1, PrefixIs
    <3>3. Target(low) \in 1 .. Len(pages)
      BY <3>2, TargetIs
    <3>4. \A i \in run : i \in 1 .. Len(pages)
      BY <2>2, <2>3, <3>3
    <3>5. ASSUME NEW i \in run
          PROVE  /\ Get(pages[i], low) = {x \in PageKeys(pages[i]) : Prefix(x) = Prefix(k)}
                 /\ CheckUnique(pages[i], k) = Get(pages[i], low)
      <4>1. PageOK(kind, deletes, pages[i])
        BY <2>2, <3>4, <3>5
      <4> QED BY <2>1, <2>3, <3>1, <4>1, GetIs
    <3>6. ASSUME NEW x \in present, Prefix(x) = Prefix(k) PROVE \E i \in run : x \in Get(pages[i], low)
      <4>1. /\ Target(x) \in Target(low) .. Len(pages) /\ x \in PageKeys(pages[Target(x)])
            /\ \A j \in Target(low) .. Target(x) - 1 : HighPrefixCmp(pages[j], low)
        BY <2>3, <3>1, <3>6, PrefixRun
      <4>2. Target(x) \in run
        BY <2>3, <4>1
      <4> QED BY <3>5, <3>6, <4>1, <4>2
    <3>7. ASSUME NEW i \in run, NEW x \in Get(pages[i], low) PROVE x \in present /\ Prefix(x) = Prefix(k)
      <4>1. x \in PageKeys(pages[i]) /\ Prefix(x) = Prefix(k)
        BY <3>5, <3>7
      <4> QED BY <2>2, <3>4, <3>7, <4>1
    <3>8. UNION {Get(pages[i], low) : i \in run} = {x \in present : Prefix(x) = Prefix(k)}
      <4> DEFINE A == UNION {Get(pages[i], low) : i \in run}
                 B == {x \in present : Prefix(x) = Prefix(k)}
      <4>1. \A x \in A : x \in B
        BY <3>7
      <4>2. \A x \in B : x \in A
        BY <3>6
      <4> QED BY <4>1, <4>2
    <3> QED BY <3>5, <3>8
  <2>4. ASSUME NEW k \in Keys, kind = "inter", NEW p, p = pages[Target(k)]
        PROVE  KeyAt(p, FindChild(p, k) - 1) = Max({x \in PageKeys(p) : x <= k})
    <3> DEFINE t == Target(k)
    <3>1. k \in Nat
      BY IndexPageAssumption
    <3>2. t \in 1 .. Len(pages) /\ \A i \in 1 .. Len(pages) : i < t => FenceKey(pages[i]) <= k
      BY <3>1, TargetIs
    <3>3. PageOK(kind, deletes, p)
      BY <2>2, <2>4, <3>2
    <3>4. (IF t = 1 THEN Empty ELSE FenceKey(pages[t - 1])) \in PageKeys(pages[t])
      <4>1. \A i \in 1 .. Len(pages) :
              (IF i = 1 THEN Empty ELSE FenceKey(pages[i - 1])) \in PageKeys(pages[i])
        BY <2>1, <2>4 DEF Level
      <4> HIDE DEF t
      <4> QED BY <3>2, <4>1, Zenon
    <3> HIDE DEF t
    <3>5. \E x \in PageKeys(p) : x <= k
      <4>1. p = pages[t]
        BY <2>4 DEF t
      <4>2. CASE t = 1
        <5>1. Empty \in PageKeys(p) /\ Empty <= k
          BY <3>1, <3>4, <4>1, <4>2 DEF Empty
        <5> QED BY <5>1
      <4>3. CASE t # 1
        <5>1. t - 1 \in 1 .. Len(pages) /\ t - 1 < t
          BY <2>2, <3>2, <4>3
        <5> QED BY <3>2, <3>4, <4>1, <4>3, <5>1
      <4> QED BY <4>2, <4>3
    <3> QED BY <2>1, <3>1, <3>3, <3>5, FindChildIs
  <2> QED BY <2>3, <2>4 DEF LookupsAgree
<1>2. PageSpec => []LevelInv
  BY LevelAlways
<1> QED BY <1>1, <1>2, PTL
=============================================================================
