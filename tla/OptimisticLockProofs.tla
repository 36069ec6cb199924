------------------------ MODULE OptimisticLockProofs ------------------------
(***************************************************************************)
(* The read protocol of the B-link tree for any number of threads, words,  *)
(* reads and writes: validated reads are not torn, writers are exclusive.  *)
(***************************************************************************)
EXTENDS OptimisticLock, TLAPS

\* The parity of seq and the holders of the mutex follow the program counters.
LockHeld ==
  /\ \A t \in Threads : pc[t] \in Writing <=> t \in writers
  /\ \A t \in Threads : pc[t] = "shared" <=> t \in readers
  /\ \A t, u \in writers : t = u
  /\ writers # {} => readers = {}
  /\ seq % 2 = 1 <=> \E t \in Threads : pc[t] = "writing"

\* Every word has the stamp seq, or a write is going on.
Stamps ==
  /\ seq % 2 = 0 => \A w \in Words : page[w] = seq
  /\ seq % 2 = 1 => \A w \in Words : page[w] \in {seq - 1, seq + 1}

\* What was read of the page while nothing changed has the reader's version.
ReadsMatch ==
  \A t \in Threads :
    /\ pc[t] = "optimistic" =>
         tries[t] < MaxTries /\ ver[t] % 2 = 0 /\ ver[t] <= seq
    /\ pc[t] = "optimistic" /\ seq = ver[t] =>
         \A x \in seen[t] : x[2] = ver[t]
    /\ pc[t] = "shared" => \A x \in seen[t] : x[2] = seq
    /\ pc[t] = "read" => \A x, y \in seen[t] : x[2] = y[2]

LockInv == LockTypeOK /\ LockHeld /\ Stamps /\ ReadsMatch

\* Initially nobody holds the lock and every stamp is 0.
LEMMA LockInitInv == LockInit => LockInv
  BY DEF LockInit, LockInv, LockTypeOK, LockHeld, Stamps, ReadsMatch,
         States, Reading, Writing, MaxTries

\* A step keeps the types.
LEMMA LockStepType ==
  ASSUME LockInv, NEW t \in Threads, LockStep(t)
  PROVE  LockTypeOK'
  <1> USE DEF LockInv, LockTypeOK, States, Reading, Writing, Go, MaxTries
  <1>1. CASE Arrive(t)
    BY <1>1 DEF Arrive
  <1>2. CASE ReadOptimistic(t)
    BY <1>2 DEF ReadOptimistic
  <1>3. CASE ReadLock(t)
    BY <1>3 DEF ReadLock
  <1>4. CASE \E w \in Words : ReadWord(t, w)
    BY <1>4 DEF ReadWord
  <1>5. CASE Validate(t)
    BY <1>5 DEF Validate, ReadsMatch
  <1>6. CASE ReadUnlock(t)
    BY <1>6 DEF ReadUnlock
  <1>7. CASE Use(t)
    BY <1>7 DEF Use
  <1>8. CASE WriteLock(t)
    BY <1>8 DEF WriteLock
  <1>9. CASE WriteEnter(t)
    BY <1>9 DEF WriteEnter
  <1>10. CASE \E w \in Words : WriteWord(t, w)
    BY <1>10 DEF WriteWord
  <1>11. CASE WriteLeave(t)
    BY <1>11 DEF WriteLeave
  <1>12. CASE WriteUnlock(t)
    BY <1>12 DEF WriteUnlock
  <1> QED
    BY <1>1, <1>2, <1>3, <1>4, <1>5, <1>6, <1>7, <1>8, <1>9, <1>10, <1>11,
       <1>12 DEF LockStep

\* A step keeps the mutex exclusive and seq odd exactly inside a write.
LEMMA LockStepHeld ==
  ASSUME LockInv, NEW t \in Threads, LockStep(t)
  PROVE  LockHeld'
  <1> USE DEF LockInv, LockTypeOK, LockHeld, Reading, Writing, Go
  <1>1. CASE Arrive(t)
    BY <1>1 DEF Arrive
  <1>2. CASE ReadOptimistic(t)
    BY <1>2 DEF ReadOptimistic
  <1>3. CASE ReadLock(t)
    BY <1>3 DEF ReadLock
  <1>4. CASE \E w \in Words : ReadWord(t, w)
    BY <1>4 DEF ReadWord
  <1>5. CASE Validate(t)
    BY <1>5 DEF Validate
  <1>6. CASE ReadUnlock(t)
    BY <1>6 DEF ReadUnlock
  <1>7. CASE Use(t)
    BY <1>7 DEF Use
  <1>8. CASE WriteLock(t)
    BY <1>8 DEF WriteLock
  <1>9. CASE WriteEnter(t)
    BY <1>9 DEF WriteEnter
  <1>10. CASE \E w \in Words : WriteWord(t, w)
    BY <1>10 DEF WriteWord
  <1>11. CASE WriteLeave(t)
    BY <1>11 DEF WriteLeave
  <1>12. CASE WriteUnlock(t)
    BY <1>12 DEF WriteUnlock
  <1> QED
    BY <1>1, <1>2, <1>3, <1>4, <1>5, <1>6, <1>7, <1>8, <1>9, <1>10, <1>11,
       <1>12 DEF LockStep

\* A step leaves all stamps equal to seq outside a write.
LEMMA LockStepStamps ==
  ASSUME LockInv, NEW t \in Threads, LockStep(t)
  PROVE  Stamps'
  <1> USE DEF LockInv, LockTypeOK, LockHeld, Stamps, Reading, Writing, Go
  <1>1. CASE Arrive(t)
    BY <1>1 DEF Arrive
  <1>2. CASE ReadOptimistic(t)
    BY <1>2 DEF ReadOptimistic
  <1>3. CASE ReadLock(t)
    BY <1>3 DEF ReadLock
  <1>4. CASE \E w \in Words : ReadWord(t, w)
    BY <1>4 DEF ReadWord
  <1>5. CASE Validate(t)
    BY <1>5 DEF Validate
  <1>6. CASE ReadUnlock(t)
    BY <1>6 DEF ReadUnlock
  <1>7. CASE Use(t)
    BY <1>7 DEF Use
  <1>8. CASE WriteLock(t)
    BY <1>8 DEF WriteLock
  <1>9. CASE WriteEnter(t)
    BY <1>9 DEF WriteEnter
  <1>10. CASE \E w \in Words : WriteWord(t, w)
    BY <1>10 DEF WriteWord
  <1>11. CASE WriteLeave(t)
    BY <1>11 DEF WriteLeave
  <1>12. CASE WriteUnlock(t)
    BY <1>12 DEF WriteUnlock
  <1> QED
    BY <1>1, <1>2, <1>3, <1>4, <1>5, <1>6, <1>7, <1>8, <1>9, <1>10, <1>11,
       <1>12 DEF LockStep

\* A step changes no stamp under a reader whose version is still valid.
LEMMA LockStepReads ==
  ASSUME LockInv, NEW t \in Threads, LockStep(t)
  PROVE  ReadsMatch'
  <1> USE DEF LockInv, LockTypeOK, LockHeld, Stamps, ReadsMatch, Reading, Writing, Go
  <1>1. CASE Arrive(t)
    BY <1>1 DEF Arrive
  <1>2. CASE ReadOptimistic(t)
    BY <1>2 DEF ReadOptimistic
  <1>3. CASE ReadLock(t)
    BY <1>3 DEF ReadLock
  <1>4. CASE \E w \in Words : ReadWord(t, w)
    BY <1>4 DEF ReadWord
  <1>5. CASE Validate(t)
    BY <1>5 DEF Validate
  <1>6. CASE ReadUnlock(t)
    BY <1>6 DEF ReadUnlock
  <1>7. CASE Use(t)
    BY <1>7 DEF Use
  <1>8. CASE WriteLock(t)
    BY <1>8 DEF WriteLock
  <1>9. CASE WriteEnter(t)
    BY <1>9 DEF WriteEnter
  <1>10. CASE \E w \in Words : WriteWord(t, w)
    BY <1>10 DEF WriteWord
  <1>11. CASE WriteLeave(t)
    BY <1>11 DEF WriteLeave
  <1>12. CASE WriteUnlock(t)
    BY <1>12 DEF WriteUnlock
  <1> QED
    BY <1>1, <1>2, <1>3, <1>4, <1>5, <1>6, <1>7, <1>8, <1>9, <1>10, <1>11,
       <1>12 DEF LockStep

\* The invariant holds in every reachable state.
LEMMA LockInvariance == LockSpec => []LockInv
  <1>1. LockInv /\ [LockNext]_lockVars => LockInv'
    <2> SUFFICES ASSUME LockInv, [LockNext]_lockVars PROVE LockInv'
      OBVIOUS
    <2>1. CASE LockNext
      BY <2>1, LockStepType, LockStepHeld, LockStepStamps, LockStepReads
         DEF LockNext, LockInv
    <2>2. CASE UNCHANGED lockVars
      BY <2>2 DEF lockVars, LockInv, LockTypeOK, LockHeld, Stamps, ReadsMatch
    <2> QED
      BY <2>1, <2>2
  <1> QED
    BY <1>1, LockInitInv, PTL DEF LockSpec

\* What a B-link descent uses of a node after Unlock<Optimistic> succeeded is
\* never torn, in either mode, for every number of threads and words.
THEOREM ValidatedReadsNotTorn == LockSpec => []NoTornRead
  <1>1. LockInv => NoTornRead
    BY DEF LockInv, ReadsMatch, NoTornRead
  <1> QED
    BY <1>1, LockInvariance, PTL

\* A writer is alone: no second writer and no reader of the fallback.
THEOREM WritersExclusive == LockSpec => []WriterExcludes
  <1>1. LockInv => WriterExcludes
    BY DEF LockInv, LockTypeOK, LockHeld, WriterExcludes, Writing
  <1> QED
    BY <1>1, LockInvariance, PTL
=============================================================================
