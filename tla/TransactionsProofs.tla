------------------------- MODULE TransactionsProofs -------------------------
(***************************************************************************)
(* Proofs about Transactions, for any finite set of transactions.          *)
(*                                                                         *)
(* The argument: the latch counts the commits between the increment and    *)
(* the decrement (LatchCounts), every timestamp handed out lies below the  *)
(* clock (Clock), and therefore a commit still restamping has a commit     *)
(* time above the start time of every transaction that has got past the    *)
(* latch (Barrier).                                                        *)
(***************************************************************************)
EXTENDS Transactions, FiniteSetTheorems, TLAPS

Clock ==
  \A t \in Txns :
    /\ state[t] # "new" => start[t] < time
    /\ state[t] \in {"stamping", "committed"} => commit[t] < time

StartsDiffer ==
  \A t, u \in Txns :
    t # u /\ state[t] # "new" /\ state[u] # "new" => start[t] # start[u]

Stamps ==
  \A t \in Txns :
    /\ stamped[t] <= records[t]
    /\ state[t] \notin {"stamping", "committed"} => stamped[t] = 0
    /\ state[t] = "committed" => stamped[t] = records[t]
    /\ state[t] \in {"new", "begin"} => records[t] = 0

Barrier ==
  \A r, w \in Txns :
    state[r] = "active" /\ state[w] = "stamping" => commit[w] > start[r]

IInv == TxnTypeOK /\ LatchCounts /\ Clock /\ StartsDiffer /\ Stamps /\ Barrier

-----------------------------------------------------------------------------
(* Lemma: the set of committing transactions is finite, so the latch is     *)
(* free exactly when it is empty.                                           *)
LEMMA CommittingFinite ==
  /\ IsFiniteSet(Committing)
  /\ Cardinality(Committing) \in Nat
  /\ Cardinality(Committing) = 0 <=> Committing = {}
<1>1. Committing \subseteq Txns
  BY DEF Committing
<1>2. IsFiniteSet(Committing)
  BY <1>1, FS_Subset, TransactionsAssumption
<1> QED
  BY <1>2, FS_CardinalityType, FS_EmptySet

(* Lemma: the invariant holds initially. *)
LEMMA InitIInv == TxnInit => IInv
<1> SUFFICES ASSUME TxnInit PROVE IInv
  OBVIOUS
<1>1. TxnTypeOK
  BY TransactionsAssumption DEF TxnInit, TxnTypeOK, States
<1>2. LatchCounts
  <2>1. Committing = {}
    BY DEF TxnInit, Committing
  <2> QED
    BY <2>1, FS_EmptySet DEF TxnInit, LatchCounts
<1>3. Clock /\ StartsDiffer /\ Stamps /\ Barrier
  BY DEF TxnInit, Clock, StartsDiffer, Stamps, Barrier
<1> QED
  BY <1>1, <1>2, <1>3 DEF IInv

(* Lemma: every step preserves the invariant. *)
LEMMA NextIInv == IInv /\ [TxnNext]_txnVars => IInv'
<1> SUFFICES ASSUME IInv, [TxnNext]_txnVars PROVE IInv'
  OBVIOUS
<1> USE TransactionsAssumption
<1>0. CASE UNCHANGED txnVars
  BY <1>0 DEF txnVars, IInv, TxnTypeOK, LatchCounts, Clock, StartsDiffer, Stamps,
                    Barrier, Committing
<1> SUFFICES ASSUME NEW t \in Txns,
                    Begin(t) \/ NewUndoRecord(t) \/ Abort(t) \/ CommitLatch(t)
                      \/ CallStep(t)
             PROVE  IInv'
  BY <1>0 DEF TxnNext
<1>1. CASE Begin(t)
  <2>1. TxnTypeOK'
    BY <1>1 DEF Begin, Move, CheckOut, IInv, TxnTypeOK, States
  <2>2. Committing' = Committing
    BY <1>1 DEF Begin, Move, IInv, TxnTypeOK, Committing
  <2>3. LatchCounts'
    BY <1>1, <2>2 DEF Begin, IInv, LatchCounts
  <2>4. Clock' /\ StartsDiffer' /\ Stamps' /\ Barrier'
    BY <1>1 DEF Begin, Move, CheckOut, IInv, TxnTypeOK, Clock, StartsDiffer, Stamps, Barrier
  <2> QED
    BY <2>1, <2>3, <2>4 DEF IInv
<1>2. CASE NewUndoRecord(t)
  <2>1. TxnTypeOK'
    BY <1>2 DEF NewUndoRecord, IInv, TxnTypeOK
  <2>2. LatchCounts'
    BY <1>2 DEF NewUndoRecord, IInv, LatchCounts, Committing
  <2>3. Clock' /\ StartsDiffer' /\ Stamps' /\ Barrier'
    BY <1>2 DEF NewUndoRecord, IInv, TxnTypeOK, Clock, StartsDiffer, Stamps, Barrier
  <2> QED
    BY <2>1, <2>2, <2>3 DEF IInv
<1>3. CASE Abort(t)
  <2>1. TxnTypeOK'
    BY <1>3 DEF Abort, Move, IInv, TxnTypeOK, States
  <2>2. Committing' = Committing
    BY <1>3 DEF Abort, Move, IInv, TxnTypeOK, Committing
  <2>3. LatchCounts'
    BY <1>3, <2>2 DEF Abort, IInv, LatchCounts
  <2>4. Clock' /\ StartsDiffer' /\ Stamps' /\ Barrier'
    BY <1>3 DEF Abort, Move, IInv, TxnTypeOK, Clock, StartsDiffer, Stamps, Barrier
  <2> QED
    BY <2>1, <2>3, <2>4 DEF IInv
<1>4. CASE CommitLatch(t)
  <2>1. TxnTypeOK'
    BY <1>4 DEF CommitLatch, Move, IInv, TxnTypeOK, States
  <2>2. /\ Committing' = Committing \cup {t}
        /\ t \notin Committing
    BY <1>4 DEF CommitLatch, Move, IInv, TxnTypeOK, Committing
  <2>3. LatchCounts'
    BY <1>4, <2>2, CommittingFinite, FS_AddElement
       DEF CommitLatch, IInv, LatchCounts
  <2>4. Clock' /\ StartsDiffer' /\ Stamps' /\ Barrier'
    BY <1>4 DEF CommitLatch, Move, IInv, TxnTypeOK, Clock, StartsDiffer, Stamps, Barrier
  <2> QED
    BY <2>1, <2>3, <2>4 DEF IInv
<1>5. CASE BeginReturn(t)
  <2>1. TxnTypeOK'
    BY <1>5 DEF BeginReturn, Move, IInv, TxnTypeOK, States
  <2>2. Committing' = Committing
    BY <1>5 DEF BeginReturn, Move, IInv, TxnTypeOK, Committing
  <2>3. LatchCounts'
    BY <1>5, <2>2 DEF BeginReturn, IInv, LatchCounts
  <2>4. Clock' /\ StartsDiffer' /\ Stamps'
    BY <1>5 DEF BeginReturn, Move, IInv, TxnTypeOK, Clock, StartsDiffer, Stamps
  <2>5. Barrier'
    <3>1. Committing = {}
      BY <1>5, CommittingFinite DEF BeginReturn, IInv, LatchCounts
    <3>2. \A w \in Txns : state[w] # "stamping"
      BY <3>1 DEF Committing
    <3> QED
      BY <1>5, <3>2 DEF BeginReturn, Move, IInv, TxnTypeOK, Barrier
  <2> QED
    BY <2>1, <2>3, <2>4, <2>5 DEF IInv
<1>6. CASE CommitTime(t)
  <2>1. TxnTypeOK'
    BY <1>6 DEF CommitTime, Move, CheckOut, IInv, TxnTypeOK, States
  <2>2. Committing' = Committing
    BY <1>6 DEF CommitTime, Move, IInv, TxnTypeOK, Committing
  <2>3. LatchCounts'
    BY <1>6, <2>2 DEF CommitTime, IInv, LatchCounts
  <2>4. Clock' /\ StartsDiffer' /\ Stamps'
    BY <1>6 DEF CommitTime, Move, CheckOut, IInv, TxnTypeOK, Clock, StartsDiffer, Stamps
  <2>5. Barrier'
    <3> SUFFICES ASSUME NEW r \in Txns, NEW w \in Txns,
                        state'[r] = "active", state'[w] = "stamping"
                 PROVE  commit'[w] > start'[r]
      BY DEF Barrier
    <3>1. state[r] = "active" /\ start'[r] = start[r] /\ start[r] < time
      BY <1>6 DEF CommitTime, Move, IInv, TxnTypeOK, Clock
    <3>2. CASE w = t
      BY <1>6, <3>1, <3>2 DEF CommitTime, IInv, TxnTypeOK
    <3>3. CASE w # t
      BY <1>6, <3>1, <3>3 DEF CommitTime, Move, IInv, TxnTypeOK, Barrier
    <3> QED
      BY <3>2, <3>3
  <2> QED
    BY <2>1, <2>3, <2>4, <2>5 DEF IInv
<1>7. CASE Restamp(t)
  <2>1. TxnTypeOK'
    BY <1>7 DEF Restamp, IInv, TxnTypeOK
  <2>2. LatchCounts'
    BY <1>7 DEF Restamp, IInv, LatchCounts, Committing
  <2>3. Clock' /\ StartsDiffer' /\ Stamps' /\ Barrier'
    BY <1>7 DEF Restamp, IInv, TxnTypeOK, Clock, StartsDiffer, Stamps, Barrier
  <2> QED
    BY <2>1, <2>2, <2>3 DEF IInv
<1>8. CASE CommitReturn(t)
  <2>1. /\ Committing' = Committing \ {t}
        /\ t \in Committing
    BY <1>8 DEF CommitReturn, Move, IInv, TxnTypeOK, Committing
  <2>2. Cardinality(Committing') = Cardinality(Committing) - 1
    BY <2>1, CommittingFinite, FS_RemoveElement
  <2>3. Cardinality(Committing) > 0
    BY <2>1, CommittingFinite
  <2>4. LatchCounts' /\ latch' \in Nat
    BY <1>8, <2>2, <2>3, CommittingFinite DEF CommitReturn, IInv, LatchCounts
  <2>5. TxnTypeOK'
    BY <1>8, <2>4 DEF CommitReturn, Move, IInv, TxnTypeOK, States
  <2>6. Clock' /\ StartsDiffer' /\ Stamps' /\ Barrier'
    BY <1>8 DEF CommitReturn, Move, IInv, TxnTypeOK, Clock, StartsDiffer, Stamps, Barrier
  <2> QED
    BY <2>4, <2>5, <2>6 DEF IInv
<1> QED
  BY <1>1, <1>2, <1>3, <1>4, <1>5, <1>6, <1>7, <1>8 DEF CallStep

(* Theorem: the inductive invariant holds throughout. *)
THEOREM IInvAlways == TxnSpec => []IInv
<1>1. TxnInit => IInv
  BY InitIInv
<1>2. IInv /\ [TxnNext]_txnVars => IInv'
  BY NextIInv
<1> QED
  BY <1>1, <1>2, PTL DEF TxnSpec

(* Theorem: type correctness of the transaction state. *)
THEOREM TxnTypeCorrect == TxnSpec => []TxnTypeOK
<1>1. IInv => TxnTypeOK
  BY DEF IInv
<1> QED
  BY <1>1, IInvAlways, PTL

(* Theorem: the commit latch of TransactionManager counts the commits under *)
(* way at all times, so SpinGuard never leaves it above zero.               *)
THEOREM LatchCountsAlways == TxnSpec => []LatchCounts
<1>1. IInv => LatchCounts
  BY DEF IInv
<1> QED
  BY <1>1, IInvAlways, PTL

-----------------------------------------------------------------------------
(* Lemma: what a running transaction sees of a record of another is decided *)
(* by the commit time alone: exactly the records of commits that returned    *)
(* and that have a commit time not above its start time.                     *)
LEMMA SeesCommitted ==
  ASSUME IInv,
         NEW r \in Txns, NEW w \in Txns, state[r] = "active",
         NEW i \in 1 .. records[w]
  PROVE  Sees(r, w, i) <=> state[w] = "committed" /\ commit[w] <= start[r]
<1> USE TransactionsAssumption
<1>1. /\ start[r] \in Nat /\ start[w] \in Nat /\ commit[w] \in Nat
      /\ stamped[w] \in Nat /\ records[w] \in Nat /\ TxnBit \in Nat
      /\ start[r] < TxnBit
  BY DEF IInv, TxnTypeOK, Clock
<1>2. CASE i <= stamped[w]
  <2>1. state[w] \in {"stamping", "committed"}
    BY <1>1, <1>2 DEF IInv, Stamps
  <2>2. Sees(r, w, i) <=> commit[w] <= start[r]
    BY <1>1, <1>2 DEF Sees, IsNewerThan, RecordTs
  <2>3. CASE state[w] = "stamping"
    BY <1>1, <2>2, <2>3 DEF IInv, Barrier
  <2> QED
    BY <2>1, <2>2, <2>3
<1>3. CASE ~(i <= stamped[w])
  <2>1. ~Sees(r, w, i)
    BY <1>1, <1>3 DEF Sees, IsNewerThan, RecordTs, FinishTime
  <2>2. state[w] # "committed"
    BY <1>1, <1>3 DEF IInv, Stamps
  <2> QED
    BY <2>1, <2>2
<1> QED
  BY <1>2, <1>3

(* Theorem: atomic visibility of commits (TransactionManager::Commit against *)
(* BeginTransaction), for any number of transactions and undo records.       *)
THEOREM AtomicVisibilityAlways == TxnSpec => []AtomicVisibility
<1>1. IInv => AtomicVisibility
  <2> SUFFICES ASSUME IInv,
                      NEW r \in Txns, NEW w \in Txns, state[r] = "active",
                      NEW i \in 1 .. records[w], NEW j \in 1 .. records[w]
               PROVE  Sees(r, w, i) = Sees(r, w, j)
    BY DEF AtomicVisibility
  <2>1. Sees(r, w, i) <=> Sees(r, w, j)
    BY SeesCommitted
  <2>2. Sees(r, w, i) \in BOOLEAN /\ Sees(r, w, j) \in BOOLEAN
    BY DEF Sees, IsNewerThan
  <2> QED
    BY <2>1, <2>2
<1> QED
  BY <1>1, IInvAlways, PTL

(* Lemma: TransactionUtil::HasConflict lets a transaction write over a       *)
(* version exactly when SelectIntoChunk lets it read that version.           *)
LEMMA NoConflictSees ==
  ASSUME IInv,
         NEW r \in Txns, NEW w \in Txns, w # r, state[r] = "active",
         NEW i \in 1 .. records[w]
  PROVE  ~HasConflict(RecordTs(w, i), FinishTime(r), start[r]) <=> Sees(r, w, i)
<1> USE TransactionsAssumption
<1>1. /\ start[r] \in Nat /\ start[w] \in Nat /\ commit[w] \in Nat
      /\ stamped[w] \in Nat /\ TxnBit \in Nat /\ start[r] < TxnBit
  BY DEF IInv, TxnTypeOK, Clock
<1>2. CASE i <= stamped[w]
  <2>1. commit[w] < TxnBit
    BY <1>1, <1>2 DEF IInv, TxnTypeOK, Clock, Stamps
  <2> QED
    BY <1>1, <1>2, <2>1
       DEF Sees, HasConflict, IsCommitted, IsNewerThan, RecordTs, FinishTime
<1>3. CASE ~(i <= stamped[w])
  <2>1. start[w] # start[r]
    BY <1>1, <1>3 DEF IInv, Stamps, StartsDiffer
  <2> QED
    BY <1>1, <1>3, <2>1
       DEF Sees, HasConflict, IsCommitted, IsNewerThan, RecordTs, FinishTime
<1> QED
  BY <1>2, <1>3

(* Theorem: TransactionUtil::HasConflict lets a transaction write over a     *)
(* version exactly when SelectIntoChunk lets it read that version.           *)
THEOREM NoConflictIffSeenAlways == TxnSpec => []NoConflictIffSeen
<1>1. IInv => NoConflictIffSeen
  BY NoConflictSees DEF NoConflictIffSeen
<1> QED
  BY <1>1, IInvAlways, PTL

(* Theorem: the snapshot of a running transaction is stable under every step *)
(* of the others: commits, restamping, new records and aborts.               *)
THEOREM SnapshotStableAlways == TxnSpec => SnapshotStable
<1> DEFINE Stable ==
      \A r, w \in Txns :
        r # w /\ state[r] = "active" /\ state'[r] = "active" =>
          \A i \in 1 .. records[w] : Sees(r, w, i)' = Sees(r, w, i)
<1>1. IInv /\ IInv' /\ [TxnNext]_txnVars => [Stable]_txnVars
  <2> SUFFICES ASSUME IInv, IInv', NEW u \in Txns,
                      Begin(u) \/ NewUndoRecord(u) \/ Abort(u)
                        \/ CommitLatch(u) \/ CallStep(u),
                      NEW r \in Txns, NEW w \in Txns,
                      r # w, state[r] = "active", state'[r] = "active",
                      NEW i \in 1 .. records[w]
               PROVE  Sees(r, w, i)' = Sees(r, w, i)
    BY DEF TxnNext
  <2> USE TransactionsAssumption
  <2>1. /\ start'[r] = start[r] /\ start[r] \in Nat /\ start[r] < TxnBit
        /\ TxnBit \in Nat /\ start[r] < time
        /\ start[w] \in Nat /\ commit[w] \in Nat /\ time \in Nat
        /\ stamped[w] \in Nat /\ records[w] \in Nat
    BY DEF Begin, NewUndoRecord, Abort, CommitLatch, CallStep, BeginReturn,
           CommitTime, Restamp, CommitReturn, Move, IInv, TxnTypeOK, Clock
  <2>2. CASE Begin(u)
    <3>1. u # w
      BY <2>2 DEF Begin, Move, IInv, Stamps
    <3> QED
      BY <2>1, <2>2, <3>1
         DEF Begin, IInv, TxnTypeOK, Sees, IsNewerThan, RecordTs, FinishTime
  <2>3. CASE NewUndoRecord(u) \/ Abort(u) \/ CommitLatch(u)
             \/ BeginReturn(u) \/ CommitReturn(u)
    BY <2>1, <2>3
       DEF NewUndoRecord, Abort, CommitLatch, BeginReturn, CommitReturn,
           Sees, IsNewerThan, RecordTs, FinishTime
  <2>4. CASE CommitTime(u)
    <3>1. CASE u = w
      <4>1. stamped[w] = 0 /\ ~(i <= stamped[w])
        BY <2>1, <2>4, <3>1 DEF CommitTime, Move, IInv, Stamps
      <4> QED
        BY <2>1, <2>4, <4>1
           DEF CommitTime, Sees, IsNewerThan, RecordTs, FinishTime
    <3>2. CASE u # w
      BY <2>1, <2>4, <3>2
         DEF CommitTime, IInv, TxnTypeOK, Sees, IsNewerThan, RecordTs, FinishTime
    <3> QED
      BY <3>1, <3>2
  <2>5. CASE Restamp(u)
    <3>1. CASE u = w
      <4>1. /\ commit[w] > start[r] /\ commit'[w] = commit[w]
            /\ start'[w] = start[w]
        BY <2>5, <3>1 DEF Restamp, IInv, Barrier
      <4>2. ~Sees(r, w, i)
        BY <2>1, <4>1 DEF Sees, IsNewerThan, RecordTs, FinishTime
      <4>3. ~Sees(r, w, i)'
        BY <2>1, <4>1 DEF Sees, IsNewerThan, RecordTs, FinishTime
      <4>4. Sees(r, w, i) \in BOOLEAN /\ Sees(r, w, i)' \in BOOLEAN
        BY DEF Sees, IsNewerThan
      <4> QED
        BY <4>2, <4>3, <4>4
    <3>2. CASE u # w
      BY <2>1, <2>5, <3>2
         DEF Restamp, IInv, TxnTypeOK, Sees, IsNewerThan, RecordTs, FinishTime
    <3> QED
      BY <3>1, <3>2
  <2> QED
    BY <2>2, <2>3, <2>4, <2>5 DEF CallStep
<1> QED
  BY <1>1, IInvAlways, PTL DEF TxnSpec, SnapshotStable
=============================================================================
