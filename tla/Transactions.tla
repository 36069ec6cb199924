---------------------------- MODULE Transactions ----------------------------
(***************************************************************************)
(* Timestamps and commit: TimestampManager, TransactionManager, the commit *)
(* latch and the restamping of a transaction's undo records, one record at *)
(* a time.  Which tuple an undo record belongs to is left to TableMvcc.    *)
(***************************************************************************)
EXTENDS Integers, FiniteSets

CONSTANTS
  Txns,       \* the transactions that may run
  TxnBit,     \* 2^63: the bit that marks an uncommitted timestamp
  MaxRecords  \* bound: undo records per transaction

ASSUME TransactionsAssumption ==
  /\ IsFiniteSet(Txns)
  /\ TxnBit \in Nat \ {0}
  /\ MaxRecords \in Nat

VARIABLES
  time,     \* TimestampManager::time_
  latch,    \* TransactionManager::commit_latch_, a counter
  state,    \* where the transaction is in its life
  start,    \* start_time_
  commit,   \* the commit time that Commit checked out
  records,  \* number of records in the transaction's undo buffer
  stamped   \* how many of them RestampVersions has already rewritten

txnVars == <<time, latch, state, start, commit, records, stamped>>

States ==
  {"new", "begin", "active", "aborted", "latched", "stamping", "committed"}

\* Every variable has its type; no more records are stamped than exist.
TxnTypeOK ==
  /\ time    \in 0 .. TxnBit
  /\ latch   \in Nat
  /\ state   \in [Txns -> States]
  /\ start   \in [Txns -> 0 .. TxnBit]
  /\ commit  \in [Txns -> 0 .. TxnBit]
  /\ records \in [Txns -> 0 .. MaxRecords]
  /\ stamped \in [Txns -> 0 .. MaxRecords]

TxnInit ==
  /\ time    = 0
  /\ latch   = 0
  /\ state   = [t \in Txns |-> "new"]
  /\ start   = [t \in Txns |-> 0]
  /\ commit  = [t \in Txns |-> 0]
  /\ records = [t \in Txns |-> 0]
  /\ stamped = [t \in Txns |-> 0]

Move(t, from, to) ==
  /\ state[t] = from
  /\ state' = [state EXCEPT ![t] = to]

\* TimestampManager::CheckOutTimestamp.  The bound keeps the clock below the
\* bit that marks uncommitted timestamps (2^63 ticks).
CheckOut == time < TxnBit /\ time' = time + 1

\* BeginTransaction: the start time is taken first ...
Begin(t) ==
  /\ Move(t, "new", "begin")
  /\ CheckOut
  /\ start' = [start EXCEPT ![t] = time]
  /\ UNCHANGED <<latch, commit, records, stamped>>

\* Mutant: BeginTransaction does not wait for the commits under way.
BeginReturnUnlatched(t) ==
  /\ Move(t, "begin", "active")
  /\ UNCHANGED <<time, latch, start, commit, records, stamped>>

\* ... and the call returns when commit_latch_.Try() finds the counter zero.
BeginReturn(t) ==
  /\ Move(t, "begin", "active")
  /\ latch = 0
  /\ UNCHANGED <<time, latch, start, commit, records, stamped>>

\* UndoRecordForInsert, -Update, -Delete: a new entry of the undo buffer.
NewUndoRecord(t) ==
  /\ state[t] = "active"
  /\ records[t] < MaxRecords
  /\ records' = [records EXCEPT ![t] = @ + 1]
  /\ UNCHANGED <<time, latch, state, start, commit, stamped>>

\* TransactionContext::Abort sets rollback_; the undo records keep their
\* uncommitted timestamp for ever and Commit may not be called any more.
Abort(t) ==
  /\ Move(t, "active", "aborted")
  /\ UNCHANGED <<time, latch, start, commit, records, stamped>>

\* Commit: the guard increments the latch,
CommitLatch(t) ==
  /\ Move(t, "active", "latched")
  /\ latch' = latch + 1
  /\ UNCHANGED <<time, start, commit, records, stamped>>

\* Mutant: the changes are committed with the start time.
CommitAtStart(t) ==
  /\ Move(t, "latched", "stamping")
  /\ commit' = [commit EXCEPT ![t] = start[t]]
  /\ UNCHANGED <<time, latch, start, records, stamped>>

\* then the commit time is checked out,
CommitTime(t) ==
  /\ Move(t, "latched", "stamping")
  /\ CheckOut
  /\ commit' = [commit EXCEPT ![t] = time]
  /\ UNCHANGED <<latch, start, records, stamped>>

\* then each undo record in turn gets it (RestampVersions),
Restamp(t) ==
  /\ state[t] = "stamping"
  /\ stamped[t] < records[t]
  /\ stamped' = [stamped EXCEPT ![t] = @ + 1]
  /\ UNCHANGED <<time, latch, state, start, commit, records>>

\* Mutant: the latch is not released.
CommitReturnLatched(t) ==
  /\ Move(t, "stamping", "committed")
  /\ stamped[t] = records[t]
  /\ UNCHANGED <<time, latch, start, commit, records, stamped>>

\* and the guard's destructor decrements the latch.
CommitReturn(t) ==
  /\ Move(t, "stamping", "committed")
  /\ stamped[t] = records[t]
  /\ latch' = latch - 1
  /\ UNCHANGED <<time, start, commit, records, stamped>>

\* The steps that finish a call of the transaction manager.
CallStep(t) ==
  \/ BeginReturn(t) \/ CommitTime(t) \/ Restamp(t) \/ CommitReturn(t)

TxnNext ==
  \E t \in Txns :
    \/ Begin(t) \/ NewUndoRecord(t) \/ Abort(t) \/ CommitLatch(t)
    \/ CallStep(t)

TxnSpec == TxnInit /\ [][TxnNext]_txnVars

-----------------------------------------------------------------------------
(* TransactionUtil *)

IsCommitted(ts) == ts < TxnBit

IsNewerThan(a, b) == a > b

\* Mutant: an uncommitted version is no conflict.
ConflictIfNewer(version_ts, txn_id, start_time) ==
  IsCommitted(version_ts) /\ IsNewerThan(version_ts, start_time)

HasConflict(version_ts, txn_id, start_time) ==
  \/ ~IsCommitted(version_ts) /\ version_ts # txn_id
  \/ IsCommitted(version_ts) /\ IsNewerThan(version_ts, start_time)

\* finish_time_ = start_time + INT64_MIN, in 64-bit unsigned arithmetic.
FinishTime(t) == start[t] + TxnBit

\* The timestamp that record i of transaction t carries now.
RecordTs(t, i) == IF i <= stamped[t] THEN commit[t] ELSE FinishTime(t)

\* What the version walk of Table::SelectIntoChunk decides for reader r: the
\* effect of a record newer than its start time is taken back.
Sees(r, t, i) == ~IsNewerThan(RecordTs(t, i), start[r])

-----------------------------------------------------------------------------
(* Properties *)

Committing == {t \in Txns : state[t] \in {"latched", "stamping"}}

\* A transaction that is past BeginTransaction sees either all the changes of
\* another transaction or none, although Commit rewrites the timestamps one
\* by one and takes no page lock.
AtomicVisibility ==
  \A r, w \in Txns : state[r] = "active" /\ w # r =>
    \A i, j \in 1 .. records[w] : Sees(r, w, i) = Sees(r, w, j)

\* What a running transaction sees of the others never changes while it runs:
\* no commit becomes visible to it and none disappears.
SnapshotStable ==
  [][\A r, w \in Txns :
       r # w /\ state[r] = "active" /\ state'[r] = "active" =>
         \A i \in 1 .. records[w] : Sees(r, w, i)' = Sees(r, w, i)]_txnVars

\* A transaction that could still write over a record of another (no conflict
\* by TransactionUtil::HasConflict) sees that record, and the other way
\* round: a write never builds on a version its transaction cannot read.
NoConflictIffSeen ==
  \A r, w \in Txns : state[r] = "active" /\ w # r =>
    \A i \in 1 .. records[w] :
      ~HasConflict(RecordTs(w, i), FinishTime(r), start[r]) <=> Sees(r, w, i)

\* The latch counts the commits under way, so it is free again when they are
\* all done.
LatchCounts == latch = Cardinality(Committing)

\* BeginTransaction returns: the spin on the commit latch ends.  It does with
\* finitely many transactions; a stream of overlapping commits that never
\* pauses would keep the latch above zero for ever.
BeginReturns == \A t \in Txns : state[t] = "begin" ~> state[t] = "active"
=============================================================================
