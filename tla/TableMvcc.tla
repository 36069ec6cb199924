----------------------------- MODULE TableMvcc ------------------------------
(***************************************************************************)
(* Rows with version chains on top of Transactions: Table::Insert, Update, *)
(* Delete, DeleteUndoRaw and what Select returns.                          *)
(*                                                                         *)
(* Update and Delete hold the page's data lock; DeleteUndoRaw holds none,  *)
(* so between the read of a chain head and the compare-and-swap that links *)
(* the new record a raw delete may slip in.  A chain is the sequence of    *)
(* its records, newest first: the swap links a record in front of the head *)
(* it read.  A row has one column, and the value a record writes is the    *)
(* record's own name, so that no two writes are alike.                     *)
(***************************************************************************)
EXTENDS Transactions, Sequences

CONSTANTS
  InitRows,  \* rows 1..InitRows are on the page, without versions
  MaxRows,   \* bound: rows of the page
  Ops        \* which calls the clients make

NoTxn == "none"                         \* nobody holds the data lock

ASSUME TableMvccAssumption ==
  /\ InitRows \in Nat
  /\ MaxRows \in Nat \ {0}
  /\ InitRows <= MaxRows
  /\ Ops \subseteq {"insert", "update", "delete", "raw"}
  /\ NoTxn \notin Txns

Rows    == 1 .. MaxRows
Records == Txns \X (1 .. MaxRecords)    \* <<t, i>>: the i-th undo record of t
Loaded  == <<"loaded", 0>>              \* the value of a row nobody wrote
Absent  == <<"absent", 0>>              \* contents of a row nobody inserted
Deleted == <<"deleted", 0>>             \* contents of a deleted row
Values  == Records \cup {Loaded}
Types   == {"UPDATE", "INSERT", "DELETE", "INVALID"}
Calls   == {"none", "update", "updateCas", "delete", "deleteCas", "raw", "rawCas"}

VARIABLES
  count,   \* PageHeader::count: rows on the page
  value,   \* the bytes of each row on the page
  bitmap,  \* the rows marked deleted on the page
  lock,    \* the holder of the page's data lock in write mode
  chain,   \* versions[idx] and the next_ pointers behind it
  undo,    \* the undo buffer of each transaction: row, type and before image
  call,    \* where the transaction's call is
  row,     \* the row of the call
  seen,    \* version_ptr: the chain behind the head the call has read
  db,      \* history: the committed contents
  snap     \* history: the committed contents when the transaction began

tableVars == <<count, value, bitmap, lock, chain, undo, call, row, seen>>
histVars  == <<db, snap>>
vars      == <<txnVars, tableVars, histVars>>

Contents == Values \cup {Absent, Deleted}

\* Every variable has its type: rows of the page hold values that were
\* written, and chains hold records of the undo buffers.
TableTypeOK ==
  /\ TxnTypeOK
  /\ count  \in 0 .. MaxRows
  /\ value  \in [Rows -> Values]
  /\ bitmap \in SUBSET Rows
  /\ lock   \in Txns \cup {NoTxn}
  /\ chain  \in [Rows -> Seq(Records)]
  /\ undo   \in [Txns -> Seq([row : Rows, type : Types, old : Values])]
  /\ call   \in [Txns -> Calls]
  /\ row    \in [Txns -> Rows]
  /\ seen   \in [Txns -> Seq(Records)]
  /\ db     \in [Rows -> Contents]
  /\ snap   \in [Txns -> [Rows -> Contents]]

TableInit ==
  /\ TxnInit
  /\ count  = InitRows
  /\ value  = [r \in Rows |-> Loaded]
  /\ bitmap = {}
  /\ lock   = NoTxn
  /\ chain  = [r \in Rows |-> <<>>]
  /\ undo   = [t \in Txns |-> <<>>]
  /\ call   = [t \in Txns |-> "none"]
  /\ row    = [t \in Txns |-> 1]
  /\ seen   = [t \in Txns |-> <<>>]
  /\ db     = [r \in Rows |-> IF r <= InitRows THEN Loaded ELSE Absent]
  /\ snap   = [t \in Txns |-> db]

Undo(rec)     == undo[rec[1]][rec[2]]
Timestamp(rec) == RecordTs(rec[1], rec[2])
Mine(t)       == <<t, records[t]>>      \* the record of the call under way

\* Mutant: only uncommitted versions are conflicts.
ConflictsIfPending(t, versions) ==
  /\ versions # <<>>
  /\ ~IsCommitted(Timestamp(Head(versions)))
  /\ Timestamp(Head(versions)) # FinishTime(t)

\* HasConflict(txn, version_ptr) of table.cpp.
Conflicts(t, versions) ==
  /\ versions # <<>>
  /\ HasConflict(Timestamp(Head(versions)), FinishTime(t), start[t])

-----------------------------------------------------------------------------
(* Writes *)

\* The undo record of a call; the client knows the row.
StartCall(t, r, type, at) ==
  /\ call[t] = "none"
  /\ r <= count
  /\ NewUndoRecord(t)
  /\ undo' = [undo EXCEPT ![t] = Append(@, [row |-> r, type |-> type, old |-> Loaded])]
  /\ call' = [call EXCEPT ![t] = at]
  /\ row'  = [row EXCEPT ![t] = r]
  /\ UNCHANGED <<count, value, bitmap, chain, seen, histVars>>

\* record->Invalidate(); return false.
Refuse(t) ==
  /\ undo' = [undo EXCEPT ![t][records[t]].type = "INVALID"]
  /\ call' = [call EXCEPT ![t] = "none"]
  /\ UNCHANGED <<txnVars, count, value, bitmap, chain, row, seen, histVars>>

\* The head has been read and does not forbid the write.
Proceed(t, at) ==
  /\ seen' = [seen EXCEPT ![t] = chain[row[t]]]
  /\ call' = [call EXCEPT ![t] = at]
  /\ UNCHANGED <<txnVars, count, bitmap, lock, chain, row, histVars>>

\* Mutant: the record is stored without comparing the head.
LinkBlindly(t) ==
  /\ chain' = [chain EXCEPT ![row[t]] = <<Mine(t)>> \o seen[t]]
  /\ call'  = [call EXCEPT ![t] = "none"]
  /\ seen'  = [seen EXCEPT ![t] = <<>>]
  /\ UNCHANGED <<txnVars, count, value, undo, row, histVars>>

\* CompareAndSwap(version_ptr, record) succeeds.
Link(t) ==
  /\ chain[row[t]] = seen[t]
  /\ chain' = [chain EXCEPT ![row[t]] = <<Mine(t)>> \o seen[t]]
  /\ call'  = [call EXCEPT ![t] = "none"]
  /\ seen'  = [seen EXCEPT ![t] = <<>>]
  /\ UNCHANGED <<txnVars, count, value, undo, row, histVars>>

\* CompareAndSwap fails: the loop reads the head again.
Retry(t, from, to) ==
  /\ call[t] = from
  /\ chain[row[t]] # seen[t]
  /\ call' = [call EXCEPT ![t] = to]
  /\ UNCHANGED <<txnVars, count, value, bitmap, lock, chain, undo, row, seen,
                 histVars>>

\* Table::Insert, all of it under the data lock; nobody else knows the row.
Insert(t) ==
  /\ "insert" \in Ops
  /\ call[t] = "none"
  /\ lock = NoTxn
  /\ count < MaxRows
  /\ NewUndoRecord(t)
  /\ LET r == count + 1
         rec == <<t, records[t] + 1>>
     IN /\ count' = r
        /\ value' = [value EXCEPT ![r] = rec]
        /\ chain' = [chain EXCEPT ![r] = <<rec>>]
        /\ undo'  = [undo EXCEPT ![t] =
                       Append(@, [row |-> r, type |-> "INSERT", old |-> Loaded])]
  /\ UNCHANGED <<bitmap, lock, call, row, seen, histVars>>

UpdateStart(t, r) ==
  /\ "update" \in Ops
  /\ lock  = NoTxn
  /\ lock' = t
  /\ StartCall(t, r, "UPDATE", "update")

UpdateRefused(t) ==
  /\ call[t] = "update"
  /\ chain[row[t]] # <<>>
  /\ Conflicts(t, chain[row[t]]) \/ row[t] \in bitmap
  /\ lock' = NoTxn
  /\ Refuse(t)

\* ChunkUtils::UpdateSingle: the before image goes to the delta and the new
\* value to the page, before the record is linked.
UpdateWrites(t) ==
  /\ call[t] = "update"
  /\ \/ chain[row[t]] = <<>>
     \/ ~Conflicts(t, chain[row[t]]) /\ row[t] \notin bitmap
  /\ undo'  = [undo EXCEPT ![t][records[t]].old = value[row[t]]]
  /\ value' = [value EXCEPT ![row[t]] = Mine(t)]
  /\ Proceed(t, "updateCas")

UpdateLinks(t) ==
  /\ call[t] = "updateCas"
  /\ lock' = NoTxn
  /\ bitmap' = bitmap
  /\ Link(t)

DeleteStart(t, r) ==
  /\ "delete" \in Ops
  /\ lock  = NoTxn
  /\ lock' = t
  /\ StartCall(t, r, "DELETE", "delete")

DeleteRefused(t) ==
  /\ call[t] = "delete"
  /\ Conflicts(t, chain[row[t]]) \/ row[t] \in bitmap
  /\ lock' = NoTxn
  /\ Refuse(t)

DeleteProceeds(t) ==
  /\ call[t] = "delete"
  /\ ~Conflicts(t, chain[row[t]])
  /\ row[t] \notin bitmap
  /\ UNCHANGED <<value, undo>>
  /\ Proceed(t, "deleteCas")

\* Mutant: the row is not marked on the page.
DeleteUnmarked(t) ==
  /\ call[t] = "deleteCas"
  /\ UNCHANGED bitmap
  /\ lock' = NoTxn
  /\ Link(t)

\* The record is linked and layout_.Delete marks the row on the page.
DeleteLinks(t) ==
  /\ call[t] = "deleteCas"
  /\ lock'   = NoTxn
  /\ bitmap' = bitmap \cup {row[t]}
  /\ Link(t)

\* DeleteUndoRaw: neither the lock nor the page.
RawStart(t, r) ==
  /\ "raw" \in Ops
  /\ lock' = lock
  /\ StartCall(t, r, "DELETE", "raw")

RawRefused(t) ==
  /\ call[t] = "raw"
  /\ chain[row[t]] # <<>>
  /\ \/ Conflicts(t, chain[row[t]])
     \/ Undo(Head(chain[row[t]])).type = "DELETE"
  /\ lock' = lock
  /\ Refuse(t)

RawProceeds(t) ==
  /\ call[t] = "raw"
  /\ \/ chain[row[t]] = <<>>
     \/ /\ chain[row[t]] # <<>>
        /\ ~Conflicts(t, chain[row[t]])
        /\ Undo(Head(chain[row[t]])).type # "DELETE"
  /\ UNCHANGED <<value, undo>>
  /\ Proceed(t, "rawCas")

RawLinks(t) ==
  /\ call[t] = "rawCas"
  /\ UNCHANGED <<lock, bitmap>>
  /\ Link(t)

Loops(t) ==
  \/ Retry(t, "updateCas", "update")
  \/ Retry(t, "deleteCas", "delete")
  \/ Retry(t, "rawCas", "raw")

-----------------------------------------------------------------------------
(* Transactions, with the history of committed contents *)

\* The records of t that are linked into the chain of r, oldest first.
LinkedTo(t, r) ==
  {i \in 1 .. records[t] : \E k \in DOMAIN chain[r] : chain[r][k] = <<t, i>>}

\* What the writes of t make of row r.
Effect(t, r) ==
  LET i == CHOOSE i \in LinkedTo(t, r) : \A j \in LinkedTo(t, r) : j <= i
  IN IF undo[t][i].type = "DELETE" THEN Deleted ELSE <<t, i>>

Overlay(t, contents) ==
  [r \in Rows |-> IF LinkedTo(t, r) = {} THEN contents[r] ELSE Effect(t, r)]

BeginTxn(t) ==
  /\ Begin(t)
  /\ snap' = [snap EXCEPT ![t] = db]
  /\ UNCHANGED <<tableVars, db>>

CommitTxn(t) ==
  /\ CommitTime(t)
  /\ db' = Overlay(t, db)
  /\ UNCHANGED <<tableVars, snap>>

TxnStep(t) ==
  /\ call[t] = "none"
  /\ \/ BeginTxn(t)
     \/ CommitTxn(t)
     \/ /\ BeginReturn(t) \/ Abort(t) \/ CommitLatch(t) \/ Restamp(t) \/ CommitReturn(t)
        /\ UNCHANGED <<tableVars, histVars>>

TableNext ==
  \E t \in Txns :
    \/ TxnStep(t)
    \/ Insert(t)
    \/ \E r \in Rows : UpdateStart(t, r) \/ DeleteStart(t, r) \/ RawStart(t, r)
    \/ UpdateRefused(t) \/ UpdateWrites(t) \/ UpdateLinks(t)
    \/ DeleteRefused(t) \/ DeleteProceeds(t) \/ DeleteLinks(t)
    \/ RawRefused(t) \/ RawProceeds(t) \/ RawLinks(t)
    \/ Loops(t)

TableSpec == TableInit /\ [][TableNext]_vars

\* A call of the transaction manager that has begun keeps running; nothing
\* obliges a client to make its next call or to commit.
TableFairSpec ==
  TableSpec /\ \A t \in Txns : WF_vars(TxnStep(t) /\ CallStep(t))

-----------------------------------------------------------------------------
(* Table::SelectIntoChunk, which runs under the data lock in read mode.    *)
(* The timestamps it reads on the way may be rewritten by a commit, which  *)
(* by SnapshotStable does not change what it decides.                      *)

OwnHead(t, r) ==
  chain[r] # <<>> /\ Timestamp(Head(chain[r])) = FinishTime(t)

\* The versions the walk takes back.
Undone(t, r) ==
  IF OwnHead(t, r) THEN {}
  ELSE {k \in DOMAIN chain[r] :
          \A j \in 1 .. k : IsNewerThan(Timestamp(chain[r][j]), start[t])}

\* is_deleted: from the head of the chain, before the walk.
IsDeleted(r) ==
  IF chain[r] = <<>> THEN r \in bitmap ELSE Undo(Head(chain[r])).type = "DELETE"

ReadStatus(t, r) ==
  IF \E k \in Undone(t, r) : Undo(chain[r][k]).type = "INSERT" THEN "NotVisible"
  ELSE IF IsDeleted(r) THEN "Deleted" ELSE "Visible"

\* Mutant: only the newest before image is merged in.
ReadNewestImage(t, r) ==
  LET updates == {k \in Undone(t, r) : Undo(chain[r][k]).type = "UPDATE"}
  IN IF updates = {} THEN value[r]
     ELSE Undo(chain[r][CHOOSE k \in updates : \A j \in updates : k <= j]).old

\* The page's value, with the before images merged in from new to old.
ReadValue(t, r) ==
  LET updates == {k \in Undone(t, r) : Undo(chain[r][k]).type = "UPDATE"}
  IN IF updates = {} THEN value[r]
     ELSE Undo(chain[r][CHOOSE k \in updates : \A j \in updates : j <= k]).old

-----------------------------------------------------------------------------
(* Properties *)

\* What transaction t should find: its own writes on top of its snapshot.
Expected(t) == Overlay(t, snap[t])

\* A Select can run: t is between calls and nobody writes the page.
CanRead(t, r) ==
  state[t] = "active" /\ call[t] = "none" /\ lock = NoTxn /\ r <= count

\* Snapshot isolation of values: whatever commits, aborts and calls happen
\* meanwhile, Select returns the value of the transaction's snapshot or its
\* own last write, and does not see a row inserted after it began.
SnapshotValues ==
  \A t \in Txns, r \in Rows : CanRead(t, r) =>
    /\ Expected(t)[r] \in Values => ReadValue(t, r) = Expected(t)[r]
    /\ Expected(t)[r] = Absent <=> ReadStatus(t, r) = "NotVisible"

\* Snapshot isolation of existence: Select reports a row as deleted exactly
\* when it is deleted in the snapshot or by the transaction itself.  The code
\* takes the flag from the head of the chain, so a raw delete by another
\* transaction violates this.
SnapshotStatus ==
  \A t \in Txns, r \in Rows : CanRead(t, r) =>
    /\ Expected(t)[r] \in Values  => ReadStatus(t, r) = "Visible"
    /\ Expected(t)[r] = Deleted => ReadStatus(t, r) = "Deleted"

\* First updater wins: in a chain a record lies on top of one of the same
\* transaction or of one whose commit time is before its own start, so two
\* concurrent transactions never both write a row.
FirstUpdaterWins ==
  \A r \in Rows : \A k \in 1 .. Len(chain[r]) - 1 :
    LET above == chain[r][k]
        below == chain[r][k + 1]
    IN \/ above[1] = below[1]
       \/ /\ state[below[1]] \in {"stamping", "committed"}
          /\ commit[below[1]] < start[above[1]]

\* No version is lost: the record of every call that reported success is in
\* the chain of its row, once, and invalidated records are in none.
NoLostVersion ==
  \A t \in Txns : \A i \in 1 .. records[t] :
    LET u == undo[t][i]
        places == {k \in DOMAIN chain[u.row] : chain[u.row][k] = <<t, i>>}
    IN Cardinality(places) =
         IF u.type = "INVALID" \/ (i = records[t] /\ call[t] # "none") THEN 0 ELSE 1

\* A deleted row stays deleted: nothing is linked on top of a delete.
DeleteIsFinal ==
  \A r \in Rows : \A k \in 2 .. Len(chain[r]) : Undo(chain[r][k]).type # "DELETE"
=============================================================================
