-------------------------- MODULE TableMvccProofs ---------------------------
(***************************************************************************)
(* Proofs about TableMvcc, for any number of transactions, rows and undo   *)
(* records.                                                                *)
(*                                                                         *)
(* The argument: a call links its record only in front of the head it has  *)
(* read (Link), and a head without conflict stays without conflict until   *)
(* then (SeenWritable), because it is the call's own or was committed      *)
(* before the call's transaction began.  Hence all pairs of records of a   *)
(* chain are ordered by commit and start times (Ordered), which is more    *)
(* than FirstUpdaterWins says of neighbours, and is inductive.             *)
(***************************************************************************)
EXTENDS TableMvcc, TransactionsProofs

Finished(w)  == state[w] \in {"stamping", "committed"}
Before(w, t) == Finished(w) /\ commit[w] < start[t]

LinkCalls == {"updateCas", "deleteCas", "rawCas"}
LockCalls == {"update", "updateCas", "delete", "deleteCas"}

\* The call that made record i of t has not returned.
Pending(t, i) == i = records[t] /\ call[t] # "none"

\* A start time is no commit time, and no transaction commits before it began.
TimesDiffer ==
  \A t, u \in Txns :
    Finished(u) =>
      /\ state[t] # "new" => start[t] # commit[u]
      /\ start[u] < commit[u]

\* The undo buffer of a transaction holds its records, and the last one
\* belongs to the call under way.
CallsRunning ==
  \A t \in Txns :
    /\ Len(undo[t]) = records[t]
    /\ call[t] # "none" =>
         /\ state[t] = "active"
         /\ records[t] >= 1
         /\ row[t] <= count
         /\ undo[t][records[t]].row = row[t]
         /\ undo[t][records[t]].type =
              IF call[t] \in {"update", "updateCas"} THEN "UPDATE" ELSE "DELETE"

\* Only records of calls that succeeded are linked, to the row they wrote.
LinkedRecords ==
  \A r \in Rows : \A k \in 1 .. Len(chain[r]) :
    LET rec == chain[r][k]
    IN /\ rec[2] <= records[rec[1]]
       /\ Undo(rec).row = r
       /\ Undo(rec).type # "INVALID"
       /\ ~Pending(rec[1], rec[2])

\* The record of every call that succeeded is linked.
SuccessLinked ==
  \A t \in Txns : \A i \in 1 .. records[t] :
    undo[t][i].type # "INVALID" /\ ~Pending(t, i) =>
      \E k \in 1 .. Len(chain[undo[t][i].row]) : chain[undo[t][i].row][k] = <<t, i>>

\* Record x may lie above record y.
Above(x, y) ==
  \/ x[1] = y[1] /\ y[2] < x[2]
  \/ Before(y[1], x[1])

Ordered ==
  \A r \in Rows : \A j, k \in 1 .. Len(chain[r]) :
    j < k => Above(chain[r][j], chain[r][k])

\* The head a call has read stays one it may write over.
SeenWritable ==
  \A t \in Txns :
    call[t] \in LinkCalls /\ seen[t] # <<>> =>
      seen[t][1][1] = t \/ Before(seen[t][1][1], t)

\* Rows that are not on the page have no versions.
RowsOnPage ==
  /\ InitRows <= count
  /\ \A r \in Rows : r > count => chain[r] = <<>>

ChainInv ==
  /\ IInv
  /\ TableTypeOK
  /\ TimesDiffer
  /\ CallsRunning
  /\ LinkedRecords
  /\ SuccessLinked
  /\ Ordered
  /\ SeenWritable
  /\ RowsOnPage

-----------------------------------------------------------------------------
(* Without DeleteUndoRaw every write holds the data lock. *)

LockHeld == \A t \in Txns : call[t] \in LockCalls <=> lock = t

\* A row is marked deleted on the page exactly when its newest version is a
\* delete.
Marked ==
  \A r \in Rows :
    r \in bitmap <=> chain[r] # <<>> /\ Undo(chain[r][1]).type = "DELETE"

\* The head a call has read is still the head, and no delete.
SeenCurrent ==
  \A t \in Txns :
    /\ call[t] \notin {"raw", "rawCas"}
    /\ call[t] \in LinkCalls => seen[t] = chain[row[t]] /\ row[t] \notin bitmap

\* The version behind the k-1 newest.
Version(r, k) == IF k <= Len(chain[r]) THEN chain[r][k] ELSE Loaded

\* A row that was inserted starts with its insert, and only such a row does.
InsertAtBottom ==
  \A r \in Rows :
    /\ InitRows < r /\ r <= count => chain[r] # <<>>
    /\ \A k \in 1 .. Len(chain[r]) :
         Undo(chain[r][k]).type = "INSERT" <=> k = Len(chain[r]) /\ InitRows < r

\* The before image of an update is the version below it.
Images ==
  \A r \in Rows : \A k \in 1 .. Len(chain[r]) :
    Undo(chain[r][k]).type = "UPDATE" => Undo(chain[r][k]).old = Version(r, k + 1)

\* The page holds the newest value, or that of the update under way, whose
\* before image is the newest version.
PageHoldsNewest ==
  /\ \A r \in Rows :
       (\A t \in Txns : call[t] = "updateCas" => row[t] # r) =>
         value[r] = IF r \in bitmap THEN Version(r, 2) ELSE Version(r, 1)
  /\ \A t \in Txns : call[t] = "updateCas" =>
       /\ value[row[t]] = Mine(t)
       /\ undo[t][records[t]].old = Version(row[t], 1)

PageInv ==
  /\ LockHeld
  /\ Marked
  /\ SeenCurrent
  /\ DeleteIsFinal
  /\ InsertAtBottom
  /\ Images
  /\ PageHoldsNewest

-----------------------------------------------------------------------------
(* The history variables, in terms of the chains. *)

Written(rec) == IF Undo(rec).type = "DELETE" THEN Deleted ELSE rec
Base(r)      == IF r <= InitRows THEN Loaded ELSE Absent

\* v is what the newest version of chain c of row r by one of the transactions
\* past says, with the undo buffers u.
NewestIn(c, u, r, past, v) ==
  \/ \E k \in 1 .. Len(c) :
       /\ c[k][1] \in past
       /\ \A j \in 1 .. k - 1 : c[j][1] \notin past
       /\ v = IF u[c[k][1]][c[k][2]].type = "DELETE" THEN Deleted ELSE c[k]
  \/ /\ \A k \in 1 .. Len(c) : c[k][1] \notin past
     /\ v = Base(r)

\* The committed contents of a row: its newest version that is committed.
DbMatches ==
  \A r \in Rows : NewestIn(chain[r], undo, r, {w \in Txns : Finished(w)}, db[r])

\* The snapshot of a transaction: the newest version committed before it began.
SnapMatches ==
  \A t \in Txns : state[t] # "new" =>
    \A r \in Rows :
      NewestIn(chain[r], undo, r, {w \in Txns : Before(w, t)}, snap[t][r])

HistoryInv == DbMatches /\ SnapMatches

-----------------------------------------------------------------------------
(* Sequences *)

UndoEntry == [row : Rows, type : Types, old : Values]

(* Lemma: what linking a record in front of a chain gives.  It is the       *)
(* sequence the compare-and-swap leaves behind.                             *)
LEMMA PushFront ==
  ASSUME NEW S, NEW s \in Seq(S), NEW x \in S
  PROVE  /\ <<x>> \o s \in Seq(S)
         /\ <<x>> \o s # <<>>
         /\ Len(<<x>> \o s) = Len(s) + 1
         /\ (<<x>> \o s)[1] = x
         /\ \A k \in 1 .. Len(s) : (<<x>> \o s)[k + 1] = s[k]
         /\ \A k \in 2 .. Len(s) + 1 : (<<x>> \o s)[k] = s[k - 1]
OBVIOUS

(* Lemma: what a new entry of an undo buffer changes. *)
LEMMA AppendEntry ==
  ASSUME NEW S, NEW s \in Seq(S), NEW x \in S
  PROVE  /\ Append(s, x) \in Seq(S)
         /\ Len(Append(s, x)) = Len(s) + 1
         /\ Append(s, x)[Len(s) + 1] = x
         /\ \A k \in 1 .. Len(s) : Append(s, x)[k] = s[k]
OBVIOUS

(* Lemma: what UndoRecord::Invalidate changes in an undo buffer. *)
LEMMA InvalidateEntry ==
  ASSUME NEW s \in Seq(UndoEntry), NEW i \in 1 .. Len(s)
  PROVE  LET q == [s EXCEPT ![i].type = "INVALID"]
         IN /\ q \in Seq(UndoEntry)
            /\ Len(q) = Len(s)
            /\ q[i].type = "INVALID" /\ q[i].row = s[i].row
            /\ \A k \in 1 .. Len(s) : k # i => q[k] = s[k]
<1> DEFINE q == [s EXCEPT ![i].type = "INVALID"]
           n == Len(s)
<1>1. n \in Nat /\ s \in [1 .. n -> UndoEntry]
  OBVIOUS
<1>2. [s[i] EXCEPT !.type = "INVALID"] \in UndoEntry
  BY <1>1 DEF UndoEntry, Types
<1>3. q \in [1 .. n -> UndoEntry]
  BY <1>1, <1>2
<1>4. q \in Seq(UndoEntry) /\ Len(q) = n
  BY <1>1, <1>3
<1>5. q[i].type = "INVALID" /\ q[i].row = s[i].row
  BY <1>1 DEF UndoEntry
<1> QED
  BY <1>1, <1>4, <1>5

(* Lemma: what ChunkUtils::UpdateSingle changes in an undo buffer. *)
LEMMA ImageEntry ==
  ASSUME NEW s \in Seq(UndoEntry), NEW i \in 1 .. Len(s), NEW v \in Values
  PROVE  LET q == [s EXCEPT ![i].old = v]
         IN /\ q \in Seq(UndoEntry)
            /\ Len(q) = Len(s)
            /\ q[i].type = s[i].type /\ q[i].row = s[i].row /\ q[i].old = v
            /\ \A k \in 1 .. Len(s) : k # i => q[k] = s[k]
<1> DEFINE q == [s EXCEPT ![i].old = v]
           n == Len(s)
<1>1. n \in Nat /\ s \in [1 .. n -> UndoEntry]
  OBVIOUS
<1>2. [s[i] EXCEPT !.old = v] \in UndoEntry
  BY <1>1 DEF UndoEntry
<1>3. q \in [1 .. n -> UndoEntry]
  BY <1>1, <1>2
<1>4. q \in Seq(UndoEntry) /\ Len(q) = n
  BY <1>1, <1>3
<1>5. q[i].type = s[i].type /\ q[i].row = s[i].row /\ q[i].old = v
  BY <1>1 DEF UndoEntry
<1> QED
  BY <1>1, <1>4, <1>5

-----------------------------------------------------------------------------
(* Transactions *)

(* Lemma: times that were handed out stay, and a commit stays a commit. *)
LEMMA TxnMonotone ==
  ASSUME IInv, [TxnNext]_txnVars, NEW w \in Txns
  PROVE  /\ Finished(w) => Finished(w)' /\ commit'[w] = commit[w]
         /\ state[w] # "new" => state'[w] # "new" /\ start'[w] = start[w]
<1>0. CASE UNCHANGED txnVars
  BY <1>0 DEF txnVars, Finished
<1> SUFFICES ASSUME NEW t \in Txns,
                    Begin(t) \/ NewUndoRecord(t) \/ Abort(t) \/ CommitLatch(t)
                      \/ CallStep(t)
             PROVE  /\ Finished(w) => Finished(w)' /\ commit'[w] = commit[w]
                    /\ state[w] # "new" => state'[w] # "new" /\ start'[w] = start[w]
  BY <1>0 DEF TxnNext
<1> QED
  BY DEF Begin, NewUndoRecord, Abort, CommitLatch, CallStep, BeginReturn,
         CommitTime, Restamp, CommitReturn, Move, CheckOut, Finished, IInv, TxnTypeOK

(* Lemma: timestamps are natural numbers. *)
LEMMA TimesNat ==
  ASSUME IInv, NEW t \in Txns
  PROVE  start[t] \in Nat /\ commit[t] \in Nat
BY TransactionsAssumption DEF IInv, TxnTypeOK

(* Lemma: what was committed before a transaction began stays so. *)
LEMMA BeforeStable ==
  ASSUME IInv, [TxnNext]_txnVars, NEW w \in Txns, NEW t \in Txns,
         state[t] # "new", Before(w, t)
  PROVE  Before(w, t)'
BY TxnMonotone DEF Before

(* Lemma: start and commit times never coincide: both come from the same    *)
(* TimestampManager::CheckOutTimestamp.                                     *)
LEMMA TimesDifferNext ==
  ASSUME IInv, TimesDiffer, [TxnNext]_txnVars
  PROVE  TimesDiffer'
<1>0. CASE UNCHANGED txnVars
  BY <1>0 DEF txnVars, TimesDiffer, Finished
<1> SUFFICES ASSUME NEW t \in Txns,
                    Begin(t) \/ NewUndoRecord(t) \/ Abort(t) \/ CommitLatch(t)
                      \/ CallStep(t)
             PROVE  TimesDiffer'
  BY <1>0 DEF TxnNext
<1> USE TransactionsAssumption
<1>1. CASE Begin(t)
  BY <1>1 DEF Begin, Move, CheckOut, Finished, TimesDiffer, IInv, TxnTypeOK, Clock
<1>2. CASE CommitTime(t)
  BY <1>2 DEF CommitTime, Move, CheckOut, Finished, TimesDiffer, IInv, TxnTypeOK, Clock
<1>3. CASE NewUndoRecord(t) \/ Abort(t) \/ CommitLatch(t) \/ BeginReturn(t)
           \/ Restamp(t) \/ CommitReturn(t)
  BY <1>3 DEF NewUndoRecord, Abort, CommitLatch, BeginReturn, Restamp, CommitReturn,
              Move, Finished, TimesDiffer, IInv, TxnTypeOK
<1> QED
  BY <1>1, <1>2, <1>3 DEF CallStep

(* Lemma: a version without conflict is the transaction's own or was         *)
(* committed before it began (HasConflict of table.cpp).                     *)
LEMMA NoConflict ==
  ASSUME IInv, TimesDiffer,
         NEW t \in Txns, state[t] = "active",
         NEW s \in Seq(Records), s # <<>>, s[1][2] <= records[s[1][1]],
         ~Conflicts(t, s)
  PROVE  s[1][1] = t \/ Before(s[1][1], t)
<1> DEFINE w == s[1][1]
           i == s[1][2]
<1>1. /\ Head(s) = s[1] /\ s[1] \in Records
      /\ w \in Txns /\ i \in 1 .. records[w]
  BY DEF Records, IInv, TxnTypeOK
<1>2. ~HasConflict(RecordTs(w, i), FinishTime(t), start[t])
  BY <1>1 DEF Conflicts, Timestamp
<1>3. CASE w # t
  <2>1. Sees(t, w, i)
    BY <1>1, <1>2, <1>3, NoConflictSees
  <2>2. state[w] = "committed" /\ commit[w] <= start[t]
    BY <1>1, <2>1, SeesCommitted
  <2>3. start[t] # commit[w]
    BY <1>1, <2>2 DEF TimesDiffer, Finished
  <2> QED
    BY <1>1, <2>2, <2>3, TransactionsAssumption DEF Before, Finished, IInv, TxnTypeOK
<1> QED
  BY <1>3

(* Lemma: a linked record is one of its transaction's undo buffer. *)
LEMMA LinkedRecord ==
  ASSUME ChainInv, NEW r \in Rows, NEW k \in 1 .. Len(chain[r])
  PROVE  /\ chain[r][k] \in Records
         /\ chain[r][k][1] \in Txns
         /\ chain[r][k][2] \in 1 .. records[chain[r][k][1]]
         /\ chain[r][k] = <<chain[r][k][1], chain[r][k][2]>>
         /\ state[chain[r][k][1]] # "new"
         /\ chain[r] \in Seq(Records) /\ Len(chain[r]) \in Nat /\ k \in Nat
<1>1. chain[r] \in Seq(Records) /\ Len(chain[r]) \in Nat /\ k \in Nat
  BY DEF ChainInv, TableTypeOK
<1>2. chain[r][k] \in Records
  BY <1>1
<1>3. /\ chain[r][k][1] \in Txns /\ chain[r][k][2] \in 1 .. MaxRecords
      /\ chain[r][k] = <<chain[r][k][1], chain[r][k][2]>>
  BY <1>2 DEF Records
<1>4. chain[r][k][2] <= records[chain[r][k][1]]
  BY DEF ChainInv, LinkedRecords
<1>5. records[chain[r][k][1]] \in Nat
  BY <1>3 DEF ChainInv, IInv, TxnTypeOK
<1>6. chain[r][k][2] \in 1 .. records[chain[r][k][1]]
  BY <1>3, <1>4, <1>5, TransactionsAssumption
<1>7. state[chain[r][k][1]] # "new"
  BY <1>3, <1>6 DEF ChainInv, IInv, Stamps
<1> QED
  BY <1>1, <1>2, <1>3, <1>6, <1>7

(* Lemma: while a transaction has not committed, its records are on top of  *)
(* the chains they are linked to, the newest first, so that what it makes   *)
(* of a row is what the head of the chain says.                             *)
LEMMA OwnOnTop ==
  ASSUME ChainInv, NEW t \in Txns, ~Finished(t), NEW r \in Rows,
         LinkedTo(t, r) # {}
  PROVE  /\ chain[r] # <<>>
         /\ chain[r][1][1] = t
         /\ chain[r][1] \in Records
         /\ Effect(t, r) = Written(chain[r][1])
<1> DEFINE c == chain[r]
<1>1. /\ c \in Seq(Records) /\ Len(c) \in Nat
      /\ \A k \in 1 .. Len(c) : c[k] \in Records
  BY DEF ChainInv, TableTypeOK
<1>2. PICK i \in 1 .. records[t], k \in DOMAIN c : c[k] = <<t, i>>
  BY DEF LinkedTo
<1>3. k \in 1 .. Len(c) /\ c # <<>> /\ 1 \in 1 .. Len(c)
  BY <1>1, <1>2
<1>4. c[1][1] = t
  BY <1>1, <1>2, <1>3 DEF ChainInv, Ordered, Above, Before
<1>5. c[1] = <<t, c[1][2]>> /\ c[1][2] \in 1 .. records[t]
  BY <1>3, <1>4, LinkedRecord
<1>6. c[1][2] \in LinkedTo(t, r)
  BY <1>1, <1>3, <1>5 DEF LinkedTo
<1>7. \A j \in LinkedTo(t, r) : j <= c[1][2]
  <2> SUFFICES ASSUME NEW j \in LinkedTo(t, r) PROVE j <= c[1][2]
    OBVIOUS
  <2>1. PICK m \in DOMAIN c : c[m] = <<t, j>>
    BY DEF LinkedTo
  <2>2. m \in 1 .. Len(c)
    BY <1>1, <2>1
  <2>3. CASE m = 1
    BY <1>5, <2>1, <2>3 DEF LinkedTo, IInv, ChainInv, TxnTypeOK
  <2>4. CASE m > 1
    <3>1. Above(c[1], c[m])
      BY <1>1, <1>3, <2>2, <2>4 DEF ChainInv, Ordered
    <3>2. j < c[1][2]
      BY <1>4, <2>1, <3>1 DEF Above, Before
    <3> QED
      BY <1>5, <3>2 DEF LinkedTo, IInv, ChainInv, TxnTypeOK
  <2> QED
    BY <1>1, <2>2, <2>3, <2>4
<1> DEFINE m == CHOOSE i1 \in LinkedTo(t, r) : \A j \in LinkedTo(t, r) : j <= i1
<1>8. m \in LinkedTo(t, r) /\ \A j \in LinkedTo(t, r) : j <= m
  BY <1>6, <1>7
<1>9. m = c[1][2]
  BY <1>5, <1>6, <1>7, <1>8 DEF LinkedTo, IInv, ChainInv, TxnTypeOK
<1> QED
  BY <1>1, <1>3, <1>4, <1>5, <1>9 DEF Effect, Written, Undo

(* Lemma: the invariant of the chains holds initially. *)
LEMMA InitChainInv == TableInit => ChainInv
<1> SUFFICES ASSUME TableInit PROVE ChainInv
  OBVIOUS
<1> USE TransactionsAssumption, TableMvccAssumption
<1>1. IInv
  BY InitIInv DEF TableInit
<1>2. 1 \in Rows /\ Loaded \in Values /\ InitRows \in 0 .. MaxRows
  BY DEF Rows, Values
<1>3. TableTypeOK
  <2>1. db \in [Rows -> Contents]
    BY DEF TableInit, Contents, Values
  <2> QED
    BY <1>1, <1>2, <2>1 DEF TableInit, TableTypeOK, IInv, Calls
<1>4. TimesDiffer /\ CallsRunning /\ LinkedRecords /\ SuccessLinked /\ Ordered
        /\ SeenWritable /\ RowsOnPage
  BY DEF TableInit, TxnInit, TimesDiffer, Finished, CallsRunning, LinkedRecords,
         SuccessLinked, Ordered, SeenWritable, LinkCalls, RowsOnPage
<1> QED
  BY <1>1, <1>3, <1>4 DEF ChainInv

(* Lemma: the steps of the transaction manager preserve the invariant of    *)
(* the chains.                                                              *)
LEMMA ChainTxnStep ==
  ASSUME ChainInv, NEW t \in Txns, TxnStep(t)
  PROVE  ChainInv'
<1> USE TransactionsAssumption
<1>1. TxnNext
  BY DEF TxnStep, BeginTxn, CommitTxn, TxnNext, CallStep
<1>2. IInv' /\ TimesDiffer'
  BY <1>1, NextIInv, TimesDifferNext DEF ChainInv
<1>3. /\ UNCHANGED tableVars /\ records' = records /\ call[t] = "none"
      /\ \A u \in Txns : u # t => state'[u] = state[u]
  BY DEF TxnStep, BeginTxn, CommitTxn, Begin, Abort, CommitLatch, BeginReturn,
         CommitTime, Restamp, CommitReturn, Move, ChainInv, IInv, TxnTypeOK
<1>4. TableTypeOK'
  <2>1. db' \in [Rows -> Contents]
    <3>1. CASE CommitTxn(t)
      <4>1. ~Finished(t)
        BY <3>1 DEF CommitTxn, CommitTime, Move, Finished
      <4>2. \A r \in Rows : LinkedTo(t, r) # {} => Effect(t, r) \in Contents
        BY <4>1, OwnOnTop DEF Written, Contents, Values
      <4> QED
        BY <3>1, <4>2 DEF CommitTxn, Overlay, ChainInv, TableTypeOK
    <3>2. CASE ~CommitTxn(t)
      BY <3>2 DEF TxnStep, BeginTxn, histVars, ChainInv, TableTypeOK
    <3> QED
      BY <3>1, <3>2
  <2>2. snap' \in [Txns -> [Rows -> Contents]]
    BY DEF TxnStep, BeginTxn, CommitTxn, histVars, ChainInv, TableTypeOK
  <2> QED
    BY <1>2, <1>3, <2>1, <2>2 DEF ChainInv, TableTypeOK, IInv, tableVars
<1>5. CallsRunning' /\ LinkedRecords' /\ SuccessLinked' /\ RowsOnPage'
  <2>1. CallsRunning'
    BY <1>3 DEF ChainInv, CallsRunning, tableVars
  <2>2. LinkedRecords'
    BY <1>3 DEF ChainInv, LinkedRecords, tableVars, Pending, Undo
  <2>3. SuccessLinked'
    BY <1>3 DEF ChainInv, SuccessLinked, tableVars, Pending
  <2> QED
    BY <1>3, <2>1, <2>2, <2>3 DEF ChainInv, RowsOnPage, tableVars
<1>6. Ordered'
  <2> SUFFICES ASSUME NEW r \in Rows, NEW j \in 1 .. Len(chain[r]),
                      NEW k \in 1 .. Len(chain[r]), j < k
               PROVE  Above(chain[r][j], chain[r][k])'
    BY <1>3 DEF Ordered, tableVars
  <2>1. chain[r][j] \in Records /\ chain[r][k] \in Records
    BY DEF ChainInv, TableTypeOK
  <2>2. Above(chain[r][j], chain[r][k])
    BY DEF ChainInv, Ordered
  <2>3. state[chain[r][j][1]] # "new"
    BY LinkedRecord
  <2> QED
    BY <1>1, <1>3, <2>1, <2>2, <2>3, BeforeStable
       DEF Above, Records, tableVars, ChainInv
<1>7. SeenWritable'
  <2> SUFFICES ASSUME NEW u \in Txns, call[u] \in LinkCalls, seen[u] # <<>>
               PROVE  seen[u][1][1] = u \/ Before(seen[u][1][1], u)'
    BY <1>3 DEF SeenWritable, tableVars
  <2>1. seen[u][1] \in Records /\ state[u] = "active"
    BY DEF ChainInv, TableTypeOK, CallsRunning, LinkCalls
  <2> QED
    BY <1>1, <1>3, <2>1, BeforeStable DEF ChainInv, SeenWritable, Records, tableVars
<1> QED
  BY <1>2, <1>4, <1>5, <1>6, <1>7 DEF ChainInv

(* Lemma: what a new undo record changes (UndoRecordForInsert, -Update,     *)
(* -Delete): it is a step of Transactions and leaves the others alone.      *)
LEMMA NewRecordStep ==
  ASSUME ChainInv, NEW t \in Txns, NewUndoRecord(t), NEW e \in UndoEntry,
         undo' = [undo EXCEPT ![t] = Append(undo[t], e)]
  PROVE  /\ IInv' /\ TimesDiffer'
         /\ state[t] = "active"
         /\ UNCHANGED <<time, latch, state, start, commit, stamped>>
         /\ records[t] \in Nat /\ records[t] + 1 \in 1 .. MaxRecords
         /\ records'[t] = records[t] + 1
         /\ \A u \in Txns : u # t => records'[u] = records[u]
         /\ \A u \in Txns : records[u] \in Nat
         /\ undo' \in [Txns -> Seq(UndoEntry)]
         /\ \A u \in Txns : Len(undo'[u]) = records'[u]
         /\ \A u \in Txns : \A i \in 1 .. records[u] :
              undo'[u][i] = undo[u][i] /\ undo[u][i] \in UndoEntry
         /\ undo'[t][records[t] + 1] = e
<1>1. TxnNext
  BY DEF TxnNext
<1>2. IInv' /\ TimesDiffer'
  BY <1>1, NextIInv, TimesDifferNext DEF ChainInv
<1>3. records \in [Txns -> 0 .. MaxRecords] /\ undo \in [Txns -> Seq(UndoEntry)]
  BY DEF ChainInv, IInv, TxnTypeOK, TableTypeOK, UndoEntry
<1>4. /\ state[t] = "active"
      /\ UNCHANGED <<time, latch, state, start, commit, stamped>>
      /\ records[t] \in Nat /\ records[t] + 1 \in 1 .. MaxRecords
      /\ records'[t] = records[t] + 1
      /\ \A u \in Txns : u # t => records'[u] = records[u]
      /\ \A u \in Txns : records[u] \in Nat
  BY <1>3, TransactionsAssumption DEF NewUndoRecord
<1>5. /\ undo'[t] = Append(undo[t], e)
      /\ \A u \in Txns : u # t => undo'[u] = undo[u]
      /\ \A u \in Txns : Len(undo[u]) = records[u]
  BY <1>3 DEF ChainInv, CallsRunning
<1>6. /\ undo'[t] \in Seq(UndoEntry) /\ Len(undo'[t]) = records[t] + 1
      /\ undo'[t][records[t] + 1] = e
      /\ \A i \in 1 .. records[t] : undo'[t][i] = undo[t][i]
  BY <1>3, <1>5, AppendEntry
<1>7. undo' \in [Txns -> Seq(UndoEntry)]
  BY <1>3, <1>6
<1>8. \A u \in Txns : Len(undo'[u]) = records'[u]
  BY <1>4, <1>5, <1>6
<1>9. \A u \in Txns : \A i \in 1 .. records[u] :
        undo'[u][i] = undo[u][i] /\ undo[u][i] \in UndoEntry
  BY <1>3, <1>5, <1>6
<1> QED
  BY <1>2, <1>4, <1>6, <1>7, <1>8, <1>9

(* Lemma: Table::Insert preserves the invariant of the chains. *)
LEMMA ChainInsert ==
  ASSUME ChainInv, NEW t \in Txns, Insert(t)
  PROVE  ChainInv'
<1> USE TransactionsAssumption, TableMvccAssumption
<1> DEFINE n   == records[t] + 1
           r   == count + 1
           rec == <<t, n>>
           e   == [row |-> r, type |-> "INSERT", old |-> Loaded]
<1>1. /\ call[t] = "none" /\ count' = r /\ count \in Nat /\ r \in Rows
      /\ value' = [value EXCEPT ![r] = rec]
      /\ chain' = [chain EXCEPT ![r] = <<rec>>]
      /\ undo' = [undo EXCEPT ![t] = Append(undo[t], e)]
      /\ UNCHANGED <<bitmap, lock, call, row, seen, db, snap>>
      /\ NewUndoRecord(t)
  BY DEF Insert, ChainInv, TableTypeOK, Rows, histVars
<1>2. e \in UndoEntry
  BY <1>1 DEF Values, UndoEntry, Types
<1>3. /\ IInv' /\ TimesDiffer'
      /\ UNCHANGED <<time, latch, state, start, commit, stamped>>
      /\ records[t] \in Nat /\ n \in 1 .. MaxRecords
      /\ records'[t] = n
      /\ \A u \in Txns : u # t => records'[u] = records[u]
      /\ \A u \in Txns : records[u] \in Nat
      /\ undo' \in [Txns -> Seq(UndoEntry)]
      /\ \A u \in Txns : Len(undo'[u]) = records'[u]
      /\ \A u \in Txns : \A i \in 1 .. records[u] :
           undo'[u][i] = undo[u][i] /\ undo[u][i] \in UndoEntry
      /\ undo'[t][n] = e
  BY <1>1, <1>2, NewRecordStep
<1>3a. \A u \in Txns : \A i \in 1 .. records[u] : undo'[u][i] = undo[u][i]
  BY <1>3
<1>3b. \A u \in Txns :
        records[u] \in Nat /\ records'[u] \in Nat /\ records[u] <= records'[u]
  <2> SUFFICES ASSUME NEW u \in Txns
               PROVE  records[u] \in Nat /\ records'[u] \in Nat /\ records[u] <= records'[u]
    OBVIOUS
  <2>1. CASE u = t
    BY <1>3, <2>1
  <2> QED
    BY <1>3, <2>1
<1>4. rec \in Records /\ rec \in Values /\ rec[1] = t /\ rec[2] = n
  BY <1>1, <1>3 DEF Records, Values
<1>5. TableTypeOK'
  <2>1. chain' \in [Rows -> Seq(Records)]
    BY <1>1, <1>4 DEF ChainInv, TableTypeOK
  <2>2. count' \in 0 .. MaxRows /\ value' \in [Rows -> Values]
    BY <1>1, <1>4 DEF ChainInv, TableTypeOK, Rows
  <2> QED
    BY <1>1, <1>3, <2>1, <2>2 DEF ChainInv, TableTypeOK, IInv, UndoEntry
<1>6. /\ chain[r] = <<>> /\ Len(chain'[r]) = 1 /\ chain'[r][1] = rec
      /\ \A q \in Rows : q # r => chain'[q] = chain[q]
  BY <1>1 DEF ChainInv, RowsOnPage, TableTypeOK
<1>7. CallsRunning'
  <2> SUFFICES ASSUME NEW u \in Txns, call[u] # "none"
               PROVE  /\ state'[u] = "active"
                      /\ records'[u] >= 1
                      /\ row[u] <= count'
                      /\ undo'[u][records'[u]].row = row[u]
                      /\ undo'[u][records'[u]].type =
                           IF call[u] \in {"update", "updateCas"} THEN "UPDATE"
                           ELSE "DELETE"
    BY <1>1, <1>3 DEF CallsRunning
  <2>1. /\ state[u] = "active" /\ records[u] >= 1 /\ row[u] <= count
        /\ undo[u][records[u]].row = row[u]
        /\ undo[u][records[u]].type =
             IF call[u] \in {"update", "updateCas"} THEN "UPDATE" ELSE "DELETE"
    BY DEF ChainInv, CallsRunning
  <2>2. u # t /\ records'[u] = records[u]
    BY <1>1, <1>3
  <2>3. undo'[u][records[u]] = undo[u][records[u]]
    <3>1. records[u] \in 1 .. records[u]
      BY <1>3, <2>1
    <3> QED
      BY <1>3a, <3>1
  <2>4. row[u] <= count'
    BY <1>1, <2>1 DEF ChainInv, TableTypeOK, Rows
  <2> QED
    BY <1>3, <2>1, <2>2, <2>3, <2>4
<1>8. LinkedRecords'
  <2> SUFFICES ASSUME NEW q \in Rows, NEW k \in 1 .. Len(chain'[q])
               PROVE  /\ chain'[q][k][2] <= records'[chain'[q][k][1]]
                      /\ undo'[chain'[q][k][1]][chain'[q][k][2]].row = q
                      /\ undo'[chain'[q][k][1]][chain'[q][k][2]].type # "INVALID"
                      /\ ~(/\ chain'[q][k][2] = records'[chain'[q][k][1]]
                           /\ call'[chain'[q][k][1]] # "none")
    BY DEF LinkedRecords, Undo, Pending
  <2>1. CASE q = r
    <3>1. chain'[q][k][1] = t /\ chain'[q][k][2] = n
      BY <1>4, <1>6, <2>1
    <3> QED
      BY <1>1, <1>3, <2>1, <3>1
  <2>2. CASE q # r
    <3> DEFINE x == chain[q][k]
    <3>1. chain'[q][k] = x /\ k \in 1 .. Len(chain[q])
      BY <1>6, <2>2
    <3>2. x[1] \in Txns /\ x[2] \in 1 .. records[x[1]]
      BY <3>1, LinkedRecord
    <3>3. /\ undo[x[1]][x[2]].row = q /\ undo[x[1]][x[2]].type # "INVALID"
          /\ ~(x[2] = records[x[1]] /\ call[x[1]] # "none")
      BY <3>1 DEF ChainInv, LinkedRecords, Undo, Pending
    <3>4. undo'[x[1]][x[2]] = undo[x[1]][x[2]]
      BY <1>3a, <3>2
    <3>5. x[2] <= records'[x[1]]
      BY <1>3b, <3>2
    <3>6. ~(x[2] = records'[x[1]] /\ call[x[1]] # "none")
      BY <1>1, <1>3, <3>2, <3>3
    <3> QED
      BY <1>1, <3>1, <3>3, <3>4, <3>5, <3>6
  <2> QED
    BY <2>1, <2>2
<1>9. SuccessLinked'
  <2> SUFFICES ASSUME NEW u \in Txns, NEW i \in 1 .. records'[u],
                      undo'[u][i].type # "INVALID", ~Pending(u, i)'
               PROVE  \E k \in 1 .. Len(chain'[undo'[u][i].row]) :
                        chain'[undo'[u][i].row][k] = <<u, i>>
    BY DEF SuccessLinked
  <2>1. CASE u = t /\ i = n
    <3>1. undo'[u][i].row = r
      BY <1>3, <2>1
    <3> QED
      BY <1>6, <2>1, <3>1
  <2>2. CASE ~(u = t /\ i = n)
    <3>1. i \in 1 .. records[u]
      BY <1>3, <2>2
    <3>2. ~Pending(u, i)
      BY <1>1, <1>3, <2>2, <3>1 DEF Pending
    <3>3. undo'[u][i] = undo[u][i] /\ undo[u][i] \in UndoEntry
      BY <1>3, <3>1
    <3>4. PICK k \in 1 .. Len(chain[undo[u][i].row]) : chain[undo[u][i].row][k] = <<u, i>>
      BY <3>1, <3>2, <3>3 DEF ChainInv, SuccessLinked
    <3>5. undo[u][i].row \in Rows
      BY <3>3 DEF UndoEntry
    <3>6. undo[u][i].row # r
      BY <1>6, <3>4
    <3> QED
      BY <1>6, <3>3, <3>4, <3>5, <3>6
  <2> QED
    BY <2>1, <2>2
<1>10. Ordered'
  <2> SUFFICES ASSUME NEW q \in Rows, NEW j \in 1 .. Len(chain'[q]),
                      NEW k \in 1 .. Len(chain'[q]), j < k
               PROVE  Above(chain[q][j], chain[q][k])'
    BY DEF Ordered
  <2>1. q # r
    <3> SUFFICES ASSUME q = r PROVE FALSE
      OBVIOUS
    <3>1. Len(chain'[q]) = 1
      BY <1>6
    <3> QED
      BY <3>1
  <2>2. Above(chain[q][j], chain[q][k])
    BY <1>6, <2>1 DEF ChainInv, Ordered
  <2> QED
    BY <1>3, <1>6, <2>1, <2>2 DEF Above, Before, Finished
<1>11. SeenWritable' /\ RowsOnPage'
  <2>1. SeenWritable'
    BY <1>1, <1>3 DEF ChainInv, SeenWritable, Before, Finished
  <2>2. RowsOnPage'
    BY <1>1, <1>6 DEF ChainInv, RowsOnPage, Rows
  <2> QED
    BY <2>1, <2>2
<1> QED
  BY <1>3, <1>5, <1>7, <1>8, <1>9, <1>10, <1>11 DEF ChainInv

-----------------------------------------------------------------------------
(* The steps of a call *)

(* Lemma: the undo record of a call under way is the last of its buffer. *)
LEMMA CallRecord ==
  ASSUME ChainInv, NEW t \in Txns, call[t] # "none"
  PROVE  /\ undo \in [Txns -> Seq(UndoEntry)] /\ call \in [Txns -> Calls]
         /\ \A u \in Txns : Len(undo[u]) = records[u] /\ records[u] \in Nat
         /\ records[t] \in 1 .. Len(undo[t])
         /\ Mine(t) \in Records /\ Mine(t)[1] = t /\ Mine(t)[2] = records[t]
         /\ row[t] \in Rows /\ row[t] <= count
<1>1. undo \in [Txns -> Seq(UndoEntry)] /\ call \in [Txns -> Calls] /\ row[t] \in Rows
  BY DEF ChainInv, TableTypeOK, UndoEntry
<1>2. \A u \in Txns : Len(undo[u]) = records[u] /\ records[u] \in 0 .. MaxRecords
  BY DEF ChainInv, CallsRunning, IInv, TxnTypeOK
<1>3. records[t] >= 1 /\ row[t] <= count
  BY DEF ChainInv, CallsRunning
<1>4. records[t] \in 1 .. MaxRecords
  BY <1>2, <1>3, TransactionsAssumption
<1> QED
  BY <1>1, <1>2, <1>3, <1>4, TransactionsAssumption DEF Mine, Records

(* Lemma: a step that links nothing keeps the chains in order, provided it   *)
(* leaves the records of finished calls alone and finishes no call with      *)
(* success.                                                                  *)
LEMMA ChainKept ==
  ASSUME ChainInv,
         UNCHANGED <<chain, state, start, commit>>,
         \A u \in Txns : \A i \in 1 .. records[u] :
           ~Pending(u, i) =>
             /\ undo'[u][i].row = undo[u][i].row
             /\ undo'[u][i].type = undo[u][i].type
             /\ i <= records'[u]
             /\ ~Pending(u, i)',
         \A u \in Txns : \A i \in 1 .. records'[u] :
           undo'[u][i].type # "INVALID" /\ ~Pending(u, i)' =>
             i \in 1 .. records[u] /\ ~Pending(u, i)
  PROVE  LinkedRecords' /\ SuccessLinked' /\ Ordered'
<1>1. LinkedRecords'
  <2> SUFFICES ASSUME NEW q \in Rows, NEW k \in 1 .. Len(chain[q])
               PROVE  /\ chain[q][k][2] <= records'[chain[q][k][1]]
                      /\ undo'[chain[q][k][1]][chain[q][k][2]].row = q
                      /\ undo'[chain[q][k][1]][chain[q][k][2]].type # "INVALID"
                      /\ ~Pending(chain[q][k][1], chain[q][k][2])'
    BY DEF LinkedRecords, Undo
  <2> DEFINE w == chain[q][k][1]
             i == chain[q][k][2]
  <2>1. w \in Txns /\ i \in 1 .. records[w]
    BY LinkedRecord
  <2>2. undo[w][i].row = q /\ undo[w][i].type # "INVALID" /\ ~Pending(w, i)
    BY DEF ChainInv, LinkedRecords, Undo
  <2>3. /\ undo'[w][i].row = undo[w][i].row /\ undo'[w][i].type = undo[w][i].type
        /\ i <= records'[w] /\ ~Pending(w, i)'
    BY <2>1, <2>2
  <2>4. Pending(w, i)' <=> Pending(chain[q][k][1], chain[q][k][2])'
    BY DEF Pending
  <2> QED
    BY <2>2, <2>3, <2>4
<1>2. SuccessLinked'
  <2> SUFFICES ASSUME NEW u \in Txns, NEW i \in 1 .. records'[u],
                      undo'[u][i].type # "INVALID", ~Pending(u, i)'
               PROVE  \E k \in 1 .. Len(chain[undo'[u][i].row]) :
                        chain[undo'[u][i].row][k] = <<u, i>>
    BY DEF SuccessLinked
  <2>1. i \in 1 .. records[u] /\ ~Pending(u, i)
    OBVIOUS
  <2>2. undo'[u][i].row = undo[u][i].row /\ undo'[u][i].type = undo[u][i].type
    BY <2>1
  <2> QED
    BY <2>1, <2>2 DEF ChainInv, SuccessLinked
<1>3. Ordered'
  BY DEF ChainInv, Ordered, Above, Before, Finished
<1> QED
  BY <1>1, <1>2, <1>3

(* Lemma: a call that starts preserves the invariant of the chains. *)
LEMMA ChainStart ==
  ASSUME ChainInv, NEW t \in Txns, NEW r \in Rows,
         NEW type \in {"UPDATE", "DELETE"}, NEW at \in {"update", "delete", "raw"},
         type = (IF at = "update" THEN "UPDATE" ELSE "DELETE"),
         StartCall(t, r, type, at), lock' \in Txns \cup {NoTxn}
  PROVE  ChainInv'
<1> USE TransactionsAssumption, TableMvccAssumption
<1> DEFINE n == records[t] + 1
           e == [row |-> r, type |-> type, old |-> Loaded]
<1>1. /\ call[t] = "none" /\ r <= count /\ NewUndoRecord(t)
      /\ undo' = [undo EXCEPT ![t] = Append(undo[t], e)]
      /\ call' = [call EXCEPT ![t] = at]
      /\ row' = [row EXCEPT ![t] = r]
      /\ UNCHANGED <<count, value, bitmap, chain, seen, db, snap>>
  BY DEF StartCall, histVars
<1>2. e \in UndoEntry
  BY DEF Values, UndoEntry, Types
<1>3. /\ IInv' /\ TimesDiffer' /\ state[t] = "active"
      /\ UNCHANGED <<time, latch, state, start, commit, stamped>>
      /\ records[t] \in Nat /\ n \in 1 .. MaxRecords
      /\ records'[t] = n
      /\ \A u \in Txns : u # t => records'[u] = records[u]
      /\ \A u \in Txns : records[u] \in Nat
      /\ undo' \in [Txns -> Seq(UndoEntry)]
      /\ \A u \in Txns : Len(undo'[u]) = records'[u]
      /\ \A u \in Txns : \A i \in 1 .. records[u] :
           undo'[u][i] = undo[u][i] /\ undo[u][i] \in UndoEntry
      /\ undo'[t][n] = e
  BY <1>1, <1>2, NewRecordStep
<1>4. \A u \in Txns : \A i \in 1 .. records[u] : undo'[u][i] = undo[u][i]
  BY <1>3
<1>5. /\ call'[t] = at /\ row'[t] = r
      /\ \A u \in Txns : u # t => call'[u] = call[u] /\ row'[u] = row[u]
      /\ call' \in [Txns -> Calls] /\ row' \in [Txns -> Rows]
  BY <1>1 DEF ChainInv, TableTypeOK, Calls
<1>6. TableTypeOK'
  BY <1>1, <1>3, <1>5 DEF ChainInv, TableTypeOK, IInv, UndoEntry
<1>7. CallsRunning'
  <2> SUFFICES ASSUME NEW u \in Txns, call'[u] # "none"
               PROVE  /\ state'[u] = "active"
                      /\ records'[u] >= 1
                      /\ row'[u] <= count'
                      /\ undo'[u][records'[u]].row = row'[u]
                      /\ undo'[u][records'[u]].type =
                           IF call'[u] \in {"update", "updateCas"} THEN "UPDATE"
                           ELSE "DELETE"
    BY <1>3 DEF CallsRunning
  <2>1. CASE u = t
    BY <1>1, <1>3, <1>5, <2>1
  <2>2. CASE u # t
    <3>1. call'[u] = call[u] /\ row'[u] = row[u] /\ records'[u] = records[u]
      BY <1>3, <1>5, <2>2
    <3>2. /\ state[u] = "active" /\ records[u] >= 1 /\ row[u] <= count
          /\ undo[u][records[u]].row = row[u]
          /\ undo[u][records[u]].type =
               IF call[u] \in {"update", "updateCas"} THEN "UPDATE" ELSE "DELETE"
      BY <3>1 DEF ChainInv, CallsRunning
    <3>3. records[u] \in 1 .. records[u]
      BY <1>3, <3>2
    <3>4. undo'[u][records[u]] = undo[u][records[u]]
      BY <1>4, <3>3
    <3> QED
      BY <1>1, <1>3, <3>1, <3>2, <3>4
  <2> QED
    BY <2>1, <2>2
<1>8. LinkedRecords' /\ SuccessLinked' /\ Ordered'
  <2>1. ASSUME NEW u \in Txns, NEW i \in 1 .. records[u], ~Pending(u, i)
        PROVE  /\ undo'[u][i].row = undo[u][i].row
               /\ undo'[u][i].type = undo[u][i].type
               /\ i <= records'[u]
               /\ ~Pending(u, i)'
    <3>1. undo'[u][i] = undo[u][i]
      BY <1>4
    <3>2. CASE u = t
      BY <1>3, <3>1, <3>2 DEF Pending
    <3>3. CASE u # t
      BY <1>3, <1>5, <2>1, <3>1, <3>3 DEF Pending
    <3> QED
      BY <3>2, <3>3
  <2>2. ASSUME NEW u \in Txns, NEW i \in 1 .. records'[u], ~Pending(u, i)'
        PROVE  i \in 1 .. records[u] /\ ~Pending(u, i)
    <3>1. CASE u = t
      BY <1>1, <1>3, <1>5, <2>2, <3>1 DEF Pending
    <3>2. CASE u # t
      BY <1>3, <1>5, <2>2, <3>2 DEF Pending
    <3> QED
      BY <3>1, <3>2
  <2> QED
    BY <1>1, <1>3, <2>1, <2>2, ChainKept
<1>9. SeenWritable'
  BY <1>1, <1>3, <1>5 DEF ChainInv, SeenWritable, LinkCalls, Before, Finished
<1>10. RowsOnPage'
  BY <1>1 DEF ChainInv, RowsOnPage
<1> QED
  BY <1>3, <1>6, <1>7, <1>8, <1>9, <1>10 DEF ChainInv

(* Lemma: a call that is refused preserves the invariant of the chains. *)
LEMMA ChainRefuse ==
  ASSUME ChainInv, NEW t \in Txns, call[t] # "none", Refuse(t),
         lock' \in Txns \cup {NoTxn}
  PROVE  ChainInv'
<1> DEFINE n == records[t]
<1>1. /\ undo' = [undo EXCEPT ![t] = [undo[t] EXCEPT ![n].type = "INVALID"]]
      /\ call' = [call EXCEPT ![t] = "none"]
      /\ UNCHANGED <<txnVars, count, value, bitmap, chain, row, seen, db, snap>>
      /\ UNCHANGED <<time, latch, state, start, commit, records, stamped>>
  BY DEF Refuse, histVars, txnVars
<1>2. /\ undo \in [Txns -> Seq(UndoEntry)] /\ call \in [Txns -> Calls]
      /\ \A u \in Txns : Len(undo[u]) = records[u] /\ records[u] \in Nat
      /\ n \in 1 .. Len(undo[t])
  BY CallRecord
<1>3. /\ undo'[t] = [undo[t] EXCEPT ![n].type = "INVALID"]
      /\ \A u \in Txns : u # t => undo'[u] = undo[u] /\ call'[u] = call[u]
      /\ call'[t] = "none" /\ call' \in [Txns -> Calls]
  BY <1>1, <1>2 DEF Calls
<1>4. /\ undo'[t] \in Seq(UndoEntry) /\ Len(undo'[t]) = n
      /\ undo'[t][n].type = "INVALID"
      /\ \A k \in 1 .. n : k # n => undo'[t][k] = undo[t][k]
  <2>1. undo[t] \in Seq(UndoEntry) /\ Len(undo[t]) = n
    BY <1>2
  <2> QED
    BY <1>2, <1>3, <2>1, InvalidateEntry
<1>5. IInv' /\ TimesDiffer'
  BY <1>1, NextIInv, TimesDifferNext DEF ChainInv
<1>6. TableTypeOK'
  <2>1. undo' \in [Txns -> Seq(UndoEntry)]
    BY <1>1, <1>2, <1>3, <1>4
  <2> QED
    BY <1>1, <1>3, <1>5, <2>1 DEF ChainInv, TableTypeOK, IInv, UndoEntry
<1>7. CallsRunning'
  BY <1>1, <1>2, <1>3, <1>4 DEF ChainInv, CallsRunning
<1>8. LinkedRecords' /\ SuccessLinked' /\ Ordered'
  <2>1. ASSUME NEW u \in Txns, NEW i \in 1 .. records[u], ~Pending(u, i)
        PROVE  /\ undo'[u][i].row = undo[u][i].row
               /\ undo'[u][i].type = undo[u][i].type
               /\ i <= records'[u]
               /\ ~Pending(u, i)'
    <3>1. CASE u = t
      BY <1>1, <1>2, <1>3, <1>4, <2>1, <3>1 DEF Pending
    <3>2. CASE u # t
      BY <1>1, <1>2, <1>3, <2>1, <3>2 DEF Pending
    <3> QED
      BY <3>1, <3>2
  <2>2. ASSUME NEW u \in Txns, NEW i \in 1 .. records'[u],
               undo'[u][i].type # "INVALID", ~Pending(u, i)'
        PROVE  i \in 1 .. records[u] /\ ~Pending(u, i)
    <3>1. CASE u = t
      BY <1>1, <1>2, <1>4, <2>2, <3>1 DEF Pending
    <3>2. CASE u # t
      BY <1>1, <1>3, <2>2, <3>2 DEF Pending
    <3> QED
      BY <3>1, <3>2
  <2> QED
    BY <1>1, <2>1, <2>2, ChainKept
<1>9. SeenWritable'
  BY <1>1, <1>3 DEF ChainInv, SeenWritable, LinkCalls, Before, Finished
<1>10. RowsOnPage'
  BY <1>1 DEF ChainInv, RowsOnPage
<1> QED
  BY <1>5, <1>6, <1>7, <1>8, <1>9, <1>10 DEF ChainInv

(* Lemma: a call that has read a head it may write over preserves the        *)
(* invariant of the chains, whether or not it has written the page.          *)
LEMMA ChainProceed ==
  ASSUME ChainInv, NEW t \in Txns, call[t] \in {"update", "delete", "raw"},
         NEW at \in LinkCalls,
         call[t] = "update" <=> at = "updateCas",
         ~Conflicts(t, chain[row[t]]),
         Proceed(t, at),
         value' \in [Rows -> Values],
         \/ undo' = undo
         \/ \E v \in Values : undo' = [undo EXCEPT ![t][records[t]].old = v]
  PROVE  ChainInv'
<1> DEFINE n == records[t]
<1>1. /\ seen' = [seen EXCEPT ![t] = chain[row[t]]]
      /\ call' = [call EXCEPT ![t] = at]
      /\ UNCHANGED <<txnVars, count, bitmap, lock, chain, row, db, snap>>
      /\ UNCHANGED <<time, latch, state, start, commit, records, stamped>>
  BY DEF Proceed, histVars, txnVars
<1>2. /\ undo \in [Txns -> Seq(UndoEntry)] /\ call \in [Txns -> Calls]
      /\ \A u \in Txns : Len(undo[u]) = records[u] /\ records[u] \in Nat
      /\ n \in 1 .. Len(undo[t])
      /\ row[t] \in Rows
  BY CallRecord
<1>3. /\ \A u \in Txns : u # t => call'[u] = call[u] /\ seen'[u] = seen[u]
      /\ call'[t] = at /\ call' \in [Txns -> Calls]
      /\ seen'[t] = chain[row[t]] /\ seen' \in [Txns -> Seq(Records)]
  BY <1>1, <1>2 DEF Calls, LinkCalls, ChainInv, TableTypeOK
<1>4. /\ undo' \in [Txns -> Seq(UndoEntry)]
      /\ \A u \in Txns : Len(undo'[u]) = records[u]
      /\ \A u \in Txns : \A i \in 1 .. records[u] :
           /\ undo'[u][i].row = undo[u][i].row
           /\ undo'[u][i].type = undo[u][i].type
  <2>1. CASE undo' = undo
    BY <1>2, <2>1
  <2>2. ASSUME NEW v \in Values, undo' = [undo EXCEPT ![t][n].old = v]
        PROVE  /\ undo' \in [Txns -> Seq(UndoEntry)]
               /\ \A u \in Txns : Len(undo'[u]) = records[u]
               /\ \A u \in Txns : \A i \in 1 .. records[u] :
                    /\ undo'[u][i].row = undo[u][i].row
                    /\ undo'[u][i].type = undo[u][i].type
    <3>1. undo' = [undo EXCEPT ![t] = [undo[t] EXCEPT ![n].old = v]]
      BY <2>2
    <3>2. /\ undo'[t] = [undo[t] EXCEPT ![n].old = v]
          /\ \A u \in Txns : u # t => undo'[u] = undo[u]
          /\ undo[t] \in Seq(UndoEntry) /\ Len(undo[t]) = n
      BY <1>2, <3>1
    <3>3. /\ undo'[t] \in Seq(UndoEntry) /\ Len(undo'[t]) = n
          /\ undo'[t][n].type = undo[t][n].type /\ undo'[t][n].row = undo[t][n].row
          /\ \A k \in 1 .. n : k # n => undo'[t][k] = undo[t][k]
      BY <1>2, <2>2, <3>2, ImageEntry
    <3>4. undo' \in [Txns -> Seq(UndoEntry)]
      BY <1>2, <3>1, <3>2, <3>3
    <3> QED
      BY <1>2, <3>2, <3>3, <3>4
  <2> QED
    BY <2>1, <2>2
<1>5. IInv' /\ TimesDiffer'
  BY <1>1, NextIInv, TimesDifferNext DEF ChainInv
<1>6. TableTypeOK'
  BY <1>1, <1>3, <1>4, <1>5 DEF ChainInv, TableTypeOK, IInv, UndoEntry
<1>7. CallsRunning'
  <2> SUFFICES ASSUME NEW u \in Txns, call'[u] # "none"
               PROVE  /\ state[u] = "active" /\ records[u] >= 1 /\ row[u] <= count
                      /\ undo'[u][records[u]].row = row[u]
                      /\ undo'[u][records[u]].type =
                           IF call'[u] \in {"update", "updateCas"} THEN "UPDATE"
                           ELSE "DELETE"
    BY <1>1, <1>4 DEF CallsRunning
  <2>1. call[u] # "none"
    BY <1>3
  <2>2. /\ state[u] = "active" /\ records[u] >= 1 /\ row[u] <= count
        /\ undo[u][records[u]].row = row[u]
        /\ undo[u][records[u]].type =
             IF call[u] \in {"update", "updateCas"} THEN "UPDATE" ELSE "DELETE"
    BY <2>1 DEF ChainInv, CallsRunning
  <2>3. records[u] \in 1 .. records[u]
    BY <1>2, <2>2
  <2>4. call'[u] \in {"update", "updateCas"} <=> call[u] \in {"update", "updateCas"}
    BY <1>3 DEF LinkCalls
  <2> QED
    BY <1>4, <2>2, <2>3, <2>4
<1>8. LinkedRecords' /\ SuccessLinked' /\ Ordered'
  <2>1. \A u \in Txns, i \in Nat : Pending(u, i)' <=> Pending(u, i)
    BY <1>1, <1>3 DEF Pending, LinkCalls
  <2>2. ASSUME NEW u \in Txns, NEW i \in 1 .. records[u], ~Pending(u, i)
        PROVE  /\ undo'[u][i].row = undo[u][i].row
               /\ undo'[u][i].type = undo[u][i].type
               /\ i <= records'[u]
               /\ ~Pending(u, i)'
    BY <1>1, <1>2, <1>4, <2>1, <2>2
  <2>3. ASSUME NEW u \in Txns, NEW i \in 1 .. records'[u], ~Pending(u, i)'
        PROVE  i \in 1 .. records[u] /\ ~Pending(u, i)
    BY <1>1, <1>2, <2>1, <2>3
  <2> QED
    BY <1>1, <2>2, <2>3, ChainKept
<1>9. SeenWritable'
  <2> SUFFICES ASSUME NEW u \in Txns, call'[u] \in LinkCalls, seen'[u] # <<>>
               PROVE  seen'[u][1][1] = u \/ Before(seen[u][1][1], u)'
    BY DEF SeenWritable
  <2>1. CASE u = t
    <3> DEFINE s == chain[row[t]]
    <3>1. /\ s \in Seq(Records) /\ s # <<>> /\ state[t] = "active"
          /\ seen'[u] = s
      BY <1>2, <1>3, <2>1 DEF ChainInv, TableTypeOK, CallsRunning
    <3>2. 1 \in 1 .. Len(s)
      BY <3>1
    <3>3. s[1][2] <= records[s[1][1]]
      BY <1>2, <3>2 DEF ChainInv, LinkedRecords
    <3>4. s[1][1] = t \/ Before(s[1][1], t)
      BY <3>1, <3>3, NoConflict DEF ChainInv
    <3> QED
      BY <1>1, <2>1, <3>1, <3>4 DEF Before, Finished
  <2>2. CASE u # t
    BY <1>1, <1>3, <2>2 DEF ChainInv, SeenWritable, Before, Finished
  <2> QED
    BY <2>1, <2>2
<1>10. RowsOnPage'
  BY <1>1 DEF ChainInv, RowsOnPage
<1> QED
  BY <1>5, <1>6, <1>7, <1>8, <1>9, <1>10 DEF ChainInv

(* Lemma: a compare-and-swap that fails preserves the invariant of the       *)
(* chains.                                                                   *)
LEMMA ChainRetry ==
  ASSUME ChainInv, NEW t \in Txns, Loops(t)
  PROVE  ChainInv'
<1>1. PICK from \in LinkCalls, to \in {"update", "delete", "raw"} :
        Retry(t, from, to) /\ (from = "updateCas" <=> to = "update")
  BY DEF Loops, LinkCalls
<1>2. /\ call[t] = from
      /\ call' = [call EXCEPT ![t] = to]
      /\ UNCHANGED <<txnVars, count, value, bitmap, lock, chain, undo, row, seen, db, snap>>
      /\ UNCHANGED <<time, latch, state, start, commit, records, stamped>>
  BY <1>1 DEF Retry, histVars, txnVars
<1>3. /\ \A u \in Txns : u # t => call'[u] = call[u]
      /\ call'[t] = to /\ call' \in [Txns -> Calls] /\ to \notin LinkCalls
      /\ \A u \in Txns : call'[u] # "none" <=> call[u] # "none"
  BY <1>2 DEF Calls, LinkCalls, ChainInv, TableTypeOK
<1>4. IInv' /\ TimesDiffer'
  BY <1>2, NextIInv, TimesDifferNext DEF ChainInv
<1>5. TableTypeOK'
  BY <1>2, <1>3, <1>4 DEF ChainInv, TableTypeOK, IInv
<1>6. CallsRunning'
  <2>1. \A u \in Txns : call'[u] \in {"update", "updateCas"}
                          <=> call[u] \in {"update", "updateCas"}
    BY <1>1, <1>2, <1>3 DEF LinkCalls
  <2> QED
    BY <1>2, <1>3, <2>1 DEF ChainInv, CallsRunning
<1>7. LinkedRecords' /\ SuccessLinked' /\ Ordered'
  <2>1. LinkedRecords'
    BY <1>2, <1>3, LinkedRecord DEF ChainInv, LinkedRecords, Undo, Pending
  <2>2. SuccessLinked'
    BY <1>2, <1>3 DEF ChainInv, SuccessLinked, Pending
  <2>3. Ordered'
    BY <1>2 DEF ChainInv, Ordered, Above, Before, Finished
  <2> QED
    BY <2>1, <2>2, <2>3
<1>8. SeenWritable' /\ RowsOnPage'
  BY <1>2, <1>3 DEF ChainInv, SeenWritable, Before, Finished, RowsOnPage
<1> QED
  BY <1>4, <1>5, <1>6, <1>7, <1>8 DEF ChainInv

(* Lemma: the compare-and-swap that succeeds puts the record on top of one   *)
(* it may lie above, and of all those below.                                 *)
LEMMA ChainLink ==
  ASSUME ChainInv, NEW t \in Txns, call[t] \in LinkCalls, Link(t),
         lock' \in Txns \cup {NoTxn}, bitmap' \in SUBSET Rows
  PROVE  ChainInv'
<1> DEFINE n == records[t]
           r == row[t]
           s == chain[r]
<1>1. /\ s = seen[t]
      /\ chain' = [chain EXCEPT ![r] = <<Mine(t)>> \o s]
      /\ call' = [call EXCEPT ![t] = "none"]
      /\ seen' = [seen EXCEPT ![t] = <<>>]
      /\ UNCHANGED <<txnVars, count, value, undo, row, db, snap>>
      /\ UNCHANGED <<time, latch, state, start, commit, records, stamped>>
  BY DEF Link, histVars, txnVars
<1>1a. records' = records /\ undo' = undo /\ count' = count
  BY <1>1
<1>2. /\ undo \in [Txns -> Seq(UndoEntry)] /\ call \in [Txns -> Calls]
      /\ \A u \in Txns : Len(undo[u]) = records[u] /\ records[u] \in Nat
      /\ n \in 1 .. Len(undo[t])
      /\ Mine(t) \in Records /\ Mine(t)[1] = t /\ Mine(t)[2] = n
      /\ r \in Rows /\ r <= count
  BY CallRecord DEF LinkCalls
<1>3. /\ \A u \in Txns : u # t => call'[u] = call[u] /\ seen'[u] = seen[u]
      /\ call'[t] = "none" /\ call' \in [Txns -> Calls]
      /\ seen'[t] = <<>> /\ seen' \in [Txns -> Seq(Records)]
  BY <1>1, <1>2 DEF Calls, ChainInv, TableTypeOK
<1>4. /\ chain'[r] = <<Mine(t)>> \o s /\ s \in Seq(Records) /\ Len(s) \in Nat
      /\ \A q \in Rows : q # r => chain'[q] = chain[q]
      /\ chain \in [Rows -> Seq(Records)]
  BY <1>1, <1>2 DEF ChainInv, TableTypeOK
<1>5. /\ chain'[r] \in Seq(Records)
      /\ Len(chain'[r]) = Len(s) + 1
      /\ chain'[r][1] = Mine(t)
      /\ \A k \in 1 .. Len(s) : chain'[r][k + 1] = s[k]
      /\ \A k \in 2 .. Len(s) + 1 : chain'[r][k] = s[k - 1]
  BY <1>2, <1>4, PushFront
<1>6. IInv' /\ TimesDiffer'
  BY <1>1, NextIInv, TimesDifferNext DEF ChainInv
<1>7. TableTypeOK'
  <2>1. chain' \in [Rows -> Seq(Records)]
    BY <1>1, <1>2, <1>4, <1>5
  <2> QED
    BY <1>1, <1>3, <1>6, <2>1 DEF ChainInv, TableTypeOK, IInv
<1>8. CallsRunning'
  BY <1>1, <1>3 DEF ChainInv, CallsRunning
<1>9. LinkedRecords'
  <2> SUFFICES ASSUME NEW q \in Rows, NEW k \in 1 .. Len(chain'[q])
               PROVE  /\ chain'[q][k][2] <= records[chain'[q][k][1]]
                      /\ undo[chain'[q][k][1]][chain'[q][k][2]].row = q
                      /\ undo[chain'[q][k][1]][chain'[q][k][2]].type # "INVALID"
                      /\ ~(/\ chain'[q][k][2] = records[chain'[q][k][1]]
                           /\ call'[chain'[q][k][1]] # "none")
    BY <1>1a DEF LinkedRecords, Undo, Pending
  <2>1. CASE q = r /\ k = 1
    <3>1. chain'[q][k][1] = t /\ chain'[q][k][2] = n
      BY <1>2, <1>5, <2>1
    <3>2. undo[t][n].row = r /\ undo[t][n].type # "INVALID"
      BY DEF ChainInv, CallsRunning, LinkCalls
    <3> QED
      BY <1>2, <1>3, <2>1, <3>1, <3>2
  <2>2. CASE ~(q = r /\ k = 1)
    <3>1. PICK j \in 1 .. Len(chain[q]) : chain'[q][k] = chain[q][j]
      <4>1. CASE q = r
        <5>1. k \in 2 .. Len(s) + 1
          BY <1>4, <1>5, <2>2, <4>1
        <5>2. k - 1 \in 1 .. Len(chain[q]) /\ chain'[q][k] = chain[q][k - 1]
          BY <1>4, <1>5, <4>1, <5>1
        <5> QED
          BY <5>2
      <4>2. CASE q # r
        BY <1>4, <4>2
      <4> QED
        BY <4>1, <4>2
    <3> DEFINE x == chain[q][j]
    <3>2. x[1] \in Txns /\ x[2] \in 1 .. records[x[1]]
      BY LinkedRecord
    <3>3. /\ x[2] <= records[x[1]] /\ undo[x[1]][x[2]].row = q
          /\ undo[x[1]][x[2]].type # "INVALID"
          /\ ~(x[2] = records[x[1]] /\ call[x[1]] # "none")
      BY DEF ChainInv, LinkedRecords, Undo, Pending
    <3>4. ~(x[2] = records[x[1]] /\ call'[x[1]] # "none")
      BY <1>3, <3>2, <3>3
    <3> QED
      BY <3>1, <3>3, <3>4
  <2> QED
    BY <2>1, <2>2
<1>10. SuccessLinked'
  <2> SUFFICES ASSUME NEW u \in Txns, NEW i \in 1 .. records[u],
                      undo[u][i].type # "INVALID", ~Pending(u, i)'
               PROVE  \E k \in 1 .. Len(chain'[undo[u][i].row]) :
                        chain'[undo[u][i].row][k] = <<u, i>>
    BY <1>1a DEF SuccessLinked
  <2>1. CASE u = t /\ i = n
    <3>1. undo[u][i].row = r /\ Mine(t) = <<u, i>>
      BY <2>1 DEF ChainInv, CallsRunning, LinkCalls, Mine
    <3>2. 1 \in 1 .. Len(chain'[r])
      BY <1>4, <1>5
    <3> QED
      BY <1>5, <3>1, <3>2
  <2>2. CASE ~(u = t /\ i = n)
    <3>1. ~Pending(u, i)
      BY <1>1, <1>2, <1>3, <2>2 DEF Pending
    <3>2. PICK k \in 1 .. Len(chain[undo[u][i].row]) : chain[undo[u][i].row][k] = <<u, i>>
      BY <3>1 DEF ChainInv, SuccessLinked
    <3>3. undo[u][i].row \in Rows
      <4>1. undo[u] \in Seq(UndoEntry) /\ Len(undo[u]) = records[u]
        BY <1>2
      <4>2. undo[u][i] \in UndoEntry
        BY <4>1
      <4> QED
        BY <4>2 DEF UndoEntry
    <3>4. CASE undo[u][i].row = r
      <4>1. k + 1 \in 1 .. Len(chain'[r]) /\ chain'[r][k + 1] = <<u, i>>
        BY <1>4, <1>5, <3>2, <3>4
      <4> QED
        BY <3>4, <4>1
    <3>5. CASE undo[u][i].row # r
      BY <1>4, <3>2, <3>3, <3>5
    <3> QED
      BY <3>4, <3>5
  <2> QED
    BY <2>1, <2>2
<1>11. \A k \in 1 .. Len(s) : Above(Mine(t), s[k])
  <2> SUFFICES ASSUME NEW k \in 1 .. Len(s) PROVE Above(Mine(t), s[k])
    OBVIOUS
  <2> DEFINE h == s[1]
             y == s[k]
  <2>1. 1 \in 1 .. Len(s) /\ s # <<>>
    BY <1>4
  <2>2. h[1] \in Txns /\ h[2] \in 1 .. records[h[1]] /\ y[1] \in Txns
        /\ y[2] \in 1 .. records[y[1]]
    BY <1>2, <2>1, LinkedRecord
  <2>3. h[1] = t \/ Before(h[1], t)
    BY <1>1, <2>1 DEF ChainInv, SeenWritable
  <2>4. y = h \/ Above(h, y)
    BY <1>2, <1>4, <2>1 DEF ChainInv, Ordered
  <2>5. h[1] = t => h[2] < n
    <3>1. ~(h[2] = records[h[1]] /\ call[h[1]] # "none")
      BY <1>2, <2>1 DEF ChainInv, LinkedRecords, Pending
    <3> QED
      BY <1>2, <2>2, <3>1 DEF LinkCalls
  <2>6. CASE h[1] = t
    BY <1>2, <2>2, <2>4, <2>5, <2>6 DEF Above
  <2>7. CASE Before(h[1], t)
    <3>1. CASE y[1] = h[1]
      BY <1>2, <2>7, <3>1 DEF Above
    <3>2. CASE y[1] # h[1]
      <4>1. Before(y[1], h[1])
        BY <2>4, <3>2 DEF Above
      <4>2. start[h[1]] < commit[h[1]]
        BY <2>2, <2>7 DEF ChainInv, TimesDiffer, Before
      <4>3. Before(y[1], t)
        <5>1. /\ start[h[1]] \in Int /\ commit[h[1]] \in Int
              /\ commit[y[1]] \in Int /\ start[t] \in Int
          BY <2>2, TimesNat DEF ChainInv
        <5> QED
          BY <2>7, <4>1, <4>2, <5>1 DEF Before
      <4> QED
        BY <1>2, <4>3 DEF Above
    <3> QED
      BY <3>1, <3>2
  <2> QED
    BY <2>3, <2>6, <2>7
<1>12. Ordered'
  <2> SUFFICES ASSUME NEW q \in Rows, NEW j \in 1 .. Len(chain'[q]),
                      NEW k \in 1 .. Len(chain'[q]), j < k
               PROVE  Above(chain[q][j], chain[q][k])'
    BY DEF Ordered
  <2> SUFFICES Above(chain'[q][j], chain'[q][k])
    BY <1>1 DEF Above, Before, Finished
  <2>1. CASE q # r
    BY <1>4, <2>1 DEF ChainInv, Ordered
  <2>2. CASE q = r
    <3>1. k \in 2 .. Len(s) + 1 /\ chain'[q][k] = s[k - 1] /\ k - 1 \in 1 .. Len(s)
      BY <1>4, <1>5, <2>2
    <3>2. CASE j = 1
      BY <1>5, <1>11, <2>2, <3>1, <3>2
    <3>3. CASE j # 1
      <4>1. chain'[q][j] = s[j - 1] /\ j - 1 \in 1 .. Len(s) /\ j - 1 < k - 1
        BY <1>4, <1>5, <2>2, <3>3
      <4> QED
        BY <1>2, <3>1, <4>1 DEF ChainInv, Ordered
    <3> QED
      BY <3>2, <3>3
  <2> QED
    BY <2>1, <2>2
<1>13. SeenWritable'
  BY <1>1, <1>3 DEF ChainInv, SeenWritable, LinkCalls, Before, Finished
<1>14. RowsOnPage'
  <2>1. InitRows <= count /\ \A q \in Rows : q > count => chain[q] = <<>>
    BY DEF ChainInv, RowsOnPage
  <2>2. ~(r > count)
    BY <1>2 DEF ChainInv, TableTypeOK, Rows
  <2> QED
    BY <1>1a, <1>4, <2>1, <2>2 DEF RowsOnPage
<1> QED
  BY <1>6, <1>7, <1>8, <1>9, <1>10, <1>12, <1>13, <1>14 DEF ChainInv

\* The disjuncts of TableNext for one transaction.
StepOf(t) ==
  \/ TxnStep(t)
  \/ Insert(t)
  \/ \E r \in Rows : UpdateStart(t, r) \/ DeleteStart(t, r) \/ RawStart(t, r)
  \/ UpdateRefused(t) \/ UpdateWrites(t) \/ UpdateLinks(t)
  \/ DeleteRefused(t) \/ DeleteProceeds(t) \/ DeleteLinks(t)
  \/ RawRefused(t) \/ RawProceeds(t) \/ RawLinks(t)
  \/ Loops(t)

(* Lemma: every step of the table and its transactions preserves the         *)
(* invariant of the chains.                                                  *)
LEMMA NextChainInv == ChainInv /\ [TableNext]_vars => ChainInv'
<1> SUFFICES ASSUME ChainInv, [TableNext]_vars PROVE ChainInv'
  OBVIOUS
<1>0. CASE UNCHANGED vars
  <2>1. /\ UNCHANGED txnVars
        /\ UNCHANGED <<time, latch, state, start, commit, records, stamped>>
        /\ UNCHANGED <<count, value, bitmap, lock, chain, undo, call, row, seen, db, snap>>
    BY <1>0 DEF vars, txnVars, tableVars, histVars
  <2>2. IInv' /\ TimesDiffer'
    BY <2>1, NextIInv, TimesDifferNext DEF ChainInv
  <2>3. TableTypeOK'
    BY <2>1, <2>2 DEF ChainInv, TableTypeOK, IInv
  <2>4. CallsRunning' /\ SeenWritable' /\ RowsOnPage'
    BY <2>1 DEF ChainInv, CallsRunning, SeenWritable, RowsOnPage, Before, Finished
  <2>5. LinkedRecords' /\ SuccessLinked' /\ Ordered'
    <3>1. LinkedRecords'
      BY <2>1 DEF ChainInv, LinkedRecords, Pending, Undo
    <3>2. SuccessLinked'
      BY <2>1 DEF ChainInv, SuccessLinked, Pending
    <3>3. Ordered'
      BY <2>1 DEF ChainInv, Ordered, Above, Before, Finished
    <3> QED
      BY <3>1, <3>2, <3>3
  <2> QED
    BY <2>2, <2>3, <2>4, <2>5 DEF ChainInv
<1> SUFFICES ASSUME NEW t \in Txns, StepOf(t) PROVE ChainInv'
  BY <1>0 DEF TableNext, StepOf
<1>1. lock \in Txns \cup {NoTxn} /\ bitmap \in SUBSET Rows /\ row[t] \in Rows
      /\ value \in [Rows -> Values]
  BY DEF ChainInv, TableTypeOK
<1>2. CASE TxnStep(t)
  BY <1>2, ChainTxnStep
<1>3. CASE Insert(t)
  BY <1>3, ChainInsert
<1>4. ASSUME NEW r \in Rows, UpdateStart(t, r) \/ DeleteStart(t, r) \/ RawStart(t, r)
      PROVE  ChainInv'
  BY <1>1, <1>4, ChainStart DEF UpdateStart, DeleteStart, RawStart
<1>5. CASE UpdateRefused(t) \/ DeleteRefused(t) \/ RawRefused(t)
  BY <1>1, <1>5, ChainRefuse DEF UpdateRefused, DeleteRefused, RawRefused
<1>6. CASE UpdateWrites(t)
  <2>1. /\ call[t] = "update" /\ Proceed(t, "updateCas")
        /\ value' = [value EXCEPT ![row[t]] = Mine(t)]
        /\ undo' = [undo EXCEPT ![t][records[t]].old = value[row[t]]]
        /\ ~Conflicts(t, chain[row[t]])
    BY <1>6 DEF UpdateWrites, Conflicts
  <2>2. Mine(t) \in Values /\ value[row[t]] \in Values
    BY <1>1, <2>1, CallRecord DEF Values
  <2>3. value' \in [Rows -> Values]
    BY <1>1, <2>1, <2>2
  <2> QED
    BY <2>1, <2>2, <2>3, ChainProceed DEF LinkCalls
<1>7. CASE DeleteProceeds(t)
  BY <1>1, <1>7, ChainProceed DEF DeleteProceeds, LinkCalls
<1>8. CASE RawProceeds(t)
  <2>1. ~Conflicts(t, chain[row[t]])
    BY <1>8 DEF RawProceeds, Conflicts
  <2> QED
    BY <1>1, <1>8, <2>1, ChainProceed DEF RawProceeds, LinkCalls
<1>9. CASE UpdateLinks(t) \/ DeleteLinks(t) \/ RawLinks(t)
  BY <1>1, <1>9, ChainLink DEF UpdateLinks, DeleteLinks, RawLinks, LinkCalls
<1>10. CASE Loops(t)
  BY <1>10, ChainRetry
<1> QED
  BY <1>2, <1>3, <1>4, <1>5, <1>6, <1>7, <1>8, <1>9, <1>10 DEF StepOf

(* Theorem: the order of the version chains is an invariant of the table. *)
THEOREM ChainInvAlways == TableSpec => []ChainInv
<1>1. TableInit => ChainInv
  BY InitChainInv
<1>2. ChainInv /\ [TableNext]_vars => ChainInv'
  BY NextChainInv
<1> QED
  BY <1>1, <1>2, PTL DEF TableSpec

(* Theorem: type correctness of the table, its chains and its undo buffers. *)
THEOREM TableTypeCorrect == TableSpec => []TableTypeOK
<1>1. ChainInv => TableTypeOK
  BY DEF ChainInv
<1> QED
  BY <1>1, ChainInvAlways, PTL

(* Theorem: first updater wins in the version chains of Table::Update,       *)
(* Delete and DeleteUndoRaw, the last of which takes no lock: no two         *)
(* concurrent transactions both have a version of a row.                     *)
THEOREM FirstUpdaterWinsAlways == TableSpec => []FirstUpdaterWins
<1>1. ChainInv => FirstUpdaterWins
  <2> SUFFICES ASSUME ChainInv, NEW r \in Rows, NEW k \in 1 .. Len(chain[r]) - 1
               PROVE  \/ chain[r][k][1] = chain[r][k + 1][1]
                      \/ /\ state[chain[r][k + 1][1]] \in {"stamping", "committed"}
                         /\ commit[chain[r][k + 1][1]] < start[chain[r][k][1]]
    BY DEF FirstUpdaterWins
  <2>1. Len(chain[r]) \in Nat
    BY DEF ChainInv, TableTypeOK
  <2>2. k \in 1 .. Len(chain[r]) /\ k + 1 \in 1 .. Len(chain[r]) /\ k < k + 1
    BY <2>1
  <2>3. Above(chain[r][k], chain[r][k + 1])
    BY <2>2 DEF ChainInv, Ordered
  <2> QED
    BY <2>3 DEF Above, Before, Finished
<1> QED
  BY <1>1, ChainInvAlways, PTL

(* Lemma: no record is twice in a chain. *)
LEMMA LinkedOnce ==
  ASSUME ChainInv, NEW r \in Rows,
         NEW j \in 1 .. Len(chain[r]), NEW k \in 1 .. Len(chain[r]),
         chain[r][j] = chain[r][k]
  PROVE  j = k
<1>1. ASSUME NEW a \in 1 .. Len(chain[r]), NEW b \in 1 .. Len(chain[r]),
             chain[r][a] = chain[r][b], a < b
      PROVE  FALSE
  <2> DEFINE w == chain[r][a][1]
  <2>1. Above(chain[r][a], chain[r][b])
    BY <1>1 DEF ChainInv, Ordered
  <2>2. w \in Txns /\ chain[r][a][2] \in Nat
    BY LinkedRecord DEF Records
  <2>3. Before(w, w)
    BY <1>1, <2>1, <2>2 DEF Above
  <2> QED
    BY <2>2, <2>3, TransactionsAssumption
       DEF Before, ChainInv, TimesDiffer, IInv, TxnTypeOK
<1> QED
  BY <1>1, LinkedRecord

(* Theorem: every record of a call that reported success is in the chain of  *)
(* its row exactly once, and no invalidated record is in one, whatever       *)
(* compare-and-swaps fail and are tried again meanwhile.                     *)
THEOREM NoLostVersionAlways == TableSpec => []NoLostVersion
<1>1. ChainInv => NoLostVersion
  <2> SUFFICES ASSUME ChainInv, NEW t \in Txns, NEW i \in 1 .. records[t]
               PROVE  LET u == undo[t][i]
                          places == {k \in DOMAIN chain[u.row] : chain[u.row][k] = <<t, i>>}
                      IN Cardinality(places) =
                           IF u.type = "INVALID" \/ (i = records[t] /\ call[t] # "none")
                           THEN 0 ELSE 1
    BY DEF NoLostVersion
  <2> DEFINE u == undo[t][i]
             places == {k \in DOMAIN chain[u.row] : chain[u.row][k] = <<t, i>>}
  <2>1. u.row \in Rows
    <3>1. undo[t] \in Seq(UndoEntry) /\ Len(undo[t]) = records[t]
      BY DEF ChainInv, TableTypeOK, CallsRunning, UndoEntry
    <3>2. u \in UndoEntry
      BY <3>1
    <3> QED
      BY <3>2 DEF UndoEntry
  <2>2. chain[u.row] \in Seq(Records) /\ DOMAIN chain[u.row] = 1 .. Len(chain[u.row])
    BY <2>1 DEF ChainInv, TableTypeOK
  <2>3. CASE u.type = "INVALID" \/ Pending(t, i)
    <3>1. places = {}
      BY <2>1, <2>2, <2>3 DEF ChainInv, LinkedRecords, Undo
    <3> QED
      BY <2>3, <3>1, FS_EmptySet DEF Pending
  <2>4. CASE ~(u.type = "INVALID" \/ Pending(t, i))
    <3>1. PICK k \in 1 .. Len(chain[u.row]) : chain[u.row][k] = <<t, i>>
      BY <2>4 DEF ChainInv, SuccessLinked
    <3>2. places = {k}
      BY <2>1, <2>2, <3>1, LinkedOnce
    <3> QED
      BY <2>4, <3>2, FS_Singleton DEF Pending
  <2> QED
    BY <2>3, <2>4
<1> QED
  BY <1>1, ChainInvAlways, PTL

-----------------------------------------------------------------------------
(* Steps and chains *)

\* The record of t under way is put in front of the chain of r.
Grows(t, r) ==
  /\ Len(chain'[r]) = Len(chain[r]) + 1
  /\ chain'[r][1] = <<t, records'[t]>>
  /\ \A k \in 1 .. Len(chain[r]) : chain'[r][k + 1] = chain[r][k]
  /\ \A k \in 2 .. Len(chain[r]) + 1 : chain'[r][k] = chain[r][k - 1]

(* Lemma: the record a step adds to an undo buffer, invalidates or fills in  *)
(* is never one that is linked: what readers walk over does not change.      *)
LEMMA LinkedUndoKept ==
  ASSUME ChainInv, NEW t \in Txns, StepOf(t),
         NEW r \in Rows, NEW k \in 1 .. Len(chain[r])
  PROVE  undo'[chain[r][k][1]][chain[r][k][2]] = undo[chain[r][k][1]][chain[r][k][2]]
<1> USE TransactionsAssumption, TableMvccAssumption
<1> DEFINE w == chain[r][k][1]
           i == chain[r][k][2]
<1>1. w \in Txns /\ i \in 1 .. records[w]
  BY LinkedRecord
<1>2. ~(i = records[w] /\ call[w] # "none")
  BY DEF ChainInv, LinkedRecords, Pending
<1>3. CASE UNCHANGED undo
  BY <1>3
<1>4. ASSUME NEW e \in UndoEntry, NewUndoRecord(t),
             undo' = [undo EXCEPT ![t] = Append(undo[t], e)]
      PROVE  undo'[w][i] = undo[w][i]
  <2>1. \A u \in Txns : \A j \in 1 .. records[u] : undo'[u][j] = undo[u][j]
    BY <1>4, NewRecordStep
  <2> QED
    BY <1>1, <2>1
<1>5. CASE Insert(t)
  <2>1. count + 1 \in Rows /\ Loaded \in Values
    BY <1>5 DEF Insert, ChainInv, TableTypeOK, Rows, Values
  <2>2. [row |-> count + 1, type |-> "INSERT", old |-> Loaded] \in UndoEntry
    BY <2>1 DEF UndoEntry, Types
  <2> QED
    BY <1>4, <1>5, <2>2 DEF Insert
<1>6. ASSUME NEW q \in Rows, UpdateStart(t, q) \/ DeleteStart(t, q) \/ RawStart(t, q)
      PROVE  undo'[w][i] = undo[w][i]
  <2>1. PICK type \in {"UPDATE", "DELETE"}, at \in {"update", "delete", "raw"} :
          StartCall(t, q, type, at)
    BY <1>6 DEF UpdateStart, DeleteStart, RawStart
  <2>2. [row |-> q, type |-> type, old |-> Loaded] \in UndoEntry
    BY DEF UndoEntry, Types, Values
  <2> QED
    BY <1>4, <2>1, <2>2 DEF StartCall
<1>7. ASSUME call[t] # "none",
             \/ undo' = [undo EXCEPT ![t][records[t]].type = "INVALID"]
             \/ undo' = [undo EXCEPT ![t][records[t]].old = value[row[t]]]
      PROVE  undo'[w][i] = undo[w][i]
  <2>1. /\ undo \in [Txns -> Seq(UndoEntry)]
        /\ Len(undo[t]) = records[t] /\ records[t] \in Nat
        /\ records[t] \in 1 .. Len(undo[t])
        /\ value[row[t]] \in Values
    BY <1>7, CallRecord DEF ChainInv, TableTypeOK
  <2>2. CASE w # t
    BY <1>1, <1>7, <2>1, <2>2
  <2>3. CASE w = t
    <3>1. i \in 1 .. Len(undo[t]) /\ i # records[t] /\ undo[t] \in Seq(UndoEntry)
      BY <1>1, <1>2, <1>7, <2>1, <2>3
    <3>2. CASE undo'[t] = [undo[t] EXCEPT ![records[t]].type = "INVALID"]
      BY <2>1, <2>3, <3>1, <3>2, InvalidateEntry
    <3>3. CASE undo'[t] = [undo[t] EXCEPT ![records[t]].old = value[row[t]]]
      BY <2>1, <2>3, <3>1, <3>3, ImageEntry
    <3> QED
      BY <1>7, <2>1, <3>2, <3>3
  <2> QED
    BY <2>2, <2>3
<1>8. CASE UpdateRefused(t) \/ DeleteRefused(t) \/ RawRefused(t)
  BY <1>7, <1>8 DEF UpdateRefused, DeleteRefused, RawRefused, Refuse
<1>9. CASE UpdateWrites(t)
  BY <1>7, <1>9 DEF UpdateWrites
<1>10. CASE TxnStep(t)
  BY <1>3, <1>10 DEF TxnStep, BeginTxn, CommitTxn, tableVars
<1>11. CASE DeleteProceeds(t) \/ RawProceeds(t)
  BY <1>3, <1>11 DEF DeleteProceeds, RawProceeds
<1>12. CASE UpdateLinks(t) \/ DeleteLinks(t) \/ RawLinks(t) \/ Loops(t)
  BY <1>3, <1>12 DEF UpdateLinks, DeleteLinks, RawLinks, Link, Loops, Retry
<1> QED
  BY <1>5, <1>6, <1>8, <1>9, <1>10, <1>11, <1>12 DEF StepOf

(* Lemma: versions are only ever added in front, by a transaction that has   *)
(* not committed.                                                            *)
LEMMA ChainGrowth ==
  ASSUME ChainInv, NEW t \in Txns, StepOf(t), NEW r \in Rows, chain'[r] # chain[r]
  PROVE  Grows(t, r) /\ state[t] = "active" /\ state'[t] = "active"
<1> USE TransactionsAssumption, TableMvccAssumption
<1>1. chain \in [Rows -> Seq(Records)] /\ Len(chain[r]) \in Nat
  BY DEF ChainInv, TableTypeOK
<1>2. CASE UpdateLinks(t) \/ DeleteLinks(t) \/ RawLinks(t)
  <2>1. /\ Link(t) /\ call[t] # "none"
    BY <1>2 DEF UpdateLinks, DeleteLinks, RawLinks
  <2>2. /\ chain[row[t]] = seen[t]
        /\ chain' = [chain EXCEPT ![row[t]] = <<Mine(t)>> \o seen[t]]
        /\ records' = records /\ state' = state
    BY <2>1 DEF Link, txnVars
  <2>3. r = row[t] /\ chain'[r] = <<Mine(t)>> \o chain[r]
    BY <1>1, <2>2
  <2>4. Mine(t) \in Records
    BY <2>1, CallRecord
  <2>5. Grows(t, r)
    <3>1. chain[r] \in Seq(Records) /\ Mine(t) = <<t, records'[t]>>
      BY <1>1, <2>2 DEF Mine
    <3> QED
      BY <2>3, <2>4, <3>1, PushFront DEF Grows
  <2> QED
    BY <2>1, <2>2, <2>5 DEF ChainInv, CallsRunning
<1>3. CASE Insert(t)
  <2>1. /\ chain' = [chain EXCEPT ![count + 1] = <<<<t, records[t] + 1>>>>]
        /\ state[t] = "active" /\ state' = state
        /\ records' = [records EXCEPT ![t] = records[t] + 1]
        /\ count \in Nat
    BY <1>3 DEF Insert, NewUndoRecord, ChainInv, TableTypeOK
  <2>2. /\ r = count + 1 /\ chain'[r] = <<<<t, records[t] + 1>>>>
        /\ records'[t] = records[t] + 1
    BY <1>1, <2>1 DEF ChainInv, IInv, TxnTypeOK
  <2>3. chain[r] = <<>>
    BY <2>1, <2>2 DEF ChainInv, RowsOnPage
  <2> QED
    BY <2>1, <2>2, <2>3 DEF Grows
<1>4. CASE ~(UpdateLinks(t) \/ DeleteLinks(t) \/ RawLinks(t) \/ Insert(t))
  <2>1. UNCHANGED chain
    BY <1>4 DEF StepOf, TxnStep, BeginTxn, CommitTxn, tableVars, UpdateStart,
                DeleteStart, RawStart, StartCall, UpdateRefused, DeleteRefused,
                RawRefused, Refuse, UpdateWrites, DeleteProceeds, RawProceeds,
                Proceed, Loops, Retry
  <2> QED
    BY <2>1
<1> QED
  BY <1>2, <1>3, <1>4

-----------------------------------------------------------------------------
(* The history variables *)

(* Lemma: the newest version of the past is the same when the chain is, and  *)
(* the past is on the transactions of the chain.                             *)
LEMMA NewestSame ==
  ASSUME NEW c, NEW u, NEW u2, NEW r, NEW past, NEW past2, NEW v,
         Len(c) \in Nat,
         \A k \in 1 .. Len(c) : c[k][1] \in past <=> c[k][1] \in past2,
         \A k \in 1 .. Len(c) : u2[c[k][1]][c[k][2]] = u[c[k][1]][c[k][2]],
         NewestIn(c, u, r, past, v)
  PROVE  NewestIn(c, u2, r, past2, v)
<1>1. CASE \A k \in 1 .. Len(c) : c[k][1] \notin past
  BY <1>1 DEF NewestIn
<1>2. CASE ~\A k \in 1 .. Len(c) : c[k][1] \notin past
  <2>1. PICK k \in 1 .. Len(c) :
          /\ c[k][1] \in past
          /\ \A j \in 1 .. k - 1 : c[j][1] \notin past
          /\ v = IF u[c[k][1]][c[k][2]].type = "DELETE" THEN Deleted ELSE c[k]
    BY <1>2 DEF NewestIn
  <2>2. \A j \in 1 .. k - 1 : c[j][1] \notin past2
    BY <2>1
  <2>3. c[k][1] \in past2
    BY <2>1
  <2> QED
    BY <2>1, <2>2, <2>3 DEF NewestIn
<1> QED
  BY <1>1, <1>2

(* Lemma: a version on top by a transaction that is not of the past leaves   *)
(* the newest version of the past what it was.                               *)
LEMMA NewestShifted ==
  ASSUME NEW c, NEW d, NEW u, NEW r, NEW past, NEW v,
         Len(c) \in Nat, Len(d) = Len(c) + 1, d[1][1] \notin past,
         \A k \in 1 .. Len(c) : d[k + 1] = c[k],
         \A k \in 2 .. Len(c) + 1 : d[k] = c[k - 1],
         NewestIn(c, u, r, past, v)
  PROVE  NewestIn(d, u, r, past, v)
<1>1. CASE \A k \in 1 .. Len(c) : c[k][1] \notin past
  <2>1. \A k \in 1 .. Len(d) : d[k][1] \notin past
    <3> SUFFICES ASSUME NEW k \in 1 .. Len(d), k # 1 PROVE d[k][1] \notin past
      OBVIOUS
    <3>1. k \in 2 .. Len(c) + 1 /\ k - 1 \in 1 .. Len(c)
      OBVIOUS
    <3> QED
      BY <1>1, <3>1
  <2> QED
    BY <1>1, <2>1 DEF NewestIn
<1>2. CASE ~\A k \in 1 .. Len(c) : c[k][1] \notin past
  <2>1. PICK k \in 1 .. Len(c) :
          /\ c[k][1] \in past
          /\ \A j \in 1 .. k - 1 : c[j][1] \notin past
          /\ v = IF u[c[k][1]][c[k][2]].type = "DELETE" THEN Deleted ELSE c[k]
    BY <1>2 DEF NewestIn
  <2>2. k + 1 \in 1 .. Len(d) /\ d[k + 1] = c[k]
    BY <2>1
  <2>3. \A j \in 1 .. (k + 1) - 1 : d[j][1] \notin past
    <3> SUFFICES ASSUME NEW j \in 1 .. (k + 1) - 1, j # 1 PROVE d[j][1] \notin past
      OBVIOUS
    <3>1. j \in 2 .. Len(c) + 1 /\ j - 1 \in 1 .. k - 1
      OBVIOUS
    <3> QED
      BY <2>1, <3>1
  <2> QED
    BY <2>1, <2>2, <2>3 DEF NewestIn
<1> QED
  BY <1>1, <1>2

(* Lemma: calls, which change no committed contents, keep the history. *)
LEMMA HistoryCall ==
  ASSUME ChainInv, HistoryInv, NEW t \in Txns, StepOf(t), ~TxnStep(t)
  PROVE  HistoryInv'
<1>1. UNCHANGED <<state, start, commit, db, snap>>
  BY DEF StepOf, Insert, UpdateStart, DeleteStart, RawStart, StartCall, NewUndoRecord,
         UpdateRefused, DeleteRefused, RawRefused, Refuse, UpdateWrites,
         DeleteProceeds, RawProceeds, Proceed, UpdateLinks, DeleteLinks, RawLinks,
         Link, Loops, Retry, txnVars, histVars
<1>2. ASSUME NEW r \in Rows, NEW past, NEW v, NewestIn(chain[r], undo, r, past, v),
             state[t] = "active" => t \notin past
      PROVE  NewestIn(chain'[r], undo', r, past, v)
  <2>1. Len(chain[r]) \in Nat
    BY DEF ChainInv, TableTypeOK
  <2>2. NewestIn(chain[r], undo', r, past, v)
    BY <1>2, <2>1, LinkedUndoKept, NewestSame
  <2>3. CASE chain'[r] # chain[r]
    <3>1. Grows(t, r) /\ t \notin past
      BY <1>2, <2>3, ChainGrowth
    <3>2. chain'[r][1][1] \notin past
      BY <3>1 DEF Grows
    <3> QED
      BY <2>1, <2>2, <3>1, <3>2, NewestShifted DEF Grows
  <2> QED
    BY <2>2, <2>3
<1>3. DbMatches'
  <2> DEFINE past == {w \in Txns : Finished(w)}
  <2>1. past' = past
    BY <1>1 DEF Finished
  <2>2. state[t] = "active" => t \notin past
    BY DEF Finished
  <2>3. \A r \in Rows : NewestIn(chain[r], undo, r, past, db[r])
    BY DEF HistoryInv, DbMatches
  <2> HIDE DEF past
  <2>4. \A r \in Rows : NewestIn(chain'[r], undo', r, past, db[r])
    BY <1>2, <2>2, <2>3
  <2>5. \A r \in Rows : NewestIn(chain'[r], undo', r, past', db'[r])
    BY <1>1, <2>1, <2>4
  <2> QED
    BY <2>5 DEF DbMatches, past
<1>4. SnapMatches'
  <2> SUFFICES ASSUME NEW u \in Txns, state[u] # "new", NEW r \in Rows
               PROVE  NewestIn(chain[r], undo, r, {w \in Txns : Before(w, u)}, snap[u][r])'
    BY <1>1 DEF SnapMatches
  <2> DEFINE past == {w \in Txns : Before(w, u)}
  <2>1. past' = past
    BY <1>1 DEF Before, Finished
  <2>2. state[t] = "active" => t \notin past
    BY DEF Before, Finished
  <2>3. NewestIn(chain[r], undo, r, past, snap[u][r])
    BY DEF HistoryInv, SnapMatches
  <2> HIDE DEF past
  <2>4. NewestIn(chain'[r], undo', r, past, snap[u][r])
    BY <1>2, <2>2, <2>3
  <2>5. NewestIn(chain'[r], undo', r, past', snap'[u][r])
    BY <1>1, <2>1, <2>4
  <2> QED
    BY <2>5 DEF past
<1> QED
  BY <1>3, <1>4 DEF HistoryInv

(* Lemma: begin and commit keep the history: a transaction begins with the   *)
(* committed contents, and a commit puts its versions, which are on top of   *)
(* their chains, into them.                                                  *)
LEMMA HistoryTxn ==
  ASSUME ChainInv, HistoryInv, NEW t \in Txns, TxnStep(t)
  PROVE  HistoryInv'
<1> USE TransactionsAssumption
<1>1. UNCHANGED <<chain, undo>> /\ \A r \in Rows : Len(chain[r]) \in Nat
  BY DEF TxnStep, BeginTxn, CommitTxn, tableVars, ChainInv, TableTypeOK
<1>2. TxnNext
  BY DEF TxnStep, BeginTxn, CommitTxn, TxnNext, CallStep
<1>3. \A r \in Rows : \A k \in 1 .. Len(chain[r]) :
        chain[r][k][1] \in Txns /\ state[chain[r][k][1]] # "new"
  BY LinkedRecord
<1>4. CASE BeginTxn(t)
  <2>1. /\ state[t] = "new" /\ state' = [state EXCEPT ![t] = "begin"]
        /\ start' = [start EXCEPT ![t] = time]
        /\ snap' = [snap EXCEPT ![t] = db]
        /\ UNCHANGED <<commit, db>>
    BY <1>4 DEF BeginTxn, Begin, Move
  <2>2. /\ state'[t] = "begin" /\ start'[t] = time /\ snap'[t] = db
        /\ \A u \in Txns : u # t =>
             state'[u] = state[u] /\ start'[u] = start[u] /\ snap'[u] = snap[u]
    BY <2>1 DEF ChainInv, IInv, TxnTypeOK, TableTypeOK
  <2>3. \A w \in Txns : Finished(w)' <=> Finished(w)
    BY <2>1, <2>2 DEF Finished
  <2>4. DbMatches'
    <3> SUFFICES ASSUME NEW r \in Rows
                 PROVE  NewestIn(chain[r], undo, r, {w \in Txns : Finished(w)'}, db[r])
      BY <1>1, <2>1 DEF DbMatches
    <3>1. {w \in Txns : Finished(w)'} = {w \in Txns : Finished(w)}
      BY <2>3
    <3> QED
      BY <3>1 DEF HistoryInv, DbMatches
  <2>5. SnapMatches'
    <3> SUFFICES ASSUME NEW u \in Txns, state'[u] # "new", NEW r \in Rows
                 PROVE  NewestIn(chain[r], undo, r, {w \in Txns : Before(w, u)'}, snap'[u][r])
      BY <1>1 DEF SnapMatches
    <3>1. CASE u = t
      <4>1. \A w \in Txns : Before(w, u)' <=> Finished(w)
        <5> SUFFICES ASSUME NEW w \in Txns PROVE Before(w, u)' <=> Finished(w)
          OBVIOUS
        <5>1. Finished(w) => commit[w] < time
          BY DEF ChainInv, IInv, Clock, Finished
        <5> QED
          BY <2>1, <2>2, <2>3, <3>1, <5>1 DEF Before
      <4>2. {w \in Txns : Before(w, u)'} = {w \in Txns : Finished(w)}
        BY <4>1
      <4>3. NewestIn(chain[r], undo, r, {w \in Txns : Finished(w)}, db[r])
        BY DEF HistoryInv, DbMatches
      <4> QED
        BY <2>2, <3>1, <4>2, <4>3
    <3>2. CASE u # t
      <4>1. {w \in Txns : Before(w, u)'} = {w \in Txns : Before(w, u)}
        BY <2>1, <2>2, <2>3, <3>2 DEF Before
      <4>2. NewestIn(chain[r], undo, r, {w \in Txns : Before(w, u)}, snap[u][r])
        BY <2>2, <3>2 DEF HistoryInv, SnapMatches
      <4> QED
        BY <2>2, <3>2, <4>1, <4>2
    <3> QED
      BY <3>1, <3>2
  <2> QED
    BY <2>4, <2>5 DEF HistoryInv
<1>5. CASE CommitTxn(t)
  <2>1. /\ state[t] = "latched" /\ state' = [state EXCEPT ![t] = "stamping"]
        /\ commit' = [commit EXCEPT ![t] = time]
        /\ db' = Overlay(t, db)
        /\ UNCHANGED <<start, snap>>
    BY <1>5 DEF CommitTxn, CommitTime, Move
  <2>2. /\ state'[t] = "stamping" /\ commit'[t] = time /\ ~Finished(t)
        /\ \A u \in Txns : u # t => state'[u] = state[u] /\ commit'[u] = commit[u]
    BY <2>1 DEF ChainInv, IInv, TxnTypeOK, Finished
  <2>3. \A w \in Txns : Finished(w)' <=> w = t \/ Finished(w)
    BY <2>2 DEF Finished
  <2>4. DbMatches'
    <3> SUFFICES ASSUME NEW r \in Rows
                 PROVE  NewestIn(chain[r], undo, r, {w \in Txns : Finished(w)'}, db'[r])
      BY <1>1 DEF DbMatches
    <3> DEFINE past  == {w \in Txns : Finished(w)}
               past2 == {w \in Txns : Finished(w)'}
    <3>1. NewestIn(chain[r], undo, r, past, db[r])
      BY DEF HistoryInv, DbMatches
    <3>2. CASE LinkedTo(t, r) = {}
      <4>1. db'[r] = db[r]
        BY <2>1, <3>2 DEF Overlay
      <4>2. \A k \in 1 .. Len(chain[r]) : chain[r][k][1] # t
        <5> SUFFICES ASSUME NEW k \in 1 .. Len(chain[r]), chain[r][k][1] = t
                     PROVE  LinkedTo(t, r) # {}
          BY <3>2
        <5>1. chain[r][k][2] \in 1 .. records[t] /\ chain[r][k] = <<t, chain[r][k][2]>>
          BY LinkedRecord
        <5>2. k \in DOMAIN chain[r]
          BY DEF ChainInv, TableTypeOK
        <5>3. chain[r][k][2] \in LinkedTo(t, r)
          BY <5>1, <5>2 DEF LinkedTo
        <5> QED
          BY <5>3
      <4>3. \A k \in 1 .. Len(chain[r]) : chain[r][k][1] \in past <=> chain[r][k][1] \in past2
        BY <2>3, <4>2
      <4> HIDE DEF past, past2
      <4>4. NewestIn(chain[r], undo, r, past2, db[r])
        BY <1>1, <3>1, <4>3, NewestSame
      <4> QED
        BY <4>1, <4>4 DEF past2
    <3>3. CASE LinkedTo(t, r) # {}
      <4>1. /\ chain[r] # <<>> /\ chain[r][1][1] = t
            /\ Effect(t, r) = Written(chain[r][1])
        BY <2>2, <3>3, OwnOnTop
      <4>2. 1 \in 1 .. Len(chain[r])
        BY <4>1 DEF ChainInv, TableTypeOK
      <4>3. db'[r] = Written(chain[r][1])
        BY <2>1, <3>3, <4>1 DEF Overlay
      <4>4. chain[r][1][1] \in past2
        BY <2>3, <4>1
      <4>5. \A j \in 1 .. 1 - 1 : chain[r][j][1] \notin past2
        OBVIOUS
      <4> QED
        BY <4>2, <4>3, <4>4, <4>5 DEF NewestIn, Written, Undo
    <3> QED
      BY <3>2, <3>3
  <2>5. SnapMatches'
    <3> SUFFICES ASSUME NEW u \in Txns, state'[u] # "new", NEW r \in Rows
                 PROVE  NewestIn(chain[r], undo, r, {w \in Txns : Before(w, u)'}, snap'[u][r])
      BY <1>1 DEF SnapMatches
    <3>1. state[u] # "new"
      BY <2>1, <2>2
    <3>2. start[u] < time /\ start[u] \in Nat /\ time \in Nat
      BY <3>1 DEF ChainInv, IInv, Clock, TxnTypeOK
    <3>3. ~Before(t, u) /\ ~Before(t, u)'
      BY <2>1, <2>2, <3>2 DEF Before
    <3>4. {w \in Txns : Before(w, u)'} = {w \in Txns : Before(w, u)}
      BY <2>1, <2>2, <2>3, <3>3 DEF Before
    <3>5. NewestIn(chain[r], undo, r, {w \in Txns : Before(w, u)}, snap[u][r])
      BY <3>1 DEF HistoryInv, SnapMatches
    <3> QED
      BY <2>1, <3>4, <3>5
  <2> QED
    BY <2>4, <2>5 DEF HistoryInv
<1>6. CASE BeginReturn(t) \/ Abort(t) \/ CommitLatch(t) \/ Restamp(t) \/ CommitReturn(t)
  <2>1. UNCHANGED <<start, commit, db, snap>>
    BY <1>6 DEF TxnStep, BeginTxn, CommitTxn, Begin, CommitTime, Move, BeginReturn,
                Abort, CommitLatch, Restamp, CommitReturn, histVars
  <2>2. \A w \in Txns : /\ Finished(w)' <=> Finished(w)
                        /\ state'[w] # "new" => state[w] # "new"
    BY <1>6 DEF BeginReturn, Abort, CommitLatch, Restamp, CommitReturn, Move,
                Finished, ChainInv, IInv, TxnTypeOK
  <2>3. {w \in Txns : Finished(w)'} = {w \in Txns : Finished(w)}
    BY <2>2
  <2>4. DbMatches'
    BY <1>1, <2>1, <2>3 DEF HistoryInv, DbMatches
  <2>5. SnapMatches'
    <3> SUFFICES ASSUME NEW u \in Txns, state'[u] # "new", NEW r \in Rows
                 PROVE  NewestIn(chain[r], undo, r, {w \in Txns : Before(w, u)'}, snap[u][r])
      BY <1>1, <2>1 DEF SnapMatches
    <3>1. {w \in Txns : Before(w, u)'} = {w \in Txns : Before(w, u)}
      BY <2>1, <2>2 DEF Before
    <3> QED
      BY <2>2, <3>1 DEF HistoryInv, SnapMatches
  <2> QED
    BY <2>4, <2>5 DEF HistoryInv
<1> QED
  BY <1>4, <1>5, <1>6 DEF TxnStep

(* Theorem: the history variables are what the chains say. *)
THEOREM HistoryAlways == TableSpec => []HistoryInv
<1>1. TableInit => HistoryInv
  <2> SUFFICES ASSUME TableInit PROVE HistoryInv
    OBVIOUS
  <2>1. DbMatches
    BY DEF TableInit, DbMatches, NewestIn, Base
  <2>2. SnapMatches
    BY DEF TableInit, TxnInit, SnapMatches
  <2> QED
    BY <2>1, <2>2 DEF HistoryInv
<1>2. ChainInv /\ HistoryInv /\ [TableNext]_vars => HistoryInv'
  <2> SUFFICES ASSUME ChainInv, HistoryInv, [TableNext]_vars PROVE HistoryInv'
    OBVIOUS
  <2>1. CASE UNCHANGED vars
    <3>1. UNCHANGED <<chain, undo, db, snap, state, start, commit>>
      BY <2>1 DEF vars, txnVars, tableVars, histVars
    <3>2. DbMatches'
      BY <3>1 DEF HistoryInv, DbMatches, Finished
    <3>3. SnapMatches'
      BY <3>1 DEF HistoryInv, SnapMatches, Before, Finished
    <3> QED
      BY <3>2, <3>3 DEF HistoryInv
  <2>2. ASSUME NEW t \in Txns, StepOf(t) PROVE HistoryInv'
    BY <2>2, HistoryCall, HistoryTxn
  <2> QED
    BY <2>1, <2>2 DEF TableNext, StepOf
<1> QED
  BY <1>1, <1>2, ChainInvAlways, PTL DEF TableSpec

-----------------------------------------------------------------------------
(* Without DeleteUndoRaw *)

(* Lemma: at most the holder of the data lock has a call under way. *)
LEMMA OneCall ==
  ASSUME ChainInv, PageInv, NEW t \in Txns, call[t] # "none"
  PROVE  /\ lock = t /\ call[t] \in LockCalls
         /\ \A u \in Txns : u # t => call[u] = "none"
<1>1. \A u \in Txns : call[u] \in Calls
  BY DEF ChainInv, TableTypeOK
<1>2. \A u \in Txns : call[u] # "none" => call[u] \in LockCalls
  BY <1>1 DEF PageInv, SeenCurrent, Calls, LockCalls
<1> QED
  BY <1>2 DEF PageInv, LockHeld

(* Lemma: nobody has a call under way while the data lock is free. *)
LEMMA AllIdle ==
  ASSUME ChainInv, PageInv, lock = NoTxn, NEW t \in Txns
  PROVE  call[t] = "none"
BY OneCall, TableMvccAssumption

(* Lemma: a step that neither links nor changes the page keeps its part of   *)
(* the invariant, provided the linked records stay.                          *)
LEMMA PageKept ==
  ASSUME ChainInv, PageInv, NEW t \in Txns, StepOf(t),
         UNCHANGED <<chain, bitmap, count>>
  PROVE  Marked' /\ DeleteIsFinal' /\ InsertAtBottom' /\ Images'
<1>1. \A r \in Rows : \A k \in 1 .. Len(chain[r]) : Undo(chain[r][k])' = Undo(chain[r][k])
  BY LinkedUndoKept DEF Undo
<1>2. \A r \in Rows : chain[r] \in Seq(Records) /\ Len(chain[r]) \in Nat
  BY DEF ChainInv, TableTypeOK
<1>3. Marked'
  <2> SUFFICES ASSUME NEW r \in Rows
               PROVE  r \in bitmap <=> chain[r] # <<>> /\ Undo(chain[r][1])'.type = "DELETE"
    BY DEF Marked
  <2>1. chain[r] # <<>> => 1 \in 1 .. Len(chain[r])
    BY <1>2
  <2> QED
    BY <1>1, <2>1 DEF PageInv, Marked
<1>4. DeleteIsFinal'
  <2> SUFFICES ASSUME NEW r \in Rows, NEW k \in 2 .. Len(chain[r])
               PROVE  Undo(chain[r][k])'.type # "DELETE"
    BY DEF DeleteIsFinal
  <2>1. k \in 1 .. Len(chain[r])
    BY <1>2
  <2> QED
    BY <1>1, <2>1 DEF PageInv, DeleteIsFinal
<1>5. InsertAtBottom'
  BY <1>1 DEF PageInv, InsertAtBottom
<1>6. Images'
  <2> SUFFICES ASSUME NEW r \in Rows, NEW k \in 1 .. Len(chain[r]),
                      Undo(chain[r][k])'.type = "UPDATE"
               PROVE  Undo(chain[r][k])'.old = Version(r, k + 1)'
    BY DEF Images
  <2> QED
    BY <1>1 DEF PageInv, Images, Version
<1> QED
  BY <1>3, <1>4, <1>5, <1>6

(* Lemma: transactions that begin, commit or abort leave the page alone. *)
LEMMA PageTxn ==
  ASSUME ChainInv, PageInv, NEW t \in Txns, TxnStep(t)
  PROVE  PageInv'
<1>1. /\ UNCHANGED <<count, value, bitmap, lock, chain, undo, call, row, seen>>
      /\ records' = records
  BY DEF TxnStep, BeginTxn, CommitTxn, tableVars, Begin, Abort, CommitLatch,
         BeginReturn, CommitTime, Restamp, CommitReturn
<1>2. Marked' /\ DeleteIsFinal' /\ InsertAtBottom' /\ Images'
  BY <1>1, PageKept DEF StepOf
<1>3. LockHeld' /\ SeenCurrent'
  BY <1>1 DEF PageInv, LockHeld, SeenCurrent
<1>4. PageHoldsNewest'
  BY <1>1 DEF PageInv, PageHoldsNewest, Version, Mine
<1> QED
  BY <1>2, <1>3, <1>4 DEF PageInv

(* Lemma: Table::Insert keeps the page. *)
LEMMA PageInsert ==
  ASSUME ChainInv, PageInv, NEW t \in Txns, Insert(t)
  PROVE  PageInv'
<1> USE TransactionsAssumption, TableMvccAssumption
<1> DEFINE r   == count + 1
           rec == <<t, records[t] + 1>>
           e   == [row |-> r, type |-> "INSERT", old |-> Loaded]
<1>1. /\ lock = NoTxn /\ count' = r /\ count \in Nat /\ r \in Rows
      /\ value' = [value EXCEPT ![r] = rec]
      /\ chain' = [chain EXCEPT ![r] = <<rec>>]
      /\ undo' = [undo EXCEPT ![t] = Append(undo[t], e)]
      /\ UNCHANGED <<bitmap, lock, call, row, seen>>
      /\ NewUndoRecord(t)
  BY DEF Insert, ChainInv, TableTypeOK, Rows
<1>2. \A u \in Txns : call[u] = "none" /\ call'[u] = "none"
  BY <1>1, AllIdle
<1>3. /\ chain[r] = <<>> /\ Len(chain'[r]) = 1 /\ chain'[r][1] = rec /\ chain'[r] # <<>>
      /\ \A q \in Rows : q # r => chain'[q] = chain[q]
      /\ value'[r] = rec /\ \A q \in Rows : q # r => value'[q] = value[q]
      /\ \A q \in Rows : Len(chain[q]) \in Nat
      /\ \A q \in Rows : chain[q] # <<>> => 1 \in 1 .. Len(chain[q])
      /\ InitRows < r
  BY <1>1 DEF ChainInv, RowsOnPage, TableTypeOK
<1>4. \A q \in Rows : \A k \in 1 .. Len(chain[q]) :
        undo'[chain[q][k][1]][chain[q][k][2]] = undo[chain[q][k][1]][chain[q][k][2]]
  BY LinkedUndoKept DEF StepOf
<1>5. undo'[rec[1]][rec[2]] = e
  <2>1. e \in UndoEntry
    BY <1>1 DEF Values, UndoEntry, Types
  <2>2. undo'[t][records[t] + 1] = e
    BY <1>1, <2>1, NewRecordStep
  <2> QED
    BY <2>2
<1>6. LockHeld' /\ SeenCurrent'
  BY <1>1, <1>2 DEF PageInv, LockHeld, SeenCurrent, LinkCalls
<1>7. Marked'
  <2> SUFFICES ASSUME NEW q \in Rows
               PROVE  q \in bitmap <=>
                        /\ chain'[q] # <<>>
                        /\ undo'[chain'[q][1][1]][chain'[q][1][2]].type = "DELETE"
    BY <1>1 DEF Marked, Undo
  <2>1. CASE q = r
    BY <1>3, <1>5, <2>1 DEF PageInv, Marked
  <2>2. CASE q # r
    BY <1>3, <1>4, <2>2 DEF PageInv, Marked, Undo
  <2> QED
    BY <2>1, <2>2
<1>8. DeleteIsFinal'
  <2> SUFFICES ASSUME NEW q \in Rows, NEW k \in 2 .. Len(chain'[q])
               PROVE  undo'[chain'[q][k][1]][chain'[q][k][2]].type # "DELETE"
    BY DEF DeleteIsFinal, Undo
  <2>1. q # r
    <3> SUFFICES ASSUME q = r PROVE FALSE
      OBVIOUS
    <3>1. Len(chain'[q]) = 1
      BY <1>3
    <3> QED
      BY <3>1
  <2>2. k \in 2 .. Len(chain[q]) /\ k \in 1 .. Len(chain[q]) /\ chain'[q] = chain[q]
    BY <1>3, <2>1
  <2> QED
    BY <1>4, <2>2 DEF PageInv, DeleteIsFinal, Undo
<1>9. InsertAtBottom'
  <2> SUFFICES ASSUME NEW q \in Rows
               PROVE  /\ InitRows < q /\ q <= r => chain'[q] # <<>>
                      /\ \A k \in 1 .. Len(chain'[q]) :
                           undo'[chain'[q][k][1]][chain'[q][k][2]].type = "INSERT"
                             <=> k = Len(chain'[q]) /\ InitRows < q
    BY <1>1 DEF InsertAtBottom, Undo
  <2>1. CASE q = r
    <3>1. Len(chain'[q]) = 1 /\ chain'[q][1] = rec /\ chain'[q] # <<>> /\ InitRows < q
      BY <1>3, <2>1
    <3>2. undo'[chain'[q][1][1]][chain'[q][1][2]].type = "INSERT"
      BY <1>5, <3>1
    <3> QED
      BY <3>1, <3>2
  <2>2. CASE q # r
    <3>1. InitRows < q /\ q <= r => InitRows < q /\ q <= count
      BY <1>1, <2>2 DEF Rows
    <3>2. chain'[q] = chain[q]
      BY <1>3, <2>2
    <3>3. \A k \in 1 .. Len(chain[q]) :
            undo[chain[q][k][1]][chain[q][k][2]].type = "INSERT"
              <=> k = Len(chain[q]) /\ InitRows < q
      BY DEF PageInv, InsertAtBottom, Undo
    <3>4. InitRows < q /\ q <= count => chain[q] # <<>>
      BY DEF PageInv, InsertAtBottom
    <3> QED
      BY <1>4, <3>1, <3>2, <3>3, <3>4
  <2> QED
    BY <2>1, <2>2
<1>10. Images'
  <2> SUFFICES ASSUME NEW q \in Rows, NEW k \in 1 .. Len(chain'[q]),
                      undo'[chain'[q][k][1]][chain'[q][k][2]].type = "UPDATE"
               PROVE  undo'[chain'[q][k][1]][chain'[q][k][2]].old = Version(q, k + 1)'
    BY DEF Images, Undo
  <2>1. CASE q = r
    BY <1>3, <1>5, <2>1
  <2>2. CASE q # r
    <3>1. chain'[q] = chain[q] /\ Version(q, k + 1)' = Version(q, k + 1)
      BY <1>3, <2>2 DEF Version
    <3>2. undo[chain[q][k][1]][chain[q][k][2]].type = "UPDATE" =>
            undo[chain[q][k][1]][chain[q][k][2]].old = Version(q, k + 1)
      BY <3>1 DEF PageInv, Images, Undo
    <3> QED
      BY <1>4, <3>1, <3>2
  <2> QED
    BY <2>1, <2>2
<1>11. PageHoldsNewest'
  <2> SUFFICES ASSUME NEW q \in Rows
               PROVE  value'[q] = IF q \in bitmap THEN Version(q, 2)' ELSE Version(q, 1)'
    BY <1>1, <1>2 DEF PageHoldsNewest
  <2>1. CASE q = r
    <3>1. r \notin bitmap
      BY <1>1, <1>3 DEF PageInv, Marked
    <3> QED
      BY <1>3, <2>1, <3>1 DEF Version
  <2>2. CASE q # r
    BY <1>2, <1>3, <2>2 DEF PageInv, PageHoldsNewest, Version
  <2> QED
    BY <2>1, <2>2
<1> QED
  BY <1>6, <1>7, <1>8, <1>9, <1>10, <1>11 DEF PageInv

(* Lemma: a call that starts takes the data lock and leaves the page alone. *)
LEMMA PageStart ==
  ASSUME ChainInv, PageInv, NEW t \in Txns, NEW r \in Rows,
         UpdateStart(t, r) \/ DeleteStart(t, r)
  PROVE  PageInv'
<1>1. PICK at \in {"update", "delete"} :
        /\ lock = NoTxn /\ lock' = t
        /\ call' = [call EXCEPT ![t] = at]
        /\ UNCHANGED <<count, value, bitmap, chain, seen>>
  BY DEF UpdateStart, DeleteStart, StartCall
<1>2. \A u \in Txns : call[u] = "none"
  BY <1>1, AllIdle
<1>3. call'[t] = at /\ \A u \in Txns : u # t => call'[u] = "none"
  BY <1>1, <1>2 DEF ChainInv, TableTypeOK
<1>4. Marked' /\ DeleteIsFinal' /\ InsertAtBottom' /\ Images'
  BY <1>1, PageKept DEF StepOf
<1>5. LockHeld' /\ SeenCurrent'
  BY <1>1, <1>3 DEF LockHeld, LockCalls, SeenCurrent, LinkCalls
<1>6. PageHoldsNewest'
  BY <1>1, <1>2, <1>3 DEF PageInv, PageHoldsNewest, Version
<1> QED
  BY <1>4, <1>5, <1>6 DEF PageInv

(* Lemma: a call that is refused gives the data lock back. *)
LEMMA PageRefuse ==
  ASSUME ChainInv, PageInv, NEW t \in Txns, UpdateRefused(t) \/ DeleteRefused(t)
  PROVE  PageInv'
<1>1. /\ call[t] \in {"update", "delete"} /\ lock' = NoTxn
      /\ call' = [call EXCEPT ![t] = "none"]
      /\ UNCHANGED <<count, value, bitmap, chain, seen>>
  BY DEF UpdateRefused, DeleteRefused, Refuse
<1>2. \A u \in Txns : u # t => call[u] = "none"
  BY <1>1, OneCall
<1>3. \A u \in Txns : call'[u] = "none"
  BY <1>1, <1>2 DEF ChainInv, TableTypeOK
<1>4. Marked' /\ DeleteIsFinal' /\ InsertAtBottom' /\ Images'
  BY <1>1, PageKept DEF StepOf
<1>5. LockHeld' /\ SeenCurrent'
  BY <1>1, <1>3, TableMvccAssumption DEF LockHeld, LockCalls, SeenCurrent, LinkCalls
<1>6. PageHoldsNewest'
  BY <1>1, <1>2, <1>3 DEF PageInv, PageHoldsNewest, Version
<1> QED
  BY <1>4, <1>5, <1>6 DEF PageInv

(* Lemma: a call that may write keeps the page; Table::Update writes the     *)
(* value and saves the before image while it holds the data lock.            *)
LEMMA PageProceed ==
  ASSUME ChainInv, PageInv, NEW t \in Txns, UpdateWrites(t) \/ DeleteProceeds(t)
  PROVE  PageInv'
<1> DEFINE n == records[t]
           r == row[t]
<1>1. PICK at \in {"updateCas", "deleteCas"} :
        /\ call[t] \in {"update", "delete"}
        /\ at = "updateCas" => UpdateWrites(t)
        /\ at = "deleteCas" => UNCHANGED <<value, undo>>
        /\ seen' = [seen EXCEPT ![t] = chain[r]]
        /\ call' = [call EXCEPT ![t] = at]
        /\ UNCHANGED <<records, count, bitmap, lock, chain, row>>
  BY DEF UpdateWrites, DeleteProceeds, Proceed, txnVars
<1>2. lock = t /\ \A u \in Txns : u # t => call[u] = "none"
  BY <1>1, OneCall
<1>3. /\ call'[t] = at /\ \A u \in Txns : u # t => call'[u] = "none"
      /\ seen'[t] = chain[r] /\ row' = row /\ r \in Rows
  BY <1>1, <1>2 DEF ChainInv, TableTypeOK
<1>4. r \notin bitmap
  BY <1>3 DEF UpdateWrites, DeleteProceeds, PageInv, Marked
<1>5. Marked' /\ DeleteIsFinal' /\ InsertAtBottom' /\ Images'
  BY <1>1, PageKept DEF StepOf
<1>6. LockHeld' /\ SeenCurrent'
  BY <1>1, <1>2, <1>3, <1>4 DEF LockHeld, LockCalls, SeenCurrent, LinkCalls
<1>7. PageHoldsNewest'
  <2>1. \A q \in Rows : value[q] = IF q \in bitmap THEN Version(q, 2) ELSE Version(q, 1)
    BY <1>1, <1>2 DEF PageInv, PageHoldsNewest
  <2>2. \A q \in Rows : \A k \in Nat : Version(q, k)' = Version(q, k)
    BY <1>1 DEF Version
  <2>3. CASE at = "deleteCas"
    BY <1>1, <1>3, <2>1, <2>2, <2>3 DEF PageHoldsNewest
  <2>4. CASE at = "updateCas"
    <3>1. /\ value' = [value EXCEPT ![r] = Mine(t)]
          /\ undo' = [undo EXCEPT ![t] = [undo[t] EXCEPT ![n].old = value[r]]]
      BY <1>1, <2>4 DEF UpdateWrites
    <3>2. value'[r] = Mine(t) /\ \A q \in Rows : q # r => value'[q] = value[q]
      BY <1>3, <3>1 DEF ChainInv, TableTypeOK
    <3>3. undo'[t][n].old = value[r]
      <4>1. undo[t] \in Seq(UndoEntry) /\ n \in 1 .. Len(undo[t]) /\ value[r] \in Values
        BY <1>1, <1>3, CallRecord DEF ChainInv, TableTypeOK
      <4>2. undo'[t] = [undo[t] EXCEPT ![n].old = value[r]]
        BY <3>1 DEF ChainInv, TableTypeOK
      <4> QED
        BY <4>1, <4>2, ImageEntry
    <3>4. value[r] = Version(r, 1)
      BY <1>3, <1>4, <2>1
    <3>5. Mine(t)' = Mine(t)
      BY <1>1 DEF Mine
    <3> QED
      BY <1>1, <1>3, <2>1, <2>2, <2>4, <3>2, <3>3, <3>4, <3>5 DEF PageHoldsNewest
  <2> QED
    BY <2>3, <2>4
<1> QED
  BY <1>5, <1>6, <1>7 DEF PageInv

(* Lemma: the record is linked in front of the head, and marked on the page  *)
(* if it is a delete.                                                        *)
LEMMA PageLink ==
  ASSUME ChainInv, PageInv, NEW t \in Txns, UpdateLinks(t) \/ DeleteLinks(t)
  PROVE  PageInv'
<1> DEFINE n == records[t]
           r == row[t]
           s == chain[r]
<1>1. /\ call[t] \in {"updateCas", "deleteCas"}
      /\ lock' = NoTxn
      /\ bitmap' = IF call[t] = "deleteCas" THEN bitmap \cup {r} ELSE bitmap
      /\ seen[t] = s
      /\ chain' = [chain EXCEPT ![r] = <<Mine(t)>> \o s]
      /\ call' = [call EXCEPT ![t] = "none"]
      /\ UNCHANGED <<records, count, value, undo, row>>
  BY DEF UpdateLinks, DeleteLinks, Link, txnVars
<1>2. lock = t /\ \A u \in Txns : u # t => call[u] = "none"
  BY <1>1, OneCall
<1>3. /\ \A u \in Txns : call'[u] = "none"
      /\ r \in Rows /\ r <= count /\ r \notin bitmap
  BY <1>1, <1>2, CallRecord DEF ChainInv, TableTypeOK, PageInv, SeenCurrent, LinkCalls
<1>4. /\ undo[t][n].type = IF call[t] = "updateCas" THEN "UPDATE" ELSE "DELETE"
      /\ Mine(t) \in Records /\ Mine(t)[1] = t /\ Mine(t)[2] = n
  BY <1>1, CallRecord DEF ChainInv, CallsRunning
<1>5. /\ s \in Seq(Records) /\ Len(s) \in Nat /\ chain'[r] = <<Mine(t)>> \o s
      /\ \A q \in Rows : q # r => chain'[q] = chain[q]
      /\ \A q \in Rows : chain[q] \in Seq(Records) /\ Len(chain[q]) \in Nat
      /\ s # <<>> => 1 \in 1 .. Len(s)
  BY <1>1, <1>3 DEF ChainInv, TableTypeOK
<1>6. /\ chain'[r] # <<>>
      /\ Len(chain'[r]) = Len(s) + 1
      /\ chain'[r][1] = Mine(t)
      /\ \A k \in 2 .. Len(s) + 1 : chain'[r][k] = s[k - 1]
  BY <1>4, <1>5, PushFront
<1>7. ASSUME NEW q \in Rows, q = r, NEW k \in Nat \ {0}
      PROVE  Version(q, k + 1)' = Version(q, k)
  <2>1. CASE k <= Len(s)
    <3>1. k + 1 \in 2 .. Len(s) + 1 /\ k + 1 <= Len(chain'[q]) /\ (k + 1) - 1 = k
      BY <1>5, <1>6, <1>7, <2>1
    <3>2. chain'[q][k + 1] = chain[q][k]
      BY <1>6, <1>7, <3>1
    <3> QED
      BY <1>7, <2>1, <3>1, <3>2 DEF Version
  <2>2. CASE ~(k <= Len(s))
    <3>1. ~(k + 1 <= Len(chain'[q]))
      BY <1>5, <1>6, <1>7, <2>2
    <3> QED
      BY <1>7, <2>2, <3>1 DEF Version
  <2> QED
    BY <2>1, <2>2
<1>8. LockHeld' /\ SeenCurrent'
  BY <1>1, <1>3, TableMvccAssumption DEF LockHeld, LockCalls, SeenCurrent, LinkCalls
<1>9. Marked'
  <2> SUFFICES ASSUME NEW q \in Rows
               PROVE  q \in bitmap' <=>
                        /\ chain'[q] # <<>>
                        /\ undo[chain'[q][1][1]][chain'[q][1][2]].type = "DELETE"
    BY <1>1 DEF Marked, Undo
  <2>1. CASE q = r
    BY <1>1, <1>3, <1>4, <1>6, <2>1
  <2>2. CASE q # r
    BY <1>1, <1>5, <2>2 DEF PageInv, Marked, Undo
  <2> QED
    BY <2>1, <2>2
<1>10. DeleteIsFinal'
  <2> SUFFICES ASSUME NEW q \in Rows, NEW k \in 2 .. Len(chain'[q])
               PROVE  undo[chain'[q][k][1]][chain'[q][k][2]].type # "DELETE"
    BY <1>1 DEF DeleteIsFinal, Undo
  <2>1. CASE q = r
    <3>1. chain'[q][k] = s[k - 1] /\ k - 1 \in 1 .. Len(s)
      BY <1>5, <1>6, <2>1
    <3>2. CASE k = 2
      <4>1. s # <<>> /\ k - 1 = 1
        BY <1>5, <3>1, <3>2
      <4>2. undo[s[1][1]][s[1][2]].type # "DELETE"
        BY <1>3, <4>1 DEF PageInv, Marked, Undo
      <4> QED
        BY <3>1, <4>1, <4>2
    <3>3. CASE k # 2
      <4>1. k - 1 \in 2 .. Len(s)
        BY <1>5, <3>1, <3>3
      <4> QED
        BY <1>3, <3>1, <4>1 DEF PageInv, DeleteIsFinal, Undo
    <3> QED
      BY <3>2, <3>3
  <2>2. CASE q # r
    BY <1>5, <2>2 DEF PageInv, DeleteIsFinal, Undo
  <2> QED
    BY <2>1, <2>2
<1>11. InsertAtBottom'
  <2> SUFFICES ASSUME NEW q \in Rows
               PROVE  /\ InitRows < q /\ q <= count => chain'[q] # <<>>
                      /\ \A k \in 1 .. Len(chain'[q]) :
                           undo[chain'[q][k][1]][chain'[q][k][2]].type = "INSERT"
                             <=> k = Len(chain'[q]) /\ InitRows < q
    BY <1>1 DEF InsertAtBottom, Undo
  <2>1. CASE q = r
    <3> SUFFICES ASSUME NEW k \in 1 .. Len(chain'[q])
                 PROVE  undo[chain'[q][k][1]][chain'[q][k][2]].type = "INSERT"
                          <=> k = Len(chain'[q]) /\ InitRows < q
      BY <1>6, <2>1
    <3>1. CASE k = 1
      <4>1. undo[chain'[q][k][1]][chain'[q][k][2]].type # "INSERT"
        BY <1>4, <1>6, <2>1, <3>1
      <4>2. InitRows < q => Len(s) # 0
        BY <1>3, <1>5, <2>1 DEF PageInv, InsertAtBottom
      <4> QED
        BY <1>5, <1>6, <2>1, <3>1, <4>1, <4>2
    <3>2. CASE k # 1
      <4>1. chain'[q][k] = s[k - 1] /\ k - 1 \in 1 .. Len(s)
        BY <1>5, <1>6, <2>1, <3>2
      <4>2. undo[s[k - 1][1]][s[k - 1][2]].type = "INSERT"
              <=> k - 1 = Len(s) /\ InitRows < r
        BY <1>3, <4>1 DEF PageInv, InsertAtBottom, Undo
      <4>3. k - 1 = Len(s) <=> k = Len(chain'[q])
        BY <1>5, <1>6, <2>1, <4>1
      <4> QED
        BY <2>1, <4>1, <4>2, <4>3
    <3> QED
      BY <3>1, <3>2
  <2>2. CASE q # r
    BY <1>5, <2>2 DEF PageInv, InsertAtBottom, Undo
  <2> QED
    BY <2>1, <2>2
<1>12. Images'
  <2> SUFFICES ASSUME NEW q \in Rows, NEW k \in 1 .. Len(chain'[q]),
                      undo[chain'[q][k][1]][chain'[q][k][2]].type = "UPDATE"
               PROVE  undo[chain'[q][k][1]][chain'[q][k][2]].old = Version(q, k + 1)'
    BY <1>1 DEF Images, Undo
  <2>1. CASE q = r /\ k = 1
    <3>1. chain'[q][k][1] = t /\ chain'[q][k][2] = n /\ call[t] = "updateCas"
      BY <1>1, <1>4, <1>6, <2>1
    <3>2. undo[t][n].old = Version(r, 1)
      BY <3>1 DEF PageInv, PageHoldsNewest
    <3>3. Version(q, k + 1)' = Version(q, k)
      BY <1>7, <2>1
    <3> QED
      BY <2>1, <3>1, <3>2, <3>3
  <2>2. CASE q = r /\ k # 1
    <3>1. chain'[q][k] = s[k - 1] /\ k - 1 \in 1 .. Len(s)
      BY <1>5, <1>6, <2>2
    <3>2. undo[s[k - 1][1]][s[k - 1][2]].old = Version(r, (k - 1) + 1)
      BY <1>3, <3>1 DEF PageInv, Images, Undo
    <3>3. (k - 1) + 1 = k /\ k \in Nat \ {0}
      BY <1>5, <3>1
    <3>4. Version(q, k + 1)' = Version(q, k)
      BY <1>7, <2>2, <3>3
    <3> QED
      BY <2>2, <3>1, <3>2, <3>3, <3>4
  <2>3. CASE q # r
    <3>1. chain'[q] = chain[q] /\ Version(q, k + 1)' = Version(q, k + 1)
      BY <1>5, <2>3 DEF Version
    <3> QED
      BY <2>3, <3>1 DEF PageInv, Images, Undo
  <2> QED
    BY <2>1, <2>2, <2>3
<1>13. PageHoldsNewest'
  <2> SUFFICES ASSUME NEW q \in Rows
               PROVE  value[q] = IF q \in bitmap' THEN Version(q, 2)' ELSE Version(q, 1)'
    BY <1>1, <1>3 DEF PageHoldsNewest
  <2>1. CASE q # r
    <3>1. (\A u \in Txns : call[u] = "updateCas" => row[u] # q)
      BY <1>2, <2>1
    <3>2. q \in bitmap' <=> q \in bitmap
      BY <1>1, <2>1
    <3>3. Version(q, 1)' = Version(q, 1) /\ Version(q, 2)' = Version(q, 2)
      BY <1>5, <2>1 DEF Version
    <3> QED
      BY <3>1, <3>2, <3>3 DEF PageInv, PageHoldsNewest
  <2>2. CASE q = r /\ call[t] = "updateCas"
    <3>1. q \notin bitmap' /\ value[q] = Mine(t)
      BY <1>1, <1>3, <2>2 DEF PageInv, PageHoldsNewest
    <3>2. Version(q, 1)' = Mine(t)
      BY <1>5, <1>6, <2>2 DEF Version
    <3> QED
      BY <3>1, <3>2
  <2>3. CASE q = r /\ call[t] = "deleteCas"
    <3>1. q \in bitmap' /\ \A u \in Txns : call[u] # "updateCas"
      BY <1>1, <1>2, <2>3
    <3>2. value[q] = Version(q, 1)
      BY <1>3, <2>3, <3>1 DEF PageInv, PageHoldsNewest
    <3>3. Version(q, 1 + 1)' = Version(q, 1)
      BY <1>7, <2>3
    <3>4. Version(q, 2)' = Version(q, 1 + 1)'
      BY DEF Version
    <3> QED
      BY <3>1, <3>2, <3>3, <3>4
  <2> QED
    BY <1>1, <2>1, <2>2, <2>3
<1> QED
  BY <1>8, <1>9, <1>10, <1>11, <1>12, <1>13 DEF PageInv

(* Lemma: without DeleteUndoRaw every step keeps the page. *)
LEMMA NextPageInv ==
  ASSUME "raw" \notin Ops, ChainInv, PageInv, [TableNext]_vars
  PROVE  PageInv'
<1>1. CASE UNCHANGED vars
  <2>1. UNCHANGED <<records, count, value, bitmap, lock, chain, undo, call, row, seen>>
    BY <1>1 DEF vars, txnVars, tableVars
  <2>2. LockHeld' /\ Marked' /\ SeenCurrent' /\ DeleteIsFinal'
    BY <2>1 DEF PageInv, LockHeld, Marked, SeenCurrent, DeleteIsFinal, Undo
  <2>3. InsertAtBottom' /\ Images' /\ PageHoldsNewest'
    BY <2>1 DEF PageInv, InsertAtBottom, Images, PageHoldsNewest, Version, Undo, Mine
  <2> QED
    BY <2>2, <2>3 DEF PageInv
<1> SUFFICES ASSUME NEW t \in Txns, StepOf(t) PROVE PageInv'
  BY <1>1 DEF TableNext, StepOf
<1>2. CASE Loops(t)
  <2>1. call[t] \in LinkCalls /\ chain[row[t]] # seen[t]
    BY <1>2 DEF Loops, Retry, LinkCalls
  <2> QED
    BY <2>1 DEF PageInv, SeenCurrent
<1>3. ~(RawRefused(t) \/ RawProceeds(t) \/ RawLinks(t))
  BY DEF RawRefused, RawProceeds, RawLinks, PageInv, SeenCurrent
<1>4. \A r \in Rows : ~RawStart(t, r)
  BY DEF RawStart
<1> QED
  BY <1>2, <1>3, <1>4, PageTxn, PageInsert, PageStart, PageRefuse, PageProceed, PageLink
     DEF StepOf

(* Theorem: without DeleteUndoRaw the page, its deletion marks and the       *)
(* before images agree with the chains.                                      *)
THEOREM PageInvAlways == ASSUME "raw" \notin Ops PROVE TableSpec => []PageInv
<1>1. TableInit => PageInv
  <2> SUFFICES ASSUME TableInit PROVE PageInv
    OBVIOUS
  <2>1. LockHeld /\ Marked /\ SeenCurrent /\ DeleteIsFinal
    BY TableMvccAssumption
       DEF TableInit, LockHeld, LockCalls, Marked, SeenCurrent, LinkCalls, DeleteIsFinal
  <2>2. InsertAtBottom
    BY TableMvccAssumption DEF TableInit, InsertAtBottom, Rows
  <2>3. Images /\ PageHoldsNewest
    BY DEF TableInit, Images, PageHoldsNewest, Version
  <2> QED
    BY <2>1, <2>2, <2>3 DEF PageInv
<1>2. ChainInv /\ PageInv /\ [TableNext]_vars => PageInv'
  BY NextPageInv
<1> QED
  BY <1>1, <1>2, ChainInvAlways, PTL DEF TableSpec

(* Theorem: where deletes go through Table::Delete, which marks the row on   *)
(* the page, a deleted row stays deleted: no update and no second delete is  *)
(* linked on top.                                                            *)
THEOREM DeleteIsFinalAlways ==
  ASSUME "raw" \notin Ops PROVE TableSpec => []DeleteIsFinal
<1>1. PageInv => DeleteIsFinal
  BY DEF PageInv
<1> QED
  BY <1>1, PageInvAlways, PTL

-----------------------------------------------------------------------------
(* What Select returns *)

(* Lemma: the versions the walk of SelectIntoChunk takes back are those of   *)
(* transactions that had not committed when the reader began.                *)
LEMMA UndoneAreLater ==
  ASSUME ChainInv, NEW t \in Txns, state[t] = "active", NEW r \in Rows,
         NEW k \in 1 .. Len(chain[r]), chain[r][k][1] # t
  PROVE  IsNewerThan(Timestamp(chain[r][k]), start[t]) <=> ~Before(chain[r][k][1], t)
<1> DEFINE w == chain[r][k][1]
           i == chain[r][k][2]
<1>1. w \in Txns /\ i \in 1 .. records[w]
  BY LinkedRecord
<1>2. Sees(t, w, i) <=> state[w] = "committed" /\ commit[w] <= start[t]
  BY <1>1, SeesCommitted DEF ChainInv
<1>3. commit[w] \in Nat /\ start[t] \in Nat
  BY <1>1, TimesNat DEF ChainInv
<1>4. state[w] = "stamping" => commit[w] > start[t]
  BY <1>1 DEF ChainInv, IInv, Barrier
<1>5. Finished(w) => start[t] # commit[w]
  BY <1>1 DEF ChainInv, TimesDiffer
<1>6. Sees(t, w, i) <=> Before(w, t)
  BY <1>2, <1>3, <1>4, <1>5 DEF Before, Finished
<1> QED
  BY <1>6 DEF Sees, Timestamp

(* Lemma: the kinds of the versions of a chain without raw deletes: updates, *)
(* but for a delete on top and an insert at the bottom.                      *)
LEMMA VersionTypes ==
  ASSUME ChainInv, PageInv, NEW r \in Rows, NEW k \in 1 .. Len(chain[r])
  PROVE  /\ k # 1 /\ ~(k = Len(chain[r]) /\ InitRows < r) =>
              Undo(chain[r][k]).type = "UPDATE"
         /\ k = 1 /\ r \notin bitmap /\ ~(k = Len(chain[r]) /\ InitRows < r) =>
              Undo(chain[r][k]).type = "UPDATE"
         /\ k = 1 /\ r \in bitmap => Undo(chain[r][k]).type = "DELETE"
<1> DEFINE w == chain[r][k][1]
           i == chain[r][k][2]
<1>1. w \in Txns /\ i \in 1 .. records[w] /\ k \in Nat /\ Len(chain[r]) \in Nat
  BY LinkedRecord
<1>2. undo[w] \in Seq(UndoEntry) /\ Len(undo[w]) = records[w]
  BY <1>1 DEF ChainInv, TableTypeOK, CallsRunning, UndoEntry
<1>3. undo[w][i] \in UndoEntry
  BY <1>1, <1>2
<1>4. Undo(chain[r][k]).type \in Types \ {"INVALID"}
  BY <1>3 DEF Undo, UndoEntry, ChainInv, LinkedRecords
<1>5. Undo(chain[r][k]).type = "INSERT" <=> k = Len(chain[r]) /\ InitRows < r
  BY DEF PageInv, InsertAtBottom
<1>6. k # 1 => Undo(chain[r][k]).type # "DELETE"
  BY <1>1 DEF PageInv, DeleteIsFinal
<1>7. chain[r] # <<>>
  BY <1>1
<1>8. k = 1 => (r \in bitmap <=> Undo(chain[r][k]).type = "DELETE")
  BY <1>7 DEF PageInv, Marked
<1> QED
  BY <1>4, <1>5, <1>6, <1>8 DEF Types

(* Lemma: a walk that takes back the m newest versions, none of them the     *)
(* insert of the row, returns the value of the next one.                     *)
LEMMA ReadsNext ==
  ASSUME ChainInv, PageInv, NEW t \in Txns, NEW r \in Rows,
         NEW m \in 0 .. Len(chain[r]),
         Undone(t, r) = 1 .. m,
         m = Len(chain[r]) => ~(InitRows < r),
         m = 0 => r \notin bitmap,
         \A u \in Txns : call[u] = "none"
  PROVE  ReadValue(t, r) = Version(r, m + 1)
<1> DEFINE c == chain[r]
           updates == {k \in Undone(t, r) : Undo(c[k]).type = "UPDATE"}
<1>1. Len(c) \in Nat /\ m \in Nat /\ m <= Len(c)
  BY DEF ChainInv, TableTypeOK
<1>2. value[r] = IF r \in bitmap THEN Version(r, 2) ELSE Version(r, 1)
  BY DEF PageInv, PageHoldsNewest
<1>3. \A k \in 1 .. m : k \in 1 .. Len(c) /\ ~(k = Len(c) /\ InitRows < r)
  BY <1>1
<1>4. CASE updates = {}
  <2>1. m = 0 \/ (m = 1 /\ r \in bitmap)
    <3> SUFFICES ASSUME m # 0, ~(m = 1 /\ r \in bitmap) PROVE FALSE
      OBVIOUS
    <3>1. m \in 1 .. m
      BY <1>1
    <3>2. Undo(c[m]).type = "UPDATE"
      BY <1>1, <1>3, <3>1, VersionTypes
    <3>3. m \in updates
      BY <3>1, <3>2
    <3> QED
      BY <1>4, <3>3
  <2>2. ReadValue(t, r) = value[r]
    BY <1>4 DEF ReadValue
  <2> QED
    BY <1>2, <2>1, <2>2
<1>5. CASE updates # {}
  <2>1. PICK k \in updates : TRUE
    BY <1>5
  <2>2. k \in 1 .. m /\ Undo(c[k]).type = "UPDATE"
    BY <2>1
  <2>3. m \in 1 .. m /\ m # 0
    BY <1>1, <2>2
  <2>4. Undo(c[m]).type = "UPDATE"
    <3>1. CASE m = 1
      BY <2>2, <3>1
    <3>2. CASE m # 1
      BY <1>3, <2>3, <3>2, VersionTypes
    <3> QED
      BY <3>1, <3>2
  <2>5. m \in updates /\ \A j \in updates : j \in 1 .. m /\ j <= m
    BY <1>1, <2>3, <2>4
  <2> DEFINE x == CHOOSE x \in updates : \A j \in updates : j <= x
  <2>6. x \in updates /\ \A j \in updates : j <= x
    BY <2>5
  <2>7. x = m
    BY <1>1, <2>5, <2>6
  <2>8. ReadValue(t, r) = Undo(c[m]).old
    BY <1>5, <2>7 DEF ReadValue
  <2> QED
    BY <1>3, <2>3, <2>4, <2>8 DEF PageInv, Images
<1> QED
  BY <1>4, <1>5

(* Lemma: a reader with versions of its own finds the newest of them. *)
LEMMA ReadsOwn ==
  ASSUME ChainInv, PageInv, NEW t \in Txns, NEW r \in Rows,
         CanRead(t, r), LinkedTo(t, r) # {}
  PROVE  /\ Expected(t)[r] \in Values => ReadValue(t, r) = Expected(t)[r]
         /\ Expected(t)[r] = Absent <=> ReadStatus(t, r) = "NotVisible"
<1> USE TransactionsAssumption
<1> DEFINE c == chain[r]
<1>1. /\ c # <<>> /\ c[1][1] = t /\ c[1] \in Records
      /\ Effect(t, r) = Written(c[1])
  BY OwnOnTop DEF CanRead, Finished
<1>2. /\ 1 \in 1 .. Len(c) /\ Head(c) = c[1] /\ Len(c) \in Nat
      /\ c[1][2] \in 1 .. records[t]
  <2>1. c \in Seq(Records) /\ Len(c) \in Nat
    BY DEF ChainInv, TableTypeOK
  <2>2. 1 \in 1 .. Len(c) /\ Head(c) = c[1]
    BY <1>1, <2>1
  <2> QED
    BY <1>1, <2>1, <2>2, LinkedRecord
<1>3. Expected(t)[r] = Written(c[1])
  BY <1>1 DEF Expected, Overlay
<1>4. Undone(t, r) = {}
  <2>1. stamped[t] = 0
    BY DEF ChainInv, IInv, Stamps, CanRead
  <2>2. Timestamp(Head(c)) = FinishTime(t)
    BY <1>1, <1>2, <2>1 DEF Timestamp, RecordTs, ChainInv, IInv, TxnTypeOK
  <2> QED
    BY <1>1, <2>2 DEF Undone, OwnHead
<1>5. ReadValue(t, r) = value[r] /\ ReadStatus(t, r) # "NotVisible"
  BY <1>4 DEF ReadValue, ReadStatus
<1>6. Expected(t)[r] # Absent
  BY <1>1, <1>3 DEF Written, Deleted, Absent, Records
<1>7. ASSUME Expected(t)[r] \in Values PROVE value[r] = Expected(t)[r]
  <2>1. Undo(c[1]).type # "DELETE" /\ Expected(t)[r] = c[1]
    BY <1>3, <1>7 DEF Written, Deleted, Values, Loaded, Records
  <2>2. r \notin bitmap
    BY <2>1 DEF PageInv, Marked
  <2>3. \A u \in Txns : call[u] = "none"
    BY AllIdle DEF CanRead
  <2> QED
    BY <1>2, <2>1, <2>2, <2>3 DEF PageInv, PageHoldsNewest, Version
<1> QED
  BY <1>5, <1>6, <1>7

(* Lemma: a reader without versions of its own finds its snapshot. *)
LEMMA ReadsSnapshot ==
  ASSUME ChainInv, PageInv, HistoryInv, NEW t \in Txns, NEW r \in Rows,
         CanRead(t, r), LinkedTo(t, r) = {}
  PROVE  /\ Expected(t)[r] \in Values => ReadValue(t, r) = Expected(t)[r]
         /\ Expected(t)[r] = Absent <=> ReadStatus(t, r) = "NotVisible"
<1> USE TransactionsAssumption
<1> DEFINE c == chain[r]
           past == {w \in Txns : Before(w, t)}
<1>1. /\ c \in Seq(Records) /\ Len(c) \in Nat /\ DOMAIN c = 1 .. Len(c)
      /\ state[t] = "active" /\ r <= count
  BY DEF ChainInv, TableTypeOK, CanRead
<1>2. \A u \in Txns : call[u] = "none"
  BY AllIdle DEF CanRead
<1>3. Expected(t)[r] = snap[t][r] /\ NewestIn(c, undo, r, past, snap[t][r])
  BY <1>1 DEF Expected, Overlay, HistoryInv, SnapMatches
<1>4. \A k \in 1 .. Len(c) : c[k][1] \in Txns /\ c[k][1] # t /\ c[k] \in Records
  <2> SUFFICES ASSUME NEW k \in 1 .. Len(c)
               PROVE  c[k][1] \in Txns /\ c[k][1] # t /\ c[k] \in Records
    OBVIOUS
  <2>1. /\ c[k][1] \in Txns /\ c[k] \in Records
        /\ c[k][2] \in 1 .. records[c[k][1]] /\ c[k] = <<c[k][1], c[k][2]>>
    BY LinkedRecord
  <2>2. c[k][1] = t => c[k][2] \in LinkedTo(t, r)
    BY <1>1, <2>1 DEF LinkedTo
  <2> QED
    BY <2>1, <2>2
<1>5. \A k \in 1 .. Len(c) :
        IsNewerThan(Timestamp(c[k]), start[t]) <=> c[k][1] \notin past
  BY <1>1, <1>4, UndoneAreLater
<1>6. ~OwnHead(t, r)
  <2> SUFFICES ASSUME c # <<>>, Timestamp(Head(c)) = FinishTime(t) PROVE FALSE
    BY DEF OwnHead
  <2> DEFINE w == c[1][1]
             i == c[1][2]
  <2>1. 1 \in 1 .. Len(c) /\ Head(c) = c[1]
    BY <1>1
  <2>2. w \in Txns /\ w # t /\ i \in 1 .. records[w] /\ state[w] # "new"
    BY <1>4, <2>1, LinkedRecord
  <2>3. /\ start[w] \in Nat /\ commit[w] \in Nat /\ start[t] \in Nat /\ TxnBit \in Nat
        /\ stamped[w] \in Nat /\ i \in Nat
    <3>1. stamped[w] \in Nat /\ records[w] \in Nat
      BY <2>2 DEF ChainInv, IInv, TxnTypeOK
    <3> QED
      BY <2>2, <3>1, TimesNat DEF ChainInv
  <2>4. start[w] # start[t]
    BY <1>1, <2>2 DEF ChainInv, IInv, StartsDiffer
  <2>5. i <= stamped[w] => commit[w] < TxnBit
    <3> SUFFICES ASSUME i <= stamped[w] PROVE commit[w] < TxnBit
      OBVIOUS
    <3>1. stamped[w] # 0
      BY <2>2, <2>3
    <3>2. state[w] \in {"stamping", "committed"}
      BY <2>2, <3>1 DEF ChainInv, IInv, Stamps
    <3>3. commit[w] < time /\ time \in 0 .. TxnBit
      BY <2>2, <3>2 DEF ChainInv, IInv, Clock, TxnTypeOK
    <3> QED
      BY <2>3, <3>3
  <2>6. Timestamp(Head(c)) = IF i <= stamped[w] THEN commit[w] ELSE start[w] + TxnBit
    BY <2>1 DEF Timestamp, RecordTs, FinishTime
  <2> QED
    BY <2>3, <2>4, <2>5, <2>6 DEF FinishTime
<1>7. \A j, k \in 1 .. Len(c) : j < k /\ c[j][1] \in past => c[k][1] \in past
  <2> SUFFICES ASSUME NEW j \in 1 .. Len(c), NEW k \in 1 .. Len(c), j < k,
                      Before(c[j][1], t)
               PROVE  Before(c[k][1], t)
    BY <1>4
  <2>1. Above(c[j], c[k])
    BY DEF ChainInv, Ordered
  <2>2. CASE c[j][1] = c[k][1]
    BY <2>2
  <2>3. CASE Before(c[k][1], c[j][1])
    <3>1. start[c[j][1]] < commit[c[j][1]]
      BY <1>4 DEF ChainInv, TimesDiffer, Before
    <3>2. /\ start[c[j][1]] \in Nat /\ commit[c[j][1]] \in Nat
          /\ commit[c[k][1]] \in Nat /\ start[t] \in Nat
      BY <1>4, TimesNat DEF ChainInv
    <3> QED
      BY <2>3, <3>1, <3>2 DEF Before
  <2> QED
    BY <2>1, <2>2, <2>3 DEF Above
<1>8. \A k \in 1 .. Len(c) : k \in Undone(t, r) <=> c[k][1] \notin past
  <2> SUFFICES ASSUME NEW k \in 1 .. Len(c)
               PROVE  k \in Undone(t, r) <=> c[k][1] \notin past
    OBVIOUS
  <2>1. k \in Undone(t, r) <=>
          \A j \in 1 .. k : IsNewerThan(Timestamp(c[j]), start[t])
    BY <1>1, <1>6 DEF Undone
  <2>2. \A j \in 1 .. k : j \in 1 .. Len(c) /\ (j = k \/ j < k)
    BY <1>1
  <2>3. k \in 1 .. k
    BY <1>1
  <2> QED
    BY <1>5, <1>7, <2>1, <2>2, <2>3
<1>9. Undone(t, r) \subseteq 1 .. Len(c)
  BY <1>1 DEF Undone
<1>10. Absent \notin Values /\ Deleted \notin Values /\ Absent # Deleted
       /\ Loaded \in Values /\ Loaded # Absent /\ Absent \notin Records
  BY DEF Absent, Deleted, Values, Loaded, Records
<1>11. ReadStatus(t, r) = "NotVisible"
         <=> \E k \in Undone(t, r) : Undo(c[k]).type = "INSERT"
  BY DEF ReadStatus
<1>12. \A k \in 1 .. Len(c) :
         Undo(c[k]).type = "INSERT" <=> k = Len(c) /\ InitRows < r
  BY DEF PageInv, InsertAtBottom
<1>13. CASE \E k \in 1 .. Len(c) : c[k][1] \in past
  <2>1. PICK k \in 1 .. Len(c) :
          /\ c[k][1] \in past
          /\ \A j \in 1 .. k - 1 : c[j][1] \notin past
          /\ snap[t][r] = IF undo[c[k][1]][c[k][2]].type = "DELETE" THEN Deleted ELSE c[k]
    BY <1>3, <1>13 DEF NewestIn
  <2> DEFINE m == k - 1
  <2>2. m \in 0 .. Len(c) /\ m # Len(c) /\ m + 1 = k /\ k <= Len(c)
    BY <1>1
  <2>3. \A j \in 1 .. Len(c) : c[j][1] \notin past <=> j \in 1 .. m
    <3> SUFFICES ASSUME NEW j \in 1 .. Len(c) PROVE c[j][1] \notin past <=> j \in 1 .. m
      OBVIOUS
    <3>1. j \in 1 .. m \/ j = k \/ k < j
      BY <1>1
    <3>2. j = k \/ k < j => c[j][1] \in past
      BY <1>7, <2>1
    <3>3. j \in 1 .. m => ~(j = k \/ k < j)
      BY <1>1
    <3> QED
      BY <2>1, <3>1, <3>2, <3>3
  <2>4. 1 .. m \subseteq 1 .. Len(c)
    BY <1>1, <2>2
  <2>5. Undone(t, r) = 1 .. m
    BY <1>8, <1>9, <2>3, <2>4
  <2>6. ReadStatus(t, r) # "NotVisible"
    <3>1. \A j \in 1 .. m : j \in 1 .. Len(c) /\ j # Len(c)
      BY <1>1, <2>2
    <3> QED
      BY <1>11, <1>12, <2>5, <3>1
  <2>7. snap[t][r] # Absent
    BY <1>4, <1>10, <2>1
  <2>8. ASSUME snap[t][r] \in Values PROVE ReadValue(t, r) = snap[t][r]
    <3>1. Undo(c[k]).type # "DELETE" /\ snap[t][r] = c[k]
      BY <1>10, <2>1, <2>8 DEF Undo
    <3>2. m = 0 => r \notin bitmap
      BY <1>1, <2>2, <3>1 DEF PageInv, Marked
    <3>3. ReadValue(t, r) = Version(r, m + 1)
      BY <1>2, <2>2, <2>5, <3>2, ReadsNext
    <3> QED
      BY <2>2, <3>1, <3>3 DEF Version
  <2> QED
    BY <1>3, <2>6, <2>7, <2>8
<1>14. CASE ~\E k \in 1 .. Len(c) : c[k][1] \in past
  <2>1. snap[t][r] = Base(r)
    BY <1>3, <1>14 DEF NewestIn
  <2>2. Undone(t, r) = 1 .. Len(c)
    BY <1>8, <1>9, <1>14
  <2>3. CASE InitRows < r
    <3>1. c # <<>>
      BY <1>1, <2>3 DEF PageInv, InsertAtBottom
    <3>2. Len(c) \in 1 .. Len(c)
      BY <1>1, <3>1
    <3>3. ReadStatus(t, r) = "NotVisible"
      BY <1>11, <1>12, <2>2, <2>3, <3>2
    <3>4. Base(r) = Absent
      BY <2>3, TableMvccAssumption DEF Base, Rows
    <3> QED
      BY <1>3, <1>10, <2>1, <3>3, <3>4
  <2>4. CASE ~(InitRows < r)
    <3>1. ReadStatus(t, r) # "NotVisible"
      BY <1>11, <1>12, <2>2, <2>4
    <3>2. Base(r) = Loaded
      BY <2>4, TableMvccAssumption DEF Base, Rows
    <3>3. Len(c) = 0 => r \notin bitmap
      BY <1>1 DEF PageInv, Marked
    <3>4. Len(c) \in 0 .. Len(c)
      BY <1>1
    <3>5. ReadValue(t, r) = Version(r, Len(c) + 1)
      BY <1>2, <2>2, <2>4, <3>3, <3>4, ReadsNext
    <3>6. Version(r, Len(c) + 1) = Loaded
      BY <1>1 DEF Version
    <3> QED
      BY <1>3, <1>10, <2>1, <3>1, <3>2, <3>5, <3>6
  <2> QED
    BY <2>3, <2>4
<1> QED
  BY <1>13, <1>14

(* Theorem: snapshot isolation of the values Table::Select returns, for      *)
(* tables whose deletes go through Table::Delete: a reader finds its own     *)
(* last write or the value committed when it began, and no row inserted      *)
(* later, whatever others write, commit or abort meanwhile.                  *)
THEOREM SnapshotValuesAlways ==
  ASSUME "raw" \notin Ops PROVE TableSpec => []SnapshotValues
<1>1. ChainInv /\ PageInv /\ HistoryInv => SnapshotValues
  BY ReadsOwn, ReadsSnapshot DEF SnapshotValues
<1> QED
  BY <1>1, ChainInvAlways, PageInvAlways, HistoryAlways, PTL

-----------------------------------------------------------------------------
(* Theorem: the table implements Transactions: every step of a call is a     *)
(* step of the transaction manager or leaves it alone, so that what is       *)
(* proved of TxnSpec (AtomicVisibility, SnapshotStable, NoConflictIffSeen)   *)
(* holds of the transactions of a table.                                     *)
THEOREM TableImplementsTransactions == TableSpec => TxnSpec
<1>1. TableInit => TxnInit
  BY DEF TableInit
<1>2. [TableNext]_vars => [TxnNext]_txnVars
  <2>1. CASE UNCHANGED vars
    BY <2>1 DEF vars
  <2>2. ASSUME NEW t \in Txns, StepOf(t) PROVE [TxnNext]_txnVars
    BY <2>2
       DEF StepOf, TxnStep, BeginTxn, CommitTxn, TxnNext, CallStep, Insert, UpdateStart,
           DeleteStart, RawStart, StartCall, UpdateRefused, DeleteRefused, RawRefused,
           Refuse, UpdateWrites, DeleteProceeds, RawProceeds, Proceed, UpdateLinks,
           DeleteLinks, RawLinks, Link, Loops, Retry
  <2> QED
    BY <2>1, <2>2 DEF TableNext, StepOf
<1> QED
  BY <1>1, <1>2, PTL DEF TableSpec, TxnSpec
=============================================================================
