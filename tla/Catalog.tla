------------------------------- MODULE Catalog -------------------------------
(***************************************************************************)
(* Catalog and DatabaseCatalog on top of Transactions.  A catalog call is  *)
(* a sequence of steps (take the DDL lock, insert a tuple, enter it in an  *)
(* index, look an object up, delete a tuple); other transactions run       *)
(* between any two of them and the first step that fails ends the call     *)
(* without taking the earlier ones back.  A tuple is one row of a system   *)
(* table: it is inserted once and deleted at most once.  The insertion of  *)
(* an index entry is atomic, see UniqueKeys of BLinkTree.                  *)
(***************************************************************************)
EXTENDS Transactions, Sequences

CONSTANTS
  Scenarios,    \* for each transaction the calls its client makes, in order
  AttnumRange   \* 2^16: pg_attribute's number index keeps a SMALLINT

\* The calls that some client makes.
Calls ==
  UNION {UNION {{s[t][i] : i \in DOMAIN s[t]} : t \in Txns} : s \in Scenarios}

\* The calls that create, and those that rename or drop an object by its oid.
CreateOps ==
  {"CreateDatabase", "CreateNamespace", "CreateTable", "CreateIndex",
   "CreateConstraint"}
ObjectOps ==
  {"DeleteDatabase", "UpdateDatabaseName", "DeleteNamespace",
   "UpdateNamespaceName", "UpdateTableName"}

IsSequence(s) == s \in Seq({s[i] : i \in DOMAIN s})

ASSUME CatalogAssumption ==
  /\ Scenarios \subseteq [Txns -> Seq(Calls)]
  /\ \A c \in Calls :
       /\ c.op \in CreateOps \cup ObjectOps
       /\ c.op \in ObjectOps => "oid" \in DOMAIN c
       /\ c.op \in {"CreateTable", "CreateIndex"} => IsSequence(c.columns)

VARIABLES
  write_lock,  \* DatabaseCatalog::write_lock_, a timestamp, 0 at first
  next_oid,    \* next_db_oid_, next_namespace_oid_, ...
  tuples,      \* the system tables; a TupleId is a position
  entries,     \* <<index, tuple id>>: what the indexes hold
  databases_map,  \* the databases that have a DatabaseCatalog
  script,      \* the calls the client of a transaction has yet to make
  call,        \* the call under way, or the last one
  todo,        \* its remaining steps
  made,        \* the tuples it has inserted, in order; the last is `tup'
  found,       \* what GetTidForModify returned, 0 for INVALID_TID
  db_oid,      \* the oid that CreateDatabase has taken
  result,      \* what the last call reported
  down         \* the process has called std::terminate or failed an assertion

callVars == <<script, call, todo, made, found, db_oid, result>>
dbVars   == <<write_lock, next_oid, tuples, entries, databases_map, down>>
vars     == <<txnVars, dbVars, callVars>>

-----------------------------------------------------------------------------
(* Tables, indexes and the steps of calls *)

Tables == {"database", "namespace", "class", "attribute", "index", "constraint"}

New     == 0         \* take the next oid of the table
OfClass == -1        \* the oid of the class tuple this call has made
Mapped  == -2        \* the oid CreateDatabase has taken
Absent  == <<0, 0>>  \* no undo record

\* The chunk of a tuple with the columns that some index is on.
BuildChunk(oid, name) ==
  [oid |-> oid, name |-> name, ns |-> 0, rel |-> 0, ind |-> 0, for |-> 0]

BuildClassChunk(oid, name, ns) == [BuildChunk(oid, name) EXCEPT !.ns = ns]
BuildAttributeChunk(rel, name) == [BuildChunk(New, name) EXCEPT !.rel = rel]
BuildIndexChunk(oid, name, rel) == [BuildChunk(oid, name) EXCEPT !.rel = rel]
BuildConstraintChunk(p) ==
  [oid |-> New, name |-> p.name, ns |-> p.ns, rel |-> p.rel, ind |-> p.ind,
   for |-> p.for]

\* AttrsFor: the columns of each index, and the table it is built on.
AttrsFor ==
  [datoid |-> <<"database", <<"oid">>>>,
   datname |-> <<"database", <<"name">>>>,
   nspoid |-> <<"namespace", <<"oid">>>>,
   nspname |-> <<"namespace", <<"name">>>>,
   reloid |-> <<"class", <<"oid">>>>,
   relname |-> <<"class", <<"name">>>>,
   relnamespace |-> <<"class", <<"ns">>>>,
   attnum |-> <<"attribute", <<"oid">>>>,
   attrelid_attname |-> <<"attribute", <<"rel", "name">>>>,
   indoid |-> <<"index", <<"oid">>>>,
   indrelid |-> <<"index", <<"rel">>>>,
   conoid |-> <<"constraint", <<"oid">>>>,
   conname |-> <<"constraint", <<"name">>>>,
   connamespace |-> <<"constraint", <<"ns">>>>,
   conrelid |-> <<"constraint", <<"rel">>>>,
   conindid |-> <<"constraint", <<"ind">>>>,
   confrelid |-> <<"constraint", <<"for">>>>]

Indexes == DOMAIN AttrsFor

\* The indexes CreateDatabaseCatalog and Catalog build on a table.
IndexesOn(table) == {x \in Indexes : AttrsFor[x][1] = table}

\* The indexes the catalog enters tuples in with InsertUnique.
UniqueIndexes ==
  {"datoid", "datname", "nspoid", "nspname", "reloid", "relname", "attnum",
   "attrelid_attname", "indoid", "conoid", "conname"}

OidIndex == [database |-> "datoid", namespace |-> "nspoid", class |-> "reloid"]

\* BuildKey without the tuple id.
BuildKey(x, row) ==
  IF x = "attnum" THEN <<row.oid % AttnumRange>>
  ELSE [i \in DOMAIN AttrsFor[x][2] |-> row[AttrsFor[x][2][i]]]

Lock              == [do |-> "lock"]
Put(table, row)   == [do |-> "insert", table |-> table, row |-> row]
Enter(index)      == [do |-> "enter", index |-> index]
Exists(table, oid) == [do |-> "exists", table |-> table, oid |-> oid]
Find(table, oid)  == [do |-> "find", table |-> table, oid |-> oid]
Drop              == [do |-> "drop"]
Map               == [do |-> "map"]
Unmap(oid)        == [do |-> "unmap", oid |-> oid]

-----------------------------------------------------------------------------
(* The calls *)

CreateDatabaseEntry(name, oid) ==
  <<Put("database", BuildChunk(oid, name)), Enter("datname"), Enter("datoid")>>

CreateDatabase(c) == <<Map>> \o CreateDatabaseEntry(c.name, Mapped)

DeleteDatabaseEntry(oid) == <<Find("database", oid), Drop>>

DeleteDatabase(c) == DeleteDatabaseEntry(c.oid) \o <<Unmap(c.oid)>>

UpdateDatabaseName(c) ==
  DeleteDatabaseEntry(c.oid) \o CreateDatabaseEntry(c.name, c.oid)

CreateNamespaceEntry(name, oid) ==
  <<Put("namespace", BuildChunk(oid, name)), Enter("nspname"), Enter("nspoid")>>

CreateNamespace(c) == <<Lock>> \o CreateNamespaceEntry(c.name, New)

DeleteNamespaceEntry(oid) == <<Find("namespace", oid), Drop>>

DeleteNamespace(c) == <<Lock>> \o DeleteNamespaceEntry(c.oid)

\* Takes no lock.
UpdateNamespaceName(c) ==
  DeleteNamespaceEntry(c.oid) \o CreateNamespaceEntry(c.name, c.oid)

\* Mutant: a column is not entered in the index on its number.
CreateColumnEntryNoNumber(name) ==
  <<Put("attribute", BuildAttributeChunk(OfClass, name)),
    Enter("attrelid_attname")>>

CreateColumnEntry(name) ==
  <<Put("attribute", BuildAttributeChunk(OfClass, name)),
    Enter("attrelid_attname"), Enter("attnum")>>

CreateTableEntry(name, oid, ns) ==
  <<Put("class", BuildClassChunk(oid, name, ns)),
    Enter("relname"), Enter("relnamespace"), Enter("reloid")>>

\* The loop over the schema: the steps of one column after the other, as many
\* for each.
CreateColumns(columns) ==
  LET n == Len(CreateColumnEntry(New))
  IN  [i \in 1 .. n * Len(columns) |->
         CreateColumnEntry(columns[(i - 1) \div n + 1])[((i - 1) % n) + 1]]

CreateTable(c) ==
  <<Lock, Exists("namespace", c.ns)>>
    \o CreateTableEntry(c.name, New, c.ns) \o CreateColumns(c.columns)

DeleteTableEntry(oid) == <<Find("class", oid), Drop>>

\* Takes no lock.
UpdateTableName(c) ==
  DeleteTableEntry(c.oid) \o CreateTableEntry(c.name, c.oid, c.ns)

CreateIndexClass(c) ==
  <<Lock, Exists("namespace", c.ns)>>
    \o CreateTableEntry(c.name, New, c.ns) \o CreateColumns(c.columns)

CreateIndexEntry(name, rel) ==
  <<Put("index", BuildIndexChunk(OfClass, name, rel)),
    Enter("indoid"), Enter("indrelid")>>

CreateIndex(c) ==
  <<Lock, Exists("class", c.rel)>>
    \o CreateIndexClass(c) \o CreateIndexEntry(c.name, c.rel)

CreateConstraintEntry(c) ==
  <<Put("constraint", BuildConstraintChunk(c)), Enter("conoid"), Enter("conname"),
    Exists("namespace", c.ns), Enter("connamespace"),
    Exists("class", c.rel), Enter("conrelid"),
    Exists("class", c.ind), Enter("conindid"),
    Exists("class", c.for), Enter("confrelid")>>

CreateConstraint(c) == <<Lock>> \o CreateConstraintEntry(c)

Steps(c) ==
  CASE c.op = "CreateDatabase"      -> CreateDatabase(c)
    [] c.op = "DeleteDatabase"      -> DeleteDatabase(c)
    [] c.op = "UpdateDatabaseName"  -> UpdateDatabaseName(c)
    [] c.op = "CreateNamespace"     -> CreateNamespace(c)
    [] c.op = "DeleteNamespace"     -> DeleteNamespace(c)
    [] c.op = "UpdateNamespaceName" -> UpdateNamespaceName(c)
    [] c.op = "CreateTable"         -> CreateTable(c)
    [] c.op = "UpdateTableName"     -> UpdateTableName(c)
    [] c.op = "CreateIndex"         -> CreateIndex(c)
    [] c.op = "CreateConstraint"    -> CreateConstraint(c)

-----------------------------------------------------------------------------
(* TransactionContext *)

\* version_manager_->GetDelta: the newest version of a tuple.
Newest(k) == IF tuples[k].del = Absent THEN tuples[k].ins ELSE tuples[k].del
Timestamp(k) == RecordTs(Newest(k)[1], Newest(k)[2])
IsDeleted(k) == tuples[k].del # Absent

Conflicting(t, k) == HasConflict(Timestamp(k), FinishTime(t), start[t])

\* Mutant: a deleted tuple never conflicts.
HasUniqueConflictIfLive(t, k) == ~IsDeleted(k)

HasUniqueConflict(t, k) == ~(IsDeleted(k) /\ ~Conflicting(t, k))

\* BTreeIndex::Get: the tuples with a key, in the order of their ids.
GetTids(x, key) ==
  {k \in DOMAIN tuples : <<x, k>> \in entries /\ BuildKey(x, tuples[k].row) = key}

TidsOf(table, oid) == GetTids(OidIndex[table], <<oid>>)

\* GetTidForModify: the first tuple that conflicts or is not deleted.
Candidates(t, tids) == {k \in tids : Conflicting(t, k) \/ ~IsDeleted(k)}

First(tids) == CHOOSE k \in tids : \A j \in tids : k <= j

\* GetTidExists looks at no timestamp.
GetTidExists(tids) == \E k \in tids : ~IsDeleted(k)

-----------------------------------------------------------------------------
(* Steps *)

CatalogInit ==
  /\ TxnInit
  /\ write_lock = 0
  /\ next_oid = [table \in Tables |-> 1]
  /\ tuples = <<>>
  /\ entries = {}
  /\ databases_map = {}
  /\ script \in Scenarios
  /\ call = [t \in Txns |-> "none"]
  /\ todo = [t \in Txns |-> <<>>]
  /\ made = [t \in Txns |-> <<>>]
  /\ found = [t \in Txns |-> 0]
  /\ db_oid = [t \in Txns |-> 0]
  /\ result = [t \in Txns |-> "none"]
  /\ down = FALSE

\* The next step of the call under way.
At(t, do) == todo[t] # <<>> /\ Head(todo[t]).do = do

Step(t) == Head(todo[t])

\* The step is done; after the last one the call reports success.
Done(t) ==
  /\ todo' = [todo EXCEPT ![t] = Tail(@)]
  /\ result' = [result EXCEPT ![t] = IF Len(todo[t]) = 1 THEN "ok" ELSE @]
  /\ UNCHANGED <<script, call>>

\* The call returns early.
Return(t, what) ==
  /\ todo' = [todo EXCEPT ![t] = <<>>]
  /\ result' = [result EXCEPT ![t] = what]
  /\ UNCHANGED <<script, call, made, found, db_oid>>

\* A step fails: CreateDatabase throws with no exception to rethrow and
\* DeleteDatabase asserts, which ends the process; the others report it.
Fail(t) ==
  /\ down' = (call[t] \in {"CreateDatabase", "DeleteDatabase"})
  /\ Return(t, "fail")

\* Mutant: the lock is taken from a transaction that has not ended.
LockConflictIfNewer(t) == IsCommitted(write_lock) /\ write_lock > start[t]

LockConflict(t) == HasConflict(write_lock, FinishTime(t), start[t])

\* DatabaseCatalog::TryLock.  The compare-and-swap fails only when another
\* transaction has stored its timestamp since, which is the conflict below.
\* Nothing rewrites write_lock_ when the transaction ends.
TryLock(t) ==
  /\ At(t, "lock")
  /\ write_lock = FinishTime(t) \/ ~LockConflict(t)
  /\ write_lock' = FinishTime(t)
  /\ Done(t)
  /\ UNCHANGED <<txnVars, next_oid, tuples, entries, databases_map, down, made,
                 found, db_oid>>

\* CreateNamespace reports the failure and DeleteNamespace too; the others
\* return INVALID_OID, which ResultObj takes for a value and a success.
TryLockFails(t) ==
  /\ At(t, "lock")
  /\ write_lock # FinishTime(t) /\ LockConflict(t)
  /\ Abort(t)
  /\ Return(t, IF call[t] \in {"CreateNamespace", "DeleteNamespace"}
               THEN "fail" ELSE "INVALID_OID")
  /\ UNCHANGED dbVars

MadeClass(t) ==
  CHOOSE k \in {made[t][i] : i \in DOMAIN made[t]} : tuples[k].table = "class"

\* next_..._oid_++ where the oid is new, and Table::Insert.
InsertTuple(t) ==
  /\ At(t, "insert")
  /\ NewUndoRecord(t)
  /\ LET table == Step(t).table
         row   == Step(t).row
         oid   == CASE row.oid = New     -> next_oid[table]
                    [] row.oid = OfClass -> tuples[MadeClass(t)].row.oid
                    [] row.oid = Mapped  -> db_oid[t]
                    [] OTHER             -> row.oid
         rel   == IF row.rel = OfClass THEN tuples[MadeClass(t)].row.oid
                  ELSE row.rel
     IN /\ tuples' = Append(tuples,
             [table |-> table, row |-> [row EXCEPT !.oid = oid, !.rel = rel],
              ins |-> <<t, records[t] + 1>>, del |-> Absent])
        /\ next_oid' = [next_oid EXCEPT ![table] =
                          IF row.oid = New THEN @ + 1 ELSE @]
  /\ made' = [made EXCEPT ![t] = Append(@, Len(tuples) + 1)]
  /\ Done(t)
  /\ UNCHANGED <<write_lock, entries, databases_map, down, found, db_oid>>

Tup(t) == made[t][Len(made[t])]

\* The tuples InsertUnique finds under the key of the new one.
SameKey(t) == GetTids(Step(t).index, BuildKey(Step(t).index, tuples[Tup(t)].row))

Refused(t) ==
  /\ Step(t).index \in UniqueIndexes
  /\ \E k \in SameKey(t) : HasUniqueConflict(t, k)

\* BTreeIndex::InsertUnique, or Insert where the index is not unique.
EnterTuple(t) ==
  /\ At(t, "enter")
  /\ ~Refused(t)
  /\ entries' = entries \cup {<<Step(t).index, Tup(t)>>}
  /\ Done(t)
  /\ UNCHANGED <<txnVars, write_lock, next_oid, tuples, databases_map, down,
                 made, found, db_oid>>

EnterFails(t) ==
  /\ At(t, "enter")
  /\ Refused(t)
  /\ Fail(t)
  /\ UNCHANGED <<txnVars, write_lock, next_oid, tuples, entries, databases_map>>

\* ExistsNamespace, ExistsTable.
ExistsObject(t) ==
  /\ At(t, "exists")
  /\ GetTidExists(TidsOf(Step(t).table, Step(t).oid))
  /\ Done(t)
  /\ UNCHANGED <<txnVars, dbVars, made, found, db_oid>>

ExistsFails(t) ==
  /\ At(t, "exists")
  /\ ~GetTidExists(TidsOf(Step(t).table, Step(t).oid))
  /\ Fail(t)
  /\ UNCHANGED <<txnVars, write_lock, next_oid, tuples, entries, databases_map>>

\* GetTidForModify finds a tuple, or none.
FindTuple(t) ==
  /\ At(t, "find")
  /\ LET some == Candidates(t, TidsOf(Step(t).table, Step(t).oid))
     IN /\ some # {} => ~Conflicting(t, First(some))
        /\ found' = [found EXCEPT ![t] = IF some = {} THEN 0 ELSE First(some)]
  /\ Done(t)
  /\ UNCHANGED <<txnVars, dbVars, made, db_oid>>

FindFails(t) ==
  /\ At(t, "find")
  /\ LET some == Candidates(t, TidsOf(Step(t).table, Step(t).oid))
     IN some # {} /\ Conflicting(t, First(some))
  /\ Fail(t)
  /\ UNCHANGED <<txnVars, write_lock, next_oid, tuples, entries, databases_map>>

\* Nothing to delete counts as success.
DropNothing(t) ==
  /\ At(t, "drop")
  /\ found[t] = 0
  /\ Done(t)
  /\ UNCHANGED <<txnVars, dbVars, made, found, db_oid>>

\* Table::DeleteUndoRaw; see TableMvcc for its compare-and-swap.
DropTuple(t) ==
  /\ At(t, "drop")
  /\ found[t] # 0
  /\ ~Conflicting(t, found[t]) /\ ~IsDeleted(found[t])
  /\ NewUndoRecord(t)
  /\ tuples' = [tuples EXCEPT ![found[t]].del = <<t, records[t] + 1>>]
  /\ Done(t)
  /\ UNCHANGED <<write_lock, next_oid, entries, databases_map, down, made, found,
                 db_oid>>

\* The record is invalidated and stays in the undo buffer.
DropFails(t) ==
  /\ At(t, "drop")
  /\ found[t] # 0
  /\ Conflicting(t, found[t]) \/ IsDeleted(found[t])
  /\ NewUndoRecord(t)
  /\ Fail(t)
  /\ UNCHANGED <<write_lock, next_oid, tuples, entries, databases_map>>

\* CreateDatabase takes next_db_oid_++ and maps it, before the entry is inserted.
MapDatabase(t) ==
  /\ At(t, "map")
  /\ db_oid' = [db_oid EXCEPT ![t] = next_oid["database"]]
  /\ next_oid' = [next_oid EXCEPT !["database"] = @ + 1]
  /\ databases_map' = databases_map \cup {next_oid["database"]}
  /\ Done(t)
  /\ UNCHANGED <<txnVars, write_lock, tuples, entries, down, made, found>>

\* RemoveMapping deletes the DatabaseCatalog at once.
RemoveMapping(t) ==
  /\ At(t, "unmap")
  /\ Step(t).oid \in databases_map
  /\ databases_map' = databases_map \ {Step(t).oid}
  /\ Done(t)
  /\ UNCHANGED <<txnVars, write_lock, next_oid, tuples, entries, down, made, found,
                 db_oid>>

RemoveMappingFails(t) ==
  /\ At(t, "unmap")
  /\ Step(t).oid \notin databases_map
  /\ Fail(t)
  /\ UNCHANGED <<txnVars, write_lock, next_oid, tuples, entries, databases_map>>

-----------------------------------------------------------------------------
(* Clients *)

\* An oid that a client renames or drops was returned by an earlier call.
Known(c) ==
  "oid" \in DOMAIN c =>
    TidsOf(CASE c.op \in {"UpdateDatabaseName", "DeleteDatabase"} -> "database"
             [] c.op \in {"UpdateNamespaceName", "DeleteNamespace"} -> "namespace"
             [] c.op = "UpdateTableName" -> "class", c.oid) # {}

\* The client makes its next call.
StartCall(t) ==
  /\ state[t] = "active"
  /\ todo[t] = <<>>
  /\ script[t] # <<>>
  /\ Known(Head(script[t]))
  /\ call'   = [call EXCEPT ![t] = Head(script[t]).op]
  /\ todo'   = [todo EXCEPT ![t] = Steps(Head(script[t]))]
  /\ script' = [script EXCEPT ![t] = Tail(@)]
  /\ made'   = [made EXCEPT ![t] = <<>>]
  /\ result' = [result EXCEPT ![t] = "none"]
  /\ UNCHANGED <<txnVars, dbVars, found, db_oid>>

\* Between calls, whatever they reported, the client may commit or abort.
TxnStep(t) ==
  /\ todo[t] = <<>>
  /\ Begin(t) \/ BeginReturn(t) \/ Abort(t) \/ CommitLatch(t) \/ CommitTime(t) \/ Restamp(t)
     \/ CommitReturn(t)
  /\ UNCHANGED <<dbVars, callVars>>

CatalogStep(t) ==
  \/ TryLock(t) \/ TryLockFails(t)
  \/ InsertTuple(t)
  \/ EnterTuple(t) \/ EnterFails(t)
  \/ ExistsObject(t) \/ ExistsFails(t)
  \/ FindTuple(t) \/ FindFails(t)
  \/ DropNothing(t) \/ DropTuple(t) \/ DropFails(t)
  \/ MapDatabase(t) \/ RemoveMapping(t) \/ RemoveMappingFails(t)

CatalogNext ==
  /\ ~down
  /\ \E t \in Txns : TxnStep(t) \/ StartCall(t) \/ CatalogStep(t)

CatalogSpec == CatalogInit /\ [][CatalogNext]_vars

-----------------------------------------------------------------------------
(* Properties *)

VisibleTo(r, rec) == rec[1] = r \/ Sees(r, rec[1], rec[2])

\* Tuple k exists in the snapshot of r with r's own changes on top.
LiveFor(r, k) ==
  /\ VisibleTo(r, tuples[k].ins)
  /\ tuples[k].del # Absent => ~VisibleTo(r, tuples[k].del)

\* Names and oids are unique in every snapshot: whatever creations, renames,
\* drops, commits and aborts overlap, no transaction ever sees two tuples in
\* a unique index under one key.
UniqueNames ==
  \A r \in Txns : state[r] = "active" =>
    \A x \in UniqueIndexes : \A e, f \in entries :
      /\ e[1] = x /\ f[1] = x /\ e # f
      /\ BuildKey(x, tuples[e[2]].row) = BuildKey(x, tuples[f[2]].row)
      => ~(LiveFor(r, e[2]) /\ LiveFor(r, f[2]))

\* GetTidExists ignores who wrote a version and when; with the DDL lock held
\* it still never accepts a namespace or a table that the transaction itself
\* cannot see.
ExistsMeansVisible ==
  \A t \in Txns :
    At(t, "exists") /\ GetTidExists(TidsOf(Step(t).table, Step(t).oid)) =>
      \E k \in TidsOf(Step(t).table, Step(t).oid) : LiveFor(t, k)

\* A call that reports success has entered every tuple it made in every index
\* of the tuple's table, although the calls name the indexes one by one.
IndexesComplete ==
  \A t \in Txns : result[t] = "ok" =>
    \A i \in DOMAIN made[t] :
      \A x \in IndexesOn(tuples[made[t][i]].table) : <<x, made[t][i]>> \in entries
=============================================================================
