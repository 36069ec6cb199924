# A verification development for DB7

DB7 is a storage engine in C++20: a latched buffer pool over asynchronous
io_uring reads, multi-version tables with snapshot isolation, a B-link tree
index and a transactional catalog.  This directory holds TLA+ models of its
parts, the TLC configurations that check them on small instances, and TLAPS
proofs of the central results for all instances.  `PROJECT.json` lists the
runs, the source lines each definition stands for, the findings, and the
hazards the properties were written for.

## 1. The system

| Part | State | Operations | Talks to |
|---|---|---|---|
| buffer pool (`buffer_pool.cpp`, `buffer_partitions.hpp`, `page.hpp`) | frames (id, pin count, IO flag, latch, bytes, version array), page table in partitions, clock hand | `Pin`, `Unpin`, `Reserve`, `WaitIO`, `SignalIO` | called by tables and index; queues reads at the disk scheduler |
| disk scheduler (`disk_scheduler.hpp`) | lock-free task queue, in-flight count, running flag, one worker | `Enqueue`, `Start`, `Stop`, the loop `Run` | io_uring through the disk manager; runs `SignalIO` as the completion callback |
| disk manager (`disk_manager_async.cpp`, `fd_cache.hpp`) | ring, descriptor cache of 128 entries | create, open, extend and drop table files; submit and reap | the scheduler, tables, catalog |
| locks (`adaptive_version_lock.hpp`, `adaptive_spin_lock.hpp`, `thread_local_util.hpp`) | version counter and shared mutex; commit counter | optimistic read and validate, read and write lock | partitions, pages, tree nodes, transaction manager |
| transactions (`transaction_manager.cpp`, `transaction_context.hpp`, `timestamp_manager.hpp`) | clock, commit latch, undo buffer per transaction | `BeginTransaction`, `Commit`, `Abort`, new undo records | tables write undo records, readers test timestamps |
| tables (`table.cpp`, `page_version_manager.hpp`) | PAX pages, one version chain per row | `Insert`, `Update`, `Delete`, `Select` | buffer pool, transactions |
| undo and redo buffers, arenas | segments from an object pool | new entry, iterate, release | transactions |
| B-link tree (`btree.hpp`, varlen layouts) | nodes in pages, root pointer | insert, delete, lookup, split | buffer pool, free space manager |
| catalog (`database_catalog.cpp`, `catalog.cpp`) | system tables, DDL lock | create, rename and drop of namespaces, tables, columns, indexes | tables, tree, transactions |
| pure parts: PAX layout, key encoding, data chunks | none | offsets, bitmaps, order-preserving bytes | tables, tree |

What is hard in it: the fast path of `Pin` reads page table, id and flag
without the page latch while evictions run; `WaitIO` sleeps on a condition
variable that two different code paths clear; `Commit` rewrites timestamps one
by one under no page lock and relies on a counter that `BeginTransaction` spins
on; optimistic readers validate after the fact; tree splits are visible before
the parent knows; a DDL statement is several inserts, each of which can fail.
There is no write-back of pages, no undo at abort and no recovery, so crashes
and restarts are not behaviours this code handles.

What makes each part correct:

* buffer pool: pins are counted exactly; a frame is never taken from a session
  that uses it; page table and frames agree; a completed read finds the frame
  as the request left it; whoever is let through `WaitIO` has its page's bytes;
  sleepers wake up;
* disk scheduler: every queued task is completed at most once, within the
  budget of the ring, and while the scheduler runs it is completed; tasks in
  flight at `Stop` still complete, tasks left in the queue never do;
* locks: a validated optimistic read saw no torn state; writers are exclusive;
* transactions: commits appear atomically and a snapshot never changes;
* tables: first updater wins, an update is never lost, a reader sees the version
  of its snapshot;
* tree: every inserted key is found, also while splits are half done; separators
  reach their parent once; unique keys stay unique; calls return;
* pages and keys: tuples never overlap, columns fit their page, bytes compare
  as the rows they encode;
* catalog: names are unique in every snapshot; existence checks are about
  visible objects; a successful statement is in all indexes.

## 2. Modules

| Module | Models | Uses |
|---|---|---|
| `BufferPool` | `Pin`, `Unpin`, `Reserve`, `PageVisit`, `GetVictim`, `UndoState`, `WaitIO`, `SignalIO` | |
| `AsyncIO` | abstract specification: an asynchronous disk | |
| `DiskScheduler` | task queue, worker loop, rings, shutdown | implements `AsyncIO` |
| `Transactions` | `BeginTransaction`, `Commit`, `Abort`, restamping, conflict and visibility rules | |
| `TableMvcc` | `Insert`, `Update`, `Delete`, `DeleteUndoRaw` and what `Select` returns | extends `Transactions` |
| `OptimisticLock` | the version lock of a page and its `Lock`/`Unlock` templates | |
| `IndexContents` | abstract specification: a set of entries | |
| `BLinkTree` | `Insert`, `InsertUnique`, `Delete`, `Get` of concurrent threads | implements `IndexContents`; rests on `OptimisticLock` |
| `IndexPage` | the slotted pages of both varlen layouts | extends `PrefixSums` |
| `TableLayouts` | PAX pages, data chunks, the free space counter, system table schemas, key encoding | extends `PrefixSums` |
| `PrefixSums` | the loops that add up key bytes and column sizes | |
| `Catalog` | every DDL call of `Catalog` and `DatabaseCatalog` | extends `Transactions`; uses the tree's `InsertUnique` as one step |
| `*Proofs` | theorems | extend their module; `TableMvccProofs` and `CatalogProofs` also extend `TransactionsProofs`; `LayoutsProofs` extends `IndexPage` and `TableLayouts` |
| `MC*` | the small sets the TLC configurations use; `MCLayouts` composes `IndexPage` and `TableLayouts` | extend their module |

### BufferPool

A frame is an entry of `id`, `ref`, `io`, `latch`, `versions` and `data` (class
`Page`); `map` is the page table, `sweep` the clock hand, `tasks` the reads at
the disk.  Bytes are abstracted to the page they belong to: `data[f]` is the
page whose bytes frame `f` holds.  A *session* (an element of `Threads`) runs
one `Pin` or `Reserve`, then `WaitIO`, uses the page and unpins it; `pc` says
where in the code it is:

| `pc` | place in the code |
|---|---|
| `lookup`, `visit`, `check`, `unvisit` | `Pin` on the fast path: page table, `PageVisit`, id test, give the pin back |
| `sweep`, `claimed`, `marked` | `GetVictim`: the clock, a latched victim, its new id and flag stored |
| `put`, `undo`, `evict`, `fetch` | insert the mapping; lose the race and restore the frame; delete the old mapping; queue the read (or clear the page for `Reserve`) |
| `wait`, `asleep`, `using` | `WaitIO` and the caller |

Every store to state that is read without the latch (`id_`, the IO flag, the
page table) is a step of its own.  The page table has 128 partition locks, but
each call touches a single key, so an operation on it is one atomic step
whatever the partition.  `dirtied` is history: the code records nothing about
changed bytes.  The clock is `SweepSize` long and the pool `PoolSize`, because
the code takes the hand modulo a compile-time constant.

### Transactions

`time` is the timestamp clock, `latch` the commit counter, and a transaction has
`state`, `start`, `commit`, `records` and `stamped` (how many of its undo
records carry the commit time already).  `Commit` is four kinds of steps: raise
the latch, take the commit time, restamp one record, lower the latch.
Timestamps are naturals below `TxnBit`, which plays the part of bit 63; the
clock stops there, as the code's would after 2^63 ticks.  An aborted
transaction keeps its records with their uncommitted timestamp, as in the code:
nothing is rolled back.

### TableMvcc

One page with up to `MaxRows` rows of one column.  A chain is the sequence of
its records, newest first.  A record is named by its transaction and number,
and the value it writes is its own name, so that every write is told apart.
`Update` and `Delete` run under the page's data lock in three steps (allocate
the record and lock; read the head and decide, for an update also write the
page; compare-and-swap), `DeleteUndoRaw` takes the same steps without the lock,
`Insert` is one step because nobody else knows the row before it ends.  `Select`
changes nothing and is a pair of operators, `ReadStatus` and `ReadValue`, that
the invariants evaluate in every state in which a reader could hold the lock.
`db` and `snap` are history: the committed contents, and those at the moment a
transaction took its start time.  The version array is there from the start;
in the code its creation is one latched step inside the first call.

### DiskScheduler and AsyncIO

A task is named by its frame, since a frame has at most one outstanding read
(`SignalIOAsserts`, proved of `BufferPool`).  A task is in the queue, in the
local array of `SubmitPending` (`batch`), among the prepared entries (`sq`),
with the kernel, or in the completion ring.  The queue is the vendored
`moodycamel::ConcurrentQueue`, used through its interface: no order between
producers, and a bulk dequeue may return less than there is.  `AsyncIO` says
what the pool relies on: a request is outstanding exactly while the frame's flag
is set.  It is what entitles `BufferPool` to have a read as a single
`CompleteRead` step.

### OptimisticLock

One page: its `seq`, who holds `rw_mtx` exclusively or shared, and a set of
words.  A writer takes the mutex, makes `seq` odd, writes words one at a time,
makes `seq` even and lets go.  A reader of the tree takes the version, reads
words one at a time and validates; after `MaxTries = 1` failed tries (`TlState`
counts them over a whole call) it takes the shared mutex.  A word holds the
stamp of the write it comes from.  Memory is sequentially consistent in the
model; the acquire fence in `Validate` is what the code has for that.

### BLinkTree and IndexContents

A key is `prefix * TidRange + tid`: the encoder appends the tuple id, so byte
order is this order and a call with tid 0 lands in front of its prefix.  A node
is its header (level, right link, high fence, heap use) and the set of its
slots.  `th[t]` is what a thread's call keeps: place, page, `TlState` path, key,
new child, pages latched, results.  A read between `Lock<Optimistic>` and a
successful `Unlock` is one step that needs the node unlatched; every write
latch, step to the right, insert, split, root creation and propagation is a
step.  A split and a new root need a page, of which there are `MaxPages`.  A
failed assertion of the code has no successor, so it shows as a deadlock.  `Dead` names the tuple ids that a uniqueness check may pass over
(deleted for good).  `must` and `may` are history for `GetComplete`.

Two places are undefined in the code.  `PropagateInsert` carries a key whose
buffer was freed (`btree.hpp:395`): the model lets the thread see any key of
`FreedReads` instead, and the runs set it to `{}`, that is, freed bytes read
back unchanged.  After a separator went into a leaf (finding 3) nothing more is
modelled, and the properties are stated for trees with consistent levels.

`IndexContents` is a set to which entries are added and from which they are
removed; `Entries`, the keys of all leaves, is the refinement mapping.

### IndexPage

One level of a tree as a chain of pages.  A page has `slots` (offsets in key
order), `heap` (offset to key), `top` (the heap offset) and `fence`.  Offsets,
alignments and the 16-bit arithmetic of `CalculateHeapOffset` are the code's;
keys are numbers with given lengths.  Searches are the code's binary search.
`Split` finds the split point by bytes, copies the right half (`AppendAll`: appends
in a row), and compacts the left half in place in the order of the offsets.
`MaxDeletes` bounds the deletes of a level.  A page without space and with fewer than
two tuples has no successor for that key: the assertion at the head of
`FindSplitPoint` fails there (`SplitHasTwoTuples`, finding 4); `SplitAsserts` is about
the calls that get past it.

### TableLayouts

`CalculateOffsets` and its row limit, the accessors of a chunk against the
layout that wrote it, the free space counter, the column types of the nine
system tables, and `BuildKey`.  A state is a list of column sizes or of key
types.  The key encoding is at radix `Radix` with two digits in place of bytes
and words; `Normalized` stands for the case folding of utf8proc.
Strings hold no byte 0: the encoder ends a string with one and does not check that
there is none inside (`key_encoder.hpp:37`), for VARBINARY either.

### Catalog

A call is a sequence of steps: take the DDL lock, insert a tuple, enter it into
an index, test existence, find a tuple to modify, delete it, map or unmap a
database.  `Steps` gives the sequence of each call in the order of the code, and
each step is an action, with its failure as another action that ends the call
without taking anything back.  Transactions begin, commit record by record and
abort between any two calls of their client, and other clients run between any
two steps.  `write_lock` is a timestamp, as in the code, and nothing resets it.
Clients stop using an aborted context, and rename or drop only objects whose oid
an earlier call returned (`Known`); what they do after a failed call is open.
`CreateDatabase` takes its oid first (`db_oid`), maps it, and inserts the entry
later.  `down` records that the process ended in the `throw;` of `CreateDatabase` or in
an assertion.

## 3. Runs

| Run | Instance | Shows |
|---|---|---|
| `BufferPoolSafety` | 3 sessions, 2 frames, 1 page on disk and 1 to reserve | exact pins, one owner per frame, the assertions of `SignalIO`, page table and frames agree, undone evictions leave the frame intact, `Reserve` never collides |
| `BufferPoolLive` | 2 sessions, as above, fair | IO flags are always cleared; whoever queued a read gets to use its page |
| `BufferPoolWrongPage` (violation) | 2 sessions, 2 frames, 2 disk pages | a visitor may use a frame that was given to another page |
| `BufferPoolLostWakeup` (violation) | fair | `UndoState` clears the flag and wakes nobody |
| `DiskScheduler` | 4 frames, budget 3, ring of 1, fair | one place per task, exact budget, clean shutdown, `AsyncIO` implemented, requests complete unless others arrive for ever |
| `TablePages` | 3 transactions of up to 2 records, 1 row, insert, update, delete, fair | atomic visibility, stable snapshots, conflict test and visibility agree; `Select` returns snapshot values with own writes on top; nothing is written over a delete; `BeginTransaction` returns |
| `TableMixed` | 3 transactions, 1 loaded row, update, delete, raw delete | first updater wins; no version is lost when a compare-and-swap fails |
| `BLinkTree` | 2 threads, 5 calls before and 5 calls in competition, leaves of 3 and inner nodes of 2, fair | searches find every entry, separators complete, `Get` complete, unique keys, `IndexContents` implemented, calls return |
| `BLinkTreeLevels` (violation) | the same | a separator of a leaf goes into a leaf |
| `Layouts` | leaf and inner levels, 7 keys of 2 lengths in pages of 128 bytes, 1 delete; tables of up to 4 columns and all system tables; 5 kinds of keys | tuples do not overlap, slots sorted, searches agree, split assertions; rows and chunks fit; byte order is row order |
| `EmptiedPage` (violation) | pages of 84 bytes, 4 keys, 3 deletes | a page whose keys were deleted is full and cannot be split |
| `Catalog` | 4 scenarios of 3 clients with up to 4 calls | unique names, existence means visible, successful calls are in all indexes |

**Bounds.**  Two frames and two pages are the least with which an eviction can
meet a visit of the old page, a load of the new one and a lost `Put`; a third
session is needed to hold a pin, or to claim, while two others race.  Sessions
start again from `idle`, so the pool runs without end.  Three transactions give
a reader, a committer in the middle of restamping and an older or aborted
writer; two records are the least of which half can be stamped, and let a
transaction write a row twice.  `TxnBit = 16` is above the six timestamps three
transactions use, so the clock's bound is never met.  In the
tree the last call of the load splits the root leaf, so the five competing calls
meet a split before its root is there, a leaf split inside one prefix, an inner
split and a root of level 2; `MaxPages` is above the number of pages they can use.
The header of 20 bytes, the two bytes or the child in front of a key and their
alignments are the code's.  Pages of 128 bytes hold four to six tuples, so the seven
keys split them at different points.  No tuple of the leaves is longer than the
header, so the unsigned difference in `CalculateHeapOffset` does not wrap; with longer
keys it does (section Findings).  One delete makes holes that a split has to compact;
three in the small pages of `EmptiedPage` fill one with what nobody can find.
`MaxRecords = 10` is more undo records than any
client of the catalog makes.  `AttnumRange` is the range of the SMALLINT key of
column numbers.  Four frames against a
budget of three and a ring of one make a batch return from the full ring with
more than one task while another waits in the queue.  Transactions and frames
are symmetric in runs of invariants only; no symmetry is used in a run with liveness.

**Deadlock** is checked for the buffer pool and the tree (whose model stutters
only when all calls have returned).  Transactions and catalog clients are
one-shot, the scheduler may be stopped and a level of pages runs out of keys, so
those systems do end and their runs switch the check off.

**Fairness.**  Sessions that are inside a call keep running and unpin what they
pinned (weak fairness of `Step`); the disk completes what it was given
(`Disk`); a commit or begin that has started keeps running (`CallStep`); the
scheduler's worker and the kernel keep running; a thread inside a call of the
tree keeps running, and the mutexes let everyone in.  Nothing is assumed about the
arrival of calls, about clients deciding to commit, or about spurious wakeups.
`BeginReturns` rests on there being finitely many transactions: an endless
stream of overlapping commits would keep the counter above zero.  In
`DiskScheduler` only weak fairness is assumed, of the worker and of the kernel, and
nothing about order: a producer's own tasks leave the queue first-in first-out, but
the token-less `try_dequeue_bulk` (`disk_scheduler.hpp:80`) scans the producers in a
fixed order, and tasks a full ring refuses go back to the end of the worker's own.
So a task can be overtaken for ever, and `RequestsComplete` says that only an endless
stream of other requests can do that.

### Findings

1. *Wrong page* (`buffer_pool.cpp:88`).  `GetVictim` looks at the pin count and
   stores the new id in two steps.  A visitor that pins in between compares
   against the old id, succeeds, and uses the frame while it is reloaded.
2. *Lost wakeup* (`buffer_pool.cpp:71`).  A visitor can find a claimed frame by
   its temporary id and sleep in `WaitIO`; `UndoState` clears the flag without a
   notification.
3. *Separator in a leaf* (`btree.hpp:293`).  A thread splits the root leaf and has
   not made the new root; another one splits the right half, finds that its leaf
   is not the root, descends from the root, which is still a leaf, and
   `PropagateInsert` puts the separator there.
4. *Emptied page* (`varlen_layout_leaf.hpp:182`).  `Delete` takes the slot and leaves
   the bytes; only a split gives them back.  When most keys of a full page are
   deleted, the next insert finds no space and splits a page with fewer than two
   tuples, which an assertion forbids.  One key inserted and deleted over and over is
   enough.

The line each contradicts is quoted in `PROJECT.json`.  Others need no run of
their own; they are listed as hazards or noted here:

* the clock hand is reduced by `BUFFER_POOL_PAGE_NUM` and not by the size of the
  pool (`SweepInPool` fails with `SweepSize = 3`, `PoolSize = 2`);
* changed pages are evicted without being written (`NoLostWrites` fails with one
  frame);
* `Select` takes the deleted flag from the newest version, whoever wrote it
  (`SnapshotStatus` fails with `Ops = {"insert", "raw"}`), although
  `specs/mvcc/mvcc.tla:284` has reads return what their snapshot had; its model has
  values and no deletes;
* an `Update` whose compare-and-swap loses to a raw delete is refused but leaves
  its value on the page (`table.cpp:49`); no caller mixes the two on a table;
* the separator carried upwards is read after its buffer was freed
  (`btree.hpp:395`);
* `HasSpace` subtracts in 16 bits (`varlen_layout_leaf.hpp:37`): for a key longer
  than header and slots the difference wraps, the page seems to have room, and the
  tuple goes behind its end (`NoOverlap` fails with pages of 8192 bytes and eleven
  keys of 800 bytes; the assertion allows 818);
* a string with a byte 0 in it breaks the order of encoded keys
  (`key_encoder.hpp:37`);
* `InternalGet` reads the right link after validating (`btree.hpp:437`): after a
  split in between it visits the new half too and returns its entries twice;
* the DDL lock is never free again for a later transaction
  (`database_catalog.cpp:24`), and `ExistsMeansVisible` holds only because of it:
  the mutant that lets others in violates it;
* `CreateTable` and its like return `INVALID_OID` as a success when the lock is
  taken (`database_catalog.cpp:207`); a rename that fails in its insert leaves the
  delete (`database_catalog.cpp:127`); `DeleteDatabase` unmaps before the commit
  (`catalog.cpp:70`); a failed entry in `CreateDatabase` ends the process with
  `throw;` outside a handler (`catalog.cpp:31`).

## 4. Proofs

Each theorem is for every value of the constants that satisfies the `ASSUME` of
its module: finitely many sessions or transactions, at least one frame, a positive
budget and ring, nodes that take two tuples, calls that are calls of the interface.
Where a theorem needs more, the hypothesis is in its statement and explained
below.  TLC finds the inductive invariants true on the instances of the runs
(`OptimisticLock` has no run).

**BufferPoolProofs.**  `PinAccounting` and `OneOwner` are not inductive alone.
`PoolInv` adds the values of locals at each location (`LocalsOK`), that a claimed
frame is latched (`ClaimsLatched`), that an owner finds its own id
(`OwnerHasItsId`) and flag (`LoadHasFlag`), and that a queued read has an owner
asleep or waiting (`TasksOwned`).  `GetVictim` claims only an unlatched frame
with count zero; the count is the number of holders, and an owner holds the
latch or a pin, so there is none.  Hence nobody but the owner changes id and
flag of a frame with a read in flight, which gives the assertions of `SignalIO`.
Theorems: `PoolInvAlways`, `TypeCorrect`, `PinAccountingAlways`,
`OneOwnerAlways`, `SignalIOAssertsAlways`.

The second half of the module is about which page is where.  `PagesInv` adds to
`PoolInv` what a session knows of its victim: it stays mapped to the claimed frame,
and nothing else is, until the session's own `Put` and `Delete` (`VictimMapped`);
its bytes and version array stay in the frame until then (`VictimIntact`), so
`UndoState` gives back an intact frame; what was fetched is in the frame or its
read is still queued (`BytesOnTheWay`).  `Reserve` hands out new ids, which nobody
can ask for before it returns (`ReservedAlone`).  All of it rests on `OneOwner`: id,
bytes and mapping of a frame are changed by its owner only.  Theorems:
`PagesInvAlways`, `PageTableConsistentAlways`, `FrameHoldsItsPageAlways`,
`FetcherUsesItsPageAlways`, `ReserveNeverCollidesAlways`.

**TransactionsProofs.**  `IInv` consists of types, `LatchCounts`, `Clock` (all
timestamps handed out are below the clock), `StartsDiffer`, `Stamps` (how far
restamping is in each state) and `Barrier`: a commit that is still restamping
has a commit time above the start time of every transaction that got past the
latch.  `Barrier` is the reason why rewriting timestamps one by one is invisible.
Theorems: `IInvAlways`, `TxnTypeCorrect`, `LatchCountsAlways`,
`AtomicVisibilityAlways`, `NoConflictIffSeenAlways`, `SnapshotStableAlways`.  They are
about `TxnSpec`, in which a record is written at any moment; the run checks them on
the tables, and `TableImplementsTransactions` below carries the theorems there.

**TableMvccProofs.**  `TableImplementsTransactions` first: a step of a table call is
a step of `Transactions`, so `IInv` holds here too.  `ChainInv` then says that a
chain is ordered (`Ordered`: two records in it are of one transaction, or the
older one was committed before the newer one's transaction began), that it
holds exactly the records whose call went through (`LinkedRecords`,
`SuccessLinked`), and that what a call read at the head still allows it to write as
long as the head is the same (`SeenWritable`), which is why a compare-and-swap is
enough without the lock.  From it follow `FirstUpdaterWinsAlways` and
`NoLostVersionAlways`, raw deletes included.  `HistoryInv` expresses the
committed contents and every snapshot by the chains.  `PageInv` is about the page:
it holds the newest version, each before-image is the value of the next older
version (`Images`), an insert is at the bottom, nothing is above a delete.
`PageInvAlways`, `DeleteIsFinalAlways` and `SnapshotValuesAlways` assume
`"raw" \notin Ops`, as the run `TablePages` does: `DeleteUndoRaw` neither takes the
data lock nor marks the page, and with it they are false (section 3); no caller
mixes it with the others on one table.  `SnapshotValuesAlways` walks a chain as
`Select` does: the walk stops at the newest record the reader sees, and the last
image it passed is that record's value.

**CatalogProofs.**  `CatalogAssumption` says that clients make calls of the interface
with the arguments these need.  `CatalogInv` has three parts besides types.  (1) The
steps that remain of a call enter every tuple it inserts in every index of the
tuple's table (`PlansOK`, `EnteredSoFar`), hence `IndexesCompleteAlways`.  (2) Of two
tuples in a unique index under one key, one was entered when the deletion of the other
was in its snapshot (`KeysReplaced`): `InsertUnique` lets it in only then.  Whoever
sees the newer tuple sees that deletion, hence `UniqueNamesAlways`.  (3) Nothing
rewrites `write_lock_`, so it stays with its first taker (`LockOK`); until that
transaction has committed, all namespaces and classes are its own (`SharedOwned`),
and a rename, which takes no lock, finds its object only afterwards (`Guarded`).
So whoever gets to an existence check holds the lock or comes after the holder's
commit, and what exists is visible to it: `ExistsMeansVisibleAlways`.  This is the
reason, and a fragile one: it holds because the lock is never released.

**DiskSchedulerProofs.**  `SchedInv` adds to types, `TaskInOnePlace` and
`InflightExact` that the sets of tasks are finite, that the dequeued batch fits
the budget (`Budget`) and what each place of the worker implies (`Phases`: no
batch and no unsubmitted entry outside `SubmitPending`, nothing in flight after
`Run`).  Theorems: `SchedInvAlways`, `SchedTypeCorrect`,
`TaskInOnePlaceAlways`, `InflightExactAlways`, `DrainedAtExitAlways`, and
`SchedulerImplementsAsyncIO`, the refinement: only `Enqueue` starts a request,
only `ReapOne` ends one, all other steps stutter.

**OptimisticLockProofs.**  For any threads and words.  `LockInv` adds to the types
who is in the mutex at each place and that `seq` is odd exactly while a writer
writes (`LockHeld`), that all words carry the stamp `seq` when it is even and the
old or the new one while it is odd (`Stamps`), and that what an optimistic reader
has seen carries its version as long as `seq` still has it (`ReadsMatch`).  A
write of a word needs `seq` odd, a successful validation needs it even and equal
to the reader's, so all the words read are of one stamp.  Theorems:
`ValidatedReadsNotTorn`, `WritersExclusive`.  There is no run for this module: it
has no bound worth choosing, and the theorems cover all of them.

**BLinkTreeProofs.**  For any threads, calls and capacities.  The invariant is about
a value no page keeps: the *low fence* of a page is the high fence of its left
sibling, and no step ever changes it, since a split moves the upper half of a node
to a new page.  With it a node covers an interval of keys, the intervals of a level
are disjoint, a separator is the low fence of its child, and a thread at a page may
have gone too far left but never too far right (`TreeInv`).  Theorems:

* `TreeInvAlways`: `TreeInv` holds as long as levels are consistent;
* `ImplementsContentsAlways`: the refinement of `IndexContents`.  Steps other than
  those of `Insert`, `Delete` and the split that makes room stutter;
* `SeparatorsCompleteAlways`, from `CarryInv`: every page but the root hangs under a
  separator or is carried by exactly one thread;
* `GetCompleteAlways`, from `GetInv`: an entry that was there all the time and is
  not collected yet lies at or to the right of the page the `Get` is at;
* `UniqueKeysAlways`, from `CheckedInv`: an `InsertUnique` holds the latches of all
  the leaves of its prefix that it has checked, and none of them has a live entry;
* `SearchFindsEntryAlways`: from the page a search is at, the search ends at the
  leaf that covers its key.  That a walk ends at all is shown by a least
  counterexample (the set of the steps at which it had not ended has a smallest
  member) and by counting: the pages of an unfinished walk all differ, so there are
  fewer of them than pages.

Three hypotheses.  `FreedReads = {}`: freed bytes read back unchanged, as in the
runs; when a thread may read any key there instead, its separator is arbitrary and
nothing holds.  `LevelConsistency` is part of `SearchFindsEntry` and
`SeparatorsComplete` and is the premise of `UniqueKeysAlways`: after finding 3 a
separator in a leaf looks like an entry of its prefix.  `GetCompleteAlways` and
`ImplementsContentsAlways` also cover the step that breaks the levels.
`UniquePrefixes`, for `UniqueKeysAlways` only: a plain `Insert` on a prefix that some
call inserts as unique is of a deleted row, because in a unique index all inserts
go through `InsertUnique`.

**LayoutsProofs.**  The loops of the layouts are recursive functions.  `LoopRuns` shows
that such a function exists and obeys its recursion, and `StepByStep` that what holds
at 0 and from each round to the next holds at the end: the least round at which it
fails would have a predecessor at which it holds.  With these two:

* `PagesHoldRowsAlways`: each column starts at most its size less one behind the end
  of the one before, so the padding is at most `WorstCasePad`, which `MaxRowCount`
  has set aside; a row of a chunk costs the free space manager more than it takes
  from a page.  The last part needs a hypothesis, `MaxColumns <= 72`: wide tables have
  so few rows on a page that the two counts meet (4 and 4 for 87 columns of 16
  bytes).  The widest system table has 22 columns;
* `ChunksWellFormedAlways` and `KeyOrderAlways`, for any number of columns, any radix
  and any length of strings.  No encoding of a value is a prefix of that of another
  (`EncodeString` ends with a zero, and strings of the model hold none), so the first difference
  decides also when encodings are put together without separators;
* `NoOverlapAlways`, `LevelSortedAlways`, `SplitAssertsAlways` and
  `LookupsAgreeAlways`, from the invariant `LevelInv`.  Of a page it says (`PageOK`) that
  its tuples are apart and above `top`, that the heap holds no more than one tuple for
  each slot, for the fence and for each delete so far (deletes leave their bytes
  behind), and that the slots are sorted below the fence; of a level, that inner
  levels see no deletes, that the fences grow and that a page of an inner level holds
  the separator it hangs under.
  When a page is split with many slots, `FindSplitPoint`, which balances key bytes,
  leaves on either side tuples worth more than the new one, so each half can take it;
  with few slots, because deletes have thinned it out, either half is a page that is
  nearly empty.
  `Packing` is the argument for the compaction in place: the tuples above an offset
  fit between it and the end of the page because they do not overlap, so none
  moves down.

The four about index pages assume `Roomy`.  `MaxTuple`, `MinLength` and `FullCount`, which
only this module declares, bound tuples and keys from above and below and say when a
page is full; `Roomy` says that a page takes `FullCount` tuples, that header and
`FullCount` slots are longer than a tuple, and that the keys of a full page are worth
six tuples (or a half might not take the new one).  It is what the assertions of
`Split` silently rely on.  Its last part, `NoWrap`, keeps the 16-bit difference from
wrapping (see Findings): either no tuple of a leaf is longer than the header, which the
heap cannot reach, and deletes are without bound, or there is room for the tuples of
`MaxDeletes` deleted keys besides.  Two lemmas show that it can be met by pages of 8192
bytes: `RoomyPages` for keys of 9 to 18 bytes and any number of deletes,
`RoomyLongKeys` for keys of 9 to 69 bytes and 38 deletes in a level.
`SplitAssertsAlways` is about pages with two tuples or more, as `SplitAsserts` is; that
there are two is not a theorem but finding 4.  The run has keys that are long for their
pages, which `Roomy` excludes, so run and theorems cover different instances.

**Only model-checked**, and why:

* liveness (`CallsReturn` and the liveness of the pool, the scheduler and
  `BeginTransaction`): the prover does not handle fairness;
* the four runs that expect a violation, which are facts about one behaviour.

`LatchCounts`, `TxnTypeOK`, `TableTypeOK` and the theorems of `OptimisticLock` are
proved and in no run; `TypeOK` of `BLinkTree` documents the variables.

## 5. Not modelled

* *Table files and the descriptor cache*: system calls.  The races of `ExtendFile`
  and `DropTable` are real, but nothing calls either.
* *Undo and redo segments, the object pool*: the transactions count records; the
  byte stride of the iterator (`undo_buffer.hpp:156`) is a hazard without a model.
  The redo buffer is written and never read.
* *Pins inside the tree*: `BLinkTree` does not hold frames, so the pin that
  `DropToLevel` leaves behind (`btree.hpp:230`) is a hazard without a model.
* *The free space counters under concurrent inserts*, and the NULL byte and the
  maximal length of encoded keys.
* *Select of the catalog, printing, error texts, the demonstration program and
  vendored containers*: no state of the engine.

There is no logging to disk, write-back or recovery in the code, so there are no
crash models.  Memory orderings are not modelled.

## 6. Plan

1. Pins in `BLinkTree`, over the pool's `OneOwner`.
2. Undo segments and their iterator, whose stride is a hazard without a model.
3. `NoOverlap` for long keys and deletes without bound, once the code's difference in
   `HasSpace` no longer wraps.
