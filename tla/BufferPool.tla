----------------------------- MODULE BufferPool -----------------------------
(***************************************************************************)
(* The buffer pool: frames, the partitioned page table, the clock sweep,   *)
(* and the calls Pin, Unpin and Reserve, interleaved at the granularity of *)
(* the atomics and latches of the code.                                    *)
(*                                                                         *)
(* A "thread" is one pin session: it obtains one frame, waits for its      *)
(* read, uses the bytes and unpins.  Steps that touch only ref_count_ are  *)
(* joined to their neighbours where the counter is read only by holders of *)
(* the latch; id_, the IO flag and the page table are read without the     *)
(* latch, so each write of theirs is a step of its own.                    *)
(***************************************************************************)
EXTENDS Integers, FiniteSets

CONSTANTS
  Threads,    \* the pin sessions that run concurrently
  PoolSize,   \* pool_size_: the number of frames the constructor allocates
  SweepSize,  \* BUFFER_POOL_PAGE_NUM: the modulus of the clock hand
  DiskPages,  \* pages 1..DiskPages exist in the table files from the start
  MaxPid      \* bound: Reserve hands out page ids up to this one

ASSUME BufferPoolAssumption ==
  /\ IsFiniteSet(Threads)
  /\ PoolSize \in Nat \ {0}
  /\ SweepSize \in Nat \ {0}
  /\ DiskPages \in Nat
  /\ MaxPid \in Nat
  /\ DiskPages <= MaxPid

Frames  == 0 .. PoolSize - 1
Pages   == 1 .. MaxPid
NoPage  == 0      \* PageIdentifier{0}
NoFrame == -1     \* UINT32_MAX

VARIABLES
  \* one entry per frame (class Page)
  id,        \* id_
  ref,       \* ref_count_
  io,        \* IO_IN_PROGRESS_FLAG
  latch,     \* latch_ is held
  versions,  \* versions_: the page whose version array is attached
  data,      \* the page whose bytes data_ holds
  dirtied,   \* frames whose bytes were changed since they were filled
  \* the pool
  map,       \* partition_maps_: page -> frame
  sweep,     \* sweep_head_ modulo BUFFER_POOL_PAGE_NUM
  nextPid,   \* FreeSpaceManagerIndex: the next page id of the index file
  tasks,     \* READ tasks enqueued at the disk scheduler, not yet completed
  \* the locals of each session
  pc,        \* where it is
  want,      \* id
  frame,     \* page, victim_frame_idx
  victim,    \* victim_page_id
  found,     \* new_frame_idx
  mode       \* how the pin is being obtained

frameVars  == <<id, ref, io, latch, versions, data, dirtied>>
poolVars   == <<map, sweep, nextPid, tasks>>
threadVars == <<pc, want, frame, victim, found, mode>>
vars       == <<frameVars, poolVars, threadVars>>

Locations ==
  {"idle", "lookup", "visit", "check", "unvisit", "sweep", "claimed",
   "marked", "put", "undo", "evict", "fetch", "wait", "asleep", "using"}

\* "visit": the fast path; "revisit": the visit after a failed Put;
\* "load": GetVictim with isIO; "reserve": GetVictim without.
Modes == {"none", "visit", "revisit", "load", "reserve"}

\* Every variable has its type; ref_count_ is a natural number.
TypeOK ==
  /\ id       \in [Frames -> Pages \cup {NoPage}]
  /\ ref      \in [Frames -> Nat]
  /\ io       \in [Frames -> BOOLEAN]
  /\ latch    \in [Frames -> BOOLEAN]
  /\ versions \in [Frames -> Pages \cup {NoPage}]
  /\ data     \in [Frames -> Pages \cup {NoPage}]
  /\ dirtied  \in SUBSET Frames
  /\ map      \in [Pages -> Frames \cup {NoFrame}]
  /\ sweep    \in 0 .. SweepSize - 1
  /\ nextPid  \in 1 .. MaxPid + 1
  /\ tasks    \in SUBSET (Frames \X Pages)
  /\ pc       \in [Threads -> Locations]
  /\ want     \in [Threads -> Pages \cup {NoPage}]
  /\ frame    \in [Threads -> Frames \cup {NoFrame}]
  /\ victim   \in [Threads -> Pages \cup {NoPage}]
  /\ found    \in [Threads -> Frames \cup {NoFrame}]
  /\ mode     \in [Threads -> Modes]

(* BufferPool::BufferPool *)
Init ==
  /\ id       = [f \in Frames |-> NoPage]
  /\ ref      = [f \in Frames |-> 0]
  /\ io       = [f \in Frames |-> FALSE]
  /\ latch    = [f \in Frames |-> FALSE]
  /\ versions = [f \in Frames |-> NoPage]
  /\ data     = [f \in Frames |-> NoPage]
  /\ dirtied  = {}
  /\ map      = [p \in Pages |-> NoFrame]
  /\ sweep    = 0
  /\ nextPid  = DiskPages + 1
  /\ tasks    = {}
  /\ pc       = [t \in Threads |-> "idle"]
  /\ want     = [t \in Threads |-> NoPage]
  /\ frame    = [t \in Threads |-> NoFrame]
  /\ victim   = [t \in Threads |-> NoPage]
  /\ found    = [t \in Threads |-> NoFrame]
  /\ mode     = [t \in Threads |-> "none"]

Goto(t, from, to) ==
  /\ pc[t] = from
  /\ pc'   = [pc EXCEPT ![t] = to]

\* Mutant: the pin count is not looked at.
IsEvictableIfIdle(f) == ~io[f]

\* Page::IsEvictable, evaluated with the latch held.  DIRTY_FLAG is not
\* part of the state: no code sets it.
IsEvictable(f) == ref[f] = 0 /\ ~io[f]

\* A page id is known to callers once its Reserve has returned.
BeingReserved(p) ==
  \E t \in Threads :
    mode[t] = "reserve" /\ want[t] = p /\ pc[t] # "using"

Known(p) == p < nextPid /\ ~BeingReserved(p)

-----------------------------------------------------------------------------
(* Pin *)

PinStart(t, p) ==
  /\ Goto(t, "idle", "lookup")
  /\ Known(p)
  /\ want' = [want EXCEPT ![t] = p]
  /\ UNCHANGED <<frameVars, poolVars, frame, victim, found, mode>>

\* partitions_.Get(id, partIdx) under the partition's read lock.
Lookup(t) ==
  /\ pc[t] = "lookup"
  /\ \/ /\ map[want[t]] # NoFrame
        /\ frame' = [frame EXCEPT ![t] = map[want[t]]]
        /\ mode'  = [mode EXCEPT ![t] = "visit"]
        /\ pc'    = [pc EXCEPT ![t] = "visit"]
     \/ /\ map[want[t]] = NoFrame
        /\ frame' = [frame EXCEPT ![t] = NoFrame]
        /\ mode'  = [mode EXCEPT ![t] = "load"]
        /\ pc'    = [pc EXCEPT ![t] = "sweep"]
  /\ UNCHANGED <<frameVars, poolVars, want, victim, found>>

\* PageVisit, first half: the optimistic pin.
VisitPin(t) ==
  /\ Goto(t, "visit", "check")
  /\ ref' = [ref EXCEPT ![frame[t]] = @ + 1]
  /\ UNCHANGED <<id, io, latch, versions, data, dirtied, poolVars,
                 want, frame, victim, found, mode>>

\* PageVisit, second half: the comparison decides whether Pin returns.
VisitCheck(t) ==
  /\ pc[t] = "check"
  /\ pc' = [pc EXCEPT ![t] = IF id[frame[t]] = want[t] THEN "wait" ELSE "unvisit"]
  /\ UNCHANGED <<frameVars, poolVars, want, frame, victim, found, mode>>

\* Mutant: a failed visit keeps its pin.
VisitKeepsPin(t) ==
  /\ Goto(t, "unvisit", "sweep")
  /\ mode' = [mode EXCEPT ![t] = "load"]
  /\ frame' = [frame EXCEPT ![t] = NoFrame]
  /\ UNCHANGED <<frameVars, poolVars, want, victim, found>>

\* A failed first visit goes on to GetVictim, a failed revisit to the lookup.
VisitUnpin(t) ==
  /\ pc[t] = "unvisit"
  /\ ref' = [ref EXCEPT ![frame[t]] = @ - 1]
  /\ frame' = [frame EXCEPT ![t] = NoFrame]
  /\ \/ /\ mode[t] = "visit"
        /\ mode' = [mode EXCEPT ![t] = "load"]
        /\ pc'   = [pc EXCEPT ![t] = "sweep"]
     \/ /\ mode[t] = "revisit"
        /\ mode' = [mode EXCEPT ![t] = "none"]
        /\ pc'   = [pc EXCEPT ![t] = "lookup"]
  /\ UNCHANGED <<id, io, latch, versions, data, dirtied, poolVars,
                 want, victim, found>>

(* GetVictim *)

\* Mutant: the hand is not wrapped.
AdvanceUnwrapped == sweep' = sweep + 1

AdvanceSweep == sweep' = (sweep + 1) % SweepSize

\* TryWLock succeeds and the frame is evictable: the latch stays held and
\* the page that loses its frame is noted.
ClaimVictim(t) ==
  /\ Goto(t, "sweep", "claimed")
  /\ sweep \in Frames
  /\ ~latch[sweep]
  /\ IsEvictable(sweep)
  /\ latch'  = [latch EXCEPT ![sweep] = TRUE]
  /\ frame'  = [frame EXCEPT ![t] = sweep]
  /\ victim' = [victim EXCEPT ![t] = id[sweep]]
  /\ AdvanceSweep
  /\ UNCHANGED <<id, ref, io, versions, data, dirtied, map, nextPid, tasks,
                 want, found, mode>>

\* TryWLock fails, or it succeeds and the frame is in use: next frame.  TryWLock
\* also fails while another sweeper holds the latch just to look at the frame.
\* There is no step for a clock hand outside pages_: reading there is
\* undefined, and SweepInPool reports it.
SkipFrame(t) ==
  /\ pc[t] = "sweep"
  /\ sweep \in Frames
  /\ \/ latch[sweep] \/ ~IsEvictable(sweep)
     \/ \E u \in Threads \ {t} : pc[u] = "sweep"
  /\ AdvanceSweep
  /\ UNCHANGED <<frameVars, map, nextPid, tasks, threadVars>>

MarkVictim(t) ==
  /\ Goto(t, "claimed", "marked")
  /\ id' = [id EXCEPT ![frame[t]] = want[t]]
  /\ UNCHANGED <<ref, io, latch, versions, data, dirtied, poolVars,
                 want, frame, victim, found, mode>>

\* Mutant: the IO flag is set for Reserve, which queues no read.
ReleaseWithIO(t) ==
  /\ Goto(t, "marked", "put")
  /\ ref'   = [ref EXCEPT ![frame[t]] = @ + 1]
  /\ io'    = [io EXCEPT ![frame[t]] = TRUE]
  /\ latch' = [latch EXCEPT ![frame[t]] = FALSE]
  /\ UNCHANGED <<id, versions, data, dirtied, poolVars,
                 want, frame, victim, found, mode>>

\* Pin, SetIOInProgress if isIO, WUnlock.
ReleaseVictim(t) ==
  /\ Goto(t, "marked", "put")
  /\ ref'   = [ref EXCEPT ![frame[t]] = @ + 1]
  /\ io'    = [io EXCEPT ![frame[t]] = (mode[t] = "load")]
  /\ latch' = [latch EXCEPT ![frame[t]] = FALSE]
  /\ UNCHANGED <<id, versions, data, dirtied, poolVars,
                 want, frame, victim, found, mode>>

(* Back in Pin or Reserve *)

\* partitions_.Put(id, victim_frame_idx, new_frame_idx, partIdx)
PutInserted(t) ==
  /\ Goto(t, "put", "evict")
  /\ map[want[t]] = NoFrame
  /\ map' = [map EXCEPT ![want[t]] = frame[t]]
  /\ UNCHANGED <<frameVars, sweep, nextPid, tasks,
                 want, frame, victim, found, mode>>

\* Another session inserted the page first.  In Reserve this is
\* DB7_UNREACHABLE (see ReserveNeverCollides).
PutExisting(t) ==
  /\ Goto(t, "put", "undo")
  /\ mode[t] = "load"
  /\ map[want[t]] # NoFrame
  /\ found' = [found EXCEPT ![t] = map[want[t]]]
  /\ UNCHANGED <<frameVars, poolVars, want, frame, victim, mode>>

\* Mutant: UndoState after page has been set to the frame that Put reported.
UndoFound(t) ==
  /\ Goto(t, "undo", "visit")
  /\ ~latch[found[t]]
  /\ ref' = [ref EXCEPT ![found[t]] = @ - 1]
  /\ id'  = [id EXCEPT ![found[t]] = victim[t]]
  /\ io'  = [io EXCEPT ![found[t]] = FALSE]
  /\ frame' = [frame EXCEPT ![t] = found[t]]
  /\ mode'  = [mode EXCEPT ![t] = "revisit"]
  /\ UNCHANGED <<latch, versions, data, dirtied, poolVars, want, victim, found>>

\* UndoState, under the latch and without a notification; then PageVisit of
\* the frame that Put reported.
UndoState(t) ==
  /\ Goto(t, "undo", "visit")
  /\ ~latch[frame[t]]
  /\ ref' = [ref EXCEPT ![frame[t]] = @ - 1]
  /\ id'  = [id EXCEPT ![frame[t]] = victim[t]]
  /\ io'  = [io EXCEPT ![frame[t]] = FALSE]
  /\ victim' = [victim EXCEPT ![t] = NoPage]
  /\ frame'  = [frame EXCEPT ![t] = found[t]]
  /\ found'  = [found EXCEPT ![t] = NoFrame]
  /\ mode'   = [mode EXCEPT ![t] = "revisit"]
  /\ UNCHANGED <<latch, versions, data, dirtied, poolVars, want>>

\* Mutant: the page just inserted is deleted, not the victim.
DeleteWanted(t) ==
  /\ Goto(t, "evict", "fetch")
  /\ map' = [map EXCEPT ![want[t]] = NoFrame]
  /\ victim' = [victim EXCEPT ![t] = NoPage]
  /\ UNCHANGED <<frameVars, sweep, nextPid, tasks, want, frame, found, mode>>

\* partitions_.Delete(victim_page_id, victim_frame_idx, partIdx)
DeleteVictim(t) ==
  /\ Goto(t, "evict", "fetch")
  /\ map' = [p \in Pages |->
               IF p = victim[t] /\ map[p] = frame[t] THEN NoFrame ELSE map[p]]
  /\ victim' = [victim EXCEPT ![t] = NoPage]
  /\ UNCHANGED <<frameVars, sweep, nextPid, tasks, want, frame, found, mode>>

\* Mutant: the frame keeps the version array of the page it evicted.
EnqueueOldVersions(t) ==
  /\ Goto(t, "fetch", "wait")
  /\ mode[t] = "load"
  /\ tasks' = tasks \cup {<<frame[t], want[t]>>}
  /\ UNCHANGED <<frameVars, map, sweep, nextPid, want, frame, victim, found, mode>>

\* SetVersions(version_table_->Get(id)) and Enqueue of the READ task.
EnqueueRead(t) ==
  /\ Goto(t, "fetch", "wait")
  /\ mode[t] = "load"
  /\ versions' = [versions EXCEPT ![frame[t]] = want[t]]
  /\ tasks'    = tasks \cup {<<frame[t], want[t]>>}
  /\ UNCHANGED <<id, ref, io, latch, data, dirtied, map, sweep, nextPid,
                 want, frame, victim, found, mode>>

(* Reserve *)

\* Mutant: two calls may read the same page counter.
ReserveSamePid(t) ==
  /\ Goto(t, "idle", "sweep")
  /\ nextPid \in Pages
  /\ want' = [want EXCEPT ![t] = nextPid]
  /\ mode' = [mode EXCEPT ![t] = "reserve"]
  /\ UNCHANGED <<frameVars, poolVars, frame, victim, found>>

ReserveStart(t) ==
  /\ Goto(t, "idle", "sweep")
  /\ nextPid \in Pages
  /\ want'    = [want EXCEPT ![t] = nextPid]
  /\ mode'    = [mode EXCEPT ![t] = "reserve"]
  /\ nextPid' = nextPid + 1
  /\ UNCHANGED <<frameVars, map, sweep, tasks, frame, victim, found>>

\* memset of the frame; the caller uses the page without WaitIO.
ZeroPage(t) ==
  /\ Goto(t, "fetch", "using")
  /\ mode[t] = "reserve"
  /\ data'    = [data EXCEPT ![frame[t]] = want[t]]
  /\ dirtied' = dirtied \ {frame[t]}
  /\ UNCHANGED <<id, ref, io, latch, versions, poolVars,
                 want, frame, victim, found, mode>>

-----------------------------------------------------------------------------
(* The caller: WaitIO, use, Unpin *)

\* Mutant: the caller does not wait.
ReturnAtOnce(t) ==
  /\ Goto(t, "wait", "using")
  /\ UNCHANGED <<frameVars, poolVars, want, frame, victim, found, mode>>

\* The flag is clear, seen with or without the latch: WaitIO returns.
WaitIOReturn(t) ==
  /\ Goto(t, "wait", "using")
  /\ ~io[frame[t]]
  /\ UNCHANGED <<frameVars, poolVars, want, frame, victim, found, mode>>

\* The flag is set, seen with the latch held: io_cv_.wait.
WaitIOSleep(t) ==
  /\ Goto(t, "wait", "asleep")
  /\ ~latch[frame[t]]
  /\ io[frame[t]]
  /\ UNCHANGED <<frameVars, poolVars, want, frame, victim, found, mode>>

\* io_cv_.wait may wake without a notification; its predicate is then
\* evaluated again.
SpuriousWake(t) ==
  /\ Goto(t, "asleep", "wait")
  /\ UNCHANGED <<frameVars, poolVars, want, frame, victim, found, mode>>

\* The bytes are changed under the page's data lock (Table::Insert, Update,
\* Delete and the tree's node edits).
WriteBytes(t) ==
  /\ pc[t] = "using"
  /\ dirtied' = dirtied \cup {frame[t]}
  /\ UNCHANGED <<id, ref, io, latch, versions, data, poolVars, threadVars>>

\* BufferPool::Unpin ignores its dirty argument.
Unpin(t) ==
  /\ Goto(t, "using", "idle")
  /\ ref'   = [ref EXCEPT ![frame[t]] = @ - 1]
  /\ want'  = [want EXCEPT ![t] = NoPage]
  /\ frame' = [frame EXCEPT ![t] = NoFrame]
  /\ mode'  = [mode EXCEPT ![t] = "none"]
  /\ UNCHANGED <<id, io, latch, versions, data, dirtied, poolVars,
                 victim, found>>

\* Mutant: the completion clears the flag and notifies nobody.
CompleteSilently(f, p) ==
  /\ <<f, p>> \in tasks
  /\ ~latch[f]
  /\ data'    = [data EXCEPT ![f] = p]
  /\ dirtied' = dirtied \ {f}
  /\ io'      = [io EXCEPT ![f] = FALSE]
  /\ tasks'   = tasks \ {<<f, p>>}
  /\ UNCHANGED <<id, ref, latch, versions, map, sweep, nextPid, threadVars>>

\* The disk fills the frame and the completion callback runs SignalIO: the
\* flag is cleared under the latch and every sleeper is notified.
CompleteRead(f, p) ==
  /\ <<f, p>> \in tasks
  /\ ~latch[f]
  /\ data'    = [data EXCEPT ![f] = p]
  /\ dirtied' = dirtied \ {f}
  /\ io'      = [io EXCEPT ![f] = FALSE]
  /\ tasks'   = tasks \ {<<f, p>>}
  /\ pc'      = [t \in Threads |->
                   IF pc[t] = "asleep" /\ frame[t] = f THEN "wait" ELSE pc[t]]
  /\ UNCHANGED <<id, ref, latch, versions, map, sweep, nextPid,
                 want, frame, victim, found, mode>>

-----------------------------------------------------------------------------
\* The steps of a call that has begun.
Step(t) ==
  \/ Lookup(t) \/ VisitPin(t) \/ VisitCheck(t) \/ VisitUnpin(t)
  \/ ClaimVictim(t) \/ SkipFrame(t) \/ MarkVictim(t) \/ ReleaseVictim(t)
  \/ PutInserted(t) \/ PutExisting(t) \/ UndoState(t) \/ DeleteVictim(t)
  \/ EnqueueRead(t) \/ ZeroPage(t)
  \/ WaitIOReturn(t) \/ WaitIOSleep(t) \/ Unpin(t)

Disk(f) == \E p \in Pages : CompleteRead(f, p)

Next ==
  \/ \E t \in Threads : \E p \in Pages : PinStart(t, p)
  \/ \E t \in Threads : ReserveStart(t)
  \/ \E t \in Threads : Step(t)
  \/ \E t \in Threads : WriteBytes(t)
  \/ \E t \in Threads : SpuriousWake(t)
  \/ \E f \in Frames : Disk(f)

Spec == Init /\ [][Next]_vars

\* Threads keep running, callers unpin what they pinned, and the disk
\* scheduler completes every read it was given.  Nothing is assumed of the
\* arrival of calls, of writes or of spurious wakeups.
FairSpec ==
  /\ Spec
  /\ \A t \in Threads : WF_vars(Step(t))
  /\ \A f \in Frames : WF_vars(Disk(f))

-----------------------------------------------------------------------------
(* Properties *)

PinLocations ==
  {"check", "unvisit", "put", "undo", "evict", "fetch", "wait", "asleep", "using"}

Holders(f) == {t \in Threads : frame[t] = f /\ pc[t] \in PinLocations}

\* Between the claim by GetVictim and the start of the read (or the memset).
EvictLocations == {"claimed", "marked", "put", "undo", "evict", "fetch"}

Evicting(t, f) == frame[t] = f /\ pc[t] \in EvictLocations

\* The reference count of a frame is the number of sessions that hold a pin
\* on it: no path through PageVisit, GetVictim, UndoState and Unpin leaks a
\* pin or drops one twice, so ref_count_ (unsigned) never wraps below zero.
PinAccounting == \A f \in Frames : ref[f] = Cardinality(Holders(f))

\* The session that brought a page into the frame, until it unpins.
Owning(t, f) ==
  /\ frame[t] = f
  /\ mode[t] \in {"load", "reserve"}
  /\ pc[t] \in EvictLocations \cup {"wait", "asleep", "using"}

\* A frame has one owner at a time: from the claim in GetVictim, through the
\* read, until the owner unpins, no second session claims the frame, although
\* others may pin and unpin it meanwhile without the latch.
OneOwner ==
  \A f \in Frames : \A t, u \in Threads :
    Owning(t, f) /\ Owning(u, f) => t = u

\* The assertions of Page::SignalIO hold when the completion of a read runs:
\* the IO flag is set and the frame pinned; besides, the frame still carries
\* the page that was read and no second read of it is outstanding.
SignalIOAsserts ==
  \A task \in tasks :
    /\ io[task[1]]
    /\ ref[task[1]] > 0
    /\ id[task[1]] = task[2]
    /\ \A other \in tasks : other[1] = task[1] => other = task

\* The page table and the frames agree, except for what an eviction in
\* progress explains: a mapping leads to a frame with that page unless the
\* page is the victim of a session that has yet to delete the mapping or to
\* undo; and a frame's page is mapped to it unless its Put is still to come
\* or failed.  So no page is ever resident twice.
PageTableConsistent ==
  /\ \A p \in Pages : map[p] # NoFrame =>
       \/ id[map[p]] = p
       \/ \E t \in Threads : /\ frame[t] = map[p]
                            /\ victim[t] = p
                            /\ pc[t] \in {"marked", "put", "undo", "evict"}
  /\ \A f \in Frames : id[f] # NoPage =>
       \/ map[id[f]] = f
       \/ \E t \in Threads : /\ frame[t] = f
                            /\ want[t] = id[f]
                            /\ pc[t] \in {"marked", "put", "undo"}

\* No eviction and no read is in progress on the frame.
Settled(f) == ~io[f] /\ \A t \in Threads : ~Evicting(t, f)

\* A settled frame holds the bytes of the page in its id_, and (if the page
\* came from a table file) that page's version array: a Pin whose Put fails
\* and is undone gives the frame back intact.
FrameHoldsItsPage ==
  \A f \in Frames : Settled(f) =>
    /\ data[f] = id[f]
    /\ id[f] \in 1 .. DiskPages => versions[f] = id[f]

\* The session that loaded or reserved a page keeps that page in its frame
\* until it unpins, and when WaitIO lets it through its bytes are there.
FetcherUsesItsPage ==
  \A t \in Threads :
    /\ mode[t] \in {"load", "reserve"}
    /\ pc[t] \in {"evict", "fetch", "wait", "asleep", "using"}
    => /\ id[frame[t]] = want[t]
       /\ pc[t] = "using" => data[frame[t]] = want[t]

\* Reserve's Put never finds the page mapped (DB7_UNREACHABLE after it).
ReserveNeverCollides ==
  \A t \in Threads :
    pc[t] = "put" /\ mode[t] = "reserve" => map[want[t]] = NoFrame

\* Whoever uses a frame uses the page it asked for (UsePageCorrect of
\* specs/buffer_pool/buffer_pool.tla).
UsePageCorrect ==
  \A t \in Threads : pc[t] = "using" => id[frame[t]] = want[t]

\* The clock hand of GetVictim selects a frame of the pool.  Holds when
\* SweepSize <= PoolSize; the code has nothing to that effect.
SweepInPool == (\E t \in Threads : pc[t] = "sweep") => sweep \in Frames

\* Bytes that were changed in a frame are not overwritten by the next page:
\* eviction writes them to the disk first.  The code has no write-back, and one
\* session that changes a page and loads another violates this.
NoLostWrites == [][\A f \in dirtied : data'[f] = data[f]]_vars

\* A frame under IO is eventually released by the disk or by UndoState.
IOEventuallyCleared == \A f \in Frames : io[f] ~> ~io[f]

\* The session that queues a read is always woken from WaitIO and gets to use
\* the page: its own completion cannot be missed or undone by another.
FetchCompletes == \A t \in Threads : pc[t] = "fetch" ~> pc[t] = "using"

\* A session that sleeps in WaitIO is eventually woken (what Termination and
\* AllThreadsTerminate of specs/buffer_pool/buffer_pool.tla need of UsePage).
SleeperWakes == \A t \in Threads : pc[t] = "asleep" ~> pc[t] # "asleep"
=============================================================================
