--------------------------- MODULE OptimisticLock ---------------------------
(***************************************************************************)
(* AdaptiveVersionLock of one page and the Lock/Unlock templates of        *)
(* thread_local_util.hpp: writers hold the mutex exclusively and make seq  *)
(* odd, readers of the B-link tree compare seq before and after and fall   *)
(* back to the shared mutex once a try failed.  The page is a set of words *)
(* that are read and written one at a time; a writer gives every word its  *)
(* own stamp, seq + 1, so words of two stamps are a torn read.  Memory is  *)
(* sequentially consistent here.                                           *)
(***************************************************************************)
EXTENDS Integers

CONSTANTS
  Threads,
  Words      \* the words of the page

MaxTries == 1  \* MAX_OPTIMISTIC_TRIES

VARIABLES
  seq,      \* AdaptiveVersionLock::seq
  writers,  \* who holds rw_mtx exclusively
  readers,  \* who holds rw_mtx shared
  page,     \* the stamp in each word
  pc,
  ver,      \* TlState::version_
  tries,    \* TlState::tries_
  seen      \* the words read so far and the stamps found in them

lockVars == <<seq, writers, readers, page, pc, ver, tries, seen>>

Reading == {"optimistic", "shared"}
Writing == {"entered", "writing", "leaving"}
States  == {"idle", "lock", "read"} \union Reading \union Writing

LockTypeOK ==
  /\ seq     \in Nat
  /\ writers \in SUBSET Threads
  /\ readers \in SUBSET Threads
  /\ page    \in [Words -> Nat]
  /\ pc      \in [Threads -> States]
  /\ ver     \in [Threads -> Nat]
  /\ tries   \in [Threads -> 0 .. MaxTries]
  /\ seen    \in [Threads -> SUBSET (Words \X Nat)]

LockInit ==
  /\ seq     = 0
  /\ writers = {}
  /\ readers = {}
  /\ page    = [w \in Words |-> 0]
  /\ pc      = [t \in Threads |-> "idle"]
  /\ ver     = [t \in Threads |-> 0]
  /\ tries   = [t \in Threads |-> 0]
  /\ seen    = [t \in Threads |-> {}]

Go(t, from, to) == pc[t] = from /\ pc' = [pc EXCEPT ![t] = to]

\* A descent comes to this page: the first of its call (Clear) or a later one.
Arrive(t) ==
  /\ Go(t, "idle", "lock")
  /\ tries' \in {tries, [tries EXCEPT ![t] = 0]}
  /\ UNCHANGED <<seq, writers, readers, page, ver, seen>>

\* Lock<Optimistic>: an even version starts the read, an odd one is a try.
ReadOptimistic(t) ==
  /\ tries[t] < MaxTries
  /\ ver' = [ver EXCEPT ![t] = seq]
  /\ \/ /\ seq % 2 = 0
        /\ Go(t, "lock", "optimistic")
        /\ seen' = [seen EXCEPT ![t] = {}]
        /\ UNCHANGED tries
     \/ /\ seq % 2 = 1
        /\ Go(t, "lock", "lock")
        /\ tries' = [tries EXCEPT ![t] = @ + 1]
        /\ UNCHANGED seen
  /\ UNCHANGED <<seq, writers, readers, page>>

\* Lock<Optimistic> with no try left: RDataLock.
ReadLock(t) ==
  /\ tries[t] = MaxTries
  /\ writers = {}
  /\ Go(t, "lock", "shared")
  /\ readers' = readers \union {t}
  /\ seen' = [seen EXCEPT ![t] = {}]
  /\ UNCHANGED <<seq, writers, page, ver, tries>>

ReadWord(t, w) ==
  /\ pc[t] \in Reading
  /\ seen' = [seen EXCEPT ![t] = @ \union {<<w, page[w]>>}]
  /\ UNCHANGED <<seq, writers, readers, page, pc, ver, tries>>

\* Unlock<Optimistic>: validate and use what was read, or try again ...
Validate(t) ==
  /\ \/ /\ seq = ver[t]
        /\ Go(t, "optimistic", "read")
        /\ UNCHANGED tries
     \/ /\ seq # ver[t]
        /\ Go(t, "optimistic", "lock")
        /\ tries' = [tries EXCEPT ![t] = @ + 1]
  /\ UNCHANGED <<seq, writers, readers, page, ver, seen>>

\* ... or release the shared mutex.
ReadUnlock(t) ==
  /\ Go(t, "shared", "read")
  /\ readers' = readers \ {t}
  /\ UNCHANGED <<seq, writers, page, ver, tries, seen>>

\* The descent uses what it read and leaves the page.
Use(t) ==
  /\ Go(t, "read", "idle")
  /\ UNCHANGED <<seq, writers, readers, page, ver, tries, seen>>

\* WriteLock: the mutex, then the increment.
WriteLock(t) ==
  /\ writers = {} /\ readers = {}
  /\ Go(t, "idle", "entered")
  /\ writers' = {t}
  /\ UNCHANGED <<seq, readers, page, ver, tries, seen>>

WriteEnter(t) ==
  /\ Go(t, "entered", "writing")
  /\ seq' = seq + 1
  /\ UNCHANGED <<writers, readers, page, ver, tries, seen>>

WriteWord(t, w) ==
  /\ pc[t] = "writing"
  /\ page' = [page EXCEPT ![w] = seq + 1]
  /\ UNCHANGED <<seq, writers, readers, pc, ver, tries, seen>>

\* WriteUnlock: the increment, then the mutex.
WriteLeave(t) ==
  /\ \A w \in Words : page[w] = seq + 1
  /\ Go(t, "writing", "leaving")
  /\ seq' = seq + 1
  /\ UNCHANGED <<writers, readers, page, ver, tries, seen>>

WriteUnlock(t) ==
  /\ Go(t, "leaving", "idle")
  /\ writers' = writers \ {t}
  /\ UNCHANGED <<seq, readers, page, ver, tries, seen>>

LockStep(t) ==
  \/ Arrive(t) \/ ReadOptimistic(t) \/ ReadLock(t)
  \/ (\E w \in Words : ReadWord(t, w))
  \/ Validate(t) \/ ReadUnlock(t) \/ Use(t)
  \/ WriteLock(t) \/ WriteEnter(t)
  \/ (\E w \in Words : WriteWord(t, w))
  \/ WriteLeave(t) \/ WriteUnlock(t)

LockNext == \E t \in Threads : LockStep(t)

LockSpec == LockInit /\ [][LockNext]_lockVars

-----------------------------------------------------------------------------
\* What a reader uses after a successful Unlock is the page as one writer left
\* it: words it read carry one stamp, however the reads and the writes of the
\* words interleaved.
NoTornRead ==
  \A t \in Threads :
    pc[t] = "read" => \A x, y \in seen[t] : x[2] = y[2]

\* Writers exclude each other and the readers of the fallback.
WriterExcludes ==
  \A t, u \in Threads :
    pc[t] \in Writing => u = t \/ pc[u] \notin Writing \union {"shared"}
=============================================================================
