--------------------------- MODULE DiskScheduler ----------------------------
(***************************************************************************)
(* DiskScheduler and the part of DiskManagerAsync it drives: a lock-free   *)
(* queue of tasks, a worker thread that moves them to an io_uring and      *)
(* reaps the completions, and shutdown.                                    *)
(*                                                                         *)
(* A task is named by its page frame.  The buffer pool sets the IO flag of *)
(* a frame before it enqueues the frame's read and never has two requests  *)
(* of one frame outstanding (SignalIOAsserts of BufferPool), so a queue of *)
(* tasks is a set of frames.  moodycamel::ConcurrentQueue promises no      *)
(* order between producers: try_dequeue_bulk without a token goes through  *)
(* them from the newest to the oldest, each time, so it may pass over the  *)
(* same task again and again.  It may return fewer tasks than it holds,    *)
(* but not none when there is one.                                         *)
(***************************************************************************)
EXTENDS Integers, Sequences, FiniteSets

CONSTANTS
  Pages,        \* page frames
  MaxInflight,  \* max_inflight_, which is IOURING_QUEUE_SIZE
  RingSize      \* queue_depth of the submission ring

ASSUME DiskSchedulerAssumption ==
  /\ MaxInflight \in Nat \ {0}
  /\ RingSize \in Nat \ {0}

VARIABLES
  io,        \* the frames whose IO flag is set
  queue,     \* queue_
  batch,     \* tasks[i ..] of SubmitPending
  sq,        \* prepared submission entries
  kernel,    \* reads the kernel is performing
  cq,        \* the completion ring
  inflight,  \* inflight_
  reaped,    \* the local of ReapCompletions
  running,   \* running_
  worker     \* where the worker thread is

ringVars == <<sq, kernel, cq>>
vars == <<io, queue, batch, sq, kernel, cq, inflight, reaped, running, worker>>

\* Each variable has its type; in particular the unsigned inflight_ does not
\* drop below zero, nor max_inflight_ - inflight_.
SchedTypeOK ==
  /\ io       \in SUBSET Pages
  /\ queue    \in SUBSET Pages
  /\ batch    \in SUBSET Pages
  /\ sq       \in SUBSET Pages
  /\ kernel   \in SUBSET Pages
  /\ cq       \in Seq(Pages)
  /\ inflight \in 0 .. MaxInflight
  /\ reaped   \in 0 .. MaxInflight
  /\ running  \in BOOLEAN
  /\ worker   \in {"new", "test", "drain", "reap", "pending", "submit", "lastReap", "exited"}

SchedInit ==
  /\ io = {} /\ queue = {} /\ batch = {}
  /\ sq = {} /\ kernel = {} /\ cq = <<>>
  /\ inflight = 0
  /\ reaped   = 0
  /\ running  = FALSE
  /\ worker   = "new"

-----------------------------------------------------------------------------
(* Clients *)

\* SetIO of the frame, then Enqueue: possible at any time, also before Start
\* and after Stop.
Enqueue(p) ==
  /\ p \notin io
  /\ io'    = io \cup {p}
  /\ queue' = queue \cup {p}
  /\ UNCHANGED <<batch, ringVars, inflight, reaped, running, worker>>

Start ==
  /\ worker = "new"
  /\ running' = TRUE
  /\ worker'  = "test"
  /\ UNCHANGED <<io, queue, batch, ringVars, inflight, reaped>>

\* Stop, which then joins the worker.
Stop ==
  /\ running
  /\ running' = FALSE
  /\ UNCHANGED <<io, queue, batch, ringVars, inflight, reaped, worker>>

-----------------------------------------------------------------------------
(* The worker: Run *)

\* Mutant: the worker leaves as soon as it is told to stop.
ExitAtOnce ==
  /\ worker = "test"
  /\ worker' = IF running THEN "drain" ELSE "exited"
  /\ UNCHANGED <<io, queue, batch, ringVars, inflight, reaped, running>>

\* The conditions of the two while loops: go on, drain the rest, or return.
LoopTest ==
  /\ worker = "test"
  /\ \/ running /\ worker' = "drain"
     \/ ~running /\ inflight > 0 /\ worker' = "lastReap"
     \/ ~running /\ inflight = 0 /\ worker' = "exited"
  /\ UNCHANGED <<io, queue, batch, ringVars, inflight, reaped, running>>

\* DrainCompletions calls ReapCompletions only when something is in flight.
DrainCompletions ==
  /\ worker = "drain"
  /\ worker' = IF inflight > 0 THEN "reap" ELSE "pending"
  /\ reaped' = 0
  /\ UNCHANGED <<io, queue, batch, ringVars, inflight, running>>

\* One completion: the callback runs Page::SignalIO, then the entry is seen.
ReapOne ==
  /\ worker \in {"reap", "lastReap"}
  /\ cq # <<>>
  /\ reaped < MaxInflight
  /\ io'     = io \ {Head(cq)}
  /\ cq'     = Tail(cq)
  /\ reaped' = reaped + 1
  /\ UNCHANGED <<queue, batch, sq, kernel, inflight, running, worker>>

\* Mutant: one completion is charged whatever was reaped.
ReapEndByOne ==
  /\ worker \in {"reap", "lastReap"}
  /\ cq = <<>> \/ reaped = MaxInflight
  /\ inflight' = inflight - (IF reaped > 0 THEN 1 ELSE 0)
  /\ reaped'   = 0
  /\ worker'   = IF worker = "reap" THEN "pending" ELSE "test"
  /\ UNCHANGED <<io, queue, batch, ringVars, running>>

\* Nothing more to reap: on to SubmitPending, or round the second loop.
ReapEnd ==
  /\ worker \in {"reap", "lastReap"}
  /\ cq = <<>> \/ reaped = MaxInflight
  /\ inflight' = inflight - reaped
  /\ reaped'   = 0
  /\ worker'   = IF worker = "reap" THEN "pending" ELSE "test"
  /\ UNCHANGED <<io, queue, batch, ringVars, running>>

\* Mutant: the budget does not count the reads in flight.
DequeueFullBatch ==
  /\ worker = "pending"
  /\ batch' \in {s \in SUBSET queue : Cardinality(s) <= MaxInflight}
  /\ queue'  = queue \ batch'
  /\ worker' = "submit"
  /\ UNCHANGED <<io, ringVars, inflight, reaped, running>>

\* SubmitPending: try_dequeue_bulk of at most as many tasks as are free to
\* fly, at least one if there is one; with no free slot it returns.
Dequeue ==
  /\ worker = "pending"
  /\ batch' \in {s \in SUBSET queue : Cardinality(s) <= MaxInflight - inflight}
  /\ batch' = {} => queue = {} \/ inflight = MaxInflight
  /\ queue'  = queue \ batch'
  /\ worker' = "submit"
  /\ UNCHANGED <<io, ringVars, inflight, reaped, running>>

\* SubmitRead finds a free submission entry.
SubmitOne(p) ==
  /\ worker = "submit"
  /\ p \in batch
  /\ Cardinality(sq) < RingSize
  /\ sq'       = sq \cup {p}
  /\ batch'    = batch \ {p}
  /\ inflight' = inflight + 1
  /\ UNCHANGED <<io, queue, kernel, cq, reaped, running, worker>>

\* Mutant: only the task that did not fit is enqueued again.
RingFullDropsRest ==
  /\ worker = "submit"
  /\ batch # {}
  /\ Cardinality(sq) >= RingSize
  /\ \E p \in batch : queue' = queue \cup {p}
  /\ batch' = {}
  /\ UNCHANGED <<io, ringVars, inflight, reaped, running, worker>>

\* Mutant: the whole array is enqueued again.
RingFullResubmits ==
  /\ worker = "submit"
  /\ batch # {}
  /\ Cardinality(sq) >= RingSize
  /\ queue' = queue \cup batch \cup sq
  /\ batch' = {}
  /\ UNCHANGED <<io, ringVars, inflight, reaped, running, worker>>

\* The ring is full: this task and the remaining ones are enqueued again.
RingFull ==
  /\ worker = "submit"
  /\ batch # {}
  /\ Cardinality(sq) >= RingSize
  /\ queue' = queue \cup batch
  /\ batch' = {}
  /\ UNCHANGED <<io, ringVars, inflight, reaped, running, worker>>

\* Mutant: entries are prepared and never submitted.
NoSubmit ==
  /\ worker = "submit"
  /\ batch = {}
  /\ worker' = "test"
  /\ UNCHANGED <<io, queue, batch, ringVars, inflight, reaped, running>>

\* io_uring_submit hands the prepared entries to the kernel.
Submit ==
  /\ worker = "submit"
  /\ batch = {}
  /\ kernel' = kernel \cup sq
  /\ sq'     = {}
  /\ worker' = "test"
  /\ UNCHANGED <<io, queue, batch, cq, inflight, reaped, running>>

Worker ==
  \/ LoopTest \/ DrainCompletions \/ ReapOne \/ ReapEnd
  \/ Dequeue \/ RingFull \/ Submit
  \/ \E p \in Pages : SubmitOne(p)

\* The kernel finishes reads in any order.
KernelCompletes(p) ==
  /\ p \in kernel
  /\ kernel' = kernel \ {p}
  /\ cq'     = Append(cq, p)
  /\ UNCHANGED <<io, queue, batch, sq, inflight, reaped, running, worker>>

SchedNext ==
  \/ Start \/ Stop \/ Worker
  \/ \E p \in Pages : Enqueue(p) \/ KernelCompletes(p)

SchedSpec == SchedInit /\ [][SchedNext]_vars

\* The worker and the kernel keep running.  Nothing is assumed about the order
\* in which tasks leave the queue or a batch.
SchedFairSpec ==
  /\ SchedSpec
  /\ WF_vars(Worker)
  /\ \A p \in Pages : WF_vars(KernelCompletes(p))

-----------------------------------------------------------------------------
(* Properties *)

Completed == {cq[i] : i \in DOMAIN cq}

\* A frame with its IO flag set has its task in exactly one place, queue,
\* batch, submission ring, kernel or completion ring, and only such frames
\* do: no task is lost or doubled when a full ring sends a batch back.
TaskInOnePlace ==
  /\ io = queue \cup batch \cup sq \cup kernel \cup Completed
  /\ queue \cap (batch \cup sq \cup kernel \cup Completed) = {}
  /\ batch \cap (sq \cup kernel \cup Completed) = {}
  /\ sq \cap (kernel \cup Completed) = {}
  /\ kernel \cap Completed = {}
  /\ \A i, j \in DOMAIN cq : cq[i] = cq[j] => i = j

\* inflight_ counts the entries of the rings and of the kernel, so that the
\* budget is neither exceeded nor leaked.
InflightExact ==
  inflight = Cardinality(sq) + Cardinality(kernel) + Len(cq) + reaped

\* When the worker has returned, and Stop with it, the kernel no longer holds
\* the address of any frame.
DrainedAtExit ==
  worker = "exited" => sq = {} /\ kernel = {} /\ cq = <<>>

IO == INSTANCE AsyncIO
        WITH flag    <- io,
             pending <- queue \cup batch \cup sq \cup kernel \cup Completed

\* The scheduler implements AsyncIO: wherever tasks are moved to, a request is
\* outstanding exactly while the frame's waiters wait.
ImplementsAsyncIO == IO!AsyncSpec

\* Every request is completed while the scheduler runs, over full rings and
\* batches that come back, unless new requests never cease to arrive: these
\* alone can overtake a task in the queue for ever.
RequestsComplete ==
  \A p \in Pages :
    \/ p \in io ~> (p \notin io \/ ~running)
    \/ []<><<\E q \in Pages \ {p} : Enqueue(q)>>_vars
=============================================================================
