------------------------ MODULE DiskSchedulerProofs -------------------------
(***************************************************************************)
(* For any set of frames, any budget and any ring size: no request is lost *)
(* or doubled, inflight_ is exact, the worker leaves with empty rings, and *)
(* the scheduler implements AsyncIO.                                       *)
(***************************************************************************)
EXTENDS DiskScheduler, FiniteSetTheorems, TLAPS

Elements(s) == {s[i] : i \in DOMAIN s}

Injective(s) == \A i, j \in DOMAIN s : s[i] = s[j] => i = j

\* The elements of a sequence of distinct elements with one more at its end.
LEMMA AppendElements ==
  ASSUME NEW S, NEW s \in Seq(S), NEW x \in S
  PROVE  /\ Append(s, x) \in Seq(S)
         /\ Len(Append(s, x)) = Len(s) + 1
         /\ Elements(Append(s, x)) = Elements(s) \cup {x}
         /\ Injective(s) /\ x \notin Elements(s) => Injective(Append(s, x))
<1> DEFINE t == Append(s, x)
<1>1. /\ t \in Seq(S)
      /\ Len(t) = Len(s) + 1
      /\ DOMAIN t = 1 .. Len(s) + 1
      /\ DOMAIN s = 1 .. Len(s)
      /\ Len(s) \in Nat
      /\ t[Len(s) + 1] = x
      /\ \A i \in DOMAIN s : t[i] = s[i]
  OBVIOUS
<1>2. Elements(t) = Elements(s) \cup {x}
  <2>1. ASSUME NEW y \in Elements(t) PROVE y \in Elements(s) \cup {x}
    <3>1. PICK i \in DOMAIN t : y = t[i]
      BY <2>1 DEF Elements
    <3>2. CASE i = Len(s) + 1
      BY <1>1, <3>1, <3>2
    <3>3. CASE i # Len(s) + 1
      <4>1. i \in DOMAIN s
        BY <1>1, <3>3
      <4> QED BY <1>1, <3>1, <4>1 DEF Elements
    <3> QED BY <3>2, <3>3
  <2>2. ASSUME NEW y \in Elements(s) PROVE y \in Elements(t)
    <3>1. PICK i \in DOMAIN s : y = s[i]
      BY <2>2 DEF Elements
    <3>2. i \in DOMAIN t /\ y = t[i]
      BY <1>1, <3>1
    <3> QED BY <3>2 DEF Elements
  <2>3. x \in Elements(t)
    <3>1. Len(s) + 1 \in DOMAIN t
      BY <1>1
    <3> QED BY <1>1, <3>1 DEF Elements
  <2> QED BY <2>1, <2>2, <2>3
<1>3. ASSUME Injective(s), x \notin Elements(s) PROVE Injective(t)
  <2>1. \A i \in DOMAIN s : s[i] # x
    BY <1>3 DEF Elements
  <2>2. \A i \in DOMAIN t : i \in DOMAIN s \/ i = Len(s) + 1
    BY <1>1
  <2>3. SUFFICES ASSUME NEW i \in DOMAIN t, NEW j \in DOMAIN t, t[i] = t[j]
                 PROVE  i = j
    BY DEF Injective
  <2> QED BY <1>1, <1>3, <2>1, <2>2, <2>3 DEF Injective
<1> QED BY <1>1, <1>2, <1>3

\* The elements of a sequence of distinct elements without its head.
LEMMA TailElements ==
  ASSUME NEW S, NEW s \in Seq(S), s # <<>>, Injective(s)
  PROVE  /\ Head(s) \in Elements(s)
         /\ Tail(s) \in Seq(S)
         /\ Len(s) \in Nat \ {0}
         /\ Len(Tail(s)) = Len(s) - 1
         /\ Elements(Tail(s)) = Elements(s) \ {Head(s)}
         /\ Injective(Tail(s))
<1> DEFINE t == Tail(s)
<1>1. /\ t \in Seq(S)
      /\ Len(s) \in Nat \ {0}
      /\ Len(t) = Len(s) - 1
      /\ DOMAIN s = 1 .. Len(s)
      /\ DOMAIN t = 1 .. Len(s) - 1
      /\ Head(s) = s[1]
      /\ \A i \in DOMAIN t : t[i] = s[i + 1]
  OBVIOUS
<1>2. 1 \in DOMAIN s /\ \A i \in DOMAIN t : i + 1 \in DOMAIN s /\ i + 1 # 1
  BY <1>1
<1>3. Head(s) \in Elements(s)
  BY <1>1, <1>2 DEF Elements
<1>4. Elements(t) = Elements(s) \ {Head(s)}
  <2>1. ASSUME NEW y \in Elements(t) PROVE y \in Elements(s) \ {Head(s)}
    <3>1. PICK i \in DOMAIN t : y = t[i]
      BY <2>1 DEF Elements
    <3>2. y = s[i + 1] /\ s[i + 1] # s[1]
      BY <1>1, <1>2, <3>1 DEF Injective
    <3> QED BY <1>1, <1>2, <3>2 DEF Elements
  <2>2. ASSUME NEW y \in Elements(s) \ {Head(s)} PROVE y \in Elements(t)
    <3>1. PICK i \in DOMAIN s : y = s[i]
      BY <2>2 DEF Elements
    <3>2. i - 1 \in DOMAIN t /\ t[i - 1] = y
      BY <1>1, <2>2, <3>1
    <3> QED BY <3>2 DEF Elements
  <2> QED BY <2>1, <2>2
<1>5. Injective(t)
  <2>1. SUFFICES ASSUME NEW i \in DOMAIN t, NEW j \in DOMAIN t, t[i] = t[j]
                 PROVE  i = j
    BY DEF Injective
  <2>2. i + 1 = j + 1
    BY <1>1, <1>2, <2>1 DEF Injective
  <2> QED BY <1>1, <2>2
<1> QED BY <1>1, <1>3, <1>4, <1>5

-----------------------------------------------------------------------------
(* The inductive invariant *)

\* Tasks arrive one by one, so the sets they are in are finite.
Finite ==
  /\ IsFiniteSet(queue)
  /\ IsFiniteSet(batch)
  /\ IsFiniteSet(sq)
  /\ IsFiniteSet(kernel)

\* What SubmitPending has dequeued fits into the budget.
Budget == inflight + Cardinality(batch) <= MaxInflight

\* What the worker's place says about its locals and about the rings.
Phases ==
  /\ worker # "submit" => batch = {} /\ sq = {}
  /\ worker \notin {"reap", "lastReap"} => reaped = 0
  /\ worker = "exited" => inflight = 0

SchedInv ==
  /\ SchedTypeOK
  /\ TaskInOnePlace
  /\ InflightExact
  /\ Finite
  /\ Budget
  /\ Phases

\* The cardinalities that occur in the invariant are natural numbers.
LEMMA Cardinalities ==
  ASSUME SchedInv
  PROVE  /\ Cardinality(queue) \in Nat
         /\ Cardinality(batch) \in Nat
         /\ Cardinality(sq) \in Nat
         /\ Cardinality(kernel) \in Nat
         /\ Len(cq) \in Nat
<1>1. Len(cq) \in Nat
  BY DEF SchedInv, SchedTypeOK
<1> QED BY <1>1, FS_CardinalityType DEF SchedInv, Finite

\* The scheduler starts in the invariant.
LEMMA InitSchedInv == SchedInit => SchedInv
<1> SUFFICES ASSUME SchedInit PROVE SchedInv
  OBVIOUS
<1>1. IsFiniteSet({}) /\ Cardinality({}) = 0
  BY FS_EmptySet
<1>2. SchedTypeOK
  <2>1. 0 \in 0 .. MaxInflight
    BY DiskSchedulerAssumption
  <2>2. <<>> \in Seq(Pages)
    OBVIOUS
  <2> QED BY <2>1, <2>2, Zenon DEF SchedInit, SchedTypeOK
<1>3. TaskInOnePlace
  BY DEF SchedInit, TaskInOnePlace, Completed
<1>4. InflightExact /\ Budget
  BY <1>1, DiskSchedulerAssumption DEF SchedInit, InflightExact, Budget
<1>5. Finite /\ Phases
  BY <1>1 DEF SchedInit, Finite, Phases
<1> QED BY <1>2, <1>3, <1>4, <1>5 DEF SchedInv

\* Enqueue: a frame without a task gets one.
LEMMA EnqueueInv ==
  ASSUME SchedInv, NEW p \in Pages, Enqueue(p)
  PROVE  SchedInv'
<1> USE DEF SchedInv, Enqueue, ringVars
<1>1. SchedTypeOK'
  BY DEF SchedTypeOK
<1>2. TaskInOnePlace'
  BY DEF TaskInOnePlace, Completed
<1>3. InflightExact' /\ Budget' /\ Phases'
  BY DEF InflightExact, Budget, Phases
<1>4. Finite'
  BY FS_AddElement DEF Finite
<1> QED BY <1>1, <1>2, <1>3, <1>4

\* Start, Stop, LoopTest and DrainCompletions move no task.
LEMMA ControlInv ==
  ASSUME SchedInv, Start \/ Stop \/ LoopTest \/ DrainCompletions
  PROVE  SchedInv'
<1> USE DEF SchedInv, ringVars
<1>1. UNCHANGED <<io, queue, batch, sq, kernel, cq, inflight>>
  BY DEF Start, Stop, LoopTest, DrainCompletions
<1>2. (reaped = 0 /\ reaped' = 0) \/ UNCHANGED <<reaped, worker>>
  BY DEF Start, Stop, LoopTest, DrainCompletions, Phases
<1>3. SchedTypeOK'
  <2>1. running' \in BOOLEAN
    BY Zenon DEF SchedTypeOK, Start, Stop, LoopTest, DrainCompletions
  <2>2. reaped' \in 0 .. MaxInflight
    BY <1>2, DiskSchedulerAssumption DEF SchedTypeOK
  <2>3. worker' \in {"new", "test", "drain", "reap", "pending", "submit",
                     "lastReap", "exited"}
    BY DEF SchedTypeOK, Start, Stop, LoopTest, DrainCompletions
  <2>4. /\ io' \in SUBSET Pages /\ queue' \in SUBSET Pages
        /\ batch' \in SUBSET Pages /\ sq' \in SUBSET Pages
        /\ kernel' \in SUBSET Pages /\ cq' \in Seq(Pages)
        /\ inflight' \in 0 .. MaxInflight
    BY <1>1 DEF SchedTypeOK
  <2> QED BY <2>1, <2>2, <2>3, <2>4, Zenon DEF SchedTypeOK
<1>4. TaskInOnePlace' /\ Finite'
  BY <1>1 DEF TaskInOnePlace, Completed, Finite
<1>5. InflightExact' /\ Budget'
  BY <1>1, <1>2 DEF InflightExact, Budget
<1>6. Phases'
  BY <1>1, <1>2 DEF Phases, Start, Stop, LoopTest, DrainCompletions
<1> QED BY <1>3, <1>4, <1>5, <1>6

\* ReapOne: the head of the completion ring leaves, and its flag with it.
LEMMA ReapOneInv ==
  ASSUME SchedInv, ReapOne
  PROVE  SchedInv'
<1> USE DEF SchedInv, ReapOne
<1>1. /\ Head(cq) \in Completed
      /\ cq' \in Seq(Pages)
      /\ Len(cq) \in Nat \ {0}
      /\ Len(cq') = Len(cq) - 1
      /\ Completed' = Completed \ {Head(cq)}
      /\ Injective(cq')
  <2>1. cq \in Seq(Pages) /\ cq # <<>> /\ Injective(cq) /\ cq' = Tail(cq)
    BY DEF SchedTypeOK, TaskInOnePlace, Injective
  <2>2. Completed = Elements(cq) /\ Completed' = Elements(cq')
    BY DEF Completed, Elements
  <2> HIDE DEF SchedInv, ReapOne
  <2> QED BY <2>1, <2>2, TailElements
<1>2. SchedTypeOK'
  <2>1. reaped' \in 0 .. MaxInflight
    BY DiskSchedulerAssumption DEF SchedTypeOK
  <2> QED BY <1>1, <2>1 DEF SchedTypeOK
<1>3. TaskInOnePlace'
  BY <1>1 DEF TaskInOnePlace, Injective
<1>4. InflightExact'
  BY <1>1, Cardinalities DEF InflightExact, SchedTypeOK
<1>5. Finite' /\ Budget' /\ Phases'
  BY DEF Finite, Budget, Phases
<1> QED BY <1>2, <1>3, <1>4, <1>5

\* ReapEnd: what was reaped is no longer in flight.
LEMMA ReapEndInv ==
  ASSUME SchedInv, ReapEnd
  PROVE  SchedInv'
<1> USE DEF SchedInv, ReapEnd, ringVars
<1>1. inflight' \in 0 .. inflight /\ inflight' = inflight - reaped
  BY Cardinalities DEF InflightExact, SchedTypeOK
<1>2. SchedTypeOK'
  BY <1>1, DiskSchedulerAssumption DEF SchedTypeOK
<1>3. TaskInOnePlace' /\ Finite'
  BY DEF TaskInOnePlace, Completed, Finite
<1>4. InflightExact'
  BY <1>1, Cardinalities DEF InflightExact, SchedTypeOK
<1>5. Budget'
  <2>1. /\ inflight \in Nat /\ inflight' \in 0 .. inflight
        /\ Cardinality(batch) \in Nat /\ batch' = batch
        /\ MaxInflight \in Nat
        /\ inflight + Cardinality(batch) <= MaxInflight
    BY <1>1, Cardinalities, DiskSchedulerAssumption DEF Budget, SchedTypeOK
  <2> HIDE DEF SchedInv, ReapEnd
  <2> QED BY <2>1 DEF Budget
<1>6. Phases'
  BY DEF Phases
<1> QED BY <1>2, <1>3, <1>4, <1>5, <1>6

\* Dequeue: tasks move from the queue to the batch, within the budget.
LEMMA DequeueInv ==
  ASSUME SchedInv, Dequeue
  PROVE  SchedInv'
<1> USE DEF SchedInv, Dequeue, ringVars
<1>1. batch' \in SUBSET queue /\ batch = {}
  BY DEF Phases
<1>2. IsFiniteSet(batch') /\ IsFiniteSet(queue') /\ Cardinality(batch') \in Nat
  BY <1>1, FS_Subset, FS_CardinalityType DEF Finite
<1>3. SchedTypeOK'
  BY <1>1 DEF SchedTypeOK
<1>4. TaskInOnePlace'
  BY <1>1 DEF TaskInOnePlace, Completed
<1>5. InflightExact' /\ Phases' /\ Finite'
  BY <1>2 DEF InflightExact, Phases, Finite
<1>6. Budget'
  BY <1>2, DiskSchedulerAssumption DEF Budget, SchedTypeOK
<1> QED BY <1>3, <1>4, <1>5, <1>6

\* SubmitOne: a task moves from the batch to the submission ring.
LEMMA SubmitOneInv ==
  ASSUME SchedInv, NEW p \in Pages, SubmitOne(p)
  PROVE  SchedInv'
<1> USE DEF SchedInv, SubmitOne
<1>1. p \notin sq
  BY DEF TaskInOnePlace
<1>2. /\ IsFiniteSet(sq') /\ Cardinality(sq') = Cardinality(sq) + 1
      /\ IsFiniteSet(batch') /\ Cardinality(batch') = Cardinality(batch) - 1
  BY <1>1, FS_AddElement, FS_RemoveElement DEF Finite
<1>3. inflight' = inflight + 1 /\ inflight' + Cardinality(batch') <= MaxInflight
  BY <1>2, Cardinalities, DiskSchedulerAssumption DEF Budget, SchedTypeOK
<1>4. Cardinality(batch') \in Nat
  BY <1>2, FS_CardinalityType
<1>5. SchedTypeOK'
  BY <1>3, <1>4, DiskSchedulerAssumption DEF SchedTypeOK
<1>6. TaskInOnePlace'
  BY DEF TaskInOnePlace, Completed
<1>7. InflightExact'
  BY <1>2, Cardinalities DEF InflightExact, SchedTypeOK
<1>8. Finite' /\ Budget' /\ Phases'
  BY <1>2, <1>3 DEF Finite, Budget, Phases
<1> QED BY <1>5, <1>6, <1>7, <1>8

\* RingFull: the rest of the batch goes back to the queue.
LEMMA RingFullInv ==
  ASSUME SchedInv, RingFull
  PROVE  SchedInv'
<1> USE DEF SchedInv, RingFull, ringVars
<1>1. SchedTypeOK'
  BY DEF SchedTypeOK
<1>2. TaskInOnePlace'
  BY DEF TaskInOnePlace, Completed
<1>3. InflightExact' /\ Phases'
  BY DEF InflightExact, Phases
<1>4. Finite'
  BY FS_Union, FS_EmptySet DEF Finite
<1>5. Budget'
  BY FS_EmptySet, DiskSchedulerAssumption DEF Budget, SchedTypeOK
<1> QED BY <1>1, <1>2, <1>3, <1>4, <1>5

\* Submit: the prepared entries move to the kernel.
LEMMA SubmitInv ==
  ASSUME SchedInv, Submit
  PROVE  SchedInv'
<1> USE DEF SchedInv, Submit
<1>1. /\ IsFiniteSet(kernel')
      /\ Cardinality(kernel') = Cardinality(kernel) + Cardinality(sq)
      /\ IsFiniteSet(sq') /\ Cardinality(sq') = 0
  <2>1. kernel \cap sq = {}
    BY DEF TaskInOnePlace
  <2>2. IsFiniteSet(kernel) /\ IsFiniteSet(sq)
    BY DEF Finite
  <2>3. /\ IsFiniteSet(kernel \cup sq)
        /\ Cardinality(kernel \cup sq)
             = Cardinality(kernel) + Cardinality(sq) - Cardinality({})
    BY <2>1, <2>2, FS_Union
  <2>4. IsFiniteSet({}) /\ Cardinality({}) = 0
    BY FS_EmptySet
  <2> QED BY <2>3, <2>4, Cardinalities
<1>2. SchedTypeOK'
  BY DEF SchedTypeOK
<1>3. TaskInOnePlace'
  BY DEF TaskInOnePlace, Completed
<1>4. InflightExact'
  BY <1>1, Cardinalities DEF InflightExact, SchedTypeOK
<1>5. Finite' /\ Budget' /\ Phases'
  BY <1>1 DEF Finite, Budget, Phases
<1> QED BY <1>2, <1>3, <1>4, <1>5

\* KernelCompletes: a task moves from the kernel to the completion ring.
LEMMA KernelCompletesInv ==
  ASSUME SchedInv, NEW p \in Pages, KernelCompletes(p)
  PROVE  SchedInv'
<1> USE DEF SchedInv, KernelCompletes
<1>1. /\ cq' \in Seq(Pages)
      /\ Len(cq') = Len(cq) + 1
      /\ Completed' = Completed \cup {p}
      /\ Injective(cq')
  <2>1. cq \in Seq(Pages) /\ Injective(cq) /\ cq' = Append(cq, p)
    BY DEF SchedTypeOK, TaskInOnePlace, Injective
  <2>2. Completed = Elements(cq) /\ Completed' = Elements(cq')
    BY DEF Completed, Elements
  <2>3. p \notin Elements(cq)
    BY <2>2 DEF TaskInOnePlace
  <2> HIDE DEF SchedInv, KernelCompletes
  <2> QED BY <2>1, <2>2, <2>3, AppendElements
<1>2. IsFiniteSet(kernel') /\ Cardinality(kernel') = Cardinality(kernel) - 1
  BY FS_RemoveElement DEF Finite
<1>3. SchedTypeOK'
  BY <1>1 DEF SchedTypeOK
<1>4. TaskInOnePlace'
  BY <1>1 DEF TaskInOnePlace, Injective
<1>5. InflightExact'
  BY <1>1, <1>2, Cardinalities DEF InflightExact, SchedTypeOK
<1>6. Finite' /\ Budget' /\ Phases'
  BY <1>2 DEF Finite, Budget, Phases
<1> QED BY <1>3, <1>4, <1>5, <1>6

\* Every step preserves the invariant.
LEMMA NextSchedInv == SchedInv /\ [SchedNext]_vars => SchedInv'
<1> SUFFICES ASSUME SchedInv, [SchedNext]_vars PROVE SchedInv'
  OBVIOUS
<1>1. CASE UNCHANGED vars
  BY <1>1 DEF vars, SchedInv, SchedTypeOK, TaskInOnePlace, Completed,
              InflightExact, Finite, Budget, Phases
<1>2. CASE Start \/ Stop \/ LoopTest \/ DrainCompletions
  BY <1>2, ControlInv
<1>3. CASE ReapOne
  BY <1>3, ReapOneInv
<1>4. CASE ReapEnd
  BY <1>4, ReapEndInv
<1>5. CASE Dequeue
  BY <1>5, DequeueInv
<1>6. CASE RingFull
  BY <1>6, RingFullInv
<1>7. CASE Submit
  BY <1>7, SubmitInv
<1>8. ASSUME NEW p \in Pages, SubmitOne(p) PROVE SchedInv'
  BY <1>8, SubmitOneInv
<1>9. ASSUME NEW p \in Pages, Enqueue(p) PROVE SchedInv'
  BY <1>9, EnqueueInv
<1>10. ASSUME NEW p \in Pages, KernelCompletes(p) PROVE SchedInv'
  BY <1>10, KernelCompletesInv
<1> QED
  BY <1>1, <1>2, <1>3, <1>4, <1>5, <1>6, <1>7, <1>8, <1>9, <1>10
     DEF SchedNext, Worker

-----------------------------------------------------------------------------
(* The theorems *)

\* The inductive invariant holds in every behaviour of the scheduler.
THEOREM SchedInvAlways == SchedSpec => []SchedInv
BY InitSchedInv, NextSchedInv, PTL DEF SchedSpec

\* Types; neither inflight_ nor max_inflight_ - inflight_ drops below zero.
THEOREM SchedTypeCorrect == SchedSpec => []SchedTypeOK
<1>1. SchedInv => SchedTypeOK
  BY DEF SchedInv
<1> QED BY <1>1, SchedInvAlways, PTL

\* No task of SubmitPending, of the rings or of the queue is lost or doubled.
THEOREM TaskInOnePlaceAlways == SchedSpec => []TaskInOnePlace
<1>1. SchedInv => TaskInOnePlace
  BY DEF SchedInv
<1> QED BY <1>1, SchedInvAlways, PTL

\* inflight_ is the number of entries in the rings and the kernel.
THEOREM InflightExactAlways == SchedSpec => []InflightExact
<1>1. SchedInv => InflightExact
  BY DEF SchedInv
<1> QED BY <1>1, SchedInvAlways, PTL

\* The worker does not return from Run while the kernel knows a frame.
THEOREM DrainedAtExitAlways == SchedSpec => []DrainedAtExit
<1>1. SchedInv => DrainedAtExit
  <2> SUFFICES ASSUME SchedInv, worker = "exited"
               PROVE  sq = {} /\ kernel = {} /\ cq = <<>>
    BY DEF DrainedAtExit
  <2>1. inflight = 0 /\ reaped = 0
    BY DEF SchedInv, Phases
  <2>2. Cardinality(sq) = 0 /\ Cardinality(kernel) = 0 /\ Len(cq) = 0
    BY <2>1, Cardinalities DEF SchedInv, InflightExact
  <2>3. sq = {} /\ kernel = {}
    BY <2>2, FS_EmptySet DEF SchedInv, Finite
  <2>4. cq = <<>>
    BY <2>2 DEF SchedInv, SchedTypeOK
  <2> QED BY <2>3, <2>4
<1> QED BY <1>1, SchedInvAlways, PTL

\* The scheduler, with its queue, batch and rings as the requests outstanding,
\* implements the asynchronous disk: only Enqueue starts a request and only
\* ReapOne, by way of SignalIO, ends one.
THEOREM SchedulerImplementsAsyncIO == SchedSpec => ImplementsAsyncIO
<1> DEFINE Placed == queue \cup batch \cup sq \cup kernel \cup Completed
<1>1. SchedInit => IO!AsyncInit
  BY DEF SchedInit, Completed, IO!AsyncInit
<1>2. SchedInv /\ SchedInv' /\ [SchedNext]_vars
        => [IO!AsyncNext]_<<io, Placed>>
  <2> SUFFICES ASSUME SchedInv, SchedInv', [SchedNext]_vars
               PROVE  IO!AsyncNext \/ UNCHANGED <<io, Placed>>
    OBVIOUS
  <2>1. io = Placed /\ io' = Placed'
    BY DEF SchedInv, TaskInOnePlace
  <2>2. ASSUME NEW p \in Pages, Enqueue(p) PROVE IO!AsyncNext
    <3>1. IO!Request(p)
      BY <2>1, <2>2 DEF Enqueue, IO!Request
    <3> QED BY <3>1 DEF IO!AsyncNext
  <2>3. ASSUME ReapOne PROVE IO!AsyncNext
    <3>1. Head(cq) \in Completed /\ Head(cq) \in Pages
      BY <2>3 DEF ReapOne, SchedInv, SchedTypeOK, Completed
    <3>2. IO!Complete(Head(cq))
      BY <2>1, <2>3, <3>1 DEF ReapOne, IO!Complete
    <3> QED BY <3>1, <3>2 DEF IO!AsyncNext
  <2>4. ASSUME io' = io PROVE UNCHANGED <<io, Placed>>
    BY <2>1, <2>4
  <2>5. \/ io' = io
        \/ ReapOne
        \/ \E p \in Pages : Enqueue(p)
    BY DEF SchedNext, Worker, vars, Start, Stop, LoopTest, DrainCompletions,
           ReapEnd, Dequeue, RingFull, Submit, SubmitOne, KernelCompletes
  <2> QED BY <2>2, <2>3, <2>4, <2>5
<1> QED
  BY <1>1, <1>2, SchedInvAlways, PTL
     DEF SchedSpec, ImplementsAsyncIO, IO!AsyncSpec
=============================================================================
