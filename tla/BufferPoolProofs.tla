-------------------------- MODULE BufferPoolProofs --------------------------
(***************************************************************************)
(* Proofs about BufferPool, for every number of threads, frames and pages. *)
(*                                                                         *)
(* The argument: the reference count of a frame is the number of sessions  *)
(* that hold it (PinAccounting), and an owner either holds the latch (from *)
(* the claim to the release) or a pin (afterwards).  GetVictim claims only *)
(* an unlatched frame whose count is zero, hence one without an owner, so  *)
(* a frame never gets a second owner (OneOwner); with that, nobody else    *)
(* changes the id_ or the IO flag of a frame with a read in flight.        *)
(***************************************************************************)
EXTENDS BufferPool, FiniteSetTheorems, TLAPS

\* Which values the locals of a session have at each location.
LocalsOK ==
  \A t \in Threads :
    /\ pc[t] # "idle" => want[t] \in Pages
    /\ pc[t] \in PinLocations \cup EvictLocations \cup {"visit"} => frame[t] \in Frames
    /\ pc[t] \in EvictLocations \cup {"sweep"} => mode[t] \in {"load", "reserve"}
    /\ pc[t] = "undo" => mode[t] = "load" /\ found[t] \in Frames
    /\ pc[t] \in {"visit", "check", "unvisit"} => mode[t] \in {"visit", "revisit"}

\* GetVictim holds the latch from the claim to the release.
ClaimsLatched ==
  \A t \in Threads : pc[t] \in {"claimed", "marked"} => latch[frame[t]]

\* An owner that has marked its frame finds its own page id there.
OwnerHasItsId ==
  \A t \in Threads, f \in Frames :
    Owning(t, f) /\ pc[t] # "claimed" => id[f] = want[t]

\* The IO flag stays set while an owner with a load is on its way to the read.
LoadHasFlag ==
  \A t \in Threads :
    mode[t] = "load" /\ pc[t] \in {"put", "undo", "evict", "fetch"} => io[frame[t]]

\* A queued read belongs to an owner that waits for it.
TasksOwned ==
  \A f \in Frames, p \in Pages : <<f, p>> \in tasks =>
    /\ io[f]
    /\ \E t \in Threads : /\ Owning(t, f)
                          /\ want[t] = p
                          /\ mode[t] = "load"
                          /\ pc[t] \in {"wait", "asleep"}

PoolInv ==
  /\ TypeOK /\ LocalsOK /\ PinAccounting /\ ClaimsLatched /\ OneOwner
  /\ OwnerHasItsId /\ LoadHasFlag /\ TasksOwned

-----------------------------------------------------------------------------
(* Lemmas on pin counts *)

(* Lemma: the pins on a frame are held by finitely many sessions. *)
LEMMA HoldersFinite ==
  ASSUME NEW f \in Frames
  PROVE  /\ IsFiniteSet(Holders(f))
         /\ Cardinality(Holders(f)) \in Nat
         /\ Cardinality(Holders(f)) = 0 <=> Holders(f) = {}
<1>1. Holders(f) \subseteq Threads
  BY DEF Holders
<1>2. IsFiniteSet(Holders(f))
  BY <1>1, FS_Subset, BufferPoolAssumption
<1> QED
  BY <1>2, FS_CardinalityType, FS_EmptySet

(* Lemma: a step that moves no pin keeps the accounts. *)
LEMMA PinsKept ==
  ASSUME PinAccounting, ref' = ref, \A f \in Frames : Holders(f)' = Holders(f)
  PROVE  PinAccounting'
BY DEF PinAccounting

(* Lemma: Page::Pin by a session that holds no pin keeps the accounts. *)
LEMMA PinTaken ==
  ASSUME PinAccounting, ref \in [Frames -> Nat], NEW t, NEW g \in Frames,
         ref' = [ref EXCEPT ![g] = @ + 1],
         t \notin Holders(g), Holders(g)' = Holders(g) \cup {t},
         \A f \in Frames \ {g} : Holders(f)' = Holders(f)
  PROVE  PinAccounting'
<1> SUFFICES ASSUME NEW f \in Frames PROVE ref'[f] = Cardinality(Holders(f)')
  BY DEF PinAccounting
<1>1. CASE f = g
  <2>1. Cardinality(Holders(g)') = Cardinality(Holders(g)) + 1
    BY HoldersFinite, FS_AddElement
  <2> QED
    BY <1>1, <2>1 DEF PinAccounting
<1>2. CASE f # g
  BY <1>2 DEF PinAccounting
<1> QED
  BY <1>1, <1>2

(* Lemma: Page::Unpin by a session that holds the pin keeps the accounts. *)
LEMMA PinDropped ==
  ASSUME PinAccounting, ref \in [Frames -> Nat], NEW t, NEW g \in Frames,
         ref' = [ref EXCEPT ![g] = @ - 1],
         t \in Holders(g), Holders(g)' = Holders(g) \ {t},
         \A f \in Frames \ {g} : Holders(f)' = Holders(f)
  PROVE  PinAccounting' /\ ref' \in [Frames -> Nat]
<1>1. /\ Cardinality(Holders(g)') = Cardinality(Holders(g)) - 1
      /\ Cardinality(Holders(g)) \in Nat \ {0}
  BY HoldersFinite, FS_RemoveElement
<1>2. ref[g] = Cardinality(Holders(g)) /\ ref'[g] = Cardinality(Holders(g)')
      /\ ref'[g] \in Nat
  BY <1>1 DEF PinAccounting
<1> QED
  BY <1>2 DEF PinAccounting

(* Lemma: a frame that GetVictim finds unpinned and unlatched has no owner *)
(* and no queued read.                                                     *)
LEMMA FreeFrame ==
  ASSUME LocalsOK, PinAccounting, ClaimsLatched, TasksOwned,
         NEW f \in Frames, ref[f] = 0, ~latch[f]
  PROVE  /\ \A t \in Threads : ~Owning(t, f) /\ ~Evicting(t, f)
         /\ \A p \in Pages : <<f, p>> \notin tasks
<1>1. Holders(f) = {}
  BY HoldersFinite DEF PinAccounting
<1>2. \A t \in Threads : ~Owning(t, f) /\ ~Evicting(t, f)
  BY <1>1 DEF Holders, Owning, Evicting, PinLocations, EvictLocations,
     ClaimsLatched
<1> QED
  BY <1>2 DEF TasksOwned

(* Lemma: an eviction in progress is an ownership. *)
LEMMA EvictorOwns ==
  ASSUME LocalsOK, NEW t \in Threads, NEW f \in Frames, Evicting(t, f)
  PROVE  Owning(t, f)
BY DEF LocalsOK, Owning, Evicting

-----------------------------------------------------------------------------
(* Lemmas on steps of one session *)

\* The locals of all sessions but t are unchanged.
Kept(t) ==
  \A u \in Threads \ {t} :
    /\ pc'[u] = pc[u] /\ want'[u] = want[u] /\ frame'[u] = frame[u]
    /\ mode'[u] = mode[u] /\ found'[u] = found[u]

(* Lemma: the other sessions own and hold what they owned and held. *)
LEMMA KeptOwning ==
  ASSUME NEW t \in Threads, Kept(t), NEW u \in Threads \ {t}, NEW f \in Frames
  PROVE  /\ Owning(u, f)' <=> Owning(u, f)
         /\ u \in Holders(f)' <=> u \in Holders(f)
BY DEF Kept, Owning, Holders

(* Lemma: a session that holds the same pin before and after a step leaves *)
(* the accounts as they are.                                               *)
LEMMA KeptPins ==
  ASSUME NEW t \in Threads, Kept(t), PinAccounting, ref' = ref,
         \A f \in Frames : t \in Holders(f)' <=> t \in Holders(f)
  PROVE  PinAccounting'
<1>1. \A f \in Frames : Holders(f)' \subseteq Threads /\ Holders(f) \subseteq Threads
  BY DEF Holders
<1>2. \A f \in Frames : Holders(f)' = Holders(f)
  BY <1>1, KeptOwning
<1> QED
  BY <1>2, PinsKept

(* Lemma: a session that takes a pin. *)
LEMMA KeptPinTaken ==
  ASSUME NEW t \in Threads, Kept(t), PinAccounting, ref \in [Frames -> Nat],
         NEW g \in Frames, ref' = [ref EXCEPT ![g] = @ + 1],
         \A f \in Frames : t \notin Holders(f),
         \A f \in Frames : t \in Holders(f)' <=> f = g
  PROVE  PinAccounting'
<1>1. \A f \in Frames : Holders(f)' \subseteq Threads /\ Holders(f) \subseteq Threads
  BY DEF Holders
<1>2. Holders(g)' = Holders(g) \cup {t}
  BY <1>1, KeptOwning
<1>3. \A f \in Frames \ {g} : Holders(f)' = Holders(f)
  BY <1>1, KeptOwning
<1> QED
  BY <1>2, <1>3, PinTaken

(* Lemma: a session that drops its pin. *)
LEMMA KeptPinDropped ==
  ASSUME NEW t \in Threads, Kept(t), PinAccounting, ref \in [Frames -> Nat],
         NEW g \in Frames, ref' = [ref EXCEPT ![g] = @ - 1],
         \A f \in Frames : t \in Holders(f) <=> f = g,
         \A f \in Frames : t \notin Holders(f)'
  PROVE  PinAccounting' /\ ref' \in [Frames -> Nat]
<1>1. \A f \in Frames : Holders(f)' \subseteq Threads /\ Holders(f) \subseteq Threads
  BY DEF Holders
<1>2. Holders(g)' = Holders(g) \ {t} /\ t \in Holders(g)
  BY <1>1, KeptOwning
<1>3. \A f \in Frames \ {g} : Holders(f)' = Holders(f)
  BY <1>1, KeptOwning
<1> QED
  BY <1>2, <1>3, PinDropped

(* Lemma: a step that gives its session no new frame keeps OneOwner. *)
LEMMA KeptOneOwner ==
  ASSUME NEW t \in Threads, Kept(t), OneOwner,
         \A f \in Frames : Owning(t, f)' => Owning(t, f)
  PROVE  OneOwner'
BY KeptOwning DEF OneOwner

(* Lemma: two owners have different frames. *)
LEMMA OwnersDiffer ==
  ASSUME OneOwner, NEW t \in Threads, NEW u \in Threads, t # u,
         NEW f \in Frames, Owning(t, f)
  PROVE  ~Owning(u, f)
BY DEF OneOwner

(* Lemma: id_ and the flag of a frame may change only in its owner's hands. *)
LEMMA KeptIds ==
  ASSUME NEW t \in Threads, Kept(t), OneOwner, OwnerHasItsId,
         \A f \in Frames : ~Owning(t, f) => id'[f] = id[f],
         \A f \in Frames : Owning(t, f)' /\ pc'[t] # "claimed" => id'[f] = want'[t]
  PROVE  OwnerHasItsId'
<1> SUFFICES ASSUME NEW u \in Threads, NEW f \in Frames,
                    Owning(u, f)', pc'[u] # "claimed"
             PROVE  id'[f] = want'[u]
  BY DEF OwnerHasItsId
<1>1. CASE u = t
  BY <1>1
<1>2. CASE u # t
  <2>1. Owning(u, f) /\ ~Owning(t, f)
    BY <1>2, KeptOwning DEF OneOwner
  <2> QED
    BY <1>2, <2>1 DEF OwnerHasItsId, Kept
<1> QED
  BY <1>1, <1>2

(* Lemma: a latch is released only by the owner that claimed the frame. *)
LEMMA KeptLatches ==
  ASSUME NEW t \in Threads, Kept(t), LocalsOK, OneOwner, ClaimsLatched,
         \A f \in Frames : ~Owning(t, f) /\ latch[f] => latch'[f],
         pc'[t] \in {"claimed", "marked"} => latch'[frame'[t]]
  PROVE  ClaimsLatched'
<1> SUFFICES ASSUME NEW u \in Threads, pc'[u] \in {"claimed", "marked"}
             PROVE  latch'[frame'[u]]
  BY DEF ClaimsLatched
<1>1. CASE u # t
  <2>1. /\ pc[u] \in {"claimed", "marked"} /\ frame'[u] = frame[u]
        /\ frame[u] \in Frames /\ Owning(u, frame[u])
    BY <1>1 DEF Kept, LocalsOK, Owning, EvictLocations
  <2> QED
    BY <1>1, <2>1 DEF OneOwner, ClaimsLatched
<1> QED
  BY <1>1

(* Lemma: the IO flag of a frame being loaded changes only in its owner's  *)
(* hands.                                                                  *)
LEMMA KeptFlags ==
  ASSUME NEW t \in Threads, Kept(t), LocalsOK, OneOwner, LoadHasFlag,
         \A f \in Frames : ~Owning(t, f) => io'[f] = io[f],
         mode'[t] = "load" /\ pc'[t] \in {"put", "undo", "evict", "fetch"}
           => io'[frame'[t]]
  PROVE  LoadHasFlag'
<1> SUFFICES ASSUME NEW u \in Threads, mode'[u] = "load",
                    pc'[u] \in {"put", "undo", "evict", "fetch"}
             PROVE  io'[frame'[u]]
  BY DEF LoadHasFlag
<1>1. CASE u # t
  <2>1. /\ pc[u] \in {"put", "undo", "evict", "fetch"} /\ mode[u] = "load"
        /\ frame'[u] = frame[u] /\ frame[u] \in Frames /\ Owning(u, frame[u])
    BY <1>1 DEF Kept, LocalsOK, Owning, EvictLocations
  <2> QED
    BY <1>1, <2>1 DEF OneOwner, LoadHasFlag
<1> QED
  BY <1>1

(* Lemma: a queued read keeps its owner and its flag as long as the owner  *)
(* stays in WaitIO, which it leaves only when the flag is clear.           *)
LEMMA KeptTasks ==
  ASSUME NEW t \in Threads, Kept(t), OneOwner, TasksOwned, tasks' = tasks,
         \A f \in Frames : ~Owning(t, f) => io'[f] = io[f],
         \/ pc[t] \notin {"wait", "asleep"}
         \/ ~io[frame[t]] /\ io' = io
         \/ /\ pc'[t] \in {"wait", "asleep"} /\ io' = io
            /\ want'[t] = want[t] /\ frame'[t] = frame[t] /\ mode'[t] = mode[t]
  PROVE  TasksOwned'
<1> SUFFICES ASSUME NEW f \in Frames, NEW p \in Pages, <<f, p>> \in tasks
             PROVE  /\ io'[f]
                    /\ \E u \in Threads : /\ Owning(u, f)' /\ want'[u] = p
                                          /\ mode'[u] = "load"
                                          /\ pc'[u] \in {"wait", "asleep"}
  BY DEF TasksOwned
<1>1. PICK u \in Threads : /\ Owning(u, f) /\ want[u] = p /\ mode[u] = "load"
                           /\ pc[u] \in {"wait", "asleep"}
  BY DEF TasksOwned
<1>2. io[f]
  BY DEF TasksOwned
<1>3. CASE u # t
  <2>1. Owning(u, f)' /\ ~Owning(t, f)
    BY <1>1, <1>3, KeptOwning DEF OneOwner
  <2> QED
    BY <1>1, <1>2, <1>3, <2>1 DEF Kept
<1>4. CASE u = t
  <2>1. frame[t] = f
    BY <1>1, <1>4 DEF Owning
  <2> QED
    BY <1>1, <1>2, <1>4, <2>1 DEF Owning
<1> QED
  BY <1>3, <1>4

-----------------------------------------------------------------------------
(* Lemma: a step of one session preserves the invariant. *)
LEMMA SessionStep ==
  ASSUME PoolInv, NEW t \in Threads,
         \/ (\E p \in Pages : PinStart(t, p)) \/ ReserveStart(t) \/ Step(t)
         \/ WriteBytes(t) \/ SpuriousWake(t)
  PROVE  PoolInv'
<1> USE BufferPoolAssumption
<1>1. ASSUME NEW p \in Pages, PinStart(t, p)
     PROVE  PoolInv'
  <2>1. /\ Kept(t)
        /\ pc[t] = "idle" /\ pc'[t] = "lookup"
        /\ want'[t] = p /\ frame'[t] = frame[t] /\ mode'[t] = mode[t] /\ found'[t] = found[t]
        /\ id' = id /\ io' = io /\ latch' = latch /\ ref' = ref /\ tasks' = tasks
    BY <1>1 DEF PinStart, Goto, poolVars, frameVars, PoolInv, TypeOK, Kept
  <2>2. PinAccounting'
    BY <2>1, KeptPins DEF PoolInv, Holders, PinLocations
  <2>3. TypeOK'
    BY <1>1, <2>1 DEF PinStart, Goto, PoolInv, TypeOK, Locations, Modes,
       frameVars, poolVars
  <2>4. LocalsOK'
    BY <2>1 DEF PoolInv, LocalsOK, Kept, PinLocations, EvictLocations
  <2>5. ClaimsLatched'
    BY <2>1, KeptLatches DEF PoolInv, TypeOK, ClaimsLatched, LocalsOK, Owning,
       EvictLocations
  <2>6. OneOwner'
    BY <2>1, KeptOneOwner DEF PoolInv, LocalsOK, Owning, EvictLocations
  <2>7. OwnerHasItsId'
    BY <2>1, KeptIds DEF PoolInv, TypeOK, LocalsOK, OwnerHasItsId, Owning,
       EvictLocations
  <2>8. LoadHasFlag'
    BY <2>1, KeptFlags DEF PoolInv, TypeOK, LocalsOK, LoadHasFlag, Owning,
       EvictLocations
  <2>9. TasksOwned'
    BY <2>1, KeptTasks DEF PoolInv, TypeOK, LocalsOK, Owning, EvictLocations
  <2> QED
    BY <2>2, <2>3, <2>4, <2>5, <2>6, <2>7, <2>8, <2>9 DEF PoolInv
<1>2. CASE ReserveStart(t)
  <2>1. /\ Kept(t)
        /\ pc[t] = "idle" /\ pc'[t] = "sweep"
        /\ want'[t] = nextPid /\ frame'[t] = frame[t] /\ mode'[t] = "reserve" /\ found'[t] = found[t]
        /\ id' = id /\ io' = io /\ latch' = latch /\ ref' = ref /\ tasks' = tasks
        /\ nextPid \in Pages
    BY <1>2 DEF ReserveStart, Goto, frameVars, PoolInv, TypeOK, Kept
  <2>2. PinAccounting'
    BY <2>1, KeptPins DEF PoolInv, Holders, PinLocations
  <2>3. TypeOK'
    BY <1>2, <2>1 DEF ReserveStart, Goto, PoolInv, TypeOK, Locations, Modes,
       Pages, frameVars
  <2>4. LocalsOK'
    BY <2>1 DEF PoolInv, LocalsOK, Kept, PinLocations, EvictLocations
  <2>5. ClaimsLatched'
    BY <2>1, KeptLatches DEF PoolInv, TypeOK, ClaimsLatched, LocalsOK, Owning,
       EvictLocations
  <2>6. OneOwner'
    BY <2>1, KeptOneOwner DEF PoolInv, LocalsOK, Owning, EvictLocations
  <2>7. OwnerHasItsId'
    BY <2>1, KeptIds DEF PoolInv, TypeOK, LocalsOK, OwnerHasItsId, Owning,
       EvictLocations
  <2>8. LoadHasFlag'
    BY <2>1, KeptFlags DEF PoolInv, TypeOK, LocalsOK, LoadHasFlag, Owning,
       EvictLocations
  <2>9. TasksOwned'
    BY <2>1, KeptTasks DEF PoolInv, TypeOK, LocalsOK, Owning, EvictLocations
  <2> QED
    BY <2>2, <2>3, <2>4, <2>5, <2>6, <2>7, <2>8, <2>9 DEF PoolInv
<1>3. CASE Lookup(t)
  <2>1. /\ Kept(t)
        /\ pc[t] = "lookup"
        /\ want'[t] = want[t] /\ found'[t] = found[t]
        /\ id' = id /\ io' = io /\ latch' = latch /\ ref' = ref /\ tasks' = tasks
        /\ \/ /\ pc'[t] = "visit" /\ mode'[t] = "visit" /\ frame'[t] \in Frames
           \/ pc'[t] = "sweep" /\ mode'[t] = "load"
    <3>1. /\ Kept(t) /\ pc[t] = "lookup"
          /\ want'[t] = want[t] /\ found'[t] = found[t]
          /\ id' = id /\ io' = io /\ latch' = latch /\ ref' = ref /\ tasks' = tasks
      BY <1>3 DEF Lookup, PoolInv, TypeOK, Kept, frameVars, poolVars
    <3>2. map[want[t]] \in Frames \cup {NoFrame}
      BY <1>3 DEF Lookup, PoolInv, TypeOK, LocalsOK
    <3>3. /\ t \in DOMAIN pc /\ t \in DOMAIN mode /\ t \in DOMAIN frame
      BY DEF PoolInv, TypeOK
    <3>4. CASE map[want[t]] # NoFrame
      BY <1>3, <3>2, <3>3, <3>4, <3>1 DEF Lookup
    <3>5. CASE map[want[t]] = NoFrame
      BY <1>3, <3>2, <3>3, <3>5, <3>1 DEF Lookup
    <3> QED
      BY <3>4, <3>5
  <2>2. PinAccounting'
    BY <2>1, KeptPins DEF PoolInv, Holders, PinLocations
  <2>3. TypeOK'
    BY <1>3, <2>1 DEF Lookup, PoolInv, TypeOK, Locations, Modes, frameVars,
       poolVars
  <2>4. LocalsOK'
    BY <2>1 DEF PoolInv, LocalsOK, Kept, PinLocations, EvictLocations
  <2>5. ClaimsLatched'
    BY <2>1, KeptLatches DEF PoolInv, TypeOK, ClaimsLatched, LocalsOK, Owning,
       EvictLocations
  <2>6. OneOwner'
    BY <2>1, KeptOneOwner DEF PoolInv, LocalsOK, Owning, EvictLocations
  <2>7. OwnerHasItsId'
    BY <2>1, KeptIds DEF PoolInv, TypeOK, LocalsOK, OwnerHasItsId, Owning,
       EvictLocations
  <2>8. LoadHasFlag'
    BY <2>1, KeptFlags DEF PoolInv, TypeOK, LocalsOK, LoadHasFlag, Owning,
       EvictLocations
  <2>9. TasksOwned'
    BY <2>1, KeptTasks DEF PoolInv, TypeOK, LocalsOK, Owning, EvictLocations
  <2> QED
    BY <2>2, <2>3, <2>4, <2>5, <2>6, <2>7, <2>8, <2>9 DEF PoolInv
<1>4. CASE VisitPin(t)
  <2>1. /\ Kept(t)
        /\ pc[t] = "visit" /\ pc'[t] = "check"
        /\ want'[t] = want[t] /\ frame'[t] = frame[t] /\ mode'[t] = mode[t] /\ found'[t] = found[t]
        /\ id' = id /\ io' = io /\ latch' = latch /\ tasks' = tasks
    BY <1>4 DEF VisitPin, Goto, poolVars, PoolInv, TypeOK, Kept
  <2>2. PinAccounting'
    <3>1. /\ frame[t] \in Frames
          /\ \A f \in Frames : t \notin Holders(f)
          /\ \A f \in Frames : t \in Holders(f)' <=> f = frame[t]
      BY <2>1 DEF PoolInv, LocalsOK, Holders, PinLocations, EvictLocations
    <3>2. ref' = [ref EXCEPT ![frame[t]] = @ + 1] /\ ref \in [Frames -> Nat]
      BY <1>4 DEF VisitPin, PoolInv, TypeOK
    <3> QED
      BY <2>1, <3>1, <3>2, KeptPinTaken DEF PoolInv
  <2>3. TypeOK'
    BY <1>4, <2>1 DEF VisitPin, Goto, PoolInv, TypeOK, LocalsOK, Locations,
       Modes, PinLocations, EvictLocations, frameVars, poolVars, threadVars
  <2>4. LocalsOK'
    BY <2>1 DEF PoolInv, LocalsOK, Kept, PinLocations, EvictLocations
  <2>5. ClaimsLatched'
    BY <2>1, KeptLatches DEF PoolInv, TypeOK, ClaimsLatched, LocalsOK, Owning,
       EvictLocations
  <2>6. OneOwner'
    BY <2>1, KeptOneOwner DEF PoolInv, LocalsOK, Owning, EvictLocations
  <2>7. OwnerHasItsId'
    BY <2>1, KeptIds DEF PoolInv, TypeOK, LocalsOK, OwnerHasItsId, Owning,
       EvictLocations
  <2>8. LoadHasFlag'
    BY <2>1, KeptFlags DEF PoolInv, TypeOK, LocalsOK, LoadHasFlag, Owning,
       EvictLocations
  <2>9. TasksOwned'
    BY <2>1, KeptTasks DEF PoolInv, TypeOK, LocalsOK, Owning, EvictLocations
  <2> QED
    BY <2>2, <2>3, <2>4, <2>5, <2>6, <2>7, <2>8, <2>9 DEF PoolInv
<1>5. CASE VisitCheck(t)
  <2>1. /\ Kept(t)
        /\ pc[t] = "check"
        /\ want'[t] = want[t] /\ frame'[t] = frame[t] /\ mode'[t] = mode[t] /\ found'[t] = found[t]
        /\ id' = id /\ io' = io /\ latch' = latch /\ ref' = ref /\ tasks' = tasks
        /\ pc'[t] \in {"wait", "unvisit"}
    BY <1>5 DEF VisitCheck, poolVars, frameVars, PoolInv, TypeOK, Kept
  <2>2. PinAccounting'
    BY <2>1, KeptPins DEF PoolInv, Holders, PinLocations
  <2>3. TypeOK'
    BY <1>5, <2>1 DEF VisitCheck, PoolInv, TypeOK, Locations, Modes, frameVars,
       poolVars
  <2>4. LocalsOK'
    BY <2>1 DEF PoolInv, LocalsOK, Kept, PinLocations, EvictLocations
  <2>5. ClaimsLatched'
    BY <2>1, KeptLatches DEF PoolInv, TypeOK, ClaimsLatched, LocalsOK, Owning,
       EvictLocations
  <2>6. OneOwner'
    BY <2>1, KeptOneOwner DEF PoolInv, LocalsOK, Owning, EvictLocations
  <2>7. OwnerHasItsId'
    BY <2>1, KeptIds DEF PoolInv, TypeOK, LocalsOK, OwnerHasItsId, Owning,
       EvictLocations
  <2>8. LoadHasFlag'
    BY <2>1, KeptFlags DEF PoolInv, TypeOK, LocalsOK, LoadHasFlag, Owning,
       EvictLocations
  <2>9. TasksOwned'
    BY <2>1, KeptTasks DEF PoolInv, TypeOK, LocalsOK, Owning, EvictLocations
  <2> QED
    BY <2>2, <2>3, <2>4, <2>5, <2>6, <2>7, <2>8, <2>9 DEF PoolInv
<1>6. CASE VisitUnpin(t)
  <2>1. /\ Kept(t)
        /\ pc[t] = "unvisit"
        /\ want'[t] = want[t] /\ found'[t] = found[t]
        /\ id' = id /\ io' = io /\ latch' = latch /\ tasks' = tasks
        /\ \/ pc'[t] = "sweep" /\ mode'[t] = "load"
           \/ pc'[t] = "lookup" /\ mode'[t] = "none"
    <3>1. /\ Kept(t) /\ pc[t] = "unvisit"
          /\ want'[t] = want[t] /\ found'[t] = found[t]
          /\ id' = id /\ io' = io /\ latch' = latch /\ tasks' = tasks
      BY <1>6 DEF VisitUnpin, PoolInv, TypeOK, Kept, frameVars, poolVars
    <3>2. t \in DOMAIN pc /\ t \in DOMAIN mode
      BY DEF PoolInv, TypeOK
    <3> QED
      BY <1>6, <3>1, <3>2 DEF VisitUnpin
  <2>2. PinAccounting' /\ ref' \in [Frames -> Nat]
    <3>1. /\ frame[t] \in Frames
          /\ \A f \in Frames : t \in Holders(f) <=> f = frame[t]
          /\ \A f \in Frames : t \notin Holders(f)'
      BY <2>1 DEF PoolInv, LocalsOK, Holders, PinLocations, EvictLocations
    <3>2. ref' = [ref EXCEPT ![frame[t]] = @ - 1] /\ ref \in [Frames -> Nat]
      BY <1>6 DEF VisitUnpin, PoolInv, TypeOK
    <3> QED
      BY <2>1, <3>1, <3>2, KeptPinDropped DEF PoolInv
  <2>3. TypeOK'
    BY <1>6, <2>1, <2>2 DEF VisitUnpin, PoolInv, TypeOK, Locations, Modes,
       poolVars
  <2>4. LocalsOK'
    BY <2>1 DEF PoolInv, LocalsOK, Kept, PinLocations, EvictLocations
  <2>5. ClaimsLatched'
    BY <2>1, KeptLatches DEF PoolInv, TypeOK, ClaimsLatched, LocalsOK, Owning,
       EvictLocations
  <2>6. OneOwner'
    BY <2>1, KeptOneOwner DEF PoolInv, LocalsOK, Owning, EvictLocations
  <2>7. OwnerHasItsId'
    BY <2>1, KeptIds DEF PoolInv, TypeOK, LocalsOK, OwnerHasItsId, Owning,
       EvictLocations
  <2>8. LoadHasFlag'
    BY <2>1, KeptFlags DEF PoolInv, TypeOK, LocalsOK, LoadHasFlag, Owning,
       EvictLocations
  <2>9. TasksOwned'
    BY <2>1, KeptTasks DEF PoolInv, TypeOK, LocalsOK, Owning, EvictLocations
  <2> QED
    BY <2>2, <2>3, <2>4, <2>5, <2>6, <2>7, <2>8, <2>9 DEF PoolInv
<1>7. CASE ClaimVictim(t)
  <2>1. /\ Kept(t)
        /\ pc[t] = "sweep" /\ pc'[t] = "claimed"
        /\ want'[t] = want[t] /\ frame'[t] = sweep /\ mode'[t] = mode[t] /\ found'[t] = found[t]
        /\ id' = id /\ io' = io /\ ref' = ref /\ tasks' = tasks
        /\ sweep \in Frames /\ ~latch[sweep] /\ ref[sweep] = 0
        /\ latch' = [latch EXCEPT ![sweep] = TRUE]
    BY <1>7 DEF ClaimVictim, Goto, IsEvictable, PoolInv, TypeOK, Kept
  <2>2. PinAccounting'
    BY <2>1, KeptPins DEF PoolInv, Holders, PinLocations
  <2>3. TypeOK'
    <3>1. sweep' \in 0 .. SweepSize - 1
      BY <1>7 DEF ClaimVictim, AdvanceSweep, PoolInv, TypeOK
    <3> QED
      BY <1>7, <2>1, <3>1 DEF ClaimVictim, Goto, PoolInv, TypeOK, Locations
  <2>4. LocalsOK'
    BY <2>1 DEF PoolInv, LocalsOK, Kept, PinLocations, EvictLocations
  <2>5. ClaimsLatched'
    BY <2>1, KeptLatches DEF PoolInv, TypeOK, ClaimsLatched, LocalsOK, Owning,
       EvictLocations
  <2>6. OneOwner'
    <3>1. \A u \in Threads : ~Owning(u, sweep)
      BY <2>1, FreeFrame DEF PoolInv
    <3>2. \A f \in Frames : Owning(t, f)' <=> f = sweep
      BY <2>1 DEF PoolInv, LocalsOK, Owning, EvictLocations
    <3> QED
      BY <2>1, <3>1, <3>2, KeptOwning DEF PoolInv, OneOwner
  <2>7. OwnerHasItsId'
    BY <2>1, KeptIds DEF PoolInv, TypeOK, LocalsOK, OwnerHasItsId, Owning,
       EvictLocations
  <2>8. LoadHasFlag'
    BY <2>1, KeptFlags DEF PoolInv, TypeOK, LocalsOK, LoadHasFlag, Owning,
       EvictLocations
  <2>9. TasksOwned'
    BY <2>1, KeptTasks DEF PoolInv, TypeOK, LocalsOK, Owning, EvictLocations
  <2> QED
    BY <2>2, <2>3, <2>4, <2>5, <2>6, <2>7, <2>8, <2>9 DEF PoolInv
<1>8. CASE SkipFrame(t)
  <2>1. /\ Kept(t)
        /\ pc[t] = "sweep" /\ pc'[t] = "sweep"
        /\ want'[t] = want[t] /\ frame'[t] = frame[t] /\ mode'[t] = mode[t] /\ found'[t] = found[t]
        /\ id' = id /\ io' = io /\ latch' = latch /\ ref' = ref /\ tasks' = tasks
    BY <1>8 DEF SkipFrame, threadVars, frameVars, PoolInv, TypeOK, Kept
  <2>2. PinAccounting'
    BY <2>1, KeptPins DEF PoolInv, Holders, PinLocations
  <2>3. TypeOK'
    <3>1. sweep' \in 0 .. SweepSize - 1
      BY <1>8 DEF SkipFrame, AdvanceSweep, PoolInv, TypeOK
    <3> QED
      BY <1>8, <3>1 DEF SkipFrame, PoolInv, TypeOK, frameVars, threadVars
  <2>4. LocalsOK'
    BY <2>1 DEF PoolInv, LocalsOK, Kept, PinLocations, EvictLocations
  <2>5. ClaimsLatched'
    BY <2>1, KeptLatches DEF PoolInv, TypeOK, ClaimsLatched, LocalsOK, Owning,
       EvictLocations
  <2>6. OneOwner'
    BY <2>1, KeptOneOwner DEF PoolInv, LocalsOK, Owning, EvictLocations
  <2>7. OwnerHasItsId'
    BY <2>1, KeptIds DEF PoolInv, TypeOK, LocalsOK, OwnerHasItsId, Owning,
       EvictLocations
  <2>8. LoadHasFlag'
    BY <2>1, KeptFlags DEF PoolInv, TypeOK, LocalsOK, LoadHasFlag, Owning,
       EvictLocations
  <2>9. TasksOwned'
    BY <2>1, KeptTasks DEF PoolInv, TypeOK, LocalsOK, Owning, EvictLocations
  <2> QED
    BY <2>2, <2>3, <2>4, <2>5, <2>6, <2>7, <2>8, <2>9 DEF PoolInv
<1>9. CASE MarkVictim(t)
  <2>1. /\ Kept(t)
        /\ pc[t] = "claimed" /\ pc'[t] = "marked"
        /\ want'[t] = want[t] /\ frame'[t] = frame[t] /\ mode'[t] = mode[t] /\ found'[t] = found[t]
        /\ io' = io /\ latch' = latch /\ ref' = ref /\ tasks' = tasks
        /\ id' = [id EXCEPT ![frame[t]] = want[t]]
    BY <1>9 DEF MarkVictim, Goto, poolVars, PoolInv, TypeOK, Kept
  <2>2. PinAccounting'
    BY <2>1, KeptPins DEF PoolInv, Holders, PinLocations
  <2>3. TypeOK'
    BY <1>9, <2>1 DEF MarkVictim, Goto, PoolInv, TypeOK, Locations, Modes,
       poolVars
  <2>4. LocalsOK'
    BY <2>1 DEF PoolInv, LocalsOK, Kept, PinLocations, EvictLocations
  <2>5. ClaimsLatched'
    BY <2>1, KeptLatches DEF PoolInv, TypeOK, ClaimsLatched, LocalsOK, Owning,
       EvictLocations
  <2>6. OneOwner'
    BY <2>1, KeptOneOwner DEF PoolInv, LocalsOK, Owning, EvictLocations
  <2>7. OwnerHasItsId'
    BY <2>1, KeptIds DEF PoolInv, TypeOK, LocalsOK, OwnerHasItsId, Owning,
       EvictLocations
  <2>8. LoadHasFlag'
    BY <2>1, KeptFlags DEF PoolInv, TypeOK, LocalsOK, LoadHasFlag, Owning,
       EvictLocations
  <2>9. TasksOwned'
    BY <2>1, KeptTasks DEF PoolInv, TypeOK, LocalsOK, Owning, EvictLocations
  <2> QED
    BY <2>2, <2>3, <2>4, <2>5, <2>6, <2>7, <2>8, <2>9 DEF PoolInv
<1>10. CASE ReleaseVictim(t)
  <2>1. /\ Kept(t)
        /\ pc[t] = "marked" /\ pc'[t] = "put"
        /\ want'[t] = want[t] /\ frame'[t] = frame[t] /\ mode'[t] = mode[t] /\ found'[t] = found[t]
        /\ id' = id /\ tasks' = tasks
        /\ io' = [io EXCEPT ![frame[t]] = (mode[t] = "load")]
        /\ latch' = [latch EXCEPT ![frame[t]] = FALSE]
    BY <1>10 DEF ReleaseVictim, Goto, poolVars, PoolInv, TypeOK, Kept
  <2>2. PinAccounting'
    <3>1. /\ frame[t] \in Frames
          /\ \A f \in Frames : t \notin Holders(f)
          /\ \A f \in Frames : t \in Holders(f)' <=> f = frame[t]
      BY <2>1 DEF PoolInv, LocalsOK, Holders, PinLocations, EvictLocations
    <3>2. ref' = [ref EXCEPT ![frame[t]] = @ + 1] /\ ref \in [Frames -> Nat]
      BY <1>10 DEF ReleaseVictim, PoolInv, TypeOK
    <3> QED
      BY <2>1, <3>1, <3>2, KeptPinTaken DEF PoolInv
  <2>3. TypeOK'
    BY <1>10, <2>1 DEF ReleaseVictim, Goto, PoolInv, TypeOK, LocalsOK,
       Locations, Modes, PinLocations, EvictLocations, frameVars, poolVars,
       threadVars
  <2>4. LocalsOK'
    BY <2>1 DEF PoolInv, LocalsOK, Kept, PinLocations, EvictLocations
  <2>5. ClaimsLatched'
    BY <2>1, KeptLatches DEF PoolInv, TypeOK, ClaimsLatched, LocalsOK, Owning,
       EvictLocations
  <2>6. OneOwner'
    BY <2>1, KeptOneOwner DEF PoolInv, LocalsOK, Owning, EvictLocations
  <2>7. OwnerHasItsId'
    BY <2>1, KeptIds DEF PoolInv, TypeOK, LocalsOK, OwnerHasItsId, Owning,
       EvictLocations
  <2>8. LoadHasFlag'
    BY <2>1, KeptFlags DEF PoolInv, TypeOK, LocalsOK, LoadHasFlag, Owning,
       EvictLocations
  <2>9. TasksOwned'
    BY <2>1, KeptTasks DEF PoolInv, TypeOK, LocalsOK, Owning, EvictLocations
  <2> QED
    BY <2>2, <2>3, <2>4, <2>5, <2>6, <2>7, <2>8, <2>9 DEF PoolInv
<1>11. CASE PutInserted(t)
  <2>1. /\ Kept(t)
        /\ pc[t] = "put" /\ pc'[t] = "evict"
        /\ want'[t] = want[t] /\ frame'[t] = frame[t] /\ mode'[t] = mode[t] /\ found'[t] = found[t]
        /\ id' = id /\ io' = io /\ latch' = latch /\ ref' = ref /\ tasks' = tasks
    BY <1>11 DEF PutInserted, Goto, frameVars, PoolInv, TypeOK, Kept
  <2>2. PinAccounting'
    BY <2>1, KeptPins DEF PoolInv, Holders, PinLocations
  <2>3. TypeOK'
    BY <1>11, <2>1 DEF PutInserted, Goto, PoolInv, TypeOK, Locations, Modes,
       frameVars
  <2>4. LocalsOK'
    BY <2>1 DEF PoolInv, LocalsOK, Kept, PinLocations, EvictLocations
  <2>5. ClaimsLatched'
    BY <2>1, KeptLatches DEF PoolInv, TypeOK, ClaimsLatched, LocalsOK, Owning,
       EvictLocations
  <2>6. OneOwner'
    BY <2>1, KeptOneOwner DEF PoolInv, LocalsOK, Owning, EvictLocations
  <2>7. OwnerHasItsId'
    BY <2>1, KeptIds DEF PoolInv, TypeOK, LocalsOK, OwnerHasItsId, Owning,
       EvictLocations
  <2>8. LoadHasFlag'
    BY <2>1, KeptFlags DEF PoolInv, TypeOK, LocalsOK, LoadHasFlag, Owning,
       EvictLocations
  <2>9. TasksOwned'
    BY <2>1, KeptTasks DEF PoolInv, TypeOK, LocalsOK, Owning, EvictLocations
  <2> QED
    BY <2>2, <2>3, <2>4, <2>5, <2>6, <2>7, <2>8, <2>9 DEF PoolInv
<1>12. CASE PutExisting(t)
  <2>1. /\ Kept(t)
        /\ pc[t] = "put" /\ pc'[t] = "undo"
        /\ want'[t] = want[t] /\ frame'[t] = frame[t] /\ mode'[t] = mode[t]
        /\ id' = id /\ io' = io /\ latch' = latch /\ ref' = ref /\ tasks' = tasks
        /\ found'[t] \in Frames /\ mode[t] = "load"
    BY <1>12 DEF PutExisting, Goto, poolVars, frameVars, PoolInv, TypeOK,
       LocalsOK, Kept, PinLocations, EvictLocations
  <2>2. PinAccounting'
    BY <2>1, KeptPins DEF PoolInv, Holders, PinLocations
  <2>3. TypeOK'
    BY <1>12, <2>1 DEF PutExisting, Goto, PoolInv, TypeOK, Locations, Modes,
       frameVars, poolVars
  <2>4. LocalsOK'
    BY <2>1 DEF PoolInv, LocalsOK, Kept, PinLocations, EvictLocations
  <2>5. ClaimsLatched'
    BY <2>1, KeptLatches DEF PoolInv, TypeOK, ClaimsLatched, LocalsOK, Owning,
       EvictLocations
  <2>6. OneOwner'
    BY <2>1, KeptOneOwner DEF PoolInv, LocalsOK, Owning, EvictLocations
  <2>7. OwnerHasItsId'
    BY <2>1, KeptIds DEF PoolInv, TypeOK, LocalsOK, OwnerHasItsId, Owning,
       EvictLocations
  <2>8. LoadHasFlag'
    BY <2>1, KeptFlags DEF PoolInv, TypeOK, LocalsOK, LoadHasFlag, Owning,
       EvictLocations
  <2>9. TasksOwned'
    BY <2>1, KeptTasks DEF PoolInv, TypeOK, LocalsOK, Owning, EvictLocations
  <2> QED
    BY <2>2, <2>3, <2>4, <2>5, <2>6, <2>7, <2>8, <2>9 DEF PoolInv
<1>13. CASE UndoState(t)
  <2>1. /\ Kept(t)
        /\ pc[t] = "undo" /\ pc'[t] = "visit"
        /\ want'[t] = want[t] /\ frame'[t] = found[t] /\ mode'[t] = "revisit"
        /\ latch' = latch /\ tasks' = tasks
        /\ id' = [id EXCEPT ![frame[t]] = victim[t]]
        /\ io' = [io EXCEPT ![frame[t]] = FALSE]
    BY <1>13 DEF UndoState, Goto, poolVars, PoolInv, TypeOK, Kept
  <2>2. PinAccounting' /\ ref' \in [Frames -> Nat]
    <3>1. /\ frame[t] \in Frames
          /\ \A f \in Frames : t \in Holders(f) <=> f = frame[t]
          /\ \A f \in Frames : t \notin Holders(f)'
      BY <2>1 DEF PoolInv, LocalsOK, Holders, PinLocations, EvictLocations
    <3>2. ref' = [ref EXCEPT ![frame[t]] = @ - 1] /\ ref \in [Frames -> Nat]
      BY <1>13 DEF UndoState, PoolInv, TypeOK
    <3> QED
      BY <2>1, <3>1, <3>2, KeptPinDropped DEF PoolInv
  <2>3. TypeOK'
    BY <1>13, <2>1, <2>2 DEF UndoState, Goto, PoolInv, TypeOK, Locations, Modes,
       poolVars
  <2>4. LocalsOK'
    BY <2>1 DEF PoolInv, LocalsOK, Kept, PinLocations, EvictLocations
  <2>5. ClaimsLatched'
    BY <2>1, KeptLatches DEF PoolInv, TypeOK, ClaimsLatched, LocalsOK, Owning,
       EvictLocations
  <2>6. OneOwner'
    BY <2>1, KeptOneOwner DEF PoolInv, LocalsOK, Owning, EvictLocations
  <2>7. OwnerHasItsId'
    BY <2>1, KeptIds DEF PoolInv, TypeOK, LocalsOK, OwnerHasItsId, Owning,
       EvictLocations
  <2>8. LoadHasFlag'
    BY <2>1, KeptFlags DEF PoolInv, TypeOK, LocalsOK, LoadHasFlag, Owning,
       EvictLocations
  <2>9. TasksOwned'
    BY <2>1, KeptTasks DEF PoolInv, TypeOK, LocalsOK, Owning, EvictLocations
  <2> QED
    BY <2>2, <2>3, <2>4, <2>5, <2>6, <2>7, <2>8, <2>9 DEF PoolInv
<1>14. CASE DeleteVictim(t)
  <2>1. /\ Kept(t)
        /\ pc[t] = "evict" /\ pc'[t] = "fetch"
        /\ want'[t] = want[t] /\ frame'[t] = frame[t] /\ mode'[t] = mode[t] /\ found'[t] = found[t]
        /\ id' = id /\ io' = io /\ latch' = latch /\ ref' = ref /\ tasks' = tasks
    BY <1>14 DEF DeleteVictim, Goto, frameVars, PoolInv, TypeOK, Kept
  <2>2. PinAccounting'
    BY <2>1, KeptPins DEF PoolInv, Holders, PinLocations
  <2>3. TypeOK'
    BY <1>14, <2>1 DEF DeleteVictim, Goto, PoolInv, TypeOK, Locations, Modes,
       frameVars
  <2>4. LocalsOK'
    BY <2>1 DEF PoolInv, LocalsOK, Kept, PinLocations, EvictLocations
  <2>5. ClaimsLatched'
    BY <2>1, KeptLatches DEF PoolInv, TypeOK, ClaimsLatched, LocalsOK, Owning,
       EvictLocations
  <2>6. OneOwner'
    BY <2>1, KeptOneOwner DEF PoolInv, LocalsOK, Owning, EvictLocations
  <2>7. OwnerHasItsId'
    BY <2>1, KeptIds DEF PoolInv, TypeOK, LocalsOK, OwnerHasItsId, Owning,
       EvictLocations
  <2>8. LoadHasFlag'
    BY <2>1, KeptFlags DEF PoolInv, TypeOK, LocalsOK, LoadHasFlag, Owning,
       EvictLocations
  <2>9. TasksOwned'
    BY <2>1, KeptTasks DEF PoolInv, TypeOK, LocalsOK, Owning, EvictLocations
  <2> QED
    BY <2>2, <2>3, <2>4, <2>5, <2>6, <2>7, <2>8, <2>9 DEF PoolInv
<1>15. CASE EnqueueRead(t)
  <2>1. /\ Kept(t)
        /\ pc[t] = "fetch" /\ pc'[t] = "wait"
        /\ want'[t] = want[t] /\ frame'[t] = frame[t] /\ mode'[t] = mode[t] /\ found'[t] = found[t]
        /\ id' = id /\ io' = io /\ latch' = latch /\ ref' = ref
        /\ mode[t] = "load"
        /\ tasks' = tasks \cup {<<frame[t], want[t]>>}
    BY <1>15 DEF EnqueueRead, Goto, PoolInv, TypeOK, Kept
  <2>2. PinAccounting'
    BY <2>1, KeptPins DEF PoolInv, Holders, PinLocations
  <2>3. TypeOK'
    BY <1>15, <2>1 DEF EnqueueRead, Goto, PoolInv, TypeOK, LocalsOK, Locations,
       Modes, PinLocations, EvictLocations, frameVars, poolVars, threadVars
  <2>4. LocalsOK'
    BY <2>1 DEF PoolInv, LocalsOK, Kept, PinLocations, EvictLocations
  <2>5. ClaimsLatched'
    BY <2>1, KeptLatches DEF PoolInv, TypeOK, ClaimsLatched, LocalsOK, Owning,
       EvictLocations
  <2>6. OneOwner'
    BY <2>1, KeptOneOwner DEF PoolInv, LocalsOK, Owning, EvictLocations
  <2>7. OwnerHasItsId'
    BY <2>1, KeptIds DEF PoolInv, TypeOK, LocalsOK, OwnerHasItsId, Owning,
       EvictLocations
  <2>8. LoadHasFlag'
    BY <2>1, KeptFlags DEF PoolInv, TypeOK, LocalsOK, LoadHasFlag, Owning,
       EvictLocations
  <2>9. TasksOwned'
    <3> SUFFICES ASSUME NEW f \in Frames, NEW q \in Pages, <<f, q>> \in tasks'
                 PROVE  /\ io'[f]
                        /\ \E u \in Threads : /\ Owning(u, f)' /\ want'[u] = q
                                              /\ mode'[u] = "load"
                                              /\ pc'[u] \in {"wait", "asleep"}
      BY DEF TasksOwned
    <3>1. CASE <<f, q>> = <<frame[t], want[t]>>
      BY <2>1, <3>1 DEF PoolInv, LoadHasFlag, Owning
    <3>2. CASE <<f, q>> \in tasks
      <4>1. PICK u \in Threads : /\ Owning(u, f) /\ want[u] = q /\ mode[u] = "load"
                                 /\ pc[u] \in {"wait", "asleep"}
        BY <3>2 DEF PoolInv, TasksOwned
      <4>2. u # t /\ io[f]
        BY <2>1, <3>2, <4>1 DEF PoolInv, TasksOwned
      <4> QED
        BY <2>1, <4>1, <4>2, KeptOwning DEF Kept
    <3> QED
      BY <2>1, <3>1, <3>2
  <2> QED
    BY <2>2, <2>3, <2>4, <2>5, <2>6, <2>7, <2>8, <2>9 DEF PoolInv
<1>16. CASE ZeroPage(t)
  <2>1. /\ Kept(t)
        /\ pc[t] = "fetch" /\ pc'[t] = "using"
        /\ want'[t] = want[t] /\ frame'[t] = frame[t] /\ mode'[t] = mode[t] /\ found'[t] = found[t]
        /\ id' = id /\ io' = io /\ latch' = latch /\ ref' = ref /\ tasks' = tasks
        /\ mode[t] = "reserve"
    BY <1>16 DEF ZeroPage, Goto, poolVars, PoolInv, TypeOK, Kept
  <2>2. PinAccounting'
    BY <2>1, KeptPins DEF PoolInv, Holders, PinLocations
  <2>3. TypeOK'
    BY <1>16, <2>1 DEF ZeroPage, Goto, PoolInv, TypeOK, Locations, Modes,
       poolVars
  <2>4. LocalsOK'
    BY <2>1 DEF PoolInv, LocalsOK, Kept, PinLocations, EvictLocations
  <2>5. ClaimsLatched'
    BY <2>1, KeptLatches DEF PoolInv, TypeOK, ClaimsLatched, LocalsOK, Owning,
       EvictLocations
  <2>6. OneOwner'
    BY <2>1, KeptOneOwner DEF PoolInv, LocalsOK, Owning, EvictLocations
  <2>7. OwnerHasItsId'
    BY <2>1, KeptIds DEF PoolInv, TypeOK, LocalsOK, OwnerHasItsId, Owning,
       EvictLocations
  <2>8. LoadHasFlag'
    BY <2>1, KeptFlags DEF PoolInv, TypeOK, LocalsOK, LoadHasFlag, Owning,
       EvictLocations
  <2>9. TasksOwned'
    BY <2>1, KeptTasks DEF PoolInv, TypeOK, LocalsOK, Owning, EvictLocations
  <2> QED
    BY <2>2, <2>3, <2>4, <2>5, <2>6, <2>7, <2>8, <2>9 DEF PoolInv
<1>17. CASE WaitIOReturn(t)
  <2>1. /\ Kept(t)
        /\ pc[t] = "wait" /\ pc'[t] = "using"
        /\ want'[t] = want[t] /\ frame'[t] = frame[t] /\ mode'[t] = mode[t] /\ found'[t] = found[t]
        /\ id' = id /\ io' = io /\ latch' = latch /\ ref' = ref /\ tasks' = tasks
        /\ ~io[frame[t]]
    BY <1>17 DEF WaitIOReturn, Goto, poolVars, frameVars, PoolInv, TypeOK, Kept
  <2>2. PinAccounting'
    BY <2>1, KeptPins DEF PoolInv, Holders, PinLocations
  <2>3. TypeOK'
    BY <1>17, <2>1 DEF WaitIOReturn, Goto, PoolInv, TypeOK, Locations, Modes,
       frameVars, poolVars
  <2>4. LocalsOK'
    BY <2>1 DEF PoolInv, LocalsOK, Kept, PinLocations, EvictLocations
  <2>5. ClaimsLatched'
    BY <2>1, KeptLatches DEF PoolInv, TypeOK, ClaimsLatched, LocalsOK, Owning,
       EvictLocations
  <2>6. OneOwner'
    BY <2>1, KeptOneOwner DEF PoolInv, LocalsOK, Owning, EvictLocations
  <2>7. OwnerHasItsId'
    BY <2>1, KeptIds DEF PoolInv, TypeOK, LocalsOK, OwnerHasItsId, Owning,
       EvictLocations
  <2>8. LoadHasFlag'
    BY <2>1, KeptFlags DEF PoolInv, TypeOK, LocalsOK, LoadHasFlag, Owning,
       EvictLocations
  <2>9. TasksOwned'
    BY <2>1, KeptTasks DEF PoolInv, TypeOK, LocalsOK, Owning, EvictLocations
  <2> QED
    BY <2>2, <2>3, <2>4, <2>5, <2>6, <2>7, <2>8, <2>9 DEF PoolInv
<1>18. CASE WaitIOSleep(t)
  <2>1. /\ Kept(t)
        /\ pc[t] = "wait" /\ pc'[t] = "asleep"
        /\ want'[t] = want[t] /\ frame'[t] = frame[t] /\ mode'[t] = mode[t] /\ found'[t] = found[t]
        /\ id' = id /\ io' = io /\ latch' = latch /\ ref' = ref /\ tasks' = tasks
    BY <1>18 DEF WaitIOSleep, Goto, poolVars, frameVars, PoolInv, TypeOK, Kept
  <2>2. PinAccounting'
    BY <2>1, KeptPins DEF PoolInv, Holders, PinLocations
  <2>3. TypeOK'
    BY <1>18, <2>1 DEF WaitIOSleep, Goto, PoolInv, TypeOK, Locations, Modes,
       frameVars, poolVars
  <2>4. LocalsOK'
    BY <2>1 DEF PoolInv, LocalsOK, Kept, PinLocations, EvictLocations
  <2>5. ClaimsLatched'
    BY <2>1, KeptLatches DEF PoolInv, TypeOK, ClaimsLatched, LocalsOK, Owning,
       EvictLocations
  <2>6. OneOwner'
    BY <2>1, KeptOneOwner DEF PoolInv, LocalsOK, Owning, EvictLocations
  <2>7. OwnerHasItsId'
    BY <2>1, KeptIds DEF PoolInv, TypeOK, LocalsOK, OwnerHasItsId, Owning,
       EvictLocations
  <2>8. LoadHasFlag'
    BY <2>1, KeptFlags DEF PoolInv, TypeOK, LocalsOK, LoadHasFlag, Owning,
       EvictLocations
  <2>9. TasksOwned'
    BY <2>1, KeptTasks DEF PoolInv, TypeOK, LocalsOK, Owning, EvictLocations
  <2> QED
    BY <2>2, <2>3, <2>4, <2>5, <2>6, <2>7, <2>8, <2>9 DEF PoolInv
<1>19. CASE Unpin(t)
  <2>1. /\ Kept(t)
        /\ pc[t] = "using" /\ pc'[t] = "idle"
        /\ mode'[t] = "none" /\ found'[t] = found[t]
        /\ id' = id /\ io' = io /\ latch' = latch /\ tasks' = tasks
    BY <1>19 DEF Unpin, Goto, poolVars, PoolInv, TypeOK, Kept
  <2>2. PinAccounting' /\ ref' \in [Frames -> Nat]
    <3>1. /\ frame[t] \in Frames
          /\ \A f \in Frames : t \in Holders(f) <=> f = frame[t]
          /\ \A f \in Frames : t \notin Holders(f)'
      BY <2>1 DEF PoolInv, LocalsOK, Holders, PinLocations, EvictLocations
    <3>2. ref' = [ref EXCEPT ![frame[t]] = @ - 1] /\ ref \in [Frames -> Nat]
      BY <1>19 DEF Unpin, PoolInv, TypeOK
    <3> QED
      BY <2>1, <3>1, <3>2, KeptPinDropped DEF PoolInv
  <2>3. TypeOK'
    BY <1>19, <2>1, <2>2 DEF Unpin, Goto, PoolInv, TypeOK, Locations, Modes,
       poolVars
  <2>4. LocalsOK'
    BY <2>1 DEF PoolInv, LocalsOK, Kept, PinLocations, EvictLocations
  <2>5. ClaimsLatched'
    BY <2>1, KeptLatches DEF PoolInv, TypeOK, ClaimsLatched, LocalsOK, Owning,
       EvictLocations
  <2>6. OneOwner'
    BY <2>1, KeptOneOwner DEF PoolInv, LocalsOK, Owning, EvictLocations
  <2>7. OwnerHasItsId'
    BY <2>1, KeptIds DEF PoolInv, TypeOK, LocalsOK, OwnerHasItsId, Owning,
       EvictLocations
  <2>8. LoadHasFlag'
    BY <2>1, KeptFlags DEF PoolInv, TypeOK, LocalsOK, LoadHasFlag, Owning,
       EvictLocations
  <2>9. TasksOwned'
    BY <2>1, KeptTasks DEF PoolInv, TypeOK, LocalsOK, Owning, EvictLocations
  <2> QED
    BY <2>2, <2>3, <2>4, <2>5, <2>6, <2>7, <2>8, <2>9 DEF PoolInv
<1>20. CASE WriteBytes(t)
  <2>1. /\ Kept(t)
        /\ pc[t] = "using" /\ pc'[t] = "using"
        /\ want'[t] = want[t] /\ frame'[t] = frame[t] /\ mode'[t] = mode[t] /\ found'[t] = found[t]
        /\ id' = id /\ io' = io /\ latch' = latch /\ ref' = ref /\ tasks' = tasks
    BY <1>20 DEF WriteBytes, threadVars, poolVars, PoolInv, TypeOK, Kept
  <2>2. PinAccounting'
    BY <2>1, KeptPins DEF PoolInv, Holders, PinLocations
  <2>3. TypeOK'
    BY <1>20, <2>1 DEF WriteBytes, PoolInv, TypeOK, LocalsOK, Locations, Modes,
       PinLocations, EvictLocations, frameVars, poolVars, threadVars
  <2>4. LocalsOK'
    BY <2>1 DEF PoolInv, LocalsOK, Kept, PinLocations, EvictLocations
  <2>5. ClaimsLatched'
    BY <2>1, KeptLatches DEF PoolInv, TypeOK, ClaimsLatched, LocalsOK, Owning,
       EvictLocations
  <2>6. OneOwner'
    BY <2>1, KeptOneOwner DEF PoolInv, LocalsOK, Owning, EvictLocations
  <2>7. OwnerHasItsId'
    BY <2>1, KeptIds DEF PoolInv, TypeOK, LocalsOK, OwnerHasItsId, Owning,
       EvictLocations
  <2>8. LoadHasFlag'
    BY <2>1, KeptFlags DEF PoolInv, TypeOK, LocalsOK, LoadHasFlag, Owning,
       EvictLocations
  <2>9. TasksOwned'
    BY <2>1, KeptTasks DEF PoolInv, TypeOK, LocalsOK, Owning, EvictLocations
  <2> QED
    BY <2>2, <2>3, <2>4, <2>5, <2>6, <2>7, <2>8, <2>9 DEF PoolInv
<1>21. CASE SpuriousWake(t)
  <2>1. /\ Kept(t)
        /\ pc[t] = "asleep" /\ pc'[t] = "wait"
        /\ want'[t] = want[t] /\ frame'[t] = frame[t] /\ mode'[t] = mode[t] /\ found'[t] = found[t]
        /\ id' = id /\ io' = io /\ latch' = latch /\ ref' = ref /\ tasks' = tasks
    BY <1>21 DEF SpuriousWake, Goto, poolVars, frameVars, PoolInv, TypeOK, Kept
  <2>2. PinAccounting'
    BY <2>1, KeptPins DEF PoolInv, Holders, PinLocations
  <2>3. TypeOK'
    BY <1>21, <2>1 DEF SpuriousWake, Goto, PoolInv, TypeOK, Locations, Modes,
       frameVars, poolVars
  <2>4. LocalsOK'
    BY <2>1 DEF PoolInv, LocalsOK, Kept, PinLocations, EvictLocations
  <2>5. ClaimsLatched'
    BY <2>1, KeptLatches DEF PoolInv, TypeOK, ClaimsLatched, LocalsOK, Owning,
       EvictLocations
  <2>6. OneOwner'
    BY <2>1, KeptOneOwner DEF PoolInv, LocalsOK, Owning, EvictLocations
  <2>7. OwnerHasItsId'
    BY <2>1, KeptIds DEF PoolInv, TypeOK, LocalsOK, OwnerHasItsId, Owning,
       EvictLocations
  <2>8. LoadHasFlag'
    BY <2>1, KeptFlags DEF PoolInv, TypeOK, LocalsOK, LoadHasFlag, Owning,
       EvictLocations
  <2>9. TasksOwned'
    BY <2>1, KeptTasks DEF PoolInv, TypeOK, LocalsOK, Owning, EvictLocations
  <2> QED
    BY <2>2, <2>3, <2>4, <2>5, <2>6, <2>7, <2>8, <2>9 DEF PoolInv
<1> QED
  BY <1>1, <1>2, <1>3, <1>4, <1>5, <1>6, <1>7, <1>8, <1>9, <1>10, <1>11, <1>12,
     <1>13, <1>14, <1>15, <1>16, <1>17, <1>18, <1>19, <1>20, <1>21 DEF Step

-----------------------------------------------------------------------------
(* Lemma: a completion of the disk preserves the invariant.  It clears the *)
(* flag of a frame whose owner waits for it, and moves sleepers between    *)
(* two locations that hold the same pin.                                   *)
LEMMA DiskStep ==
  ASSUME PoolInv, NEW g \in Frames, NEW q \in Pages, CompleteRead(g, q)
  PROVE  PoolInv'
<1>1. /\ want' = want /\ frame' = frame /\ mode' = mode /\ found' = found
      /\ id' = id /\ ref' = ref /\ latch' = latch
      /\ tasks' = tasks \ {<<g, q>>}
      /\ io' = [io EXCEPT ![g] = FALSE]
      /\ <<g, q>> \in tasks
  BY DEF CompleteRead
<1>2. \A u \in Threads : \/ pc'[u] = pc[u]
                         \/ pc[u] = "asleep" /\ pc'[u] = "wait"
  BY DEF CompleteRead
<1>3. /\ \A f \in Frames : Holders(f)' = Holders(f)
      /\ \A u \in Threads, f \in Frames : Owning(u, f)' <=> Owning(u, f)
  BY <1>1, <1>2 DEF Holders, Owning, PinLocations, EvictLocations
<1>4. PICK w \in Threads : /\ Owning(w, g) /\ want[w] = q
                           /\ pc[w] \in {"wait", "asleep"}
  BY <1>1 DEF PoolInv, TasksOwned
<1>5. PinAccounting'
  BY <1>1, <1>3, PinsKept DEF PoolInv
<1>6. TypeOK'
  <2>1. pc' \in [Threads -> Locations]
    BY DEF CompleteRead, PoolInv, TypeOK, Locations
  <2> QED
    BY <1>1, <2>1 DEF CompleteRead, PoolInv, TypeOK
<1>7. LocalsOK'
  BY <1>1, <1>2 DEF PoolInv, LocalsOK, PinLocations, EvictLocations
<1>8. ClaimsLatched'
  BY <1>1, <1>2 DEF PoolInv, ClaimsLatched
<1>9. OneOwner'
  BY <1>3 DEF PoolInv, OneOwner
<1>10. OwnerHasItsId'
  BY <1>1, <1>2, <1>3 DEF PoolInv, OwnerHasItsId
<1>11. LoadHasFlag'
  <2> SUFFICES ASSUME NEW u \in Threads, mode[u] = "load",
                      pc'[u] \in {"put", "undo", "evict", "fetch"}
               PROVE  io'[frame[u]]
    BY <1>1 DEF LoadHasFlag
  <2>1. /\ pc[u] \in {"put", "undo", "evict", "fetch"} /\ io[frame[u]]
        /\ frame[u] \in Frames /\ Owning(u, frame[u])
    BY <1>2 DEF PoolInv, LoadHasFlag, LocalsOK, Owning, EvictLocations
  <2>2. frame[u] # g
    BY <1>4, <2>1 DEF PoolInv, OneOwner
  <2> QED
    BY <1>1, <2>1, <2>2 DEF PoolInv, TypeOK
<1>12. TasksOwned'
  <2> SUFFICES ASSUME NEW f \in Frames, NEW p \in Pages, <<f, p>> \in tasks'
               PROVE  /\ io'[f]
                      /\ \E u \in Threads : /\ Owning(u, f)' /\ want'[u] = p
                                            /\ mode'[u] = "load"
                                            /\ pc'[u] \in {"wait", "asleep"}
    BY DEF TasksOwned
  <2>1. <<f, p>> \in tasks /\ <<f, p>> # <<g, q>>
    BY <1>1
  <2>2. PICK u \in Threads : /\ Owning(u, f) /\ want[u] = p /\ mode[u] = "load"
                             /\ pc[u] \in {"wait", "asleep"}
    BY <2>1 DEF PoolInv, TasksOwned
  <2>3. f # g /\ io[f]
    <3>1. f = g => u = w
      BY <1>4, <2>2 DEF PoolInv, OneOwner
    <3> QED
      BY <1>4, <2>1, <2>2, <3>1 DEF PoolInv, TasksOwned
  <2>4. io'[f]
    BY <1>1, <2>3 DEF PoolInv, TypeOK
  <2> QED
    BY <1>1, <1>2, <1>3, <2>2, <2>4
<1> QED
  BY <1>5, <1>6, <1>7, <1>8, <1>9, <1>10, <1>11, <1>12 DEF PoolInv

(* Lemma: the constructor establishes the invariant. *)
LEMMA InitPoolInv == Init => PoolInv
<1> SUFFICES ASSUME Init PROVE PoolInv
  OBVIOUS
<1>1. TypeOK
  BY BufferPoolAssumption DEF Init, TypeOK, Locations, Modes, NoPage, NoFrame
<1>2. \A t \in Threads : pc[t] = "idle" /\ mode[t] = "none"
  BY DEF Init
<1>3. PinAccounting
  <2>1. \A f \in Frames : Holders(f) = {} /\ ref[f] = 0
    BY <1>2 DEF Init, Holders, PinLocations
  <2> QED
    BY <2>1, FS_EmptySet DEF PinAccounting
<1>4. LocalsOK /\ ClaimsLatched /\ LoadHasFlag
  BY <1>2 DEF LocalsOK, ClaimsLatched, LoadHasFlag, PinLocations, EvictLocations
<1>5. OneOwner /\ OwnerHasItsId
  BY <1>2 DEF OneOwner, OwnerHasItsId, Owning, EvictLocations
<1>6. TasksOwned
  BY DEF Init, TasksOwned
<1> QED
  BY <1>1, <1>3, <1>4, <1>5, <1>6 DEF PoolInv

(* Lemma: every step preserves the invariant. *)
LEMMA NextPoolInv == PoolInv /\ [Next]_vars => PoolInv'
<1> SUFFICES ASSUME PoolInv, [Next]_vars PROVE PoolInv'
  OBVIOUS
<1>1. CASE UNCHANGED vars
  BY <1>1 DEF vars, frameVars, poolVars, threadVars, PoolInv, TypeOK, LocalsOK,
     PinAccounting, Holders, ClaimsLatched, OneOwner, Owning, OwnerHasItsId,
     LoadHasFlag, TasksOwned
<1>2. ASSUME NEW t \in Threads,
             \/ (\E p \in Pages : PinStart(t, p)) \/ ReserveStart(t) \/ Step(t)
             \/ WriteBytes(t) \/ SpuriousWake(t)
      PROVE  PoolInv'
  BY <1>2, SessionStep
<1>3. ASSUME NEW f \in Frames, NEW p \in Pages, CompleteRead(f, p)
      PROVE  PoolInv'
  BY <1>3, DiskStep
<1> QED
  BY <1>1, <1>2, <1>3 DEF Next, Disk

-----------------------------------------------------------------------------
(* Theorem: the inductive invariant holds in every reachable state.        *)
THEOREM PoolInvAlways == Spec => []PoolInv
BY InitPoolInv, NextPoolInv, PTL DEF Spec

(* Theorem: the buffer pool is type correct; in particular ref_count_ never *)
(* drops below zero.                                                        *)
THEOREM TypeCorrect == Spec => []TypeOK
<1>1. PoolInv => TypeOK
  BY DEF PoolInv
<1> QED
  BY <1>1, PoolInvAlways, PTL

(* Theorem: ref_count_ of a frame always equals the number of sessions that *)
(* hold a pin on it, through Pin, Unpin, Reserve, PageVisit and UndoState.  *)
THEOREM PinAccountingAlways == Spec => []PinAccounting
<1>1. PoolInv => PinAccounting
  BY DEF PoolInv
<1> QED
  BY <1>1, PoolInvAlways, PTL

(* Theorem: a frame never has two owners: GetVictim never takes a frame    *)
(* from the session that loads, reserved or still pins the page it fetched.*)
THEOREM OneOwnerAlways == Spec => []OneOwner
<1>1. PoolInv => OneOwner
  BY DEF PoolInv
<1> QED
  BY <1>1, PoolInvAlways, PTL

(* Theorem: the assertions of Page::SignalIO hold at every completion, the *)
(* frame still carries the page that was read, and no second read of the   *)
(* frame is outstanding.                                                   *)
THEOREM SignalIOAssertsAlways == Spec => []SignalIOAsserts
<1>1. PoolInv => SignalIOAsserts
  <2> SUFFICES ASSUME PoolInv, NEW task \in tasks
               PROVE  /\ io[task[1]] /\ ref[task[1]] > 0
                      /\ id[task[1]] = task[2]
                      /\ \A other \in tasks : other[1] = task[1] => other = task
    BY DEF SignalIOAsserts
  <2>1. \A k \in tasks : \E f \in Frames, p \in Pages : k = <<f, p>>
    BY DEF PoolInv, TypeOK
  <2>2. \A f \in Frames, p \in Pages : <<f, p>> \in tasks =>
          /\ io[f] /\ id[f] = p
          /\ \E t \in Threads : t \in Holders(f)
    <3> SUFFICES ASSUME NEW f \in Frames, NEW p \in Pages, <<f, p>> \in tasks
                 PROVE  io[f] /\ id[f] = p /\ \E t \in Threads : t \in Holders(f)
      OBVIOUS
    <3>1. PICK t \in Threads : /\ Owning(t, f) /\ want[t] = p
                               /\ pc[t] \in {"wait", "asleep"}
      BY DEF PoolInv, TasksOwned
    <3> QED
      BY <3>1 DEF PoolInv, TasksOwned, OwnerHasItsId, Owning, Holders,
         PinLocations
  <2>3. PICK f \in Frames, p \in Pages : task = <<f, p>>
    BY <2>1
  <2>4. io[f] /\ id[f] = p /\ Holders(f) # {}
    BY <2>2, <2>3
  <2>5. ref[f] > 0
    BY <2>4, HoldersFinite DEF PoolInv, PinAccounting
  <2>6. \A other \in tasks : other[1] = f => other = <<f, p>>
    BY <2>1, <2>2, <2>4
  <2> QED
    BY <2>3, <2>4, <2>5, <2>6
<1> QED
  BY <1>1, PoolInvAlways, PTL

-----------------------------------------------------------------------------
(***************************************************************************)
(* Which page is where: the page table, the ids and the bytes of the      *)
(* frames.                                                                 *)
(*                                                                         *)
(* The argument builds on PoolInv: a frame has one owner, so between the   *)
(* claim in GetVictim and the end of the eviction only that owner changes  *)
(* the frame's id_, its bytes, or the table entries that lead to it.  The  *)
(* victim therefore stays mapped to the frame, and its bytes stay in it,   *)
(* until the owner's Put has decided which of the two pages keeps the      *)
(* frame.  A page id handed out by Reserve is known to nobody else before  *)
(* Reserve returns, so nobody else maps it.                                *)
(***************************************************************************)

\* Between the claim and the Delete (or the undo) a session has a victim.
VictimLocations == {"claimed", "marked", "put", "undo", "evict"}

\* A call that has not chosen its path has no mode, and Reserve never waits.
LocalModes(t) ==
  /\ pc[t] \in {"idle", "lookup"} => mode[t] = "none"
  /\ pc[t] \in {"wait", "asleep"} => mode[t] # "reserve"

\* The page ids in a session's locals have been handed out.
PidsOK(t) ==
  /\ want[t] < nextPid /\ victim[t] < nextPid
  /\ mode[t] = "reserve" => want[t] > DiskPages

\* A page being reserved is not in the page table before its own Put.
ReservedUnmapped(t) ==
  mode[t] = "reserve" /\ pc[t] \in {"sweep", "claimed", "marked", "put"}
    => map[want[t]] = NoFrame

\* The victim stays mapped to the claimed frame, and nothing else is, until
\* the session's own Put and Delete.
VictimMapped(t) ==
  pc[t] \in VictimLocations =>
    /\ victim[t] # NoPage => map[victim[t]] = frame[t]
    /\ \A p \in Pages : map[p] = frame[t] =>
         p = victim[t] \/ (pc[t] = "evict" /\ p = want[t])
    /\ pc[t] = "claimed" => id[frame[t]] = victim[t]
    /\ pc[t] = "evict" => map[want[t]] = frame[t] /\ victim[t] # want[t]

\* The victim's bytes and version array are still in the claimed frame.
VictimIntact(t) ==
  pc[t] \in VictimLocations =>
    /\ data[frame[t]] = victim[t]
    /\ victim[t] \in 1 .. DiskPages => versions[frame[t]] = victim[t]

\* What a session fetched is in its frame, or its read is still queued.
BytesOnTheWay(t) ==
  /\ mode[t] = "load" /\ pc[t] \in {"wait", "asleep", "using"} =>
       /\ versions[frame[t]] = want[t]
       /\ <<frame[t], want[t]>> \in tasks \/ data[frame[t]] = want[t]
  /\ mode[t] = "reserve" /\ pc[t] = "using" => data[frame[t]] = want[t]

SessionPages(t) ==
  /\ LocalModes(t) /\ PidsOK(t) /\ ReservedUnmapped(t)
  /\ VictimMapped(t) /\ VictimIntact(t) /\ BytesOnTheWay(t)

\* Frames hold only page ids that have been handed out.
PidsHandedOut == nextPid > DiskPages /\ \A f \in Frames : id[f] < nextPid

\* Until Reserve returns no other session asks for its page.
ReservedAlone ==
  \A t, u \in Threads :
    t # u /\ mode[t] = "reserve" /\ pc[t] # "using" => want[u] # want[t]

PagesInv ==
  /\ PidsHandedOut /\ ReservedAlone /\ \A t \in Threads : SessionPages(t)
  /\ PageTableConsistent /\ FrameHoldsItsPage

-----------------------------------------------------------------------------
(* Lemmas on steps of one session *)

\* The locals of all sessions but t are unchanged.
Others(t) == Kept(t) /\ \A u \in Threads \ {t} : victim'[u] = victim[u]

\* Only frames that t owns get another id_, other bytes, another version
\* array or another queued read.
FramesKept(t) ==
  \A f \in Frames : ~Owning(t, f) =>
    /\ id'[f] = id[f] /\ data'[f] = data[f] /\ versions'[f] = versions[f]
    /\ \A p \in Pages : <<f, p>> \in tasks' <=> <<f, p>> \in tasks

\* Only t's page gains an entry, and only entries of t's frame are lost.
EntriesKept(t) ==
  \A p \in Pages :
    \/ map'[p] = map[p]
    \/ /\ map[p] = NoFrame /\ p = want[t]
       /\ map'[p] = frame[t] /\ frame[t] \in Frames /\ Owning(t, frame[t])
    \/ map'[p] = NoFrame /\ map[p] \in Frames /\ Owning(t, map[p])

(* Lemma: a session that has a victim, or has fetched a page, owns its frame. *)
LEMMA SessionOwns ==
  ASSUME LocalsOK, NEW t \in Threads,
         \/ pc[t] \in VictimLocations
         \/ mode[t] \in {"load", "reserve"} /\ pc[t] \in {"wait", "asleep", "using"}
  PROVE  frame[t] \in Frames /\ Owning(t, frame[t])
BY DEF LocalsOK, Owning, VictimLocations, EvictLocations, PinLocations

(* Lemma: what a session relies on survives the steps of another session,  *)
(* which change only frames and table entries of their own.                *)
LEMMA OtherSessions ==
  ASSUME PoolInv, PagesInv, NEW t \in Threads, NEW u \in Threads, u # t,
         Others(t), FramesKept(t), EntriesKept(t),
         nextPid' \in Nat, nextPid' >= nextPid
  PROVE  SessionPages(u)'
<1> USE BufferPoolAssumption
<1>1. /\ pc'[u] = pc[u] /\ want'[u] = want[u] /\ frame'[u] = frame[u]
      /\ mode'[u] = mode[u] /\ victim'[u] = victim[u]
  BY DEF Others, Kept
<1>2. SessionPages(u)
  BY DEF PagesInv
<1>3. /\ want[u] \in Pages \cup {NoPage} /\ victim[u] \in Pages \cup {NoPage}
      /\ nextPid \in Nat
      /\ pc[u] # "idle" => want[u] \in Pages
  BY DEF PoolInv, TypeOK, LocalsOK
<1>4. LocalModes(u)'
  BY <1>1, <1>2 DEF SessionPages, LocalModes
<1>5. PidsOK(u)'
  BY <1>1, <1>2, <1>3 DEF SessionPages, PidsOK, Pages, NoPage
<1>6. ReservedUnmapped(u)'
  <2> SUFFICES ASSUME mode[u] = "reserve",
                      pc[u] \in {"sweep", "claimed", "marked", "put"}
               PROVE  map'[want[u]] = NoFrame
    BY <1>1 DEF ReservedUnmapped
  <2>1. map[want[u]] = NoFrame /\ want[u] \in Pages
    BY <1>2, <1>3 DEF SessionPages, ReservedUnmapped
  <2>2. want[t] # want[u]
    BY DEF PagesInv, ReservedAlone
  <2> QED
    BY <2>1, <2>2 DEF EntriesKept, Frames, NoFrame
<1>7. CASE pc[u] \in VictimLocations
  <2>1. frame[u] \in Frames /\ Owning(u, frame[u])
    BY <1>7, SessionOwns DEF PoolInv
  <2>2. ~Owning(t, frame[u])
    BY <2>1, OwnersDiffer DEF PoolInv
  <2>3. /\ id'[frame[u]] = id[frame[u]] /\ data'[frame[u]] = data[frame[u]]
        /\ versions'[frame[u]] = versions[frame[u]]
    BY <2>1, <2>2 DEF FramesKept
  <2>4. \A p \in Pages : map'[p] = frame[u] <=> map[p] = frame[u]
    <3> SUFFICES ASSUME NEW p \in Pages
                 PROVE  map'[p] = frame[u] <=> map[p] = frame[u]
      OBVIOUS
    <3>1. frame[u] # NoFrame
      BY <2>1 DEF Frames, NoFrame
    <3> QED
      BY <2>2, <3>1 DEF EntriesKept
  <2>5. VictimMapped(u)'
    <3>1. VictimMapped(u)
      BY <1>2 DEF SessionPages
    <3>2. pc[u] = "evict" => want[u] \in Pages
      BY <1>3
    <3> QED
      BY <1>1, <1>3, <1>7, <2>3, <2>4, <3>1, <3>2 DEF VictimMapped
  <2>6. VictimIntact(u)'
    BY <1>1, <1>2, <1>7, <2>3 DEF SessionPages, VictimIntact
  <2>7. BytesOnTheWay(u)'
    BY <1>1, <1>7 DEF BytesOnTheWay, VictimLocations
  <2> QED
    BY <1>4, <1>5, <1>6, <2>5, <2>6, <2>7 DEF SessionPages
<1>8. CASE pc[u] \notin VictimLocations
  <2>1. VictimMapped(u)' /\ VictimIntact(u)'
    BY <1>1, <1>8 DEF VictimMapped, VictimIntact
  <2>2. BytesOnTheWay(u)'
    <3>1. CASE ~(mode[u] \in {"load", "reserve"} /\ pc[u] \in {"wait", "asleep", "using"})
      BY <1>1, <3>1 DEF BytesOnTheWay
    <3>2. CASE mode[u] \in {"load", "reserve"} /\ pc[u] \in {"wait", "asleep", "using"}
      <4>1. frame[u] \in Frames /\ Owning(u, frame[u])
        BY <3>2, SessionOwns DEF PoolInv
      <4>2. ~Owning(t, frame[u])
        BY <4>1, OwnersDiffer DEF PoolInv
      <4>3. want[u] \in Pages
        BY <1>3, <3>2
      <4>4. /\ data'[frame[u]] = data[frame[u]]
            /\ versions'[frame[u]] = versions[frame[u]]
            /\ <<frame[u], want[u]>> \in tasks' <=> <<frame[u], want[u]>> \in tasks
        BY <4>1, <4>2, <4>3 DEF FramesKept
      <4> QED
        BY <1>1, <1>2, <4>4 DEF SessionPages, BytesOnTheWay
    <3> QED
      BY <3>1, <3>2
  <2> QED
    BY <1>4, <1>5, <1>6, <2>1, <2>2 DEF SessionPages
<1> QED
  BY <1>7, <1>8

(* Lemma: a step that changes neither ids nor entries keeps the table      *)
(* consistent, if its session goes on explaining what it explained.        *)
LEMMA TableQuiet ==
  ASSUME PageTableConsistent, NEW t \in Threads, Others(t), id' = id, map' = map,
         \/ pc[t] \notin {"marked", "put", "undo", "evict"}
         \/ /\ frame'[t] = frame[t] /\ victim'[t] = victim[t] /\ want'[t] = want[t]
            /\ pc[t] \in {"marked", "put"} /\ pc'[t] \in {"put", "undo"}
  PROVE  PageTableConsistent'
<1>1. ASSUME NEW p \in Pages, map[p] # NoFrame
      PROVE  \/ id[map[p]] = p
             \/ \E u \in Threads : /\ frame'[u] = map[p] /\ victim'[u] = p
                                   /\ pc'[u] \in {"marked", "put", "undo", "evict"}
  BY <1>1 DEF PageTableConsistent, Others, Kept
<1>2. ASSUME NEW f \in Frames, id[f] # NoPage
      PROVE  \/ map[id[f]] = f
             \/ \E u \in Threads : /\ frame'[u] = f /\ want'[u] = id[f]
                                   /\ pc'[u] \in {"marked", "put", "undo"}
  BY <1>2 DEF PageTableConsistent, Others, Kept
<1> QED
  BY <1>1, <1>2 DEF PageTableConsistent

(* Lemma: a step that changes no frame keeps every settled frame intact,   *)
(* if it ends no eviction.                                                 *)
LEMMA FramesQuiet ==
  ASSUME FrameHoldsItsPage, NEW t \in Threads, Others(t),
         id' = id, data' = data, versions' = versions,
         \A f \in Frames : Evicting(t, f) => Evicting(t, f)',
         \A f \in Frames : ~Evicting(t, f) => io'[f] = io[f]
  PROVE  FrameHoldsItsPage'
<1> SUFFICES ASSUME NEW f \in Frames, Settled(f)' PROVE Settled(f)
  BY DEF FrameHoldsItsPage
<1>1. \A u \in Threads \ {t} : Evicting(u, f)' <=> Evicting(u, f)
  BY DEF Others, Kept, Evicting
<1>2. \A u \in Threads : ~Evicting(u, f)'
  BY DEF Settled
<1> QED
  BY <1>1, <1>2 DEF Settled

(* Lemma: a step that neither begins a call nor ends one leaves the        *)
(* reserved pages to those who reserved them.                              *)
LEMMA ReservedQuiet ==
  ASSUME ReservedAlone, NEW t \in Threads, Others(t), want'[t] = want[t],
         mode'[t] = "reserve" /\ pc'[t] # "using"
           => mode[t] = "reserve" /\ pc[t] # "using"
  PROVE  ReservedAlone'
BY DEF ReservedAlone, Others, Kept

(* Lemma: the parts of the invariant that a step of t keeps when it        *)
(* changes no id, no bytes and no table entry.                             *)
LEMMA QuietStep ==
  ASSUME PoolInv, PagesInv, NEW t \in Threads, Others(t),
         id' = id, data' = data, versions' = versions, map' = map, tasks' = tasks,
         nextPid' \in Nat, nextPid' >= nextPid,
         SessionPages(t)', ReservedAlone',
         \A f \in Frames : Evicting(t, f) => Evicting(t, f)',
         \A f \in Frames : ~Evicting(t, f) => io'[f] = io[f],
         \/ pc[t] \notin {"marked", "put", "undo", "evict"}
         \/ /\ frame'[t] = frame[t] /\ victim'[t] = victim[t] /\ want'[t] = want[t]
            /\ pc[t] \in {"marked", "put"} /\ pc'[t] \in {"put", "undo"}
  PROVE  PagesInv'
<1> USE BufferPoolAssumption
<1>1. FramesKept(t) /\ EntriesKept(t)
  BY DEF FramesKept, EntriesKept
<1>2. \A u \in Threads : SessionPages(u)'
  BY <1>1, OtherSessions
<1>3. PageTableConsistent'
  BY TableQuiet DEF PagesInv
<1>4. FrameHoldsItsPage'
  BY FramesQuiet DEF PagesInv
<1>5. PidsHandedOut'
  <2>1. \A f \in Frames : id[f] \in Nat
    BY DEF PoolInv, TypeOK, Pages, NoPage
  <2>2. nextPid \in Nat
    BY DEF PoolInv, TypeOK
  <2> QED
    BY <2>1, <2>2 DEF PagesInv, PidsHandedOut
<1> QED
  BY <1>2, <1>3, <1>4, <1>5 DEF PagesInv

(* Lemma: the steps that change no id, no bytes and no table entry.        *)
LEMMA QuietSteps ==
  ASSUME PoolInv, PagesInv, NEW t \in Threads,
         \/ (\E p \in Pages : PinStart(t, p)) \/ ReserveStart(t)
         \/ Lookup(t) \/ VisitPin(t) \/ VisitCheck(t) \/ VisitUnpin(t)
         \/ ClaimVictim(t) \/ SkipFrame(t) \/ ReleaseVictim(t) \/ PutExisting(t)
         \/ WaitIOReturn(t) \/ WaitIOSleep(t) \/ Unpin(t)
         \/ WriteBytes(t) \/ SpuriousWake(t)
  PROVE  PagesInv'
<1> USE BufferPoolAssumption
<1>a. SessionPages(t) /\ ReservedAlone
  BY DEF PagesInv
<1>b. nextPid \in Nat /\ (pc[t] # "idle" => want[t] \in Pages)
  BY DEF PoolInv, TypeOK, LocalsOK
<1>1. ASSUME NEW p \in Pages, PinStart(t, p)
      PROVE  PagesInv'
  <2>1. /\ Others(t)
        /\ pc[t] = "idle" /\ pc'[t] = "lookup"
        /\ want'[t] = p /\ mode'[t] = mode[t] /\ victim'[t] = victim[t]
        /\ nextPid' = nextPid
        /\ id' = id /\ data' = data /\ versions' = versions
        /\ map' = map /\ tasks' = tasks
    BY <1>1 DEF PinStart, Goto, PoolInv, TypeOK, Others, Kept, frameVars,
       poolVars, threadVars
  <2>2. SessionPages(t)'
    <3>1. p < nextPid
      BY <1>1 DEF PinStart, Known
    <3> QED
      BY <1>a, <2>1, <3>1 DEF SessionPages, LocalModes, PidsOK, ReservedUnmapped,
         VictimMapped, VictimIntact, BytesOnTheWay, VictimLocations
  <2>3. ReservedAlone'
    <3>1. \A u \in Threads : mode[u] = "reserve" /\ pc[u] # "using" => want[u] # p
      BY <1>1 DEF PinStart, Known, BeingReserved
    <3>2. mode[t] # "reserve"
      BY <1>a, <2>1 DEF SessionPages, LocalModes
    <3> QED
      BY <1>a, <2>1, <3>1, <3>2 DEF ReservedAlone, Others, Kept
  <2>4. \A f \in Frames : /\ Evicting(t, f) => Evicting(t, f)'
                          /\ ~Evicting(t, f) => io'[f] = io[f]
    BY <1>1, <2>1 DEF PinStart, Goto, frameVars, Evicting, EvictLocations, PoolInv, TypeOK,
       LocalsOK, PinLocations
  <2> QED
    BY <1>b, <2>1, <2>2, <2>3, <2>4, QuietStep
<1>2. CASE ReserveStart(t)
  <2>1. /\ Others(t)
        /\ pc[t] = "idle" /\ pc'[t] = "sweep"
        /\ want'[t] = nextPid /\ mode'[t] = "reserve" /\ victim'[t] = victim[t]
        /\ nextPid \in Pages /\ nextPid' = nextPid + 1
        /\ id' = id /\ data' = data /\ versions' = versions
        /\ map' = map /\ tasks' = tasks
    BY <1>2 DEF ReserveStart, Goto, PoolInv, TypeOK, Others, Kept, frameVars,
       poolVars, threadVars
  <2>2. SessionPages(t)'
    <3>1. map[nextPid] = NoFrame
      <4> SUFFICES ASSUME map[nextPid] # NoFrame PROVE FALSE
        OBVIOUS
      <4>1. map[nextPid] \in Frames
        BY <2>1 DEF PoolInv, TypeOK
      <4>2. id[map[nextPid]] = nextPid \/ \E u \in Threads : victim[u] = nextPid
        BY <2>1 DEF PagesInv, PageTableConsistent
      <4>3. id[map[nextPid]] < nextPid /\ \A u \in Threads : victim[u] < nextPid
        BY <4>1 DEF PagesInv, PidsHandedOut, SessionPages, PidsOK
      <4> QED
        BY <1>b, <4>2, <4>3
    <3>2. nextPid > DiskPages /\ victim[t] < nextPid /\ victim[t] \in Nat
      BY <1>a DEF PagesInv, PidsHandedOut, SessionPages, PidsOK, PoolInv, TypeOK,
         Pages, NoPage
    <3> QED
      BY <1>b, <2>1, <3>1, <3>2 DEF SessionPages, LocalModes, PidsOK,
         ReservedUnmapped, VictimMapped, VictimIntact, BytesOnTheWay, VictimLocations
  <2>3. ReservedAlone'
    <3>1. \A u \in Threads : want[u] < nextPid /\ want[u] \in Nat
      BY DEF PagesInv, SessionPages, PidsOK, PoolInv, TypeOK, Pages, NoPage
    <3>2. \A u \in Threads : want[u] # nextPid
      BY <1>b, <3>1
    <3> QED
      BY <1>a, <2>1, <3>2 DEF ReservedAlone, Others, Kept
  <2>4. \A f \in Frames : /\ Evicting(t, f) => Evicting(t, f)'
                          /\ ~Evicting(t, f) => io'[f] = io[f]
    BY <1>2, <2>1 DEF ReserveStart, Goto, frameVars, Evicting, EvictLocations, PoolInv, TypeOK,
       LocalsOK, PinLocations
  <2> QED
    BY <1>b, <2>1, <2>2, <2>3, <2>4, QuietStep
<1>3. CASE Lookup(t)
  <2>1. /\ Others(t)
        /\ pc[t] = "lookup" /\ pc'[t] \in {"visit", "sweep"}
        /\ want'[t] = want[t] /\ mode'[t] \in {"visit", "load"} /\ victim'[t] = victim[t]
        /\ nextPid' = nextPid
        /\ id' = id /\ data' = data /\ versions' = versions
        /\ map' = map /\ tasks' = tasks
    BY <1>3 DEF Lookup, PoolInv, TypeOK, Others, Kept, frameVars,
       poolVars, threadVars
  <2>2. SessionPages(t)'
    BY <1>a, <1>b, <2>1 DEF SessionPages, LocalModes, PidsOK, ReservedUnmapped,
       VictimMapped, VictimIntact, BytesOnTheWay, VictimLocations
  <2>3. ReservedAlone'
    BY <1>a, <2>1, ReservedQuiet
  <2>4. \A f \in Frames : /\ Evicting(t, f) => Evicting(t, f)'
                          /\ ~Evicting(t, f) => io'[f] = io[f]
    BY <1>3, <2>1 DEF Lookup, Goto, frameVars, Evicting, EvictLocations, PoolInv, TypeOK,
       LocalsOK, PinLocations
  <2> QED
    BY <1>b, <2>1, <2>2, <2>3, <2>4, QuietStep
<1>4. CASE VisitPin(t)
  <2>1. /\ Others(t)
        /\ pc[t] = "visit" /\ pc'[t] = "check"
        /\ want'[t] = want[t] /\ frame'[t] = frame[t] /\ mode'[t] = mode[t] /\ victim'[t] = victim[t]
        /\ nextPid' = nextPid
        /\ id' = id /\ data' = data /\ versions' = versions
        /\ map' = map /\ tasks' = tasks
    BY <1>4 DEF VisitPin, Goto, PoolInv, TypeOK, Others, Kept, frameVars,
       poolVars, threadVars
  <2>2. SessionPages(t)'
    BY <1>a, <1>b, <2>1 DEF SessionPages, LocalModes, PidsOK, ReservedUnmapped,
       VictimMapped, VictimIntact, BytesOnTheWay, VictimLocations
  <2>3. ReservedAlone'
    BY <1>a, <2>1, ReservedQuiet
  <2>4. \A f \in Frames : /\ Evicting(t, f) => Evicting(t, f)'
                          /\ ~Evicting(t, f) => io'[f] = io[f]
    BY <1>4, <2>1 DEF VisitPin, Goto, frameVars, Evicting, EvictLocations, PoolInv, TypeOK,
       LocalsOK, PinLocations
  <2> QED
    BY <1>b, <2>1, <2>2, <2>3, <2>4, QuietStep
<1>5. CASE VisitCheck(t)
  <2>1. /\ Others(t)
        /\ pc[t] = "check" /\ pc'[t] \in {"wait", "unvisit"}
        /\ mode[t] \in {"visit", "revisit"}
        /\ want'[t] = want[t] /\ frame'[t] = frame[t] /\ mode'[t] = mode[t] /\ victim'[t] = victim[t]
        /\ nextPid' = nextPid
        /\ id' = id /\ data' = data /\ versions' = versions
        /\ map' = map /\ tasks' = tasks
    BY <1>5 DEF VisitCheck, LocalsOK, PoolInv, TypeOK, Others, Kept, frameVars,
       poolVars, threadVars
  <2>2. SessionPages(t)'
    BY <1>a, <1>b, <2>1 DEF SessionPages, LocalModes, PidsOK, ReservedUnmapped,
       VictimMapped, VictimIntact, BytesOnTheWay, VictimLocations
  <2>3. ReservedAlone'
    BY <1>a, <2>1, ReservedQuiet
  <2>4. \A f \in Frames : /\ Evicting(t, f) => Evicting(t, f)'
                          /\ ~Evicting(t, f) => io'[f] = io[f]
    BY <1>5, <2>1 DEF VisitCheck, Goto, frameVars, Evicting, EvictLocations, PoolInv, TypeOK,
       LocalsOK, PinLocations
  <2> QED
    BY <1>b, <2>1, <2>2, <2>3, <2>4, QuietStep
<1>6. CASE VisitUnpin(t)
  <2>1. /\ Others(t)
        /\ pc[t] = "unvisit"
        /\ \/ pc'[t] = "sweep" /\ mode'[t] = "load"
           \/ pc'[t] = "lookup" /\ mode'[t] = "none"
        /\ want'[t] = want[t] /\ victim'[t] = victim[t]
        /\ nextPid' = nextPid
        /\ id' = id /\ data' = data /\ versions' = versions
        /\ map' = map /\ tasks' = tasks
    BY <1>6 DEF VisitUnpin, PoolInv, TypeOK, Others, Kept, frameVars,
       poolVars, threadVars
  <2>2. SessionPages(t)'
    BY <1>a, <1>b, <2>1 DEF SessionPages, LocalModes, PidsOK, ReservedUnmapped,
       VictimMapped, VictimIntact, BytesOnTheWay, VictimLocations
  <2>3. ReservedAlone'
    BY <1>a, <2>1, ReservedQuiet
  <2>4. \A f \in Frames : /\ Evicting(t, f) => Evicting(t, f)'
                          /\ ~Evicting(t, f) => io'[f] = io[f]
    BY <1>6, <2>1 DEF VisitUnpin, Goto, frameVars, Evicting, EvictLocations, PoolInv, TypeOK,
       LocalsOK, PinLocations
  <2> QED
    BY <1>b, <2>1, <2>2, <2>3, <2>4, QuietStep
<1>7. CASE ClaimVictim(t)
  <2>1. /\ Others(t)
        /\ pc[t] = "sweep" /\ pc'[t] = "claimed"
        /\ want'[t] = want[t] /\ frame'[t] = sweep /\ mode'[t] = mode[t]
        /\ victim'[t] = id[sweep] /\ io' = io
        /\ sweep \in Frames /\ ~latch[sweep] /\ ref[sweep] = 0 /\ ~io[sweep]
        /\ nextPid' = nextPid
        /\ id' = id /\ data' = data /\ versions' = versions
        /\ map' = map /\ tasks' = tasks
    BY <1>7 DEF ClaimVictim, Goto, IsEvictable, PoolInv, TypeOK, Others, Kept, frameVars,
       poolVars, threadVars
  <2>2. SessionPages(t)'
    <3>1. \A u \in Threads : ~Evicting(u, sweep)
      BY <2>1, FreeFrame DEF PoolInv
    <3>2. /\ data[sweep] = id[sweep]
          /\ id[sweep] \in 1 .. DiskPages => versions[sweep] = id[sweep]
      BY <2>1, <3>1 DEF PagesInv, FrameHoldsItsPage, Settled
    <3>3. \A p \in Pages : map[p] = sweep => id[sweep] = p
      <4>1. sweep # NoFrame
        BY <2>1 DEF Frames, NoFrame
      <4> QED
        BY <3>1, <4>1 DEF PagesInv, PageTableConsistent, Evicting, EvictLocations
    <3>4. id[sweep] # NoPage => map[id[sweep]] = sweep
      BY <2>1, <3>1 DEF PagesInv, PageTableConsistent, Evicting, EvictLocations
    <3>5. id[sweep] < nextPid
      BY <2>1 DEF PagesInv, PidsHandedOut
    <3> QED
      BY <1>a, <2>1, <3>2, <3>3, <3>4, <3>5 DEF SessionPages, LocalModes, PidsOK,
         ReservedUnmapped, VictimMapped, VictimIntact, BytesOnTheWay, VictimLocations
  <2>3. ReservedAlone'
    BY <1>a, <2>1, ReservedQuiet
  <2>4. \A f \in Frames : /\ Evicting(t, f) => Evicting(t, f)'
                          /\ ~Evicting(t, f) => io'[f] = io[f]
    BY <1>7, <2>1 DEF ClaimVictim, Goto, frameVars, Evicting, EvictLocations, PoolInv, TypeOK,
       LocalsOK, PinLocations
  <2> QED
    BY <1>b, <2>1, <2>2, <2>3, <2>4, QuietStep
<1>8. CASE SkipFrame(t)
  <2>1. /\ Others(t)
        /\ pc[t] = "sweep" /\ pc'[t] = "sweep"
        /\ want'[t] = want[t] /\ frame'[t] = frame[t] /\ mode'[t] = mode[t] /\ victim'[t] = victim[t]
        /\ nextPid' = nextPid
        /\ id' = id /\ data' = data /\ versions' = versions
        /\ map' = map /\ tasks' = tasks
    BY <1>8 DEF SkipFrame, PoolInv, TypeOK, Others, Kept, frameVars,
       poolVars, threadVars
  <2>2. SessionPages(t)'
    BY <1>a, <1>b, <2>1 DEF SessionPages, LocalModes, PidsOK, ReservedUnmapped,
       VictimMapped, VictimIntact, BytesOnTheWay, VictimLocations
  <2>3. ReservedAlone'
    BY <1>a, <2>1, ReservedQuiet
  <2>4. \A f \in Frames : /\ Evicting(t, f) => Evicting(t, f)'
                          /\ ~Evicting(t, f) => io'[f] = io[f]
    BY <1>8, <2>1 DEF SkipFrame, Goto, frameVars, Evicting, EvictLocations, PoolInv, TypeOK,
       LocalsOK, PinLocations
  <2> QED
    BY <1>b, <2>1, <2>2, <2>3, <2>4, QuietStep
<1>9. CASE ReleaseVictim(t)
  <2>1. /\ Others(t)
        /\ pc[t] = "marked" /\ pc'[t] = "put"
        /\ want'[t] = want[t] /\ frame'[t] = frame[t] /\ mode'[t] = mode[t] /\ victim'[t] = victim[t]
        /\ nextPid' = nextPid
        /\ id' = id /\ data' = data /\ versions' = versions
        /\ map' = map /\ tasks' = tasks
    BY <1>9 DEF ReleaseVictim, Goto, PoolInv, TypeOK, Others, Kept, frameVars,
       poolVars, threadVars
  <2>2. SessionPages(t)'
    BY <1>a, <1>b, <2>1 DEF SessionPages, LocalModes, PidsOK, ReservedUnmapped,
       VictimMapped, VictimIntact, BytesOnTheWay, VictimLocations
  <2>3. ReservedAlone'
    BY <1>a, <2>1, ReservedQuiet
  <2>4. \A f \in Frames : /\ Evicting(t, f) => Evicting(t, f)'
                          /\ ~Evicting(t, f) => io'[f] = io[f]
    BY <1>9, <2>1 DEF ReleaseVictim, Goto, frameVars, Evicting, EvictLocations, PoolInv, TypeOK,
       LocalsOK, PinLocations
  <2> QED
    BY <1>b, <2>1, <2>2, <2>3, <2>4, QuietStep
<1>10. CASE PutExisting(t)
  <2>1. /\ Others(t)
        /\ pc[t] = "put" /\ pc'[t] = "undo"
        /\ want'[t] = want[t] /\ frame'[t] = frame[t] /\ mode'[t] = mode[t] /\ victim'[t] = victim[t]
        /\ nextPid' = nextPid
        /\ id' = id /\ data' = data /\ versions' = versions
        /\ map' = map /\ tasks' = tasks
    BY <1>10 DEF PutExisting, Goto, PoolInv, TypeOK, Others, Kept, frameVars,
       poolVars, threadVars
  <2>2. SessionPages(t)'
    BY <1>a, <1>b, <2>1 DEF SessionPages, LocalModes, PidsOK, ReservedUnmapped,
       VictimMapped, VictimIntact, BytesOnTheWay, VictimLocations
  <2>3. ReservedAlone'
    BY <1>a, <2>1, ReservedQuiet
  <2>4. \A f \in Frames : /\ Evicting(t, f) => Evicting(t, f)'
                          /\ ~Evicting(t, f) => io'[f] = io[f]
    BY <1>10, <2>1 DEF PutExisting, Goto, frameVars, Evicting, EvictLocations, PoolInv, TypeOK,
       LocalsOK, PinLocations
  <2> QED
    BY <1>b, <2>1, <2>2, <2>3, <2>4, QuietStep
<1>11. CASE WaitIOReturn(t)
  <2>1. /\ Others(t)
        /\ pc[t] = "wait" /\ pc'[t] = "using"
        /\ want'[t] = want[t] /\ frame'[t] = frame[t] /\ mode'[t] = mode[t] /\ victim'[t] = victim[t]
        /\ ~io[frame[t]]
        /\ nextPid' = nextPid
        /\ id' = id /\ data' = data /\ versions' = versions
        /\ map' = map /\ tasks' = tasks
    BY <1>11 DEF WaitIOReturn, Goto, PoolInv, TypeOK, Others, Kept, frameVars,
       poolVars, threadVars
  <2>2. SessionPages(t)'
    <3>1. mode[t] = "load" => data[frame[t]] = want[t] /\ versions[frame[t]] = want[t]
      <4> SUFFICES ASSUME mode[t] = "load"
                   PROVE  data[frame[t]] = want[t] /\ versions[frame[t]] = want[t]
        OBVIOUS
      <4>1. frame[t] \in Frames
        BY <2>1, SessionOwns DEF PoolInv
      <4>2. <<frame[t], want[t]>> \notin tasks
        BY <1>b, <2>1, <4>1 DEF PoolInv, TasksOwned
      <4> QED
        BY <1>a, <2>1, <4>2 DEF SessionPages, BytesOnTheWay
    <3> QED
      BY <1>a, <2>1, <3>1 DEF SessionPages, LocalModes, PidsOK, ReservedUnmapped,
         VictimMapped, VictimIntact, BytesOnTheWay, VictimLocations
  <2>3. ReservedAlone'
    BY <1>a, <2>1, ReservedQuiet
  <2>4. \A f \in Frames : /\ Evicting(t, f) => Evicting(t, f)'
                          /\ ~Evicting(t, f) => io'[f] = io[f]
    BY <1>11, <2>1 DEF WaitIOReturn, Goto, frameVars, Evicting, EvictLocations, PoolInv, TypeOK,
       LocalsOK, PinLocations
  <2> QED
    BY <1>b, <2>1, <2>2, <2>3, <2>4, QuietStep
<1>12. CASE WaitIOSleep(t)
  <2>1. /\ Others(t)
        /\ pc[t] = "wait" /\ pc'[t] = "asleep"
        /\ want'[t] = want[t] /\ frame'[t] = frame[t] /\ mode'[t] = mode[t] /\ victim'[t] = victim[t]
        /\ nextPid' = nextPid
        /\ id' = id /\ data' = data /\ versions' = versions
        /\ map' = map /\ tasks' = tasks
    BY <1>12 DEF WaitIOSleep, Goto, PoolInv, TypeOK, Others, Kept, frameVars,
       poolVars, threadVars
  <2>2. SessionPages(t)'
    BY <1>a, <1>b, <2>1 DEF SessionPages, LocalModes, PidsOK, ReservedUnmapped,
       VictimMapped, VictimIntact, BytesOnTheWay, VictimLocations
  <2>3. ReservedAlone'
    BY <1>a, <2>1, ReservedQuiet
  <2>4. \A f \in Frames : /\ Evicting(t, f) => Evicting(t, f)'
                          /\ ~Evicting(t, f) => io'[f] = io[f]
    BY <1>12, <2>1 DEF WaitIOSleep, Goto, frameVars, Evicting, EvictLocations, PoolInv, TypeOK,
       LocalsOK, PinLocations
  <2> QED
    BY <1>b, <2>1, <2>2, <2>3, <2>4, QuietStep
<1>13. CASE Unpin(t)
  <2>1. /\ Others(t)
        /\ pc[t] = "using" /\ pc'[t] = "idle"
        /\ want'[t] = NoPage /\ mode'[t] = "none" /\ victim'[t] = victim[t]
        /\ nextPid' = nextPid
        /\ id' = id /\ data' = data /\ versions' = versions
        /\ map' = map /\ tasks' = tasks
    BY <1>13 DEF Unpin, Goto, PoolInv, TypeOK, Others, Kept, frameVars,
       poolVars, threadVars
  <2>2. SessionPages(t)'
    <3>1. NoPage < nextPid
      BY DEF PoolInv, TypeOK, NoPage
    <3> QED
      BY <1>a, <2>1, <3>1 DEF SessionPages, LocalModes, PidsOK, ReservedUnmapped,
         VictimMapped, VictimIntact, BytesOnTheWay, VictimLocations
  <2>3. ReservedAlone'
    <3>1. \A u \in Threads : mode[u] = "reserve" => want[u] # NoPage
      BY DEF PagesInv, SessionPages, PidsOK, NoPage
    <3> QED
      BY <1>a, <2>1, <3>1 DEF ReservedAlone, Others, Kept
  <2>4. \A f \in Frames : /\ Evicting(t, f) => Evicting(t, f)'
                          /\ ~Evicting(t, f) => io'[f] = io[f]
    BY <1>13, <2>1 DEF Unpin, Goto, frameVars, Evicting, EvictLocations, PoolInv, TypeOK,
       LocalsOK, PinLocations
  <2> QED
    BY <1>b, <2>1, <2>2, <2>3, <2>4, QuietStep
<1>14. CASE WriteBytes(t)
  <2>1. /\ Others(t)
        /\ pc[t] = "using" /\ pc'[t] = "using"
        /\ want'[t] = want[t] /\ frame'[t] = frame[t] /\ mode'[t] = mode[t] /\ victim'[t] = victim[t]
        /\ nextPid' = nextPid
        /\ id' = id /\ data' = data /\ versions' = versions
        /\ map' = map /\ tasks' = tasks
    BY <1>14 DEF WriteBytes, PoolInv, TypeOK, Others, Kept, frameVars,
       poolVars, threadVars
  <2>2. SessionPages(t)'
    BY <1>a, <1>b, <2>1 DEF SessionPages, LocalModes, PidsOK, ReservedUnmapped,
       VictimMapped, VictimIntact, BytesOnTheWay, VictimLocations
  <2>3. ReservedAlone'
    BY <1>a, <2>1, ReservedQuiet
  <2>4. \A f \in Frames : /\ Evicting(t, f) => Evicting(t, f)'
                          /\ ~Evicting(t, f) => io'[f] = io[f]
    BY <1>14, <2>1 DEF WriteBytes, Goto, frameVars, Evicting, EvictLocations, PoolInv, TypeOK,
       LocalsOK, PinLocations
  <2> QED
    BY <1>b, <2>1, <2>2, <2>3, <2>4, QuietStep
<1>15. CASE SpuriousWake(t)
  <2>1. /\ Others(t)
        /\ pc[t] = "asleep" /\ pc'[t] = "wait"
        /\ want'[t] = want[t] /\ frame'[t] = frame[t] /\ mode'[t] = mode[t] /\ victim'[t] = victim[t]
        /\ nextPid' = nextPid
        /\ id' = id /\ data' = data /\ versions' = versions
        /\ map' = map /\ tasks' = tasks
    BY <1>15 DEF SpuriousWake, Goto, PoolInv, TypeOK, Others, Kept, frameVars,
       poolVars, threadVars
  <2>2. SessionPages(t)'
    BY <1>a, <1>b, <2>1 DEF SessionPages, LocalModes, PidsOK, ReservedUnmapped,
       VictimMapped, VictimIntact, BytesOnTheWay, VictimLocations
  <2>3. ReservedAlone'
    BY <1>a, <2>1, ReservedQuiet
  <2>4. \A f \in Frames : /\ Evicting(t, f) => Evicting(t, f)'
                          /\ ~Evicting(t, f) => io'[f] = io[f]
    BY <1>15, <2>1 DEF SpuriousWake, Goto, frameVars, Evicting, EvictLocations, PoolInv, TypeOK,
       LocalsOK, PinLocations
  <2> QED
    BY <1>b, <2>1, <2>2, <2>3, <2>4, QuietStep
<1> QED
  BY <1>1, <1>2, <1>3, <1>4, <1>5, <1>6, <1>7, <1>8, <1>9, <1>10, <1>11, <1>12, <1>13, <1>14, <1>15

-----------------------------------------------------------------------------
(* Lemma: the id_ of a claimed frame becomes the wanted page; the victim's *)
(* entry is explained by the session until it is deleted.                  *)
LEMMA MarkStep ==
  ASSUME PoolInv, PagesInv, NEW t \in Threads, MarkVictim(t)
  PROVE  PagesInv'
<1> USE BufferPoolAssumption
<1> DEFINE f == frame[t]
<1>1. /\ Others(t) /\ pc[t] = "claimed" /\ pc'[t] = "marked"
      /\ want'[t] = want[t] /\ frame'[t] = f /\ mode'[t] = mode[t]
      /\ victim'[t] = victim[t] /\ io' = io
      /\ data' = data /\ versions' = versions /\ map' = map /\ tasks' = tasks
      /\ nextPid' = nextPid /\ id' = [id EXCEPT ![f] = want[t]]
  BY DEF MarkVictim, Goto, PoolInv, TypeOK, Others, Kept, poolVars
<1>2. /\ f \in Frames /\ Owning(t, f) /\ f # NoFrame
      /\ id'[f] = want[t] /\ \A g \in Frames \ {f} : id'[g] = id[g]
  BY <1>1, SessionOwns DEF PoolInv, TypeOK, VictimLocations, Frames, NoFrame
<1>3. /\ SessionPages(t) /\ want[t] \in Pages /\ nextPid \in Nat
      /\ \A p \in Pages : map[p] \in Frames \cup {NoFrame}
  BY <1>1 DEF PagesInv, PoolInv, TypeOK, LocalsOK
<1> HIDE DEF f
<1>4. FramesKept(t) /\ EntriesKept(t)
  BY <1>1, <1>2 DEF FramesKept, EntriesKept
<1>5. SessionPages(t)'
  BY <1>1, <1>3 DEF SessionPages, LocalModes, PidsOK, ReservedUnmapped,
     VictimMapped, VictimIntact, BytesOnTheWay, VictimLocations, f
<1>6. \A u \in Threads : SessionPages(u)'
  BY <1>1, <1>3, <1>4, <1>5, OtherSessions
<1>7. ReservedAlone'
  BY <1>1, ReservedQuiet DEF PagesInv
<1>8. PidsHandedOut'
  BY <1>1, <1>2, <1>3 DEF PagesInv, PidsHandedOut, SessionPages, PidsOK
<1>9. PageTableConsistent'
  <2>1. ASSUME NEW p \in Pages, map[p] # NoFrame
        PROVE  \/ id'[map[p]] = p
               \/ \E u \in Threads : /\ frame'[u] = map[p] /\ victim'[u] = p
                                     /\ pc'[u] \in {"marked", "put", "undo", "evict"}
    <3>1. CASE map[p] = f
      BY <1>1, <1>3, <3>1 DEF SessionPages, VictimMapped, VictimLocations, f
    <3>2. CASE map[p] # f
      BY <1>1, <1>2, <1>3, <2>1, <3>2 DEF PagesInv, PageTableConsistent, Others, Kept, f
    <3> QED
      BY <3>1, <3>2
  <2>2. ASSUME NEW g \in Frames, id'[g] # NoPage
        PROVE  \/ map[id'[g]] = g
               \/ \E u \in Threads : /\ frame'[u] = g /\ want'[u] = id'[g]
                                     /\ pc'[u] \in {"marked", "put", "undo"}
    <3>1. CASE g = f
      BY <1>1, <1>2, <3>1
    <3>2. CASE g # f
      BY <1>1, <1>2, <2>2, <3>2 DEF PagesInv, PageTableConsistent, Others, Kept, f
    <3> QED
      BY <3>1, <3>2
  <2> QED
    BY <1>1, <2>1, <2>2 DEF PageTableConsistent
<1>10. FrameHoldsItsPage'
  <2> SUFFICES ASSUME NEW g \in Frames, Settled(g)'
               PROVE  g # f /\ Settled(g)
    BY <1>1, <1>2 DEF PagesInv, FrameHoldsItsPage
  <2> QED
    BY <1>1 DEF Settled, Evicting, EvictLocations, Others, Kept, f
<1> QED
  BY <1>6, <1>7, <1>8, <1>9, <1>10 DEF PagesInv

(* Lemma: a Put that inserts maps the page to the frame that carries its   *)
(* id; the victim is another page, since it is still mapped.               *)
LEMMA PutStep ==
  ASSUME PoolInv, PagesInv, NEW t \in Threads, PutInserted(t)
  PROVE  PagesInv'
<1> USE BufferPoolAssumption
<1> DEFINE f == frame[t]
<1>1. /\ Others(t) /\ pc[t] = "put" /\ pc'[t] = "evict"
      /\ want'[t] = want[t] /\ frame'[t] = f /\ mode'[t] = mode[t]
      /\ victim'[t] = victim[t] /\ io' = io
      /\ id' = id /\ data' = data /\ versions' = versions /\ tasks' = tasks
      /\ nextPid' = nextPid /\ map[want[t]] = NoFrame
      /\ map' = [map EXCEPT ![want[t]] = f]
  BY DEF PutInserted, Goto, PoolInv, TypeOK, Others, Kept, frameVars
<1>2. f \in Frames /\ Owning(t, f) /\ f # NoFrame /\ id[f] = want[t]
  <2>1. f \in Frames /\ Owning(t, f) /\ f # NoFrame
    BY <1>1, SessionOwns DEF PoolInv, VictimLocations, Frames, NoFrame
  <2> QED
    BY <1>1, <2>1 DEF PoolInv, OwnerHasItsId
<1>3. /\ SessionPages(t) /\ want[t] \in Pages /\ nextPid \in Nat
      /\ \A p \in Pages : map[p] \in Frames \cup {NoFrame}
      /\ map'[want[t]] = f /\ \A p \in Pages \ {want[t]} : map'[p] = map[p]
      /\ victim[t] \in Pages \cup {NoPage}
  BY <1>1 DEF PagesInv, PoolInv, TypeOK, LocalsOK
<1> HIDE DEF f
<1>4. FramesKept(t) /\ EntriesKept(t)
  BY <1>1, <1>2, <1>3 DEF FramesKept, EntriesKept, f
<1>5. SessionPages(t)'
  <2>1. VictimMapped(t)
    BY <1>3 DEF SessionPages
  <2>2. victim[t] # want[t]
    BY <1>1, <1>2, <1>3, <2>1 DEF VictimMapped, VictimLocations, f, Pages, NoPage
  <2>3. VictimMapped(t)'
    BY <1>1, <1>3, <2>1, <2>2 DEF VictimMapped, VictimLocations, f
  <2> QED
    BY <1>1, <1>3, <2>3 DEF SessionPages, LocalModes, PidsOK, ReservedUnmapped,
       VictimIntact, BytesOnTheWay, VictimLocations, f
<1>6. \A u \in Threads : SessionPages(u)'
  BY <1>1, <1>3, <1>4, <1>5, OtherSessions
<1>7. ReservedAlone'
  BY <1>1, ReservedQuiet DEF PagesInv
<1>8. PidsHandedOut'
  BY <1>1 DEF PagesInv, PidsHandedOut
<1>9. PageTableConsistent'
  <2>1. ASSUME NEW p \in Pages, map'[p] # NoFrame
        PROVE  \/ id[map'[p]] = p
               \/ \E u \in Threads : /\ frame'[u] = map'[p] /\ victim'[u] = p
                                     /\ pc'[u] \in {"marked", "put", "undo", "evict"}
    <3>1. CASE p = want[t]
      BY <1>2, <1>3, <3>1
    <3>2. CASE p # want[t]
      BY <1>1, <1>3, <2>1, <3>2 DEF PagesInv, PageTableConsistent, Others, Kept, f
    <3> QED
      BY <3>1, <3>2
  <2>2. ASSUME NEW g \in Frames, id[g] # NoPage
        PROVE  \/ map'[id[g]] = g
               \/ \E u \in Threads : /\ frame'[u] = g /\ want'[u] = id[g]
                                     /\ pc'[u] \in {"marked", "put", "undo"}
    <3>1. id[g] \in Pages
      BY <2>2 DEF PoolInv, TypeOK
    <3>2. CASE g = f
      BY <1>2, <1>3, <3>2
    <3>3. CASE g # f
      <4>1. CASE map[id[g]] = g
        <5>1. id[g] # want[t]
          BY <1>1, <4>1 DEF Frames, NoFrame
        <5> QED
          BY <1>3, <3>1, <4>1, <5>1
      <4>2. CASE \E u \in Threads : /\ frame[u] = g /\ want[u] = id[g]
                                    /\ pc[u] \in {"marked", "put", "undo"}
        BY <1>1, <3>3, <4>2 DEF Others, Kept, f
      <4> QED
        BY <2>2, <4>1, <4>2 DEF PagesInv, PageTableConsistent
    <3> QED
      BY <3>2, <3>3
  <2> QED
    BY <1>1, <2>1, <2>2 DEF PageTableConsistent
<1>10. FrameHoldsItsPage'
  BY <1>1, FramesQuiet DEF PagesInv, Evicting, EvictLocations, f
<1> QED
  BY <1>6, <1>7, <1>8, <1>9, <1>10 DEF PagesInv

(* Lemma: UndoState gives the frame back to the victim, which is still     *)
(* mapped to it and whose bytes and version array it still holds.          *)
LEMMA UndoStep ==
  ASSUME PoolInv, PagesInv, NEW t \in Threads, UndoState(t)
  PROVE  PagesInv'
<1> USE BufferPoolAssumption
<1> DEFINE f == frame[t]
<1>1. /\ Others(t) /\ pc[t] = "undo" /\ pc'[t] = "visit"
      /\ want'[t] = want[t] /\ mode'[t] = "revisit" /\ victim'[t] = NoPage
      /\ io' = [io EXCEPT ![f] = FALSE] /\ id' = [id EXCEPT ![f] = victim[t]]
      /\ data' = data /\ versions' = versions /\ tasks' = tasks
      /\ nextPid' = nextPid /\ map' = map
  BY DEF UndoState, Goto, PoolInv, TypeOK, Others, Kept, poolVars
<1>2. /\ f \in Frames /\ Owning(t, f) /\ f # NoFrame
      /\ id'[f] = victim[t] /\ \A g \in Frames \ {f} : id'[g] = id[g] /\ io'[g] = io[g]
  BY <1>1, SessionOwns DEF PoolInv, TypeOK, VictimLocations, Frames, NoFrame
<1>3. /\ SessionPages(t) /\ want[t] \in Pages /\ nextPid \in Nat /\ NoPage < nextPid
      /\ \A p \in Pages : map[p] \in Frames \cup {NoFrame}
      /\ victim[t] \in Pages \cup {NoPage}
  BY <1>1 DEF PagesInv, PoolInv, TypeOK, LocalsOK, NoPage
<1> HIDE DEF f
<1>4. FramesKept(t) /\ EntriesKept(t)
  BY <1>1, <1>2 DEF FramesKept, EntriesKept
<1>5. SessionPages(t)'
  BY <1>1, <1>3 DEF SessionPages, LocalModes, PidsOK, ReservedUnmapped,
     VictimMapped, VictimIntact, BytesOnTheWay, VictimLocations
<1>6. \A u \in Threads : SessionPages(u)'
  BY <1>1, <1>3, <1>4, <1>5, OtherSessions
<1>7. ReservedAlone'
  BY <1>1, ReservedQuiet DEF PagesInv
<1>8. PidsHandedOut'
  BY <1>1, <1>2, <1>3 DEF PagesInv, PidsHandedOut, SessionPages, PidsOK
<1>9. PageTableConsistent'
  <2>1. ASSUME NEW p \in Pages, map[p] # NoFrame
        PROVE  \/ id'[map[p]] = p
               \/ \E u \in Threads : /\ frame'[u] = map[p] /\ victim'[u] = p
                                     /\ pc'[u] \in {"marked", "put", "undo", "evict"}
    <3>1. CASE map[p] = f
      BY <1>1, <1>2, <1>3, <3>1 DEF SessionPages, VictimMapped, VictimLocations, f
    <3>2. CASE map[p] # f
      BY <1>1, <1>2, <1>3, <2>1, <3>2 DEF PagesInv, PageTableConsistent, Others, Kept, f
    <3> QED
      BY <3>1, <3>2
  <2>2. ASSUME NEW g \in Frames, id'[g] # NoPage
        PROVE  \/ map[id'[g]] = g
               \/ \E u \in Threads : /\ frame'[u] = g /\ want'[u] = id'[g]
                                     /\ pc'[u] \in {"marked", "put", "undo"}
    <3>1. CASE g = f
      BY <1>1, <1>2, <1>3, <2>2, <3>1 DEF SessionPages, VictimMapped, VictimLocations, f
    <3>2. CASE g # f
      BY <1>1, <1>2, <2>2, <3>2 DEF PagesInv, PageTableConsistent, Others, Kept, f
    <3> QED
      BY <3>1, <3>2
  <2> QED
    BY <1>1, <2>1, <2>2 DEF PageTableConsistent
<1>10. FrameHoldsItsPage'
  <2> SUFFICES ASSUME NEW g \in Frames, Settled(g)'
               PROVE  /\ data[g] = id'[g]
                      /\ id'[g] \in 1 .. DiskPages => versions[g] = id'[g]
    BY <1>1 DEF FrameHoldsItsPage
  <2>1. CASE g = f
    BY <1>1, <1>2, <1>3, <2>1 DEF SessionPages, VictimIntact, VictimLocations, f
  <2>2. CASE g # f
    <3>1. Settled(g)
      BY <1>1, <1>2, <2>2 DEF Settled, Evicting, EvictLocations, Others, Kept, f
    <3> QED
      BY <1>2, <2>2, <3>1 DEF PagesInv, FrameHoldsItsPage
  <2> QED
    BY <2>1, <2>2
<1> QED
  BY <1>6, <1>7, <1>8, <1>9, <1>10 DEF PagesInv

(* Lemma: the Delete removes the victim's entry and no other: it compares  *)
(* the frame, and only this session's victim is mapped to it besides its   *)
(* own page.                                                               *)
LEMMA DeleteStep ==
  ASSUME PoolInv, PagesInv, NEW t \in Threads, DeleteVictim(t)
  PROVE  PagesInv'
<1> USE BufferPoolAssumption
<1> DEFINE f == frame[t]
<1>1. /\ Others(t) /\ pc[t] = "evict" /\ pc'[t] = "fetch"
      /\ want'[t] = want[t] /\ frame'[t] = f /\ mode'[t] = mode[t]
      /\ victim'[t] = NoPage /\ io' = io
      /\ id' = id /\ data' = data /\ versions' = versions /\ tasks' = tasks
      /\ nextPid' = nextPid
      /\ \A p \in Pages :
           map'[p] = IF p = victim[t] /\ map[p] = f THEN NoFrame ELSE map[p]
  BY DEF DeleteVictim, Goto, PoolInv, TypeOK, Others, Kept, frameVars
<1>2. f \in Frames /\ Owning(t, f) /\ f # NoFrame /\ id[f] = want[t]
  <2>1. f \in Frames /\ Owning(t, f) /\ f # NoFrame
    BY <1>1, SessionOwns DEF PoolInv, VictimLocations, Frames, NoFrame
  <2> QED
    BY <1>1, <2>1 DEF PoolInv, OwnerHasItsId
<1>3. /\ SessionPages(t) /\ want[t] \in Pages /\ nextPid \in Nat /\ NoPage < nextPid
      /\ \A p \in Pages : map[p] \in Frames \cup {NoFrame}
      /\ map[want[t]] = f /\ victim[t] # want[t]
  <2>1. /\ SessionPages(t) /\ want[t] \in Pages /\ nextPid \in Nat /\ NoPage < nextPid
        /\ \A p \in Pages : map[p] \in Frames \cup {NoFrame}
    BY <1>1 DEF PagesInv, PoolInv, TypeOK, LocalsOK, NoPage
  <2> QED
    BY <1>1, <2>1 DEF SessionPages, VictimMapped, VictimLocations
<1> HIDE DEF f
<1>4. FramesKept(t) /\ EntriesKept(t)
  BY <1>1, <1>2, <1>3 DEF FramesKept, EntriesKept
<1>5. SessionPages(t)'
  BY <1>1, <1>3 DEF SessionPages, LocalModes, PidsOK, ReservedUnmapped,
     VictimMapped, VictimIntact, BytesOnTheWay, VictimLocations
<1>6. \A u \in Threads : SessionPages(u)'
  BY <1>1, <1>3, <1>4, <1>5, OtherSessions
<1>7. ReservedAlone'
  BY <1>1, ReservedQuiet DEF PagesInv
<1>8. PidsHandedOut'
  BY <1>1 DEF PagesInv, PidsHandedOut
<1>9. PageTableConsistent'
  <2>1. ASSUME NEW p \in Pages, map'[p] # NoFrame
        PROVE  \/ id[map'[p]] = p
               \/ \E u \in Threads : /\ frame'[u] = map'[p] /\ victim'[u] = p
                                     /\ pc'[u] \in {"marked", "put", "undo", "evict"}
    <3>1. map'[p] = map[p] /\ ~(p = victim[t] /\ map[p] = f)
      BY <1>1, <2>1
    <3>2. CASE id[map[p]] = p
      BY <3>1, <3>2
    <3>3. CASE \E u \in Threads : /\ frame[u] = map[p] /\ victim[u] = p
                                  /\ pc[u] \in {"marked", "put", "undo", "evict"}
      BY <1>1, <3>1, <3>3 DEF Others, Kept, f
    <3> QED
      BY <2>1, <3>1, <3>2, <3>3 DEF PagesInv, PageTableConsistent
  <2>2. ASSUME NEW g \in Frames, id[g] # NoPage
        PROVE  \/ map'[id[g]] = g
               \/ \E u \in Threads : /\ frame'[u] = g /\ want'[u] = id[g]
                                     /\ pc'[u] \in {"marked", "put", "undo"}
    <3>1. id[g] \in Pages
      BY <2>2 DEF PoolInv, TypeOK
    <3>2. CASE g = f
      BY <1>1, <1>2, <1>3, <3>2
    <3>3. CASE g # f
      <4>1. CASE map[id[g]] = g
        BY <1>1, <3>1, <3>3, <4>1
      <4>2. CASE \E u \in Threads : /\ frame[u] = g /\ want[u] = id[g]
                                    /\ pc[u] \in {"marked", "put", "undo"}
        BY <1>1, <4>2 DEF Others, Kept
      <4> QED
        BY <2>2, <4>1, <4>2 DEF PagesInv, PageTableConsistent
    <3> QED
      BY <3>2, <3>3
  <2> QED
    BY <1>1, <2>1, <2>2 DEF PageTableConsistent
<1>10. FrameHoldsItsPage'
  BY <1>1, FramesQuiet DEF PagesInv, Evicting, EvictLocations, f
<1> QED
  BY <1>6, <1>7, <1>8, <1>9, <1>10 DEF PagesInv

(* Lemma: SetVersions and the enqueued READ: the frame stays unsettled     *)
(* because its IO flag is set.                                             *)
LEMMA EnqueueStep ==
  ASSUME PoolInv, PagesInv, NEW t \in Threads, EnqueueRead(t)
  PROVE  PagesInv'
<1> USE BufferPoolAssumption
<1> DEFINE f == frame[t]
<1>1. /\ Others(t) /\ pc[t] = "fetch" /\ pc'[t] = "wait" /\ mode[t] = "load"
      /\ want'[t] = want[t] /\ frame'[t] = f /\ mode'[t] = mode[t]
      /\ victim'[t] = victim[t] /\ io' = io
      /\ id' = id /\ data' = data /\ map' = map /\ nextPid' = nextPid
      /\ versions' = [versions EXCEPT ![f] = want[t]]
      /\ tasks' = tasks \cup {<<f, want[t]>>}
  BY DEF EnqueueRead, Goto, PoolInv, TypeOK, Others, Kept
<1>2. /\ f \in Frames /\ Owning(t, f) /\ io[f]
      /\ versions'[f] = want[t] /\ \A g \in Frames \ {f} : versions'[g] = versions[g]
  BY <1>1 DEF PoolInv, TypeOK, LocalsOK, LoadHasFlag, Owning, EvictLocations, PinLocations
<1>3. SessionPages(t) /\ nextPid \in Nat
  BY DEF PagesInv, PoolInv, TypeOK
<1> HIDE DEF f
<1>4. FramesKept(t) /\ EntriesKept(t)
  BY <1>1, <1>2 DEF FramesKept, EntriesKept
<1>5. SessionPages(t)'
  BY <1>1, <1>2, <1>3 DEF SessionPages, LocalModes, PidsOK, ReservedUnmapped,
     VictimMapped, VictimIntact, BytesOnTheWay, VictimLocations
<1>6. \A u \in Threads : SessionPages(u)'
  BY <1>1, <1>3, <1>4, <1>5, OtherSessions
<1>7. ReservedAlone'
  BY <1>1, ReservedQuiet DEF PagesInv
<1>8. PidsHandedOut'
  BY <1>1 DEF PagesInv, PidsHandedOut
<1>9. PageTableConsistent'
  BY <1>1, TableQuiet DEF PagesInv
<1>10. FrameHoldsItsPage'
  <2> SUFFICES ASSUME NEW g \in Frames, Settled(g)'
               PROVE  g # f /\ Settled(g)
    BY <1>1, <1>2 DEF PagesInv, FrameHoldsItsPage
  <2>1. g # f
    BY <1>1, <1>2 DEF Settled
  <2> QED
    BY <1>1, <2>1 DEF Settled, Evicting, EvictLocations, Others, Kept, f
<1> QED
  BY <1>6, <1>7, <1>8, <1>9, <1>10 DEF PagesInv

(* Lemma: the memset of Reserve settles the frame with the new page, which *)
(* is not a page of a table file and has no version array.                 *)
LEMMA ZeroStep ==
  ASSUME PoolInv, PagesInv, NEW t \in Threads, ZeroPage(t)
  PROVE  PagesInv'
<1> USE BufferPoolAssumption
<1> DEFINE f == frame[t]
<1>1. /\ Others(t) /\ pc[t] = "fetch" /\ pc'[t] = "using" /\ mode[t] = "reserve"
      /\ want'[t] = want[t] /\ frame'[t] = f /\ mode'[t] = mode[t]
      /\ victim'[t] = victim[t] /\ io' = io
      /\ id' = id /\ versions' = versions /\ map' = map /\ nextPid' = nextPid
      /\ tasks' = tasks /\ data' = [data EXCEPT ![f] = want[t]]
  BY DEF ZeroPage, Goto, PoolInv, TypeOK, Others, Kept, poolVars
<1>2. /\ f \in Frames /\ Owning(t, f)
      /\ data'[f] = want[t] /\ \A g \in Frames \ {f} : data'[g] = data[g]
  BY <1>1 DEF PoolInv, TypeOK, LocalsOK, Owning, EvictLocations, PinLocations
<1>3. /\ SessionPages(t) /\ nextPid \in Nat /\ want[t] \in Nat
      /\ id[f] = want[t] /\ want[t] > DiskPages
  <2>1. SessionPages(t) /\ nextPid \in Nat /\ want[t] \in Nat
    BY DEF PagesInv, PoolInv, TypeOK, Pages, NoPage
  <2> QED
    BY <1>1, <1>2, <2>1 DEF PoolInv, OwnerHasItsId, SessionPages, PidsOK
<1> HIDE DEF f
<1>4. FramesKept(t) /\ EntriesKept(t)
  BY <1>1, <1>2 DEF FramesKept, EntriesKept
<1>5. SessionPages(t)'
  BY <1>1, <1>2, <1>3 DEF SessionPages, LocalModes, PidsOK, ReservedUnmapped,
     VictimMapped, VictimIntact, BytesOnTheWay, VictimLocations
<1>6. \A u \in Threads : SessionPages(u)'
  BY <1>1, <1>3, <1>4, <1>5, OtherSessions
<1>7. ReservedAlone'
  BY <1>1, ReservedQuiet DEF PagesInv
<1>8. PidsHandedOut'
  BY <1>1 DEF PagesInv, PidsHandedOut
<1>9. PageTableConsistent'
  BY <1>1, TableQuiet DEF PagesInv
<1>10. FrameHoldsItsPage'
  <2> SUFFICES ASSUME NEW g \in Frames, Settled(g)'
               PROVE  /\ data'[g] = id[g]
                      /\ id[g] \in 1 .. DiskPages => versions[g] = id[g]
    BY <1>1 DEF FrameHoldsItsPage
  <2>1. CASE g = f
    BY <1>2, <1>3, <2>1
  <2>2. CASE g # f
    <3>1. Settled(g)
      BY <1>1, <2>2 DEF Settled, Evicting, EvictLocations, Others, Kept, f
    <3> QED
      BY <1>2, <2>2, <3>1 DEF PagesInv, FrameHoldsItsPage
  <2> QED
    BY <2>1, <2>2
<1> QED
  BY <1>6, <1>7, <1>8, <1>9, <1>10 DEF PagesInv

(* Lemma: a completed read fills the frame with the page in its id_: the   *)
(* owner that waits for it is the only one, so no evictor has the frame.   *)
LEMMA ReadStep ==
  ASSUME PoolInv, PagesInv, NEW g \in Frames, NEW q \in Pages, CompleteRead(g, q)
  PROVE  PagesInv'
<1> USE BufferPoolAssumption
<1>1. /\ want' = want /\ frame' = frame /\ mode' = mode /\ victim' = victim
      /\ id' = id /\ versions' = versions /\ map' = map /\ nextPid' = nextPid
      /\ tasks' = tasks \ {<<g, q>>} /\ <<g, q>> \in tasks
      /\ data'[g] = q /\ \A f \in Frames \ {g} : data'[f] = data[f] /\ io'[f] = io[f]
      /\ \A u \in Threads : \/ pc'[u] = pc[u]
                            \/ pc[u] = "asleep" /\ pc'[u] = "wait"
  BY DEF CompleteRead, PoolInv, TypeOK
<1>2. PICK w \in Threads : /\ Owning(w, g) /\ want[w] = q /\ mode[w] = "load"
                           /\ pc[w] \in {"wait", "asleep"}
  BY <1>1 DEF PoolInv, TasksOwned
<1>3. id[g] = q /\ versions[g] = q
  BY <1>2 DEF PoolInv, OwnerHasItsId, PagesInv, SessionPages, BytesOnTheWay, Owning
<1>4. ASSUME NEW u \in Threads PROVE SessionPages(u)'
  <2>1. SessionPages(u)
    BY DEF PagesInv
  <2>2. LocalModes(u)' /\ PidsOK(u)' /\ ReservedUnmapped(u)' /\ VictimMapped(u)'
    BY <1>1, <2>1 DEF SessionPages, LocalModes, PidsOK, ReservedUnmapped,
       VictimMapped, VictimLocations
  <2>3. VictimIntact(u)'
    <3>1. CASE pc[u] \in VictimLocations
      <4>1. frame[u] \in Frames /\ frame[u] # g
        BY <1>2, <3>1, SessionOwns DEF PoolInv, OneOwner, VictimLocations
      <4> QED
        BY <1>1, <2>1, <4>1 DEF SessionPages, VictimIntact, VictimLocations
    <3>2. CASE pc[u] \notin VictimLocations
      BY <1>1, <3>2 DEF VictimIntact, VictimLocations
    <3> QED
      BY <3>1, <3>2
  <2>4. BytesOnTheWay(u)'
    <3>1. CASE mode[u] \in {"load", "reserve"} /\ pc[u] \in {"wait", "asleep", "using"}
      <4>1. frame[u] \in Frames /\ Owning(u, frame[u])
        BY <3>1, SessionOwns DEF PoolInv
      <4>2. CASE frame[u] = g
        <5>1. u = w
          BY <1>2, <4>1, <4>2 DEF PoolInv, OneOwner
        <5> QED
          BY <1>1, <1>2, <1>3, <4>2, <5>1 DEF BytesOnTheWay
      <4>3. CASE frame[u] # g
        BY <1>1, <2>1, <4>1, <4>3 DEF SessionPages, BytesOnTheWay
      <4> QED
        BY <4>2, <4>3
    <3>2. CASE ~(mode[u] \in {"load", "reserve"} /\ pc[u] \in {"wait", "asleep", "using"})
      BY <1>1, <3>2 DEF BytesOnTheWay
    <3> QED
      BY <3>1, <3>2
  <2> QED
    BY <2>2, <2>3, <2>4 DEF SessionPages
<1>5. ReservedAlone'
  BY <1>1 DEF PagesInv, ReservedAlone
<1>6. PidsHandedOut'
  BY <1>1 DEF PagesInv, PidsHandedOut
<1>7. PageTableConsistent'
  <2>1. \A u \in Threads :
          /\ pc'[u] \in {"marked", "put", "undo", "evict"}
               <=> pc[u] \in {"marked", "put", "undo", "evict"}
          /\ pc'[u] \in {"marked", "put", "undo"} <=> pc[u] \in {"marked", "put", "undo"}
    BY <1>1
  <2> QED
    BY <1>1, <2>1 DEF PagesInv, PageTableConsistent
<1>8. FrameHoldsItsPage'
  <2> SUFFICES ASSUME NEW f \in Frames, Settled(f)'
               PROVE  /\ data'[f] = id[f]
                      /\ id[f] \in 1 .. DiskPages => versions[f] = id[f]
    BY <1>1 DEF FrameHoldsItsPage
  <2>1. CASE f = g
    BY <1>1, <1>3, <2>1
  <2>2. CASE f # g
    <3>1. Settled(f)
      BY <1>1, <2>2 DEF Settled, Evicting, EvictLocations
    <3> QED
      BY <1>1, <2>2, <3>1 DEF PagesInv, FrameHoldsItsPage
  <2> QED
    BY <2>1, <2>2
<1> QED
  BY <1>4, <1>5, <1>6, <1>7, <1>8 DEF PagesInv

-----------------------------------------------------------------------------
(* Lemma: the constructor establishes the invariant. *)
LEMMA InitPagesInv == Init => PagesInv
<1> USE BufferPoolAssumption
<1> SUFFICES ASSUME Init PROVE PagesInv
  OBVIOUS
<1>1. /\ nextPid = DiskPages + 1 /\ nextPid \in Nat
      /\ \A t \in Threads : /\ pc[t] = "idle" /\ mode[t] = "none"
                            /\ want[t] = NoPage /\ victim[t] = NoPage
      /\ \A f \in Frames : id[f] = NoPage /\ data[f] = NoPage
      /\ \A p \in Pages : map[p] = NoFrame
  BY DEF Init
<1>2. \A t \in Threads : SessionPages(t)
  BY <1>1 DEF SessionPages, LocalModes, PidsOK, ReservedUnmapped, VictimMapped,
     VictimIntact, BytesOnTheWay, VictimLocations, NoPage
<1>3. PidsHandedOut /\ ReservedAlone /\ PageTableConsistent /\ FrameHoldsItsPage
  BY <1>1 DEF PidsHandedOut, ReservedAlone, PageTableConsistent, FrameHoldsItsPage,
     NoPage
<1> QED
  BY <1>2, <1>3 DEF PagesInv

(* Lemma: every step preserves the invariant. *)
LEMMA NextPagesInv == PoolInv /\ PagesInv /\ [Next]_vars => PagesInv'
<1> SUFFICES ASSUME PoolInv, PagesInv, [Next]_vars PROVE PagesInv'
  OBVIOUS
<1>1. CASE UNCHANGED vars
  BY <1>1 DEF vars, frameVars, poolVars, threadVars, PagesInv, PidsHandedOut,
     ReservedAlone, SessionPages, LocalModes, PidsOK, ReservedUnmapped,
     VictimMapped, VictimIntact, BytesOnTheWay, PageTableConsistent,
     FrameHoldsItsPage, Settled, Evicting
<1>2. ASSUME NEW t \in Threads,
             \/ (\E p \in Pages : PinStart(t, p)) \/ ReserveStart(t) \/ Step(t)
             \/ WriteBytes(t) \/ SpuriousWake(t)
      PROVE  PagesInv'
  BY <1>2, QuietSteps, MarkStep, PutStep, UndoStep, DeleteStep, EnqueueStep,
     ZeroStep DEF Step
<1>3. ASSUME NEW f \in Frames, NEW p \in Pages, CompleteRead(f, p)
      PROVE  PagesInv'
  BY <1>3, ReadStep
<1> QED
  BY <1>1, <1>2, <1>3 DEF Next, Disk

(* Theorem: the inductive invariant holds in every reachable state.        *)
THEOREM PagesInvAlways == Spec => []PagesInv
<1>1. PoolInv /\ PagesInv /\ [Next]_vars => PagesInv'
  BY NextPagesInv
<1> QED
  BY <1>1, InitPagesInv, PoolInvAlways, PTL DEF Spec

(* Theorem: no page is ever resident twice: a mapping leads to a frame     *)
(* with that page, and a frame's page is mapped to it, except for what an  *)
(* eviction between GetVictim and the Delete explains.                     *)
THEOREM PageTableConsistentAlways == Spec => []PageTableConsistent
<1>1. PagesInv => PageTableConsistent
  BY DEF PagesInv
<1> QED
  BY <1>1, PagesInvAlways, PTL

(* Theorem: a frame that no eviction and no read touches holds the bytes   *)
(* and the version array of the page in its id_, also after a Pin whose    *)
(* Put failed and whose UndoState gave the frame back.                     *)
THEOREM FrameHoldsItsPageAlways == Spec => []FrameHoldsItsPage
<1>1. PagesInv => FrameHoldsItsPage
  BY DEF PagesInv
<1> QED
  BY <1>1, PagesInvAlways, PTL

(* Theorem: the session that loaded or reserved a page finds that page in  *)
(* its frame until it unpins, and its bytes once WaitIO let it through.    *)
THEOREM FetcherUsesItsPageAlways == Spec => []FetcherUsesItsPage
<1>1. PoolInv /\ PagesInv => FetcherUsesItsPage
  <2> SUFFICES ASSUME PoolInv, PagesInv, NEW t \in Threads,
                      mode[t] \in {"load", "reserve"},
                      pc[t] \in {"evict", "fetch", "wait", "asleep", "using"}
               PROVE  /\ id[frame[t]] = want[t]
                      /\ pc[t] = "using" => data[frame[t]] = want[t]
    BY DEF FetcherUsesItsPage
  <2>1. frame[t] \in Frames /\ Owning(t, frame[t]) /\ want[t] \in Pages
    BY DEF PoolInv, LocalsOK, Owning, EvictLocations, PinLocations
  <2>2. id[frame[t]] = want[t]
    BY <2>1 DEF PoolInv, OwnerHasItsId
  <2>3. ASSUME pc[t] = "using" PROVE data[frame[t]] = want[t]
    <3>1. <<frame[t], want[t]>> \notin tasks
      BY <2>1, <2>3, OwnersDiffer DEF PoolInv, TasksOwned
    <3> QED
      BY <2>3, <3>1 DEF PagesInv, SessionPages, BytesOnTheWay
  <2> QED
    BY <2>2, <2>3
<1> QED
  BY <1>1, PoolInvAlways, PagesInvAlways, PTL

(* Theorem: the DB7_UNREACHABLE after the Put of Reserve is unreachable:   *)
(* the page is never in the table before.                                  *)
THEOREM ReserveNeverCollidesAlways == Spec => []ReserveNeverCollides
<1>1. PagesInv => ReserveNeverCollides
  BY DEF PagesInv, SessionPages, ReservedUnmapped, ReserveNeverCollides
<1> QED
  BY <1>1, PagesInvAlways, PTL
=============================================================================
