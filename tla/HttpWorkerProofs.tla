--------------------------- MODULE HttpWorkerProofs ---------------------------
(***************************************************************************)
(* Theorems about HttpWorker, for any leases, slots and attempts.           *)
(*                                                                          *)
(* The inductive invariant ties the two counters to the handlers they       *)
(* count, and the snapshot of free slots to the slots that are free now:    *)
(* runHTTP is the only one to take slots, so since the snapshot they can    *)
(* only have become more.                                                   *)
(***************************************************************************)
EXTENDS HttpWorker, TaskHandlerProofs, FiniteSetTheorems

WorkerTypeOK ==
    /\ wpc \in WorkerPCs
    /\ slots \in Int /\ wg \in Int /\ available \in Int
    /\ batch \subseteq Leases
    /\ leased \subseteq Leases
    /\ beats \subseteq SUBSET Tasks

\* len(sem) and the WaitGroup count the handlers.
Counted ==
    /\ slots = Cardinality(At(Holding))
    /\ wg = Cardinality(At(Live))
    /\ slots <= MaxTasks

\* Where leases can be while the worker is at each point.
Handed ==
    /\ \A l \in Leases : pc[l] # "idle" => l \in leased
    /\ batch \subseteq leased
    /\ \A l \in batch : pc[l] = "idle"
    /\ wpc # "dispatch" => batch = {}
    /\ wpc \in {"register", "returned"} => At(Live) = {}
    /\ DropsExcused

\* The snapshot, and later the batch, fit the slots that are free.
Fits ==
    /\ wpc = "lease" => available > 0 /\ available <= MaxTasks - slots
    /\ BatchFits

IInv == HandlerInv /\ WorkerTypeOK /\ Counted /\ Handed /\ Fits

-----------------------------------------------------------------------------
\* The places At counts are finite sets.
LEMMA AtFinite == \A places : IsFiniteSet(At(places))
  BY HandlerAssumption, FS_Subset DEF HandlerAssumption, At

\* The handlers that hold a slot, by the name the shared proofs use.
LEMMA HoldingIsHeld == Holding = Held /\ Held \subseteq Live
  BY DEF Holding, Held

\* The initial state satisfies the invariant.
LEMMA InitInv == Init => IInv
<1> SUFFICES ASSUME Init PROVE IInv
  OBVIOUS
<1>1. HandlerInv
  BY HandlerInitInv DEF Init
<1>2. At(Live) = {} /\ At(Holding) = {}
  BY DEF Init, HandlerInit, At, Holding, Live, Running, Working, Leaving
<1>3. Cardinality({}) = 0
  BY FS_EmptySet
<1>4. WorkerTypeOK
  BY DEF Init, WorkerTypeOK, WorkerPCs
<1>5. Counted
  BY <1>2, <1>3, WorkerAssumption DEF Init, Counted, WorkerAssumption
<1>6. Handed
  BY <1>2 DEF Init, HandlerInit, Handed, DropsExcused
<1>7. Fits
  BY <1>3, WorkerAssumption DEF Init, Fits, BatchFits, WorkerAssumption
<1> QED
  BY <1>1, <1>4, <1>5, <1>6, <1>7 DEF IInv

-----------------------------------------------------------------------------
\* A goroutine that moves and keeps its slot changes none of the counts.
LEMMA MovesInv ==
    ASSUME NEW l \in Leases, IInv, HandlerInv', Moves(l, Held), lost \subseteq lost',
           UNCHANGED workerVars, UNCHANGED ctxDone
    PROVE  IInv'
<1> USE DEF IInv
<1>1. At(Live)' = At(Live) /\ At(Holding)' = At(Holding)
  BY HoldingIsHeld, MovesAt DEF HandlerInv, HandlerTypeOK
<1>2. WorkerTypeOK' /\ Counted' /\ Fits'
  BY <1>1 DEF WorkerTypeOK, Counted, Fits, BatchFits, workerVars
<1>3. pc[l] # "idle" /\ \A m \in Leases : pc'[m] = "idle" <=> pc[m] = "idle"
  BY DEF Moves, Held, Live, Running, Working, Leaving, HandlerInv, HandlerTypeOK
<1>4. Handed'
  BY <1>1, <1>3 DEF Handed, DropsExcused, workerVars, WorkerTypeOK
<1> QED
  BY <1>2, <1>4

\* Nor does a step after which every handler is where it was and the worker is
\* where it was.
LEMMA StillInv ==
    ASSUME IInv, HandlerInv', UNCHANGED pc, lost \subseteq lost', ctxDone => ctxDone',
           UNCHANGED <<wpc, slots, wg, available, batch, leased>>,
           beats' \subseteq SUBSET Tasks
    PROVE  IInv'
<1>1. \A places : At(places)' = At(places)
  BY DEF At
<1> QED
  BY <1>1 DEF IInv, WorkerTypeOK, Counted, Handed, Fits, BatchFits, DropsExcused

\* A step of the worker that neither takes a slot nor starts a handler leaves the
\* handlers and their counts as they are.
LEMMA LoopInv ==
    ASSUME IInv, UNCHANGED <<pc, attempt, expired, active, dirs, inflight, accepted,
                             failed, ctxDone, slots, wg>>,
           lost \subseteq lost', lost' \subseteq Leases
    PROVE  /\ HandlerInv'
           /\ Counted'
           /\ \A places : At(places)' = At(places)
<1>1. \A places : At(places)' = At(places)
  BY DEF At
<1>2. HandlerInv'
  BY DEF IInv, HandlerInv, HandlerTypeOK, AttemptsLeft
<1> QED
  BY <1>1, <1>2 DEF IInv, Counted

\* Each step of the lease loop preserves the invariant.
LEMMA WorkerStepInv ==
    ASSUME IInv, WorkerStep
    PROVE  IInv'
<1> USE WorkerAssumption DEF WorkerAssumption, IInv
<1>e. Cardinality({}) = 0
  BY FS_EmptySet
<1>1. CASE Register
  <2>1. /\ HandlerInv' /\ Counted' /\ At(Live)' = At(Live)
    BY <1>1, LoopInv DEF Register, handlerVars, HandlerInv, HandlerTypeOK
  <2> QED
    BY <1>1, <2>1 DEF Register, handlerVars, WorkerTypeOK, WorkerPCs, Handed,
        DropsExcused, Fits, BatchFits
<1>2. CASE LoopTop
  <2>1. /\ HandlerInv' /\ Counted' /\ At(Live)' = At(Live)
    BY <1>2, LoopInv DEF LoopTop, handlerVars, HandlerInv, HandlerTypeOK
  <2>2. WorkerTypeOK'
    BY <1>2 DEF LoopTop, WorkerTypeOK, WorkerPCs
  <2>3. Handed'
    BY <1>2, <2>1 DEF LoopTop, handlerVars, Handed, DropsExcused
  <2>4. Fits'
    BY <1>2 DEF LoopTop, Fits, BatchFits, WorkerTypeOK
  <2> QED
    BY <2>1, <2>2, <2>3, <2>4
<1>3. CASE Wait
  <2>1. /\ HandlerInv' /\ Counted' /\ At(Live)' = At(Live)
    BY <1>3, LoopInv DEF Wait, handlerVars, HandlerInv, HandlerTypeOK
  <2> QED
    BY <1>3, <2>1 DEF Wait, handlerVars, WorkerTypeOK, WorkerPCs, Handed,
        DropsExcused, Fits, BatchFits
<1>4. CASE LeaseReply
  <2>1. /\ HandlerInv' /\ Counted' /\ At(Live)' = At(Live)
    BY <1>4, LoopInv DEF LeaseReply, handlerVars, HandlerInv, HandlerTypeOK
  <2>2. PICK S \in SUBSET Leases :
            /\ Offerable(S)
            /\ leased' = leased \cup S
            /\ batch' = S
            /\ wpc' = IF S = {} THEN "top" ELSE "dispatch"
    BY <1>4 DEF LeaseReply
  <2>3. WorkerTypeOK'
    BY <1>4, <2>2 DEF LeaseReply, WorkerTypeOK, WorkerPCs
  <2>4. S \cap leased = {} /\ Cardinality(S) <= Requested + Overshoot
    BY <2>2 DEF Offerable
  <2>5. Handed'
    BY <1>4, <2>1, <2>2, <2>4 DEF LeaseReply, handlerVars, Handed, DropsExcused
  <2>6. Requested = available /\ available <= MaxTasks - slots
    <3>1. slots >= 0
      BY FS_CardinalityType, AtFinite DEF Counted
    <3> QED
      BY <1>4, <3>1 DEF LeaseReply, Requested, Fits, WorkerTypeOK
  <2>7. Cardinality(S) \in Nat
    BY <2>2, HandlerAssumption, FS_Subset, FS_CardinalityType DEF HandlerAssumption
  <2>8. Fits'
    BY <1>4, <2>2, <2>4, <2>6, <2>7 DEF LeaseReply, Fits, BatchFits, WorkerTypeOK
  <2> QED
    BY <2>1, <2>3, <2>5, <2>8
<1>5. CASE LeaseError
  <2>1. PICK S \in SUBSET Leases :
            Offerable(S) /\ leased' = leased \cup S /\ lost' = lost \cup S
    BY <1>5 DEF LeaseError
  <2>2. /\ HandlerInv' /\ Counted' /\ At(Live)' = At(Live)
    BY <1>5, <2>1, LoopInv DEF LeaseError, HandlerInv, HandlerTypeOK
  <2>3. WorkerTypeOK'
    BY <1>5, <2>1 DEF LeaseError, WorkerTypeOK, WorkerPCs
  <2>4. Handed'
    BY <1>5, <2>1, <2>2 DEF LeaseError, Handed, DropsExcused
  <2>5. Fits'
    BY <1>5 DEF LeaseError, Fits, BatchFits
  <2> QED
    BY <2>2, <2>3, <2>4, <2>5
<1>6. CASE Abandon
  <2>1. /\ HandlerInv' /\ Counted' /\ At(Live)' = At(Live)
    BY <1>6, LoopInv DEF Abandon, handlerVars, HandlerInv, HandlerTypeOK
  <2>2. WorkerTypeOK'
    BY <1>6 DEF Abandon, StopDispatch, WorkerTypeOK, WorkerPCs
  <2>3. Handed'
    BY <1>6, <2>1 DEF Abandon, StopDispatch, handlerVars, Handed, DropsExcused
  <2>4. Fits'
    BY <1>6, <1>e DEF Abandon, Fits, BatchFits, Counted, WorkerTypeOK
  <2> QED
    BY <2>1, <2>2, <2>3, <2>4
<1>7. CASE Join
  <2>1. /\ HandlerInv' /\ Counted' /\ At(Live)' = At(Live)
    BY <1>7, LoopInv DEF Join, handlerVars, HandlerInv, HandlerTypeOK
  <2>2. At(Live) = {}
    BY <1>7, AtFinite, FS_EmptySet DEF Join, AllDone, Counted
  <2> QED
    BY <1>7, <2>1, <2>2 DEF Join, handlerVars, WorkerTypeOK, WorkerPCs, Handed,
        DropsExcused, Fits, BatchFits
<1>8. CASE Dispatch
  <2>1. PICK l \in batch : Goto(l, "idle", "spawned") /\ batch' = batch \ {l}
    BY <1>8 DEF Dispatch
  <2>2. l \in Leases /\ pc[l] = "idle" /\ pc' = [pc EXCEPT ![l] = "spawned"]
    BY <2>1 DEF Goto, WorkerTypeOK
  <2>3. HandlerInv'
    BY <1>8, <2>2 DEF Dispatch, HandlerInv, HandlerTypeOK, AttemptsLeft, PCs, Live
  <2>4. /\ At(Live)' = At(Live) \cup {l} /\ l \notin At(Live)
        /\ At(Holding)' = At(Holding) \cup {l} /\ l \notin At(Holding)
    <3>1. "spawned" \in Live /\ "spawned" \in Holding
          /\ "idle" \notin Live /\ "idle" \notin Holding
      BY DEF Live, Holding, Running, Working, Leaving
    <3> QED
      BY <2>2, <3>1, MoveAt DEF At, HandlerInv, HandlerTypeOK
  <2>5. Counted'
    <3>1. /\ Cardinality(At(Live) \cup {l}) = Cardinality(At(Live)) + 1
          /\ Cardinality(At(Holding) \cup {l}) = Cardinality(At(Holding)) + 1
      BY <2>4, AtFinite, FS_AddElement
    <3> QED
      BY <1>8, <2>4, <3>1 DEF Dispatch, FreeSlot, Counted, WorkerTypeOK
  <2>6. WorkerTypeOK'
    BY <1>8, <2>1 DEF Dispatch, WorkerTypeOK, WorkerPCs
  <2>7. Handed'
    <3>1. \A m \in Leases : m # l => pc'[m] = pc[m]
      BY <2>2 DEF HandlerInv, HandlerTypeOK
    <3>2. pc'[l] = "spawned"
      BY <2>2 DEF HandlerInv, HandlerTypeOK
    <3> QED
      BY <1>8, <2>1, <3>1, <3>2 DEF Dispatch, Handed, DropsExcused, WorkerTypeOK
  <2>8. Cardinality(batch') = Cardinality(batch) - 1 /\ Cardinality(batch) \in Nat
    BY <2>1, HandlerAssumption, FS_Subset, FS_RemoveElement, FS_CardinalityType
    DEF HandlerAssumption, WorkerTypeOK
  <2>9. Fits'
    BY <1>8, <2>8 DEF Dispatch, FreeSlot, Fits, BatchFits, WorkerTypeOK
  <2> QED
    BY <2>3, <2>5, <2>6, <2>7, <2>9
<1> QED
  BY WorkerStep, <1>1, <1>2, <1>3, <1>4, <1>5, <1>6, <1>7, <1>8 DEF WorkerStep

-----------------------------------------------------------------------------
\* The last two steps of a handler give back what its start took.
LEMMA ReleaseInv ==
    ASSUME NEW l \in Leases, IInv, ReleaseSlot(l) \/ WgDone(l)
    PROVE  IInv'
<1> USE DEF IInv
<1>0. pc \in [Leases -> PCs]
  BY DEF HandlerInv, HandlerTypeOK
<1>1. CASE ReleaseSlot(l)
  <2>1. pc[l] = "slot" /\ pc' = [pc EXCEPT ![l] = "wg"]
    BY <1>1 DEF ReleaseSlot, Goto
  <2>2. /\ "slot" \in Live /\ "wg" \in Live
        /\ "slot" \in Holding /\ "wg" \notin Holding
    BY DEF Live, Holding, Running, Working, Leaving
  <2>3. /\ At(Live)' = At(Live)
        /\ At(Holding)' = At(Holding) \ {l} /\ l \in At(Holding)
    BY <1>0, <2>1, <2>2, MoveAt DEF At
  <2>4. Cardinality(At(Holding) \ {l}) = Cardinality(At(Holding)) - 1
    BY <2>3, AtFinite, FS_RemoveElement
  <2>5. HandlerInv'
    BY <1>1, <2>1, <2>2 DEF ReleaseSlot, HandlerInv, HandlerTypeOK, AttemptsLeft, PCs
  <2>6. WorkerTypeOK' /\ Counted'
    BY <1>1, <2>3, <2>4, WorkerAssumption
    DEF ReleaseSlot, WorkerTypeOK, Counted, WorkerAssumption
  <2>7. \A m \in Leases : pc'[m] = "idle" <=> pc[m] = "idle"
    BY <1>0, <2>1
  <2>8. Handed'
    BY <1>1, <2>3, <2>7 DEF ReleaseSlot, Handed, DropsExcused, WorkerTypeOK
  <2>9. Fits'
    <3>1. Cardinality(batch) \in Nat
      BY HandlerAssumption, FS_Subset, FS_CardinalityType
      DEF HandlerAssumption, WorkerTypeOK
    <3> QED
      BY <1>1, <3>1, WorkerAssumption
      DEF ReleaseSlot, Fits, BatchFits, WorkerTypeOK, WorkerAssumption
  <2> QED
    BY <2>5, <2>6, <2>8, <2>9
<1>2. CASE WgDone(l)
  <2>1. pc[l] = "wg" /\ pc' = [pc EXCEPT ![l] = "ended"]
    BY <1>2 DEF WgDone, Goto
  <2>2. /\ "wg" \in Live /\ "ended" \notin Live
        /\ "wg" \notin Holding /\ "ended" \notin Holding
    BY DEF Live, Holding, Running, Working, Leaving
  <2>3. /\ At(Holding)' = At(Holding)
        /\ At(Live)' = At(Live) \ {l} /\ l \in At(Live)
    BY <1>0, <2>1, <2>2, MoveAt DEF At
  <2>4. Cardinality(At(Live) \ {l}) = Cardinality(At(Live)) - 1
    BY <2>3, AtFinite, FS_RemoveElement
  <2>5. HandlerInv'
    BY <1>2, <2>1, <2>2 DEF WgDone, HandlerInv, HandlerTypeOK, AttemptsLeft, PCs
  <2>6. WorkerTypeOK' /\ Counted'
    BY <1>2, <2>3, <2>4 DEF WgDone, WorkerTypeOK, Counted
  <2>7. \A m \in Leases : pc'[m] = "idle" <=> pc[m] = "idle"
    BY <1>0, <2>1
  <2>8. Handed'
    BY <1>2, <2>3, <2>7 DEF WgDone, Handed, DropsExcused, WorkerTypeOK
  <2>9. Fits'
    BY <1>2 DEF WgDone, Fits, BatchFits
  <2> QED
    BY <2>5, <2>6, <2>8, <2>9
<1> QED
  BY <1>1, <1>2

\* No step of a handler can lose a lost call, or touch the parent's context.
LEMMA HandlerLost ==
    ASSUME NEW l \in Leases, HandlerStep(l) \/ ReportFailure(l)
    PROVE  lost \subseteq lost' /\ UNCHANGED ctxDone
<1>1. CASE HandlerStep(l)
  BY <1>1 DEF HandlerStep, Start, Setup, Work, Post, PostOk, PostError, Backoff,
      Clean, Leave
<1>2. CASE ReportFailure(l)
  BY <1>2 DEF ReportFailure, Report
<1> QED
  BY <1>1, <1>2

\* Each step of a handler's goroutine preserves the invariant.
LEMMA GoroutineInv ==
    ASSUME NEW l \in Leases, IInv, Goroutine(l)
    PROVE  IInv'
<1>0. HandlerInv
  BY DEF IInv
<1>1. CASE HandlerStep(l) /\ UNCHANGED workerVars
  BY <1>0, <1>1, HandlerStepInv, HandlerMoves, HandlerLost, MovesInv
<1>2. CASE ReportFailure(l)
  <2>1. PICK canReach \in BOOLEAN, missed \in SUBSET Leases :
            \/ Report(l, "fail", "cleanFail", canReach, missed)
            \/ Report(l, "panicFail", "slot", canReach, missed)
    <3>1. (~CtxDead(l)) \in BOOLEAN /\ TRUE \in BOOLEAN
      OBVIOUS
    <3>2. lost \cup {l} \in SUBSET Leases /\ lost \in SUBSET Leases
      BY <1>0 DEF HandlerInv, HandlerTypeOK
    <3>3. (IF CtxDead(l) THEN lost ELSE lost \cup {l}) \in SUBSET Leases
      BY <3>2
    <3> QED
      BY <1>2, <3>1, <3>2, <3>3 DEF ReportFailure
  <2>2. HandlerInv' /\ Moves(l, Held)
    BY <1>0, <2>1, ReportInv, ReportMoves
  <2> QED
    BY <1>2, <2>2, HandlerLost, MovesInv DEF ReportFailure
<1>3. CASE ReleaseSlot(l) \/ WgDone(l)
  BY <1>3, ReleaseInv
<1> QED
  BY <1>1, <1>2, <1>3, Goroutine(l) DEF Goroutine

\* Each step of the surroundings preserves the invariant.
LEMMA EnvironmentInv ==
    ASSUME IInv, Environment
    PROVE  IInv'
<1>0. HandlerInv /\ WorkerTypeOK
  BY DEF IInv
<1>1. CASE (Cancel \/ \E l \in Leases : HandlerEnv(l)) /\ UNCHANGED workerVars
  <2>1. HandlerInv'
    BY <1>0, <1>1, HandlerEnvInv
  <2>2. UNCHANGED <<pc, lost>> /\ (ctxDone => ctxDone')
    <3>1. UNCHANGED <<pc, lost>>
      BY <1>1 DEF Cancel, HandlerEnv, Deadline, ServerAccepts
    <3>2. UNCHANGED ctxDone \/ ~ctxDone
      BY <1>1 DEF Cancel, HandlerEnv, Deadline, ServerAccepts
    <3> QED
      BY <3>1, <3>2
  <2> QED
    BY <1>0, <1>1, <2>1, <2>2, StillInv DEF workerVars, WorkerTypeOK
<1>2. CASE ComposeBeat \/ FinishBeat
  <2>1. HandlerInv'
    BY <1>0, <1>2 DEF ComposeBeat, FinishBeat, handlerVars, HandlerInv,
        HandlerTypeOK, AttemptsLeft
  <2>2. beats' \subseteq SUBSET Tasks
    BY <1>0, <1>2 DEF ComposeBeat, activeTaskIDs, FinishBeat, HandlerInv, HandlerTypeOK
  <2> QED
    BY <1>2, <2>1, <2>2, StillInv DEF ComposeBeat, FinishBeat, handlerVars
<1> QED
  BY <1>1, <1>2, Environment DEF Environment

\* The invariant is inductive.
LEMMA NextInv == IInv /\ [Next]_vars => IInv'
<1> SUFFICES ASSUME IInv, [Next]_vars PROVE IInv'
  OBVIOUS
<1>1. CASE WorkerStep
  BY <1>1, WorkerStepInv
<1>2. CASE \E l \in Leases : Goroutine(l)
  BY <1>2, GoroutineInv
<1>3. CASE Environment
  BY <1>3, EnvironmentInv
<1>4. CASE UNCHANGED vars
  <2>1. HandlerInv'
    BY <1>4 DEF IInv, vars, handlerVars, HandlerInv, HandlerTypeOK, AttemptsLeft
  <2> QED
    BY <1>4, <2>1, StillInv DEF IInv, vars, handlerVars, workerVars, WorkerTypeOK
<1> QED
  BY <1>1, <1>2, <1>3, <1>4 DEF Next, Returned

\* The inductive invariant of runHTTP: slots, WaitGroup, batch and snapshot agree.
THEOREM Invariance == Spec => []IInv
  BY InitInv, NextInv, PTL DEF Spec

-----------------------------------------------------------------------------
\* Type correctness of every reachable state.
THEOREM TypeCorrect == Spec => []TypeOK
<1>1. IInv => TypeOK
  BY AtFinite, FS_CardinalityType
  DEF IInv, HandlerInv, WorkerTypeOK, Counted, TypeOK
<1> QED
  BY <1>1, Invariance, PTL

\* runHTTP never runs more than MaxTasks handlers, and its slots count them.
THEOREM ConcurrencyIsBounded == Spec => []ConcurrencyBounded
<1>1. IInv => ConcurrencyBounded
  BY DEF IInv, Counted, ConcurrencyBounded
<1> QED
  BY <1>1, Invariance, PTL

\* The snapshot taken before the long poll is still safe when the reply is used.
THEOREM BatchAlwaysFits == Spec => []BatchFits
<1>1. IInv => BatchFits
  BY DEF IInv, Fits
<1> QED
  BY <1>1, Invariance, PTL

\* runHTTP returns only after its last handler.
THEOREM ReturnIsLast == Spec => []JoinIsComplete
<1>1. IInv => JoinIsComplete
  BY DEF IInv, Counted, Handed, JoinIsComplete
<1> QED
  BY <1>1, Invariance, PTL

\* A lease that is handed out and never started has an excuse.
THEOREM DropsAreExcused == Spec => []DropsExcused
<1>1. IInv => DropsExcused
  BY DEF IInv, Handed
<1> QED
  BY <1>1, Invariance, PTL
=============================================================================
