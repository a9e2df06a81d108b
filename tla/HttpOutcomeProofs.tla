--------------------------- MODULE HttpOutcomeProofs ---------------------------
(***************************************************************************)
(* What the server is told about a lease by runHTTP and its handlers: no    *)
(* silent end without an excuse, and no failure reported while a retry of   *)
(* the upload is left.                                                      *)
(*                                                                          *)
(* The invariant follows one lease: which attempts it can have made at each *)
(* place, what it is sure of once its handler has reported, and what is     *)
(* true for ever after.                                                     *)
(*                                                                          *)
(* Then what two deliveries of one task do to the active set and to their   *)
(* common directory, and that HttpWorker implements TaskOutcome.            *)
(***************************************************************************)
EXTENDS HttpWorkerProofs

\* Before its first upload, and on the way out of a panic, which only Process can
\* raise.
Unposted == {"idle", "spawned", "setup", "work", "unwind", "panicFail"}

\* After the report of a failure, or after a success was cleaned up.
Reported == {"cleanFail", "leave", "slot", "wg", "ended"}

OutOfAttempts(l) == attempt[l] \in {0, MaxAttempts}

Excused(l) == Told(l) \/ CtxDead(l) \/ l \in lost

Lawful(l) ==
    /\ \A n \in 1..MaxAttempts : <<l, n>> \in inflight \cup accepted => n <= attempt[l]
    /\ pc[l] \in Unposted => attempt[l] = 0
    /\ pc[l] = "fail" => OutOfAttempts(l) \/ CtxDead(l)
    /\ pc[l] = "cleanOk" => Accepted(l)
    /\ pc[l] \in Reported => Excused(l)
    /\ l \in failed => OutOfAttempts(l) /\ pc[l] \in Reported

OInv == \A l \in Leases : Lawful(l)

-----------------------------------------------------------------------------
\* Deadlines, cancellations, answers and losses are for ever.
Grows ==
    /\ expired \subseteq expired' /\ (ctxDone => ctxDone')
    /\ accepted \subseteq accepted' /\ failed \subseteq failed' /\ lost \subseteq lost'

\* What excuses a lease excuses it later.
LEMMA ExcusesLast ==
    ASSUME Grows, NEW l \in Leases
    PROVE  /\ Accepted(l) => Accepted(l)'
           /\ CtxDead(l) => CtxDead(l)'
           /\ Excused(l) => Excused(l)'
  BY DEF Grows, Accepted, CtxDead, Excused, Told

\* A lease that a step leaves where it is, with the same attempts, stays lawful.
LEMMA UntouchedLawful ==
    ASSUME Grows, NEW l \in Leases, Lawful(l),
           pc'[l] = pc[l], attempt'[l] = attempt[l], l \in failed' => l \in failed,
           \A n \in 1..MaxAttempts :
               <<l, n>> \in inflight' \cup accepted' => <<l, n>> \in inflight \cup accepted
    PROVE  Lawful(l)'
  BY ExcusesLast DEF Lawful, OutOfAttempts

\* The steps of the shared handler.
LEMMA HandlerStepLawful ==
    ASSUME HandlerInv, NEW l \in Leases, Lawful(l), HandlerStep(l)
    PROVE  Lawful(l)'
<1> USE DEF HandlerInv, HandlerTypeOK, Unposted, Reported
<1>g. Grows
  BY DEF Grows, HandlerStep, Start, Setup, Work, Post, PostOk, PostError, Backoff,
      Clean, Leave
<1>x. /\ Accepted(l) => Accepted(l)'
      /\ CtxDead(l) => CtxDead(l)'
      /\ Excused(l) => Excused(l)'
  BY <1>g, ExcusesLast
<1>1. CASE Start(l) \/ Setup(l) \/ Work(l) \/ Leave(l)
  BY <1>1, <1>x DEF Start, Setup, Work, Leave, Goto, Lawful, OutOfAttempts
<1>2. CASE Post(l)
  <2>1. attempt'[l] = attempt[l] + 1 /\ attempt[l] \in Nat /\ pc[l] = "upload"
    BY <1>2 DEF Post
  <2>2. \A n \in 1..MaxAttempts :
            <<l, n>> \in inflight' \cup accepted' => n <= attempt'[l]
    BY <1>2, <2>1 DEF Post, Lawful
  <2>3. l \notin failed'
    BY <1>2, <2>1 DEF Post, Lawful
  <2>4. \/ pc'[l] = "wait" \/ pc'[l] = "backoff"
        \/ pc'[l] = "fail" /\ (CtxDead(l) \/ attempt'[l] = MaxAttempts)
    BY <1>2 DEF Post, Goto, AfterError
  <2> QED
    BY <1>x, <2>2, <2>3, <2>4 DEF Lawful, OutOfAttempts
<1>3. CASE PostOk(l)
  <2>1. Accepted(l)
    BY <1>3 DEF PostOk, Accepted, Lawful
  <2> QED
    BY <1>3, <1>x, <2>1 DEF PostOk, Goto, Lawful, OutOfAttempts
<1>4. CASE PostError(l)
  <2>1. \/ pc'[l] = "backoff"
        \/ pc'[l] = "fail" /\ (CtxDead(l) \/ attempt'[l] = MaxAttempts)
    BY <1>4 DEF PostError, Goto, AfterError
  <2> QED
    BY <1>4, <1>x, <2>1 DEF PostError, Goto, Lawful, OutOfAttempts
<1>5. CASE Backoff(l)
  BY <1>5, <1>x DEF Backoff, Goto, Lawful, OutOfAttempts
<1>6. CASE Clean(l)
  BY <1>6, <1>x DEF Clean, Goto, Lawful, OutOfAttempts, Excused, Told
<1> QED
  BY <1>1, <1>2, <1>3, <1>4, <1>5, <1>6 DEF HandlerStep

\* The report: it gets through, or the context was dead, or the call was lost.
LEMMA ReportLawful ==
    ASSUME HandlerInv, NEW l \in Leases, Lawful(l), ReportFailure(l)
    PROVE  Lawful(l)'
<1> USE DEF HandlerInv, HandlerTypeOK, Unposted, Reported
<1>1. CASE Report(l, "fail", "cleanFail", ~CtxDead(l),
                  IF CtxDead(l) THEN lost ELSE lost \cup {l})
  <2>1. Excused(l)'
    BY <1>1 DEF Report, Goto, Excused, Told, CtxDead, Accepted
  <2>2. l \in failed' => OutOfAttempts(l)
    BY <1>1 DEF Report, Goto, Lawful
  <2> QED
    BY <1>1, <2>1, <2>2 DEF Report, Goto, Lawful, OutOfAttempts
<1>2. CASE Report(l, "panicFail", "slot", TRUE, lost \cup {l})
  <2>1. Excused(l)'
    BY <1>2 DEF Report, Goto, Excused, Told, CtxDead, Accepted
  <2> QED
    BY <1>2, <2>1 DEF Report, Goto, Lawful, OutOfAttempts
<1> QED
  BY <1>1, <1>2 DEF ReportFailure

\* The last two steps of the goroutine.
LEMMA ReleaseLawful ==
    ASSUME HandlerInv, NEW l \in Leases, Lawful(l), ReleaseSlot(l) \/ WgDone(l)
    PROVE  Lawful(l)'
<1>1. Grows
  BY DEF Grows, ReleaseSlot, WgDone
<1> QED
  BY <1>1, ExcusesLast DEF ReleaseSlot, WgDone, Goto, Lawful, OutOfAttempts, HandlerInv,
      HandlerTypeOK, Unposted, Reported

\* A goroutine leaves the other leases as they are.
LEMMA OthersUntouched ==
    ASSUME HandlerInv, NEW l \in Leases, NEW m \in Leases, m # l, Lawful(m), Goroutine(l)
    PROVE  Lawful(m)'
<1> USE DEF HandlerInv, HandlerTypeOK
<1>1. CASE HandlerStep(l)
  <2>1. Grows /\ failed' = failed /\ accepted' = accepted
    BY <1>1 DEF Grows, HandlerStep, Start, Setup, Work, Post, PostOk, PostError,
        Backoff, Clean, Leave
  <2>2. pc'[m] = pc[m] /\ attempt'[m] = attempt[m]
    BY <1>1 DEF HandlerStep, Start, Setup, Work, Post, PostOk, PostError, Backoff,
        Clean, Leave, Goto
  <2>3. \A n \in 1..MaxAttempts : <<m, n>> \in inflight' => <<m, n>> \in inflight
    BY <1>1 DEF HandlerStep, Start, Setup, Work, Post, PostOk, PostError, Backoff,
        Clean, Leave
  <2> QED
    BY <2>1, <2>2, <2>3, UntouchedLawful
<1>2. CASE ReportFailure(l)
  <2>1. Grows /\ UNCHANGED <<attempt, inflight, accepted>>
    BY <1>2 DEF Grows, ReportFailure, Report
  <2>2. pc'[m] = pc[m] /\ (m \in failed' => m \in failed)
    BY <1>2 DEF ReportFailure, Report, Goto
  <2> QED
    BY <2>1, <2>2, UntouchedLawful
<1>3. CASE ReleaseSlot(l) \/ WgDone(l)
  <2>1. Grows /\ UNCHANGED <<attempt, inflight, accepted, failed>> /\ pc'[m] = pc[m]
    BY <1>3 DEF Grows, ReleaseSlot, WgDone, Goto
  <2> QED
    BY <2>1, UntouchedLawful
<1> QED
  BY <1>1, <1>2, <1>3 DEF Goroutine

\* The main loop touches a lease only to start it, or to lose its reply.
LEMMA WorkerStepLawful ==
    ASSUME HandlerInv, NEW m \in Leases, Lawful(m), WorkerStep
    PROVE  Lawful(m)'
<1>1. Grows /\ UNCHANGED <<attempt, inflight, accepted, failed>>
  BY DEF Grows, WorkerStep, Register, LoopTop, Wait, LeaseReply, LeaseError, Dispatch,
      Abandon, Join, handlerVars
<1>2. \/ pc'[m] = pc[m]
      \/ pc[m] = "idle" /\ pc'[m] = "spawned"
  <2>1. CASE Dispatch
    <3>1. PICK l \in batch : pc[l] = "idle" /\ pc' = [pc EXCEPT ![l] = "spawned"]
      BY <2>1 DEF Dispatch, Goto
    <3>2. pc \in [Leases -> PCs]
      BY DEF HandlerInv, HandlerTypeOK
    <3> QED
      BY <3>1, <3>2
  <2>2. CASE Register \/ LoopTop \/ Wait \/ LeaseReply \/ LeaseError \/ Abandon \/ Join
    <3>1. pc' = pc
      BY <2>2 DEF Register, LoopTop, Wait, LeaseReply, LeaseError, Abandon, Join, handlerVars
    <3> QED
      BY <3>1
  <2> QED
    BY <2>1, <2>2 DEF WorkerStep
<1>3. CASE pc'[m] = pc[m]
  BY <1>1, <1>3, UntouchedLawful
<1>4. CASE pc[m] = "idle" /\ pc'[m] = "spawned"
  BY <1>1, <1>4 DEF Lawful, OutOfAttempts, Unposted, Reported
<1> QED
  BY <1>2, <1>3, <1>4

\* The surroundings: an upload that is taken was made before.
LEMMA EnvironmentLawful ==
    ASSUME HandlerInv, NEW m \in Leases, Lawful(m), Environment
    PROVE  Lawful(m)'
<1>1. Grows /\ UNCHANGED <<pc, attempt, failed>>
  <2>1. ctxDone => ctxDone'
    <3>1. UNCHANGED ctxDone \/ ~ctxDone
      BY DEF Environment, Cancel, HandlerEnv, Deadline, ServerAccepts, ComposeBeat, FinishBeat
    <3> QED
      BY <3>1
  <2>2. /\ expired \subseteq expired' /\ accepted \subseteq accepted'
        /\ UNCHANGED <<pc, attempt, failed, lost>>
    BY DEF Environment, Cancel, HandlerEnv, Deadline, ServerAccepts, ComposeBeat,
        FinishBeat, handlerVars
  <2> QED
    BY <2>1, <2>2 DEF Grows
<1>2. inflight' \cup accepted' \subseteq inflight \cup accepted
  BY DEF Environment, Cancel, HandlerEnv, Deadline, ServerAccepts, ComposeBeat,
      FinishBeat, handlerVars
<1> QED
  BY <1>1, <1>2, UntouchedLawful

-----------------------------------------------------------------------------
\* At first no lease has been anywhere.
LEMMA OInitInv == Init => OInv
  BY DEF Init, HandlerInit, OInv, Lawful, OutOfAttempts, Unposted, Reported

\* Every step keeps every lease lawful.
LEMMA ONextInv == IInv /\ OInv /\ [Next]_vars => OInv'
<1> SUFFICES ASSUME IInv, OInv, [Next]_vars, NEW m \in Leases
             PROVE  Lawful(m)'
  BY DEF OInv
<1>0. HandlerInv /\ Lawful(m)
  BY DEF IInv, OInv
<1>1. CASE WorkerStep
  BY <1>0, <1>1, WorkerStepLawful
<1>2. ASSUME NEW l \in Leases, Goroutine(l) PROVE Lawful(m)'
  <2>1. CASE m # l
    BY <1>0, <1>2, <2>1, OthersUntouched
  <2>2. CASE m = l
    BY <1>0, <1>2, <2>2, HandlerStepLawful, ReportLawful, ReleaseLawful DEF Goroutine
  <2> QED
    BY <2>1, <2>2
<1>3. CASE Environment
  BY <1>0, <1>3, EnvironmentLawful
<1>4. CASE UNCHANGED vars
  <2>1. Grows /\ UNCHANGED <<pc, attempt, inflight, accepted, failed>>
    BY <1>4 DEF vars, handlerVars, Grows
  <2> QED
    BY <1>0, <2>1, UntouchedLawful
<1> QED
  BY <1>1, <1>2, <1>3, <1>4 DEF Next, Returned

\* What a lease can have told the server at each place, in every behaviour of runHTTP.
THEOREM OutcomeInvariance == Spec => []OInv
<1>1. Init => IInv /\ OInv
  BY InitInv, OInitInv
<1>2. (IInv /\ OInv) /\ [Next]_vars => (IInv /\ OInv)'
  BY NextInv, ONextInv
<1> QED
  BY <1>1, <1>2, PTL DEF Spec

\* A handler ends in silence only with a dead context or a lost call, however
\* uploads, answers, deadlines, panics and the shutdown fall together.
THEOREM SilentEndsAreExcused == Spec => []SilentEndExcused
<1>1. OInv => SilentEndExcused
  BY DEF OInv, Lawful, SilentEndExcused, At, Reported, Excused
<1> QED
  BY <1>1, OutcomeInvariance, PTL

\* The server holds a result and a failure of one lease only if every attempt of
\* the upload was made.
THEOREM ContradictionsNeedAllAttempts == Spec => []ContradictionNeedsAllAttempts
<1>1. ASSUME OInv, NEW l \in failed \cap Leases, Accepted(l)
      PROVE  attempt[l] = MaxAttempts
  <2>1. Lawful(l) /\ OutOfAttempts(l)
    BY <1>1 DEF OInv, Lawful
  <2>2. PICK n \in 1..MaxAttempts : <<l, n>> \in accepted
    BY <1>1 DEF Accepted
  <2>3. n <= attempt[l]
    BY <2>1, <2>2 DEF Lawful
  <2> QED
    BY <2>1, <2>3 DEF OutOfAttempts
<1>2. IInv /\ OInv => ContradictionNeedsAllAttempts
  BY <1>1 DEF IInv, HandlerInv, HandlerTypeOK, ContradictionNeedsAllAttempts
<1> QED
  BY <1>2, Invariance, OutcomeInvariance, PTL

-----------------------------------------------------------------------------
(* The active set and the directories, when a task is delivered twice.      *)

Departed == {"panicFail", "slot", "wg", "ended"}

\* A handler that has left the active set stays out of it.
LEMMA RivalsStay ==
    ASSUME pc \in [Leases -> PCs], NEW l \in Leases, NEW from \in PCs, NEW to \in PCs,
           Goto(l, from, to), NEW places, from \in places => to \in places
    PROVE  \A m \in Leases : Rival(m, places) => Rival(m, places)'
  BY DEF Rival, At, Goto

\* A goroutine's step but the two that write the active set.
LEMMA QuietActive ==
    ASSUME HandlerInv, ActiveIsRunning, NEW l \in Leases, NEW from \in PCs, NEW to \in PCs,
           Goto(l, from, to), active' = active, beats' = beats,
           from \in Running <=> to \in Running, from \in Departed => to \in Departed,
           to \in {"idle", "spawned"} => from \in {"idle", "spawned"}
    PROVE  ActiveIsRunning'
<1>1. pc \in [Leases -> PCs] /\ pc[l] = from /\ pc' = [pc EXCEPT ![l] = to]
  BY DEF HandlerInv, HandlerTypeOK, Goto
<1>2. /\ At(Running)' = At(Running)
      /\ Leases \ At({"idle", "spawned"}) \subseteq Leases \ At({"idle", "spawned"})'
  BY <1>1 DEF At
<1>3. \A m \in Leases : Rival(m, Departed) => Rival(m, Departed)'
  BY <1>1, RivalsStay
<1> QED
  BY <1>2, <1>3 DEF ActiveIsRunning, Departed, At

\* The active set lists what runs, at every step.
LEMMA ActiveNext == IInv /\ ActiveIsRunning /\ [Next]_vars => ActiveIsRunning'
<1> SUFFICES ASSUME IInv, ActiveIsRunning, [Next]_vars PROVE ActiveIsRunning'
  OBVIOUS
<1>0. HandlerInv /\ pc \in [Leases -> PCs] /\ TaskOf \in [Leases -> Tasks]
  BY HandlerAssumption DEF IInv, HandlerInv, HandlerTypeOK, HandlerAssumption
<1>1. ASSUME NEW l \in Leases, Start(l), UNCHANGED workerVars PROVE ActiveIsRunning'
  <2>1. pc[l] = "spawned" /\ pc' = [pc EXCEPT ![l] = "setup"]
        /\ active' = active \cup {TaskOf[l]} /\ beats' = beats
    BY <1>1 DEF Start, Goto, workerVars
  <2>2. At(Running)' = At(Running) \cup {l}
    BY <1>0, <2>1 DEF At, Running, Working
  <2>3. Leases \ At({"idle", "spawned"}) \subseteq Leases \ At({"idle", "spawned"})'
    BY <1>0, <2>1 DEF At
  <2>4. "spawned" \in PCs /\ "setup" \in PCs
    BY DEF PCs, Live, Running, Working
  <2>5. \A m \in Leases : Rival(m, Departed) => Rival(m, Departed)'
    BY <1>0, <2>1, <2>4, RivalsStay DEF Goto, Departed
  <2> QED
    BY <2>1, <2>2, <2>3, <2>5 DEF ActiveIsRunning, Departed, At
<1>2. ASSUME NEW l \in Leases, Leave(l), UNCHANGED workerVars PROVE ActiveIsRunning'
  <2>1. PICK from \in {"leave", "unwind"}, to \in {"slot", "panicFail"} : Goto(l, from, to)
    BY <1>2 DEF Leave
  <2>2. active' = active \ {TaskOf[l]} /\ beats' = beats
        /\ pc[l] = from /\ pc' = [pc EXCEPT ![l] = to]
    BY <1>2, <2>1 DEF Leave, Goto, workerVars
  <2>3. At(Running)' = At(Running) \ {l} /\ l \in At(Departed)'
    BY <1>0, <2>2 DEF At, Running, Working, Departed
  <2>4. Leases \ At({"idle", "spawned"}) \subseteq Leases \ At({"idle", "spawned"})'
    BY <1>0, <2>2 DEF At
  <2>5. from \in PCs /\ to \in PCs /\ from \notin Departed
    BY DEF PCs, Live, Running, Working, Leaving, Departed
  <2>6. \A m \in Leases : Rival(m, Departed) => Rival(m, Departed)'
    BY <1>0, <2>1, <2>5, RivalsStay
  <2>7. \A m \in Leases \ {l} : TaskOf[m] = TaskOf[l] => Rival(m, Departed)'
    BY <2>3 DEF Rival
  <2>8. active' \subseteq {TaskOf[m] : m \in At(Running)'}
    BY <2>2, <2>3 DEF ActiveIsRunning
  <2>9. \A m \in At(Running)' : TaskOf[m] \in active' \/ Rival(m, Departed)'
    BY <2>2, <2>3, <2>6, <2>7 DEF ActiveIsRunning, Departed, At
  <2> QED
    BY <2>2, <2>4, <2>8, <2>9 DEF ActiveIsRunning, Departed
<1>3. ASSUME NEW l \in Leases, Goroutine(l), ~Start(l), ~Leave(l) PROVE ActiveIsRunning'
  <2>1. active' = active /\ beats' = beats
    BY <1>3 DEF Goroutine, HandlerStep, Setup, Work, Post, PostOk, PostError, Backoff, Clean,
       ReportFailure, Report, ReleaseSlot, WgDone, workerVars
  <2>2. PICK from, to \in PCs :
           /\ Goto(l, from, to)
           /\ from \in Running <=> to \in Running
           /\ from \in Departed => to \in Departed
           /\ to \notin {"idle", "spawned"}
    BY <1>3 DEF Goroutine, HandlerStep, Setup, Work, Post, AfterError, PostOk, PostError,
       Backoff, Clean, ReportFailure, Report, ReleaseSlot, WgDone, PCs, Live, Running,
       Working, Leaving, Departed
  <2> QED
    BY <1>0, <2>1, <2>2, QuietActive
<1>4. CASE Dispatch
  <2>1. PICK l \in batch : Goto(l, "idle", "spawned")
    BY <1>4 DEF Dispatch
  <2>2. l \in Leases /\ active' = active /\ beats' = beats
    BY <1>4 DEF Dispatch, IInv, WorkerTypeOK
  <2> QED
    BY <1>0, <2>1, <2>2, QuietActive DEF PCs, Live, Running, Working, Leaving, Departed
<1>5. CASE UNCHANGED <<pc, active>> /\ beats' \in {beats, {}, {active}}
  <2>1. At(Running) \subseteq Leases \ At({"idle", "spawned"})
    BY DEF At, Running, Working
  <2>2. \A list \in beats' :
            list \subseteq {TaskOf[l] : l \in Leases \ At({"idle", "spawned"})}
    BY <1>5, <2>1 DEF ActiveIsRunning
  <2>3. \A places : At(places)' = At(places)
    BY <1>5 DEF At
  <2> QED
    BY <1>5, <2>2, <2>3 DEF ActiveIsRunning, Rival
<1>6. CASE WorkerStep /\ ~Dispatch
  BY <1>5, <1>6 DEF WorkerStep, Register, LoopTop, Wait, LeaseReply, LeaseError, Abandon,
     Join, handlerVars
<1>7. CASE Environment
  BY <1>5, <1>7 DEF Environment, Cancel, HandlerEnv, Deadline, ServerAccepts, ComposeBeat,
     FinishBeat, activeTaskIDs, handlerVars, workerVars
<1>8. CASE UNCHANGED vars
  BY <1>5, <1>8 DEF vars, handlerVars, workerVars
<1>9. ASSUME NEW l \in Leases, Goroutine(l) PROVE ActiveIsRunning'
  <2>1. Start(l) \/ Leave(l) => UNCHANGED workerVars
    BY <1>9 DEF Goroutine, Start, Leave, ReportFailure, Report, ReleaseSlot, WgDone, Goto
  <2> QED
    BY <1>1, <1>2, <1>3, <1>9, <2>1
<1> QED
  BY <1>4, <1>6, <1>7, <1>8, <1>9 DEF Next, Returned

\* Worker.active and every heartbeat list what runs, for any number of deliveries
\* of one task.
THEOREM ActiveAlwaysRuns == Spec => []ActiveIsRunning
<1>1. Init => ActiveIsRunning
  BY DEF Init, HandlerInit, ActiveIsRunning, At, Running, Working
<1> QED
  BY <1>1, ActiveNext, Invariance, PTL DEF Spec

Uploading == {"upload", "wait", "backoff"}
Cleaned   == {"leave", "slot", "wg", "ended"}

\* The directory of l is there, or the server has what was in it.
Sheltered(l) ==
    TaskOf[l] \in dirs \/ \E m \in Leases : TaskOf[m] = TaskOf[l] /\ Accepted(m)

\* UnacceptedKept, from the end of Process on.
ShelterInv == KeepFailed => \A l \in Leases :
    pc[l] \in Uploading \/ attempt[l] > 0 => Sheltered(l)

\* What a goroutine's step does to directories: only Clean removes one, and with
\* keep_failed only that of a result the server has.
LEMMA DirsMove ==
    ASSUME IInv, OInv, NEW l \in Leases, Goroutine(l)
    PROVE  \E from, to \in PCs :
             /\ Goto(l, from, to) /\ accepted' = accepted
             /\ from \in Cleaned => to \in Cleaned
             /\ to \in Uploading =>
                    /\ from \in Uploading \/ (from = "work" /\ TaskOf[l] \in dirs)
                    /\ dirs \subseteq dirs'
             /\ \A m \in Leases : attempt'[m] = attempt[m] \/ (m = l /\ from = "upload")
             /\ \/ dirs \subseteq dirs'
                \/ /\ dirs' = dirs \ {TaskOf[l]} /\ to = "leave"
                   /\ KeepFailed => Accepted(l)
<1>0. /\ pc \in [Leases -> PCs] /\ attempt \in [Leases -> 0..MaxAttempts] /\ Lawful(l)
      /\ KeepFailed \in BOOLEAN
  BY HandlerAssumption DEF IInv, HandlerInv, HandlerTypeOK, OInv, HandlerAssumption
<1> USE DEF Goto, PCs, Live, Running, Working, Leaving, Uploading, Cleaned
<1>1. CASE Clean(l)
  <2>1. /\ accepted' = accepted /\ attempt' = attempt
        /\ dirs' = IF Removes(pc[l] = "cleanFail") THEN dirs \ {TaskOf[l]} ELSE dirs
        /\ Goto(l, "cleanOk", "leave") \/ Goto(l, "cleanFail", "leave")
    BY <1>1 DEF Clean
  <2>2. CASE Goto(l, "cleanOk", "leave")
    <3>1. Accepted(l)
      BY <1>0, <2>2 DEF Lawful
    <3>2. dirs \subseteq dirs' \/ dirs' = dirs \ {TaskOf[l]}
      BY <2>1
    <3> QED
      BY <2>1, <2>2, <3>1, <3>2
  <2>3. CASE Goto(l, "cleanFail", "leave")
    <3>1. dirs \subseteq dirs' \/ (dirs' = dirs \ {TaskOf[l]} /\ ~KeepFailed)
      BY <2>1, <2>3 DEF Removes
    <3> QED
      BY <2>1, <2>3, <3>1
  <2> QED
    BY <2>1, <2>2, <2>3
<1>2. CASE Post(l)
  <2>1. /\ accepted' = accepted /\ dirs' = dirs /\ pc[l] = "upload"
        /\ \A m \in Leases \ {l} : attempt'[m] = attempt[m]
    BY <1>0, <1>2 DEF Post
  <2>2. PICK to \in {"wait", "fail", "backoff"} : Goto(l, "upload", to)
    BY <1>2 DEF Post, AfterError
  <2> QED
    BY <2>1, <2>2
<1>3. CASE Start(l) \/ Setup(l) \/ Work(l) \/ Leave(l)
  <2>1. accepted' = accepted /\ attempt' = attempt /\ dirs \subseteq dirs'
    BY <1>3 DEF Start, Setup, Work, Leave
  <2> QED
    BY <1>3, <2>1 DEF Start, Setup, Work, Leave
<1>4. CASE PostOk(l) \/ PostError(l) \/ Backoff(l) \/ ReportFailure(l) \/ ReleaseSlot(l)
           \/ WgDone(l)
  <2>1. accepted' = accepted /\ attempt' = attempt /\ dirs' = dirs
    BY <1>4 DEF PostOk, PostError, Backoff, ReportFailure, Report, ReleaseSlot, WgDone
  <2> QED
    BY <1>4, <2>1 DEF PostOk, PostError, AfterError, Backoff, ReportFailure, Report,
       ReleaseSlot, WgDone
<1> QED
  BY <1>1, <1>2, <1>3, <1>4 DEF Goroutine, HandlerStep

\* The directories that a redelivery or a later attempt needs, at every step.
LEMMA DirsNext ==
    ASSUME IInv, OInv, ResultKept, ShelterInv, [Next]_vars
    PROVE  ResultKept' /\ ShelterInv'
<1>0. pc \in [Leases -> PCs]
  BY DEF IInv, HandlerInv, HandlerTypeOK
<1>1. ASSUME NEW l \in Leases, Goroutine(l) PROVE ResultKept' /\ ShelterInv'
  <2>1. PICK from, to \in PCs :
             /\ Goto(l, from, to) /\ accepted' = accepted
             /\ from \in Cleaned => to \in Cleaned
             /\ to \in Uploading =>
                    /\ from \in Uploading \/ (from = "work" /\ TaskOf[l] \in dirs)
                    /\ dirs \subseteq dirs'
             /\ \A m \in Leases : attempt'[m] = attempt[m] \/ (m = l /\ from = "upload")
             /\ \/ dirs \subseteq dirs'
                \/ /\ dirs' = dirs \ {TaskOf[l]} /\ to = "leave"
                   /\ KeepFailed => Accepted(l)
    BY <1>1, DirsMove
  <2>2. /\ pc[l] = from /\ pc'[l] = to /\ \A m \in Leases \ {l} : pc'[m] = pc[m]
        /\ \A m \in Leases : Accepted(m)' <=> Accepted(m)
    BY <1>0, <2>1 DEF Goto, Accepted
  <2>3. ASSUME NEW m \in Leases, Rival(m, Cleaned) PROVE Rival(m, Cleaned)'
    BY <1>0, <2>1, <2>3, RivalsStay
  <2>4. ResultKept'
    <3> SUFFICES ASSUME NEW m \in Leases, pc'[m] \in Uploading
                 PROVE  TaskOf[m] \in dirs' \/ Rival(m, Cleaned)'
      BY DEF ResultKept, At, Uploading, Cleaned
    <3>1. CASE pc[m] \in Uploading /\ Rival(m, Cleaned)
      BY <2>3, <3>1
    <3>2. CASE dirs \subseteq dirs' /\ TaskOf[m] \in dirs
      BY <3>2
    <3>3. CASE dirs' = dirs \ {TaskOf[l]} /\ to = "leave" /\ m # l /\ TaskOf[m] \in dirs
      <4>1. l \in At(Cleaned)'
        BY <2>2, <3>3 DEF At, Cleaned
      <4> QED
        BY <3>3, <4>1 DEF Rival
    <3>4. pc[m] \in Uploading => TaskOf[m] \in dirs \/ Rival(m, Cleaned)
      BY DEF ResultKept, At, Uploading, Cleaned
    <3>5. CASE m = l
      BY <2>1, <2>2, <3>1, <3>2, <3>4, <3>5
    <3>6. CASE m # l
      BY <2>1, <2>2, <3>1, <3>2, <3>3, <3>4, <3>6
    <3> QED
      BY <3>5, <3>6
  <2>5. ShelterInv'
    <3> SUFFICES ASSUME KeepFailed, NEW m \in Leases,
                        pc'[m] \in Uploading \/ attempt'[m] > 0
                 PROVE  Sheltered(m)'
      BY DEF ShelterInv
    <3>1. Sheltered(m)
      <4>1. \/ pc[m] \in Uploading \/ attempt[m] > 0
            \/ TaskOf[m] \in dirs
        BY <2>1, <2>2 DEF Uploading
      <4> QED
        BY <4>1 DEF ShelterInv, Sheltered
    <3>2. CASE dirs \subseteq dirs'
      BY <2>2, <3>1, <3>2 DEF Sheltered
    <3>3. CASE dirs' = dirs \ {TaskOf[l]} /\ Accepted(l)
      BY <2>2, <3>1, <3>3 DEF Sheltered
    <3> QED
      BY <2>1, <3>2, <3>3
  <2> QED
    BY <2>4, <2>5
<1>2. CASE /\ UNCHANGED <<attempt, dirs>> /\ accepted \subseteq accepted'
           /\ \A l \in Leases : pc'[l] = pc[l] \/ (pc[l] = "idle" /\ pc'[l] = "spawned")
  <2>1. /\ \A l \in Leases : pc'[l] \in Uploading => pc[l] \in Uploading
        /\ \A l \in Leases : Accepted(l) => Accepted(l)'
        /\ At(Cleaned) \subseteq At(Cleaned)'
    BY <1>2 DEF Uploading, Cleaned, Accepted, At
  <2>2. ResultKept'
    BY <1>2, <2>1 DEF ResultKept, Rival, At, Uploading, Cleaned
  <2>3. ShelterInv'
    BY <1>2, <2>1 DEF ShelterInv, Sheltered
  <2> QED
    BY <2>2, <2>3
<1>3. CASE Dispatch
  <2>1. PICK l \in batch : Goto(l, "idle", "spawned")
    BY <1>3 DEF Dispatch
  <2> QED
    BY <1>0, <1>2, <1>3, <2>1 DEF Dispatch, Goto
<1>4. CASE WorkerStep /\ ~Dispatch
  BY <1>2, <1>4 DEF WorkerStep, Register, LoopTop, Wait, LeaseReply, LeaseError, Abandon,
     Join, handlerVars
<1>5. CASE Environment \/ UNCHANGED vars
  BY <1>2, <1>5 DEF Environment, Cancel, HandlerEnv, Deadline, ServerAccepts, ComposeBeat,
     FinishBeat, handlerVars, vars
<1> QED
  BY <1>1, <1>3, <1>4, <1>5 DEF Next, Returned

\* The two hold together in every behaviour.
LEMMA DirsInvariance == Spec => [](ResultKept /\ ShelterInv)
<1>1. Init => ResultKept /\ ShelterInv
  BY DEF Init, HandlerInit, ResultKept, ShelterInv, At, Uploading
<1>2. IInv /\ OInv /\ (ResultKept /\ ShelterInv) /\ [Next]_vars => (ResultKept /\ ShelterInv)'
  BY DirsNext
<1> QED
  BY <1>1, <1>2, Invariance, OutcomeInvariance, PTL DEF Spec

\* The files of an upload are there for every attempt, unless the handler of
\* another delivery of the task has cleaned up.
THEOREM ResultsAreKept == Spec => []ResultKept
  BY DirsInvariance, PTL

\* With keep_failed a result that was about to be uploaded stays on disk until the
\* server has one of that task.
THEOREM UnacceptedAreKept == Spec => []UnacceptedKept
<1>1. ShelterInv => UnacceptedKept
  BY DEF ShelterInv, Sheltered, UnacceptedKept
<1> QED
  BY <1>1, DirsInvariance, PTL

-----------------------------------------------------------------------------
(* The refinement of TaskOutcome.                                           *)

Over    == {"slot", "wg", "ended"}
Learned == {l \in Leases : Told(l)}

\* A lease is at one place of the abstract client.
LEMMA PhaseIs ==
    ASSUME NEW l \in Leases
    PROVE  /\ pc[l] \in Over => PhaseOf(l) = "over"
           /\ pc[l] # "idle" /\ pc[l] \notin Over => PhaseOf(l) = "running"
           /\ pc[l] = "idle" /\ l \in batch => PhaseOf(l) = "held"
           /\ pc[l] = "idle" /\ l \in leased \ batch => PhaseOf(l) = "over"
           /\ pc[l] = "idle" /\ l \notin leased /\ l \notin batch => PhaseOf(l) = "away"
  BY DEF PhaseOf, Over

\* The same after a step.
LEMMA PhaseNext ==
    ASSUME NEW l \in Leases
    PROVE  /\ pc'[l] \in Over => PhaseOf(l)' = "over"
           /\ pc'[l] # "idle" /\ pc'[l] \notin Over => PhaseOf(l)' = "running"
           /\ pc'[l] = "idle" /\ l \in batch' => PhaseOf(l)' = "held"
           /\ pc'[l] = "idle" /\ l \in leased' \ batch' => PhaseOf(l)' = "over"
           /\ pc'[l] = "idle" /\ l \notin leased' /\ l \notin batch' => PhaseOf(l)' = "away"
  BY DEF PhaseOf, Over

\* What the abstract client sees of a step.
LEMMA SeesNothing ==
    ASSUME \A l \in Leases : PhaseOf(l)' = PhaseOf(l), Learned' = Learned,
           expired' \cup lost' = expired \cup lost, ctxDone' = ctxDone,
           (wpc' = "returned") <=> (wpc = "returned")
    PROVE  UNCHANGED Outcome!vars
<1>1. (wpc' = "returned") = (wpc = "returned")
  OBVIOUS
<1>2. [l \in Leases |-> PhaseOf(l)]' = [l \in Leases |-> PhaseOf(l)]
  OBVIOUS
<1> QED
  BY <1>1, <1>2 DEF Outcome!vars, Learned

\* Leases that move together, in the abstract client.
LEMMA SeesMove ==
    ASSUME NEW S \in SUBSET Leases, NEW p, \A l \in S : PhaseOf(l)' = p,
           \A l \in Leases \ S : PhaseOf(l)' = PhaseOf(l)
    PROVE  Outcome!Move(S, p)
  BY DEF Outcome!Move

\* TaskOutcome counts as HttpWorker does.
LEMMA SameCount == \A S : Outcome!Cardinality(S) = Cardinality(S)
  BY Zenon DEF Cardinality, Outcome!Cardinality

\* The abstract client starts where the worker does.
LEMMA OutcomeInit == Init => Outcome!Init
<1> SUFFICES ASSUME Init PROVE Outcome!Init
  OBVIOUS
<1>1. \A l \in Leases : PhaseOf(l) = "away" /\ ~Told(l)
  BY PhaseIs DEF Init, HandlerInit, Told, Accepted
<1>2. (wpc = "returned") = FALSE /\ ctxDone = FALSE /\ expired \cup lost = {}
  BY DEF Init, HandlerInit
<1> QED
  BY <1>1, <1>2 DEF Outcome!Init

\* A step of the main loop is one of the abstract client, or none.
LEMMA WorkerStepRefines ==
    ASSUME IInv, WorkerStep
    PROVE  Outcome!Next \/ UNCHANGED Outcome!vars
<1>1. /\ pc \in [Leases -> PCs] /\ batch \subseteq Leases /\ leased \subseteq Leases
      /\ Handed /\ \A l \in batch : pc[l] = "idle"
  BY DEF IInv, HandlerInv, HandlerTypeOK, WorkerTypeOK, Handed
<1>2. Learned' = Learned /\ expired' = expired /\ ctxDone' = ctxDone
  BY DEF WorkerStep, Register, LoopTop, Wait, LeaseReply, LeaseError, Dispatch, Abandon,
     Join, handlerVars, Learned, Told, Accepted
<1>3. ASSUME UNCHANGED <<pc, batch, leased>>
      PROVE  \A l \in Leases : PhaseOf(l)' = PhaseOf(l)
  BY <1>3 DEF PhaseOf
<1>4. CASE LoopTop \/ Wait
  BY <1>2, <1>3, <1>4, SeesNothing DEF LoopTop, Wait, handlerVars
<1>5. CASE (Register \/ Join) /\ wpc' # "returned"
  BY <1>2, <1>3, <1>5, SeesNothing DEF Register, Join, handlerVars
<1>6. CASE (Register \/ Join) /\ wpc' = "returned"
  <2>1. At(Live) = {} /\ UNCHANGED <<pc, batch, leased, lost>>
    <3>1. CASE Register
      BY <1>1, <3>1 DEF Register, Handed, handlerVars
    <3>2. CASE Join
      <4>1. Cardinality(At(Live)) = 0
        BY <3>2 DEF Join, AllDone, IInv, Counted
      <4>2. At(Live) = {}
        BY <4>1, AtFinite, FS_EmptySet
      <4> QED
        BY <3>2, <4>2 DEF Join, handlerVars
    <3> QED
      BY <1>6, <3>1, <3>2
  <2>2. \A l \in Leases : PhaseOf(l) # "running"
    BY <1>1, <2>1, PhaseIs DEF At, Over, PCs, Live, Leaving
  <2>3. [l \in Leases |-> PhaseOf(l)]' = [l \in Leases |-> PhaseOf(l)]
    BY <1>3, <2>1
  <2>4. (wpc' = "returned") = TRUE
    BY <1>6
  <2>5. Outcome!Stop
    BY <1>2, <2>1, <2>2, <2>3, <2>4 DEF Outcome!Stop, Outcome!In, Learned
  <2> QED
    BY <2>5 DEF Outcome!Next
<1>7. CASE LeaseReply \/ LeaseError
  <2>1. PICK S \in SUBSET Leases :
           /\ S \subseteq Leases \ leased /\ leased' = leased \cup S /\ pc' = pc
           /\ \/ batch' = S /\ lost' = lost
              \/ batch' = batch /\ lost' = lost \cup S
    BY <1>7 DEF LeaseReply, LeaseError, Offerable, handlerVars
  <2>2. wpc = "lease" /\ wpc' # "returned" /\ batch = {}
    BY <1>1, <1>7 DEF LeaseReply, LeaseError, Handed
  <2>3. \A l \in S : PhaseOf(l) = "away" /\ pc[l] = "idle"
    BY <1>1, <2>1, <2>2, PhaseIs DEF Handed
  <2>4. \A l \in Leases \ S : PhaseOf(l)' = PhaseOf(l)
    BY <2>1, <2>2 DEF PhaseOf
  <2>5. (wpc = "returned") = FALSE /\ (wpc' = "returned") = FALSE
    BY <2>2
  <2>6. CASE batch' = S /\ lost' = lost
    <3>1. \A l \in S : PhaseOf(l)' = "held"
      BY <2>1, <2>3, <2>6, PhaseNext
    <3>2. Outcome!Move(S, "held")
      BY <2>4, <3>1, SeesMove
    <3>3. Outcome!Hand(S)
      BY <1>2, <2>3, <2>5, <2>6, <3>2 DEF Outcome!Hand, Outcome!In, Learned
    <3> QED
      BY <3>3 DEF Outcome!Next
  <2>7. CASE batch' = batch /\ lost' = lost \cup S
    <3>1. \A l \in S : PhaseOf(l)' = "over"
      BY <2>1, <2>2, <2>3, <2>7, PhaseNext
    <3>2. Outcome!Move(S, "over")
      BY <2>4, <3>1, SeesMove
    <3>3. expired' \cup lost' = (expired \cup lost) \cup S
      BY <1>2, <2>7
    <3>4. Outcome!Hand(S)
      BY <1>2, <2>3, <2>5, <3>2, <3>3 DEF Outcome!Hand, Outcome!In, Learned
    <3> QED
      BY <3>4 DEF Outcome!Next
  <2> QED
    BY <2>1, <2>6, <2>7
<1>8. CASE Dispatch
  <2>1. PICK l \in batch : /\ pc[l] = "idle" /\ pc' = [pc EXCEPT ![l] = "spawned"]
                           /\ batch' = batch \ {l}
    BY <1>8 DEF Dispatch, Goto
  <2>2. l \in Leases /\ PhaseOf(l) = "held" /\ PhaseOf(l)' = "running"
    BY <1>1, <2>1, PhaseIs, PhaseNext DEF Over
  <2>3. \A m \in Leases \ {l} : PhaseOf(m)' = PhaseOf(m)
    BY <1>1, <1>8, <2>1 DEF PhaseOf, Dispatch
  <2>4. Outcome!Move({l}, "running")
    BY <2>2, <2>3, SeesMove
  <2>5. Outcome!Cardinality(Outcome!In("running")) < MaxTasks
    <3>1. Outcome!In("running") \subseteq At(Holding)
      BY <1>1, PhaseIs DEF Outcome!In, At, Holding, Live, Leaving, PCs, Over
    <3>2. /\ Cardinality(Outcome!In("running")) <= Cardinality(At(Holding))
          /\ Cardinality(Outcome!In("running")) \in Nat /\ Cardinality(At(Holding)) \in Nat
      BY <3>1, AtFinite, FS_Subset, FS_CardinalityType
    <3> QED
      BY <1>8, <3>2, SameCount, WorkerAssumption DEF Dispatch, FreeSlot, IInv, Counted, WorkerAssumption
  <2>6. (wpc = "returned") = FALSE /\ (wpc' = "returned") = FALSE /\ lost' = lost
    BY <1>8 DEF Dispatch
  <2>7. /\ [m \in Leases |-> PhaseOf(m)][l] = "held"
        /\ ~(wpc = "returned") /\ (wpc = "returned")' = (wpc = "returned")
        /\ (expired \cup lost)' = expired \cup lost
    BY <1>2, <2>2, <2>6
  <2>8. Outcome!Run(l)
    BY <1>2, <2>4, <2>5, <2>6, <2>7, Zenon DEF Outcome!Run, Learned
  <2> QED
    BY <2>2, <2>8 DEF Outcome!Next
<1>9. CASE Abandon
  <2>1. /\ ctxDone /\ batch' = {} /\ UNCHANGED <<pc, leased, lost>>
        /\ wpc = "dispatch" /\ wpc' = "joining"
    BY <1>9 DEF Abandon, StopDispatch, handlerVars
  <2>2. \A l \in Leases : PhaseOf(l) = "held" <=> l \in batch
    BY <1>1, PhaseIs
  <2>3. \A l \in batch : PhaseOf(l)' = "over"
    BY <1>1, <2>1, PhaseNext DEF Handed
  <2>4. \A l \in Leases \ batch : PhaseOf(l)' = PhaseOf(l)
    BY <2>1 DEF PhaseOf
  <2>5. Outcome!In("held") = batch
    BY <1>1, <2>2 DEF Outcome!In
  <2>6. Outcome!Move(batch, "over")
    BY <1>1, <2>3, <2>4, SeesMove
  <2>7. (wpc = "returned") = FALSE /\ (wpc' = "returned") = FALSE
    BY <2>1
  <2>8. Outcome!Drop
    BY <1>2, <2>1, <2>5, <2>6, <2>7 DEF Outcome!Drop, Learned
  <2> QED
    BY <2>8 DEF Outcome!Next
<1> QED
  BY <1>4, <1>5, <1>6, <1>7, <1>8, <1>9 DEF WorkerStep

\* So is a step of a goroutine.
LEMMA GoroutineRefines ==
    ASSUME IInv, OInv, NEW l \in Leases, Goroutine(l)
    PROVE  Outcome!Next \/ UNCHANGED Outcome!vars
<1>1. /\ pc \in [Leases -> PCs] /\ Lawful(l)
      /\ UNCHANGED <<batch, leased, ctxDone, expired, accepted>>
      /\ (wpc' = "returned") = (wpc = "returned")
  BY DEF IInv, OInv, HandlerInv, HandlerTypeOK, Goroutine, HandlerStep, Start, Setup, Work,
     Post, PostOk, PostError, Backoff, Clean, Leave, ReportFailure, Report, ReleaseSlot,
     WgDone, workerVars
<1>2. PICK from, to \in PCs : Goto(l, from, to)
  BY DEF Goroutine, HandlerStep, Start, Setup, Work, Post, AfterError, PostOk, PostError,
     Backoff, Clean, Leave, ReportFailure, Report, ReleaseSlot, WgDone, PCs, Live, Running,
     Working, Leaving
<1>3. \A m \in Leases \ {l} : PhaseOf(m)' = PhaseOf(m)
  BY <1>1, <1>2 DEF PhaseOf, Goto
<1>4. pc[l] = from /\ pc'[l] = to
  BY <1>1, <1>2 DEF Goto
<1>5. ASSUME from # "idle", from \notin Over, to # "idle", to \notin Over
      PROVE  \A m \in Leases : PhaseOf(m)' = PhaseOf(m)
  BY <1>3, <1>4, <1>5, PhaseIs, PhaseNext
<1>6. ASSUME from # "idle", from \notin Over, to \in Over
      PROVE  /\ [m \in Leases |-> PhaseOf(m)][l] = "running"
             /\ Outcome!Move({l}, "over")
  <2>1. PhaseOf(l) = "running" /\ PhaseOf(l)' = "over"
    BY <1>4, <1>6, PhaseIs, PhaseNext
  <2> QED
    BY <1>3, <2>1, SeesMove
<1>7. CASE HandlerStep(l) /\ UNCHANGED workerVars
  <2>1. Learned' = Learned /\ lost' = lost
    BY <1>1, <1>7 DEF Learned, Told, Accepted, HandlerStep, Start, Setup, Work, Post,
       PostOk, PostError, Backoff, Clean, Leave
  <2>2. \/ from \notin Over \cup {"idle"} /\ to \notin Over \cup {"idle"}
        \/ from = "leave" /\ to = "slot"
    BY <1>2, <1>4, <1>7 DEF HandlerStep, Start, Setup, Work, Post, AfterError, PostOk,
       PostError, Backoff, Clean, Leave, Goto, Over
  <2>3. CASE from \notin Over \cup {"idle"} /\ to \notin Over \cup {"idle"}
    BY <1>1, <1>5, <2>1, <2>3, SeesNothing
  <2>4. CASE from = "leave" /\ to = "slot"
    <3>1. l \in Learned \cup (expired \cup lost) \/ ctxDone
      BY <1>1, <1>4, <2>4 DEF Lawful, Reported, Excused, CtxDead, Learned
    <3>2. Outcome!Finish(l)
      BY <1>1, <1>6, <2>1, <2>4, <3>1 DEF Outcome!Finish, Learned, Over
    <3> QED
      BY <3>2 DEF Outcome!Next
  <2> QED
    BY <2>2, <2>3, <2>4
<1>8. CASE ReportFailure(l)
  <2>1. /\ \/ from = "fail" /\ to = "cleanFail"
           \/ from = "panicFail" /\ to = "slot"
        /\ \/ Learned' = Learned \cup {l} /\ lost' = lost
           \/ Learned' = Learned /\ lost' = lost \cup {l}
           \/ Learned' = Learned /\ lost' = lost /\ from = "fail"
    BY <1>1, <1>4, <1>8 DEF ReportFailure, Report, Goto, Learned, Told, Accepted
  <2>2. CASE from = "fail" /\ to = "cleanFail"
    <3>1. /\ \A m \in Leases : PhaseOf(m)' = PhaseOf(m)
          /\ [m \in Leases |-> PhaseOf(m)][l] = "running"
      BY <1>4, <1>5, <2>2, PhaseIs DEF Over
    <3>2. CASE Learned' = Learned /\ lost' = lost
      BY <1>1, <3>1, <3>2, SeesNothing
    <3>3. CASE Learned' = Learned \cup {l} /\ lost' = lost
      <4>1. Outcome!Learn(l)
        BY <1>1, <3>1, <3>3 DEF Outcome!Learn, Learned
      <4> QED
        BY <4>1 DEF Outcome!Next
    <3>4. CASE Learned' = Learned /\ lost' = lost \cup {l}
      <4>1. Outcome!Excuse(l)
        BY <1>1, <3>1, <3>4 DEF Outcome!Excuse, Learned
      <4> QED
        BY <4>1 DEF Outcome!Next
    <3> QED
      BY <2>1, <3>2, <3>3, <3>4
  <2>3. CASE from = "panicFail" /\ to = "slot"
    <3>1. /\ [m \in Leases |-> PhaseOf(m)][l] = "running"
          /\ Outcome!Move({l}, "over")
      BY <1>6, <2>3 DEF Over
    <3>2. Outcome!LearnAndFinish(l)
      BY <1>1, <2>1, <2>3, <3>1 DEF Outcome!LearnAndFinish, Learned
    <3> QED
      BY <3>2 DEF Outcome!Next
  <2> QED
    BY <2>1, <2>2, <2>3
<1>9. CASE ReleaseSlot(l) \/ WgDone(l)
  <2>1. Learned' = Learned /\ lost' = lost /\ from \in Over /\ to \in Over
    <3>1. UNCHANGED <<failed, accepted, lost>>
      BY <1>9 DEF ReleaseSlot, WgDone
    <3>2. pc[l] \in Over /\ pc'[l] \in Over
      BY <1>1, <1>9 DEF ReleaseSlot, WgDone, Goto, Over
    <3> QED
      BY <1>4, <3>1, <3>2 DEF Learned, Told, Accepted
  <2>2. PhaseOf(l)' = PhaseOf(l)
    BY <1>4, <2>1, PhaseIs, PhaseNext
  <2> QED
    BY <1>1, <1>3, <2>1, <2>2, SeesNothing
<1> QED
  BY <1>7, <1>8, <1>9 DEF Goroutine

\* And so is what happens around the worker.
LEMMA EnvironmentRefines ==
    ASSUME IInv, OInv, Environment
    PROVE  Outcome!Next \/ UNCHANGED Outcome!vars
<1>1. /\ UNCHANGED <<pc, batch, leased, failed, lost>>
      /\ (wpc' = "returned") = (wpc = "returned")
  BY DEF Environment, Cancel, HandlerEnv, Deadline, ServerAccepts, ComposeBeat, FinishBeat,
     handlerVars, workerVars
<1>2. \A l \in Leases : PhaseOf(l)' = PhaseOf(l)
  BY <1>1 DEF PhaseOf
<1>3. [l \in Leases |-> PhaseOf(l)]' = [l \in Leases |-> PhaseOf(l)]
  BY <1>2
<1>4. CASE ComposeBeat \/ FinishBeat
  BY <1>1, <1>2, <1>4, SeesNothing DEF ComposeBeat, FinishBeat, handlerVars, Learned, Told,
     Accepted
<1>5. CASE Cancel
  <2>1. Learned' = Learned /\ expired' = expired /\ ctxDone' = TRUE
    BY <1>5 DEF Cancel, Learned, Told, Accepted
  <2>2. Outcome!Cut
    BY <1>1, <1>3, <2>1 DEF Outcome!Cut, Learned
  <2> QED
    BY <2>2 DEF Outcome!Next
<1>6. ASSUME NEW l \in Leases, Deadline(l) PROVE Outcome!Next
  <2>1. /\ Learned' = Learned /\ ctxDone' = ctxDone
        /\ expired' \cup lost' = (expired \cup lost) \cup {l}
    BY <1>1, <1>6 DEF Deadline, Learned, Told, Accepted
  <2>2. [m \in Leases |-> PhaseOf(m)][l] = "running"
    BY <1>6, PhaseIs DEF Deadline, Over
  <2>3. Outcome!Excuse(l)
    BY <1>1, <1>3, <2>1, <2>2 DEF Outcome!Excuse, Learned
  <2> QED
    BY <2>3 DEF Outcome!Next
<1>7. ASSUME NEW l \in Leases, ServerAccepts(l) PROVE Outcome!Next
  <2>1. PICK n \in 1..MaxAttempts :
           <<l, n>> \in inflight /\ accepted' = accepted \cup {<<l, n>>}
    BY <1>7 DEF ServerAccepts
  <2>2. Learned' = Learned \cup {l} /\ expired' = expired /\ ctxDone' = ctxDone
    <3>1. expired' = expired /\ ctxDone' = ctxDone /\ failed' = failed
      BY <1>7 DEF ServerAccepts
    <3>2. \A m \in Leases : Accepted(m)' <=> Accepted(m) \/ m = l
      BY <2>1 DEF Accepted
    <3> QED
      BY <3>1, <3>2 DEF Learned, Told
  <2>3. pc[l] # "idle"
    <3>1. n <= attempt[l] /\ Lawful(l)
      BY <2>1 DEF OInv, Lawful
    <3> QED
      BY <3>1 DEF Lawful, Unposted
  <2>4. [m \in Leases |-> PhaseOf(m)][l] \in {"running", "over"}
    BY <2>3, PhaseIs
  <2>5. Outcome!Learn(l)
    BY <1>1, <1>3, <2>2, <2>4 DEF Outcome!Learn, Learned
  <2> QED
    BY <2>5 DEF Outcome!Next
<1> QED
  BY <1>4, <1>5, <1>6, <1>7 DEF Environment, HandlerEnv

\* runHTTP with its handlers implements the client of TaskOutcome: every step is
\* one of its steps or is not seen, for any leases, slots and attempts.
THEOREM KeepsPromise == Spec => Promise
<1>1. Init => Outcome!Init
  BY OutcomeInit
<1>2. IInv /\ OInv /\ [Next]_vars => [Outcome!Next]_(Outcome!vars)
  <2> SUFFICES ASSUME IInv, OInv, [Next]_vars
               PROVE  Outcome!Next \/ UNCHANGED Outcome!vars
    OBVIOUS
  <2>1. CASE UNCHANGED vars
    BY <2>1, SeesNothing DEF vars, handlerVars, workerVars, PhaseOf, Learned, Told, Accepted
  <2> QED
    BY <2>1, WorkerStepRefines, GoroutineRefines, EnvironmentRefines DEF Next, Returned
<1> QED
  BY <1>1, <1>2, Invariance, OutcomeInvariance, PTL DEF Spec, Promise, Outcome!Spec

\* The client that TaskOutcome describes ends no lease in silence without an excuse.
LEMMA PromiseIsNotSilent == Outcome!Spec => []Outcome!NeverSilent
<1>1. Outcome!Init => Outcome!NeverSilent
  BY DEF Outcome!Init, Outcome!NeverSilent
<1>2. Outcome!NeverSilent /\ [Outcome!Next]_(Outcome!vars) => Outcome!NeverSilent'
  <2> SUFFICES ASSUME Outcome!NeverSilent, [Outcome!Next]_(Outcome!vars)
               PROVE  Outcome!NeverSilent'
    OBVIOUS
  <2>1. CASE \E S \in SUBSET Leases : Outcome!Hand(S)
    BY <2>1 DEF Outcome!Hand, Outcome!Move, Outcome!In, Outcome!NeverSilent
  <2>2. CASE \E l \in Leases : Outcome!Run(l) \/ Outcome!Finish(l) \/ Outcome!LearnAndFinish(l)
    BY <2>2 DEF Outcome!Run, Outcome!Finish, Outcome!LearnAndFinish, Outcome!Move, Outcome!NeverSilent
  <2>3. CASE \/ \E l \in Leases : Outcome!Learn(l) \/ Outcome!Excuse(l)
             \/ Outcome!Cut \/ Outcome!Stop \/ UNCHANGED Outcome!vars
    BY <2>3 DEF Outcome!Learn, Outcome!Excuse, Outcome!Cut, Outcome!Stop, Outcome!vars,
                Outcome!NeverSilent
  <2>4. CASE Outcome!Drop
    BY <2>4 DEF Outcome!Drop, Outcome!NeverSilent
  <2> QED
    BY <2>1, <2>2, <2>3, <2>4 DEF Outcome!Next
<1> QED
  BY <1>1, <1>2, PTL DEF Outcome!Spec

\* So whoever knows only TaskOutcome may rely on runHTTP: no lease of it is over in silence
\* without an excuse.
THEOREM NeverSilentHolds == Spec => []Outcome!NeverSilent
  BY KeepsPromise, PromiseIsNotSilent, PTL DEF Promise
=============================================================================
