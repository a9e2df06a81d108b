------------------------------ MODULE HttpWorker ------------------------------
(***************************************************************************)
(* The polling worker: runHTTP of internal/client/worker.go.  One goroutine *)
(* leases tasks from the server and starts a handler goroutine for each,    *)
(* bounded by a channel of MaxTasks slots; another sends heartbeats; Run    *)
(* returns when its context is cancelled and every handler has ended.       *)
(* The server is external: it answers a lease request as it likes, up to    *)
(* Overshoot leases too many, and may deliver a task again at any time.     *)
(***************************************************************************)
EXTENDS TaskHandler

CONSTANTS MaxTasks,   \* worker.max_tasks: the capacity of sem
          Overshoot   \* how many leases above the request a reply may carry

ASSUME WorkerAssumption ==
    /\ MaxTasks \in Nat \ {0}
    /\ Overshoot \in Nat

VARIABLES
    wpc,        \* where runHTTP is
    slots,      \* len(sem)
    wg,         \* the counter of the WaitGroup
    available,  \* cap(sem) - len(sem) as read before the lease request
    batch,      \* leases of the reply that are not dispatched yet
    leased,     \* leases the server has handed out
    beats       \* the lists of task ids in heartbeat requests that are out

workerVars == <<wpc, slots, wg, available, batch, leased, beats>>
vars == <<handlerVars, ctxDone, workerVars>>

WorkerPCs == {"register", "top", "full", "lease", "pause", "dispatch",
              "joining", "returned"}

Init ==
    /\ HandlerInit
    /\ wpc = "register"
    /\ slots = 0 /\ wg = 0 /\ available = 0
    /\ batch = {} /\ leased = {}
    /\ beats = {}

-----------------------------------------------------------------------------
(* The lease loop.                                                          *)

\* MkdirAll and register; on an error runHTTP returns before wg exists.
Register ==
    /\ wpc = "register"
    /\ wpc' \in {"top", "returned"}
    /\ UNCHANGED <<handlerVars, ctxDone, slots, wg, available, batch, leased, beats>>

\* Mutant: the loop does not look at the context.
LoopTopBlind ==
    /\ wpc = "top"
    /\ available' = MaxTasks - slots
    /\ wpc' = IF available' <= 0 THEN "full" ELSE "lease"
    /\ UNCHANGED <<handlerVars, ctxDone, slots, wg, batch, leased, beats>>

\* The head of the loop: ctx.Done(), then the snapshot of the free slots.
LoopTop ==
    /\ wpc = "top"
    /\ \/ /\ ctxDone
          /\ wpc' = "joining"
          /\ UNCHANGED available
       \/ /\ ~ctxDone
          /\ available' = MaxTasks - slots
          /\ wpc' = IF available' <= 0 THEN "full" ELSE "lease"
    /\ UNCHANGED <<handlerVars, ctxDone, slots, wg, batch, leased, beats>>

\* All slots taken: half a second, or the end of the context; and the five
\* seconds after a failed lease, which do not look at the context.
Wait ==
    /\ \/ wpc = "full" /\ ctxDone /\ wpc' = "joining"
       \/ wpc \in {"full", "pause"} /\ wpc' = "top"
    /\ UNCHANGED <<handlerVars, ctxDone, slots, wg, available, batch, leased, beats>>

\* The max_tasks that lease sends.
Requested == IF available <= 0 \/ available > MaxTasks THEN MaxTasks ELSE available

Offerable(S) ==
    /\ S \subseteq Leases \ leased
    /\ Cardinality(S) <= Requested + Overshoot

LeaseReply ==
    /\ wpc = "lease"
    /\ \E S \in SUBSET Leases :
          /\ Offerable(S)
          /\ leased' = leased \cup S
          /\ batch' = S
          /\ wpc' = IF S = {} THEN "top" ELSE "dispatch"
    /\ available' = 0      \* its scope ends
    /\ UNCHANGED <<handlerVars, ctxDone, slots, wg, beats>>

\* The call fails; the server may have handed leases out in the lost reply.
LeaseError ==
    /\ wpc = "lease"
    /\ \E S \in SUBSET Leases :
          /\ Offerable(S)
          /\ leased' = leased \cup S
          /\ lost' = lost \cup S
    /\ wpc' = IF ctxDone THEN "joining" ELSE "pause"
    /\ available' = 0
    /\ UNCHANGED <<pc, attempt, expired, active, dirs, inflight, accepted,
                   failed, ctxDone, slots, wg, batch, beats>>

\* Mutants: one slot too many; a batch that finds no slot is given up.
FreeSlotOrOneMore == slots <= MaxTasks
StopDispatchWhenFull == ctxDone \/ slots = MaxTasks

\* The two cases of the select in the dispatch loop.
FreeSlot     == slots < MaxTasks
StopDispatch == ctxDone

\* One turn of the dispatch loop: take a slot and start the goroutine.
Dispatch ==
    /\ wpc = "dispatch" /\ FreeSlot
    /\ \E l \in batch :
          /\ Goto(l, "idle", "spawned")
          /\ batch' = batch \ {l}
    /\ slots' = slots + 1
    /\ wg' = wg + 1
    /\ wpc' = IF batch' = {} THEN "top" ELSE "dispatch"
    /\ UNCHANGED <<attempt, expired, active, dirs, inflight, accepted, failed,
                   lost, ctxDone, available, leased, beats>>

\* The other case of its select: the rest of the batch is forgotten.
Abandon ==
    /\ wpc = "dispatch" /\ StopDispatch
    /\ wpc' = "joining"
    /\ batch' = {}
    /\ UNCHANGED <<handlerVars, ctxDone, slots, wg, available, leased, beats>>

\* Mutant: Run waits for the slots instead of the handlers.
SlotsFree == slots = 0

\* The condition of the deferred wg.Wait.
AllDone == wg = 0

Join ==
    /\ wpc = "joining" /\ AllDone
    /\ wpc' = "returned"
    /\ UNCHANGED <<handlerVars, ctxDone, slots, wg, available, batch, leased, beats>>

WorkerStep == Register \/ LoopTop \/ Wait \/ LeaseReply \/ LeaseError
              \/ Dispatch \/ Abandon \/ Join

-----------------------------------------------------------------------------
(* The end of a handler goroutine: its report, then its deferred calls.     *)

\* fail(ctx, ...) needs the task's context to be alive; after a panic it runs
\* under a fresh one.
ReportFailure(l) ==
    /\ \/ Report(l, "fail", "cleanFail", ~CtxDead(l),
                 IF CtxDead(l) THEN lost ELSE lost \cup {l})
       \/ Report(l, "panicFail", "slot", TRUE, lost \cup {l})
    /\ UNCHANGED workerVars

\* Mutant: the slot is not given back.
ReleaseLeaks(l) ==
    /\ Goto(l, "slot", "wg")
    /\ UNCHANGED <<attempt, expired, active, dirs, inflight, accepted, failed,
                   lost, ctxDone, workerVars>>

ReleaseSlot(l) ==
    /\ Goto(l, "slot", "wg")
    /\ slots' = slots - 1
    /\ UNCHANGED <<attempt, expired, active, dirs, inflight, accepted, failed,
                   lost, ctxDone, wpc, wg, available, batch, leased, beats>>

WgDone(l) ==
    /\ Goto(l, "wg", "ended")
    /\ wg' = wg - 1
    /\ UNCHANGED <<attempt, expired, active, dirs, inflight, accepted, failed,
                   lost, ctxDone, wpc, slots, available, batch, leased, beats>>

Goroutine(l) == \/ HandlerStep(l) /\ UNCHANGED workerVars
                \/ ReportFailure(l) \/ ReleaseSlot(l) \/ WgDone(l)

-----------------------------------------------------------------------------
(* Heartbeats: the list is read under activeMu, the request leaves later.   *)

activeTaskIDs == active

ComposeBeat ==
    /\ wpc \notin {"register", "returned"} /\ ~ctxDone /\ beats = {}
    /\ beats' = {activeTaskIDs}
    /\ UNCHANGED <<handlerVars, ctxDone, wpc, slots, wg, available, batch, leased>>

\* It arrives, or it is lost: heartbeatLoop only logs the error.
FinishBeat ==
    /\ beats # {}
    /\ beats' = {}
    /\ UNCHANGED <<handlerVars, ctxDone, wpc, slots, wg, available, batch, leased>>

Environment == \/ (Cancel \/ \E l \in Leases : HandlerEnv(l)) /\ UNCHANGED workerVars
               \/ ComposeBeat \/ FinishBeat

Returned == wpc = "returned" /\ UNCHANGED vars

Next == \/ WorkerStep
        \/ \E l \in Leases : Goroutine(l)
        \/ Environment
        \/ Returned

Spec == Init /\ [][Next]_vars

(* Fairness: a goroutine that can run does run, outside Process.  The HTTP  *)
(* requests of the loop, of an upload and of a failure report carry a       *)
(* context, at the latest the one that a shutdown or the deadline of the    *)
(* task ends, so each of them ends; the other steps are local.  Nothing is  *)
(* assumed of how long Process runs, of the server, of the network, or of   *)
(* which way a call ends.                                                   *)
FairSpec == /\ Spec
            /\ WF_vars(WorkerStep)
            /\ \A l \in Leases : WF_vars(pc[l] # "work" /\ Goroutine(l))

-----------------------------------------------------------------------------
(* The abstraction: a lease runs from its dispatch to the end of the report *)
(* that is its last call to the server.                                     *)

PhaseOf(l) ==
    CASE pc[l] \in {"slot", "wg", "ended"}                     -> "over"
      [] pc[l] # "idle" /\ pc[l] \notin {"slot", "wg", "ended"} -> "running"
      [] pc[l] = "idle" /\ l \in batch                         -> "held"
      [] pc[l] = "idle" /\ l \in leased \ batch                -> "over"
      [] OTHER                                                 -> "away"

Outcome == INSTANCE TaskOutcome WITH
    Capacity <- MaxTasks,
    phase    <- [l \in Leases |-> PhaseOf(l)],
    told     <- {l \in Leases : Told(l)},
    excused  <- expired \cup lost,
    cut      <- ctxDone,
    stopped  <- wpc = "returned"

\* runHTTP with its handlers implements what TaskOutcome promises for a lease:
\* bounded concurrency, one run per lease, no silent end without an excuse, no
\* lease dropped unless shutting down, nothing running after the return.
Promise == Outcome!Spec

-----------------------------------------------------------------------------
(* Properties.                                                              *)

TypeOK ==
    /\ HandlerTypeOK
    /\ wpc \in WorkerPCs
    /\ slots \in Nat
    /\ wg \in Nat
    /\ available \in Int
    /\ batch \subseteq Leases
    /\ leased \subseteq Leases
    /\ beats \subseteq SUBSET Tasks

\* A handler holds its slot until its deferred receive from sem.
Holding == Live \ {"wg"}

\* At no time do more than MaxTasks handlers run, whatever the server sends and
\* however handlers end: len(sem) counts exactly the handlers that hold a slot
\* (the channel sem of runHTTP).
ConcurrencyBounded ==
    /\ slots = Cardinality(At(Holding))
    /\ slots <= MaxTasks

\* The free slots are read before a long poll and used after it; still, what is
\* left of a batch always fits the slots free at that moment (up to what the
\* server sent beyond the request), so no leased task waits for another to end.
BatchFits == Cardinality(batch) <= MaxTasks - slots + Overshoot

\* When runHTTP has returned, no handler goroutine is left (defer wg.Wait).
JoinIsComplete ==
    /\ wg = Cardinality(At(Live))
    /\ wpc = "returned" => At(Live) = {}

\* A task that the server handed out and that was never started is one whose
\* lease reply was lost, or one that a shutdown took out of its batch.
DropsExcused ==
    \A l \in leased \ batch : pc[l] = "idle" => ctxDone \/ l \in lost

\* Another handler of the task of l has come as far as places.
Rival(l, places) == \E m \in At(places) \ {l} : TaskOf[m] = TaskOf[l]

\* Worker.active lists only tasks that a handler has, and leaves out a running
\* one only if the task was delivered twice and the other handler has taken its
\* entry away; and a heartbeat, composed now and sent later, names only tasks
\* that were started.
ActiveIsRunning ==
    /\ active \subseteq {TaskOf[l] : l \in At(Running)}
    /\ \A l \in At(Running) :
           TaskOf[l] \in active \/ Rival(l, {"panicFail", "slot", "wg", "ended"})
    /\ \A list \in beats :
           list \subseteq {TaskOf[l] : l \in Leases \ At({"idle", "spawned"})}

\* From the end of Process to the end of its uploads, a handler's directory, with
\* the manifest and the archive that every attempt opens again, exists, unless
\* the task was delivered twice and the other handler has cleaned up: an attempt
\* never takes away what the next one needs.
ResultKept == \A l \in At({"upload", "wait", "backoff"}) :
    TaskOf[l] \in dirs \/ Rival(l, {"leave", "slot", "wg", "ended"})

\* workspace.keep_failed: once a result was about to be uploaded, its directory
\* stays until the server has taken a result of that task, even if the task is
\* delivered again meanwhile.
UnacceptedKept ==
    KeepFailed => \A l \in Leases :
        attempt[l] > 0 => \/ TaskOf[l] \in dirs
                          \/ \E m \in Leases : TaskOf[m] = TaskOf[l] /\ Accepted(m)

\* A handler that ended without the server holding a result or a failure of its
\* lease had a dead context (deadline or shutdown) or a lost call: there is no
\* other way to end in silence.
SilentEndExcused ==
    \A l \in At({"slot", "wg", "ended"}) :
        Told(l) \/ CtxDead(l) \/ l \in lost

\* The server can hold both a result and a failure of one lease only after all
\* MaxAttempts uploads were made: a failure is not reported while a retry of the
\* upload is still allowed.
ContradictionNeedsAllAttempts ==
    \A l \in failed : Accepted(l) => attempt[l] = MaxAttempts

\* Once the context is cancelled, runHTTP returns, if the Processes that still
\* run end: its deferred wg.Wait waits for nothing else that could last, no
\* upload, no retry and no report.
ShutdownReturns == ProcessesEnd => (ctxDone ~> wpc = "returned")

\* A started handler whose Process ends gets through its uploads, their retries
\* and backoffs and its report, and ends, with its slot given back.
StartedEnds == ProcessesEnd =>
    \A l \in Leases : pc[l] = "spawned" ~> pc[l] = "ended"

=============================================================================
