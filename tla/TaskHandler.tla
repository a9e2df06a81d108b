----------------------------- MODULE TaskHandler -----------------------------
(***************************************************************************)
(* One goroutine per delivered task: runTaskSafelyWithTransport and         *)
(* handleTaskWithTransport of internal/client/worker.go, with the upload of *)
(* the result and its retries.  The HTTP worker and the TCP worker both run *)
(* this handler; they differ in how a handler is started, in what its       *)
(* failure report needs to reach the server, and in what runs after it.     *)
(*                                                                          *)
(* A lease is one delivery of a task to this client: the same task may be   *)
(* delivered again, and then it is another lease of the same task.  Process *)
(* (download, export, archive) is one step here: see TaskPipeline.          *)
(***************************************************************************)
EXTENDS Integers, FiniteSets

CONSTANTS Leases,       \* deliveries of tasks, each run by one goroutine
          Tasks,        \* task ids: keys of Worker.active and task directories
          TaskOf,       \* the task that a lease delivers
          MaxAttempts,  \* maxAttempts of uploadResult (4 in the code)
          Cleanup,      \* workspace.cleanup
          KeepFailed    \* workspace.keep_failed

ASSUME HandlerAssumption ==
    /\ IsFiniteSet(Leases)
    /\ TaskOf \in [Leases -> Tasks]
    /\ MaxAttempts \in Nat \ {0}
    /\ Cleanup \in BOOLEAN
    /\ KeepFailed \in BOOLEAN

VARIABLES
    pc,        \* where the goroutine of each lease is
    attempt,   \* upload attempts it has made
    expired,   \* leases whose task context has passed its deadline
    ctxDone,   \* the parent context (Run's ctx) is cancelled
    active,    \* Worker.active
    dirs,      \* tasks whose directory exists under the workspace
    inflight,  \* <<lease, attempt>>: uploads that left and are not taken
    accepted,  \* <<lease, attempt>>: uploads the server has taken
    failed,    \* leases whose failure report has reached the server
    lost       \* leases one of whose calls the network swallowed

handlerVars == <<pc, attempt, expired, active, dirs, inflight, accepted,
                 failed, lost>>

\* The task's context exists and its deferred calls have not run yet.
Working == {"setup", "work", "upload", "wait", "backoff", "fail",
            "cleanOk", "cleanFail"}
\* Between addActive and removeActive.
Running == Working \cup {"leave", "unwind"}
\* After runTaskSafelyWithTransport: the goroutine's own deferred calls.
Leaving == {"slot", "wg"}
Live    == {"spawned", "panicFail"} \cup Running \cup Leaving
PCs     == {"idle", "ended"} \cup Live

HandlerInit ==
    /\ pc = [l \in Leases |-> "idle"]
    /\ attempt = [l \in Leases |-> 0]
    /\ ctxDone = FALSE
    /\ expired = {} /\ active = {} /\ dirs = {}
    /\ inflight = {} /\ accepted = {} /\ failed = {} /\ lost = {}

\* ctx.Err() # nil for the context handleTask derives from its parent.
CtxDead(l) == ctxDone \/ l \in expired

Goto(l, from, to) == pc[l] = from /\ pc' = [pc EXCEPT ![l] = to]

-----------------------------------------------------------------------------
(* The life of a handler.                                                   *)

Start(l) ==
    /\ Goto(l, "spawned", "setup")
    /\ active' = active \cup {TaskOf[l]}
    /\ UNCHANGED <<attempt, expired, ctxDone, dirs, inflight, accepted, failed, lost>>

\* The two MkdirAll calls that open Process; an error may leave the directory.
Setup(l) ==
    /\ \/ Goto(l, "setup", "work") /\ dirs' = dirs \cup {TaskOf[l]}
       \/ Goto(l, "setup", "fail") /\ dirs' \in {dirs, dirs \cup {TaskOf[l]}}
    /\ UNCHANGED <<attempt, expired, ctxDone, active, inflight, accepted, failed, lost>>

\* The rest of Process.  It can only succeed by writing into the directory.
Work(l) ==
    /\ \/ Goto(l, "work", "upload") /\ TaskOf[l] \in dirs
       \/ Goto(l, "work", "fail")
       \/ Goto(l, "work", "unwind")      \* it panics
    /\ UNCHANGED <<attempt, expired, ctxDone, active, dirs, inflight, accepted, failed, lost>>

\* Mutants: an exhausted upload is not reported; the first error is the last;
\* retries do not end.
AfterErrorUnreported(l) == IF CtxDead(l) \/ attempt'[l] = MaxAttempts
                           THEN "cleanFail" ELSE "backoff"
AfterErrorNoRetry(l) == "fail"
AfterErrorForever(l) == IF CtxDead(l) THEN "fail" ELSE "backoff"

AfterError(l) == IF CtxDead(l) \/ attempt'[l] = MaxAttempts
                 THEN "fail" ELSE "backoff"

\* uploadResultOnce sends nothing with a dead context or without its files.
CanPost(l) == ~CtxDead(l) /\ TaskOf[l] \in dirs

Post(l) ==
    /\ pc[l] = "upload"
    /\ attempt' = [attempt EXCEPT ![l] = @ + 1]
    /\ \/ /\ CanPost(l)
          /\ Goto(l, "upload", "wait")
          /\ inflight' = inflight \cup {<<l, attempt[l] + 1>>}
       \/ /\ ~CanPost(l)
          /\ Goto(l, "upload", AfterError(l))
          /\ UNCHANGED inflight
    /\ UNCHANGED <<expired, ctxDone, active, dirs, accepted, failed, lost>>

\* A 2xx answer.
PostOk(l) ==
    /\ <<l, attempt[l]>> \in accepted
    /\ Goto(l, "wait", "cleanOk")
    /\ UNCHANGED <<attempt, expired, ctxDone, active, dirs, inflight, accepted, failed, lost>>

\* Mutant: each attempt removes its files.
PostErrorCleans(l) ==
    /\ UNCHANGED attempt
    /\ Goto(l, "wait", AfterError(l))
    /\ dirs' = dirs \ {TaskOf[l]}
    /\ UNCHANGED <<expired, ctxDone, active, inflight, accepted, failed, lost>>

\* An error or another status; the request may still be on its way.
PostError(l) ==
    /\ UNCHANGED attempt
    /\ Goto(l, "wait", AfterError(l))
    /\ UNCHANGED <<expired, ctxDone, active, dirs, inflight, accepted, failed, lost>>

\* Mutant: the timer never fires.
BackoffNoTimer(l) ==
    /\ Goto(l, "backoff", "fail") /\ CtxDead(l)
    /\ UNCHANGED <<attempt, expired, ctxDone, active, dirs, inflight, accepted, failed, lost>>

\* select of ctx.Done() and the timer: with both ready either may be taken.
Backoff(l) ==
    /\ \/ Goto(l, "backoff", "upload")
       \/ Goto(l, "backoff", "fail") /\ CtxDead(l)
    /\ UNCHANGED <<attempt, expired, ctxDone, active, dirs, inflight, accepted, failed, lost>>

\* transport.fail: its error is dropped, so the handler goes on either way.
\* A report that does not arrive makes lost' = missed.
Report(l, from, to, canReach, missed) ==
    /\ Goto(l, from, to)
    /\ \/ canReach /\ failed' = failed \cup {l} /\ UNCHANGED lost
       \/ lost' = missed /\ UNCHANGED failed
    /\ UNCHANGED <<attempt, expired, ctxDone, active, dirs, inflight, accepted>>

\* Mutant: keep_failed is forgotten.
RemovesAlways(taskFailed) == Cleanup

\* cleanupTaskDir(taskDir, failed) calls RemoveAll.
Removes(taskFailed) == Cleanup /\ ~(taskFailed /\ KeepFailed)

Clean(l) ==
    /\ Goto(l, "cleanOk", "leave") \/ Goto(l, "cleanFail", "leave")
    /\ dirs' = IF Removes(pc[l] = "cleanFail") THEN dirs \ {TaskOf[l]} ELSE dirs
    /\ UNCHANGED <<attempt, expired, ctxDone, active, inflight, accepted, failed, lost>>

\* Mutant: removeActive is not deferred, so a panic skips it.
LeaveUnlessPanic(l) ==
    /\ \/ Goto(l, "leave", "slot") /\ active' = active \ {TaskOf[l]}
       \/ Goto(l, "unwind", "panicFail") /\ UNCHANGED active
    /\ UNCHANGED <<attempt, expired, ctxDone, dirs, inflight, accepted, failed, lost>>

\* The deferred removeActive, on a return and on a panic.
Leave(l) ==
    /\ \/ Goto(l, "leave", "slot")
       \/ Goto(l, "unwind", "panicFail")
    /\ active' = active \ {TaskOf[l]}
    /\ UNCHANGED <<attempt, expired, ctxDone, dirs, inflight, accepted, failed, lost>>

\* One step of the goroutine of l that both workers share.
HandlerStep(l) ==
    \/ Start(l) \/ Setup(l) \/ Work(l) \/ Post(l) \/ PostOk(l) \/ PostError(l)
    \/ Backoff(l) \/ Clean(l) \/ Leave(l)

-----------------------------------------------------------------------------
(* Its surroundings: the clock, the signal handler, the server.             *)

\* The deadline of the task's context passes.  A step before these looks at it by
\* failing, which Setup and Work may do anyway; after them nothing looks at it.
Deadline(l) ==
    /\ pc[l] \in {"upload", "wait", "backoff", "fail"} /\ l \notin expired
    /\ expired' = expired \cup {l}
    /\ UNCHANGED <<pc, attempt, ctxDone, active, dirs, inflight, accepted, failed, lost>>

\* The server takes an upload, perhaps after the client gave it up.  An upload
\* that stays in inflight for ever was refused, or lost on the way.
ServerAccepts(l) ==
    \E n \in 1..MaxAttempts :
        /\ <<l, n>> \in inflight
        /\ inflight' = inflight \ {<<l, n>>}
        /\ accepted' = accepted \cup {<<l, n>>}
        /\ UNCHANGED <<pc, attempt, expired, ctxDone, active, dirs, failed, lost>>

Cancel == /\ ~ctxDone /\ ctxDone' = TRUE
          /\ UNCHANGED <<pc, attempt, expired, active, dirs, inflight, accepted, failed, lost>>

HandlerEnv(l) == Deadline(l) \/ ServerAccepts(l)

-----------------------------------------------------------------------------
HandlerTypeOK ==
    /\ pc \in [Leases -> PCs]
    /\ attempt \in [Leases -> 0..MaxAttempts]
    /\ expired \subseteq Leases
    /\ ctxDone \in BOOLEAN
    /\ active \subseteq Tasks
    /\ dirs \subseteq Tasks
    /\ inflight \subseteq Leases \X (1..MaxAttempts)
    /\ accepted \subseteq Leases \X (1..MaxAttempts)
    /\ failed \subseteq Leases
    /\ lost \subseteq Leases

At(places)     == {l \in Leases : pc[l] \in places}
Accepted(l)    == \E n \in 1..MaxAttempts : <<l, n>> \in accepted
Told(l)        == l \in failed \/ Accepted(l)

\* No Process runs for ever.  The code does not make sure of this: its context
\* ends a download and an export, but ffmpeg is started without it, and the USM,
\* ACB and HCA decoders do not look at it (TaskPipeline tells them apart).  So it
\* is a premise, named by each property that needs it, and no fairness.
ProcessesEnd == \A l \in Leases : []<>(pc[l] # "work")
=============================================================================
