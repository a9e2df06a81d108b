------------------------------ MODULE TcpWorker ------------------------------
(***************************************************************************)
(* The long-lived task channel: runTCP, runTCPOnce, runTCPConnection and    *)
(* tcpHeartbeatLoop of internal/client/tcp_worker.go, with sendTCPMessage   *)
(* of worker.go.  The main goroutine connects, registers and receives task  *)
(* pushes; each connection has a slot channel and a heartbeat goroutine of  *)
(* its own; handlers outlive the connection that brought their task and     *)
(* send on whichever connection Worker.tcpConn points to.                   *)
(*                                                                          *)
(* Connections are numbered as they are dialled.  A write that fails in the *)
(* middle of a frame tears the stream: until the connection is closed, the  *)
(* writes of others succeed, and the server decodes none of them.           *)
(***************************************************************************)
EXTENDS TaskHandler

CONSTANTS MaxTasks,   \* worker.max_tasks: the capacity of each sem
          MaxConns    \* bound on the connections ever dialled

ASSUME TcpAssumption ==
    /\ MaxTasks \in Nat \ {0}
    /\ MaxConns \in Nat \ {0}

Conns == 1..MaxConns

VARIABLES
    mpc,      \* where the main goroutine is
    cur,      \* the connection it dialled last (0: none yet)
    conn,     \* "new", "up", "torn" or "down" (closed here or by the peer, broken)
    tcpConn,  \* Worker.tcpConn (0: nil)
    sem,      \* len of the sem channel of each connection
    connOf,   \* the connection that a lease was pushed on (0: not yet)
    wire,     \* the TaskPush on its way to the client
    batch,    \* leases of the received TaskPush that are not dispatched yet
    hb,       \* the heartbeat goroutine of connection cur
    hbErr,    \* an error is in its heartbeatErr channel
    grab,     \* the connection a handler read from tcpConn to send on
    closing,  \* handlers whose send failed and has yet to close the connection
    claims    \* the ActiveTaskIDs of the register message, until it is answered

tcpVars == <<mpc, cur, conn, tcpConn, sem, connOf, wire, batch, hb, hbErr,
             grab, closing, claims>>
vars == <<handlerVars, ctxDone, tcpVars>>

NotRead == MaxConns + 1   \* grab before sendTCPMessage has read tcpConn

Init ==
    /\ HandlerInit
    /\ mpc = "open" /\ cur = 0
    /\ conn = [c \in Conns |-> "new"]
    /\ tcpConn = 0
    /\ sem = [c \in Conns |-> 0]
    /\ connOf = [l \in Leases |-> 0]
    /\ wire = {} /\ batch = {}
    /\ hb = "off" /\ hbErr = FALSE
    /\ grab = [l \in Leases |-> NotRead] /\ closing = {}
    /\ claims = {}

\* Neither side has closed connection c, or knows that it is broken.
IsOpen(c) == c \in Conns /\ conn[c] \in {"up", "torn"}

\* The main goroutine is inside runTCPConnection.
Serving == {"poll", "receive", "dispatch"}

-----------------------------------------------------------------------------
(* The main goroutine.                                                      *)

\* MkdirAll; on an error runTCP returns at once.
Open ==
    /\ mpc = "open"
    /\ mpc' \in {"top", "returned"}
    /\ UNCHANGED <<handlerVars, ctxDone, cur, conn, tcpConn, sem, connOf, wire,
                   batch, hb, hbErr, grab, closing, claims>>

\* runTCPOnce up to the register message: Dial, activeTaskIDs, Send.
\* The heartbeat goroutine of the connection before is not followed any further:
\* all that it can still do is to end.
Connect ==
    /\ mpc = "top" /\ ~ctxDone
    /\ \/ /\ mpc' = "pause"                     \* Dial fails
          /\ UNCHANGED <<cur, conn, hb, claims>>
       \/ /\ cur < MaxConns
          /\ cur' = cur + 1
          /\ hb' = "off"
          /\ \/ mpc' = "registering" /\ conn' = [conn EXCEPT ![cur + 1] = "up"]
                /\ claims' = active
             \/ mpc' = "pause" /\ conn' = [conn EXCEPT ![cur + 1] = "down"]
                /\ UNCHANGED claims
    /\ UNCHANGED <<handlerVars, ctxDone, tcpConn, sem, connOf, wire, batch, hbErr,
                   grab, closing>>

\* Mutant: the pointer to the connection is not cleared.
TeardownKeepsPointer ==
    /\ mpc' = "pause"
    /\ conn' = [conn EXCEPT ![cur] = "down"]
    /\ wire' = {} /\ batch' = {} /\ hbErr' = FALSE /\ claims' = {}
    /\ UNCHANGED <<handlerVars, ctxDone, cur, tcpConn, sem, connOf, hb, grab, closing>>

\* The deferred calls of runTCPConnection and runTCPOnce: the connection's
\* context is cancelled, clearTCPConn, Close.  A push on its way is gone, and so
\* is the heartbeatErr channel of the connection: nobody reads it any more.
Teardown ==
    /\ mpc' = "pause"
    /\ conn' = [conn EXCEPT ![cur] = "down"]
    /\ tcpConn' = IF tcpConn = cur THEN 0 ELSE tcpConn
    /\ wire' = {} /\ batch' = {} /\ hbErr' = FALSE /\ claims' = {}
    /\ UNCHANGED <<handlerVars, ctxDone, cur, sem, connOf, hb, grab, closing>>

\* The answer to the register message is a registered message.
Registered ==
    /\ mpc = "registering" /\ conn[cur] = "up"
    /\ mpc' = "poll"
    /\ tcpConn' = cur
    /\ hb' = "first"
    /\ claims' = {}
    /\ UNCHANGED <<handlerVars, ctxDone, cur, conn, sem, connOf, wire, batch,
                   hbErr, grab, closing>>

\* It is an error, something else, or the connection breaks.
Rejected == mpc = "registering" /\ Teardown

\* The non-blocking look at heartbeatErr that opens each turn of the loop.
Poll ==
    /\ mpc = "poll"
    /\ \/ hbErr /\ Teardown
       \/ /\ ~hbErr
          /\ mpc' = "receive"
          /\ UNCHANGED <<handlerVars, ctxDone, cur, conn, tcpConn, sem, connOf,
                         wire, batch, hb, hbErr, grab, closing, claims>>

\* Receive: a task push, another message, or an error.
Receive ==
    /\ mpc = "receive"
    /\ \/ /\ IsOpen(cur) /\ wire # {}
          /\ batch' = wire /\ wire' = {}
          /\ mpc' = "dispatch"
          /\ UNCHANGED <<handlerVars, ctxDone, cur, conn, tcpConn, sem, connOf,
                         hb, hbErr, grab, closing, claims>>
       \/ conn[cur] = "down" /\ Teardown

ReceiveOther ==
    /\ mpc = "receive" /\ IsOpen(cur)
    /\ mpc' = "poll"
    /\ UNCHANGED <<handlerVars, ctxDone, cur, conn, tcpConn, sem, connOf, wire,
                   batch, hb, hbErr, grab, closing, claims>>

\* Mutant: one slot too many.
FreeSlotOrOneMore == sem[cur] <= MaxTasks

FreeSlot == sem[cur] < MaxTasks

\* One turn of the dispatch loop.  It waits for a slot of this connection or for
\* the end of Run's context, and for nothing else.
Dispatch ==
    /\ mpc = "dispatch"
    /\ \/ ctxDone /\ Teardown
       \/ /\ FreeSlot
          /\ \E l \in batch : Goto(l, "idle", "spawned") /\ batch' = batch \ {l}
          /\ sem' = [sem EXCEPT ![cur] = @ + 1]
          /\ mpc' = IF batch' = {} THEN "poll" ELSE "dispatch"
          /\ UNCHANGED <<attempt, expired, ctxDone, active, dirs, inflight,
                         accepted, failed, lost, cur, conn, tcpConn, connOf,
                         wire, hb, hbErr, grab, closing, claims>>

\* runTCP between two connections: the end of the context, or the delay.
Pause ==
    /\ mpc \in {"pause", "top"}
    /\ mpc' = IF ctxDone THEN "returned" ELSE "top"
    /\ mpc' # mpc
    /\ UNCHANGED <<handlerVars, ctxDone, cur, conn, tcpConn, sem, connOf, wire,
                   batch, hb, hbErr, grab, closing, claims>>

-----------------------------------------------------------------------------
(* The goroutines of a connection.                                          *)

\* The context that runTCPConnection derives for its connection is done.
ConnCtxDone == ctxDone \/ mpc \notin Serving

\* Mutant: there is no such goroutine.
NoCloser == FALSE

\* The goroutine that closes the connection when its context is done.
Closer ==
    /\ ctxDone /\ mpc \in Serving /\ IsOpen(cur)
    /\ conn' = [conn EXCEPT ![cur] = "down"]
    /\ UNCHANGED <<handlerVars, ctxDone, mpc, cur, tcpConn, sem, connOf, wire,
                   batch, hb, hbErr, grab, closing, claims>>

\* heartbeatErr holds the error of the goroutine, if anybody still reads it.
LeavesError == hbErr' = (hbErr \/ mpc \in Serving)

\* What a failed write does to connection c, if it was whole: the frame was not
\* begun, or left unfinished.
WriteFails(c) ==
    \/ UNCHANGED conn
    \/ conn[c] = "up" /\ conn' = [conn EXCEPT ![c] = "torn"]

\* Mutant: its error is not passed on.
FirstHeartbeatUnheard ==
    /\ hb = "first"
    /\ \/ IsOpen(cur) /\ hb' = "ticking" /\ UNCHANGED conn
       \/ hb' = "stopped" /\ WriteFails(cur)
    /\ UNCHANGED <<handlerVars, ctxDone, mpc, cur, tcpConn, sem, connOf, wire,
                   batch, hbErr, grab, closing, claims>>

\* The heartbeat sent at once: an error ends the goroutine, and leaves the
\* connection open.
FirstHeartbeat ==
    /\ hb = "first"
    /\ \/ IsOpen(cur) /\ hb' = "ticking" /\ UNCHANGED <<conn, hbErr>>
       \/ hb' = "stopped" /\ WriteFails(cur) /\ LeavesError
    /\ UNCHANGED <<handlerVars, ctxDone, mpc, cur, tcpConn, sem, connOf, wire,
                   batch, grab, closing, claims>>

\* A later one fails: the goroutine closes the connection, leaves the error, ends.
HeartbeatFails ==
    /\ hb = "ticking"
    /\ hb' = "closing" /\ WriteFails(cur)
    /\ UNCHANGED <<handlerVars, ctxDone, mpc, cur, tcpConn, sem, connOf, wire,
                   batch, hbErr, grab, closing, claims>>

HeartbeatCloses ==
    /\ hb = "closing"
    /\ hb' = "stopped" /\ LeavesError
    /\ conn' = [conn EXCEPT ![cur] = "down"]
    /\ UNCHANGED <<handlerVars, ctxDone, mpc, cur, tcpConn, sem, connOf, wire,
                   batch, grab, closing, claims>>

HeartbeatStops ==
    /\ hb = "ticking" /\ ConnCtxDone
    /\ hb' = "stopped"
    /\ UNCHANGED <<handlerVars, ctxDone, mpc, cur, conn, tcpConn, sem, connOf,
                   wire, batch, hbErr, grab, closing, claims>>

-----------------------------------------------------------------------------
(* What a handler sends, and its end.                                       *)

\* sendTCPMessage with a failure report: the pointer is read under tcpMu, the
\* message sent after it is released.  The task's context plays no part.
GrabConn(l) ==
    /\ pc[l] \in {"fail", "panicFail"} /\ grab[l] = NotRead
    /\ grab' = [grab EXCEPT ![l] = tcpConn]
    /\ UNCHANGED <<handlerVars, ctxDone, mpc, cur, conn, tcpConn, sem, connOf,
                   wire, batch, hb, hbErr, closing, claims>>

\* The write succeeds, or there is no connection.  What is written to a torn
\* stream is lost on the server's side, and so is what a breaking one swallows.
SendFailure(l) ==
    /\ grab[l] # NotRead /\ l \notin closing
    /\ grab[l] = 0 \/ IsOpen(grab[l])
    /\ LET reaches == grab[l] # 0 /\ conn[grab[l]] = "up"
       IN  \/ Report(l, "fail", "cleanFail", reaches, lost \cup {l})
           \/ Report(l, "panicFail", "slot", reaches, lost \cup {l})
    /\ conn' = IF l \notin failed' /\ grab[l] # 0 /\ conn[grab[l]] = "up"
               THEN [conn EXCEPT ![grab[l]] = "down"] ELSE conn
    /\ grab' = [grab EXCEPT ![l] = NotRead]
    /\ UNCHANGED <<mpc, cur, tcpConn, sem, connOf, wire, batch, hb, hbErr,
                   closing, claims>>

\* The write fails.
SendError(l) ==
    /\ pc[l] \in {"fail", "panicFail"}
    /\ grab[l] \notin {0, NotRead} /\ l \notin closing
    /\ closing' = closing \cup {l}
    /\ WriteFails(grab[l])
    /\ UNCHANGED <<handlerVars, ctxDone, mpc, cur, tcpConn, sem, connOf, wire,
                   batch, hb, hbErr, grab, claims>>

\* So does one of the progress reports of Process, the last of which follows it; on
\* a connection already closed that changes nothing.
ProgressError(l) ==
    /\ pc[l] = "work" /\ l \notin closing /\ IsOpen(tcpConn)
    /\ grab' = [grab EXCEPT ![l] = tcpConn]
    /\ closing' = closing \cup {l}
    /\ WriteFails(tcpConn)
    /\ UNCHANGED <<handlerVars, ctxDone, mpc, cur, tcpConn, sem, connOf, wire,
                   batch, hb, hbErr, claims>>

\* Mutant: the connection stays open.
SendErrorKeepsConn(l) ==
    /\ l \in closing
    /\ \/ Report(l, "fail", "cleanFail", FALSE, lost \cup {l})
       \/ Report(l, "panicFail", "slot", FALSE, lost \cup {l})
       \/ pc[l] = "work" /\ UNCHANGED <<handlerVars, ctxDone>>
    /\ closing' = closing \ {l}
    /\ grab' = [grab EXCEPT ![l] = NotRead]
    /\ UNCHANGED <<mpc, cur, conn, tcpConn, sem, connOf, wire, batch, hb, hbErr, claims>>

\* The connection it was tried on is closed, and the handler goes on.
SendErrorCloses(l) ==
    /\ l \in closing
    /\ \/ Report(l, "fail", "cleanFail", FALSE, lost \cup {l})
       \/ Report(l, "panicFail", "slot", FALSE, lost \cup {l})
       \/ pc[l] = "work" /\ UNCHANGED <<handlerVars, ctxDone>>
    /\ closing' = closing \ {l}
    /\ conn' = [conn EXCEPT ![grab[l]] = "down"]
    /\ grab' = [grab EXCEPT ![l] = NotRead]
    /\ UNCHANGED <<mpc, cur, tcpConn, sem, connOf, wire, batch, hb, hbErr, claims>>

\* Mutants: the slot is given to the current connection; to none.
ReleaseToCurrent(l) ==
    /\ Goto(l, "slot", "ended")
    /\ sem' = [sem EXCEPT ![cur] = @ - 1]
    /\ UNCHANGED <<attempt, expired, ctxDone, active, dirs, inflight, accepted,
                   failed, lost, mpc, cur, conn, tcpConn, connOf, wire, batch,
                   hb, hbErr, grab, closing, claims>>

ReleaseLeaks(l) ==
    /\ Goto(l, "slot", "ended")
    /\ UNCHANGED <<attempt, expired, ctxDone, active, dirs, inflight, accepted,
                   failed, lost, tcpVars>>

ReleaseSlot(l) ==
    /\ Goto(l, "slot", "ended")
    /\ sem' = [sem EXCEPT ![connOf[l]] = @ - 1]
    /\ UNCHANGED <<attempt, expired, ctxDone, active, dirs, inflight, accepted,
                   failed, lost, mpc, cur, conn, tcpConn, connOf, wire, batch,
                   hb, hbErr, grab, closing, claims>>

-----------------------------------------------------------------------------
(* The server and the network.                                              *)

\* The unfinished leases that the server has pushed on connection c.
Outstanding(c) == {l \in Leases : connOf[l] = c /\ ~Told(l)}

\* The server honours the MaxTasks of the connection's registration, and does not
\* know of earlier connections.
Push ==
    /\ mpc \in Serving /\ IsOpen(cur) /\ wire = {}
    /\ \E S \in SUBSET {l \in Leases : connOf[l] = 0} \ {{}} :
          /\ Cardinality(S) + Cardinality(Outstanding(cur)) <= MaxTasks
          /\ wire' = S
          /\ connOf' = [l \in Leases |-> IF l \in S THEN cur ELSE connOf[l]]
    /\ UNCHANGED <<handlerVars, ctxDone, mpc, cur, conn, tcpConn, sem, batch, hb,
                   hbErr, grab, closing, claims>>

\* The peer or the network ends the connection.
Break ==
    /\ IsOpen(cur)
    /\ conn' = [conn EXCEPT ![cur] = "down"]
    /\ UNCHANGED <<handlerVars, ctxDone, mpc, cur, tcpConn, sem, connOf, wire,
                   batch, hb, hbErr, grab, closing, claims>>

-----------------------------------------------------------------------------
Goroutine(l) == \/ l \notin closing /\ HandlerStep(l) /\ UNCHANGED tcpVars
                \/ GrabConn(l) \/ SendFailure(l) \/ SendError(l) \/ SendErrorCloses(l)
                \/ ReleaseSlot(l)

MainStep == Open \/ Connect \/ Registered \/ Rejected \/ Poll \/ Receive \/ Dispatch \/ Pause

\* Once Run has returned the process is gone, and every goroutine with it.
Alive ==
    \/ MainStep \/ ReceiveOther \/ Closer
    \/ FirstHeartbeat \/ HeartbeatFails \/ HeartbeatCloses \/ HeartbeatStops
    \/ \E l \in Leases : Goroutine(l) \/ ProgressError(l) \/ (Deadline(l) /\ UNCHANGED tcpVars)
    \/ Push \/ Break
    \/ Cancel /\ UNCHANGED tcpVars

Next == \/ mpc # "returned" /\ Alive
        \/ \E l \in Leases : ServerAccepts(l) /\ UNCHANGED tcpVars
        \/ mpc = "returned" /\ UNCHANGED vars

Spec == Init /\ [][Next]_vars

(* Fairness: every goroutine that can run does, but for two waits that the  *)
(* code does not bound: the answer to the register message, which Receive   *)
(* awaits without a deadline or a look at the context, and Process, except  *)
(* that a progress report whose write failed goes on to close its           *)
(* connection.  Every write has its deadline, an upload the one of its      *)
(* task.  Nothing makes the server send, the network fail, or a send        *)
(* succeed.                                                                 *)
FairSpec ==
    /\ Spec
    /\ WF_vars(mpc # "registering" /\ MainStep)
    /\ WF_vars(mpc # "returned" /\ Closer)
    /\ WF_vars(mpc # "returned" /\ FirstHeartbeat)
    /\ WF_vars(mpc # "returned" /\ (HeartbeatCloses \/ HeartbeatStops))
    /\ \A l \in Leases :
          WF_vars(mpc # "returned" /\ (pc[l] # "work" \/ l \in closing) /\ Goroutine(l))

-----------------------------------------------------------------------------
(* What the server sees of a lease.                                         *)

PhaseOf(l) ==
    CASE pc[l] = "ended"                                    -> "over"
      [] pc[l] \in Live                                     -> "running"
      [] pc[l] = "idle" /\ l \in wire \cup batch            -> "held"
      [] pc[l] = "idle" /\ l \notin wire \cup batch
                        /\ connOf[l] # 0                    -> "dropped"
      [] OTHER                                              -> "away"

Outcome == INSTANCE ChannelOutcome WITH
    Links    <- Conns,
    Capacity <- MaxTasks,
    phase    <- [l \in Leases |-> PhaseOf(l)],
    via      <- connOf,
    link     <- tcpConn,
    told     <- {l \in Leases : Told(l)},
    cut      <- ctxDone,
    stopped  <- mpc = "returned"

\* runTCP with its handlers implements what ChannelOutcome promises for a lease:
\* no start without a slot of the live connection that brought it, no end in silence
\* unless a call was lost, no answer of a lease whose connection went before its start.
Promise == Outcome!Spec

-----------------------------------------------------------------------------
(* Properties.                                                              *)

TypeOK ==
    /\ HandlerTypeOK
    /\ mpc \in {"open", "top", "registering", "pause", "returned"} \cup Serving
    /\ cur \in 0..MaxConns
    /\ conn \in [Conns -> {"new", "up", "torn", "down"}]
    /\ tcpConn \in 0..MaxConns
    /\ sem \in [Conns -> 0..MaxTasks]
    /\ connOf \in [Leases -> 0..MaxConns]
    /\ wire \subseteq Leases /\ batch \subseteq Leases
    /\ hb \in {"off", "first", "ticking", "closing", "stopped"}
    /\ hbErr \in BOOLEAN
    /\ grab \in [Leases -> 0..NotRead] /\ closing \subseteq Leases
    /\ claims \subseteq Tasks

\* Of the tasks that one connection brought, at most MaxTasks run at a time, and
\* the slots of the connection count them, also after it is gone.
SlotsMatch == \A c \in Conns :
    /\ sem[c] = Cardinality({l \in At(Live) : connOf[l] = c})
    /\ sem[c] <= MaxTasks

\* worker.max_tasks is the overall task concurrency (config.example.yaml).
OverallConcurrency == Cardinality(At(Live)) <= MaxTasks

\* At most one connection is up, the one dialled last: every other was closed
\* before it was replaced, so no report can reach the server on an old one; and
\* tcpConn is set exactly while the main goroutine serves that connection.
OneConnection ==
    /\ \A c \in Conns : IsOpen(c) => c = cur
    /\ tcpConn = IF mpc \in Serving THEN cur ELSE 0

\* While the main goroutine is in Receive on a live connection, a heartbeat
\* goroutine keeps it alive or has left its error for the next turn of the loop.
HeartbeatWatched ==
    mpc = "receive" /\ IsOpen(cur) /\ ~ctxDone =>
        hb \in {"first", "ticking", "closing"} \/ hbErr

\* A stream that a partial frame has put out of step is about to be closed: by the
\* sender whose write failed, or, for the first heartbeat, by the main loop when it
\* comes to the error.  Until then the reports of others vanish without an error.
TornIsClosed == \A c \in Conns :
    conn[c] = "torn" => \/ \E l \in closing : grab[l] = c
                        \/ c = cur /\ (hb = "closing" \/ hbErr)

\* The report of a failure does not depend on the task's context: when a handler
\* is done, the server holds an outcome of its lease or a call was lost, whether
\* or not its deadline passed.
EndedIsToldOrLost == \A l \in At({"slot", "ended"}) : Told(l) \/ l \in lost

\* The list of active tasks, and the one a reconnect registers, never claims a
\* task without a started handler.
NoGhosts ==
    /\ active \subseteq {TaskOf[l] : l \in At(Running)}
    /\ claims \subseteq {TaskOf[l] : l \in Leases \ At({"idle", "spawned"})}

\* A broken connection is left, so that runTCP can dial again, even when the main
\* goroutine was waiting for a slot: that wait is for a handler, so the Processes
\* must end, and nothing else is needed.
BrokenIsLeft == ProcessesEnd =>
    ((mpc \in Serving /\ conn[cur] = "down") ~> mpc \notin Serving)

\* Every register message is answered, or its connection breaks.
Answered == []<>(mpc # "registering")

\* Once the context is cancelled, runTCP returns, if it does not wait for the answer
\* to a registration for ever: no silent connection, no heartbeat, no handler and
\* no slot holds it up, whether or not any Process ends.
ShutdownReturns == Answered => (ctxDone ~> mpc = "returned")

=============================================================================
