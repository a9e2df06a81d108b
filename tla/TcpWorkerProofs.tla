--------------------------- MODULE TcpWorkerProofs ---------------------------
(***************************************************************************)
(* The safety of TcpWorker, for any leases, slots, attempts and             *)
(* connections.  Each part of the inductive invariant is one idea; what     *)
(* makes them inductive together is that nothing is open, pushed or waiting *)
(* while no connection is served.                                           *)
(*                                                                          *)
(* Then that TcpWorker implements ChannelOutcome.                           *)
(***************************************************************************)
EXTENDS TcpWorker, TaskHandlerProofs, FiniteSetTheorems

TcpTypeOK ==
    /\ mpc \in {"open", "top", "registering", "pause", "returned"} \cup Serving
    /\ cur \in 0..MaxConns
    /\ conn \in [Conns -> {"new", "up", "torn", "down"}]
    /\ tcpConn \in 0..MaxConns
    /\ sem \in [Conns -> Int]
    /\ connOf \in [Leases -> 0..MaxConns]
    /\ wire \subseteq Leases /\ batch \subseteq Leases
    /\ hb \in {"off", "first", "ticking", "closing", "stopped"}
    /\ hbErr \in BOOLEAN
    /\ grab \in [Leases -> 0..NotRead] /\ closing \subseteq Leases
    /\ claims \subseteq Tasks

\* The connection that the main goroutine has is the only one that can be open,
\* and tcpConn points to it once it is registered.
Linked ==
    /\ mpc \in Serving \cup {"registering"} => cur \in Conns
    /\ \A c \in Conns : IsOpen(c) => c = cur /\ mpc \in Serving \cup {"registering"}
    /\ tcpConn = IF mpc \in Serving THEN cur ELSE 0

\* What is pushed and not started yet belongs to that connection, and a handler
\* knows the one that brought it.
Pushed ==
    /\ \A l \in wire \cup batch : connOf[l] = cur
    /\ mpc \notin Serving => wire = {} /\ batch = {}
    /\ \A l \in Leases : pc[l] # "idle" => connOf[l] \in Conns

\* The heartbeat goroutine starts with the connection's service, and as long as
\* that lasts it runs or has left its error.
Watched ==
    /\ mpc = "registering" => hb = "off"
    /\ mpc \in Serving /\ IsOpen(cur) /\ ~ctxDone =>
           hb \in {"first", "ticking", "closing"} \/ hbErr

\* From the report on, and after a result that was taken, the server knows or a
\* call was lost.
Reported == \A l \in At({"cleanOk", "cleanFail", "leave", "slot", "ended"}) :
                Told(l) \/ l \in lost

ConnInv == Linked /\ Pushed /\ Watched /\ TornIsClosed
IInv    == HandlerInv /\ TcpTypeOK /\ ConnInv /\ SlotsMatch /\ Reported /\ NoGhosts

-----------------------------------------------------------------------------
\* The handlers that count for connection c.
LiveOf(c) == {l \in At(Live) : connOf[l] = c}

\* They are finitely many.
LEMMA LiveOfFinite == \A c : IsFiniteSet(LiveOf(c))
  BY HandlerAssumption, FS_Subset DEF HandlerAssumption, LiveOf, At

\* The initial state satisfies the invariant.
LEMMA InitInv == Init => IInv
<1> SUFFICES ASSUME Init PROVE IInv
  OBVIOUS
<1>1. HandlerInv
  BY HandlerInitInv DEF Init
<1>2. TcpTypeOK
  <2>1. 0 \in 0..MaxConns /\ NotRead \in 0..NotRead
    BY TcpAssumption DEF TcpAssumption, NotRead
  <2>2. /\ conn \in [Conns -> {"new", "up", "torn", "down"}]
        /\ sem \in [Conns -> Int]
    BY DEF Init
  <2>3. /\ cur \in 0..MaxConns /\ tcpConn \in 0..MaxConns
        /\ connOf \in [Leases -> 0..MaxConns] /\ grab \in [Leases -> 0..NotRead]
    BY <2>1 DEF Init
  <2> QED
    BY <2>2, <2>3 DEF Init, TcpTypeOK
<1>3. ConnInv
  BY TcpAssumption DEF Init, HandlerInit, ConnInv, Linked, Pushed, Watched, TornIsClosed,
      IsOpen, Serving, TcpAssumption, Conns
<1>4. SlotsMatch
  <2>1. \A c \in Conns : LiveOf(c) = {}
    BY DEF Init, HandlerInit, LiveOf, At, Live, Running, Working, Leaving
  <2> QED
    BY <2>1, FS_EmptySet, TcpAssumption DEF Init, SlotsMatch, LiveOf, TcpAssumption
<1>5. Reported /\ NoGhosts
  BY DEF Init, HandlerInit, Reported, NoGhosts, At
<1> QED
  BY <1>1, <1>2, <1>3, <1>4, <1>5 DEF IInv

-----------------------------------------------------------------------------
(* Steps that leave the handlers where they are.                            *)

\* The handlers' part survives any step that changes nothing of theirs.
LEMMA HandlersStill ==
    ASSUME IInv, UNCHANGED <<handlerVars, sem>>, ctxDone' \in BOOLEAN,
           claims' \in {claims, {}, active},
           \A l \in Leases : pc[l] # "idle" => connOf'[l] = connOf[l]
    PROVE  HandlerInv' /\ SlotsMatch' /\ Reported' /\ NoGhosts'
<1> USE DEF IInv, handlerVars
<1>1. HandlerInv'
  BY DEF HandlerInv, HandlerTypeOK, AttemptsLeft
<1>2. \A places : At(places)' = At(places)
  BY DEF At
<1>3. \A c \in Conns : LiveOf(c)' = LiveOf(c)
  BY <1>2 DEF LiveOf, At, Live, Running, Working, Leaving
<1>4. SlotsMatch'
  BY <1>3 DEF SlotsMatch, LiveOf
<1>5. Reported'
  BY <1>2 DEF Reported, Told, Accepted
<1>6. NoGhosts'
  BY <1>2 DEF NoGhosts, At, Running, Working
<1> QED
  BY <1>1, <1>4, <1>5, <1>6

\* The deferred calls at the end of a connection.
LEMMA TeardownInv ==
    ASSUME IInv, Teardown, mpc \in Serving \cup {"registering"}
    PROVE  IInv'
<1>1. HandlerInv' /\ SlotsMatch' /\ Reported' /\ NoGhosts'
  BY HandlersStill DEF Teardown, IInv, HandlerInv, HandlerTypeOK
<1>2. TcpTypeOK'
  <2>1. 0 \in 0..MaxConns
    BY TcpAssumption DEF TcpAssumption
  <2> QED
    BY <2>1 DEF IInv, Teardown, TcpTypeOK
<1>3. ConnInv'
  BY DEF IInv, TcpTypeOK, Teardown, ConnInv, Linked, Pushed, Watched, TornIsClosed, IsOpen,
      Serving, handlerVars, Conns
<1> QED
  BY <1>1, <1>2, <1>3 DEF IInv
\* Each step of the main goroutine that starts no handler preserves the invariant.
LEMMA LoopInv ==
    ASSUME IInv, Open \/ Connect \/ Registered \/ Rejected \/ Poll \/ Receive \/ Pause
                 \/ ReceiveOther \/ Closer
    PROVE  IInv'
<1> USE DEF IInv
<1>t. ctxDone \in BOOLEAN
  BY DEF HandlerInv, HandlerTypeOK
<1> USE <1>t DEF ConnInv, Linked, Pushed, Watched, TornIsClosed, IsOpen, Serving
<1>1. CASE Open
  <2>1. HandlerInv' /\ SlotsMatch' /\ Reported' /\ NoGhosts'
    BY <1>1, HandlersStill DEF Open
  <2>2. TcpTypeOK'
    BY <1>1 DEF Open, TcpTypeOK
  <2>3. ConnInv'
    BY <1>1 DEF Open, handlerVars
  <2> QED
    BY <2>1, <2>2, <2>3
<1>2. CASE Connect
  <2>1. HandlerInv' /\ SlotsMatch' /\ Reported' /\ NoGhosts'
    BY <1>2, HandlersStill DEF Connect
  <2>2. cur < MaxConns => cur + 1 \in 0..MaxConns /\ cur + 1 \in Conns
    BY TcpAssumption DEF TcpTypeOK, TcpAssumption, Conns
  <2>3. active \subseteq Tasks
    BY DEF HandlerInv, HandlerTypeOK
  <2>4. TcpTypeOK'
    BY <1>2, <2>2, <2>3 DEF Connect, TcpTypeOK
  <2>5. ConnInv'
    BY <1>2, <2>2 DEF Connect, handlerVars, TcpTypeOK
  <2> QED
    BY <2>1, <2>4, <2>5
<1>3. CASE Registered
  <2>1. HandlerInv' /\ SlotsMatch' /\ Reported' /\ NoGhosts'
    BY <1>3, HandlersStill DEF Registered
  <2>2. TcpTypeOK'
    BY <1>3 DEF Registered, TcpTypeOK
  <2>3. ConnInv'
    BY <1>3 DEF Registered, handlerVars
  <2> QED
    BY <2>1, <2>2, <2>3
<1>4. CASE Rejected
  BY <1>4, TeardownInv DEF Rejected
<1>5. CASE Poll
  <2>1. CASE hbErr /\ Teardown
    BY <1>5, <2>1, TeardownInv DEF Poll
  <2>2. CASE ~(hbErr /\ Teardown)
    <3>1. HandlerInv' /\ SlotsMatch' /\ Reported' /\ NoGhosts'
      BY <1>5, <2>2, HandlersStill DEF Poll
    <3>2. TcpTypeOK' /\ ConnInv'
      BY <1>5, <2>2 DEF Poll, TcpTypeOK, handlerVars
    <3> QED
      BY <3>1, <3>2
  <2> QED
    BY <2>1, <2>2
<1>6. CASE Receive
  <2>1. CASE conn[cur] = "down" /\ Teardown
    BY <1>6, <2>1, TeardownInv DEF Receive
  <2>2. CASE ~(conn[cur] = "down" /\ Teardown)
    <3>1. HandlerInv' /\ SlotsMatch' /\ Reported' /\ NoGhosts'
      BY <1>6, <2>2, HandlersStill DEF Receive
    <3>2. TcpTypeOK' /\ ConnInv'
      BY <1>6, <2>2 DEF Receive, TcpTypeOK, handlerVars
    <3> QED
      BY <3>1, <3>2
  <2> QED
    BY <2>1, <2>2
<1>7. CASE Pause
  <2>1. HandlerInv' /\ SlotsMatch' /\ Reported' /\ NoGhosts'
    BY <1>7, HandlersStill DEF Pause
  <2>2. TcpTypeOK'
    BY <1>7 DEF Pause, TcpTypeOK
  <2>3. ConnInv'
    BY <1>7 DEF Pause, handlerVars
  <2> QED
    BY <2>1, <2>2, <2>3
<1>8. CASE ReceiveOther
  <2>1. HandlerInv' /\ SlotsMatch' /\ Reported' /\ NoGhosts'
    BY <1>8, HandlersStill DEF ReceiveOther
  <2>2. TcpTypeOK'
    BY <1>8 DEF ReceiveOther, TcpTypeOK
  <2>3. ConnInv'
    BY <1>8 DEF ReceiveOther, handlerVars
  <2> QED
    BY <2>1, <2>2, <2>3
<1>9. CASE Closer
  <2>1. HandlerInv' /\ SlotsMatch' /\ Reported' /\ NoGhosts'
    BY <1>9, HandlersStill DEF Closer
  <2>2. TcpTypeOK'
    BY <1>9 DEF Closer, TcpTypeOK
  <2>3. ConnInv'
    BY <1>9 DEF Closer, handlerVars
  <2> QED
    BY <2>1, <2>2, <2>3
<1> QED
  BY <1>1, <1>2, <1>3, <1>4, <1>5, <1>6, <1>7, <1>8, <1>9

\* The heartbeat goroutine passes on what it saw, or closes the connection.
LEMMA HeartbeatInv ==
    ASSUME IInv, FirstHeartbeat \/ HeartbeatFails \/ HeartbeatCloses \/ HeartbeatStops
    PROVE  IInv'
<1> USE DEF IInv
<1>t. ctxDone \in BOOLEAN
  BY DEF HandlerInv, HandlerTypeOK
<1> USE <1>t DEF ConnInv, Linked, Pushed, Watched, TornIsClosed, IsOpen, Serving, WriteFails,
        LeavesError, ConnCtxDone
<1>1. CASE FirstHeartbeat
  <2>1. HandlerInv' /\ SlotsMatch' /\ Reported' /\ NoGhosts'
    BY <1>1, HandlersStill DEF FirstHeartbeat
  <2>2. TcpTypeOK'
    BY <1>1 DEF FirstHeartbeat, TcpTypeOK
  <2>3. ConnInv'
    BY <1>1 DEF FirstHeartbeat, handlerVars, TcpTypeOK
  <2> QED
    BY <2>1, <2>2, <2>3
<1>2. CASE HeartbeatFails
  <2>1. HandlerInv' /\ SlotsMatch' /\ Reported' /\ NoGhosts'
    BY <1>2, HandlersStill DEF HeartbeatFails
  <2>2. TcpTypeOK'
    BY <1>2 DEF HeartbeatFails, TcpTypeOK
  <2>3. ConnInv'
    BY <1>2 DEF HeartbeatFails, handlerVars, TcpTypeOK
  <2> QED
    BY <2>1, <2>2, <2>3
<1>3. CASE HeartbeatCloses
  <2>1. HandlerInv' /\ SlotsMatch' /\ Reported' /\ NoGhosts'
    BY <1>3, HandlersStill DEF HeartbeatCloses
  <2>2. TcpTypeOK'
    BY <1>3 DEF HeartbeatCloses, TcpTypeOK
  <2>3. ConnInv'
    BY <1>3 DEF HeartbeatCloses, handlerVars, TcpTypeOK
  <2> QED
    BY <2>1, <2>2, <2>3
<1>4. CASE HeartbeatStops
  <2>1. HandlerInv' /\ SlotsMatch' /\ Reported' /\ NoGhosts'
    BY <1>4, HandlersStill DEF HeartbeatStops
  <2>2. TcpTypeOK'
    BY <1>4 DEF HeartbeatStops, TcpTypeOK
  <2>3. ConnInv'
    BY <1>4 DEF HeartbeatStops, handlerVars
  <2> QED
    BY <2>1, <2>2, <2>3
<1> QED
  BY <1>1, <1>2, <1>3, <1>4

\* The server and the network leave the handlers alone, and push to one connection.
LEMMA NetworkInv ==
    ASSUME IInv, Push \/ Break
    PROVE  IInv'
<1> USE DEF IInv
<1>t. ctxDone \in BOOLEAN
  BY DEF HandlerInv, HandlerTypeOK
<1> USE <1>t DEF ConnInv, Linked, Pushed, Watched, TornIsClosed, IsOpen, Serving
<1>1. CASE Push
  <2>1. PICK S \in SUBSET {l \in Leases : connOf[l] = 0} :
            /\ wire' = S
            /\ connOf' = [l \in Leases |-> IF l \in S THEN cur ELSE connOf[l]]
    BY <1>1 DEF Push
  <2>2. 0 \notin Conns
    BY TcpAssumption DEF Conns, TcpAssumption
  <2>3. \A l \in Leases : pc[l] # "idle" => connOf'[l] = connOf[l]
    BY <2>1, <2>2
  <2>4. HandlerInv' /\ SlotsMatch' /\ Reported' /\ NoGhosts'
    BY <1>1, <2>3, HandlersStill DEF Push
  <2>5. TcpTypeOK'
    BY <1>1, <2>1 DEF Push, TcpTypeOK
  <2>6. \A l \in batch : connOf'[l] = connOf[l]
    BY <1>1, <2>1, <2>2 DEF Push, TcpTypeOK
  <2>7. ConnInv'
    BY <1>1, <2>1, <2>3, <2>6 DEF Push, handlerVars, TcpTypeOK
  <2> QED
    BY <2>4, <2>5, <2>7
<1>2. CASE Break
  <2>1. HandlerInv' /\ SlotsMatch' /\ Reported' /\ NoGhosts'
    BY <1>2, HandlersStill DEF Break
  <2>2. TcpTypeOK'
    BY <1>2 DEF Break, TcpTypeOK
  <2>3. ConnInv'
    BY <1>2 DEF Break, handlerVars
  <2> QED
    BY <2>1, <2>2, <2>3
<1> QED
  BY <1>1, <1>2

-----------------------------------------------------------------------------
(* Steps of the handlers.                                                   *)

\* A handler that moves and keeps its slot leaves the counts as they are.
LEMMA MovedSlots ==
    ASSUME IInv, NEW l \in Leases, Moves(l, Held), UNCHANGED <<sem, connOf>>
    PROVE  /\ SlotsMatch'
           /\ \A m \in Leases : pc'[m] # "idle" <=> pc[m] # "idle"
<1>0. pc \in [Leases -> PCs]
  BY DEF IInv, HandlerInv, HandlerTypeOK
<1>1. At(Live)' = At(Live)
  BY <1>0, MovesAt DEF Held
<1>2. SlotsMatch'
  BY <1>1 DEF IInv, SlotsMatch
<1>3. "idle" \notin Held
  BY DEF Held, Live, Running, Working, Leaving
<1> QED
  BY <1>0, <1>2, <1>3 DEF Moves

\* What a lease was told is never taken back.
LEMMA StaysReported ==
    ASSUME IInv, NEW l \in Leases, NEW p, pc' = [pc EXCEPT ![l] = p],
           lost \subseteq lost', failed \subseteq failed', accepted \subseteq accepted',
           p \in {"cleanOk", "cleanFail", "leave", "slot", "ended"} => (Told(l) \/ l \in lost)'
    PROVE  Reported'
  BY DEF IInv, HandlerInv, HandlerTypeOK, Reported, At, Told, Accepted

\* A step that handlers share never ends one in silence.
LEMMA StepReported ==
    ASSUME IInv, NEW l \in Leases, HandlerStep(l)
    PROVE  Reported'
<1> USE DEF Goto
<1>0. pc[l] \in {"cleanOk", "cleanFail", "leave", "slot", "ended"} => Told(l) \/ l \in lost
  BY DEF IInv, Reported, At
<1>1. CASE Start(l) \/ Setup(l) \/ Work(l) \/ Backoff(l)
  BY <1>1, StaysReported DEF Start, Setup, Work, Backoff
<1>2. CASE Post(l) \/ PostError(l)
  <2>1. AfterError(l) \in {"fail", "backoff"}
    BY DEF AfterError
  <2> QED
    BY <1>2, <2>1, StaysReported DEF Post, PostError
<1>3. CASE PostOk(l)
  <2>1. attempt[l] \in 1..MaxAttempts
    BY <1>3 DEF PostOk, IInv, HandlerInv, HandlerTypeOK
  <2>2. Told(l)'
    BY <1>3, <2>1 DEF PostOk, Told, Accepted
  <2> QED
    BY <1>3, <2>2, StaysReported DEF PostOk
<1>4. CASE Clean(l) \/ Leave(l)
  <2>1. (Told(l) \/ l \in lost)' <=> Told(l) \/ l \in lost
    BY <1>4 DEF Clean, Leave, Told, Accepted
  <2> QED
    BY <1>0, <1>4, <2>1, StaysReported DEF Clean, Leave
<1> QED
  BY HandlerStep(l), <1>1, <1>2, <1>3, <1>4 DEF HandlerStep

\* Nor does it leave a task in the active set that no handler runs.
LEMMA StepNoGhosts ==
    ASSUME IInv, NEW l \in Leases, HandlerStep(l), UNCHANGED claims
    PROVE  NoGhosts'
<1> USE DEF Goto, IInv, HandlerInv, HandlerTypeOK, NoGhosts, At, Running, Working
<1>1. CASE Start(l)
  BY <1>1 DEF Start
<1>2. CASE Setup(l) \/ Work(l) \/ PostOk(l) \/ Backoff(l) \/ Clean(l)
  BY <1>2 DEF Setup, Work, PostOk, Backoff, Clean
<1>3. CASE Post(l) \/ PostError(l)
  <2>1. AfterError(l) \in {"fail", "backoff"}
    BY DEF AfterError
  <2> QED
    BY <1>3, <2>1 DEF Post, PostError
<1>4. CASE Leave(l)
  BY <1>4 DEF Leave
<1> QED
  BY HandlerStep(l), <1>1, <1>2, <1>3, <1>4 DEF HandlerStep

\* The connection's part survives any step that changes none of its variables.
LEMMA ConnStill ==
    ASSUME IInv, UNCHANGED <<mpc, cur, conn, tcpConn, connOf, wire, batch, hb, hbErr,
                             grab, closing>>,
           ctxDone => ctxDone',
           \A l \in Leases : pc'[l] # "idle" => pc[l] # "idle"
    PROVE  ConnInv'
  BY DEF IInv, ConnInv, Linked, Pushed, Watched, TornIsClosed, IsOpen

\* A step that handlers share preserves the invariant.
LEMMA SharedStepInv ==
    ASSUME IInv, NEW l \in Leases, HandlerStep(l), UNCHANGED tcpVars
    PROVE  IInv'
<1>1. HandlerInv'
  BY HandlerStepInv DEF IInv
<1>2. Moves(l, Held)
  BY HandlerMoves DEF IInv
<1>3. SlotsMatch' /\ \A m \in Leases : pc'[m] # "idle" <=> pc[m] # "idle"
  BY <1>2, MovedSlots DEF tcpVars
<1>4. Reported' /\ NoGhosts'
  BY StepReported, StepNoGhosts DEF tcpVars
<1>5. TcpTypeOK'
  BY DEF IInv, tcpVars, TcpTypeOK
<1>6. UNCHANGED ctxDone
  BY DEF HandlerStep, Start, Setup, Work, Post, PostOk, PostError, Backoff, Clean, Leave
<1>7. ConnInv'
  BY <1>3, <1>6, ConnStill DEF tcpVars
<1> QED
  BY <1>1, <1>3, <1>4, <1>5, <1>7 DEF IInv

\* A failure report, whether it arrives or is lost, preserves the handlers' part.
LEMMA ReportedInv ==
    ASSUME IInv, NEW l \in Leases, NEW canReach \in BOOLEAN,
           \/ Report(l, "fail", "cleanFail", canReach, lost \cup {l})
           \/ Report(l, "panicFail", "slot", canReach, lost \cup {l}),
           UNCHANGED <<sem, connOf, claims>>
    PROVE  /\ HandlerInv' /\ SlotsMatch' /\ Reported' /\ NoGhosts'
           /\ UNCHANGED ctxDone
           /\ \A m \in Leases : pc'[m] # "idle" <=> pc[m] # "idle"
<1>1. HandlerInv'
  <2>1. lost \cup {l} \subseteq Leases
    BY DEF IInv, HandlerInv, HandlerTypeOK
  <2> QED
    BY <2>1, ReportInv DEF IInv
<1>2. Moves(l, Held)
  BY ReportMoves
<1>3. SlotsMatch' /\ \A m \in Leases : pc'[m] # "idle" <=> pc[m] # "idle"
  BY <1>2, MovedSlots
<1>4. (Told(l) \/ l \in lost)'
  BY DEF Report, Told
<1>5. Reported'
  BY <1>4, StaysReported DEF Report, Goto
<1>6. NoGhosts'
  BY DEF Report, Goto, IInv, HandlerInv, HandlerTypeOK, NoGhosts, At, Running, Working
<1> QED
  BY <1>1, <1>3, <1>5, <1>6 DEF Report

\* What a handler sends on a connection preserves the invariant.
LEMMA SendInv ==
    ASSUME IInv, NEW l \in Leases,
           GrabConn(l) \/ SendFailure(l) \/ SendError(l) \/ SendErrorCloses(l) \/ ProgressError(l)
    PROVE  IInv'
<1> USE DEF IInv
<1>t. ctxDone \in BOOLEAN
  BY DEF HandlerInv, HandlerTypeOK
<1>n. NotRead \notin Conns /\ NotRead \in 0..NotRead /\ 0..MaxConns \subseteq 0..NotRead
  BY TcpAssumption DEF TcpAssumption, NotRead, Conns
<1> USE <1>t, <1>n DEF ConnInv, Linked, Pushed, Watched, TornIsClosed, IsOpen, WriteFails
<1>1. CASE GrabConn(l)
  <2>1. HandlerInv' /\ SlotsMatch' /\ Reported' /\ NoGhosts'
    BY <1>1, HandlersStill DEF GrabConn
  <2>2. TcpTypeOK'
    BY <1>1 DEF GrabConn, TcpTypeOK
  <2>3. ConnInv'
    BY <1>1 DEF GrabConn, handlerVars, TcpTypeOK
  <2> QED
    BY <2>1, <2>2, <2>3
<1>2. CASE SendFailure(l)
  <2>1. PICK canReach \in BOOLEAN :
            \/ Report(l, "fail", "cleanFail", canReach, lost \cup {l})
            \/ Report(l, "panicFail", "slot", canReach, lost \cup {l})
    BY <1>2 DEF SendFailure
  <2>2. /\ HandlerInv' /\ SlotsMatch' /\ Reported' /\ NoGhosts'
        /\ UNCHANGED ctxDone
        /\ \A m \in Leases : pc'[m] # "idle" <=> pc[m] # "idle"
    BY <1>2, <2>1, ReportedInv DEF SendFailure
  <2>3. conn' \in {conn, [conn EXCEPT ![grab[l]] = "down"]}
    BY <1>2 DEF SendFailure
  <2>4. TcpTypeOK'
    BY <1>2, <2>3 DEF SendFailure, TcpTypeOK
  <2>5. ConnInv'
    BY <1>2, <2>2, <2>3 DEF SendFailure, TcpTypeOK
  <2> QED
    BY <2>2, <2>4, <2>5
<1>3. CASE SendError(l)
  <2>1. HandlerInv' /\ SlotsMatch' /\ Reported' /\ NoGhosts'
    BY <1>3, HandlersStill DEF SendError
  <2>2. TcpTypeOK'
    BY <1>3 DEF SendError, TcpTypeOK
  <2>3. ConnInv'
    BY <1>3 DEF SendError, handlerVars, TcpTypeOK
  <2> QED
    BY <2>1, <2>2, <2>3
<1>4. CASE SendErrorCloses(l)
  <2>1. /\ HandlerInv' /\ SlotsMatch' /\ Reported' /\ NoGhosts'
        /\ UNCHANGED ctxDone
        /\ \A m \in Leases : pc'[m] # "idle" <=> pc[m] # "idle"
    <3>1. CASE \/ Report(l, "fail", "cleanFail", FALSE, lost \cup {l})
               \/ Report(l, "panicFail", "slot", FALSE, lost \cup {l})
      BY <1>4, <3>1, ReportedInv DEF SendErrorCloses
    <3>2. CASE UNCHANGED <<handlerVars, ctxDone>>
      <4>1. HandlerInv' /\ SlotsMatch' /\ Reported' /\ NoGhosts'
        BY <1>4, <3>2, HandlersStill DEF SendErrorCloses
      <4> QED
        BY <3>2, <4>1 DEF handlerVars
    <3> QED
      BY <1>4, <3>1, <3>2 DEF SendErrorCloses
  <2>2. TcpTypeOK'
    BY <1>4 DEF SendErrorCloses, TcpTypeOK
  <2>3. ConnInv'
    BY <1>4, <2>1 DEF SendErrorCloses, TcpTypeOK
  <2> QED
    BY <2>1, <2>2, <2>3
<1>5. CASE ProgressError(l)
  <2>1. HandlerInv' /\ SlotsMatch' /\ Reported' /\ NoGhosts'
    BY <1>5, HandlersStill DEF ProgressError
  <2>2. TcpTypeOK'
    BY <1>5 DEF ProgressError, TcpTypeOK
  <2>3. ConnInv'
    BY <1>5 DEF ProgressError, handlerVars, TcpTypeOK
  <2> QED
    BY <2>1, <2>2, <2>3
<1> QED
  BY <1>1, <1>2, <1>3, <1>4, <1>5

\* The deferred receive from sem gives back the slot its start took, on the
\* connection that brought the task.
LEMMA ReleaseInv ==
    ASSUME IInv, NEW l \in Leases, ReleaseSlot(l)
    PROVE  IInv'
<1> USE DEF IInv
<1>0. /\ pc \in [Leases -> PCs] /\ pc[l] = "slot" /\ pc' = [pc EXCEPT ![l] = "ended"]
      /\ connOf[l] \in Conns /\ sem' = [sem EXCEPT ![connOf[l]] = @ - 1]
  BY DEF ReleaseSlot, Goto, HandlerInv, HandlerTypeOK, ConnInv, Pushed
<1>1. HandlerInv'
  BY DEF ReleaseSlot, Goto, HandlerInv, HandlerTypeOK, AttemptsLeft, PCs
<1>2. TcpTypeOK'
  BY <1>0 DEF ReleaseSlot, TcpTypeOK
<1>3. ConnInv'
  BY <1>0, ConnStill DEF ReleaseSlot
<1>4. SlotsMatch'
  <2>1. "slot" \in Live /\ "ended" \notin Live
    BY DEF Live, Running, Working, Leaving
  <2>2. At(Live)' = At(Live) \ {l} /\ l \in At(Live)
    BY <1>0, <2>1, MoveAt DEF At
  <2>3. l \in LiveOf(connOf[l]) /\ LiveOf(connOf[l])' = LiveOf(connOf[l]) \ {l}
    BY <2>2 DEF LiveOf, ReleaseSlot
  <2>4. \A c \in Conns \ {connOf[l]} : LiveOf(c)' = LiveOf(c)
    BY <2>2 DEF LiveOf, ReleaseSlot
  <2>5. /\ Cardinality(LiveOf(connOf[l]) \ {l}) = Cardinality(LiveOf(connOf[l])) - 1
        /\ Cardinality(LiveOf(connOf[l])) \in Nat
    BY <2>3, LiveOfFinite, FS_RemoveElement, FS_CardinalityType
  <2>6. sem'[connOf[l]] = sem[connOf[l]] - 1 /\ \A c \in Conns \ {connOf[l]} : sem'[c] = sem[c]
    BY <1>0 DEF TcpTypeOK
  <2>7. sem[connOf[l]] = Cardinality(LiveOf(connOf[l])) /\ sem[connOf[l]] <= MaxTasks
    BY <1>0 DEF SlotsMatch, LiveOf
  <2>8. sem'[connOf[l]] = Cardinality(LiveOf(connOf[l])') /\ sem'[connOf[l]] <= MaxTasks
    BY <2>3, <2>5, <2>6, <2>7, TcpAssumption DEF TcpAssumption
  <2>9. \A c \in Conns \ {connOf[l]} : sem'[c] = Cardinality(LiveOf(c)') /\ sem'[c] <= MaxTasks
    BY <2>4, <2>6 DEF SlotsMatch, LiveOf
  <2> QED
    BY <2>8, <2>9 DEF SlotsMatch, LiveOf, ReleaseSlot
<1>5. Reported'
  <2>1. Told(l) \/ l \in lost
    BY <1>0 DEF Reported, At
  <2>2. (Told(l) \/ l \in lost)'
    BY <2>1 DEF ReleaseSlot, Told, Accepted
  <2> QED
    BY <1>0, <2>2, StaysReported DEF ReleaseSlot
<1>6. NoGhosts'
  BY <1>0 DEF ReleaseSlot, NoGhosts, At, Running, Working
<1> QED
  BY <1>1, <1>2, <1>3, <1>4, <1>5, <1>6

\* The dispatch loop takes a slot of the connection that brought the lease.
LEMMA DispatchInv ==
    ASSUME IInv, Dispatch
    PROVE  IInv'
<1> USE DEF IInv
<1>1. CASE ctxDone /\ Teardown
  BY <1>1, TeardownInv DEF Dispatch, Serving
<1>2. CASE ~(ctxDone /\ Teardown)
  <2>1. PICK l \in batch : Goto(l, "idle", "spawned") /\ batch' = batch \ {l}
    BY <1>2 DEF Dispatch
  <2>2. /\ mpc = "dispatch" /\ FreeSlot /\ sem' = [sem EXCEPT ![cur] = @ + 1]
        /\ mpc' \in {"poll", "dispatch"} /\ (mpc' = "poll" => batch' = {})
    BY <1>2 DEF Dispatch
  <2>3. /\ UNCHANGED <<attempt, expired, ctxDone, active, dirs, inflight, accepted, failed, lost>>
        /\ UNCHANGED <<cur, conn, tcpConn, connOf, wire, hb, hbErr, grab, closing, claims>>
    BY <1>2 DEF Dispatch
  <2>4. /\ l \in Leases /\ pc[l] = "idle" /\ pc' = [pc EXCEPT ![l] = "spawned"]
        /\ pc \in [Leases -> PCs] /\ connOf[l] = cur /\ cur \in Conns
    BY <2>1, <2>2 DEF Goto, TcpTypeOK, HandlerInv, HandlerTypeOK, ConnInv, Pushed, Linked, Serving
  <2>5. HandlerInv'
    BY <2>3, <2>4 DEF HandlerInv, HandlerTypeOK, AttemptsLeft, PCs, Live
  <2>6. TcpTypeOK'
    BY <2>1, <2>2, <2>3, <2>4 DEF TcpTypeOK, Serving
  <2>7. ConnInv'
    BY <2>1, <2>2, <2>3, <2>4
    DEF ConnInv, Linked, Pushed, Watched, TornIsClosed, IsOpen, Serving, TcpTypeOK
  <2>8. SlotsMatch'
    <3>1. "idle" \notin Live /\ "spawned" \in Live
      BY DEF Live, Running, Working, Leaving
    <3>2. At(Live)' = At(Live) \cup {l} /\ l \notin At(Live)
      BY <2>4, <3>1, MoveAt DEF At
    <3>3. l \notin LiveOf(cur) /\ LiveOf(cur)' = LiveOf(cur) \cup {l}
      BY <2>3, <2>4, <3>2 DEF LiveOf
    <3>4. \A c \in Conns \ {cur} : LiveOf(c)' = LiveOf(c)
      BY <2>3, <2>4, <3>2 DEF LiveOf
    <3>5. Cardinality(LiveOf(cur) \cup {l}) = Cardinality(LiveOf(cur)) + 1
      BY <3>3, LiveOfFinite, FS_AddElement
    <3>6. sem[cur] = Cardinality(LiveOf(cur)) /\ sem[cur] \in Int /\ sem[cur] < MaxTasks
      BY <2>2, <2>4 DEF SlotsMatch, LiveOf, FreeSlot, TcpTypeOK
    <3>7. sem'[cur] = sem[cur] + 1 /\ \A c \in Conns \ {cur} : sem'[c] = sem[c]
      BY <2>2, <2>4 DEF TcpTypeOK
    <3>8. sem'[cur] = Cardinality(LiveOf(cur)') /\ sem'[cur] <= MaxTasks
      BY <3>3, <3>5, <3>6, <3>7, TcpAssumption DEF TcpAssumption
    <3>9. \A c \in Conns \ {cur} : sem'[c] = Cardinality(LiveOf(c)') /\ sem'[c] <= MaxTasks
      BY <3>4, <3>7 DEF SlotsMatch, LiveOf
    <3> QED
      BY <2>3, <3>8, <3>9 DEF SlotsMatch, LiveOf
  <2>9. Reported' /\ NoGhosts'
    BY <2>3, <2>4 DEF Reported, NoGhosts, At, Told, Accepted, Running, Working
  <2> QED
    BY <2>5, <2>6, <2>7, <2>8, <2>9
<1> QED
  BY <1>1, <1>2

\* The clock, the signal and the server's side of an upload.
LEMMA SurroundingsInv ==
    ASSUME IInv, UNCHANGED tcpVars, Cancel \/ \E l \in Leases : HandlerEnv(l)
    PROVE  IInv'
<1>1. HandlerInv'
  BY HandlerEnvInv DEF IInv
<1>2. /\ UNCHANGED <<pc, active, failed, lost>> /\ accepted \subseteq accepted'
      /\ (ctxDone => ctxDone')
  <2>1. CASE Cancel
    BY <2>1 DEF Cancel
  <2>2. ASSUME NEW l \in Leases, Deadline(l)
        PROVE  /\ UNCHANGED <<pc, active, failed, lost, ctxDone>>
               /\ accepted \subseteq accepted'
    BY <2>2 DEF Deadline
  <2>3. ASSUME NEW l \in Leases, ServerAccepts(l)
        PROVE  /\ UNCHANGED <<pc, active, failed, lost, ctxDone>>
               /\ accepted \subseteq accepted'
    BY <2>3 DEF ServerAccepts
  <2> QED
    BY <2>1, <2>2, <2>3 DEF HandlerEnv
<1>3. \A places : At(places)' = At(places)
  BY <1>2 DEF At
<1>4. TcpTypeOK' /\ SlotsMatch' /\ NoGhosts'
  BY <1>2, <1>3 DEF IInv, tcpVars, TcpTypeOK, SlotsMatch, NoGhosts
<1>5. ConnInv'
  BY <1>2, ConnStill DEF tcpVars
<1>6. Reported'
  BY <1>2, <1>3 DEF IInv, Reported, Told, Accepted
<1> QED
  BY <1>1, <1>4, <1>5, <1>6 DEF IInv

-----------------------------------------------------------------------------
\* Every step preserves the invariant.
LEMMA NextInv == IInv /\ [Next]_vars => IInv'
<1> SUFFICES ASSUME IInv, [Next]_vars PROVE IInv'
  OBVIOUS
<1>1. CASE MainStep
  BY <1>1, LoopInv, DispatchInv DEF MainStep
<1>2. CASE ReceiveOther \/ Closer
  BY <1>2, LoopInv
<1>3. CASE FirstHeartbeat \/ HeartbeatFails \/ HeartbeatCloses \/ HeartbeatStops
  BY <1>3, HeartbeatInv
<1>4. CASE \E l \in Leases : Goroutine(l) \/ ProgressError(l)
  BY <1>4, SharedStepInv, SendInv, ReleaseInv DEF Goroutine
<1>5. CASE Push \/ Break
  BY <1>5, NetworkInv
<1>6. CASE /\ UNCHANGED tcpVars
           /\ Cancel \/ \E l \in Leases : Deadline(l) \/ ServerAccepts(l)
  BY <1>6, SurroundingsInv DEF HandlerEnv
<1>7. CASE UNCHANGED vars
  <2>1. HandlerInv' /\ SlotsMatch' /\ Reported' /\ NoGhosts'
    BY <1>7, HandlersStill DEF vars, tcpVars, IInv, HandlerInv, HandlerTypeOK
  <2>2. TcpTypeOK'
    BY <1>7 DEF vars, tcpVars, IInv, TcpTypeOK
  <2>3. ConnInv'
    BY <1>7, ConnStill DEF vars, tcpVars, handlerVars
  <2> QED
    BY <2>1, <2>2, <2>3 DEF IInv
<1> QED
  BY <1>1, <1>2, <1>3, <1>4, <1>5, <1>6, <1>7 DEF Next, Alive

\* The inductive invariant of the TCP worker.
THEOREM Invariance == Spec => []IInv
<1> QED
  BY InitInv, NextInv, PTL DEF Spec

\* Each connection's slots count the handlers of the tasks it brought, however
\* many connections come after it.
THEOREM SlotsAlwaysMatch == Spec => []SlotsMatch
<1>1. IInv => SlotsMatch
  BY DEF IInv
<1> QED
  BY <1>1, Invariance, PTL

\* Only the connection dialled last can be open, and tcpConn points to it exactly
\* while it is served.
THEOREM OneConnectionAtATime == Spec => []OneConnection
<1>1. IInv => OneConnection
  BY DEF IInv, ConnInv, Linked, OneConnection
<1> QED
  BY <1>1, Invariance, PTL

\* A served connection is watched by its heartbeat goroutine.
THEOREM HeartbeatAlwaysWatched == Spec => []HeartbeatWatched
<1>1. IInv => HeartbeatWatched
  BY DEF IInv, ConnInv, Watched, HeartbeatWatched, Serving
<1> QED
  BY <1>1, Invariance, PTL

\* A stream out of step has somebody about to close it.
THEOREM TornStreamsAreClosed == Spec => []TornIsClosed
<1>1. IInv => TornIsClosed
  BY DEF IInv, ConnInv
<1> QED
  BY <1>1, Invariance, PTL

\* A handler that is done has told the server or lost a call, whatever became of
\* its deadline and its connection.
THEOREM EndsAreToldOrLost == Spec => []EndedIsToldOrLost
<1>1. IInv => EndedIsToldOrLost
  BY DEF IInv, Reported, EndedIsToldOrLost, At
<1> QED
  BY <1>1, Invariance, PTL

\* What the client claims to be working on, it has started.
THEOREM ClaimsAreStarted == Spec => []NoGhosts
<1>1. IInv => NoGhosts
  BY DEF IInv
<1> QED
  BY <1>1, Invariance, PTL

\* Every variable keeps its type, the slots of each connection within the capacity
\* of its channel among them.
THEOREM TypeCorrect == Spec => []TypeOK
<1>1. IInv => TypeOK
  <2> SUFFICES ASSUME IInv PROVE TypeOK
    OBVIOUS
  <2>1. ASSUME NEW c \in Conns PROVE sem[c] \in 0..MaxTasks
    <3>1. sem[c] = Cardinality(LiveOf(c)) /\ sem[c] <= MaxTasks
      BY DEF IInv, SlotsMatch, LiveOf
    <3>2. Cardinality(LiveOf(c)) \in Nat /\ MaxTasks \in Nat
      BY LiveOfFinite, FS_CardinalityType, TcpAssumption DEF TcpAssumption
    <3> QED
      BY <3>1, <3>2
  <2>2. sem \in [Conns -> 0..MaxTasks]
    BY <2>1 DEF IInv, TcpTypeOK
  <2> QED
    BY <2>2 DEF IInv, HandlerInv, TcpTypeOK, TypeOK
<1> QED
  BY <1>1, Invariance, PTL
-----------------------------------------------------------------------------
(* TcpWorker implements ChannelOutcome.                                     *)

\* What the mapping needs beside IInv.  A connection that is dialled has brought
\* nothing; nothing waits outside the dispatch loop but on the wire; and an upload
\* is of a lease that was started.
Fresh ==
    /\ \A l \in Leases : connOf[l] <= cur
    /\ mpc = "registering" => \A l \in Leases : connOf[l] # cur
    /\ mpc = "open" => cur = 0
    /\ mpc # "dispatch" => batch = {}
    /\ \A l \in Leases, n \in 1..MaxAttempts : <<l, n>> \in inflight => pc[l] # "idle"

\* The initial state is fresh.
LEMMA FreshInit == Init => Fresh
  BY DEF Init, HandlerInit, Fresh

\* Uploads stay those of started leases, and leases started.
Posted == \A l \in Leases :
    /\ pc[l] # "idle" => pc'[l] # "idle"
    /\ \A n \in 1..MaxAttempts :
           <<l, n>> \in inflight' => <<l, n>> \in inflight \/ pc[l] # "idle"

\* A step of the handlers or of the server posts in order.
LEMMA HandlersPost ==
    ASSUME IInv, \/ \E l \in Leases : Goroutine(l) \/ HandlerEnv(l)
                 \/ Cancel \/ UNCHANGED handlerVars
    PROVE  Posted
<1>0. pc \in [Leases -> PCs]
  BY DEF IInv, HandlerInv, HandlerTypeOK
<1>1. ASSUME NEW l \in Leases, HandlerStep(l) PROVE Posted
  <2>1. AfterError(l) # "idle"
    BY DEF AfterError
  <2> QED
    BY <1>0, <1>1, <2>1 DEF HandlerStep, Start, Setup, Work, Post, PostOk, PostError, Backoff,
       Clean, Leave, Goto, Posted
<1>2. ASSUME NEW l \in Leases, SendFailure(l) \/ SendErrorCloses(l) \/ ReleaseSlot(l)
      PROVE  Posted
  BY <1>0, <1>2 DEF SendFailure, SendErrorCloses, ReleaseSlot, Report, Goto, Posted, handlerVars
<1>3. ASSUME NEW l \in Leases, HandlerEnv(l) PROVE Posted
  BY <1>3 DEF HandlerEnv, Deadline, ServerAccepts, Posted
<1>4. CASE Cancel \/ UNCHANGED handlerVars
  BY <1>4 DEF Cancel, Posted, handlerVars
<1>5. ASSUME NEW l \in Leases, GrabConn(l) \/ SendError(l) PROVE UNCHANGED handlerVars
  BY <1>5 DEF GrabConn, SendError
<1> QED
  BY <1>1, <1>2, <1>3, <1>4, <1>5 DEF Goroutine

\* Every step preserves it.
LEMMA FreshNext == IInv /\ Fresh /\ [Next]_vars => Fresh'
<1> SUFFICES ASSUME IInv, Fresh, [Next]_vars PROVE Fresh'
  OBVIOUS
<1> USE DEF Fresh, Posted
<1>0. /\ cur \in 0..MaxConns /\ connOf \in [Leases -> 0..MaxConns] /\ MaxConns \in Nat
      /\ pc \in [Leases -> PCs]
  BY TcpAssumption DEF IInv, HandlerInv, HandlerTypeOK, TcpTypeOK, TcpAssumption
<1>1. CASE Connect
  BY <1>0, <1>1 DEF Connect, handlerVars
<1>2. CASE Teardown
  BY <1>2 DEF Teardown, handlerVars
<1>3. CASE Open \/ Registered \/ ReceiveOther \/ Pause \/ Closer
  BY <1>3 DEF Open, Registered, ReceiveOther, Pause, Closer, handlerVars
<1>4. CASE Poll \/ Receive \/ Rejected
  BY <1>2, <1>4 DEF Poll, Receive, Rejected, handlerVars
<1>5. CASE Dispatch
  <2>1. CASE ~(ctxDone /\ Teardown)
    <3>1. PICK l \in batch : pc[l] = "idle" /\ pc' = [pc EXCEPT ![l] = "spawned"]
      BY <1>5, <2>1 DEF Dispatch, Goto
    <3>2. /\ UNCHANGED <<cur, connOf, inflight>> /\ mpc' \in {"poll", "dispatch"}
          /\ mpc' = "poll" => batch' = {}
      BY <1>5, <2>1 DEF Dispatch
    <3> QED
      BY <1>0, <3>1, <3>2
  <2> QED
    BY <1>2, <1>5, <2>1
<1>6. CASE Push
  BY <1>0, <1>6 DEF Push, handlerVars, Serving
<1>7. ASSUME UNCHANGED <<mpc, cur, connOf, batch>>, Posted PROVE Fresh'
  BY <1>0, <1>7
<1>8. CASE FirstHeartbeat \/ HeartbeatFails \/ HeartbeatCloses \/ HeartbeatStops \/ Break
  <2>1. UNCHANGED <<handlerVars, mpc, cur, connOf, batch>>
    BY <1>8 DEF FirstHeartbeat, HeartbeatFails, HeartbeatCloses, HeartbeatStops, Break
  <2> QED
    BY <1>7, <2>1, HandlersPost
<1>9. ASSUME NEW l \in Leases, Goroutine(l) PROVE Fresh'
  <2>1. UNCHANGED <<mpc, cur, connOf, batch>>
    BY <1>9 DEF Goroutine, tcpVars, GrabConn, SendFailure, SendError, SendErrorCloses, ReleaseSlot
  <2> QED
    BY <1>7, <1>9, <2>1, HandlersPost
<1>10. ASSUME NEW l \in Leases, ProgressError(l) PROVE Fresh'
  <2>1. UNCHANGED <<handlerVars, mpc, cur, connOf, batch>>
    BY <1>10 DEF ProgressError
  <2> QED
    BY <1>7, <2>1, HandlersPost
<1>11. CASE UNCHANGED tcpVars /\ (Cancel \/ \E l \in Leases : HandlerEnv(l))
  <2>1. UNCHANGED <<mpc, cur, connOf, batch>>
    BY <1>11 DEF tcpVars
  <2> QED
    BY <1>7, <1>11, <2>1, HandlersPost
<1>12. CASE UNCHANGED vars
  <2>1. UNCHANGED <<handlerVars, mpc, cur, connOf, batch>>
    BY <1>12 DEF vars, tcpVars
  <2> QED
    BY <1>7, <2>1, HandlersPost
<1> QED
  BY <1>1, <1>3, <1>4, <1>5, <1>6, <1>8, <1>9, <1>10, <1>11, <1>12
  DEF Next, Alive, MainStep, HandlerEnv

Learned == {l \in Leases : Told(l)}

\* What the main goroutine has of the push it received last, or has yet to receive.
Waiting == wire \cup batch

\* A lease is at one place of the abstract client.
LEMMA PhaseIs ==
    ASSUME NEW l \in Leases, pc[l] \in PCs
    PROVE  /\ pc[l] = "ended" => PhaseOf(l) = "over"
           /\ pc[l] \in Live => PhaseOf(l) = "running"
           /\ pc[l] = "idle" /\ l \in Waiting => PhaseOf(l) = "held"
           /\ pc[l] = "idle" /\ l \notin Waiting /\ connOf[l] # 0 => PhaseOf(l) = "dropped"
           /\ pc[l] = "idle" /\ l \notin Waiting /\ connOf[l] = 0 => PhaseOf(l) = "away"
  BY DEF PhaseOf, Waiting, PCs, Live, Running, Working, Leaving

\* The same after a step.
LEMMA PhaseNext ==
    ASSUME NEW l \in Leases, pc'[l] \in PCs
    PROVE  /\ pc'[l] = "ended" => PhaseOf(l)' = "over"
           /\ pc'[l] \in Live => PhaseOf(l)' = "running"
           /\ pc'[l] = "idle" /\ l \in Waiting' => PhaseOf(l)' = "held"
           /\ pc'[l] = "idle" /\ l \notin Waiting' /\ connOf'[l] # 0 => PhaseOf(l)' = "dropped"
           /\ pc'[l] = "idle" /\ l \notin Waiting' /\ connOf'[l] = 0 => PhaseOf(l)' = "away"
  BY DEF PhaseOf, Waiting, PCs, Live, Running, Working, Leaving

\* A lease that stays where it is, is seen where it was.
LEMMA PhaseSame ==
    ASSUME NEW l \in Leases, pc'[l] = pc[l], connOf'[l] = connOf[l],
           l \in Waiting' <=> l \in Waiting
    PROVE  PhaseOf(l)' = PhaseOf(l)
  BY DEF PhaseOf, Waiting

\* What the abstract client sees of a step.
LEMMA SeesNothing ==
    ASSUME \A l \in Leases : PhaseOf(l)' = PhaseOf(l), Learned' = Learned,
           UNCHANGED <<connOf, tcpConn, lost, ctxDone>>,
           (mpc' = "returned") <=> (mpc = "returned")
    PROVE  UNCHANGED Outcome!vars
<1>1. (mpc' = "returned") = (mpc = "returned")
  OBVIOUS
<1>2. [l \in Leases |-> PhaseOf(l)]' = [l \in Leases |-> PhaseOf(l)]
  OBVIOUS
<1> QED
  BY <1>1, <1>2 DEF Outcome!vars, Learned

\* A step that touches neither the handlers nor what waits is not seen.
LEMMA NotSeen ==
    ASSUME UNCHANGED <<handlerVars, ctxDone, connOf, tcpConn>>, Waiting' = Waiting,
           (mpc' = "returned") <=> (mpc = "returned")
    PROVE  UNCHANGED Outcome!vars
<1>1. \A l \in Leases : PhaseOf(l)' = PhaseOf(l)
  BY PhaseSame DEF handlerVars
<1>2. Learned' = Learned /\ UNCHANGED <<connOf, tcpConn, lost, ctxDone>>
  BY DEF handlerVars, Learned, Told, Accepted
<1> QED
  BY <1>1, <1>2, SeesNothing

\* Leases that move together, in the abstract client.
LEMMA SeesMove ==
    ASSUME NEW S \in SUBSET Leases, NEW p, \A l \in S : PhaseOf(l)' = p,
           \A l \in Leases \ S : PhaseOf(l)' = PhaseOf(l)
    PROVE  Outcome!Move(S, p)
  BY DEF Outcome!Move

\* ChannelOutcome counts as TcpWorker does.
LEMMA SameCount == \A S : Outcome!Cardinality(S) = Cardinality(S)
  BY Zenon DEF Cardinality, Outcome!Cardinality

\* The abstract client starts where the worker does.
LEMMA OutcomeInit == Init => Outcome!Init
<1> SUFFICES ASSUME Init PROVE Outcome!Init
  OBVIOUS
<1>1. \A l \in Leases : pc[l] \in PCs /\ pc[l] = "idle" /\ l \notin Waiting /\ connOf[l] = 0
  BY DEF Init, HandlerInit, Waiting, PCs
<1>2. \A l \in Leases : PhaseOf(l) = "away" /\ ~Told(l)
  BY <1>1, PhaseIs DEF Init, HandlerInit, Told, Accepted
<1>3. (mpc = "returned") = FALSE /\ ctxDone = FALSE /\ lost = {} /\ tcpConn = 0
  BY DEF Init, HandlerInit
<1>4. connOf = [l \in Leases |-> 0]
  BY DEF Init
<1> QED
  BY <1>2, <1>3, <1>4 DEF Outcome!Init

\* The end of a connection's service is the end of the link; that of one that was
\* never registered is not seen.
LEMMA TeardownRefines ==
    ASSUME IInv, Teardown, mpc \in Serving \cup {"registering"}
    PROVE  Outcome!Next \/ UNCHANGED Outcome!vars
<1>0. /\ pc \in [Leases -> PCs] /\ 0 \notin Conns /\ cur \in Conns
      /\ tcpConn = IF mpc \in Serving THEN cur ELSE 0
      /\ \A l \in Waiting : connOf[l] = cur
      /\ mpc \notin Serving => Waiting = {}
  BY TcpAssumption DEF IInv, HandlerInv, HandlerTypeOK, ConnInv, Linked, Pushed, Waiting, Conns,
     TcpAssumption
<1>1. /\ UNCHANGED <<handlerVars, ctxDone, connOf>> /\ Waiting' = {}
      /\ mpc' = "pause" /\ mpc # "returned"
  BY DEF Teardown, Waiting, Serving
<1>2. CASE mpc \notin Serving
  <2>1. UNCHANGED tcpConn
    BY <1>0, <1>2 DEF Teardown
  <2> QED
    BY <1>0, <1>1, <1>2, <2>1, NotSeen
<1>3. CASE mpc \in Serving
  <2>1. tcpConn = cur /\ tcpConn' = 0 /\ tcpConn # 0
    BY <1>0, <1>3 DEF Teardown
  <2> DEFINE S == {l \in Leases : PhaseOf(l) = "held"}
  <2>2. \A l \in Leases : l \in S <=> pc[l] = "idle" /\ l \in Waiting
    BY <1>0, PhaseIs DEF PCs
  <2>3. \A l \in S : PhaseOf(l)' = "dropped"
    <3>1. \A l \in S : /\ pc'[l] = "idle" /\ pc'[l] \in PCs
                       /\ l \notin Waiting' /\ connOf'[l] # 0
      BY <1>0, <1>1, <2>2 DEF handlerVars, PCs
    <3> QED
      BY <3>1, PhaseNext
  <2>4. \A l \in Leases \ S : PhaseOf(l)' = PhaseOf(l)
    <3>1. ASSUME NEW l \in Leases \ S, pc[l] # "idle" PROVE PhaseOf(l)' = PhaseOf(l)
      BY <1>0, <1>1, <3>1, PhaseIs, PhaseNext DEF handlerVars, PCs
    <3>2. ASSUME NEW l \in Leases \ S, l \notin Waiting PROVE PhaseOf(l)' = PhaseOf(l)
      BY <1>1, <3>2, PhaseSame DEF handlerVars
    <3> QED
      BY <2>2, <3>1, <3>2
  <2>5. Outcome!In("held") = S
    BY DEF Outcome!In
  <2>6. Outcome!Move(S, "dropped")
    BY <2>3, <2>4, SeesMove
  <2>7. (mpc = "returned") = FALSE /\ (mpc' = "returned") = FALSE
    BY <1>1
  <2>8. Learned' = Learned /\ lost' = lost
    BY <1>1 DEF handlerVars, Learned, Told, Accepted
  <2>9. Outcome!LinkDown
    BY <1>1, <2>1, <2>5, <2>6, <2>7, <2>8 DEF Outcome!LinkDown, Learned
  <2> QED
    BY <2>9 DEF Outcome!Next
<1> QED
  BY <1>2, <1>3

\* The return of runTCP is the stop of the client.
LEMMA ReturnRefines ==
    ASSUME IInv, Fresh, mpc # "returned", mpc' = "returned", mpc \notin Serving,
           UNCHANGED <<handlerVars, ctxDone, connOf, tcpConn, wire, batch>>,
           ctxDone \/ mpc = "open"
    PROVE  Outcome!Next
<1>1. tcpConn = 0
  BY DEF IInv, ConnInv, Linked
<1>2. ctxDone \/ \A l \in Leases : connOf[l] = 0
  BY TcpAssumption DEF Fresh, IInv, TcpTypeOK, TcpAssumption
<1>3. [l \in Leases |-> PhaseOf(l)]' = [l \in Leases |-> PhaseOf(l)]
  BY PhaseSame DEF handlerVars, Waiting
<1>4. Learned' = Learned /\ lost' = lost /\ (mpc' = "returned") = TRUE
  BY DEF handlerVars, Learned, Told, Accepted
<1>5. Outcome!Stop
  BY <1>1, <1>2, <1>3, <1>4 DEF Outcome!Stop, Learned
<1> QED
  BY <1>5 DEF Outcome!Next

\* A dispatched lease is run, with a slot of the link that brought it.
LEMMA DispatchRefines ==
    ASSUME IInv, Fresh, Dispatch
    PROVE  Outcome!Next \/ UNCHANGED Outcome!vars
<1>1. CASE ctxDone /\ Teardown
  BY <1>1, TeardownRefines DEF Dispatch, Serving
<1>2. CASE ~(ctxDone /\ Teardown)
  <2>1. PICK l \in batch : /\ pc[l] = "idle" /\ pc' = [pc EXCEPT ![l] = "spawned"]
                           /\ batch' = batch \ {l}
    BY <1>2 DEF Dispatch, Goto
  <2>2. /\ mpc = "dispatch" /\ mpc' # "returned" /\ FreeSlot
        /\ UNCHANGED <<wire, connOf, tcpConn, failed, accepted, lost, ctxDone>>
    BY <1>2 DEF Dispatch
  <2>3. /\ pc \in [Leases -> PCs] /\ l \in Leases /\ l \in Waiting
        /\ tcpConn = cur /\ connOf[l] = cur /\ cur \in Conns
    BY <2>1, <2>2 DEF IInv, HandlerInv, HandlerTypeOK, TcpTypeOK, ConnInv, Linked, Pushed,
       Serving, Waiting
  <2>4. PhaseOf(l) = "held" /\ PhaseOf(l)' = "running"
    <3>1. pc'[l] = "spawned" /\ "spawned" \in Live /\ "spawned" \in PCs /\ "idle" \in PCs
      BY <2>1, <2>3 DEF Live, PCs
    <3> QED
      BY <2>1, <2>3, <3>1, PhaseIs, PhaseNext
  <2>5. \A m \in Leases \ {l} : PhaseOf(m)' = PhaseOf(m)
    BY <2>1, <2>2, <2>3, PhaseSame DEF Waiting
  <2>6. Outcome!Move({l}, "running")
    BY <2>3, <2>4, <2>5, SeesMove
  <2> DEFINE R == {m \in Outcome!In("running") : connOf[m] = tcpConn}
  <2>7. Outcome!Cardinality(R) < MaxTasks
    <3>1. R \subseteq LiveOf(cur)
      BY <2>3, PhaseIs DEF Outcome!In, LiveOf, At, PCs
    <3>2. /\ Cardinality(R) <= Cardinality(LiveOf(cur))
          /\ Cardinality(R) \in Nat /\ Cardinality(LiveOf(cur)) \in Nat
      BY <3>1, LiveOfFinite, FS_Subset, FS_CardinalityType
    <3>3. Cardinality(LiveOf(cur)) < MaxTasks
      BY <2>2, <2>3 DEF FreeSlot, IInv, SlotsMatch, LiveOf
    <3>4. Cardinality(R) < MaxTasks
      BY <3>2, <3>3, TcpAssumption DEF TcpAssumption
    <3> QED
      BY <3>4, SameCount
  <2>8. /\ [m \in Leases |-> PhaseOf(m)][l] = "held"
        /\ connOf[l] = tcpConn /\ (mpc = "returned")' = (mpc = "returned")
        /\ Learned' = Learned
    BY <2>2, <2>3, <2>4 DEF Learned, Told, Accepted
  <2>9. Outcome!Run(l)
    BY <2>2, <2>6, <2>7, <2>8, Zenon DEF Outcome!Run, Learned
  <2> QED
    BY <2>3, <2>9 DEF Outcome!Next
<1> QED
  BY <1>1, <1>2

\* A registered connection is a link that has brought nothing.
LEMMA RegisteredRefines ==
    ASSUME IInv, Fresh, Registered
    PROVE  Outcome!Next
<1>1. /\ UNCHANGED <<handlerVars, ctxDone, connOf, wire, batch>>
      /\ mpc = "registering" /\ mpc' = "poll" /\ tcpConn' = cur
  BY DEF Registered
<1>2. cur \in Conns /\ tcpConn = 0 /\ \A l \in Leases : connOf[l] # cur
  BY <1>1 DEF IInv, ConnInv, Linked, Fresh, Serving
<1>3. [l \in Leases |-> PhaseOf(l)]' = [l \in Leases |-> PhaseOf(l)]
  BY <1>1, PhaseSame DEF handlerVars, Waiting
<1>4. /\ Learned' = Learned /\ lost' = lost
      /\ (mpc = "returned") = FALSE /\ (mpc' = "returned") = FALSE
  BY <1>1 DEF handlerVars, Learned, Told, Accepted
<1>5. Outcome!LinkUp(cur)
  BY <1>1, <1>2, <1>3, <1>4 DEF Outcome!LinkUp, Learned
<1> QED
  BY <1>2, <1>5 DEF Outcome!Next

\* A push brings leases that came on no link before.
LEMMA PushRefines ==
    ASSUME IInv, Fresh, Push
    PROVE  Outcome!Next
<1>1. PICK S \in SUBSET {l \in Leases : connOf[l] = 0} :
          /\ wire' = S
          /\ connOf' = [l \in Leases |-> IF l \in S THEN cur ELSE connOf[l]]
  BY DEF Push
<1>2. /\ mpc \in Serving /\ wire = {}
      /\ UNCHANGED <<handlerVars, ctxDone, mpc, tcpConn, batch>>
  BY DEF Push
<1>3. /\ pc \in [Leases -> PCs] /\ tcpConn = cur /\ cur \in Conns /\ 0 \notin Conns
      /\ \A l \in batch : connOf[l] = cur
      /\ \A l \in Leases : pc[l] # "idle" => connOf[l] \in Conns
      /\ connOf \in [Leases -> 0..MaxConns]
  BY <1>2, TcpAssumption DEF IInv, HandlerInv, HandlerTypeOK, TcpTypeOK, ConnInv, Linked, Pushed,
     Conns, TcpAssumption
<1>4. \A l \in S : PhaseOf(l) = "away" /\ PhaseOf(l)' = "held"
  <2>1. \A l \in S : /\ l \in Leases /\ pc[l] = "idle" /\ connOf[l] = 0 /\ l \notin Waiting
                     /\ pc'[l] = "idle" /\ l \in Waiting' /\ "idle" \in PCs
    BY <1>1, <1>2, <1>3 DEF Waiting, PCs, handlerVars
  <2> QED
    BY <2>1, PhaseIs, PhaseNext
<1>5. \A l \in Leases \ S : PhaseOf(l)' = PhaseOf(l)
  <2>1. \A l \in Leases \ S : /\ pc'[l] = pc[l] /\ connOf'[l] = connOf[l]
                              /\ l \in Waiting' <=> l \in Waiting
    BY <1>1, <1>2, <1>3 DEF Waiting, handlerVars
  <2> QED
    BY <2>1, PhaseSame
<1>6. Outcome!Move(S, "held") /\ S \subseteq Outcome!In("away")
  BY <1>4, <1>5, SeesMove DEF Outcome!In
<1>7. /\ Learned' = Learned /\ lost' = lost
      /\ (mpc' = "returned") = (mpc = "returned")
  BY <1>2 DEF handlerVars, Learned, Told, Accepted
<1>8. tcpConn # 0 /\ connOf' = [l \in Leases |-> IF l \in S THEN tcpConn ELSE connOf[l]]
  BY <1>1, <1>3
<1>9. Outcome!Push(S)
  BY <1>2, <1>6, <1>7, <1>8 DEF Outcome!Push, Learned
<1> QED
  BY <1>9 DEF Outcome!Next

\* A step of the main goroutine is one of the abstract client, or none.
LEMMA MainRefines ==
    ASSUME IInv, Fresh, MainStep, mpc # "returned"
    PROVE  Outcome!Next \/ UNCHANGED Outcome!vars
<1>1. CASE (Open \/ Pause) /\ mpc' = "returned"
  <2>1. /\ mpc \notin Serving /\ (ctxDone \/ mpc = "open")
        /\ UNCHANGED <<handlerVars, ctxDone, connOf, tcpConn, wire, batch>>
    BY <1>1 DEF Open, Pause, Serving
  <2> QED
    BY <1>1, <2>1, ReturnRefines
<1>2. CASE (Open \/ Pause) /\ mpc' # "returned"
  <2>1. UNCHANGED <<handlerVars, ctxDone, connOf, tcpConn, wire, batch>>
    BY <1>2 DEF Open, Pause
  <2> QED
    BY <1>2, <2>1, NotSeen DEF Waiting
<1>3. CASE Connect
  <2>1. UNCHANGED <<handlerVars, ctxDone, connOf, tcpConn, wire, batch>> /\ mpc' # "returned"
    BY <1>3 DEF Connect
  <2> QED
    BY <2>1, NotSeen DEF Waiting
<1>4. CASE Registered
  BY <1>4, RegisteredRefines
<1>5. CASE (Poll \/ Receive \/ Rejected) /\ Teardown
  BY <1>5, TeardownRefines DEF Poll, Receive, Rejected, Serving
<1>6. CASE (Poll \/ Receive \/ Rejected) /\ ~Teardown
  <2>1. /\ UNCHANGED <<handlerVars, ctxDone, connOf, tcpConn>> /\ mpc' # "returned"
        /\ \/ UNCHANGED <<wire, batch>>
           \/ mpc = "receive" /\ batch' = wire /\ wire' = {}
    BY <1>6 DEF Poll, Receive, Rejected
  <2>2. Waiting' = Waiting
    BY <2>1 DEF Waiting, Fresh
  <2> QED
    BY <2>1, <2>2, NotSeen
<1>7. CASE Dispatch
  BY <1>7, DispatchRefines
<1> QED
  BY <1>1, <1>2, <1>3, <1>4, <1>5, <1>6, <1>7 DEF MainStep

\* Goroutines of a connection, and its end, are not seen until the main goroutine
\* comes to them; nor is what a handler has not yet sent.
LEMMA HiddenRefines ==
    ASSUME mpc # "returned",
           \/ ReceiveOther \/ Closer \/ FirstHeartbeat \/ HeartbeatFails \/ HeartbeatCloses
           \/ HeartbeatStops \/ Break
           \/ \E l \in Leases : GrabConn(l) \/ SendError(l) \/ ProgressError(l)
    PROVE  UNCHANGED Outcome!vars
<1>1. UNCHANGED <<handlerVars, ctxDone, connOf, tcpConn, wire, batch>> /\ mpc' # "returned"
  BY DEF ReceiveOther, Closer, FirstHeartbeat, HeartbeatFails, HeartbeatCloses,
     HeartbeatStops, Break, GrabConn, SendError, ProgressError
<1> QED
  BY <1>1, NotSeen DEF Waiting

\* A handler on its way is seen when it reports.
LEMMA ReportRefines ==
    ASSUME IInv, mpc # "returned", NEW l \in Leases, NEW canReach \in BOOLEAN,
           \/ Report(l, "fail", "cleanFail", canReach, lost \cup {l})
           \/ Report(l, "panicFail", "slot", canReach, lost \cup {l}),
           UNCHANGED <<mpc, connOf, tcpConn, wire, batch>>
    PROVE  Outcome!Next
<1>1. /\ pc \in [Leases -> PCs] /\ pc[l] \in Live /\ pc'[l] \in Live
      /\ \A m \in Leases \ {l} : pc'[m] = pc[m]
      /\ UNCHANGED <<accepted, ctxDone>>
      /\ \/ failed' = failed \cup {l} /\ lost' = lost
         \/ failed' = failed /\ lost' = lost \cup {l}
  BY DEF IInv, HandlerInv, HandlerTypeOK, Report, Goto, Live, Running, Working, Leaving
<1>2. PhaseOf(l) = "running" /\ PhaseOf(l)' = "running"
  BY <1>1, PhaseIs, PhaseNext DEF PCs
<1>3. \A m \in Leases : PhaseOf(m)' = PhaseOf(m)
  BY <1>1, <1>2, PhaseSame DEF Waiting
<1>4. /\ [m \in Leases |-> PhaseOf(m)]' = [m \in Leases |-> PhaseOf(m)]
      /\ [m \in Leases |-> PhaseOf(m)][l] = "running"
      /\ (mpc = "returned") = FALSE /\ (mpc' = "returned") = FALSE
  BY <1>2, <1>3
<1>5. CASE failed' = failed \cup {l} /\ lost' = lost
  <2>1. Learned' = Learned \cup {l}
    BY <1>1, <1>5 DEF Learned, Told, Accepted
  <2>2. Outcome!Learn(l)
    BY <1>1, <1>4, <1>5, <2>1 DEF Outcome!Learn, Learned
  <2> QED
    BY <2>2 DEF Outcome!Next
<1>6. CASE failed' = failed /\ lost' = lost \cup {l}
  <2>1. Learned' = Learned
    BY <1>1, <1>6 DEF Learned, Told, Accepted
  <2>2. Outcome!Lose(l)
    BY <1>1, <1>4, <1>6, <2>1 DEF Outcome!Lose, Learned
  <2> QED
    BY <2>2 DEF Outcome!Next
<1> QED
  BY <1>1, <1>5, <1>6

\* It is over when it gives back its slot, and then the server knows or a call was
\* lost.
LEMMA ReleaseRefines ==
    ASSUME IInv, mpc # "returned", NEW l \in Leases, ReleaseSlot(l)
    PROVE  Outcome!Next
<1>1. /\ pc \in [Leases -> PCs] /\ pc[l] = "slot" /\ pc' = [pc EXCEPT ![l] = "ended"]
      /\ UNCHANGED <<failed, accepted, lost, ctxDone, mpc, connOf, tcpConn, wire, batch>>
  BY DEF IInv, HandlerInv, HandlerTypeOK, ReleaseSlot, Goto
<1>2. PhaseOf(l) = "running" /\ PhaseOf(l)' = "over"
  <2>1. "slot" \in Live /\ "ended" \in PCs /\ pc'[l] = "ended"
    BY <1>1 DEF Live, Leaving, PCs
  <2> QED
    BY <1>1, <2>1, PhaseIs, PhaseNext
<1>3. \A m \in Leases \ {l} : PhaseOf(m)' = PhaseOf(m)
  BY <1>1, PhaseSame DEF Waiting
<1>4. Outcome!Move({l}, "over")
  BY <1>2, <1>3, SeesMove
<1>5. l \in Learned \cup lost
  BY <1>1 DEF IInv, Reported, At, Learned
<1>6. /\ [m \in Leases |-> PhaseOf(m)][l] = "running" /\ Learned' = Learned
      /\ (mpc = "returned") = FALSE /\ (mpc' = "returned") = FALSE
  BY <1>1, <1>2 DEF Learned, Told, Accepted
<1>7. Outcome!Finish(l)
  BY <1>1, <1>4, <1>5, <1>6 DEF Outcome!Finish, Learned
<1> QED
  BY <1>7 DEF Outcome!Next

\* So a step of a handler is one of the abstract client, or none.
LEMMA GoroutineRefines ==
    ASSUME IInv, mpc # "returned", NEW l \in Leases, Goroutine(l)
    PROVE  Outcome!Next \/ UNCHANGED Outcome!vars
<1>1. CASE HandlerStep(l) /\ UNCHANGED tcpVars
  <2>1. /\ UNCHANGED <<failed, accepted, lost, ctxDone>>
    BY <1>1 DEF HandlerStep, Start, Setup, Work, Post, PostOk, PostError, Backoff, Clean, Leave
  <2>2. pc \in [Leases -> PCs] /\ Moves(l, Held)
    BY <1>1, HandlerMoves DEF IInv, HandlerInv, HandlerTypeOK
  <2>3. /\ pc[l] \in Live /\ pc'[l] \in Live /\ \A m \in Leases \ {l} : pc'[m] = pc[m]
    BY <2>2 DEF Moves, Held
  <2>4. PhaseOf(l)' = PhaseOf(l)
    BY <2>2, <2>3, PhaseIs, PhaseNext DEF PCs
  <2>5. \A m \in Leases : PhaseOf(m)' = PhaseOf(m)
    BY <1>1, <2>3, <2>4, PhaseSame DEF tcpVars, Waiting
  <2>6. Learned' = Learned
    BY <2>1 DEF Learned, Told, Accepted
  <2> QED
    BY <1>1, <2>1, <2>5, <2>6, SeesNothing DEF tcpVars
<1>2. CASE SendFailure(l)
  <2>1. PICK canReach \in BOOLEAN :
            \/ Report(l, "fail", "cleanFail", canReach, lost \cup {l})
            \/ Report(l, "panicFail", "slot", canReach, lost \cup {l})
    BY <1>2 DEF SendFailure
  <2>2. UNCHANGED <<mpc, connOf, tcpConn, wire, batch>>
    BY <1>2 DEF SendFailure
  <2> QED
    BY <2>1, <2>2, ReportRefines
<1>3. CASE SendErrorCloses(l)
  <2>1. UNCHANGED <<mpc, connOf, tcpConn, wire, batch>>
    BY <1>3 DEF SendErrorCloses
  <2>2. CASE \/ Report(l, "fail", "cleanFail", FALSE, lost \cup {l})
             \/ Report(l, "panicFail", "slot", FALSE, lost \cup {l})
    BY <2>1, <2>2, ReportRefines
  <2>3. CASE UNCHANGED <<handlerVars, ctxDone>>
    BY <2>1, <2>3, NotSeen DEF Waiting
  <2> QED
    BY <1>3, <2>2, <2>3 DEF SendErrorCloses
<1>4. CASE GrabConn(l) \/ SendError(l)
  BY <1>4, HiddenRefines
<1>5. CASE ReleaseSlot(l)
  BY <1>5, ReleaseRefines
<1> QED
  BY <1>1, <1>2, <1>3, <1>4, <1>5 DEF Goroutine

\* And so is what the server takes, also after the process is gone, the signal and
\* the clock.
LEMMA SurroundingsRefine ==
    ASSUME IInv, Fresh, UNCHANGED tcpVars,
           Cancel \/ \E l \in Leases : Deadline(l) \/ ServerAccepts(l)
    PROVE  Outcome!Next \/ UNCHANGED Outcome!vars
<1>1. UNCHANGED <<pc, failed, lost>>
  BY DEF Cancel, Deadline, ServerAccepts
<1>2. \A l \in Leases : PhaseOf(l)' = PhaseOf(l)
  BY <1>1, PhaseSame DEF tcpVars, Waiting
<1>3. /\ [l \in Leases |-> PhaseOf(l)]' = [l \in Leases |-> PhaseOf(l)]
      /\ (mpc' = "returned") = (mpc = "returned")
  BY <1>2 DEF tcpVars
<1>4. CASE Cancel
  <2>1. Learned' = Learned /\ ctxDone' = TRUE
    BY <1>4 DEF Cancel, Learned, Told, Accepted
  <2>2. Outcome!Cut
    BY <1>1, <1>3, <2>1 DEF Outcome!Cut, Learned, tcpVars
  <2> QED
    BY <2>2 DEF Outcome!Next
<1>5. ASSUME NEW l \in Leases, Deadline(l) PROVE UNCHANGED Outcome!vars
  <2>1. Learned' = Learned /\ ctxDone' = ctxDone
    BY <1>5 DEF Deadline, Learned, Told, Accepted
  <2> QED
    BY <1>1, <1>2, <2>1, SeesNothing DEF tcpVars
<1>6. ASSUME NEW l \in Leases, ServerAccepts(l) PROVE Outcome!Next
  <2>1. PICK n \in 1..MaxAttempts :
           <<l, n>> \in inflight /\ accepted' = accepted \cup {<<l, n>>}
    BY <1>6 DEF ServerAccepts
  <2>2. Learned' = Learned \cup {l}
    <3>1. \A m \in Leases : Accepted(m)' <=> Accepted(m) \/ m = l
      BY <2>1 DEF Accepted
    <3> QED
      BY <1>1, <3>1 DEF Learned, Told
  <2>3. pc[l] # "idle" /\ pc[l] \in PCs
    BY <2>1 DEF Fresh, IInv, HandlerInv, HandlerTypeOK
  <2>4. [m \in Leases |-> PhaseOf(m)][l] \in {"running", "over"}
    BY <2>3, PhaseIs DEF PCs
  <2>5. ctxDone' = ctxDone
    BY <1>6 DEF ServerAccepts
  <2>6. Outcome!Learn(l)
    BY <1>1, <1>3, <2>2, <2>4, <2>5 DEF Outcome!Learn, Learned, tcpVars
  <2> QED
    BY <2>6 DEF Outcome!Next
<1> QED
  BY <1>4, <1>5, <1>6

\* runTCP with its handlers implements the client of ChannelOutcome: every step is one
\* of its steps or is not seen, for any leases, slots, connections and attempts.
THEOREM KeepsPromise == Spec => Promise
<1>1. Init => Outcome!Init
  BY OutcomeInit
<1>2. IInv /\ Fresh /\ [Next]_vars => [Outcome!Next]_(Outcome!vars)
  <2> SUFFICES ASSUME IInv, Fresh, [Next]_vars
               PROVE  Outcome!Next \/ UNCHANGED Outcome!vars
    OBVIOUS
  <2>1. CASE UNCHANGED vars
    BY <2>1, NotSeen DEF vars, tcpVars, Waiting
  <2>2. CASE mpc # "returned" /\ (MainStep \/ Push)
    BY <2>2, MainRefines, PushRefines
  <2>3. CASE /\ mpc # "returned"
             /\ \/ ReceiveOther \/ Closer \/ FirstHeartbeat \/ HeartbeatFails
                \/ HeartbeatCloses \/ HeartbeatStops \/ Break
                \/ \E l \in Leases : ProgressError(l)
    BY <2>3, HiddenRefines
  <2>4. ASSUME mpc # "returned", NEW l \in Leases, Goroutine(l)
        PROVE  Outcome!Next \/ UNCHANGED Outcome!vars
    BY <2>4, GoroutineRefines
  <2>5. CASE /\ UNCHANGED tcpVars
             /\ Cancel \/ \E l \in Leases : Deadline(l) \/ ServerAccepts(l)
    BY <2>5, SurroundingsRefine
  <2> QED
    BY <2>1, <2>2, <2>3, <2>4, <2>5 DEF Next, Alive
<1>3. Init => IInv /\ Fresh
  BY InitInv, FreshInit
<1>4. (IInv /\ Fresh) /\ [Next]_vars => (IInv /\ Fresh)'
  BY NextInv, FreshNext
<1> QED
  BY <1>1, <1>2, <1>3, <1>4, PTL DEF Spec, Promise, Outcome!Spec

\* The client that ChannelOutcome describes is one that a server can rely on.
LEMMA PromiseIsReliable == Outcome!Spec => []Outcome!Reliable
<1>1. Outcome!Init => Outcome!Reliable
  BY DEF Outcome!Init, Outcome!Reliable
<1>2. Outcome!Reliable /\ [Outcome!Next]_(Outcome!vars) => Outcome!Reliable'
  <2> SUFFICES ASSUME Outcome!Reliable, [Outcome!Next]_(Outcome!vars)
               PROVE  Outcome!Reliable'
    OBVIOUS
  <2>1. CASE \E c \in Conns : Outcome!LinkUp(c)
    BY <2>1 DEF Outcome!LinkUp, Outcome!Reliable
  <2>2. CASE Outcome!LinkDown
    BY <2>2 DEF Outcome!LinkDown, Outcome!Move, Outcome!In, Outcome!Reliable
  <2>3. CASE \E S \in SUBSET Leases : Outcome!Push(S)
    BY <2>3 DEF Outcome!Push, Outcome!Move, Outcome!In, Outcome!Reliable
  <2>4. CASE \E l \in Leases : Outcome!Run(l) \/ Outcome!Finish(l)
    BY <2>4 DEF Outcome!Run, Outcome!Finish, Outcome!Move, Outcome!Reliable
  <2>5. CASE \/ \E l \in Leases : Outcome!Learn(l) \/ Outcome!Lose(l)
             \/ Outcome!Cut \/ Outcome!Stop \/ UNCHANGED Outcome!vars
    BY <2>5 DEF Outcome!Learn, Outcome!Lose, Outcome!Cut, Outcome!Stop, Outcome!vars,
                Outcome!Reliable
  <2> QED
    BY <2>1, <2>2, <2>3, <2>4, <2>5 DEF Outcome!Next
<1> QED
  BY <1>1, <1>2, PTL DEF Outcome!Spec

\* So whoever knows only ChannelOutcome may rely on runTCP: a lease is over in silence
\* only if a call was lost, and one that was dropped with its connection is never
\* answered.
THEOREM ReliableHolds == Spec => []Outcome!Reliable
  BY KeepsPromise, PromiseIsReliable, PTL DEF Promise
=============================================================================
