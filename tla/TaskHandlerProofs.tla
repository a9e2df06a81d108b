-------------------------- MODULE TaskHandlerProofs --------------------------
(***************************************************************************)
(* What every step of a handler preserves, whichever worker runs it.  The   *)
(* type invariant is not inductive alone: that attempt stays below          *)
(* MaxAttempts depends on where the handler is.                             *)
(***************************************************************************)
EXTENDS TaskHandler, TLAPS

\* A handler that may still post has an attempt left; one that has not finished
\* Process has made none.
AttemptsLeft ==
    \A l \in Leases :
        /\ pc[l] \in {"idle", "spawned", "setup", "work", "unwind", "panicFail"}
               => attempt[l] = 0
        /\ pc[l] \in {"upload", "backoff"} => attempt[l] < MaxAttempts

HandlerInv == HandlerTypeOK /\ AttemptsLeft

\* Where a step of the goroutine of l that is not its last may leave from and
\* lead to: it stays within Live, and holds its slot throughout.
Moves(l, places) ==
    pc[l] \in places /\ \E p \in places : pc' = [pc EXCEPT ![l] = p]

Held == Live \ {"wg"}

-----------------------------------------------------------------------------
\* The initial state satisfies the invariant.
LEMMA HandlerInitInv == HandlerInit => HandlerInv
<1> SUFFICES ASSUME HandlerInit PROVE HandlerInv
  OBVIOUS
<1>1. pc \in [Leases -> PCs]
  BY DEF HandlerInit, PCs
<1>2. 0 \in 0..MaxAttempts /\ 0 < MaxAttempts
  BY HandlerAssumption DEF HandlerAssumption
<1>3. HandlerTypeOK
  BY <1>1, <1>2 DEF HandlerInit, HandlerTypeOK
<1>4. AttemptsLeft
  BY DEF HandlerInit, AttemptsLeft
<1> QED
  BY <1>3, <1>4 DEF HandlerInv

\* Each step that handlers share preserves the invariant.
LEMMA HandlerStepInv ==
    ASSUME NEW l \in Leases, HandlerInv, HandlerStep(l)
    PROVE  HandlerInv'
<1> USE HandlerAssumption
    DEF HandlerAssumption, HandlerInv, HandlerTypeOK, AttemptsLeft, Goto, PCs, Live, Running,
        Working, Leaving
<1>1. CASE Start(l)
  BY <1>1 DEF Start
<1>2. CASE Setup(l)
  BY <1>2 DEF Setup
<1>3. CASE Work(l)
  BY <1>3 DEF Work
<1>4. CASE Post(l)
  <2>1. CASE CanPost(l)
    BY <1>4, <2>1 DEF Post
  <2>2. CASE ~CanPost(l)
    <3>1. AfterError(l) \in {"fail", "backoff"}
      BY DEF AfterError
    <3>2. AfterError(l) = "backoff" => attempt'[l] # MaxAttempts
      BY DEF AfterError
    <3> QED
      BY <1>4, <2>2, <3>1, <3>2 DEF Post
  <2> QED
    BY <2>1, <2>2
<1>5. CASE PostOk(l)
  BY <1>5 DEF PostOk
<1>6. CASE PostError(l)
  <2>1. AfterError(l) \in {"fail", "backoff"}
    BY DEF AfterError
  <2>2. AfterError(l) = "backoff" => attempt'[l] # MaxAttempts
    BY DEF AfterError
  <2> QED
    BY <1>6, <2>1, <2>2 DEF PostError
<1>7. CASE Backoff(l)
  BY <1>7 DEF Backoff
<1>8. CASE Clean(l)
  BY <1>8 DEF Clean
<1>9. CASE Leave(l)
  BY <1>9 DEF Leave
<1> QED
  BY HandlerStep(l), <1>1, <1>2, <1>3, <1>4, <1>5, <1>6, <1>7, <1>8, <1>9
  DEF HandlerStep

\* So does a failure report, on either path.
LEMMA ReportInv ==
    ASSUME NEW l \in Leases, NEW canReach \in BOOLEAN, NEW missed,
           missed \subseteq Leases, HandlerInv,
           \/ Report(l, "fail", "cleanFail", canReach, missed)
           \/ Report(l, "panicFail", "slot", canReach, missed)
    PROVE  HandlerInv'
  BY DEF Report, HandlerInv, HandlerTypeOK, AttemptsLeft, Goto, PCs, Live,
         Running, Working, Leaving

\* So do the deadline, the server and the signal.
LEMMA HandlerEnvInv ==
    ASSUME HandlerInv, Cancel \/ \E l \in Leases : HandlerEnv(l)
    PROVE  HandlerInv'
<1> USE HandlerAssumption DEF HandlerAssumption, HandlerInv, HandlerTypeOK, AttemptsLeft
<1>1. CASE Cancel
  BY <1>1 DEF Cancel
<1>2. ASSUME NEW l \in Leases, Deadline(l) PROVE HandlerInv'
  BY <1>2 DEF Deadline
<1>3. ASSUME NEW l \in Leases, ServerAccepts(l) PROVE HandlerInv'
  BY <1>3 DEF ServerAccepts
<1> QED
  BY <1>1, <1>2, <1>3 DEF HandlerEnv

\* The goroutine keeps its slot through every step that handlers share.
LEMMA HandlerMoves ==
    ASSUME NEW l \in Leases, HandlerInv, HandlerStep(l)
    PROVE  Moves(l, Held)
<1>1. AfterError(l) \in Held
  BY DEF AfterError, Held, Live, Running, Working
<1> QED
  BY <1>1 DEF HandlerStep, Start, Setup, Work, Post, PostOk, PostError, Backoff,
      Clean, Leave, Goto, Moves, Held, Live, Running, Working, Leaving

\* And through its report.
LEMMA ReportMoves ==
    ASSUME NEW l \in Leases, NEW canReach, NEW missed,
           \/ Report(l, "fail", "cleanFail", canReach, missed)
           \/ Report(l, "panicFail", "slot", canReach, missed)
    PROVE  Moves(l, Held)
  BY DEF Report, Goto, Moves, Held, Live, Running, Working, Leaving

\* The set of leases at a set of places changes by the one that moves.
LEMMA MoveAt ==
    ASSUME NEW l \in Leases, NEW p, NEW places, pc \in [Leases -> PCs],
           pc' = [pc EXCEPT ![l] = p]
    PROVE  /\ p \in places => At(places)' = At(places) \cup {l}
           /\ p \notin places => At(places)' = At(places) \ {l}
  BY DEF At

\* It does not change when the move is within those places.
LEMMA MovesAt ==
    ASSUME NEW l \in Leases, NEW inner, NEW places, inner \subseteq places,
           pc \in [Leases -> PCs], Moves(l, inner)
    PROVE  At(places)' = At(places)
  BY DEF At, Moves
=============================================================================
