----------------------------- MODULE TaskOutcome -----------------------------
(***************************************************************************)
(* What the client promises the server about each lease, without how: a    *)
(* lease is handed out, run by at most one handler, with at most Capacity   *)
(* running at once, and over; it is over only when the server has learned   *)
(* an outcome, or may be over in silence because the client is shutting     *)
(* down or because something was excused: a deadline or a lost call.        *)
(* HttpWorker implements it (HttpWorker!Promise).                           *)
(***************************************************************************)
EXTENDS Integers, FiniteSets

CONSTANTS Leases, Capacity

VARIABLES
    phase,     \* "away", "held", "running" or "over", for each lease
    told,      \* leases of which the server has learned an outcome
    excused,   \* leases that met a deadline or a lost call
    cut,       \* the client has been asked to stop
    stopped    \* the client has stopped

vars == <<phase, told, excused, cut, stopped>>

In(p) == {l \in Leases : phase[l] = p}
Move(S, p) == phase' = [l \in Leases |-> IF l \in S THEN p ELSE phase[l]]

Init == /\ phase = [l \in Leases |-> "away"]
        /\ told = {} /\ excused = {} /\ cut = FALSE /\ stopped = FALSE

\* Leases are handed out, or are lost on their way to the client.
Hand(S) ==
    /\ S \subseteq In("away") /\ ~stopped
    /\ \/ Move(S, "held") /\ UNCHANGED excused
       \/ Move(S, "over") /\ excused' = excused \cup S
    /\ UNCHANGED <<told, cut, stopped>>

Run(l) ==
    /\ phase[l] = "held" /\ ~stopped
    /\ Cardinality(In("running")) < Capacity
    /\ Move({l}, "running")
    /\ UNCHANGED <<told, excused, cut, stopped>>

\* The server learns an outcome of a lease that was run, perhaps late.
Learn(l) ==
    /\ phase[l] \in {"running", "over"}
    /\ told' = told \cup {l}
    /\ UNCHANGED <<phase, excused, cut, stopped>>

Excuse(l) ==
    /\ phase[l] = "running"
    /\ excused' = excused \cup {l}
    /\ UNCHANGED <<phase, told, cut, stopped>>

Finish(l) ==
    /\ phase[l] = "running"
    /\ l \in told \cup excused \/ cut
    /\ Move({l}, "over")
    /\ UNCHANGED <<told, excused, cut, stopped>>

\* A panic is reported and over in one step.
LearnAndFinish(l) ==
    /\ phase[l] = "running"
    /\ \/ told' = told \cup {l} /\ UNCHANGED excused
       \/ excused' = excused \cup {l} /\ UNCHANGED told
    /\ Move({l}, "over")
    /\ UNCHANGED <<cut, stopped>>

Cut == cut' = TRUE /\ UNCHANGED <<phase, told, excused, stopped>>

\* Leases that were not started are given up, only when asked to stop.
Drop == cut /\ Move(In("held"), "over") /\ UNCHANGED <<told, excused, cut, stopped>>

Stop == /\ In("running") = {} /\ stopped' = TRUE
        /\ UNCHANGED <<phase, told, excused, cut>>

Next == \/ \E S \in SUBSET Leases : Hand(S)
        \/ \E l \in Leases : \/ Run(l) \/ Learn(l) \/ Excuse(l) \/ Finish(l)
                             \/ LearnAndFinish(l)
        \/ Cut \/ Drop \/ Stop

Spec == Init /\ [][Next]_vars

\* What a reader may rely on: no lease is over in silence without an excuse.
NeverSilent == \A l \in Leases :
    phase[l] = "over" => l \in told \cup excused \/ cut
=============================================================================
