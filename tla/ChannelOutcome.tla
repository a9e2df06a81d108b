---------------------------- MODULE ChannelOutcome ----------------------------
(***************************************************************************)
(* What the client promises a server that pushes leases over a channel,    *)
(* without how.  A lease belongs to the link that brought it.  It is        *)
(* started only while that link is up, with at most Capacity of the link's  *)
(* running at once, whatever the server pushes; from then on it does not    *)
(* depend on the link, and it is over only when the server has learned an   *)
(* outcome or a call was lost: neither a deadline nor a shutdown excuses    *)
(* it.  A lease that was not started when its link went is dropped for      *)
(* good, and the server learns nothing of it.                               *)
(* TcpWorker implements it (TcpWorker!Promise).                             *)
(***************************************************************************)
EXTENDS Integers, FiniteSets

CONSTANTS Leases, Links, Capacity

VARIABLES
    phase,     \* "away", "held", "running", "over" or "dropped", for each lease
    via,       \* the link that brought it (0: none yet)
    link,      \* the link that is up (0: none)
    told,      \* leases of which the server has learned an outcome
    lost,      \* leases one of whose calls was lost
    cut,       \* the client has been asked to stop
    stopped    \* the client has stopped

vars == <<phase, via, link, told, lost, cut, stopped>>

In(p) == {l \in Leases : phase[l] = p}
Move(S, p) == phase' = [l \in Leases |-> IF l \in S THEN p ELSE phase[l]]

Init == /\ phase = [l \in Leases |-> "away"] /\ via = [l \in Leases |-> 0]
        /\ link = 0 /\ told = {} /\ lost = {}
        /\ cut = FALSE /\ stopped = FALSE

\* A link that has brought nothing comes up.
LinkUp(c) ==
    /\ link = 0 /\ ~stopped
    /\ \A l \in Leases : via[l] # c
    /\ link' = c
    /\ UNCHANGED <<phase, via, told, lost, cut, stopped>>

\* It goes, and with it what was not started.
LinkDown ==
    /\ link # 0 /\ link' = 0
    /\ Move(In("held"), "dropped")
    /\ UNCHANGED <<via, told, lost, cut, stopped>>

Push(S) ==
    /\ link # 0 /\ S \subseteq In("away")
    /\ Move(S, "held")
    /\ via' = [l \in Leases |-> IF l \in S THEN link ELSE via[l]]
    /\ UNCHANGED <<link, told, lost, cut, stopped>>

Run(l) ==
    /\ phase[l] = "held" /\ via[l] = link
    /\ Cardinality({m \in In("running") : via[m] = link}) < Capacity
    /\ Move({l}, "running")
    /\ UNCHANGED <<via, link, told, lost, cut, stopped>>

\* The server learns an outcome of a lease that was run, perhaps late.
Learn(l) ==
    /\ phase[l] \in {"running", "over"}
    /\ told' = told \cup {l}
    /\ UNCHANGED <<phase, via, link, lost, cut, stopped>>

Lose(l) ==
    /\ phase[l] = "running" /\ ~stopped
    /\ lost' = lost \cup {l}
    /\ UNCHANGED <<phase, via, link, told, cut, stopped>>

Finish(l) ==
    /\ phase[l] = "running" /\ ~stopped
    /\ l \in told \cup lost
    /\ Move({l}, "over")
    /\ UNCHANGED <<via, link, told, lost, cut, stopped>>

Cut == cut' = TRUE /\ UNCHANGED <<phase, via, link, told, lost, stopped>>

\* The client stops when it was asked to, or before its first link.  What runs
\* then is cut short.
Stop ==
    /\ link = 0
    /\ cut \/ \A l \in Leases : via[l] = 0
    /\ stopped' = TRUE
    /\ UNCHANGED <<phase, via, link, told, lost, cut>>

Next == \/ \E c \in Links : LinkUp(c)
        \/ LinkDown
        \/ \E S \in SUBSET Leases : Push(S)
        \/ \E l \in Leases : Run(l) \/ Learn(l) \/ Lose(l) \/ Finish(l)
        \/ Cut \/ Stop

Spec == Init /\ [][Next]_vars

\* What a reader may rely on: no lease is over in silence unless a call was lost;
\* one that was dropped is never answered, so that the server may hand it out
\* again; and what waits to be started waits for the link that is up.
Reliable == \A l \in Leases :
    /\ phase[l] = "over" => l \in told \cup lost
    /\ phase[l] \in {"away", "held", "dropped"} => l \notin told
    /\ phase[l] = "held" => link # 0 /\ via[l] = link
=============================================================================
