---------------------------- MODULE RunningClock ----------------------------
(***************************************************************************)
(* What the SLA machinery promises of a lead, with nothing said of how:    *)
(* at most one clock runs for it, against one owner who does not change    *)
(* while the clock runs, and a clock that has stopped never runs again.    *)
(***************************************************************************)
CONSTANTS
    Leads,    \* lead ids
    SlaIds,   \* clock ids
    Owners,   \* those a clock can run against
    NULL      \* no clock

VARIABLES
    running,  \* the clock of each lead and its owner, or NULL
    spent     \* the clocks that have ever run

vars == <<running, spent>>

TypeOK ==
    /\ running \in [Leads -> [id : SlaIds, owner : Owners] \cup {NULL}]
    /\ spent \subseteq SlaIds

Init ==
    /\ running = [l \in Leads |-> NULL]
    /\ spent = {}

\* A clock starts, in the place of the one that ran before, if any.
Start(l, c, m) ==
    /\ c \notin spent
    /\ running' = [running EXCEPT ![l] = [id |-> c, owner |-> m]]
    /\ spent' = spent \cup {c}

Stop(l) ==
    /\ running' = [running EXCEPT ![l] = NULL]
    /\ UNCHANGED spent

Next ==
    \E l \in Leads :
        \/ \E c \in SlaIds, m \in Owners : Start(l, c, m)
        \/ Stop(l)

Spec == Init /\ [][Next]_vars
=============================================================================
