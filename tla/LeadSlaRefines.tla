--------------------------- MODULE LeadSlaRefines ---------------------------
(***************************************************************************)
(* The clocks of LeadSla implement RunningClock: the clock of a lead is    *)
(* its ACTIVE instance, the clocks that have run are the rows ever created.*)
(***************************************************************************)
EXTENDS LeadSla

RunningOf(S, l) ==
    IF ActiveOf(S, l) = {} THEN NULL
    ELSE LET s == CHOOSE s \in ActiveOf(S, l) : TRUE
         IN [id |-> s, owner |-> S[s].owner]

Promise == INSTANCE RunningClock
              WITH Owners <- Person,
                   running <- [l \in Leads |-> RunningOf(sla, l)],
                   spent <- {s \in SlaIds : sla[s].status # "UNUSED"}

\* Whatever happens to a lead, one clock at most runs for it, its owner does not
\* change while it runs, and a closed SLAInstance row is never run again
\* (SLAService.open_instance, and every update of SLAInstance.status).
ClocksKeepPromise == Promise!Spec
=============================================================================
