----------------------------- MODULE MCLeadSla -----------------------------
EXTENDS LeadSlaRefines, TLC
CONSTANTS m1, m2
AnyCreator == [l \in Leads |-> NULL]
OneCreator == [l \in Leads |-> m1]
Sym == Permutations(SlaIds) \cup Permutations(Workers) \cup Permutations(Leads)

\* The liveness run leaves out the requests that only rewrite the row.
LiveNext ==
    \/ \E l \in Leads :
          \/ \E m \in Salesmen : CreateAssigned(l, FALSE, m)
          \/ \E st \in Stages : ChangeStage(l, st)
          \/ ScheduleUnassigned(l)
          \/ \E m \in Person : AssignManually(l, m)
    \/ \E s \in SlaIds : Enqueue(s) \/ LoseCallback(s)
    \/ \E w \in Workers, s \in SlaIds : Deliver(w, s)
    \/ \E w \in Workers : Process(w) \/ Abort(w)
LiveSpec == Init /\ [][LiveNext]_vars /\ Fairness
=============================================================================
