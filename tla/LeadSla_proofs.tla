--------------------------- MODULE LeadSla_proofs ---------------------------
(***************************************************************************)
(* Proofs about LeadSla for every set of leads, salesmen, instances,       *)
(* workers and web processes and every choice of the policies; the last    *)
(* part shows that its clocks implement RunningClock.                      *)
(***************************************************************************)
EXTENDS LeadSlaRefines, TLAPS

\* Beside the types: a created instance belongs to a lead, and what a run of
\* the task holds is a created instance.
RowsHaveLead ==
    \A s \in SlaIds : sla[s].status # "UNUSED" => sla[s].lead \in Leads
RunsHoldRows ==
    \A w \in Workers : worker[w] # Idle =>
        /\ worker[w].sla \in SlaIds
        /\ sla[worker[w].sla].status # "UNUSED"
TypeInv == TypeOK /\ RowsHaveLead /\ RunsHoldRows

-----------------------------------------------------------------------------
(***************************************************************************)
(* The services keep the types, on any rows L and S of a transaction.      *)
(***************************************************************************)

\* Used rows stay used, and a row that becomes used belongs to l.
Grows(S, l) ==
    \A s \in SlaIds :
        /\ S[s].status # "UNUSED" =>
              sla'[s].status # "UNUSED" /\ sla'[s].lead = S[s].lead
        /\ S[s].status = "UNUSED" /\ sla'[s].status # "UNUSED" =>
              sla'[s].lead = l

LEMMA EndedType ==
    ASSUME NEW S \in [SlaIds -> SlaRow], NEW l \in Leads, NEW status \in Closed
    PROVE  Ended(S, l, status) \in [SlaIds -> SlaRow]
  BY DEF Ended, SlaRow, Closed

LEMMA EndedAt ==
    ASSUME NEW S \in [SlaIds -> SlaRow], NEW l \in Leads, NEW status \in Closed,
           NEW s \in SlaIds
    PROVE  /\ Ended(S, l, status)[s].lead = S[s].lead
           /\ Ended(S, l, status)[s].owner = S[s].owner
           /\ s \in ActiveOf(S, l) => Ended(S, l, status)[s].status = status
           /\ s \notin ActiveOf(S, l) => Ended(S, l, status)[s] = S[s]
  BY DEF Ended, SlaRow

LEMMA OpenedType ==
    ASSUME NEW S \in [SlaIds -> SlaRow], NEW l \in Leads, NEW m \in Person,
           NEW c \in Clock
    PROVE  Opened(S, l, m, c) \in [SlaIds -> SlaRow]
  <1>1. "COMPLETED" \in Closed BY DEF Closed
  <1>2. Ended(S, l, "COMPLETED") \in [SlaIds -> SlaRow] BY <1>1, EndedType
  <1>3. [lead |-> l, owner |-> m, status |-> "ACTIVE"] \in SlaRow BY DEF SlaRow
  <1> QED BY <1>2, <1>3 DEF Opened

LEMMA OpenedAt ==
    ASSUME NEW S \in [SlaIds -> SlaRow], NEW l \in Leads, NEW m \in Person,
           NEW c \in SlaIds
    PROVE  Opened(S, l, m, c)[c] = [lead |-> l, owner |-> m, status |-> "ACTIVE"]
  BY DEF Opened

LEMMA OpenedElsewhere ==
    ASSUME NEW S \in [SlaIds -> SlaRow], NEW l \in Leads, NEW m \in Person,
           NEW c \in Clock, NEW s \in SlaIds, s # c
    PROVE  /\ Opened(S, l, m, c)[s].lead = S[s].lead
           /\ Opened(S, l, m, c)[s].owner = S[s].owner
           /\ s \in ActiveOf(S, l) => Opened(S, l, m, c)[s].status = "COMPLETED"
           /\ s \notin ActiveOf(S, l) => Opened(S, l, m, c)[s] = S[s]
  <1>1. "COMPLETED" \in Closed BY DEF Closed
  <1>2. Opened(S, l, m, c)[s] = Ended(S, l, "COMPLETED")[s] BY DEF Opened
  <1> QED BY <1>1, <1>2, EndedAt

LEMMA OpenInstanceType ==
    ASSUME TypeOK, NEW S \in [SlaIds -> SlaRow], NEW l \in Leads,
           NEW m \in Person, NEW c \in Clock,
           c = NULL \/ S[c].status = "UNUSED",
           open_instance(S, l, m, c)
    PROVE  /\ sla' \in [SlaIds -> SlaRow]
           /\ task' \in [SlaIds -> {"none", "unsent", "queued", "lost"}]
           /\ Grows(S, l)
  <1>1. sla' = Opened(S, l, m, c) BY DEF open_instance
  <1>2. sla' \in [SlaIds -> SlaRow] BY <1>1, OpenedType
  <1>3. task' \in [SlaIds -> {"none", "unsent", "queued", "lost"}]
    BY DEF open_instance, TypeOK
  <1>4. Grows(S, l)
    <2> SUFFICES ASSUME NEW s \in SlaIds
                 PROVE /\ S[s].status # "UNUSED" =>
                            /\ sla'[s].status # "UNUSED"
                            /\ sla'[s].lead = S[s].lead
                       /\ S[s].status = "UNUSED" /\ sla'[s].status # "UNUSED"
                            => sla'[s].lead = l
      BY DEF Grows
    <2>1. CASE s = c
      <3>1. S[s].status = "UNUSED" BY <2>1, NullIsNoId
      <3>2. sla'[s] = [lead |-> l, owner |-> m, status |-> "ACTIVE"]
        BY <1>1, <2>1, OpenedAt
      <3> QED BY <3>1, <3>2
    <2>2. CASE s # c
      <3>1. /\ sla'[s].lead = S[s].lead
            /\ s \in ActiveOf(S, l) => sla'[s].status = "COMPLETED"
            /\ s \notin ActiveOf(S, l) => sla'[s] = S[s]
        BY <1>1, <2>2, OpenedElsewhere
      <3>2. s \in ActiveOf(S, l) => S[s].status = "ACTIVE" BY DEF ActiveOf
      <3> QED BY <3>1, <3>2
    <2> QED BY <2>1, <2>2
  <1> QED BY <1>2, <1>3, <1>4

LEMMA AssignType ==
    ASSUME TypeOK, NEW l \in Leads, NEW m \in Person,
           NEW L \in [Leads -> LeadRow], NEW S \in [SlaIds -> SlaRow],
           \A s \in SlaIds : sla[s].status = "UNUSED" => S[s] = sla[s],
           Assign(L, S, l, m)
    PROVE  /\ lead' \in [Leads -> LeadRow]
           /\ sla' \in [SlaIds -> SlaRow]
           /\ task' \in [SlaIds -> {"none", "unsent", "queued", "lost"}]
           /\ escalated' \subseteq Leads
           /\ detached' \subseteq Leads
           /\ Grows(S, l)
  <1>1. PICK c \in NewClock("FRESH") :
          /\ lead' = [L EXCEPT ![l] =
                [@ EXCEPT !.stage = "FRESH", !.salesman = m, !.deadline = c]]
          /\ open_instance(S, l, m, c)
    BY DEF Assign
  <1>2. c \in Clock /\ (c = NULL \/ S[c].status = "UNUSED")
    BY DEF NewClock, Clock
  <1>3. lead' \in [Leads -> LeadRow] BY <1>1, <1>2, Policies DEF LeadRow
  <1>4. escalated' \subseteq Leads /\ detached' \subseteq Leads
    BY DEF Assign, TypeOK
  <1> QED BY <1>1, <1>2, <1>3, <1>4, OpenInstanceType

LEMMA DistributeType ==
    ASSUME TypeOK, NEW l \in Leads, NEW seen \in Person,
           NEW L \in [Leads -> LeadRow], NEW S \in [SlaIds -> SlaRow],
           NEW D \in SUBSET Leads,
           \A s \in SlaIds : sla[s].status = "UNUSED" => S[s] = sla[s],
           Distribute(L, S, l, seen, D)
    PROVE  /\ lead' \in [Leads -> LeadRow]
           /\ sla' \in [SlaIds -> SlaRow]
           /\ task' \in [SlaIds -> {"none", "unsent", "queued", "lost"}]
           /\ escalated' \subseteq Leads
           /\ detached' \subseteq Leads
           /\ Grows(S, l)
  <1>1. CASE Escalate(L, S, l, D)
    BY <1>1 DEF Escalate, TypeOK, Grows
  <1>2. CASE \E pool \in Pools : \E m \in Chosen(pool, seen) : Assign(L, S, l, m)
    <2>1. PICK pool \in Pools : \E m \in Chosen(pool, seen) : Assign(L, S, l, m)
      BY <1>2
    <2>3. PICK m \in Chosen(pool, seen) : Assign(L, S, l, m) BY <2>1
    <2>2. m \in Person BY DEF Chosen, Candidates, Pools, Person
    <2> QED BY <2>3, <2>2, AssignType
  <1> QED BY <1>1, <1>2 DEF Distribute

LEMMA ChangeStageType ==
    ASSUME TypeOK, NEW l \in Leads, NEW st \in Stages,
           NEW L \in [Leads -> LeadRow], change_stage(L, l, st)
    PROVE  /\ lead' \in [Leads -> LeadRow]
           /\ sla' \in [SlaIds -> SlaRow]
           /\ task' \in [SlaIds -> {"none", "unsent", "queued", "lost"}]
           /\ escalated' \subseteq Leads
           /\ detached' \subseteq Leads
           /\ Grows(sla, l)
  <1>1. CASE st = "NOT_INTERESTED" \/ Kept(l, L[l])
    <2>1. /\ lead' = [L EXCEPT ![l] =
                [@ EXCEPT !.stage = st, !.deadline = NULL,
                          !.active = L[l].active /\ st # "NOT_INTERESTED"]]
          /\ sla' = Ended(sla, l, "CANCELLED")
          /\ UNCHANGED task
      BY <1>1 DEF change_stage
    <2>2. "CANCELLED" \in Closed BY DEF Closed
    <2>3. lead' \in [Leads -> LeadRow] BY <2>1 DEF LeadRow, Clock
    <2>4. sla' \in [SlaIds -> SlaRow] /\ Grows(sla, l)
      BY <2>1, <2>2, EndedType, EndedAt DEF TypeOK, Grows, ActiveOf
    <2> QED BY <2>1, <2>3, <2>4 DEF change_stage, TypeOK
  <1>2. CASE ~(st = "NOT_INTERESTED" \/ Kept(l, L[l]))
    <2>1. PICK c \in NewClock(st) :
            /\ lead' = [L EXCEPT ![l] = [@ EXCEPT !.stage = st, !.deadline = c]]
            /\ open_instance(sla, l, L[l].salesman, c)
      BY <1>2 DEF change_stage
    <2>2. c \in Clock /\ (c = NULL \/ sla[c].status = "UNUSED")
      BY DEF NewClock, Clock
    <2>3. lead' \in [Leads -> LeadRow] BY <2>1, <2>2 DEF LeadRow
    <2>4. L[l].salesman \in Person BY DEF LeadRow
    <2> QED BY <2>1, <2>2, <2>3, <2>4, OpenInstanceType DEF change_stage, TypeOK
  <1> QED BY <1>1, <1>2

-----------------------------------------------------------------------------
(***************************************************************************)
(* Type correctness.                                                       *)
(***************************************************************************)

\* A row S of the transaction that only closes rows of sla, grown by a service
\* for lead l, gives every created instance a lead and keeps what runs hold.
LEMMA GrowsKeepsRows ==
    ASSUME TypeInv, NEW l \in Leads, NEW S \in [SlaIds -> SlaRow],
           \A s \in SlaIds : /\ S[s].lead = sla[s].lead
                             /\ S[s].status = "UNUSED" <=> sla[s].status = "UNUSED",
           Grows(S, l)
    PROVE  RowsHaveLead' /\ (UNCHANGED worker => RunsHoldRows')
  <1>1. ASSUME NEW s \in SlaIds, sla'[s].status # "UNUSED"
        PROVE  sla'[s].lead \in Leads
    BY <1>1 DEF Grows, TypeInv, RowsHaveLead
  <1>2. ASSUME UNCHANGED worker, NEW w \in Workers, worker'[w] # Idle
        PROVE  worker'[w].sla \in SlaIds /\ sla'[worker'[w].sla].status # "UNUSED"
    BY <1>2 DEF Grows, TypeInv, RunsHoldRows
  <1> QED BY <1>1, <1>2 DEF RowsHaveLead, RunsHoldRows

LEMMA TypeInit == Init => TypeInv
  <1> SUFFICES ASSUME Init PROVE TypeInv OBVIOUS
  <1>1. Absent \in LeadRow BY DEF Absent, LeadRow, Person, Clock
  <1>2. Unused \in SlaRow BY DEF Unused, SlaRow, Person
  <1>3. Idle \in Run BY DEF Idle, Run, Person, Clock
  <1>4. TypeOK BY <1>1, <1>2, <1>3 DEF Init, TypeOK
  <1>5. RowsHaveLead BY DEF Init, RowsHaveLead, Unused
  <1>6. RunsHoldRows BY DEF Init, RunsHoldRows
  <1> QED BY <1>4, <1>5, <1>6 DEF TypeInv

\* A new row written by the creation service has the type of a row.
LEMMA NewRowType ==
    ASSUME NEW own \in BOOLEAN, NEW m \in Person, NEW c \in Clock
    PROVE  NewRow(own, m, c) \in LeadRow
  BY Policies DEF NewRow, LeadRow

LEMMA SourcesType == \A l \in Leads : Sources(l) \subseteq BOOLEAN
  BY DEF Sources

LEMMA TypeStep == TypeInv /\ [Next]_vars => TypeInv'
  <1> SUFFICES ASSUME TypeInv, [Next]_vars PROVE TypeInv' OBVIOUS
  <1> USE DEF TypeInv
  <1>1. ASSUME NEW l \in Leads, NEW own \in Sources(l), NEW m \in Salesmen,
               CreateAssigned(l, own, m)
        PROVE  TypeInv'
    <2>0. own \in BOOLEAN /\ m \in Person BY SourcesType DEF Person
    <2>1. CASE Kept(l, NewRow(own, m, NULL))
      <3>1. NewRow(own, m, NULL) \in LeadRow BY <2>0, NewRowType DEF Clock
      <3>2. lead' \in [Leads -> LeadRow]
        BY <1>1, <2>1, <3>1 DEF CreateAssigned, TypeOK
      <3> QED BY <1>1, <2>1, <3>2 DEF CreateAssigned, TypeOK, RowsHaveLead, RunsHoldRows
    <2>2. CASE ~Kept(l, NewRow(own, m, NULL))
      <3>1. PICK c \in NewClock("FRESH") :
              /\ lead' = [lead EXCEPT ![l] = NewRow(own, m, c)]
              /\ open_instance(sla, l, m, c)
        BY <1>1, <2>2 DEF CreateAssigned
      <3>2. c \in Clock /\ (c = NULL \/ sla[c].status = "UNUSED")
        BY DEF NewClock, Clock
      <3>3. lead' \in [Leads -> LeadRow]
        BY <3>1, <3>2, <2>0, NewRowType DEF TypeOK
      <3>4. sla \in [SlaIds -> SlaRow] BY DEF TypeOK
      <3>5. /\ sla' \in [SlaIds -> SlaRow]
            /\ task' \in [SlaIds -> {"none", "unsent", "queued", "lost"}]
            /\ Grows(sla, l)
        BY <3>1, <3>2, <3>4, <2>0, OpenInstanceType
      <3>6. RowsHaveLead' /\ RunsHoldRows'
        BY <1>1, <3>4, <3>5, GrowsKeepsRows DEF CreateAssigned
      <3> QED BY <1>1, <3>3, <3>5, <3>6 DEF CreateAssigned, TypeOK
    <2> QED BY <2>1, <2>2
  <1>2. ASSUME NEW l \in Leads, NEW own \in Sources(l), CreateUnassigned(l, own)
        PROVE  TypeInv'
    <2> DEFINE L == [lead EXCEPT ![l] = NewRow(own, NULL, NULL)]
    <2>1. own \in BOOLEAN /\ NULL \in Person /\ NULL \in Clock
      BY SourcesType DEF Person, Clock
    <2>2. L \in [Leads -> LeadRow] BY <2>1, NewRowType DEF TypeOK
    <2>3. sla \in [SlaIds -> SlaRow] /\ detached \in SUBSET Leads BY DEF TypeOK
    <2>4. CASE lead' = L /\ UNCHANGED <<sla, task, escalated, detached>>
      BY <1>2, <2>2, <2>4 DEF CreateUnassigned, TypeOK, RowsHaveLead, RunsHoldRows
    <2>5. CASE Distribute(L, sla, l, NULL, detached)
      <3> HIDE DEF L
      <3>1. /\ lead' \in [Leads -> LeadRow]
            /\ sla' \in [SlaIds -> SlaRow]
            /\ task' \in [SlaIds -> {"none", "unsent", "queued", "lost"}]
            /\ escalated' \subseteq Leads
            /\ detached' \subseteq Leads
            /\ Grows(sla, l)
        BY <2>1, <2>2, <2>3, <2>5, DistributeType
      <3>2. RowsHaveLead' /\ RunsHoldRows'
        BY <1>2, <2>3, <3>1, GrowsKeepsRows DEF CreateUnassigned
      <3> QED BY <1>2, <3>1, <3>2 DEF CreateUnassigned, TypeOK
    <2> QED BY <1>2, <2>4, <2>5 DEF CreateUnassigned
  <1>3. ASSUME NEW l \in Leads, NEW st \in Stages, ChangeStage(l, st)
        PROVE  TypeInv'
    <2>1. lead \in [Leads -> LeadRow] /\ sla \in [SlaIds -> SlaRow] BY DEF TypeOK
    <2>2. /\ lead' \in [Leads -> LeadRow]
          /\ sla' \in [SlaIds -> SlaRow]
          /\ task' \in [SlaIds -> {"none", "unsent", "queued", "lost"}]
          /\ escalated' \subseteq Leads
          /\ detached' \subseteq Leads
          /\ Grows(sla, l)
      BY <1>3, <2>1, ChangeStageType DEF ChangeStage
    <2>3. RowsHaveLead' /\ RunsHoldRows'
      BY <1>3, <2>1, <2>2, GrowsKeepsRows DEF ChangeStage
    <2> QED BY <1>3, <2>2, <2>3 DEF ChangeStage, TypeOK
  <1>4. ASSUME NEW l \in Leads, ScheduleUnassigned(l) PROVE TypeInv'
    BY <1>4 DEF ScheduleUnassigned, TypeOK, RowsHaveLead, RunsHoldRows
  <1>5. ASSUME NEW l \in Leads, NEW m \in Person, AssignManually(l, m)
        PROVE  TypeInv'
    <2>1. lead \in [Leads -> LeadRow] /\ sla \in [SlaIds -> SlaRow] BY DEF TypeOK
    <2>2. /\ lead' \in [Leads -> LeadRow]
          /\ sla' \in [SlaIds -> SlaRow]
          /\ task' \in [SlaIds -> {"none", "unsent", "queued", "lost"}]
          /\ escalated' \subseteq Leads
          /\ detached' \subseteq Leads
          /\ Grows(sla, l)
      BY <1>5, <2>1, AssignType DEF AssignManually
    <2>3. RowsHaveLead' /\ RunsHoldRows'
      BY <1>5, <2>1, <2>2, GrowsKeepsRows DEF AssignManually
    <2> QED BY <1>5, <2>2, <2>3 DEF AssignManually, TypeOK
  <1>6. ASSUME NEW l \in Leads, Deactivate(l) PROVE TypeInv'
    <2>1. sla \in [SlaIds -> SlaRow] /\ "CANCELLED" \in Closed
      BY DEF TypeOK, Closed
    <2>2. sla' \in [SlaIds -> SlaRow] BY <1>6, <2>1, EndedType DEF Deactivate
    <2>3. Grows(sla, l)
      BY <1>6, <2>1, EndedAt DEF Deactivate, Grows, ActiveOf
    <2>4. RowsHaveLead' /\ RunsHoldRows'
      BY <1>6, <2>1, <2>3, GrowsKeepsRows DEF Deactivate
    <2>5. lead' \in [Leads -> LeadRow]
      BY <1>6 DEF Deactivate, TypeOK, LeadRow, Clock
    <2> QED BY <1>6, <2>2, <2>4, <2>5 DEF Deactivate, TypeOK
  <1>7. ASSUME NEW l \in Leads, Reactivate(l) PROVE TypeInv'
    <2> DEFINE L == [lead EXCEPT ![l].active = TRUE]
    <2>1. L \in [Leads -> LeadRow] /\ sla \in [SlaIds -> SlaRow]
      BY DEF TypeOK, LeadRow
    <2>2. "FRESH" \in Stages BY Policies
    <2>3. change_stage(L, l, "FRESH") BY <1>7 DEF Reactivate
    <2> HIDE DEF L
    <2>4. /\ lead' \in [Leads -> LeadRow]
          /\ sla' \in [SlaIds -> SlaRow]
          /\ task' \in [SlaIds -> {"none", "unsent", "queued", "lost"}]
          /\ escalated' \subseteq Leads
          /\ detached' \subseteq Leads
          /\ Grows(sla, l)
      BY <2>1, <2>2, <2>3, ChangeStageType
    <2>5. RowsHaveLead' /\ RunsHoldRows'
      BY <1>7, <2>1, <2>4, GrowsKeepsRows DEF Reactivate
    <2> QED BY <1>7, <2>4, <2>5 DEF Reactivate, TypeOK
  <1>8. ASSUME NEW l \in Leads, BulkReactivate(l) PROVE TypeInv'
    <2>1. [lead[l] EXCEPT !.stage = "FRESH", !.active = TRUE,
                          !.salesman = NULL, !.deadline = NULL] \in LeadRow
      <3>1. lead[l] \in LeadRow BY DEF TypeOK
      <3>2. NULL \in Person /\ NULL \in Clock BY DEF Person, Clock
      <3>3. "FRESH" \in Stages BY Policies
      <3> QED BY <3>1, <3>2, <3>3 DEF LeadRow
    <2>2. lead' \in [Leads -> LeadRow] /\ detached' \subseteq Leads
      BY <1>8, <2>1 DEF BulkReactivate, TypeOK
    <2> QED BY <1>8, <2>2 DEF BulkReactivate, TypeOK, RowsHaveLead, RunsHoldRows
  <1>9. ASSUME NEW l \in Leads, NEW b \in Web, ReadDuplicate(b, l)
        PROVE  TypeInv'
    <2>1. [lead |-> l, row |-> lead[l]] \in Form BY DEF Form, TypeOK
    <2>2. form' \in [Web -> Form \cup {NULL}]
      BY <1>9, <2>1 DEF ReadDuplicate, TypeOK
    <2> QED BY <1>9, <2>2 DEF ReadDuplicate, TypeOK, RowsHaveLead, RunsHoldRows
  <1>10. ASSUME NEW b \in Web, MergeDuplicate(b) PROVE TypeInv'
    <2> DEFINE l == form[b].lead
               old == form[b].row
               A(own) == [lead EXCEPT ![l] = [old EXCEPT !.own = own,
                                                         !.salesman = NULL]]
               I(own) == [lead EXCEPT ![l] = [old EXCEPT !.own = own,
                                                         !.active = TRUE,
                                                         !.stage = "FRESH"]]
    <2>1. form[b] \in Form BY <1>10 DEF MergeDuplicate, TypeOK
    <2>2. l \in Leads /\ old \in LeadRow BY <2>1 DEF Form
    <2>3. PICK own \in Sources(l) :
            IF old.active
            THEN Escalate(A(own), sla, l, detached \cup {l})
            ELSE Distribute(I(own), sla, l, old.salesman, detached \cup {l})
      BY <1>10 DEF MergeDuplicate
    <2>4. own \in BOOLEAN BY <2>2, SourcesType
    <2>5. A(own) \in [Leads -> LeadRow] /\ I(own) \in [Leads -> LeadRow]
      BY <2>2, <2>4, Policies DEF TypeOK, LeadRow, Person
    <2>6. old.salesman \in Person BY <2>2 DEF LeadRow
    <2>7. sla \in [SlaIds -> SlaRow] /\ detached \cup {l} \in SUBSET Leads
      BY <2>2 DEF TypeOK
    <2>8. form' \in [Web -> Form \cup {NULL}] BY <1>10 DEF MergeDuplicate, TypeOK
    <2>9. UNCHANGED <<worker, breaches>> BY <1>10 DEF MergeDuplicate
    <2> HIDE DEF A, I, l, old
    <2>10. /\ lead' \in [Leads -> LeadRow]
           /\ sla' \in [SlaIds -> SlaRow]
           /\ task' \in [SlaIds -> {"none", "unsent", "queued", "lost"}]
           /\ escalated' \subseteq Leads
           /\ detached' \subseteq Leads
           /\ Grows(sla, l)
      <3>1. CASE old.active
        BY <2>2, <2>3, <2>5, <2>7, <3>1 DEF Escalate, TypeOK, Grows
      <3>2. CASE ~old.active
        BY <2>2, <2>3, <2>5, <2>6, <2>7, <3>2, DistributeType
      <3> QED BY <3>1, <3>2
    <2>11. RowsHaveLead' /\ RunsHoldRows'
      BY <2>2, <2>7, <2>9, <2>10, GrowsKeepsRows
    <2> QED BY <2>8, <2>9, <2>10, <2>11 DEF TypeOK
  <1>11. ASSUME NEW s \in SlaIds, Enqueue(s) \/ LoseCallback(s)
         PROVE  TypeInv'
    BY <1>11 DEF Enqueue, LoseCallback, TypeOK, RowsHaveLead, RunsHoldRows
  <1>12. ASSUME NEW w \in Workers, NEW s \in SlaIds, Deliver(w, s)
         PROVE  TypeInv'
    <2>1. task' \in [SlaIds -> {"none", "unsent", "queued", "lost"}]
      BY <1>12 DEF Deliver, TypeOK
    <2>2. CASE sla[s].status # "ACTIVE"
      BY <1>12, <2>1, <2>2 DEF Deliver, TypeOK, RowsHaveLead, RunsHoldRows
    <2>3. CASE sla[s].status = "ACTIVE"
      <3>1. sla[s].lead \in Leads BY <2>3 DEF RowsHaveLead
      <3>2. [sla |-> s, owner |-> lead[sla[s].lead].salesman] \in Run
        BY <3>1 DEF Run, Clock, TypeOK, LeadRow
      <3>3. worker' = [worker EXCEPT ![w] =
                          [sla |-> s, owner |-> lead[sla[s].lead].salesman]]
        BY <1>12, <2>3 DEF Deliver
      <3>4. worker' \in [Workers -> Run] BY <3>2, <3>3 DEF TypeOK
      <3>5. RunsHoldRows'
        BY <1>12, <2>3, <3>3 DEF Deliver, TypeOK, RunsHoldRows
      <3> QED BY <1>12, <2>1, <3>4, <3>5 DEF Deliver, TypeOK, RowsHaveLead
    <2> QED BY <2>2, <2>3
  <1>13. ASSUME NEW w \in Workers, Process(w) PROVE TypeInv'
    <2> DEFINE s == worker[w].sla
               l == sla[s].lead
               S == [sla EXCEPT ![s].status = "BREACHED"]
    <2>1. s \in SlaIds /\ sla[s].status # "UNUSED"
      BY <1>13 DEF Process, RunsHoldRows
    <2>2. l \in Leads BY <2>1 DEF RowsHaveLead
    <2>3. S \in [SlaIds -> SlaRow] BY DEF TypeOK, SlaRow, Closed
    <2>4. \A t \in SlaIds :
             /\ S[t].lead = sla[t].lead
             /\ S[t].status = "UNUSED" <=> sla[t].status = "UNUSED"
             /\ sla[t].status = "UNUSED" => S[t] = sla[t]
      BY <2>1 DEF TypeOK, SlaRow
    <2>5. worker[w].owner \in Person BY DEF TypeOK, Run
    <2>6. lead \in [Leads -> LeadRow] /\ detached \in SUBSET Leads BY DEF TypeOK
    <2>7. \/ Escalate(lead, S, l, detached)
          \/ Distribute(lead, S, l, worker[w].owner, detached)
          \/ \E pool \in Pools : \E m \in Candidates(pool, worker[w].owner) :
                Assign(lead, S, l, m)
      BY <1>13 DEF Process
    <2>8. worker' \in [Workers -> Run]
      BY <1>13 DEF Process, TypeOK, Idle, Run, Clock, Person
    <2>9. breaches' \in [SlaIds -> SUBSET Workers]
      BY <1>13 DEF Process, TypeOK
    <2>10. UNCHANGED form BY <1>13 DEF Process
    <2>11. worker' = [worker EXCEPT ![w] = Idle] BY <1>13 DEF Process
    <2> HIDE DEF S, l, s
    <2>12. /\ lead' \in [Leads -> LeadRow]
           /\ sla' \in [SlaIds -> SlaRow]
           /\ task' \in [SlaIds -> {"none", "unsent", "queued", "lost"}]
           /\ escalated' \subseteq Leads
           /\ detached' \subseteq Leads
           /\ Grows(S, l)
      <3>1. CASE Escalate(lead, S, l, detached)
        BY <2>2, <2>3, <2>6, <3>1 DEF Escalate, TypeOK, Grows
      <3>2. CASE Distribute(lead, S, l, worker[w].owner, detached)
        BY <2>2, <2>3, <2>4, <2>5, <2>6, <3>2, DistributeType
      <3>3. CASE \E pool \in Pools :
                    \E m \in Candidates(pool, worker[w].owner) :
                       Assign(lead, S, l, m)
        <4>1. PICK pool \in Pools : \E m \in Candidates(pool, worker[w].owner) :
                       Assign(lead, S, l, m)
          BY <3>3
        <4>2. PICK m \in Candidates(pool, worker[w].owner) : Assign(lead, S, l, m)
          BY <4>1
        <4>3. m \in Person BY DEF Candidates, Pools, Person
        <4> QED BY <2>2, <2>3, <2>4, <2>6, <4>2, <4>3, AssignType
      <3> QED BY <2>7, <3>1, <3>2, <3>3
    <2>13. RowsHaveLead'
      BY <2>2, <2>3, <2>4, <2>12, GrowsKeepsRows
    <2>14. RunsHoldRows'
      BY <2>4, <2>11, <2>12 DEF TypeOK, RunsHoldRows, Grows
    <2> QED BY <2>8, <2>9, <2>10, <2>12, <2>13, <2>14 DEF TypeOK
  <1>14. ASSUME NEW w \in Workers, Abort(w) PROVE TypeInv'
    <2>1. worker' \in [Workers -> Run]
      BY <1>14 DEF Abort, TypeOK, Idle, Run, Clock, Person
    <2>2. task' \in [SlaIds -> {"none", "unsent", "queued", "lost"}]
      BY <1>14 DEF Abort, TypeOK
    <2> QED BY <1>14, <2>1, <2>2 DEF Abort, TypeOK, RowsHaveLead, RunsHoldRows
  <1>15. CASE UNCHANGED vars
    BY <1>15 DEF vars, TypeOK, RowsHaveLead, RunsHoldRows
  <1> QED BY <1>1, <1>2, <1>3, <1>4, <1>5, <1>6, <1>7, <1>8, <1>9, <1>10,
             <1>11, <1>12, <1>13, <1>14, <1>15
          DEF Next, ReliableNext, Request

\* Every state any run of the system can reach is well typed, and every created
\* SLAInstance row, in particular one a run of the task holds, has its lead.
THEOREM TypeInvariant == Spec => []TypeInv
  BY TypeInit, TypeStep, PTL DEF Spec

\* The type invariant the runs check.
THEOREM TypeCorrect == Spec => []TypeOK
  <1>1. TypeInv => TypeOK BY DEF TypeInv
  <1> QED BY <1>1, TypeInvariant, PTL

-----------------------------------------------------------------------------
(***************************************************************************)
(* What a step does to one lead.  Every action that writes rows writes     *)
(* those of one lead l: it may breach an instance b of l, may open an      *)
(* instance c against m (b, c are NULL when it does not), and leaves l in  *)
(* order.  All the safety theorems follow from this one shape.             *)
(***************************************************************************)

RowMoves(l, b, m, c) ==
    \A s \in SlaIds :
        /\ s = c => /\ sla[s].status = "UNUSED"
                    /\ sla'[s] = [lead |-> l, owner |-> m, status |-> "ACTIVE"]
                    /\ task'[s] = "unsent"
        /\ s # c => /\ sla'[s].lead = sla[s].lead
                    /\ sla'[s].owner = sla[s].owner
                    /\ sla'[s].status = "ACTIVE" => task'[s] = task[s]
                    /\ s = b => /\ sla[s].lead = l
                                /\ sla[s].status # "UNUSED"
                                /\ sla'[s].status = "BREACHED"
                    /\ s # b => \/ sla'[s].status = sla[s].status
                                \/ /\ s \in ActiveOf(sla, l)
                                   /\ sla'[s].status \in {"COMPLETED", "CANCELLED"}

\* No instance of l but c is left running.
OnlyRuns(l, c) ==
    \A s \in SlaIds : s # c /\ sla[s].lead = l => sla'[s].status # "ACTIVE"

OtherLeads(l) ==
    \A k \in Leads \ {l} :
        /\ lead'[k] = lead[k]
        /\ k \in escalated' <=> k \in escalated
        /\ k \in detached' <=> k \in detached

\* A lead that was never created has no deadline, and none is resubmitted.
AbsentHasNoDeadline(l) == lead[l].stage = "ABSENT" => lead[l].deadline = NULL
FormsHoldLeads ==
    \A b \in Web : form[b] # NULL => form[b].row.stage # "ABSENT"

InOrder(l) ==
    /\ l \notin detached => MatchesLead(l)
    /\ AbsentHasNoDeadline(l)

\* The rows with instance b (if any) breached.
BreachedRows(b) ==
    IF b = NULL THEN sla ELSE [sla EXCEPT ![b].status = "BREACHED"]
Handles(l, b) ==
    b # NULL => /\ b \in SlaIds
                /\ sla[b].lead = l
                /\ sla[b].status # "UNUSED"

LEMMA BreachedAt ==
    ASSUME TypeInv, NEW l \in Leads, NEW b \in Clock, Handles(l, b)
    PROVE  /\ BreachedRows(b) \in [SlaIds -> SlaRow]
           /\ \A s \in SlaIds :
                 /\ BreachedRows(b)[s].lead = sla[s].lead
                 /\ BreachedRows(b)[s].owner = sla[s].owner
                 /\ s = b => BreachedRows(b)[s].status = "BREACHED"
                 /\ s # b => BreachedRows(b)[s] = sla[s]
  <1>1. sla \in [SlaIds -> SlaRow] BY DEF TypeInv, TypeOK
  <1>2. CASE b = NULL BY <1>1, <1>2, NullIsNoId DEF BreachedRows
  <1>3. CASE b # NULL
    <2>1. [sla[b] EXCEPT !.status = "BREACHED"] \in SlaRow
      BY <1>1, <1>3 DEF Handles, SlaRow, Closed
    <2> QED BY <1>1, <1>3, <2>1 DEF BreachedRows, Handles, SlaRow
  <1> QED BY <1>2, <1>3

\* open_instance moves the rows of its lead and leaves c alone running.
LEMMA OpenInstanceMoves ==
    ASSUME TypeInv, NEW l \in Leads, NEW b \in Clock, Handles(l, b),
           NEW m \in Person, NEW c \in Clock,
           c = NULL \/ sla[c].status = "UNUSED",
           NEW S \in [SlaIds -> SlaRow], S = BreachedRows(b),
           open_instance(S, l, m, c)
    PROVE  RowMoves(l, b, m, c) /\ OnlyRuns(l, c)
  <1>2. sla' = Opened(S, l, m, c) BY DEF open_instance
  <1>3. PICK R \in SUBSET Revocable(S, l) :
          task' = [s \in SlaIds |-> IF s = c THEN "unsent"
                                    ELSE IF s \in R THEN "none" ELSE task[s]]
    BY DEF open_instance
  <1>4. \A s \in R : s \in ActiveOf(S, l) BY DEF Revocable
  <1> SUFFICES ASSUME NEW s \in SlaIds
               PROVE  /\ s = c => /\ sla[s].status = "UNUSED"
                                  /\ sla'[s] = [lead |-> l, owner |-> m,
                                                status |-> "ACTIVE"]
                                  /\ task'[s] = "unsent"
                      /\ s # c =>
                         /\ sla'[s].lead = sla[s].lead
                         /\ sla'[s].owner = sla[s].owner
                         /\ sla'[s].status = "ACTIVE" => task'[s] = task[s]
                         /\ s = b => /\ sla[s].lead = l
                                     /\ sla[s].status # "UNUSED"
                                     /\ sla'[s].status = "BREACHED"
                         /\ s # b => \/ sla'[s].status = sla[s].status
                                     \/ /\ s \in ActiveOf(sla, l)
                                        /\ sla'[s].status
                                             \in {"COMPLETED", "CANCELLED"}
                         /\ sla[s].lead = l => sla'[s].status # "ACTIVE"
    BY DEF RowMoves, OnlyRuns
  <1>5. CASE s = c
    <2>1. sla[s].status = "UNUSED" BY <1>5, NullIsNoId
    <2>2. sla'[s] = [lead |-> l, owner |-> m, status |-> "ACTIVE"]
      BY <1>2, <1>5, OpenedAt
    <2> QED BY <1>3, <1>5, <2>1, <2>2
  <1>6. CASE s # c
    <2>1. /\ sla'[s].lead = S[s].lead
          /\ sla'[s].owner = S[s].owner
          /\ s \in ActiveOf(S, l) => sla'[s].status = "COMPLETED"
          /\ s \notin ActiveOf(S, l) => sla'[s] = S[s]
      BY <1>2, <1>6, OpenedElsewhere
    <2>2. /\ S[s].lead = sla[s].lead
          /\ S[s].owner = sla[s].owner
          /\ s = b => S[s].status = "BREACHED"
          /\ s # b => S[s] = sla[s]
      BY BreachedAt
    <2>3. s \notin R => task'[s] = task[s] BY <1>3, <1>6
    <2>4. s \in R => sla'[s].status # "ACTIVE" BY <1>4, <2>1
    <2>5. s = b => sla[s].lead = l /\ sla[s].status # "UNUSED"
      BY NullIsNoId DEF Handles
    <2> QED BY <1>6, <2>1, <2>2, <2>3, <2>4, <2>5 DEF ActiveOf
  <1> QED BY <1>5, <1>6

\* Cancelling moves the rows of its lead and leaves none running.
LEMMA EndedMoves ==
    ASSUME TypeInv, NEW l \in Leads, sla' = Ended(sla, l, "CANCELLED"),
           UNCHANGED task
    PROVE  RowMoves(l, NULL, NULL, NULL) /\ OnlyRuns(l, NULL)
  <1>1. sla \in [SlaIds -> SlaRow] /\ "CANCELLED" \in Closed
    BY DEF TypeInv, TypeOK, Closed
  <1>2. \A s \in SlaIds :
          /\ sla'[s].lead = sla[s].lead
          /\ sla'[s].owner = sla[s].owner
          /\ s \in ActiveOf(sla, l) => sla'[s].status = "CANCELLED"
          /\ s \notin ActiveOf(sla, l) => sla'[s] = sla[s]
    BY <1>1, EndedAt
  <1> QED BY <1>2, NullIsNoId DEF RowMoves, OnlyRuns, ActiveOf

\* A transaction that ends with the rows it has breached moves them, no more.
LEMMA BreachedMoves ==
    ASSUME TypeInv, NEW l \in Leads, NEW b \in Clock, Handles(l, b),
           sla' = BreachedRows(b), UNCHANGED task
    PROVE  RowMoves(l, b, NULL, NULL)
  BY BreachedAt, NullIsNoId DEF RowMoves, Handles

\* A lead whose row names the instance c just opened for its salesman is in
\* order, and not stalled.
LEMMA OpenedSettles ==
    ASSUME TypeInv, NEW l \in Leads, NEW b \in Clock, NEW m \in Person,
           NEW stage \in Stages, NEW c \in NewClock(stage),
           RowMoves(l, b, m, c), OnlyRuns(l, c),
           lead'[l].stage = stage, lead'[l].salesman = m, lead'[l].deadline = c
    PROVE  InOrder(l)' /\ NotStalled(l)'
  <1>1. \/ c = NULL /\ stage \notin ClockStages
        \/ c \in SlaIds /\ stage \in ClockStages
    BY DEF NewClock
  <1>2. CASE c \in SlaIds
    <2>1. sla'[c] = [lead |-> l, owner |-> m, status |-> "ACTIVE"]
      BY <1>2 DEF RowMoves
    <2>2. \A s \in SlaIds : sla'[s].lead = l /\ sla'[s].status = "ACTIVE" => s = c
      BY DEF RowMoves, OnlyRuns
    <2>3. MatchesLead(l)' BY <2>1, <2>2 DEF MatchesLead, ActiveOf
    <2>4. NotStalled(l)' BY <1>2, <2>1 DEF NotStalled, ActiveOf
    <2>5. AbsentHasNoDeadline(l)' BY Policies DEF AbsentHasNoDeadline
    <2> QED BY <2>3, <2>4, <2>5 DEF InOrder
  <1>3. CASE c = NULL
    <2>1. \A s \in SlaIds : ~(sla'[s].lead = l /\ sla'[s].status = "ACTIVE")
      BY <1>3, NullIsNoId DEF RowMoves, OnlyRuns
    <2>2. MatchesLead(l)' BY <1>3, <2>1 DEF MatchesLead, ActiveOf
    <2>3. stage \notin ClockStages BY <1>1, <1>3, NullIsNoId
    <2>4. NotStalled(l)' BY <2>3 DEF NotStalled
    <2>5. AbsentHasNoDeadline(l)' BY <1>3 DEF AbsentHasNoDeadline
    <2> QED BY <2>2, <2>4, <2>5 DEF InOrder
  <1> QED BY <1>1, <1>2, <1>3

Touch(l, b, m, c) ==
    /\ RowMoves(l, b, m, c)
    /\ c # NULL => OnlyRuns(l, c)
    /\ OtherLeads(l)
    /\ InOrder(l)'
    /\ NotStalled(l)'
    /\ StartsFresh(l)
Touched(l, b) == \E m \in Person, c \in Clock : Touch(l, b, m, c)

\* A row L that the transaction has changed for l only.
Differs(L, l) ==
    L \in [Leads -> LeadRow] /\ \A k \in Leads \ {l} : L[k] = lead[k]

LEMMA AssignTouches ==
    ASSUME TypeInv, NEW l \in Leads, NEW b \in Clock, Handles(l, b),
           NEW m \in Person, NEW L, Differs(L, l),
           NEW S \in [SlaIds -> SlaRow], S = BreachedRows(b), Assign(L, S, l, m)
    PROVE  Touched(l, b)
  <1>1. PICK c \in NewClock("FRESH") :
          /\ lead' = [L EXCEPT ![l] =
                [@ EXCEPT !.stage = "FRESH", !.salesman = m, !.deadline = c]]
          /\ open_instance(S, l, m, c)
    BY DEF Assign
  <1>2. c \in Clock /\ (c = NULL \/ sla[c].status = "UNUSED")
    BY DEF NewClock, Clock
  <1>3. RowMoves(l, b, m, c) /\ OnlyRuns(l, c)
    BY <1>1, <1>2, OpenInstanceMoves
  <1>4. /\ lead'[l].stage = "FRESH"
        /\ lead'[l].salesman = m
        /\ lead'[l].deadline = c
        /\ \A k \in Leads \ {l} : lead'[k] = lead[k]
    BY <1>1 DEF Differs, LeadRow
  <1>5. "FRESH" \in Stages BY Policies
  <1>6. InOrder(l)' /\ NotStalled(l)' BY <1>3, <1>4, <1>5, OpenedSettles
  <1>7. OtherLeads(l)
    BY <1>4 DEF OtherLeads, Assign
  <1>8. StartsFresh(l)
    <2>1. CASE c = NULL
      <3>1. "FRESH" \notin ClockStages BY <2>1, NullIsNoId DEF NewClock
      <3> QED BY <1>4, <3>1 DEF StartsFresh
    <2>2. CASE c # NULL
      <3>1. c \in SlaIds BY <1>2, <2>2 DEF Clock
      <3>2. /\ sla[c].status = "UNUSED"
            /\ sla'[c] = [lead |-> l, owner |-> m, status |-> "ACTIVE"]
        BY <1>3, <3>1 DEF RowMoves
      <3> QED BY <1>4, <3>1, <3>2 DEF StartsFresh
    <2> QED BY <2>1, <2>2
  <1> QED BY <1>2, <1>3, <1>6, <1>7, <1>8 DEF Touched, Touch

LEMMA DistributeTouches ==
    ASSUME TypeInv, NEW l \in Leads, NEW b \in Clock, Handles(l, b),
           NEW seen \in Person, NEW L, Differs(L, l),
           NEW S \in [SlaIds -> SlaRow], S = BreachedRows(b),
           NEW D, Distribute(L, S, l, seen, D),
           Escalate(L, S, l, D) => Touched(l, b)
    PROVE  Touched(l, b)
  <1>1. CASE \E pool \in Pools : \E m \in Chosen(pool, seen) : Assign(L, S, l, m)
    <2>1. PICK pool \in Pools : \E m \in Chosen(pool, seen) : Assign(L, S, l, m)
      BY <1>1
    <2>2. PICK m \in Chosen(pool, seen) : Assign(L, S, l, m) BY <2>1
    <2>3. m \in Person BY DEF Chosen, Candidates, Pools, Person
    <2> QED BY <2>2, <2>3, AssignTouches
  <1> QED BY <1>1 DEF Distribute

\* Escalation leaves the lead in order if the rows it is given are.
LEMMA EscalateTouches ==
    ASSUME TypeInv, NEW l \in Leads, NEW b \in Clock, Handles(l, b),
           NEW L, Differs(L, l), NEW D,
           NEW S \in [SlaIds -> SlaRow], S = BreachedRows(b),
           \A k \in Leads \ {l} : k \in D <=> k \in detached,
           Escalate(L, S, l, D), InOrder(l)',
           L[l].salesman \in {lead[l].salesman, NULL} \/ l \in D
    PROVE  Touched(l, b)
  <1>1. RowMoves(l, b, NULL, NULL) BY BreachedMoves DEF Escalate
  <1>2. OtherLeads(l) BY DEF Escalate, Differs, OtherLeads
  <1>3. NotStalled(l)' BY DEF Escalate, NotStalled
  <1>4. StartsFresh(l) BY DEF Escalate, StartsFresh
  <1>5. NULL \in Person /\ NULL \in Clock BY DEF Person, Clock
  <1> QED BY <1>1, <1>2, <1>3, <1>4, <1>5 DEF Touched, Touch

LEMMA NothingHandled ==
    ASSUME TypeInv, NEW l \in Leads
    PROVE  /\ Handles(l, NULL)
           /\ BreachedRows(NULL) = sla
           /\ sla \in [SlaIds -> SlaRow]
           /\ NULL \in Clock
           /\ NULL \in Person
  BY DEF Handles, BreachedRows, TypeInv, TypeOK, Clock, Person

LEMMA ChangeStageTouches ==
    ASSUME TypeInv, NEW l \in Leads, NEW st \in Stages,
           NEW L, Differs(L, l), L[l].salesman = lead[l].salesman,
           change_stage(L, l, st)
    PROVE  Touched(l, NULL)
  <1>1. CASE st = "NOT_INTERESTED" \/ Kept(l, L[l])
    <2>1. /\ lead' = [L EXCEPT ![l] =
                [@ EXCEPT !.stage = st, !.deadline = NULL,
                          !.active = L[l].active /\ st # "NOT_INTERESTED"]]
          /\ sla' = Ended(sla, l, "CANCELLED")
          /\ UNCHANGED task
      BY <1>1 DEF change_stage
    <2>2. RowMoves(l, NULL, NULL, NULL) /\ OnlyRuns(l, NULL)
      BY <2>1, EndedMoves
    <2>3. /\ lead'[l].salesman = lead[l].salesman
          /\ lead'[l].deadline = NULL
          /\ lead'[l].own = L[l].own
          /\ st = "NOT_INTERESTED" => ~lead'[l].active
          /\ \A k \in Leads \ {l} : lead'[k] = lead[k]
      <3>1. lead'[l] = [L[l] EXCEPT !.stage = st, !.deadline = NULL,
                                    !.active = L[l].active /\ st # "NOT_INTERESTED"]
        BY <2>1 DEF Differs
      <3>2. L[l] \in LeadRow BY DEF Differs
      <3>3. st = "NOT_INTERESTED" => ~lead'[l].active
        BY <3>1, <3>2 DEF LeadRow
      <3>4. /\ lead'[l].salesman = L[l].salesman
            /\ lead'[l].deadline = NULL
            /\ lead'[l].own = L[l].own
        BY <3>1, <3>2 DEF LeadRow
      <3>5. \A k \in Leads \ {l} : lead'[k] = lead[k] BY <2>1 DEF Differs
      <3> QED BY <3>3, <3>4, <3>5
    <2>4. OtherLeads(l) BY <2>3 DEF OtherLeads, change_stage
    <2>5. InOrder(l)'
      BY <2>2, <2>3, NullIsNoId
      DEF InOrder, MatchesLead, ActiveOf, OnlyRuns, RowMoves, AbsentHasNoDeadline
    <2>6. NotStalled(l)'
      <3>1. CASE st = "NOT_INTERESTED" BY <2>3, <3>1 DEF NotStalled
      <3>2. CASE Kept(l, L[l])
        <4>1. Kept(l, lead'[l]) BY <2>3, <3>2 DEF Kept
        <4> QED BY <4>1 DEF NotStalled, Kept
      <3> QED BY <1>1, <3>1, <3>2
    <2>7. StartsFresh(l) BY <2>3 DEF StartsFresh
    <2> QED BY <2>2, <2>4, <2>5, <2>6, <2>7, NothingHandled DEF Touched, Touch
  <1>2. CASE ~(st = "NOT_INTERESTED" \/ Kept(l, L[l]))
    <2>1. PICK c \in NewClock(st) :
            /\ lead' = [L EXCEPT ![l] = [@ EXCEPT !.stage = st, !.deadline = c]]
            /\ open_instance(sla, l, L[l].salesman, c)
      BY <1>2 DEF change_stage
    <2> DEFINE m == L[l].salesman
    <2>2. c \in Clock /\ (c = NULL \/ sla[c].status = "UNUSED")
      BY DEF NewClock, Clock
    <2>3. m \in Person BY DEF Differs, LeadRow
    <2>4. RowMoves(l, NULL, m, c) /\ OnlyRuns(l, c)
      BY <2>1, <2>2, <2>3, NothingHandled, OpenInstanceMoves
    <2>5. /\ lead'[l].stage = st
          /\ lead'[l].salesman = m
          /\ lead'[l].deadline = c
          /\ \A k \in Leads \ {l} : lead'[k] = lead[k]
      BY <2>1 DEF Differs, LeadRow
    <2>6. InOrder(l)' /\ NotStalled(l)'
      BY <2>3, <2>4, <2>5, NothingHandled, OpenedSettles
    <2>7. OtherLeads(l) BY <2>5 DEF OtherLeads, change_stage
    <2>8. StartsFresh(l) BY <2>5 DEF StartsFresh
    <2> QED BY <2>2, <2>3, <2>4, <2>6, <2>7, <2>8 DEF Touched, Touch
  <1> QED BY <1>1, <1>2

\* Only a run of the task writes breach events and ends: for the instance it
\* breaches.
RunMoves(b) ==
    /\ \A s \in SlaIds : /\ s = b => breaches'[s] # {}
                         /\ s # b => breaches'[s] = breaches[s]
    /\ \A w \in Workers : worker'[w] = worker[w] \/ worker[w].sla = b

\* The steps that write no row.
Quiet ==
    /\ UNCHANGED <<lead, sla, breaches, escalated, detached>>
    /\ \A s \in SlaIds : sla[s].status = "ACTIVE" /\ Armed(s) => Armed(s)'

AllInOrder == (\A l \in Leads : InOrder(l)) /\ FormsHoldLeads

LEMMA RequestShape ==
    ASSUME TypeInv, AllInOrder, NEW l \in Leads, Request(l)
    PROVE  Quiet \/ (Touched(l, NULL) /\ RunMoves(NULL))
  <1>0. ASSUME UNCHANGED <<worker, breaches>> PROVE RunMoves(NULL)
    BY <1>0, NullIsNoId DEF RunMoves
  <1>1. ASSUME NEW own \in Sources(l), NEW m \in Salesmen,
               CreateAssigned(l, own, m)
        PROVE  Touched(l, NULL)
    <2>0. own \in BOOLEAN /\ m \in Person BY SourcesType DEF Person
    <2>1. CASE Kept(l, NewRow(own, m, NULL))
      <3>1. NewRow(own, m, NULL) \in LeadRow
        BY <2>0, NewRowType, NothingHandled
      <3>2. lead' = [lead EXCEPT ![l] = NewRow(own, m, NULL)]
        BY <1>1, <2>1 DEF CreateAssigned
      <3>3. lead'[l] = NewRow(own, m, NULL) BY <3>2 DEF TypeInv, TypeOK
      <3>4. \A k \in Leads \ {l} : lead'[k] = lead[k]
        BY <3>2 DEF TypeInv, TypeOK
      <3>5. UNCHANGED <<sla, task, escalated, detached>>
        BY <1>1, <2>1 DEF CreateAssigned
      <3>6. RowMoves(l, NULL, NULL, NULL)
        BY <3>5, NothingHandled, BreachedMoves
      <3>7. lead[l].deadline = NULL
        BY <1>1 DEF CreateAssigned, Exists, AllInOrder, InOrder, AbsentHasNoDeadline
      <3>8. InOrder(l)'
        <4>1. l \notin detached => ActiveOf(sla, l) = {}
          BY <3>7, NullIsNoId DEF AllInOrder, InOrder, MatchesLead, ActiveOf
        <4>2. l \notin detached' => MatchesLead(l)'
          BY <3>3, <3>5, <4>1 DEF MatchesLead, ActiveOf, NewRow
        <4>3. AbsentHasNoDeadline(l)' BY <3>3 DEF AbsentHasNoDeadline, NewRow
        <4> QED BY <4>2, <4>3 DEF InOrder
      <3>9. Kept(l, lead'[l]) BY <2>1, <3>3
      <3>10. NotStalled(l)' BY <3>9 DEF NotStalled, Kept
      <3>11. StartsFresh(l) BY <3>3, <3>9 DEF StartsFresh, NewRow
      <3>12. OtherLeads(l) BY <3>4, <3>5 DEF OtherLeads
      <3> QED BY <3>6, <3>8, <3>10, <3>11, <3>12, NothingHandled
              DEF Touched, Touch
    <2>2. CASE ~Kept(l, NewRow(own, m, NULL))
      <3>1. PICK c \in NewClock("FRESH") :
              /\ lead' = [lead EXCEPT ![l] = NewRow(own, m, c)]
              /\ open_instance(sla, l, m, c)
        BY <1>1, <2>2 DEF CreateAssigned
      <3>2. c \in Clock /\ (c = NULL \/ sla[c].status = "UNUSED")
        BY DEF NewClock, Clock
      <3>3. RowMoves(l, NULL, m, c) /\ OnlyRuns(l, c)
        BY <2>0, <3>1, <3>2, NothingHandled, OpenInstanceMoves
      <3>4. lead'[l] = NewRow(own, m, c)
            /\ \A k \in Leads \ {l} : lead'[k] = lead[k]
        BY <3>1 DEF TypeInv, TypeOK
      <3>5. /\ lead'[l].stage = "FRESH"
            /\ lead'[l].salesman = m
            /\ lead'[l].deadline = c
        BY <3>4 DEF NewRow
      <3>6. "FRESH" \in Stages BY Policies
      <3>7. InOrder(l)' /\ NotStalled(l)'
        BY <2>0, <3>3, <3>5, <3>6, NothingHandled, OpenedSettles
      <3>8. OtherLeads(l) BY <1>1, <3>4 DEF OtherLeads, CreateAssigned
      <3>9. StartsFresh(l)
        <4>1. CASE c = NULL
          <5>1. "FRESH" \notin ClockStages BY <4>1, NullIsNoId DEF NewClock
          <5> QED BY <3>5, <5>1 DEF StartsFresh
        <4>2. CASE c # NULL
          <5>1. c \in SlaIds BY <3>2, <4>2 DEF Clock
          <5>2. /\ sla[c].status = "UNUSED"
                /\ sla'[c] = [lead |-> l, owner |-> m, status |-> "ACTIVE"]
            BY <3>3, <5>1 DEF RowMoves
          <5> QED BY <3>5, <5>1, <5>2 DEF StartsFresh
        <4> QED BY <4>1, <4>2
      <3> QED BY <2>0, <3>2, <3>3, <3>7, <3>8, <3>9 DEF Touched, Touch
    <2> QED BY <2>1, <2>2
  <1>2. ASSUME NEW own \in Sources(l), CreateUnassigned(l, own)
        PROVE  Touched(l, NULL)
    <2> DEFINE L == [lead EXCEPT ![l] = NewRow(own, NULL, NULL)]
    <2>1. NewRow(own, NULL, NULL) \in LeadRow
      BY SourcesType, NewRowType, NothingHandled
    <2>2. L \in [Leads -> LeadRow] BY <2>1 DEF TypeInv, TypeOK
    <2>3. L[l] = NewRow(own, NULL, NULL) /\ \A k \in Leads \ {l} : L[k] = lead[k]
      BY DEF TypeInv, TypeOK
    <2>4. \/ lead' = L /\ UNCHANGED <<sla, task, escalated, detached>>
          \/ Distribute(L, sla, l, NULL, detached)
      BY <1>2 DEF CreateUnassigned
    <2>5. Differs(L, l) BY <2>2, <2>3 DEF Differs
    <2>6. L[l].salesman = NULL /\ L[l].deadline = NULL /\ L[l].stage = "FRESH"
      BY <2>3 DEF NewRow
    <2>7. lead[l].deadline = NULL
      BY <1>2 DEF CreateUnassigned, Exists, AllInOrder, InOrder,
                  AbsentHasNoDeadline
    <2>8. l \notin detached => ActiveOf(sla, l) = {}
      BY <2>7, NullIsNoId DEF AllInOrder, InOrder, MatchesLead, ActiveOf
    <2> HIDE DEF L
    <2>9. ASSUME lead' = L, UNCHANGED <<sla, detached>> PROVE InOrder(l)'
      <3>1. l \notin detached' => MatchesLead(l)'
        BY <2>6, <2>8, <2>9 DEF MatchesLead, ActiveOf
      <3>2. AbsentHasNoDeadline(l)' BY <2>6, <2>9 DEF AbsentHasNoDeadline
      <3> QED BY <3>1, <3>2 DEF InOrder
    <2>10. CASE lead' = L /\ UNCHANGED <<sla, task, escalated, detached>>
      <3>1. RowMoves(l, NULL, NULL, NULL)
        BY <2>10, NothingHandled, BreachedMoves
      <3>2. OtherLeads(l) BY <2>10, <2>5 DEF OtherLeads, Differs
      <3>3. NotStalled(l)' BY <2>6, <2>10 DEF NotStalled
      <3>4. StartsFresh(l) BY <2>6, <2>10 DEF StartsFresh
      <3> QED BY <2>9, <2>10, <3>1, <3>2, <3>3, <3>4, NothingHandled
              DEF Touched, Touch
    <2>11. CASE Distribute(L, sla, l, NULL, detached)
      <3>1. Escalate(L, sla, l, detached) => Touched(l, NULL)
        BY <2>5, <2>6, <2>9, NothingHandled, EscalateTouches DEF Escalate
      <3> QED BY <2>5, <2>11, <3>1, NothingHandled, DistributeTouches
    <2> QED BY <2>4, <2>10, <2>11
  <1>3. ASSUME NEW st \in Stages, ChangeStage(l, st) PROVE Touched(l, NULL)
    <2>1. Differs(lead, l) BY DEF Differs, TypeInv, TypeOK
    <2> QED BY <1>3, <2>1, ChangeStageTouches DEF ChangeStage
  <1>4. ASSUME ScheduleUnassigned(l) PROVE Quiet
    BY <1>4 DEF ScheduleUnassigned, Quiet, Armed
  <1>5. ASSUME NEW m \in Person, AssignManually(l, m) PROVE Touched(l, NULL)
    <2>1. Differs(lead, l) BY DEF Differs, TypeInv, TypeOK
    <2> QED BY <1>5, <2>1, NothingHandled, AssignTouches DEF AssignManually
  <1>6. ASSUME Deactivate(l) PROVE Touched(l, NULL)
    <2>1. RowMoves(l, NULL, NULL, NULL) /\ OnlyRuns(l, NULL)
      BY <1>6, EndedMoves DEF Deactivate
    <2>2. /\ lead'[l].salesman = lead[l].salesman
          /\ lead'[l].deadline = NULL
          /\ \A k \in Leads \ {l} : lead'[k] = lead[k]
      BY <1>6 DEF Deactivate, TypeInv, TypeOK, LeadRow
    <2>3. ~lead'[l].active BY <1>6 DEF Deactivate, TypeInv, TypeOK, LeadRow
    <2>4. InOrder(l)'
      BY <2>1, <2>2, NullIsNoId
      DEF InOrder, MatchesLead, ActiveOf, OnlyRuns, RowMoves, AbsentHasNoDeadline
    <2>5. OtherLeads(l) BY <1>6, <2>2 DEF OtherLeads, Deactivate
    <2>6. NotStalled(l)' BY <2>3 DEF NotStalled
    <2>7. StartsFresh(l) BY <2>2 DEF StartsFresh
    <2> QED BY <2>1, <2>4, <2>5, <2>6, <2>7, NothingHandled DEF Touched, Touch
  <1>7. ASSUME Reactivate(l) PROVE Touched(l, NULL)
    <2> DEFINE L == [lead EXCEPT ![l].active = TRUE]
    <2>1. Differs(L, l) BY DEF Differs, TypeInv, TypeOK, LeadRow
    <2>2. L[l].salesman = lead[l].salesman BY DEF TypeInv, TypeOK, LeadRow
    <2>3. change_stage(L, l, "FRESH") BY <1>7 DEF Reactivate
    <2>4. "FRESH" \in Stages BY Policies
    <2> HIDE DEF L
    <2> QED BY <2>1, <2>2, <2>3, <2>4, ChangeStageTouches
  <1>8. ASSUME BulkReactivate(l) PROVE Touched(l, NULL)
    <2>1. RowMoves(l, NULL, NULL, NULL)
      BY <1>8, NothingHandled, BreachedMoves DEF BulkReactivate
    <2>2. /\ lead'[l].salesman = NULL
          /\ lead'[l].deadline = NULL
          /\ \A k \in Leads \ {l} : lead'[k] = lead[k]
          /\ l \in detached'
      BY <1>8 DEF BulkReactivate, TypeInv, TypeOK, LeadRow
    <2>3. InOrder(l)' BY <2>2 DEF InOrder, AbsentHasNoDeadline
    <2>4. OtherLeads(l) BY <1>8, <2>2 DEF OtherLeads, BulkReactivate
    <2>5. NotStalled(l)' /\ StartsFresh(l) BY <2>2 DEF NotStalled, StartsFresh
    <2> QED BY <2>1, <2>3, <2>4, <2>5, NothingHandled DEF Touched, Touch
  <1>9. ASSUME NEW b \in Web, ReadDuplicate(b, l) PROVE Quiet
    BY <1>9 DEF ReadDuplicate, Quiet, Armed
  <1>10. ASSUME ~Quiet PROVE UNCHANGED <<worker, breaches>>
    BY <1>4, <1>9, <1>10
    DEF Request, CreateAssigned, CreateUnassigned, ChangeStage, AssignManually,
        Deactivate, Reactivate, BulkReactivate
  <1> QED BY <1>0, <1>1, <1>2, <1>3, <1>4, <1>5, <1>6, <1>7, <1>8, <1>9, <1>10
          DEF Request

LEMMA MergeShape ==
    ASSUME TypeInv, AllInOrder, NEW b \in Web, MergeDuplicate(b)
    PROVE  \E l \in Leads : Touched(l, NULL) /\ RunMoves(NULL)
  <1>1. form[b] \in Form BY DEF MergeDuplicate, TypeInv, TypeOK
  <1>a. PICK l \in Leads : l = form[b].lead BY <1>1 DEF Form
  <1>b. PICK old \in LeadRow : old = form[b].row BY <1>1 DEF Form
  <1> DEFINE A(own) == [lead EXCEPT ![l] = [old EXCEPT !.own = own,
                                                       !.salesman = NULL]]
             I(own) == [lead EXCEPT ![l] = [old EXCEPT !.own = own,
                                                       !.active = TRUE,
                                                       !.stage = "FRESH"]]
  <1>2. l \in Leads /\ old \in LeadRow OBVIOUS
  <1>3. PICK own \in Sources(l) :
          IF old.active
          THEN Escalate(A(own), sla, l, detached \cup {l})
          ELSE Distribute(I(own), sla, l, old.salesman, detached \cup {l})
    BY <1>a, <1>b DEF MergeDuplicate
  <1>4. own \in BOOLEAN BY <1>2, SourcesType
  <1>5. RunMoves(NULL) BY NullIsNoId DEF RunMoves, MergeDuplicate
  <1>6. old.stage # "ABSENT" BY <1>b DEF MergeDuplicate, AllInOrder, FormsHoldLeads
  <1>7. old.salesman \in Person BY <1>2 DEF LeadRow
  <1>8. [old EXCEPT !.own = own, !.salesman = NULL] \in LeadRow
    BY <1>2, <1>4, NothingHandled DEF LeadRow
  <1>9. [old EXCEPT !.own = own, !.active = TRUE, !.stage = "FRESH"] \in LeadRow
    BY <1>2, <1>4, Policies DEF LeadRow
  <1>10. Differs(A(own), l) /\ Differs(I(own), l)
    BY <1>2, <1>8, <1>9 DEF Differs, TypeInv, TypeOK
  <1>11. A(own)[l].stage # "ABSENT" /\ I(own)[l].stage # "ABSENT"
    <2>1. A(own)[l] = [old EXCEPT !.own = own, !.salesman = NULL]
      BY <1>2 DEF TypeInv, TypeOK
    <2>2. I(own)[l] = [old EXCEPT !.own = own, !.active = TRUE, !.stage = "FRESH"]
      BY <1>2 DEF TypeInv, TypeOK
    <2>3. A(own)[l].stage = old.stage BY <1>2, <2>1 DEF LeadRow
    <2>4. I(own)[l].stage = "FRESH" BY <1>2, <2>2 DEF LeadRow
    <2> QED BY <1>6, <2>3, <2>4
  <1> DEFINE D == detached \cup {l}
  <1>12. l \in D /\ \A k \in Leads \ {l} : k \in D <=> k \in detached OBVIOUS
  <1> HIDE DEF A, I, D
  <1>13. ASSUME NEW L, Differs(L, l), L[l].stage # "ABSENT",
                Escalate(L, sla, l, D)
         PROVE  Touched(l, NULL)
    <2>1. InOrder(l)'
      BY <1>12, <1>13 DEF Escalate, InOrder, AbsentHasNoDeadline
    <2> QED BY <1>2, <1>12, <1>13, <2>1, NothingHandled, EscalateTouches
  <1>14. CASE old.active
    BY <1>2, <1>3, <1>5, <1>10, <1>11, <1>13, <1>14 DEF D
  <1>15. CASE ~old.active
    <2>1. Distribute(I(own), sla, l, old.salesman, D) BY <1>3, <1>15 DEF D
    <2>2. Escalate(I(own), sla, l, D) => Touched(l, NULL)
      BY <1>10, <1>11, <1>13
    <2>3. Touched(l, NULL)
      BY <1>2, <1>7, <1>10, <2>1, <2>2, NothingHandled, DistributeTouches
    <2> QED BY <1>2, <1>5, <2>3
  <1> QED BY <1>14, <1>15

LEMMA ProcessShape ==
    ASSUME TypeInv, AllInOrder, NEW w \in Workers, Process(w)
    PROVE  \E l \in Leads, b \in Clock :
              Handles(l, b) /\ Touched(l, b) /\ RunMoves(b)
  <1>a. PICK s \in SlaIds : s = worker[w].sla
    BY DEF Process, TypeInv, RunsHoldRows
  <1>1. s \in SlaIds /\ sla[s].status # "UNUSED"
    BY <1>a DEF Process, TypeInv, RunsHoldRows
  <1>b. PICK l \in Leads : l = sla[s].lead BY <1>1 DEF TypeInv, RowsHaveLead
  <1> DEFINE seen == worker[w].owner
             S == [sla EXCEPT ![s].status = "BREACHED"]
  <1>2. l \in Leads OBVIOUS
  <1>3. Handles(l, s) BY <1>1, <1>b DEF Handles
  <1>4. s # NULL /\ s \in Clock BY <1>1, NullIsNoId DEF Clock
  <1>5. S = BreachedRows(s) BY <1>4 DEF BreachedRows
  <1>6. seen \in Person BY DEF TypeInv, TypeOK, Run
  <1>7. RunMoves(s)
    <2>1. breaches' = [breaches EXCEPT ![s] = @ \cup {w}]
          /\ worker' = [worker EXCEPT ![w] = Idle]
      BY <1>a DEF Process
    <2> QED BY <1>1, <1>a, <2>1 DEF RunMoves, TypeInv, TypeOK
  <1>8. \/ Escalate(lead, S, l, detached)
        \/ Distribute(lead, S, l, seen, detached)
        \/ \E pool \in Pools : \E m \in Candidates(pool, seen) :
              Assign(lead, S, l, m)
    BY <1>a, <1>b DEF Process
  <1>9. Differs(lead, l) BY DEF Differs, TypeInv, TypeOK
  <1> HIDE DEF S, seen
  <1>10. S \in [SlaIds -> SlaRow]
         /\ \A t \in SlaIds : /\ S[t].lead = sla[t].lead
                              /\ S[t].owner = sla[t].owner
                              /\ t = s => S[t].status = "BREACHED"
                              /\ t # s => S[t] = sla[t]
    BY <1>2, <1>3, <1>4, <1>5, BreachedAt
  <1>11. ASSUME Escalate(lead, S, l, detached) PROVE Touched(l, s)
    <2>1. UNCHANGED <<lead, detached>> /\ sla' = S BY <1>11 DEF Escalate
    <2>2. l \notin detached => MatchesLead(l)
      BY <1>2 DEF AllInOrder, InOrder
    <2>3. l \notin detached' => MatchesLead(l)'
      <3> SUFFICES ASSUME l \notin detached PROVE MatchesLead(l)' BY <2>1
      <3>1. \A t \in ActiveOf(sla', l) : t \in ActiveOf(sla, l)
        BY <1>10, <2>1 DEF ActiveOf
      <3>2. \A t \in ActiveOf(sla', l) :
              lead'[l].deadline = t /\ lead'[l].salesman = sla'[t].owner
        BY <1>10, <2>1, <2>2, <3>1 DEF MatchesLead, ActiveOf
      <3>3. lead[l].deadline \in Clock
        BY <1>2 DEF TypeInv, TypeOK, LeadRow
      <3>4. lead'[l].deadline # NULL =>
              /\ sla'[lead'[l].deadline].lead = l
              /\ sla'[lead'[l].deadline].status \in {"ACTIVE", "BREACHED"}
        BY <1>10, <2>1, <2>2, <3>3 DEF MatchesLead, Clock
      <3> QED BY <3>2, <3>4 DEF MatchesLead
    <2>4. AbsentHasNoDeadline(l)'
      BY <1>2, <2>1 DEF AllInOrder, InOrder, AbsentHasNoDeadline
    <2>5. InOrder(l)' BY <2>3, <2>4 DEF InOrder
    <2> QED BY <1>2, <1>3, <1>4, <1>5, <1>9, <1>10, <1>11, <2>5, EscalateTouches
  <1>12. CASE Distribute(lead, S, l, seen, detached)
    <2>1. Touched(l, s)
      BY <1>2, <1>3, <1>4, <1>5, <1>6, <1>9, <1>10, <1>11, <1>12,
         DistributeTouches
    <2> QED BY <1>2, <1>3, <1>4, <1>7, <2>1
  <1>13. CASE \E pool \in Pools : \E m \in Candidates(pool, seen) :
                 Assign(lead, S, l, m)
    <2>1. PICK pool \in Pools : \E m \in Candidates(pool, seen) :
                 Assign(lead, S, l, m)
      BY <1>13
    <2>2. PICK m \in Candidates(pool, seen) : Assign(lead, S, l, m) BY <2>1
    <2>3. m \in Person BY DEF Candidates, Pools, Person
    <2>4. Touched(l, s)
      BY <1>2, <1>3, <1>4, <1>5, <1>9, <1>10, <2>2, <2>3, AssignTouches
    <2> QED BY <1>2, <1>3, <1>4, <1>7, <2>4
  <1> QED BY <1>2, <1>3, <1>4, <1>7, <1>8, <1>11, <1>12, <1>13

\* Every step either writes no row or has the shape of Touched.
LEMMA NextShape ==
    ASSUME TypeInv, AllInOrder, [Next]_vars
    PROVE  Quiet \/ \E l \in Leads, b \in Clock :
                       Handles(l, b) /\ Touched(l, b) /\ RunMoves(b)
  <1>1. CASE \E l \in Leads : Request(l)
    BY <1>1, RequestShape, NothingHandled
  <1>2. CASE \E b \in Web : MergeDuplicate(b)
    BY <1>2, MergeShape, NothingHandled
  <1>3. CASE \E s \in SlaIds : Enqueue(s) \/ LoseCallback(s)
    BY <1>3 DEF Enqueue, LoseCallback, Quiet, Armed, TypeInv, TypeOK
  <1>4. CASE \E w \in Workers, s \in SlaIds : Deliver(w, s)
    <2>1. PICK w \in Workers, s \in SlaIds : Deliver(w, s) BY <1>4
    <2>2. UNCHANGED <<lead, sla, breaches, escalated, detached>>
      BY <2>1 DEF Deliver
    <2>3. ASSUME NEW t \in SlaIds, sla[t].status = "ACTIVE", Armed(t)
          PROVE  Armed(t)'
      <3>1. CASE t = s
        <4>1. worker' = [worker EXCEPT ![w] =
                            [sla |-> s, owner |-> lead[sla[s].lead].salesman]]
          BY <2>1, <2>3, <3>1 DEF Deliver
        <4>2. worker'[w].sla = s BY <4>1 DEF TypeInv, TypeOK
        <4> QED BY <3>1, <4>2 DEF Armed
      <3>2. CASE t # s
        <4>1. task'[t] = task[t] BY <2>1, <3>2 DEF Deliver, TypeInv, TypeOK
        <4>2. worker[w].sla = NULL BY <2>1 DEF Deliver, Idle
        <4>3. \A v \in Workers : worker[v].sla = t => worker'[v] = worker[v]
          BY <2>1, <2>3, <4>2, NullIsNoId DEF Deliver, TypeInv, TypeOK
        <4> QED BY <2>3, <4>1, <4>3 DEF Armed
      <3> QED BY <3>1, <3>2
    <2> QED BY <2>2, <2>3 DEF Quiet
  <1>5. CASE \E w \in Workers : Process(w)
    BY <1>5, ProcessShape
  <1>6. CASE \E w \in Workers : Abort(w)
    <2>1. PICK w \in Workers : Abort(w) BY <1>6
    <2>2. UNCHANGED <<lead, sla, breaches, escalated, detached>>
      BY <2>1 DEF Abort
    <2>3. ASSUME NEW t \in SlaIds, Armed(t) PROVE Armed(t)'
      <3>1. CASE worker[w].sla = t
        <4>1. task'[t] = IF task[t] = "none" THEN "lost" ELSE task[t]
          BY <2>1, <3>1 DEF Abort, TypeInv, TypeOK
        <4>2. task[t] \in {"none", "unsent", "queued", "lost"}
          BY DEF TypeInv, TypeOK
        <4> QED BY <4>1, <4>2 DEF Armed
      <3>2. CASE worker[w].sla # t
        <4>1. task'[t] = task[t] BY <2>1, <3>2 DEF Abort, TypeInv, TypeOK
        <4>2. \A v \in Workers : worker[v].sla = t => worker'[v] = worker[v]
          BY <2>1, <3>2 DEF Abort, TypeInv, TypeOK
        <4> QED BY <2>3, <4>1, <4>2 DEF Armed
      <3> QED BY <3>1, <3>2
    <2> QED BY <2>2, <2>3 DEF Quiet
  <1>7. CASE UNCHANGED vars BY <1>7 DEF vars, Quiet, Armed
  <1> QED BY <1>1, <1>2, <1>3, <1>4, <1>5, <1>6, <1>7 DEF Next, ReliableNext

LEMMA FormsStep ==
    ASSUME TypeInv, FormsHoldLeads, [Next]_vars
    PROVE  FormsHoldLeads'
  <1>1. ASSUME NEW l \in Leads, NEW b \in Web, ReadDuplicate(b, l)
        PROVE  FormsHoldLeads'
    BY <1>1 DEF ReadDuplicate, Exists, FormsHoldLeads, TypeInv, TypeOK
  <1>2. ASSUME NEW b \in Web, MergeDuplicate(b) PROVE FormsHoldLeads'
    BY <1>2 DEF MergeDuplicate, FormsHoldLeads, TypeInv, TypeOK
  <1>3. ASSUME UNCHANGED form PROVE FormsHoldLeads'
    BY <1>3 DEF FormsHoldLeads
  <1> QED BY <1>1, <1>2, <1>3
          DEF Next, ReliableNext, Request, CreateAssigned, CreateUnassigned,
              ChangeStage, ScheduleUnassigned, AssignManually, Deactivate,
              Reactivate, BulkReactivate, Enqueue, LoseCallback, Deliver,
              Process, Abort, vars

\* The rows of the other leads' instances stay as they are.
LEMMA OthersKeepRows ==
    ASSUME TypeInv, NEW l \in Leads, NEW b \in Clock, NEW m \in Person,
           NEW c \in Clock, RowMoves(l, b, m, c), NEW k \in Leads, k # l
    PROVE  /\ ActiveOf(sla', k) = ActiveOf(sla, k)
           /\ \A s \in SlaIds :
                 sla[s].lead = k /\ sla[s].status # "UNUSED" =>
                    /\ sla'[s].lead = k
                    /\ sla'[s].status = sla[s].status
                    /\ sla'[s].owner = sla[s].owner
  <1>2. ASSUME NEW s \in SlaIds, sla[s].lead = k, sla[s].status # "UNUSED"
        PROVE  sla'[s].lead = k /\ sla'[s].status = sla[s].status
               /\ sla'[s].owner = sla[s].owner
    BY <1>2 DEF RowMoves, ActiveOf
  <1>3. ASSUME NEW s \in SlaIds, sla'[s].lead = k, sla'[s].status = "ACTIVE"
        PROVE  sla[s].lead = k /\ sla[s].status = "ACTIVE"
    BY <1>3 DEF RowMoves, ActiveOf
  <1>4. ActiveOf(sla', k) = ActiveOf(sla, k)
    BY <1>2, <1>3 DEF ActiveOf
  <1> QED BY <1>2, <1>4

\* One touched lead, the others left alone: every lead stays in order.
LEMMA TouchedInOrder ==
    ASSUME TypeInv, AllInOrder, NEW l \in Leads, NEW b \in Clock, Touched(l, b),
           NEW k \in Leads
    PROVE  InOrder(k)'
  <1>1. PICK m \in Person, c \in Clock : Touch(l, b, m, c) BY DEF Touched
  <1>2. CASE k = l BY <1>1, <1>2 DEF Touch
  <1>3. CASE k # l
    <2>1. lead'[k] = lead[k] /\ (k \in detached' <=> k \in detached)
      BY <1>1, <1>3 DEF Touch, OtherLeads
    <2>2. InOrder(k) BY DEF AllInOrder
    <2>3. ActiveOf(sla', k) = ActiveOf(sla, k)
          /\ \A s \in SlaIds :
                sla[s].lead = k /\ sla[s].status # "UNUSED" =>
                   /\ sla'[s].lead = k
                   /\ sla'[s].status = sla[s].status
                   /\ sla'[s].owner = sla[s].owner
      BY <1>1, <1>3, OthersKeepRows DEF Touch
    <2>4. lead[k].deadline \in Clock BY DEF TypeInv, TypeOK, LeadRow
    <2>5. ASSUME MatchesLead(k) PROVE MatchesLead(k)'
      <3>1. \A s \in ActiveOf(sla, k) :
              lead'[k].deadline = s /\ lead'[k].salesman = sla'[s].owner
        BY <2>1, <2>3, <2>5 DEF MatchesLead, ActiveOf
      <3>2. lead'[k].deadline # NULL =>
              /\ sla'[lead'[k].deadline].lead = k
              /\ sla'[lead'[k].deadline].status \in {"ACTIVE", "BREACHED"}
        BY <2>1, <2>3, <2>4, <2>5 DEF MatchesLead, Clock
      <3> QED BY <2>3, <3>1, <3>2 DEF MatchesLead
    <2> QED BY <2>1, <2>2, <2>5 DEF InOrder, AbsentHasNoDeadline
  <1> QED BY <1>2, <1>3

LEMMA QuietInOrder ==
    ASSUME AllInOrder, Quiet, NEW k \in Leads
    PROVE  InOrder(k)'
  BY DEF AllInOrder, Quiet, InOrder, AbsentHasNoDeadline, MatchesLead, ActiveOf

LEMMA OrderInit == Init => AllInOrder
  BY NullIsNoId DEF Init, AllInOrder, InOrder, MatchesLead, ActiveOf, Absent,
                    Unused, AbsentHasNoDeadline, FormsHoldLeads

LEMMA OrderStep == TypeInv /\ AllInOrder /\ [Next]_vars => AllInOrder'
  <1> SUFFICES ASSUME TypeInv, AllInOrder, [Next]_vars PROVE AllInOrder'
    OBVIOUS
  <1>1. FormsHoldLeads' BY FormsStep DEF AllInOrder
  <1>2. ASSUME NEW k \in Leads PROVE InOrder(k)'
    BY NextShape, QuietInOrder, TouchedInOrder
  <1> QED BY <1>1, <1>2 DEF AllInOrder

LEMMA Order == Spec => []AllInOrder
  BY OrderInit, OrderStep, TypeInvariant, PTL DEF Spec

\* Whenever a lead's row has been written under its lock, the instance that
\* runs is the one the row announces, against the row's salesman; and a deadline
\* the row announces is that of a running or breached instance of the lead.
THEOREM ClocksMatchLeads == Spec => []ClockMatchesLead
  <1>1. AllInOrder => ClockMatchesLead
    BY DEF AllInOrder, InOrder, ClockMatchesLead
  <1> QED BY <1>1, Order, PTL

-----------------------------------------------------------------------------
\* An instance opens only when every other instance of the lead has ended.
LEMMA OneClockStep ==
    TypeInv /\ AllInOrder /\ OneActiveClock /\ [Next]_vars => OneActiveClock'
  <1> SUFFICES ASSUME TypeInv, AllInOrder, OneActiveClock, [Next]_vars
               PROVE  OneActiveClock'
    OBVIOUS
  <1>1. CASE Quiet BY <1>1 DEF Quiet, OneActiveClock, ActiveOf
  <1>2. ASSUME NEW l \in Leads, NEW b \in Clock, Touched(l, b)
        PROVE  OneActiveClock'
    <2>1. PICK m \in Person, c \in Clock : Touch(l, b, m, c)
      BY <1>2 DEF Touched
    <2> SUFFICES ASSUME NEW k \in Leads,
                        NEW s \in ActiveOf(sla', k), NEW t \in ActiveOf(sla', k)
                 PROVE  s = t
      BY DEF OneActiveClock
    <2>2. CASE k # l
      BY <2>1, <2>2, OthersKeepRows DEF Touch, OneActiveClock
    <2>3. CASE k = l
      <3>1. \A r \in ActiveOf(sla', l) : r = c \/ r \in ActiveOf(sla, l)
        BY <2>1 DEF Touch, RowMoves, ActiveOf
      <3>2. s \in SlaIds /\ t \in SlaIds BY DEF ActiveOf
      <3>3. CASE c = NULL
        BY <2>3, <3>1, <3>2, <3>3, NullIsNoId DEF OneActiveClock
      <3>4. CASE c # NULL
        <4>1. \A r \in ActiveOf(sla', l) : r \in ActiveOf(sla, l) => r = c
          BY <2>1, <3>4 DEF Touch, OnlyRuns, ActiveOf
        <4> QED BY <2>3, <3>1, <4>1
      <3> QED BY <3>3, <3>4
    <2> QED BY <2>2, <2>3
  <1> QED BY <1>1, <1>2, NextShape

\* No mix of stage changes, assignments, expiries and re-submissions leaves a
\* lead with two running clocks.
THEOREM OneClock == Spec => []OneActiveClock
  <1>1. Init => OneActiveClock
    BY DEF Init, Unused, OneActiveClock, ActiveOf
  <1> QED BY <1>1, OneClockStep, TypeInvariant, Order, PTL DEF Spec

-----------------------------------------------------------------------------
LEMMA BreachStep ==
    TypeInv /\ AllInOrder /\ BreachRecorded /\ [Next]_vars => BreachRecorded'
  <1> SUFFICES ASSUME TypeInv, AllInOrder, BreachRecorded, [Next]_vars
               PROVE  BreachRecorded'
    OBVIOUS
  <1>1. CASE Quiet BY <1>1 DEF Quiet, BreachRecorded
  <1>2. ASSUME NEW l \in Leads, NEW b \in Clock,
               Handles(l, b), Touched(l, b), RunMoves(b)
        PROVE  BreachRecorded'
    <2>1. PICK m \in Person, c \in Clock : Touch(l, b, m, c)
      BY <1>2 DEF Touched
    <2> SUFFICES ASSUME NEW s \in SlaIds
                 PROVE  sla'[s].status = "BREACHED" <=> breaches'[s] # {}
      BY DEF BreachRecorded
    <2>2. sla[s].status = "BREACHED" <=> breaches[s] # {} BY DEF BreachRecorded
    <2>3. CASE s = b
      <3>1. breaches'[s] # {} BY <1>2, <2>3 DEF RunMoves
      <3>2. s # NULL BY NullIsNoId
      <3>3. s # c BY <1>2, <2>1, <2>3, <3>2 DEF Touch, RowMoves, Handles
      <3>4. sla'[s].status = "BREACHED"
        BY <2>1, <2>3, <3>3 DEF Touch, RowMoves
      <3> QED BY <3>1, <3>4
    <2>4. CASE s # b
      <3>1. breaches'[s] = breaches[s] BY <1>2, <2>4 DEF RunMoves
      <3>2. sla'[s].status = "BREACHED" <=> sla[s].status = "BREACHED"
        BY <2>1, <2>4 DEF Touch, RowMoves, ActiveOf
      <3> QED BY <2>2, <3>1, <3>2
    <2> QED BY <2>3, <2>4
  <1> QED BY <1>1, <1>2, NextShape

\* An instance is BREACHED exactly when a breach event names it.
THEOREM BreachesRecorded == Spec => []BreachRecorded
  <1>1. Init => BreachRecorded BY DEF Init, Unused, BreachRecorded
  <1> QED BY <1>1, BreachStep, TypeInvariant, Order, PTL DEF Spec

-----------------------------------------------------------------------------
LEMMA ArmedStep ==
    TypeInv /\ AllInOrder /\ RunningClockIsArmed /\ [Next]_vars
        => RunningClockIsArmed'
  <1> SUFFICES ASSUME TypeInv, AllInOrder, RunningClockIsArmed, [Next]_vars
               PROVE  RunningClockIsArmed'
    OBVIOUS
  <1>1. CASE Quiet BY <1>1 DEF Quiet, RunningClockIsArmed
  <1>2. ASSUME NEW l \in Leads, NEW b \in Clock, Touched(l, b), RunMoves(b)
        PROVE  RunningClockIsArmed'
    <2>1. PICK m \in Person, c \in Clock : Touch(l, b, m, c)
      BY <1>2 DEF Touched
    <2> SUFFICES ASSUME NEW s \in SlaIds, sla'[s].status = "ACTIVE"
                 PROVE  Armed(s)'
      BY DEF RunningClockIsArmed
    <2>2. CASE s = c BY <2>1, <2>2 DEF Touch, RowMoves, Armed
    <2>3. CASE s # c
      <3>1. s # b BY <2>1, <2>3 DEF Touch, RowMoves
      <3>2. task'[s] = task[s] BY <2>1, <2>3 DEF Touch, RowMoves
      <3>3. sla[s].status = "ACTIVE"
        BY <2>1, <2>3, <3>1 DEF Touch, RowMoves
      <3>4. \A w \in Workers : worker[w].sla = s => worker'[w] = worker[w]
        BY <1>2, <3>1 DEF RunMoves
      <3>5. Armed(s) BY <3>3 DEF RunningClockIsArmed
      <3> QED BY <3>2, <3>4, <3>5 DEF Armed
    <2> QED BY <2>2, <2>3
  <1> QED BY <1>1, <1>2, NextShape

\* No running clock is forgotten: its message is under way, a run of the task
\* holds it, or it was lost in one of the ways the code cannot notice.
THEOREM ClocksArmed == Spec => []RunningClockIsArmed
  <1>1. Init => RunningClockIsArmed BY DEF Init, Unused, RunningClockIsArmed
  <1> QED BY <1>1, ArmedStep, TypeInvariant, Order, PTL DEF Spec

-----------------------------------------------------------------------------
LEMMA StallStep ==
    TypeInv /\ AllInOrder /\ NoSilentStall /\ [Next]_vars => NoSilentStall'
  <1> SUFFICES ASSUME TypeInv, AllInOrder, NoSilentStall, [Next]_vars,
                      NEW k \in Leads
               PROVE  NotStalled(k)'
    BY DEF NoSilentStall
  <1>0. NotStalled(k) BY DEF NoSilentStall
  <1>1. CASE Quiet
    BY <1>0, <1>1 DEF Quiet, NotStalled, ActiveOf, Kept
  <1>2. ASSUME NEW l \in Leads, NEW b \in Clock, Touched(l, b)
        PROVE  NotStalled(k)'
    <2>1. PICK m \in Person, c \in Clock : Touch(l, b, m, c)
      BY <1>2 DEF Touched
    <2>2. CASE k = l BY <2>1, <2>2 DEF Touch
    <2>3. CASE k # l
      <3>1. lead'[k] = lead[k] /\ (k \in escalated' <=> k \in escalated)
        BY <2>1, <2>3 DEF Touch, OtherLeads
      <3>2. ActiveOf(sla', k) = ActiveOf(sla, k)
        BY <2>1, <2>3, OthersKeepRows DEF Touch
      <3> QED BY <1>0, <3>1, <3>2 DEF NotStalled, Kept
    <2> QED BY <2>2, <2>3
  <1> QED BY <1>1, <1>2, NextShape

\* An active lead whose salesman runs no clock is one the policies leave
\* without a clock, or the manual distributors were told of it.
THEOREM NoStall == Spec => []NoSilentStall
  <1>1. Init => NoSilentStall BY DEF Init, Absent, NoSilentStall, NotStalled
  <1> QED BY <1>1, StallStep, TypeInvariant, Order, PTL DEF Spec

-----------------------------------------------------------------------------
\* Whoever becomes a lead's owner finds it Fresh with a clock of his own.
THEOREM OwnersStartFresh == Spec => NewOwnerStartsFresh
  <1>1. TypeInv /\ AllInOrder /\ [Next]_vars
           => [\A l \in Leads : StartsFresh(l)]_vars
    <2> SUFFICES ASSUME TypeInv, AllInOrder, [Next]_vars, NEW k \in Leads
                 PROVE  StartsFresh(k)
      OBVIOUS
    <2>1. CASE Quiet BY <2>1 DEF Quiet, StartsFresh
    <2>2. ASSUME NEW l \in Leads, NEW b \in Clock, Touched(l, b)
          PROVE  StartsFresh(k)
      <3>1. PICK m \in Person, c \in Clock : Touch(l, b, m, c)
        BY <2>2 DEF Touched
      <3>2. CASE k = l BY <3>1, <3>2 DEF Touch
      <3>3. CASE k # l BY <3>1, <3>3 DEF Touch, OtherLeads, StartsFresh
      <3> QED BY <3>2, <3>3
    <2> QED BY <2>1, <2>2, NextShape
  <1> QED BY <1>1, TypeInvariant, Order, PTL DEF Spec, NewOwnerStartsFresh

-----------------------------------------------------------------------------
(***************************************************************************)
(* The clocks implement RunningClock: a step that opens an instance starts *)
(* a clock, one that ends the running instance stops it, and every other   *)
(* step stutters.                                                          *)
(***************************************************************************)

Running == [l \in Leads |-> RunningOf(sla, l)]
Spent == {s \in SlaIds : sla[s].status # "UNUSED"}

\* What RunningOf shows of rows S: their one ACTIVE instance, if any.
LEMMA RunningIs ==
    ASSUME NEW S, NEW l \in Leads, NEW s \in ActiveOf(S, l),
           \A t \in ActiveOf(S, l) : t = s
    PROVE  RunningOf(S, l) = [id |-> s, owner |-> S[s].owner]
  <1>1. (CHOOSE t \in ActiveOf(S, l) : TRUE) = s OBVIOUS
  <1>2. ActiveOf(S, l) # {} OBVIOUS
  <1> QED BY <1>1, <1>2 DEF RunningOf

LEMMA RunningNot ==
    ASSUME NEW S, NEW l \in Leads, ActiveOf(S, l) = {}
    PROVE  RunningOf(S, l) = NULL
  BY DEF RunningOf

LEMMA RefineInit == Init => Promise!Init
  <1> SUFFICES ASSUME Init PROVE Promise!Init OBVIOUS
  <1>1. \A l \in Leads : ActiveOf(sla, l) = {}
    BY DEF Init, Unused, ActiveOf
  <1>2. \A l \in Leads : RunningOf(sla, l) = NULL BY <1>1, RunningNot
  <1>3. {s \in SlaIds : sla[s].status # "UNUSED"} = {}
    BY DEF Init, Unused
  <1> QED BY <1>2, <1>3 DEF Promise!Init

LEMMA TouchRefines ==
    ASSUME TypeInv, OneActiveClock, OneActiveClock', NEW l \in Leads,
           NEW b \in Clock, Handles(l, b), NEW m \in Person, NEW c \in Clock,
           Touch(l, b, m, c)
    PROVE  [Promise!Next]_<<Running, Spent>>
  <1>1. ASSUME NEW k \in Leads, k # l
        PROVE  RunningOf(sla', k) = RunningOf(sla, k)
    <2>1. /\ ActiveOf(sla', k) = ActiveOf(sla, k)
          /\ \A s \in ActiveOf(sla, k) : sla'[s].owner = sla[s].owner
      BY <1>1, OthersKeepRows DEF Touch, ActiveOf
    <2>2. CASE ActiveOf(sla, k) = {} BY <2>1, <2>2, RunningNot
    <2>3. CASE ActiveOf(sla, k) # {}
      <3>1. PICK s \in ActiveOf(sla, k) : TRUE BY <2>3
      <3>2. \A t \in ActiveOf(sla, k) : t = s BY <3>1 DEF OneActiveClock
      <3>3. RunningOf(sla, k) = [id |-> s, owner |-> sla[s].owner]
        BY <3>2, RunningIs
      <3>4. RunningOf(sla', k) = [id |-> s, owner |-> sla'[s].owner]
        BY <2>1, <3>2, RunningIs
      <3> QED BY <2>1, <3>3, <3>4
    <2> QED BY <2>2, <2>3
  <1>2. CASE c # NULL
    <2>1. c \in SlaIds BY <1>2 DEF Clock
    <2>2. /\ sla[c].status = "UNUSED"
          /\ sla'[c] = [lead |-> l, owner |-> m, status |-> "ACTIVE"]
      BY <2>1 DEF Touch, RowMoves
    <2>3. c \in ActiveOf(sla', l) BY <2>1, <2>2 DEF ActiveOf
    <2>4. \A t \in ActiveOf(sla', l) : t = c
      BY <2>3 DEF OneActiveClock
    <2>5. RunningOf(sla', l) = [id |-> c, owner |-> m]
      BY <2>2, <2>3, <2>4, RunningIs
    <2>6. Running' = [Running EXCEPT ![l] = [id |-> c, owner |-> m]]
      BY <1>1, <2>5 DEF Running
    <2>7. c \notin Spent BY <2>2 DEF Spent
    <2>8. Spent' = Spent \cup {c}
      <3>1. \A s \in SlaIds \ {c} :
              sla'[s].status = "UNUSED" <=> sla[s].status = "UNUSED"
        BY DEF Touch, RowMoves, ActiveOf
      <3> QED BY <2>1, <2>2, <3>1 DEF Spent
    <2>9. Promise!Start(l, c, m)
      BY <2>6, <2>7, <2>8 DEF Promise!Start, Running, Spent
    <2> QED BY <2>1, <2>9 DEF Promise!Next
  <1>3. CASE c = NULL
    <2>1. \A s \in SlaIds : s # c BY <1>3, NullIsNoId
    <2>2. Spent' = Spent
      <3>1. \A s \in SlaIds :
              sla'[s].status = "UNUSED" <=> sla[s].status = "UNUSED"
        BY <2>1 DEF Touch, RowMoves, ActiveOf
      <3> QED BY <3>1 DEF Spent
    <2>3. CASE ActiveOf(sla', l) = {}
      <3>1. RunningOf(sla', l) = NULL BY <2>3, RunningNot
      <3>2. Running' = [Running EXCEPT ![l] = NULL]
        BY <1>1, <3>1 DEF Running
      <3>3. Promise!Stop(l) BY <2>2, <3>2 DEF Promise!Stop, Running, Spent
      <3> QED BY <3>3 DEF Promise!Next
    <2>4. CASE ActiveOf(sla', l) # {}
      <3>1. PICK s \in ActiveOf(sla', l) : TRUE BY <2>4
      <3>2. s \in ActiveOf(sla, l) /\ sla'[s].owner = sla[s].owner
        BY <2>1, <3>1 DEF Touch, RowMoves, ActiveOf
      <3>3. /\ \A t \in ActiveOf(sla, l) : t = s
            /\ \A t \in ActiveOf(sla', l) : t = s
        BY <3>1, <3>2 DEF OneActiveClock
      <3>4. RunningOf(sla', l) = RunningOf(sla, l)
        <4>1. RunningOf(sla, l) = [id |-> s, owner |-> sla[s].owner]
          BY <3>2, <3>3, RunningIs
        <4>2. RunningOf(sla', l) = [id |-> s, owner |-> sla'[s].owner]
          BY <3>1, <3>3, RunningIs
        <4> QED BY <3>2, <4>1, <4>2
      <3>5. Running' = Running BY <1>1, <3>4 DEF Running
      <3> QED BY <2>2, <3>5
    <2> QED BY <2>3, <2>4
  <1> QED BY <1>2, <1>3

LEMMA RefineStep ==
    TypeInv /\ AllInOrder /\ OneActiveClock /\ OneActiveClock' /\ [Next]_vars
        => [Promise!Next]_Promise!vars
  <1> SUFFICES ASSUME TypeInv, AllInOrder, OneActiveClock, OneActiveClock',
                      [Next]_vars
               PROVE  [Promise!Next]_<<Running, Spent>>
    BY DEF Promise!vars, Running, Spent
  <1>1. CASE Quiet
    <2>1. UNCHANGED sla BY <1>1 DEF Quiet
    <2>2. Running' = Running /\ Spent' = Spent BY <2>1 DEF Running, Spent
    <2> QED BY <2>2
  <1>2. ASSUME NEW l \in Leads, NEW b \in Clock, Handles(l, b), Touched(l, b)
        PROVE  [Promise!Next]_<<Running, Spent>>
    BY <1>2, TouchRefines DEF Touched
  <1> QED BY <1>1, <1>2, NextShape

\* Whatever happens to a lead, one clock at most runs for it, against an owner
\* who does not change while it runs, and a clock that stopped never runs again.
THEOREM ClocksRefine == Spec => ClocksKeepPromise
  <1>1. Spec => [][Promise!Next]_Promise!vars
    BY RefineStep, TypeInvariant, Order, OneClock, PTL DEF Spec
  <1> QED BY <1>1, RefineInit, PTL DEF Spec, Promise!Spec, ClocksKeepPromise
=============================================================================
