------------------------------ MODULE LeadSla ------------------------------
(***************************************************************************)
(* The life of a lead and of its SLA clocks.                               *)
(*                                                                         *)
(* A lead is a database row.  While a salesman works it, an SLAInstance    *)
(* row with status ACTIVE (a "clock") runs against him; opening the clock  *)
(* schedules one Celery message that fires at the deadline and rotates the *)
(* lead.  Web requests run each in one transaction that locks the lead     *)
(* row, so a request is one action here.  Two pieces of the code are NOT   *)
(* covered by that lock and are split into two actions:                    *)
(*   - the expiry task reads the instance and its lead without a lock and  *)
(*     handles them in a later transaction (Deliver, then Process);        *)
(*   - a re-submitted phone reads the existing lead without a lock and     *)
(*     saves the whole row back (ReadDuplicate, then MergeDuplicate).      *)
(* Time is not modelled: a deadline may pass at any moment, and a deadline *)
(* is named by the instance it belongs to.  Teams, notifications, audit    *)
(* and the choice a strategy makes among the candidates are abstracted.    *)
(***************************************************************************)
EXTENDS FiniteSets

CONSTANTS
    Leads,         \* lead ids
    Salesmen,      \* users a lead can be assigned to
    SlaIds,        \* SLAInstance ids (bound: how many clocks may be opened)
    Workers,       \* Celery worker slots running expire_sla_instance
    Web,           \* web processes handling a re-submitted phone
    NULL,          \* a NULL column, and an empty memory
    CreatedBy,     \* the creator of each lead if he is in a team, else NULL
    Stages,        \* the stage codes in use
    ClockStages,   \* stages for which the company's policies give a duration
    KeepWithOwner, \* policy: self-generated leads stay with their creator
    BrokerLeads,   \* leads of origin BROKER
    ExpiryMethod,  \* policy lead.sla_expiry_method
    ScopeMode      \* policy: the distribution scope mode

Person == Salesmen \cup {NULL}
Clock == SlaIds \cup {NULL}

ASSUME NullIsNoId == NULL \notin Salesmen \cup SlaIds \cup Leads
ASSUME Policies ==
    /\ CreatedBy \in [Leads -> Person]
    /\ {"FRESH", "NOT_INTERESTED"} \subseteq Stages /\ "ABSENT" \notin Stages
    /\ ClockStages \subseteq Stages \ {"NOT_INTERESTED"}
    /\ KeepWithOwner \in BOOLEAN
    /\ BrokerLeads \subseteq Leads
    /\ ExpiryMethod \in {"ROUND_ROBIN", "BY_TURN", "RETRY_TEAM_ESCALATION",
                         "MANUAL"}
    /\ ScopeMode \in {"TEAM_THEN_SALESMAN", "TEAM_HEAD_DECIDES",
                      "ALL_SALESMEN"}

VARIABLES
    lead,       \* the Lead rows
    sla,        \* the SLAInstance rows
    task,       \* the expiry message of each instance
    worker,     \* what each expire_sla_instance run has read
    form,       \* what each re-submission has read
    breaches,   \* the SLABreachEvent rows of each instance, by the run that wrote them
    escalated,  \* leads sent to the manual distributors since last assigned
    detached    \* leads whose row was last written with no regard to their clock

vars == <<lead, sla, task, worker, form, breaches, escalated, detached>>

Closed == {"COMPLETED", "CANCELLED", "BREACHED"}

\* own: the lead's source is SELF_GENERATED.
LeadRow == [stage : Stages \cup {"ABSENT"}, active : BOOLEAN, own : BOOLEAN,
            salesman : Person, deadline : Clock]
SlaRow == [lead : Leads \cup {NULL}, owner : Person,
           status : {"UNUSED", "ACTIVE"} \cup Closed]
Run == [sla : Clock, owner : Person]
Form == [lead : Leads, row : LeadRow]

TypeOK ==
    /\ lead \in [Leads -> LeadRow]
    /\ sla \in [SlaIds -> SlaRow]
    /\ task \in [SlaIds -> {"none", "unsent", "queued", "lost"}]
    /\ worker \in [Workers -> Run]
    /\ form \in [Web -> Form \cup {NULL}]
    /\ breaches \in [SlaIds -> SUBSET Workers]
    /\ escalated \subseteq Leads
    /\ detached \subseteq Leads

Absent == [stage |-> "ABSENT", active |-> FALSE, own |-> FALSE,
           salesman |-> NULL, deadline |-> NULL]
Unused == [lead |-> NULL, owner |-> NULL, status |-> "UNUSED"]
Idle == [sla |-> NULL, owner |-> NULL]

Init ==
    /\ lead = [l \in Leads |-> Absent]
    /\ sla = [s \in SlaIds |-> Unused]
    /\ task = [s \in SlaIds |-> "none"]
    /\ worker = [w \in Workers |-> Idle]
    /\ form = [b \in Web |-> NULL]
    /\ breaches = [s \in SlaIds |-> {}]
    /\ escalated = {}
    /\ detached = {}

-----------------------------------------------------------------------------
(***************************************************************************)
(* The services the handlers are made of.  L and S are the lead and SLA    *)
(* rows as the current transaction sees them.                              *)
(***************************************************************************)

Exists(l) == lead[l].stage # "ABSENT"

ActiveOf(S, l) == {s \in SlaIds : S[s].lead = l /\ S[s].status = "ACTIVE"}

\* Mutant of NewClock: a closed instance is taken up again.
NewClockReused(stage) ==
    IF stage \in ClockStages
    THEN {s \in SlaIds : sla[s].status \in {"UNUSED", "COMPLETED"}}
    ELSE {NULL}

\* The clocks a policy-driven deadline can give: a fresh one, or none when the
\* company's policy gives the stage no duration.
NewClock(stage) ==
    IF stage \in ClockStages THEN {s \in SlaIds : sla[s].status = "UNUSED"}
                             ELSE {NULL}

\* update(status=...) over the lead's ACTIVE instances.
Ended(S, l, status) ==
    [s \in SlaIds |-> IF s \in ActiveOf(S, l)
                      THEN [S[s] EXCEPT !.status = status] ELSE S[s]]

\* Mutant of Opened: the clock that runs is left running.
OpenedBeside(S, l, owner, c) ==
    [s \in SlaIds |->
        IF s = c THEN [lead |-> l, owner |-> owner, status |-> "ACTIVE"]
                 ELSE S[s]]

Opened(S, l, owner, c) ==
    [s \in SlaIds |->
        IF s = c THEN [lead |-> l, owner |-> owner, status |-> "ACTIVE"]
                 ELSE Ended(S, l, "COMPLETED")[s]]

\* The revoked messages R are those of ACTIVE instances whose task id is
\* already stored; a worker may miss a revocation, so R is any subset of them.
Revocable(S, l) == {s \in ActiveOf(S, l) : task[s] = "queued"}

\* Mutant of open_instance: it revokes after it has scheduled.
open_then_revoke(S, l, owner, c) ==
    /\ sla' = Opened(S, l, owner, c)
    /\ \E R \in SUBSET (Revocable(S, l) \cup (SlaIds \cap {c})) :
         task' = [s \in SlaIds |-> IF s \in R THEN "none"
                                   ELSE IF s = c THEN "unsent" ELSE task[s]]

open_instance(S, l, owner, c) ==
    /\ sla' = Opened(S, l, owner, c)
    /\ \E R \in SUBSET Revocable(S, l) :
         task' = [s \in SlaIds |-> IF s = c THEN "unsent"
                                   ELSE IF s \in R THEN "none" ELSE task[s]]

\* Whether the source is SELF_GENERATED matters only to a lead created by a
\* member of a team.
Sources(l) == IF CreatedBy[l] = NULL THEN {FALSE} ELSE BOOLEAN

\* A self-generated lead the policy leaves with its creator runs no SLA.
Kept(l, row) ==
    /\ KeepWithOwner
    /\ row.own
    /\ row.salesman # NULL
    /\ row.salesman = CreatedBy[l]

change_stage(L, l, to_stage) ==
    /\ IF to_stage = "NOT_INTERESTED" \/ Kept(l, L[l])
       THEN /\ lead' = [L EXCEPT ![l] =
                 [@ EXCEPT !.stage = to_stage, !.deadline = NULL,
                           !.active = L[l].active /\ to_stage # "NOT_INTERESTED"]]
            /\ sla' = Ended(sla, l, "CANCELLED")
            /\ UNCHANGED task
       ELSE \E c \in NewClock(to_stage) :
            /\ lead' = [L EXCEPT ![l] =
                 [@ EXCEPT !.stage = to_stage, !.deadline = c]]
            /\ open_instance(sla, l, L[l].salesman, c)
    /\ detached' = detached \ {l}
    /\ UNCHANGED escalated

\* Mutants of Assign: the stage is kept, no clock is opened, the clock is opened
\* before the row has its new salesman.
AssignKeepsStage(L, S, l, salesman) ==
    /\ \E c \in NewClock("FRESH") :
         /\ lead' = [L EXCEPT ![l] =
              [@ EXCEPT !.salesman = salesman, !.deadline = c]]
         /\ open_instance(S, l, salesman, c)
    /\ escalated' = escalated \ {l}
    /\ detached' = detached \ {l}
AssignWithoutClock(L, S, l, salesman) ==
    /\ lead' = [L EXCEPT ![l] =
         [@ EXCEPT !.stage = "FRESH", !.salesman = salesman, !.deadline = NULL]]
    /\ sla' = Ended(S, l, "COMPLETED")
    /\ escalated' = escalated \ {l}
    /\ detached' = detached \ {l}
    /\ UNCHANGED task
AssignOpensFirst(L, S, l, salesman) ==
    /\ \E c \in NewClock("FRESH") :
         /\ lead' = [L EXCEPT ![l] =
              [@ EXCEPT !.stage = "FRESH", !.salesman = salesman,
                        !.deadline = c]]
         /\ open_instance(S, l, L[l].salesman, c)
    /\ escalated' = escalated \ {l}
    /\ detached' = detached \ {l}

\* _assign: the new owner starts Fresh with a full SLA.
Assign(L, S, l, salesman) ==
    /\ \E c \in NewClock("FRESH") :
         /\ lead' = [L EXCEPT ![l] =
              [@ EXCEPT !.stage = "FRESH", !.salesman = salesman,
                        !.deadline = c]]
         /\ open_instance(S, l, salesman, c)
    /\ escalated' = escalated \ {l}
    /\ detached' = detached \ {l}

\* Mutants of Escalate: it tells nobody, the rows are not saved.
EscalateSilently(L, S, l, D) ==
    /\ lead' = L
    /\ sla' = S
    /\ detached' = D
    /\ UNCHANGED <<task, escalated>>
EscalateUnsaved(L, S, l, D) ==
    /\ lead' = L
    /\ escalated' = escalated \cup {l}
    /\ detached' = D
    /\ UNCHANGED <<sla, task>>

\* ManualDistributionEscalation.notify: the rows stay as the transaction left
\* them, the leads of D with no regard to their clock.
Escalate(L, S, l, D) ==
    /\ lead' = L
    /\ sla' = S
    /\ escalated' = escalated \cup {l}
    /\ detached' = D
    /\ UNCHANGED task

\* The pool without the current owner, as the caller's lead object shows him.
Candidates(pool, seen) == IF pool \ {seen} = {} THEN pool ELSE pool \ {seen}

\* The strategy's choice: a candidate, or nobody when the head of the chosen
\* team is to decide.
Chosen(pool, seen) ==
    IF ScopeMode = "TEAM_HEAD_DECIDES" THEN {NULL} ELSE Candidates(pool, seen)

\* Availability, language and scope leave any set of salesmen eligible.
Pools == SUBSET Salesmen \ {{}}
Distribute(L, S, l, seen, D) ==
    \/ Escalate(L, S, l, D)
    \/ \E pool \in Pools : \E m \in Chosen(pool, seen) : Assign(L, S, l, m)

-----------------------------------------------------------------------------
(***************************************************************************)
(* Web requests.                                                           *)
(***************************************************************************)

NewRow(own, salesman, clock) ==
    [stage |-> "FRESH", active |-> TRUE, own |-> own, salesman |-> salesman,
     deadline |-> clock]

\* LeadCreationService.create with a salesman given by the caller, by the
\* self-generated rule or by an earlier client relationship.
CreateAssigned(l, own, m) ==
    /\ ~Exists(l)
    /\ IF Kept(l, NewRow(own, m, NULL))
       THEN /\ lead' = [lead EXCEPT ![l] = NewRow(own, m, NULL)]
            /\ UNCHANGED <<sla, task>>
       ELSE \E c \in NewClock("FRESH") :
            /\ lead' = [lead EXCEPT ![l] = NewRow(own, m, c)]
            /\ open_instance(sla, l, m, c)
    /\ UNCHANGED <<worker, form, breaches, escalated, detached>>

\* ... with none: distributed at once, or left for a manual distributor, who
\* is told of it unless the caller asked for silence (bulk import).
CreateUnassigned(l, own) ==
    /\ ~Exists(l)
    /\ LET L == [lead EXCEPT ![l] = NewRow(own, NULL, NULL)]
       IN \/ Distribute(L, sla, l, NULL, detached)
          \/ lead' = L /\ UNCHANGED <<sla, task, escalated, detached>>
    /\ UNCHANGED <<worker, form, breaches>>

\* LeadStageService.change_stage, alone or inside freeze, schedule, complete
\* and edit, when the request succeeds.
ChangeStage(l, to_stage) ==
    /\ Exists(l)
    /\ change_stage(lead, l, to_stage)
    /\ UNCHANGED <<worker, form, breaches>>

\* FollowUpService.schedule or MeetingService.schedule for a lead nobody is
\* assigned to: the reminder's user is NULL, so the transaction rolls back,
\* after open_instance has revoked the message of the lead's running clock.
ScheduleUnassigned(l) ==
    /\ Exists(l)
    /\ lead[l].salesman = NULL
    /\ \E R \in SUBSET Revocable(sla, l) :
         task' = [s \in SlaIds |-> IF s \in R THEN "lost" ELSE task[s]]
    /\ UNCHANGED <<lead, sla, worker, form, breaches, escalated, detached>>

\* ManualAssignmentService: to a salesman, or to a team (nobody in it yet).
AssignManually(l, m) ==
    /\ Exists(l)
    /\ Assign(lead, sla, l, m)
    /\ UNCHANGED <<worker, form, breaches>>

\* Mutant of Deactivate: the deadline is not cleared.
DeactivateKeepsDeadline(l) ==
    /\ Exists(l)
    /\ lead' = [lead EXCEPT ![l].active = FALSE]
    /\ sla' = Ended(sla, l, "CANCELLED")
    /\ detached' = detached \ {l}
    /\ UNCHANGED <<task, worker, form, breaches, escalated>>

Deactivate(l) ==
    /\ Exists(l)
    /\ lead' = [lead EXCEPT ![l] =
         [@ EXCEPT !.active = FALSE, !.deadline = NULL]]
    /\ sla' = Ended(sla, l, "CANCELLED")
    /\ detached' = detached \ {l}
    /\ UNCHANGED <<task, worker, form, breaches, escalated>>

Reactivate(l) ==
    /\ Exists(l)
    /\ change_stage([lead EXCEPT ![l].active = TRUE], l, "FRESH")
    /\ UNCHANGED <<worker, form, breaches>>

\* BulkLeadImportService.reactivate writes the row and leaves the clock alone.
BulkReactivate(l) ==
    /\ Exists(l)
    /\ lead' = [lead EXCEPT ![l] =
         [@ EXCEPT !.stage = "FRESH", !.active = TRUE, !.salesman = NULL,
                   !.deadline = NULL]]
    /\ detached' = detached \cup {l}
    /\ UNCHANGED <<sla, task, worker, form, breaches, escalated>>

\* DuplicateService.check: the existing lead, read without a lock.
ReadDuplicate(b, l) ==
    /\ form[b] = NULL
    /\ Exists(l)
    /\ form' = [form EXCEPT ![b] = [lead |-> l, row |-> lead[l]]]
    /\ UNCHANGED <<lead, sla, task, worker, breaches, escalated, detached>>

\* Mutant of MergeDuplicate: an inactive lead is taken up again and not dispatched.
MergeWithoutDispatch(b) ==
    /\ form[b] # NULL
    /\ LET l == form[b].lead
       IN \E own \in Sources(l) :
             lead' = [lead EXCEPT ![l] = [form[b].row EXCEPT !.own = own,
                                                            !.active = TRUE]]
    /\ detached' = detached \cup {form[b].lead}
    /\ form' = [form EXCEPT ![b] = NULL]
    /\ UNCHANGED <<sla, task, escalated, worker, breaches>>

\* LeadCreationService._merge_duplicate: saves every column of the row it
\* read, then sends an active lead to the manual distributors and distributes
\* an inactive one.
MergeDuplicate(b) ==
    /\ form[b] # NULL
    /\ LET l == form[b].lead
           old == form[b].row
       IN \E own \in Sources(l) :
          IF old.active
          THEN Escalate([lead EXCEPT ![l] = [old EXCEPT !.own = own,
                                                        !.salesman = NULL]],
                        sla, l, detached \cup {l})
          ELSE Distribute([lead EXCEPT ![l] = [old EXCEPT !.own = own,
                                                          !.active = TRUE,
                                                          !.stage = "FRESH"]],
                          sla, l, old.salesman, detached \cup {l})
    /\ form' = [form EXCEPT ![b] = NULL]
    /\ UNCHANGED <<worker, breaches>>

-----------------------------------------------------------------------------
(***************************************************************************)
(* The expiry message and the task it starts.                              *)
(***************************************************************************)

\* The on_commit callback of open_instance.
Enqueue(s) ==
    /\ task[s] = "unsent"
    /\ task' = [task EXCEPT ![s] = "queued"]
    /\ UNCHANGED <<lead, sla, worker, form, breaches, escalated, detached>>

\* The web process dies between its commit and that callback.
LoseCallback(s) ==
    /\ task[s] = "unsent"
    /\ task' = [task EXCEPT ![s] = "lost"]
    /\ UNCHANGED <<lead, sla, worker, form, breaches, escalated, detached>>

\* Mutants of Deliver: it reads the lead for its owner, it drops the message of a
\* lead nobody is assigned to.
DeliverMisread(w, s) ==
    /\ task[s] = "queued"
    /\ worker[w] = Idle
    /\ task' \in {task, [task EXCEPT ![s] = "none"]}
    /\ worker' = IF sla[s].status # "ACTIVE" THEN worker
                 ELSE [worker EXCEPT ![w] = [sla |-> s, owner |-> sla[s].lead]]
    /\ UNCHANGED <<lead, sla, form, breaches, escalated, detached>>
DeliverAssigned(w, s) ==
    /\ task[s] = "queued"
    /\ worker[w] = Idle
    /\ task' = [task EXCEPT ![s] = "none"]
    /\ worker' = IF \/ sla[s].status # "ACTIVE"
                    \/ lead[sla[s].lead].salesman = NULL
                 THEN worker
                 ELSE [worker EXCEPT ![w] =
                          [sla |-> s, owner |-> lead[sla[s].lead].salesman]]
    /\ UNCHANGED <<lead, sla, form, breaches, escalated, detached>>

\* expire_sla_instance starts: it reads the instance and its lead, without a
\* lock, and stops at once unless the instance is ACTIVE.  The broker may
\* deliver the same message again.
Deliver(w, s) ==
    /\ task[s] = "queued"
    /\ worker[w] = Idle
    /\ task' \in {task, [task EXCEPT ![s] = "none"]}
    /\ worker' = IF sla[s].status # "ACTIVE" THEN worker
                 ELSE [worker EXCEPT ![w] =
                          [sla |-> s, owner |-> lead[sla[s].lead].salesman]]
    /\ UNCHANGED <<lead, sla, form, breaches, escalated, detached>>

\* SLAExpiryService.process_instance, on what the task read.
Process(w) ==
    /\ worker[w] # Idle
    /\ LET s == worker[w].sla
           l == sla[s].lead
           seen == worker[w].owner
           S == [sla EXCEPT ![s].status = "BREACHED"]
           manual == ExpiryMethod = "MANUAL" \/ l \in BrokerLeads
           retry == ExpiryMethod = "RETRY_TEAM_ESCALATION"
       IN /\ breaches' = [breaches EXCEPT ![s] = @ \cup {w}]
          /\ \/ manual /\ Escalate(lead, S, l, detached)
             \/ ~manual /\ Distribute(lead, S, l, seen, detached)
             \/ /\ ~manual /\ retry
                /\ \E pool \in Pools : \E m \in Candidates(pool, seen) :
                      Assign(lead, S, l, m)
    /\ worker' = [worker EXCEPT ![w] = Idle]
    /\ UNCHANGED form

\* The run dies, or its transaction is the victim of a deadlock: the message
\* is already acknowledged and the task has no retry.
Abort(w) ==
    /\ worker[w] # Idle
    /\ worker' = [worker EXCEPT ![w] = Idle]
    /\ task' = [task EXCEPT ![worker[w].sla] = IF @ = "none" THEN "lost" ELSE @]
    /\ UNCHANGED <<lead, sla, form, breaches, escalated, detached>>

-----------------------------------------------------------------------------
Request(l) ==
    \/ \E own \in Sources(l), m \in Salesmen : CreateAssigned(l, own, m)
    \/ \E own \in Sources(l) : CreateUnassigned(l, own)
    \/ \E st \in Stages : ChangeStage(l, st)
    \/ ScheduleUnassigned(l)
    \/ \E m \in Person : AssignManually(l, m)
    \/ Deactivate(l)
    \/ Reactivate(l)
    \/ BulkReactivate(l)
    \/ \E b \in Web : ReadDuplicate(b, l)

ReliableNext ==
    \/ \E l \in Leads : Request(l)
    \/ \E b \in Web : MergeDuplicate(b)
    \/ \E s \in SlaIds : Enqueue(s)
    \/ \E w \in Workers, s \in SlaIds : Deliver(w, s)
    \/ \E w \in Workers : Process(w)

Next ==
    \/ ReliableNext
    \/ \E s \in SlaIds : LoseCallback(s)
    \/ \E w \in Workers : Abort(w)

Spec == Init /\ [][Next]_vars

\* A callback runs after its commit; the broker hands every queued message to
\* a worker in the end, however often the workers are busy with others; not
\* every run of the task fails.
Fairness ==
    /\ \A s \in SlaIds : /\ WF_vars(Enqueue(s))
                         /\ SF_vars(\E w \in Workers : Deliver(w, s))
    /\ \A w \in Workers : SF_vars(Process(w))

FairSpec == Spec /\ Fairness

\* ... when no process ever dies.
ReliableSpec == Init /\ [][ReliableNext]_vars /\ Fairness

-----------------------------------------------------------------------------
(***************************************************************************)
(* Properties.                                                             *)
(***************************************************************************)

\* A lead never has two running clocks: whatever mix of stage changes,
\* assignments, expiries and re-submissions it goes through, open_instance
\* ends the clock that runs before it starts another.
OneActiveClock ==
    \A l \in Leads : \A s, t \in ActiveOf(sla, l) : s = t

\* The instance that runs is the one the lead's sla_deadline announces, and it
\* runs against the lead's present salesman; and a deadline the lead announces
\* is that of an instance of the same lead which runs or was breached.  Only a
\* row rewritten by a re-submission or a bulk reactivation may disagree, until
\* the next locked operation on the lead.
MatchesLead(l) ==
    /\ \A s \in ActiveOf(sla, l) :
          lead[l].deadline = s /\ lead[l].salesman = sla[s].owner
    /\ lead[l].deadline # NULL =>
          /\ sla[lead[l].deadline].lead = l
          /\ sla[lead[l].deadline].status \in {"ACTIVE", "BREACHED"}
ClockMatchesLead == \A l \in Leads \ detached : MatchesLead(l)

\* An instance is BREACHED exactly when a breach event tells which run of the
\* task handled it: no expiry without its trace, none traced and not done.
BreachRecorded ==
    \A s \in SlaIds : sla[s].status = "BREACHED" <=> breaches[s] # {}

\* A running clock will ring: its message waits for its callback, is queued, or
\* a run of the task has read it, unless it was lost in one of three ways (a
\* web process that died before the callback, a rolled back request that had
\* revoked the message, a run of the task that failed).
Armed(s) == \/ task[s] \in {"unsent", "queued", "lost"}
            \/ \E w \in Workers : worker[w].sla = s
RunningClockIsArmed == \A s \in SlaIds : sla[s].status = "ACTIVE" => Armed(s)

\* An active lead whose salesman runs no clock is one the policies leave
\* without a clock, or the manual distributors were told of it.
NotStalled(l) ==
    /\ lead[l].active
    /\ lead[l].salesman # NULL
    /\ ActiveOf(sla, l) = {}
    => \/ Kept(l, lead[l])
       \/ lead[l].stage \notin ClockStages
       \/ l \in escalated
NoSilentStall == \A l \in Leads : NotStalled(l)

\* The universal rotation rule: whoever becomes a lead's owner finds it Fresh,
\* with a clock that was just opened for him (no clock if the policies give
\* Fresh none, or leave the lead with its creator).  A re-submission that finds
\* nobody to distribute to is the exception: it writes back an earlier owner.
StartsFresh(l) ==
    /\ lead'[l].salesman \notin {lead[l].salesman, NULL}
    /\ l \notin detached'
    => /\ lead'[l].stage = "FRESH"
       /\ \/ \E s \in SlaIds :
                /\ sla[s].status = "UNUSED"
                /\ sla'[s] = [lead |-> l, owner |-> lead'[l].salesman,
                              status |-> "ACTIVE"]
                /\ lead'[l].deadline = s
          \/ "FRESH" \notin ClockStages
          \/ Kept(l, lead'[l])
NewOwnerStartsFresh == [][\A l \in Leads : StartsFresh(l)]_vars

\* The bound on clocks: no more can be opened.
Exhausted == \A s \in SlaIds : sla[s].status # "UNUSED"

\* A running clock ends in the end, by a request or by its expiry, unless its
\* message was lost.
ExpiryIsHandled ==
    \A s \in SlaIds :
        sla[s].status = "ACTIVE"
            ~> (sla[s].status # "ACTIVE" \/ task[s] = "lost" \/ Exhausted)

=============================================================================
