------------------------------ MODULE Rotation ------------------------------
(***************************************************************************)
(* Who gets a lead: the distribution engine, its two strategies, and what  *)
(* an expired clock does with them.                                        *)
(*                                                                         *)
(* A distribution reads the lead, the memberships and the loads, decides,  *)
(* and writes when its transaction commits.  It is two actions here: the   *)
(* decision (Arrive, Redispatch, Expire) and Commit or Rollback.  What the *)
(* database keeps others from in between is modelled as it is locked:      *)
(*   - the DistributionRun, SLABreachEvent and LeadRetryAttempt rows refer *)
(*     to the lead, which locks its row: nobody else writes the lead;      *)
(*   - BY_TURN locks its rotation pointer, ROUND_ROBIN locks nothing.      *)
(* The expiry of a clock goes by what its task read before (Fetch) without *)
(* a lock: a message delivered twice decides twice on the same row.        *)
(* LeadSla has the clocks; here a lead only has one or not, the policies   *)
(* give Fresh a duration, and no lead is kept with its creator.  Teams     *)
(* stay active, and a salesman is in one team, as the team screens enforce.*)
(***************************************************************************)
EXTENDS Naturals, FiniteSets, Sequences, Functions

CONSTANTS
    Leads,        \* lead ids
    Salesmen,     \* user ids, numbers: pools are sorted by them
    Teams,        \* the order_index of each team
    Languages,    \* language codes
    TeamOf,       \* the team of each salesman
    Speaks,       \* the languages of each salesman
    LanguageOf,   \* the language of each lead
    BrokerLeads,  \* leads of origin BROKER
    Runs,         \* processes that distribute leads
    Policies,     \* the company policies under which the system is examined
    Attempts,     \* policy lead.retry_attempts_per_team
    Arriving,     \* bound: the leads that arrive under each of the policies
    Worked,       \* bound: those that expire and that people act on
    Absentees,    \* bound: the salesmen who come and go
    MaxLate,      \* bound: the late expiries of a lead between two touches
    NULL

Automatic == {"ROUND_ROBIN", "BY_TURN"}
Scopes == {"TEAM_THEN_SALESMAN", "TEAM_HEAD_DECIDES", "ALL_SALESMEN"}
Policy == [auto : Automatic, scope : Scopes,
           expiry : Automatic \cup {"RETRY_TEAM_ESCALATION", "MANUAL"}]

ASSUME Company ==
    /\ IsFiniteSet(Leads) /\ IsFiniteSet(Salesmen) /\ IsFiniteSet(Teams)
    /\ IsFiniteSet(Runs)
    /\ Salesmen \subseteq Nat /\ Teams \subseteq Nat
    /\ NULL \notin Salesmen \cup Teams \cup Leads
    /\ TeamOf \in [Salesmen -> Teams]
    /\ Speaks \in [Salesmen -> SUBSET Languages]
    /\ LanguageOf \in [Leads -> Languages]
    /\ BrokerLeads \subseteq Leads
    /\ Policies \subseteq Policy
    /\ Attempts \in Nat \ {0} /\ MaxLate \in Nat
    /\ Arriving \in [Policies -> SUBSET Leads]
    /\ Worked \in [Policies -> SUBSET Leads] /\ Absentees \subseteq Salesmen

VARIABLES
    policy,     \* the company's policies, which do not change
    lead,       \* the Lead rows, and whether a clock runs for each
    available,  \* the salesmen whose profile and membership say so
    pointer,    \* the BY_TURN RotationPointer of each language
    tries,      \* the LeadRetryAttempt rows of each lead and team, counted
                \* up to Attempts: beyond it their number makes no difference
    received,   \* when each salesman last received a lead: his place in the
                \* order of these times, 0 for never; only Round Robin asks
    seen,       \* what the expiry task of each process has read of its lead
                \* (only retries ask for the team), and whether the clock it
                \* read of has ended since
    run,        \* the decision each process is about to commit
    streak,     \* the latest BY_TURN picks from one and the same pool
    moves,      \* how often each lead was assigned since a person touched it
                \* or it was submitted, counted where that is Bounded
    late,       \* how many of these were the work of late expiries
    disturbed   \* whether a lead was ever moved by anything but its arrival

vars == <<policy, lead, available, pointer, tries, received, seen, run, streak,
          moves, late, disturbed>>

\* Where a lead nobody works on is rotated a bounded number of times.
Bounded == policy.expiry = "RETRY_TEAM_ESCALATION" /\ policy.scope # "ALL_SALESMEN"

\* The retries of every team and once more for each, and once more round the
\* teams for each of n late expiries.
Allowed(n) == Cardinality(Teams) * (Attempts + 1 + n)

Person == Salesmen \cup {NULL}
LeadRow == [here : BOOLEAN, active : BOOLEAN, clock : BOOLEAN,
            team : Teams \cup {NULL}, salesman : Person]
Decision == [lead : Leads, cause : {"arrive", "redispatch", "expire"},
             by : Automatic \cup {"RETRY", "NOBODY"}, pool : SUBSET Salesmen,
             pick : Person]
Seen == [lead : Leads, team : Teams \cup {NULL}, salesman : Person,
         ended : BOOLEAN]

ASSUME NullIsNothingRead == NULL \notin Seen

TypeOK ==
    /\ policy \in Policies
    /\ lead \in [Leads -> LeadRow]
    /\ available \subseteq Salesmen
    /\ pointer \in [Languages -> 0..(Cardinality(Salesmen) - 1)]
    /\ tries \in [Leads -> [Teams -> 0..Attempts]]
    /\ received \in [Salesmen -> 0..Cardinality(Salesmen)]
    /\ seen \in [Runs -> Seen \cup {NULL}]
    /\ run \in [Runs -> Decision \cup {NULL}]
    /\ \A g \in Languages : streak[g].pool \subseteq Salesmen
                            /\ streak[g].picks \in Seq(streak[g].pool)
    /\ late \in [Leads -> 0..MaxLate]
    /\ moves \in [Leads -> 0..(Allowed(MaxLate) + 1)]
    /\ disturbed \in BOOLEAN

Init ==
    /\ policy \in Policies
    /\ lead = [l \in Leads |-> [here |-> FALSE, active |-> FALSE,
                                clock |-> FALSE, team |-> NULL,
                                salesman |-> NULL]]
    /\ available = Salesmen
    /\ pointer = [g \in Languages |-> 0]
    /\ tries = [l \in Leads |-> [t \in Teams |-> 0]]
    /\ received = [m \in Salesmen |-> 0]
    /\ seen = [r \in Runs |-> NULL]
    /\ run = [r \in Runs |-> NULL]
    /\ streak = [g \in Languages |-> [pool |-> {}, picks |-> <<>>]]
    /\ moves = [l \in Leads |-> 0]
    /\ late = [l \in Leads |-> 0]
    /\ disturbed = FALSE

-----------------------------------------------------------------------------
(***************************************************************************)
(* The candidates and the strategies.                                      *)
(***************************************************************************)

\* eligible_pool: a team given narrows the pool only in the team scope modes.
eligible_pool(l, scope, t) ==
    {m \in available :
        /\ LanguageOf[l] \in Speaks[m]
        /\ t # NULL /\ scope # "ALL_SALESMEN" => TeamOf[m] = t}

\* The pool without the lead's present owner, unless there is nobody else.
Others(pool, owner) ==
    IF pool \ {owner} = {} THEN pool ELSE pool \ {owner}

candidate_load(m) ==
    Cardinality({l \in Leads : lead[l].active /\ lead[l].salesman = m})

\* Mutant of RoundRobin: the most loaded wins.
MostLoaded(pool) ==
    CHOOSE m \in pool : \A x \in pool \ {m} :
        \/ candidate_load(m) > candidate_load(x)
        \/ candidate_load(m) = candidate_load(x) /\ m < x

\* Fewest active leads, then the earliest last lead, then the pool's order.
RoundRobin(pool) ==
    CHOOSE m \in pool : \A x \in pool \ {m} :
        \/ candidate_load(m) < candidate_load(x)
        \/ /\ candidate_load(m) = candidate_load(x)
           /\ \/ received[m] < received[x]
              \/ received[m] = received[x] /\ m < x

\* How many of a pool come before m, and who is the next after i others, counted
\* round the pool.
Rank(pool, m) == Cardinality({x \in pool : x < m})
Nth(pool, i) == CHOOSE m \in pool : Rank(pool, m) = i % Cardinality(pool)

ByTurn(g, pool) == Nth(pool, pointer[g])

\* Mutant of TurnLocked: the pointer is read without select_for_update.
TurnUnlocked(g) == FALSE

\* A process that took its turn holds the pointer of the language until its
\* transaction ends.
TurnLocked(g) ==
    \E r \in Runs : /\ run[r] # NULL
                    /\ run[r].by = "BY_TURN"
                    /\ LanguageOf[run[r].lead] = g

\* No other process may be at an assignment of the lead.
LeadLocked(l) == \E r \in Runs : run[r] # NULL /\ run[r].lead = l

decide(l, cause, by, pool, pick) ==
    [lead |-> l, cause |-> cause, by |-> by, pool |-> pool, pick |-> pick]

\* DistributionWorkflow.distribute up to its decision.  t: the team asked for;
\* owner: whose the lead is on the row the caller has.
distribute(r, l, cause, t, owner, method) ==
    LET pool == Others(eligible_pool(l, policy.scope, t), owner)
        g == LanguageOf[l]
    IN \/ /\ pool = {}
          /\ run' = [run EXCEPT ![r] = decide(l, cause, "NOBODY", {}, NULL)]
       \/ /\ pool # {} /\ method = "ROUND_ROBIN"
          /\ run' = [run EXCEPT ![r] =
               decide(l, cause, method, pool, RoundRobin(pool))]
       \/ /\ pool # {} /\ method = "BY_TURN" /\ ~TurnLocked(g)
          /\ run' = [run EXCEPT ![r] =
               decide(l, cause, method, pool, ByTurn(g, pool))]

\* RetryEscalationService._retry_within_team: the next of the team's salesmen.
_retry_within_team(r, attempt) ==
    LET l == seen[r].lead
        pool == Others(eligible_pool(l, "TEAM_THEN_SALESMAN", seen[r].team),
                       seen[r].salesman)
    IN run' = [run EXCEPT ![r] =
         IF pool = {} THEN decide(l, "expire", "NOBODY", {}, NULL)
         ELSE decide(l, "expire", "RETRY", pool, Nth(pool, attempt - 1))]

\* The teams that come after t in order_index.
NextTeams(t) == IF t = NULL THEN Teams ELSE {u \in Teams : u > t}

\* RetryEscalationService._escalate_next_team.
_escalate_next_team(r) ==
    LET l == seen[r].lead
        next == NextTeams(seen[r].team)
    IN \/ /\ next = {}
          /\ run' = [run EXCEPT ![r] = decide(l, "expire", "NOBODY", {}, NULL)]
       \/ \E t \in next :
             /\ \A u \in next : t <= u
             /\ distribute(r, l, "expire", t, seen[r].salesman, policy.auto)

TriesIn(l, t) == IF t = NULL THEN 0 ELSE tries[l][t]

handle_expiry(r) ==
    LET n == TriesIn(seen[r].lead, seen[r].team)
    IN IF n < Attempts THEN _retry_within_team(r, n + 1)
                       ELSE _escalate_next_team(r)

-----------------------------------------------------------------------------
(***************************************************************************)
(* Decisions.                                                              *)
(***************************************************************************)
Deciding(r, l) ==
    /\ run[r] = NULL
    /\ ~LeadLocked(l)
    /\ UNCHANGED <<policy, lead, available, pointer, tries, received, seen,
                   streak, moves, late, disturbed>>

\* LeadCreationService.create of a lead to be distributed.
Arrive(r, l) ==
    /\ Deciding(r, l)
    /\ seen[r] = NULL /\ ~lead[l].here
    /\ distribute(r, l, "arrive", NULL, lead[l].salesman, policy.auto)

\* LeadCreationService._merge_duplicate of an inactive lead.
Redispatch(r, l) ==
    /\ Deciding(r, l)
    /\ seen[r] = NULL /\ lead[l].here /\ ~lead[l].active
    /\ distribute(r, l, "redispatch", NULL, lead[l].salesman, policy.auto)

\* expire_sla_instance reads the instance, if it runs, and with it the lead.
Fetch(r, l) ==
    /\ run[r] = NULL /\ seen[r] = NULL
    /\ lead[l].here /\ lead[l].clock
    /\ seen' = [seen EXCEPT ![r] =
          [lead |-> l, salesman |-> lead[l].salesman, ended |-> FALSE,
           team |-> IF policy.expiry = "RETRY_TEAM_ESCALATION" THEN lead[l].team
                                                               ELSE NULL]]
    /\ UNCHANGED <<policy, lead, available, pointer, tries, received, run,
                   streak, moves, late, disturbed>>

\* SLAExpiryService.process_instance, by the row that was read.
Expire(r) ==
    /\ seen[r] # NULL
    /\ Deciding(r, seen[r].lead)
    /\ seen[r].ended => late[seen[r].lead] < MaxLate
    /\ LET l == seen[r].lead
           method == IF l \in BrokerLeads THEN "MANUAL" ELSE policy.expiry
       IN \/ /\ method = "MANUAL"
             /\ run' = [run EXCEPT ![r] =
                  decide(l, "expire", "NOBODY", {}, NULL)]
          \/ method \in Automatic
             /\ distribute(r, l, "expire", NULL, seen[r].salesman,
                  IF method = "BY_TURN" THEN method ELSE policy.auto)
          \/ method = "RETRY_TEAM_ESCALATION" /\ handle_expiry(r)

-----------------------------------------------------------------------------
(***************************************************************************)
(* What a decision writes.                                                 *)
(***************************************************************************)

\* The process decides on a clock that has ended since it was read.
Late(r) == run[r].cause = "expire" /\ seen[r].ended

\* A commit ends the clock that runs: the one that expired, or the one that gives
\* way to a new owner's.
EndsClock(r) ==
    \/ run[r].pick # NULL
    \/ run[r].cause = "expire" /\ ~seen[r].ended

\* What the tasks have read, when the clock of l ends.
Ended(l) ==
    [q \in Runs |-> IF seen[q] # NULL /\ seen[q].lead = l
                    THEN [seen[q] EXCEPT !.ended = TRUE] ELSE seen[q]]

\* The rows of a lead nobody is chosen for: a new or taken up lead is active,
\* an expired clock has ended.
Unassigned(r, d) ==
    [lead[d.lead] EXCEPT !.here = TRUE,
                         !.active = @ \/ d.cause # "expire",
                         !.clock = @ /\ ~EndsClock(r)]

\* _assign, or assign_to_team when the head of the team is to decide.
Assigned(d) ==
    LET head == policy.scope = "TEAM_HEAD_DECIDES" /\ d.by # "RETRY"
    IN [lead[d.lead] EXCEPT !.here = TRUE,
                            !.active = @ \/ d.cause # "expire",
                            !.clock = TRUE,
                            !.team = TeamOf[d.pick],
                            !.salesman = IF head THEN NULL ELSE d.pick]

\* m receives a lead: he goes to the end of the order.
Receive(m) ==
    LET n == Cardinality({x \in Salesmen : received[x] > 0 \/ x = m})
    IN IF m = NULL \/ policy.auto # "ROUND_ROBIN" THEN received
       ELSE [x \in Salesmen |->
               IF x = m THEN n
               ELSE IF 0 < received[m] /\ received[m] < received[x]
                    THEN received[x] - 1 ELSE received[x]]

Advanced(d) ==
    LET g == LanguageOf[d.lead]
        n == Cardinality(d.pool)
    IN IF d.by = "BY_TURN"
       THEN [pointer EXCEPT ![g] = ((@ % n) + 1) % n] ELSE pointer

\* Mutant of Counted: the retry leaves no LeadRetryAttempt row.
Uncounted(d) == tries

Counted(d) ==
    IF d.by = "RETRY"
    THEN [tries EXCEPT ![d.lead][TeamOf[d.pick]] =
             IF @ < Attempts THEN @ + 1 ELSE @]
    ELSE tries

\* The picks from one pool, the latest of them, as many as it has members.
Streak(d) ==
    LET g == LanguageOf[d.lead]
        s == streak[g].picks
        n == Cardinality(d.pool)
        kept == IF streak[g].pool # d.pool THEN <<>>
                ELSE IF Len(s) < n THEN s ELSE Tail(s)
    IN IF d.by = "BY_TURN"
       THEN [streak EXCEPT ![g] = [pool |-> d.pool,
                                   picks |-> Append(kept, d.pick)]]
       ELSE streak

Commit(r) ==
    /\ run[r] # NULL
    /\ LET d == run[r]
           l == d.lead
       IN /\ IF d.pick = NULL
             THEN /\ lead' = [lead EXCEPT ![l] = Unassigned(r, d)]
                  /\ UNCHANGED <<received, moves, late>>
             ELSE /\ lead' = [lead EXCEPT ![l] = Assigned(d)]
                  /\ received' = Receive(Assigned(d).salesman)
                  /\ moves' = [moves EXCEPT ![l] =
                       IF ~Bounded THEN 0 ELSE IF d.cause # "expire" THEN 1
                       ELSE IF @ > Allowed(MaxLate) THEN @ ELSE @ + 1]
                  /\ late' = [late EXCEPT ![l] =
                       IF ~Bounded \/ d.cause # "expire" THEN 0
                       ELSE IF Late(r) THEN @ + 1 ELSE @]
          /\ seen' = [(IF EndsClock(r) THEN Ended(l) ELSE seen)
                        EXCEPT ![r] = NULL]
          /\ pointer' = Advanced(d)
          /\ tries' = Counted(d)
          /\ streak' = Streak(d)
          /\ disturbed' = (disturbed \/ d.cause # "arrive")
    /\ run' = [run EXCEPT ![r] = NULL]
    /\ UNCHANGED <<policy, available>>

\* The transaction fails, or the task dies: what it decided and read is gone.
Rollback(r) ==
    /\ run[r] # NULL \/ seen[r] # NULL
    /\ run' = [run EXCEPT ![r] = NULL]
    /\ seen' = [seen EXCEPT ![r] = NULL]
    /\ UNCHANGED <<policy, lead, available, pointer, tries, received, streak,
                   moves, late, disturbed>>

-----------------------------------------------------------------------------
(***************************************************************************)
(* What people do meanwhile.                                               *)
(***************************************************************************)
Touched(l) ==
    /\ moves' = [moves EXCEPT ![l] = 0]
    /\ late' = [late EXCEPT ![l] = 0]
    /\ disturbed' = TRUE
    /\ UNCHANGED <<policy, available, pointer, tries, run, streak>>

\* ManualAssignmentService.assign_to_salesman: to the team given, or with the
\* team the lead was in.
AssignToSalesman(l, m, t) ==
    /\ lead[l].here /\ ~LeadLocked(l)
    /\ t \in {TeamOf[m], lead[l].team}
    /\ lead' = [lead EXCEPT ![l] = [@ EXCEPT !.team = t, !.salesman = m,
                                              !.clock = TRUE]]
    /\ received' = Receive(m)
    /\ seen' = Ended(l)
    /\ Touched(l)

\* ManualAssignmentService.assign_to_team.
AssignToTeam(l, t) ==
    /\ lead[l].here /\ ~LeadLocked(l)
    /\ lead' = [lead EXCEPT ![l] = [@ EXCEPT !.team = t, !.salesman = NULL,
                                              !.clock = TRUE]]
    /\ UNCHANGED received
    /\ seen' = Ended(l)
    /\ Touched(l)

\* LeadAdminService.deactivate.
Deactivate(l) ==
    /\ lead[l].here /\ lead[l].active /\ ~LeadLocked(l)
    /\ lead' = [lead EXCEPT ![l] = [@ EXCEPT !.active = FALSE,
                                              !.clock = FALSE]]
    /\ UNCHANGED received
    /\ seen' = Ended(l)
    /\ Touched(l)

\* The columns a re-submission of an active lead and a bulk reactivation save.
Clear(l) ==
    /\ lead[l].here /\ ~LeadLocked(l)
    /\ lead' = [lead EXCEPT ![l] = [@ EXCEPT !.active = TRUE, !.team = NULL,
                                              !.salesman = NULL]]
    /\ UNCHANGED <<received, seen>>
    /\ Touched(l)

\* AvailabilityService.set_status.
SetAvailability(m) ==
    /\ available' = IF m \in available THEN available \ {m}
                                       ELSE available \cup {m}
    /\ disturbed' = TRUE
    /\ UNCHANGED <<policy, lead, pointer, tries, received, seen, run, streak,
                   moves, late>>

-----------------------------------------------------------------------------
Next ==
    \/ \E r \in Runs, l \in Arriving[policy] : Arrive(r, l)
    \/ \E r \in Runs, l \in Worked[policy] : Redispatch(r, l) \/ Fetch(r, l)
    \/ \E r \in Runs : Expire(r) \/ Commit(r) \/ Rollback(r)
    \/ \E l \in Worked[policy] :
          \/ \E m \in Salesmen, t \in Teams \cup {NULL} :
                AssignToSalesman(l, m, t)
          \/ \E t \in Teams : AssignToTeam(l, t)
          \/ Deactivate(l)
          \/ Clear(l)
    \/ \E m \in Absentees : SetAvailability(m)

Spec == Init /\ [][Next]_vars

-----------------------------------------------------------------------------
(***************************************************************************)
(* Properties.                                                             *)
(***************************************************************************)

\* By Turn: as long as the pool is the same, nobody is given a second turn
\* before everybody in it has had one, whatever processes take turns at once
\* and whichever of them fail (ByTurnStrategy.select_candidate).
TurnsGoRound == \A g \in Languages : IsInjective(streak[g].picks)

\* Round Robin: as long as leads only arrive, the loads of two salesmen of the
\* same languages differ by no more than the leads that can be decided at once
\* on the same reading of the loads (RoundRobinStrategy.select_candidate).
LoadsStayLevel ==
    policy.auto = "ROUND_ROBIN" /\ ~disturbed =>
        \A m, x \in Salesmen :
            Speaks[m] = Speaks[x] =>
                candidate_load(m) <= candidate_load(x) + Cardinality(Runs)

\* Retry and team escalation: in the team scope modes a lead nobody works on is
\* rotated a bounded number of times, then left to the manual distributors.  An
\* expiry that decides on a clock that has ended since it was read may send the
\* lead round the teams once more, but gives no team a retry it has had; attempts
\* made before a person touched the lead only shorten its way
\* (RetryEscalationService.handle_expiry).
RotationsAreBounded ==
    Bounded => \A l \in Leads : moves[l] <= Allowed(late[l])

=============================================================================
