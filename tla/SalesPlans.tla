----------------------------- MODULE SalesPlans -----------------------------
(***************************************************************************)
(* What a salesman plans for a lead: a follow-up, a meeting, a freeze, or  *)
(* a bare move to another stage; and the two policies that limit it: how   *)
(* often a salesman may plan each for one lead, and how many active leads  *)
(* he may hold in each of these stages.                                    *)
(*                                                                         *)
(* A request runs in one transaction.  A follow-up or a meeting locks the  *)
(* lead's row before both limits are counted.  A freeze counts the lead's  *)
(* freezes before it takes the lock, and nothing but the row of the lead   *)
(* itself is locked while the salesman's other leads are counted.  What is *)
(* counted is what was committed before (READ COMMITTED), and what is      *)
(* written shows at the commit.                                            *)
(*                                                                         *)
(* Both policies are read when they are needed: one that is changed while  *)
(* requests run binds those that have not counted yet.                     *)
(*                                                                         *)
(* The views ask for a permission and the company, not whose the lead is:  *)
(* a salesman may act on any lead.  A limit counts the plans of the lead's *)
(* owner, and a freeze is found in the history under who made it.          *)
(*                                                                         *)
(* How far ahead a plan may lie (enforce_max_duration) is a check of the   *)
(* form's date, and leaves no state behind.  What a plan leaves besides,   *)
(* its clock and its reminder, is in LeadSla and Reminders.                *)
(***************************************************************************)
EXTENDS Policies, FiniteSets, Functions

CONSTANTS
    Leads, Salesmen,
    Owners,      \* bound: the salesmen whom leads are given to
    Web,         \* requests that may run at the same time
    Planned,     \* the stages a plan leads to
    Others,      \* the stages a bare move may lead to besides
    Bosses,      \* who else may ask: the head of the team, sales operations
    First,       \* what the policies are set to at first
    MaxPlans     \* bound: plans that are counted

Stages == Planned \cup Others \cup {"FRESH"}
\* Who asks, of any lead.  Salesmen and heads of teams are restricted, sales
\* operations are not.
Actors == Salesmen \cup Bosses

ASSUME PlanInputs ==
    /\ Planned \subseteq {"FOLLOW_UP", "MEETING", "FROZEN"}
    /\ Others \subseteq {"NOT_REACHED", "NOT_INTERESTED", "INTERESTED"}
    /\ Codes = {"SALES_ACTION_LIMITS", "SALES_STAGE_CAPACITY"}
    /\ Type = [c \in Codes |-> "COMPOSITE"] /\ Fields = Planned
    /\ Bosses \subseteq {"HEAD", "OPERATION"}
    /\ MaxPlans \in Nat
    /\ NULL \notin Salesmen /\ Owners \subseteq Salesmen
    /\ IsFiniteSet(Leads)
    /\ \A c \in Codes :
           Posts[c] \cup {First[c]} \subseteq [enabled : BOOLEAN, max : [Planned -> Int]]

VARIABLES
    lead,        \* each lead's owner, stage and whether it is active
    done,        \* plans made for each lead and salesman
    request,     \* where each request is, and what it asks
    overfull,    \* for the properties: capacities exceeded for a known reason
    overdone     \* for the properties: limits exceeded for a known reason

vars == <<policy, lead, done, request, overfull, overdone>>

Lead == [owner : Salesmen \cup {NULL}, stage : Stages, active : BOOLEAN]
Plans == Leads \X Salesmen \X Planned
Idle == [at |-> "idle"]
Request == [at : {"counted", "checked"}, lead : Leads, stage : Stages,
            owner : Salesmen \cup {NULL}, restricted : BOOLEAN,
            planner : SUBSET Salesmen, counted : BOOLEAN, raced : BOOLEAN]

TypeOK ==
    /\ policy \in [Codes -> [option : {NULL}, value : [enabled : BOOLEAN, max : [Planned -> Nat]]]]
    /\ lead \in [Leads -> Lead]
    /\ done \in [Plans -> 0..MaxPlans]
    /\ request \in [Web -> {Idle} \cup Request]
    /\ overfull \subseteq Salesmen \X Planned
    /\ overdone \subseteq Plans

Init ==
    /\ policy = [c \in Codes |-> Parsed(Type[c], First[c])]
    /\ lead \in [Leads -> [owner : Owners \cup {NULL}, stage : {"FRESH"}, active : {TRUE}]]
    /\ done = [p \in Plans |-> 0]
    /\ request = [b \in Web |-> Idle]
    /\ overfull = {} /\ overdone = {}

-----------------------------------------------------------------------------
(***************************************************************************)
(* The limits.                                                             *)
(***************************************************************************)

Restricted(a) == a # "OPERATION"

\* Plans of each kind a salesman may have for a lead, and active leads he may have in
\* each stage.  Zero is no limit.
MaxOf(c, k) == IF Enabled(c) THEN policy[c].value.max[k] ELSE 0
Limit(k) == MaxOf("SALES_ACTION_LIMITS", k)
Capacity(k) == MaxOf("SALES_STAGE_CAPACITY", k)

\* enforce_action_limit: the owner's plans of the kind for this lead.
WithinLimit(l, k) ==
    LET s == lead[l].owner IN s # NULL /\ Limit(k) > 0 => done[<<l, s, k>>] < Limit(k)

\* enforce_stage_capacity: the owner's other active leads in the stage.
Held(s, k) == {l \in Leads : lead[l].owner = s /\ lead[l].stage = k /\ lead[l].active}
Capped(l, k) ==
    lead[l].owner # NULL /\ lead[l].stage # k /\ k \in {p \in Planned : Capacity(p) > 0}
HasRoom(l, k) ==
    Capped(l, k) => Cardinality(Held(lead[l].owner, k) \ {l}) < Capacity(k)

\* Whose plan a request will count as: the follow-ups and meetings of a lead are
\* its owner's, a freeze is in the history under the one who made it.
Planner(l, k, plan, a) ==
    CASE k = "FROZEN" -> {a} \cap Salesmen
      [] k \in {"FOLLOW_UP", "MEETING"} /\ plan -> {lead[l].owner} \cap Salesmen
      [] OTHER -> {}

-----------------------------------------------------------------------------
(***************************************************************************)
(* Requests.                                                               *)
(***************************************************************************)

Locked(l) == \E b \in Web : request[b].at = "checked" /\ request[b].lead = l

\* owner: on the row that was read last; counted: the limit was counted for the
\* one whose plan it will be.
Asked(at, l, k, plan, a) ==
    LET planner == Planner(l, k, plan, a)
    IN [at |-> at, lead |-> l, stage |-> k, owner |-> lead[l].owner,
        restricted |-> Restricted(a), planner |-> planner,
        counted |-> plan /\ planner \subseteq {lead[l].owner}, raced |-> FALSE]

\* For the properties: two requests count at the same time, neither seeing what
\* the other will add, when they fill one stage of one salesman, or freeze one
\* lead for one salesman.
Races(x, y) ==
    /\ x # Idle /\ y # Idle /\ x.stage = y.stage
    /\ \/ x.owner = y.owner /\ x.at = "checked" /\ y.at = "checked"
       \/ x.lead = y.lead /\ x.planner \cap y.planner # {}

\* A request that goes on as x.
Proceed(b, x) ==
    /\ request' = [c \in Web |->
           LET y == IF c = b THEN x ELSE request[c]
               others == IF c = b THEN {request[d] : d \in Web \ {b}} ELSE {x}
           IN IF \E z \in others : Races(y, z) THEN [y EXCEPT !.raced = TRUE] ELSE y]
    /\ UNCHANGED <<policy, lead, done, overfull, overdone>>

\* change_stage: the lead is locked and read, the capacity is counted.
Enter(b, x) ==
    /\ ~Locked(x.lead)
    /\ x.restricted => HasRoom(x.lead, x.stage)
    /\ Proceed(b, [x EXCEPT !.at = "checked", !.owner = lead[x.lead].owner])

\* Mutant of Schedule: the limit is not enforced.
ScheduleFreely(b, l, k, a) ==
    /\ request[b] = Idle /\ k \in Planned \cap {"FOLLOW_UP", "MEETING"}
    /\ lead[l].owner # NULL
    /\ Enter(b, Asked("checked", l, k, TRUE, a))

\* FollowUpService.schedule, MeetingService.schedule: the lead is locked, then
\* both limits are counted.  A plan for a lead nobody owns fails when its
\* reminder is saved, and leaves nothing.
Schedule(b, l, k, a) ==
    /\ request[b] = Idle /\ k \in Planned \cap {"FOLLOW_UP", "MEETING"}
    /\ lead[l].owner # NULL
    /\ Restricted(a) => WithinLimit(l, k)
    /\ Enter(b, Asked("checked", l, k, TRUE, a))

\* LeadStageService.freeze: the freezes are counted before the lead is locked.
CountFreezes(b, l, a) ==
    /\ request[b] = Idle /\ "FROZEN" \in Planned
    /\ Restricted(a) => WithinLimit(l, "FROZEN")
    /\ Proceed(b, Asked("counted", l, "FROZEN", TRUE, a))
Freeze(b) == request[b].at = "counted" /\ Enter(b, request[b])

\* A bare change of stage: from the lead's page or the All Leads page to any
\* stage, from the leads page to one that needs no date.
Move(b, l, k, a) ==
    /\ request[b] = Idle
    /\ Enter(b, Asked("checked", l, k, FALSE, a))

\* For the properties: what is exceeded now, and was exceeded before or by a
\* request whose limits were not enforced, or that raced.
Full == {e \in Salesmen \X Planned :
            Capacity(e[2]) > 0 /\ Cardinality(Held(e[1], e[2])) > Capacity(e[2])}
Loose(x) == ~x.restricted \/ x.raced
Excuse(fills, plans) ==
    /\ overfull' = (overfull \cup fills) \cap Full'
    /\ overdone' = overdone \cup plans

\* What is written, at the commit.
Commit(b) ==
    LET x == request[b]
        planned == {<<x.lead, s, x.stage>> : s \in x.planner}
    IN /\ x.at = "checked"
       /\ lead' = [lead EXCEPT ![x.lead].stage = x.stage,
                               ![x.lead].active = @ /\ x.stage # "NOT_INTERESTED"]
       /\ planned # {} => SumFunction(done) < MaxPlans
       /\ done' = [p \in DOMAIN done |-> IF p \in planned THEN done[p] + 1 ELSE done[p]]
       /\ request' = [request EXCEPT ![b] = Idle]
       /\ UNCHANGED policy
       /\ Excuse(IF Loose(x) THEN {<<x.owner, x.stage>>} ELSE {},
                 IF \E p \in planned : /\ Loose(x) \/ ~x.counted
                                       /\ Limit(p[3]) > 0 /\ done[p] >= Limit(p[3])
                 THEN planned ELSE {})

\* The request is refused by a limit, fails, or its process dies.
Fail(b) ==
    /\ request[b] # Idle
    /\ request' = [request EXCEPT ![b] = Idle]
    /\ UNCHANGED <<policy, lead, done, overfull, overdone>>

-----------------------------------------------------------------------------
(***************************************************************************)
(* What else moves a lead.                                                 *)
(***************************************************************************)

\* _assign: a new owner starts Fresh.
\* Mutant of Assign: he takes the lead over in the stage it is in.
AssignAsItIs(l, s) ==
    /\ ~Locked(l) /\ s # lead[l].owner
    /\ lead' = [lead EXCEPT ![l].owner = s]
    /\ UNCHANGED <<policy, done, request>>
    /\ Excuse({}, {})
Assign(l, s) ==
    /\ ~Locked(l) /\ s # lead[l].owner
    /\ lead' = [lead EXCEPT ![l].owner = s, ![l].stage = "FRESH"]
    /\ UNCHANGED <<policy, done, request>>
    /\ Excuse({}, {})

\* LeadAdminService.set_active: a lead that is active again is Fresh.
SetActive(l, active) ==
    /\ ~Locked(l)
    /\ lead' = [lead EXCEPT ![l].active = active,
                            ![l].stage = IF active THEN "FRESH" ELSE @]
    /\ UNCHANGED <<policy, done, request>>
    /\ Excuse({}, {})

\* The page of a policy.  What exceeds it now, or was counted before, is excused.
ChangePolicy(c, post) ==
    /\ SetPolicy(c, post)
    /\ UNCHANGED <<lead, done>>
    /\ request' = [b \in Web |-> IF Enabled(c)' /\ request[b] # Idle
                                 THEN [request[b] EXCEPT !.raced = TRUE] ELSE request[b]]
    /\ overfull' = Full'
    /\ overdone' = overdone \cup
           {p \in DOMAIN done : Limit(p[3])' > 0 /\ done[p] > Limit(p[3])'}

Next ==
    \/ \E b \in Web, l \in Leads, a \in Actors :
           \/ \E k \in Planned : Schedule(b, l, k, a)
           \/ CountFreezes(b, l, a)
           \/ \E k \in Stages : Move(b, l, k, a)
    \/ \E b \in Web : Freeze(b) \/ Commit(b) \/ Fail(b)
    \/ \E l \in Leads, s \in Owners \cup {NULL} : Assign(l, s)
    \/ \E l \in Leads, active \in BOOLEAN : SetActive(l, active)
    \/ \E c \in Codes : \E post \in Posts[c] : ChangePolicy(c, post)

Spec == Init /\ [][Next]_vars

-----------------------------------------------------------------------------
(***************************************************************************)
(* Properties.                                                             *)
(***************************************************************************)

\* A salesman holds no more active leads in a stage than the policy allows,
\* however his leads are planned, moved, reassigned, deactivated and taken up
\* again (sales_action_policy_service.py:71-103), unless someone who is not
\* restricted moved one there, two requests counted at the same time, or the policy
\* was tightened since.
CapacityHolds == Full \subseteq overfull

\* A salesman plans a kind of action for a lead no more often than the policy
\* allows, also when the lead leaves him and returns
\* (sales_action_policy_service.py:43-68), unless someone who is not restricted
\* planned one, a bare move to Frozen went round the limit, two freezes were
\* counted at the same time, the policy was tightened since, or he froze a lead
\* that was not his, where its owner's freezes are counted.
LimitsHold ==
    \A l \in Leads, s \in Salesmen, k \in Planned :
        Limit(k) > 0 /\ <<l, s, k>> \notin overdone => done[<<l, s, k>>] <= Limit(k)

=============================================================================
