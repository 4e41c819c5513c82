------------------------------- MODULE Intake -------------------------------
(***************************************************************************)
(* Leads come in: the idempotency cache in front of every form, the rules  *)
(* of each source, creation or merge, the turns of the walk-in reception,  *)
(* and the board from which people assign what nothing else assigned.      *)
(*                                                                         *)
(* A request looks its key up, reads (its broker, the lead of the phone),  *)
(* writes in one transaction, and its answer is cached afterwards.  Nothing *)
(* locks what was read but the pointer of the team turn.  A process may    *)
(* die anywhere; a form may be posted again with its key at any time.      *)
(* What salesman an automatic distribution finds is Rotation's matter, the *)
(* clocks are LeadSla's.                                                   *)
(***************************************************************************)
EXTENDS Naturals, Sequences, FiniteSets

CONSTANTS
    Processes,   \* processes that answer requests
    Keys,        \* idempotency keys, one for each form that is filled in
    Forms,       \* what may be filled in
    MaxPosts,    \* bound: how often forms are posted
    MaxEdits,    \* bound: how often leads are edited in the admin's table
    Users,
    Grants,      \* the permissions of each user
    NumTeams,    \* teams, in the order of their turns
    Members,     \* the members of each team
    Heads,       \* the sales head of each team
    Brokers,
    BrokerOf,    \* the broker each user is the login of, or NULL
    PriorOf,     \* the salesman of the existing client of each phone, or NULL
    Phones,      \* phones as typed
    Digits,      \* the same without separators
    Setups,      \* policies, and who is away or has left
    NULL

Teams == 1..NumTeams
Sources == {"SELF_GENERATED", "CAMPAIGN", "BROKER", "WALK_IN", "CALL_CENTER",
            "EXHIBITION", "REFERRAL", "EXISTING_CLIENT"}
FileSources == {"CAMPAIGN", "BROKER", "REFERRAL", "CALL_CENTER"}
Form == [door : {"page", "file"}, source : Sources, phone : Phones, actor : Users,
         pick : Users \cup {NULL}, team : Teams \cup {NULL},
         assign : {"self", "rr", "member"}, dist : {"auto", "manual"},
         broker : Brokers \cup {NULL}]
Setup == [walkin : {"OPEN_FLOOR", "TEAM_TURN", "FULL_ROTATION"},
          head : {"SELF_ONLY", "AUTO_ROUND_ROBIN_TEAM", "SELF_OR_MANUAL_TEAM"},
          also : BOOLEAN, preserve : BOOLEAN, bulk : {"AUTO", "MANUAL"},
          away : SUBSET Users, left : SUBSET Users]

ASSUME Office ==
    /\ NumTeams \in Nat /\ MaxPosts \in Nat /\ MaxEdits \in Nat
    /\ Forms \subseteq Form /\ Setups \subseteq Setup
    /\ \A f \in Forms : f.door = "file" =>
         f.source \in (IF BrokerOf[f.actor] = NULL THEN FileSources ELSE {"BROKER"})
    /\ Members \in [Teams -> SUBSET Users] /\ Heads \in [Teams -> Users]
    /\ BrokerOf \in [Users -> Brokers \cup {NULL}]
    /\ PriorOf \in [Phones -> Users \cup {NULL}]
    /\ Digits \in [Phones -> Phones] /\ \A p \in Phones : Digits[Digits[p]] = Digits[p]
    /\ NULL \notin Users \cup Brokers \cup Nat

VARIABLES
    setup,       \* policies, which do not change
    posted,      \* the form of each key
    posts,       \* posts so far
    runs,        \* how often each form was executed
    excused,     \* keys whose execution the cache could not know of
    cache,       \* keys with a cached answer
    leads,       \* the leads, oldest first
    brokers,     \* each broker's leads_count, and its ownership history
    pointer,     \* the two rotation pointers of the reception
    served,      \* the team of the last automatic turn, NULL after one by hand
    loose,       \* phones that two requests raced for, or an edit gave to a lead
    raced,       \* brokers two submissions raced for
    edits,       \* edits so far
    request      \* what each process is doing, and what it read

form == <<setup, posted>>
keys == <<posts, runs, excused, cache>>
turns == <<pointer, served>>
vars == <<form, keys, leads, brokers, turns, loose, raced, edits, request>>

At(x, place) == request[x].at = place
FormOf(x) == posted[request[x].key]
Free == [at |-> "free", key |-> NULL, found |-> NULL, row |-> NULL, count |-> 0,
         full |-> 0, team |-> 0, lead |-> NULL, user |-> NULL]

-----------------------------------------------------------------------------
(***************************************************************************)
(* Who may get a lead: the rules of each source.                           *)
(***************************************************************************)

Can(u, code) == code \in Grants[u]
CanAssign(u) == Can(u, "manual_all") \/ Can(u, "team_manual")
Headed(u) == {t \in Teams : Heads[t] = u}
IsMember(u) == \E t \in Teams : u \in Members[t]
Valid(u) == u # NULL /\ u \notin setup.left
Pool(t) == Members[t] \ (setup.away \cup setup.left)
Salesmen == UNION {Pool(t) : t \in Teams}
TeamOf(u) == CHOOSE t \in Teams : u \in Members[t]

\* What a handler asks of LeadCreationService.create; the empty set if it refuses.
To(s) == {[salesman |-> s, team |-> NULL, auto |-> FALSE]}
Automatic == {[salesman |-> NULL, team |-> NULL, auto |-> TRUE]}
Nobody == {[salesman |-> NULL, team |-> NULL, auto |-> FALSE]}
Picked(f) == IF Valid(f.pick) THEN To(f.pick) ELSE {}
First(T) == IF T = {} THEN NULL ELSE CHOOSE t \in T : \A u \in T : t <= u

HeadsLead(f) ==
    IF setup.head = "SELF_ONLY" \/ (f.assign = "self" /\ setup.head # "AUTO_ROUND_ROBIN_TEAM")
    THEN To(f.actor)
    ELSE IF setup.head = "AUTO_ROUND_ROBIN_TEAM" \/ f.assign = "rr"
         THEN {[salesman |-> NULL, team |-> First(Headed(f.actor)), auto |-> TRUE]}
         ELSE IF \E t \in Headed(f.actor) : f.pick \in Members[t] THEN Picked(f) ELSE {}
SelfGenerated(f) ==
    IF Headed(f.actor) # {} THEN HeadsLead(f)
    ELSE IF IsMember(f.actor) THEN Automatic ELSE To(f.actor)

ByHandOr(f, otherwise) ==
    IF f.dist # "manual" THEN otherwise
    ELSE IF CanAssign(f.actor) THEN Picked(f) ELSE {}

CampaignLead(f) ==
    IF f.dist = "manual" /\ f.team # NULL
    THEN IF CanAssign(f.actor)
         THEN {[salesman |-> NULL, team |-> f.team, auto |-> FALSE]} ELSE {}
    ELSE ByHandOr(f, Automatic)

BrokerFor(f) == IF f.source # "BROKER" THEN NULL
                ELSE IF BrokerOf[f.actor] # NULL THEN BrokerOf[f.actor] ELSE f.broker
BrokerLead(f) ==
    IF BrokerFor(f) = NULL THEN {}
    ELSE IF setup.also /\ f.pick # NULL THEN Picked(f) ELSE Nobody

WalkIn(f) == IF f.pick = NULL THEN Nobody ELSE Picked(f)

Prior(f) == IF setup.preserve /\ Valid(PriorOf[f.phone]) THEN PriorOf[f.phone] ELSE NULL
ExistingClient(f) == IF Prior(f) = NULL THEN Automatic ELSE To(Prior(f))

\* SourceRouterWorkflow.create_lead.
Page(f) ==
    IF ~Can(f.actor, f.source) THEN {} ELSE
    CASE f.source = "SELF_GENERATED" -> SelfGenerated(f)
      [] f.source = "CAMPAIGN" -> CampaignLead(f)
      [] f.source = "BROKER" -> BrokerLead(f)
      [] f.source = "WALK_IN" -> WalkIn(f)
      [] f.source \in {"CALL_CENTER", "REFERRAL"} -> ByHandOr(f, Automatic)
      [] f.source = "EXHIBITION" -> Picked(f)
      [] f.source = "EXISTING_CLIENT" -> ExistingClient(f)

\* Mutant of File: the policy alone decides.
FileByPolicy(f) ==
    IF ~Can(f.actor, "bulk") \/ (f.source = "BROKER" /\ BrokerFor(f) = NULL) THEN {}
    ELSE IF setup.bulk = "AUTO" THEN Automatic ELSE Nobody

\* A row of an imported file.
File(f) ==
    IF ~Can(f.actor, "bulk") \/ (f.source = "BROKER" /\ BrokerFor(f) = NULL) THEN {}
    ELSE IF f.source # "BROKER" /\ setup.bulk = "AUTO" THEN Automatic ELSE Nobody

Routed(f) == IF f.door = "file" THEN File(f) ELSE Page(f)

\* An import compares and stores the digits, the page what was typed.
Phone(f) == IF f.door = "file" THEN Digits[f.phone] ELSE f.phone

-----------------------------------------------------------------------------
(***************************************************************************)
(* Creating a lead, or merging with the one of the phone.                  *)
(***************************************************************************)

Lead == [phone : Phones, active : BOOLEAN, salesman : Users \cup {NULL},
         team : Teams \cup {NULL}, broker : Brokers \cup {NULL}]
Last(S) == CHOOSE i \in S : \A j \in S : j <= i
\* Mutant of Found: an inactive lead is not looked for.
FoundActive(phone) ==
    LET S == {i \in DOMAIN leads : leads[i].phone = phone /\ leads[i].active}
    IN IF S = {} THEN NULL ELSE Last(S)
\* DuplicateService.check: the newest lead of the phone.
Found(phone) ==
    LET S == {i \in DOMAIN leads : leads[i].phone = phone}
    IN IF S = {} THEN NULL ELSE Last(S)

\* DistributionWorkflow.distribute: another salesman, unless there is none, or
\* none who speaks the lead's language.
Handed(lead) ==
    LET S == IF Salesmen \ {lead.salesman} = {} THEN Salesmen ELSE Salesmen \ {lead.salesman}
    IN {lead} \cup {[lead EXCEPT !.salesman = s, !.team = TeamOf(s)] : s \in S}

\* A member's own lead stays his, whatever his handler asked for.
Kept(f, o) ==
    IF f.source = "SELF_GENERATED" /\ o.salesman = NULL /\ IsMember(f.actor)
    THEN [o EXCEPT !.salesman = f.actor, !.auto = FALSE] ELSE o

NewLead(f, o) ==
    LET lead == [phone |-> Phone(f), active |-> TRUE, salesman |-> o.salesman,
                 team |-> o.team, broker |-> BrokerFor(f)]
    IN IF o.salesman = NULL /\ o.auto THEN Handed(lead) ELSE {lead}

\* _merge_duplicate: written from the row that was read.
Merged(f, row) ==
    LET lead == [row EXCEPT !.broker = IF BrokerFor(f) = NULL THEN @ ELSE BrokerFor(f)]
    IN IF row.active THEN {[lead EXCEPT !.salesman = NULL, !.team = NULL]}
       ELSE Handed([lead EXCEPT !.active = TRUE])

\* What a submission makes of the table of leads, and the lead it is about.
Outcomes(x) ==
    LET f == FormOf(x)
    IN UNION {IF request[x].found = NULL
              THEN {[lead |-> Len(leads) + 1, leads |-> Append(leads, l)]
                     : l \in NewLead(f, Kept(f, o))}
              ELSE {[lead |-> request[x].found,
                     leads |-> [leads EXCEPT ![request[x].found] = l]]
                     : l \in Merged(f, request[x].row)}
              : o \in Routed(f)}

-----------------------------------------------------------------------------
(***************************************************************************)
(* Turns of the walk-in reception.                                         *)
(***************************************************************************)

Available == Cardinality(UNION {{t} \X Pool(t) : t \in Teams})
Advanced(index, length) == IF length = 0 THEN index ELSE (index + 1) % length

\* Teams with somebody to serve, by how many turns they are away.
Turn(index, t) == (t - 1 + NumTeams - index) % NumTeams
OpenTeams == {t \in Teams : Pool(t) # {}}
NextTeam(index) ==
    IF OpenTeams = {} THEN NULL
    ELSE CHOOSE t \in OpenTeams : \A u \in OpenTeams : Turn(index, t) <= Turn(index, u)

\* Mutant of TeamPointer: _next_team reads the pointer without a lock.
TeamPointerRead(x) == request[x].team
\* The pointer of the team turn is locked when it is read.
TeamPointer(x) == pointer.team

\* WalkInService._apply_policy, for a lead nobody was picked for.
TakeTurn(x, o) ==
    CASE setup.walkin = "FULL_ROTATION" ->
           /\ leads' \in {[o.leads EXCEPT ![o.lead] = l] : l \in Handed(o.leads[o.lead])}
           /\ \E index \in {request[x].full, pointer.full} :
                pointer' = [pointer EXCEPT !.full = Advanced(index, Available)]
           /\ UNCHANGED served
      [] setup.walkin = "TEAM_TURN" ->
           LET t == NextTeam(TeamPointer(x))
           IN /\ leads' = IF t = NULL THEN o.leads
                          ELSE [o.leads EXCEPT ![o.lead].salesman = NULL, ![o.lead].team = t]
              /\ pointer' = [pointer EXCEPT !.team =
                               IF t = NULL THEN TeamPointer(x) ELSE t % NumTeams]
              /\ served' = t
      [] OTHER -> leads' = o.leads /\ UNCHANGED turns

\* The receptionist picked somebody, or skips: the pointer is read, advanced and
\* written without a lock.
AdvanceByHand(full, team) ==
    CASE setup.walkin = "FULL_ROTATION" ->
           /\ pointer' = [pointer EXCEPT !.full = Advanced(full, Available)]
           /\ UNCHANGED served
      [] setup.walkin = "TEAM_TURN" ->
           /\ pointer' = [pointer EXCEPT !.team = Advanced(team, NumTeams)]
           /\ served' = NULL
      [] OTHER -> UNCHANGED turns

-----------------------------------------------------------------------------
(***************************************************************************)
(* Requests.                                                               *)
(***************************************************************************)

Request == [at : {"free", "read", "answered", "turn", "board"}, key : Keys \cup {NULL},
            found : Nat \cup {NULL}, row : Lead \cup {NULL}, count : Nat,
            full : Nat, team : Nat, lead : Nat \cup {NULL}, user : Users \cup {NULL}]

TypeOK ==
    /\ setup \in Setups
    /\ posted \in [Keys -> Forms]
    /\ posts \in 0..MaxPosts /\ runs \in [Keys -> 0..MaxPosts]
    /\ excused \subseteq Keys /\ cache \subseteq Keys
    /\ leads \in Seq(Lead)
    /\ brokers \in [Brokers -> [count : Nat, owned : Nat]]
    /\ pointer \in [full : 0..Available, team : 0..(NumTeams - 1)]
    /\ served \in Teams \cup {NULL}
    /\ loose \subseteq Phones /\ raced \subseteq Brokers
    /\ edits \in 0..MaxEdits
    /\ request \in [Processes -> Request]

Init ==
    /\ setup \in Setups
    /\ posted \in [Keys -> Forms]
    /\ posts = 0 /\ runs = [k \in Keys |-> 0]
    /\ excused = {} /\ cache = {}
    /\ leads = << >>
    /\ brokers = [b \in Brokers |-> [count |-> 0, owned |-> 0]]
    /\ pointer = [full |-> 0, team |-> 0]
    /\ served = NULL
    /\ loose = {} /\ raced = {}
    /\ edits = 0
    /\ request = [x \in Processes |-> Free]

Done(x) == request' = [request EXCEPT ![x] = Free]
Busy(k) == \E x \in Processes : request[x].key = k

\* Mutant of Replays: the answer is not looked up.
ReplaysNothing(k) == FALSE
Replays(k) == k \in cache

\* A form is posted.  Its key is looked up; if there is no answer, the view reads
\* what the form is about.
Post(x, k) ==
    LET f == posted[k]
        found == Found(Phone(f))
        With(y) == At(y, "read")
    IN /\ At(x, "free") /\ posts < MaxPosts
       /\ posts' = posts + 1
       /\ IF Replays(k)
          THEN UNCHANGED <<request, excused, loose, raced>>
          ELSE /\ request' = [request EXCEPT ![x] =
                    [Free EXCEPT !.at = "read", !.key = k, !.found = found,
                       !.row = IF found = NULL THEN NULL ELSE leads[found],
                       !.count = IF BrokerFor(f) = NULL THEN 0 ELSE brokers[BrokerFor(f)].count,
                       !.full = pointer.full, !.team = pointer.team]]
               /\ excused' = IF Busy(k) THEN excused \cup {k} ELSE excused
               /\ loose' = loose \cup {Phone(f) : y \in
                    {y \in Processes : With(y) /\ Phone(FormOf(y)) = Phone(f)}}
               /\ raced' = raced \cup ({BrokerFor(FormOf(y)) : y \in
                    {y \in Processes : With(y)}} \cap ({BrokerFor(f)} \ {NULL}))
       /\ UNCHANGED <<form, runs, cache, leads, brokers, turns, edits>>

\* Mutant of Counted: a re-submission counts as well.
CountedAlways(x) == BrokerFor(FormOf(x))
\* The broker whose count and history a submission adds to.
Counted(x) == IF request[x].found = NULL THEN BrokerFor(FormOf(x)) ELSE NULL

\* The transaction of a submission.  The count is the one read before, plus one.
Submit(x) ==
    LET f == FormOf(x)
        b == Counted(x)
    IN /\ At(x, "read")
       /\ \E o \in Outcomes(x) :
            \/ /\ f.source # "WALK_IN"
               /\ leads' = o.leads /\ UNCHANGED turns
            \/ /\ f.source = "WALK_IN" /\ f.pick = NULL
               /\ TakeTurn(x, o)
            \/ /\ f.source = "WALK_IN" /\ f.pick # NULL
               /\ leads' = o.leads
               /\ \E full \in {request[x].full, pointer.full},
                     team \in {request[x].team, pointer.team} :
                    AdvanceByHand(full, team)
       /\ brokers' = IF b = NULL THEN brokers
                     ELSE [brokers EXCEPT ![b].count = request[x].count + 1,
                             ![b].owned = IF request[x].found = NULL THEN @ + 1 ELSE @]
       /\ runs' = [runs EXCEPT ![request[x].key] = @ + 1]
       /\ request' = [request EXCEPT ![x] = [Free EXCEPT !.at = "answered", !.key = request[x].key]]
       /\ UNCHANGED <<form, posts, excused, cache, loose, raced, edits>>

\* An import skips a phone it finds; its answer is the summary.
Skip(x) ==
    /\ At(x, "read") /\ FormOf(x).door = "file" /\ request[x].found # NULL
    /\ request' = [request EXCEPT ![x] = [Free EXCEPT !.at = "answered", !.key = request[x].key]]
    /\ UNCHANGED <<form, keys, leads, brokers, turns, loose, raced, edits>>

\* The answer is cached.
Store(x) ==
    /\ At(x, "answered")
    /\ cache' = cache \cup {request[x].key}
    /\ Done(x)
    /\ UNCHANGED <<form, posts, runs, excused, leads, brokers, turns, loose, raced, edits>>

\* An answer is older than twelve minutes.
Expire(k) ==
    /\ k \in cache
    /\ cache' = cache \ {k} /\ excused' = excused \cup {k}
    /\ UNCHANGED <<form, posts, runs, leads, brokers, turns, loose, raced, edits, request>>

\* A request is refused or fails, and is not cached, or its process dies.
Drop(x) ==
    /\ ~At(x, "free")
    /\ Done(x)
    /\ excused' = IF At(x, "answered") THEN excused \cup {request[x].key} ELSE excused
    /\ UNCHANGED <<form, posts, runs, cache, leads, brokers, turns, loose, raced, edits>>

-----------------------------------------------------------------------------
(***************************************************************************)
(* The reception's skip button, the board and the admin's table.           *)
(***************************************************************************)

ReadTurn(x) ==
    /\ At(x, "free") /\ edits < MaxEdits
    /\ edits' = edits + 1
    /\ request' = [request EXCEPT ![x] =
         [Free EXCEPT !.at = "turn", !.full = pointer.full, !.team = pointer.team]]
    /\ UNCHANGED <<form, keys, leads, brokers, turns, loose, raced>>

WriteTurn(x) ==
    /\ At(x, "turn")
    /\ AdvanceByHand(request[x].full, request[x].team)
    /\ Done(x)
    /\ UNCHANGED <<form, keys, leads, brokers, loose, raced, edits>>

\* ManualDistributionService: what a user sees, and whom he may give it to.
Waiting(l) == l.active /\ l.salesman = NULL
OnBoard(u) ==
    {i \in DOMAIN leads : /\ Waiting(leads[i])
                          /\ \/ Can(u, "manual_all")
                             \/ Can(u, "team_manual") /\ leads[i].team \in Headed(u)}
BoardTeams(u) == IF Can(u, "manual_all") THEN Teams ELSE Headed(u)
Assignable(u) == UNION {(Members[t] \cup {Heads[t]}) \ setup.left : t \in BoardTeams(u)}

OpenBoard(x, u, i) ==
    /\ At(x, "free") /\ edits < MaxEdits
    /\ i \in OnBoard(u)
    /\ edits' = edits + 1
    /\ request' = [request EXCEPT ![x] = [Free EXCEPT !.at = "board", !.lead = i, !.user = u]]
    /\ UNCHANGED <<form, keys, leads, brokers, turns, loose, raced>>

AssignFromBoard(x, s) ==
    /\ At(x, "board")
    /\ s \in Assignable(request[x].user)
    /\ \E t \in BoardTeams(request[x].user) :
         /\ s \in Members[t] \cup {Heads[t]}
         /\ leads' = [leads EXCEPT ![request[x].lead].salesman = s,
                                   ![request[x].lead].team = t]
    /\ Done(x)
    /\ UNCHANGED <<form, keys, brokers, turns, loose, raced, edits>>

Edit(i, lead, phones) ==
    /\ edits < MaxEdits
    /\ edits' = edits + 1
    /\ leads' = [leads EXCEPT ![i] = lead]
    /\ loose' = loose \cup phones
    /\ UNCHANGED <<form, keys, brokers, turns, raced, request>>

Deactivate(i) == Edit(i, [leads[i] EXCEPT !.active = FALSE], {})
Reactivate(i) == Edit(i, [leads[i] EXCEPT !.active = TRUE], {})
Reassign(i, s) ==
    /\ s \notin setup.left /\ s # leads[i].salesman
    /\ Edit(i, [leads[i] EXCEPT !.salesman = s,
                  !.team = IF IsMember(s) THEN TeamOf(s) ELSE @], {})
EditPhone(i, p) == p # leads[i].phone /\ Edit(i, [leads[i] EXCEPT !.phone = p], {p})

\* Bulk reactivation, of every lead of the phone.
ReactivateAll(p) ==
    /\ edits < MaxEdits
    /\ edits' = edits + 1
    /\ leads' = [i \in DOMAIN leads |->
         IF leads[i].phone # Digits[p] THEN leads[i]
         ELSE [leads[i] EXCEPT !.active = TRUE, !.salesman = NULL, !.team = NULL]]
    /\ UNCHANGED <<form, keys, brokers, turns, loose, raced, request>>

-----------------------------------------------------------------------------
Next ==
    \/ \E x \in Processes : \/ \E k \in Keys : Post(x, k)
                            \/ Submit(x) \/ Skip(x) \/ Store(x) \/ Drop(x)
                            \/ ReadTurn(x) \/ WriteTurn(x)
                            \/ \E u \in Users, i \in DOMAIN leads : OpenBoard(x, u, i)
                            \/ \E s \in Users : AssignFromBoard(x, s)
    \/ \E k \in Keys : Expire(k)
    \/ \E i \in DOMAIN leads : \/ Deactivate(i) \/ Reactivate(i)
                               \/ \E s \in Users : Reassign(i, s)
                               \/ \E p \in Phones : EditPhone(i, p)
    \/ \E p \in Phones : ReactivateAll(p)

Spec == Init /\ [][Next]_vars

-----------------------------------------------------------------------------
(***************************************************************************)
(* Properties.                                                             *)
(***************************************************************************)

\* A form is executed once however often it is posted, unless two of its posts
\* overlapped, its process died before the answer was cached, or the answer
\* expired.
RunOnce == \A k \in Keys : runs[k] > 1 => k \in excused

\* leads_count is the number of leads a broker's history says it created; where
\* two of its submissions overlapped, it may have missed some.
BrokerCountsItsLeads ==
    \A b \in Brokers : /\ brokers[b].count <= brokers[b].owned
                       /\ b \notin raced => brokers[b].count = brokers[b].owned

\* Two leads of one phone come from two requests that overlapped or from an edit.
OneLeadPerPhone ==
    \A i, j \in DOMAIN leads :
        i # j /\ leads[i].phone = leads[j].phone => leads[i].phone \in loose

Submitted(x) == At(x, "read") /\ request'[x].at = "answered"

\* A broker's lead reaches a salesman through the people of the board, not
\* through the broker's own submission: unless it names him, or the lead was
\* inactive.
BrokersDoNotDistribute ==
    [][\A x \in Processes : Submitted(x) /\ FormOf(x).source = "BROKER" =>
        \A i \in DOMAIN leads' :
            \/ leads'[i].salesman \in {NULL, FormOf(x).pick}
            \/ i \in DOMAIN leads /\ leads[i] = leads'[i]
            \/ request[x].found # NULL /\ ~request[x].row.active]_vars

\* Two walk-ins in a row that the reception lets the rotation serve go to
\* different teams, also when they are registered at once, as long as two teams
\* have somebody to serve.
TeamsTakeTurns ==
    [][\A x \in Processes :
        /\ Submitted(x) /\ FormOf(x).source = "WALK_IN" /\ FormOf(x).pick = NULL
        /\ setup.walkin = "TEAM_TURN" /\ Cardinality(OpenTeams) > 1
        => served' # served]_vars
=============================================================================
