----------------------------- MODULE Campaigns -----------------------------
(***************************************************************************)
(* A marketing campaign: its record, the child records its budget is the   *)
(* sum of, finance's decision about it, and the leads attributed to its    *)
(* child records.                                                          *)
(*                                                                         *)
(* A web request reads the campaign without a lock, decides from what it   *)
(* read whether it may go on, and writes later.  Every writer but one      *)
(* holds the campaign's row from its first write to its commit: an UPDATE  *)
(* or SELECT FOR UPDATE of the row, or the lock that the foreign key of an *)
(* inserted child takes on it; so what is written is one step.  The        *)
(* exception is a recalculation of the total, which sums the children      *)
(* before it writes the row.  A process may die, or the request fail,      *)
(* between its steps.                                                      *)
(*                                                                         *)
(* Beat's messages carry no tenant (config/celery.py:20-21): the hourly    *)
(* recalculation runs in the default database only, and in a tenant's the  *)
(* total is summed again by the pages alone.                               *)
(*                                                                         *)
(* Rows come back in the order of their random keys; the order of the      *)
(* items of a payload stands for that order, and Payloads has each order   *)
(* of interest.                                                            *)
(***************************************************************************)
EXTENDS Naturals, Integers, Sequences, FiniteSets, Functions

CONSTANTS
    Web,         \* processes that answer requests
    Tasks,       \* workers that run the hourly task
    Leads,       \* leads that may be attributed to the campaign
    Payloads,    \* what the campaigns page may post
    Rejections,  \* sets of budget keys finance may exclude
    Costs,       \* values of an Other Cost
    MaxCosts,    \* bound: Other Costs at any time
    Headcounts,  \* real attendance
    NULL

Processes == Web \cup Tasks
Types == {"events", "tv_ads", "street_ads", "exhibitions", "social_ads"}
Kinds == Types \cup {"other_costs"}
Decided == {"APPROVED", "SEMI_APPROVED", "NOT_APPROVED"}
Statuses == Decided \cup {"PENDING"}
\* "NONE": not created yet.  "DELETED": deleted.
Stages == Statuses \cup {"NONE", "DELETED"}

ASSUME Inputs ==
    /\ \A p \in Payloads : /\ p.types \subseteq Types
                           /\ DOMAIN p.lines = Kinds
                           /\ \A k \in Kinds : p.lines[k] \in Seq(Range(p.lines[k]))
                           /\ \A k \in Types \ p.types : p.lines[k] = << >>
    /\ Costs \subseteq Nat /\ Headcounts \subseteq Nat
    /\ MaxCosts \in Nat /\ IsFiniteSet(Leads)
    /\ NULL \notin Payloads /\ NULL \notin Headcounts /\ NULL \notin Types \X Nat

VARIABLES
    db,          \* the kind of database, which does not change
    policies,    \* the company's policies, which do not change
    row,         \* the campaign's row
    lines,       \* its child records, by kind
    source,      \* the child record each lead is attributed to
    request      \* what each process is doing, and what it read

vars == <<db, policies, row, lines, source, request>>

\* An attribution whose record has been replaced since.
Gone == <<"gone", 0>>

Exists == row.status \in Statuses
\* approval_required and restrict_editing: what is locked is decided first.
Required == policies # "open"
Restricted == policies = "lock"
Free == [at |-> "free", status |-> "NONE", rejected |-> {}, payload |-> NULL,
         total |-> 0, overtaken |-> FALSE]
At(x, place) == request[x].at = place
Ids == UNION {{<<k, i>> : i \in DOMAIN lines[k]} : k \in Types}

-----------------------------------------------------------------------------
(***************************************************************************)
(* Budgets.                                                                *)
(***************************************************************************)

\* A child record with its own sub-records, which may have some in turn (the
\* locations of a street ad).  A social media ad has no budget of its own.
SubCost(s) == s.amount + SumFunction([i \in DOMAIN s.subs |-> s.subs[i].amount])
Cost(x) == x.amount + SumFunction([i \in DOMAIN x.subs |-> SubCost(x.subs[i])])

\* What the child records say, by kind.
Items(k) == [i \in DOMAIN lines[k] |-> lines[k][i].item]
AllItems == [k \in Kinds |-> Items(k)]

\* CampaignBudgetService.recalculate: the sum of all there is.
CostOf(items) == SumFunction([i \in DOMAIN items |-> Cost(items[i])])
Total(its) ==
    CostOf(its["events"]) + CostOf(its["tv_ads"]) + CostOf(its["street_ads"])
    + CostOf(its["exhibitions"]) + CostOf(its["social_ads"]) + CostOf(its["other_costs"])

\* The keys of the finance page name a budget by where it stands.
MainKeys(its) == UNION {{<<k, i>> : i \in DOMAIN its[k]} : k \in Kinds}
SubKeys(its) ==
    UNION {{Append(m, j) : j \in DOMAIN its[m[1]][m[2]].subs} : m \in MainKeys(its)}
Locations(its, s) == its[s[1]][s[2]].subs[s[3]].subs
LocationKeys(its) ==
    UNION {{Append(s, n) : n \in DOMAIN Locations(its, s)} : s \in SubKeys(its)}

\* FinanceApprovalService._breakdown: for a social media ad the page shows the
\* sum of its platforms, and each platform again.
MainAmount(its, m) ==
    LET x == its[m[1]][m[2]] IN IF m[1] = "social_ads" THEN Cost(x) ELSE x.amount
Breakdown(its) ==
    [key \in MainKeys(its) \cup SubKeys(its) \cup LocationKeys(its) |->
        CASE Len(key) = 2 -> MainAmount(its, key)
          [] Len(key) = 3 -> its[key[1]][key[2]].subs[key[3]].amount
          [] Len(key) = 4 -> Locations(its, key)[key[4]].amount]

\* FinanceApprovalService.approved_budget.
ApprovedBudget(r, its) ==
    CASE r.status = "APPROVED" -> r.total
      [] r.status = "SEMI_APPROVED" ->
           r.total - SumFunctionOnSet(Breakdown(its), r.rejected \cap DOMAIN Breakdown(its))
      [] OTHER -> 0

-----------------------------------------------------------------------------
(***************************************************************************)
(* What an edit may change.                                                *)
(***************************************************************************)

Same(a, b) == a.name = b.name /\ a.amount = b.amount
Nth(S, i) == Cardinality({h \in S : h <= i})

\* Each item that was not rejected is matched with the first equal item of the
\* payload that is still free; what is below it is compared with that one.
Kept(old, new, path, rejected, Below(_, _, _, _)) ==
    \A i \in DOMAIN old : Append(path, i) \notin rejected =>
        \E p \in DOMAIN new :
            /\ Same(old[i], new[p])
            /\ Nth({h \in DOMAIN new : Same(old[i], new[h])}, p)
                 = Nth({h \in DOMAIN old : /\ Append(path, h) \notin rejected
                                           /\ Same(old[i], old[h])}, i)
            /\ Below(old[i].subs, new[p].subs, Append(path, i), rejected)

NothingBelow(old, new, path, rejected) == TRUE
SubsKept(old, new, path, rejected) == Kept(old, new, path, rejected, NothingBelow)
TypeLinesKept(old, new, path, rejected) == Kept(old, new, path, rejected, SubsKept)

AboutKept(p) == p.about = row.about /\ p.types = row.types
EventsKept(p, rejected) ==
    Kept(Items("events"), p.lines["events"], <<"events">>, rejected, SubsKept)
TvKept(p, rejected) ==
    Kept(Items("tv_ads"), p.lines["tv_ads"], <<"tv_ads">>, rejected, SubsKept)
StreetKept(p, rejected) ==
    Kept(Items("street_ads"), p.lines["street_ads"], <<"street_ads">>, rejected, TypeLinesKept)
SocialKept(p, rejected) ==
    Kept(Items("social_ads"), p.lines["social_ads"], <<"social_ads">>, rejected, SubsKept)
ExhibitionsKept(p, rejected) ==
    Kept(Items("exhibitions"), p.lines["exhibitions"], <<"exhibitions">>, rejected, SubsKept)
OtherCostsKept(p, rejected) ==
    Kept(Items("other_costs"), p.lines["other_costs"], <<"other_costs">>, rejected, NothingBelow)

\* The status and the rejected budgets are those the request read; the payload
\* is compared with the records there are now.
MayEdit(seen, p) ==
    Restricted =>
        /\ seen.status # "APPROVED"
        /\ seen.status = "SEMI_APPROVED" =>
              /\ AboutKept(p)
              /\ EventsKept(p, seen.rejected) /\ TvKept(p, seen.rejected)
              /\ StreetKept(p, seen.rejected) /\ SocialKept(p, seen.rejected)
              /\ ExhibitionsKept(p, seen.rejected) /\ OtherCostsKept(p, seen.rejected)

-----------------------------------------------------------------------------
(***************************************************************************)
(* Rows and requests.                                                      *)
(***************************************************************************)

RejectedKeys == UNION Rejections
Row == [status : Stages, total : Nat, rejected : SUBSET RejectedKeys,
        about : {p.about : p \in Payloads}, types : SUBSET Types]
\* A child record: what the payload says of it, and what the page never edits.
Line == [item : UNION {UNION {{p.lines[k][i] : i \in DOMAIN p.lines[k]} : k \in Kinds}
                        : p \in Payloads}
                \cup [name : {NULL}, amount : Costs, subs : {<< >>}],
         leads : 0..Cardinality(Leads), attended : Headcounts \cup {NULL}]
Request == [at : {"free", "edit", "checked", "form", "budget", "summed"},
            status : Stages, rejected : SUBSET RejectedKeys,
            payload : Payloads \cup {NULL}, total : Nat, overtaken : BOOLEAN]

TypeOK ==
    /\ db \in {"default", "tenant"}
    /\ policies \in {"open", "review", "lock"}
    /\ row \in Row
    /\ DOMAIN lines = Kinds /\ \A k \in Kinds : lines[k] \in Seq(Line)
    /\ source \in [Leads -> ((Types \X Nat) \cup {NULL, Gone})]
    /\ request \in [Processes -> Request]

Init ==
    /\ db \in {"default", "tenant"}
    /\ policies \in {"open", "review", "lock"}
    /\ \E p \in Payloads : row = [status |-> "NONE", total |-> 0, rejected |-> {},
                                   about |-> p.about, types |-> {}]
    /\ lines = [k \in Kinds |-> << >>]
    /\ source = [l \in Leads |-> NULL]
    /\ request = [x \in Processes |-> Free]

Done(x) == request' = [request EXCEPT ![x] = Free]

\* A request ends before it wrote: refused, failed, or its process died.
Drop(x) ==
    /\ ~At(x, "free")
    /\ Done(x)
    /\ UNCHANGED <<db, policies, row, lines, source>>

-----------------------------------------------------------------------------
(***************************************************************************)
(* The campaigns page.                                                     *)
(***************************************************************************)

\* _rebuild_children: every record is replaced; an event inherits the attendance
\* of the last event of its name, leads start anew.
Attended(name) ==
    LET E == {i \in DOMAIN lines["events"] : /\ lines["events"][i].item.name = name
                                             /\ lines["events"][i].attended # NULL}
    IN IF E = {} THEN NULL
       ELSE lines["events"][CHOOSE i \in E : \A h \in E : h <= i].attended

\* Mutants of Rebuilt: an edit keeps the counters; it loses the attendance.
RebuiltKeepingCounters(p) ==
    [k \in Kinds |-> [i \in DOMAIN p.lines[k] |->
        [item |-> p.lines[k][i],
         leads |-> IF i \in DOMAIN lines[k] THEN lines[k][i].leads ELSE 0,
         attended |-> IF k = "events" THEN Attended(p.lines[k][i].name) ELSE NULL]]]
RebuiltFromPayloadOnly(p) ==
    [k \in Kinds |-> [i \in DOMAIN p.lines[k] |->
        [item |-> p.lines[k][i], leads |-> 0, attended |-> NULL]]]
Rebuilt(p) ==
    [k \in Kinds |-> [i \in DOMAIN p.lines[k] |->
        [item |-> p.lines[k][i], leads |-> 0,
         attended |-> IF k = "events" THEN Attended(p.lines[k][i].name) ELSE NULL]]]

\* CampaignPayloadService.create with create_campaign: without an approval flow
\* the campaign is born approved.
Create(p) ==
    /\ row.status = "NONE"
    /\ lines' = Rebuilt(p)
    /\ row' = [status |-> IF Required THEN "PENDING" ELSE "APPROVED",
               total |-> Total(AllItems'), rejected |-> {},
               about |-> p.about, types |-> p.types]
    /\ UNCHANGED <<db, policies, source, request>>

\* A view that works on the campaign first gets its row.
Get(x, seen) ==
    /\ Exists /\ At(x, "free")
    /\ request' = [request EXCEPT ![x] = seen]
    /\ UNCHANGED <<db, policies, row, lines, source>>

OpenEdit(x) ==
    Get(x, [Free EXCEPT !.at = "edit", !.status = row.status, !.rejected = row.rejected])

CheckEdit(x, p) ==
    /\ At(x, "edit") /\ Exists
    /\ MayEdit(request[x], p)
    /\ request' = [request EXCEPT ![x].at = "checked", ![x].payload = p,
                                     ![x].rejected = {}]
    /\ UNCHANGED <<db, policies, row, lines, source>>

\* Mutant of Resets: a rejected campaign is not reopened.
ResetsApproved(seen) == Required /\ seen.status \in {"APPROVED", "SEMI_APPROVED"}
\* reset_to_pending_on_edit goes by the status the request read.
Resets(seen) == Required /\ seen.status \in Decided

SaveEdit(x) ==
    /\ At(x, "checked") /\ Exists
    /\ LET p == request[x].payload
           reset == Resets(request[x])
       IN /\ lines' = Rebuilt(p)
          /\ row' = [status |-> IF reset THEN "PENDING" ELSE row.status,
                     total |-> Total(AllItems'),
                     rejected |-> IF reset THEN {} ELSE row.rejected,
                     about |-> p.about, types |-> p.types]
    /\ source' = [l \in Leads |-> IF source[l] = NULL THEN NULL ELSE Gone]
    /\ Done(x)
    /\ UNCHANGED <<db, policies>>

\* CampaignPayloadService.delete: what belongs to the campaign goes with it.
Delete ==
    /\ Exists
    /\ row' = [row EXCEPT !.status = "DELETED", !.total = 0, !.rejected = {}]
    /\ lines' = [k \in Kinds |-> << >>]
    /\ source' = [l \in Leads |-> NULL]
    /\ UNCHANGED <<db, policies, request>>

\* set_event_attendance.
SetAttendance(i, n) ==
    /\ i \in DOMAIN lines["events"]
    /\ lines' = [lines EXCEPT !["events"][i].attended = n]
    /\ UNCHANGED <<db, policies, row, source, request>>

-----------------------------------------------------------------------------
(***************************************************************************)
(* The other doors: the fallback form and the budget page.                 *)
(***************************************************************************)

\* Mutant of DoorOpen: only an approved campaign is closed.
DoorOpenUnlessApproved(seen) == Restricted => seen.status # "APPROVED"
\* Both views refuse by the status they read.  The budget page would let a
\* semi-approved campaign pass whose rejected keys have "other_costs", but keys
\* carry a position ("other_costs.0").
DoorOpen(seen) == Restricted => seen.status \notin {"APPROVED", "SEMI_APPROVED"}

OpenForm(x) == DoorOpen(row) /\ Get(x, [Free EXCEPT !.at = "form"])

SaveForm(x, about) ==
    /\ At(x, "form") /\ Exists
    /\ row' = [row EXCEPT !.about = about]
    /\ Done(x)
    /\ UNCHANGED <<db, policies, lines, source>>

OpenBudget(x) == DoorOpen(row) /\ Get(x, [Free EXCEPT !.at = "budget"])

OtherCost(v) == [item |-> [name |-> NULL, amount |-> v, subs |-> << >>],
                 leads |-> 0, attended |-> NULL]
Inserted(s, i, e) == SubSeq(s, 1, i - 1) \o <<e>> \o SubSeq(s, i, Len(s))

AddOtherCost(x, v) ==
    /\ At(x, "budget") /\ Exists
    /\ Len(lines["other_costs"]) < MaxCosts
    /\ \E i \in 1..(Len(lines["other_costs"]) + 1) :
         lines' = [lines EXCEPT !["other_costs"] = Inserted(@, i, OtherCost(v))]
    /\ row' = [row EXCEPT !.total = Total(AllItems')]
    /\ Done(x)
    /\ UNCHANGED <<db, policies, source>>

\* A recalculation by itself: the children are summed, by the budget page when it
\* is only opened or its form is not valid, and by the hourly task ...
Summing(x, place) ==
    /\ Exists /\ At(x, place)
    /\ request' = [request EXCEPT ![x].at = "summed", ![x].total = Total(AllItems)]
    /\ UNCHANGED <<db, policies, row, lines, source>>
SumOnPage(x) == Summing(x, "budget")
SumHourly(x) == db = "default" /\ Summing(x, "free")

\* Mutant of WriteTotal: a total is only raised.
WriteHigherTotal(x) ==
    /\ At(x, "summed") /\ Exists
    /\ row' = [row EXCEPT !.total = IF @ > request[x].total THEN @ ELSE request[x].total]
    /\ Done(x)
    /\ UNCHANGED <<db, policies, lines, source>>

\* ... and the sum is written.
WriteTotal(x) ==
    /\ At(x, "summed") /\ Exists
    /\ row' = [row EXCEPT !.total = request[x].total]
    /\ Done(x)
    /\ UNCHANGED <<db, policies, lines, source>>

-----------------------------------------------------------------------------
(***************************************************************************)
(* Finance, and the leads.                                                 *)
(***************************************************************************)

\* CampaignApprovalService.set_status, under the lock of the row.  NULL: the
\* caller says nothing of rejected budgets.
SetStatus(status, rejected) ==
    /\ Exists
    /\ row' = [row EXCEPT !.status = status, !.total = Total(AllItems),
         !.rejected = IF status # "SEMI_APPROVED" THEN {}
                      ELSE IF rejected = NULL THEN @ ELSE rejected]
    /\ request' = [x \in Processes |->
         [request[x] EXCEPT !.overtaken = x \in Web /\ ~At(x, "free")]]
    /\ UNCHANGED <<db, policies, lines, source>>

\* The finance page's tokens, and the statuses they stand for.
StatusOf == [pending |-> "PENDING", approved |-> "APPROVED",
             semi |-> "SEMI_APPROVED", not_approved |-> "NOT_APPROVED"]
DecideOnPage(token, rejected) == SetStatus(StatusOf[token], rejected)
DecideOnForm(status) == SetStatus(status, NULL)

\* CampaignAttributionService.link_lead: the attribution and the counter of the
\* record it names, which an edit may have replaced since the form was filled.
LinkLead(l, id) ==
    /\ Exists /\ source[l] = NULL
    /\ source' = [source EXCEPT ![l] = id]
    /\ lines' = IF id = Gone THEN lines
                ELSE [lines EXCEPT ![id[1]][id[2]].leads = @ + 1]
    /\ UNCHANGED <<db, policies, row, request>>

-----------------------------------------------------------------------------
Page(x) ==
    \/ OpenEdit(x) \/ (\E p \in Payloads : CheckEdit(x, p)) \/ SaveEdit(x)
    \/ OpenForm(x) \/ (\E p \in Payloads : SaveForm(x, p.about))
    \/ OpenBudget(x) \/ (\E v \in Costs : AddOtherCost(x, v))
    \/ SumOnPage(x) \/ WriteTotal(x)

Recalculate(x) == SumHourly(x) \/ WriteTotal(x)

Finance ==
    \/ \E rejected \in Rejections : DecideOnPage("semi", rejected)
    \/ \E token \in DOMAIN StatusOf \ {"semi"} : DecideOnPage(token, NULL)
    \/ \E status \in Statuses : DecideOnForm(status)

Next ==
    \/ \E p \in Payloads : Create(p)
    \/ \E x \in Web : Page(x)
    \/ \E x \in Tasks : Recalculate(x)
    \/ \E x \in Processes : Drop(x)
    \/ Delete
    \/ \E i \in DOMAIN lines["events"], n \in Headcounts \cup {NULL} : SetAttendance(i, n)
    \/ Finance
    \/ \E l \in Leads, id \in Ids \cup {Gone} : LinkLead(l, id)

Spec == Init /\ [][Next]_vars

\* Beat sends the task every hour, to the default database (SumHourly), and its
\* worker does not die each time.  Nothing obliges a user to open a page.
FairSpec == Spec /\ \A x \in Tasks : WF_vars(SumHourly(x)) /\ SF_vars(WriteTotal(x))

-----------------------------------------------------------------------------
(***************************************************************************)
(* Properties.                                                             *)
(***************************************************************************)

Wrote(x) == ~At(x, "free") /\ request'[x] = Free /\ <<row, lines>>' # <<row, lines>>
Content == <<row.about, row.types, AllItems>>

\* The counter of a child record is the number of leads attributed to it, as
\* _bump_counts and the rebuild of the records leave it.
CountersMatchAttributions ==
    \A k \in Types : \A i \in DOMAIN lines[k] :
        lines[k][i].leads = Cardinality({l \in Leads : source[l] = <<k, i>>})

\* Where the company locks decided campaigns, the budget that approved_budget
\* reports of an approved or semi-approved one stays what finance decided, unless
\* finance decides again, a request that had read the campaign before the decision
\* writes after it, or a recalculation, which may be late, writes the total.
ApprovedAmountStands ==
    [][Restricted /\ row.status \in {"APPROVED", "SEMI_APPROVED"} /\ row'.status = row.status
        => \/ ApprovedBudget(row, AllItems)' = ApprovedBudget(row, AllItems)
           \/ Finance
           \/ \E x \in Processes : Wrote(x) /\ (request[x].overtaken \/ At(x, "summed"))]_vars

\* A decided campaign keeps its content as long as it keeps its status: the
\* editor reopens it (reset_to_pending_on_edit), the other doors are closed.  The
\* exceptions are requests the decision overtook, and the two doors that do not
\* reopen the campaign where they are open: the company does not lock it, or it
\* is rejected.
DecisionsStand ==
    [][Required /\ row.status \in Decided /\ row'.status = row.status
        => \/ Content' = Content
           \/ \E x \in Web : /\ Wrote(x)
                             /\ \/ request[x].overtaken
                                \/ /\ At(x, "form") \/ At(x, "budget")
                                   /\ ~Restricted \/ row.status = "NOT_APPROVED"]_vars

\* The headcounts recorded for events of a name.
Recorded(name) ==
    {lines["events"][h].attended : h \in {g \in DOMAIN lines["events"] :
                                              lines["events"][g].item.name = name}} \ {NULL}
Attendance == [i \in DOMAIN lines["events"] |->
                  <<lines["events"][i].item.name, lines["events"][i].attended>>]

\* The attendance recorded for the events of a campaign is only changed on its own
\* control: an edit that replaces the records keeps for an event one of the headcounts
\* recorded for events of its name, and records none where there was none.
AttendanceSurvives ==
    [][Exists /\ Exists' =>
        \/ \E i \in DOMAIN lines["events"], n \in Headcounts \cup {NULL} : SetAttendance(i, n)
        \/ Attendance' = Attendance
        \/ \A i \in DOMAIN lines'["events"] :
               LET before == Recorded(lines'["events"][i].item.name)
                   after == lines'["events"][i].attended
               IN IF before = {} THEN after = NULL ELSE after \in before]_vars

\* In the default database, a total that a late recalculation left wrong is put right
\* again by the hourly one, however often it happens.  In a tenant's it may stay wrong
\* until somebody saves the campaign or opens its budget.
TotalIsReconciled ==
    db = "default" => []<>(Exists => row.total = Total(AllItems))
=============================================================================
