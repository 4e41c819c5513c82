# A verification development of the Argoz CRM

Argoz is a CRM for real-estate sales: Django, MariaDB (one database per tenant and a
default one), Celery with Redis. Leads come in by form, file, walk-in and
webhook, are distributed to salesmen, and are rotated to somebody else when the
salesman does not act before his SLA clock expires.

This directory holds TLA+ models of that behaviour, written from the code
under `src/`, what TLC checks of them on small instances, and what TLAPS proves
of them for every instance. `PROJECT.json` has the line-by-line map from
definitions to code, the list of hazards, the runs, the theorems, and for each property a
mutant: a bug in a definition, under which the property fails.

    cd tla
    tlc -workers 2 -config LeadClock.cfg MCLeadSla     # one run
    tlapm LeadSla_proofs.tla                           # the proofs of a module

1 the system - 2 the modules - 3 the runs - 4 the proofs - 5 where code and documents
disagree - 6 not modelled - 7 what is left to do

## 1. The system

### Components

| component | state | operations | talks to | modules |
|---|---|---|---|---|
| **Lead lifecycle, SLA clocks** `leads/services`, `leads/tasks.py` | `Lead` (stage, active, team, salesman, `sla_deadline`), `SLAInstance`, `SLABreachEvent` | change stage, (de)activate, reactivate, edit; `open_instance`, `cancel_active`, the task `expire_sla_instance` | broker, distribution, policies | `LeadSla` |
| **Distribution** `distribution/` | `RotationPointer`, `DistributionRun`, `LeadRetryAttempt`, availability | `distribute`, `assign`, `handle_expiry`, manual assignment | lead rows, clocks, policies | `Rotation`, `LeadSla` |
| **Lead intake** `leads/services/{source_router,lead_creation,duplicate,bulk_import,walkin,existing_client}_service.py` | `Lead`, `Broker.leads_count`, two walk-in pointers | nine sources, import, merge, bulk reactivation, reception | distribution, marketing | `Intake` |
| **Manual distribution board** `manual_distribution_service.py` | none (queries) | list, assign | lead rows | `Intake`, `LeadSla` |
| **Sales action policy** `sales_action_policy_service.py` | none (counts rows) | allow or refuse a plan or a stage | policies, lead rows | `SalesPlans` |
| **Policies** `policies/` | `CompanyPolicyValue` | set, resolve | everybody | `Policies`, `SalesPlans` |
| **Integrations** `integrations/` | `WebhookEvent`, endpoint, mappings | receive, import, retry sweep, set up | intake, broker, beat | `Webhooks` |
| **Core** `core/middleware.py` | the cache of answers by `Idempotency-Key` | look up, store | every form | `Intake` |
| **Notifications and reminders** `leads/tasks.py`, `notifications/` | `Reminder`, `Notification` | plan, deliver, sweep, warn; inbox, push | broker, beat | `Reminders` |
| **Marketing** `marketing/services` | `Campaign`, its child records with their counters, its total | create, three ways to edit, recalculate, attribute, delete | finance, intake | `Campaigns` |
| **Finance** `finance/` | none of its own | decide, reject items, approved budget | marketing | `Campaigns` |
| **Chat** `chat/`, `static/chat/chat.js` | conversations, messages, read marks, the page | open, send, upload, read | WebSocket groups | `Chat` |
| **Accounts** `accounts/` | users, teams and their members, brokers, agencies | create, edit, (de)activate, delete | authorization | `Accounts`, `Access` |
| **Authorization** `authorization/` | roles, grants, exceptions, the cached set | edit a role, edit a user, matrix, resolve | Redis, accounts | `Access` |
| **Companies, tenants** | database registry, routing | choose a database | everybody | (the kinds of database: `Webhooks`, `Reminders`, `Campaigns`, `Access`) |
| **Audit, reports, notebook** | log, none, notes | append, query, CRUD | - | - |

### How they interact

A web request works in one transaction of the default database
(`ATOMIC_REQUESTS`), or, in a tenant's, in the `transaction.atomic` blocks of the services.
The database is MariaDB at READ COMMITTED. Some services take the row they are about with
`select_for_update`; most read, decide, and write whole rows. Work for later is a
Celery message: the expiry of a clock and a reminder (sent with their time from an
`on_commit` callback), the import of a webhook event (sent directly). Beat starts the sweeps:
failed webhooks, late reminders, totals of campaigns; they run on the default database only. Permissions and the answers to
idempotency keys are cached in Redis, beside the transactions. Pages keep what they loaded
and post it later: the policy page, the form of a team, the board, the chat.

### What is hard about it

* **Locks that do not cover what is read.** `expire_sla_instance`, a re-submission, the
  import, Round Robin, the caps of the action policy, the editors of a campaign and the forms of
  brokers all decide on rows that somebody else may be writing.
* **Look up, then insert.** Phones, webhook events, idempotency keys, SLA warnings and
  conversations; MariaDB lacks the conditional unique constraints that some models declare.
* **Messages and caches beside the database.** A clock is ended by its one
  message, revoked before a transaction commits and sent after it; cached permissions are
  dropped before the commit; uploads are pushed before it.
* **Pages that are older than the database.** They post whom they were loaded with.
* **Long histories.** Teams, hand assignments, re-submissions, escalation, role changes and
  edits of campaigns in any order.
* **Liveness.** A running clock ends, an event is handled, a failed one retried, a reminder
  sent, a wrong total put right.

What makes each component correct is what the properties of section 3 say. `PROJECT.json`
("hazards") lists each place where it can go wrong, with the properties that would notice.

## 2. The modules

| module | what it is | states |
|---|---|---|
| `LeadSla` | leads, clocks, expiry messages, runs of the expiry task | 1.8 M |
| `RunningClock`, `LeadSlaRefines` | what the clocks promise, and the mapping under which `LeadSla` implements it | |
| `Rotation` | who gets a lead: pools, Round Robin, By Turn, retry, escalation | 1.5 M |
| `Webhooks` | receipt, import and retry of webhook events | 0.1 M |
| `Intake` | forms with their keys, sources, creation and merge, reception, board | 0.9 M |
| `Policies` | the rows of policies: what the page writes and the services read | |
| `SalesPlans` | plans and moves under the action policies; composes with `Policies` | 1.2 M |
| `Reminders` | reminders and SLA warnings, from the plan to the notification | |
| `Campaigns` | a campaign, its budget, finance's decision, attributed leads | 0.2 M |
| `Chat` | two pages and their conversation | |
| `Access` | roles, exceptions, the resolver and its cache | |
| `Accounts` | users, teams, brokers, agencies under concurrent edits | 2.7 M |
| `MC*` | constants, symmetry and definitions for TLC | |
| `*_proofs` | theorems about the module of the same name; `LeadSla_proofs` also about `LeadSlaRefines`, `Accounts_proofs` also about `Access`, `Chat_proofs` also about `Reminders` | |

A definition has the name of the function it stands for where it is one function
(`open_instance`, `change_stage`, `distribute`, `_retry_within_team`); an action has the name
of what a user, a worker or the broker does. Definitions called *Mutant of X* are variants of
`X` with a plausible bug, used by no specification.

Requests that hold the rows they read from the first read to the commit are one action.
Where a service reads first and writes later it is two, and anything may happen in between.
A variable commented "for the properties" records that something happened (two requests
overlapped, a page was overtaken, a message was lost); it enables and disables nothing. A property
excepts what such a variable names, which says exactly which race
is needed to break it; the mutants show that the exceptions do not excuse everything.

### LeadSla

`lead` = `Lead` rows; `sla` = `SLAInstance` rows (`UNUSED` = not created); `task` = the
Celery message of an instance; `worker` = what a run of `expire_sla_instance` has read;
`form` = the lead a re-submission has read; `breaches` = `SLABreachEvent`.

| action | code |
|---|---|
| `CreateAssigned`, `CreateUnassigned` | `LeadCreationService.create` |
| `ChangeStage` | `LeadStageService.change_stage` and its callers |
| `ScheduleUnassigned` | follow-up or meeting for a lead of nobody: rolls back after the revocation |
| `AssignManually` | `ManualAssignmentService`, to a salesman or to a team |
| `Deactivate`, `Reactivate`, `BulkReactivate` | `LeadAdminService`, `ReactivationService`, `BulkLeadImportService` |
| `ReadDuplicate`, `MergeDuplicate` | `DuplicateService.check`, `_merge_duplicate` |
| `Enqueue`, `LoseCallback` | the `on_commit` callback, and the death of the process before it |
| `Deliver`, `Process`, `Abort` | `expire_sla_instance`: what it reads, `process_instance`, its failure |

A message may be delivered again, a revocation may be missed by a worker that already has the
message, and a run may die after it was acknowledged. A deadline may pass at any moment,
which allows every order of expiry and request. The strategy's choice is any candidate of
any pool.

### Rotation

The decisions `LeadSla` leaves free. A distribution is the decision (`Arrive`, `Redispatch`,
`Expire`) on what is read, and `Commit` or `Rollback`. An expiry decides on what its task has read
before its transaction, without a lock (`Fetch`, `seen`): the team and the salesman a lead had then,
also when its clock has ended since, as after a message that was delivered twice (`Late`). Between a decision and its commit stands
what the database locks: inserting a `DistributionRun`, an `SLABreachEvent` or a
`LeadRetryAttempt` takes a shared lock on the lead's row by its foreign key; By Turn holds its
`RotationPointer`; Round Robin locks nothing. `tries` is the number of `LeadRetryAttempt`
rows, capped at `Attempts`, as the code only asks whether it is below.

### Webhooks

`Receive`, `Store`, `Send` and `Commit` are a request, `Take` (or `Retry` by the sweep),
`Import` and `Fail` an import; any process may die (`Drop`, `Abort`). The same code behaves
differently on three databases, so `db` is part of the state: `"tenant"` (no
`ATOMIC_REQUESTS`: the event is committed before the message is sent; beat's messages
carry no tenant, `config/celery.py:20-21`, so nothing sweeps it), `"control"` (the
default one: the message is sent before the event is committed; the URLs that
`endpoint_url` gives out are served from here) and `"sqlite"` (development, the only one on
which Django creates the conditional unique constraints).

### Intake

A request is `Post` (the middleware looks its key up), a first action that reads its broker
and the lead of the phone, `Submit` (all that is written, in one transaction), `Store` (its
answer is cached) or `Drop`. `Routed` says what the handler of each source asks of the creation;
`Created` and `Merged` what that makes of the rows. `ReadTurn` and `WriteTurn` are the
reception's skip, `OpenBoard` and `AssignFromBoard` the board with the time its user takes.
Which salesman an automatic distribution finds is any of the pool: that is `Rotation`'s.

### SalesPlans, Policies

A plan is counted against its limits and commits later: a follow-up or meeting (`Schedule`)
locks the lead first, a freeze (`CountFreezes`, `Freeze`) after its first count. `Move` is a
bare stage change, `ChangePolicy` a post of the policy page, through the parser of each type
(`Parsed`) and the readers of the services (`ValueOf`, `OptionCode`), which `MCSalesPlans`
compares for every type and post in an `ASSUME`. Whoever asks may act on any lead, as in the views;
`Planner` is whose plan it will count as, which for a freeze need not be the one counted.

### Reminders

`Plan` saves a reminder and posts its message, `Restart` opens a clock with its warning;
workers `Deliver` or `Sweep` (what is pending is read without a lock), `Notify`, `MarkSent`,
`LookForWarning`, `Warn`, `Die`. `tenant` says which kind of database it is: a tenant's is not swept.

### Campaigns

`row` and `lines` are the campaign and its child records (positions, as finance's keys name
them); a request reads (`Page` with its doors: editor, fallback form, budget page) and
writes later; `SumOnPage` and `SumHourly` with `WriteTotal` are the recalculation by itself, of
the budget page and of the hourly task, which a tenant's database (`db`) does not have; `Finance` both ways
to decide; `LinkLead` the attribution. Three company policies: free editing, review, lock.

### Chat

`convo` and `message` are the rows, `page` what each user's page shows, `wire` the pushes on
their way, `asks` the page's word that it shows a conversation. Opening is looking up, creating,
marking and loading in separate steps, as the answers cross the pushes; `Close`, `Reconnect`
and `LoseAnswer` are faults.

### Access and Accounts

`Access`: `EditRole`, `PutUser` (the form), `EditPage`, `EditMatrix` change rows when they
commit and drop the cached sets before (signals and `invalidate`); a reader computes and
stores later; `Expire` is the cache's timeout. The matrix has no transaction of its own: in a tenant's
database `EditMatrix` begins a save whose every row is a commit (`SaveException`, to `FinishMatrix`), and a
`Rollback` in between leaves what is done. `Accounts`: `at[a]` is the one page or
request of an administrator; `OpenTeam`/`PostTeam`/`UpdateTeam` are the page of a
team with what it can no longer show but still posts, `StartBroker`/`EditBroker`/`SaveBroker` the
broker's form, `ReadUser`/`UpdateUser` a whole-row save, and so
`ReadTeam`/`ActivateTeam`, which writes back the head it has read.

## 3. The runs

| run | instance | distinct states | shows |
|---|---|---|---|
| `lead_clock` | 1 lead kept with its creator, 2 salesmen, 2 clocks, 2 task runs, 1 re-submission, every request | 1 764 768 | clocks, rows, breach events and messages stay consistent; a new owner starts Fresh |
| `lead_liveness` | 2 leads (one of a broker), 1 salesman, 3 clocks | 187 381 | clocks end; `LeadSla` implements `RunningClock` |
| `rotation` | 3 leads, 3 salesmen, 2 teams, 2 languages, 2 processes, 1 late expiry, 4 policies | 1 486 975 | turns go round, loads stay level, escalation ends |
| `webhooks` | 3 payloads, 2 events, 3 posts, 2+2 processes, a sweep, 3 databases | 101 680 | imported once, handled, retried |
| `intake` | 2 of 7 forms posted 3 times, 2 processes, 5 users, 2 teams, 2 phones, 2 policies | 881 838 | executed, counted and created once; brokers' leads wait; teams take turns |
| `sales_plans` | 2 leads, 2 salesmen (one is given leads), 2 requests, both policies on at 1 | 1 164 565 | limits and capacity hold |
| `reminders` | 1 lead, 2 reminders, 2 clocks, 2 workers, 1 fault, both kinds of database | 363 244 | sent once, sent in the end |
| `campaigns` | 2 versions of a campaign, an editor, the hourly task, finance, a lead, 3 policies, both kinds of database | 197 048 | decisions, attendance, counters and totals survive |
| `chat` | 2 users, 2 conversations, 2 messages, 3 openings, 1 fault | 568 706 | one conversation; read and shown agree |
| `access` | 1 user, 2 roles, 1 permission, 2 requests, 2 readers, both kinds of database | 1 403 714 | the cached set is current; ticks are obeyed |
| `accounts` | 1 user, 2 teams, 1 broker, 1 agency, 2 names, 2 administrators | 2 660 836 | heads are on their team, names follow, removed logins stay off |
| `user_edit` | 1 user, 1 role | violation | one save of the edit page denies what the role grants |

### Properties

Clocks (`LeadSla`)

* `OneActiveClock`, `ClockMatchesLead`: at most one clock per lead; it is the one the row
  announces, against the row's salesman, unless the row was rewritten by a re-submission or
  by the bulk reactivation.
* `BreachRecorded`: an instance is BREACHED exactly when a breach event names it.
* `RunningClockIsArmed`: the message of a running clock is under way, was read, or was lost in
  one of three named ways.
* `NoSilentStall`: an active lead whose salesman runs no clock is one the policies leave
  without, or one the manual distributors were told of.
* `NewOwnerStartsFresh` (action property): a new owner finds the lead Fresh and a clock just
  opened for him.
* `ExpiryIsHandled` (liveness): a running clock ends unless its message was lost.
  `ClocksKeepPromise`: the refinement.

Distribution (`Rotation`): `TurnsGoRound` (By Turn gives nobody a second turn before all of an
unchanged pool had one), `LoadsStayLevel` (Round Robin's loads differ by at most the number of
leads decided at once), `RotationsAreBounded` (in the team scopes a lead is rotated at most
`|Teams| * (Attempts + 1)` times before people are told, and at most `|Teams|` times more for each
expiry that decided on a clock that had ended since it was read: it may escalate again from a team
the lead has left, but gives no team a retry it has had).

Webhooks: `ImportedOnce`, `SecondLeadNeedsContention` (two leads of one phone need two imports
at once), `ReceivedIsHandled` and `FailedIsRetried` (liveness), each for the databases on which
the code gives it.

Intake: `RunOnce` (a key is executed once unless its posts overlapped, its process died before
the answer was cached or the answer expired), `BrokerCountsItsLeads`, `OneLeadPerPhone`,
`BrokersDoNotDistribute` and `TeamsTakeTurns` (action properties: a broker's submission gives
its lead to nobody it does not name; two automatic turns in a row go to two teams).

Plans: `CapacityHolds`, `LimitsHold`: a cap is exceeded only by who is not restricted, by
requests that counted at once, by the bare move that goes round the limit, by a policy tightened
since, or (limits) by freezing a lead that is not one's own, where its owner's freezes are counted. Reminders: `NothingTwice`, `EveryReminderIsSent` (liveness).

Campaigns: `CountersMatchAttributions`, `ApprovedAmountStands`, `DecisionsStand`,
`AttendanceSurvives` (what finance decided and what people recorded outlives every edit, but for
requests that a decision overtook and doors that are open; where two events share a name, an edit
keeps one of the headcounts recorded for it), `TotalIsReconciled` (in the default
database a wrong total is put right again and again).

Chat: `OneThread`, `ReadWasShown`, `ShownIsRead`. Access: `CachedSetIsCurrent`, `TicksAreObeyed`;
`EditKeepsPermissions` is violated. Accounts: `HeadIsOnTeam`, `NameFollowsAgency`,
`RemovedBrokerIsOut`.

The type invariant of `LeadSla` is run; those of the other modules (`TypeOK`) were checked while the
modules were written. `Access` and `Accounts` have theirs proved, and `Chat` what its types amount to.

### Bounds, and why they are enough

* `LeadSla`: clocks bound the length of a history, since nearly every operation opens one.
  With two, one that has ended is acted upon by a late run while the other runs; two task runs make a
  repeated delivery overlap itself; a re-submission holds a row read before either. Operations on two
  leads share only the workers; hence one lead for safety, two for liveness, where three
  clocks let one lead open a second clock. `Exhausted` (all clocks used) ends a liveness
  obligation: there the bound stops the system, not the code.
* `Rotation`: each policy has the leads its property needs (`Arriving`): levels three that nobody
  touches, turns two of one language, rotations one; of these `Worked` expire and are acted upon.
  One salesman comes and goes (`Absentees`); the four policies use every scope, both
  strategies and every branch of the expiry; two teams suffice for escalation and its end,
  two attempts to tell `<` from `<=`. One late expiry between two touches (`MaxLate`) already takes a lead
  further than the bound without one.
* `Webhooks`: two payloads share an event id and two a phone; three posts allow a repeated
  and a racing one; two attempts show a retry and the limit.
* `Intake`: two forms of seven fill the keys, so that every pair of sources meets; three posts
  are two forms and a repetition; the phones are one number typed in two ways; one broker, who
  posts by page and by file; one edit (`MaxEdits`) is enough to give a lead a phone that another one has.
* `SalesPlans`: caps of one, two leads and two requests exceed a cap exactly once; `MaxPlans`
  lets one plan be one too many. Only the capacity is switched, as both policies take the same path.
  The salesman without leads (`Owners`) is the one who acts on another's; sales operations, whom
  no cap binds, and heads are left to the proof (`Bosses`).
* `Reminders`: two reminders and a batch of one make the sweep leave one for later; two clocks let
  a warning be overtaken; one fault, because a second one never meets what the first left.
* `Campaigns`: the two payloads contain every kind of child (with and without sub-records), add,
  drop, reorder and reprice items, and have the same total, so that totals stay few. One
  editor (who opens the budget page too), the hourly task and finance are the three that overlap in pairs.
* `Chat`: two conversations for one pair is the anomaly itself; two messages are one that is
  read and one in flight; three openings let both users create at once and one come back.
* `Access`: one permission suffices, as permissions do not interact, and its row is deleted and
  made by commits of their own; with two roles
  a user has a default and another one; two writers, two readers make overlaps of both kinds.
* `Accounts`: one user in every office (head, member, broker's login) and two open pages.

Symmetry is used in safety runs only, over sets whose members the module never tells apart.
`CHECK_DEADLOCK FALSE` is said where the system may rest: when nobody posts any more
(`webhooks`, `intake`), all reminders are sent, a campaign is deleted, the chat's bounds are used up.

`lead_liveness` uses `LiveSpec`: of the requests it keeps creation with a salesman, stage changes,
scheduling that rolls back and hand assignment, and leaves out distribution at creation,
(de)activation, bulk import and re-submission to keep the graph small. Those only end
clocks, open them as the ones kept do, or leave them alone; their safety is in `lead_clock`,
and that they implement `RunningClock` is proved.

### Fairness

* `LeadSla`: an `on_commit` callback runs (WF `Enqueue`); the broker hands every queued message to
  a worker in the end, however busy the workers are (SF `Deliver`, per message); not every run
  of the task fails (SF `Process`).
* `Webhooks`: a request and an import go on until they end (WF; not that an import
  succeeds); messages reach a worker (SF `Take` per event: it may be locked for a while); beat
  starts the sweep again and again (WF `StartSweep`), which gets the lock it waits for (SF `Retry`).
* `Reminders`: beat goes on (WF `Sweep`), a free worker takes a message (WF `Deliver`) and
  finishes what it holds (WF on what comes next). A worker that dies is one of `MaxFaults`.
* `Campaigns`: in the default database, beat sends the hourly task (WF `SumHourly`, in
  `config/settings/base.py:156-188`), and not each of its runs dies (SF `WriteTotal`). Its messages
  carry no tenant (`config/celery.py:20-21`): `SumHourly` is never enabled in a tenant's database,
  where nobody has to open the budget page either.

People are never fair: nobody has to act. `RotationsAreBounded` says as an invariant that
circulation ends.

## 4. The proofs

All hold for every value of the constants under the ASSUMEs of the modules (which say that a
null is none of the things it stands beside, that bounds are numbers, and that there are finitely many
users in a chat, finitely many leads, and finitely many salesmen, teams and processes where they are counted).

**`LeadSla_proofs`.** `TypeInvariant` (hence `TypeCorrect`) adds to the types that every created
instance has a lead and that a run of the task holds a created instance: without these
`Process` would not be typed. The rest follows from one lemma, `NextShape`: a step either is
`Quiet` (writes no row and disarms no running clock) or writes the rows of one lead `l` in one
shape, `Touched(l, b)`: it may breach an instance `b` of `l`, may open one fresh instance
against one owner while every other instance of `l` has ended, and leaves `l` in order. It is
proved bottom up, one lemma per service (`OpenedSettles`, `AssignTouches`, `DistributeTouches`,
`EscalateTouches`, `ChangeStageTouches`), then one per group of actions. The strengthened invariant is
`TypeInv /\ AllInOrder`: row and clock of every lead match unless the lead is detached, a
lead not created yet announces no deadline, and a re-submission holds the row of an existing
lead. Without the last two, creating a lead, or writing a stale row back, could announce
a deadline nobody opened. On top of it `OneClock`, `BreachesRecorded`, `ClocksArmed` and `NoStall` are
inductive over the two shapes instead of fifteen actions; `OwnersStartFresh` is part of the
shape. `ClocksRefine`: every step is a `Start`, a `Stop` or a
stutter of `RunningClock`; it needs `OneActiveClock`, or the mapping's CHOOSE would not name *the* clock.

**`Webhooks_proofs`.** `OnceOnly` and `StaysProcessed`. An import holds an event that is not
processed (`RunsInv`) and that no other import holds (`OneRun`); a request that is going to commit an
event is the only one to hold it and nobody else has seen it (`OneSender`, `RequestsInv`); a
sweep has selected stored events (`BatchInv`). `SecondLeadIsContended`: an import nobody contends
with sees a lead of its phone exactly when there is one (`SeesWell`), two imports of one phone
are noted (`Noted`), a lead that was seen is still there (`SeenStays`), and an event keeps its
payload (`Payloaded`).

**`Intake_proofs`.** `ExecutedOnce`: of a key that is not excused, at most one request is
past the lookup, and one that was executed has its answer cached or about to be
(`KeysInv`). `BrokersCount`: what a submission read of its broker is still the count, unless the broker is
raced for (`BrokersInv`). `PhonesHaveOneLead`: what a request found for its phone is the phone's
one lead, and nothing if it found nothing, unless the phone is loose (`PhonesInv`); the latest lead of a
phone exists by well-foundedness. `BrokersLeaveItToTheBoard` needs no invariant: it is a case
analysis of all sources and policies. `TurnsAlternate`: the pointer stands behind the team
served last (`TurnsInv`); counted from there that team comes last (`LastAgain`), so whichever other team is
open is chosen before it.

**`Accounts_proofs`, of `Access`.** `AccessTypeCorrect`; `CachedCurrent`: what a reader carries is what it would compute now, or
it is early, and what is cached and not early is current unless a change under way has
dropped it (`Fresh`, `RolesHeld`, `UsersHeld`); `TicksObeyed`: what an unhindered change is about to write is
exactly the difference to what was ticked (`AloneInv`), a matrix saved row by row has made each permission it has
looked at as it is asked, unless overtaken (`MatrixInv`), and a default role is held (`DefaultsInv`).

**`Accounts_proofs`, of `Accounts`.** `TypeCorrect`, `HeadsAreOnTeams`, `NamesFollow`, `RemovedAreOut`. None is
inductive: a head is on his team by what an open page has in hand (`PagesInv`), and
by what a request to activate his team has read of it (`HeadsRead`); a name
follows by what a request read while its broker was locked (`NamesRead`) and by one request per
broker (`OneWriter`); a removed login stays off because a login is nobody else's (`Logins`, `OneLogin`)
and the edit of a broker has its login (`EditsInv`).

**`Chat_proofs`, of `Chat`.** `RowsCorrect` (the types, and that ids refer to what exists), `ThreadIsOne` (a
request about to create saw no conversation, or the pair is in `twice`), `ShownBecomesRead` (what
was shown before it was saved is excepted), `ReadMeansShown` (what may be marked at any moment, because
the page shows the conversation, said so or waits for its answer, is on the page or on its way:
`HeardInv`).

**`Chat_proofs`, of `Reminders`.** `SentAndWarnedOnce`: a message is held by at most one run unless raced for,
a reminder that was notified is SENT or its notifier is about to mark it (`SentOnce`), a
warning exists only for a clock whose run is not about to write another one (`WarnedOnce`).

**`SalesPlans_proofs`.** `CapacityIsKept` and `LimitsAreKept`. What a request counted is still true when it commits
(`RoomInv`, `LimitInv`), because the row of its lead is locked (`LockInv`) and two requests that add to one
count are both noted as raced (`RacesNoted`). A lead that enters a stage adds one to one cardinality and
takes one from another.

**`Rotation_proofs`.** `Base` is common to the three theorems: types, one process per lead (`RunsInv`) and one turn per
language (`TurnInv`). `TurnsAreRound`: the latest picks of a pool have the ranks before the pointer, going round
backwards (`Streaks`, `GoRound`), and places before one index differ (`BackOnce`); that each number below the
size of a pool is the rank of one member is a pigeonhole argument (`RankOnto`). `LoadsAreLevel`: the invariant adds to
a load the decisions not yet committed (`LevelInv`): he who is chosen had no more leads than anybody of his languages, and at
most all processes can have chosen him on the same reading. `RotationsEnd`: `Way(l, t)` is how often the lead `l` is
assigned at most by the time it is in the team `t`: the retries used so far, a place for each team up to `t`, and a
round of the teams for each late expiry. An expiry that chooses somebody uses a retry that was left or goes on to a later
team (`Onward`), counted from the team its task has read; that is the lead's team, or none, as long as the clock it read
of has not ended (`SeenInv`), and where it has, the extra round pays for it.

**`Campaigns_proofs`.** `BaseHolds` is the shape of the row, the records and the requests, and `SeenInv`: nobody
works on a campaign before there is one, and the status a request has read is still the campaign's, or the
campaign was reopened or deleted since, or a decision overtook the request. A step either writes nothing
(`Quiet`), or the counters of one record (`Counts`, of which `OneLineIs` says what stays), or is one of seven
writers (`StepIs`); `DecisionsHold`, `ApprovedAmountHolds` and `AttendanceHolds` are case analyses of these. Sums are
left as they are: only that equal items have equal sums is used. `CountersHold` adds that a lead is
attributed to a record that exists, to none, or to one replaced since (`SourcesInv`): a record that is
created again at the same place would otherwise begin with leads it does not count.

Only model-checked, because it is outside the prover's reach: all liveness (`ExpiryIsHandled`,
`ReceivedIsHandled`, `FailedIsRetried`, `EveryReminderIsSent`, `TotalIsReconciled`).

## 5. Where code and documents disagree

Checked by a run: **`user_edit`**. The edit page of a user sends an empty list of permissions,
where it means that none are to be changed (`static/accounts/user_form.js:229`); the service takes it
for what was ticked and denies the user everything his role grants.

Seen while modelling; the models contain them, and the properties except them by name.

*Leads and clocks.* A run of the expiry that read before a request closed the instance marks it BREACHED and
rotates the lead again, by the team it had (`leads/tasks.py:29-43`, whose docstring calls that a no-op).
Escalation leaves the salesman on the lead, the board selects leads without one
(`manual_distribution_service.py:40-41`). A rolled back scheduling has revoked the message of a
clock that still runs (`sla_service.py:125`), and no job looks for expired clocks, as
`docs/doc1_extracted.txt:895-897` prescribes. Under ALL_SALESMEN escalation may stay in the exhausted
team (`distribution/services.py:251-252`). The expiry method ROUND_ROBIN uses the company's default method
(`distribution/services.py:382-383`).

*Webhooks.* On the default database a fast worker finds no event, as the message is sent before the
commit (`integrations/views.py:81`); the event stays RECEIVED and the sweep selects FAILED only. A
tenant's failed webhooks are never retried.

*Intake.* Look-up and insert of a phone are not under one lock (`lead_creation_service.py:107-108`), and the screens
store phones as typed where the import compares digits; an edit may give a lead another's phone. Two
overlapping posts of one key are both executed, whatever the middleware's docstring says; a walk-in that is refused answers
200, so its refusal is cached. "Round-robin scoped to the head's own team(s)" is scoped to one.
An inactive lead posted again by its broker is distributed automatically. The
FULL_ROTATION pointer has no influence on who is chosen under BY_TURN. A broker's
`leads_count` may lose an update and is not raised by a merge.

*Plans.* The views and services of a plan ask for a permission, never whose the lead is; a freeze is recorded
under who made it, while the limit counts the owner's, so another salesman freezes a lead without limit. The stage form reaches Frozen without `enforce_action_limit`; moving a lead to Follow-up
makes no `FollowUp` row; `FollowUpService.complete` and `ReminderService.create_for_stage` have no callers;
the reminder of a freeze goes out as a follow-up's.

*Reminders.* A pending reminder goes to who owned the lead when it was made, also after a breach.

*Campaigns.* The hourly reconciliation never runs in a tenant's database, where a total that a late recalculation
left wrong stays so until the campaign is saved or its budget page opened. The fallback form and the budget page do not reopen a decided campaign
(`campaign_approval_service.py:70`); an editor that a decision overtook leaves content nobody approved under
APPROVED; a rebuild resets `lead_count`; a social media ad counts twice among what can be rejected;
"other costs" never match the positional keys of the budget page; `set_status` asks for neither policy nor previous status.

*Chat.* A page's word that it shows a conversation marks messages it has not shown; opening a
conversation for the first time marks nothing as read; an upload is pushed before its commit.

*Access.* A role's switch (`RoleGroup.is_active`) is not asked by the resolver; a user's old default role stays
active; a form without role and permissions drops nothing from the cache (`accounts/services.py:106`);
the matrix page has no transaction in a tenant's database, so a save that dies half-way leaves a mix of old and new
exceptions (`authorization/services.py:200`).

*Accounts.* A member promoted and chosen as head keeps his member's row, so the next edit shows no head;
`delete_team` is called with a wrong argument by its view (`accounts/views.py:330`); an update in flight
inserts the row of a team that was deleted; activating a team writes back a head removed meanwhile, or the row of a
team deleted meanwhile (`accounts/services.py:472`); whole-row saves undo a deactivation; deleting an agency leaves
`company_name` on its brokers.

*Policies.* An unknown option code saves an unset row; of two editors the last one's whole row stays.

## 6. Not modelled, and why

* Stage history, audit, run and candidate snapshots: append-only logs nothing reads back.
* The inbox, WebSocket pushes of notifications, the daily mail: output. The chat's counters, ticks and list: display.
* SLA durations, business hours: time is abstracted. How far ahead a plan may lie: a check of a form.
* Endpoints, field mappings, languages, permissions of pages: constants of the models.
* Choosing a tenant's database: no state beyond the thread; its consequences are in `db` and `tenant`.
* Signing in, system bundles of roles, media files, report and ROI queries, notebook, seed commands, the admin site.

## 7. What is left to do

1. A specification of "each lead of a phone once" that both `Webhooks` and `Intake` implement where requests
   do not overlap.
2. `Intake` composed with `LeadSla` through the merge, at the price of one salesman and one clock.
3. The inbox of notifications with its pushes, as `Chat` does it for messages.
