------------------------------ MODULE Reminders ------------------------------
(***************************************************************************)
(* The reminders of plans and of clocks that run out, and how each becomes *)
(* a notification.                                                         *)
(*                                                                         *)
(* A reminder is saved with what it is about, and after the commit a       *)
(* message is posted that is to be delivered when it is due.  A sweep of   *)
(* the default database takes up what is due and still pending; beat's     *)
(* messages name no tenant, so nothing sweeps a tenant's.  The warning of  *)
(* a clock has a message of its own, which makes the reminder.  Runs hold  *)
(* no lock: each reads what is pending, sends, and saves later.  Redis may *)
(* deliver a message again when its time lies beyond the visibility        *)
(* timeout, and a message taken by a process that dies is gone.            *)
(***************************************************************************)
EXTENDS Naturals, Sequences, FiniteSets, FiniteSetsExt

CONSTANTS
    Leads,
    Workers,       \* processes that run Celery's tasks
    Batch,         \* reminders a sweep takes up, 500
    MaxReminders,  \* bound: reminders
    MaxClocks,     \* bound: clocks of a lead
    MaxFaults      \* bound: messages not posted, processes that die

ASSUME ReminderInputs ==
    /\ Batch \in Nat \ {0} /\ MaxReminders \in Nat /\ MaxFaults \in Nat
    /\ MaxClocks \in Nat \ {0}

VARIABLES
    tenant,        \* whether the database is a tenant's
    lead,          \* whether each lead has an owner; its latest clock, and whether it runs
    reminder,      \* reminders, in the order they were saved
    mail,          \* messages posted to Celery
    run,           \* what each worker is doing
    faults,
    raced          \* for the properties: the messages two runs acted on at once

reminderVars == <<tenant, lead, reminder, mail, run, faults, raced>>

Rest == [todo |-> {}, sent |-> 0, warn |-> << >>]
Clocks == Leads \X (1..MaxClocks)
\* What is posted: a reminder to deliver, a clock to warn of.
Deliveries(rs) == {"deliver"} \X rs
Warnings(cs) == {"warn"} \X cs
\* A warning names its clock; the reminder of a plan has clock 0.
Reminder == [lead : Leads, clock : 0..MaxClocks, status : {"PENDING", "SENT"},
             due : BOOLEAN, notes : Nat]

ReminderTypeOK ==
    /\ tenant \in BOOLEAN
    /\ lead \in [Leads -> [owned : BOOLEAN, clock : 0..MaxClocks, runs : BOOLEAN]]
    /\ reminder \in Seq(Reminder) /\ Len(reminder) <= MaxReminders
    /\ mail \subseteq Deliveries(DOMAIN reminder) \cup Warnings(Clocks)
    /\ \A w \in Workers : /\ run[w].todo \subseteq DOMAIN reminder
                          /\ run[w].sent \in run[w].todo \cup {0}
                          /\ run[w].warn \in Clocks \cup {<< >>}
    /\ faults \in 0..MaxFaults
    /\ raced \subseteq Deliveries(DOMAIN reminder) \cup Warnings(Clocks)

ReminderInit ==
    /\ tenant \in BOOLEAN
    /\ lead = [l \in Leads |-> [owned |-> FALSE, clock |-> 0, runs |-> FALSE]]
    /\ reminder = << >>
    /\ mail = {}
    /\ run = [w \in Workers |-> Rest]
    /\ faults = 0 /\ raced = {}

-----------------------------------------------------------------------------
(***************************************************************************)
(* What a request leaves behind.                                           *)
(***************************************************************************)

\* The bound on reminders, with those that runs are about to save.
Room == Len(reminder) + Cardinality({w \in Workers : run[w].warn # << >>}) < MaxReminders

\* ReminderService.create.
Saved(l, n, due) ==
    Append(reminder, [lead |-> l, clock |-> n, status |-> "PENDING", due |-> due, notes |-> 0])

\* The callbacks of a commit run in the order they were registered; when
\* posting one fails, or the process dies, the rest are not run.
Post(ms) ==
    \E k \in 0..Len(ms) :
        /\ k < Len(ms) => faults < MaxFaults
        /\ faults' = IF k < Len(ms) THEN faults + 1 ELSE faults
        /\ mail' = mail \cup {ms[i] : i \in 1..k}

\* SLAService.open_instance: the clock before it ends, and when the lead has an
\* owner a message is posted for the warning of this one.
Open(l, owned) ==
    /\ lead[l].clock < MaxClocks
    /\ lead' = [lead EXCEPT ![l] = [owned |-> owned, clock |-> @.clock + 1, runs |-> TRUE]]
Warning(l, owned) == IF owned THEN << <<"warn", <<l, lead[l].clock + 1>>>> >> ELSE << >>

\* A follow-up, a meeting, a freeze or NOT_REACHED, for a lead that has an owner:
\* a clock and then a reminder.  A lead its creator keeps has no clock.
Plan(l) ==
    /\ lead[l].owned /\ Room
    /\ reminder' = Saved(l, 0, FALSE)
    /\ LET message == <<"deliver", Len(reminder) + 1>>
       IN \/ Open(l, TRUE) /\ Post(Append(Warning(l, TRUE), message))
          \/ /\ lead' = [lead EXCEPT ![l].runs = FALSE]
             /\ Post(<<message>>)
    /\ UNCHANGED <<tenant, run, raced>>

\* An assignment, or a change of stage that leaves no reminder.
Restart(l, owned) ==
    /\ Open(l, owned) /\ Post(Warning(l, owned))
    /\ UNCHANGED <<tenant, reminder, run, raced>>

\* The clock ends: the lead is deactivated, or its clock runs out.
Stop(l) ==
    /\ lead[l].runs
    /\ lead' = [lead EXCEPT ![l].runs = FALSE]
    /\ UNCHANGED <<tenant, reminder, mail, run, faults, raced>>

-----------------------------------------------------------------------------
(***************************************************************************)
(* Celery's tasks.                                                         *)
(***************************************************************************)

ComesDue(r) ==
    /\ r \in DOMAIN reminder /\ ~reminder[r].due
    /\ reminder' = [reminder EXCEPT ![r].due = TRUE]
    /\ UNCHANGED <<tenant, lead, mail, run, faults, raced>>

Pending == {r \in DOMAIN reminder : reminder[r].status = "PENDING"}
Due == {r \in Pending : reminder[r].due}
HeldByOthers(w) == UNION {run[v].todo : v \in Workers \ {w}}

\* A message is taken off the queue, or will be delivered again.
Taken(m) == mail' \in {mail, mail \ {m}}

\* deliver_reminder, up to the notification: what is not pending is left alone.
\* Mutant of Deliver: the status is not looked at.
DeliverAnyway(w, r) ==
    /\ run[w] = Rest
    /\ <<"deliver", r>> \in mail /\ reminder[r].due
    /\ Taken(<<"deliver", r>>)
    /\ run' = [run EXCEPT ![w].todo = {r}]
    /\ raced' = raced \cup Deliveries({r} \cap HeldByOthers(w))
    /\ UNCHANGED <<tenant, lead, reminder, faults>>
Deliver(w, r) ==
    /\ run[w] = Rest
    /\ <<"deliver", r>> \in mail /\ reminder[r].due
    /\ Taken(<<"deliver", r>>)
    /\ run' = [run EXCEPT ![w].todo = {r} \cap Pending]
    /\ raced' = raced \cup Deliveries({r} \cap Pending \cap HeldByOthers(w))
    /\ UNCHANGED <<tenant, lead, reminder, faults>>

\* Beat's messages name no tenant, so what they start works on the default database.
Swept == ~tenant

\* send_due_reminders, which beat starts every minute: the rows are read once.
\* Mutant of Sweep: it looks for the warnings of clocks only.
SweepWarnings(w) ==
    /\ run[w] = Rest /\ Swept
    /\ LET warnings == {r \in Due : reminder[r].clock > 0}
       IN run' = [run EXCEPT ![w].todo = warnings]
    /\ raced' = raced \cup Deliveries(run'[w].todo \cap HeldByOthers(w))
    /\ UNCHANGED <<tenant, lead, reminder, mail, faults>>
Sweep(w) ==
    /\ run[w] = Rest /\ Swept
    /\ \E batch \in kSubset(Min({Batch, Cardinality(Due)}), Due) :
           /\ run' = [run EXCEPT ![w].todo = batch]
           /\ raced' = raced \cup Deliveries(batch \cap HeldByOthers(w))
    /\ UNCHANGED <<tenant, lead, reminder, mail, faults>>

\* _deliver_reminder: the notification, and then the status.  Neither looks at
\* the row again.
Notify(w, r) ==
    /\ r \in run[w].todo /\ run[w].sent = 0
    /\ reminder' = [reminder EXCEPT ![r].notes = @ + 1]
    /\ run' = [run EXCEPT ![w].sent = r]
    /\ UNCHANGED <<tenant, lead, mail, faults, raced>>
MarkSent(w) ==
    /\ run[w].sent # 0
    /\ reminder' = [reminder EXCEPT ![run[w].sent].status = "SENT"]
    /\ run' = [run EXCEPT ![w].todo = @ \ {run[w].sent}, ![w].sent = 0]
    /\ UNCHANGED <<tenant, lead, mail, faults, raced>>

Warned(l, n) == \E r \in DOMAIN reminder : reminder[r].lead = l /\ reminder[r].clock = n

\* send_sla_reminder, up to the reminder: the clock still runs, the lead has an
\* owner and no warning was made.
LookForWarning(w, l, n) ==
    /\ run[w] = Rest
    /\ <<"warn", <<l, n>>>> \in mail /\ Room
    /\ Taken(<<"warn", <<l, n>>>>)
    /\ LET now == lead[l] = [owned |-> TRUE, clock |-> n, runs |-> TRUE] /\ ~Warned(l, n)
       IN /\ run' = [run EXCEPT ![w].warn = IF now THEN <<l, n>> ELSE << >>]
          /\ raced' = raced \cup Warnings({c \in {<<l, n>>} :
                         now /\ \E v \in Workers \ {w} : run[v].warn = c})
    /\ UNCHANGED <<tenant, lead, reminder, faults>>

Warn(w) ==
    /\ run[w].warn # << >>
    /\ reminder' = Saved(run[w].warn[1], run[w].warn[2], TRUE)
    /\ Post(<< <<"deliver", Len(reminder) + 1>> >>)
    /\ run' = [run EXCEPT ![w].warn = << >>]
    /\ UNCHANGED <<tenant, lead, raced>>

\* The process dies, or the task ends in an exception: what it held is left as
\* it is.  A notification may be out whose reminder is still pending.
Die(w) ==
    /\ run[w] # Rest /\ faults < MaxFaults
    /\ faults' = faults + 1
    /\ run' = [run EXCEPT ![w] = Rest]
    /\ raced' = raced \cup Deliveries({run[w].sent} \ {0})
    /\ UNCHANGED <<tenant, lead, reminder, mail>>

Tasks ==
    \/ \E r \in DOMAIN reminder : ComesDue(r)
    \/ \E w \in Workers, r \in DOMAIN reminder : Deliver(w, r) \/ Notify(w, r)
    \/ \E w \in Workers, l \in Leads, n \in 1..MaxClocks : LookForWarning(w, l, n)
    \/ \E w \in Workers : Sweep(w) \/ MarkSent(w) \/ Warn(w) \/ Die(w)

ReminderNext ==
    \/ \E l \in Leads : Plan(l) \/ Stop(l) \/ \E owned \in BOOLEAN : Restart(l, owned)
    \/ Tasks

ReminderSpec == ReminderInit /\ [][ReminderNext]_reminderVars

\* Workers take up their messages and finish what they hold, and beat goes on.
Fairness ==
    \A w \in Workers :
        /\ WF_reminderVars(Sweep(w))
        /\ WF_reminderVars(\E r \in DOMAIN reminder : Deliver(w, r))
        /\ WF_reminderVars((\E r \in DOMAIN reminder : Notify(w, r)) \/ MarkSent(w) \/ Warn(w))
LiveSpec == ReminderSpec /\ Fairness

-----------------------------------------------------------------------------
(***************************************************************************)
(* Properties.                                                             *)
(***************************************************************************)

\* A reminder is notified once and a clock is warned of once, whatever is
\* delivered again, swept or overtaken by the next clock (tasks.py:62-90,
\* 93-161), unless two runs held it at the same time or one died between the
\* notification and the status.
NothingTwice ==
    /\ \A r \in DOMAIN reminder : <<"deliver", r>> \notin raced => reminder[r].notes <= 1
    /\ \A c \in Clocks : <<"warn", c>> \notin raced =>
           Cardinality({r \in DOMAIN reminder : <<reminder[r].lead, reminder[r].clock>> = c}) <= 1

\* In a tenant's database nothing takes up a reminder whose message is gone.
Lost(r) == /\ tenant /\ <<"deliver", r>> \notin mail
           /\ \A w \in Workers : r \notin run[w].todo

\* A reminder that is due is sent, although its message may be lost and the run
\* that holds it may die (tasks.py:140-161); in a tenant's database only if its
\* message is still there or some run has it.
EveryReminderIsSent ==
    \A r \in 1..MaxReminders :
        (r \in Due) ~> (r \in DOMAIN reminder /\ (reminder[r].status = "SENT" \/ Lost(r)))

=============================================================================
