------------------------------ MODULE Webhooks ------------------------------
(***************************************************************************)
(* Leads that come in by webhook: a provider posts a payload, the request  *)
(* stores it as a WebhookEvent and sends a Celery message, a worker        *)
(* imports the event as a lead, and a periodic sweep retries what failed.  *)
(*                                                                         *)
(* A request is up to three steps (look up, store, send), because another  *)
(* process may act between any two of them; an import is two (it locks the *)
(* event and looks for a lead of the phone, then it commits).  A process   *)
(* may die between its steps.  Where the steps of a request end up depends *)
(* on the database it runs against:                                        *)
(*   "tenant"   a tenant's MariaDB: not ATOMIC_REQUESTS, so the event is   *)
(*              committed before the message is sent; beat does not sweep; *)
(*   "control"  the default MariaDB: ATOMIC_REQUESTS, so the message is    *)
(*              sent before the event is committed;                        *)
(*   "sqlite"   the default in development, the only one of the three on   *)
(*              which Django creates the conditional unique constraints.   *)
(***************************************************************************)
EXTENDS Naturals, FiniteSets

CONSTANTS
    Payloads,     \* what a provider may post
    KeyOf,        \* the event id in a payload, NULL if it has none
    PhoneOf,      \* the phone in a payload, NULL if it does not map to one
    Databases,    \* the deployments under which the system is examined
    EventIds,     \* WebhookEvent ids, in the order they are given out (bound)
    Web,          \* processes that answer the provider
    Workers,      \* processes that run process_webhook_event
    Sweepers,     \* processes that run retry_failed_webhooks
    MaxAttempts,  \* its max_attempts
    BatchSize,    \* its batch_size
    Posts,        \* bound: how often the provider posts
    NULL

Phones == {PhoneOf[p] : p \in Payloads} \ {NULL}
Processes == Workers \cup Sweepers

ASSUME Deployment ==
    /\ NULL \notin Payloads
    /\ Databases \subseteq {"tenant", "control", "sqlite"}
    /\ EventIds \subseteq Nat /\ NULL \notin EventIds
    /\ Workers \cap Sweepers = {}
    /\ MaxAttempts \in Nat /\ BatchSize \in Nat \ {0} /\ Posts \in Nat

VARIABLES
    db,        \* the database, which does not change
    event,     \* the WebhookEvent rows
    leads,     \* how many Lead rows there are of each phone
    posted,    \* how often the provider posted
    request,   \* the request each web process handles
    queue,     \* the messages in the broker for each event
    run,       \* the import each process is in
    batch,     \* what each sweep has still to retry
    lost,      \* received events of which a process that died had the message
    contended  \* phones two imports were in at once

vars == <<db, event, leads, posted, request, queue, run, batch, lost,
          contended>>

\* "inserted": not committed yet.  "void": rolled back, the id is not reused.
Stored == {"RECEIVED", "FAILED", "PROCESSED"}
EventRow == [status : Stored \cup {"none", "inserted", "void"},
             payload : Payloads \cup {NULL}, tries : 0..MaxAttempts,
             imports : 0..(Cardinality(Processes))]
Request == [payload : Payloads, event : EventIds \cup {NULL},
            at : {"new", "found", "stored", "sent"}]
Run == [event : EventIds, seen : BOOLEAN]

TypeOK ==
    /\ db \in Databases
    /\ event \in [EventIds -> EventRow]
    /\ leads \in [Phones -> 0..Cardinality(EventIds)]
    /\ posted \in 0..Posts
    /\ request \in [Web -> Request \cup {NULL}]
    /\ queue \in [EventIds -> 0..Posts]
    /\ run \in [Processes -> Run \cup {NULL}]
    /\ batch \in [Sweepers -> SUBSET EventIds]
    /\ lost \subseteq EventIds
    /\ contended \subseteq Phones

Init ==
    /\ db \in Databases
    /\ event = [e \in EventIds |-> [status |-> "none", payload |-> NULL,
                                    tries |-> 0, imports |-> 0]]
    /\ leads = [f \in Phones |-> 0]
    /\ posted = 0
    /\ request = [b \in Web |-> NULL]
    /\ queue = [e \in EventIds |-> 0]
    /\ run = [x \in Processes |-> NULL]
    /\ batch = [s \in Sweepers |-> {}]
    /\ lost = {}
    /\ contended = {}

-----------------------------------------------------------------------------
(***************************************************************************)
(* The request.                                                            *)
(***************************************************************************)

\* models_dedupe_or_event: the same payload, or the same event id.
SameEvent(p, q) == p = q \/ (KeyOf[p] # NULL /\ KeyOf[p] = KeyOf[q])

Matching(p) ==
    {e \in EventIds : event[e].status \in Stored /\ SameEvent(event[e].payload, p)}

At(b, place) == request[b] # NULL /\ request[b].at = place

\* WebhookReceiveWorkflow.receive looks for the event.
Receive(b, p) ==
    /\ request[b] = NULL
    /\ posted < Posts /\ posted' = posted + 1
    /\ \/ \E e \in Matching(p) : request' = [request EXCEPT ![b] =
            [payload |-> p, event |-> e, at |-> "found"]]
       \/ /\ Matching(p) = {}
          /\ request' = [request EXCEPT ![b] =
               [payload |-> p, event |-> NULL, at |-> "new"]]
    /\ UNCHANGED <<db, event, leads, queue, run, batch, lost, contended>>

NextId == {e \in EventIds : /\ event[e].status = "none"
                            /\ \A o \in EventIds : event[o].status = "none" => e <= o}

\* ... and stores a new one.  endpoint.save holds the row of the endpoint, which
\* every event refers to, until the transaction ends.
Store(b) ==
    /\ At(b, "new")
    /\ ~\E o \in Web : At(o, "stored") /\ event[request[o].event].status = "inserted"
    /\ ~\E o \in Web : At(o, "sent")
    /\ LET p == request[b].payload
       IN IF db = "sqlite" /\ Matching(p) # {}
          THEN /\ \E e \in Matching(p) : request' = [request EXCEPT ![b] =
                    [payload |-> p, event |-> e, at |-> "found"]]
               /\ UNCHANGED event
          ELSE \E e \in NextId :
               /\ event' = [event EXCEPT ![e].payload = p,
                    ![e].status = IF db = "tenant" THEN "RECEIVED" ELSE "inserted"]
               /\ request' = [request EXCEPT ![b] =
                    [payload |-> p, event |-> e, at |-> "stored"]]
    /\ UNCHANGED <<db, leads, posted, queue, run, batch, lost, contended>>

\* process_webhook_event.delay, for an event already stored as well.
Send(b) ==
    /\ At(b, "found") \/ At(b, "stored")
    /\ LET e == request[b].event
       IN /\ queue' = [queue EXCEPT ![e] = @ + 1]
          /\ request' = [request EXCEPT ![b] =
               IF event[e].status = "inserted" THEN [@ EXCEPT !.at = "sent"]
                                               ELSE NULL]
    /\ UNCHANGED <<db, event, leads, posted, run, batch, lost, contended>>

\* The end of a request under ATOMIC_REQUESTS.
Commit(b) ==
    /\ At(b, "sent")
    /\ event' = [event EXCEPT ![request[b].event].status = "RECEIVED"]
    /\ request' = [request EXCEPT ![b] = NULL]
    /\ UNCHANGED <<db, leads, posted, queue, run, batch, lost, contended>>

\* The process dies or cannot reach the broker: the provider is told so, or is
\* told nothing, and may post again.
Drop(b) ==
    /\ request[b] # NULL
    /\ LET e == request[b].event
           half == e # NULL /\ event[e].status = "inserted"
       IN /\ event' = IF half THEN [event EXCEPT ![e] =
                                      [@ EXCEPT !.status = "void", !.payload = NULL]]
                              ELSE event
          /\ lost' = IF At(b, "stored") /\ ~half THEN lost \cup {e} ELSE lost
    /\ request' = [request EXCEPT ![b] = NULL]
    /\ UNCHANGED <<db, leads, posted, queue, run, batch, contended>>

-----------------------------------------------------------------------------
(***************************************************************************)
(* The import.                                                             *)
(***************************************************************************)
Phone(e) == PhoneOf[event[e].payload]

\* Mutant of Locked: the event is read without select_for_update.
LockedNot(e) == FALSE

Locked(e) == \E x \in Processes : run[x] # NULL /\ run[x].event = e

\* WebhookLeadImportService.process up to DuplicateService.check.
begin(x, e) ==
    /\ ~Locked(e)
    /\ IF event[e].status = "PROCESSED"
       THEN UNCHANGED <<run, contended>>
       ELSE /\ run' = [run EXCEPT ![x] = [event |-> e,
                 seen |-> Phone(e) # NULL /\ leads[Phone(e)] > 0]]
            /\ contended' = contended \cup
                 {f \in Phones : /\ f = Phone(e)
                                 /\ \E y \in Processes :
                                      run[y] # NULL /\ Phone(run[y].event) = f}

\* process_webhook_event starts: without its event it fails for good.
Take(w, e) ==
    /\ run[w] = NULL
    /\ queue[e] > 0 /\ queue' = [queue EXCEPT ![e] = @ - 1]
    /\ IF event[e].status \in Stored THEN begin(w, e)
                                     ELSE UNCHANGED <<run, contended>>
    /\ UNCHANGED <<db, event, leads, posted, request, batch, lost>>

\* Mutant of Import: the lead found is not merged with.
ImportAnew(x) ==
    /\ run[x] # NULL
    /\ LET e == run[x].event
       IN /\ Phone(e) # NULL
          /\ leads' = [leads EXCEPT ![Phone(e)] = @ + 1]
          /\ event' = [event EXCEPT ![e].status = "PROCESSED",
                                    ![e].imports = @ + 1]
    /\ run' = [run EXCEPT ![x] = NULL]
    /\ UNCHANGED <<db, posted, request, queue, batch, lost, contended>>

\* The payload maps, and LeadCreationService.create inserts a lead, or merges
\* the payload into the one it has seen.
Import(x) ==
    /\ run[x] # NULL
    /\ LET e == run[x].event
       IN /\ Phone(e) # NULL
          /\ leads' = IF run[x].seen THEN leads
                      ELSE [leads EXCEPT ![Phone(e)] = @ + 1]
          /\ event' = [event EXCEPT ![e].status = "PROCESSED",
                                    ![e].imports = @ + 1]
    /\ run' = [run EXCEPT ![x] = NULL]
    /\ UNCHANGED <<db, posted, request, queue, batch, lost, contended>>

\* Mutant of Fail: the status is not among the fields saved.
FailUnsaved(x) ==
    /\ run[x] # NULL
    /\ run' = [run EXCEPT ![x] = NULL]
    /\ UNCHANGED <<db, event, leads, posted, request, queue, batch, lost, contended>>

\* The payload does not map, or the creation raises and is rolled back.
Fail(x) ==
    /\ run[x] # NULL
    /\ event' = [event EXCEPT ![run[x].event].status = "FAILED"]
    /\ run' = [run EXCEPT ![x] = NULL]
    /\ UNCHANGED <<db, leads, posted, request, queue, batch, lost, contended>>

\* The process dies, or process itself raises; a sweep dies with it.
Abort(x) ==
    /\ run[x] # NULL
    /\ lost' = IF event[run[x].event].status = "RECEIVED"
               THEN lost \cup {run[x].event} ELSE lost
    /\ run' = [run EXCEPT ![x] = NULL]
    /\ batch' = [s \in Sweepers |-> IF s = x THEN {} ELSE batch[s]]
    /\ UNCHANGED <<db, event, leads, posted, request, queue, contended>>

-----------------------------------------------------------------------------
(***************************************************************************)
(* The sweep: retry_failed_webhooks.                                       *)
(***************************************************************************)

\* A batch, in the order of the index on (status, received_at).
Oldest(S) == {e \in S : Cardinality({o \in S : o < e}) < BatchSize}

\* Mutant of Failed: the sweep selects what was received.
FailedMisread == {e \in EventIds : event[e].status = "RECEIVED"}

Failed == {e \in EventIds : event[e].status = "FAILED"}

StartSweep(s) ==
    /\ db # "tenant"
    /\ run[s] = NULL /\ batch[s] = {}
    /\ Failed # {}
    /\ batch' = [batch EXCEPT ![s] = Oldest(Failed)]
    /\ UNCHANGED <<db, event, leads, posted, request, queue, run, lost, contended>>

Retry(s) ==
    /\ run[s] = NULL
    /\ \E e \in batch[s] :
         /\ \A o \in batch[s] : e <= o
         /\ batch' = [batch EXCEPT ![s] = @ \ {e}]
         /\ IF event[e].tries >= MaxAttempts
            THEN UNCHANGED <<event, run, contended>>
            ELSE /\ event' = [event EXCEPT ![e].tries = @ + 1]
                 /\ begin(s, e)
    /\ UNCHANGED <<db, leads, posted, request, queue, lost>>

-----------------------------------------------------------------------------
Next ==
    \/ \E b \in Web, p \in Payloads : Receive(b, p)
    \/ \E b \in Web : Store(b) \/ Send(b) \/ Commit(b) \/ Drop(b)
    \/ \E w \in Workers, e \in EventIds : Take(w, e)
    \/ \E x \in Processes : Import(x) \/ Fail(x) \/ Abort(x)
    \/ \E s \in Sweepers : StartSweep(s) \/ Retry(s)

Spec == Init /\ [][Next]_vars

\* A request and an import go on until they end or their process dies; the
\* broker hands every message to a worker in the end; beat starts the sweep
\* again and again; an event another process has locked is waited for.
Fairness ==
    /\ \A b \in Web : WF_vars(Store(b)) /\ WF_vars(Send(b)) /\ WF_vars(Commit(b))
    /\ \A e \in EventIds : SF_vars(\E w \in Workers : Take(w, e))
    /\ \A x \in Processes : WF_vars(Import(x) \/ Fail(x))
    /\ \A s \in Sweepers : WF_vars(StartSweep(s)) /\ SF_vars(Retry(s))

FairSpec == Spec /\ Fairness

-----------------------------------------------------------------------------
(***************************************************************************)
(* Properties.                                                             *)
(***************************************************************************)

\* An event makes or refreshes a lead once, however often it is posted, its
\* message delivered or its import retried, and it counts as processed exactly
\* when it did (WebhookLeadImportService.process).
ImportedOnce ==
    \A e \in EventIds :
        event[e].imports = IF event[e].status = "PROCESSED" THEN 1 ELSE 0

\* There are two leads of one phone only where two imports ran at once, and no
\* lead that no event accounts for (DuplicateService.check in the import).
SecondLeadNeedsContention ==
    \A f \in Phones :
        /\ leads[f] > 1 => f \in contended
        /\ leads[f] > 0 <=> \E e \in EventIds : /\ event[e].status = "PROCESSED"
                                                /\ Phone(e) = f

\* Where the event is committed before its message is sent, every event received
\* is processed or fails in the end, unless a process died with its message
\* (receive_webhook).
Waiting(e) == event[e].status = "RECEIVED" /\ e \notin lost
ReceivedIsHandled ==
    db = "tenant" => \A e \in EventIds : Waiting(e) ~> ~Waiting(e)

\* Where beat sweeps, a failed event is retried until it is processed or its
\* attempts are used up, whichever sweeps die, as long as the events that failed
\* fit into a batch (retry_failed_webhooks).
Hopeless(e) == event[e].tries = MaxAttempts
FailedIsRetried ==
    db # "tenant" =>
        \A e \in EventIds :
            event[e].status = "FAILED" ~> event[e].status = "PROCESSED" \/ Hopeless(e)
=============================================================================
