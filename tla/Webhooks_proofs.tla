--------------------------- MODULE Webhooks_proofs ---------------------------
(***************************************************************************)
(* An event is imported once, and two leads of a phone need two imports at *)
(* once, for every set of payloads, requests, workers and sweeps and every *)
(* database.                                                               *)
(*                                                                         *)
(* ImportedOnce alone is not inductive.  An import must hold an event that *)
(* is not processed yet (RunsInv), no two imports hold the same event      *)
(* (OneRun), and the end of a request must not turn an event back into a   *)
(* received one: the event it commits is its own (OneSender) and nobody    *)
(* can have seen it (RequestsInv).                                         *)
(***************************************************************************)
EXTENDS Webhooks, TLAPS

Row == [status : Stored \cup {"none", "inserted", "void"},
        payload : Payloads \cup {NULL}, tries : Nat, imports : Nat]

Shape ==
    /\ db \in Databases
    /\ event \in [EventIds -> Row]
    /\ request \in [Web -> Request \cup {NULL}]
    /\ run \in [Processes -> Run \cup {NULL}]
    /\ batch \in [Sweepers -> SUBSET EventIds]

Status(e) == event[e].status

RequestsInv ==
    \A b \in Web : request[b] # NULL =>
        LET e == request[b].event
        IN /\ request[b].at = "new" => e = NULL
           /\ request[b].at = "found" => e \in EventIds /\ Status(e) \in Stored
           /\ request[b].at = "stored" =>
                 e \in EventIds /\ Status(e) \in Stored \cup {"inserted"}
           /\ request[b].at = "sent" => e \in EventIds /\ Status(e) = "inserted"

\* b has stored the event it handles.
Sender(b) == request[b] # NULL /\ request[b].at \in {"stored", "sent"}

OneSender ==
    \A b, c \in Web :
        Sender(b) /\ Sender(c) /\ request[b].event = request[c].event => b = c

RunsInv ==
    \A x \in Processes : run[x] # NULL => Status(run[x].event) \in {"RECEIVED", "FAILED"}

OneRun ==
    \A x, y \in Processes :
        run[x] # NULL /\ run[y] # NULL /\ run[x].event = run[y].event => x = y

\* What a sweep has selected is stored.
BatchInv == \A s \in Sweepers : \A e \in batch[s] : Status(e) \in Stored

Inv == /\ Shape
       /\ RequestsInv /\ OneSender
       /\ RunsInv /\ OneRun
       /\ BatchInv
       /\ ImportedOnce

-----------------------------------------------------------------------------
LEMMA InitInv == ASSUME Deployment, Init PROVE Inv
BY DEF Init, Inv, Shape, Row, Stored, RequestsInv, OneSender, Sender, RunsInv,
       OneRun, BatchInv, ImportedOnce, Deployment

LEMMA BatchUntouched ==
    ASSUME Inv, batch' \in [Sweepers -> SUBSET EventIds],
           \A s \in Sweepers : batch'[s] \subseteq batch[s],
           \A e \in EventIds : Status(e) \in Stored => Status(e)' \in Stored
    PROVE  BatchInv'
BY DEF Inv, Shape, BatchInv

LEMMA ReceiveInv ==
    ASSUME Deployment, Inv, NEW b \in Web, NEW p \in Payloads, Receive(b, p)
    PROVE  Inv'
<1> USE DEF Inv
<1>1. Shape'
  BY DEF Receive, Shape, Request, Matching
<1>2. RequestsInv'
  BY DEF Receive, Shape, Request, Matching, RequestsInv, Status
<1>3. OneSender'
  BY DEF Receive, Shape, Request, OneSender, Sender
<1>4. RunsInv' /\ OneRun' /\ ImportedOnce'
  BY DEF Receive, RunsInv, OneRun, ImportedOnce, Status
<1>5. BatchInv'
  BY BatchUntouched DEF Receive, Shape, Status
<1> QED BY <1>1, <1>2, <1>3, <1>4, <1>5

LEMMA StoreInv ==
    ASSUME Deployment, Inv, NEW b \in Web, Store(b)
    PROVE  Inv'
<1> DEFINE p == request[b].payload
           old == db = "sqlite" /\ Matching(p) # {}
<1>1. request[b] \in Request /\ request[b].at = "new"
  BY DEF Inv, Shape, Store, At
<1>2. p \in Payloads
  BY <1>1 DEF Request
<1>3. CASE old
  <2>1. PICK e \in Matching(p) :
           request' = [request EXCEPT ![b] =
              [payload |-> p, event |-> e, at |-> "found"]]
    BY <1>3 DEF Store
  <2>2. event' = event /\ run' = run /\ db' = db /\ batch' = batch
    BY <1>3 DEF Store
  <2>3. e \in EventIds /\ Status(e) \in Stored
    BY <2>1 DEF Matching, Status
  <2>4. Shape'
    BY <1>2, <2>1, <2>2, <2>3 DEF Inv, Shape, Request
  <2>5. RequestsInv' /\ OneSender'
    BY <2>1, <2>2, <2>3 DEF Inv, Shape, Request, RequestsInv, OneSender, Sender, Status
  <2>6. RunsInv' /\ OneRun' /\ ImportedOnce'
    BY <2>2 DEF Inv, RunsInv, OneRun, ImportedOnce, Status
  <2>7. BatchInv'
    BY <2>2, BatchUntouched DEF Inv, Shape, Status
  <2> QED BY <2>4, <2>5, <2>6, <2>7 DEF Inv
<1>4. CASE ~old
  <2>1. PICK e \in NextId :
          /\ event' = [event EXCEPT ![e].payload = p,
               ![e].status = IF db = "tenant" THEN "RECEIVED" ELSE "inserted"]
          /\ request' = [request EXCEPT ![b] =
               [payload |-> p, event |-> e, at |-> "stored"]]
    BY <1>4 DEF Store
  <2>2. run' = run /\ db' = db /\ batch' = batch
    BY DEF Store
  <2>3. e \in EventIds /\ Status(e) = "none"
    BY <2>1 DEF NextId, Status
  <2>4. /\ event'[e].status \in {"RECEIVED", "inserted"}
        /\ event'[e].imports = event[e].imports
        /\ \A o \in EventIds \ {e} : event'[o] = event[o]
        /\ event' \in [EventIds -> Row]
    <3> DEFINE r == [event[e] EXCEPT !.payload = p,
                         !.status = IF db = "tenant" THEN "RECEIVED" ELSE "inserted"]
    <3>1. event \in [EventIds -> Row] /\ event[e] \in Row
      BY <2>3 DEF Inv, Shape
    <3>2. event' = [event EXCEPT ![e] = r]
      BY <2>1, <3>1
    <3>3. r \in Row /\ r.imports = event[e].imports
          /\ r.status \in {"RECEIVED", "inserted"}
      BY <1>2, <3>1 DEF Row, Stored
    <3> HIDE DEF r
    <3> QED BY <2>3, <3>1, <3>2, <3>3
  <2>5. Shape'
    BY <1>2, <2>1, <2>2, <2>3, <2>4 DEF Inv, Shape, Request
  <2>6. RequestsInv'
    BY <2>1, <2>3, <2>4 DEF Inv, Shape, Request, RequestsInv, Status, Stored
  <2>7. \A c \in Web : Sender(c) => request[c].event # e
    BY <2>3 DEF Inv, Shape, RequestsInv, Sender, Status, Stored
  <2>8. OneSender'
    BY <2>1, <2>7 DEF Inv, Shape, Request, OneSender, Sender
  <2>9. RunsInv' /\ OneRun' /\ ImportedOnce'
    <3>1. \A x \in Processes : run[x] # NULL => run[x].event \in EventIds \ {e}
      BY <2>3 DEF Inv, Shape, Run, RunsInv, Status
    <3> QED BY <2>2, <2>3, <2>4, <3>1 DEF Inv, Shape, RunsInv, OneRun, ImportedOnce, Status
  <2>10. BatchInv'
    BY <2>2, <2>3, <2>4, BatchUntouched DEF Inv, Shape, Status, Stored
  <2> QED BY <2>5, <2>6, <2>8, <2>9, <2>10 DEF Inv
<1> QED BY <1>3, <1>4

LEMMA SendInv ==
    ASSUME Deployment, Inv, NEW b \in Web, Send(b)
    PROVE  Inv'
<1> DEFINE e == request[b].event
<1>1. request[b] \in Request /\ e \in EventIds
  BY DEF Inv, Shape, RequestsInv, Send, At
<1>2. request' = [request EXCEPT ![b] =
         IF event[e].status = "inserted" THEN [request[b] EXCEPT !.at = "sent"]
                                         ELSE NULL]
  BY DEF Send
<1>3. event' = event /\ run' = run /\ db' = db /\ batch' = batch
  BY DEF Send
<1>4. [request[b] EXCEPT !.at = "sent"] \in Request
  BY <1>1 DEF Request
<1>5. Shape'
  BY <1>2, <1>3, <1>4 DEF Inv, Shape
<1>6. At(b, "stored") \/ event[e].status # "inserted"
  BY DEF Send, At, Inv, RequestsInv, Status, Stored
<1>7. RequestsInv' /\ OneSender'
  BY <1>1, <1>2, <1>3, <1>6
     DEF Inv, Shape, Request, RequestsInv, OneSender, Sender, Status, At
<1>8. RunsInv' /\ OneRun' /\ ImportedOnce'
  BY <1>3 DEF Inv, RunsInv, OneRun, ImportedOnce, Status
<1>9. BatchInv'
  BY <1>3, BatchUntouched DEF Inv, Shape, Status
<1> QED BY <1>5, <1>7, <1>8, <1>9 DEF Inv

LEMMA CommitInv ==
    ASSUME Deployment, Inv, NEW b \in Web, Commit(b)
    PROVE  Inv'
<1> DEFINE e == request[b].event
<1>1. request[b] \in Request /\ e \in EventIds /\ Status(e) = "inserted"
  BY DEF Inv, Shape, RequestsInv, Commit, At
<1>2. /\ event'[e].status = "RECEIVED"
      /\ event'[e].imports = event[e].imports
      /\ \A o \in EventIds \ {e} : event'[o] = event[o]
      /\ event' \in [EventIds -> Row]
  BY <1>1 DEF Inv, Shape, Row, Stored, Commit
<1>3. request' = [request EXCEPT ![b] = NULL]
  BY DEF Commit
<1>4. run' = run /\ db' = db /\ batch' = batch
  BY DEF Commit
<1>5. Shape'
  BY <1>2, <1>3, <1>4 DEF Inv, Shape
<1>6. Sender(b) /\ \A c \in Web \ {b} : Sender(c) => request[c].event # e
  BY DEF Inv, OneSender, Sender, Commit, At
<1>7. RequestsInv'
  BY <1>1, <1>2, <1>3, <1>6
     DEF Inv, Shape, Request, RequestsInv, Sender, Status, Stored
<1>8. OneSender'
  BY <1>3 DEF Inv, Shape, OneSender, Sender
<1>9. RunsInv' /\ OneRun' /\ ImportedOnce'
  BY <1>1, <1>2, <1>4 DEF Inv, Shape, Run, RunsInv, OneRun, ImportedOnce, Status
<1>10. BatchInv'
  BY <1>1, <1>2, <1>4, BatchUntouched DEF Inv, Shape, Status, Stored
<1> QED BY <1>5, <1>7, <1>8, <1>9, <1>10 DEF Inv

LEMMA DropInv ==
    ASSUME Deployment, Inv, NEW b \in Web, Drop(b)
    PROVE  Inv'
<1> DEFINE e == request[b].event
           half == e # NULL /\ event[e].status = "inserted"
<1>1. request[b] \in Request /\ request[b] # NULL
  BY DEF Inv, Shape, Drop
<1>2. request' = [request EXCEPT ![b] = NULL]
  BY DEF Drop
<1>3. run' = run /\ db' = db /\ batch' = batch
  BY DEF Drop
<1>4. CASE ~half
  <2>1. event' = event
    BY <1>4 DEF Drop
  <2>2. Shape'
    BY <1>2, <1>3, <2>1 DEF Inv, Shape
  <2>3. RequestsInv' /\ OneSender'
    BY <1>2, <2>1 DEF Inv, Shape, RequestsInv, OneSender, Sender, Status
  <2>4. RunsInv' /\ OneRun' /\ ImportedOnce'
    BY <1>3, <2>1 DEF Inv, RunsInv, OneRun, ImportedOnce, Status
  <2>5. BatchInv'
    BY <1>3, <2>1, BatchUntouched DEF Inv, Shape, Status
  <2> QED BY <2>2, <2>3, <2>4, <2>5 DEF Inv
<1>5. CASE half
  <2>1. e \in EventIds /\ Status(e) = "inserted" /\ Sender(b)
    BY <1>1, <1>5 DEF Inv, Shape, Request, RequestsInv, Sender, Status, Stored
  <2>2. event' = [event EXCEPT ![e] = [event[e] EXCEPT !.status = "void", !.payload = NULL]]
    BY <1>5 DEF Drop
  <2>3. /\ event'[e].status = "void"
        /\ event'[e].imports = event[e].imports
        /\ \A o \in EventIds \ {e} : event'[o] = event[o]
        /\ event' \in [EventIds -> Row]
    <3> DEFINE r == [event[e] EXCEPT !.status = "void", !.payload = NULL]
    <3>1. event \in [EventIds -> Row] /\ event[e] \in Row
      BY <2>1 DEF Inv, Shape
    <3>2. r \in Row /\ r.imports = event[e].imports /\ r.status = "void"
      BY <3>1 DEF Row, Stored
    <3>3. event' = [event EXCEPT ![e] = r]
      BY <2>2
    <3> HIDE DEF r
    <3> QED BY <2>1, <3>1, <3>2, <3>3
  <2>4. Shape'
    BY <1>2, <1>3, <2>3 DEF Inv, Shape
  <2>5. \A c \in Web \ {b} : Sender(c) => request[c].event # e
    BY <2>1 DEF Inv, OneSender
  <2>6. RequestsInv'
    BY <1>2, <2>1, <2>3, <2>5
       DEF Inv, Shape, Request, RequestsInv, Sender, Status, Stored
  <2>7. OneSender'
    BY <1>2 DEF Inv, Shape, OneSender, Sender
  <2>8. RunsInv' /\ OneRun' /\ ImportedOnce'
    <3>1. \A x \in Processes : run[x] # NULL => run[x].event \in EventIds \ {e}
      BY <2>1 DEF Inv, Shape, Run, RunsInv, Status
    <3>2. RunsInv' /\ OneRun'
      BY <1>3, <2>3, <3>1 DEF Inv, Shape, RunsInv, OneRun, Status
    <3>3. ImportedOnce'
      BY <2>1, <2>3 DEF Inv, ImportedOnce, Status
    <3> QED BY <3>2, <3>3
  <2>9. BatchInv'
    BY <1>3, <2>1, <2>3, BatchUntouched DEF Inv, Shape, Status, Stored
  <2> QED BY <2>4, <2>6, <2>7, <2>8, <2>9 DEF Inv
<1> QED BY <1>4, <1>5

-----------------------------------------------------------------------------
\* What the steps of a request may assume of one another: an import or a sweep
\* changes no event but one that is stored, which stays so.
LEMMA RequestsUntouched ==
    ASSUME Inv, request' = request,
           \A e \in EventIds :
              \/ Status(e)' = Status(e)
              \/ Status(e) \in Stored /\ Status(e)' \in Stored
    PROVE  RequestsInv' /\ OneSender'
BY DEF Inv, RequestsInv, OneSender, Sender, Status, Stored

\* An import that ends writes its event e, which no other import holds.
LEMMA EndOfRun ==
    ASSUME Inv, NEW x \in Processes, run[x] # NULL, NEW status \in Stored,
           NEW i \in Nat, i = IF status = "PROCESSED" THEN 1 ELSE 0,
           request' = request, db' = db, batch' = batch,
           event' = [event EXCEPT ![run[x].event] =
                       [event[run[x].event] EXCEPT !.status = status, !.imports = i]],
           run' = [run EXCEPT ![x] = NULL]
    PROVE  Inv'
<1> DEFINE e == run[x].event
           r == [event[e] EXCEPT !.status = status, !.imports = i]
<1>1. e \in EventIds /\ event[e] \in Row /\ Status(e) \in {"RECEIVED", "FAILED"}
  BY DEF Inv, Shape, Run, RunsInv
<1>2. r \in Row /\ r.status = status /\ r.imports = i
  BY <1>1 DEF Row, Stored
<1> HIDE DEF r
<1>3. /\ event'[e].status = status /\ event'[e].imports = i
      /\ \A o \in EventIds \ {e} : event'[o] = event[o]
      /\ event' \in [EventIds -> Row]
  BY <1>1, <1>2 DEF Inv, Shape, r
<1>4. Shape'
  BY <1>3 DEF Inv, Shape
<1>5. RequestsInv' /\ OneSender'
  BY <1>1, <1>3, RequestsUntouched DEF Stored, Status
<1>6. \A y \in Processes \ {x} :
         run'[y] = run[y] /\ (run[y] # NULL => run[y].event \in EventIds \ {e})
  BY DEF Inv, Shape, Run, OneRun
<1>7. run'[x] = NULL
  BY DEF Inv, Shape
<1>8. RunsInv' /\ OneRun' /\ ImportedOnce'
  BY <1>3, <1>6, <1>7 DEF Inv, RunsInv, OneRun, ImportedOnce, Status
<1>9. BatchInv'
  BY <1>1, <1>3, BatchUntouched DEF Inv, Shape, Status, Stored
<1> QED BY <1>4, <1>5, <1>8, <1>9 DEF Inv

\* begin(x, e) for a stored event e, beside which events at most count a try.
LEMMA BeginInv ==
    ASSUME Inv, NEW x \in Processes, run[x] = NULL,
           NEW e \in EventIds, Status(e) \in {"RECEIVED", "FAILED", "PROCESSED"},
           begin(x, e), request' = request, db' = db,
           batch' \in [Sweepers -> SUBSET EventIds],
           \A s \in Sweepers : batch'[s] \subseteq batch[s],
           event' \in [EventIds -> Row],
           \A o \in EventIds : /\ event'[o].status = event[o].status
                               /\ event'[o].imports = event[o].imports
    PROVE  Inv'
<1>1. RequestsInv' /\ OneSender'
  BY RequestsUntouched DEF Status
<1>2. BatchInv' /\ ImportedOnce'
  BY BatchUntouched DEF Inv, ImportedOnce, Status
<1>3. CASE event[e].status = "PROCESSED"
  <2>1. run' = run
    BY <1>3 DEF begin
  <2>2. Shape' /\ RunsInv' /\ OneRun'
    BY <2>1 DEF Inv, Shape, Run, RunsInv, OneRun, Status
  <2> QED BY <1>1, <1>2, <2>2 DEF Inv
<1>4. CASE event[e].status # "PROCESSED"
  <2> DEFINE r == [event |-> e, seen |-> Phone(e) # NULL /\ leads[Phone(e)] > 0]
  <2>1. run' = [run EXCEPT ![x] = r]
    BY <1>4 DEF begin
  <2>2. r \in Run /\ r.event = e
    BY DEF Run
  <2> HIDE DEF r
  <2>3. \A y \in Processes : run[y] # NULL => run[y].event \in EventIds \ {e}
    BY DEF Inv, Shape, Run, begin, Locked
  <2>4. Shape'
    BY <2>1, <2>2 DEF Inv, Shape
  <2>5. RunsInv' /\ OneRun'
    BY <1>4, <2>1, <2>2, <2>3 DEF Inv, Shape, RunsInv, OneRun, Status
  <2> QED BY <1>1, <1>2, <2>4, <2>5 DEF Inv
<1> QED BY <1>3, <1>4

LEMMA TakeInv ==
    ASSUME Inv, NEW w \in Workers, NEW e \in EventIds, Take(w, e)
    PROVE  Inv'
<1>1. w \in Processes /\ run[w] = NULL
  BY DEF Take, Processes
<1>2. event' = event /\ request' = request /\ db' = db /\ batch' = batch
  BY DEF Take
<1>3. CASE event[e].status \in Stored
  <2>1. begin(w, e)
    BY <1>3 DEF Take
  <2>2. /\ batch' \in [Sweepers -> SUBSET EventIds]
        /\ \A s \in Sweepers : batch'[s] \subseteq batch[s]
        /\ event' \in [EventIds -> Row]
    BY <1>2 DEF Inv, Shape
  <2>3. Status(e) \in {"RECEIVED", "FAILED", "PROCESSED"}
    BY <1>3 DEF Status, Stored
  <2> QED BY <1>1, <1>2, <2>1, <2>2, <2>3, BeginInv
<1>4. CASE event[e].status \notin Stored
  <2>1. run' = run
    BY <1>4 DEF Take
  <2> QED BY <1>2, <2>1 DEF Inv, Shape, RequestsInv, OneSender, Sender, RunsInv,
                            OneRun, BatchInv, ImportedOnce, Status
<1> QED BY <1>3, <1>4

LEMMA ImportInv ==
    ASSUME Inv, NEW x \in Processes, Import(x)
    PROVE  Inv'
<1> DEFINE e == run[x].event
<1>1. e \in EventIds /\ event[e] \in Row /\ Status(e) \in {"RECEIVED", "FAILED"}
  BY DEF Inv, Shape, Run, RunsInv, Import
<1>2. event[e].imports = 0
  BY <1>1 DEF Inv, ImportedOnce, Status
<1>3. event' = [event EXCEPT ![e] = [event[e] EXCEPT !.status = "PROCESSED",
                                                     !.imports = 1]]
  BY <1>1, <1>2 DEF Import, Inv, Shape, Row
<1>4. "PROCESSED" \in Stored
  BY DEF Stored
<1>5. /\ run[x] # NULL /\ run' = [run EXCEPT ![x] = NULL]
      /\ request' = request /\ db' = db /\ batch' = batch
  BY DEF Import
<1> QED BY <1>3, <1>4, <1>5, EndOfRun

LEMMA FailInv ==
    ASSUME Inv, NEW x \in Processes, Fail(x)
    PROVE  Inv'
<1> DEFINE e == run[x].event
<1>1. e \in EventIds /\ event[e] \in Row /\ Status(e) \in {"RECEIVED", "FAILED"}
  BY DEF Inv, Shape, Run, RunsInv, Fail
<1>2. event[e].imports = 0
  BY <1>1 DEF Inv, ImportedOnce, Status
<1>3. event' = [event EXCEPT ![e] = [event[e] EXCEPT !.status = "FAILED",
                                                     !.imports = 0]]
  BY <1>1, <1>2 DEF Fail, Inv, Shape, Row
<1>4. "FAILED" \in Stored
  BY DEF Stored
<1>5. /\ run[x] # NULL /\ run' = [run EXCEPT ![x] = NULL]
      /\ request' = request /\ db' = db /\ batch' = batch
  BY DEF Fail
<1> QED BY <1>3, <1>4, <1>5, EndOfRun

LEMMA AbortInv ==
    ASSUME Inv, NEW x \in Processes, Abort(x)
    PROVE  Inv'
<1>1. event' = event /\ request' = request /\ db' = db
      /\ run' = [run EXCEPT ![x] = NULL]
      /\ batch' = [s \in Sweepers |-> IF s = x THEN {} ELSE batch[s]]
  BY DEF Abort
<1>2. Shape'
  BY <1>1 DEF Inv, Shape
<1>3. RequestsInv' /\ OneSender'
  BY <1>1, RequestsUntouched DEF Status
<1>4. RunsInv' /\ OneRun' /\ ImportedOnce'
  BY <1>1 DEF Inv, Shape, RunsInv, OneRun, ImportedOnce, Status
<1>5. BatchInv'
  BY <1>1, BatchUntouched DEF Inv, Shape, Status
<1> QED BY <1>2, <1>3, <1>4, <1>5 DEF Inv

LEMMA StartSweepInv ==
    ASSUME Inv, NEW s \in Sweepers, StartSweep(s)
    PROVE  Inv'
<1>1. Oldest(Failed) \in SUBSET EventIds
  BY DEF Oldest, Failed
<1>2. Shape'
  BY <1>1 DEF Inv, Shape, StartSweep
<1>3. RequestsInv' /\ OneSender'
  BY RequestsUntouched DEF StartSweep, Status
<1>4. RunsInv' /\ OneRun' /\ ImportedOnce'
  BY DEF Inv, StartSweep, RunsInv, OneRun, ImportedOnce, Status
<1>5. BatchInv'
  BY DEF Inv, Shape, StartSweep, BatchInv, Oldest, Failed, Status, Stored
<1> QED BY <1>2, <1>3, <1>4, <1>5 DEF Inv

LEMMA RetryInv ==
    ASSUME Inv, NEW s \in Sweepers, Retry(s)
    PROVE  Inv'
<1>1. PICK e \in batch[s] :
        /\ batch' = [batch EXCEPT ![s] = @ \ {e}]
        /\ IF event[e].tries >= MaxAttempts
           THEN UNCHANGED <<event, run, contended>>
           ELSE /\ event' = [event EXCEPT ![e].tries = @ + 1]
                /\ begin(s, e)
  BY DEF Retry
<1>2. request' = request /\ db' = db /\ run[s] = NULL /\ s \in Processes
  BY DEF Retry, Processes
<1>3. e \in EventIds /\ Status(e) \in Stored
  BY DEF Inv, Shape, BatchInv
<1>4. /\ batch' \in [Sweepers -> SUBSET EventIds]
      /\ \A o \in Sweepers : batch'[o] \subseteq batch[o]
  BY <1>1 DEF Inv, Shape
<1>5. CASE event[e].tries >= MaxAttempts
  <2>1. event' = event /\ run' = run
    BY <1>1, <1>5
  <2>2. Shape' /\ BatchInv'
    BY <1>2, <1>4, <2>1, BatchUntouched DEF Inv, Shape, Status
  <2> QED BY <1>2, <2>1, <2>2 DEF Inv, RequestsInv, OneSender, Sender, RunsInv,
                                  OneRun, ImportedOnce, Status
<1>6. CASE ~(event[e].tries >= MaxAttempts)
  <2> DEFINE r == [event[e] EXCEPT !.tries = event[e].tries + 1]
  <2>1. event' = [event EXCEPT ![e] = r] /\ begin(s, e)
    BY <1>1, <1>6
  <2>2. event[e] \in Row /\ r \in Row
        /\ r.status = event[e].status /\ r.imports = event[e].imports
    BY <1>3 DEF Inv, Shape, Row
  <2> HIDE DEF r
  <2>3. /\ event' \in [EventIds -> Row]
        /\ \A o \in EventIds : /\ event'[o].status = event[o].status
                               /\ event'[o].imports = event[o].imports
    BY <1>3, <2>1, <2>2 DEF Inv, Shape
  <2>4. Status(e) \in {"RECEIVED", "FAILED", "PROCESSED"}
    BY <1>3 DEF Stored
  <2> QED BY <1>2, <1>3, <1>4, <2>1, <2>3, <2>4, BeginInv
<1> QED BY <1>5, <1>6

LEMMA NextInv == ASSUME Deployment, Inv, [Next]_vars PROVE Inv'
<1>1. CASE UNCHANGED vars
  BY <1>1 DEF vars, Inv, Shape, RequestsInv, OneSender, Sender, RunsInv, OneRun,
              BatchInv, ImportedOnce, Status
<1>2. CASE Next
  BY <1>2, ReceiveInv, StoreInv, SendInv, CommitInv, DropInv, TakeInv, ImportInv,
     FailInv, AbortInv, StartSweepInv, RetryInv DEF Next
<1> QED BY <1>1, <1>2

\* The strengthened invariant holds in every reachable state.
THEOREM Reachable == Spec => []Inv
<1>1. Init => Inv
  BY InitInv, Deployment
<1>2. Inv /\ [Next]_vars => Inv'
  BY NextInv, Deployment
<1> QED BY <1>1, <1>2, PTL DEF Spec

\* An event makes or refreshes a lead once, and counts as processed exactly when
\* it did, for every number of posts, workers, sweeps and attempts
\* (WebhookLeadImportService.process).
THEOREM OnceOnly == Spec => []ImportedOnce
<1>1. Inv => ImportedOnce
  BY DEF Inv
<1> QED BY <1>1, Reachable, PTL

\* A processed event stays processed: no late post, no end of a request and no
\* retry takes that back (receive_webhook, retry_failed_webhooks).
ProcessedForGood ==
    [][\A e \in EventIds :
          event[e].status = "PROCESSED" => event'[e].status = "PROCESSED"]_vars

LEMMA ProcessedStays ==
    ASSUME Deployment, Inv, Next, NEW e \in EventIds, event[e].status = "PROCESSED"
    PROVE  event'[e].status = "PROCESSED"
<1> USE DEF Inv, Shape
<1>1. ASSUME NEW b \in Web, Store(b) PROVE event'[e].status = "PROCESSED"
  <2>1. \A o \in NextId : o # e
    BY DEF NextId
  <2> QED BY <1>1, <2>1 DEF Store, NextId
<1>2. ASSUME NEW b \in Web, Commit(b) PROVE event'[e].status = "PROCESSED"
  <2>1. request[b].event # e
    BY <1>2 DEF Commit, At, RequestsInv, Status
  <2> QED BY <1>2, <2>1 DEF Commit
<1>3. ASSUME NEW b \in Web, Drop(b) PROVE event'[e].status = "PROCESSED"
  BY <1>3 DEF Drop
<1>4. ASSUME NEW x \in Processes, Import(x) PROVE event'[e].status = "PROCESSED"
  BY <1>4 DEF Import
<1>5. ASSUME NEW x \in Processes, Fail(x) PROVE event'[e].status = "PROCESSED"
  <2>1. run[x].event # e
    BY <1>5 DEF Fail, RunsInv, Status
  <2> QED BY <1>5, <2>1 DEF Fail
<1>6. ASSUME NEW s \in Sweepers, Retry(s) PROVE event'[e].status = "PROCESSED"
  <2>1. event[e] \in Row
    OBVIOUS
  <2>2. PICK o \in EventIds :
           event' = event \/ event' = [event EXCEPT ![o].tries = @ + 1]
    BY <1>6 DEF Retry
  <2>3. CASE o = e
    <3>1. [event[e] EXCEPT !.tries = @ + 1].status = "PROCESSED"
      BY <2>1 DEF Row
    <3> QED BY <2>2, <2>3, <3>1
  <2> QED BY <2>2, <2>3
<1>7. ASSUME event' = event PROVE event'[e].status = "PROCESSED"
  BY <1>7
<1> QED BY <1>1, <1>2, <1>3, <1>4, <1>5, <1>6, <1>7
        DEF Next, Receive, Send, Take, Abort, StartSweep

THEOREM StaysProcessed == Spec => ProcessedForGood
<1>1. Inv /\ [Next]_vars =>
        [\A e \in EventIds :
            event[e].status = "PROCESSED" => event'[e].status = "PROCESSED"]_vars
  BY ProcessedStays, Deployment
<1> QED BY <1>1, Reachable, PTL DEF Spec, ProcessedForGood
-----------------------------------------------------------------------------
(***************************************************************************)
(* A second lead of a phone.  While nobody else imports its phone, an      *)
(* import sees a lead exactly when there is one (SeesWell); two that       *)
(* import one phone at once are noted (Noted); a lead once seen does not   *)
(* go away (SeenStays); and an event keeps its payload (Payloaded).        *)
(***************************************************************************)
Payloaded == \A e \in EventIds : Status(e) \in Stored \cup {"inserted"} =>
                                     event[e].payload \in Payloads

Imports(x, f) == run[x] # NULL /\ Phone(run[x].event) = f

Noted == \A x, y \in Processes : \A f \in Phones :
            Imports(x, f) /\ Imports(y, f) /\ x # y => f \in contended

SeesWell == \A x \in Processes : \A f \in Phones :
               Imports(x, f) /\ f \notin contended => (run[x].seen <=> leads[f] > 0)

SeenStays == \A x \in Processes : \A f \in Phones :
                Imports(x, f) /\ run[x].seen => leads[f] > 0

LeadsInv ==
    /\ leads \in [Phones -> Nat]
    /\ Payloaded /\ Noted /\ SeesWell /\ SeenStays
    /\ SecondLeadNeedsContention

LEMMA InitLeads == ASSUME Deployment, Init PROVE LeadsInv
BY DEF Init, LeadsInv, Payloaded, Noted, SeesWell, SeenStays, Imports, Status,
       SecondLeadNeedsContention, Stored

\* What a step needs to keep all that when it imports nothing.
LEMMA LeadsKept ==
    ASSUME Inv, LeadsInv, leads' = leads, contended' = contended,
           \A x \in Processes : run'[x] = NULL \/ run'[x] = run[x],
           \A e \in EventIds : Status(e) \in Stored => event'[e].payload = event[e].payload,
           \A e \in EventIds : Status(e)' = "PROCESSED" <=> Status(e) = "PROCESSED",
           \A e \in EventIds : Status(e)' \in Stored \cup {"inserted"} =>
                                   event'[e].payload \in Payloads
    PROVE  LeadsInv'
<1>1. \A x \in Processes : \A f \in Phones :
         Imports(x, f)' => Imports(x, f) /\ run'[x] = run[x]
  <2> SUFFICES ASSUME NEW x \in Processes, NEW f \in Phones, Imports(x, f)'
               PROVE  Imports(x, f) /\ run'[x] = run[x]
    OBVIOUS
  <2>1. run'[x] = run[x] /\ run[x] # NULL
    BY DEF Imports
  <2>2. run[x].event \in EventIds /\ Status(run[x].event) \in Stored
    BY <2>1 DEF Inv, Shape, Run, RunsInv, Stored
  <2> QED BY <2>1, <2>2 DEF Imports, Phone
<1>2. \A e \in EventIds : Status(e) = "PROCESSED" => Phone(e)' = Phone(e)
  BY DEF Phone, Stored
<1>3. Noted' /\ SeesWell' /\ SeenStays'
  BY <1>1 DEF LeadsInv, Noted, SeesWell, SeenStays
<1>4. SecondLeadNeedsContention'
  BY <1>2 DEF LeadsInv, SecondLeadNeedsContention, Status
<1> QED BY <1>3, <1>4 DEF LeadsInv, Payloaded

LEMMA StoreLeads ==
    ASSUME Deployment, Inv, LeadsInv, NEW b \in Web, Store(b)
    PROVE  LeadsInv'
<1> DEFINE p == request[b].payload
<1>1. p \in Payloads
  BY DEF Inv, Shape, Request, Store, At
<1>2. leads' = leads /\ contended' = contended /\ run' = run
  BY DEF Store
<1>3. CASE event' = event
  BY <1>2, <1>3, LeadsKept DEF LeadsInv, Payloaded, Status
<1>4. CASE event' # event
  <2>1. PICK e \in NextId : event' = [event EXCEPT ![e].payload = p,
           ![e].status = IF db = "tenant" THEN "RECEIVED" ELSE "inserted"]
    BY <1>4 DEF Store
  <2> DEFINE st == IF db = "tenant" THEN "RECEIVED" ELSE "inserted"
             r == [event[e] EXCEPT !.payload = p, !.status = st]
  <2>2. e \in EventIds /\ Status(e) = "none" /\ event[e] \in Row
    BY <2>1 DEF NextId, Status, Inv, Shape
  <2>3. event' = [event EXCEPT ![e] = r]
    BY <2>1
  <2>4. r.payload = p /\ r.status \in {"RECEIVED", "inserted"}
    BY <2>2 DEF Row
  <2> HIDE DEF r
  <2>5. event'[e] = r /\ \A o \in EventIds \ {e} : event'[o] = event[o]
    BY <2>2, <2>3 DEF Inv, Shape
  <2>6. /\ \A o \in EventIds : Status(o) \in Stored => event'[o].payload = event[o].payload
        /\ \A o \in EventIds : Status(o)' = "PROCESSED" <=> Status(o) = "PROCESSED"
        /\ \A o \in EventIds : Status(o)' \in Stored \cup {"inserted"} =>
                                   event'[o].payload \in Payloads
    BY <1>1, <2>2, <2>4, <2>5 DEF LeadsInv, Payloaded, Status, Stored
  <2> QED BY <1>2, <2>6, LeadsKept
<1> QED BY <1>3, <1>4

LEMMA CommitLeads ==
    ASSUME Deployment, Inv, LeadsInv, NEW b \in Web, Commit(b)
    PROVE  LeadsInv'
<1> DEFINE e == request[b].event
<1>1. e \in EventIds /\ Status(e) = "inserted" /\ event[e] \in Row
  BY DEF Inv, Shape, RequestsInv, Commit, At
<1>2. /\ event'[e].status = "RECEIVED" /\ event'[e].payload = event[e].payload
      /\ \A o \in EventIds \ {e} : event'[o] = event[o]
  BY <1>1 DEF Inv, Shape, Row, Commit
<1>3. /\ \A o \in EventIds : Status(o) \in Stored => event'[o].payload = event[o].payload
      /\ \A o \in EventIds : Status(o)' = "PROCESSED" <=> Status(o) = "PROCESSED"
      /\ \A o \in EventIds : Status(o)' \in Stored \cup {"inserted"} =>
                                 event'[o].payload \in Payloads
  BY <1>1, <1>2 DEF LeadsInv, Payloaded, Status, Stored
<1> QED BY <1>3, LeadsKept DEF Commit

LEMMA DropLeads ==
    ASSUME Deployment, Inv, LeadsInv, NEW b \in Web, Drop(b)
    PROVE  LeadsInv'
<1> DEFINE e == request[b].event
           half == e # NULL /\ event[e].status = "inserted"
<1>1. leads' = leads /\ contended' = contended /\ run' = run
  BY DEF Drop
<1>2. CASE ~half
  <2>1. event' = event
    BY <1>2 DEF Drop
  <2> QED BY <1>1, <2>1, LeadsKept DEF LeadsInv, Payloaded, Status
<1>3. CASE half
  <2>1. e \in EventIds /\ event[e] \in Row /\ Status(e) = "inserted"
    BY <1>3 DEF Inv, Shape, Request, Drop, Status
  <2> DEFINE r == [event[e] EXCEPT !.status = "void", !.payload = NULL]
  <2>2. event' = [event EXCEPT ![e] = r]
    BY <1>3 DEF Drop
  <2>3. r.status = "void"
    BY <2>1 DEF Row
  <2> HIDE DEF r
  <2>4. event'[e] = r /\ \A o \in EventIds \ {e} : event'[o] = event[o]
    BY <2>1, <2>2 DEF Inv, Shape
  <2>5. /\ \A o \in EventIds : Status(o) \in Stored => event'[o].payload = event[o].payload
        /\ \A o \in EventIds : Status(o)' = "PROCESSED" <=> Status(o) = "PROCESSED"
        /\ \A o \in EventIds : Status(o)' \in Stored \cup {"inserted"} =>
                                   event'[o].payload \in Payloads
    BY <2>1, <2>3, <2>4 DEF LeadsInv, Payloaded, Status, Stored
  <2> QED BY <1>1, <2>5, LeadsKept
<1> QED BY <1>2, <1>3

\* begin(x, e) looks for a lead of the phone and notes who else imports it.
LEMMA BeginLeads ==
    ASSUME Inv, LeadsInv, NEW x \in Processes, run[x] = NULL,
           NEW e \in EventIds, Status(e) \in Stored, begin(x, e), leads' = leads,
           \A o \in EventIds : /\ event'[o].status = event[o].status
                               /\ event'[o].payload = event[o].payload
    PROVE  LeadsInv'
<1>1. Payloaded'
  BY DEF LeadsInv, Payloaded, Status
<1>2. CASE event[e].status = "PROCESSED"
  <2>1. run' = run /\ contended' = contended
    BY <1>2 DEF begin
  <2> QED BY <2>1, LeadsKept DEF LeadsInv, Payloaded, Status
<1>3. CASE event[e].status # "PROCESSED"
  <2>1. PICK seen \in BOOLEAN :
          /\ seen <=> Phone(e) # NULL /\ leads[Phone(e)] > 0
          /\ run' = [run EXCEPT ![x] = [event |-> e, seen |-> seen]]
    BY <1>3 DEF begin
  <2>2. contended' = contended \cup
           {f \in Phones : f = Phone(e) /\ \E y \in Processes : Imports(y, f)}
    BY <1>3 DEF begin, Imports
  <2>3. \A o \in EventIds : Phone(o)' = Phone(o)
    BY DEF Phone
  <2>4. run'[x].event = e /\ (run'[x].seen <=> seen)
        /\ \A y \in Processes \ {x} : run'[y] = run[y]
    BY <2>1 DEF Inv, Shape
  <2>5. \A y \in Processes \ {x} : \A f \in Phones : Imports(y, f)' <=> Imports(y, f)
    BY <2>3, <2>4 DEF Imports, Inv, Shape, Run
  <2>6. \A f \in Phones : Imports(x, f)' => f = Phone(e) /\ f # NULL
    BY <2>3, <2>4 DEF Imports, Phones
  <2>7. Noted'
    <3> SUFFICES ASSUME NEW y \in Processes, NEW z \in Processes, NEW f \in Phones,
                        Imports(y, f)', Imports(z, f)', y # z
                 PROVE  f \in contended'
      BY DEF Noted
    <3>1. CASE y = x
      BY <2>2, <2>5, <2>6, <3>1
    <3>2. CASE z = x
      BY <2>2, <2>5, <2>6, <3>2
    <3>3. CASE y # x /\ z # x
      BY <2>2, <2>5, <3>3 DEF LeadsInv, Noted
    <3> QED BY <3>1, <3>2, <3>3
  <2>8. SeesWell'
    <3> SUFFICES ASSUME NEW y \in Processes, NEW f \in Phones,
                        Imports(y, f)', f \notin contended'
                 PROVE  run'[y].seen <=> leads[f] > 0
      BY DEF SeesWell
    <3>1. CASE y = x
      BY <2>1, <2>4, <2>6, <3>1
    <3>2. CASE y # x
      BY <2>2, <2>4, <2>5, <3>2 DEF LeadsInv, SeesWell
    <3> QED BY <3>1, <3>2
  <2>9. SeenStays'
    <3> SUFFICES ASSUME NEW y \in Processes, NEW f \in Phones,
                        Imports(y, f)', run'[y].seen
                 PROVE  leads[f] > 0
      BY DEF SeenStays
    <3>1. CASE y = x
      BY <2>1, <2>4, <2>6, <3>1
    <3>2. CASE y # x
      BY <2>4, <2>5, <3>2 DEF LeadsInv, SeenStays
    <3> QED BY <3>1, <3>2
  <2>10. SecondLeadNeedsContention'
    BY <2>2, <2>3 DEF LeadsInv, SecondLeadNeedsContention
  <2> QED BY <1>1, <2>7, <2>8, <2>9, <2>10 DEF LeadsInv
<1> QED BY <1>2, <1>3

LEMMA TakeLeads ==
    ASSUME Inv, LeadsInv, NEW w \in Workers, NEW e \in EventIds, Take(w, e)
    PROVE  LeadsInv'
<1>1. w \in Processes /\ run[w] = NULL /\ event' = event /\ leads' = leads
  BY DEF Take, Processes
<1>2. CASE event[e].status \in Stored
  BY <1>1, <1>2, BeginLeads DEF Take, Status
<1>3. CASE event[e].status \notin Stored
  <2>1. run' = run /\ contended' = contended
    BY <1>3 DEF Take
  <2> QED BY <1>1, <2>1, LeadsKept DEF LeadsInv, Payloaded, Status
<1> QED BY <1>2, <1>3

LEMMA RetryLeads ==
    ASSUME Inv, LeadsInv, NEW s \in Sweepers, Retry(s)
    PROVE  LeadsInv'
<1>1. PICK e \in batch[s] :
        IF event[e].tries >= MaxAttempts
        THEN UNCHANGED <<event, run, contended>>
        ELSE event' = [event EXCEPT ![e].tries = @ + 1] /\ begin(s, e)
  BY DEF Retry
<1>2. s \in Processes /\ run[s] = NULL /\ leads' = leads
  BY DEF Retry, Processes
<1>3. e \in EventIds /\ Status(e) \in Stored /\ event[e] \in Row
  BY DEF Inv, Shape, BatchInv
<1>4. CASE event[e].tries >= MaxAttempts
  BY <1>1, <1>2, <1>4, LeadsKept DEF LeadsInv, Payloaded, Status
<1>5. CASE ~(event[e].tries >= MaxAttempts)
  <2> DEFINE r == [event[e] EXCEPT !.tries = event[e].tries + 1]
  <2>1. event' = [event EXCEPT ![e] = r] /\ begin(s, e)
    BY <1>1, <1>5
  <2>2. r.status = event[e].status /\ r.payload = event[e].payload
    BY <1>3 DEF Row
  <2> HIDE DEF r
  <2>3. \A o \in EventIds : /\ event'[o].status = event[o].status
                            /\ event'[o].payload = event[o].payload
    BY <1>3, <2>1, <2>2 DEF Inv, Shape
  <2> QED BY <1>2, <1>3, <2>1, <2>3, BeginLeads
<1> QED BY <1>4, <1>5

LEMMA FailLeads ==
    ASSUME Inv, LeadsInv, NEW x \in Processes, Fail(x)
    PROVE  LeadsInv'
<1> DEFINE e == run[x].event
<1>1. e \in EventIds /\ event[e] \in Row /\ Status(e) \in {"RECEIVED", "FAILED"}
  BY DEF Inv, Shape, Run, RunsInv, Fail
<1>2. /\ event'[e].status = "FAILED" /\ event'[e].payload = event[e].payload
      /\ \A o \in EventIds \ {e} : event'[o] = event[o]
  BY <1>1 DEF Inv, Shape, Row, Fail
<1>3. \A y \in Processes : run'[y] = NULL \/ run'[y] = run[y]
  BY DEF Fail, Inv, Shape
<1>4. /\ \A o \in EventIds : Status(o) \in Stored => event'[o].payload = event[o].payload
      /\ \A o \in EventIds : Status(o)' = "PROCESSED" <=> Status(o) = "PROCESSED"
      /\ \A o \in EventIds : Status(o)' \in Stored \cup {"inserted"} =>
                                 event'[o].payload \in Payloads
  BY <1>1, <1>2 DEF LeadsInv, Payloaded, Status, Stored
<1> QED BY <1>3, <1>4, LeadsKept DEF Fail

\* An import that is alone with its phone inserts a lead only where there is none.
LEMMA ImportLeads ==
    ASSUME Inv, LeadsInv, NEW x \in Processes, Import(x)
    PROVE  LeadsInv'
<1> DEFINE e == run[x].event
           g == Phone(e)
<1>1. e \in EventIds /\ event[e] \in Row /\ Status(e) \in {"RECEIVED", "FAILED"}
  BY DEF Inv, Shape, Run, RunsInv, Import
<1>2. g \in Phones /\ Imports(x, g)
  BY <1>1 DEF Import, Phones, Phone, LeadsInv, Payloaded, Stored, Imports
<1>3. /\ event'[e].status = "PROCESSED" /\ event'[e].payload = event[e].payload
      /\ \A o \in EventIds \ {e} : event'[o] = event[o]
  BY <1>1 DEF Inv, Shape, Row, Import
<1>4. run'[x] = NULL /\ (\A y \in Processes \ {x} : run'[y] = run[y])
      /\ contended' = contended
  BY DEF Import, Inv, Shape
<1>5. leads' = IF run[x].seen THEN leads ELSE [leads EXCEPT ![g] = @ + 1]
  BY DEF Import
<1>6. /\ leads' \in [Phones -> Nat] /\ leads'[g] > 0
      /\ \A f \in Phones \ {g} : leads'[f] = leads[f]
      /\ leads'[g] = leads[g] \/ (~run[x].seen /\ leads'[g] = leads[g] + 1)
  BY <1>2, <1>5 DEF LeadsInv, SeenStays
<1>7. \A o \in EventIds : Phone(o)' = Phone(o)
  BY <1>3 DEF Phone
<1>8. \A y \in Processes : \A f \in Phones : Imports(y, f)' => Imports(y, f) /\ y # x
  BY <1>4, <1>7 DEF Imports, Inv, Shape, Run
<1>9. Payloaded'
  BY <1>1, <1>3 DEF LeadsInv, Payloaded, Status, Stored
<1>10. Noted'
  BY <1>4, <1>8 DEF LeadsInv, Noted
<1>11. SeesWell'
  <2> SUFFICES ASSUME NEW y \in Processes, NEW f \in Phones,
                      Imports(y, f)', f \notin contended
               PROVE  run'[y].seen <=> leads'[f] > 0
    BY <1>4 DEF SeesWell
  <2>1. Imports(y, f) /\ y # x
    BY <1>8
  <2>2. f # g
    BY <1>2, <2>1 DEF LeadsInv, Noted
  <2> QED BY <1>4, <1>6, <2>1, <2>2 DEF LeadsInv, SeesWell
<1>12. SeenStays'
  BY <1>4, <1>6, <1>8 DEF LeadsInv, SeenStays
<1>13. SecondLeadNeedsContention'
  <2> SUFFICES ASSUME NEW f \in Phones
               PROVE  /\ leads'[f] > 1 => f \in contended
                      /\ leads'[f] > 0 <=>
                           \E o \in EventIds :
                              event'[o].status = "PROCESSED" /\ Phone(o) = f
    BY <1>4, <1>7 DEF SecondLeadNeedsContention, Status
  <2>1. \A o \in EventIds \ {e} : event'[o].status = Status(o)
    BY <1>3 DEF Status
  <2>2. event'[e].status = "PROCESSED" /\ Status(e) # "PROCESSED"
    BY <1>1, <1>3 DEF Status
  <2>3. /\ leads[f] > 1 => f \in contended
        /\ leads[f] > 0 <=>
             \E o \in EventIds : Status(o) = "PROCESSED" /\ Phone(o) = f
    BY DEF LeadsInv, SecondLeadNeedsContention, Status
  <2>4. CASE f = g
    <3>1. leads'[f] > 1 => f \in contended
      <4>1. CASE leads'[g] = leads[g]
        BY <2>3, <2>4, <4>1
      <4>2. CASE ~run[x].seen /\ leads'[g] = leads[g] + 1
        <5>1. g \in contended \/ ~(leads[g] > 0)
          BY <1>2, <4>2 DEF LeadsInv, SeesWell
        <5> QED BY <1>2, <2>4, <4>2, <5>1 DEF LeadsInv
      <4> QED BY <1>6, <4>1, <4>2
    <3> QED BY <1>1, <1>6, <1>7, <2>2, <2>4, <3>1
  <2>5. CASE f # g
    BY <1>6, <1>7, <2>1, <2>2, <2>3, <2>5
  <2> QED BY <2>4, <2>5
<1> QED BY <1>6, <1>9, <1>10, <1>11, <1>12, <1>13 DEF LeadsInv

LEMMA NextLeads == ASSUME Deployment, Inv, LeadsInv, [Next]_vars PROVE LeadsInv'
<1>1. ASSUME leads' = leads, contended' = contended, event' = event,
             \A x \in Processes : run'[x] = NULL \/ run'[x] = run[x]
      PROVE  LeadsInv'
  BY <1>1, LeadsKept DEF LeadsInv, Payloaded, Status
<1>2. CASE UNCHANGED vars
  BY <1>1, <1>2 DEF vars
<1>3. ASSUME NEW b \in Web, NEW p \in Payloads, Receive(b, p) PROVE LeadsInv'
  BY <1>1, <1>3 DEF Receive
<1>4. ASSUME NEW b \in Web, Send(b) PROVE LeadsInv'
  BY <1>1, <1>4 DEF Send
<1>5. ASSUME NEW x \in Processes, Abort(x) PROVE LeadsInv'
  BY <1>1, <1>5 DEF Abort, Inv, Shape
<1>6. ASSUME NEW s \in Sweepers, StartSweep(s) PROVE LeadsInv'
  BY <1>1, <1>6 DEF StartSweep
<1>7. CASE Next
  BY <1>3, <1>4, <1>5, <1>6, <1>7, StoreLeads, CommitLeads, DropLeads, TakeLeads,
     ImportLeads, FailLeads, RetryLeads DEF Next
<1> QED BY <1>2, <1>7

\* Two events of one phone make two leads only if their imports ran at once, and
\* there is a lead of a phone exactly when an event of it was processed, for
\* every number of events, workers and sweeps (DuplicateService.check in
\* WebhookLeadImportService.process).
THEOREM SecondLeadIsContended == Spec => []SecondLeadNeedsContention
<1>1. Init => LeadsInv
  BY InitLeads, Deployment
<1>2. Inv /\ LeadsInv /\ [Next]_vars => LeadsInv'
  BY NextLeads, Deployment
<1>3. LeadsInv => SecondLeadNeedsContention
  BY DEF LeadsInv
<1> QED BY <1>1, <1>2, <1>3, Reachable, PTL DEF Spec
=============================================================================
