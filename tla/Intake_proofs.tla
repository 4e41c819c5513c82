--------------------------- MODULE Intake_proofs ---------------------------
(***************************************************************************)
(* Proofs about Intake: what a key, a phone and a broker may rely on,      *)
(* however many processes, posts, forms and teams there are.               *)
(***************************************************************************)
EXTENDS Intake, FiniteSetTheorems, WellFoundedInduction, TLAPS

-----------------------------------------------------------------------------
(***************************************************************************)
(* What steps do to the requests and to the keys.                          *)
(***************************************************************************)

\* A request that was posted, was not answered from the cache and has not ended.
Holds(x, k) == request[x].key = k /\ request[x].at \in {"read", "answered"}

Reading(x, k) == request[x].key = k /\ request[x].at = "read"
Answered(x, k) == request[x].key = k /\ request[x].at = "answered"

KeyInv(k) ==
    /\ \A x, y \in Processes : Holds(x, k) /\ Holds(y, k) => x = y
    /\ runs[k] <= 1
    /\ runs[k] = 1 => k \in cache \/ \E x \in Processes : Answered(x, k)
    /\ \A x \in Processes : Reading(x, k) => runs[k] = 0

KeysInv ==
    /\ posted \in [Keys -> Forms] /\ setup \in Setups
    /\ request = [x \in Processes |-> request[x]]
    /\ \A x \in Processes : request[x].at \in {"read", "answered"} => request[x].key \in Keys
    /\ runs \in [Keys -> Nat]
    /\ \A k \in Keys \ excused : KeyInv(k)

\* The steps that keep a key's requests, executions and answer.
LEMMA KeysStay ==
    ASSUME KeysInv, UNCHANGED <<form, runs, excused, cache>>,
           \/ UNCHANGED request
           \/ \E x \in Processes : \E r :
                 /\ request' = [request EXCEPT ![x] = r]
                 /\ request[x].at \notin {"read", "answered"}
                 /\ r.at \notin {"read", "answered"}
    PROVE  KeysInv'
<1>1. \A x \in Processes, k \in Keys :
         (Reading(x, k)' <=> Reading(x, k)) /\ (Answered(x, k)' <=> Answered(x, k))
  BY DEF KeysInv, Reading, Answered
<1>2. /\ request' = [x \in Processes |-> request'[x]]
      /\ \A x \in Processes : request'[x].at \in {"read", "answered"} => request'[x].key \in Keys
  BY DEF KeysInv
<1>3. ASSUME NEW k \in Keys \ excused' PROVE KeyInv(k)'
  <2>1. KeyInv(k) /\ \A x \in Processes : Holds(x, k)' <=> Holds(x, k)
    BY <1>1, <1>3 DEF KeysInv, Holds, Reading, Answered
  <2> QED BY <1>1, <2>1 DEF KeyInv
<1> QED BY <1>2, <1>3 DEF KeysInv, form

\* What is read when a form is posted.
LEMMA PostIs ==
    ASSUME NEW x \in Processes, NEW k \in Keys, Post(x, k)
    PROVE  /\ UNCHANGED <<form, runs, cache, leads, brokers>>
           /\ \/ UNCHANGED <<request, excused, loose, raced>>
              \/ \E r :
                   /\ request[x].at = "free" /\ k \notin cache
                   /\ request' = [request EXCEPT ![x] = r]
                   /\ r.at = "read" /\ r.key = k
                   /\ r.found = Found(Phone(posted[k]))
                   /\ r.found # NULL => r.row = leads[r.found]
                   /\ BrokerFor(posted[k]) # NULL =>
                         r.count = brokers[BrokerFor(posted[k])].count
                   /\ excused' = IF Busy(k) THEN excused \cup {k} ELSE excused
                   /\ loose \subseteq loose' /\ raced \subseteq raced'
                   /\ \A y \in Processes : request[y].at = "read" =>
                        /\ Phone(FormOf(y)) = Phone(posted[k]) => Phone(posted[k]) \in loose'
                        /\ BrokerFor(FormOf(y)) = BrokerFor(posted[k])
                             /\ BrokerFor(posted[k]) # NULL
                           => BrokerFor(posted[k]) \in raced'
<1> DEFINE f == posted[k]
           found == Found(Phone(f))
           r == [Free EXCEPT !.at = "read", !.key = k, !.found = found,
                    !.row = IF found = NULL THEN NULL ELSE leads[found],
                    !.count = IF BrokerFor(f) = NULL THEN 0 ELSE brokers[BrokerFor(f)].count,
                    !.full = pointer.full, !.team = pointer.team]
<1>1. UNCHANGED <<form, runs, cache, leads, brokers>>
  BY DEF Post
<1>2. CASE UNCHANGED <<request, excused, loose, raced>>
  BY <1>1, <1>2
<1>3. CASE ~UNCHANGED <<request, excused, loose, raced>>
  <2>1. /\ request[x].at = "free" /\ k \notin cache
        /\ request' = [request EXCEPT ![x] = r]
        /\ excused' = IF Busy(k) THEN excused \cup {k} ELSE excused
        /\ loose' = loose \cup {Phone(f) : y \in
             {y \in {y \in Processes : request[y].at = "read"} : Phone(FormOf(y)) = Phone(f)}}
        /\ raced' = raced \cup ({BrokerFor(FormOf(y)) : y \in
             {y \in Processes : request[y].at = "read"}} \cap ({BrokerFor(f)} \ {NULL}))
    BY <1>3 DEF Post, At, Replays
  <2>2. /\ r.at = "read" /\ r.key = k /\ r.found = found
        /\ r.row = IF found = NULL THEN NULL ELSE leads[found]
        /\ r.count = IF BrokerFor(f) = NULL THEN 0 ELSE brokers[BrokerFor(f)].count
    BY DEF Free
  <2> HIDE DEF r
  <2>3. \A y \in Processes : request[y].at = "read" =>
           /\ Phone(FormOf(y)) = Phone(f) => Phone(f) \in loose'
           /\ BrokerFor(FormOf(y)) = BrokerFor(f) /\ BrokerFor(f) # NULL
              => BrokerFor(f) \in raced'
    BY <2>1
  <2>4. loose \subseteq loose' /\ raced \subseteq raced'
    BY <2>1
  <2> QED BY <1>1, <2>1, <2>2, <2>3, <2>4
<1> QED BY <1>2, <1>3

LEMMA KeysPost ==
    ASSUME KeysInv, NEW x \in Processes, NEW k \in Keys, Post(x, k)
    PROVE  KeysInv'
<1>1. CASE UNCHANGED <<request, excused>>
  BY <1>1, PostIs, KeysStay
<1>2. ASSUME NEW r, request[x].at = "free", k \notin cache,
             request' = [request EXCEPT ![x] = r], r.at = "read", r.key = k,
             excused' = IF Busy(k) THEN excused \cup {k} ELSE excused
      PROVE  KeysInv'
  <2>1. \A y \in Processes : request'[y] = IF y = x THEN r ELSE request[y]
    BY <1>2 DEF KeysInv
  <2>2. /\ request' = [y \in Processes |-> request'[y]]
        /\ \A y \in Processes : request'[y].at \in {"read", "answered"} => request'[y].key \in Keys
    BY <1>2, <2>1 DEF KeysInv
  <2>3. UNCHANGED <<form, runs, cache>>
    BY PostIs
  <2>4. ASSUME NEW q \in Keys \ excused' PROVE KeyInv(q)'
    <3>1. KeyInv(q)
      BY <1>2, <2>4 DEF KeysInv
    <3>2. \A y \in Processes :
            /\ Answered(y, q)' <=> Answered(y, q)
            /\ Reading(y, q)' <=> (Reading(y, q) \/ (y = x /\ q = k))
            /\ Holds(y, q)' <=> (Holds(y, q) \/ (y = x /\ q = k))
      BY <1>2, <2>1 DEF Answered, Reading, Holds
    <3>3. CASE q # k
      BY <2>3, <3>1, <3>2, <3>3 DEF KeyInv
    <3>4. CASE q = k
      <4>1. \A y \in Processes : ~Holds(y, q) /\ ~Answered(y, q)
        BY <1>2, <2>4, <3>4 DEF Busy, Holds, Answered
      <4>2. runs[q] = 0
        BY <1>2, <3>1, <3>4, <4>1 DEF KeyInv, KeysInv
      <4> QED BY <2>3, <3>2, <4>1, <4>2 DEF KeyInv
    <3> QED BY <3>3, <3>4
  <2> QED BY <2>2, <2>3, <2>4 DEF KeysInv, form
<1> QED BY <1>1, <1>2, PostIs

\* A request ends, with or without its answer in the cache, or goes on to its answer.
LEMMA KeysEnd ==
    ASSUME KeysInv, NEW x \in Processes, NEW r, UNCHANGED <<form, runs>>,
           request' = [request EXCEPT ![x] = r], cache \subseteq cache',
           \/ r.at = "free"
           \/ Reading(x, request[x].key) /\ r.at = "answered" /\ r.key = request[x].key,
           \/ excused' = excused /\ request[x].at \notin {"answered"}
           \/ excused' = excused /\ request[x].key \in cache'
           \/ excused' = excused \cup {request[x].key}
    PROVE  KeysInv'
<1>1. \A y \in Processes : request'[y] = IF y = x THEN r ELSE request[y]
  BY DEF KeysInv
<1>2. /\ request' = [y \in Processes |-> request'[y]]
      /\ \A y \in Processes : request'[y].at \in {"read", "answered"} => request'[y].key \in Keys
  BY <1>1 DEF KeysInv, Reading
<1>3. ASSUME NEW q \in Keys \ excused' PROVE KeyInv(q)'
  <2>1. KeyInv(q)
    BY <1>3 DEF KeysInv
  <2>2. \A y \in Processes :
          /\ Reading(y, q)' => Reading(y, q)
          /\ Holds(y, q)' => Holds(y, q)
          /\ y # x => (Answered(y, q)' <=> Answered(y, q))
    BY <1>1 DEF Reading, Holds, Answered
  <2>3. Answered(x, q) => q \in cache'
    BY <1>3 DEF Answered
  <2> QED BY <2>1, <2>2, <2>3 DEF KeyInv
<1> QED BY <1>2, <1>3 DEF KeysInv, form

LEMMA KeysSubmit ==
    ASSUME KeysInv, NEW x \in Processes, Submit(x)
    PROVE  KeysInv'
<1> DEFINE k == request[x].key
           r == [Free EXCEPT !.at = "answered", !.key = k]
<1>1. r.at = "answered" /\ r.key = k
  BY DEF Free
<1>2. /\ Reading(x, k) /\ k \in Keys
      /\ request' = [request EXCEPT ![x] = r] /\ runs' = [runs EXCEPT ![k] = @ + 1]
      /\ UNCHANGED <<form, excused, cache>>
  BY DEF Submit, At, Reading, KeysInv
<1> HIDE DEF r
<1>3. \A y \in Processes : request'[y] = IF y = x THEN r ELSE request[y]
  BY <1>2 DEF KeysInv
<1>4. /\ request' = [y \in Processes |-> request'[y]]
      /\ \A y \in Processes : request'[y].at \in {"read", "answered"} => request'[y].key \in Keys
      /\ runs' \in [Keys -> Nat]
  BY <1>1, <1>2, <1>3 DEF KeysInv
<1>5. ASSUME NEW q \in Keys \ excused' PROVE KeyInv(q)'
  <2>1. KeyInv(q)
    BY <1>2, <1>5 DEF KeysInv
  <2>2. \A y \in Processes :
          /\ Reading(y, q)' <=> (y # x /\ Reading(y, q))
          /\ Answered(y, q)' <=> (Answered(y, q) \/ (y = x /\ q = k))
          /\ Holds(y, q)' <=> Holds(y, q)
    BY <1>1, <1>2, <1>3 DEF Reading, Answered, Holds
  <2>3. CASE q # k
    <3>1. runs'[q] = runs[q]
      BY <1>2, <2>3 DEF KeysInv
    <3> QED BY <1>2, <2>1, <2>2, <2>3, <3>1 DEF KeyInv
  <2>4. CASE q = k
    <3>1. runs[q] = 0 /\ runs'[q] = 1
      BY <1>2, <2>1, <2>4 DEF KeysInv, KeyInv
    <3>2. \A y \in Processes : Holds(y, q) => y = x
      BY <1>2, <2>1, <2>4 DEF KeyInv, Holds, Reading
    <3>3. \A y \in Processes : ~Reading(y, q)'
      BY <2>2, <3>2 DEF Holds, Reading
    <3>4. Answered(x, q)'
      BY <2>2, <2>4
    <3> QED BY <2>1, <2>2, <3>1, <3>3, <3>4 DEF KeyInv
  <2> QED BY <2>3, <2>4
<1> QED BY <1>2, <1>4, <1>5 DEF KeysInv, form

LEMMA KeysStep ==
    ASSUME KeysInv, Next
    PROVE  KeysInv'
<1>1. ASSUME NEW x \in Processes, NEW k \in Keys, Post(x, k) PROVE KeysInv'
  BY <1>1, KeysPost
<1>2. ASSUME NEW x \in Processes, Submit(x) PROVE KeysInv'
  BY <1>2, KeysSubmit
<1>3. ASSUME NEW x \in Processes, Skip(x) PROVE KeysInv'
  <2> DEFINE r == [Free EXCEPT !.at = "answered", !.key = request[x].key]
  <2>1. r.at = "answered" /\ r.key = request[x].key
    BY DEF Free
  <2>2. /\ request' = [request EXCEPT ![x] = r] /\ UNCHANGED <<form, runs, excused, cache>>
        /\ Reading(x, request[x].key)
    BY <1>3 DEF Skip, keys, Reading, At
  <2> HIDE DEF r
  <2> QED BY <2>1, <2>2, KeysEnd DEF Reading
<1>4. ASSUME NEW x \in Processes, Store(x) \/ Drop(x) PROVE KeysInv'
  <2>1. /\ request' = [request EXCEPT ![x] = Free] /\ Free.at = "free"
        /\ UNCHANGED <<form, runs>> /\ cache \subseteq cache'
        /\ \/ excused' = excused /\ request[x].at # "answered"
           \/ excused' = excused /\ request[x].key \in cache'
           \/ excused' = excused \cup {request[x].key}
    BY <1>4 DEF Store, Drop, Done, Free, At
  <2> QED BY <2>1, KeysEnd
<1>5. ASSUME NEW x \in Processes,
             \/ ReadTurn(x) \/ WriteTurn(x)
             \/ \E u \in Users, i \in DOMAIN leads : OpenBoard(x, u, i)
             \/ \E s \in Users : AssignFromBoard(x, s)
      PROVE  KeysInv'
  <2>1. UNCHANGED <<form, runs, excused, cache>>
    BY <1>5 DEF ReadTurn, WriteTurn, OpenBoard, AssignFromBoard, keys
  <2>2. ASSUME NEW r, request' = [request EXCEPT ![x] = r],
               request[x].at \notin {"read", "answered"}, r.at \notin {"read", "answered"}
        PROVE  KeysInv'
    BY <2>1, <2>2, KeysStay
  <2>3. CASE ReadTurn(x)
    <3> PICK r : r = [Free EXCEPT !.at = "turn", !.full = pointer.full, !.team = pointer.team]
      OBVIOUS
    <3>1. r.at = "turn" /\ request' = [request EXCEPT ![x] = r] /\ request[x].at = "free"
      BY <2>3 DEF ReadTurn, At, Free
    <3> QED BY <2>2, <3>1
  <2>4. CASE WriteTurn(x) \/ \E s \in Users : AssignFromBoard(x, s)
    <3>1. /\ request' = [request EXCEPT ![x] = Free] /\ Free.at = "free"
          /\ request[x].at \in {"turn", "board"}
      BY <2>4 DEF WriteTurn, AssignFromBoard, Done, Free, At
    <3> QED BY <2>2, <3>1
  <2>5. ASSUME NEW u \in Users, NEW i \in DOMAIN leads, OpenBoard(x, u, i) PROVE KeysInv'
    <3> PICK r : r = [Free EXCEPT !.at = "board", !.lead = i, !.user = u]
      OBVIOUS
    <3>1. r.at = "board" /\ request' = [request EXCEPT ![x] = r] /\ request[x].at = "free"
      BY <2>5 DEF OpenBoard, At, Free
    <3> QED BY <2>2, <3>1
  <2> QED BY <1>5, <2>3, <2>4, <2>5
<1>6. ASSUME NEW k \in Keys, Expire(k) PROVE KeysInv'
  <2>1. /\ cache' = cache \ {k} /\ excused' = excused \cup {k}
        /\ UNCHANGED <<form, runs, request>>
    BY <1>6 DEF Expire
  <2>2. ASSUME NEW q \in Keys \ excused' PROVE KeyInv(q)'
    <3>1. KeyInv(q) /\ (q \in cache' <=> q \in cache)
      BY <2>1, <2>2 DEF KeysInv
    <3> QED BY <2>1, <3>1 DEF KeyInv, Holds, Reading, Answered
  <2>3. /\ request' = [y \in Processes |-> request'[y]]
        /\ \A y \in Processes : request'[y].at \in {"read", "answered"} => request'[y].key \in Keys
    BY <2>1 DEF KeysInv
  <2> QED BY <2>1, <2>2, <2>3 DEF KeysInv, form
<1>7. ASSUME \/ \E i \in DOMAIN leads : \/ Deactivate(i) \/ Reactivate(i)
                                        \/ \E s \in Users : Reassign(i, s)
                                        \/ \E p \in Phones : EditPhone(i, p)
             \/ \E p \in Phones : ReactivateAll(p)
      PROVE  KeysInv'
  <2>1. UNCHANGED <<form, runs, excused, cache, request>>
    BY <1>7 DEF Deactivate, Reactivate, Reassign, EditPhone, Edit, ReactivateAll, keys
  <2> QED BY <2>1, KeysStay
<1> QED BY <1>1, <1>2, <1>3, <1>4, <1>5, <1>6, <1>7 DEF Next

LEMMA KeysInit == ASSUME Init PROVE KeysInv
<1>1. /\ request = [x \in Processes |-> request[x]]
      /\ \A x \in Processes : request[x].at = "free"
  BY DEF Init, Free
<1>2. runs \in [Keys -> Nat] /\ \A k \in Keys : runs[k] = 0
  BY DEF Init
<1> QED BY <1>1, <1>2 DEF Init, KeysInv, KeyInv, Holds, Reading

LEMMA KeysCorrect == Spec => []KeysInv
<1>1. KeysInv /\ UNCHANGED vars => KeysInv'
  BY KeysStay DEF vars, form, keys
<1> QED BY <1>1, KeysInit, KeysStep, PTL DEF Spec

\* A form is executed once, for any forms, keys, processes and posts, unless two
\* of its posts overlapped, its process died before its answer was cached, or the
\* answer expired.
THEOREM ExecutedOnce == Spec => []RunOnce
<1>1. KeysInv => RunOnce
  BY DEF KeysInv, KeyInv, RunOnce
<1> QED BY <1>1, KeysCorrect, PTL

-----------------------------------------------------------------------------
(***************************************************************************)
(* What steps leave of the requests that have read and not yet written.    *)
(***************************************************************************)

\* The steps other than posting a form and submitting it: nothing is read, and
\* neither brokers nor what was raced for change but by an edit of a phone.
Others ==
    \/ \E x \in Processes : \/ Skip(x) \/ Store(x) \/ Drop(x)
                            \/ ReadTurn(x) \/ WriteTurn(x)
                            \/ \E u \in Users, i \in DOMAIN leads : OpenBoard(x, u, i)
                            \/ \E s \in Users : AssignFromBoard(x, s)
    \/ \E k \in Keys : Expire(k)
    \/ \E i \in DOMAIN leads : \/ Deactivate(i) \/ Reactivate(i)
                               \/ \E s \in Users : Reassign(i, s)
                               \/ \E p \in Phones : EditPhone(i, p)
    \/ \E p \in Phones : ReactivateAll(p)

LEMMA NextIs ==
    ASSUME Next
    PROVE  \/ \E x \in Processes : (\E k \in Keys : Post(x, k)) \/ Submit(x)
           \/ Others
BY DEF Next, Others

StillReading == \A x \in Processes : request'[x].at = "read" => request'[x] = request[x]

LEMMA OthersRead ==
    ASSUME KeysInv, Others
    PROVE  StillReading /\ UNCHANGED <<form, brokers, raced>> /\ loose \subseteq loose'
<1>1. ASSUME NEW x \in Processes, NEW r, request' = [request EXCEPT ![x] = r], r.at # "read"
      PROVE  StillReading
  BY <1>1 DEF KeysInv, StillReading
<1>2. ASSUME NEW x \in Processes,
             Skip(x) \/ Store(x) \/ Drop(x) \/ WriteTurn(x) \/ \E s \in Users : AssignFromBoard(x, s)
      PROVE  StillReading
  <2> PICK r : r = [Free EXCEPT !.at = "answered", !.key = request[x].key]
    OBVIOUS
  <2>1. r.at = "answered" /\ Free.at = "free"
    BY DEF Free
  <2>2. request' = [request EXCEPT ![x] = r] \/ request' = [request EXCEPT ![x] = Free]
    BY <1>2 DEF Skip, Store, Drop, WriteTurn, AssignFromBoard, Done
  <2> QED BY <1>1, <2>1, <2>2
<1>3. ASSUME NEW x \in Processes, ReadTurn(x) PROVE StillReading
  <2> PICK r : r = [Free EXCEPT !.at = "turn", !.full = pointer.full, !.team = pointer.team]
    OBVIOUS
  <2> r.at = "turn" /\ request' = [request EXCEPT ![x] = r]
    BY <1>3 DEF ReadTurn, Free
  <2> QED BY <1>1
<1>4. ASSUME NEW x \in Processes, NEW u \in Users, NEW i \in DOMAIN leads, OpenBoard(x, u, i)
      PROVE  StillReading
  <2> PICK r : r = [Free EXCEPT !.at = "board", !.lead = i, !.user = u]
    OBVIOUS
  <2> r.at = "board" /\ request' = [request EXCEPT ![x] = r]
    BY <1>4 DEF OpenBoard, Free
  <2> QED BY <1>1
<1>5. ASSUME UNCHANGED request PROVE StillReading
  BY <1>5 DEF StillReading
<1>6. StillReading
  BY <1>2, <1>3, <1>4, <1>5 DEF Others, Expire, Deactivate, Reactivate, Reassign, EditPhone, Edit,
       ReactivateAll
<1>7. UNCHANGED <<form, brokers, raced>> /\ loose \subseteq loose'
  BY DEF Others, Skip, Store, Drop, ReadTurn, WriteTurn, OpenBoard, AssignFromBoard, Expire,
         Deactivate, Reactivate, Reassign, EditPhone, Edit, ReactivateAll
<1> QED BY <1>6, <1>7

LEMMA SubmitReads ==
    ASSUME KeysInv, NEW x \in Processes, Submit(x)
    PROVE  /\ StillReading /\ request'[x].at = "answered" /\ request[x].at = "read"
           /\ UNCHANGED <<form, loose, raced>>
<1> PICK r : r = [Free EXCEPT !.at = "answered", !.key = request[x].key]
  OBVIOUS
<1>1. r.at = "answered" /\ request' = [request EXCEPT ![x] = r]
  BY DEF Submit, Free
<1>2. request[x].at = "read" /\ UNCHANGED <<form, loose, raced>>
  BY DEF Submit, At
<1> QED BY <1>1, <1>2 DEF KeysInv, StillReading

-----------------------------------------------------------------------------
(***************************************************************************)
(* A broker's count.                                                       *)
(***************************************************************************)

LEMMA BrokerTyped ==
    ASSUME NEW f \in Forms
    PROVE  BrokerFor(f) \in Brokers \cup {NULL}
BY Office DEF BrokerFor, Form

LEMMA ReaderForm ==
    ASSUME KeysInv, NEW x \in Processes, request[x].at = "read"
    PROVE  FormOf(x) \in Forms /\ request[x].key \in Keys /\ BrokerFor(FormOf(x)) \in Brokers \cup {NULL}
BY BrokerTyped DEF KeysInv, FormOf

\* What a submission of a broker has read is what it will add to.
BrokersInv ==
    /\ brokers \in [Brokers -> [count : Nat, owned : Nat]]
    /\ \A x \in Processes, b \in Brokers :
          request[x].at = "read" /\ BrokerFor(FormOf(x)) = b =>
             /\ request[x].count \in Nat /\ request[x].count <= brokers[b].owned
             /\ b \notin raced =>
                   /\ request[x].count = brokers[b].count
                   /\ \A y \in Processes :
                         request[y].at = "read" /\ BrokerFor(FormOf(y)) = b => y = x
    /\ BrokerCountsItsLeads

\* Readers with the broker of their form stay as they are.
LEMMA FormsStay ==
    ASSUME KeysInv, UNCHANGED form, StillReading
    PROVE  \A x \in Processes : request'[x].at = "read" =>
              /\ request[x].at = "read" /\ request'[x] = request[x]
              /\ FormOf(x)' = FormOf(x) /\ BrokerFor(FormOf(x))' = BrokerFor(FormOf(x))
              /\ Phone(FormOf(x))' = Phone(FormOf(x))
BY DEF StillReading, FormOf, form, BrokerFor, Phone

LEMMA BrokersStay ==
    ASSUME KeysInv, BrokersInv, UNCHANGED <<form, brokers>>, StillReading, raced \subseteq raced'
    PROVE  BrokersInv'
<1>1. \A x \in Processes, b \in Brokers :
          request'[x].at = "read" /\ BrokerFor(FormOf(x))' = b =>
             request[x].at = "read" /\ BrokerFor(FormOf(x)) = b /\ request'[x] = request[x]
  BY FormsStay
<1>2. BrokerCountsItsLeads'
  BY DEF BrokersInv, BrokerCountsItsLeads
<1> QED BY <1>1, <1>2 DEF BrokersInv

LEMMA BrokersPost ==
    ASSUME KeysInv, BrokersInv, NEW x \in Processes, NEW k \in Keys, Post(x, k)
    PROVE  BrokersInv'
<1>1. CASE UNCHANGED <<request, raced>>
  BY <1>1, PostIs, BrokersStay DEF StillReading
<1>2. CASE ~UNCHANGED <<request, raced>>
  <2> PICK r :
        /\ UNCHANGED <<form, brokers>>
        /\ request' = [request EXCEPT ![x] = r] /\ request[x].at = "free"
        /\ r.at = "read" /\ r.key = k
        /\ BrokerFor(posted[k]) # NULL => r.count = brokers[BrokerFor(posted[k])].count
        /\ raced \subseteq raced'
        /\ \A y \in Processes : request[y].at = "read" =>
             (BrokerFor(FormOf(y)) = BrokerFor(posted[k]) /\ BrokerFor(posted[k]) # NULL
              => BrokerFor(posted[k]) \in raced')
    BY <1>2, PostIs
  <2>1. \A y \in Processes : request'[y] = IF y = x THEN r ELSE request[y]
    BY DEF KeysInv
  <2>2. /\ BrokerFor(FormOf(x))' = BrokerFor(posted[k])
        /\ \A y \in Processes : y # x => BrokerFor(FormOf(y))' = BrokerFor(FormOf(y))
    BY <2>1 DEF FormOf, form, BrokerFor
  <2>3. NULL \notin Brokers
    BY Office
  <2>4. BrokerCountsItsLeads'
    BY DEF BrokersInv, BrokerCountsItsLeads
  <2> SUFFICES ASSUME NEW y \in Processes, NEW b \in Brokers,
                      request'[y].at = "read", BrokerFor(FormOf(y))' = b
               PROVE  /\ request'[y].count \in Nat /\ request'[y].count <= brokers[b].owned
                      /\ b \notin raced' =>
                            /\ request'[y].count = brokers[b].count
                            /\ \A z \in Processes :
                                  request'[z].at = "read" /\ BrokerFor(FormOf(z))' = b => z = y
    BY <2>4 DEF BrokersInv
  <2>5. CASE y = x
    <3>1. /\ BrokerFor(posted[k]) = b /\ request'[y].count = brokers[b].count
          /\ brokers[b].count <= brokers[b].owned /\ brokers[b].count \in Nat
      BY <2>1, <2>2, <2>3, <2>5 DEF BrokersInv, BrokerCountsItsLeads
    <3>2. ASSUME NEW z \in Processes, request'[z].at = "read", BrokerFor(FormOf(z))' = b, z # y
          PROVE  b \in raced'
      BY <2>1, <2>2, <2>3, <2>5, <3>1, <3>2
    <3> QED BY <3>1, <3>2
  <2>6. CASE y # x
    <3>1. request[y].at = "read" /\ BrokerFor(FormOf(y)) = b /\ request'[y] = request[y]
      BY <2>1, <2>2, <2>6
    <3>2. BrokerFor(posted[k]) = b => b \in raced'
      BY <2>3, <3>1
    <3>3. ASSUME b \notin raced', NEW z \in Processes,
                 request'[z].at = "read", BrokerFor(FormOf(z))' = b
          PROVE  z = y
      <4>1. z # x
        BY <2>2, <3>2, <3>3
      <4> QED BY <2>1, <2>2, <3>1, <3>3, <4>1 DEF BrokersInv
    <3> QED BY <3>1, <3>3 DEF BrokersInv
  <2> QED BY <2>5, <2>6
<1> QED BY <1>1, <1>2

LEMMA BrokersSubmit ==
    ASSUME KeysInv, BrokersInv, NEW x \in Processes, Submit(x)
    PROVE  BrokersInv'
<1>0. /\ StillReading /\ request'[x].at = "answered" /\ request[x].at = "read"
      /\ UNCHANGED <<form, raced>>
  BY SubmitReads
<1>1. CASE Counted(x) = NULL
  <2> brokers' = brokers
    BY <1>1 DEF Submit
  <2> QED BY <1>0, BrokersStay
<1>2. CASE Counted(x) # NULL
  <2>1. PICK b \in Brokers :
          /\ b = BrokerFor(FormOf(x)) /\ b = Counted(x) /\ request[x].found = NULL
    BY <1>0, <1>2, ReaderForm DEF Counted
  <2>9. /\ request[x].count \in Nat /\ request[x].count <= brokers[b].owned
        /\ brokers[b].count \in Nat /\ brokers[b].owned \in Nat
        /\ b \notin raced => request[x].count = brokers[b].count
    BY <1>0, <2>1 DEF BrokersInv
  <2> PICK m \in Nat : m = request[x].count + 1
    BY <2>9
  <2>2. brokers' = [brokers EXCEPT ![b].count = m, ![b].owned = @ + 1]
    BY <1>2, <2>1 DEF Submit
  <2>3. /\ brokers' \in [Brokers -> [count : Nat, owned : Nat]]
        /\ brokers'[b].count = m /\ brokers'[b].owned = brokers[b].owned + 1
        /\ \A a \in Brokers : a # b => brokers'[a] = brokers[a]
    BY <2>2 DEF BrokersInv
  <2>4. \A a \in Brokers : brokers[a].owned \in Nat /\ brokers[a].owned <= brokers'[a].owned
    BY <2>3 DEF BrokersInv
  <2>5. \A y \in Processes, a \in Brokers :
          request'[y].at = "read" /\ BrokerFor(FormOf(y))' = a =>
             /\ request[y].at = "read" /\ BrokerFor(FormOf(y)) = a /\ request'[y] = request[y]
             /\ y # x
    BY <1>0, FormsStay
  <2>6. BrokerCountsItsLeads'
    <3>1. m <= brokers[b].owned + 1
      BY <2>9
    <3>2. b \notin raced => m = brokers[b].owned + 1
      BY <2>9 DEF BrokersInv, BrokerCountsItsLeads
    <3>3. ASSUME NEW a \in Brokers
          PROVE  /\ brokers'[a].count <= brokers'[a].owned
                 /\ a \notin raced' => brokers'[a].count = brokers'[a].owned
      BY <1>0, <2>3, <3>1, <3>2 DEF BrokersInv, BrokerCountsItsLeads
    <3> QED BY <3>3 DEF BrokerCountsItsLeads
  <2> SUFFICES ASSUME NEW y \in Processes, NEW a \in Brokers,
                      request'[y].at = "read", BrokerFor(FormOf(y))' = a
               PROVE  /\ request'[y].count \in Nat /\ request'[y].count <= brokers'[a].owned
                      /\ a \notin raced' =>
                            /\ request'[y].count = brokers'[a].count
                            /\ \A z \in Processes :
                                  request'[z].at = "read" /\ BrokerFor(FormOf(z))' = a => z = y
    BY <2>3, <2>6 DEF BrokersInv
  <2>7. /\ request[y].count \in Nat /\ request[y].count <= brokers[a].owned
        /\ a \notin raced => request[y].count = brokers[a].count
        /\ a \notin raced => \A z \in Processes :
              request[z].at = "read" /\ BrokerFor(FormOf(z)) = a => z = y
    BY <2>5 DEF BrokersInv
  <2>8. a \notin raced => a # b
    BY <1>0, <2>1, <2>5, <2>7
  <2> QED BY <1>0, <2>3, <2>4, <2>5, <2>7, <2>8
<1> QED BY <1>1, <1>2

LEMMA BrokersInit == ASSUME Init PROVE BrokersInv
<1>1. \A x \in Processes : request[x].at = "free"
  BY DEF Init, Free
<1>2. brokers = [b \in Brokers |-> [count |-> 0, owned |-> 0]]
  BY DEF Init
<1> QED BY <1>1, <1>2 DEF BrokersInv, BrokerCountsItsLeads

\* For any brokers, forms and processes, a broker's count is the number of leads
\* its history names unless two of its submissions overlapped, and never more.
THEOREM BrokersCount == Spec => []BrokerCountsItsLeads
<1>1. KeysInv /\ BrokersInv /\ UNCHANGED vars => BrokersInv'
  BY BrokersStay DEF vars, StillReading
<1>2. KeysInv /\ BrokersInv /\ Next => BrokersInv'
  BY NextIs, BrokersPost, BrokersSubmit, OthersRead, BrokersStay
<1>3. BrokersInv => BrokerCountsItsLeads
  BY DEF BrokersInv
<1> QED BY <1>1, <1>2, <1>3, BrokersInit, KeysCorrect, PTL DEF Spec

-----------------------------------------------------------------------------
(***************************************************************************)
(* The table of leads.                                                     *)
(***************************************************************************)

Row(l) == l = [phone |-> l.phone, active |-> l.active, salesman |-> l.salesman,
               team |-> l.team, broker |-> l.broker]
Table(s) == /\ Len(s) \in Nat /\ s = [i \in 1..Len(s) |-> s[i]]
            /\ \A i \in 1..Len(s) : Row(s[i])
\* The rows are written again, with the phones they had.
Phoned(s, t) == Table(t) /\ Len(t) = Len(s) /\ \A i \in 1..Len(s) : t[i].phone = s[i].phone

\* A row of which some fields are written.
Given(r, a, b) == [r EXCEPT !.salesman = a, !.team = b]
Flagged(r, a) == [r EXCEPT !.active = a]
Rephoned(r, a) == [r EXCEPT !.phone = a]
Credited(r, a) == [r EXCEPT !.broker = a]
LEMMA RowWritten ==
    ASSUME NEW r, Row(r), NEW a, NEW b
    PROVE  /\ Row(Given(r, a, b)) /\ Given(r, a, b).phone = r.phone
           /\ Row(Flagged(r, a)) /\ Flagged(r, a).phone = r.phone
           /\ Row(Rephoned(r, a)) /\ Rephoned(r, a).phone = a
           /\ Row(Credited(r, a)) /\ Credited(r, a).phone = r.phone
<1>1. PICK c, d, e, g, h :
        r = [phone |-> c, active |-> d, salesman |-> e, team |-> g, broker |-> h]
  BY DEF Row
<1>2. Given(r, a, b)
        = [phone |-> c, active |-> d, salesman |-> a, team |-> b, broker |-> h]
  <2> DEFINE R == [phone : {c}, active : {d}, salesman : {e, a}, team : {g, b}, broker : {h}]
             s == [r EXCEPT !.salesman = a, !.team = b]
  <2>1. r \in R
    BY <1>1
  <2>2. /\ s \in R /\ s.salesman = a /\ s.team = b
        /\ s.phone = c /\ s.active = d /\ s.broker = h
    BY <1>1, <2>1
  <2> HIDE DEF s
  <2>3. s = [phone |-> c, active |-> d, salesman |-> a, team |-> b, broker |-> h]
    BY <2>2
  <2> QED BY <2>3 DEF s, Given
<1>3. Flagged(r, a) = [phone |-> c, active |-> a, salesman |-> e, team |-> g, broker |-> h]
  BY <1>1 DEF Flagged
<1>4. Credited(r, a) = [phone |-> c, active |-> d, salesman |-> e, team |-> g, broker |-> a]
  BY <1>1 DEF Credited
<1>5. Rephoned(r, a) = [phone |-> a, active |-> d, salesman |-> e, team |-> g, broker |-> h]
  BY <1>1 DEF Rephoned
<1>6. r.phone = c
  BY <1>1
<1> QED BY <1>2, <1>3, <1>4, <1>5, <1>6 DEF Row

LEMMA TableEdited ==
    ASSUME NEW s, Table(s), NEW j \in 1..Len(s), NEW l, Row(l)
    PROVE  LET t == [s EXCEPT ![j] = l]
           IN  /\ Table(t) /\ Len(t) = Len(s)
               /\ \A i \in 1..Len(s) : t[i] = IF i = j THEN l ELSE s[i]
<1> DEFINE t == [s EXCEPT ![j] = l]
           R == {s[i] : i \in 1..Len(s)} \cup {l}
<1>1. s \in Seq(R)
  BY DEF Table
<1>2. t \in Seq(R) /\ Len(t) = Len(s) /\ \A i \in 1..Len(s) : t[i] = IF i = j THEN l ELSE s[i]
  BY <1>1
<1> QED BY <1>2 DEF Table

LEMMA TableAppended ==
    ASSUME NEW s, Table(s), NEW l, Row(l)
    PROVE  LET t == Append(s, l)
           IN  /\ Table(t) /\ Len(t) = Len(s) + 1 /\ t[Len(s) + 1] = l
               /\ \A i \in 1..Len(s) : t[i] = s[i]
<1> DEFINE t == Append(s, l)
           R == {s[i] : i \in 1..Len(s)} \cup {l}
<1>1. s \in Seq(R)
  BY DEF Table
<1>2. /\ t \in Seq(R) /\ Len(t) = Len(s) + 1 /\ t[Len(s) + 1] = l
      /\ \A i \in 1..Len(s) : t[i] = s[i]
  BY <1>1
<1> HIDE DEF t
<1>3. \A i \in 1..Len(t) : Row(t[i])
  BY <1>2 DEF Table
<1>4. t = [i \in 1..Len(t) |-> t[i]]
  BY <1>2
<1> QED BY <1>2, <1>3, <1>4 DEF Table, t

\* A row that is written with its phone.
LEMMA RowKept ==
    ASSUME NEW s, Table(s), NEW j, NEW l, j \in 1..Len(s) => Row(l) /\ l.phone = s[j].phone
    PROVE  Phoned(s, [s EXCEPT ![j] = l])
<1>1. CASE j \in 1..Len(s)
  BY <1>1, TableEdited DEF Phoned
<1>2. CASE j \notin 1..Len(s)
  <2>1. [s EXCEPT ![j] = l] = s
    BY <1>2 DEF Table
  <2> QED BY <2>1 DEF Phoned
<1> QED BY <1>1, <1>2

LEMMA MaxExists ==
    ASSUME NEW n \in Nat, NEW S, S \subseteq 1..n, S # {}
    PROVE  Last(S) \in S
<1> DEFINE T == {n - i : i \in S}
<1>1. T \subseteq Nat /\ T # {}
  <2>1. \A i \in S : n - i \in Nat
    OBVIOUS
  <2> QED BY <2>1
<1>2. PICK m \in T : \A k \in T : ~(<<k, m>> \in OpToRel(<, Nat))
  BY <1>1, WFMin, NatLessThanWellFounded
<1>3. \A k \in T : m <= k
  <2> SUFFICES ASSUME NEW k \in T PROVE ~(k < m)
    BY <1>1
  <2>1. k < m => <<k, m>> \in OpToRel(<, Nat)
    BY <1>1 DEF OpToRel
  <2> QED BY <1>2, <2>1
<1>4. PICK i \in S : m = n - i
  OBVIOUS
<1>5. \A j \in S : j <= i
  <2> SUFFICES ASSUME NEW j \in S PROVE j <= i
    OBVIOUS
  <2>1. m <= n - j
    BY <1>3
  <2> QED BY <1>4, <2>1
<1> QED BY <1>5 DEF Last

\* The newest lead of a phone, if there is one.
LEMMA FoundIs ==
    ASSUME Table(leads), NEW p
    PROVE  /\ Found(p) = NULL => \A i \in 1..Len(leads) : leads[i].phone # p
           /\ Found(p) # NULL => Found(p) \in 1..Len(leads) /\ leads[Found(p)].phone = p
<1> DEFINE S == {i \in DOMAIN leads : leads[i].phone = p}
<1>1. DOMAIN leads = 1..Len(leads) /\ Len(leads) \in Nat
  BY DEF Table
<1>2. S \subseteq 1..Len(leads)
  BY <1>1
<1>3. S # {} => Last(S) \in S
  BY <1>1, <1>2, MaxExists
<1>4. Found(p) = IF S = {} THEN NULL ELSE Last(S)
  BY DEF Found
<1>5. NULL \notin Nat
  BY Office
<1> HIDE DEF S
<1>6. ASSUME S # {} PROVE Found(p) \in S /\ Found(p) # NULL
  <2>1. PICK m \in S : Found(p) = m
    BY <1>3, <1>4, <1>6
  <2>2. m \in 1..Len(leads)
    BY <1>2
  <2>3. m \in Nat
    BY <1>1, <2>2
  <2> QED BY <1>5, <2>1, <2>3
<1>7. CASE S = {}
  BY <1>1, <1>4, <1>7 DEF S
<1>8. CASE S # {}
  BY <1>2, <1>6, <1>8 DEF S
<1> QED BY <1>7, <1>8

LEMMA HandedIs ==
    ASSUME NEW lead, Row(lead), NEW l \in Handed(lead)
    PROVE  Row(l) /\ l.phone = lead.phone
<1>1. l = lead \/ \E s : l = Given(lead, s, TeamOf(s))
  BY DEF Handed, Given
<1> QED BY <1>1, RowWritten

LEMMA NewLeadIs ==
    ASSUME NEW f, NEW o, NEW l \in NewLead(f, o)
    PROVE  Row(l) /\ l.phone = Phone(f)
<1> DEFINE lead == [phone |-> Phone(f), active |-> TRUE, salesman |-> o.salesman,
                    team |-> o.team, broker |-> BrokerFor(f)]
<1>1. Row(lead) /\ lead.phone = Phone(f)
  BY DEF Row
<1>2. l \in Handed(lead) \/ l = lead
  BY DEF NewLead
<1> HIDE DEF lead
<1> QED BY <1>1, <1>2, HandedIs

LEMMA MergedIs ==
    ASSUME NEW f, NEW row, Row(row), NEW l \in Merged(f, row)
    PROVE  Row(l) /\ l.phone = row.phone
<1> PICK b : b = IF BrokerFor(f) = NULL THEN row.broker ELSE BrokerFor(f)
  OBVIOUS
<1> PICK yes : yes = TRUE
  OBVIOUS
<1> PICK lead : lead = Credited(row, b)
  OBVIOUS
<1>1. Row(lead) /\ lead.phone = row.phone
  BY RowWritten
<1>2. l = Given(lead, NULL, NULL) \/ l \in Handed(Flagged(lead, yes))
  BY DEF Merged, Given, Flagged, Credited
<1>3. /\ Row(Given(lead, NULL, NULL)) /\ Given(lead, NULL, NULL).phone = row.phone
  BY ONLY <1>1, RowWritten
<1>4. /\ Row(Flagged(lead, yes)) /\ Flagged(lead, yes).phone = row.phone
  BY ONLY <1>1, RowWritten
<1> QED BY <1>2, <1>3, <1>4, HandedIs

\* What a submission makes of the table: one more row of the form's phone, or the
\* row that was found, with the phone it had when it was read.
Added(p, s, t) ==
    /\ Table(t) /\ Len(t) = Len(s) + 1 /\ t[Len(s) + 1].phone = p
    /\ \A i \in 1..Len(s) : t[i].phone = s[i].phone
Rewritten(j, p, s, t) ==
    /\ Table(t) /\ Len(t) = Len(s)
    /\ \A i \in 1..Len(s) : t[i].phone = IF i = j THEN p ELSE s[i].phone

LEMMA OutcomeIs ==
    ASSUME Table(leads), NEW x \in Processes, NEW o \in Outcomes(x),
           request[x].found # NULL => request[x].found \in 1..Len(leads) /\ Row(request[x].row)
    PROVE  /\ o.lead \in 1..Len(o.leads) /\ Table(o.leads)
           /\ request[x].found = NULL => Added(Phone(FormOf(x)), leads, o.leads)
           /\ request[x].found # NULL =>
                 Rewritten(request[x].found, request[x].row.phone, leads, o.leads)
<1> DEFINE f == FormOf(x)
<1>1. CASE request[x].found = NULL
  <2>0. PICK d \in Routed(f) : \E l \in NewLead(f, Kept(f, d)) :
            o = [lead |-> Len(leads) + 1, leads |-> Append(leads, l)]
    BY <1>1 DEF Outcomes
  <2>1. PICK l \in NewLead(f, Kept(f, d)) :
            o = [lead |-> Len(leads) + 1, leads |-> Append(leads, l)]
    BY <2>0
  <2>2. Row(l) /\ l.phone = Phone(f)
    BY NewLeadIs
  <2>3. /\ Table(o.leads) /\ Len(o.leads) = Len(leads) + 1 /\ o.leads[Len(leads) + 1] = l
        /\ \A i \in 1..Len(leads) : o.leads[i] = leads[i]
    BY <2>1, <2>2, TableAppended
  <2>4. o.lead = Len(leads) + 1 /\ o.lead \in 1..Len(o.leads)
    BY <2>1, <2>3 DEF Table
  <2> QED BY <1>1, <2>2, <2>3, <2>4 DEF Added
<1>2. CASE request[x].found # NULL
  <2>1. PICK l \in Merged(f, request[x].row) :
          o = [lead |-> request[x].found, leads |-> [leads EXCEPT ![request[x].found] = l]]
    BY <1>2 DEF Outcomes
  <2>2. Row(l) /\ l.phone = request[x].row.phone
    BY <1>2, MergedIs
  <2> PICK j \in 1..Len(leads) : j = request[x].found
    BY <1>2
  <2>3. /\ Table(o.leads) /\ Len(o.leads) = Len(leads) /\ o.lead = j
        /\ \A i \in 1..Len(leads) : o.leads[i] = IF i = j THEN l ELSE leads[i]
    <3> DEFINE t == [leads EXCEPT ![j] = l]
    <3>1. /\ Table(t) /\ Len(t) = Len(leads)
          /\ \A i \in 1..Len(leads) : t[i] = IF i = j THEN l ELSE leads[i]
      BY <2>2, TableEdited
    <3>2. o.leads = t /\ o.lead = j
      BY <2>1
    <3> HIDE DEF t
    <3> QED BY <3>1, <3>2
  <2> QED BY <1>2, <2>2, <2>3 DEF Rewritten
<1> QED BY <1>1, <1>2

\* A turn changes who the lead is for.
LEMMA TurnIs ==
    ASSUME NEW x \in Processes, NEW o, Table(o.leads), o.lead \in 1..Len(o.leads), TakeTurn(x, o)
    PROVE  Phoned(o.leads, leads')
<1> DEFINE row == o.leads[o.lead]
<1>1. Row(row)
  BY DEF Table
<1>2. Phoned(o.leads, o.leads)
  BY DEF Phoned
<1>3. ASSUME NEW l \in Handed(row), leads' = [o.leads EXCEPT ![o.lead] = l]
      PROVE  Phoned(o.leads, leads')
  BY <1>1, <1>3, HandedIs, RowKept
<1>4. ASSUME NEW t, leads' = [o.leads EXCEPT ![o.lead].salesman = NULL, ![o.lead].team = t]
      PROVE  Phoned(o.leads, leads')
  <2> DEFINE l == Given(row, NULL, t)
  <2>1. Row(l) /\ l.phone = row.phone
    BY <1>1, RowWritten
  <2>2. leads' = [o.leads EXCEPT ![o.lead] = l]
    BY <1>4 DEF Table, Given
  <2> HIDE DEF l
  <2> QED BY <2>1, <2>2, RowKept
<1> QED BY <1>2, <1>3, <1>4 DEF TakeTurn

LEMMA SubmitIs ==
    ASSUME Table(leads), NEW x \in Processes, Submit(x),
           request[x].found # NULL => request[x].found \in 1..Len(leads) /\ Row(request[x].row)
    PROVE  /\ request[x].found = NULL => Added(Phone(FormOf(x)), leads, leads')
           /\ request[x].found # NULL =>
                 Rewritten(request[x].found, request[x].row.phone, leads, leads')
<1>1. PICK o \in Outcomes(x) : leads' = o.leads \/ TakeTurn(x, o)
  BY DEF Submit
<1>2. Phoned(o.leads, leads')
  BY <1>1, OutcomeIs, TurnIs DEF Phoned
<1> QED BY <1>2, OutcomeIs DEF Phoned, Added, Rewritten

-----------------------------------------------------------------------------
(***************************************************************************)
(* One lead of a phone.                                                    *)
(***************************************************************************)

\* A submission has found the lead of its phone, or that there is none, and this
\* is so until it writes, but for the phones that were raced for.
PhonesInv ==
    /\ Table(leads)
    /\ \A x \in Processes : request[x].at = "read" =>
          LET p == Phone(FormOf(x)) IN
          /\ request[x].found # NULL =>
                /\ request[x].found \in 1..Len(leads)
                /\ Row(request[x].row) /\ request[x].row.phone = p
          /\ p \notin loose =>
                /\ \A i \in 1..Len(leads) : leads[i].phone = p => i = request[x].found
                /\ \A y \in Processes :
                      request[y].at = "read" /\ Phone(FormOf(y)) = p => y = x
    /\ OneLeadPerPhone

\* Leads keep their phones, or get one that is excepted.
LEMMA PhonesStay ==
    ASSUME KeysInv, PhonesInv, StillReading, UNCHANGED form, loose \subseteq loose',
           Table(leads'), Len(leads') = Len(leads),
           \A i \in 1..Len(leads) : leads'[i].phone \in {leads[i].phone} \cup loose'
    PROVE  PhonesInv'
<1>1. \A x \in Processes : request'[x].at = "read" =>
          /\ request[x].at = "read" /\ request'[x] = request[x]
          /\ Phone(FormOf(x))' = Phone(FormOf(x))
  BY FormsStay
<1>2. OneLeadPerPhone'
  BY DEF PhonesInv, OneLeadPerPhone, Table
<1> QED BY <1>1, <1>2 DEF PhonesInv

LEMMA OthersPhones ==
    ASSUME KeysInv, Table(leads), Others
    PROVE  /\ Table(leads') /\ Len(leads') = Len(leads)
           /\ \A i \in 1..Len(leads) : leads'[i].phone \in {leads[i].phone} \cup loose'
<1> DEFINE AsWas == /\ Table(leads') /\ Len(leads') = Len(leads)
                    /\ \A i \in 1..Len(leads) : leads'[i].phone \in {leads[i].phone} \cup loose'
<1>0. DOMAIN leads = 1..Len(leads) /\ \A i \in 1..Len(leads) : Row(leads[i])
  BY DEF Table
<1>1. Phoned(leads, leads') => AsWas
  BY DEF Phoned
<1>2. ASSUME NEW i \in 1..Len(leads), NEW l, Row(l), l.phone = leads[i].phone \/ l.phone \in loose',
             leads' = [leads EXCEPT ![i] = l]
      PROVE  AsWas
  <2> DEFINE t == [leads EXCEPT ![i] = l]
  <2>1. /\ Table(t) /\ Len(t) = Len(leads)
        /\ \A h \in 1..Len(leads) : t[h] = IF h = i THEN l ELSE leads[h]
    <3>1. Row(l)
      BY <1>2
    <3> QED BY <3>1, TableEdited
  <2>2. leads' = t
    BY <1>2
  <2> HIDE DEF t
  <2> QED BY <1>2, <2>1, <2>2
<1>3. ASSUME NEW x \in Processes, NEW s \in Users, AssignFromBoard(x, s)
      PROVE  AsWas
  <2> PICK j : j = request[x].lead
    OBVIOUS
  <2>1. PICK t : leads' = [leads EXCEPT ![j].salesman = s, ![j].team = t]
    BY <1>3 DEF AssignFromBoard
  <2> PICK l : l = Given(leads[j], s, t)
    OBVIOUS
  <2>2. leads' = [leads EXCEPT ![j] = l]
    BY <2>1 DEF Table, Given
  <2>3. j \in 1..Len(leads) => Row(l) /\ l.phone = leads[j].phone
    BY <1>0, RowWritten
  <2> QED BY <1>1, <2>2, <2>3, RowKept
<1>4. ASSUME NEW i \in DOMAIN leads, Deactivate(i) \/ Reactivate(i) PROVE AsWas
  <2>1. PICK a : leads' = [leads EXCEPT ![i] = Flagged(leads[i], a)]
    BY <1>4 DEF Deactivate, Reactivate, Edit, Flagged
  <2> PICK l : l = Flagged(leads[i], a)
    OBVIOUS
  <2>2. Row(l) /\ l.phone = leads[i].phone
    BY <1>0, <1>4, RowWritten
  <2> QED BY <1>0, <1>2, <2>1, <2>2
<1>5. ASSUME NEW i \in DOMAIN leads, NEW s \in Users, Reassign(i, s) PROVE AsWas
  <2> PICK t : t = IF IsMember(s) THEN TeamOf(s) ELSE leads[i].team
    OBVIOUS
  <2>1. leads' = [leads EXCEPT ![i] = Given(leads[i], s, t)]
    BY <1>5 DEF Reassign, Edit, Given
  <2> PICK l : l = Given(leads[i], s, t)
    OBVIOUS
  <2>2. Row(l) /\ l.phone = leads[i].phone
    BY <1>0, <1>5, RowWritten
  <2> QED BY <1>0, <1>2, <2>1, <2>2
<1>6. ASSUME NEW i \in DOMAIN leads, NEW p \in Phones, EditPhone(i, p) PROVE AsWas
  <2>1. leads' = [leads EXCEPT ![i] = Rephoned(leads[i], p)] /\ p \in loose'
    BY <1>6 DEF EditPhone, Edit, Rephoned
  <2>2. Row(Rephoned(leads[i], p)) /\ Rephoned(leads[i], p).phone = p
    BY <1>0, RowWritten
  <2> QED BY <1>0, <1>2, <2>1, <2>2
<1>7. ASSUME NEW p \in Phones, ReactivateAll(p) PROVE AsWas
  <2>1. PICK yes : yes = TRUE /\ leads' = [i \in 1..Len(leads) |->
            IF leads[i].phone # Digits[p] THEN leads[i]
            ELSE Given(Flagged(leads[i], yes), NULL, NULL)]
    BY <1>0, <1>7 DEF ReactivateAll, Given, Flagged
  <2>2. \A i \in 1..Len(leads) : Row(leads'[i]) /\ leads'[i].phone = leads[i].phone
    <3> SUFFICES ASSUME NEW i \in 1..Len(leads)
                 PROVE  Row(leads'[i]) /\ leads'[i].phone = leads[i].phone
      OBVIOUS
    <3> PICK r : r = Flagged(leads[i], yes)
      OBVIOUS
    <3>1. Row(r) /\ r.phone = leads[i].phone
      BY <1>0, RowWritten
    <3>2. Row(Given(r, NULL, NULL)) /\ Given(r, NULL, NULL).phone = leads[i].phone
      BY <3>1, RowWritten
    <3> QED BY <1>0, <2>1, <3>2
  <2> PICK n \in Nat : n = Len(leads)
    BY DEF Table
  <2>4. leads' = [i \in 1..n |-> leads'[i]]
    BY <2>1
  <2>5. leads' \in [1..n -> {leads'[i] : i \in 1..n}]
    BY <2>4
  <2>6. leads' \in Seq({leads'[i] : i \in 1..n}) /\ DOMAIN leads' = 1..n
    BY <2>5
  <2>3. Len(leads') = Len(leads) /\ leads' = [i \in 1..Len(leads) |-> leads'[i]]
    BY <2>4, <2>6
  <2> QED BY <1>1, <2>2, <2>3 DEF Phoned, Table
<1>8. ASSUME UNCHANGED leads PROVE AsWas
  BY <1>1, <1>8 DEF Phoned
<1> HIDE DEF AsWas
<1>9. AsWas
  BY <1>3, <1>4, <1>5, <1>6, <1>7, <1>8
     DEF Others, Skip, Store, Drop, ReadTurn, WriteTurn, OpenBoard, Expire
<1> QED BY <1>9 DEF AsWas

LEMMA PhonesPost ==
    ASSUME KeysInv, PhonesInv, NEW x \in Processes, NEW k \in Keys, Post(x, k)
    PROVE  PhonesInv'
<1>1. CASE UNCHANGED <<request, loose>>
  <2> StillReading /\ UNCHANGED <<form, leads>>
    BY <1>1, PostIs DEF StillReading
  <2> QED BY <1>1, PhonesStay DEF PhonesInv
<1>2. CASE ~UNCHANGED <<request, loose>>
  <2> DEFINE p == Phone(posted[k])
  <2> PICK r :
        /\ UNCHANGED <<form, leads>>
        /\ request' = [request EXCEPT ![x] = r] /\ request[x].at = "free"
        /\ r.at = "read" /\ r.key = k
        /\ r.found = Found(p) /\ (r.found # NULL => r.row = leads[r.found])
        /\ loose \subseteq loose'
        /\ \A y \in Processes : request[y].at = "read" => (Phone(FormOf(y)) = p => p \in loose')
    BY <1>2, PostIs
  <2> HIDE DEF p
  <2>1. \A y \in Processes : request'[y] = IF y = x THEN r ELSE request[y]
    BY DEF KeysInv
  <2>2. /\ Phone(FormOf(x))' = p
        /\ \A y \in Processes : y # x => Phone(FormOf(y))' = Phone(FormOf(y))
    BY <2>1 DEF FormOf, form, Phone, p
  <2>3. /\ Found(p) = NULL => \A i \in 1..Len(leads) : leads[i].phone # p
        /\ Found(p) # NULL => Found(p) \in 1..Len(leads) /\ leads[Found(p)].phone = p
    BY FoundIs DEF PhonesInv
  <2>4. OneLeadPerPhone' /\ Table(leads)'
    BY DEF PhonesInv, OneLeadPerPhone
  <2> SUFFICES ASSUME NEW y \in Processes, request'[y].at = "read", NEW q, q = Phone(FormOf(y))'
               PROVE  /\ request'[y].found # NULL =>
                            /\ request'[y].found \in 1..Len(leads)
                            /\ Row(request'[y].row) /\ request'[y].row.phone = q
                      /\ q \notin loose' =>
                            /\ \A i \in 1..Len(leads) :
                                  leads[i].phone = q => i = request'[y].found
                            /\ \A z \in Processes :
                                  request'[z].at = "read" /\ Phone(FormOf(z))' = q => z = y
    BY <2>4 DEF PhonesInv
  <2>5. CASE y = x
    <3>1. q = p /\ request'[y] = r
      BY <2>1, <2>2, <2>5
    <3>2. q \notin loose' => \A z \in Processes :
             request'[z].at = "read" /\ Phone(FormOf(z))' = q => z = y
      BY <2>1, <2>2, <2>5, <3>1
    <3>3. r.found # NULL => Row(r.row) /\ r.row.phone = p /\ r.found \in 1..Len(leads)
      BY <2>3 DEF PhonesInv, Table
    <3>4. ASSUME q \notin loose', NEW i \in 1..Len(leads), leads[i].phone = q PROVE i = r.found
      <4>1. Found(p) # NULL /\ leads[Found(p)].phone = p /\ Found(p) \in 1..Len(leads)
        BY <2>3, <3>1, <3>4
      <4>2. DOMAIN leads = 1..Len(leads)
        BY DEF PhonesInv, Table
      <4> QED BY <3>1, <3>4, <4>1, <4>2 DEF PhonesInv, OneLeadPerPhone
    <3> QED BY <3>1, <3>2, <3>3, <3>4
  <2>6. CASE y # x
    <3>1. request[y].at = "read" /\ q = Phone(FormOf(y)) /\ request'[y] = request[y]
      BY <2>1, <2>2, <2>6
    <3>2. /\ request[y].found # NULL =>
                /\ request[y].found \in 1..Len(leads)
                /\ Row(request[y].row) /\ request[y].row.phone = q
          /\ q \notin loose =>
                /\ \A i \in 1..Len(leads) : leads[i].phone = q => i = request[y].found
                /\ \A z \in Processes : request[z].at = "read" /\ Phone(FormOf(z)) = q => z = y
      BY <3>1 DEF PhonesInv
    <3>3. q \notin loose' => q # p
      BY <3>1
    <3> QED BY <2>1, <2>2, <3>1, <3>2, <3>3
  <2> QED BY <2>5, <2>6
<1> QED BY <1>1, <1>2

LEMMA PhonesSubmit ==
    ASSUME KeysInv, PhonesInv, NEW x \in Processes, Submit(x)
    PROVE  PhonesInv'
<1> PICK p, j : p = Phone(FormOf(x)) /\ j = request[x].found
  OBVIOUS
<1>0. /\ StillReading /\ request'[x].at = "answered" /\ request[x].at = "read"
      /\ UNCHANGED <<form, loose>> /\ Table(leads)
  BY SubmitReads DEF PhonesInv
<1>1. /\ j # NULL => j \in 1..Len(leads) /\ Row(request[x].row) /\ request[x].row.phone = p
      /\ p \notin loose =>
            /\ \A i \in 1..Len(leads) : leads[i].phone = p => i = j
            /\ \A y \in Processes : request[y].at = "read" /\ Phone(FormOf(y)) = p => y = x
  BY <1>0 DEF PhonesInv
<1>2. /\ j = NULL => Added(p, leads, leads')
      /\ j # NULL => Rewritten(j, p, leads, leads')
  BY <1>0, <1>1, SubmitIs
<1>3. /\ Table(leads') /\ Len(leads) \in Nat /\ Len(leads') \in Nat /\ Len(leads) <= Len(leads')
      /\ \A i \in 1..Len(leads') : i \notin 1..Len(leads) => leads'[i].phone = p /\ j = NULL
      /\ \A i \in 1..Len(leads) : leads'[i].phone = leads[i].phone \/ (leads'[i].phone = p /\ i = j)
      /\ \A i, k \in 1..Len(leads') : i \notin 1..Len(leads) /\ k \notin 1..Len(leads) => i = k
  <2>1. Table(leads') /\ Len(leads) \in Nat
    BY <1>0, <1>2 DEF Added, Rewritten, Table
  <2>2. CASE j = NULL
    BY <1>2, <2>1, <2>2 DEF Added
  <2>3. CASE j # NULL
    BY <1>2, <2>1, <2>3 DEF Rewritten
  <2> QED BY <2>2, <2>3
<1>4. NULL \notin Nat
  BY Office
<1>5. OneLeadPerPhone'
  <2> SUFFICES ASSUME NEW i \in 1..Len(leads'), NEW k \in 1..Len(leads'), i # k,
                      leads'[i].phone = leads'[k].phone, leads'[i].phone \notin loose
               PROVE  FALSE
    BY <1>0, <1>3 DEF OneLeadPerPhone, Table
  <2>1. CASE leads'[i].phone = p
    <3>1. \A h \in 1..Len(leads') : leads'[h].phone = p => h \notin 1..Len(leads) \/ h = j
      BY <1>1, <1>3, <2>1
    <3>2. \A h \in 1..Len(leads) : h # NULL
      BY <1>3, <1>4
    <3>3. CASE j = NULL
      <4>1. i \notin 1..Len(leads) /\ k \notin 1..Len(leads)
        BY <2>1, <3>1, <3>2, <3>3
      <4> QED BY <1>3, <4>1
    <3>4. CASE j # NULL
      <4>1. i = j /\ k = j
        BY <1>3, <2>1, <3>1, <3>4
      <4> QED BY <4>1
    <3> QED BY <3>3, <3>4
  <2>2. CASE leads'[i].phone # p
    <3>1. i \in 1..Len(leads) /\ k \in 1..Len(leads) /\ leads[i].phone = leads[k].phone
          /\ leads[i].phone \notin loose
      BY <1>3, <2>2
    <3> QED BY <1>0, <3>1 DEF PhonesInv, OneLeadPerPhone, Table
  <2> QED BY <2>1, <2>2
<1>6. \A y \in Processes : request'[y].at = "read" =>
          /\ request[y].at = "read" /\ request'[y] = request[y] /\ y # x
          /\ Phone(FormOf(y))' = Phone(FormOf(y))
  BY <1>0, FormsStay
<1> SUFFICES ASSUME NEW y \in Processes, request'[y].at = "read", NEW q, q = Phone(FormOf(y))'
             PROVE  /\ request'[y].found # NULL =>
                          /\ request'[y].found \in 1..Len(leads')
                          /\ Row(request'[y].row) /\ request'[y].row.phone = q
                    /\ q \notin loose' =>
                          /\ \A i \in 1..Len(leads') :
                                leads'[i].phone = q => i = request'[y].found
                          /\ \A z \in Processes :
                                request'[z].at = "read" /\ Phone(FormOf(z))' = q => z = y
  BY <1>3, <1>5 DEF PhonesInv
<1>7. /\ request[y].at = "read" /\ q = Phone(FormOf(y)) /\ request'[y] = request[y] /\ y # x
      /\ request[y].found # NULL =>
            /\ request[y].found \in 1..Len(leads)
            /\ Row(request[y].row) /\ request[y].row.phone = q
      /\ q \notin loose =>
            /\ \A i \in 1..Len(leads) : leads[i].phone = q => i = request[y].found
            /\ \A z \in Processes : request[z].at = "read" /\ Phone(FormOf(z)) = q => z = y
  BY <1>6 DEF PhonesInv
<1>8. q \notin loose => q # p
  BY <1>1, <1>7
<1> QED BY <1>0, <1>3, <1>6, <1>7, <1>8

LEMMA PhonesInit == ASSUME Init PROVE PhonesInv
<1>1. \A x \in Processes : request[x].at = "free"
  BY DEF Init, Free
<1>2. leads = << >>
  BY DEF Init
<1> QED BY <1>1, <1>2 DEF PhonesInv, OneLeadPerPhone, Table

LEMMA PhonesCorrect == Spec => []PhonesInv
<1>1. KeysInv /\ PhonesInv /\ UNCHANGED vars => PhonesInv'
  BY PhonesStay DEF vars, StillReading, PhonesInv
<1>2. KeysInv /\ PhonesInv /\ Others => PhonesInv'
  BY OthersPhones, OthersRead, PhonesStay DEF PhonesInv
<1>3. KeysInv /\ PhonesInv /\ Next => PhonesInv'
  BY <1>2, NextIs, PhonesPost, PhonesSubmit
<1> QED BY <1>1, <1>3, PhonesInit, KeysCorrect, PTL DEF Spec

\* For any forms, processes and phones, a phone has one lead unless two requests
\* of it overlapped or an edit gave it to a lead.
THEOREM PhonesHaveOneLead == Spec => []OneLeadPerPhone
<1>1. PhonesInv => OneLeadPerPhone
  BY DEF PhonesInv
<1> QED BY <1>1, PhonesCorrect, PTL

-----------------------------------------------------------------------------
(***************************************************************************)
(* What a broker's submission may do.                                      *)
(***************************************************************************)

\* Only submitting and skipping answer what was read.
LEMMA WhoAnswers ==
    ASSUME KeysInv, Next, NEW x \in Processes, Submitted(x)
    PROVE  Submit(x) \/ Skip(x)
<1>1. ASSUME NEW y \in Processes, NEW r, request' = [request EXCEPT ![y] = r],
             y # x \/ r.at # "answered"
      PROVE  FALSE
  BY <1>1 DEF KeysInv, Submitted, At
<1>2. ASSUME UNCHANGED request PROVE FALSE
  BY <1>2 DEF Submitted, At
<1>3. ASSUME NEW y \in Processes, NEW k \in Keys, Post(y, k) PROVE FALSE
  <2>1. UNCHANGED request \/ \E r : r.at = "read" /\ request' = [request EXCEPT ![y] = r]
    BY <1>3, PostIs
  <2> QED BY <1>1, <1>2, <2>1
<1>4. ASSUME NEW y \in Processes, Submit(y) \/ Skip(y), y # x PROVE FALSE
  <2> PICK r : r = [Free EXCEPT !.at = "answered", !.key = request[y].key]
    OBVIOUS
  <2>1. request' = [request EXCEPT ![y] = r]
    BY <1>4 DEF Submit, Skip
  <2> QED BY <1>1, <1>4, <2>1
<1>5. ASSUME NEW y \in Processes,
             Store(y) \/ Drop(y) \/ WriteTurn(y) \/ \E s \in Users : AssignFromBoard(y, s)
      PROVE  FALSE
  <2>1. request' = [request EXCEPT ![y] = Free] /\ Free.at = "free"
    BY <1>5 DEF Store, Drop, WriteTurn, AssignFromBoard, Done, Free
  <2> QED BY <1>1, <2>1
<1>6. ASSUME NEW y \in Processes, ReadTurn(y) PROVE FALSE
  <2> PICK r : r = [Free EXCEPT !.at = "turn", !.full = pointer.full, !.team = pointer.team]
    OBVIOUS
  <2>1. r.at = "turn" /\ request' = [request EXCEPT ![y] = r]
    BY <1>6 DEF ReadTurn, Free
  <2> QED BY <1>1, <2>1
<1>7. ASSUME NEW y \in Processes, NEW u \in Users, NEW i \in DOMAIN leads, OpenBoard(y, u, i)
      PROVE  FALSE
  <2> PICK r : r = [Free EXCEPT !.at = "board", !.lead = i, !.user = u]
    OBVIOUS
  <2>1. r.at = "board" /\ request' = [request EXCEPT ![y] = r]
    BY <1>7 DEF OpenBoard, Free
  <2> QED BY <1>1, <2>1
<1> QED BY <1>2, <1>3, <1>4, <1>5, <1>6, <1>7
        DEF Next, Expire, Deactivate, Reactivate, Reassign, EditPhone, Edit, ReactivateAll

\* The handler of a broker's form asks for nobody or for whom the form names.
LEMMA BrokerRoutes ==
    ASSUME NEW f, f.source = "BROKER", NEW o \in Routed(f)
    PROVE  o \in Nobody \cup To(f.pick) /\ Kept(f, o) = o
<1>1. Kept(f, o) = o
  BY DEF Kept
<1>2. f.door = "file" => o \in Nobody
  BY DEF Routed, File
<1>3. f.door # "file" => o \in BrokerLead(f)
  <2>1. f.door # "file" => o \in Page(f)
    BY DEF Routed
  <2>2. Page(f) = IF ~Can(f.actor, f.source) THEN {} ELSE BrokerLead(f)
    BY DEF Page
  <2> QED BY <2>1, <2>2
<1>4. BrokerLead(f) \subseteq Nobody \cup To(f.pick)
  BY DEF BrokerLead, Picked
<1> QED BY <1>1, <1>2, <1>3, <1>4

\* A broker's submission gives its lead to nobody but whom it names, unless the
\* lead was inactive: for any policies, permissions, teams and forms.
THEOREM BrokersLeaveItToTheBoard == Spec => BrokersDoNotDistribute
<1> DEFINE Fine(x, i) ==
             \/ leads'[i].salesman \in {NULL, FormOf(x).pick}
             \/ i \in DOMAIN leads /\ leads[i] = leads'[i]
             \/ request[x].found # NULL /\ ~request[x].row.active
<1>1. ASSUME KeysInv, PhonesInv, NEW x \in Processes, Submit(x), FormOf(x).source = "BROKER",
             NEW i \in DOMAIN leads'
      PROVE  Fine(x, i)
  <2> PICK f : f = FormOf(x)
    OBVIOUS
  <2>0. DOMAIN leads = 1..Len(leads) /\ Table(leads) /\ request[x].at = "read"
    BY <1>1 DEF PhonesInv, Table, Submit, At
  <2>1. PICK o \in Outcomes(x) : leads' = o.leads
    <3>1. f.source # "WALK_IN"
      BY <1>1
    <3> QED BY <1>1, <3>1 DEF Submit
  <2>2. CASE request[x].found = NULL
    <3>1. PICK d \in Routed(f) : \E l \in NewLead(f, Kept(f, d)) :
              o = [lead |-> Len(leads) + 1, leads |-> Append(leads, l)]
      BY <2>2 DEF Outcomes
    <3>2. PICK l \in NewLead(f, Kept(f, d)) :
              o = [lead |-> Len(leads) + 1, leads |-> Append(leads, l)]
      BY <3>1
    <3>3. l.salesman \in {NULL, f.pick} /\ Row(l)
      <4>1. /\ Kept(f, d) = d
            /\ \/ d = [salesman |-> NULL, team |-> NULL, auto |-> FALSE]
               \/ d = [salesman |-> f.pick, team |-> NULL, auto |-> FALSE]
        BY <1>1, BrokerRoutes DEF Nobody, To
      <4>2. ~d.auto /\ d.salesman \in {NULL, f.pick}
        BY <4>1
      <4>3. l = [phone |-> Phone(f), active |-> TRUE, salesman |-> d.salesman,
                 team |-> d.team, broker |-> BrokerFor(f)]
        BY <4>1, <4>2 DEF NewLead
      <4> QED BY <4>2, <4>3, NewLeadIs
    <3>4. leads' = Append(leads, l)
      BY <2>1, <3>2
    <3>5. /\ Table(leads') /\ Len(leads') = Len(leads) + 1 /\ leads'[Len(leads) + 1] = l
          /\ \A j \in 1..Len(leads) : leads'[j] = leads[j]
      BY <2>0, <3>3, <3>4, TableAppended
    <3>6. i \in 1..Len(leads) \/ i = Len(leads) + 1
      BY <2>0, <3>5 DEF Table
    <3> QED BY <2>0, <3>3, <3>5, <3>6
  <2>3. CASE request[x].found # NULL /\ request[x].row.active
    <3> PICK row : row = request[x].row /\ Row(row)
      BY <1>1, <2>0, <2>3 DEF PhonesInv
    <3> PICK j \in 1..Len(leads) : j = request[x].found
      BY <1>1, <2>0, <2>3 DEF PhonesInv
    <3>1. PICK l \in Merged(f, row) : o = [lead |-> j, leads |-> [leads EXCEPT ![j] = l]]
      BY <2>3 DEF Outcomes
    <3>2. l.salesman = NULL /\ Row(l)
      BY <2>3, MergedIs DEF Merged, Row
    <3>3. leads' = [leads EXCEPT ![j] = l]
      BY <2>1, <3>1
    <3> QED BY <2>0, <3>2, <3>3
  <2> QED BY <2>2, <2>3
<1>2. ASSUME KeysInv, PhonesInv, [Next]_vars, NEW x \in Processes,
             Submitted(x), FormOf(x).source = "BROKER", NEW i \in DOMAIN leads'
      PROVE  Fine(x, i)
  <2>1. CASE Submit(x)
    BY <1>1, <1>2, <2>1
  <2>2. CASE Skip(x)
    BY <2>2 DEF Skip
  <2>3. ~UNCHANGED vars
    BY <1>2 DEF vars, Submitted, At
  <2> QED BY <1>2, <2>1, <2>2, <2>3, WhoAnswers
<1>3. KeysInv /\ PhonesInv /\ [Next]_vars =>
        [\A x \in Processes : Submitted(x) /\ FormOf(x).source = "BROKER" =>
           \A i \in DOMAIN leads' : Fine(x, i)]_vars
  BY <1>2
<1>4. Spec => []PhonesInv
  BY PhonesCorrect
<1> QED BY <1>3, <1>4, KeysCorrect, PTL DEF Spec, BrokersDoNotDistribute

-----------------------------------------------------------------------------
(***************************************************************************)
(* Turns of the walk-in reception.                                         *)
(***************************************************************************)

\* The pointer stands behind the team that was served last.
TurnsInv ==
    /\ pointer \in [full : {pointer.full}, team : {pointer.team}]
    /\ pointer.team \in Nat /\ \A x \in Processes : request[x].team \in Nat
    /\ setup.walkin = "TEAM_TURN" /\ served # NULL =>
          served \in Teams /\ pointer.team = served % NumTeams

LEMMA RemainderIs ==
    ASSUME NEW n \in Nat, NEW k \in Nat, k < n
    PROVE  k % n = k /\ (k + n) % n = k
OBVIOUS

\* From behind a team it is the furthest away.
LEMMA LastAgain ==
    ASSUME NEW n \in Nat, NEW s \in 1..n, NEW u \in 1..n, u # s
    PROVE  (u - 1 + n - (s % n)) % n < (s - 1 + n - (s % n)) % n
<1>1. PICK i : i = s % n
  OBVIOUS
<1>2. i = IF s = n THEN 0 ELSE s
  <2>1. CASE s = n
    <3>1. (0 + n) % n = 0
      BY RemainderIs
    <3> QED BY <1>1, <2>1, <3>1
  <2>2. CASE s # n
    <3>1. s \in Nat /\ s < n
      BY <2>2
    <3> QED BY <1>1, <2>2, <3>1, RemainderIs
  <2> QED BY <2>1, <2>2
<1>3. (s - 1 + n - i) % n = n - 1
  <2>1. n - 1 \in Nat /\ n - 1 < n
    OBVIOUS
  <2>2. s - 1 + n - i = n - 1 \/ s - 1 + n - i = (n - 1) + n
    BY <1>2
  <2> QED BY <2>1, <2>2, RemainderIs
<1>4. (u - 1 + n - i) % n < n - 1
  <2>1. CASE i = 0
    <3>1. u - 1 \in Nat /\ u - 1 < n - 1 /\ u - 1 + n - i = (u - 1) + n
      BY <1>2, <2>1
    <3>2. u - 1 < n
      BY <3>1
    <3> QED BY <3>1, <3>2, RemainderIs
  <2>2. CASE i = s /\ u > s
    <3>1. u - 1 - s \in Nat /\ u - 1 - s < n - 1 /\ u - 1 + n - i = (u - 1 - s) + n
      BY <2>2
    <3>2. u - 1 - s < n
      BY <3>1
    <3> QED BY <3>1, <3>2, RemainderIs
  <2>3. CASE i = s /\ u < s
    <3>1. u - 1 + n - i \in Nat /\ u - 1 + n - i < n - 1
      BY <2>3
    <3>2. u - 1 + n - i < n
      BY <3>1
    <3> QED BY <3>1, <3>2, RemainderIs
  <2> QED BY <1>2, <2>1, <2>2, <2>3
<1> QED BY <1>1, <1>3, <1>4

LEMMA NextTeamIs ==
    ASSUME OpenTeams # {}, NEW index \in Nat
    PROVE  /\ NextTeam(index) \in OpenTeams
           /\ \A u \in OpenTeams : Turn(index, NextTeam(index)) <= Turn(index, u)
<1> DEFINE T == {Turn(index, t) : t \in OpenTeams}
<1>1. T \subseteq Nat /\ T # {}
  <2>1. ASSUME NEW t \in OpenTeams PROVE Turn(index, t) \in Nat
    <3>1. t \in 1..NumTeams /\ NumTeams \in Nat
      BY Office DEF Office, OpenTeams, Teams
    <3>2. t - 1 + NumTeams - index \in Int /\ NumTeams > 0
      BY <3>1
    <3> QED BY <3>1, <3>2 DEF Turn
  <2> QED BY <2>1
<1>2. PICK m \in T : \A k \in T : ~(<<k, m>> \in OpToRel(<, Nat))
  BY <1>1, WFMin, NatLessThanWellFounded
<1>3. \A k \in T : m <= k
  <2> SUFFICES ASSUME NEW k \in T PROVE ~(k < m)
    BY <1>1
  <2>1. k < m => <<k, m>> \in OpToRel(<, Nat)
    BY <1>1 DEF OpToRel
  <2> QED BY <1>2, <2>1
<1>4. PICK t \in OpenTeams : m = Turn(index, t)
  OBVIOUS
<1>5. \A u \in OpenTeams : Turn(index, t) <= Turn(index, u)
  BY <1>3, <1>4
<1> HIDE DEF T
<1> QED BY <1>5 DEF NextTeam

\* A turn goes to another team than the last, if two can be served.
LEMMA TeamTurn ==
    ASSUME TurnsInv, setup.walkin = "TEAM_TURN", Cardinality(OpenTeams) > 1
    PROVE  NextTeam(pointer.team) \in Teams /\ NextTeam(pointer.team) # served
<1> PICK t : t = NextTeam(pointer.team)
  OBVIOUS
<1>1. ASSUME NEW s, OpenTeams \subseteq {s} PROVE FALSE
  <2>1. IsFiniteSet({s}) /\ Cardinality({s}) = 1
    BY FS_Singleton
  <2>2. Cardinality(OpenTeams) <= 1 /\ Cardinality(OpenTeams) \in Nat
    BY <1>1, <2>1, FS_Subset, FS_CardinalityType
  <2> QED BY <2>2
<1>2. OpenTeams # {} /\ OpenTeams \subseteq Teams
  BY <1>1 DEF OpenTeams
<1>3. t \in OpenTeams /\ \A u \in OpenTeams : Turn(pointer.team, t) <= Turn(pointer.team, u)
  BY <1>2, NextTeamIs DEF TurnsInv
<1>4. CASE served = NULL
  <2>1. NULL \notin Teams
    BY Office DEF Office, Teams
  <2> QED BY <1>2, <1>3, <1>4, <2>1
<1>5. CASE served # NULL
  <2>1. /\ served \in 1..NumTeams /\ NumTeams \in Nat
        /\ pointer.team \in Nat /\ pointer.team = served % NumTeams
    BY <1>5, Office DEF TurnsInv, Office, Teams
  <2>2. PICK u \in OpenTeams : u # served
    BY <1>1
  <2>3. u \in 1..NumTeams
    BY <1>2 DEF Teams
  <2>4. Turn(pointer.team, u) < Turn(pointer.team, served)
    BY <2>1, <2>2, <2>3, LastAgain DEF Turn
  <2>5. Turn(pointer.team, u) \in Int /\ Turn(pointer.team, served) \in Int
    <3>1. NumTeams > 0 /\ u - 1 + NumTeams - pointer.team \in Int
      BY <2>1, <2>3
    <3>2. served - 1 + NumTeams - pointer.team \in Int
      BY <2>1
    <3> QED BY <2>1, <3>1, <3>2 DEF Turn
  <2>6. t # served
    <3>1. t = served => Turn(pointer.team, served) <= Turn(pointer.team, u)
      BY <1>3
    <3> QED BY <2>4, <2>5, <3>1
  <2> QED BY <1>2, <1>3, <2>6
<1> QED BY <1>4, <1>5

LEMMA TurnsServed ==
    ASSUME TurnsInv, setup.walkin = "TEAM_TURN", setup' = setup, NEW t, t = NextTeam(pointer.team),
           pointer' = [pointer EXCEPT !.team = IF t = NULL THEN pointer.team ELSE t % NumTeams],
           served' = t, \A x \in Processes : request'[x].team \in Nat
    PROVE  TurnsInv'
<1>1. t = NULL \/ t \in Teams
  <2>1. OpenTeams = {} => t = NULL
    BY DEF NextTeam
  <2>2. OpenTeams # {} => t \in Teams
    BY NextTeamIs DEF TurnsInv, OpenTeams
  <2> QED BY <2>1, <2>2
<1>2. t \in Teams => t % NumTeams \in Nat
  <2>1. t \in Teams => t \in Nat /\ NumTeams \in Nat /\ NumTeams > 0
    BY Office DEF Office, Teams
  <2> QED BY <2>1
<1>3. PICK n : n = IF t = NULL THEN pointer.team ELSE t % NumTeams
  OBVIOUS
<1>4. n \in Nat /\ (t # NULL => n = t % NumTeams)
  BY <1>1, <1>2, <1>3 DEF TurnsInv
<1>5. pointer' = [full |-> pointer.full, team |-> n]
  BY <1>3 DEF TurnsInv
<1> QED BY <1>1, <1>4, <1>5 DEF TurnsInv

LEMMA TurnsByHand ==
    ASSUME TurnsInv, NEW full, NEW team \in Nat, AdvanceByHand(full, team), setup' = setup,
           \A x \in Processes : request'[x].team \in Nat
    PROVE  TurnsInv'
<1>1. CASE setup.walkin = "FULL_ROTATION"
  <2>1. PICK n : n = Advanced(full, Available)
    OBVIOUS
  <2>2. pointer' = [full |-> n, team |-> pointer.team] /\ served' = served
    BY <1>1, <2>1 DEF AdvanceByHand, TurnsInv
  <2> QED BY <1>1, <2>2 DEF TurnsInv
<1>2. CASE setup.walkin = "TEAM_TURN"
  <2>1. PICK n : n = Advanced(team, NumTeams)
    OBVIOUS
  <2>2. n \in Nat
    BY <2>1, Office DEF Advanced, Office
  <2>3. pointer' = [full |-> pointer.full, team |-> n] /\ served' = NULL
    BY <1>2, <2>1 DEF AdvanceByHand, TurnsInv
  <2> QED BY <2>2, <2>3 DEF TurnsInv
<1>3. CASE setup.walkin \notin {"FULL_ROTATION", "TEAM_TURN"}
  BY <1>3 DEF AdvanceByHand, turns, TurnsInv
<1> QED BY <1>1, <1>2, <1>3

LEMMA TurnsTaken ==
    ASSUME TurnsInv, NEW x, NEW o, TakeTurn(x, o), setup' = setup,
           \A y \in Processes : request'[y].team \in Nat
    PROVE  TurnsInv'
<1>1. CASE setup.walkin = "FULL_ROTATION"
  <2>1. PICK n : pointer' = [pointer EXCEPT !.full = n] /\ served' = served
    BY <1>1 DEF TakeTurn
  <2>2. pointer' = [full |-> n, team |-> pointer.team]
    BY <2>1 DEF TurnsInv
  <2> QED BY <1>1, <2>1, <2>2 DEF TurnsInv
<1>2. CASE setup.walkin = "TEAM_TURN"
  BY <1>2, TurnsServed DEF TakeTurn, TeamPointer
<1>3. CASE setup.walkin \notin {"FULL_ROTATION", "TEAM_TURN"}
  BY <1>3 DEF TakeTurn, turns, TurnsInv
<1> QED BY <1>1, <1>2, <1>3

\* What a process does, and what it does not do.
Acts(x) ==
    \/ \E k \in Keys : Post(x, k)
    \/ Submit(x) \/ Skip(x) \/ Store(x) \/ Drop(x)
    \/ ReadTurn(x) \/ WriteTurn(x)
    \/ \E u \in Users, i \in DOMAIN leads : OpenBoard(x, u, i)
    \/ \E s \in Users : AssignFromBoard(x, s)
Edits ==
    \/ \E k \in Keys : Expire(k)
    \/ \E i \in DOMAIN leads : \/ Deactivate(i) \/ Reactivate(i)
                               \/ \E s \in Users : Reassign(i, s)
                               \/ \E p \in Phones : EditPhone(i, p)
    \/ \E p \in Phones : ReactivateAll(p)

LEMMA NextActs == Next => Edits \/ \E x \in Processes : Acts(x)
BY DEF Next, Edits, Acts

LEMMA EditsAre ==
    ASSUME Edits
    PROVE  UNCHANGED <<form, turns, request>>
<1>1. ASSUME NEW i, NEW lead, NEW phones, Edit(i, lead, phones)
      PROVE  UNCHANGED <<form, turns, request>>
  BY <1>1 DEF Edit
<1>2. ASSUME NEW k \in Keys, Expire(k) PROVE UNCHANGED <<form, turns, request>>
  BY <1>2 DEF Expire
<1>3. ASSUME NEW p \in Phones, ReactivateAll(p) PROVE UNCHANGED <<form, turns, request>>
  BY <1>3 DEF ReactivateAll
<1>4. ASSUME NEW i \in DOMAIN leads, Deactivate(i) \/ Reactivate(i)
      PROVE  UNCHANGED <<form, turns, request>>
  BY <1>1, <1>4 DEF Deactivate, Reactivate
<1>5. ASSUME NEW i \in DOMAIN leads, NEW s \in Users, Reassign(i, s)
      PROVE  UNCHANGED <<form, turns, request>>
  BY <1>1, <1>5 DEF Reassign
<1>6. ASSUME NEW i \in DOMAIN leads, NEW p \in Phones, EditPhone(i, p)
      PROVE  UNCHANGED <<form, turns, request>>
  BY <1>1, <1>6 DEF EditPhone
<1> QED BY <1>2, <1>3, <1>4, <1>5, <1>6 DEF Edits

\* A request that begins has read the pointer.
LEMMA TeamsRead ==
    ASSUME KeysInv, TurnsInv, [Next]_vars
    PROVE  \A x \in Processes : request'[x].team \in Nat
<1>1. ASSUME NEW x \in Processes, NEW r, request' = [request EXCEPT ![x] = r], r.team \in Nat
      PROVE  \A y \in Processes : request'[y].team \in Nat
  BY <1>1 DEF KeysInv, TurnsInv
<1>2. ASSUME request' = request
      PROVE  \A y \in Processes : request'[y].team \in Nat
  BY <1>2 DEF TurnsInv
<1>3. Free.team \in Nat
  BY DEF Free
<1>4. ASSUME NEW x \in Processes, NEW k \in Keys, Post(x, k)
      PROVE  \A y \in Processes : request'[y].team \in Nat
  <2>1. CASE Replays(k)
    BY <1>2, <1>4, <2>1 DEF Post
  <2>2. CASE ~Replays(k)
    <3>1. PICK q : q = [Free EXCEPT !.at = "read", !.key = k, !.found = Found(Phone(posted[k])),
                !.row = IF Found(Phone(posted[k])) = NULL THEN NULL ELSE leads[Found(Phone(posted[k]))],
                !.count = IF BrokerFor(posted[k]) = NULL THEN 0
                          ELSE brokers[BrokerFor(posted[k])].count,
                !.full = pointer.full, !.team = pointer.team]
      OBVIOUS
    <3>2. request' = [request EXCEPT ![x] = q]
      BY <1>4, <2>2, <3>1 DEF Post
    <3>3. q.team = pointer.team
      BY <3>1 DEF Free
    <3> QED BY <1>1, <3>2, <3>3 DEF TurnsInv
  <2> QED BY <2>1, <2>2
<1>5. ASSUME NEW x \in Processes, Submit(x) \/ Skip(x)
      PROVE  \A y \in Processes : request'[y].team \in Nat
  <2>1. PICK q : q = [Free EXCEPT !.at = "answered", !.key = request[x].key]
    OBVIOUS
  <2>2. request' = [request EXCEPT ![x] = q] /\ q.team = Free.team
    BY <1>5, <2>1 DEF Submit, Skip, Free
  <2> QED BY <1>1, <1>3, <2>2
<1>6. ASSUME NEW x \in Processes,
             Store(x) \/ Drop(x) \/ WriteTurn(x) \/ \E s \in Users : AssignFromBoard(x, s)
      PROVE  \A y \in Processes : request'[y].team \in Nat
  <2>1. request' = [request EXCEPT ![x] = Free]
    BY <1>6 DEF Store, Drop, WriteTurn, AssignFromBoard, Done
  <2> QED BY <1>1, <1>3, <2>1
<1>7. ASSUME NEW x \in Processes, ReadTurn(x)
      PROVE  \A y \in Processes : request'[y].team \in Nat
  <2>1. PICK q : q = [Free EXCEPT !.at = "turn", !.full = pointer.full, !.team = pointer.team]
    OBVIOUS
  <2>2. request' = [request EXCEPT ![x] = q] /\ q.team = pointer.team
    BY <1>7, <2>1 DEF ReadTurn, Free
  <2> QED BY <1>1, <2>2 DEF TurnsInv
<1>8. ASSUME NEW x \in Processes, NEW u \in Users, NEW i \in DOMAIN leads, OpenBoard(x, u, i)
      PROVE  \A y \in Processes : request'[y].team \in Nat
  <2>1. PICK q : q = [Free EXCEPT !.at = "board", !.lead = i, !.user = u]
    OBVIOUS
  <2>2. request' = [request EXCEPT ![x] = q] /\ q.team = Free.team
    BY <1>8, <2>1 DEF OpenBoard, Free
  <2> QED BY <1>1, <1>3, <2>2
<1>9. ASSUME NEW x \in Processes, Acts(x) PROVE \A y \in Processes : request'[y].team \in Nat
  BY <1>4, <1>5, <1>6, <1>7, <1>8, <1>9 DEF Acts
<1>10. CASE Edits \/ UNCHANGED vars
  <2>1. UNCHANGED vars => request' = request
    BY DEF vars
  <2> QED BY <1>2, <1>10, <2>1, EditsAre
<1> QED BY <1>9, <1>10, NextActs

\* Only submissions and the skip button move the turn.
LEMMA TurnsStep ==
    ASSUME KeysInv, TurnsInv, [Next]_vars
    PROVE  TurnsInv'
<1>1. \A x \in Processes : request'[x].team \in Nat
  BY TeamsRead
<1>2. ASSUME turns' = turns, setup' = setup PROVE TurnsInv'
  BY <1>1, <1>2 DEF TurnsInv, turns
<1>3. ASSUME NEW x \in Processes, Submit(x) PROVE TurnsInv'
  <2>1. setup' = setup /\ request[x].team \in Nat /\ pointer.team \in Nat
    BY <1>3 DEF Submit, form, TurnsInv
  <2>2. PICK o \in Outcomes(x) :
            \/ turns' = turns
            \/ TakeTurn(x, o)
            \/ \E full \in {request[x].full, pointer.full},
                  team \in {request[x].team, pointer.team} : AdvanceByHand(full, team)
    BY <1>3 DEF Submit
  <2> QED BY <1>1, <1>2, <2>1, <2>2, TurnsTaken, TurnsByHand
<1>4. ASSUME NEW x \in Processes, WriteTurn(x) PROVE TurnsInv'
  <2>1. setup' = setup /\ request[x].team \in Nat
    BY <1>4 DEF WriteTurn, form, TurnsInv
  <2> QED BY <1>1, <1>4, <2>1, TurnsByHand DEF WriteTurn
<1>5. ASSUME NEW x \in Processes, Acts(x) PROVE TurnsInv'
  <2>1. ASSUME NEW k \in Keys, Post(x, k) PROVE UNCHANGED <<form, turns>>
    BY <2>1 DEF Post
  <2>2. ASSUME Skip(x) \/ Store(x) \/ Drop(x) \/ ReadTurn(x) PROVE UNCHANGED <<form, turns>>
    BY <2>2 DEF Skip, Store, Drop, ReadTurn
  <2>3. ASSUME NEW u \in Users, NEW i \in DOMAIN leads, OpenBoard(x, u, i)
        PROVE  UNCHANGED <<form, turns>>
    BY <2>3 DEF OpenBoard
  <2>4. ASSUME NEW s \in Users, AssignFromBoard(x, s) PROVE UNCHANGED <<form, turns>>
    BY <2>4 DEF AssignFromBoard
  <2>5. UNCHANGED <<form, turns>> => TurnsInv'
    BY <1>2 DEF form
  <2> QED BY <1>3, <1>4, <1>5, <2>1, <2>2, <2>3, <2>4, <2>5 DEF Acts
<1>6. CASE Edits \/ UNCHANGED vars
  <2>1. UNCHANGED <<form, turns>>
    BY <1>6, EditsAre DEF vars
  <2> QED BY <1>2, <2>1 DEF form
<1> QED BY <1>5, <1>6, NextActs

LEMMA TurnsInit == ASSUME Init PROVE TurnsInv
BY DEF Init, TurnsInv, Free

\* Two automatic turns in a row go to two teams, for any number of teams, whoever is away
\* and whatever the reception does by hand at the same time.
THEOREM TurnsAlternate == Spec => TeamsTakeTurns
<1> DEFINE Asks(x) == /\ Submitted(x) /\ FormOf(x).source = "WALK_IN" /\ FormOf(x).pick = NULL
                      /\ setup.walkin = "TEAM_TURN" /\ Cardinality(OpenTeams) > 1
<1>1. ASSUME KeysInv, TurnsInv, [Next]_vars, NEW x \in Processes, Asks(x)
      PROVE  served' # served
  <2>1. Submit(x)
    <3>1. Submit(x) \/ Skip(x)
      <4>1. ~UNCHANGED vars
        BY <1>1 DEF vars, Submitted, At
      <4> QED BY <1>1, <4>1, WhoAnswers
    <3>2. ~Skip(x)
      <4>1. FormOf(x) \in Forms
        BY <1>1 DEF KeysInv, Submitted, At, FormOf
      <4>2. FormOf(x).door = "file" => FormOf(x).source \in FileSources \cup {"BROKER"}
        BY <4>1, Office DEF Office
      <4> QED BY <1>1, <4>2 DEF Skip, FileSources
    <3> QED BY <3>1, <3>2
  <2>2. PICK o : TakeTurn(x, o)
    BY <1>1, <2>1 DEF Submit
  <2>3. served' = NextTeam(pointer.team)
    BY <1>1, <2>2 DEF TakeTurn, TeamPointer
  <2> QED BY <1>1, <2>3, TeamTurn
<1>2. KeysInv /\ TurnsInv /\ [Next]_vars => [\A x \in Processes : Asks(x) => served' # served]_vars
  BY <1>1
<1>3. Init => TurnsInv
  BY TurnsInit
<1>4. KeysInv /\ TurnsInv /\ [Next]_vars => TurnsInv'
  BY TurnsStep
<1> QED BY <1>2, <1>3, <1>4, KeysCorrect, PTL DEF Spec, TeamsTakeTurns
=============================================================================
