-------------------------- MODULE Campaigns_proofs --------------------------
(***************************************************************************)
(* What finance decided and what people recorded of a campaign, and the    *)
(* counters of its records, for any number of processes, leads, contents   *)
(* and sums.  Sums are left as they are: nothing but their equality is     *)
(* used.                                                                   *)
(*                                                                         *)
(* That decisions stand rests on what a request has read being still true, *)
(* unless a decision overtook it (SeenInv); that counters match, on leads  *)
(* being attributed to records that exist (SourcesInv).                    *)
(***************************************************************************)
EXTENDS Campaigns, SequenceTheorems, FiniteSetTheorems, WellFoundedInduction, TLAPS

\* All there is to say of a child record.
Posted == UNION {UNION {Range(p.lines[k]) : k \in Kinds} : p \in Payloads}
AnyItem == Posted \cup [name : {NULL}, amount : Costs, subs : {<< >>}]
AnyLine == [item : AnyItem, leads : Nat, attended : Headcounts \cup {NULL}]

Status(r) == r \in [status : Stages, total : {r.total}, rejected : {r.rejected},
                    about : {r.about}, types : {r.types}]
Step(q) ==
    /\ q \in [at : {"free", "edit", "checked", "form", "budget", "summed"},
              status : Stages, rejected : {q.rejected},
              payload : Payloads \cup {NULL}, total : {q.total}, overtaken : BOOLEAN]
    /\ q.at = "checked" => q.payload \in Payloads

LinesShape == lines \in [Kinds -> Seq(AnyLine)]
RequestShape ==
    /\ request = [x \in Processes |-> request[x]]
    /\ \A x \in Processes : Step(request[x])
Shape ==
    /\ Status(row) /\ LinesShape /\ RequestShape
    /\ ~Exists => \A k \in Kinds : lines[k] = << >>

\* Nobody works on a campaign before there is one, and what a request has read of its
\* status is still true but for a decision that overtook it and for edits, which only
\* reopen it.
SeenInv ==
    \A x \in Web :
        /\ row.status = "NONE" => At(x, "free")
        /\ At(x, "edit") \/ At(x, "checked") =>
              request[x].overtaken \/ row.status \in {request[x].status, "PENDING", "DELETED"}
        /\ At(x, "form") \/ At(x, "budget") =>
              request[x].overtaken \/ ~Restricted \/ row.status \notin {"APPROVED", "SEMI_APPROVED"}

SourcesInv ==
    /\ row.status = "NONE" => \A l \in Leads : source[l] = NULL
    /\ source \in [Leads -> Ids \cup {NULL, Gone}]

-----------------------------------------------------------------------------
(***************************************************************************)
(* Rows and requests.                                                      *)
(***************************************************************************)

LEMMA LeastExists ==
    ASSUME NEW S, S \subseteq Nat, S # {}
    PROVE  \E m \in S : \A k \in S : m <= k
<1>1. PICK m \in S : \A k \in S : ~(<<k, m>> \in OpToRel(<, Nat))
  BY WFMin, NatLessThanWellFounded
<1>2. \A k \in S : ~(k < m)
  BY <1>1 DEF OpToRel
<1> QED BY <1>2

LEMMA LatestExists ==
    ASSUME NEW n \in Nat, NEW S, S \subseteq 1..n, S # {}
    PROVE  \E m \in S : \A k \in S : k <= m
<1> DEFINE T == {n - i : i \in S}
<1>1. PICK j \in T : \A k \in T : j <= k
  <2>1. \A i \in S : n - i \in Nat
    OBVIOUS
  <2>2. T \subseteq Nat /\ T # {}
    BY <2>1
  <2> HIDE DEF T
  <2> QED BY <2>2, LeastExists
<1>2. PICK m \in S : j = n - m
  OBVIOUS
<1>3. \A k \in S : n - m <= n - k
  BY <1>1, <1>2
<1> QED BY <1>3

LEMMA LineIs ==
    ASSUME LinesShape, NEW k \in Kinds
    PROVE  /\ Len(lines[k]) \in Nat /\ DOMAIN lines[k] = 1..Len(lines[k])
           /\ \A i \in DOMAIN lines[k] : lines[k][i] \in AnyLine
BY DEF LinesShape

LEMMA AttendedIs ==
    ASSUME LinesShape, NEW name
    PROVE  /\ Attended(name) \in Headcounts \cup {NULL}
           /\ IF Recorded(name) = {} THEN Attended(name) = NULL
              ELSE Attended(name) \in Recorded(name)
<1>1. "events" \in Kinds
  BY DEF Kinds, Types
<1>2. PICK s : s = lines["events"]
  OBVIOUS
<1>3. Len(s) \in Nat /\ DOMAIN s = 1..Len(s) /\ \A i \in DOMAIN s : s[i] \in AnyLine
  BY <1>1, <1>2, LineIs
<1>4. PICK E : E = {i \in DOMAIN s : s[i].item.name = name /\ s[i].attended # NULL}
  OBVIOUS
<1>5. Recorded(name) = {s[i].attended : i \in E}
  BY <1>2, <1>4 DEF Recorded
<1>6. CASE E = {}
  BY <1>2, <1>4, <1>5, <1>6 DEF Attended
<1>7. CASE E # {}
  <2>1. PICK m : m = CHOOSE i \in E : \A h \in E : h <= i
    OBVIOUS
  <2>2. m \in E
    <3>1. \E i \in E : \A h \in E : h <= i
      BY <1>3, <1>4, <1>7, LatestExists
    <3> QED BY <2>1, <3>1
  <2>3. Attended(name) = s[m].attended
    BY <1>2, <1>4, <1>7, <2>1 DEF Attended
  <2> QED BY <1>3, <1>4, <1>5, <1>7, <2>2, <2>3 DEF AnyLine
<1> QED BY <1>6, <1>7

LEMMA PayloadIs ==
    ASSUME NEW p \in Payloads, NEW k \in Kinds
    PROVE  /\ Len(p.lines[k]) \in Nat /\ DOMAIN p.lines[k] = 1..Len(p.lines[k])
           /\ \A i \in DOMAIN p.lines[k] : p.lines[k][i] \in AnyItem
<1>1. p.lines[k] \in Seq(Range(p.lines[k]))
  BY Inputs DEF Inputs
<1>2. Range(p.lines[k]) \subseteq AnyItem
  BY DEF AnyItem, Posted
<1> QED BY <1>1, <1>2

LEMMA RebuiltIs ==
    ASSUME LinesShape, NEW p \in Payloads
    PROVE  /\ Rebuilt(p) \in [Kinds -> Seq(AnyLine)]
           /\ \A k \in Kinds : \A i \in DOMAIN Rebuilt(p)[k] : Rebuilt(p)[k][i].leads = 0
<1> SUFFICES ASSUME NEW k \in Kinds
             PROVE  /\ Rebuilt(p)[k] \in Seq(AnyLine)
                    /\ \A i \in DOMAIN Rebuilt(p)[k] : Rebuilt(p)[k][i].leads = 0
  BY DEF Rebuilt
<1>1. PICK s, r : s = p.lines[k] /\ r = Rebuilt(p)[k]
  OBVIOUS
<1>2. Len(s) \in Nat /\ DOMAIN s = 1..Len(s) /\ \A i \in DOMAIN s : s[i] \in AnyItem
  BY <1>1, PayloadIs
<1>3. r = [i \in 1..Len(s) |-> [item |-> s[i], leads |-> 0,
              attended |-> IF k = "events" THEN Attended(s[i].name) ELSE NULL]]
  BY <1>1, <1>2 DEF Rebuilt
<1>4. \A i \in 1..Len(s) : r[i] \in AnyLine /\ r[i].leads = 0
  BY <1>2, <1>3, AttendedIs DEF AnyLine
<1>5. r \in [1..Len(s) -> AnyLine] /\ DOMAIN r = 1..Len(s)
  BY <1>3, <1>4
<1>6. r \in Seq(AnyLine)
  BY <1>2, <1>5
<1> QED BY <1>1, <1>4, <1>5, <1>6

LEMMA FreeIs == Step(Free)
BY DEF Step, Free, Stages, Statuses, Decided

LEMMA RequestIs ==
    ASSUME RequestShape, NEW x \in Processes, NEW q, Step(q),
           request' = [request EXCEPT ![x] = q]
    PROVE  /\ RequestShape'
           /\ \A y \in Processes : request'[y] = IF y = x THEN q ELSE request[y]
<1>1. \A y \in Processes : request'[y] = IF y = x THEN q ELSE request[y]
  BY DEF RequestShape
<1>2. request' = [y \in Processes |-> request'[y]]
  BY DEF RequestShape
<1> QED BY <1>1, <1>2 DEF RequestShape

LEMMA DoneIs ==
    ASSUME RequestShape, NEW x \in Processes, Done(x)
    PROVE  /\ RequestShape'
           /\ \A y \in Processes : request'[y] = IF y = x THEN Free ELSE request[y]
BY FreeIs, RequestIs DEF Done

Base == Shape /\ SeenInv

LEMMA BaseInit == ASSUME Init PROVE Base
<1>1. Status(row) /\ ~Exists /\ row.status = "NONE"
  <2>1. PICK p \in Payloads : row = [status |-> "NONE", total |-> 0, rejected |-> {},
                                     about |-> p.about, types |-> {}]
    BY DEF Init
  <2> QED BY <2>1 DEF Status, Stages, Exists, Statuses, Decided
<1>2. LinesShape
  BY EmptySeq DEF Init, LinesShape
<1>3. RequestShape
  BY FreeIs DEF Init, RequestShape
<1>4. SeenInv
  <2>1. \A x \in Web : request[x] = Free
    BY DEF Init, Processes
  <2> QED BY <1>1, <2>1 DEF SeenInv, At, Free
<1> QED BY <1>1, <1>2, <1>3, <1>4 DEF Base, Shape, Init

\* What was read stays true when a request ends, and when an edit reopens the campaign.
LEMMA SeenKept ==
    ASSUME SeenInv, policies' = policies,
           row'.status \in {row.status, "PENDING", "DELETED"},
           \A y \in Web : \/ request'[y] = request[y]
                          \/ request'[y].at = "free"
                          \/ request'[y].at = "summed" /\ row'.status # "NONE"
    PROVE  SeenInv'
<1>1. row.status = "NONE" \/ row'.status # "NONE"
  OBVIOUS
<1>2. Restricted' = Restricted
  BY DEF Restricted
<1> SUFFICES ASSUME NEW x \in Web
             PROVE  /\ row'.status = "NONE" => At(x, "free")'
                    /\ At(x, "edit")' \/ At(x, "checked")' =>
                          \/ request'[x].overtaken
                          \/ row'.status \in {request'[x].status, "PENDING", "DELETED"}
                    /\ At(x, "form")' \/ At(x, "budget")' =>
                          \/ request'[x].overtaken \/ ~Restricted'
                          \/ row'.status \notin {"APPROVED", "SEMI_APPROVED"}
  BY DEF SeenInv
<1>3. CASE request'[x] = request[x]
  BY <1>1, <1>2, <1>3 DEF SeenInv, At
<1>4. CASE \/ request'[x].at = "free"
           \/ request'[x].at = "summed" /\ row'.status # "NONE"
  BY <1>4 DEF At
<1> QED BY <1>3, <1>4

LEMMA BaseCreate ==
    ASSUME Base, NEW p \in Payloads, Create(p)
    PROVE  Base'
<1>1. Status(row)' /\ Exists'
  BY Inputs DEF Create, Status, Exists, Stages, Statuses, Decided, Inputs
<1>2. LinesShape'
  BY RebuiltIs DEF Create, Base, Shape, LinesShape
<1>3. RequestShape' /\ request' = request
  BY DEF Create, Base, Shape, RequestShape
<1>4. SeenInv'
  <2>1. \A x \in Web : request'[x].at = "free"
    BY <1>3 DEF Create, Base, SeenInv, At
  <2> QED BY <2>1 DEF SeenInv, At
<1> QED BY <1>1, <1>2, <1>3, <1>4 DEF Base, Shape

\* A view that reads the campaign.
Seen(q) ==
    /\ Step(q)
    /\ \/ q.at = "edit" /\ q.status = row.status
       \/ q.at \in {"form", "budget"} /\ (Restricted => row.status \notin {"APPROVED", "SEMI_APPROVED"})

LEMMA OpenIs ==
    ASSUME Shape, NEW x \in Web, OpenEdit(x) \/ OpenForm(x) \/ OpenBudget(x)
    PROVE  \E q : Seen(q) /\ Get(x, q)
<1>1. row.status \in Stages
  BY DEF Shape, Status
<1>2. CASE OpenEdit(x)
  <2>1. PICK q : q = [Free EXCEPT !.at = "edit", !.status = row.status, !.rejected = row.rejected]
    OBVIOUS
  <2>2. Seen(q)
    BY <1>1, <2>1 DEF Seen, Step, Free
  <2> QED BY <1>2, <2>1, <2>2 DEF OpenEdit
<1>3. CASE OpenForm(x)
  <2>1. PICK q : q = [Free EXCEPT !.at = "form"]
    OBVIOUS
  <2>2. Seen(q)
    BY <1>3, <2>1, FreeIs DEF Seen, Step, Free, OpenForm, DoorOpen
  <2> QED BY <1>3, <2>1, <2>2 DEF OpenForm
<1>4. CASE OpenBudget(x)
  <2>1. PICK q : q = [Free EXCEPT !.at = "budget"]
    OBVIOUS
  <2>2. Seen(q)
    BY <1>4, <2>1, FreeIs DEF Seen, Step, Free, OpenBudget, DoorOpen
  <2> QED BY <1>4, <2>1, <2>2 DEF OpenBudget
<1> QED BY <1>2, <1>3, <1>4

LEMMA BaseOpen ==
    ASSUME Base, NEW x \in Web, NEW q, Seen(q), Get(x, q)
    PROVE  Base'
<1>1. /\ row' = row /\ lines' = lines /\ policies' = policies /\ x \in Processes
      /\ request' = [request EXCEPT ![x] = q] /\ Exists
  BY DEF Get, Processes
<1>2. /\ RequestShape'
      /\ \A y \in Processes : request'[y] = IF y = x THEN q ELSE request[y]
  BY <1>1, RequestIs DEF Base, Shape, Seen
<1>3. Shape'
  BY <1>1, <1>2 DEF Base, Shape, LinesShape, Exists, Status
<1>4. SeenInv'
  <2>1. row.status # "NONE"
    BY <1>1 DEF Exists, Statuses, Decided
  <2>2. \A y \in Web : request'[y] = IF y = x THEN q ELSE request[y]
    BY <1>2 DEF Processes
  <2>3. Restricted' = Restricted
    BY <1>1 DEF Restricted
  <2> QED BY <1>1, <2>1, <2>2, <2>3 DEF Base, SeenInv, At, Seen
<1> QED BY <1>3, <1>4 DEF Base

LEMMA BaseCheckEdit ==
    ASSUME Base, NEW x \in Web, NEW p \in Payloads, CheckEdit(x, p)
    PROVE  Base'
<1>1. /\ row' = row /\ lines' = lines /\ policies' = policies /\ x \in Processes
      /\ request[x].at = "edit" /\ Step(request[x]) /\ Exists
  BY DEF CheckEdit, Processes, At, Base, Shape, RequestShape
<1>2. PICK q : q = [request[x] EXCEPT !.at = "checked", !.payload = p, !.rejected = {}]
  OBVIOUS
<1>3. /\ Step(q) /\ q.at = "checked"
      /\ q.status = request[x].status /\ q.overtaken = request[x].overtaken
  BY <1>1, <1>2 DEF Step
<1>4. request' = [request EXCEPT ![x] = q]
  BY <1>1, <1>2 DEF CheckEdit, Base, Shape, RequestShape
<1>5. /\ RequestShape'
      /\ \A y \in Processes : request'[y] = IF y = x THEN q ELSE request[y]
  BY <1>1, <1>3, <1>4, RequestIs DEF Base, Shape
<1>6. Shape'
  BY <1>1, <1>5 DEF Base, Shape, LinesShape, Exists, Status
<1>7. SeenInv'
  <2>1. row.status # "NONE"
    BY <1>1 DEF Exists, Statuses, Decided
  <2>2. \A y \in Web : request'[y] = IF y = x THEN q ELSE request[y]
    BY <1>5 DEF Processes
  <2>3. Restricted' = Restricted
    BY <1>1 DEF Restricted
  <2> QED BY <1>1, <1>3, <2>1, <2>2, <2>3 DEF Base, SeenInv, At
<1> QED BY <1>6, <1>7 DEF Base

LEMMA BaseSaveEdit ==
    ASSUME Base, NEW x \in Web, SaveEdit(x)
    PROVE  Base'
<1>1. x \in Processes /\ Exists /\ policies' = policies /\ Done(x)
  BY DEF SaveEdit, Processes
<1>2. PICK p \in Payloads : p = request[x].payload
  BY <1>1 DEF SaveEdit, Base, Shape, RequestShape, Step, At
<1>3. /\ RequestShape'
      /\ \A y \in Processes : request'[y] = IF y = x THEN Free ELSE request[y]
  BY <1>1, DoneIs DEF Base, Shape
<1>4. Status(row)' /\ row'.status \in {row.status, "PENDING"} /\ Exists'
  <2>1. PICK s : s = IF Resets(request[x]) THEN "PENDING" ELSE row.status
    OBVIOUS
  <2>2. row.status \in Statuses /\ s \in Statuses /\ s \in {row.status, "PENDING"}
    BY <1>1, <2>1 DEF Exists, Statuses
  <2>3. \E total, rejected : row' = [status |-> s, total |-> total, rejected |-> rejected,
                                     about |-> p.about, types |-> p.types]
    BY <1>2, <2>1 DEF SaveEdit
  <2>4. Statuses \subseteq Stages
    BY DEF Stages
  <2> QED BY <2>2, <2>3, <2>4 DEF Status, Exists
<1>5. LinesShape'
  BY <1>2, RebuiltIs DEF SaveEdit, Base, Shape, LinesShape
<1>6. SeenInv'
  <2>1. \A y \in Web : request'[y] = request[y] \/ request'[y].at = "free"
    BY <1>3 DEF Processes, Free
  <2> QED BY <1>1, <1>4, <2>1, SeenKept DEF Base
<1> QED BY <1>3, <1>4, <1>5, <1>6 DEF Base, Shape

LEMMA BaseSaveForm ==
    ASSUME Base, NEW x \in Web, NEW about, SaveForm(x, about)
    PROVE  Base'
<1>1. /\ x \in Processes /\ lines' = lines /\ policies' = policies /\ Done(x)
      /\ row' = [row EXCEPT !.about = about]
  BY DEF SaveForm, Processes
<1>2. /\ RequestShape'
      /\ \A y \in Processes : request'[y] = IF y = x THEN Free ELSE request[y]
  BY <1>1, DoneIs DEF Base, Shape
<1>3. Status(row)' /\ row'.status = row.status
  BY <1>1 DEF Base, Shape, Status
<1>4. SeenInv'
  <2>1. \A y \in Web : request'[y] = request[y] \/ request'[y].at = "free"
    BY <1>2 DEF Processes, Free
  <2> QED BY <1>1, <1>3, <2>1, SeenKept DEF Base
<1> QED BY <1>1, <1>2, <1>3, <1>4 DEF Base, Shape, LinesShape, Exists

LEMMA InsertedIs ==
    ASSUME NEW S, NEW s \in Seq(S), NEW i \in 1..(Len(s) + 1), NEW e \in S
    PROVE  Inserted(s, i, e) \in Seq(S)
<1>1. Len(s) \in Nat /\ \A j \in 1..Len(s) : s[j] \in S
  OBVIOUS
<1>2. SubSeq(s, 1, i - 1) \in Seq(S)
  <2>1. 1 \in Int /\ i - 1 \in Int /\ \A j \in 1..(i - 1) : s[j] \in S
    BY <1>1
  <2> QED BY <2>1, SubSeqProperties
<1>3. SubSeq(s, i, Len(s)) \in Seq(S)
  <2>1. i \in Int /\ Len(s) \in Int /\ \A j \in i..Len(s) : s[j] \in S
    BY <1>1
  <2> QED BY <2>1, SubSeqProperties
<1>4. <<e>> \in Seq(S)
  OBVIOUS
<1> QED BY <1>2, <1>3, <1>4, ConcatProperties DEF Inserted

LEMMA BaseAddOtherCost ==
    ASSUME Base, NEW x \in Web, NEW v \in Costs, AddOtherCost(x, v)
    PROVE  Base'
<1>1. /\ x \in Processes /\ policies' = policies /\ Done(x) /\ Exists
      /\ row' = [row EXCEPT !.total = Total(AllItems')]
  BY DEF AddOtherCost, Processes
<1>2. /\ RequestShape'
      /\ \A y \in Processes : request'[y] = IF y = x THEN Free ELSE request[y]
  BY <1>1, DoneIs DEF Base, Shape
<1>3. Status(row)' /\ row'.status = row.status
  <2>1. PICK total : total = Total(AllItems')
    OBVIOUS
  <2>2. row' = [row EXCEPT !.total = total]
    BY <1>1, <2>1
  <2> QED BY <2>2 DEF Base, Shape, Status
<1>4. SeenInv'
  <2>1. \A y \in Web : request'[y] = request[y] \/ request'[y].at = "free"
    BY <1>2 DEF Processes, Free
  <2> QED BY <1>1, <1>3, <2>1, SeenKept DEF Base
<1>5. LinesShape'
  <2>1. PICK s \in Seq(AnyLine) : s = lines["other_costs"]
    BY DEF Base, Shape, LinesShape, Kinds
  <2>2. OtherCost(v) \in AnyLine
    BY DEF OtherCost, AnyLine, AnyItem
  <2>3. PICK i \in 1..(Len(s) + 1) :
           lines' = [lines EXCEPT !["other_costs"] = Inserted(s, i, OtherCost(v))]
    BY <2>1 DEF AddOtherCost, Base, Shape, LinesShape
  <2>4. Inserted(s, i, OtherCost(v)) \in Seq(AnyLine)
    BY <2>2, InsertedIs
  <2> QED BY <2>3, <2>4 DEF Base, Shape, LinesShape
<1> QED BY <1>1, <1>2, <1>3, <1>4, <1>5 DEF Base, Shape, Exists

LEMMA BaseRecalculate ==
    ASSUME Base, NEW x \in Processes, NEW place, Summing(x, place) \/ WriteTotal(x)
    PROVE  Base'
<1>1. CASE Summing(x, place)
  <2>1. /\ row' = row /\ lines' = lines /\ policies' = policies /\ Exists
        /\ Step(request[x])
    BY <1>1 DEF Summing, Base, Shape, RequestShape
  <2>2. PICK total : total = Total(AllItems)
    OBVIOUS
  <2>3. PICK q : q = [request[x] EXCEPT !.at = "summed", !.total = total]
    OBVIOUS
  <2>4. Step(q) /\ q.at = "summed"
    BY <2>1, <2>3 DEF Step
  <2>5. request' = [request EXCEPT ![x] = q]
    BY <1>1, <2>2, <2>3 DEF Summing, Base, Shape, RequestShape
  <2>6. /\ RequestShape'
        /\ \A y \in Processes : request'[y] = IF y = x THEN q ELSE request[y]
    <3>1. RequestShape /\ Step(q)
      BY <2>4 DEF Base, Shape
    <3> HIDE DEF Step
    <3> QED BY <2>5, <3>1, RequestIs
  <2>7. SeenInv'
    <3>1. row'.status # "NONE"
      BY <2>1 DEF Exists, Statuses, Decided
    <3>2. \A y \in Web : request'[y] = request[y] \/ request'[y].at = "summed"
      BY <2>4, <2>6 DEF Processes
    <3> QED BY <2>1, <3>1, <3>2, SeenKept DEF Base
  <2> QED BY <2>1, <2>6, <2>7 DEF Base, Shape, LinesShape, Exists, Status
<1>2. CASE WriteTotal(x)
  <2>1. /\ row' = [row EXCEPT !.total = request[x].total] /\ lines' = lines
        /\ policies' = policies /\ Done(x)
    BY <1>2 DEF WriteTotal
  <2>2. /\ RequestShape'
        /\ \A y \in Processes : request'[y] = IF y = x THEN Free ELSE request[y]
    BY <2>1, DoneIs DEF Base, Shape
  <2>3. Status(row)' /\ row'.status = row.status
    BY <2>1 DEF Base, Shape, Status
  <2>4. SeenInv'
    <3>1. \A y \in Web : request'[y] = request[y] \/ request'[y].at = "free"
      BY <2>2 DEF Processes, Free
    <3> QED BY <2>1, <2>3, <3>1, SeenKept DEF Base
  <2> QED BY <2>1, <2>2, <2>3, <2>4 DEF Base, Shape, LinesShape, Exists
<1> QED BY <1>1, <1>2

LEMMA BaseDrop ==
    ASSUME Base, NEW x \in Processes, Drop(x)
    PROVE  Base'
<1>1. row' = row /\ lines' = lines /\ policies' = policies /\ Done(x)
  BY DEF Drop
<1>2. /\ RequestShape'
      /\ \A y \in Processes : request'[y] = IF y = x THEN Free ELSE request[y]
  BY <1>1, DoneIs DEF Base, Shape
<1>3. SeenInv'
  <2>1. \A y \in Web : request'[y] = request[y] \/ request'[y].at = "free"
    BY <1>2 DEF Processes, Free
  <2> QED BY <1>1, <2>1, SeenKept DEF Base
<1> QED BY <1>1, <1>2, <1>3 DEF Base, Shape, LinesShape, Exists, Status

LEMMA BaseDelete ==
    ASSUME Base, Delete
    PROVE  Base'
<1>1. /\ row' = [row EXCEPT !.status = "DELETED", !.total = 0, !.rejected = {}]
      /\ lines' = [k \in Kinds |-> << >>] /\ policies' = policies /\ request' = request
  BY DEF Delete
<1>2. Status(row)' /\ row'.status = "DELETED"
  BY <1>1 DEF Base, Shape, Status, Stages
<1>3. LinesShape' /\ \A k \in Kinds : lines'[k] = << >>
  BY <1>1, EmptySeq DEF LinesShape
<1>4. RequestShape'
  BY <1>1 DEF Base, Shape, RequestShape
<1>5. SeenInv'
  BY <1>1, <1>2, SeenKept DEF Base
<1> QED BY <1>2, <1>3, <1>4, <1>5 DEF Base, Shape

\* A step that changes one child record, but not what it is about.
OneLine(k, i, e) ==
    /\ k \in Kinds /\ i \in DOMAIN lines[k]
    /\ e \in AnyLine /\ e.item = lines[k][i].item
    /\ lines' = [lines EXCEPT ![k][i] = e]
    /\ policies' = policies /\ row' = row /\ request' = request

LEMMA OneLineIs ==
    ASSUME Base, NEW k, NEW i, NEW e, OneLine(k, i, e)
    PROVE  /\ Base' /\ AllItems' = AllItems
           /\ \A h \in Kinds : /\ DOMAIN lines'[h] = DOMAIN lines[h]
                               /\ \A j \in DOMAIN lines[h] :
                                     lines'[h][j] = IF h = k /\ j = i THEN e ELSE lines[h][j]
<1>1. PICK s \in Seq(AnyLine) : s = lines[k]
  BY DEF OneLine, Base, Shape, LinesShape
<1>2. PICK r : r = [s EXCEPT ![i] = e]
  OBVIOUS
<1>3. lines' = [lines EXCEPT ![k] = r]
  BY <1>1, <1>2 DEF OneLine, Base, Shape, LinesShape
<1>4. /\ r \in Seq(AnyLine) /\ DOMAIN r = DOMAIN s
      /\ \A j \in DOMAIN s : r[j] = IF j = i THEN e ELSE s[j]
  <2>1. i \in 1..Len(s) /\ e \in AnyLine /\ DOMAIN s = 1..Len(s)
    BY <1>1 DEF OneLine
  <2>2. r \in Seq(AnyLine)
    BY <1>2, <2>1, ExceptSeq
  <2> QED BY <1>2, <2>2
<1>5. LinesShape'
  BY <1>3, <1>4 DEF OneLine, Base, Shape, LinesShape
<1>6. \A h \in Kinds : /\ DOMAIN lines'[h] = DOMAIN lines[h]
                       /\ \A j \in DOMAIN lines[h] :
                             lines'[h][j] = IF h = k /\ j = i THEN e ELSE lines[h][j]
  BY <1>1, <1>3, <1>4 DEF Base, Shape, LinesShape
<1>7. AllItems' = AllItems
  <2>1. \A h \in Kinds : \A j \in DOMAIN lines[h] : lines'[h][j].item = lines[h][j].item
    BY <1>6 DEF OneLine
  <2> QED BY <1>6, <2>1 DEF AllItems, Items
<1>8. SeenInv'
  BY SeenKept DEF OneLine, Base
<1>9. Exists
  <2>1. lines[k] # << >>
    <3>1. DOMAIN << >> = {}
      OBVIOUS
    <3> QED BY <3>1 DEF OneLine
  <2> QED BY <2>1 DEF OneLine, Base, Shape
<1> QED BY <1>5, <1>6, <1>7, <1>8, <1>9
        DEF OneLine, Base, Shape, RequestShape, Status, Exists

LEMMA AttendanceIs ==
    ASSUME Base, NEW i \in DOMAIN lines["events"], NEW n \in Headcounts \cup {NULL},
           SetAttendance(i, n)
    PROVE  \E e : OneLine("events", i, e) /\ e.leads = lines["events"][i].leads
<1>1. PICK s : s = lines["events"] /\ s \in Seq(AnyLine) /\ "events" \in Kinds
  BY DEF Base, Shape, LinesShape, Kinds, Types
<1>2. s[i] \in AnyLine
  BY <1>1
<1>3. PICK e : e = [s[i] EXCEPT !.attended = n]
  OBVIOUS
<1>4. e \in AnyLine /\ e.item = s[i].item /\ e.leads = s[i].leads
  BY <1>2, <1>3 DEF AnyLine
<1>5. lines' = [lines EXCEPT !["events"][i] = e]
  BY <1>1, <1>3 DEF SetAttendance, Base, Shape, LinesShape
<1> QED BY <1>1, <1>4, <1>5 DEF OneLine, SetAttendance

LEMMA LinkIs ==
    ASSUME Base, NEW l \in Leads, NEW k \in Types, NEW i \in DOMAIN lines[k],
           LinkLead(l, <<k, i>>)
    PROVE  \E e : /\ OneLine(k, i, e) /\ e.leads = lines[k][i].leads + 1
                  /\ e.attended = lines[k][i].attended
<1>1. PICK s : s = lines[k] /\ s \in Seq(AnyLine) /\ k \in Kinds
  BY DEF Base, Shape, LinesShape, Kinds
<1>2. s[i] \in AnyLine
  BY <1>1
<1>7. s[i].leads + 1 \in Nat
  BY <1>2 DEF AnyLine
<1>3. PICK e : e = [s[i] EXCEPT !.leads = s[i].leads + 1]
  OBVIOUS
<1>4. /\ e \in AnyLine /\ e.item = s[i].item /\ e.leads = s[i].leads + 1
      /\ e.attended = s[i].attended
  BY <1>2, <1>3, <1>7 DEF AnyLine
<1>5. <<k, i>> # Gone
  BY DEF Gone, Types
<1>6. lines' = [lines EXCEPT ![k][i] = e]
  BY <1>1, <1>3, <1>5 DEF LinkLead, Base, Shape, LinesShape
<1> QED BY <1>1, <1>4, <1>6 DEF OneLine, LinkLead

LEMMA BaseSetStatus ==
    ASSUME Base, NEW status \in Statuses, NEW rejected, SetStatus(status, rejected)
    PROVE  Base'
<1>1. /\ lines' = lines /\ policies' = policies /\ Exists
      /\ request' = [x \in Processes |->
            [request[x] EXCEPT !.overtaken = x \in Web /\ ~At(x, "free")]]
  BY DEF SetStatus
<1>2. Status(row)' /\ row'.status = status
  <2>1. \E total, keys : row' = [row EXCEPT !.status = status, !.total = total, !.rejected = keys]
    BY DEF SetStatus
  <2> QED BY <2>1 DEF Base, Shape, Status, Stages
<1>3. \A x \in Processes :
         /\ Step(request'[x]) /\ request'[x].at = request[x].at
         /\ x \in Web /\ request[x].at # "free" => request'[x].overtaken = TRUE
  <2> SUFFICES ASSUME NEW x \in Processes
               PROVE  /\ Step(request'[x]) /\ request'[x].at = request[x].at
                      /\ x \in Web /\ request[x].at # "free" => request'[x].overtaken = TRUE
    OBVIOUS
  <2>1. PICK b : b = (x \in Web /\ ~At(x, "free"))
    OBVIOUS
  <2>2. request'[x] = [request[x] EXCEPT !.overtaken = b] /\ Step(request[x])
    BY <1>1, <2>1 DEF Base, Shape, RequestShape
  <2>3. b \in BOOLEAN /\ (x \in Web /\ request[x].at # "free" => b = TRUE)
    BY <2>1 DEF At
  <2> QED BY <2>2, <2>3 DEF Step
<1>4. RequestShape'
  BY <1>1, <1>3 DEF RequestShape
<1>5. SeenInv'
  <2>1. row'.status # "NONE"
    BY <1>2 DEF Statuses, Decided
  <2>2. \A x \in Web : request'[x].overtaken = TRUE \/ request'[x].at = "free"
    <3> SUFFICES ASSUME NEW x \in Web, request'[x].at # "free"
                 PROVE  request'[x].overtaken = TRUE
      OBVIOUS
    <3>1. x \in Processes
      BY DEF Processes
    <3> QED BY <1>3, <3>1
  <2> QED BY <2>1, <2>2 DEF SeenInv, At
<1> QED BY <1>1, <1>2, <1>4, <1>5 DEF Base, Shape, LinesShape, Exists

-----------------------------------------------------------------------------
(***************************************************************************)
(* The steps, by what they write.                                          *)
(***************************************************************************)

LEMMA FinanceIs ==
    ASSUME Finance
    PROVE  \E status \in Statuses : \E rejected : SetStatus(status, rejected)
<1>1. CASE \E rejected \in Rejections : DecideOnPage("semi", rejected)
  <2>1. PICK rejected \in Rejections : DecideOnPage("semi", rejected)
    BY <1>1
  <2>2. StatusOf["semi"] \in Statuses
    BY DEF StatusOf, Statuses, Decided
  <2> QED BY <2>1, <2>2 DEF DecideOnPage
<1>2. CASE \E token \in DOMAIN StatusOf \ {"semi"} : DecideOnPage(token, NULL)
  <2>1. PICK token \in DOMAIN StatusOf \ {"semi"} : DecideOnPage(token, NULL)
    BY <1>2
  <2>2. StatusOf[token] \in Statuses
    BY DEF StatusOf, Statuses, Decided
  <2> QED BY <2>1, <2>2 DEF DecideOnPage
<1>3. CASE \E status \in Statuses : DecideOnForm(status)
  BY <1>3 DEF DecideOnForm
<1> QED BY <1>1, <1>2, <1>3 DEF Finance

\* A step that writes neither the campaign's row nor a child record.
Quiet == row' = row /\ lines' = lines

\* A step that changes the counters of one record.
Counts ==
    \E k, i, e :
        /\ OneLine(k, i, e)
        /\ \/ e.attended = lines[k][i].attended
           \/ \E n \in Headcounts \cup {NULL} : k = "events" /\ SetAttendance(i, n)

Writes ==
    \/ \E p \in Payloads : Create(p)
    \/ \E x \in Web : \/ SaveEdit(x)
                      \/ \E p \in Payloads : SaveForm(x, p.about)
                      \/ \E v \in Costs : AddOtherCost(x, v)
    \/ \E x \in Processes : WriteTotal(x)
    \/ Delete
    \/ Finance

LEMMA LinkCounts ==
    ASSUME Base, NEW l \in Leads, NEW id \in Ids \cup {Gone}, LinkLead(l, id)
    PROVE  Quiet \/ Counts
<1>1. CASE id = Gone
  BY <1>1 DEF LinkLead, Quiet
<1>2. CASE id \in Ids
  <2>1. PICK k \in Types : \E i \in DOMAIN lines[k] : id = <<k, i>>
    BY <1>2 DEF Ids
  <2>2. PICK i \in DOMAIN lines[k] : id = <<k, i>>
    BY <2>1
  <2>3. \E e : OneLine(k, i, e) /\ e.attended = lines[k][i].attended
    BY <2>2, LinkIs
  <2> QED BY <2>3 DEF Counts
<1> QED BY <1>1, <1>2

LEMMA StepIs ==
    ASSUME Base, Next
    PROVE  /\ policies' = policies
           /\ Quiet \/ Counts \/ Writes
<1>1. CASE \E p \in Payloads : Create(p)
  BY <1>1 DEF Create, Writes
<1>2. CASE \E x \in Web : Page(x)
  <2>1. PICK x \in Web : Page(x)
    BY <1>2
  <2>2. CASE OpenEdit(x) \/ OpenForm(x) \/ OpenBudget(x)
    BY <2>2 DEF OpenEdit, OpenForm, OpenBudget, Get, Quiet
  <2>3. CASE \E p \in Payloads : CheckEdit(x, p)
    BY <2>3 DEF CheckEdit, Quiet
  <2>4. CASE SaveEdit(x)
    BY <2>4 DEF SaveEdit, Writes
  <2>5. CASE \E p \in Payloads : SaveForm(x, p.about)
    BY <2>5 DEF SaveForm, Writes
  <2>6. CASE \E v \in Costs : AddOtherCost(x, v)
    BY <2>6 DEF AddOtherCost, Writes
  <2>7. CASE SumOnPage(x)
    BY <2>7 DEF SumOnPage, Summing, Quiet
  <2>8. CASE WriteTotal(x)
    BY <2>8 DEF WriteTotal, Writes, Processes
  <2> QED BY <2>1, <2>2, <2>3, <2>4, <2>5, <2>6, <2>7, <2>8 DEF Page
<1>3. CASE \E x \in Tasks : Recalculate(x)
  <2>1. PICK x \in Tasks : Recalculate(x)
    BY <1>3
  <2>2. CASE SumHourly(x)
    BY <2>2 DEF SumHourly, Summing, Quiet
  <2>3. CASE WriteTotal(x)
    BY <2>3 DEF WriteTotal, Writes, Processes
  <2> QED BY <2>1, <2>2, <2>3 DEF Recalculate
<1>4. CASE \E x \in Processes : Drop(x)
  BY <1>4 DEF Drop, Quiet
<1>5. CASE Delete
  BY <1>5 DEF Delete, Writes
<1>6. CASE \E i \in DOMAIN lines["events"], n \in Headcounts \cup {NULL} : SetAttendance(i, n)
  <2>1. PICK i \in DOMAIN lines["events"], n \in Headcounts \cup {NULL} : SetAttendance(i, n)
    BY <1>6
  <2>2. \E e : OneLine("events", i, e)
    BY <2>1, AttendanceIs
  <2> QED BY <2>1, <2>2 DEF Counts, SetAttendance
<1>7. CASE Finance
  <2>1. PICK status, rejected : SetStatus(status, rejected)
    BY <1>7, FinanceIs
  <2> QED BY <1>7, <2>1 DEF SetStatus, Writes
<1>8. CASE \E l \in Leads, id \in Ids \cup {Gone} : LinkLead(l, id)
  BY <1>8, LinkCounts DEF LinkLead
<1> QED BY <1>1, <1>2, <1>3, <1>4, <1>5, <1>6, <1>7, <1>8 DEF Next

LEMMA BaseStep ==
    ASSUME Base, [Next]_vars
    PROVE  Base'
<1>1. CASE \E p \in Payloads : Create(p)
  BY <1>1, BaseCreate
<1>2. CASE \E x \in Web : Page(x)
  <2>1. PICK x \in Web : Page(x)
    BY <1>2
  <2>2. CASE OpenEdit(x) \/ OpenForm(x) \/ OpenBudget(x)
    <3>1. Shape
      BY DEF Base
    <3> QED BY <2>2, <3>1, OpenIs, BaseOpen
  <2>3. CASE \E p \in Payloads : CheckEdit(x, p)
    BY <2>3, BaseCheckEdit
  <2>4. CASE SaveEdit(x)
    BY <2>4, BaseSaveEdit
  <2>5. CASE \E p \in Payloads : SaveForm(x, p.about)
    BY <2>5, BaseSaveForm
  <2>6. CASE \E v \in Costs : AddOtherCost(x, v)
    BY <2>6, BaseAddOtherCost
  <2>7. CASE SumOnPage(x) \/ WriteTotal(x)
    BY <2>7, BaseRecalculate DEF SumOnPage, Processes
  <2> QED BY <2>1, <2>2, <2>3, <2>4, <2>5, <2>6, <2>7 DEF Page
<1>3. CASE \E x \in Tasks : Recalculate(x)
  BY <1>3, BaseRecalculate DEF Recalculate, SumHourly, Processes
<1>4. CASE \E x \in Processes : Drop(x)
  BY <1>4, BaseDrop
<1>5. CASE Delete
  BY <1>5, BaseDelete
<1>6. CASE \E i \in DOMAIN lines["events"], n \in Headcounts \cup {NULL} : SetAttendance(i, n)
  BY <1>6, AttendanceIs, OneLineIs
<1>7. CASE Finance
  BY <1>7, FinanceIs, BaseSetStatus
<1>8. CASE \E l \in Leads, id \in Ids \cup {Gone} : LinkLead(l, id)
  <2>1. PICK l \in Leads, id \in Ids \cup {Gone} : LinkLead(l, id)
    BY <1>8
  <2>2. CASE id = Gone
    <3>1. row' = row /\ lines' = lines /\ policies' = policies /\ request' = request
      BY <2>1, <2>2 DEF LinkLead
    <3>2. SeenInv'
      BY <3>1, SeenKept DEF Base
    <3> QED BY <3>1, <3>2 DEF Base, Shape, LinesShape, RequestShape, Exists, Status
  <2>3. CASE id \in Ids
    <3>1. PICK k \in Types : \E i \in DOMAIN lines[k] : id = <<k, i>>
      BY <2>3 DEF Ids
    <3>2. PICK i \in DOMAIN lines[k] : id = <<k, i>>
      BY <3>1
    <3>3. PICK e : OneLine(k, i, e)
      BY <2>1, <3>2, LinkIs
    <3> QED BY <3>3, OneLineIs
  <2> QED BY <2>1, <2>2, <2>3
<1>9. CASE UNCHANGED vars
  <2>1. row' = row /\ lines' = lines /\ policies' = policies /\ request' = request
    BY <1>9 DEF vars
  <2>2. SeenInv'
    BY <2>1, SeenKept DEF Base
  <2> QED BY <2>1, <2>2 DEF Base, Shape, LinesShape, RequestShape, Exists, Status
<1> QED BY <1>1, <1>2, <1>3, <1>4, <1>5, <1>6, <1>7, <1>8, <1>9 DEF Next

\* What is known of the campaign and of the requests that work on it.
THEOREM BaseHolds == Spec => []Base
<1>1. Init => Base
  BY BaseInit
<1>2. Base /\ [Next]_vars => Base'
  BY BaseStep
<1> QED BY <1>1, <1>2, PTL DEF Spec

-----------------------------------------------------------------------------
(***************************************************************************)
(* Decisions and headcounts.                                               *)
(***************************************************************************)

LEMMA SameItems ==
    ASSUME lines' = lines
    PROVE  AllItems' = AllItems
BY DEF AllItems, Items

LEMMA QuietIs ==
    ASSUME Base, Quiet \/ Counts
    PROVE  row' = row /\ AllItems' = AllItems
<1>1. CASE Quiet
  BY <1>1, SameItems DEF Quiet
<1>2. CASE Counts
  BY <1>2, OneLineIs DEF Counts, OneLine
<1> QED BY <1>1, <1>2

\* An edit that a decision did not overtake reopens a decided campaign.
LEMMA EditReopens ==
    ASSUME Base, NEW x \in Web, SaveEdit(x), Required,
           row.status \in Decided, row'.status = row.status
    PROVE  request[x].overtaken
<1>1. /\ At(x, "checked")
      /\ row'.status = IF Resets(request[x]) THEN "PENDING" ELSE row.status
  BY DEF SaveEdit
<1>2. request[x].overtaken \/ row.status \in {request[x].status, "PENDING", "DELETED"}
  BY <1>1 DEF Base, SeenInv
<1>3. row.status \notin {"PENDING", "DELETED"}
  BY DEF Decided
<1> QED BY <1>1, <1>2, <1>3 DEF Resets

\* The other doors are closed on an approved campaign, where they can be.
LEMMA DoorsClosed ==
    ASSUME Base, NEW x \in Web, At(x, "form") \/ At(x, "budget")
    PROVE  request[x].overtaken \/ ~Restricted \/ row.status \notin {"APPROVED", "SEMI_APPROVED"}
BY DEF Base, SeenInv

\* A request writes and is done.
LEMMA WroteIs ==
    ASSUME Base, NEW x \in Processes, NEW place, At(x, place), place # "free", Done(x)
    PROVE  Wrote(x) \/ (row' = row /\ lines' = lines)
<1>1. request'[x] = Free
  BY DoneIs DEF Base, Shape
<1> QED BY <1>1 DEF Wrote, At

LEMMA DecisionStep ==
    ASSUME Base, Next, Required, row.status \in Decided, row'.status = row.status
    PROVE  \/ Content' = Content
           \/ \E x \in Web : /\ Wrote(x)
                             /\ \/ request[x].overtaken
                                \/ /\ At(x, "form") \/ At(x, "budget")
                                   /\ ~Restricted \/ row.status = "NOT_APPROVED"
<1>1. row.status \notin {"NONE", "PENDING", "DELETED"}
  BY DEF Decided
<1>2. row' = row /\ lines' = lines => Content' = Content
  BY SameItems DEF Content
<1>3. CASE Quiet \/ Counts
  BY <1>3, QuietIs DEF Content
<1>4. CASE \E p \in Payloads : Create(p)
  BY <1>1, <1>4 DEF Create
<1>5. ASSUME NEW x \in Web, SaveEdit(x)
      PROVE  Content' = Content \/ (Wrote(x) /\ request[x].overtaken)
  <2>1. x \in Processes /\ At(x, "checked") /\ Done(x)
    BY <1>5 DEF SaveEdit, Processes
  <2> QED BY <1>2, <1>5, <2>1, EditReopens, WroteIs
<1>6. ASSUME NEW x \in Web, At(x, "form") \/ At(x, "budget"), Done(x)
      PROVE  \/ Content' = Content
             \/ /\ Wrote(x)
                /\ \/ request[x].overtaken
                   \/ /\ At(x, "form") \/ At(x, "budget")
                      /\ ~Restricted \/ row.status = "NOT_APPROVED"
  <2>1. Wrote(x) \/ (row' = row /\ lines' = lines)
    BY <1>6, WroteIs DEF Processes
  <2>2. request[x].overtaken \/ ~Restricted \/ row.status = "NOT_APPROVED"
    BY <1>6, DoorsClosed DEF Decided
  <2> QED BY <1>2, <1>6, <2>1, <2>2
<1>7. CASE \E x \in Web : \E p \in Payloads : SaveForm(x, p.about)
  BY <1>6, <1>7 DEF SaveForm
<1>8. CASE \E x \in Web : \E v \in Costs : AddOtherCost(x, v)
  BY <1>6, <1>8 DEF AddOtherCost
<1>9. CASE \E x \in Processes : WriteTotal(x)
  <2>1. PICK total : row' = [row EXCEPT !.total = total] /\ lines' = lines
    BY <1>9 DEF WriteTotal
  <2> QED BY <2>1, SameItems DEF Content, Base, Shape, Status
<1>10. CASE Delete
  BY <1>1, <1>10 DEF Delete, Base, Shape, Status
<1>11. CASE Finance
  <2>1. PICK status, rejected : SetStatus(status, rejected)
    BY <1>11, FinanceIs
  <2>2. PICK total, keys :
           row' = [row EXCEPT !.status = status, !.total = total, !.rejected = keys]
    BY <2>1 DEF SetStatus
  <2>3. lines' = lines
    BY <2>1 DEF SetStatus
  <2> QED BY <2>2, <2>3, SameItems DEF Content, Base, Shape, Status
<1> QED BY <1>3, <1>4, <1>5, <1>7, <1>8, <1>9, <1>10, <1>11, StepIs DEF Writes

\* What a company has decided is only changed by a request that reopens the campaign, by
\* one the decision overtook, or through the two doors where they are open.
THEOREM DecisionsHold == Spec => DecisionsStand
<1>1. Base /\ [Next]_vars =>
        [Required /\ row.status \in Decided /\ row'.status = row.status
          => \/ Content' = Content
             \/ \E x \in Web : /\ Wrote(x)
                               /\ \/ request[x].overtaken
                                  \/ /\ At(x, "form") \/ At(x, "budget")
                                     /\ ~Restricted \/ row.status = "NOT_APPROVED"]_vars
  BY DecisionStep
<1> QED BY <1>1, BaseHolds, PTL DEF Spec, DecisionsStand

LEMMA BudgetKept ==
    ASSUME row'.status = row.status, row'.total = row.total, row'.rejected = row.rejected,
           AllItems' = AllItems
    PROVE  ApprovedBudget(row, AllItems)' = ApprovedBudget(row, AllItems)
BY DEF ApprovedBudget

LEMMA ApprovedStep ==
    ASSUME Base, Next, Restricted, row.status \in {"APPROVED", "SEMI_APPROVED"},
           row'.status = row.status
    PROVE  \/ ApprovedBudget(row, AllItems)' = ApprovedBudget(row, AllItems)
           \/ Finance
           \/ \E x \in Processes : Wrote(x) /\ (request[x].overtaken \/ At(x, "summed"))
<1>1. row.status \notin {"NONE", "PENDING", "DELETED"} /\ row.status \in Decided /\ Required
  BY DEF Decided, Required, Restricted
<1>2. row' = row /\ lines' = lines
        => ApprovedBudget(row, AllItems)' = ApprovedBudget(row, AllItems)
  BY SameItems, BudgetKept
<1>3. CASE Quiet \/ Counts
  BY <1>3, QuietIs, BudgetKept
<1>4. CASE \E p \in Payloads : Create(p)
  BY <1>1, <1>4 DEF Create
<1>5. ASSUME NEW x \in Web, SaveEdit(x)
      PROVE  \/ ApprovedBudget(row, AllItems)' = ApprovedBudget(row, AllItems)
             \/ x \in Processes /\ Wrote(x) /\ request[x].overtaken
  <2>1. x \in Processes /\ At(x, "checked") /\ Done(x)
    BY <1>5 DEF SaveEdit, Processes
  <2> QED BY <1>1, <1>2, <1>5, <2>1, EditReopens, WroteIs
<1>6. CASE \E x \in Web : \E p \in Payloads : SaveForm(x, p.about)
  <2>1. PICK about : row' = [row EXCEPT !.about = about] /\ lines' = lines
    BY <1>6 DEF SaveForm
  <2> QED BY <2>1, SameItems, BudgetKept DEF Base, Shape, Status
<1>7. ASSUME NEW x \in Web, NEW v, AddOtherCost(x, v)
      PROVE  \/ ApprovedBudget(row, AllItems)' = ApprovedBudget(row, AllItems)
             \/ x \in Processes /\ Wrote(x) /\ request[x].overtaken
  <2>1. x \in Processes /\ At(x, "budget") /\ Done(x)
    BY <1>7 DEF AddOtherCost, Processes
  <2> QED BY <1>2, <2>1, DoorsClosed, WroteIs
<1>8. ASSUME NEW x \in Processes, WriteTotal(x)
      PROVE  \/ ApprovedBudget(row, AllItems)' = ApprovedBudget(row, AllItems)
             \/ Wrote(x) /\ At(x, "summed")
  <2>1. At(x, "summed") /\ Done(x)
    BY <1>8 DEF WriteTotal
  <2> QED BY <1>2, <2>1, WroteIs
<1>9. CASE Delete
  BY <1>1, <1>9 DEF Delete, Base, Shape, Status
<1> QED BY <1>3, <1>4, <1>5, <1>6, <1>7, <1>8, <1>9, StepIs DEF Writes

\* The budget that finance approved stands until finance decides again, but for requests
\* the decision overtook and late recalculations.
THEOREM ApprovedAmountHolds == Spec => ApprovedAmountStands
<1>1. Base /\ [Next]_vars =>
        [Restricted /\ row.status \in {"APPROVED", "SEMI_APPROVED"} /\ row'.status = row.status
          => \/ ApprovedBudget(row, AllItems)' = ApprovedBudget(row, AllItems)
             \/ Finance
             \/ \E x \in Processes : Wrote(x) /\ (request[x].overtaken \/ At(x, "summed"))]_vars
  BY ApprovedStep
<1> QED BY <1>1, BaseHolds, PTL DEF Spec, ApprovedAmountStands

LEMMA SameAttendance ==
    ASSUME lines'["events"] = lines["events"]
    PROVE  Attendance' = Attendance
BY DEF Attendance

LEMMA RebuiltAttendance ==
    ASSUME Base, NEW p \in Payloads, lines' = Rebuilt(p)
    PROVE  \A i \in DOMAIN lines'["events"] :
               LET before == Recorded(lines'["events"][i].item.name)
                   after == lines'["events"][i].attended
               IN IF before = {} THEN after = NULL ELSE after \in before
<1> SUFFICES ASSUME NEW i \in DOMAIN lines'["events"], NEW name, NEW after,
                    name = lines'["events"][i].item.name,
                    after = lines'["events"][i].attended
             PROVE  IF Recorded(name) = {} THEN after = NULL ELSE after \in Recorded(name)
  OBVIOUS
<1>1. after = Attended(name)
  <2>1. "events" \in Kinds
    BY DEF Kinds, Types
  <2>2. lines'["events"] = [j \in DOMAIN p.lines["events"] |->
           [item |-> p.lines["events"][j], leads |-> 0,
            attended |-> Attended(p.lines["events"][j].name)]]
    BY <2>1 DEF Rebuilt
  <2> QED BY <2>2
<1>2. LinesShape
  BY DEF Base, Shape
<1> QED BY <1>1, <1>2, AttendedIs

LEMMA AttendanceStep ==
    ASSUME Base, Next, Exists, Exists'
    PROVE  \/ \E i \in DOMAIN lines["events"], n \in Headcounts \cup {NULL} : SetAttendance(i, n)
           \/ Attendance' = Attendance
           \/ \A i \in DOMAIN lines'["events"] :
                  LET before == Recorded(lines'["events"][i].item.name)
                      after == lines'["events"][i].attended
                  IN IF before = {} THEN after = NULL ELSE after \in before
<1>1. row.status \notin {"NONE", "DELETED"} /\ row'.status \notin {"NONE", "DELETED"}
  BY DEF Exists, Statuses, Decided
<1>2. CASE Quiet
  BY <1>2, SameAttendance DEF Quiet
<1>3. CASE Counts
  <2>1. PICK k, i, e :
           /\ OneLine(k, i, e)
           /\ \/ e.attended = lines[k][i].attended
              \/ \E n \in Headcounts \cup {NULL} : k = "events" /\ SetAttendance(i, n)
    BY <1>3 DEF Counts
  <2>2. CASE \E n \in Headcounts \cup {NULL} : k = "events" /\ SetAttendance(i, n)
    BY <2>2 DEF SetAttendance
  <2>3. CASE e.attended = lines[k][i].attended
    <3>1. e.item = lines[k][i].item /\ "events" \in Kinds
      BY <2>1 DEF OneLine, Kinds, Types
    <3>2. /\ DOMAIN lines'["events"] = DOMAIN lines["events"]
          /\ \A j \in DOMAIN lines["events"] :
                lines'["events"][j] = IF "events" = k /\ j = i THEN e ELSE lines["events"][j]
      BY <2>1, <3>1, OneLineIs
    <3>3. Attendance' = Attendance
      BY <2>3, <3>1, <3>2 DEF Attendance
    <3> QED BY <3>3
  <2> QED BY <2>1, <2>2, <2>3
<1>4. CASE \E p \in Payloads : Create(p)
  BY <1>1, <1>4 DEF Create
<1>5. CASE \E x \in Web : SaveEdit(x)
  <2>1. PICK x \in Web : SaveEdit(x)
    BY <1>5
  <2>2. request[x].payload \in Payloads
    BY <2>1 DEF SaveEdit, Base, Shape, RequestShape, Step, At, Processes
  <2> QED BY <2>1, <2>2, RebuiltAttendance DEF SaveEdit
<1>6. CASE \E x \in Web : \E p \in Payloads : SaveForm(x, p.about)
  BY <1>6, SameAttendance DEF SaveForm
<1>7. CASE \E x \in Web : \E v \in Costs : AddOtherCost(x, v)
  <2>1. lines'["events"] = lines["events"]
    BY <1>7 DEF AddOtherCost, Base, Shape, LinesShape, Kinds, Types
  <2> QED BY <2>1, SameAttendance
<1>8. CASE \E x \in Processes : WriteTotal(x)
  BY <1>8, SameAttendance DEF WriteTotal
<1>9. CASE Delete
  BY <1>1, <1>9 DEF Delete, Base, Shape, Status
<1>10. CASE Finance
  <2>1. PICK status, rejected : SetStatus(status, rejected)
    BY <1>10, FinanceIs
  <2> QED BY <2>1, SameAttendance DEF SetStatus
<1> QED BY <1>2, <1>3, <1>4, <1>5, <1>6, <1>7, <1>8, <1>9, <1>10, StepIs DEF Writes

\* Headcounts are only changed on their own control, and an edit keeps for an event one
\* that was recorded for its name.
THEOREM AttendanceHolds == Spec => AttendanceSurvives
<1>1. Base /\ [Next]_vars =>
        [Exists /\ Exists' =>
          \/ \E i \in DOMAIN lines["events"], n \in Headcounts \cup {NULL} : SetAttendance(i, n)
          \/ Attendance' = Attendance
          \/ \A i \in DOMAIN lines'["events"] :
                 LET before == Recorded(lines'["events"][i].item.name)
                     after == lines'["events"][i].attended
                 IN IF before = {} THEN after = NULL ELSE after \in before]_vars
  BY AttendanceStep
<1> QED BY <1>1, BaseHolds, PTL DEF Spec, AttendanceSurvives

-----------------------------------------------------------------------------
(***************************************************************************)
(* Counters.                                                               *)
(***************************************************************************)

CountersInv == SourcesInv /\ CountersMatchAttributions

LEMMA KeysAre ==
    ASSUME LinesShape, NEW k \in Types, NEW i \in DOMAIN lines[k]
    PROVE  <<k, i>> # NULL /\ <<k, i>> # Gone
<1>1. i \in Nat
  <2>1. DOMAIN lines[k] = 1..Len(lines[k]) /\ Len(lines[k]) \in Nat
    BY LineIs DEF Kinds
  <2> QED BY <2>1
<1>2. NULL \notin Types \X Nat
  BY Inputs DEF Inputs
<1> QED BY <1>1, <1>2 DEF Gone, Types

LEMMA CountersSame ==
    ASSUME CountersInv, source' = source, row'.status = "NONE" => row.status = "NONE",
           \A k \in Types : /\ DOMAIN lines'[k] = DOMAIN lines[k]
                            /\ \A i \in DOMAIN lines[k] : lines'[k][i].leads = lines[k][i].leads
    PROVE  CountersInv'
<1>1. Ids' = Ids
  BY DEF Ids
<1>2. SourcesInv'
  BY <1>1 DEF CountersInv, SourcesInv
<1>3. CountersMatchAttributions'
  <2> SUFFICES ASSUME NEW k \in Types, NEW i \in DOMAIN lines'[k]
               PROVE  lines'[k][i].leads = Cardinality({l \in Leads : source'[l] = <<k, i>>})
    BY DEF CountersMatchAttributions
  <2>1. i \in DOMAIN lines[k] /\ lines'[k][i].leads = lines[k][i].leads
    OBVIOUS
  <2>2. lines[k][i].leads = Cardinality({l \in Leads : source[l] = <<k, i>>})
    BY <2>1 DEF CountersInv, CountersMatchAttributions
  <2>3. {l \in Leads : source'[l] = <<k, i>>} = {l \in Leads : source[l] = <<k, i>>}
    OBVIOUS
  <2> QED BY <2>1, <2>2, <2>3
<1> QED BY <1>2, <1>3 DEF CountersInv

LEMMA LinesSame ==
    ASSUME CountersInv, source' = source, row'.status = "NONE" => row.status = "NONE",
           lines' = lines
    PROVE  CountersInv'
BY CountersSame

LEMMA CountersAnew ==
    ASSUME LinesShape', DOMAIN source' = Leads, source' = [l \in Leads |-> source'[l]],
           \A l \in Leads : source'[l] \in {NULL, Gone},
           row'.status = "NONE" => \A l \in Leads : source'[l] = NULL,
           \A k \in Types : \A i \in DOMAIN lines'[k] : lines'[k][i].leads = 0
    PROVE  CountersInv'
<1>1. SourcesInv'
  BY DEF SourcesInv
<1>2. CountersMatchAttributions'
  <2> SUFFICES ASSUME NEW k \in Types, NEW i \in DOMAIN lines'[k]
               PROVE  lines'[k][i].leads = Cardinality({l \in Leads : source'[l] = <<k, i>>})
    BY DEF CountersMatchAttributions
  <2>1. <<k, i>> # NULL /\ <<k, i>> # Gone
    <3>1. i \in Nat
      <4>1. lines'[k] \in Seq(AnyLine)
        BY DEF LinesShape, Kinds
      <4> QED BY <4>1
    <3>2. NULL \notin Types \X Nat
      BY Inputs DEF Inputs
    <3> QED BY <3>1, <3>2 DEF Gone, Types
  <2>2. {l \in Leads : source'[l] = <<k, i>>} = {}
    BY <2>1
  <2> QED BY <2>2, FS_EmptySet
<1> QED BY <1>1, <1>2 DEF CountersInv

LEMMA CountersInit == ASSUME Init PROVE CountersInv
<1>1. \A k \in Types : DOMAIN lines[k] = {}
  <2>1. DOMAIN << >> = {}
    OBVIOUS
  <2> QED BY <2>1 DEF Init, Kinds
<1> QED BY <1>1 DEF Init, CountersInv, SourcesInv, CountersMatchAttributions

LEMMA CountersLink ==
    ASSUME Base, CountersInv, NEW l \in Leads, NEW k \in Types, NEW i \in DOMAIN lines[k],
           LinkLead(l, <<k, i>>)
    PROVE  CountersInv'
<1>1. /\ source[l] = NULL /\ source' = [source EXCEPT ![l] = <<k, i>>]
      /\ row' = row /\ Exists
  BY DEF LinkLead
<1>2. \A m \in Leads : source'[m] = IF m = l THEN <<k, i>> ELSE source[m]
  BY <1>1 DEF CountersInv, SourcesInv
<1>3. PICK e : OneLine(k, i, e) /\ e.leads = lines[k][i].leads + 1
  BY LinkIs
<1>4. \A h \in Types : /\ DOMAIN lines'[h] = DOMAIN lines[h]
                       /\ \A j \in DOMAIN lines[h] :
                             lines'[h][j] = IF h = k /\ j = i THEN e ELSE lines[h][j]
  BY <1>3, OneLineIs DEF Kinds
<1>5. Ids' = Ids /\ <<k, i>> \in Ids
  BY <1>4 DEF Ids
<1>6. SourcesInv'
  <2>1. row'.status # "NONE"
    BY <1>1 DEF Exists, Statuses, Decided
  <2>2. source' \in [Leads -> Ids \cup {NULL, Gone}]
    BY <1>1, <1>5 DEF CountersInv, SourcesInv
  <2> QED BY <1>5, <2>1, <2>2 DEF SourcesInv
<1>7. CountersMatchAttributions'
  <2> SUFFICES ASSUME NEW h \in Types, NEW j \in DOMAIN lines'[h]
               PROVE  lines'[h][j].leads = Cardinality({m \in Leads : source'[m] = <<h, j>>})
    BY DEF CountersMatchAttributions
  <2>1. PICK S : S = {m \in Leads : source[m] = <<h, j>>}
    OBVIOUS
  <2>5. j \in DOMAIN lines[h]
    BY <1>4
  <2>6. lines[h][j].leads = Cardinality({m \in Leads : source[m] = <<h, j>>})
    BY <2>5 DEF CountersInv, CountersMatchAttributions
  <2>2. lines[h][j].leads = Cardinality(S) /\ j \in DOMAIN lines[h]
    BY <2>1, <2>5, <2>6
  <2>3. CASE h = k /\ j = i
    <3>1. {m \in Leads : source'[m] = <<h, j>>} = S \cup {l}
      BY <1>2, <2>1, <2>3
    <3>2. l \notin S
      <4>1. <<k, i>> # NULL
        BY KeysAre DEF Base, Shape
      <4> QED BY <1>1, <2>1, <2>3, <4>1
    <3>3. IsFiniteSet(S)
      BY <2>1, Inputs, FS_Subset DEF Inputs
    <3>4. Cardinality(S \cup {l}) = Cardinality(S) + 1
      BY <3>2, <3>3, FS_AddElement
    <3> QED BY <1>3, <1>4, <2>2, <2>3, <3>1, <3>4
  <2>4. CASE ~(h = k /\ j = i)
    <3>1. {m \in Leads : source'[m] = <<h, j>>} = S
      <4>1. <<k, i>> # <<h, j>>
        BY <2>4
      <4>2. source[l] # <<h, j>>
        <5>1. <<h, j>> # NULL
          BY <2>2, KeysAre DEF Base, Shape
        <5> QED BY <1>1, <5>1
      <4> QED BY <1>2, <2>1, <4>1, <4>2
    <3> QED BY <1>4, <2>2, <2>4, <3>1
  <2> QED BY <2>3, <2>4
<1> QED BY <1>6, <1>7 DEF CountersInv

LEMMA CountersTotal ==
    ASSUME Base, CountersInv, NEW x, WriteTotal(x)
    PROVE  CountersInv'
<1>1. PICK total : row' = [row EXCEPT !.total = total] /\ lines' = lines /\ source' = source
  BY DEF WriteTotal
<1> QED BY <1>1, LinesSame DEF Base, Shape, Status

LEMMA CountersPage ==
    ASSUME Base, CountersInv, NEW x \in Web, Page(x)
    PROVE  CountersInv'
<1>1. CASE OpenEdit(x) \/ OpenForm(x) \/ OpenBudget(x)
  BY <1>1, LinesSame DEF OpenEdit, OpenForm, OpenBudget, Get
<1>2. CASE \E p \in Payloads : CheckEdit(x, p)
  BY <1>2, LinesSame DEF CheckEdit
<1>3. CASE SaveEdit(x)
  <2>1. PICK p \in Payloads : lines' = Rebuilt(p)
    BY <1>3 DEF SaveEdit, Base, Shape, RequestShape, Step, At, Processes
  <2>2. LinesShape' /\ \A k \in Kinds : \A i \in DOMAIN lines'[k] : lines'[k][i].leads = 0
    BY <2>1, RebuiltIs DEF Base, Shape, LinesShape
  <2>3. source' = [l \in Leads |-> IF source[l] = NULL THEN NULL ELSE Gone]
    BY <1>3 DEF SaveEdit
  <2>4. row'.status # "NONE"
    <3>1. row'.status \in {row.status, "PENDING"} /\ row.status \in Statuses
      BY <1>3 DEF SaveEdit, Exists
    <3> QED BY <3>1 DEF Statuses, Decided
  <2> QED BY <2>2, <2>3, <2>4, CountersAnew DEF Kinds
<1>4. CASE \E p \in Payloads : SaveForm(x, p.about)
  <2>1. PICK about : row' = [row EXCEPT !.about = about] /\ lines' = lines /\ source' = source
    BY <1>4 DEF SaveForm
  <2> QED BY <2>1, LinesSame DEF Base, Shape, Status
<1>5. CASE \E v \in Costs : AddOtherCost(x, v)
  <2>1. PICK total : row' = [row EXCEPT !.total = total] /\ source' = source
    BY <1>5 DEF AddOtherCost
  <2>2. \A k \in Types : lines'[k] = lines[k]
    BY <1>5 DEF AddOtherCost, Base, Shape, LinesShape, Kinds, Types
  <2>3. row'.status = row.status
    BY <2>1 DEF Base, Shape, Status
  <2> QED BY <2>1, <2>2, <2>3, CountersSame
<1>6. CASE SumOnPage(x)
  BY <1>6, LinesSame DEF SumOnPage, Summing
<1>7. CASE WriteTotal(x)
  BY <1>7, CountersTotal
<1> QED BY <1>1, <1>2, <1>3, <1>4, <1>5, <1>6, <1>7 DEF Page

LEMMA CountersStep ==
    ASSUME Base, CountersInv, [Next]_vars
    PROVE  CountersInv'
<1>1. CASE \E p \in Payloads : Create(p)
  <2>1. PICK p \in Payloads : Create(p)
    BY <1>1
  <2>2. LinesShape' /\ \A k \in Kinds : \A i \in DOMAIN lines'[k] : lines'[k][i].leads = 0
    BY <2>1, RebuiltIs DEF Create, Base, Shape, LinesShape
  <2>3. source' = source /\ \A l \in Leads : source[l] = NULL
    BY <2>1 DEF Create, CountersInv, SourcesInv
  <2> QED BY <2>2, <2>3, CountersAnew DEF Kinds, CountersInv, SourcesInv
<1>2. CASE \E x \in Web : Page(x)
  BY <1>2, CountersPage
<1>3. CASE \E x \in Tasks : Recalculate(x)
  <2>1. PICK x \in Tasks : Recalculate(x)
    BY <1>3
  <2>2. CASE SumHourly(x)
    BY <2>2, LinesSame DEF SumHourly, Summing
  <2>3. CASE WriteTotal(x)
    BY <2>3, CountersTotal
  <2> QED BY <2>1, <2>2, <2>3 DEF Recalculate
<1>4. CASE \E x \in Processes : Drop(x)
  BY <1>4, LinesSame DEF Drop
<1>5. CASE Delete
  <2>1. source' = [l \in Leads |-> NULL] /\ lines' = [k \in Kinds |-> << >>]
    BY <1>5 DEF Delete
  <2>2. \A k \in Types : DOMAIN lines'[k] = {}
    <3>1. DOMAIN << >> = {}
      OBVIOUS
    <3> QED BY <2>1, <3>1 DEF Kinds
  <2>3. LinesShape'
    BY <2>1, EmptySeq DEF LinesShape
  <2> QED BY <2>1, <2>2, <2>3, CountersAnew
<1>6. CASE \E i \in DOMAIN lines["events"], n \in Headcounts \cup {NULL} : SetAttendance(i, n)
  <2>1. PICK i \in DOMAIN lines["events"], n \in Headcounts \cup {NULL} : SetAttendance(i, n)
    BY <1>6
  <2>2. PICK e : OneLine("events", i, e) /\ e.leads = lines["events"][i].leads
    BY <2>1, AttendanceIs
  <2>3. \A k \in Types : /\ DOMAIN lines'[k] = DOMAIN lines[k]
                         /\ \A j \in DOMAIN lines[k] : lines'[k][j].leads = lines[k][j].leads
    BY <2>2, OneLineIs DEF Kinds
  <2> QED BY <2>1, <2>3, CountersSame DEF SetAttendance
<1>7. CASE Finance
  <2>1. PICK status \in Statuses : \E rejected : SetStatus(status, rejected)
    BY <1>7, FinanceIs
  <2>2. \E total, keys :
           row' = [row EXCEPT !.status = status, !.total = total, !.rejected = keys]
    BY <2>1 DEF SetStatus
  <2>3. row'.status # "NONE"
    BY <2>2 DEF Base, Shape, Status, Statuses, Decided
  <2>4. lines' = lines /\ source' = source
    BY <2>1 DEF SetStatus
  <2> QED BY <2>3, <2>4, LinesSame
<1>8. CASE \E l \in Leads, id \in Ids \cup {Gone} : LinkLead(l, id)
  <2>1. PICK l \in Leads, id \in Ids \cup {Gone} : LinkLead(l, id)
    BY <1>8
  <2>2. CASE id \in Ids
    <3>1. PICK k \in Types : \E i \in DOMAIN lines[k] : id = <<k, i>>
      BY <2>2 DEF Ids
    <3> QED BY <2>1, <3>1, CountersLink
  <2>3. CASE id = Gone
    <3>1. /\ lines' = lines /\ row' = row /\ Exists /\ source[l] = NULL
          /\ source' = [source EXCEPT ![l] = Gone]
      BY <2>1, <2>3 DEF LinkLead
    <3>2. \A m \in Leads : source'[m] = IF m = l THEN Gone ELSE source[m]
      BY <3>1 DEF CountersInv, SourcesInv
    <3>3. SourcesInv'
      <4>1. row'.status # "NONE" /\ Ids' = Ids
        BY <3>1 DEF Exists, Statuses, Decided, Ids
      <4> QED BY <3>1, <4>1 DEF CountersInv, SourcesInv
    <3>4. CountersMatchAttributions'
      <4> SUFFICES ASSUME NEW k \in Types, NEW i \in DOMAIN lines[k]
                   PROVE  {m \in Leads : source'[m] = <<k, i>>}
                            = {m \in Leads : source[m] = <<k, i>>}
        BY <3>1 DEF CountersInv, CountersMatchAttributions
      <4>1. <<k, i>> # NULL /\ <<k, i>> # Gone
        BY KeysAre DEF Base, Shape
      <4> QED BY <3>1, <3>2, <4>1
    <3> QED BY <3>3, <3>4 DEF CountersInv
  <2> QED BY <2>1, <2>2, <2>3
<1>9. CASE UNCHANGED vars
  BY <1>9, LinesSame DEF vars
<1> QED BY <1>1, <1>2, <1>3, <1>4, <1>5, <1>6, <1>7, <1>8, <1>9 DEF Next

\* The counter of a child record is the number of leads that are attributed to it.
THEOREM CountersHold == Spec => []CountersMatchAttributions
<1>1. Init => CountersInv
  BY CountersInit
<1>2. Base /\ CountersInv /\ [Next]_vars => CountersInv'
  BY CountersStep
<1>3. CountersInv => CountersMatchAttributions
  BY DEF CountersInv
<1> QED BY <1>1, <1>2, <1>3, BaseHolds, PTL DEF Spec
=============================================================================
